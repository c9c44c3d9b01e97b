---------------------------- MODULE OrderPipeline ----------------------------
(***************************************************************************)
(* What the shop promises (cw07/zad/README.md): orders wait to be packed,  *)
(* then wait to be sent, are handled in the order they came in, each one   *)
(* exactly once by a packer and exactly once by a sender, and never more   *)
(* than Capacity of them wait.                                             *)
(***************************************************************************)
EXTENDS Naturals, Sequences

CONSTANTS Capacity, Order, NoOrder, Packer, Sender

VARIABLES
    unpacked,   \* orders received and not packed, oldest first
    packed,     \* orders packed and not sent, oldest first
    handled     \* the last order each packer or sender worked on

vars == <<unpacked, packed, handled>>

Init ==
    /\ unpacked = <<>>
    /\ packed = <<>>
    /\ handled = [w \in Packer \cup Sender |-> NoOrder]

Receive(o) ==
    /\ Len(unpacked) + Len(packed) < Capacity
    /\ unpacked' = Append(unpacked, o)
    /\ UNCHANGED <<packed, handled>>

Pack(w) ==
    /\ unpacked # <<>>
    /\ unpacked' = Tail(unpacked)
    /\ packed' = Append(packed, Head(unpacked))
    /\ handled' = [handled EXCEPT ![w] = Head(unpacked)]

Send(w) ==
    /\ packed # <<>>
    /\ packed' = Tail(packed)
    /\ handled' = [handled EXCEPT ![w] = Head(packed)]
    /\ UNCHANGED unpacked

Next ==
    \/ \E o \in Order : Receive(o)
    \/ \E w \in Packer : Pack(w)
    \/ \E w \in Sender : Send(w)

Spec == Init /\ [][Next]_vars
=============================================================================
