----------------------------- MODULE WaitingRoom -----------------------------
(***************************************************************************)
(* What the barber shop promises (cw09/zad/README.md): one chair in the    *)
(* cabinet, Chairs chairs in the waiting room, no chair taken twice, and   *)
(* the clients of the waiting room are shaved in the order they came.      *)
(***************************************************************************)
EXTENDS Naturals, Sequences

CONSTANTS Client, Chairs, Nobody

VARIABLES
    queue,     \* the waiting room, the first to come first
    chair,     \* who sits in the cabinet
    shaved     \* who has left shaved

vars == <<queue, chair, shaved>>

Inside == shaved \cup {chair} \cup {queue[i] : i \in DOMAIN queue}

Init == queue = <<>> /\ chair = Nobody /\ shaved = {}

Sit(c) ==
    /\ c \notin Inside
    /\ chair = Nobody /\ queue = <<>>
    /\ chair' = c
    /\ UNCHANGED <<queue, shaved>>

Wait(c) ==
    /\ c \notin Inside
    /\ Len(queue) < Chairs
    /\ queue' = Append(queue, c)
    /\ UNCHANGED <<chair, shaved>>

Invite ==
    /\ chair = Nobody /\ queue # <<>>
    /\ chair' = Head(queue)
    /\ queue' = Tail(queue)
    /\ UNCHANGED shaved

Leave ==
    /\ chair # Nobody
    /\ shaved' = shaved \cup {chair}
    /\ chair' = Nobody
    /\ UNCHANGED queue

Next == (\E c \in Client : Sit(c) \/ Wait(c)) \/ Invite \/ Leave

Spec == Init /\ [][Next]_vars
=============================================================================
