----------------------------- MODULE ShopMemory -----------------------------
(***************************************************************************)
(* The shared memory of the mail-order shop (cw07/zad/common.c) and what   *)
(* one worker does to it inside mxn_interact.  Three kinds of workers move *)
(* orders through one cyclic table: receivers put an order in, packers     *)
(* mark the oldest unpacked order as packed, senders take the oldest       *)
(* packed order out.  A worker runs                                        *)
(*                                                                         *)
(*    mxn_get_sem;  interact m;  interact n;  interact x;  mxn_return_sem  *)
(*                                                                         *)
(* for ever.  The two semaphore protocols around the three interactions    *)
(* are in PosixShop and SvShop, which extend this module.                  *)
(***************************************************************************)
EXTENDS Integers, FiniteSets, Sequences

CONSTANTS
    MAX_ORDERS,   \* slots in the order table
    Orders,       \* what an order can be (the code: its size, 1..1000)
    Empty,        \* the -1 that create_shm fills the table with
    Receivers, Packers, Senders

ASSUME ShopAssumption ==
    /\ MAX_ORDERS \in Nat \ {0}
    /\ Empty \notin Orders
    /\ IsFiniteSet(Receivers) /\ IsFiniteSet(Packers) /\ IsFiniteSet(Senders)
    /\ Receivers \cap Packers = {}
    /\ Receivers \cap Senders = {}
    /\ Packers \cap Senders = {}

VARIABLES
    first,    \* shm[0..2]: first empty slot, first unpacked, first not sent
    m,        \* shm[3]: orders to be packed
    x,        \* shm[4]: orders to be sent
    table,    \* shm[5..]: the order table
    got,      \* mxn[2][0] of each worker: the order it puts or got
    pc        \* where each worker is in its loop

memory == <<first, m, x, table>>
memVars == <<first, m, x, table, got, pc>>

Workers == Receivers \cup Packers \cup Senders
Slots == 0 .. MAX_ORDERS - 1

\* Mutant: packers and senders start with each other's stage.
n_stage_swapped(w) == IF w \in Receivers THEN 0 ELSE IF w \in Packers THEN 2 ELSE 1

\* init_worker(0), init_worker(1), init_worker(2)
n_stage(w) == IF w \in Receivers THEN 0 ELSE IF w \in Packers THEN 1 ELSE 2

\* Mutant: the receiver only reads m.
action_m_not_counted(w) == IF w \in Packers THEN "DEC" ELSE "GET"

\* What each kind of worker writes to mxn[0][1], mxn[1][1] and mxn[2][1].
action_m(w) == IF w \in Receivers THEN "INC" ELSE IF w \in Packers THEN "DEC" ELSE "GET"
action_x(w) == IF w \in Receivers THEN "GET" ELSE IF w \in Packers THEN "INC" ELSE "DEC"
action_n(w) == IF w \in Receivers THEN "SET" ELSE "GET"

create_shm ==
    /\ first = [s \in 0 .. 2 |-> 0]
    /\ m = 0 /\ x = 0
    /\ table = [k \in Slots |-> Empty]

\* Mutant: the index does not wrap.
NextSlotNoWrap(k) == k + 1

NextSlot(k) == (k + 1) % MAX_ORDERS

Goto(w, label) == pc' = [pc EXCEPT ![w] = label]

\* interact() of a number: INC and DEC write it back, GET only reads it.
Interact(action, value) ==
    IF action = "INC" THEN value + 1 ELSE IF action = "DEC" THEN value - 1 ELSE value

-----------------------------------------------------------------------------
(* The three interactions, each a step of its own so that another worker   *)
(* can come in between whenever the semaphores let it.                     *)

InteractM(w) ==
    /\ pc[w] = "m"
    /\ m' = Interact(action_m(w), m)
    /\ Goto(w, "n")
    /\ UNCHANGED <<first, x, table, got>>

\* An empty slot leaves the index where it is and hands the worker the -1.
get_n(w) ==
    LET n == table[first[n_stage(w)]] IN
    /\ got' = [got EXCEPT ![w] = n]
    /\ first' = IF n # Empty
                THEN [first EXCEPT ![n_stage(w)] = NextSlot(@)]
                ELSE first
    /\ UNCHANGED table

set_n(w) ==
    /\ first' = [first EXCEPT ![0] = NextSlot(@)]
    /\ table' = [table EXCEPT ![first[n_stage(w)]] = got[w]]
    /\ UNCHANGED got

InteractN(w) ==
    /\ pc[w] = "n"
    /\ IF action_n(w) = "SET" THEN set_n(w) ELSE get_n(w)
    /\ Goto(w, "x")
    /\ UNCHANGED <<m, x>>

InteractX(w, then) ==
    /\ pc[w] = "x"
    /\ x' = Interact(action_x(w), x)
    /\ Goto(w, then)
    /\ UNCHANGED <<first, m, table, got>>

-----------------------------------------------------------------------------
(* What the memory means.  The counters m and x run ahead of the indices   *)
(* while a worker is between its interactions, so the numbers of orders in *)
(* each stage are the counters corrected by those workers.                 *)

In(W, labels) == {w \in W : pc[w] \in labels}

Unpacked == m + Cardinality(In(Packers, {"n"})) - Cardinality(In(Receivers, {"n"}))
Packed == x + Cardinality(In(Packers, {"x"})) - Cardinality(In(Senders, {"x"}))
Unsent == Unpacked + Packed

\* The slots of the n orders that start at slot k, in table order.
Run(k, n) == {(k + i) % MAX_ORDERS : i \in 0 .. n - 1}
Window(k, n) == [i \in 1 .. n |-> table[(k + i - 1) % MAX_ORDERS]]

\* The three indices of the cyclic table agree with the counters.
IndicesAgree ==
    /\ first[1] = (first[2] + Packed) % MAX_ORDERS
    /\ first[0] = (first[2] + Unsent) % MAX_ORDERS

\* The memory as the three-stage queue the shop is meant to be.
Pipeline == INSTANCE OrderPipeline WITH
    Capacity <- MAX_ORDERS, Order <- Orders, NoOrder <- Empty,
    Packer <- Packers, Sender <- Senders,
    unpacked <- Window(first[1], Unpacked),
    packed <- Window(first[2], Packed),
    handled <- [w \in Packers \cup Senders |-> got[w]]
=============================================================================
