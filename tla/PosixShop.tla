------------------------------ MODULE PosixShop ------------------------------
(***************************************************************************)
(* The shop over POSIX named semaphores (cw07/zad/posix_sem.c).  A worker  *)
(* first waits for the credit of its stage (a free slot, an unpacked       *)
(* order, a packed order), then for the mutex "mxn_n"; afterwards it posts *)
(* the mutex and then the credit of the next stage.  These are four        *)
(* separate semaphore calls, so every other worker can run between them.   *)
(*                                                                         *)
(* A worker may be killed at any point.  POSIX semaphores have no undo: it *)
(* keeps what it holds for ever.                                           *)
(***************************************************************************)
EXTENDS ShopMemory

CONSTANT MaxKills   \* bound: how many workers may be killed in a behaviour

VARIABLES
    sem,    \* the values of the semaphores "table", "mxn_m", "mxn_x", "mxn_n"
    dead    \* workers that were killed

vars == <<first, m, x, table, got, pc, sem, dead>>

Labels == {"get_credit", "get_n", "m", "n", "x", "post_n", "post_credit"}
Semaphores == {"table", "m", "x", "n"}

\* Mutant: one credit more than the table has slots.
create_sem_extra_slot ==
    sem = [s \in Semaphores |->
             IF s = "table" THEN MAX_ORDERS + 1 ELSE IF s = "n" THEN 1 ELSE 0]

\* Mutant: every semaphore but the table's starts at 1.
create_sem_all_one ==
    sem = [s \in Semaphores |-> IF s = "table" THEN MAX_ORDERS ELSE 1]

create_sem ==
    sem = [s \in Semaphores |->
             IF s = "table" THEN MAX_ORDERS ELSE IF s = "n" THEN 1 ELSE 0]

Init ==
    /\ create_shm
    /\ create_sem
    /\ got = [w \in Workers |-> Empty]
    /\ pc = [w \in Workers |-> "get_credit"]
    /\ dead = {}

\* The semaphore mxn_get_sem waits on before the mutex.  Its three tests
\* exclude each other for the three kinds of workers there are.
credit_in(w) ==
    IF action_n(w) = "SET" THEN "table" ELSE IF action_m(w) = "DEC" THEN "m" ELSE "x"

\* Mutant: the mutex first, then the credit.
waits_mutex_first(w) == <<"n", credit_in(w)>>

\* The two waits of mxn_get_sem, in the order of the code.
waits(w) == <<credit_in(w), "n">>

\* Mutant: the tests for INC look at the other number.
credit_out_crossed(w) ==
    IF action_x(w) = "DEC" THEN "table" ELSE IF action_x(w) = "INC" THEN "m" ELSE "x"

\* The semaphore mxn_return_sem posts after the mutex.
credit_out(w) ==
    IF action_x(w) = "DEC" THEN "table" ELSE IF action_m(w) = "INC" THEN "m" ELSE "x"

sem_wait(s) == sem[s] > 0 /\ sem' = [sem EXCEPT ![s] = @ - 1]
sem_post(s) == sem' = [sem EXCEPT ![s] = @ + 1]

\* The top of the loop and the first sem_wait: a receiver draws an order.
GetCredit(w) ==
    /\ pc[w] = "get_credit"
    /\ sem_wait(waits(w)[1])
    /\ IF w \in Receivers
       THEN \E o \in Orders : got' = [got EXCEPT ![w] = o]
       ELSE UNCHANGED got
    /\ Goto(w, "get_n")
    /\ UNCHANGED <<memory, dead>>

\* Mutant: sem_trywait, its result not tested.
GetNTryWait(w) ==
    /\ pc[w] = "get_n"
    /\ IF sem["n"] > 0 THEN sem' = [sem EXCEPT !["n"] = @ - 1] ELSE UNCHANGED sem
    /\ Goto(w, "m")
    /\ UNCHANGED <<memory, got, dead>>

GetN(w) ==
    /\ pc[w] = "get_n"
    /\ sem_wait(waits(w)[2])
    /\ Goto(w, "m")
    /\ UNCHANGED <<memory, got, dead>>

Interactions(w) ==
    /\ InteractM(w) \/ InteractN(w) \/ InteractX(w, "post_n")
    /\ UNCHANGED <<sem, dead>>

PostN(w) ==
    /\ pc[w] = "post_n"
    /\ sem_post("n")
    /\ Goto(w, "post_credit")
    /\ UNCHANGED <<memory, got, dead>>

\* The last sem_post, the log line and sleep(1).
PostCredit(w) ==
    /\ pc[w] = "post_credit"
    /\ sem_post(credit_out(w))
    /\ Goto(w, "get_credit")
    /\ UNCHANGED <<memory, got, dead>>

Step(w) ==
    /\ w \notin dead
    /\ GetCredit(w) \/ GetN(w) \/ Interactions(w) \/ PostN(w) \/ PostCredit(w)

Kill(w) ==
    /\ w \notin dead
    /\ Cardinality(dead) < MaxKills
    /\ dead' = dead \cup {w}
    /\ UNCHANGED <<first, m, x, table, got, pc, sem>>

Next == \E w \in Workers : Step(w) \/ Kill(w)

Spec == Init /\ [][Next]_vars
FairSpec == Spec /\ \A w \in Workers : WF_vars(Step(w))

-----------------------------------------------------------------------------
Inside == {"m", "n", "x", "post_n"}
Before == {"get_n", "m", "n"}
After == {"x", "post_n", "post_credit"}
Between(W) == Cardinality(In(W, Before))
Past(W) == Cardinality(In(W, After))

TypeOK ==
    /\ first \in [0 .. 2 -> Slots]
    /\ m \in Nat
    /\ x \in Nat
    /\ table \in [Slots -> Orders \cup {Empty}]
    /\ got \in [Workers -> Orders \cup {Empty}]
    /\ pc \in [Workers -> Labels]
    /\ sem \in [Semaphores -> Nat]
    /\ dead \subseteq Workers

\* At most one worker, alive or killed, is between the wait and the post of
\* the mutex: the table is never modified by two processes at once
\* (cw07/zad/README.md:26).
MutualExclusion ==
    \A v, w \in Workers : pc[v] \in Inside /\ pc[w] \in Inside => v = w

\* Every credit is somewhere: each stage's semaphore plus the credits the
\* workers hold around their critical sections adds up to the orders (or
\* free slots) of that stage, also when workers are killed on the way.
CreditsConserved ==
    /\ sem["table"] + Between(Receivers) + Unsent + Past(Senders) = MAX_ORDERS
    /\ sem["m"] + Between(Packers) + Past(Receivers) = Unpacked
    /\ sem["x"] + Between(Senders) + Past(Packers) = Packed

\* A receiver about to run set_n has the index of a slot whose order was
\* already sent (or that was never used): no unsent order is overwritten.
NoUnsentOverwritten ==
    \A w \in Receivers : pc[w] = "n" =>
        /\ Unsent < MAX_ORDERS
        /\ first[0] \notin Run(first[2], Unsent)

\* A packer or a sender about to run get_n finds a real order, so the -1 test
\* of get_n never makes it log the size of an order that does not exist.
GetNFindsAnOrder ==
    \A w \in Packers \cup Senders :
        pc[w] = "n" => table[first[n_stage(w)]] \in Orders

\* The shop works as the three-stage queue: first in first out, nothing
\* lost, doubled or skipped, never more than MAX_ORDERS waiting.
ImplementsPipeline == Pipeline!Spec

\* If every worker that is killed dies outside the protocol (asleep or
\* waiting for its credit) and each kind keeps one that is alive, the oldest
\* order in the table is always sent eventually: no stage ever stalls.
OrdersAreSent ==
    [](/\ \A w \in dead : pc[w] = "get_credit"
       /\ \A W \in {Receivers, Packers, Senders} : W \ dead # {})
    => \A k \in Slots : first[2] = k ~> first[2] # k
=============================================================================
