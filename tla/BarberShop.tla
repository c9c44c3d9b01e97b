----------------------------- MODULE BarberShop -----------------------------
(***************************************************************************)
(* The sleeping barber (cw09/zad/golibroda.c).  The waiting room is a      *)
(* linked list with a head and a last pointer; everything between locking  *)
(* clients_mtx and unlocking it (or waiting on clients_cond) is one step.  *)
(*                                                                         *)
(* Nothing ever sets last back to NULL, and the node it points to is freed *)
(* once its client is shaved: the list keeps a pointer to memory that is   *)
(* gone, and the test of line 40 reads "the waiting room is empty" as "the *)
(* waiting room was never used".                                           *)
(*                                                                         *)
(* A client's node is named after the client.  The node is freed by the    *)
(* barber's thread, whose malloc cache keeps the first seven, so with up   *)
(* to seven clients no node is handed out twice, and the write through the *)
(* stale pointer (line 46) lands in memory nobody uses.                    *)
(***************************************************************************)
EXTENDS Naturals, FiniteSets, Sequences

CONSTANTS Clients, NULL, max_clients

ASSUME BarberAssumption ==
    /\ IsFiniteSet(Clients) /\ NULL \notin Clients
    /\ max_clients \in Nat

VARIABLES
    head, last, cabinet,    \* clients->head, ->last, ->cabinet
    clients_waiting,
    next,                   \* the next field of every node
    pc,                     \* where each client's thread is
    barber,                 \* where the barber's thread is
    left                    \* number_of_clients the barber still has to shave

room == <<head, last, cabinet, clients_waiting, next>>
vars == <<head, last, cabinet, clients_waiting, next, pc, barber, left>>

\* Fresh memory of a thread's arena is zero, so the next field nobody sets in
\* client() starts as NULL.
Init ==
    /\ head = NULL /\ last = NULL /\ cabinet = NULL
    /\ clients_waiting = 0
    /\ next = [c \in Clients |-> NULL]
    /\ pc = [c \in Clients |-> "try"]
    /\ barber = "look"
    /\ left = Cardinality(Clients)

-----------------------------------------------------------------------------
(* client() *)

\* Mutant: nobody signals.
no_signal == UNCHANGED barber

\* pthread_cond_signal: only a barber already waiting hears it.
signal == barber' = IF barber = "asleep" THEN "woken" ELSE barber

TakeCabinet(c) ==
    /\ pc[c] = "try"
    /\ cabinet = NULL /\ last = NULL
    /\ cabinet' = c
    /\ signal
    /\ pc' = [pc EXCEPT ![c] = "done"]
    /\ UNCHANGED <<head, last, clients_waiting, next, left>>

\* Mutant: one client more than there are chairs.
chair_free_extra == clients_waiting <= max_clients

chair_free == clients_waiting < max_clients

\* Mutant: head is set by the same test as next.
link_by_last(c) ==
    /\ next' = IF last # NULL THEN [next EXCEPT ![last] = c] ELSE next
    /\ last' = c
    /\ head' = IF last = NULL THEN c ELSE head

\* Mutant: the client goes to the front of the list.
link_in_front(c) ==
    /\ next' = [next EXCEPT ![c] = head]
    /\ last' = IF last = NULL THEN c ELSE last
    /\ head' = c

link(c) ==
    /\ next' = IF last # NULL THEN [next EXCEPT ![last] = c] ELSE next
    /\ last' = c
    /\ head' = IF head = NULL THEN c ELSE head

TakeChair(c) ==
    /\ pc[c] = "try"
    /\ ~(cabinet = NULL /\ last = NULL)
    /\ chair_free
    /\ link(c)
    /\ clients_waiting' = clients_waiting + 1
    /\ pc' = [pc EXCEPT ![c] = "done"]
    /\ UNCHANGED <<cabinet, barber, left>>

\* "Zajete": unlock and sleep a while.
TurnAway(c) ==
    /\ pc[c] = "try"
    /\ ~(cabinet = NULL /\ last = NULL)
    /\ ~chair_free
    /\ pc' = [pc EXCEPT ![c] = "sleep"]
    /\ UNCHANGED <<room, barber, left>>

TryAgain(c) ==
    /\ pc[c] = "sleep"
    /\ pc' = [pc EXCEPT ![c] = "try"]
    /\ UNCHANGED <<room, barber, left>>

ClientStep(c) == TakeCabinet(c) \/ TakeChair(c) \/ TurnAway(c) \/ TryAgain(c)

-----------------------------------------------------------------------------
(* barber() *)

\* The while condition of pthread_cond_wait, under the mutex.
FallAsleep ==
    /\ barber \in {"look", "woken"}
    /\ head = NULL /\ cabinet = NULL
    /\ barber' = "asleep"
    /\ UNCHANGED <<room, pc, left>>

\* pthread_cond_wait may return without a signal.
SpuriousWakeup ==
    /\ barber = "asleep"
    /\ barber' = "woken"
    /\ UNCHANGED <<room, pc, left>>

\* Mutant: the list is looked at before the cabinet.
call_next_if_any == head # NULL

call_next == cabinet = NULL

StartShaving ==
    /\ barber \in {"look", "woken"}
    /\ ~(head = NULL /\ cabinet = NULL)
    /\ IF call_next
       THEN /\ cabinet' = head
            /\ head' = next[head]
            /\ next' = [next EXCEPT ![head] = NULL]
            /\ clients_waiting' = clients_waiting - 1
       ELSE UNCHANGED <<cabinet, head, next, clients_waiting>>
    /\ barber' = "shaving"
    /\ UNCHANGED <<last, pc, left>>

\* free(cabinet), and the loop counter of the next round.
FinishShaving ==
    /\ barber = "shaving"
    /\ cabinet' = NULL
    /\ left' = left - 1
    /\ barber' = IF left' = 0 THEN "home" ELSE "look"
    /\ UNCHANGED <<head, last, clients_waiting, next, pc>>

BarberStep == FallAsleep \/ StartShaving \/ FinishShaving

Next == (\E c \in Clients : ClientStep(c)) \/ BarberStep \/ SpuriousWakeup

Spec == Init /\ [][Next]_vars
FairSpec == Spec /\ WF_vars(BarberStep) /\ \A c \in Clients : WF_vars(ClientStep(c))

-----------------------------------------------------------------------------
(* The list as the barber will walk it *)

\* The node i links after head.  One more step than there are clients, so
\* that a cycle would show as a repetition.
Walk[i \in 0 .. Cardinality(Clients)] ==
    IF i = 0 THEN head
    ELSE IF Walk[i - 1] = NULL THEN NULL ELSE next[Walk[i - 1]]

Queue == [i \in 1 .. Cardinality({k \in DOMAIN Walk : Walk[k] # NULL}) |-> Walk[i - 1]]
Queued == {Queue[i] : i \in DOMAIN Queue}
Gone == {c \in Clients : pc[c] = "done"} \ (Queued \cup {cabinet})

TypeOK ==
    /\ {head, last, cabinet} \subseteq Clients \cup {NULL}
    /\ clients_waiting \in 0 .. max_clients
    /\ next \in [Clients -> Clients \cup {NULL}]
    /\ pc \in [Clients -> {"try", "sleep", "done"}]
    /\ barber \in {"look", "asleep", "woken", "shaving", "home"}
    /\ left \in 0 .. Cardinality(Clients)

\* The list stays a list although last dangles: no cycle, nobody twice, as
\* long as clients_waiting says, and while it is not empty last is its end,
\* so the next client is appended to it and not to a freed node.
ListIntact ==
    /\ Len(Queue) = clients_waiting
    /\ Cardinality(Queued) = Len(Queue)
    /\ cabinet \notin Queued
    /\ Queue # <<>> => last = Queue[Len(Queue)]

\* The barber's countdown agrees with the clients served: he neither goes
\* home with a client left nor waits for one who was shaved before.
CountdownAgrees == left = Cardinality(Clients) - Cardinality(Gone)

\* Nobody shares a chair, nobody is lost or overtaken.
Room == INSTANCE WaitingRoom WITH
    Client <- Clients, Chairs <- max_clients, Nobody <- NULL,
    queue <- Queue, chair <- cabinet, shaved <- Gone
ImplementsRoom == Room!Spec

\* A client who found both the cabinet and the waiting room unused always
\* gets shaved: the signal that wakes the barber is never lost.
CabinetIsServed == \A c \in Clients : cabinet = c ~> c \in Gone

\* The program must exclude that "the barber sleeps although there is a
\* client in the waiting room" (cw09/zad/README.md:22).  Refuted: once the
\* waiting room has been used, a client who finds the shop empty sits down
\* in it without waking the barber.
NotAsleepWithClients == ~(barber = "asleep" /\ head # NULL)
=============================================================================
