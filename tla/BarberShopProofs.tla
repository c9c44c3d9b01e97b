--------------------------- MODULE BarberShopProofs ---------------------------
(***************************************************************************)
(* Proofs about BarberShop for every set of clients and every number of    *)
(* chairs: the list with the dangling last pointer is a queue.             *)
(***************************************************************************)
EXTENDS BarberShop, FiniteSetTheorems, SequenceTheorems, WellFoundedInduction, TLAPS

People == Cardinality(Clients)

-----------------------------------------------------------------------------
(* Walking the list *)

\* A set of numbers has a least element.
LEMMA LeastElement ==
    ASSUME NEW T, T \subseteq Nat, T # {}
    PROVE  \E n \in T : \A k \in T : n <= k
<1> DEFINE Below == {0 .. n : n \in T}
<1>1. IsWellFoundedOn(StrictSubsetOrdering(Nat), FiniteSubsetsOf(Nat))
  BY FS_StrictSubsetOrderingWellFounded
<1>2. Below \subseteq FiniteSubsetsOf(Nat) /\ Below # {}
  <2>1. \A n \in T : IsFiniteSet(0 .. n) /\ 0 .. n \subseteq Nat
    BY FS_Interval
  <2> QED BY <2>1, ZenonT(60) DEF FiniteSubsetsOf
<1> HIDE DEF Below
<1>3. PICK x \in Below : \A y \in Below : ~ (<<y, x>> \in StrictSubsetOrdering(Nat))
  BY <1>1, <1>2, WFMin
<1>4. PICK n \in T : x = 0 .. n
  BY DEF Below
<1>5. \A k \in T : n <= k
  <2> SUFFICES ASSUME NEW k \in T, k < n PROVE FALSE
    OBVIOUS
  <2>1. 0 .. k \subseteq 0 .. n /\ 0 .. k # 0 .. n /\ 0 .. k \subseteq Nat /\ 0 .. n \subseteq Nat
    <3>1. n \in 0 .. n /\ n \notin 0 .. k
      OBVIOUS
    <3> QED BY <3>1
  <2>2. <<0 .. k, 0 .. n>> \in StrictSubsetOrdering(Nat)
    BY <2>1 DEF StrictSubsetOrdering
  <2>3. 0 .. k \in Below
    BY DEF Below
  <2> QED BY <1>3, <1>4, <2>2, <2>3
<1> QED BY <1>5

\* The nodes of q are linked from h, and no node comes twice.
Linked(h, nx, q) ==
    /\ h = IF Len(q) = 0 THEN NULL ELSE q[1]
    /\ \A k \in 1 .. Len(q) : nx[q[k]] = IF k = Len(q) THEN NULL ELSE q[k + 1]
    /\ \A k, m \in 1 .. Len(q) : q[k] = q[m] => k = m

\* A queue without repetitions has as many nodes as members.
LEMMA QueueCounts ==
    ASSUME NEW q \in Seq(Clients), \A k, m \in 1 .. Len(q) : q[k] = q[m] => k = m
    PROVE  /\ Cardinality({q[k] : k \in 1 .. Len(q)}) = Len(q)
           /\ Len(q) <= People /\ Len(q) \in Nat /\ People \in Nat
<1> DEFINE S == 1 .. Len(q)
           T == {q[k] : k \in S}
<1>1. Len(q) \in Nat /\ \A k \in S : q[k] \in Clients
  BY LenProperties, ElementOfSeq
<1>2. IsFiniteSet(S) /\ Cardinality(S) = Len(q)
  <2>1. 1 \in Int /\ Len(q) \in Int
    BY <1>1
  <2>2. IsFiniteSet(S) /\ Cardinality(S) = IF 1 > Len(q) THEN 0 ELSE Len(q) - 1 + 1
    BY <2>1, FS_Interval
  <2> QED BY <1>1, <2>2
<1>3. DOMAIN q = S /\ q \in [S -> T]
  <2>1. q \in [S -> Clients]
    BY LenProperties
  <2> QED BY <2>1
<1> HIDE DEF S, T
<1>4. q \in Surjection(S, T)
  BY <1>3 DEF Surjection, T
<1>5. q \in Injection(S, T)
  BY <1>3 DEF Injection, IsInjective, S
<1>6. Cardinality(T) = Len(q)
  BY <1>2, <1>4, <1>5, FS_Surjection
<1>7. T \subseteq Clients
  BY <1>1 DEF T
<1>8. Cardinality(T) <= People /\ People \in Nat
  BY <1>7, BarberAssumption, FS_Subset, FS_CardinalityType DEF People
<1> QED BY <1>1, <1>6, <1>8, ZenonT(60) DEF T, S

\* Walk, the recursion over the next fields, meets the nodes of q one after
\* the other and then NULL.
LEMMA WalkFollows ==
    ASSUME NEW h, NEW nx, NEW q \in Seq(Clients), Linked(h, nx, q), NEW W,
           W = CHOOSE f : f = [n \in 0 .. People |->
                 IF n = 0 THEN h ELSE IF f[n - 1] = NULL THEN NULL ELSE nx[f[n - 1]]]
    PROVE  /\ DOMAIN W = 0 .. People
           /\ \A n \in 0 .. People : W[n] = IF n < Len(q) THEN q[n + 1] ELSE NULL
<1> DEFINE F == [n \in 0 .. People |-> IF n < Len(q) THEN q[n + 1] ELSE NULL]
<1>1. /\ Len(q) \in Nat /\ People \in Nat
      /\ \A k \in 1 .. Len(q) : q[k] \in Clients /\ q[k] # NULL
  <2>1. Len(q) \in Nat /\ People \in Nat
    BY QueueCounts DEF Linked
  <2>2. \A k \in 1 .. Len(q) : q[k] \in Clients /\ q[k] # NULL
    BY ElementOfSeq, BarberAssumption
  <2> QED BY <2>1, <2>2
<1>2. F = [n \in 0 .. People |->
             IF n = 0 THEN h ELSE IF F[n - 1] = NULL THEN NULL ELSE nx[F[n - 1]]]
  <2> SUFFICES ASSUME NEW n \in 0 .. People
               PROVE  F[n] = IF n = 0 THEN h
                             ELSE IF F[n - 1] = NULL THEN NULL ELSE nx[F[n - 1]]
    OBVIOUS
  <2>1. CASE n = 0
    BY <1>1, <2>1 DEF Linked
  <2>2. CASE n # 0
    <3>1. n - 1 \in 0 .. People /\ n \in Nat
      BY <1>1, <2>2
    <3>2. CASE n < Len(q)
      <4>1. n \in 1 .. Len(q) /\ n # Len(q) /\ n - 1 < Len(q) /\ (n - 1) + 1 = n
        BY <1>1, <2>2, <3>1, <3>2
      <4>2. nx[q[n]] = q[n + 1]
        BY <4>1 DEF Linked
      <4>3. F[n - 1] = q[n] /\ q[n] # NULL /\ F[n] = q[n + 1]
        BY <1>1, <3>1, <3>2, <4>1
      <4> QED BY <2>2, <4>2, <4>3
    <3>3. CASE n = Len(q)
      <4>1. n \in 1 .. Len(q) /\ n - 1 < Len(q) /\ (n - 1) + 1 = n
        BY <1>1, <2>2, <3>1, <3>3
      <4>2. nx[q[n]] = NULL
        BY <3>3, <4>1 DEF Linked
      <4>3. F[n - 1] = q[n] /\ F[n] = NULL
        BY <1>1, <3>1, <3>3, <4>1
      <4> QED BY <2>2, <4>2, <4>3
    <3>4. CASE n > Len(q)
      <4>1. ~(n - 1 < Len(q)) /\ ~(n < Len(q))
        BY <1>1, <3>1, <3>4
      <4>2. F[n - 1] = NULL /\ F[n] = NULL
        BY <3>1, <4>1, SMTT(60)
      <4> QED BY <2>2, <4>2
    <3> QED BY <1>1, <3>1, <3>2, <3>3, <3>4
  <2> QED BY <2>1, <2>2
<1>3. W = [n \in 0 .. People |->
             IF n = 0 THEN h ELSE IF W[n - 1] = NULL THEN NULL ELSE nx[W[n - 1]]]
  <2> HIDE DEF F
  <2> QED BY <1>2
<1>4. DOMAIN W = 0 .. People
  BY <1>3
<1>5. /\ W[0] = h
      /\ \A n \in 1 .. People : W[n] = IF W[n - 1] = NULL THEN NULL ELSE nx[W[n - 1]]
  <2>1. W[0] = h
    <3>1. 0 \in 0 .. People
      BY <1>1
    <3> QED BY <1>3, <3>1, Zenon
  <2>2. ASSUME NEW n \in 1 .. People
        PROVE  W[n] = IF W[n - 1] = NULL THEN NULL ELSE nx[W[n - 1]]
    <3>1. n \in 0 .. People /\ n # 0
      BY <1>1
    <3> QED BY <1>3, <3>1
  <2> QED BY <2>1, <2>2
<1>6. /\ F[0] = h
      /\ \A n \in 1 .. People : F[n] = IF F[n - 1] = NULL THEN NULL ELSE nx[F[n - 1]]
  <2> HIDE DEF F
  <2>1. F[0] = h
    BY <1>1, <1>2
  <2>2. ASSUME NEW n \in 1 .. People
        PROVE  F[n] = IF F[n - 1] = NULL THEN NULL ELSE nx[F[n - 1]]
    <3>1. n \in 0 .. People /\ n # 0
      BY <1>1
    <3> QED BY <1>2, <3>1
  <2> QED BY <2>1, <2>2
<1>7. \A n \in 0 .. People : W[n] = F[n]
  <2> HIDE DEF F
  <2> DEFINE Differ == {n \in 0 .. People : W[n] # F[n]}
  <2> SUFFICES ASSUME Differ # {} PROVE FALSE
    OBVIOUS
  <2>1. Differ \subseteq Nat
    BY <1>1
  <2>2. PICK n \in Differ : \A k \in Differ : n <= k
    BY <2>1, LeastElement
  <2>3. n \in 0 .. People /\ W[n] # F[n] /\ n # 0
    BY <1>5, <1>6
  <2>4. n - 1 \in 0 .. People /\ n \in 1 .. People /\ ~(n <= n - 1)
    BY <1>1, <2>3
  <2>5. W[n - 1] = F[n - 1]
    BY <2>2, <2>4
  <2> QED BY <1>5, <1>6, <2>3, <2>4, <2>5
<1> QED BY <1>4, <1>7

\* So Queue is q.
LEMMA QueueFollows ==
    ASSUME NEW q \in Seq(Clients), NEW W, DOMAIN W = 0 .. People,
           \A k, m \in 1 .. Len(q) : q[k] = q[m] => k = m,
           \A n \in 0 .. People : W[n] = IF n < Len(q) THEN q[n + 1] ELSE NULL
    PROVE  [n \in 1 .. Cardinality({k \in DOMAIN W : W[k] # NULL}) |-> W[n - 1]] = q
<1>1. /\ Len(q) \in Nat /\ People \in Nat /\ Len(q) <= People
      /\ \A k \in 1 .. Len(q) : q[k] # NULL
      /\ q = [k \in 1 .. Len(q) |-> q[k]]
  <2>1. Len(q) \in Nat /\ People \in Nat /\ Len(q) <= People
    BY QueueCounts
  <2>2. \A k \in 1 .. Len(q) : q[k] # NULL
    BY ElementOfSeq, BarberAssumption
  <2>3. q \in [1 .. Len(q) -> Clients]
    BY LenProperties
  <2> QED BY <2>1, <2>2, <2>3
<1>2. {k \in DOMAIN W : W[k] # NULL} = 0 .. Len(q) - 1
  <2>1. ASSUME NEW k \in 0 .. People PROVE W[k] # NULL <=> k < Len(q)
    <3>1. k < Len(q) => k + 1 \in 1 .. Len(q)
      BY <1>1
    <3> QED BY <1>1, <3>1
  <2>2. 0 .. Len(q) - 1 = {k \in 0 .. People : k < Len(q)}
    BY <1>1
  <2> QED BY <2>1, <2>2
<1>3. Cardinality(0 .. Len(q) - 1) = Len(q)
  <2>1. 0 \in Int /\ Len(q) - 1 \in Int
    BY <1>1
  <2>2. Cardinality(0 .. Len(q) - 1) = IF 0 > Len(q) - 1 THEN 0 ELSE Len(q) - 1 - 0 + 1
    BY <2>1, FS_Interval
  <2> QED BY <1>1, <2>2
<1>4. \A n \in 1 .. Len(q) : W[n - 1] = q[n]
  <2> SUFFICES ASSUME NEW n \in 1 .. Len(q) PROVE W[n - 1] = q[n]
    OBVIOUS
  <2>1. n - 1 \in 0 .. People /\ n - 1 < Len(q) /\ (n - 1) + 1 = n
    BY <1>1
  <2> QED BY <2>1
<1> QED BY <1>1, <1>2, <1>3, <1>4

\* What a linked queue is in a state, and after a step.
LEMMA QueueIs ==
    ASSUME NEW q \in Seq(Clients)
    PROVE  /\ Linked(head, next, q) => Queue = q
           /\ Linked(head', next', q) => Queue' = q
<1>1. ASSUME Linked(head, next, q) PROVE Queue = q
  <2>1. Walk = CHOOSE f : f = [n \in 0 .. People |->
                 IF n = 0 THEN head ELSE IF f[n - 1] = NULL THEN NULL ELSE next[f[n - 1]]]
    BY DEF Walk, People
  <2>2. /\ DOMAIN Walk = 0 .. People
        /\ \A n \in 0 .. People : Walk[n] = IF n < Len(q) THEN q[n + 1] ELSE NULL
    BY <1>1, <2>1, WalkFollows
  <2> QED BY <1>1, <2>2, QueueFollows, ZenonT(60) DEF Queue, Linked
<1>2. ASSUME Linked(head', next', q) PROVE Queue' = q
  <2>1. Walk' = CHOOSE f : f = [n \in 0 .. People |->
                 IF n = 0 THEN head' ELSE IF f[n - 1] = NULL THEN NULL ELSE next'[f[n - 1]]]
    BY DEF Walk, People
  <2>2. /\ DOMAIN Walk' = 0 .. People
        /\ \A n \in 0 .. People : Walk'[n] = IF n < Len(q) THEN q[n + 1] ELSE NULL
    BY <1>2, <2>1, WalkFollows
  <2> QED BY <1>2, <2>2, QueueFollows, ZenonT(60) DEF Queue, Linked
<1> QED BY <1>1, <1>2

-----------------------------------------------------------------------------
(* The inductive invariant *)

\* The nodes linked from head are the waiting clients, the last of them last.
Listed ==
    /\ Queue \in Seq(Clients) /\ Linked(head, next, Queue)
    /\ Len(Queue) = clients_waiting
    /\ Len(Queue) > 0 => last = Queue[Len(Queue)]

\* Who is in the shop has come in, and who has not come in is not linked yet.
Seated ==
    /\ \A k \in 1 .. Len(Queue) : pc[Queue[k]] = "done" /\ Queue[k] # cabinet
    /\ \A c \in Clients : c = last \/ c = cabinet => pc[c] = "done"
    /\ \A c \in Clients : pc[c] # "done" => next[c] = NULL
    /\ barber = "shaving" => cabinet # NULL

IInv == TypeOK /\ Listed /\ Seated /\ CountdownAgrees

\* The facts of IInv the steps start from.
LEMMA ListFacts ==
    ASSUME IInv
    PROVE  /\ Len(Queue) \in Nat /\ People \in Nat /\ NULL \notin Clients
           /\ \A k \in 1 .. Len(Queue) : Queue[k] \in Clients /\ Queue[k] # NULL
           /\ Len(Queue) > 0 => head = Queue[1] /\ head # NULL /\ last = Queue[Len(Queue)]
                                /\ last # NULL /\ 1 \in 1 .. Len(Queue)
           /\ Len(Queue) = 0 => head = NULL
<1>1. /\ Len(Queue) \in Nat /\ People \in Nat /\ NULL \notin Clients
      /\ \A k \in 1 .. Len(Queue) : Queue[k] \in Clients /\ Queue[k] # NULL
  <2>1. Queue \in Seq(Clients) /\ \A k, m \in 1 .. Len(Queue) : Queue[k] = Queue[m] => k = m
    BY DEF IInv, Listed, Linked
  <2>2. Len(Queue) \in Nat /\ People \in Nat
    BY <2>1, QueueCounts
  <2> QED BY <2>1, <2>2, ElementOfSeq, BarberAssumption
<1>2. Len(Queue) > 0 => 1 \in 1 .. Len(Queue) /\ Len(Queue) \in 1 .. Len(Queue)
  BY <1>1
<1>3. Len(Queue) = 0 => head = NULL
  BY DEF IInv, Listed, Linked
<1>4. Len(Queue) > 0 => head = Queue[1] /\ last = Queue[Len(Queue)]
  BY <1>1 DEF IInv, Listed, Linked
<1> QED BY <1>1, <1>2, <1>3, <1>4

\* Who is gone: came in, and is neither waiting nor in the cabinet.
LEMMA GoneIs ==
    ASSUME NEW q \in Seq(Clients)
    PROVE  /\ Queue = q => Gone = {c \in Clients : pc[c] = "done" /\ c # cabinet
                                     /\ \A k \in 1 .. Len(q) : q[k] # c}
           /\ Queue' = q => Gone' = {c \in Clients : pc'[c] = "done" /\ c # cabinet'
                                       /\ \A k \in 1 .. Len(q) : q[k] # c}
<1>1. DOMAIN q = 1 .. Len(q)
  BY LenProperties
<1>2. ASSUME Queue = q
      PROVE  Gone = {c \in Clients : pc[c] = "done" /\ c # cabinet
                       /\ \A k \in 1 .. Len(q) : q[k] # c}
  <2>1. Queued = {q[k] : k \in 1 .. Len(q)}
    BY <1>1, <1>2 DEF Queued
  <2> QED BY <2>1 DEF Gone
<1>3. ASSUME Queue' = q
      PROVE  Gone' = {c \in Clients : pc'[c] = "done" /\ c # cabinet'
                        /\ \A k \in 1 .. Len(q) : q[k] # c}
  <2>1. Queued' = {q[k] : k \in 1 .. Len(q)}
    BY <1>1, <1>3 DEF Queued
  <2> QED BY <2>1 DEF Gone
<1> QED BY <1>2, <1>3

-----------------------------------------------------------------------------
(* The steps *)

\* The empty shop.
LEMMA InitIInv == Init => IInv /\ Room!Init
<1> SUFFICES ASSUME Init PROVE IInv /\ Room!Init
  OBVIOUS
<1>1. <<>> \in Seq(Clients) /\ Len(<<>>) = 0 /\ Linked(head, next, <<>>)
  BY EmptySeq DEF Init, Linked
<1>2. Queue = <<>>
  BY <1>1, QueueIs
<1>3. People \in Nat /\ Cardinality({}) = 0
  BY BarberAssumption, FS_CardinalityType, FS_EmptySet DEF People
<1>4. TypeOK
  BY <1>3, BarberAssumption DEF Init, TypeOK, People
<1>5. Listed
  BY <1>1, <1>2 DEF Init, Listed
<1>6. Seated
  BY <1>1, <1>2, BarberAssumption DEF Init, Seated
<1>7. Gone = {}
  BY DEF Init, Gone
<1>8. CountdownAgrees
  BY <1>3, <1>7 DEF Init, CountdownAgrees, People
<1> QED BY <1>2, <1>4, <1>5, <1>6, <1>7, <1>8 DEF IInv, Room!Init, Init

\* Steps that touch nothing of the room: the abstract room stutters.
LEMMA QuietIInv ==
    ASSUME IInv, UNCHANGED <<room, left>>,
           pc' \in [Clients -> {"try", "sleep", "done"}],
           \A c \in Clients : pc'[c] = "done" <=> pc[c] = "done",
           barber' \in {"look", "asleep", "woken", "shaving", "home"},
           barber' = "shaving" => cabinet # NULL
    PROVE  IInv' /\ UNCHANGED Room!vars
<1>1. TypeOK /\ Listed /\ Seated /\ CountdownAgrees
  BY DEF IInv
<1>2. UNCHANGED <<head, last, cabinet, clients_waiting, next, left>>
  BY DEF room
<1>3. Queue \in Seq(Clients) /\ Linked(head', next', Queue)
  BY <1>1, <1>2 DEF Listed
<1>4. Queue' = Queue
  BY <1>3, QueueIs
<1>5. Gone' = Gone
  BY <1>2, <1>3, <1>4, GoneIs, ZenonT(60)
<1>6. TypeOK'
  BY <1>1, <1>2 DEF TypeOK
<1>7. Listed'
  BY <1>1, <1>2, <1>3, <1>4 DEF Listed
<1>8. Seated'
  <2>1. \A k \in 1 .. Len(Queue) : pc'[Queue[k]] = "done" /\ Queue[k] # cabinet
    BY <1>1, ListFacts DEF Seated
  <2> QED BY <1>1, <1>2, <1>4, <2>1 DEF Seated
<1>9. CountdownAgrees'
  BY <1>1, <1>2, <1>5 DEF CountdownAgrees
<1> QED BY <1>2, <1>4, <1>5, <1>6, <1>7, <1>8, <1>9 DEF IInv, Room!vars

\* A client takes the cabinet.
LEMMA TakeCabinetIInv ==
    ASSUME IInv, NEW c \in Clients, TakeCabinet(c)
    PROVE  IInv' /\ Room!Sit(c)
<1>1. TypeOK /\ Listed /\ Seated /\ CountdownAgrees
  BY DEF IInv
<1>2. /\ pc[c] = "try" /\ cabinet = NULL /\ last = NULL /\ cabinet' = c
      /\ pc' = [pc EXCEPT ![c] = "done"]
      /\ barber' = IF barber = "asleep" THEN "woken" ELSE barber
      /\ UNCHANGED <<head, last, clients_waiting, next, left>>
  BY DEF TakeCabinet, signal
<1>3. Len(Queue) = 0 /\ Queue = <<>> /\ Queue \in Seq(Clients) /\ Linked(head', next', Queue)
  <2>1. Queue \in Seq(Clients) /\ Linked(head', next', Queue)
    BY <1>1, <1>2 DEF Listed
  <2>2. Len(Queue) = 0
    BY <1>2, ListFacts
  <2> QED BY <2>1, <2>2, EmptySeq
<1>4. Queue' = Queue
  BY <1>3, QueueIs
<1>5. /\ pc' \in [Clients -> {"try", "sleep", "done"}] /\ pc'[c] = "done"
      /\ \A x \in Clients : x # c => pc'[x] = pc[x]
  BY <1>1, <1>2 DEF TypeOK
<1>6. Gone' = Gone
  <2>1. Gone = {x \in Clients : pc[x] = "done" /\ x # cabinet
                   /\ \A k \in 1 .. Len(Queue) : Queue[k] # x}
    BY <1>3, GoneIs
  <2>2. Gone' = {x \in Clients : pc'[x] = "done" /\ x # cabinet'
                   /\ \A k \in 1 .. Len(Queue) : Queue[k] # x}
    BY <1>3, <1>4, GoneIs
  <2>3. \A x \in Clients : (pc'[x] = "done" /\ x # cabinet') <=> (pc[x] = "done" /\ x # cabinet)
    BY <1>2, <1>5, ListFacts
  <2> QED BY <2>1, <2>2, <2>3
<1>7. TypeOK'
  BY <1>1, <1>2, <1>5 DEF TypeOK
<1>8. Listed'
  BY <1>1, <1>2, <1>3, <1>4 DEF Listed
<1>9. Seated'
  <2>1. barber' = "shaving" => c # NULL
    BY ListFacts
  <2>2. \A x \in Clients : x = c \/ x = last => pc'[x] = "done"
    BY <1>2, <1>5, ListFacts
  <2>3. \A x \in Clients : pc'[x] # "done" => next[x] = NULL
    BY <1>1, <1>5 DEF Seated
  <2> QED BY <1>2, <1>3, <1>4, <2>1, <2>2, <2>3 DEF Seated
<1>10. CountdownAgrees'
  BY <1>1, <1>2, <1>6 DEF CountdownAgrees
<1>11. c \notin Room!Inside
  <2>1. c \notin Gone
    BY <1>2 DEF Gone
  <2>2. c # cabinet
    BY <1>2, ListFacts
  <2>3. {Queue[k] : k \in DOMAIN Queue} = {}
    BY <1>3
  <2> QED BY <2>1, <2>2, <2>3 DEF Room!Inside
<1>12. Room!Sit(c)
  BY <1>2, <1>3, <1>4, <1>6, <1>11 DEF Room!Sit
<1> QED BY <1>7, <1>8, <1>9, <1>10, <1>12 DEF IInv

\* A client takes a chair: it is linked behind the last waiting client, not
\* behind a node that is gone.
LEMMA TakeChairIInv ==
    ASSUME IInv, NEW c \in Clients, TakeChair(c)
    PROVE  IInv' /\ Room!Wait(c)
<1> DEFINE n == Len(Queue)
           q == Append(Queue, c)
<1>1. TypeOK /\ Listed /\ Seated /\ CountdownAgrees
  BY DEF IInv
<1>2. /\ pc[c] = "try" /\ clients_waiting < max_clients
      /\ next' = IF last # NULL THEN [next EXCEPT ![last] = c] ELSE next
      /\ last' = c /\ head' = IF head = NULL THEN c ELSE head
      /\ clients_waiting' = clients_waiting + 1
      /\ pc' = [pc EXCEPT ![c] = "done"]
      /\ UNCHANGED <<cabinet, barber, left>>
  BY DEF TakeChair, chair_free, link
<1>3. /\ pc' \in [Clients -> {"try", "sleep", "done"}] /\ pc'[c] = "done"
      /\ \A x \in Clients : x # c => pc'[x] = pc[x]
  BY <1>1, <1>2 DEF TypeOK
<1>4. c # last /\ c # cabinet /\ \A k \in 1 .. n : Queue[k] # c
  BY <1>1, <1>2 DEF Seated
<1>5. /\ Queue \in Seq(Clients) /\ n \in Nat /\ n = clients_waiting
      /\ \A k, m \in 1 .. n : Queue[k] = Queue[m] => k = m
      /\ \A k \in 1 .. n : next[Queue[k]] = IF k = n THEN NULL ELSE Queue[k + 1]
  BY <1>1, ListFacts DEF Listed, Linked
<1>6. /\ q \in Seq(Clients) /\ Len(q) = n + 1
      /\ \A k \in 1 .. n : q[k] = Queue[k]
      /\ q[n + 1] = c
  BY <1>5, AppendProperties
<1>7. /\ next' \in [Clients -> Clients \cup {NULL}]
      /\ last # NULL => last \in Clients /\ next'[last] = c
      /\ \A x \in Clients : x # last => next'[x] = next[x]
  <2>1. next \in [Clients -> Clients \cup {NULL}] /\ last \in Clients \cup {NULL}
    BY <1>1 DEF TypeOK
  <2> QED BY <1>2, <2>1
<1> HIDE DEF n, q
<1>8. Linked(head', next', q)
  <2>1. head' = q[1]
    <3>1. CASE n = 0
      BY <1>2, <1>6, <3>1, ListFacts DEF n
    <3>2. CASE n > 0
      <4>1. head' = Queue[1] /\ 1 \in 1 .. n
        BY <1>2, <3>2, ListFacts DEF n
      <4> QED BY <1>6, <4>1
    <3> QED BY <1>5, <3>1, <3>2
  <2>2. ASSUME NEW k \in 1 .. n + 1
        PROVE  next'[q[k]] = IF k = n + 1 THEN NULL ELSE q[k + 1]
    <3>1. CASE k = n + 1
      <4>1. next'[c] = NULL
        BY <1>1, <1>2, <1>4, <1>7 DEF Seated
      <4> QED BY <1>6, <3>1, <4>1
    <3>2. CASE k = n /\ n > 0
      <4>1. k \in 1 .. n /\ k # n + 1 /\ q[k] = Queue[n] /\ q[k + 1] = c
        BY <1>5, <1>6, <3>2
      <4>2. Queue[n] = last /\ last # NULL
        BY <3>2, ListFacts DEF n
      <4> QED BY <1>7, <4>1, <4>2
    <3>3. CASE k < n
      <4>1. /\ k \in 1 .. n /\ k # n + 1 /\ k # n /\ n > 0 /\ n \in 1 .. n
            /\ k + 1 \in 1 .. n
        BY <1>5, <3>3
      <4>2. q[k] = Queue[k] /\ q[k + 1] = Queue[k + 1] /\ Queue[k] \in Clients
        BY <1>6, <4>1, ListFacts DEF n
      <4>3. Queue[n] = last
        BY <4>1, ListFacts DEF n
      <4>4. Queue[k] # last
        BY <1>5, <4>1, <4>3
      <4>5. next'[Queue[k]] = Queue[k + 1]
        BY <1>5, <1>7, <4>1, <4>2, <4>4
      <4> QED BY <4>1, <4>2, <4>5
    <3> QED BY <1>5, <3>1, <3>2, <3>3
  <2>3. ASSUME NEW k \in 1 .. n + 1, NEW m \in 1 .. n + 1, q[k] = q[m] PROVE k = m
    <3>1. (k \in 1 .. n \/ k = n + 1) /\ (m \in 1 .. n \/ m = n + 1)
      BY <1>5
    <3>2. (k \in 1 .. n => q[k] = Queue[k]) /\ (m \in 1 .. n => q[m] = Queue[m])
      BY <1>6
    <3> QED BY <1>4, <1>5, <1>6, <2>3, <3>1, <3>2
  <2>4. Len(q) # 0
    BY <1>5, <1>6
  <2> QED BY <1>6, <2>1, <2>2, <2>3, <2>4 DEF Linked
<1>9. Queue' = q
  BY <1>6, <1>8, QueueIs
<1>10. Gone' = Gone
  <2>1. Gone = {x \in Clients : pc[x] = "done" /\ x # cabinet
                   /\ \A k \in 1 .. n : Queue[k] # x}
    BY <1>5, GoneIs DEF n
  <2>2. Gone' = {x \in Clients : pc'[x] = "done" /\ x # cabinet'
                   /\ \A k \in 1 .. n + 1 : q[k] # x}
    BY <1>6, <1>9, GoneIs
  <2>3. \A x \in Clients : (\A k \in 1 .. n + 1 : q[k] # x)
                              <=> (x # c /\ \A k \in 1 .. n : Queue[k] # x)
    <3>1. \A k \in 1 .. n + 1 : k \in 1 .. n \/ k = n + 1
      BY <1>5
    <3>2. n + 1 \in 1 .. n + 1 /\ \A k \in 1 .. n : k \in 1 .. n + 1
      BY <1>5
    <3> QED BY <1>6, <3>1, <3>2
  <2>4. \A x \in Clients : pc'[x] = "done" /\ x # c <=> pc[x] = "done"
    BY <1>2, <1>3
  <2> QED BY <1>2, <2>1, <2>2, <2>3, <2>4
<1>11. TypeOK'
  <2>1. clients_waiting' \in 0 .. max_clients
    BY <1>1, <1>2, BarberAssumption DEF TypeOK
  <2> QED BY <1>1, <1>2, <1>3, <1>7, <2>1 DEF TypeOK
<1>12. Listed'
  <2>1. Len(q) = clients_waiting' /\ last' = q[Len(q)]
    BY <1>2, <1>5, <1>6
  <2> QED BY <1>6, <1>8, <1>9, <2>1 DEF Listed
<1>13. Seated'
  <2>1. ASSUME NEW k \in 1 .. n + 1 PROVE pc'[q[k]] = "done" /\ q[k] # cabinet
    <3>1. k \in 1 .. n \/ k = n + 1
      BY <1>5
    <3>2. CASE k \in 1 .. n
      <4>1. Queue[k] \in Clients /\ pc[Queue[k]] = "done" /\ Queue[k] # cabinet
        BY <1>1, <3>2, ListFacts DEF Seated, n
      <4> QED BY <1>3, <1>6, <3>2, <4>1
    <3>3. CASE k = n + 1
      BY <1>3, <1>4, <1>6, <3>3
    <3> QED BY <3>1, <3>2, <3>3
  <2>2. \A x \in Clients : x = c \/ x = cabinet => pc'[x] = "done"
    BY <1>1, <1>3 DEF Seated
  <2>3. ASSUME NEW x \in Clients, pc'[x] # "done" PROVE next'[x] = NULL
    <3>1. x # c /\ pc[x] # "done"
      BY <1>3, <2>3
    <3> QED BY <1>1, <1>7, <3>1 DEF Seated
  <2> QED BY <1>1, <1>2, <1>6, <1>9, <2>1, <2>2, <2>3 DEF Seated
<1>14. CountdownAgrees'
  BY <1>1, <1>2, <1>10 DEF CountdownAgrees
<1>15. c \notin Room!Inside
  <2>1. c \notin Gone
    BY <1>2 DEF Gone
  <2>2. DOMAIN Queue = 1 .. n
    BY <1>5, LenProperties DEF n
  <2> QED BY <1>4, <2>1, <2>2 DEF Room!Inside
<1>16. Room!Wait(c)
  <2>1. Len(Queue) < max_clients
    BY <1>2, <1>5 DEF n
  <2> QED BY <1>2, <1>9, <1>10, <1>15, <2>1 DEF Room!Wait, q
<1> QED BY <1>11, <1>12, <1>13, <1>14, <1>16 DEF IInv

\* The barber takes the first of the waiting room, or whoever sits in the
\* cabinet already.
LEMMA StartShavingIInv ==
    ASSUME IInv, StartShaving
    PROVE  IInv' /\ [Room!Next]_(Room!vars)
<1> DEFINE n == Len(Queue)
           q == Tail(Queue)
           first == Queue[1]
<1>1. TypeOK /\ Listed /\ Seated /\ CountdownAgrees
  BY DEF IInv
<1>2. CASE cabinet # NULL
  <2>1. /\ UNCHANGED <<room, left, pc>> /\ barber' = "shaving"
    BY <1>2 DEF StartShaving, call_next, room
  <2>2. pc' \in [Clients -> {"try", "sleep", "done"}] /\ \A c \in Clients : pc'[c] = pc[c]
    BY <1>1, <2>1 DEF TypeOK
  <2> QED BY <1>2, <2>1, <2>2, QuietIInv
<1>3. CASE cabinet = NULL
  <2>1. /\ head # NULL /\ cabinet' = head /\ head' = next[head]
        /\ next' = [next EXCEPT ![head] = NULL]
        /\ clients_waiting' = clients_waiting - 1 /\ barber' = "shaving"
        /\ UNCHANGED <<last, pc, left>>
    BY <1>3 DEF StartShaving, call_next
  <2>2. /\ Queue \in Seq(Clients) /\ n \in Nat /\ n = clients_waiting
        /\ \A k, m \in 1 .. n : Queue[k] = Queue[m] => k = m
        /\ \A k \in 1 .. n : next[Queue[k]] = IF k = n THEN NULL ELSE Queue[k + 1]
    BY <1>1, ListFacts DEF Listed, Linked
  <2>3. /\ n > 0 /\ 1 \in 1 .. n /\ head = first /\ first \in Clients
    BY <2>1, <2>2, ListFacts
  <2>4. Queue # <<>>
    BY <2>3, EmptySeq
  <2>5. /\ q \in Seq(Clients) /\ Len(q) = n - 1 /\ \A k \in 1 .. n - 1 : q[k] = Queue[k + 1]
        /\ first = Head(Queue)
    BY <2>2, <2>4, HeadTailProperties
  <2>6. /\ next' \in [Clients -> Clients \cup {NULL}] /\ next'[first] = NULL
        /\ \A x \in Clients : x # first => next'[x] = next[x]
    <3>1. next \in [Clients -> Clients \cup {NULL}]
      BY <1>1 DEF TypeOK
    <3> QED BY <2>1, <2>3, <3>1
  <2> HIDE DEF n, q, first
  <2>7. Linked(head', next', q)
    <3>1. head' = IF Len(q) = 0 THEN NULL ELSE q[1]
      <4>1. head' = IF 1 = n THEN NULL ELSE Queue[1 + 1]
        BY <2>1, <2>2, <2>3 DEF first
      <4>2. Len(q) = 0 <=> 1 = n
        BY <2>2, <2>5
      <4>3. n # 1 => 1 \in 1 .. n - 1
        BY <2>2, <2>3
      <4> QED BY <2>5, <4>1, <4>2, <4>3
    <3>2. ASSUME NEW k \in 1 .. n - 1
          PROVE  next'[q[k]] = IF k = n - 1 THEN NULL ELSE q[k + 1]
      <4>1. /\ k + 1 \in 1 .. n /\ k + 1 # 1 /\ (k = n - 1 <=> k + 1 = n)
            /\ k # n - 1 => k + 1 \in 1 .. n - 1
        BY <2>2
      <4>2. q[k] = Queue[k + 1] /\ Queue[k + 1] \in Clients
        BY <2>5, <4>1, ListFacts DEF n
      <4>3. Queue[k + 1] # first
        BY <2>2, <2>3, <4>1 DEF first
      <4>4. next'[q[k]] = IF k + 1 = n THEN NULL ELSE Queue[(k + 1) + 1]
        BY <2>2, <2>6, <4>1, <4>2, <4>3
      <4>5. k # n - 1 => q[k + 1] = Queue[(k + 1) + 1]
        BY <2>5, <4>1
      <4> QED BY <4>1, <4>4, <4>5
    <3>3. ASSUME NEW k \in 1 .. n - 1, NEW m \in 1 .. n - 1, q[k] = q[m] PROVE k = m
      <4>1. k + 1 \in 1 .. n /\ m + 1 \in 1 .. n
        BY <2>2
      <4>2. Queue[k + 1] = Queue[m + 1]
        BY <2>5, <3>3
      <4>3. k + 1 = m + 1
        BY <2>2, <4>1, <4>2
      <4> QED BY <2>2, <4>3
    <3> QED BY <2>5, <3>1, <3>2, <3>3 DEF Linked
  <2>8. Queue' = q
    BY <2>5, <2>7, QueueIs
  <2>9. \A x \in Clients : (\A k \in 1 .. n : Queue[k] # x)
                              <=> (x # first /\ \A k \in 1 .. n - 1 : q[k] # x)
    <3>1. \A k \in 1 .. n : k = 1 \/ (k - 1 \in 1 .. n - 1 /\ (k - 1) + 1 = k)
      BY <2>2
    <3>2. \A k \in 1 .. n - 1 : k + 1 \in 1 .. n
      BY <2>2
    <3> QED BY <2>3, <2>5, <3>1, <3>2 DEF first
  <2>10. Gone' = Gone
    <3>1. Gone = {x \in Clients : pc[x] = "done" /\ x # cabinet
                     /\ \A k \in 1 .. n : Queue[k] # x}
      BY <2>2, GoneIs DEF n
    <3>2. Gone' = {x \in Clients : pc'[x] = "done" /\ x # cabinet'
                     /\ \A k \in 1 .. n - 1 : q[k] # x}
      BY <2>5, <2>8, GoneIs
    <3>3. \A x \in Clients : x # cabinet
      BY <1>3, ListFacts
    <3> QED BY <2>1, <2>3, <2>9, <3>1, <3>2, <3>3
  <2>11. TypeOK'
    <3>1. clients_waiting' \in 0 .. max_clients
      BY <1>1, <2>1, <2>2, <2>3, BarberAssumption DEF TypeOK
    <3>2. head' \in Clients \cup {NULL}
      BY <1>1, <2>1, <2>3 DEF TypeOK
    <3> QED BY <1>1, <2>1, <2>3, <2>6, <3>1, <3>2 DEF TypeOK
  <2>12. Listed'
    <3>1. Len(q) = clients_waiting'
      BY <2>1, <2>2, <2>5
    <3>2. ASSUME Len(q) > 0 PROVE last' = q[Len(q)]
      <4>1. n - 1 \in 1 .. n - 1 /\ (n - 1) + 1 = n
        BY <2>2, <2>5, <3>2
      <4>2. last = Queue[n]
        BY <2>3, ListFacts DEF n
      <4> QED BY <2>1, <2>5, <4>1, <4>2
    <3> QED BY <2>5, <2>7, <2>8, <3>1, <3>2 DEF Listed
  <2>13. Seated'
    <3>1. ASSUME NEW k \in 1 .. n - 1 PROVE pc[q[k]] = "done" /\ q[k] # first
      <4>1. k + 1 \in 1 .. n /\ k + 1 # 1 /\ q[k] = Queue[k + 1]
        BY <2>2, <2>5
      <4>2. pc[Queue[k + 1]] = "done"
        BY <1>1, <4>1 DEF Seated, n
      <4>3. Queue[k + 1] # first
        BY <2>2, <2>3, <4>1 DEF first
      <4> QED BY <4>1, <4>2, <4>3
    <3>2. pc[first] = "done" /\ first # NULL
      BY <1>1, <2>1, <2>3 DEF Seated, n, first
    <3>3. ASSUME NEW x \in Clients, pc[x] # "done" PROVE next'[x] = NULL
      BY <1>1, <2>6, <3>3 DEF Seated
    <3>4. \A x \in Clients : x = last => pc[x] = "done"
      BY <1>1 DEF Seated
    <3> QED BY <2>1, <2>3, <2>5, <2>8, <3>1, <3>2, <3>3, <3>4 DEF Seated
  <2>14. CountdownAgrees'
    BY <1>1, <2>1, <2>10 DEF CountdownAgrees
  <2>15. Room!Invite
    BY <1>3, <2>1, <2>3, <2>4, <2>5, <2>8, <2>10 DEF Room!Invite, q
  <2> QED BY <2>11, <2>12, <2>13, <2>14, <2>15 DEF IInv, Room!Next
<1> QED BY <1>2, <1>3

\* The barber is done with a client: one more is gone, one less to come.
LEMMA FinishShavingIInv ==
    ASSUME IInv, FinishShaving
    PROVE  IInv' /\ Room!Leave
<1>1. TypeOK /\ Listed /\ Seated /\ CountdownAgrees
  BY DEF IInv
<1>2. /\ cabinet # NULL /\ cabinet' = NULL /\ left' = left - 1
      /\ barber' \in {"home", "look"}
      /\ UNCHANGED <<head, last, clients_waiting, next, pc>>
  BY <1>1 DEF FinishShaving, Seated
<1>3. cabinet \in Clients /\ pc[cabinet] = "done" /\ NULL \notin Clients
  BY <1>1, <1>2, BarberAssumption DEF TypeOK, Seated
<1>4. Queue \in Seq(Clients) /\ Linked(head', next', Queue)
  BY <1>1, <1>2 DEF Listed
<1>5. Queue' = Queue
  BY <1>4, QueueIs
<1>6. Gone' = Gone \cup {cabinet} /\ cabinet \notin Gone /\ Gone' \subseteq Clients
  <2>1. Gone = {x \in Clients : pc[x] = "done" /\ x # cabinet
                   /\ \A k \in 1 .. Len(Queue) : Queue[k] # x}
    BY <1>4, GoneIs
  <2>2. Gone' = {x \in Clients : pc'[x] = "done" /\ x # cabinet'
                   /\ \A k \in 1 .. Len(Queue) : Queue[k] # x}
    BY <1>4, <1>5, GoneIs
  <2>3. \A k \in 1 .. Len(Queue) : Queue[k] # cabinet
    BY <1>1 DEF Seated
  <2> QED BY <1>2, <1>3, <2>1, <2>2, <2>3
<1>7. /\ Cardinality(Gone') = Cardinality(Gone) + 1 /\ Cardinality(Gone) \in Nat
      /\ Cardinality(Gone') <= People /\ People \in Nat
  <2>1. IsFiniteSet(Clients) /\ Gone \subseteq Clients
    BY BarberAssumption DEF Gone
  <2>2. IsFiniteSet(Gone) /\ Cardinality(Gone') <= Cardinality(Clients)
    BY <1>6, <2>1, FS_Subset
  <2>3. Cardinality(Gone') = Cardinality(Gone) + 1
    BY <1>6, <2>2, FS_AddElement
  <2>4. Cardinality(Gone) \in Nat /\ Cardinality(Clients) \in Nat
    BY <2>1, <2>2, FS_CardinalityType
  <2> QED BY <2>2, <2>3, <2>4 DEF People
<1>8. left' = People - Cardinality(Gone') /\ left' \in 0 .. People
  <2>1. left = People - Cardinality(Gone)
    BY <1>1 DEF CountdownAgrees, People
  <2> QED BY <1>2, <1>7, <2>1
<1>9. TypeOK'
  BY <1>1, <1>2, <1>8 DEF TypeOK, People
<1>10. Listed'
  BY <1>1, <1>2, <1>4, <1>5 DEF Listed
<1>11. Seated'
  <2>1. \A k \in 1 .. Len(Queue) : pc[Queue[k]] = "done" /\ Queue[k] # NULL
    BY <1>1, ListFacts DEF Seated
  <2>2. \A x \in Clients : x = last \/ x = NULL => pc[x] = "done"
    BY <1>1, <1>3 DEF Seated
  <2> QED BY <1>1, <1>2, <1>5, <2>1, <2>2 DEF Seated
<1>12. CountdownAgrees'
  BY <1>8 DEF CountdownAgrees, People
<1>13. Room!Leave
  BY <1>2, <1>5, <1>6 DEF Room!Leave
<1> QED BY <1>9, <1>10, <1>11, <1>12, <1>13 DEF IInv

\* Every step keeps the invariant and is a step of the abstract waiting room.
LEMMA NextIInv ==
    ASSUME IInv, [Next]_vars
    PROVE  IInv' /\ [Room!Next]_(Room!vars)
<1>1. TypeOK
  BY DEF IInv
<1>2. ASSUME NEW c \in Clients, TakeCabinet(c) PROVE IInv' /\ [Room!Next]_(Room!vars)
  BY <1>2, TakeCabinetIInv DEF Room!Next
<1>3. ASSUME NEW c \in Clients, TakeChair(c) PROVE IInv' /\ [Room!Next]_(Room!vars)
  BY <1>3, TakeChairIInv DEF Room!Next
<1>4. ASSUME NEW c \in Clients, TurnAway(c) \/ TryAgain(c)
      PROVE  IInv' /\ [Room!Next]_(Room!vars)
  <2>1. UNCHANGED <<room, left>> /\ barber' = barber
    BY <1>4 DEF TurnAway, TryAgain
  <2>2. /\ pc' \in [Clients -> {"try", "sleep", "done"}]
        /\ \A x \in Clients : pc'[x] = "done" <=> pc[x] = "done"
    BY <1>1, <1>4 DEF TurnAway, TryAgain, TypeOK
  <2>3. barber' \in {"look", "asleep", "woken", "shaving", "home"}
        /\ (barber' = "shaving" => cabinet # NULL)
    BY <1>1, <2>1 DEF IInv, Seated, TypeOK
  <2> QED BY <2>1, <2>2, <2>3, QuietIInv
<1>5. CASE FallAsleep \/ SpuriousWakeup
  <2>1. UNCHANGED <<room, left>> /\ pc' = pc /\ barber' \in {"asleep", "woken"}
    BY <1>5 DEF FallAsleep, SpuriousWakeup
  <2> QED BY <1>1, <2>1, QuietIInv DEF TypeOK
<1>6. CASE StartShaving
  BY <1>6, StartShavingIInv
<1>7. CASE FinishShaving
  BY <1>7, FinishShavingIInv DEF Room!Next
<1>8. CASE UNCHANGED vars
  <2>1. UNCHANGED <<room, left>> /\ pc' = pc /\ barber' = barber
    BY <1>8 DEF vars, room
  <2> QED BY <1>1, <2>1, QuietIInv DEF TypeOK, IInv, Seated
<1> QED BY <1>2, <1>3, <1>4, <1>5, <1>6, <1>7, <1>8 DEF Next, ClientStep, BarberStep

-----------------------------------------------------------------------------
(* The theorems *)

\* IInv is an inductive invariant of the barber shop.
THEOREM InductiveInvariant == Spec => []IInv
<1>1. IInv /\ [Next]_vars => IInv'
  BY NextIInv
<1> QED BY <1>1, InitIInv, PTL DEF Spec

\* Types: head, last and the cabinet are clients or NULL, the waiting room
\* never holds more than max_clients, the countdown never passes zero.
THEOREM TypeCorrect == Spec => []TypeOK
<1>1. IInv => TypeOK
  BY DEF IInv
<1> QED BY <1>1, InductiveInvariant, PTL

\* The list stays a list although last dangles (client, line 40, and barber,
\* which never resets last).
THEOREM ListStaysIntact == Spec => []ListIntact
<1>1. IInv => ListIntact
  <2> SUFFICES ASSUME IInv PROVE ListIntact
    OBVIOUS
  <2>1. Listed /\ Seated /\ Queue \in Seq(Clients)
    BY DEF IInv, Listed
  <2>2. DOMAIN Queue = 1 .. Len(Queue)
    BY <2>1, LenProperties
  <2>3. Cardinality(Queued) = Len(Queue)
    BY <2>1, <2>2, QueueCounts DEF Queued, Listed, Linked
  <2>4. cabinet \notin Queued
    BY <2>1, <2>2 DEF Queued, Seated
  <2>5. Queue # <<>> => last = Queue[Len(Queue)]
    BY <2>1, EmptySeq DEF Listed
  <2> QED BY <2>1, <2>3, <2>4, <2>5 DEF ListIntact, Listed
<1> QED BY <1>1, InductiveInvariant, PTL

\* The barber's loop counter agrees with the clients he served.
THEOREM CountdownExact == Spec => []CountdownAgrees
<1>1. IInv => CountdownAgrees
  BY DEF IInv
<1> QED BY <1>1, InductiveInvariant, PTL

\* The linked list implements the waiting room: nobody shares a chair, nobody
\* is lost or overtaken.
THEOREM Refinement == Spec => ImplementsRoom
<1>1. IInv /\ [Next]_vars => [Room!Next]_(Room!vars)
  BY NextIInv
<1> QED BY <1>1, InitIInv, InductiveInvariant, PTL DEF Spec, ImplementsRoom, Room!Spec

=============================================================================
