---------------------------- MODULE SvShopProofs ----------------------------
(***************************************************************************)
(* Proofs about SvShop for every table size, every finite set of workers,  *)
(* every limit of the undo values and every number of kills.               *)
(***************************************************************************)
EXTENDS SvShop, ShopMemoryProofs

(* The inductive invariant. *)

\* The undo value of the mutex is what its worker would have to give back.
UndoHoldsMutex ==
    \A w \in Workers \ dead : semadj[w][1] = IF pc[w] \in Inside THEN 1 ELSE 0

MutexCounts == semval[1] = 1 - Cardinality(In(Workers \ dead, Inside))

ReceiverHasOrder == \A w \in Receivers : pc[w] \in Early => got[w] \in Orders

\* As long as no worker has ended the table is in order.
TableWhileAllLive == dead = {} => MemoryOK /\ ReceiverHasOrder

IInv ==
    /\ TypeOK
    /\ UndoHoldsMutex
    /\ MutexCounts
    /\ CreditsAgree
    /\ TableWhileAllLive

-----------------------------------------------------------------------------
(* What one semop adds to each semaphore *)

\* Short arrays put together.
LEMMA Joined ==
    ASSUME NEW a, NEW b, NEW c
    PROVE  /\ <<a>> \o <<>> = <<a>> /\ <<a, b>> \o <<>> = <<a, b>>
           /\ <<a>> \o <<b>> = <<a, b>> /\ <<a, b>> \o <<c>> = <<a, b, c>>
<1> DEFINE S == {a, b, c}
<1>1. <<a>> \in Seq(S) /\ <<b>> \in Seq(S) /\ <<c>> \in Seq(S)
      /\ <<a, b>> \in Seq(S) /\ <<a, b, c>> \in Seq(S)
  OBVIOUS
<1>2. /\ Len(<<a>>) = 1 /\ Len(<<b>>) = 1 /\ Len(<<c>>) = 1
      /\ Len(<<a, b>>) = 2 /\ Len(<<a, b, c>>) = 3
  OBVIOUS
<1> HIDE DEF S
<1>3. <<a>> \o <<>> = <<a>> /\ <<a, b>> \o <<>> = <<a, b>>
  BY <1>1, ConcatEmptySeq
<1>4. <<a>> \o <<b>> = <<a, b>>
  <2>1. /\ Len(<<a>> \o <<b>>) = 2 /\ <<a>> \o <<b>> \in Seq(S)
        /\ \A i \in 1 .. 2 : (<<a>> \o <<b>>)[i] = <<a, b>>[i]
    BY <1>1, <1>2, ConcatProperties
  <2> QED BY <1>1, <1>2, <2>1, SeqEqual
<1>5. <<a, b>> \o <<c>> = <<a, b, c>>
  <2>1. /\ Len(<<a, b>> \o <<c>>) = 3 /\ <<a, b>> \o <<c>> \in Seq(S)
        /\ \A i \in 1 .. 3 : (<<a, b>> \o <<c>>)[i] = <<a, b, c>>[i]
    BY <1>1, <1>2, ConcatProperties
  <2> QED BY <1>1, <1>2, <2>1, SeqEqual
<1> QED BY <1>3, <1>4, <1>5

\* An array of operations that names no semaphore twice.
WellFormed(ops) ==
    \A i \in DOMAIN ops :
        /\ ops[i].sem \in Sems /\ ops[i].by \in Int
        /\ \A j \in DOMAIN ops : ops[j].sem = ops[i].sem => j = i

\* The sum an array adds to a semaphore is that of the operation naming it.
LEMMA TotalIs ==
    ASSUME NEW ops, WellFormed(ops), NEW i \in DOMAIN ops
    PROVE  Total(ops, ops[i].sem) = ops[i].by
<1> DEFINE S == {ops[j] : j \in DOMAIN ops}
           c == CHOOSE op \in S : op.sem = ops[i].sem
<1>1. ops[i] \in S
  OBVIOUS
<1>2. c \in S /\ c.sem = ops[i].sem
  BY <1>1
<1>3. PICK j \in DOMAIN ops : c = ops[j]
  BY <1>2
<1>4. c.by = ops[i].by
  BY <1>2, <1>3 DEF WellFormed
<1> QED BY <1>4 DEF Total

\* A semaphore no operation names stays as it is.
LEMMA TotalIsNot ==
    ASSUME NEW ops, NEW s, \A i \in DOMAIN ops : ops[i].sem # s
    PROVE  Total(ops, s) = 0
  BY DEF Total

\* What entering adds to semaphore s.
Entering(w, s) ==
    IF s = 1 THEN -1
    ELSE IF w \in Receivers THEN (IF s = 0 THEN -1 ELSE IF s = 3 THEN 1 ELSE 0)
    ELSE IF w \in Packers THEN (IF s = 2 THEN 1 ELSE IF s = 3 THEN -1 ELSE 0)
    ELSE (IF s = 2 THEN -1 ELSE 0)

\* What leaving adds to semaphore s.
Exiting(w, s) == IF s = 1 THEN 1 ELSE IF w \in Senders /\ s = 0 THEN 1 ELSE 0

\* The array of mxn_get_sem, for each kind of worker.
LEMMA GetOps ==
    ASSUME NEW w \in Workers
    PROVE  /\ WellFormed(get_ops(w))
           /\ \A s \in Sems : Total(get_ops(w), s) = Entering(w, s)
<1> DEFINE r == <<Op(1, -1), Op(0, -1), Op(3, 1)>>
           p == <<Op(1, -1), Op(2, 1), Op(3, -1)>>
           q == <<Op(1, -1), Op(2, -1)>>
<1>1. get_ops(w) = IF w \in Receivers THEN r ELSE IF w \in Packers THEN p ELSE q
  <2>1. CASE w \in Receivers
    <3>1. get_ops(w) = ((<<Op(1, -1)>> \o <<Op(0, -1)>>) \o <<>>) \o <<Op(3, 1)>>
      BY <2>1, RolesDisjoint DEF get_ops, action_m, action_n, action_x, Credit
    <3> QED BY <2>1, <3>1, Joined, ZenonT(60)
  <2>2. CASE w \in Packers
    <3>1. get_ops(w) = ((<<Op(1, -1)>> \o <<>>) \o <<Op(2, 1)>>) \o <<Op(3, -1)>>
      BY <2>2, RolesDisjoint DEF get_ops, action_m, action_n, action_x, Credit
    <3> QED BY <2>2, <3>1, RolesDisjoint, Joined
  <2>3. CASE w \in Senders
    <3>1. get_ops(w) = ((<<Op(1, -1)>> \o <<>>) \o <<Op(2, -1)>>) \o <<>>
      BY <2>3, RolesDisjoint DEF get_ops, action_m, action_n, action_x, Credit
    <3> QED BY <2>3, <3>1, RolesDisjoint, Joined
  <2> QED BY <2>1, <2>2, <2>3 DEF Workers
<1>2. WellFormed(r) /\ \A s \in Sems : Total(r, s) = IF s \in {0, 1} THEN -1 ELSE IF s = 3 THEN 1 ELSE 0
  <2>1. /\ DOMAIN r = 1 .. 3
        /\ r[1] = [sem |-> 1, by |-> -1] /\ r[2] = [sem |-> 0, by |-> -1]
        /\ r[3] = [sem |-> 3, by |-> 1]
    BY DEF Op
  <2> HIDE DEF r
  <2>2. WellFormed(r)
    BY <2>1 DEF WellFormed, Sems
  <2>3. Total(r, 1) = -1 /\ Total(r, 0) = -1 /\ Total(r, 3) = 1
    BY <2>1, <2>2, TotalIs
  <2>4. Total(r, 2) = 0
    BY <2>1, TotalIsNot
  <2> QED BY <2>2, <2>3, <2>4 DEF Sems
<1>3. WellFormed(p) /\ \A s \in Sems : Total(p, s) = IF s \in {1, 3} THEN -1 ELSE IF s = 2 THEN 1 ELSE 0
  <2>1. /\ DOMAIN p = 1 .. 3
        /\ p[1] = [sem |-> 1, by |-> -1] /\ p[2] = [sem |-> 2, by |-> 1]
        /\ p[3] = [sem |-> 3, by |-> -1]
    BY DEF Op
  <2> HIDE DEF p
  <2>2. WellFormed(p)
    BY <2>1 DEF WellFormed, Sems
  <2>3. Total(p, 1) = -1 /\ Total(p, 2) = 1 /\ Total(p, 3) = -1
    BY <2>1, <2>2, TotalIs
  <2>4. Total(p, 0) = 0
    BY <2>1, TotalIsNot
  <2> QED BY <2>2, <2>3, <2>4 DEF Sems
<1>4. WellFormed(q) /\ \A s \in Sems : Total(q, s) = IF s \in {1, 2} THEN -1 ELSE 0
  <2>1. /\ DOMAIN q = 1 .. 2
        /\ q[1] = [sem |-> 1, by |-> -1] /\ q[2] = [sem |-> 2, by |-> -1]
    BY DEF Op
  <2> HIDE DEF q
  <2>2. WellFormed(q)
    BY <2>1 DEF WellFormed, Sems
  <2>3. Total(q, 1) = -1 /\ Total(q, 2) = -1
    BY <2>1, <2>2, TotalIs
  <2>4. Total(q, 0) = 0 /\ Total(q, 3) = 0
    BY <2>1, TotalIsNot
  <2> QED BY <2>2, <2>3, <2>4 DEF Sems
<1> HIDE DEF r, p, q
<1> QED BY <1>1, <1>2, <1>3, <1>4 DEF Entering, Sems

\* The array of mxn_return_sem, for each kind of worker.
LEMMA ReturnOps ==
    ASSUME NEW w \in Workers
    PROVE  /\ WellFormed(return_ops(w))
           /\ \A s \in Sems : Total(return_ops(w), s) = Exiting(w, s)
<1> DEFINE q == <<Op(1, 1), Op(0, 1)>>
           r == <<Op(1, 1)>>
<1>1. return_ops(w) = IF w \in Senders THEN q ELSE r
  BY RolesDisjoint, Joined DEF return_ops, action_x
<1>2. WellFormed(q) /\ \A s \in Sems : Total(q, s) = IF s \in {0, 1} THEN 1 ELSE 0
  <2>1. /\ DOMAIN q = 1 .. 2
        /\ q[1] = [sem |-> 1, by |-> 1] /\ q[2] = [sem |-> 0, by |-> 1]
    BY DEF Op
  <2> HIDE DEF q
  <2>2. WellFormed(q)
    BY <2>1 DEF WellFormed, Sems
  <2>3. Total(q, 1) = 1 /\ Total(q, 0) = 1
    BY <2>1, <2>2, TotalIs
  <2>4. Total(q, 2) = 0 /\ Total(q, 3) = 0
    BY <2>1, TotalIsNot
  <2> QED BY <2>2, <2>3, <2>4 DEF Sems
<1>3. WellFormed(r) /\ \A s \in Sems : Total(r, s) = IF s = 1 THEN 1 ELSE 0
  <2>1. DOMAIN r = 1 .. 1 /\ r[1] = [sem |-> 1, by |-> 1]
    BY DEF Op
  <2> HIDE DEF r
  <2>2. WellFormed(r)
    BY <2>1 DEF WellFormed, Sems
  <2>3. Total(r, 1) = 1
    BY <2>1, <2>2, TotalIs
  <2>4. Total(r, 0) = 0 /\ Total(r, 2) = 0 /\ Total(r, 3) = 0
    BY <2>1, TotalIsNot
  <2> QED BY <2>2, <2>3, <2>4 DEF Sems
<1> HIDE DEF r, q
<1> QED BY <1>1, <1>2, <1>3 DEF Exiting, Sems

\* A semop that goes through keeps the values natural and the undo values in
\* their range.
LEMMA SemopTypes ==
    ASSUME TypeOK, NEW w \in Workers, NEW ops, WellFormed(ops), semop(w, ops)
    PROVE  /\ semval' \in [Sems -> Nat]
           /\ semadj' \in [Workers -> [Sems -> -SEMAEM - 1 .. SEMAEM]]
<1>1. ASSUME NEW s \in Sems
      PROVE  /\ semval[s] + Total(ops, s) \in Nat
             /\ semadj[w][s] - Total(ops, s) \in -SEMAEM - 1 .. SEMAEM
  <2>0. semval[s] \in Nat /\ semadj[w][s] \in -SEMAEM - 1 .. SEMAEM /\ SEMAEM \in Nat
    BY SvAssumption DEF TypeOK
  <2>1. CASE \E i \in DOMAIN ops : ops[i].sem = s
    <3>1. PICK i \in DOMAIN ops : ops[i].sem = s
      BY <2>1
    <3>2. Total(ops, s) = ops[i].by /\ ops[i].by \in Int
      BY <3>1, TotalIs DEF WellFormed
    <3>3. Passes(w, ops[i])
      BY DEF semop
    <3> QED BY <2>0, <3>1, <3>2, <3>3 DEF Passes, Blocks, OutOfRange
  <2>2. CASE ~ \E i \in DOMAIN ops : ops[i].sem = s
    <3>1. Total(ops, s) = 0
      BY <2>2, TotalIsNot
    <3> QED BY <2>0, <3>1
  <2> QED BY <2>1, <2>2
<1>2. semval' = [s \in Sems |-> semval[s] + Total(ops, s)]
      /\ semadj' = [semadj EXCEPT ![w] = [s \in Sems |-> semadj[w][s] - Total(ops, s)]]
  BY DEF semop
<1> QED BY <1>1, <1>2 DEF TypeOK

-----------------------------------------------------------------------------
(* The mutex *)

\* The worker inside, if any, across one worker's move between the semops.
LEMMA InsideMove ==
    ASSUME TypeOK, NEW w \in Workers \ dead, NEW to, Goto(w, to), dead' = dead
    PROVE  /\ Cardinality(In(Workers \ dead, Inside)) \in Nat
           /\ Cardinality(In(Workers \ dead, Inside))'
                = Cardinality(In(Workers \ dead, Inside)) + (IF to \in Inside THEN 1 ELSE 0)
                                                          - (IF pc[w] \in Inside THEN 1 ELSE 0)
<1> DEFINE W == Workers \ dead
<1>1. /\ pc \in [Workers -> Labels] /\ pc' = [pc EXCEPT ![w] = to]
      /\ W \subseteq Workers /\ w \in W /\ w \in Workers
  BY DEF TypeOK, Goto
<1>2. In(Workers \ dead, Inside)' = {v \in W : pc'[v] \in Inside}
  BY DEF In, Inside
<1> HIDE DEF W
<1>3. Cardinality({v \in W : pc'[v] \in Inside}) = Cardinality(In(W, Inside))
         + (IF w \in W /\ to \in Inside THEN 1 ELSE 0)
         - (IF w \in W /\ pc[w] \in Inside THEN 1 ELSE 0)
  BY <1>1, SomeMove
<1>4. Cardinality(In(W, Inside)) \in Nat
  BY <1>1, SomeFinite
<1> QED BY <1>1, <1>2, <1>3, <1>4 DEF W

\* Two workers that are alive are never both inside.
LEMMA OneInside ==
    ASSUME TypeOK, MutexCounts, NEW v \in Workers \ dead, NEW w \in Workers \ dead,
           pc[v] \in Inside, pc[w] \in Inside
    PROVE  v = w
<1> SUFFICES ASSUME v # w PROVE FALSE
  OBVIOUS
<1> DEFINE I == In(Workers \ dead, Inside)
<1>1. IsFiniteSet(I) /\ Cardinality(I) \in Nat
  BY SomeFinite
<1>2. v \in I /\ w \in I \ {v}
  BY DEF In
<1>3. IsFiniteSet(I \ {v}) /\ Cardinality(I \ {v}) = Cardinality(I) - 1
  BY <1>1, <1>2, FS_RemoveElement
<1>4. Cardinality(I \ {v}) # 0 /\ Cardinality(I \ {v}) \in Nat
  BY <1>2, <1>3, FS_EmptySet, FS_CardinalityType
<1>5. Cardinality(I) <= 1
  <2>1. semval[1] \in Nat
    BY DEF TypeOK, Sems
  <2> QED BY <1>1, <2>1 DEF MutexCounts
<1> HIDE DEF I
<1> QED BY <1>1, <1>3, <1>4, <1>5

-----------------------------------------------------------------------------
(* The semaphores against the table, while every worker lives *)

Credits ==
    /\ semval[0] = MAX_ORDERS - Unsent - Cardinality(In(Receivers, Early))
                   - Cardinality(In(Senders, Leaving))
    /\ semval[2] = Packed + Cardinality(In(Packers, Early)) - Cardinality(In(Senders, Early))
    /\ semval[3] = Unpacked + Cardinality(In(Receivers, Early))
                   - Cardinality(In(Packers, Early))

\* The four counts Credits is made of are numbers.
LEMMA CreditCounts ==
    /\ Cardinality(In(Receivers, Early)) \in Nat /\ Cardinality(In(Packers, Early)) \in Nat
    /\ Cardinality(In(Senders, Early)) \in Nat /\ Cardinality(In(Senders, Leaving)) \in Nat
  BY InFinite

\* How the four counts change when worker w goes to label to.
CreditsMove(w, to) ==
    /\ Cardinality(In(Receivers, Early))' = Cardinality(In(Receivers, Early))
         + (IF w \in Receivers /\ to \in Early THEN 1 ELSE 0)
         - (IF w \in Receivers /\ pc[w] \in Early THEN 1 ELSE 0)
    /\ Cardinality(In(Packers, Early))' = Cardinality(In(Packers, Early))
         + (IF w \in Packers /\ to \in Early THEN 1 ELSE 0)
         - (IF w \in Packers /\ pc[w] \in Early THEN 1 ELSE 0)
    /\ Cardinality(In(Senders, Early))' = Cardinality(In(Senders, Early))
         + (IF w \in Senders /\ to \in Early THEN 1 ELSE 0)
         - (IF w \in Senders /\ pc[w] \in Early THEN 1 ELSE 0)
    /\ Cardinality(In(Senders, Leaving))' = Cardinality(In(Senders, Leaving))
         + (IF w \in Senders /\ to \in Leaving THEN 1 ELSE 0)
         - (IF w \in Senders /\ pc[w] \in Leaving THEN 1 ELSE 0)

LEMMA CreditsMoved ==
    ASSUME TypeOK, NEW w \in Workers, NEW to, Goto(w, to)
    PROVE  CreditsMove(w, to)
<1>1. pc \in [Workers -> Labels] /\ pc' = [pc EXCEPT ![w] = to]
  BY DEF TypeOK, Goto
<1>2. ASSUME NEW W \in {Receivers, Packers, Senders, Workers}, NEW L
      PROVE  Cardinality(In(W, L)') = Cardinality(In(W, L))
               + (IF w \in W /\ to \in L THEN 1 ELSE 0)
               - (IF w \in W /\ pc[w] \in L THEN 1 ELSE 0)
  BY <1>1, CountMove
<1> QED BY <1>2 DEF CreditsMove, Early, Leaving

\* Whoever is about to look into the table has the credit for it: a semop that
\* went through left no value negative, and no other worker is before its
\* interaction with the table.
LEMMA CreditInHand ==
    ASSUME IInv, dead = {}, NEW w \in Workers, pc[w] = "n"
    PROVE  /\ w \in Receivers => got[w] \in Orders /\ Unsent < MAX_ORDERS
           /\ w \in Packers => Unpacked >= 1
           /\ w \in Senders => Packed >= 1
<1>1. /\ MemoryOK /\ ReceiverHasOrder /\ Credits /\ TypeOK /\ MutexCounts
      /\ semval[0] \in Nat /\ semval[2] \in Nat /\ semval[3] \in Nat
  BY DEF IInv, TableWhileAllLive, CreditsAgree, Credits, TypeOK, Sems
<1>2. ASSUME NEW W \in Kinds, w \notin W
      PROVE  Cardinality(In(W, Early)) = 0
  <2>1. ASSUME NEW v \in W, pc[v] \in Early PROVE FALSE
    <3>1. v \in Workers \ dead /\ w \in Workers \ dead /\ pc[v] \in Inside /\ pc[w] \in Inside
      BY <2>1 DEF Kinds, Workers, Early, Inside
    <3> QED BY <1>1, <1>2, <3>1, OneInside
  <2>2. In(W, Early) = {}
    BY <2>1 DEF In
  <2> QED BY <2>2, FS_EmptySet
<1>3. ASSUME NEW W \in Kinds, w \in W
      PROVE  Cardinality(In(W, Early)) >= 1
  <2>1. W \in {Receivers, Packers, Senders, Workers} /\ pc[w] \in Early
    BY DEF Kinds, Early
  <2> QED BY <1>3, <2>1, InPositive
<1>4. Unpacked \in Nat /\ Packed \in Nat /\ Unsent \in Nat
  BY <1>1 DEF MemoryOK, Unsent
<1>5. CASE w \in Receivers
  <2>1. Cardinality(In(Receivers, Early)) >= 1
    BY <1>3, <1>5 DEF Kinds
  <2>2. Unsent < MAX_ORDERS
    BY <1>1, <1>4, <2>1, CreditCounts, ShopAssumption DEF Credits
  <2>3. got[w] \in Orders
    BY <1>1, <1>5 DEF ReceiverHasOrder, Early
  <2> QED BY <1>5, <2>2, <2>3, RolesDisjoint
<1>6. CASE w \in Packers
  <2>1. Cardinality(In(Packers, Early)) >= 1 /\ Cardinality(In(Receivers, Early)) = 0
    BY <1>2, <1>3, <1>6, RolesDisjoint DEF Kinds
  <2>2. Unpacked >= 1
    BY <1>1, <1>4, <2>1, CreditCounts DEF Credits
  <2> QED BY <1>6, <2>2, RolesDisjoint
<1>7. CASE w \in Senders
  <2>1. Cardinality(In(Senders, Early)) >= 1 /\ Cardinality(In(Packers, Early)) = 0
    BY <1>2, <1>3, <1>7, RolesDisjoint DEF Kinds
  <2>2. Packed >= 1
    BY <1>1, <1>4, <2>1, CreditCounts DEF Credits
  <2> QED BY <1>7, <2>2, RolesDisjoint
<1> QED BY <1>5, <1>6, <1>7 DEF Workers

-----------------------------------------------------------------------------
(* The steps *)

\* The shop starts in the inductive invariant: create_shm, create_sem.
LEMMA InitIInv == Init => IInv
<1> SUFFICES ASSUME Init PROVE IInv
  OBVIOUS
<1>1. pc \in [Workers -> {"get_sem"}] /\ {"get_sem"} \cap {"n", "x"} = {}
  BY DEF Init
<1>2. MemoryOK /\ Unpacked = 0 /\ Packed = 0
  BY <1>1, EmptyMemory DEF Init
<1>3. \A W \in {Receivers, Packers, Senders, Workers \ dead}, L \in {Inside, Early, Leaving} :
         In(W, L) = {}
  BY <1>1 DEF In, Inside, Early, Leaving, Workers
<1>4. \A W \in {Receivers, Packers, Senders, Workers \ dead}, L \in {Inside, Early, Leaving} :
         Cardinality(In(W, L)) = 0
  BY <1>3, FS_EmptySet
<1>5. TypeOK
  <2>1. 0 \in -SEMAEM - 1 .. SEMAEM /\ 0 \in 0 .. MaxKills
    BY SvAssumption
  <2>2. semval \in [Sems -> Nat] /\ semadj \in [Workers -> [Sems -> -SEMAEM - 1 .. SEMAEM]]
    BY <2>1, ShopAssumption DEF Init, create_sem, Sems
  <2>3. pc \in [Workers -> Labels]
    BY DEF Init, Labels
  <2> QED BY <1>2, <2>1, <2>2, <2>3 DEF TypeOK, MemoryOK, Held, Init
<1>6. UndoHoldsMutex
  BY DEF UndoHoldsMutex, Init, create_sem, Inside, Sems
<1>7. MutexCounts
  BY <1>4 DEF MutexCounts, Init, create_sem, Sems
<1>8. Credits
  <2>1. semval[0] = MAX_ORDERS /\ semval[2] = 0 /\ semval[3] = 0
    BY DEF Init, create_sem, Sems
  <2> QED BY <1>2, <1>4, <2>1, ShopAssumption DEF Credits, Unsent
<1>9. ReceiverHasOrder
  BY DEF ReceiverHasOrder, Init, Early, Workers
<1> QED BY <1>2, <1>5, <1>6, <1>7, <1>8, <1>9
        DEF IInv, TableWhileAllLive, CreditsAgree, Credits

\* The two semops move the mutex with the worker, and its undo value against it.
LEMMA SemopMutex ==
    ASSUME IInv, NEW w \in Workers \ dead, NEW ops, WellFormed(ops), semop(w, ops),
           NEW to, Goto(w, to), dead' = dead,
           Total(ops, 1) = (IF pc[w] \in Inside THEN 1 ELSE 0) - (IF to \in Inside THEN 1 ELSE 0)
    PROVE  UndoHoldsMutex' /\ MutexCounts'
<1>1. TypeOK /\ UndoHoldsMutex /\ MutexCounts /\ w \in Workers
  BY DEF IInv
<1>2. semval[1] \in Nat /\ semadj \in [Workers -> [Sems -> Int]] /\ 1 \in Sems
      /\ pc \in [Workers -> Labels]
  BY <1>1, SvAssumption DEF TypeOK, Sems
<1>3. /\ semval'[1] = semval[1] + Total(ops, 1)
      /\ semadj'[w][1] = semadj[w][1] - Total(ops, 1)
      /\ \A v \in Workers \ {w} : semadj'[v] = semadj[v]
  BY <1>1, <1>2 DEF semop
<1>4. pc'[w] = to /\ \A v \in Workers \ {w} : pc'[v] = pc[v]
  BY <1>1, <1>2 DEF Goto
<1>5. MutexCounts'
  <2>1. /\ Cardinality(In(Workers \ dead, Inside)) \in Nat
        /\ Cardinality(In(Workers \ dead, Inside))'
             = Cardinality(In(Workers \ dead, Inside)) + (IF to \in Inside THEN 1 ELSE 0)
                                                       - (IF pc[w] \in Inside THEN 1 ELSE 0)
    BY <1>1, InsideMove
  <2> QED BY <1>1, <1>2, <1>3, <2>1 DEF MutexCounts
<1>6. UndoHoldsMutex'
  <2> SUFFICES ASSUME NEW v \in Workers \ dead
               PROVE  semadj'[v][1] = IF pc'[v] \in Inside THEN 1 ELSE 0
    BY DEF UndoHoldsMutex
  <2>1. CASE v = w
    BY <1>1, <1>3, <1>4, <2>1 DEF UndoHoldsMutex
  <2>2. CASE v # w
    BY <1>1, <1>3, <1>4, <2>2 DEF UndoHoldsMutex
  <2> QED BY <2>1, <2>2
<1> QED BY <1>5, <1>6

\* A step inside the critical section leaves the semaphores and the mutex.
LEMMA InsideMutex ==
    ASSUME IInv, NEW w \in Workers \ dead, NEW to, Goto(w, to), UNCHANGED svVars,
           pc[w] \in Inside, to \in Inside
    PROVE  UndoHoldsMutex' /\ MutexCounts'
<1>1. TypeOK /\ UndoHoldsMutex /\ MutexCounts /\ w \in Workers /\ pc \in [Workers -> Labels]
      /\ semval' = semval /\ semadj' = semadj /\ dead' = dead
  BY DEF IInv, TypeOK, svVars
<1>2. pc'[w] = to /\ \A v \in Workers \ {w} : pc'[v] = pc[v]
  BY <1>1 DEF Goto
<1>3. MutexCounts'
  <2>1. /\ Cardinality(In(Workers \ dead, Inside)) \in Nat
        /\ Cardinality(In(Workers \ dead, Inside))'
             = Cardinality(In(Workers \ dead, Inside)) + (IF to \in Inside THEN 1 ELSE 0)
                                                       - (IF pc[w] \in Inside THEN 1 ELSE 0)
    BY <1>1, InsideMove
  <2> QED BY <1>1, <2>1 DEF MutexCounts
<1>4. UndoHoldsMutex'
  BY <1>1, <1>2 DEF UndoHoldsMutex
<1> QED BY <1>3, <1>4

\* mxn_get_sem: the levels stay, the semaphores move with the worker's kind.
LEMMA GetSemIInv ==
    ASSUME IInv, NEW w \in Workers \ dead, GetSem(w)
    PROVE  IInv' /\ (dead = {} => UNCHANGED Pipeline!vars)
<1>1. /\ TypeOK /\ w \in Workers /\ pc[w] = "get_sem" /\ Goto(w, "m")
      /\ UNCHANGED <<first, m, x, table, dead, kills>> /\ semop(w, get_ops(w))
      /\ pc \in [Workers -> Labels]
  BY DEF IInv, TypeOK, GetSem, memory
<1>2. WellFormed(get_ops(w)) /\ \A s \in Sems : Total(get_ops(w), s) = Entering(w, s)
  BY <1>1, GetOps
<1>3. /\ got' \in [Workers -> Held] /\ \A v \in Packers \cup Senders : got'[v] = got[v]
      /\ \A v \in Receivers : IF v = w THEN got'[v] \in Orders ELSE got'[v] = got[v]
  BY <1>1, RolesDisjoint, ShopAssumption, SMTT(60) DEF GetSem, TypeOK, Held, Workers
<1>4. TypeOK'
  <2>1. pc' \in [Workers -> Labels]
    BY <1>1 DEF Goto, Labels
  <2>2. semval' \in [Sems -> Nat] /\ semadj' \in [Workers -> [Sems -> -SEMAEM - 1 .. SEMAEM]]
    BY <1>1, <1>2, SemopTypes
  <2> QED BY <1>1, <1>3, <2>1, <2>2 DEF TypeOK, Held
<1>5. UndoHoldsMutex' /\ MutexCounts'
  <2>1. Total(get_ops(w), 1)
          = (IF pc[w] \in Inside THEN 1 ELSE 0) - (IF "m" \in Inside THEN 1 ELSE 0)
    BY <1>1, <1>2 DEF Entering, Sems, Inside
  <2> QED BY <1>1, <1>2, <2>1, SemopMutex
<1>6. ASSUME dead = {}
      PROVE  Credits' /\ MemoryOK' /\ ReceiverHasOrder' /\ UNCHANGED Pipeline!vars
  <2>1. MemoryOK /\ ReceiverHasOrder /\ Credits /\ m \in Int /\ x \in Int
    BY <1>6 DEF IInv, TableWhileAllLive, CreditsAgree, Credits, MemoryOK
  <2>2. Unpacked' = Unpacked /\ Packed' = Packed /\ Unsent' = Unsent
    <3>1. /\ w \in Workers /\ pc \in [Workers -> Labels] /\ pc' = [pc EXCEPT ![w] = "m"]
          /\ pc[w] \notin {"n", "x"} /\ "m" \notin {"n", "x"} /\ UNCHANGED <<m, x>>
      BY <1>1 DEF Goto
    <3> QED BY <3>1, OutsideLevels
  <2>3. MemoryOK' /\ UNCHANGED Pipeline!vars
    BY <1>1, <1>3, <2>1, <2>2, QuietStep
  <2>4. ReceiverHasOrder'
    <3>1. \A v \in Receivers : v # w => pc'[v] = pc[v]
      BY <1>1 DEF Goto, Workers
    <3> QED BY <1>3, <2>1, <3>1 DEF ReceiverHasOrder
  <2>5. Credits'
    <3>1. CreditsMove(w, "m")
      BY <1>1, CreditsMoved
    <3>2. /\ Cardinality(In(Receivers, Early))' = Cardinality(In(Receivers, Early))
               + (IF w \in Receivers THEN 1 ELSE 0)
          /\ Cardinality(In(Packers, Early))' = Cardinality(In(Packers, Early))
               + (IF w \in Packers THEN 1 ELSE 0)
          /\ Cardinality(In(Senders, Early))' = Cardinality(In(Senders, Early))
               + (IF w \in Senders THEN 1 ELSE 0)
          /\ Cardinality(In(Senders, Leaving))' = Cardinality(In(Senders, Leaving))
      BY <1>1, <3>1, CreditCounts DEF CreditsMove, Early, Leaving
    <3>3. \A s \in Sems : semval'[s] = semval[s] + Entering(w, s)
      BY <1>1, <1>2 DEF semop
    <3>4. /\ semval'[0] = semval[0] + Entering(w, 0)
          /\ semval'[2] = semval[2] + Entering(w, 2)
          /\ semval'[3] = semval[3] + Entering(w, 3)
      BY <3>3 DEF Sems
    <3>5. /\ semval[0] \in Nat /\ semval[2] \in Nat /\ semval[3] \in Nat
          /\ Unpacked \in Int /\ Packed \in Int /\ Unsent \in Int /\ MAX_ORDERS \in Int
      BY <1>1, <2>1, ShopAssumption DEF TypeOK, Sems, MemoryOK, Unsent
    <3>6. CASE w \in Receivers
      BY <2>1, <2>2, <3>2, <3>4, <3>5, <3>6, RolesDisjoint, CreditCounts DEF Credits, Entering
    <3>7. CASE w \in Packers
      BY <2>1, <2>2, <3>2, <3>4, <3>5, <3>7, RolesDisjoint, CreditCounts DEF Credits, Entering
    <3>8. CASE w \in Senders
      BY <2>1, <2>2, <3>2, <3>4, <3>5, <3>8, RolesDisjoint, CreditCounts DEF Credits, Entering
    <3> QED BY <3>6, <3>7, <3>8 DEF Workers
  <2> QED BY <2>3, <2>4, <2>5
<1> QED BY <1>1, <1>4, <1>5, <1>6 DEF IInv, TableWhileAllLive, CreditsAgree, Credits

\* What the three interactions share: they keep the semaphores and the types.
LEMMA InsideStep ==
    ASSUME IInv, NEW w \in Workers \ dead, NEW to \in Labels, Goto(w, to), UNCHANGED svVars,
           pc[w] \in Inside, to \in Inside,
           first' \in [0 .. 2 -> Slots], m' \in Int, x' \in Int,
           table' \in [Slots -> Held], got' \in [Workers -> Held],
           \A v \in Receivers : got'[v] = got[v], to \in Early => pc[w] \in Early,
           dead = {} => Credits' /\ MemoryOK'
    PROVE  IInv'
<1>1. TypeOK /\ UNCHANGED <<semval, semadj, dead, kills>> /\ w \in Workers
      /\ pc \in [Workers -> Labels]
  BY DEF IInv, TypeOK, svVars
<1>2. TypeOK'
  <2>1. pc' \in [Workers -> Labels]
    BY <1>1 DEF Goto
  <2> QED BY <1>1, <2>1 DEF TypeOK, Held
<1>3. UndoHoldsMutex' /\ MutexCounts'
  BY InsideMutex
<1>4. dead = {} => ReceiverHasOrder'
  <2>1. \A v \in Receivers : pc'[v] \in Early => pc[v] \in Early
    BY <1>1 DEF Goto, Workers
  <2> QED BY <2>1 DEF IInv, TableWhileAllLive, ReceiverHasOrder
<1> QED BY <1>1, <1>2, <1>3, <1>4 DEF IInv, TableWhileAllLive, CreditsAgree, Credits

\* The interaction with m moves no order and no semaphore.
LEMMA InteractMIInv ==
    ASSUME IInv, NEW w \in Workers \ dead, InteractM(w), UNCHANGED svVars
    PROVE  IInv' /\ (dead = {} => UNCHANGED Pipeline!vars)
<1>1. /\ TypeOK /\ w \in Workers /\ pc[w] = "m" /\ Goto(w, "n") /\ m \in Int
      /\ UNCHANGED <<first, x, table, got>> /\ UNCHANGED <<semval, semadj, dead, kills>>
      /\ pc \in [Workers -> Labels]
  BY DEF IInv, TypeOK, InteractM, svVars
<1>2. Unpacked' = Unpacked /\ Packed' = Packed /\ Unsent' = Unsent /\ m' \in Int
  <2>1. w \in Workers /\ pc \in [Workers -> Labels] /\ m \in Int
    BY <1>1
  <2> QED BY <2>1, InteractMLevels
<1>3. ASSUME dead = {}
      PROVE  Credits' /\ MemoryOK' /\ UNCHANGED Pipeline!vars
  <2>1. MemoryOK /\ Credits
    BY <1>3 DEF IInv, TableWhileAllLive, CreditsAgree, Credits
  <2>2. MemoryOK' /\ UNCHANGED Pipeline!vars
    <3>1. x' \in Int /\ got' \in [Workers -> Held]
      BY <1>1 DEF TypeOK, Held
    <3> QED BY <1>1, <1>2, <2>1, <3>1, QuietStep
  <2>3. CreditsMove(w, "n")
    BY <1>1, CreditsMoved
  <2>4. Credits'
    BY <1>1, <1>2, <2>1, <2>3, CreditCounts DEF Credits, CreditsMove, Early, Leaving
  <2> QED BY <2>2, <2>4
<1>4. IInv'
  <2>1. first' \in [0 .. 2 -> Slots] /\ x' \in Int /\ table' \in [Slots -> Held]
        /\ got' \in [Workers -> Held] /\ \A v \in Receivers : got'[v] = got[v]
    BY <1>1 DEF TypeOK, Held
  <2> QED BY <1>1, <1>2, <1>3, <2>1, InsideStep DEF Labels, Inside, Early
<1> QED BY <1>3, <1>4

\* Nor does the interaction with x.
LEMMA InteractXIInv ==
    ASSUME IInv, NEW w \in Workers \ dead, InteractX(w, "return_sem"), UNCHANGED svVars
    PROVE  IInv' /\ (dead = {} => UNCHANGED Pipeline!vars)
<1>1. /\ TypeOK /\ w \in Workers /\ pc[w] = "x" /\ Goto(w, "return_sem") /\ x \in Int
      /\ UNCHANGED <<first, m, table, got>> /\ UNCHANGED <<semval, semadj, dead, kills>>
      /\ pc \in [Workers -> Labels]
  BY DEF IInv, TypeOK, InteractX, svVars
<1>2. Unpacked' = Unpacked /\ Packed' = Packed /\ Unsent' = Unsent /\ x' \in Int
  <2>1. w \in Workers /\ pc \in [Workers -> Labels] /\ x \in Int
    BY <1>1
  <2> QED BY <2>1, InteractXLevels
<1>3. ASSUME dead = {}
      PROVE  Credits' /\ MemoryOK' /\ UNCHANGED Pipeline!vars
  <2>1. MemoryOK /\ Credits
    BY <1>3 DEF IInv, TableWhileAllLive, CreditsAgree, Credits
  <2>2. MemoryOK' /\ UNCHANGED Pipeline!vars
    <3>1. m' \in Int /\ got' \in [Workers -> Held]
      BY <1>1 DEF TypeOK, Held
    <3> QED BY <1>1, <1>2, <2>1, <3>1, QuietStep
  <2>3. CreditsMove(w, "return_sem")
    BY <1>1, CreditsMoved
  <2>4. Credits'
    BY <1>1, <1>2, <2>1, <2>3, CreditCounts DEF Credits, CreditsMove, Early, Leaving
  <2> QED BY <2>2, <2>4
<1>4. IInv'
  <2>1. first' \in [0 .. 2 -> Slots] /\ m' \in Int /\ table' \in [Slots -> Held]
        /\ got' \in [Workers -> Held] /\ \A v \in Receivers : got'[v] = got[v]
    BY <1>1 DEF TypeOK, Held
  <2> QED BY <1>1, <1>2, <1>3, <2>1, InsideStep DEF Labels, Inside, Early
<1> QED BY <1>3, <1>4

\* The interaction with the table is a step of the queue, and the levels catch
\* up with the semaphores that moved before it.
LEMMA InteractNIInv ==
    ASSUME IInv, NEW w \in Workers \ dead, InteractN(w), UNCHANGED svVars
    PROVE  IInv' /\ (dead = {} => Pipeline!Next)
<1>1. /\ TypeOK /\ w \in Workers /\ pc[w] = "n" /\ Goto(w, "x") /\ m \in Int /\ x \in Int
      /\ UNCHANGED <<m, x>> /\ UNCHANGED <<semval, semadj, dead, kills>>
      /\ pc \in [Workers -> Labels]
  BY DEF IInv, TypeOK, InteractN, svVars
<1>2. ASSUME dead = {}
      PROVE  Credits' /\ MemoryOK' /\ Pipeline!Next
  <2>1. MemoryOK /\ Credits
    BY <1>2 DEF IInv, TableWhileAllLive, CreditsAgree, Credits
  <2>2. /\ w \in Receivers => got[w] \in Orders /\ Unsent < MAX_ORDERS
        /\ w \in Packers => Unpacked >= 1
        /\ w \in Senders => Packed >= 1
    BY <1>1, <1>2, CreditInHand
  <2>3. MemoryOK' /\ Pipeline!Next
    BY <1>1, <2>1, <2>2, TableStep
  <2>4. /\ Unpacked' = Unpacked + (IF w \in Receivers THEN 1 ELSE 0)
                               - (IF w \in Packers THEN 1 ELSE 0)
        /\ Packed' = Packed + (IF w \in Packers THEN 1 ELSE 0)
                           - (IF w \in Senders THEN 1 ELSE 0)
    BY <1>1, InteractNLevels
  <2>5. CreditsMove(w, "x")
    BY <1>1, CreditsMoved
  <2>6. /\ Cardinality(In(Receivers, Early))' = Cardinality(In(Receivers, Early))
             - (IF w \in Receivers THEN 1 ELSE 0)
        /\ Cardinality(In(Packers, Early))' = Cardinality(In(Packers, Early))
             - (IF w \in Packers THEN 1 ELSE 0)
        /\ Cardinality(In(Senders, Early))' = Cardinality(In(Senders, Early))
             - (IF w \in Senders THEN 1 ELSE 0)
        /\ Cardinality(In(Senders, Leaving))' = Cardinality(In(Senders, Leaving))
             + (IF w \in Senders THEN 1 ELSE 0)
    BY <1>1, <2>5, CreditCounts DEF CreditsMove, Early, Leaving
  <2>7. /\ semval[0] \in Nat /\ semval[2] \in Nat /\ semval[3] \in Nat /\ semval' = semval
        /\ Unpacked \in Int /\ Packed \in Int /\ MAX_ORDERS \in Int
    BY <1>1, <2>1, ShopAssumption DEF TypeOK, Sems, MemoryOK
  <2>8. Credits'
    <3>1. CASE w \in Receivers
      BY <2>1, <2>4, <2>6, <2>7, <3>1, RolesDisjoint, CreditCounts DEF Credits, Unsent
    <3>2. CASE w \in Packers
      <4>1. /\ Unpacked' = Unpacked - 1 /\ Packed' = Packed + 1 /\ Unsent' = Unsent
            /\ Cardinality(In(Receivers, Early))' = Cardinality(In(Receivers, Early))
            /\ Cardinality(In(Packers, Early))' = Cardinality(In(Packers, Early)) - 1
            /\ Cardinality(In(Senders, Early))' = Cardinality(In(Senders, Early))
            /\ Cardinality(In(Senders, Leaving))' = Cardinality(In(Senders, Leaving))
        BY <2>4, <2>6, <2>7, <3>2, RolesDisjoint, CreditCounts DEF Unsent
      <4> QED BY <2>1, <2>7, <4>1, CreditCounts DEF Credits
    <3>3. CASE w \in Senders
      BY <2>1, <2>4, <2>6, <2>7, <3>3, RolesDisjoint, CreditCounts DEF Credits, Unsent
    <3> QED BY <1>1, <3>1, <3>2, <3>3 DEF Workers
  <2> QED BY <2>3, <2>8
<1>3. IInv'
  <2>1. first \in [0 .. 2 -> Slots] /\ table \in [Slots -> Held] /\ got \in [Workers -> Held]
    BY <1>1 DEF TypeOK, Held
  <2>2. n_stage(w) \in 0 .. 2
    BY DEF n_stage
  <2>3. \A k \in Slots : NextSlot(k) \in Slots
    BY ShopAssumption DEF NextSlot, Slots
  <2>4. first' \in [0 .. 2 -> Slots] /\ table' \in [Slots -> Held] /\ got' \in [Workers -> Held]
    BY <1>1, <2>1, <2>2, <2>3 DEF InteractN, set_n, get_n
  <2>5. \A v \in Receivers : got'[v] = got[v]
    BY <1>1, <2>1, RolesDisjoint DEF InteractN, set_n, get_n, action_n, Workers
  <2> QED BY <1>1, <1>2, <2>4, <2>5, InsideStep DEF Labels, Inside, Early
<1> QED BY <1>2, <1>3

\* mxn_return_sem: only a sender's slot moves with the mutex.
LEMMA ReturnSemIInv ==
    ASSUME IInv, NEW w \in Workers \ dead, ReturnSem(w)
    PROVE  IInv' /\ (dead = {} => UNCHANGED Pipeline!vars)
<1>1. /\ TypeOK /\ w \in Workers /\ pc[w] = "return_sem" /\ Goto(w, "get_sem")
      /\ UNCHANGED <<first, m, x, table, got, dead, kills>> /\ semop(w, return_ops(w))
      /\ pc \in [Workers -> Labels]
  BY DEF IInv, TypeOK, ReturnSem, memory
<1>2. WellFormed(return_ops(w)) /\ \A s \in Sems : Total(return_ops(w), s) = Exiting(w, s)
  BY <1>1, ReturnOps
<1>3. TypeOK'
  <2>1. pc' \in [Workers -> Labels]
    BY <1>1 DEF Goto, Labels
  <2>2. semval' \in [Sems -> Nat] /\ semadj' \in [Workers -> [Sems -> -SEMAEM - 1 .. SEMAEM]]
    BY <1>1, <1>2, SemopTypes
  <2> QED BY <1>1, <2>1, <2>2 DEF TypeOK
<1>4. UndoHoldsMutex' /\ MutexCounts'
  <2>1. Total(return_ops(w), 1)
          = (IF pc[w] \in Inside THEN 1 ELSE 0) - (IF "get_sem" \in Inside THEN 1 ELSE 0)
    BY <1>1, <1>2 DEF Exiting, Sems, Inside
  <2> QED BY <1>1, <1>2, <2>1, SemopMutex
<1>5. ASSUME dead = {}
      PROVE  Credits' /\ MemoryOK' /\ ReceiverHasOrder' /\ UNCHANGED Pipeline!vars
  <2>1. MemoryOK /\ ReceiverHasOrder /\ Credits /\ m \in Int /\ x \in Int
    BY <1>5 DEF IInv, TableWhileAllLive, CreditsAgree, Credits, MemoryOK
  <2>2. Unpacked' = Unpacked /\ Packed' = Packed /\ Unsent' = Unsent
    <3>1. /\ w \in Workers /\ pc \in [Workers -> Labels] /\ pc' = [pc EXCEPT ![w] = "get_sem"]
          /\ pc[w] \notin {"n", "x"} /\ "get_sem" \notin {"n", "x"} /\ UNCHANGED <<m, x>>
      BY <1>1 DEF Goto
    <3> QED BY <3>1, OutsideLevels
  <2>3. MemoryOK' /\ UNCHANGED Pipeline!vars
    <3>1. m' \in Int /\ x' \in Int /\ got' \in [Workers -> Held]
      BY <1>1, <2>1 DEF TypeOK, Held
    <3> QED BY <1>1, <2>1, <2>2, <3>1, QuietStep
  <2>4. ReceiverHasOrder'
    <3>1. \A v \in Receivers : pc'[v] \in Early => pc[v] \in Early
      BY <1>1 DEF Goto, Workers, Early
    <3> QED BY <1>1, <2>1, <3>1 DEF ReceiverHasOrder
  <2>5. Credits'
    <3>1. CreditsMove(w, "get_sem")
      BY <1>1, CreditsMoved
    <3>2. /\ Cardinality(In(Receivers, Early))' = Cardinality(In(Receivers, Early))
          /\ Cardinality(In(Packers, Early))' = Cardinality(In(Packers, Early))
          /\ Cardinality(In(Senders, Early))' = Cardinality(In(Senders, Early))
          /\ Cardinality(In(Senders, Leaving))' = Cardinality(In(Senders, Leaving))
               - (IF w \in Senders THEN 1 ELSE 0)
      BY <1>1, <3>1, CreditCounts DEF CreditsMove, Early, Leaving
    <3>3. \A s \in Sems : semval'[s] = semval[s] + Exiting(w, s)
      BY <1>1, <1>2 DEF semop
    <3>4. /\ semval[0] \in Nat /\ semval[2] \in Nat /\ semval[3] \in Nat
          /\ Unsent \in Int /\ MAX_ORDERS \in Int
      BY <1>1, <2>1, ShopAssumption DEF TypeOK, Sems, MemoryOK, Unsent
    <3>5. /\ semval'[0] = semval[0] + (IF w \in Senders THEN 1 ELSE 0)
          /\ semval'[2] = semval[2] /\ semval'[3] = semval[3]
      BY <3>3, <3>4 DEF Sems, Exiting
    <3> QED BY <2>1, <2>2, <3>2, <3>4, <3>5, CreditCounts DEF Credits
  <2> QED BY <2>3, <2>4, <2>5
<1> QED BY <1>1, <1>3, <1>4, <1>5 DEF IInv, TableWhileAllLive, CreditsAgree, Credits

\* A worker that ends takes its undo value of the mutex with it, so the mutex
\* is free again exactly when it was the one inside.
LEMMA EndIInv ==
    ASSUME IInv, NEW w \in Workers \ dead, exit_sem(w), kills' \in 0 .. MaxKills
    PROVE  IInv' /\ dead' # {}
<1>1. /\ TypeOK /\ UndoHoldsMutex /\ MutexCounts /\ w \in Workers
      /\ UNCHANGED <<first, m, x, table, got, pc>> /\ dead' = dead \cup {w}
      /\ SEMAEM \in Nat
  BY SvAssumption DEF IInv, exit_sem, memory
<1>2. semval \in [Sems -> Nat] /\ semadj \in [Workers -> [Sems -> Int]] /\ 1 \in Sems
  BY <1>1 DEF TypeOK, Sems
<1>3. /\ semval' = [s \in Sems |-> IF semval[s] + semadj[w][s] < 0 THEN 0
                                  ELSE semval[s] + semadj[w][s]]
      /\ semadj' = [semadj EXCEPT ![w] = [s \in Sems |-> 0]]
  BY DEF exit_sem
<1>4. TypeOK'
  <2>1. semval' \in [Sems -> Nat]
    BY <1>1, <1>2, <1>3
  <2>2. semadj' \in [Workers -> [Sems -> -SEMAEM - 1 .. SEMAEM]]
    <3>1. [s \in Sems |-> 0] \in [Sems -> -SEMAEM - 1 .. SEMAEM]
      BY <1>1
    <3> QED BY <1>1, <1>3, <3>1 DEF TypeOK
  <2> QED BY <1>1, <2>1, <2>2 DEF TypeOK
<1>5. UndoHoldsMutex'
  BY <1>1, <1>2, <1>3 DEF UndoHoldsMutex
<1>6. MutexCounts'
  <2> DEFINE I == In(Workers \ dead, Inside)
  <2>1. IsFiniteSet(I) /\ Cardinality(I) \in Nat
    BY SomeFinite
  <2>2. In(Workers \ dead, Inside)' = I \ {w}
    BY <1>1 DEF In, Inside
  <2>3. w \in I <=> pc[w] \in Inside
    BY DEF In
  <2>4. I' = In(Workers \ dead, Inside)'
    OBVIOUS
  <2>5. semadj[w][1] = IF pc[w] \in Inside THEN 1 ELSE 0
    BY <1>1 DEF UndoHoldsMutex
  <2>6. semval'[1] = semval[1] + semadj[w][1]
    BY <1>2, <1>3, <2>5
  <2>7. semval[1] = 1 - Cardinality(I)
    BY <1>1 DEF MutexCounts
  <2> HIDE DEF I
  <2>8. CASE w \in I
    <3>1. Cardinality(I \ {w}) = Cardinality(I) - 1
      BY <2>1, <2>8, FS_RemoveElement
    <3>2. semval'[1] = 1 - Cardinality(I \ {w})
      BY <2>1, <2>3, <2>5, <2>6, <2>7, <2>8, <3>1
    <3> QED BY <2>2, <3>2 DEF MutexCounts
  <2>9. CASE w \notin I
    <3>1. I \ {w} = I
      BY <2>9
    <3>2. semadj[w][1] = 0 /\ semval[1] \in Nat
      BY <1>2, <2>3, <2>5, <2>9
    <3>3. semval'[1] = semval[1]
      BY <2>6, <3>2
    <3> QED BY <2>2, <2>7, <3>1, <3>3 DEF MutexCounts
  <2> QED BY <2>8, <2>9
<1> QED BY <1>1, <1>4, <1>5, <1>6 DEF IInv, TableWhileAllLive, CreditsAgree

\* Every step of the shop keeps the inductive invariant and, while every
\* worker lives, is a step of the queue or leaves it alone.
LEMMA NextIInv ==
    ASSUME IInv, [Next]_vars
    PROVE  /\ IInv'
           /\ dead' = {} => Pipeline!Next \/ UNCHANGED Pipeline!vars
<1>1. CASE UNCHANGED vars
  <2>1. UNCHANGED <<first, m, x, table, got, pc, semval, semadj, dead, kills>>
    BY <1>1 DEF vars
  <2>2. Unpacked' = Unpacked /\ Packed' = Packed /\ Unsent' = Unsent
    BY <2>1 DEF Unpacked, Packed, Unsent, In
  <2>3. TypeOK' /\ UndoHoldsMutex' /\ MutexCounts' /\ CreditsAgree'
    BY <2>1, <2>2 DEF IInv, TypeOK, UndoHoldsMutex, MutexCounts, CreditsAgree, In
  <2>4. dead = {} => MemoryOK' /\ UNCHANGED Pipeline!vars
    BY <2>1, <2>2, QuietStep DEF IInv, TableWhileAllLive, MemoryOK
  <2>5. TableWhileAllLive'
    BY <2>1, <2>4 DEF IInv, TableWhileAllLive, ReceiverHasOrder
  <2> QED BY <2>1, <2>3, <2>4, <2>5 DEF IInv
<1>2. ASSUME NEW w \in Workers, Step(w)
      PROVE  IInv' /\ (dead' = {} => Pipeline!Next \/ UNCHANGED Pipeline!vars)
  <2>0. w \in Workers \ dead
    BY <1>2 DEF Step
  <2>1. CASE GetSem(w)
    BY <2>0, <2>1, GetSemIInv DEF GetSem
  <2>2. CASE Interactions(w)
    <3>1. UNCHANGED svVars /\ dead' = dead
      BY <2>2 DEF Interactions, svVars
    <3>2. CASE InteractM(w)
      BY <2>0, <3>1, <3>2, InteractMIInv
    <3>3. CASE InteractN(w)
      BY <2>0, <3>1, <3>3, InteractNIInv
    <3>4. CASE InteractX(w, "return_sem")
      BY <2>0, <3>1, <3>4, InteractXIInv
    <3> QED BY <2>2, <3>2, <3>3, <3>4 DEF Interactions
  <2>3. CASE ReturnSem(w)
    BY <2>0, <2>3, ReturnSemIInv DEF ReturnSem
  <2>4. CASE ErrorExit(w)
    <3>1. exit_sem(w) /\ kills' \in 0 .. MaxKills
      BY <2>4 DEF ErrorExit, IInv, TypeOK
    <3> QED BY <2>0, <3>1, EndIInv
  <2> QED BY <1>2, <2>1, <2>2, <2>3, <2>4 DEF Step
<1>3. ASSUME NEW w \in Workers, Kill(w)
      PROVE  IInv' /\ dead' # {}
  <2>1. w \in Workers \ dead /\ exit_sem(w) /\ kills' \in 0 .. MaxKills
    BY <1>3, SvAssumption DEF Kill, IInv, TypeOK
  <2> QED BY <2>1, EndIInv
<1> QED BY <1>1, <1>2, <1>3 DEF Next

-----------------------------------------------------------------------------
(* The theorems *)

\* IInv is an invariant of the shop.
THEOREM InductiveInvariant == Spec => []IInv
<1>1. IInv /\ [Next]_vars => IInv'
  BY NextIInv
<1> QED BY <1>1, InitIInv, PTL DEF Spec

\* Every variable keeps its type: no semaphore goes below 0 and no undo value
\* leaves the range the kernel allows.
THEOREM TypeCorrect == Spec => []TypeOK
<1>1. IInv => TypeOK
  BY DEF IInv
<1> QED BY <1>1, InductiveInvariant, PTL

\* Two workers that are alive are never both between the semops, however
\* others died or were refused, and the mutex says how many are inside.
THEOREM Exclusion == Spec => []MutualExclusion
<1>1. IInv => MutualExclusion
  BY OneInside DEF IInv, MutexCounts, MutualExclusion
<1> QED BY <1>1, InductiveInvariant, PTL

\* While every worker lives, the three credits agree with the table.
THEOREM Agreement == Spec => []CreditsAgree
<1>1. IInv => CreditsAgree
  BY DEF IInv
<1> QED BY <1>1, InductiveInvariant, PTL

\* While every worker lives, the shop is the three-stage queue: no unsent order
\* is overwritten and each is packed and sent once, in the order they came in.
THEOREM PipelineHolds == Spec => PipelineWhileAllLive
<1>1. IInv /\ [Next]_vars => [dead' = {} => Pipeline!Next \/ UNCHANGED Pipeline!vars]_vars
  BY NextIInv
<1> QED BY <1>1, InductiveInvariant, PTL DEF Spec, PipelineWhileAllLive
=============================================================================
