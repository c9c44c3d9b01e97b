--------------------------- MODULE ShopMemoryProofs ---------------------------
(***************************************************************************)
(* What both shops' proofs need of the shared memory: how the counts of    *)
(* workers move with one worker, how the cyclic index wraps, and what each *)
(* interaction does to the orders waiting in the table.                    *)
(***************************************************************************)
EXTENDS ShopMemory, FiniteSetTheorems, SequenceTheorems, TLAPS

Kinds == {Receivers, Packers, Senders}

-----------------------------------------------------------------------------
(* Counting workers *)

\* No worker is of two kinds: its stage and its three actions are determined.
LEMMA RolesDisjoint ==
    ASSUME NEW w \in Workers
    PROVE  \/ w \in Receivers /\ w \notin Packers /\ w \notin Senders
           \/ w \notin Receivers /\ w \in Packers /\ w \notin Senders
           \/ w \notin Receivers /\ w \notin Packers /\ w \in Senders
  BY ShopAssumption DEF Workers

\* There are finitely many workers.
LEMMA WorkersFinite == IsFiniteSet(Workers)
<1>1. IsFiniteSet(Receivers \cup Packers)
  BY ShopAssumption, FS_Union
<1>2. IsFiniteSet((Receivers \cup Packers) \cup Senders)
  BY <1>1, ShopAssumption, FS_Union
<1> QED BY <1>2 DEF Workers

\* The workers of a set that are at some labels are a finite set.
LEMMA SomeFinite ==
    ASSUME NEW W, W \subseteq Workers, NEW L
    PROVE  IsFiniteSet(In(W, L)) /\ Cardinality(In(W, L)) \in Nat
<1>1. In(W, L) \subseteq Workers
  BY DEF In
<1> QED BY <1>1, WorkersFinite, FS_Subset, FS_CardinalityType

\* The workers of a kind at some labels are a finite set.
LEMMA InFinite ==
    ASSUME NEW W \in {Receivers, Packers, Senders, Workers}, NEW L
    PROVE  IsFiniteSet(In(W, L)) /\ Cardinality(In(W, L)) \in Nat
<1>1. W \subseteq Workers
  BY DEF Workers
<1> QED BY <1>1, SomeFinite

\* A worker that is at one of the labels is counted.
LEMMA InPositive ==
    ASSUME NEW W \in {Receivers, Packers, Senders, Workers}, NEW L,
           NEW w \in W, pc[w] \in L
    PROVE  Cardinality(In(W, L)) >= 1
<1>1. In(W, L) # {}
  BY DEF In
<1>2. IsFiniteSet(In(W, L)) /\ Cardinality(In(W, L)) \in Nat
  BY InFinite
<1>3. Cardinality(In(W, L)) # 0
  BY <1>1, <1>2, FS_EmptySet
<1> QED BY <1>2, <1>3

\* One worker's move changes the count of a set of labels by what it enters
\* minus what it leaves.
LEMMA SomeMove ==
    ASSUME NEW W, W \subseteq Workers, NEW L, NEW Label, NEW w \in Workers, NEW to,
           pc \in [Workers -> Label], pc' = [pc EXCEPT ![w] = to]
    PROVE  Cardinality({v \in W : pc'[v] \in L}) = Cardinality(In(W, L))
              + (IF w \in W /\ to \in L THEN 1 ELSE 0)
              - (IF w \in W /\ pc[w] \in L THEN 1 ELSE 0)
<1> DEFINE A == In(W, L)
           B == {v \in W : pc'[v] \in L}
<1>1. IsFiniteSet(A) /\ Cardinality(A) \in Nat
  BY SomeFinite
<1>2. CASE w \in W /\ to \in L /\ pc[w] \notin L
  <2>1. B = A \cup {w} /\ w \notin A
    BY <1>2 DEF In
  <2>2. Cardinality(B) = Cardinality(A) + 1
    BY <1>1, <2>1, FS_AddElement
  <2> QED BY <1>1, <1>2, <2>2
<1>3. CASE w \in W /\ to \notin L /\ pc[w] \in L
  <2>1. B = A \ {w} /\ w \in A
    BY <1>3 DEF In
  <2>2. Cardinality(B) = Cardinality(A) - 1
    BY <1>1, <2>1, FS_RemoveElement
  <2> QED BY <1>1, <1>3, <2>2
<1>4. CASE w \notin W \/ (to \in L <=> pc[w] \in L)
  <2>1. B = A
    BY <1>4 DEF In
  <2> QED BY <1>1, <1>4, <2>1
<1> QED BY <1>2, <1>3, <1>4

\* The same for the workers of one kind, or all of them.
LEMMA CountMove ==
    ASSUME NEW W \in {Receivers, Packers, Senders, Workers}, NEW L, NEW Label,
           NEW w \in Workers, NEW to,
           pc \in [Workers -> Label], pc' = [pc EXCEPT ![w] = to]
    PROVE  Cardinality(In(W, L)') = Cardinality(In(W, L))
              + (IF w \in W /\ to \in L THEN 1 ELSE 0)
              - (IF w \in W /\ pc[w] \in L THEN 1 ELSE 0)
<1>1. W \subseteq Workers
  BY DEF Workers
<1>2. In(W, L)' = {v \in W : pc'[v] \in L}
  BY DEF In
<1> QED BY <1>1, <1>2, SomeMove, ZenonT(60)

-----------------------------------------------------------------------------
(* The cyclic index *)

\* An index taken modulo the table's size is a slot.
LEMMA Wrap ==
    ASSUME NEW a \in Nat, a < 2 * MAX_ORDERS
    PROVE  a % MAX_ORDERS = IF a < MAX_ORDERS THEN a ELSE a - MAX_ORDERS
  BY ShopAssumption

\* A slot and a part of the table's orders stay below twice its size.
LEMMA SumBelow ==
    ASSUME NEW a \in 0 .. MAX_ORDERS - 1, NEW b \in Nat, NEW c \in Nat,
           b < c, c <= MAX_ORDERS
    PROVE  a + b \in Nat /\ a + b + 1 < 2 * MAX_ORDERS
  BY ShopAssumption

\* Adding one to the second of two numbers.
LEMMA SumNext ==
    ASSUME NEW a \in Nat, NEW b \in Nat
    PROVE  a + b + 1 = a + (b + 1)
  OBVIOUS

\* One more slot on the cyclic table, and the same slot counted from the next.
LEMMA NextWrap ==
    ASSUME NEW a \in Nat, a + 1 < 2 * MAX_ORDERS
    PROVE  NextSlot(a % MAX_ORDERS) = (a + 1) % MAX_ORDERS
<1>1. a + 1 \in Nat /\ a < 2 * MAX_ORDERS /\ MAX_ORDERS \in Nat \ {0}
  BY ShopAssumption
<1>2. a % MAX_ORDERS = IF a < MAX_ORDERS THEN a ELSE a - MAX_ORDERS
  BY <1>1, Wrap
<1>3. (a + 1) % MAX_ORDERS = IF a + 1 < MAX_ORDERS THEN a + 1 ELSE a + 1 - MAX_ORDERS
  BY <1>1, Wrap
<1>4. (a % MAX_ORDERS) + 1 \in Nat /\ (a % MAX_ORDERS) + 1 < 2 * MAX_ORDERS
  BY <1>1, <1>2
<1> DEFINE b == (a % MAX_ORDERS) + 1
<1> HIDE DEF b
<1>b. b \in Nat /\ b < 2 * MAX_ORDERS
  BY <1>4 DEF b
<1>5. b % MAX_ORDERS = IF b < MAX_ORDERS THEN b ELSE b - MAX_ORDERS
  BY <1>b, Wrap
<1> QED BY <1>1, <1>2, <1>3, <1>5 DEF NextSlot, b

\* Counting k slots from a wrapped index is counting them from the index itself.
LEMMA ShiftWrap ==
    ASSUME NEW f \in Slots, NEW k \in 1 .. MAX_ORDERS
    PROVE  (NextSlot(f) + k - 1) % MAX_ORDERS = (f + k) % MAX_ORDERS
<1>1. MAX_ORDERS \in Nat \ {0} /\ f \in Nat /\ f < MAX_ORDERS /\ f + 1 < 2 * MAX_ORDERS
  BY ShopAssumption DEF Slots
<1>2. NextSlot(f) = IF f + 1 < MAX_ORDERS THEN f + 1 ELSE 0
  BY <1>1, Wrap DEF NextSlot
<1>3. (f + k) % MAX_ORDERS = IF f + k < MAX_ORDERS THEN f + k ELSE f + k - MAX_ORDERS
  BY <1>1, Wrap
<1>4. NextSlot(f) + k - 1 \in Nat /\ NextSlot(f) + k - 1 < 2 * MAX_ORDERS
  BY <1>1, <1>2
<1> DEFINE b == NextSlot(f) + k - 1
<1> HIDE DEF b
<1>b. b \in Nat /\ b < 2 * MAX_ORDERS
  BY <1>4 DEF b
<1>5. b % MAX_ORDERS = IF b < MAX_ORDERS THEN b ELSE b - MAX_ORDERS
  BY <1>b, Wrap
<1> QED BY <1>1, <1>2, <1>3, <1>5 DEF b

\* Two places less than a round apart are different slots.
LEMMA Apart ==
    ASSUME NEW a \in Nat, NEW b \in Nat, a < b, b < 2 * MAX_ORDERS, b - a < MAX_ORDERS
    PROVE  a % MAX_ORDERS # b % MAX_ORDERS
<1>1. MAX_ORDERS \in Nat \ {0} /\ a < 2 * MAX_ORDERS
  BY ShopAssumption
<1>2. a % MAX_ORDERS = IF a < MAX_ORDERS THEN a ELSE a - MAX_ORDERS
  BY <1>1, Wrap
<1>3. b % MAX_ORDERS = IF b < MAX_ORDERS THEN b ELSE b - MAX_ORDERS
  BY <1>1, Wrap
<1> QED BY <1>1, <1>2, <1>3

\* Counting on from a wrapped index is counting on from the index itself.
LEMMA WrapOn ==
    ASSUME NEW a \in Nat, NEW b \in Nat, a + b < 2 * MAX_ORDERS
    PROVE  ((a % MAX_ORDERS) + b) % MAX_ORDERS = (a + b) % MAX_ORDERS
<1>1. MAX_ORDERS \in Nat \ {0} /\ a < 2 * MAX_ORDERS
  BY ShopAssumption
<1>2. a % MAX_ORDERS = IF a < MAX_ORDERS THEN a ELSE a - MAX_ORDERS
  BY <1>1, Wrap
<1> DEFINE c == (a % MAX_ORDERS) + b
           d == a + b
<1>3. c \in Nat /\ d \in Nat /\ d < 2 * MAX_ORDERS /\ (c = d \/ c = d - MAX_ORDERS)
  BY <1>1, <1>2
<1> HIDE DEF c, d
<1>4. c % MAX_ORDERS = IF c < MAX_ORDERS THEN c ELSE c - MAX_ORDERS
  BY <1>1, <1>3, Wrap
<1>5. d % MAX_ORDERS = IF d < MAX_ORDERS THEN d ELSE d - MAX_ORDERS
  BY <1>3, Wrap
<1>6. c % MAX_ORDERS = d % MAX_ORDERS
  BY <1>1, <1>3, <1>4, <1>5
<1> QED BY <1>6 DEF c, d

-----------------------------------------------------------------------------
(* Sequences given by their elements *)

\* A function on 1 .. n is a sequence of length n.
LEMMA FunctionIsSeq ==
    ASSUME NEW S, NEW n \in Nat, NEW s \in [1 .. n -> S]
    PROVE  s \in Seq(S) /\ Len(s) = n
<1>1. s \in Seq(S)
  BY SeqDef
<1> QED BY <1>1, LenProperties

\* One element more at the end.
LEMMA AppendByElements ==
    ASSUME NEW S, NEW n \in Nat, NEW s \in [1 .. n -> S], NEW e \in S,
           NEW t \in [1 .. n + 1 -> S], \A i \in 1 .. n : t[i] = s[i], t[n + 1] = e
    PROVE  t = Append(s, e)
<1>1. s \in Seq(S) /\ Len(s) = n /\ t \in Seq(S) /\ Len(t) = n + 1
  BY FunctionIsSeq
<1>2. /\ Append(s, e) \in Seq(S) /\ Len(Append(s, e)) = n + 1
      /\ \A i \in 1 .. n : Append(s, e)[i] = s[i]
      /\ Append(s, e)[n + 1] = e
  BY <1>1, AppendProperties
<1>3. \A i \in 1 .. Len(t) : t[i] = Append(s, e)[i]
  BY <1>1, <1>2
<1> QED BY <1>1, <1>2, <1>3, SeqEqual

\* One element less at the front.
LEMMA TailByElements ==
    ASSUME NEW S, NEW n \in Nat, n > 0, NEW s \in [1 .. n -> S],
           NEW t \in [1 .. n - 1 -> S], \A i \in 1 .. n - 1 : t[i] = s[i + 1]
    PROVE  s # <<>> /\ Head(s) = s[1] /\ t = Tail(s)
<1>1. s \in Seq(S) /\ Len(s) = n /\ t \in Seq(S) /\ Len(t) = n - 1
  BY FunctionIsSeq
<1>2. s # <<>>
  BY <1>1, EmptySeq
<1>3. /\ Tail(s) \in Seq(S) /\ Len(Tail(s)) = n - 1
      /\ \A i \in 1 .. n - 1 : Tail(s)[i] = s[i + 1]
  BY <1>1, <1>2, HeadTailProperties
<1>4. t = Tail(s)
  BY <1>1, <1>3, SeqEqual
<1> QED BY <1>2, <1>4

-----------------------------------------------------------------------------
(* The orders in the table *)

WaitingSlotsFilled ==
    \A i \in 0 .. Unsent - 1 : table[(first[2] + i) % MAX_ORDERS] \in Orders

Held == Orders \cup {Empty}

\* What the interactions with the table rely on, whatever protects it.
MemoryOK ==
    /\ first \in [0 .. 2 -> Slots]
    /\ m \in Int /\ x \in Int
    /\ table \in [Slots -> Held]
    /\ got \in [Workers -> Held]
    /\ Unpacked \in Nat /\ Packed \in Nat /\ Unsent <= MAX_ORDERS
    /\ IndicesAgree
    /\ WaitingSlotsFilled

UnpackedOrders == Window(first[1], Unpacked)
PackedOrders == Window(first[2], Packed)

\* The n orders from the k-th after slot f on, in a table t.
Waiting(f, k, n, t) == [i \in 1 .. n |-> t[(f + k + i - 1) % MAX_ORDERS]]

\* A window that starts at a wrapped index is counted from the index itself.
LEMMA WindowIsWaiting ==
    ASSUME NEW f \in Slots, NEW k \in Nat, NEW n \in Nat, k + n <= MAX_ORDERS, NEW t
    PROVE  [i \in 1 .. n |-> t[(((f + k) % MAX_ORDERS) + i - 1) % MAX_ORDERS]]
             = Waiting(f, k, n, t)
<1>1. f \in Nat /\ f < MAX_ORDERS /\ MAX_ORDERS \in Nat \ {0}
  BY ShopAssumption DEF Slots
<1>2. ASSUME NEW i \in 1 .. n
      PROVE  (((f + k) % MAX_ORDERS) + i - 1) % MAX_ORDERS = (f + k + i - 1) % MAX_ORDERS
  <2>1. f + k \in Nat /\ i - 1 \in Nat /\ (f + k) + (i - 1) < 2 * MAX_ORDERS
    BY <1>1
  <2>2. (((f + k) % MAX_ORDERS) + (i - 1)) % MAX_ORDERS = ((f + k) + (i - 1)) % MAX_ORDERS
    BY <2>1, WrapOn
  <2>3. (f + k) % MAX_ORDERS \in Nat
    BY <1>1
  <2>4. ((f + k) % MAX_ORDERS) + i - 1 = ((f + k) % MAX_ORDERS) + (i - 1)
        /\ f + k + i - 1 = (f + k) + (i - 1)
    BY <1>1, <2>3
  <2> QED BY <2>2, <2>4
<1> QED BY <1>2 DEF Waiting

\* The orders of the two stages follow each other on the cyclic table.
LEMMA WindowsAre ==
    ASSUME MemoryOK
    PROVE  /\ UnpackedOrders = Waiting(first[2], Packed, Unpacked, table)
           /\ PackedOrders = Waiting(first[2], 0, Packed, table)
<1>1. /\ first[2] \in Slots /\ Packed \in Nat /\ Unpacked \in Nat
      /\ Packed + Unpacked <= MAX_ORDERS /\ MAX_ORDERS \in Nat
      /\ first[1] = (first[2] + Packed) % MAX_ORDERS
  BY ShopAssumption DEF MemoryOK, IndicesAgree, Unsent
<1>2. UnpackedOrders = Waiting(first[2], Packed, Unpacked, table)
  <2>1. [i \in 1 .. Unpacked |-> table[(((first[2] + Packed) % MAX_ORDERS) + i - 1) % MAX_ORDERS]]
          = Waiting(first[2], Packed, Unpacked, table)
    BY <1>1, WindowIsWaiting, SMTT(60)
  <2> QED BY <1>1, <2>1 DEF UnpackedOrders, Window
<1>3. PackedOrders = Waiting(first[2], 0, Packed, table)
  <2>1. first[2] + 0 = first[2]
    BY <1>1 DEF Slots
  <2> QED BY <2>1 DEF PackedOrders, Window, Waiting
<1> QED BY <1>2, <1>3

-----------------------------------------------------------------------------
(* What each interaction does to the levels *)

\* The counts the levels are corrected by, across one worker's move.
LEMMA CorrectionsMove ==
    ASSUME NEW Label, NEW w \in Workers, pc \in [Workers -> Label],
           pc' = [pc EXCEPT ![w] = pc'[w]]
    PROVE  \A W \in Kinds, l \in {"n", "x"} :
             /\ Cardinality(In(W, {l})) \in Nat
             /\ Cardinality(In(W, {l}))'
                  = Cardinality(In(W, {l})) + (IF w \in W /\ pc'[w] = l THEN 1 ELSE 0)
                                            - (IF w \in W /\ pc[w] = l THEN 1 ELSE 0)
<1> SUFFICES ASSUME NEW W \in Kinds, NEW l \in {"n", "x"}
             PROVE  /\ Cardinality(In(W, {l})) \in Nat
                    /\ Cardinality(In(W, {l}))'
                         = Cardinality(In(W, {l}))
                             + (IF w \in W /\ pc'[w] = l THEN 1 ELSE 0)
                             - (IF w \in W /\ pc[w] = l THEN 1 ELSE 0)
  OBVIOUS
<1>1. W \in {Receivers, Packers, Senders, Workers}
  BY DEF Kinds
<1>2. Cardinality(In(W, {l})) \in Nat
  BY <1>1, InFinite
<1> DEFINE to == pc'[w]
<1> HIDE DEF to
<1>3. pc' = [pc EXCEPT ![w] = to]
  BY DEF to
<1>4. Cardinality(In(W, {l})') = Cardinality(In(W, {l}))
          + (IF w \in W /\ to \in {l} THEN 1 ELSE 0)
          - (IF w \in W /\ pc[w] \in {l} THEN 1 ELSE 0)
  BY <1>1, <1>3, CountMove
<1> QED BY <1>2, <1>4 DEF to

\* A worker that neither enters nor leaves an interaction moves no order.
LEMMA OutsideLevels ==
    ASSUME NEW Label, NEW w \in Workers, NEW to,
           pc \in [Workers -> Label], pc' = [pc EXCEPT ![w] = to],
           pc[w] \notin {"n", "x"}, to \notin {"n", "x"}, UNCHANGED <<m, x>>
    PROVE  Unpacked' = Unpacked /\ Packed' = Packed /\ Unsent' = Unsent
<1>0. pc'[w] = to /\ pc' = [pc EXCEPT ![w] = pc'[w]]
  OBVIOUS
<1>1. \A W \in Kinds, l \in {"n", "x"} :
         Cardinality(In(W, {l}))' = Cardinality(In(W, {l}))
  <2>1. \A W \in Kinds, l \in {"n", "x"} :
           /\ Cardinality(In(W, {l})) \in Nat
           /\ Cardinality(In(W, {l}))'
                = Cardinality(In(W, {l})) + (IF w \in W /\ pc'[w] = l THEN 1 ELSE 0)
                                          - (IF w \in W /\ pc[w] = l THEN 1 ELSE 0)
    BY <1>0, CorrectionsMove
  <2>2. ASSUME NEW W \in Kinds, NEW l \in {"n", "x"}
        PROVE  Cardinality(In(W, {l}))' = Cardinality(In(W, {l}))
    <3>1. pc'[w] # l /\ pc[w] # l
      BY <1>0
    <3>2. Cardinality(In(W, {l})) \in Nat
          /\ Cardinality(In(W, {l}))'
                = Cardinality(In(W, {l})) + (IF w \in W /\ pc'[w] = l THEN 1 ELSE 0)
                                          - (IF w \in W /\ pc[w] = l THEN 1 ELSE 0)
      BY <2>1
    <3> QED BY <3>1, <3>2
  <2> QED BY <2>2
<1> QED BY <1>1 DEF Kinds, Unpacked, Packed, Unsent

\* The counter m runs ahead of the table by the workers about to look at it.
LEMMA InteractMLevels ==
    ASSUME NEW Label, NEW w \in Workers, pc \in [Workers -> Label], m \in Int, InteractM(w)
    PROVE  Unpacked' = Unpacked /\ Packed' = Packed /\ Unsent' = Unsent /\ m' \in Int
<1>1. pc' = [pc EXCEPT ![w] = "n"] /\ pc[w] = "m" /\ x' = x
        /\ pc'[w] = "n" /\ pc' = [pc EXCEPT ![w] = pc'[w]]
  BY DEF InteractM, Goto
<1>2. \A W \in Kinds :
         /\ Cardinality(In(W, {"n"})) \in Nat
         /\ Cardinality(In(W, {"n"}))' = Cardinality(In(W, {"n"})) + (IF w \in W THEN 1 ELSE 0)
         /\ Cardinality(In(W, {"x"}))' = Cardinality(In(W, {"x"}))
  <2>1. \A W \in Kinds, l \in {"n", "x"} :
           /\ Cardinality(In(W, {l})) \in Nat
           /\ Cardinality(In(W, {l}))'
                = Cardinality(In(W, {l})) + (IF w \in W /\ pc'[w] = l THEN 1 ELSE 0)
                                          - (IF w \in W /\ pc[w] = l THEN 1 ELSE 0)
    BY <1>1, CorrectionsMove
  <2> QED BY <1>1, <2>1
<1>3. m' = m + (IF w \in Receivers THEN 1 ELSE 0) - (IF w \in Packers THEN 1 ELSE 0)
  BY RolesDisjoint DEF InteractM, Interact, action_m
<1>4. Unpacked' = Unpacked
  BY <1>2, <1>3 DEF Unpacked, Kinds
<1>5. Packed' = Packed
  BY <1>1, <1>2 DEF Packed, Kinds
<1> QED BY <1>3, <1>4, <1>5 DEF Unsent

\* The counter x lags behind by the workers that have looked at the table.
LEMMA InteractXLevels ==
    ASSUME NEW Label, NEW then, then \notin {"n", "x"}, NEW w \in Workers,
           pc \in [Workers -> Label], x \in Int, InteractX(w, then)
    PROVE  Unpacked' = Unpacked /\ Packed' = Packed /\ Unsent' = Unsent /\ x' \in Int
<1>1. pc' = [pc EXCEPT ![w] = then] /\ pc[w] = "x" /\ m' = m
        /\ pc'[w] = then /\ pc' = [pc EXCEPT ![w] = pc'[w]]
  BY DEF InteractX, Goto
<1>2. \A W \in Kinds :
         /\ Cardinality(In(W, {"x"})) \in Nat
         /\ Cardinality(In(W, {"x"}))' = Cardinality(In(W, {"x"})) - (IF w \in W THEN 1 ELSE 0)
         /\ Cardinality(In(W, {"n"}))' = Cardinality(In(W, {"n"}))
  <2>1. \A W \in Kinds, l \in {"n", "x"} :
           /\ Cardinality(In(W, {l})) \in Nat
           /\ Cardinality(In(W, {l}))'
                = Cardinality(In(W, {l})) + (IF w \in W /\ pc'[w] = l THEN 1 ELSE 0)
                                          - (IF w \in W /\ pc[w] = l THEN 1 ELSE 0)
    BY <1>1, CorrectionsMove
  <2> QED BY <1>1, <2>1
<1>3. x' = x + (IF w \in Packers THEN 1 ELSE 0) - (IF w \in Senders THEN 1 ELSE 0)
  BY RolesDisjoint DEF InteractX, Interact, action_x
<1>4. Packed' = Packed
  BY <1>2, <1>3 DEF Packed, Kinds
<1>5. Unpacked' = Unpacked
  BY <1>1, <1>2 DEF Unpacked, Kinds
<1> QED BY <1>3, <1>4, <1>5 DEF Unsent

\* The interaction with the table moves one order on, from the stage before
\* the worker's to the one after it.
LEMMA InteractNLevels ==
    ASSUME NEW Label, NEW w \in Workers, pc \in [Workers -> Label], m \in Int, x \in Int,
           InteractN(w)
    PROVE  /\ Unpacked' = Unpacked + (IF w \in Receivers THEN 1 ELSE 0)
                                   - (IF w \in Packers THEN 1 ELSE 0)
           /\ Packed' = Packed + (IF w \in Packers THEN 1 ELSE 0)
                               - (IF w \in Senders THEN 1 ELSE 0)
<1>1. pc' = [pc EXCEPT ![w] = "x"] /\ pc[w] = "n" /\ m' = m /\ x' = x
        /\ pc'[w] = "x" /\ pc' = [pc EXCEPT ![w] = pc'[w]]
  BY DEF InteractN, Goto
<1>2. \A W \in Kinds :
         /\ Cardinality(In(W, {"n"})) \in Nat /\ Cardinality(In(W, {"x"})) \in Nat
         /\ Cardinality(In(W, {"n"}))' = Cardinality(In(W, {"n"})) - (IF w \in W THEN 1 ELSE 0)
         /\ Cardinality(In(W, {"x"}))' = Cardinality(In(W, {"x"})) + (IF w \in W THEN 1 ELSE 0)
  <2>1. \A W \in Kinds, l \in {"n", "x"} :
           /\ Cardinality(In(W, {l})) \in Nat
           /\ Cardinality(In(W, {l}))'
                = Cardinality(In(W, {l})) + (IF w \in W /\ pc'[w] = l THEN 1 ELSE 0)
                                          - (IF w \in W /\ pc[w] = l THEN 1 ELSE 0)
    BY <1>1, CorrectionsMove
  <2> QED BY <1>1, <2>1
<1>3. Unpacked' = Unpacked + (IF w \in Receivers THEN 1 ELSE 0)
                           - (IF w \in Packers THEN 1 ELSE 0)
  BY <1>1, <1>2 DEF Unpacked, Kinds
<1>4. Packed' = Packed + (IF w \in Packers THEN 1 ELSE 0) - (IF w \in Senders THEN 1 ELSE 0)
  BY <1>1, <1>2 DEF Packed, Kinds
<1> QED BY <1>3, <1>4

-----------------------------------------------------------------------------
(* What the interaction with the table does to the waiting orders *)

\* The memory's numbers, as the steps below use them.
LEMMA MemoryNumbers ==
    ASSUME MemoryOK
    PROVE  /\ first[2] \in Slots /\ first[2] \in Nat /\ first[2] < MAX_ORDERS
           /\ Packed \in Nat /\ Unpacked \in Nat /\ Packed + Unpacked <= MAX_ORDERS
           /\ Unsent = Packed + Unpacked
           /\ first[1] = (first[2] + Packed) % MAX_ORDERS
           /\ first[0] = (first[2] + Unsent) % MAX_ORDERS
           /\ \A i \in 0 .. Packed + Unpacked - 1 :
                 table[(first[2] + i) % MAX_ORDERS] \in Orders
<1>1. first[2] \in Slots /\ Packed \in Nat /\ Unpacked \in Nat /\ Unsent <= MAX_ORDERS
  BY DEF MemoryOK
<1>2. Unsent = Packed + Unpacked
  BY <1>1 DEF Unsent
<1>3. first[2] \in Nat /\ first[2] < MAX_ORDERS
  BY <1>1, ShopAssumption DEF Slots
<1> QED BY <1>1, <1>2, <1>3 DEF MemoryOK, IndicesAgree, WaitingSlotsFilled

\* A window of filled slots is a sequence of orders.
LEMMA WaitingSeq ==
    ASSUME NEW f \in Nat, NEW k \in Nat, NEW n \in Nat, NEW t,
           \A i \in 0 .. k + n - 1 : t[(f + i) % MAX_ORDERS] \in Orders
    PROVE  Waiting(f, k, n, t) \in [1 .. n -> Orders]
<1>1. ASSUME NEW i \in 1 .. n
      PROVE  t[(f + k + i - 1) % MAX_ORDERS] \in Orders
  <2>1. k + i - 1 \in 0 .. k + n - 1 /\ f + (k + i - 1) = f + k + i - 1
    OBVIOUS
  <2> QED BY <2>1
<1> QED BY <1>1 DEF Waiting

\* A receiver that finds a free slot appends its order to the unpacked ones.
LEMMA ReceiverPuts ==
    ASSUME NEW Label, NEW w \in Receivers, pc \in [Workers -> Label], MemoryOK,
           got[w] \in Orders, Unsent < MAX_ORDERS, InteractN(w)
    PROVE  /\ MemoryOK'
           /\ UnpackedOrders' = Append(UnpackedOrders, got[w])
           /\ PackedOrders' = PackedOrders
           /\ got' = got
<1> DEFINE f == first[2]
           p == Packed
           n == Unpacked
           T == table'
<1>1. w \in Workers /\ w \notin Packers /\ w \notin Senders
  BY RolesDisjoint DEF Workers
<1>2. /\ f \in Slots /\ f \in Nat /\ f < MAX_ORDERS /\ p \in Nat /\ n \in Nat
      /\ Unsent = p + n /\ p + n < MAX_ORDERS
      /\ first[1] = (f + p) % MAX_ORDERS /\ first[0] = (f + (p + n)) % MAX_ORDERS
      /\ \A i \in 0 .. p + n - 1 : table[(f + i) % MAX_ORDERS] \in Orders
      /\ MAX_ORDERS \in Nat \ {0}
  BY MemoryNumbers, ShopAssumption
<1>3. Unpacked' = n + 1 /\ Packed' = p
  <2>1. m \in Int /\ x \in Int
    BY DEF MemoryOK
  <2>2. /\ Unpacked' = Unpacked + (IF w \in Receivers THEN 1 ELSE 0)
                                 - (IF w \in Packers THEN 1 ELSE 0)
        /\ Packed' = Packed + (IF w \in Packers THEN 1 ELSE 0)
                             - (IF w \in Senders THEN 1 ELSE 0)
    BY <1>1, <2>1, InteractNLevels
  <2> QED BY <1>1, <1>2, <2>2
<1>4. /\ first' = [first EXCEPT ![0] = NextSlot(first[0])]
      /\ T = [table EXCEPT ![first[0]] = got[w]]
      /\ got' = got /\ m' = m /\ x' = x
  BY DEF InteractN, set_n, action_n, n_stage
<1>5. first \in [0 .. 2 -> Slots] /\ table \in [Slots -> Held] /\ got \in [Workers -> Held]
      /\ m \in Int /\ x \in Int
  BY DEF MemoryOK
<1> HIDE DEF f, p, n, T
<1>6. /\ f + (p + n) \in Nat /\ f + (p + n) + 1 < 2 * MAX_ORDERS
      /\ f + (p + n) + 1 = f + (p + (n + 1))
  BY <1>2
<1>7. NextSlot(first[0]) = (f + (p + (n + 1))) % MAX_ORDERS
  BY <1>2, <1>6, NextWrap
<1>8. first'[0] = (f + (p + (n + 1))) % MAX_ORDERS /\ first'[1] = first[1] /\ first'[2] = f
      /\ first' \in [0 .. 2 -> Slots]
  <2>1. NextSlot(first[0]) \in Slots
    BY <1>2, <1>5 DEF NextSlot, Slots
  <2> QED BY <1>4, <1>5, <1>7, <2>1 DEF f
<1>9. T \in [Slots -> Held]
  BY <1>4, <1>5 DEF Held
<1>10. ASSUME NEW i \in 0 .. p + n - 1
       PROVE  T[(f + i) % MAX_ORDERS] = table[(f + i) % MAX_ORDERS]
  <2>1. (f + i) % MAX_ORDERS # (f + (p + n)) % MAX_ORDERS
    <3>1. f + i \in Nat /\ f + i < f + (p + n) /\ f + (p + n) < 2 * MAX_ORDERS
          /\ (f + (p + n)) - (f + i) < MAX_ORDERS
      BY <1>2
    <3> QED BY <1>6, <3>1, Apart
  <2>2. (f + i) % MAX_ORDERS \in Slots
    BY <1>2 DEF Slots
  <2> QED BY <1>2, <1>4, <1>5, <2>1, <2>2
<1>11. T[(f + (p + n)) % MAX_ORDERS] = got[w]
  <2>1. first[0] \in Slots
    BY <1>5
  <2> QED BY <1>2, <1>4, <1>5, <2>1
<1>12. \A i \in 0 .. p + (n + 1) - 1 : T[(f + i) % MAX_ORDERS] \in Orders
  <2> TAKE i \in 0 .. p + (n + 1) - 1
  <2>1. CASE i \in 0 .. p + n - 1
    BY <1>2, <1>10, <2>1
  <2>2. CASE i = p + n
    BY <1>11, <2>2
  <2> QED BY <1>2, <2>1, <2>2
<1>13. MemoryOK'
  <2>1. Unsent' = p + (n + 1) /\ Unsent' <= MAX_ORDERS
    BY <1>2, <1>3 DEF Unsent
  <2>2. IndicesAgree'
    BY <1>2, <1>3, <1>8, <2>1 DEF IndicesAgree
  <2>3. WaitingSlotsFilled'
    <3>0. p \in Nat /\ n \in Nat /\ Unsent' = p + (n + 1)
      BY <1>2, <2>1
    <3>1. \A i \in 0 .. Unsent' - 1 : T[(f + i) % MAX_ORDERS] \in Orders
      BY <1>12, <3>0
    <3> QED BY <1>8, <3>1 DEF WaitingSlotsFilled, T
  <2> QED BY <1>2, <1>3, <1>4, <1>5, <1>8, <1>9, <2>1, <2>2, <2>3 DEF MemoryOK, T
<1>14. UnpackedOrders' = Waiting(f, p, n + 1, T) /\ PackedOrders' = Waiting(f, 0, p, T)
  <2>1. /\ f + p \in Nat /\ p + (n + 1) <= MAX_ORDERS /\ n + 1 \in Nat
    BY <1>2
  <2>2. [i \in 1 .. n + 1 |-> T[(((f + p) % MAX_ORDERS) + i - 1) % MAX_ORDERS]]
          = Waiting(f, p, n + 1, T)
    BY <1>2, <2>1, WindowIsWaiting, ZenonT(60)
  <2>3. f + 0 = f
    BY <1>2
  <2> QED BY <1>2, <1>3, <1>8, <2>2, <2>3 DEF UnpackedOrders, PackedOrders, Window, Waiting, T
<1>15. UnpackedOrders = Waiting(f, p, n, table) /\ PackedOrders = Waiting(f, 0, p, table)
  BY WindowsAre DEF f, p, n
<1>16. Waiting(f, p, n + 1, T) = Append(Waiting(f, p, n, table), got[w])
  <2>1. Waiting(f, p, n, table) \in [1 .. n -> Orders]
    BY <1>2, WaitingSeq
  <2>2. Waiting(f, p, n + 1, T) \in [1 .. n + 1 -> Orders]
    <3>1. n + 1 \in Nat
      BY <1>2
    <3> QED BY <1>2, <1>12, <3>1, WaitingSeq
  <2>3. \A i \in 1 .. n : Waiting(f, p, n + 1, T)[i] = Waiting(f, p, n, table)[i]
    <3> TAKE i \in 1 .. n
    <3>1. p + i - 1 \in 0 .. p + n - 1 /\ f + (p + i - 1) = f + p + i - 1
      BY <1>2
    <3>2. T[(f + p + i - 1) % MAX_ORDERS] = table[(f + p + i - 1) % MAX_ORDERS]
      BY <1>10, <3>1
    <3> QED BY <1>2, <3>2 DEF Waiting
  <2>4. Waiting(f, p, n + 1, T)[n + 1] = got[w]
    <3>1. f + p + (n + 1) - 1 = f + (p + n)
      BY <1>2
    <3> QED BY <1>2, <1>11, <3>1 DEF Waiting
  <2> QED BY <1>2, <2>1, <2>2, <2>3, <2>4, AppendByElements
<1>17. Waiting(f, 0, p, T) = Waiting(f, 0, p, table)
  <2>1. ASSUME NEW i \in 1 .. p
        PROVE  T[(f + 0 + i - 1) % MAX_ORDERS] = table[(f + 0 + i - 1) % MAX_ORDERS]
    <3>1. i - 1 \in 0 .. p + n - 1 /\ f + (i - 1) = f + 0 + i - 1
      BY <1>2
    <3> QED BY <1>10, <3>1
  <2> QED BY <2>1 DEF Waiting
<1> QED BY <1>4, <1>13, <1>14, <1>15, <1>16, <1>17

\* A packer that finds an order marks the oldest unpacked one as the newest
\* packed one, and remembers it.
LEMMA PackerTakes ==
    ASSUME NEW Label, NEW w \in Packers, pc \in [Workers -> Label], MemoryOK,
           Unpacked >= 1, InteractN(w)
    PROVE  /\ MemoryOK'
           /\ UnpackedOrders # <<>>
           /\ UnpackedOrders' = Tail(UnpackedOrders)
           /\ PackedOrders' = Append(PackedOrders, Head(UnpackedOrders))
           /\ got' = [got EXCEPT ![w] = Head(UnpackedOrders)]
<1> DEFINE f == first[2]
           p == Packed
           n == Unpacked
           o == table[first[1]]
<1>1. w \in Workers /\ w \notin Receivers /\ w \notin Senders
  BY RolesDisjoint DEF Workers
<1>2. /\ f \in Slots /\ f \in Nat /\ f < MAX_ORDERS /\ p \in Nat /\ n \in Nat /\ n >= 1
      /\ Unsent = p + n /\ p + n <= MAX_ORDERS
      /\ first[1] = (f + p) % MAX_ORDERS /\ first[0] = (f + Unsent) % MAX_ORDERS
      /\ \A i \in 0 .. p + n - 1 : table[(f + i) % MAX_ORDERS] \in Orders
      /\ MAX_ORDERS \in Nat \ {0}
  BY MemoryNumbers, ShopAssumption
<1>3. Unpacked' = n - 1 /\ Packed' = p + 1
  <2>1. m \in Int /\ x \in Int
    BY DEF MemoryOK
  <2>2. /\ Unpacked' = Unpacked + (IF w \in Receivers THEN 1 ELSE 0)
                                 - (IF w \in Packers THEN 1 ELSE 0)
        /\ Packed' = Packed + (IF w \in Packers THEN 1 ELSE 0)
                             - (IF w \in Senders THEN 1 ELSE 0)
    BY <1>1, <2>1, InteractNLevels
  <2> QED BY <1>1, <1>2, <2>2
<1>4. o \in Orders /\ o # Empty
  <2>1. p \in 0 .. p + n - 1
    BY <1>2
  <2> QED BY <1>2, <2>1, ShopAssumption
<1>5. /\ first' = [first EXCEPT ![1] = NextSlot(first[1])]
      /\ table' = table /\ got' = [got EXCEPT ![w] = o] /\ m' = m /\ x' = x
  BY <1>1, <1>4 DEF InteractN, get_n, action_n, n_stage
<1>6. first \in [0 .. 2 -> Slots] /\ table \in [Slots -> Held] /\ got \in [Workers -> Held]
      /\ m \in Int /\ x \in Int
  BY DEF MemoryOK
<1> HIDE DEF f, p, n, o
<1>7. NextSlot(first[1]) = (f + (p + 1)) % MAX_ORDERS
  <2>1. f + p \in Nat /\ f + p + 1 < 2 * MAX_ORDERS /\ f + p + 1 = f + (p + 1)
    BY <1>2
  <2> QED BY <1>2, <2>1, NextWrap
<1>8. first'[1] = (f + (p + 1)) % MAX_ORDERS /\ first'[0] = first[0] /\ first'[2] = f
      /\ first' \in [0 .. 2 -> Slots]
  <2>1. NextSlot(first[1]) \in Slots
    BY <1>2, <1>6 DEF NextSlot, Slots
  <2> QED BY <1>5, <1>6, <1>7, <2>1 DEF f
<1>9. MemoryOK'
  <2>1. Unsent' = Unsent /\ Unsent' <= MAX_ORDERS
    BY <1>2, <1>3 DEF Unsent
  <2>2. IndicesAgree'
    BY <1>2, <1>3, <1>8, <2>1 DEF IndicesAgree
  <2>3. WaitingSlotsFilled'
    BY <1>2, <1>5, <1>8, <2>1 DEF WaitingSlotsFilled
  <2>4. got' \in [Workers -> Held]
    BY <1>4, <1>5, <1>6 DEF Held
  <2>5. Unpacked' \in Nat /\ Packed' \in Nat
    BY <1>2, <1>3
  <2> QED BY <1>5, <1>6, <1>8, <2>1, <2>2, <2>3, <2>4, <2>5 DEF MemoryOK
<1>10. UnpackedOrders' = Waiting(f, p + 1, n - 1, table)
       /\ PackedOrders' = Waiting(f, 0, p + 1, table)
  <2>1. /\ p + 1 \in Nat /\ n - 1 \in Nat /\ (p + 1) + (n - 1) <= MAX_ORDERS
    BY <1>2
  <2>2. [i \in 1 .. n - 1 |-> table[(((f + (p + 1)) % MAX_ORDERS) + i - 1) % MAX_ORDERS]]
          = Waiting(f, p + 1, n - 1, table)
    BY <1>2, <2>1, WindowIsWaiting, ZenonT(60)
  <2>3. f + 0 = f
    BY <1>2
  <2> QED BY <1>3, <1>5, <1>8, <2>2, <2>3 DEF UnpackedOrders, PackedOrders, Window, Waiting
<1>11. UnpackedOrders = Waiting(f, p, n, table) /\ PackedOrders = Waiting(f, 0, p, table)
  BY WindowsAre DEF f, p, n
<1>12. Waiting(f, p, n, table) \in [1 .. n -> Orders]
  BY <1>2, WaitingSeq
<1>13. /\ Waiting(f, p, n, table) # <<>>
       /\ Head(Waiting(f, p, n, table)) = Waiting(f, p, n, table)[1]
       /\ Waiting(f, p + 1, n - 1, table) = Tail(Waiting(f, p, n, table))
  <2>1. Waiting(f, p + 1, n - 1, table) \in [1 .. n - 1 -> Orders]
    <3>1. p + 1 \in Nat /\ n - 1 \in Nat /\ (p + 1) + (n - 1) - 1 = p + n - 1
      BY <1>2
    <3> QED BY <1>2, <3>1, WaitingSeq
  <2>2. \A i \in 1 .. n - 1 :
           Waiting(f, p + 1, n - 1, table)[i] = Waiting(f, p, n, table)[i + 1]
    <3> TAKE i \in 1 .. n - 1
    <3>1. f + (p + 1) + i - 1 = f + p + (i + 1) - 1 /\ i + 1 \in 1 .. n
      BY <1>2
    <3> QED BY <3>1 DEF Waiting
  <2> QED BY <1>2, <1>12, <2>1, <2>2, TailByElements
<1>14. Waiting(f, p, n, table)[1] = o
  <2>1. f + p + 1 - 1 = f + p /\ 1 \in 1 .. n
    BY <1>2
  <2> QED BY <1>2, <2>1 DEF Waiting, o
<1>15. Waiting(f, 0, p + 1, table) = Append(Waiting(f, 0, p, table), o)
  <2>1. Waiting(f, 0, p, table) \in [1 .. p -> Orders]
    <3>1. \A i \in 0 .. 0 + p - 1 : table[(f + i) % MAX_ORDERS] \in Orders
      <4> TAKE i \in 0 .. 0 + p - 1
      <4>1. i \in 0 .. p + n - 1
        BY <1>2
      <4> QED BY <1>2, <4>1
    <3> QED BY <1>2, <3>1, WaitingSeq
  <2>2. Waiting(f, 0, p + 1, table) \in [1 .. p + 1 -> Orders]
    <3>1. \A i \in 0 .. 0 + (p + 1) - 1 : table[(f + i) % MAX_ORDERS] \in Orders
      <4> TAKE i \in 0 .. 0 + (p + 1) - 1
      <4>1. i \in 0 .. p + n - 1
        BY <1>2
      <4> QED BY <1>2, <4>1
    <3>2. p + 1 \in Nat
      BY <1>2
    <3> QED BY <1>2, <3>1, <3>2, WaitingSeq
  <2>3. \A i \in 1 .. p : Waiting(f, 0, p + 1, table)[i] = Waiting(f, 0, p, table)[i]
    BY <1>2 DEF Waiting
  <2>4. Waiting(f, 0, p + 1, table)[p + 1] = o
    <3>1. f + 0 + (p + 1) - 1 = f + p /\ p + 1 \in 1 .. p + 1
      BY <1>2
    <3> QED BY <1>2, <3>1 DEF Waiting, o
  <2> QED BY <1>2, <1>4, <2>1, <2>2, <2>3, <2>4, AppendByElements
<1> QED BY <1>5, <1>9, <1>10, <1>11, <1>13, <1>14, <1>15

\* A sender that finds an order takes the oldest packed one out of the table.
LEMMA SenderTakes ==
    ASSUME NEW Label, NEW w \in Senders, pc \in [Workers -> Label], MemoryOK,
           Packed >= 1, InteractN(w)
    PROVE  /\ MemoryOK'
           /\ UnpackedOrders' = UnpackedOrders
           /\ PackedOrders # <<>>
           /\ PackedOrders' = Tail(PackedOrders)
           /\ got' = [got EXCEPT ![w] = Head(PackedOrders)]
<1> DEFINE f == first[2]
           g == NextSlot(first[2])
           p == Packed
           n == Unpacked
           o == table[first[2]]
<1>1. w \in Workers /\ w \notin Receivers /\ w \notin Packers
  BY RolesDisjoint DEF Workers
<1>2. /\ f \in Slots /\ f \in Nat /\ f < MAX_ORDERS /\ p \in Nat /\ p >= 1 /\ n \in Nat
      /\ Unsent = p + n /\ p + n <= MAX_ORDERS
      /\ first[1] = (f + p) % MAX_ORDERS /\ first[0] = (f + (p + n)) % MAX_ORDERS
      /\ \A i \in 0 .. p + n - 1 : table[(f + i) % MAX_ORDERS] \in Orders
      /\ MAX_ORDERS \in Nat \ {0}
  BY MemoryNumbers, ShopAssumption
<1>3. Unpacked' = n /\ Packed' = p - 1
  <2>1. m \in Int /\ x \in Int
    BY DEF MemoryOK
  <2>2. /\ Unpacked' = Unpacked + (IF w \in Receivers THEN 1 ELSE 0)
                                 - (IF w \in Packers THEN 1 ELSE 0)
        /\ Packed' = Packed + (IF w \in Packers THEN 1 ELSE 0)
                             - (IF w \in Senders THEN 1 ELSE 0)
    BY <1>1, <2>1, InteractNLevels
  <2> QED BY <1>1, <1>2, <2>2
<1>f. f % MAX_ORDERS = f /\ f + 0 = f
  BY <1>2
<1>4. o \in Orders /\ o # Empty
  <2>1. 0 \in 0 .. p + n - 1
    BY <1>2
  <2> QED BY <1>2, <1>f, <2>1, ShopAssumption
<1>5. /\ first' = [first EXCEPT ![2] = g]
      /\ table' = table /\ got' = [got EXCEPT ![w] = o] /\ m' = m /\ x' = x
  BY <1>1, <1>4 DEF InteractN, get_n, action_n, n_stage
<1>6. first \in [0 .. 2 -> Slots] /\ table \in [Slots -> Held] /\ got \in [Workers -> Held]
      /\ m \in Int /\ x \in Int
  BY DEF MemoryOK
<1>7. g \in Slots /\ g \in Nat
  BY <1>2 DEF NextSlot, Slots
<1>8. \A k \in 1 .. MAX_ORDERS : (g + k - 1) % MAX_ORDERS = (f + k) % MAX_ORDERS
  BY <1>2, ShiftWrap
<1> HIDE DEF f, g, p, n, o
<1>9. first'[2] = g /\ first'[1] = first[1] /\ first'[0] = first[0]
      /\ first' \in [0 .. 2 -> Slots]
  BY <1>5, <1>6, <1>7
<1>10. \A i \in 0 .. (p - 1) + n - 1 : table[(g + i) % MAX_ORDERS] \in Orders
  <2> TAKE i \in 0 .. (p - 1) + n - 1
  <2>1. i + 1 \in 0 .. p + n - 1 /\ i + 1 \in 1 .. MAX_ORDERS /\ g + (i + 1) - 1 = g + i
    BY <1>2, <1>7
  <2>2. (g + (i + 1) - 1) % MAX_ORDERS = (f + (i + 1)) % MAX_ORDERS
    BY <1>8, <2>1
  <2>3. table[(f + (i + 1)) % MAX_ORDERS] \in Orders
    BY <1>2, <2>1
  <2> QED BY <2>1, <2>2, <2>3
<1>11. first[1] = (g + (p - 1)) % MAX_ORDERS
  <2>1. p \in 1 .. MAX_ORDERS /\ g + p - 1 = g + (p - 1)
    BY <1>2, <1>7
  <2> QED BY <1>2, <1>8, <2>1
<1>12. first[0] = (g + ((p - 1) + n)) % MAX_ORDERS
  <2>1. p + n \in 1 .. MAX_ORDERS /\ g + (p + n) - 1 = g + ((p - 1) + n)
    BY <1>2, <1>7
  <2> QED BY <1>2, <1>8, <2>1
<1>13. MemoryOK'
  <2>1. Unsent' = (p - 1) + n /\ Unsent' <= MAX_ORDERS
    BY <1>2, <1>3 DEF Unsent
  <2>2. IndicesAgree'
    BY <1>3, <1>9, <1>11, <1>12, <2>1 DEF IndicesAgree
  <2>3. WaitingSlotsFilled'
    <3>0. p \in Nat /\ n \in Nat /\ Unsent' = (p - 1) + n
      BY <1>2, <2>1
    <3>1. \A i \in 0 .. Unsent' - 1 : table[(g + i) % MAX_ORDERS] \in Orders
      BY <1>10, <3>0
    <3> QED BY <1>5, <1>9, <3>1 DEF WaitingSlotsFilled
  <2>4. got' \in [Workers -> Held]
    BY <1>4, <1>5, <1>6 DEF Held
  <2>5. Unpacked' \in Nat /\ Packed' \in Nat
    BY <1>2, <1>3
  <2> QED BY <1>5, <1>6, <1>9, <2>1, <2>2, <2>3, <2>4, <2>5 DEF MemoryOK
<1>14. UnpackedOrders' = Waiting(g, p - 1, n, table)
       /\ PackedOrders' = Waiting(g, 0, p - 1, table)
  <2>1. p - 1 \in Nat /\ n \in Nat /\ (p - 1) + n <= MAX_ORDERS /\ g + 0 = g
    BY <1>2, <1>7
  <2>2. [i \in 1 .. n |-> table[(((g + (p - 1)) % MAX_ORDERS) + i - 1) % MAX_ORDERS]]
          = Waiting(g, p - 1, n, table)
    BY <1>7, <2>1, WindowIsWaiting
  <2> QED BY <1>3, <1>5, <1>9, <1>11, <2>1, <2>2
      DEF UnpackedOrders, PackedOrders, Window, Waiting
<1>15. UnpackedOrders = Waiting(f, p, n, table) /\ PackedOrders = Waiting(f, 0, p, table)
  BY WindowsAre DEF f, p, n
<1>16. Waiting(g, p - 1, n, table) = Waiting(f, p, n, table)
  <2>1. ASSUME NEW i \in 1 .. n
        PROVE  table[(g + (p - 1) + i - 1) % MAX_ORDERS] = table[(f + p + i - 1) % MAX_ORDERS]
    <3>1. /\ p + i - 1 \in 1 .. MAX_ORDERS
          /\ g + (p + i - 1) - 1 = g + (p - 1) + i - 1
          /\ f + (p + i - 1) = f + p + i - 1
      BY <1>2, <1>7
    <3>2. (g + (p + i - 1) - 1) % MAX_ORDERS = (f + (p + i - 1)) % MAX_ORDERS
      BY <1>8, <3>1
    <3> QED BY <3>1, <3>2
  <2> QED BY <2>1 DEF Waiting
<1>17. Waiting(f, 0, p, table) \in [1 .. p -> Orders]
  <2>1. \A i \in 0 .. 0 + p - 1 : table[(f + i) % MAX_ORDERS] \in Orders
    <3> TAKE i \in 0 .. 0 + p - 1
    <3>1. i \in 0 .. p + n - 1
      BY <1>2
    <3> QED BY <1>2, <3>1
  <2> QED BY <1>2, <2>1, WaitingSeq
<1>18. /\ Waiting(f, 0, p, table) # <<>>
       /\ Head(Waiting(f, 0, p, table)) = Waiting(f, 0, p, table)[1]
       /\ Waiting(g, 0, p - 1, table) = Tail(Waiting(f, 0, p, table))
  <2>1. Waiting(g, 0, p - 1, table) \in [1 .. p - 1 -> Orders]
    <3>1. \A i \in 0 .. 0 + (p - 1) - 1 : table[(g + i) % MAX_ORDERS] \in Orders
      BY <1>2, <1>10
    <3>2. p - 1 \in Nat
      BY <1>2
    <3> QED BY <1>7, <3>1, <3>2, WaitingSeq
  <2>2. \A i \in 1 .. p - 1 :
           Waiting(g, 0, p - 1, table)[i] = Waiting(f, 0, p, table)[i + 1]
    <3> TAKE i \in 1 .. p - 1
    <3>1. /\ i \in 1 .. MAX_ORDERS /\ i + 1 \in 1 .. p
          /\ g + 0 + i - 1 = g + i - 1 /\ f + 0 + (i + 1) - 1 = f + i
      BY <1>2, <1>7
    <3>2. (g + i - 1) % MAX_ORDERS = (f + i) % MAX_ORDERS
      BY <1>8, <3>1
    <3> QED BY <3>1, <3>2 DEF Waiting
  <2>3. p > 0
    BY <1>2
  <2> QED BY <1>2, <1>17, <2>1, <2>2, <2>3, TailByElements
<1>19. Waiting(f, 0, p, table)[1] = o
  <2>1. f + 0 + 1 - 1 = f /\ 1 \in 1 .. p
    BY <1>2
  <2> QED BY <1>f, <2>1 DEF Waiting, o, f
<1> QED BY <1>5, <1>13, <1>14, <1>15, <1>16, <1>18, <1>19

\* A step that moves no order and keeps the table leaves the waiting orders.
LEMMA MemoryKept ==
    ASSUME MemoryOK, UNCHANGED <<first, table>>, m' \in Int, x' \in Int,
           got' \in [Workers -> Held], Unpacked' = Unpacked, Packed' = Packed
    PROVE  MemoryOK' /\ UnpackedOrders' = UnpackedOrders /\ PackedOrders' = PackedOrders
<1>1. Unsent' = Unsent
  BY DEF Unsent
<1>2. IndicesAgree' /\ WaitingSlotsFilled'
  BY <1>1 DEF MemoryOK, IndicesAgree, WaitingSlotsFilled
<1>3. UnpackedOrders' = UnpackedOrders /\ PackedOrders' = PackedOrders
  BY DEF UnpackedOrders, PackedOrders, Window
<1> QED BY <1>1, <1>2, <1>3 DEF MemoryOK

-----------------------------------------------------------------------------
(* The interactions as steps of the three-stage queue *)

\* As many orders wait in each stage's sequence as its level says.
LEMMA WaitingLengths ==
    ASSUME MemoryOK
    PROVE  Len(UnpackedOrders) = Unpacked /\ Len(PackedOrders) = Packed
<1>1. /\ first[2] \in Nat /\ Packed \in Nat /\ Unpacked \in Nat
      /\ \A i \in 0 .. Packed + Unpacked - 1 : table[(first[2] + i) % MAX_ORDERS] \in Orders
  BY MemoryNumbers
<1>2. Waiting(first[2], Packed, Unpacked, table) \in [1 .. Unpacked -> Orders]
  BY <1>1, WaitingSeq
<1>3. Waiting(first[2], 0, Packed, table) \in [1 .. Packed -> Orders]
  <2>1. \A i \in 0 .. 0 + Packed - 1 : table[(first[2] + i) % MAX_ORDERS] \in Orders
    <3> TAKE i \in 0 .. 0 + Packed - 1
    <3>1. i \in 0 .. Packed + Unpacked - 1
      BY <1>1
    <3> QED BY <1>1, <3>1
  <2> QED BY <1>1, <2>1, WaitingSeq
<1>4. Len(Waiting(first[2], Packed, Unpacked, table)) = Unpacked
  BY <1>1, <1>2, FunctionIsSeq
<1>5. Len(Waiting(first[2], 0, Packed, table)) = Packed
  BY <1>1, <1>3, FunctionIsSeq
<1> QED BY <1>4, <1>5, WindowsAre

\* Whoever has its credit takes one step of the queue at the table.
LEMMA TableStep ==
    ASSUME NEW Label, NEW w \in Workers, pc \in [Workers -> Label], MemoryOK, InteractN(w),
           w \in Receivers => got[w] \in Orders /\ Unsent < MAX_ORDERS,
           w \in Packers => Unpacked >= 1,
           w \in Senders => Packed >= 1
    PROVE  MemoryOK' /\ Pipeline!Next
<1>1. CASE w \in Receivers
  <2>1. /\ MemoryOK' /\ UnpackedOrders' = Append(UnpackedOrders, got[w])
        /\ PackedOrders' = PackedOrders /\ got' = got
    BY <1>1, ReceiverPuts
  <2>2. Len(UnpackedOrders) + Len(PackedOrders) < MAX_ORDERS
    BY <1>1, WaitingLengths DEF Unsent
  <2>3. Pipeline!Receive(got[w])
    BY <2>1, <2>2 DEF Pipeline!Receive, UnpackedOrders, PackedOrders
  <2> QED BY <1>1, <2>1, <2>3 DEF Pipeline!Next
<1>2. CASE w \in Packers
  <2>1. /\ MemoryOK' /\ UnpackedOrders # <<>>
        /\ UnpackedOrders' = Tail(UnpackedOrders)
        /\ PackedOrders' = Append(PackedOrders, Head(UnpackedOrders))
        /\ got' = [got EXCEPT ![w] = Head(UnpackedOrders)]
    BY <1>2, PackerTakes
  <2>2. Pipeline!Pack(w)
    <3>1. [v \in Packers \cup Senders |-> got'[v]]
            = [[v \in Packers \cup Senders |-> got[v]] EXCEPT ![w] = Head(UnpackedOrders)]
      BY <2>1 DEF MemoryOK, Workers
    <3> QED BY <2>1, <3>1 DEF Pipeline!Pack, UnpackedOrders, PackedOrders
  <2> QED BY <1>2, <2>1, <2>2 DEF Pipeline!Next
<1>3. CASE w \in Senders
  <2>1. /\ MemoryOK' /\ UnpackedOrders' = UnpackedOrders
        /\ PackedOrders # <<>> /\ PackedOrders' = Tail(PackedOrders)
        /\ got' = [got EXCEPT ![w] = Head(PackedOrders)]
    BY <1>3, SenderTakes
  <2>2. Pipeline!Send(w)
    <3>1. [v \in Packers \cup Senders |-> got'[v]]
            = [[v \in Packers \cup Senders |-> got[v]] EXCEPT ![w] = Head(PackedOrders)]
      BY <2>1 DEF MemoryOK, Workers
    <3> QED BY <2>1, <3>1 DEF Pipeline!Send, UnpackedOrders, PackedOrders
  <2> QED BY <1>3, <2>1, <2>2 DEF Pipeline!Next
<1> QED BY <1>1, <1>2, <1>3 DEF Workers

\* A step that moves no order is a stuttering step of the queue.
LEMMA QuietStep ==
    ASSUME MemoryOK, UNCHANGED <<first, table>>, m' \in Int, x' \in Int,
           got' \in [Workers -> Held], Unpacked' = Unpacked, Packed' = Packed,
           \A v \in Packers \cup Senders : got'[v] = got[v]
    PROVE  MemoryOK' /\ UNCHANGED Pipeline!vars
<1>1. MemoryOK' /\ UnpackedOrders' = UnpackedOrders /\ PackedOrders' = PackedOrders
  BY MemoryKept
<1>2. UNCHANGED [v \in Packers \cup Senders |-> got[v]]
  OBVIOUS
<1> QED BY <1>1, <1>2 DEF Pipeline!vars, UnpackedOrders, PackedOrders

\* The empty table is the empty queue.
LEMMA EmptyMemory ==
    ASSUME create_shm, got = [w \in Workers |-> Empty], NEW Label, Label \cap {"n", "x"} = {},
           pc \in [Workers -> Label]
    PROVE  MemoryOK /\ Pipeline!Init /\ Unpacked = 0 /\ Packed = 0
<1>1. \A W \in Kinds, l \in {"n", "x"} : Cardinality(In(W, {l})) = 0
  <2> SUFFICES ASSUME NEW W \in Kinds, NEW l \in {"n", "x"}
               PROVE  Cardinality(In(W, {l})) = 0
    OBVIOUS
  <2>1. In(W, {l}) = {}
    BY DEF In, Kinds, Workers
  <2> QED BY <2>1, FS_EmptySet
<1>2. Unpacked = 0 /\ Packed = 0 /\ Unsent = 0
  <2>1. /\ Cardinality(In(Receivers, {"n"})) = 0 /\ Cardinality(In(Packers, {"n"})) = 0
        /\ Cardinality(In(Packers, {"x"})) = 0 /\ Cardinality(In(Senders, {"x"})) = 0
    BY <1>1 DEF Kinds
  <2> QED BY <2>1 DEF create_shm, Unpacked, Packed, Unsent
<1>3. MemoryOK
  <2>1. first = [s \in 0 .. 2 |-> 0] /\ 0 \in Slots /\ 0 % MAX_ORDERS = 0
    BY ShopAssumption DEF create_shm, Slots
  <2>2. IndicesAgree /\ WaitingSlotsFilled
    BY <1>2, <2>1 DEF IndicesAgree, WaitingSlotsFilled
  <2>3. 0 <= MAX_ORDERS
    BY ShopAssumption
  <2> QED BY <1>2, <2>1, <2>2, <2>3 DEF create_shm, MemoryOK, Held
<1>4. Window(first[1], Unpacked) = <<>> /\ Window(first[2], Packed) = <<>>
  BY <1>2, EmptySeq DEF Window
<1>5. [w \in Packers \cup Senders |-> got[w]] = [w \in Packers \cup Senders |-> Empty]
  BY DEF Workers
<1> QED BY <1>2, <1>3, <1>4, <1>5 DEF Pipeline!Init

=============================================================================
