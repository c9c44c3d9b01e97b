--------------------------- MODULE PosixShopProofs ---------------------------
(***************************************************************************)
(* Proofs about PosixShop for every table size, every finite set of        *)
(* workers and every number of kills.                                      *)
(***************************************************************************)
EXTENDS PosixShop, ShopMemoryProofs

(* The inductive invariant. *)

Shape ==
    /\ first \in [0 .. 2 -> Slots]
    /\ m \in Int
    /\ x \in Int
    /\ table \in [Slots -> Orders \cup {Empty}]
    /\ got \in [Workers -> Orders \cup {Empty}]
    /\ pc \in [Workers -> Labels]
    /\ sem \in [Semaphores -> Nat]
    /\ dead \subseteq Workers

MutexConserved == sem["n"] + Cardinality(In(Workers, Inside)) = 1

ReceiverHasOrder == \A w \in Receivers : pc[w] \in Before => got[w] \in Orders

IInv ==
    /\ Shape
    /\ MutexConserved
    /\ CreditsConserved
    /\ IndicesAgree
    /\ ReceiverHasOrder
    /\ WaitingSlotsFilled

-----------------------------------------------------------------------------
(* Counting workers *)

\* What a move to a label changes in the count of a set of workers.
Change(w, to, W, L) ==
    (IF w \in W /\ to \in L THEN 1 ELSE 0) - (IF w \in W /\ pc[w] \in L THEN 1 ELSE 0)

\* All the counts the invariant speaks of, across one worker's move.
CountsMove(w, to) ==
    /\ Cardinality(In(Workers, Inside))'
         = Cardinality(In(Workers, Inside)) + Change(w, to, Workers, Inside)
    /\ \A W \in {Receivers, Packers, Senders} :
         /\ Between(W)' = Between(W) + Change(w, to, W, Before)
         /\ Past(W)' = Past(W) + Change(w, to, W, After)
         /\ Cardinality(In(W, {"n"}))'
              = Cardinality(In(W, {"n"})) + Change(w, to, W, {"n"})
         /\ Cardinality(In(W, {"x"}))'
              = Cardinality(In(W, {"x"})) + Change(w, to, W, {"x"})

\* The counts of every kind of worker move with the step of any one worker.
LEMMA Counts ==
    ASSUME NEW w \in Workers, NEW to,
           pc \in [Workers -> Labels], pc' = [pc EXCEPT ![w] = to]
    PROVE  CountsMove(w, to)
<1>1. \A W \in {Receivers, Packers, Senders, Workers} :
        /\ IsFiniteSet(In(W, Inside)) /\ Cardinality(In(W, Inside)) \in Nat
        /\ Cardinality(In(W, Before)) \in Nat
        /\ Cardinality(In(W, After)) \in Nat
        /\ Cardinality(In(W, {"n"})) \in Nat
        /\ Cardinality(In(W, {"x"})) \in Nat
  BY InFinite
<1>2. Cardinality(In(Workers, Inside)')
        = Cardinality(In(Workers, Inside)) + Change(w, to, Workers, Inside)
  BY <1>1, CountMove DEF Change
<1>3. ASSUME NEW W \in {Receivers, Packers, Senders}
      PROVE  /\ Between(W)' = Between(W) + Change(w, to, W, Before)
             /\ Past(W)' = Past(W) + Change(w, to, W, After)
             /\ Cardinality(In(W, {"n"}))'
                  = Cardinality(In(W, {"n"})) + Change(w, to, W, {"n"})
             /\ Cardinality(In(W, {"x"}))'
                  = Cardinality(In(W, {"x"})) + Change(w, to, W, {"x"})
  <2>1. \A L : Cardinality(In(W, L)') = Cardinality(In(W, L))
                  + (IF w \in W /\ to \in L THEN 1 ELSE 0)
                  - (IF w \in W /\ pc[w] \in L THEN 1 ELSE 0)
    <3>1. W \in {Receivers, Packers, Senders, Workers}
      OBVIOUS
    <3> QED BY <3>1, CountMove
  <2> QED BY <1>1, <2>1 DEF Between, Past, Change, Before, After
<1> QED BY <1>2, <1>3 DEF CountsMove

\* Counts are natural numbers, and the narrow ones are below the wide ones.
LEMMA CountBounds ==
    /\ Cardinality(In(Workers, Inside)) \in Nat
    /\ \A W \in {Receivers, Packers, Senders} :
         /\ Between(W) \in Nat /\ Past(W) \in Nat
         /\ Cardinality(In(W, {"n"})) \in 0 .. Between(W)
         /\ Cardinality(In(W, {"x"})) \in 0 .. Past(W)
<1>1. ASSUME NEW W \in {Receivers, Packers, Senders}
      PROVE  /\ In(W, {"n"}) \subseteq In(W, Before)
             /\ In(W, {"x"}) \subseteq In(W, After)
  BY DEF In, Before, After
<1>2. ASSUME NEW W \in {Receivers, Packers, Senders}
      PROVE  /\ Cardinality(In(W, {"n"})) <= Cardinality(In(W, Before))
             /\ Cardinality(In(W, {"x"})) <= Cardinality(In(W, After))
  BY <1>1, InFinite, FS_Subset
<1> QED BY <1>2, InFinite DEF Between, Past

-----------------------------------------------------------------------------
(* What the invariant says of the levels, and the cyclic index *)

\* The numbers of unpacked, packed and unsent orders never leave the table's
\* bounds, and the counters in shared memory are never negative.
LEMMA Levels ==
    ASSUME Shape, CreditsConserved
    PROVE  /\ Unpacked \in Nat /\ Packed \in Nat /\ Unsent \in 0 .. MAX_ORDERS
           /\ Unsent = Unpacked + Packed
           /\ m \in Nat /\ x \in Nat
<1>1. sem["table"] \in Nat /\ sem["m"] \in Nat /\ sem["x"] \in Nat
  BY DEF Shape, Semaphores
<1> QED
  BY <1>1, CountBounds, ShopAssumption DEF Shape, CreditsConserved, Unpacked, Packed, Unsent

\* The numbers CreditsConserved adds up, as numbers.
Known ==
    /\ sem["table"] \in Nat /\ sem["m"] \in Nat /\ sem["x"] \in Nat /\ sem["n"] \in Nat
    /\ Between(Receivers) \in Nat /\ Between(Packers) \in Nat /\ Between(Senders) \in Nat
    /\ Past(Receivers) \in Nat /\ Past(Packers) \in Nat /\ Past(Senders) \in Nat
    /\ Unpacked \in Nat /\ Packed \in Nat /\ Unsent \in Nat
    /\ Unsent = Unpacked + Packed
    /\ sem["table"] + Between(Receivers) + Unsent + Past(Senders) = MAX_ORDERS
    /\ sem["m"] + Between(Packers) + Past(Receivers) = Unpacked
    /\ sem["x"] + Between(Senders) + Past(Packers) = Packed

\* What the inductive invariant says of the semaphores and the levels, in one
\* place and as numbers.
LEMMA KnownFacts ==
    ASSUME Shape, CreditsConserved
    PROVE  Known
<1>1. \A s \in Semaphores : sem[s] \in Nat
  BY DEF Shape
<1>2. CreditsConserved
  OBVIOUS
<1> QED BY <1>1, <1>2, CountBounds, Levels DEF Known, Semaphores, CreditsConserved

-----------------------------------------------------------------------------
(* The steps *)

\* The shop starts in the inductive invariant: create_shm, create_sem.
LEMMA InitIInv == Init => IInv
<1> SUFFICES ASSUME Init PROVE IInv
  OBVIOUS
<1>1. Shape
  BY ShopAssumption
  DEF Init, create_shm, create_sem, Shape, Slots, Semaphores, Labels
<1>2. \A W, L : "get_credit" \notin L /\ W \in {Receivers, Packers, Senders, Workers}
                 => Cardinality(In(W, L)) = 0
  <2>1. \A W, L : "get_credit" \notin L /\ W \in {Receivers, Packers, Senders, Workers}
                 => In(W, L) = {}
    BY DEF In, Init, Workers
  <2> QED BY <2>1, FS_EmptySet
<1>3. /\ \A W \in {Receivers, Packers, Senders} :
           /\ Between(W) = 0 /\ Past(W) = 0
           /\ Cardinality(In(W, {"n"})) = 0 /\ Cardinality(In(W, {"x"})) = 0
      /\ Cardinality(In(Workers, Inside)) = 0
  BY <1>2 DEF Between, Past, Before, After, Inside
<1>4. Unpacked = 0 /\ Packed = 0 /\ Unsent = 0
  BY <1>3 DEF Unpacked, Packed, Unsent, Init, create_shm
<1>5. MutexConserved /\ CreditsConserved
  BY <1>3, <1>4, ShopAssumption
  DEF MutexConserved, CreditsConserved, Init, create_sem, Semaphores
<1>6. IndicesAgree
  BY <1>4, Wrap, ShopAssumption DEF IndicesAgree, Init, create_shm
<1>7. ReceiverHasOrder
  BY DEF ReceiverHasOrder, Init, Before, Workers
<1>8. WaitingSlotsFilled
  BY <1>4 DEF WaitingSlotsFilled
<1> QED BY <1>1, <1>5, <1>6, <1>7, <1>8 DEF IInv

\* The wait for the credit: a free slot, an unpacked or a packed order leaves
\* the semaphore and is held by the worker.
LEMMA GetCreditIInv ==
    ASSUME IInv, NEW w \in Workers, GetCredit(w)
    PROVE  IInv'
<1> USE DEF IInv
<1>1. pc' = [pc EXCEPT ![w] = "get_n"] /\ pc[w] = "get_credit" /\ pc \in [Workers -> Labels]
  BY DEF GetCredit, Goto, Shape
<1>c. CountsMove(w, "get_n")
  BY <1>1, Counts
<1>2. Shape'
  <2>1. credit_in(w) \in Semaphores
    BY DEF credit_in, Semaphores
  <2>2. got' \in [Workers -> Orders \cup {Empty}]
    BY DEF GetCredit, Shape
  <2>3. pc' \in [Workers -> Labels]
    BY <1>1 DEF Labels
  <2>4. sem' \in [Semaphores -> Nat]
    BY <2>1 DEF GetCredit, sem_wait, waits, Shape
  <2> QED BY <2>2, <2>3, <2>4 DEF GetCredit, memory, Shape
<1>3. /\ Unpacked' = Unpacked /\ Packed' = Packed /\ Unsent' = Unsent
  <2>1. \A W \in {Receivers, Packers, Senders} :
           /\ Cardinality(In(W, {"n"}))' = Cardinality(In(W, {"n"}))
           /\ Cardinality(In(W, {"x"}))' = Cardinality(In(W, {"x"}))
    BY <1>1, <1>c, CountBounds DEF CountsMove, Change
  <2> QED BY <2>1 DEF Unpacked, Packed, Unsent, GetCredit, memory
<1>4. MutexConserved'
  <2>1. Cardinality(In(Workers, Inside))' = Cardinality(In(Workers, Inside))
    BY <1>1, <1>c, CountBounds DEF CountsMove, Change, Inside
  <2>2. sem'["n"] = sem["n"]
    BY DEF GetCredit, sem_wait, waits, credit_in, Shape, Semaphores
  <2> QED BY <2>1, <2>2 DEF MutexConserved
<1>5. CreditsConserved'
  <2>1. \A W \in {Receivers, Packers, Senders} :
          /\ Between(W)' = Between(W) + (IF w \in W THEN 1 ELSE 0)
          /\ Past(W)' = Past(W)
    BY <1>1, <1>c, CountBounds DEF CountsMove, Change, Before, After
  <2>2. \A s \in Semaphores : sem'[s] = IF s = credit_in(w) THEN sem[s] - 1 ELSE sem[s]
    BY DEF GetCredit, sem_wait, waits, Shape
  <2>3. \A s \in Semaphores : sem[s] \in Nat
    BY DEF Shape
  <2>4. /\ sem'["table"] = sem["table"] - (IF w \in Receivers THEN 1 ELSE 0)
        /\ sem'["m"] = sem["m"] - (IF w \in Packers THEN 1 ELSE 0)
        /\ sem'["x"] = sem["x"] - (IF w \in Senders THEN 1 ELSE 0)
    BY <2>2, <2>3, RolesDisjoint DEF credit_in, action_n, action_m, Semaphores
  <2>5. /\ Between(Receivers)' = Between(Receivers) + (IF w \in Receivers THEN 1 ELSE 0)
        /\ Between(Packers)' = Between(Packers) + (IF w \in Packers THEN 1 ELSE 0)
        /\ Between(Senders)' = Between(Senders) + (IF w \in Senders THEN 1 ELSE 0)
        /\ Past(Receivers)' = Past(Receivers)
        /\ Past(Packers)' = Past(Packers)
        /\ Past(Senders)' = Past(Senders)
    BY <2>1
  <2>6. Known
    BY KnownFacts
  <2>8. sem'["table"] + Between(Receivers)' + Unsent' + Past(Senders)' = MAX_ORDERS
    BY <1>3, <2>4, <2>5, <2>6 DEF Known
  <2>9. sem'["m"] + Between(Packers)' + Past(Receivers)' = Unpacked'
    BY <1>3, <2>4, <2>5, <2>6 DEF Known
  <2>10. sem'["x"] + Between(Senders)' + Past(Packers)' = Packed'
    BY <1>3, <2>4, <2>5, <2>6 DEF Known
  <2> QED BY <2>8, <2>9, <2>10 DEF CreditsConserved
<1>6. IndicesAgree'
  BY <1>3 DEF IndicesAgree, GetCredit, memory
<1>7. ReceiverHasOrder'
  BY <1>1 DEF ReceiverHasOrder, GetCredit, Shape, Before, Workers
<1>8. WaitingSlotsFilled'
  BY <1>3 DEF WaitingSlotsFilled, GetCredit, memory
<1> QED BY <1>2, <1>4, <1>5, <1>6, <1>7, <1>8

\* The wait for the mutex: whoever passes it is alone inside.
LEMMA GetNIInv ==
    ASSUME IInv, NEW w \in Workers, GetN(w)
    PROVE  IInv'
<1> USE DEF IInv
<1>1. pc' = [pc EXCEPT ![w] = "m"] /\ pc[w] = "get_n" /\ pc \in [Workers -> Labels]
  BY DEF GetN, Goto, Shape
<1>2. CountsMove(w, "m")
  BY <1>1, Counts
<1>3. /\ \A W \in {Receivers, Packers, Senders} :
           /\ Between(W)' = Between(W) /\ Past(W)' = Past(W)
           /\ Cardinality(In(W, {"n"}))' = Cardinality(In(W, {"n"}))
           /\ Cardinality(In(W, {"x"}))' = Cardinality(In(W, {"x"}))
      /\ Cardinality(In(Workers, Inside))' = Cardinality(In(Workers, Inside)) + 1
  BY <1>1, <1>2, CountBounds DEF CountsMove, Change, Before, After, Inside
<1>4. /\ Unpacked' = Unpacked /\ Packed' = Packed /\ Unsent' = Unsent
  BY <1>3 DEF Unpacked, Packed, Unsent, GetN, memory
<1>5. /\ sem' \in [Semaphores -> Nat]
      /\ sem'["n"] = sem["n"] - 1
      /\ sem'["table"] = sem["table"] /\ sem'["m"] = sem["m"] /\ sem'["x"] = sem["x"]
  BY DEF GetN, sem_wait, waits, Shape, Semaphores
<1>6. Shape'
  <2>1. pc' \in [Workers -> Labels]
    BY <1>1 DEF Labels
  <2> QED BY <1>5, <2>1 DEF GetN, memory, Shape
<1>7. MutexConserved'
  <2>1. sem["n"] \in Nat
    BY DEF Shape, Semaphores
  <2> QED BY <1>3, <1>5, <2>1, CountBounds DEF MutexConserved
<1>8. CreditsConserved'
  BY <1>3, <1>4, <1>5 DEF CreditsConserved
<1>9. IndicesAgree' /\ WaitingSlotsFilled'
  BY <1>4 DEF IndicesAgree, WaitingSlotsFilled, GetN, memory
<1>10. ReceiverHasOrder'
  BY <1>1 DEF ReceiverHasOrder, GetN, Before, Workers
<1> QED BY <1>6, <1>7, <1>8, <1>9, <1>10

\* The post of the mutex.
LEMMA PostNIInv ==
    ASSUME IInv, NEW w \in Workers, PostN(w)
    PROVE  IInv'
<1> USE DEF IInv
<1>1. pc' = [pc EXCEPT ![w] = "post_credit"] /\ pc[w] = "post_n" /\ pc \in [Workers -> Labels]
  BY DEF PostN, Goto, Shape
<1>2. CountsMove(w, "post_credit")
  BY <1>1, Counts
<1>3. /\ \A W \in {Receivers, Packers, Senders} :
           /\ Between(W)' = Between(W) /\ Past(W)' = Past(W)
           /\ Cardinality(In(W, {"n"}))' = Cardinality(In(W, {"n"}))
           /\ Cardinality(In(W, {"x"}))' = Cardinality(In(W, {"x"}))
      /\ Cardinality(In(Workers, Inside))' = Cardinality(In(Workers, Inside)) - 1
  BY <1>1, <1>2, CountBounds DEF CountsMove, Change, Before, After, Inside
<1>4. /\ Unpacked' = Unpacked /\ Packed' = Packed /\ Unsent' = Unsent
  BY <1>3 DEF Unpacked, Packed, Unsent, PostN, memory
<1>5. /\ sem' \in [Semaphores -> Nat]
      /\ sem'["n"] = sem["n"] + 1
      /\ sem'["table"] = sem["table"] /\ sem'["m"] = sem["m"] /\ sem'["x"] = sem["x"]
  BY DEF PostN, sem_post, Shape, Semaphores
<1>6. Shape'
  <2>1. pc' \in [Workers -> Labels]
    BY <1>1 DEF Labels
  <2> QED BY <1>5, <2>1 DEF PostN, memory, Shape
<1>7. MutexConserved'
  <2>1. sem["n"] \in Nat
    BY DEF Shape, Semaphores
  <2> QED BY <1>3, <1>5, <2>1, CountBounds DEF MutexConserved
<1>8. CreditsConserved'
  BY <1>3, <1>4, <1>5 DEF CreditsConserved
<1>9. IndicesAgree' /\ WaitingSlotsFilled'
  BY <1>4 DEF IndicesAgree, WaitingSlotsFilled, PostN, memory
<1>10. ReceiverHasOrder'
  BY <1>1 DEF ReceiverHasOrder, PostN, Before, Workers
<1> QED BY <1>6, <1>7, <1>8, <1>9, <1>10

\* The last post hands the order, or the slot, to the next stage.
LEMMA PostCreditIInv ==
    ASSUME IInv, NEW w \in Workers, PostCredit(w)
    PROVE  IInv'
<1> USE DEF IInv
<1>1. pc' = [pc EXCEPT ![w] = "get_credit"] /\ pc[w] = "post_credit" /\ pc \in [Workers -> Labels]
  BY DEF PostCredit, Goto, Shape
<1>2. CountsMove(w, "get_credit")
  BY <1>1, Counts
<1>3. /\ \A W \in {Receivers, Packers, Senders} :
           /\ Between(W)' = Between(W)
           /\ Past(W)' = Past(W) - (IF w \in W THEN 1 ELSE 0)
           /\ Cardinality(In(W, {"n"}))' = Cardinality(In(W, {"n"}))
           /\ Cardinality(In(W, {"x"}))' = Cardinality(In(W, {"x"}))
      /\ Cardinality(In(Workers, Inside))' = Cardinality(In(Workers, Inside))
  BY <1>1, <1>2, CountBounds DEF CountsMove, Change, Before, After, Inside
<1>4. /\ Unpacked' = Unpacked /\ Packed' = Packed /\ Unsent' = Unsent
  BY <1>3 DEF Unpacked, Packed, Unsent, PostCredit, memory
<1>5. /\ credit_out(w) \in {"table", "m", "x"}
      /\ sem' = [sem EXCEPT ![credit_out(w)] = @ + 1]
  BY DEF credit_out, PostCredit, sem_post
<1>6. /\ sem' \in [Semaphores -> Nat]
      /\ sem'["n"] = sem["n"]
  BY <1>5 DEF Shape, Semaphores
<1>7. Shape'
  <2>1. pc' \in [Workers -> Labels]
    BY <1>1 DEF Labels
  <2> QED BY <1>6, <2>1 DEF PostCredit, memory, Shape
<1>8. CreditsConserved'
  <2>1. /\ sem'["table"] = sem["table"] + (IF w \in Senders THEN 1 ELSE 0)
        /\ sem'["m"] = sem["m"] + (IF w \in Receivers THEN 1 ELSE 0)
        /\ sem'["x"] = sem["x"] + (IF w \in Packers THEN 1 ELSE 0)
    BY <1>5, RolesDisjoint, KnownFacts
    DEF credit_out, action_x, action_m, Shape, Semaphores, Known
  <2>2. /\ Between(Receivers)' = Between(Receivers)
        /\ Between(Packers)' = Between(Packers)
        /\ Between(Senders)' = Between(Senders)
        /\ Past(Receivers)' = Past(Receivers) - (IF w \in Receivers THEN 1 ELSE 0)
        /\ Past(Packers)' = Past(Packers) - (IF w \in Packers THEN 1 ELSE 0)
        /\ Past(Senders)' = Past(Senders) - (IF w \in Senders THEN 1 ELSE 0)
    BY <1>3
  <2>3. Known
    BY KnownFacts
  <2>4. sem'["table"] + Between(Receivers)' + Unsent' + Past(Senders)' = MAX_ORDERS
    BY <1>4, <2>1, <2>2, <2>3 DEF Known
  <2>5. sem'["m"] + Between(Packers)' + Past(Receivers)' = Unpacked'
    BY <1>4, <2>1, <2>2, <2>3 DEF Known
  <2>6. sem'["x"] + Between(Senders)' + Past(Packers)' = Packed'
    BY <1>4, <2>1, <2>2, <2>3 DEF Known
  <2> QED BY <2>4, <2>5, <2>6 DEF CreditsConserved
<1>9. MutexConserved'
  BY <1>3, <1>6 DEF MutexConserved
<1>10. IndicesAgree' /\ WaitingSlotsFilled'
  BY <1>4 DEF IndicesAgree, WaitingSlotsFilled, PostCredit, memory
<1>11. ReceiverHasOrder'
  BY <1>1 DEF ReceiverHasOrder, PostCredit, Before, Workers
<1> QED BY <1>7, <1>8, <1>9, <1>10, <1>11

\* The counters move inside the critical section, but the levels only with
\* the indices: the interactions with m and with x leave them as they are.
LEMMA InteractMIInv ==
    ASSUME IInv, NEW w \in Workers, InteractM(w), UNCHANGED <<sem, dead>>
    PROVE  IInv'
<1> USE DEF IInv
<1>1. pc' = [pc EXCEPT ![w] = "n"] /\ pc[w] = "m" /\ pc \in [Workers -> Labels]
  BY DEF InteractM, Goto, Shape
<1>2. CountsMove(w, "n")
  BY <1>1, Counts
<1>3. /\ \A W \in {Receivers, Packers, Senders} : Between(W)' = Between(W) /\ Past(W)' = Past(W)
      /\ Cardinality(In(Workers, Inside))' = Cardinality(In(Workers, Inside))
  BY <1>1, <1>2, CountBounds DEF CountsMove, Change, Before, After, Inside
<1>4. m \in Int
  BY DEF Shape
<1>5. Unpacked' = Unpacked /\ Packed' = Packed /\ Unsent' = Unsent /\ m' \in Int
  BY <1>1, <1>4, InteractMLevels
<1>6. Shape'
  <2>1. pc' \in [Workers -> Labels]
    BY <1>1 DEF Labels
  <2> QED BY <1>5, <2>1 DEF InteractM, Shape
<1>7. MutexConserved' /\ CreditsConserved'
  BY <1>3, <1>5 DEF MutexConserved, CreditsConserved
<1>8. IndicesAgree' /\ WaitingSlotsFilled'
  BY <1>5 DEF IndicesAgree, WaitingSlotsFilled, InteractM
<1>9. ReceiverHasOrder'
  BY <1>1 DEF ReceiverHasOrder, InteractM, Before, Workers
<1> QED BY <1>6, <1>7, <1>8, <1>9

\* The interaction with x, the last one in the critical section.
LEMMA InteractXIInv ==
    ASSUME IInv, NEW w \in Workers, InteractX(w, "post_n"), UNCHANGED <<sem, dead>>
    PROVE  IInv'
<1> USE DEF IInv
<1>1. pc' = [pc EXCEPT ![w] = "post_n"] /\ pc[w] = "x" /\ pc \in [Workers -> Labels]
  BY DEF InteractX, Goto, Shape
<1>2. CountsMove(w, "post_n")
  BY <1>1, Counts
<1>3. /\ \A W \in {Receivers, Packers, Senders} : Between(W)' = Between(W) /\ Past(W)' = Past(W)
      /\ Cardinality(In(Workers, Inside))' = Cardinality(In(Workers, Inside))
  BY <1>1, <1>2, CountBounds DEF CountsMove, Change, Before, After, Inside
<1>4. x \in Int
  BY DEF Shape
<1>5. Unpacked' = Unpacked /\ Packed' = Packed /\ Unsent' = Unsent /\ x' \in Int
  BY <1>1, <1>4, InteractXLevels
<1>6. Shape'
  <2>1. pc' \in [Workers -> Labels]
    BY <1>1 DEF Labels
  <2> QED BY <1>5, <2>1 DEF InteractX, Shape
<1>7. MutexConserved' /\ CreditsConserved'
  BY <1>3, <1>5 DEF MutexConserved, CreditsConserved
<1>8. IndicesAgree' /\ WaitingSlotsFilled'
  BY <1>5 DEF IndicesAgree, WaitingSlotsFilled, InteractX
<1>9. ReceiverHasOrder'
  BY <1>1 DEF ReceiverHasOrder, InteractX, Before, Workers
<1> QED BY <1>6, <1>7, <1>8, <1>9

\* What the invariant says of the shared memory alone.
LEMMA InvMemory == IInv => MemoryOK
  BY KnownFacts, Levels, ShopAssumption DEF IInv, Shape, MemoryOK, Held

\* Whoever may look into the table finds the order, or the slot, it has the
\* credit for.
LEMMA CreditInHand ==
    ASSUME IInv, NEW w \in Workers, pc[w] = "n"
    PROVE  /\ w \in Receivers => got[w] \in Orders /\ Unsent < MAX_ORDERS
           /\ w \in Packers => Unpacked >= 1
           /\ w \in Senders => Packed >= 1
<1>1. Known
  BY KnownFacts DEF IInv
<1>2. ASSUME NEW W \in {Receivers, Packers, Senders}, w \in W
      PROVE  Between(W) >= 1
  <2>1. W \in {Receivers, Packers, Senders, Workers} /\ pc[w] \in Before
    BY DEF Before
  <2> QED BY <1>2, <2>1, InPositive DEF Between
<1>3. w \in Receivers => got[w] \in Orders /\ Unsent < MAX_ORDERS
  <2>1. w \in Receivers => got[w] \in Orders
    BY DEF IInv, ReceiverHasOrder, Before
  <2>2. w \in Receivers => Between(Receivers) >= 1
    BY <1>2
  <2> QED BY <1>1, <2>1, <2>2, ShopAssumption DEF Known
<1>4. w \in Packers => Unpacked >= 1
  BY <1>1, <1>2 DEF Known
<1>5. w \in Senders => Packed >= 1
  BY <1>1, <1>2 DEF Known
<1> QED BY <1>3, <1>4, <1>5

\* The interaction with the table: the worker's credit turns into an order of
\* the next stage, and TableStep says that the table keeps up.
LEMMA InteractNIInv ==
    ASSUME IInv, NEW w \in Workers, InteractN(w), UNCHANGED <<sem, dead>>
    PROVE  IInv'
<1> USE DEF IInv
<1>1. pc' = [pc EXCEPT ![w] = "x"] /\ pc[w] = "n" /\ pc \in [Workers -> Labels]
      /\ m \in Int /\ x \in Int /\ m' = m /\ x' = x
  BY DEF InteractN, Goto, Shape
<1>2. MemoryOK'
  BY <1>1, InvMemory, CreditInHand, TableStep
<1>3. CountsMove(w, "x")
  BY <1>1, Counts
<1>4. /\ Cardinality(In(Workers, Inside))' = Cardinality(In(Workers, Inside))
      /\ \A W \in {Receivers, Packers, Senders} :
           /\ Between(W)' = Between(W) - (IF w \in W THEN 1 ELSE 0)
           /\ Past(W)' = Past(W) + (IF w \in W THEN 1 ELSE 0)
  BY <1>1, <1>3, CountBounds DEF CountsMove, Change, Before, After, Inside
<1>5. /\ Unpacked' = Unpacked + (IF w \in Receivers THEN 1 ELSE 0)
                             - (IF w \in Packers THEN 1 ELSE 0)
      /\ Packed' = Packed + (IF w \in Packers THEN 1 ELSE 0)
                         - (IF w \in Senders THEN 1 ELSE 0)
  BY <1>1, InteractNLevels
<1>6. Shape'
  <2>1. pc' \in [Workers -> Labels]
    BY <1>1 DEF Labels
  <2> QED BY <1>1, <1>2, <2>1 DEF MemoryOK, Shape, Held
<1>7. MutexConserved'
  BY <1>4 DEF MutexConserved
<1>8. CreditsConserved'
  <2>1. Known
    BY KnownFacts
  <2>2. CASE w \in Receivers
    <3>1. /\ Between(Receivers)' = Between(Receivers) - 1 /\ Past(Receivers)' = Past(Receivers) + 1
          /\ Between(Packers)' = Between(Packers) /\ Past(Packers)' = Past(Packers)
          /\ Between(Senders)' = Between(Senders) /\ Past(Senders)' = Past(Senders)
          /\ Unpacked' = Unpacked + 1 /\ Packed' = Packed
      BY <1>4, <1>5, <2>1, <2>2, RolesDisjoint DEF Known
    <3>2. sem["table"] + Between(Receivers)' + (Unpacked' + Packed') + Past(Senders)' = MAX_ORDERS
      BY <2>1, <3>1 DEF Known
    <3>3. sem["m"] + Between(Packers)' + Past(Receivers)' = Unpacked'
      BY <2>1, <3>1 DEF Known
    <3>4. sem["x"] + Between(Senders)' + Past(Packers)' = Packed'
      BY <2>1, <3>1 DEF Known
    <3> QED BY <3>2, <3>3, <3>4 DEF CreditsConserved, Unsent
  <2>3. CASE w \in Packers
    <3>1. /\ Between(Receivers)' = Between(Receivers) /\ Past(Receivers)' = Past(Receivers)
          /\ Between(Packers)' = Between(Packers) - 1 /\ Past(Packers)' = Past(Packers) + 1
          /\ Between(Senders)' = Between(Senders) /\ Past(Senders)' = Past(Senders)
          /\ Unpacked' = Unpacked - 1 /\ Packed' = Packed + 1
      BY <1>4, <1>5, <2>1, <2>3, RolesDisjoint DEF Known
    <3>2. sem["table"] + Between(Receivers)' + (Unpacked' + Packed') + Past(Senders)' = MAX_ORDERS
      BY <2>1, <3>1 DEF Known
    <3>3. sem["m"] + Between(Packers)' + Past(Receivers)' = Unpacked'
      <4>1. /\ sem["m"] \in Nat /\ Between(Packers) \in Nat /\ Past(Receivers) \in Nat
            /\ sem["m"] + Between(Packers) + Past(Receivers) = Unpacked
        BY <2>1 DEF Known
      <4> QED BY <3>1, <4>1
    <3>4. sem["x"] + Between(Senders)' + Past(Packers)' = Packed'
      BY <2>1, <3>1 DEF Known
    <3> QED BY <3>2, <3>3, <3>4 DEF CreditsConserved, Unsent
  <2>4. CASE w \in Senders
    <3>1. /\ Between(Receivers)' = Between(Receivers) /\ Past(Receivers)' = Past(Receivers)
          /\ Between(Packers)' = Between(Packers) /\ Past(Packers)' = Past(Packers)
          /\ Between(Senders)' = Between(Senders) - 1 /\ Past(Senders)' = Past(Senders) + 1
          /\ Unpacked' = Unpacked /\ Packed' = Packed - 1
      BY <1>4, <1>5, <2>1, <2>4, RolesDisjoint DEF Known
    <3>2. sem["table"] + Between(Receivers)' + (Unpacked' + Packed') + Past(Senders)' = MAX_ORDERS
      BY <2>1, <3>1 DEF Known
    <3>3. sem["m"] + Between(Packers)' + Past(Receivers)' = Unpacked'
      BY <2>1, <3>1 DEF Known
    <3>4. sem["x"] + Between(Senders)' + Past(Packers)' = Packed'
      BY <2>1, <3>1 DEF Known
    <3> QED BY <3>2, <3>3, <3>4 DEF CreditsConserved, Unsent
  <2> QED BY <2>2, <2>3, <2>4 DEF Workers
<1>9. ReceiverHasOrder'
  <2>1. \A v \in Receivers : pc'[v] \in Before => pc[v] \in Before
    BY <1>1 DEF Before, Workers
  <2>2. \A v \in Receivers : got'[v] = got[v]
    BY RolesDisjoint DEF InteractN, get_n, set_n, action_n, Shape, Workers
  <2> QED BY <2>1, <2>2 DEF ReceiverHasOrder
<1> QED BY <1>2, <1>6, <1>7, <1>8, <1>9 DEF MemoryOK

\* Nothing changes, or only the set of killed workers does.
LEMMA StutterIInv ==
    ASSUME IInv, UNCHANGED <<first, m, x, table, got, pc, sem>>, dead' \subseteq Workers
    PROVE  IInv'
<1>1. Unpacked' = Unpacked /\ Packed' = Packed /\ Unsent' = Unsent
  BY DEF Unpacked, Packed, Unsent, In
<1>2. Shape' /\ MutexConserved' /\ CreditsConserved'
  BY <1>1 DEF IInv, Shape, MutexConserved, CreditsConserved, Between, Past, In
<1>3. IndicesAgree' /\ ReceiverHasOrder' /\ WaitingSlotsFilled'
  BY <1>1 DEF IInv, IndicesAgree, ReceiverHasOrder, WaitingSlotsFilled
<1> QED BY <1>2, <1>3 DEF IInv

\* Every step of the shop keeps the inductive invariant.
LEMMA NextIInv == IInv /\ [Next]_vars => IInv'
<1> SUFFICES ASSUME IInv, [Next]_vars PROVE IInv'
  OBVIOUS
<1>1. CASE UNCHANGED vars
  <2>1. dead' \subseteq Workers
    BY <1>1 DEF vars, IInv, Shape
  <2> QED BY <1>1, <2>1, StutterIInv DEF vars
<1>2. ASSUME NEW w \in Workers, Step(w) PROVE IInv'
  <2>1. CASE GetCredit(w)
    BY <2>1, GetCreditIInv
  <2>2. CASE GetN(w)
    BY <2>2, GetNIInv
  <2>3. CASE Interactions(w)
    <3>1. CASE InteractM(w)
      BY <2>3, <3>1, InteractMIInv DEF Interactions
    <3>2. CASE InteractN(w)
      BY <2>3, <3>2, InteractNIInv DEF Interactions
    <3>3. CASE InteractX(w, "post_n")
      BY <2>3, <3>3, InteractXIInv DEF Interactions
    <3> QED BY <2>3, <3>1, <3>2, <3>3 DEF Interactions
  <2>4. CASE PostN(w)
    BY <2>4, PostNIInv
  <2>5. CASE PostCredit(w)
    BY <2>5, PostCreditIInv
  <2> QED BY <1>2, <2>1, <2>2, <2>3, <2>4, <2>5 DEF Step
<1>3. ASSUME NEW w \in Workers, Kill(w) PROVE IInv'
  <2>1. dead' \subseteq Workers
    BY <1>3 DEF Kill, IInv, Shape
  <2> QED BY <1>3, <2>1, StutterIInv DEF Kill
<1> QED BY <1>1, <1>2, <1>3 DEF Next

\* IInv is an invariant of the shop.
THEOREM InductiveInvariant == Spec => []IInv
  BY InitIInv, NextIInv, PTL DEF Spec

-----------------------------------------------------------------------------
(* The safety properties *)

\* Every variable keeps its type; in particular the counters m and x of the
\* shared memory are never negative.
THEOREM TypeCorrect == Spec => []TypeOK
<1>1. IInv => TypeOK
  BY Levels DEF IInv, Shape, TypeOK
<1> QED BY <1>1, InductiveInvariant, PTL

\* The order table is never in the hands of two workers.
THEOREM Exclusion == Spec => []MutualExclusion
<1>1. IInv => MutualExclusion
  <2> SUFFICES ASSUME IInv, NEW v \in Workers, NEW w \in Workers,
                      pc[v] \in Inside, pc[w] \in Inside, v # w
               PROVE  FALSE
    BY DEF MutualExclusion
  <2> DEFINE I == In(Workers, Inside)
  <2>1. IsFiniteSet(I) /\ Cardinality(I) \in Nat
    BY InFinite
  <2>2. v \in I /\ w \in I \ {v}
    BY DEF In
  <2>3. IsFiniteSet(I \ {v}) /\ Cardinality(I \ {v}) = Cardinality(I) - 1
    BY <2>1, <2>2, FS_RemoveElement
  <2>4. Cardinality(I \ {v}) # 0
    BY <2>2, <2>3, FS_EmptySet
  <2>5. Cardinality(I) <= 1
    <3>1. sem["n"] \in Nat
      BY DEF IInv, Shape, Semaphores
    <3> QED BY <2>1, <3>1 DEF IInv, MutexConserved
  <2>6. Cardinality(I \ {v}) \in Nat
    BY <2>3, FS_CardinalityType
  <2> HIDE DEF I
  <2> QED BY <2>1, <2>3, <2>4, <2>5, <2>6
<1> QED BY <1>1, InductiveInvariant, PTL

\* No credit is made or lost, kills included.
THEOREM Conservation == Spec => []CreditsConserved
<1>1. IInv => CreditsConserved
  BY DEF IInv
<1> QED BY <1>1, InductiveInvariant, PTL

\* The three indices always enclose as many orders as the counters say.
THEOREM Indices == Spec => []IndicesAgree
<1>1. IInv => IndicesAgree
  BY DEF IInv
<1> QED BY <1>1, InductiveInvariant, PTL

\* A receiver never fills a slot whose order was not sent yet.
THEOREM NothingOverwritten == Spec => []NoUnsentOverwritten
<1>1. IInv => NoUnsentOverwritten
  <2> SUFFICES ASSUME IInv, NEW w \in Receivers, pc[w] = "n"
               PROVE  Unsent < MAX_ORDERS /\ first[0] \notin Run(first[2], Unsent)
    BY DEF NoUnsentOverwritten
  <2>1. In(Receivers, {"n"}) # {}
    BY DEF In
  <2>2. Cardinality(In(Receivers, {"n"})) # 0
    BY <2>1, InFinite, FS_EmptySet
  <2>3. Between(Receivers) >= 1 /\ Known
    BY <2>2, CountBounds, KnownFacts DEF IInv
  <2>4. Unsent < MAX_ORDERS /\ Unsent \in Nat
    BY <2>3, ShopAssumption DEF Known
  <2>5. first[2] \in 0 .. MAX_ORDERS - 1 /\ first[0] = (first[2] + Unsent) % MAX_ORDERS
    BY DEF IInv, Shape, Slots, IndicesAgree
  <2>6. ASSUME NEW i \in 0 .. Unsent - 1
        PROVE  (first[2] + i) % MAX_ORDERS # (first[2] + Unsent) % MAX_ORDERS
    <3> DEFINE a == first[2] + i
               b == first[2] + Unsent
    <3>1. /\ a \in Nat /\ b \in Nat /\ a < 2 * MAX_ORDERS /\ b < 2 * MAX_ORDERS
          /\ a < b /\ b - a < MAX_ORDERS
      BY <2>4, <2>5, ShopAssumption
    <3> HIDE DEF a, b
    <3>2. a % MAX_ORDERS = IF a < MAX_ORDERS THEN a ELSE a - MAX_ORDERS
      BY <3>1, Wrap
    <3>3. b % MAX_ORDERS = IF b < MAX_ORDERS THEN b ELSE b - MAX_ORDERS
      BY <3>1, Wrap
    <3>4. a % MAX_ORDERS # b % MAX_ORDERS
      BY <3>1, <3>2, <3>3, ShopAssumption
    <3> QED BY <3>4 DEF a, b
  <2> QED BY <2>4, <2>5, <2>6 DEF Run
<1> QED BY <1>1, InductiveInvariant, PTL

\* A packer or a sender that looks into the table finds an order there.
THEOREM OrderFound == Spec => []GetNFindsAnOrder
<1>1. IInv => GetNFindsAnOrder
  <2> SUFFICES ASSUME IInv, NEW w \in Packers \cup Senders, pc[w] = "n"
               PROVE  table[first[n_stage(w)]] \in Orders
    BY DEF GetNFindsAnOrder
  <2>0. Known
    BY KnownFacts DEF IInv
  <2>1. first[2] \in 0 .. MAX_ORDERS - 1 /\ first[1] = (first[2] + Packed) % MAX_ORDERS
    BY DEF IInv, Shape, Slots, IndicesAgree
  <2>2. CASE w \in Packers
    <3>1. In(Packers, {"n"}) # {}
      BY <2>2 DEF In
    <3>2. Between(Packers) >= 1
      BY <3>1, InFinite, FS_EmptySet, CountBounds
    <3>3. Packed \in 0 .. Unsent - 1
      BY <2>0, <3>2 DEF Known
    <3>4. n_stage(w) = 1
      BY <2>2, ShopAssumption DEF n_stage
    <3> QED BY <2>1, <3>3, <3>4 DEF IInv, WaitingSlotsFilled
  <2>3. CASE w \in Senders
    <3>1. In(Senders, {"n"}) # {}
      BY <2>3 DEF In
    <3>2. Between(Senders) >= 1
      BY <3>1, InFinite, FS_EmptySet, CountBounds
    <3>3. 0 \in 0 .. Unsent - 1
      BY <2>0, <3>2 DEF Known
    <3>4. n_stage(w) = 2
      BY <2>3, ShopAssumption DEF n_stage
    <3>5. (first[2] + 0) % MAX_ORDERS = first[2]
      BY <2>1, Wrap, ShopAssumption
    <3> QED BY <3>3, <3>4, <3>5 DEF IInv, WaitingSlotsFilled
  <2> QED BY <2>2, <2>3
<1> QED BY <1>1, InductiveInvariant, PTL

-----------------------------------------------------------------------------
(* The refinement of the three-stage queue *)

\* Every step of the shop is a step of the queue or leaves it alone.
LEMMA StepIsPipeline ==
    ASSUME IInv, [Next]_vars
    PROVE  Pipeline!Next \/ UNCHANGED Pipeline!vars
<1>1. /\ MemoryOK /\ pc \in [Workers -> Labels] /\ m \in Int /\ x \in Int
      /\ got \in [Workers -> Held]
  BY InvMemory DEF IInv, Shape, MemoryOK
<1>2. ASSUME NEW w \in Workers, NEW to, pc[w] \notin {"n", "x"}, to \notin {"n", "x"},
             Goto(w, to), UNCHANGED memory,
             \A v \in Packers \cup Senders : got'[v] = got[v], got' \in [Workers -> Held]
      PROVE  UNCHANGED Pipeline!vars
  <2>1. pc' = [pc EXCEPT ![w] = to] /\ UNCHANGED <<first, table, m, x>>
    BY <1>2 DEF Goto, memory
  <2>2. Unpacked' = Unpacked /\ Packed' = Packed
    BY <1>1, <1>2, <2>1, OutsideLevels
  <2> QED BY <1>1, <1>2, <2>1, <2>2, QuietStep
<1>3. ASSUME NEW w \in Workers, GetCredit(w)
      PROVE  UNCHANGED Pipeline!vars
  <2>1. got' \in [Workers -> Held] /\ \A v \in Packers \cup Senders : got'[v] = got[v]
    BY <1>1, <1>3, ShopAssumption DEF GetCredit, Held, Workers
  <2>2. pc[w] \notin {"n", "x"} /\ Goto(w, "get_n") /\ UNCHANGED memory
    BY <1>3 DEF GetCredit
  <2> QED BY <1>2, <2>1, <2>2
<1>4. ASSUME NEW w \in Workers, GetN(w) \/ PostN(w) \/ PostCredit(w)
      PROVE  UNCHANGED Pipeline!vars
  <2>1. got' = got /\ UNCHANGED memory
    BY <1>4 DEF GetN, PostN, PostCredit
  <2>2. pc[w] \notin {"n", "x"} /\ (Goto(w, "m") \/ Goto(w, "post_credit") \/ Goto(w, "get_credit"))
    BY <1>4 DEF GetN, PostN, PostCredit
  <2> QED BY <1>1, <1>2, <2>1, <2>2
<1>5. ASSUME NEW w \in Workers, InteractM(w)
      PROVE  UNCHANGED Pipeline!vars
  <2>1. Unpacked' = Unpacked /\ Packed' = Packed /\ m' \in Int
    BY <1>1, <1>5, InteractMLevels
  <2>2. UNCHANGED <<first, table, got, x>>
    BY <1>5 DEF InteractM
  <2> QED BY <1>1, <2>1, <2>2, QuietStep
<1>6. ASSUME NEW w \in Workers, InteractX(w, "post_n")
      PROVE  UNCHANGED Pipeline!vars
  <2>1. Unpacked' = Unpacked /\ Packed' = Packed /\ x' \in Int
    BY <1>1, <1>6, InteractXLevels
  <2>2. UNCHANGED <<first, table, got, m>>
    BY <1>6 DEF InteractX
  <2> QED BY <1>1, <2>1, <2>2, QuietStep
<1>7. ASSUME NEW w \in Workers, InteractN(w)
      PROVE  Pipeline!Next
  <2>1. pc[w] = "n"
    BY <1>7 DEF InteractN
  <2> QED BY <1>1, <1>7, <2>1, CreditInHand, TableStep
<1>8. CASE UNCHANGED <<first, m, x, table, got, pc>>
  BY <1>8 DEF Pipeline!vars, Window, Unpacked, Packed, In
<1>9. CASE \E w \in Workers : Step(w)
  BY <1>3, <1>4, <1>5, <1>6, <1>7, <1>9 DEF Step, Interactions
<1>10. CASE \E w \in Workers : Kill(w)
  BY <1>8, <1>10 DEF Kill
<1> QED BY <1>8, <1>9, <1>10 DEF Next, vars

\* The shop works as the three-stage queue, whatever the size of the table,
\* the number of workers and the workers killed: orders are packed and sent
\* first in first out, each once, and never more wait than the table holds.
THEOREM Refinement == Spec => ImplementsPipeline
<1>1. Init => Pipeline!Init
  <2> SUFFICES ASSUME Init PROVE Pipeline!Init
    OBVIOUS
  <2>1. pc \in [Workers -> {"get_credit"}] /\ {"get_credit"} \cap {"n", "x"} = {}
    BY DEF Init
  <2> QED BY <2>1, EmptyMemory DEF Init
<1>2. IInv /\ [Next]_vars => [Pipeline!Next]_Pipeline!vars
  BY StepIsPipeline
<1> QED BY <1>1, <1>2, InductiveInvariant, PTL DEF Spec, ImplementsPipeline, Pipeline!Spec
=============================================================================
