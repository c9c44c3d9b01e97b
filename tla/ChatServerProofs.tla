--------------------------- MODULE ChatServerProofs ---------------------------
(***************************************************************************)
(* Proofs about ChatServer for every set of clients, every size of the     *)
(* server's table and every number of commands: types, the server's count, *)
(* and that it does not leave before its clients.                          *)
(***************************************************************************)
EXTENDS ChatServer, FiniteSetTheorems, SequenceTheorems, WellFoundedInduction, TLAPS

-----------------------------------------------------------------------------
(* The inductive invariant *)

Given == 1 .. MAX_CLIENTS   \* the ids a client may get
Messages == [type : AnyType, sender : Ids \cup {-1, None} \cup Clients, body : Seq(Ids)]

\* What programs send the server: ids only of those who have one, an INIT with
\* the sender's queue, and its own answers to LIST.
ServerMail ==
    {m \in Messages :
        /\ m.type \in {STOP, DISCONNECT, LIST, CONNECT, INIT, RESPONSE}
        /\ m.type = INIT => m.sender \in Clients
        /\ m.type \in {STOP, DISCONNECT, CONNECT} => m.sender \in Given
        /\ m.type \in {DISCONNECT, CONNECT} => Len(m.body) = 1
        /\ m.type \in {STOP, CONNECT} => \A k \in 1 .. Len(m.body) : m.body[k] \in Given}

\* A client is known from when it is sent its id.
Known(c) == client_id[c] > 0 \/ (pc[c] = "init" /\ Len(mq[c]) > 0)

\* What a client is sent: offers to connect name clients that are known.
ClientMail ==
    {m \in Messages :
        /\ m.type \in {RESPONSE, CONNECT, DISCONNECT, FINISH}
        /\ m.type = CONNECT => /\ m.sender \in Clients \cup {None}
                               /\ m.sender \in Clients => Known(m.sender)
                               /\ Len(m.body) = 1 /\ m.body[1] \in Given
        /\ m.type = RESPONSE => m.sender \in Ids \cup {-1}}

Mail ==
    /\ DOMAIN mq = Names
    /\ mq["server"] \in Seq(ServerMail)
    /\ \A c \in Clients : mq[c] \in Seq(ClientMail)

\* A program is there exactly as long as its queue.
Running == {"init", "check", "prompt", "list", "connect", "stopping"}
QueuesOpen ==
    /\ "server" \in open <=> server \in {"serving", "finishing"}
    /\ \A c \in Clients : c \in open <=> pc[c] \in Running

\* Nothing is sent to a client before the answer to its INIT, and that answer
\* is sent only by a server that takes it.
WithId == {"check", "prompt", "list", "connect"}
Introduced ==
    \A c \in Clients :
        /\ pc[c] \in WithId => client_id[c] > 0
        /\ pc[c] \in {"new", "init"} => client_id[c] = -1
        /\ pc[c] = "new" => Len(mq[c]) = 0
        /\ pc[c] = "init" /\ Len(mq[c]) > 0 =>
              mq[c][1].type = RESPONSE /\ mq[c][1].sender \in Given

\* Whoever is in the server's table or a partner is known.
TableOk(t) ==
    /\ t \in [Ids -> [q : Names \cup {None}, key : Clients \cup {None}, aviable : BOOLEAN]]
    /\ t[0].q = "server"
    /\ \A i \in Ids : /\ i > 0 => t[i].q # "server"
                      /\ t[i].q \in Clients => Known(t[i].q)
                      /\ t[i].key \in Clients => Known(t[i].key)
Acquainted ==
    /\ TableOk(table)
    /\ \A c \in Clients :
        /\ connected[c].q \in Clients => Known(connected[c].q)
        /\ connected[c].id \in Given

\* An INIT is there once, and its sender waits and is not known.
Waits(s) ==
    /\ \A i \in 1 .. Len(s) :
        s[i].type = INIT => pc[s[i].sender] = "init" /\ Len(mq[s[i].sender]) = 0
    /\ \A i, j \in 1 .. Len(s) :
        s[i].type = INIT /\ s[j].type = INIT /\ s[i].sender = s[j].sender => i = j
InitsWait == Waits(mq["server"])

\* CounterCounts and ServerLeavesLast in terms of who is known.
Present == {c \in Clients : Known(c) /\ pc[c] \notin Leaving}
Stops(s) == {i \in 1 .. Len(s) : s[i].type = STOP}
Counted ==
    /\ server \in {"serving", "finishing"} =>
          counter = Cardinality(Present) + Cardinality(Stops(mq["server"]))
    /\ server = "gone" => Present = {}

IInv ==
    /\ TypeOK /\ Mail /\ QueuesOpen /\ Introduced /\ Acquainted /\ InitsWait /\ Counted

-----------------------------------------------------------------------------
(* Queues *)

\* A set of numbers has a least element.
LEMMA LeastElement ==
    ASSUME NEW T, T \subseteq Nat, T # {}
    PROVE  \E n \in T : \A k \in T : n <= k
<1> DEFINE Below == {0 .. n : n \in T}
<1>1. IsWellFoundedOn(StrictSubsetOrdering(Nat), FiniteSubsetsOf(Nat))
  BY FS_StrictSubsetOrderingWellFounded
<1>2. Below \subseteq FiniteSubsetsOf(Nat) /\ Below # {}
  <2>1. \A n \in T : IsFiniteSet(0 .. n) /\ 0 .. n \subseteq Nat
    BY FS_Interval
  <2> QED BY <2>1 DEF FiniteSubsetsOf
<1> HIDE DEF Below
<1>3. PICK x \in Below : \A y \in Below : ~ (<<y, x>> \in StrictSubsetOrdering(Nat))
  BY <1>1, <1>2, WFMin
<1>4. PICK n \in T : x = 0 .. n
  BY DEF Below
<1>5. \A k \in T : n <= k
  <2> SUFFICES ASSUME NEW k \in T, k < n PROVE FALSE
    OBVIOUS
  <2>1. 0 .. k \subseteq 0 .. n /\ 0 .. k # 0 .. n /\ 0 .. k \subseteq Nat /\ 0 .. n \subseteq Nat
    <3>1. n \in 0 .. n /\ n \notin 0 .. k
      OBVIOUS
    <3> QED BY <3>1
  <2>2. <<0 .. k, 0 .. n>> \in StrictSubsetOrdering(Nat)
    BY <2>1 DEF StrictSubsetOrdering
  <2>3. 0 .. k \in Below
    BY DEF Below
  <2> QED BY <1>3, <1>4, <2>2, <2>3
<1> QED BY <1>5

\* b is a with more at its end.
Longer(a, b) == Len(a) <= Len(b) /\ \A i \in 1 .. Len(a) : b[i] = a[i]

\* A queue after a step's letters: what is new in it was sent to it, and all
\* that was sent before a queue that is gone is in it.
LEMMA PostSends ==
    ASSUME NEW queues, NEW sends, NEW N \in Nat, DOMAIN sends \subseteq 1 .. N,
           NEW q \in Names, NEW S, queues[q] \in Seq(S),
           \A i \in DOMAIN sends : sends[i].to = q => sends[i].msg \in S
    PROVE  /\ Post(queues, sends)[q] \in Seq(S)
           /\ Longer(queues[q], Post(queues, sends)[q])
           /\ \A k \in 1 .. Len(Post(queues, sends)[q]) : k > Len(queues[q]) =>
                 \E i \in DOMAIN sends : sends[i].to = q /\ Post(queues, sends)[q][k] = sends[i].msg
           /\ (q \notin open \/ \A i \in DOMAIN sends : sends[i].to # q) =>
                 Post(queues, sends)[q] = queues[q]
<1> DEFINE I == Sent(sends, q)
           n == Cardinality(I)
           m == sends[CHOOSE i \in I : TRUE].msg
           t == [k \in 1 .. n |-> m]
           r == Post(queues, sends)[q]
<1>1. IsFiniteSet(I) /\ n \in Nat
  <2>1. IsFiniteSet(1 .. N)
    BY FS_Interval
  <2>2. I \in SUBSET (1 .. N)
    BY DEF Sent
  <2> QED BY <2>1, <2>2, FS_Subset, FS_CardinalityType
<1>2. n > 0 => (CHOOSE i \in I : TRUE) \in I
  BY <1>1, FS_EmptySet
<1>3. n > 0 => m \in S /\ \E i \in DOMAIN sends : sends[i].to = q /\ m = sends[i].msg
  BY <1>2 DEF Sent
<1>4. r = queues[q] \o t
  BY DEF Post
<1>5. (q \notin open \/ \A i \in DOMAIN sends : sends[i].to # q) => n = 0
  <2>1. (q \notin open \/ \A i \in DOMAIN sends : sends[i].to # q) => I = {}
    <3> SUFFICES ASSUME NEW i \in I PROVE q \in open /\ sends[i].to = q /\ i \in DOMAIN sends
      OBVIOUS
    <3>1. i \in DOMAIN sends /\ i <= i /\ sends[i].to = q
      BY DEF Sent
    <3> QED BY <3>1 DEF Sent
  <2> QED BY <2>1, FS_EmptySet
<1> HIDE DEF I, m, r
<1>6. t \in Seq(S)
  <2>1. \A k \in 1 .. n : m \in S
    BY <1>1, <1>3
  <2> HIDE DEF n
  <2> QED BY <1>1, <2>1
<1>7. Len(t) = n /\ \A k \in 1 .. n : t[k] = m
  BY <1>1
<1>8. Len(queues[q]) \in Nat
  BY LenProperties
<1>9. /\ r \in Seq(S)
      /\ Len(r) = Len(queues[q]) + n
      /\ \A i \in 1 .. Len(queues[q]) + n :
            r[i] = IF i <= Len(queues[q]) THEN queues[q][i] ELSE t[i - Len(queues[q])]
  <2> HIDE DEF t, n
  <2> QED BY <1>4, <1>6, <1>7, ConcatProperties, ZenonT(60)
<1>10. Longer(queues[q], r)
  <2> HIDE DEF t, n
  <2> QED BY <1>1, <1>8, <1>9 DEF Longer
<1>11. \A k \in 1 .. Len(r) : k > Len(queues[q]) =>
         \E i \in DOMAIN sends : sends[i].to = q /\ r[k] = sends[i].msg
  <2> SUFFICES ASSUME NEW k \in 1 .. Len(r), k > Len(queues[q])
               PROVE  \E i \in DOMAIN sends : sends[i].to = q /\ r[k] = sends[i].msg
    OBVIOUS
  <2> HIDE DEF t, n
  <2>1. k - Len(queues[q]) \in 1 .. n /\ r[k] = t[k - Len(queues[q])]
    BY <1>1, <1>8, <1>9
  <2> QED BY <1>1, <1>3, <1>7, <2>1
<1>12. n = 0 => r = queues[q]
  <2> HIDE DEF t, n
  <2> SUFFICES ASSUME n = 0 PROVE r = queues[q]
    OBVIOUS
  <2>1. Len(r) = Len(queues[q]) /\ \A i \in 1 .. Len(r) : r[i] = queues[q][i]
    BY <1>8, <1>9
  <2> QED BY <1>9, <2>1, SeqEqual
<1> QED
  BY <1>5, <1>9, <1>10, <1>11, <1>12 DEF r

\* Of letters to queues that exist one only goes to q.
LEMMA PostOne ==
    ASSUME NEW queues, NEW sends, NEW j \in DOMAIN sends, NEW S,
           NEW q \in Names, queues[q] \in Seq(S), sends[j].to = q, sends[j].msg \in S,
           \A k \in DOMAIN sends : k <= j => sends[k].to \in open,
           \A i \in DOMAIN sends : sends[i].to = q => i = j
    PROVE  Post(queues, sends)[q] = Append(queues[q], sends[j].msg)
<1>1. Sent(sends, q) = {j}
  BY DEF Sent
<1>2. Cardinality(Sent(sends, q)) = 1 /\ (CHOOSE i \in Sent(sends, q) : TRUE) = j
  BY <1>1, FS_Singleton
<1> DEFINE n == Cardinality(Sent(sends, q))
           x == CHOOSE i \in Sent(sends, q) : TRUE
<1>3. Post(queues, sends)[q] = queues[q] \o [k \in 1 .. n |-> sends[x].msg]
  BY DEF Post
<1>4. n = 1 /\ x = j
  BY <1>2
<1> HIDE DEF n, x
<1>5. Post(queues, sends)[q] = queues[q] \o [k \in 1 .. 1 |-> sends[j].msg]
  BY <1>3, <1>4
<1>6. [k \in 1 .. 1 |-> sends[j].msg] = <<sends[j].msg>>
  OBVIOUS
<1> QED BY <1>5, <1>6, AppendIsConcat

\* A removal from a queue.
LEMMA Removal ==
    ASSUME NEW S, NEW s \in Seq(S), NEW p \in 1 .. Len(s), NEW r, r = RemoveAt(s, p)
    PROVE  /\ r \in Seq(S)
           /\ Len(r) = Len(s) - 1
           /\ \A i \in 1 .. Len(r) : r[i] = IF i < p THEN s[i] ELSE s[i + 1]
<1> DEFINE a == SubSeq(s, 1, p - 1)
           b == SubSeq(s, p + 1, Len(s))
<1>1. Len(s) \in Nat /\ \A i \in 1 .. Len(s) : s[i] \in S
  BY LenProperties, ElementOfSeq
<1>2. /\ a \in Seq(S) /\ Len(a) = p - 1
      /\ \A i \in 1 .. p - 1 : a[i] = s[i]
  <2>1. \A i \in 1 .. p - 1 : s[i] \in S
    BY <1>1
  <2>2. /\ a \in Seq(S) /\ Len(a) = IF 1 <= p - 1 THEN (p - 1) - 1 + 1 ELSE 0
        /\ \A i \in 1 .. (p - 1) - 1 + 1 : a[i] = s[1 + i - 1]
    BY <1>1, <2>1, SubSeqProperties
  <2> HIDE DEF a
  <2> QED BY <1>1, <2>2
<1>3. /\ b \in Seq(S) /\ Len(b) = Len(s) - p
      /\ \A i \in 1 .. Len(s) - p : b[i] = s[p + i]
  <2>1. \A i \in p + 1 .. Len(s) : s[i] \in S
    BY <1>1
  <2>2. /\ b \in Seq(S) /\ Len(b) = IF p + 1 <= Len(s) THEN Len(s) - (p + 1) + 1 ELSE 0
        /\ \A i \in 1 .. Len(s) - (p + 1) + 1 : b[i] = s[(p + 1) + i - 1]
    BY <1>1, <2>1, SubSeqProperties
  <2> HIDE DEF b
  <2>3. Len(s) - (p + 1) + 1 = Len(s) - p /\ \A i \in Int : (p + 1) + i - 1 = p + i
    BY <1>1
  <2>4. Len(b) = Len(s) - p
    BY <1>1, <2>2
  <2>5. ASSUME NEW i \in 1 .. Len(s) - p PROVE b[i] = s[p + i]
    <3>1. i \in 1 .. Len(s) - (p + 1) + 1 /\ (p + 1) + i - 1 = p + i
      BY <1>1, <2>3
    <3> QED BY <2>2, <3>1
  <2> QED BY <2>2, <2>4, <2>5
<1>4. r = a \o b
  BY DEF RemoveAt
<1> HIDE DEF a, b
<1>5. /\ r \in Seq(S) /\ Len(r) = Len(a) + Len(b)
      /\ \A i \in 1 .. Len(a) + Len(b) : r[i] = IF i <= Len(a) THEN a[i] ELSE b[i - Len(a)]
  <2>1. a \in Seq(S) /\ b \in Seq(S)
    BY <1>2, <1>3
  <2> QED BY <1>4, <2>1, ConcatProperties
<1>6. Len(r) = Len(s) - 1
  BY <1>1, <1>2, <1>3, <1>5
<1>7. ASSUME NEW i \in 1 .. Len(r) PROVE r[i] = IF i < p THEN s[i] ELSE s[i + 1]
  <2>1. CASE i < p
    BY <1>1, <1>2, <1>5, <1>6, <2>1
  <2>2. CASE i >= p
    <3>1. i - Len(a) \in 1 .. Len(s) - p /\ p + (i - Len(a)) = i + 1
      BY <1>1, <1>2, <1>6, <2>2
    <3>2. r[i] = b[i - Len(a)]
      BY <1>1, <1>2, <1>5, <1>6, <2>2
    <3>3. b[i - Len(a)] = s[p + (i - Len(a))]
      BY <1>3, <3>1
    <3> QED BY <1>1, <2>2, <3>1, <3>2, <3>3
  <2> QED BY <1>1, <2>1, <2>2
<1> QED BY <1>5, <1>6, <1>7

\* msgrcv finds a message if there is one of the types, the oldest if there
\* is only one type.
LEMMA PlaceFound ==
    ASSUME NEW q, NEW S, mq[q] \in Seq(S), NEW types \in SUBSET Nat, Waiting(q, types) # {}
    PROVE  /\ Place(q, types) \in 1 .. Len(mq[q])
           /\ Received(q, types) \in S
           /\ Received(q, types).type \in types
           /\ Received(q, types) = mq[q][Place(q, types)]
           /\ \A t \in types : types = {t} =>
                 \A j \in 1 .. Len(mq[q]) : mq[q][j].type = t => Place(q, types) <= j
<1> DEFINE W == Waiting(q, types)
           type(i) == mq[q][i].type
           Types == {type(i) : i \in W}
<1>1. Len(mq[q]) \in Nat /\ DOMAIN mq[q] = 1 .. Len(mq[q])
  BY LenProperties
<1>2. W = {i \in 1 .. Len(mq[q]) : type(i) \in types}
  BY <1>1 DEF Waiting
<1> HIDE DEF W, type
<1>3. PICK t \in Types : \A k \in Types : t <= k
  <2>1. Types \subseteq Nat /\ Types # {}
    BY <1>2 DEF W
  <2> HIDE DEF Types
  <2> QED BY <2>1, LeastElement
<1> DEFINE First == {i \in W : type(i) = t}
<1>4. PICK i \in First : \A k \in First : i <= k
  <2>1. First \subseteq Nat /\ First # {}
    BY <1>2
  <2> HIDE DEF First
  <2> QED BY <2>1, LeastElement
<1>5. i \in W /\ \A j \in W : type(i) < type(j) \/ (type(i) = type(j) /\ i <= j)
  <2> SUFFICES ASSUME NEW j \in W PROVE type(i) < type(j) \/ (type(i) = type(j) /\ i <= j)
    BY <1>4
  <2>1. type(i) = t /\ t \in Nat /\ type(j) \in Nat /\ t <= type(j)
    BY <1>2, <1>3, <1>4
  <2> QED BY <1>4, <2>1
<1> DEFINE p == Place(q, types)
<1>6. p \in W /\ \A j \in W : type(p) < type(j) \/ (type(p) = type(j) /\ p <= j)
  <2>1. p = CHOOSE m \in W : \A j \in W : type(m) < type(j) \/ (type(m) = type(j) /\ m <= j)
    BY DEF Place, W, type
  <2> HIDE DEF p
  <2> QED BY <1>5, <2>1
<1> HIDE DEF p
<1>7. p \in 1 .. Len(mq[q]) /\ mq[q][p] \in S /\ type(p) \in types
  BY <1>2, <1>6, ElementOfSeq
<1>8. ASSUME NEW u \in types, types = {u}, NEW j \in 1 .. Len(mq[q]), type(j) = u PROVE p <= j
  <2>1. j \in W /\ type(p) = u /\ u \in Nat
    BY <1>2, <1>6, <1>8
  <2> QED BY <1>6, <1>8, <2>1
<1> QED BY <1>7, <1>8 DEF Received, p, type

-----------------------------------------------------------------------------
(* STOPs and INITs in the server's queue *)

LEMMA StopsFinite ==
    ASSUME NEW S, NEW s \in Seq(S)
    PROVE  IsFiniteSet(Stops(s)) /\ Cardinality(Stops(s)) \in Nat
<1>1. IsFiniteSet(1 .. Len(s))
  BY LenProperties, FS_Interval
<1>2. Stops(s) \in SUBSET (1 .. Len(s))
  BY DEF Stops
<1> QED BY <1>1, <1>2, FS_Subset, FS_CardinalityType

\* Letters of other types do not count.
LEMMA StopsLonger ==
    ASSUME NEW S, NEW a \in Seq(S), NEW b \in Seq(S), Longer(a, b),
           \A k \in 1 .. Len(b) : k > Len(a) => b[k].type # STOP
    PROVE  Stops(b) = Stops(a)
<1>1. Len(a) \in Nat /\ Len(b) \in Nat
  BY LenProperties
<1> QED BY <1>1 DEF Stops, Longer

LEMMA StopsAppend ==
    ASSUME NEW S, NEW s \in Seq(S), NEW m \in S
    PROVE  Cardinality(Stops(Append(s, m))) =
              Cardinality(Stops(s)) + IF m.type = STOP THEN 1 ELSE 0
<1>1. Len(s) \in Nat
  BY LenProperties
<1>2. /\ Len(Append(s, m)) = Len(s) + 1
      /\ \A i \in 1 .. Len(s) : Append(s, m)[i] = s[i]
      /\ Append(s, m)[Len(s) + 1] = m
  BY AppendProperties
<1>3. IsFiniteSet(Stops(s)) /\ Cardinality(Stops(s)) \in Nat /\ Len(s) + 1 \notin Stops(s)
  <2>1. Len(s) + 1 \notin Stops(s)
    BY <1>1 DEF Stops
  <2> QED BY <2>1, StopsFinite
<1>4. CASE m.type = STOP
  <2>1. Stops(Append(s, m)) = Stops(s) \cup {Len(s) + 1}
    BY <1>1, <1>2, <1>4 DEF Stops
  <2> QED BY <1>3, <1>4, <2>1, FS_AddElement
<1>5. CASE m.type # STOP
  <2>1. Stops(Append(s, m)) = Stops(s)
    BY <1>1, <1>2, <1>5 DEF Stops
  <2> QED BY <1>3, <1>5, <2>1
<1> QED BY <1>4, <1>5

LEMMA StopsRemoval ==
    ASSUME NEW S, NEW s \in Seq(S), NEW p \in 1 .. Len(s)
    PROVE  Cardinality(Stops(RemoveAt(s, p))) =
              Cardinality(Stops(s)) - IF s[p].type = STOP THEN 1 ELSE 0
<1> DEFINE r == RemoveAt(s, p)
           f == [i \in Stops(r) |-> IF i < p THEN i ELSE i + 1]
           T == Stops(s) \ {p}
<1>1. Len(s) \in Nat /\ Len(r) \in Nat /\ r \in Seq(S)
      /\ Len(r) = Len(s) - 1
      /\ \A i \in 1 .. Len(r) : r[i] = IF i < p THEN s[i] ELSE s[i + 1]
  BY LenProperties, Removal
<1> HIDE DEF r
<1>2. ASSUME NEW i \in Stops(r) PROVE f[i] \in T
  BY <1>1 DEF Stops
<1>3. ASSUME NEW j \in T PROVE \E i \in Stops(r) : f[i] = j
  <2>1. CASE j < p
    <3>1. j \in Stops(r)
      BY <1>1, <2>1 DEF Stops
    <3> QED BY <2>1, <3>1
  <2>2. CASE j > p
    <3>1. j - 1 \in Stops(r) /\ ~(j - 1 < p) /\ (j - 1) + 1 = j
      BY <1>1, <2>2 DEF Stops
    <3>2. f[j - 1] = (j - 1) + 1
      <4> HIDE DEF Stops
      <4> QED BY <3>1
    <3> QED BY <3>1, <3>2
  <2>3. j \in Nat /\ p \in Nat /\ j # p
    BY <1>1 DEF Stops
  <2> QED BY <2>1, <2>2, <2>3
<1>4. ASSUME NEW i \in Stops(r), NEW j \in Stops(r), f[i] = f[j] PROVE i = j
  BY <1>1, <1>4 DEF Stops
<1>5. f \in [Stops(r) -> T]
  BY <1>2
<1>6. f \in Surjection(Stops(r), T) /\ f \in Injection(Stops(r), T)
  <2> HIDE DEF f, T
  <2>1. f \in Surjection(Stops(r), T)
    BY <1>3, <1>5 DEF Surjection
  <2>2. f \in Injection(Stops(r), T)
    BY <1>4, <1>5 DEF Injection, IsInjective
  <2> QED BY <2>1, <2>2
<1>7. IsFiniteSet(Stops(r)) /\ IsFiniteSet(Stops(s))
  BY <1>1, StopsFinite
<1> HIDE DEF f
<1>8. Cardinality(T) = Cardinality(Stops(r))
  BY <1>6, <1>7, FS_Surjection
<1>9. p \in Stops(s) <=> s[p].type = STOP
  BY DEF Stops
<1>10. Cardinality(T) = IF p \in Stops(s) THEN Cardinality(Stops(s)) - 1 ELSE Cardinality(Stops(s))
  BY <1>7, FS_RemoveElement
<1>11. Cardinality(Stops(s)) \in Nat
  BY StopsFinite
<1> QED BY <1>8, <1>9, <1>10, <1>11 DEF r

\* A queue with a STOP has one to count.
LEMMA StopsServed ==
    ASSUME NEW S, NEW s \in Seq(S), NEW p \in 1 .. Len(s), s[p].type = STOP
    PROVE  Cardinality(Stops(s)) >= 1
<1>1. Cardinality(Stops(RemoveAt(s, p))) = Cardinality(Stops(s)) - 1
  BY StopsRemoval
<1>2. RemoveAt(s, p) \in Seq(S)
  BY Removal
<1>3. Cardinality(Stops(RemoveAt(s, p))) \in Nat /\ Cardinality(Stops(s)) \in Nat
  BY <1>2, StopsFinite
<1> QED BY <1>1, <1>3

LEMMA WaitsLonger ==
    ASSUME NEW S, NEW a \in Seq(S), NEW b \in Seq(S), Longer(a, b), Waits(a),
           \A k \in 1 .. Len(b) : k > Len(a) => b[k].type # INIT
    PROVE  Waits(b)
<1>1. Len(a) \in Nat /\ Len(b) \in Nat
  BY LenProperties
<1>2. \A i \in 1 .. Len(b) : b[i].type = INIT => i \in 1 .. Len(a) /\ b[i] = a[i]
  BY <1>1 DEF Longer
<1> QED BY <1>2 DEF Waits

LEMMA WaitsRemoval ==
    ASSUME NEW S, NEW s \in Seq(S), NEW p \in 1 .. Len(s), Waits(s)
    PROVE  /\ Waits(RemoveAt(s, p))
           /\ s[p].type = INIT =>
                 \A i \in 1 .. Len(RemoveAt(s, p)) :
                    RemoveAt(s, p)[i].type = INIT => RemoveAt(s, p)[i].sender # s[p].sender
<1> DEFINE r == RemoveAt(s, p)
           g(i) == IF i < p THEN i ELSE i + 1
<1>1. Len(s) \in Nat /\ Len(r) \in Nat
      /\ Len(r) = Len(s) - 1
      /\ \A i \in 1 .. Len(r) : r[i] = s[g(i)]
  BY LenProperties, Removal
<1> HIDE DEF r
<1>2. \A i \in 1 .. Len(r) : g(i) \in 1 .. Len(s) /\ g(i) # p
  BY <1>1
<1>3. \A i, j \in 1 .. Len(r) : g(i) = g(j) => i = j
  BY <1>1
<1> HIDE DEF g
<1>4. Waits(r)
  BY <1>1, <1>2, <1>3 DEF Waits
<1>5. s[p].type = INIT => \A i \in 1 .. Len(r) : r[i].type = INIT => r[i].sender # s[p].sender
  BY <1>1, <1>2 DEF Waits
<1> QED BY <1>4, <1>5 DEF r

-----------------------------------------------------------------------------
(* Steps of the server *)

LEMMA Constants ==
    /\ IsFiniteSet(Clients) /\ None \notin Clients /\ None # "server" /\ "server" \notin Clients
    /\ Names = Clients \cup {"server"} /\ Clients \subseteq Names /\ "server" \in Names
    /\ MAX_CLIENTS \in Nat \ {0} /\ Given \subseteq Ids /\ 0 \in Ids /\ 0 \notin Given
    /\ Ids \subseteq Nat /\ Given = Ids \ {0}
BY ChatAssumption DEF Given, Ids

\* Whoever is known stays so: what may be sent can still be sent.
LEMMA OffersStand ==
    ASSUME \A d \in Clients : Known(d) => Known(d)'
    PROVE  ClientMail \subseteq ClientMail'
BY DEF ClientMail, Messages, AnyType, Ids, Given

LEMMA PresentFinite == IsFiniteSet(Present) /\ Cardinality(Present) \in Nat
<1>1. Present \in SUBSET Clients
  BY DEF Present
<1> QED BY <1>1, Constants, FS_Subset, FS_CardinalityType

\* The server has taken a request, or none, and sends its letters to clients
\* it knows, or a RESPONSE to itself.
LEMMA ServerSent ==
    ASSUME IInv, server \in {"serving", "finishing"},
           NEW queues, NEW sends, NEW status \in {"serving", "finishing", "gone"},
           NEW N \in Nat, DOMAIN sends \subseteq 1 .. N,
           ServerSends(queues, sends, status), UNCHANGED clientVars,
           queues["server"] \in Seq(ServerMail), Waits(queues["server"]),
           \A c \in Clients : queues[c] = mq[c],
           \A i \in DOMAIN sends : sends[i].to \in Clients =>
              Known(sends[i].to) /\ sends[i].msg \in ClientMail,
           \A i \in DOMAIN sends : sends[i].to = "server" =>
              sends[i].msg \in ServerMail /\ sends[i].msg.type = RESPONSE,
           TableOk(table'), counter' \in 0 .. MAX_CLIENTS, current' \in Given,
           counter' = Cardinality(Present) + Cardinality(Stops(queues["server"])),
           status = "gone" => counter' = 0
    PROVE  IInv'
<1> DEFINE s == Post(queues, sends)["server"]
<1> USE Constants
<1>1. ASSUME NEW c \in Clients
      PROVE  /\ mq'[c] \in Seq(ClientMail) /\ Longer(mq[c], mq'[c])
             /\ ~Known(c) => mq'[c] = mq[c]
  <2>1. mq'[c] = Post(queues, sends)[c]
    BY DEF ServerSends, Emptied, Post
  <2>2. queues[c] \in Seq(ClientMail)
    BY DEF IInv, Mail
  <2>3. ~Known(c) => \A i \in DOMAIN sends : sends[i].to # c
    OBVIOUS
  <2>4. \A i \in DOMAIN sends : sends[i].to = c => sends[i].msg \in ClientMail
    OBVIOUS
  <2>5. /\ Post(queues, sends)[c] \in Seq(ClientMail)
        /\ Longer(queues[c], Post(queues, sends)[c])
        /\ (\A i \in DOMAIN sends : sends[i].to # c) => Post(queues, sends)[c] = queues[c]
    BY <2>2, <2>4, PostSends
  <2> QED BY <2>1, <2>3, <2>5
<1>2. s \in Seq(ServerMail) /\ Stops(s) = Stops(queues["server"]) /\ Waits(s)
  <2>1. /\ s \in Seq(ServerMail) /\ Longer(queues["server"], s)
        /\ \A k \in 1 .. Len(s) : k > Len(queues["server"]) =>
              \E i \in DOMAIN sends : sends[i].to = "server" /\ s[k] = sends[i].msg
    BY PostSends
  <2>2. \A k \in 1 .. Len(s) : k > Len(queues["server"]) => s[k].type = RESPONSE
    BY <2>1
  <2>3. \A k \in 1 .. Len(s) : k > Len(queues["server"]) => s[k].type # STOP /\ s[k].type # INIT
    BY <2>2 DEF RESPONSE, STOP, INIT
  <2> HIDE DEF s
  <2>4. Stops(s) = Stops(queues["server"])
    BY <2>1, <2>3, StopsLonger
  <2>5. Waits(s)
    BY <2>1, <2>3, WaitsLonger
  <2> QED BY <2>1, <2>4, <2>5
<1>3. /\ mq'["server"] = IF ServerEnds THEN <<>> ELSE s
      /\ open' = IF ServerEnds THEN open \ {"server"} ELSE open
      /\ server' \in {"serving", "finishing", "gone", "failed"}
      /\ server' = "gone" => counter' = 0
      /\ DOMAIN mq' = Names
  BY DEF ServerSends, Emptied, Post
<1> HIDE DEF s
<1>4. pc' = pc /\ client_id' = client_id /\ connected' = connected /\ commands' = commands
  BY DEF clientVars
<1>5. \A c \in Clients : Len(mq[c]) \in Nat /\ Len(mq'[c]) \in Nat /\ Len(mq[c]) <= Len(mq'[c])
  <2>1. \A c \in Clients : mq[c] \in Seq(ClientMail)
    BY DEF IInv, Mail
  <2> QED BY <1>1, <2>1, LenProperties DEF Longer
<1>6. \A c \in Clients : Known(c)' <=> Known(c)
  <2> SUFFICES ASSUME NEW c \in Clients PROVE Known(c)' <=> Known(c)
    OBVIOUS
  <2>1. CASE Known(c)
    BY <1>4, <1>5, <2>1 DEF Known
  <2>2. CASE ~Known(c)
    BY <1>1, <1>4, <2>2 DEF Known
  <2> QED BY <2>1, <2>2
<1>7. Mail'
  <2>1. mq'["server"] \in Seq(ServerMail)
    BY <1>2, <1>3, EmptySeq
  <2>2. ASSUME NEW c \in Clients PROVE mq'[c] \in Seq(ClientMail')
    BY <1>1, <1>6, OffersStand, SeqMonotonic
  <2>3. ServerMail' = ServerMail
    BY DEF ServerMail, Messages, AnyType, Ids, Given
  <2> QED BY <1>3, <2>1, <2>2, <2>3 DEF Mail
<1>8. TypeOK'
  <2>1. open' \subseteq Names
    BY <1>3 DEF IInv, TypeOK
  <2>2. current' \in 1 .. MAX_CLIENTS
    BY DEF Given
  <2> QED BY <1>3, <1>4, <2>1, <2>2 DEF IInv, TypeOK, TableOk, Ids
<1>9. QueuesOpen'
  BY <1>3, <1>4 DEF IInv, QueuesOpen, ServerEnds
<1>10. Introduced'
  <2> SUFFICES ASSUME NEW c \in Clients
               PROVE  /\ pc[c] = "new" => Len(mq'[c]) = 0
                      /\ pc[c] = "init" /\ Len(mq'[c]) > 0 =>
                            mq'[c][1].type = RESPONSE /\ mq'[c][1].sender \in Given
    BY <1>4 DEF IInv, Introduced, Given, RESPONSE
  <2>1. /\ pc[c] \in {"new", "init"} => client_id[c] = -1
        /\ pc[c] = "new" => Len(mq[c]) = 0
        /\ pc[c] = "init" /\ Len(mq[c]) > 0 =>
              mq[c][1].type = RESPONSE /\ mq[c][1].sender \in Given
    BY DEF IInv, Introduced
  <2>2. CASE Known(c)
    <3>1. pc[c] = "init" => Len(mq[c]) > 0 /\ mq'[c][1] = mq[c][1]
      BY <1>1, <1>5, <2>1, <2>2 DEF Known, Longer
    <3>2. pc[c] # "new"
      BY <2>1, <2>2 DEF Known
    <3> QED BY <2>1, <3>1, <3>2
  <2>3. CASE ~Known(c)
    BY <1>1, <2>1, <2>3
  <2> QED BY <2>2, <2>3
<1>11. Acquainted'
  <2>1. TableOk(table)'
    BY <1>6 DEF TableOk, Ids
  <2> QED BY <1>4, <1>6, <2>1 DEF IInv, Acquainted, Given
<1>12. InitsWait'
  <2>1. CASE ServerEnds
    BY <1>3, <2>1 DEF InitsWait, Waits
  <2>2. CASE ~ServerEnds
    <3>1. mq'["server"] = s
      BY <1>3, <2>2
    <3>2. ASSUME NEW i \in 1 .. Len(s), s[i].type = INIT
          PROVE  pc'[s[i].sender] = "init" /\ Len(mq'[s[i].sender]) = 0
      <4> DEFINE d == s[i].sender
      <4>1. s[i] \in ServerMail
        BY <1>2, ElementOfSeq
      <4>2. d \in Clients /\ pc[d] = "init" /\ Len(mq[d]) = 0
        BY <1>2, <3>2, <4>1 DEF Waits, ServerMail
      <4>3. client_id[d] = -1
        BY <4>2 DEF IInv, Introduced
      <4>4. ~Known(d)
        BY <4>2, <4>3 DEF Known
      <4> QED BY <1>1, <1>4, <4>2, <4>4
    <3> QED BY <1>2, <3>1, <3>2 DEF InitsWait, Waits, INIT
  <2> QED BY <2>1, <2>2
<1>13. Counted'
  <2>1. Present' = Present
    BY <1>4, <1>6 DEF Present, Leaving
  <2>2. server' \in {"serving", "finishing"} => mq'["server"] = s
    BY <1>3 DEF ServerEnds
  <2>3. server' \in {"serving", "finishing"} =>
           counter' = Cardinality(Present') + Cardinality(Stops(mq'["server"]))
    BY <1>2, <2>1, <2>2
  <2>4. server' = "gone" => Present' = {}
    <3>1. Cardinality(Stops(queues["server"])) \in Nat
      BY StopsFinite
    <3>2. counter' = 0 => Cardinality(Present) = 0
      BY <3>1, PresentFinite
    <3> QED BY <1>3, <2>1, <3>2, PresentFinite, FS_EmptySet
  <2> QED BY <2>3, <2>4 DEF Counted, Stops, STOP
<1> QED BY <1>7, <1>8, <1>9, <1>10, <1>11, <1>12, <1>13 DEF IInv

\* A message the server takes, and its queue without it.
LEMMA MessageTaken ==
    ASSUME IInv, NEW types \in SUBSET Nat, Waiting("server", types) # {}, NEW m, NEW r,
           m = Received("server", types), r = Without("server", types)
    PROVE  /\ m \in ServerMail /\ m.type \in types
           /\ \E i \in 1 .. Len(mq["server"]) : mq["server"][i] = m
           /\ r["server"] \in Seq(ServerMail) /\ Waits(r["server"])
           /\ \A c \in Clients : r[c] = mq[c]
           /\ m.type = INIT =>
                 \A i \in 1 .. Len(r["server"]) :
                    r["server"][i].type = INIT => r["server"][i].sender # m.sender
           /\ Cardinality(Stops(r["server"])) =
                 Cardinality(Stops(mq["server"])) - IF m.type = STOP THEN 1 ELSE 0
           /\ m.type = STOP => Cardinality(Stops(mq["server"])) >= 1
<1> USE Constants
<1> DEFINE p == Place("server", types)
           s == mq["server"]
<1>1. s \in Seq(ServerMail)
  BY DEF IInv, Mail
<1>2. p \in 1 .. Len(s) /\ m = s[p] /\ m \in ServerMail /\ m.type \in types
  BY <1>1, PlaceFound
<1>3. r["server"] = RemoveAt(s, p) /\ \A c \in Clients : r[c] = mq[c]
  BY DEF Without, IInv, Mail
<1>4. Waits(s)
  BY DEF IInv, InitsWait
<1> HIDE DEF p, s
<1>5. r["server"] \in Seq(ServerMail) /\ Waits(r["server"])
  BY <1>1, <1>2, <1>3, <1>4, Removal, WaitsRemoval
<1>6. m.type = INIT =>
         \A i \in 1 .. Len(r["server"]) :
            r["server"][i].type = INIT => r["server"][i].sender # m.sender
  BY <1>1, <1>2, <1>3, <1>4, WaitsRemoval
<1>7. Cardinality(Stops(r["server"])) = Cardinality(Stops(s)) - IF m.type = STOP THEN 1 ELSE 0
  BY <1>1, <1>2, <1>3, StopsRemoval
<1>8. m.type = STOP => Cardinality(Stops(s)) >= 1
  BY <1>1, <1>2, StopsServed
<1> QED BY <1>2, <1>3, <1>5, <1>6, <1>7, <1>8 DEF s

LEMMA RequestTaken ==
    ASSUME IInv, NEW t, Request(t)
    PROVE  /\ server = "serving" /\ UNCHANGED clientVars
           /\ request \in ServerMail /\ request.type = t
           /\ \E i \in 1 .. Len(mq["server"]) : mq["server"][i] = request
           /\ Without("server", AnyType)["server"] \in Seq(ServerMail)
           /\ Waits(Without("server", AnyType)["server"])
           /\ \A c \in Clients : Without("server", AnyType)[c] = mq[c]
           /\ Cardinality(Stops(Without("server", AnyType)["server"])) =
                 Cardinality(Stops(mq["server"])) - IF t = STOP THEN 1 ELSE 0
           /\ t = STOP => Cardinality(Stops(mq["server"])) >= 1
<1>1. AnyType \in SUBSET Nat /\ Waiting("server", AnyType) # {}
  BY DEF AnyType, Request
<1>2. request.type = t /\ server = "serving" /\ UNCHANGED clientVars
  BY DEF Request, request
<1> QED BY <1>1, <1>2, MessageTaken DEF request

\* The server counts what it has to.
LEMMA ServingCounts ==
    ASSUME IInv, server \in {"serving", "finishing"}
    PROVE  /\ counter = Cardinality(Present) + Cardinality(Stops(mq["server"]))
           /\ counter \in 0 .. MAX_CLIENTS /\ current \in Given
           /\ Cardinality(Present) \in Nat /\ Cardinality(Stops(mq["server"])) \in Nat
           /\ TableOk(table)
<1>1. mq["server"] \in Seq(ServerMail)
  BY DEF IInv, Mail
<1> QED BY <1>1, StopsFinite, PresentFinite DEF IInv, TypeOK, Counted, Acquainted, Given

\* Who has a queue in the table is known to the server.
LEMMA InTable ==
    ASSUME IInv, NEW i \in Given
    PROVE  /\ table[i].q \in Clients => Known(table[i].q)
           /\ table[i].q # "server"
           /\ table[i].key \in Clients \cup {None}
           /\ table[i].key \in Clients => Known(table[i].key)
<1>1. i \in Ids /\ i > 0
  BY Constants DEF Given
<1>2. TableOk(table)
  BY DEF IInv, Acquainted
<1>3. table[i] \in [q : Names \cup {None}, key : Clients \cup {None}, aviable : BOOLEAN]
  BY <1>1, <1>2 DEF TableOk
<1> QED BY <1>1, <1>2, <1>3 DEF TableOk

\* Messages of the server's handlers.
LEMMA Letters ==
    /\ \A i \in Ids \cup {-1} : /\ Message(RESPONSE, i, <<>>) \in ClientMail
                                /\ Message(DISCONNECT, 0, <<>>) \in ClientMail
                                /\ Message(FINISH, 0, <<>>) \in ClientMail
    /\ Message(RESPONSE, 0, <<>>) \in ServerMail /\ Message(RESPONSE, 0, <<>>).type = RESPONSE
    /\ \A k \in Clients \cup {None}, i \in Given :
          (k \in Clients => Known(k)) => Message(CONNECT, k, <<i>>) \in ClientMail
<1> USE Constants DEF Message, Messages, AnyType, RESPONSE, STOP, DISCONNECT, LIST, CONNECT, INIT, FINISH
<1>1. \A i \in Given : <<i>> \in Seq(Ids) /\ Len(<<i>>) = 1 /\ <<i>>[1] = i
  OBVIOUS
<1>2. <<>> \in Seq(Ids)
  OBVIOUS
<1> QED BY <1>1, <1>2 DEF ClientMail, ServerMail

\* What main's loop makes of a request, given the letters.
LEMMA RequestServed ==
    ASSUME IInv, NEW t, Request(t), NEW sends, NEW N \in Nat, DOMAIN sends \subseteq 1 .. N,
           Reply(sends), TableOk(table'), current' \in Given,
           counter' = counter - IF t = STOP THEN 1 ELSE 0,
           \A i \in DOMAIN sends : sends[i].to \in Clients =>
              Known(sends[i].to) /\ sends[i].msg \in ClientMail,
           \A i \in DOMAIN sends : sends[i].to = "server" =>
              sends[i].msg \in ServerMail /\ sends[i].msg.type = RESPONSE
    PROVE  IInv'
<1>1. main_loop \in {"serving", "gone"} /\ (main_loop = "gone" => ~(counter' > 0))
  BY DEF main_loop
<1>2. ServerSends(Without("server", AnyType), sends, main_loop)
  BY DEF Reply
<1>3. counter' = Cardinality(Present) + Cardinality(Stops(Without("server", AnyType)["server"]))
      /\ counter' \in 0 .. MAX_CLIENTS /\ (main_loop = "gone" => counter' = 0)
  <2> DEFINE d == IF t = STOP THEN 1 ELSE 0
             now == Cardinality(Stops(Without("server", AnyType)["server"]))
             old == Cardinality(Stops(mq["server"]))
             there == Cardinality(Present)
  <2>1. now = old - d /\ counter' = counter - d /\ counter = there + old
        /\ old \in Nat /\ there \in Nat /\ counter \in 0 .. MAX_CLIENTS
    BY RequestTaken, ServingCounts
  <2>2. d \in {0, 1} /\ (d = 1 => old >= 1)
    BY RequestTaken
  <2> HIDE DEF d, now, old, there
  <2>3. counter' = there + now /\ counter' \in 0 .. MAX_CLIENTS
    BY <2>1, <2>2, Constants
  <2>4. main_loop = "gone" => counter' = 0
    <3>1. counter' \in Nat
      BY <2>3, Constants
    <3>2. \A n \in Nat : ~(n > 0) => n = 0
      OBVIOUS
    <3> QED BY <1>1, <3>1, <3>2
  <2> QED BY <2>3, <2>4 DEF there, now
<1> DEFINE status == main_loop
           queues == Without("server", AnyType)
<1> HIDE DEF status, queues
<1> QED BY <1>1, <1>2, <1>3, RequestTaken, ServerSent DEF status, queues

\* Making two entries available, or not, leaves the table in order.
LEMMA Availability ==
    ASSUME NEW t, TableOk(t), NEW a, NEW b, NEW x \in BOOLEAN, NEW u,
           u = [t EXCEPT ![a].aviable = x, ![b].aviable = x]
    PROVE  TableOk(u)
<1>1. DOMAIN t = Ids /\ DOMAIN u = Ids
  BY DEF TableOk
<1>2. ASSUME NEW j \in Ids
      PROVE  /\ u[j] \in [q : Names \cup {None}, key : Clients \cup {None}, aviable : BOOLEAN]
             /\ u[j].q = t[j].q /\ u[j].key = t[j].key
  <2>1. t[j] \in [q : Names \cup {None}, key : Clients \cup {None}, aviable : BOOLEAN]
    BY DEF TableOk
  <2>2. u[j] = t[j] \/ u[j] = [t[j] EXCEPT !.aviable = x]
    BY <1>1, <2>1
  <2> QED BY <2>1, <2>2
<1>3. u = [j \in Ids |-> u[j]]
  BY <1>1
<1> QED BY <1>2, <1>3, Constants DEF TableOk

LEMMA OtherStep ==
    ASSUME IInv, ServeOther
    PROVE  IInv'
<1> DEFINE sends == <<>>
<1>1. Request(RESPONSE) /\ Reply(sends) /\ UNCHANGED <<table, counter, current, starting>>
  BY DEF ServeOther
<1>2. DOMAIN sends = {} /\ DOMAIN sends \subseteq 1 .. 0
  OBVIOUS
<1>3. /\ TableOk(table') /\ current' \in Given /\ counter \in Nat
      /\ counter' = counter - IF RESPONSE = STOP THEN 1 ELSE 0
  BY <1>1, RequestTaken, ServingCounts DEF RESPONSE, STOP
<1> HIDE DEF sends
<1> QED BY <1>1, <1>2, <1>3, RequestServed

LEMMA ListStep ==
    ASSUME IInv, ServeList
    PROVE  IInv'
<1> DEFINE sends == <<Letter(table[0].q, Message(RESPONSE, 0, <<>>))>>
<1>1. Request(LIST) /\ Reply(sends) /\ UNCHANGED <<table, counter, current, starting>>
  BY DEF ServeList
<1>2. /\ DOMAIN sends \subseteq 1 .. 1
      /\ \A i \in DOMAIN sends : sends[i].to = table[0].q /\ sends[i].msg = Message(RESPONSE, 0, <<>>)
  BY DEF Letter
<1>3. /\ TableOk(table) /\ TableOk(table') /\ current' \in Given /\ counter \in Nat
      /\ counter' = counter - IF LIST = STOP THEN 1 ELSE 0
  BY <1>1, RequestTaken, ServingCounts DEF LIST, STOP
<1>4. table[0].q = "server" /\ "server" \notin Clients
  BY <1>3, Constants DEF TableOk
<1>5. Message(RESPONSE, 0, <<>>) \in ServerMail /\ Message(RESPONSE, 0, <<>>).type = RESPONSE
  BY Letters
<1> HIDE DEF sends
<1> QED BY <1>1, <1>2, <1>3, <1>4, <1>5, RequestServed

LEMMA DisconnectStep ==
    ASSUME IInv, ServeDisconnect
    PROVE  IInv'
<1> USE Constants
<1> DEFINE sends == <<>>
<1>1. Request(DISCONNECT) /\ Reply(sends) /\ UNCHANGED <<counter, current, starting>>
      /\ table' = [table EXCEPT ![request.body[1]].aviable = TRUE, ![request.sender].aviable = TRUE]
  BY DEF ServeDisconnect
<1>2. DOMAIN sends = {} /\ DOMAIN sends \subseteq 1 .. 0
  OBVIOUS
<1>3. /\ TableOk(table) /\ current' \in Given /\ counter \in Nat
      /\ counter' = counter - IF DISCONNECT = STOP THEN 1 ELSE 0
  BY <1>1, RequestTaken, ServingCounts DEF DISCONNECT, STOP
<1>4. TableOk(table')
  BY <1>1, <1>3, Availability
<1> HIDE DEF sends
<1> QED BY <1>1, <1>2, <1>3, <1>4, RequestServed

LEMMA StopStep ==
    ASSUME IInv, ServeStop
    PROVE  IInv'
<1> USE Constants
<1> DEFINE sends == [k \in DOMAIN request.body |->
                       Letter(table[request.body[k]].q, Message(DISCONNECT, 0, <<>>))]
           partners == {request.body[k] : k \in DOMAIN request.body}
<1>1. /\ Request(STOP) /\ Reply(sends) /\ counter' = counter - 1 /\ current' = request.sender
      /\ table' = [j \in Ids |-> [table[j] EXCEPT !.aviable = @ \/ j \in partners,
                                                  !.q = IF j = request.sender THEN None ELSE @]]
  BY DEF ServeStop
<1>2. /\ request.sender \in Given /\ request.body \in Seq(Ids)
      /\ \A k \in 1 .. Len(request.body) : request.body[k] \in Given
  <2>1. request \in ServerMail /\ request.type = STOP
    BY <1>1, RequestTaken
  <2> QED BY <2>1 DEF ServerMail, Messages
<1>3. DOMAIN request.body = 1 .. Len(request.body) /\ Len(request.body) \in Nat
  BY <1>2, LenProperties
<1>4. /\ DOMAIN sends \subseteq 1 .. Len(request.body)
      /\ \A k \in DOMAIN sends : /\ request.body[k] \in Given
                                 /\ sends[k].to = table[request.body[k]].q
                                 /\ sends[k].msg = Message(DISCONNECT, 0, <<>>)
  BY <1>2, <1>3 DEF Letter
<1>5. TableOk(table) /\ current' \in Given
  BY <1>1, <1>2, RequestTaken, ServingCounts
<1>6. TableOk(table')
  <2> HIDE DEF partners
  <2>1. ASSUME NEW j \in Ids
        PROVE  /\ table'[j] \in [q : Names \cup {None}, key : Clients \cup {None}, aviable : BOOLEAN]
               /\ table'[j].q = IF j = request.sender THEN None ELSE table[j].q
               /\ table'[j].key = table[j].key
    BY <1>1, <1>5, ZenonT(60) DEF TableOk
  <2>2. table' = [j \in Ids |-> table'[j]]
    BY <1>1
  <2> QED BY <1>2, <1>5, <2>1, <2>2, ZenonT(60) DEF TableOk
<1>7. \A k \in DOMAIN sends : /\ sends[k].to # "server"
                              /\ sends[k].to \in Clients => Known(sends[k].to)
  BY <1>4, InTable, ZenonT(60)
<1>8. Message(DISCONNECT, 0, <<>>) \in ClientMail
  BY Letters
<1>9. counter' = counter - IF STOP = STOP THEN 1 ELSE 0
  BY <1>1
<1> HIDE DEF sends
<1> QED BY <1>1, <1>3, <1>4, <1>5, <1>6, <1>7, <1>8, <1>9, RequestServed

LEMMA ConnectStep ==
    ASSUME IInv, ServeConnect
    PROVE  IInv'
<1> USE Constants
<1> DEFINE from == request.sender
           to == request.body[1]
           offers == <<Letter(table[from].q, Message(CONNECT, table[to].key, <<from>>)),
                       Letter(table[to].q, Message(CONNECT, table[from].key, <<from>>))>>
           refusal == <<Letter(table[from].q, Message(RESPONSE, -1, <<>>))>>
<1>1. /\ Request(CONNECT) /\ UNCHANGED <<counter, current, starting>>
      /\ \/ /\ table' = [table EXCEPT ![to].aviable = FALSE, ![from].aviable = FALSE]
            /\ Reply(offers)
         \/ UNCHANGED table /\ Reply(refusal)
  BY DEF ServeConnect
<1>2. from \in Given /\ to \in Given
  <2>1. request \in ServerMail /\ request.type = CONNECT
    BY <1>1, RequestTaken
  <2>2. from \in Given /\ Len(request.body) = 1
        /\ \A k \in 1 .. Len(request.body) : request.body[k] \in Given
    BY <2>1 DEF ServerMail
  <2> QED BY <2>2
<1>3. /\ TableOk(table) /\ current' \in Given /\ counter \in Nat
      /\ counter' = counter - IF CONNECT = STOP THEN 1 ELSE 0
  BY <1>1, RequestTaken, ServingCounts DEF CONNECT, STOP
<1> HIDE DEF from, to
<1>4. /\ table[from].q # "server" /\ (table[from].q \in Clients => Known(table[from].q))
      /\ table[to].q # "server" /\ (table[to].q \in Clients => Known(table[to].q))
      /\ Message(CONNECT, table[to].key, <<from>>) \in ClientMail
      /\ Message(CONNECT, table[from].key, <<from>>) \in ClientMail
      /\ Message(RESPONSE, -1, <<>>) \in ClientMail
  BY <1>2, InTable, Letters
<1>5. CASE /\ table' = [table EXCEPT ![to].aviable = FALSE, ![from].aviable = FALSE]
           /\ Reply(offers)
  <2>1. TableOk(table')
    BY <1>3, <1>5, Availability
  <2>2. /\ DOMAIN offers \subseteq 1 .. 2
        /\ \A i \in DOMAIN offers : /\ offers[i].to \in {table[from].q, table[to].q}
                                    /\ offers[i].msg \in ClientMail
    BY <1>4 DEF Letter
  <2> HIDE DEF offers
  <2> QED BY <1>1, <1>3, <1>4, <1>5, <2>1, <2>2, RequestServed
<1>6. CASE UNCHANGED table /\ Reply(refusal)
  <2>1. /\ DOMAIN refusal \subseteq 1 .. 1
        /\ \A i \in DOMAIN refusal : refusal[i].to = table[from].q /\ refusal[i].msg \in ClientMail
    BY <1>4 DEF Letter
  <2> HIDE DEF refusal
  <2> QED BY <1>1, <1>3, <1>4, <1>6, <2>1, RequestServed
<1> QED BY <1>1, <1>5, <1>6

\* The search for a free id ends at the last.
LEMMA NextCurrent ==
    ASSUME current \in Given
    PROVE  next_current \in Given
<1> USE Constants
<1> DEFINE free(i) == i = MAX_CLIENTS \/ table'[i].q = None
           T == {i \in current .. MAX_CLIENTS : free(i)}
<1>1. T \subseteq Nat /\ T # {}
  BY DEF Given
<1>2. PICK n \in T : \A k \in T : n <= k
  <2> HIDE DEF T
  <2> QED BY <1>1, LeastElement
<1>3. n \in current .. MAX_CLIENTS /\ free(n) /\ \A k \in current .. n - 1 : table'[k].q # None
  BY <1>2 DEF Given
<1>4. next_current \in current .. MAX_CLIENTS
  BY <1>3 DEF next_current
<1> QED BY <1>4 DEF Given

\* A client gets the id current: it becomes known, and is counted.
LEMMA AcceptStep ==
    ASSUME IInv, ServeInit, counter < MAX_CLIENTS, request.sender \in open
    PROVE  IInv'
<1> USE Constants
<1>0. PICK c : c = request.sender
  OBVIOUS
<1> DEFINE r == Without("server", AnyType)
           answer == Message(RESPONSE, current, <<>>)
           sends == <<Letter(table'[current].q, answer)>>
<1>1. /\ Request(INIT) /\ Reply(sends) /\ current' = next_current /\ counter' = counter + 1
      /\ table' = [table EXCEPT ![current].q = c, ![current].key = c]
  BY <1>0 DEF ServeInit, counted
<1>2. /\ server = "serving" /\ request \in ServerMail /\ request.type = INIT
      /\ \E i \in 1 .. Len(mq["server"]) : mq["server"][i] = request
      /\ r["server"] \in Seq(ServerMail) /\ Waits(r["server"])
      /\ \A d \in Clients : r[d] = mq[d]
  BY <1>1, RequestTaken
<1>3. Cardinality(Stops(r["server"])) = Cardinality(Stops(mq["server"]))
  <2>1. Cardinality(Stops(r["server"])) = Cardinality(Stops(mq["server"])) - IF INIT = STOP THEN 1 ELSE 0
    BY <1>1, RequestTaken
  <2> QED BY <1>2, <2>1, ServingCounts DEF INIT, STOP
<1>4. \A i \in 1 .. Len(r["server"]) : r["server"][i].type = INIT => r["server"][i].sender # c
  <2>1. AnyType \in SUBSET Nat /\ Waiting("server", AnyType) # {} /\ request.type = INIT
    BY <1>1, <1>2 DEF AnyType, Request
  <2> QED BY <1>0, <2>1, MessageTaken DEF request
<1>5. c \in Clients /\ pc[c] = "init" /\ Len(mq[c]) = 0 /\ ~Known(c) /\ client_id[c] = -1
  <2>1. c \in Clients /\ pc[c] = "init" /\ Len(mq[c]) = 0
    BY <1>0, <1>2 DEF ServerMail, IInv, InitsWait, Waits
  <2> QED BY <2>1 DEF IInv, Introduced, Known
<1>6. pc' = pc /\ client_id' = client_id /\ connected' = connected /\ commands' = commands
  BY <1>1, RequestTaken DEF clientVars
<1>7. /\ counter = Cardinality(Present) + Cardinality(Stops(mq["server"]))
      /\ counter \in 0 .. MAX_CLIENTS /\ current \in Given
      /\ TableOk(table) /\ current' \in Given
  BY <1>1, <1>2, ServingCounts, NextCurrent
<1>8. table'[current].q = c
  BY <1>1, <1>7 DEF TableOk
<1> HIDE DEF r, answer
<1>9. AllOpen(sends) /\ DOMAIN sends = {1} /\ sends[1].to = c /\ sends[1].msg = answer
  BY <1>0, <1>8 DEF AllOpen, Letter
<1> HIDE DEF sends
<1>10. main_loop = "serving"
  BY <1>1, <1>7 DEF main_loop
<1>11. server' = "serving" /\ open' = open /\ mq' = Post(r, sends)
  BY <1>1, <1>9, <1>10 DEF Reply, ServerSends, ServerEnds, r
<1>12. answer \in ClientMail /\ answer.type = RESPONSE /\ answer.sender \in Given
  BY <1>7, Letters DEF answer, Message
<1>13. \A d \in Clients : mq[d] \in Seq(ClientMail) /\ Len(mq[d]) \in Nat
  BY LenProperties DEF IInv, Mail
<1>14. mq'[c] \in Seq(ClientMail) /\ Len(mq'[c]) = 1 /\ mq'[c][1] = answer
  <2>1. Post(r, sends)[c] = Append(r[c], sends[1].msg)
    <3>1. r[c] \in Seq(ClientMail) /\ sends[1].to \in open
      BY <1>2, <1>5, <1>9, <1>13 DEF AllOpen
    <3> QED BY <1>5, <1>9, <1>12, <3>1, PostOne
  <2>2. mq'[c] = Append(mq[c], answer) /\ Len(mq[c]) = 0 /\ mq[c] \in Seq(ClientMail)
    BY <1>2, <1>5, <1>9, <1>11, <1>13, <2>1
  <2> QED BY <1>12, <2>2, AppendProperties
<1>15. ASSUME NEW q \in Names, q # c PROVE mq'[q] = r[q]
  <2>1. \E S : r[q] \in Seq(S)
    BY <1>2, <1>13
  <2>2. DOMAIN sends \subseteq 1 .. 1 /\ \A i \in DOMAIN sends : sends[i].to # q
    BY <1>9, <1>15
  <2> QED BY <1>11, <2>1, <2>2, PostSends
<1>16. \A d \in Clients : d # c => mq'[d] = mq[d]
  BY <1>2, <1>15
<1>17. mq'["server"] = r["server"]
  BY <1>5, <1>15
<1>18. Known(c)' /\ \A d \in Clients : d # c => (Known(d)' <=> Known(d))
  BY <1>5, <1>6, <1>14, <1>16 DEF Known
<1>19. Mail'
  <2>1. \A d \in Clients : mq'[d] \in Seq(ClientMail)
    BY <1>13, <1>14, <1>16
  <2>2. \A d \in Clients : mq'[d] \in Seq(ClientMail')
    BY <1>18, <2>1, OffersStand, SeqMonotonic
  <2>3. ServerMail' = ServerMail
    BY DEF ServerMail, Messages, AnyType, Ids, Given
  <2>4. DOMAIN mq' = Names
    BY <1>11 DEF Post
  <2> QED BY <1>2, <1>17, <2>2, <2>3, <2>4 DEF Mail
<1>20. TableOk(table)'
  <2>1. DOMAIN table = Ids /\ current \in Ids
    BY <1>7 DEF TableOk
  <2>2. ASSUME NEW j \in Ids
        PROVE  /\ table'[j] \in [q : Names \cup {None}, key : Clients \cup {None}, aviable : BOOLEAN]
               /\ table'[j].q = IF j = current THEN c ELSE table[j].q
               /\ table'[j].key = IF j = current THEN c ELSE table[j].key
    <3>1. table[j] \in [q : Names \cup {None}, key : Clients \cup {None}, aviable : BOOLEAN]
      BY <1>7 DEF TableOk
    <3>2. table' = [table EXCEPT ![current] = [table[current] EXCEPT !.q = c, !.key = c]]
      BY <1>1, <2>1
    <3>3. table'[j] = IF j = current THEN [table[j] EXCEPT !.q = c, !.key = c] ELSE table[j]
      BY <2>1, <3>2
    <3> QED BY <1>5, <3>1, <3>3, ZenonT(60)
  <2>3. table' = [j \in Ids |-> table'[j]]
    BY <1>1, <2>1
  <2>4. table' \in [Ids -> [q : Names \cup {None}, key : Clients \cup {None}, aviable : BOOLEAN]]
    BY <2>2, <2>3
  <2>5. ASSUME NEW j \in Ids
        PROVE  /\ j > 0 => table'[j].q # "server"
               /\ table'[j].q \in Clients => Known(table[j].q)'
               /\ table'[j].key \in Clients => Known(table[j].key)'
    <3>1. /\ j > 0 => table[j].q # "server"
          /\ table[j].q \in Clients => Known(table[j].q)
          /\ table[j].key \in Clients => Known(table[j].key)
      BY <1>7 DEF TableOk
    <3>2. \A d \in Clients : Known(d) => Known(d)'
      BY <1>18
    <3> QED BY <1>5, <1>18, <2>2, <3>1, <3>2
  <2>6. table'[0].q = "server"
    BY <1>7, <2>2 DEF TableOk
  <2> QED BY <2>4, <2>5, <2>6 DEF TableOk, Ids
<1>21. TypeOK'
  BY <1>1, <1>6, <1>7, <1>11, <1>20 DEF IInv, TypeOK, TableOk, Ids, Given
<1>22. QueuesOpen'
  BY <1>2, <1>6, <1>11 DEF IInv, QueuesOpen
<1>23. Introduced'
  <2> SUFFICES ASSUME NEW d \in Clients
               PROVE  /\ pc[d] = "new" => Len(mq'[d]) = 0
                      /\ pc[d] = "init" /\ Len(mq'[d]) > 0 =>
                            mq'[d][1].type = RESPONSE /\ mq'[d][1].sender \in Given
    BY <1>6 DEF IInv, Introduced, Given, RESPONSE
  <2>1. /\ pc[d] = "new" => Len(mq[d]) = 0
        /\ pc[d] = "init" /\ Len(mq[d]) > 0 =>
              mq[d][1].type = RESPONSE /\ mq[d][1].sender \in Given
    BY DEF IInv, Introduced
  <2> QED BY <1>5, <1>12, <1>14, <1>16, <2>1
<1>24. Acquainted'
  BY <1>6, <1>18, <1>20 DEF IInv, Acquainted, Given
<1>25. InitsWait'
  <2>1. ASSUME NEW i \in 1 .. Len(r["server"]), r["server"][i].type = INIT
        PROVE  pc'[r["server"][i].sender] = "init" /\ Len(mq'[r["server"][i].sender]) = 0
    <3>1. r["server"][i] \in ServerMail
      BY <1>2, ElementOfSeq
    <3>2. r["server"][i].sender \in Clients /\ r["server"][i].sender # c
      BY <1>4, <2>1, <3>1 DEF ServerMail
    <3> QED BY <1>2, <1>6, <1>16, <2>1, <3>2 DEF Waits
  <2> QED BY <1>2, <1>17, <2>1 DEF InitsWait, Waits, INIT
<1>26. Counted'
  <2>1. Present' = Present \cup {c} /\ c \notin Present
    BY <1>5, <1>6, <1>18 DEF Present, Leaving
  <2>2. Cardinality(Present') = Cardinality(Present) + 1
    BY <2>1, PresentFinite, FS_AddElement
  <2>3. Cardinality(Stops(mq["server"])) \in Nat
    BY <1>2, ServingCounts
  <2>4. counter' = Cardinality(Present') + Cardinality(Stops(mq'["server"]))
    BY <1>1, <1>3, <1>7, <1>17, <2>2, <2>3, PresentFinite
  <2> QED BY <1>11, <2>4 DEF Counted, Stops, STOP
<1> QED BY <1>19, <1>21, <1>22, <1>23, <1>24, <1>25, <1>26 DEF IInv

LEMMA InitStep ==
    ASSUME IInv, ServeInit
    PROVE  IInv'
<1> USE Constants
<1>1. Request(INIT)
  BY DEF ServeInit
<1>2. request.sender \in open
  <2>1. request \in ServerMail /\ request.type = INIT
        /\ \E i \in 1 .. Len(mq["server"]) : mq["server"][i] = request
    BY <1>1, RequestTaken
  <2>2. request.sender \in Clients /\ pc[request.sender] = "init"
    BY <2>1 DEF ServerMail, IInv, InitsWait, Waits
  <2> QED BY <2>2 DEF IInv, QueuesOpen, Running
<1>3. CASE ~(counter < MAX_CLIENTS)
  <2> DEFINE sends == <<Letter(table'[current].q, Message(RESPONSE, -1, <<>>))>>
  <2>1. /\ table' = table /\ counter' = counter /\ current' = next_current /\ Reply(sends)
    BY <1>2, <1>3 DEF ServeInit, counted
  <2>2. TableOk(table') /\ current \in Given /\ current' \in Given /\ counter \in Nat
    BY <1>1, <2>1, RequestTaken, ServingCounts, NextCurrent
  <2>3. counter' = counter - IF INIT = STOP THEN 1 ELSE 0
    BY <2>1, <2>2 DEF INIT, STOP
  <2>4. /\ DOMAIN sends \subseteq 1 .. 1
        /\ \A i \in DOMAIN sends : sends[i].to = table[current].q
                                   /\ sends[i].msg = Message(RESPONSE, -1, <<>>)
    BY <2>1 DEF Letter
  <2>5. table[current].q # "server" /\ (table[current].q \in Clients => Known(table[current].q))
    BY <2>2, InTable
  <2>6. Message(RESPONSE, -1, <<>>) \in ClientMail
    BY Letters
  <2> HIDE DEF sends
  <2> QED BY <1>1, <2>1, <2>2, <2>3, <2>4, <2>5, <2>6, RequestServed
<1>4. CASE counter < MAX_CLIENTS
  BY <1>2, <1>4, AcceptStep
<1> QED BY <1>3, <1>4

LEMMA ShutdownStep ==
    ASSUME IInv, Shutdown
    PROVE  IInv'
<1> USE Constants
<1> DEFINE sends == [i \in told_to_finish |-> Letter(table[i].q, Message(FINISH, 0, <<>>))]
           status == IF counter > 0 THEN "finishing" ELSE "gone"
<1>1. /\ server = "serving" /\ ServerSends(mq, sends, status)
      /\ UNCHANGED <<table, counter, current, clientVars>>
  BY DEF Shutdown
<1>2. /\ counter = Cardinality(Present) + Cardinality(Stops(mq["server"]))
      /\ counter \in 0 .. MAX_CLIENTS /\ current \in Given /\ TableOk(table)
  BY <1>1, ServingCounts
<1>3. status \in {"serving", "finishing", "gone"} /\ (status = "gone" => counter = 0)
  BY <1>2
<1>4. /\ DOMAIN sends \subseteq 1 .. MAX_CLIENTS
      /\ \A i \in DOMAIN sends : i \in Given /\ sends[i].to = table[i].q
                                 /\ sends[i].msg = Message(FINISH, 0, <<>>)
  BY DEF told_to_finish, Letter, Given
<1>5. \A i \in DOMAIN sends : /\ sends[i].to # "server"
                              /\ sends[i].to \in Clients => Known(sends[i].to)
  BY <1>4, InTable
<1>6. Message(FINISH, 0, <<>>) \in ClientMail
  BY Letters
<1>7. mq["server"] \in Seq(ServerMail) /\ Waits(mq["server"])
  BY DEF IInv, Mail, InitsWait
<1> HIDE DEF sends, status
<1>8. TableOk(table') /\ counter' \in 0 .. MAX_CLIENTS /\ current' \in Given /\ UNCHANGED clientVars
      /\ counter' = Cardinality(Present) + Cardinality(Stops(mq["server"]))
      /\ (status = "gone" => counter' = 0) /\ MAX_CLIENTS \in Nat
  BY <1>1, <1>2, <1>3
<1> QED BY <1>1, <1>3, <1>4, <1>5, <1>6, <1>7, <1>8, ServerSent

LEMMA AwaitStep ==
    ASSUME IInv, AwaitStop
    PROVE  IInv'
<1> USE Constants
<1>1. PICK r, m : r = Without("server", awaited) /\ m = Received("server", awaited)
  OBVIOUS
<1> DEFINE sends == <<>>
           status == IF counter' > 0 THEN "finishing" ELSE "gone"
<1>2. /\ server = "finishing" /\ ServerSends(r, sends, status) /\ Waiting("server", awaited) # {}
      /\ counter' = counter - 1 /\ UNCHANGED <<table, current, clientVars>>
  BY <1>1 DEF AwaitStop
<1>3. /\ counter = Cardinality(Present) + Cardinality(Stops(mq["server"]))
      /\ counter \in 0 .. MAX_CLIENTS /\ current \in Given /\ TableOk(table)
      /\ Cardinality(Present) \in Nat /\ Cardinality(Stops(mq["server"])) \in Nat
  BY <1>2, ServingCounts
<1>4. awaited \in SUBSET Nat /\ \A t \in awaited : t = STOP
  BY DEF awaited, STOP
<1>5. /\ r["server"] \in Seq(ServerMail) /\ Waits(r["server"]) /\ \A c \in Clients : r[c] = mq[c]
      /\ m.type \in awaited
      /\ Cardinality(Stops(r["server"])) = Cardinality(Stops(mq["server"])) - IF m.type = STOP THEN 1 ELSE 0
      /\ m.type = STOP => Cardinality(Stops(mq["server"])) >= 1
  BY <1>1, <1>2, <1>4, MessageTaken
<1>6. counter' = Cardinality(Present) + Cardinality(Stops(r["server"])) /\ counter' \in 0 .. MAX_CLIENTS
  <2>1. m.type = STOP
    BY <1>4, <1>5
  <2> QED BY <1>2, <1>3, <1>5, <2>1
<1>7. status \in {"serving", "finishing", "gone"} /\ (status = "gone" => counter' = 0)
  BY <1>6
<1>8. TableOk(table') /\ current' \in Given /\ UNCHANGED clientVars
  BY <1>2, <1>3
<1>9. DOMAIN sends = {} /\ DOMAIN sends \subseteq 1 .. 0
  OBVIOUS
<1> HIDE DEF sends, status
<1> QED BY <1>2, <1>5, <1>6, <1>7, <1>8, <1>9, ServerSent

-----------------------------------------------------------------------------
(* Steps of a client *)

Partners(k) ==
    /\ k \in [Clients -> [q : Clients \cup {None}, id : Ids]]
    /\ \A d \in Clients : (k[d].q \in Clients => Known(k[d].q)) /\ k[d].id \in Given

\* The client c, which is known if it waited for its id, is at label now; to
\* the server it has sent no INIT, and a STOP only when it stops.
LEMMA ClientMoves ==
    ASSUME IInv, NEW c \in Clients,
           NEW label \in WithId \cup {"stopping", "exited", "failed"},
           UNCHANGED serverVars, pc' = [pc EXCEPT ![c] = label],
           open' = IF label \in {"exited", "failed"} THEN open \ {c} ELSE open,
           label \notin {"exited", "failed"} => pc[c] \in Running,
           pc[c] = "init" => Known(c),
           IF label = "exited" THEN pc[c] = "stopping" ELSE pc[c] \notin Leaving,
           client_id' \in [Clients -> {-1} \cup Given],
           \A d \in Clients : d # c => client_id'[d] = client_id[d],
           client_id'[c] > 0 <=> Known(c),
           label \in WithId \cup {"stopping"} => Known(c),
           Partners(connected'), commands' \in 0 .. MaxCommands,
           DOMAIN mq' = Names,
           \A d \in Clients : mq'[d] \in Seq(ClientMail),
           \A d \in Clients : d # c => Longer(mq[d], mq'[d]) /\ (~Known(d) => mq'[d] = mq[d]),
           mq'["server"] \in Seq(ServerMail), Longer(mq["server"], mq'["server"]),
           \A k \in 1 .. Len(mq'["server"]) : k > Len(mq["server"]) => mq'["server"][k].type # INIT,
           server \in {"serving", "finishing"} =>
              Cardinality(Stops(mq'["server"])) =
                 Cardinality(Stops(mq["server"])) + IF label = "stopping" THEN 1 ELSE 0
    PROVE  IInv'
<1> USE Constants
<1>1. /\ table' = table /\ counter' = counter /\ current' = current
      /\ starting' = starting /\ server' = server
  BY DEF serverVars
<1>2. pc'[c] = label /\ \A d \in Clients : d # c => pc'[d] = pc[d]
  BY DEF IInv, TypeOK
<1>3. label \notin {"new", "init"}
  BY DEF WithId
<1>4. \A d \in Clients : mq[d] \in Seq(ClientMail) /\ Len(mq[d]) \in Nat /\ Len(mq'[d]) \in Nat
  BY LenProperties DEF IInv, Mail
<1>5. \A d \in Clients : Known(d)' <=> Known(d)
  <2> SUFFICES ASSUME NEW d \in Clients PROVE Known(d)' <=> Known(d)
    OBVIOUS
  <2>1. CASE d = c
    BY <1>2, <1>3, <2>1 DEF Known
  <2>2. CASE d # c /\ ~Known(d)
    BY <1>2, <2>2 DEF Known
  <2>3. CASE d # c /\ Known(d)
    BY <1>2, <1>4, <2>3 DEF Known, Longer
  <2> QED BY <2>1, <2>2, <2>3
<1>6. Mail'
  <2>1. \A d \in Clients : mq'[d] \in Seq(ClientMail')
    BY <1>5, OffersStand, SeqMonotonic
  <2>2. ServerMail' = ServerMail
    BY DEF ServerMail, Messages, AnyType, Ids, Given
  <2> QED BY <2>1, <2>2 DEF Mail
<1>7. TypeOK'
  <2>1. pc' \in [Clients -> {"new", "init", "check", "prompt", "list", "connect",
                             "stopping", "exited", "failed"}]
    BY DEF IInv, TypeOK, WithId
  <2>2. open' \subseteq Names
    BY DEF IInv, TypeOK
  <2>3. connected' \in [Clients -> [q : Clients \cup {None}, id : Ids]]
    BY DEF Partners
  <2> QED BY <1>1, <2>1, <2>2, <2>3 DEF IInv, TypeOK, Given, Ids
<1>8. QueuesOpen'
  <2>1. "server" \in open' <=> server' \in {"serving", "finishing"}
    BY <1>1 DEF IInv, QueuesOpen
  <2>2. ASSUME NEW d \in Clients, d # c PROVE d \in open' <=> pc'[d] \in Running
    BY <1>2, <2>2 DEF IInv, QueuesOpen
  <2>3. c \in open' <=> pc'[c] \in Running
    BY <1>2 DEF IInv, QueuesOpen, Running, WithId
  <2> QED BY <2>1, <2>2, <2>3 DEF QueuesOpen, Running
<1>9. Introduced'
  <2> SUFFICES ASSUME NEW d \in Clients
               PROVE  /\ pc'[d] \in WithId => client_id'[d] > 0
                      /\ pc'[d] \in {"new", "init"} => client_id'[d] = -1
                      /\ pc'[d] = "new" => Len(mq'[d]) = 0
                      /\ pc'[d] = "init" /\ Len(mq'[d]) > 0 =>
                            mq'[d][1].type = RESPONSE /\ mq'[d][1].sender \in Given
    BY DEF Introduced, Given, RESPONSE, WithId
  <2>1. /\ pc[d] \in WithId => client_id[d] > 0
        /\ pc[d] \in {"new", "init"} => client_id[d] = -1
        /\ pc[d] = "new" => Len(mq[d]) = 0
        /\ pc[d] = "init" /\ Len(mq[d]) > 0 =>
              mq[d][1].type = RESPONSE /\ mq[d][1].sender \in Given
    BY DEF IInv, Introduced
  <2>2. CASE d = c
    BY <1>2, <1>3, <2>2
  <2>3. CASE d # c /\ ~Known(d)
    BY <1>2, <2>1, <2>3
  <2>4. CASE d # c /\ Known(d)
    <3>1. pc[d] = "init" => Len(mq[d]) > 0 /\ mq'[d][1] = mq[d][1]
      BY <1>4, <2>1, <2>4 DEF Known, Longer
    <3>2. pc[d] # "new"
      BY <2>1, <2>4 DEF Known
    <3> QED BY <1>2, <2>1, <2>4, <3>1, <3>2
  <2> QED BY <2>2, <2>3, <2>4
<1>10. Acquainted'
  <2>1. TableOk(table)'
    BY <1>1, <1>5 DEF IInv, Acquainted, TableOk, Ids
  <2>2. ASSUME NEW d \in Clients
        PROVE  (connected'[d].q \in Clients => Known(connected[d].q)') /\ connected'[d].id \in Given
    BY <1>5 DEF Partners
  <2> QED BY <2>1, <2>2 DEF Acquainted, Given
<1>11. InitsWait'
  <2> DEFINE s == mq'["server"]
  <2>1. Waits(s)
    BY WaitsLonger DEF IInv, Mail, InitsWait
  <2>2. ASSUME NEW i \in 1 .. Len(s), s[i].type = INIT
        PROVE  pc'[s[i].sender] = "init" /\ Len(mq'[s[i].sender]) = 0
    <3>1. PICK d : d = s[i].sender
      OBVIOUS
    <3>2. s[i] \in ServerMail
      BY ElementOfSeq
    <3>3. d \in Clients /\ pc[d] = "init" /\ Len(mq[d]) = 0
      BY <2>1, <2>2, <3>1, <3>2 DEF Waits, ServerMail
    <3>4. ~Known(d)
      BY <3>3 DEF Known, IInv, Introduced
    <3> QED BY <1>2, <3>1, <3>3, <3>4
  <2> QED BY <2>1, <2>2 DEF InitsWait, Waits, INIT
<1>12. Counted'
  <2>1. Present' = IF label = "stopping" THEN Present \ {c} ELSE Present
    BY <1>2, <1>5 DEF Present, Leaving, WithId
  <2>2. label = "stopping" => c \in Present
    BY DEF Present
  <2>3. label = "stopping" => Cardinality(Present') = Cardinality(Present) - 1
    BY <2>1, <2>2, PresentFinite, FS_RemoveElement
  <2>4. label # "stopping" => Cardinality(Present') = Cardinality(Present)
    BY <2>1
  <2>5. server' \in {"serving", "finishing"} =>
           counter' = Cardinality(Present') + Cardinality(Stops(mq'["server"]))
    BY <1>1, <2>3, <2>4, ServingCounts
  <2>6. server' = "gone" => Present' = {}
    BY <1>1, <2>1 DEF IInv, Counted
  <2> QED BY <2>5, <2>6 DEF Counted, Stops, STOP
<1> QED BY <1>6, <1>7, <1>8, <1>9, <1>10, <1>11, <1>12 DEF IInv

\* What a client that has its id may rely on.
LEMMA HasId ==
    ASSUME IInv, NEW c \in Clients, pc[c] \in WithId
    PROVE  /\ Known(c) /\ client_id[c] \in Given /\ client_id[c] > 0
           /\ client_id \in [Clients -> {-1} \cup Given]
           /\ commands \in 0 .. MaxCommands /\ Partners(connected)
<1>1. client_id[c] > 0 /\ client_id \in [Clients -> {-1} \cup Given]
      /\ commands \in 0 .. MaxCommands
  BY DEF IInv, Introduced, TypeOK, Given
<1>2. client_id[c] \in {-1} \cup Given
  BY <1>1
<1>3. Partners(connected)
  BY DEF IInv, Acquainted, TypeOK, Partners
<1> QED BY <1>1, <1>2, <1>3 DEF Known

\* The client sends its letters: to clients it knows, and to the server no
\* INIT, and a STOP, nothing else, when it stops.
LEMMA ClientSent ==
    ASSUME IInv, NEW c \in Clients, NEW label \in WithId \cup {"stopping"},
           NEW queues, NEW sends, NEW N \in Nat, DOMAIN sends \subseteq 1 .. N,
           ClientSends(c, queues, sends, label),
           Known(c), pc[c] \in WithId \cup {"init"},
           client_id' \in [Clients -> {-1} \cup Given], client_id'[c] > 0,
           \A d \in Clients : d # c => client_id'[d] = client_id[d],
           Partners(connected'), commands' \in 0 .. MaxCommands,
           \A q \in Names : q # c => queues[q] = mq[q],
           queues[c] \in Seq(ClientMail),
           \A i \in DOMAIN sends : sends[i].to \in Clients =>
              Known(sends[i].to) /\ sends[i].msg \in ClientMail,
           \A i \in DOMAIN sends : sends[i].to = "server" =>
              sends[i].msg \in ServerMail /\ sends[i].msg.type # INIT,
           IF label = "stopping"
           THEN DOMAIN sends = {1} /\ sends[1].to = "server" /\ sends[1].msg.type = STOP
           ELSE \A i \in DOMAIN sends : sends[i].to = "server" => sends[i].msg.type # STOP
    PROVE  IInv'
<1> USE Constants
<1> DEFINE s == Post(queues, sends)["server"]
           at == IF AllOpen(sends) THEN label ELSE "failed"
<1>1. /\ pc' = [pc EXCEPT ![c] = at] /\ UNCHANGED serverVars
      /\ open' = IF at = "failed" THEN open \ {c} ELSE open
      /\ DOMAIN mq' = Names
      /\ mq' = IF at = "failed" THEN Emptied(Post(queues, sends), c) ELSE Post(queues, sends)
  <2>1. at = "failed" <=> ~AllOpen(sends)
    BY DEF WithId
  <2> QED BY <2>1 DEF ClientSends, Emptied, Post
<1>2. /\ mq["server"] \in Seq(ServerMail) /\ queues["server"] = mq["server"]
      /\ \A d \in Clients : mq[d] \in Seq(ClientMail)
      /\ \A d \in Clients : d # c => queues[d] = mq[d]
  BY DEF IInv, Mail
<1>3. ASSUME NEW d \in Clients
      PROVE  /\ Post(queues, sends)[d] \in Seq(ClientMail)
             /\ d # c => Longer(mq[d], Post(queues, sends)[d])
             /\ d # c /\ ~Known(d) => Post(queues, sends)[d] = mq[d]
  <2>1. queues[d] \in Seq(ClientMail)
    BY <1>2
  <2>2. \A i \in DOMAIN sends : sends[i].to = d => sends[i].msg \in ClientMail
    OBVIOUS
  <2>3. /\ Post(queues, sends)[d] \in Seq(ClientMail)
        /\ Longer(queues[d], Post(queues, sends)[d])
        /\ (\A i \in DOMAIN sends : sends[i].to # d) => Post(queues, sends)[d] = queues[d]
    BY <2>1, <2>2, PostSends
  <2> QED BY <1>2, <2>3
<1>4. ASSUME NEW d \in Clients
      PROVE  /\ mq'[d] \in Seq(ClientMail)
             /\ d # c => Longer(mq[d], mq'[d]) /\ (~Known(d) => mq'[d] = mq[d])
  <2>1. mq'[d] = IF at = "failed" /\ d = c THEN <<>> ELSE Post(queues, sends)[d]
    BY <1>1 DEF Emptied, Post
  <2> QED BY <1>3, <2>1, EmptySeq
<1>5. mq'["server"] = s
  BY <1>1 DEF Emptied, Post
<1>6. /\ s \in Seq(ServerMail) /\ Longer(mq["server"], s)
      /\ \A k \in 1 .. Len(s) : k > Len(mq["server"]) =>
            \E i \in DOMAIN sends : sends[i].to = "server" /\ s[k] = sends[i].msg
  BY <1>2, PostSends, SMTT(60)
<1> HIDE DEF s
<1>7. \A k \in 1 .. Len(s) : k > Len(mq["server"]) => s[k].type # INIT
  BY <1>6
<1>8. server \in {"serving", "finishing"} =>
         Cardinality(Stops(s)) = Cardinality(Stops(mq["server"])) + IF at = "stopping" THEN 1 ELSE 0
  <2> SUFFICES ASSUME server \in {"serving", "finishing"}
               PROVE  Cardinality(Stops(s)) =
                         Cardinality(Stops(mq["server"])) + IF at = "stopping" THEN 1 ELSE 0
    OBVIOUS
  <2>1. "server" \in open
    BY DEF IInv, QueuesOpen
  <2>2. CASE label = "stopping"
    <3>1. at = "stopping"
      BY <2>1, <2>2 DEF AllOpen
    <3>2. s = Append(mq["server"], sends[1].msg)
      <4>1. /\ \A k \in DOMAIN sends : k <= 1 => sends[k].to \in open
            /\ \A i \in DOMAIN sends : sends[i].to = "server" => i = 1
            /\ 1 \in DOMAIN sends /\ sends[1].to = "server" /\ sends[1].msg \in ServerMail
            /\ queues["server"] \in Seq(ServerMail) /\ "server" \in Names
        BY <1>2, <2>1, <2>2
      <4>2. Post(queues, sends)["server"] = Append(queues["server"], sends[1].msg)
        BY <4>1, PostOne
      <4> QED BY <1>2, <4>2 DEF s
    <3>3. sends[1].msg \in ServerMail /\ sends[1].msg.type = STOP
      BY <2>2
    <3> QED BY <1>2, <3>1, <3>2, <3>3, StopsAppend
  <2>3. CASE label # "stopping"
    <3>1. at # "stopping"
      BY <2>3
    <3>2. \A k \in 1 .. Len(s) : k > Len(mq["server"]) => s[k].type # STOP
      BY <1>6, <2>3
    <3>3. Stops(s) = Stops(mq["server"])
      BY <1>2, <1>6, <3>2, StopsLonger
    <3>4. Cardinality(Stops(s)) \in Nat
      BY <1>6, StopsFinite
    <3> QED BY <3>1, <3>3, <3>4
  <2> QED BY <2>2, <2>3
<1>9. /\ at \in WithId \cup {"stopping", "exited", "failed"} /\ at # "exited"
      /\ at \notin {"exited", "failed"} => pc[c] \in Running
      /\ pc[c] \notin Leaving
  BY DEF WithId, Running, Leaving
<1> HIDE DEF at
<1>10. open' = IF at \in {"exited", "failed"} THEN open \ {c} ELSE open
  BY <1>1, <1>9
<1>11. /\ mq'["server"] \in Seq(ServerMail) /\ Longer(mq["server"], mq'["server"])
       /\ \A k \in 1 .. Len(mq'["server"]) : k > Len(mq["server"]) => mq'["server"][k].type # INIT
       /\ server \in {"serving", "finishing"} =>
             Cardinality(Stops(mq'["server"])) =
                Cardinality(Stops(mq["server"])) + IF at = "stopping" THEN 1 ELSE 0
  BY <1>5, <1>6, <1>7, <1>8
<1>12. IF at = "exited" THEN pc[c] = "stopping" ELSE pc[c] \notin Leaving
  BY <1>9
<1> QED BY <1>1, <1>4, <1>9, <1>10, <1>11, <1>12, ClientMoves, ZenonT(60)

\* A client that dies before it has sent anything, or with its id.
LEMMA ClientFails ==
    ASSUME IInv, NEW c \in Clients, pc[c] \in WithId \cup {"new"}, Fails(c),
           client_id' = client_id, connected' = connected, commands' \in 0 .. MaxCommands
    PROVE  IInv'
<1> USE Constants
<1>1. /\ pc' = [pc EXCEPT ![c] = "failed"] /\ open' = open \ {c} /\ UNCHANGED serverVars
      /\ mq' = Emptied(mq, c)
  BY DEF Fails
<1>2. /\ mq["server"] \in Seq(ServerMail) /\ DOMAIN mq = Names
      /\ \A d \in Clients : mq[d] \in Seq(ClientMail)
  BY DEF IInv, Mail
<1>3. /\ DOMAIN mq' = Names /\ mq'["server"] = mq["server"] /\ mq'[c] = <<>>
      /\ \A d \in Clients : d # c => mq'[d] = mq[d]
  BY <1>1, <1>2 DEF Emptied
<1>4. /\ \A d \in Clients : mq'[d] \in Seq(ClientMail)
      /\ \A d \in Clients : d # c => Longer(mq[d], mq'[d])
      /\ Longer(mq["server"], mq'["server"]) /\ Len(mq["server"]) \in Nat
  <2>1. \A d \in Clients : Len(mq[d]) \in Nat
    BY <1>2, LenProperties
  <2>2. Len(mq["server"]) \in Nat
    BY <1>2, LenProperties
  <2>3. \A d \in Clients : mq'[d] \in Seq(ClientMail)
    BY <1>2, <1>3, EmptySeq, ZenonT(60)
  <2>4. Longer(mq["server"], mq'["server"])
    BY <1>3, <2>2 DEF Longer
  <2>5. ASSUME NEW d \in Clients, d # c PROVE Longer(mq[d], mq'[d])
    BY <1>3, <2>1, <2>5 DEF Longer
  <2> QED BY <2>2, <2>3, <2>4, <2>5
<1>5. Cardinality(Stops(mq["server"])) \in Nat
  BY <1>2, StopsFinite
<1>6. Known(c) <=> client_id[c] > 0
  BY DEF Known, WithId
<1>7. /\ client_id \in [Clients -> {-1} \cup Given] /\ Partners(connected)
  BY DEF IInv, Acquainted, TypeOK, Partners, Given
<1>8. pc[c] # "init" /\ pc[c] \notin Leaving
  BY DEF WithId, Leaving
<1> DEFINE label == "failed"
<1>9. /\ label \in WithId \cup {"stopping", "exited", "failed"} /\ label # "exited"
      /\ label \notin WithId \cup {"stopping"} /\ label \in {"exited", "failed"}
  BY DEF WithId
<1>10. /\ pc' = [pc EXCEPT ![c] = label]
       /\ open' = IF label \in {"exited", "failed"} THEN open \ {c} ELSE open
  BY <1>1
<1>11. /\ \A k \in 1 .. Len(mq'["server"]) : k > Len(mq["server"]) => mq'["server"][k].type # INIT
       /\ Cardinality(Stops(mq'["server"])) =
             Cardinality(Stops(mq["server"])) + IF label = "stopping" THEN 1 ELSE 0
  BY <1>3, <1>4, <1>5
<1> HIDE DEF label
<1> QED BY <1>1, <1>2, <1>3, <1>4, <1>6, <1>7, <1>8, <1>9, <1>10, <1>11, ClientMoves, ZenonT(60)

\* A message a client takes, and its queue without it.
LEMMA ClientTakes ==
    ASSUME IInv, NEW c \in Clients, NEW types \in SUBSET Nat, Waiting(c, types) # {},
           NEW m, NEW r, m = Received(c, types), r = Without(c, types)
    PROVE  /\ m \in ClientMail /\ m.type \in types
           /\ \A q \in Names : q # c => r[q] = mq[q]
           /\ r[c] \in Seq(ClientMail)
<1> USE Constants
<1>1. mq[c] \in Seq(ClientMail) /\ DOMAIN mq = Names
  BY DEF IInv, Mail
<1>2. Place(c, types) \in 1 .. Len(mq[c]) /\ m \in ClientMail /\ m.type \in types
  BY <1>1, PlaceFound
<1>3. r[c] = RemoveAt(mq[c], Place(c, types)) /\ \A q \in Names : q # c => r[q] = mq[q]
  BY <1>1 DEF Without
<1>4. r[c] \in Seq(ClientMail)
  BY <1>1, <1>2, <1>3, Removal
<1> QED BY <1>2, <1>3, <1>4

\* Messages of the clients.
LEMMA ClientLetters ==
    ASSUME NEW i \in Given, NEW j \in Given, NEW k \in Ids
    PROVE  /\ Message(LIST, i, <<>>) \in ServerMail /\ Message(LIST, i, <<>>).type = LIST
           /\ Message(CONNECT, i, <<j>>) \in ServerMail /\ Message(CONNECT, i, <<j>>).type = CONNECT
           /\ Message(DISCONNECT, i, <<k>>) \in ServerMail /\ Message(DISCONNECT, i, <<k>>).type = DISCONNECT
           /\ Message(DISCONNECT, i, <<k>>) \in ClientMail
           /\ Message(RESPONSE, i, <<>>) \in ClientMail
           /\ Message(STOP, i, <<>>) \in ServerMail /\ Message(STOP, i, <<>>).type = STOP
           /\ Message(STOP, i, <<j>>) \in ServerMail /\ Message(STOP, i, <<j>>).type = STOP
<1> USE Constants DEF Message, Messages, AnyType, RESPONSE, STOP, DISCONNECT, LIST, CONNECT, INIT, FINISH
<1>1. \A x \in Ids : <<x>> \in Seq(Ids) /\ Len(<<x>>) = 1 /\ <<x>>[1] = x
  OBVIOUS
<1>2. <<>> \in Seq(Ids) /\ Len(<<>>) = 0
  OBVIOUS
<1>3. j \in Ids
  OBVIOUS
<1>4. /\ Message(LIST, i, <<>>) \in ServerMail /\ Message(CONNECT, i, <<j>>) \in ServerMail
      /\ Message(DISCONNECT, i, <<k>>) \in ServerMail
  BY <1>1, <1>2, <1>3 DEF ServerMail
<1>5. Message(STOP, i, <<>>) \in ServerMail /\ Message(STOP, i, <<j>>) \in ServerMail
  BY <1>1, <1>2, <1>3 DEF ServerMail
<1>6. Message(DISCONNECT, i, <<k>>) \in ClientMail /\ Message(RESPONSE, i, <<>>) \in ClientMail
  BY <1>1, <1>2 DEF ClientMail
<1> QED BY <1>4, <1>5, <1>6

\* The client has taken a message, or none, and sends nothing.
LEMMA ClientGoesOn ==
    ASSUME IInv, NEW c \in Clients, NEW label \in WithId, NEW queues,
           ClientSends(c, queues, <<>>, label),
           Known(c), pc[c] \in WithId \cup {"init"},
           client_id' \in [Clients -> {-1} \cup Given], client_id'[c] > 0,
           \A d \in Clients : d # c => client_id'[d] = client_id[d],
           Partners(connected'), commands' \in 0 .. MaxCommands,
           \A q \in Names : q # c => queues[q] = mq[q],
           queues[c] \in Seq(ClientMail)
    PROVE  IInv'
<1> DEFINE sends == <<>>
<1>1. DOMAIN sends = {} /\ DOMAIN sends \subseteq 1 .. 0 /\ 0 \in Nat
  OBVIOUS
<1>2. ClientSends(c, queues, sends, label)
  OBVIOUS
<1>3. label \in WithId \cup {"stopping"} /\ label # "stopping"
  BY DEF WithId
<1> HIDE DEF sends
<1> QED BY <1>1, <1>2, <1>3, ClientSent

\* The client stops, with a message taken or not.
LEMMA ClientStops ==
    ASSUME IInv, NEW c \in Clients, pc[c] \in WithId, NEW queues, stop(c, queues),
           UNCHANGED <<client_id, connected, commands>>,
           \A q \in Names : q # c => queues[q] = mq[q],
           queues[c] \in Seq(ClientMail)
    PROVE  IInv'
<1> USE Constants
<1> DEFINE msg == Message(STOP, client_id[c],
                          IF connected[c].q # None THEN <<connected[c].id>> ELSE <<>>)
           sends == <<Letter("server", msg)>>
           label == "stopping"
<1>1. ClientSends(c, queues, sends, label)
  BY DEF stop
<1>2. /\ Known(c) /\ client_id[c] \in Given /\ client_id[c] > 0 /\ Partners(connected)
      /\ client_id \in [Clients -> {-1} \cup Given] /\ commands \in 0 .. MaxCommands
  BY HasId
<1>3. msg \in ServerMail /\ msg.type = STOP
  <2>1. connected[c].id \in Given
    BY <1>2 DEF Partners
  <2>2. CASE connected[c].q # None
    BY <1>2, <2>1, <2>2, ClientLetters
  <2>3. CASE connected[c].q = None
    BY <1>2, <2>1, <2>3, ClientLetters
  <2> QED BY <2>2, <2>3
<1> HIDE DEF msg
<1>4. /\ DOMAIN sends = {1} /\ DOMAIN sends \subseteq 1 .. 1 /\ 1 \in Nat
      /\ sends[1].to = "server" /\ sends[1].msg = msg
  BY DEF Letter
<1>5. label \in WithId \cup {"stopping"} /\ label = "stopping" /\ STOP # INIT
  BY DEF STOP, INIT
<1> HIDE DEF sends, label
<1>6. /\ \A i \in DOMAIN sends : sends[i].to \notin Clients
      /\ \A i \in DOMAIN sends : sends[i].msg \in ServerMail /\ sends[i].msg.type # INIT
      /\ sends[1].msg.type = STOP
  BY <1>3, <1>4, <1>5
<1>7. /\ client_id' = client_id /\ connected' = connected /\ commands' = commands
      /\ pc[c] \in WithId \cup {"init"}
  OBVIOUS
<1> QED BY <1>1, <1>2, <1>4, <1>5, <1>6, <1>7, ClientSent

LEMMA StartStep ==
    ASSUME IInv, NEW c \in Clients, Start(c)
    PROVE  IInv'
<1> USE Constants
<1>1. pc[c] = "new" /\ client_id' = client_id /\ connected' = connected /\ commands' = commands
  BY DEF Start
<1>2. CASE "server" \notin open
  <2>1. Fails(c) /\ commands' \in 0 .. MaxCommands
    BY <1>1, <1>2 DEF Start, IInv, TypeOK
  <2> QED BY <1>1, <2>1, ClientFails
<1>3. CASE "server" \in open
  <2> DEFINE msg == Message(INIT, c, <<>>)
             sends == <<Letter("server", msg)>>
             s == mq["server"]
  <2>1. /\ pc' = [pc EXCEPT ![c] = "init"] /\ open' = open \cup {c} /\ UNCHANGED serverVars
        /\ mq' = Post(mq, sends)
    BY <1>3 DEF Start
  <2>2. /\ table' = table /\ counter' = counter /\ current' = current
        /\ starting' = starting /\ server' = server
    BY <2>1 DEF serverVars
  <2>3. msg \in ServerMail /\ msg.type = INIT /\ msg.sender = c
    BY DEF Message, ServerMail, Messages, AnyType, STOP, DISCONNECT, LIST, CONNECT, INIT, RESPONSE
  <2>4. /\ DOMAIN sends = {1} /\ DOMAIN sends \subseteq 1 .. 1 /\ 1 \in DOMAIN sends
        /\ sends[1].to = "server" /\ sends[1].msg = msg
    BY DEF Letter
  <2> HIDE DEF msg, sends
  <2>5. /\ s \in Seq(ServerMail) /\ InitsWait /\ DOMAIN mq' = Names
        /\ \A d \in Clients : mq[d] \in Seq(ClientMail)
    BY <2>1 DEF IInv, Mail, Post
  <2>6. mq'["server"] = Append(s, msg)
    <3>1. \A k \in DOMAIN sends : k <= 1 => sends[k].to \in open
      BY <1>3, <2>4
    <3>2. \A i \in DOMAIN sends : sends[i].to = "server" => i = 1
      BY <2>4
    <3>3. Post(mq, sends)["server"] = Append(mq["server"], sends[1].msg)
      BY <2>3, <2>4, <2>5, <3>1, <3>2, PostOne
    <3> QED BY <2>1, <2>4, <3>3
  <2>7. ASSUME NEW d \in Clients PROVE mq'[d] = mq[d]
    <3>1. mq[d] \in Seq(ClientMail) /\ \A i \in DOMAIN sends : sends[i].to # d
      BY <2>4, <2>5
    <3>2. \A i \in DOMAIN sends : sends[i].to = d => sends[i].msg \in ClientMail
      BY <3>1
    <3>3. 1 \in Nat /\ d \in Names
      OBVIOUS
    <3>4. Post(mq, sends)[d] = mq[d]
      BY <2>4, <3>1, <3>2, <3>3, PostSends
    <3> QED BY <2>1, <3>4
  <2> HIDE DEF s
  <2>8. /\ Len(s) \in Nat /\ mq'["server"] \in Seq(ServerMail)
        /\ Len(mq'["server"]) = Len(s) + 1
        /\ \A i \in 1 .. Len(s) : mq'["server"][i] = s[i]
        /\ mq'["server"][Len(s) + 1] = msg
    BY <2>3, <2>5, <2>6, AppendProperties, LenProperties
  <2>9. pc'[c] = "init" /\ \A d \in Clients : d # c => pc'[d] = pc[d]
    BY <2>1 DEF IInv, TypeOK
  <2>10. client_id[c] = -1 /\ Len(mq[c]) = 0 /\ ~Known(c)
    BY <1>1 DEF IInv, Introduced, Known
  <2>11. \A d \in Clients : Known(d)' <=> Known(d)
    BY <1>1, <2>7, <2>9, <2>10 DEF Known
  <2>12. Mail'
    <3>1. \A d \in Clients : mq'[d] \in Seq(ClientMail')
      BY <2>5, <2>7, <2>11, OffersStand, SeqMonotonic
    <3>2. ServerMail' = ServerMail
      BY DEF ServerMail, Messages, AnyType, Ids, Given
    <3> QED BY <2>5, <2>8, <3>1, <3>2 DEF Mail
  <2>13. TypeOK'
    BY <1>1, <2>1, <2>2 DEF IInv, TypeOK, Ids
  <2>14. QueuesOpen'
    BY <2>1, <2>2, <2>9 DEF IInv, QueuesOpen, Running
  <2>15. Introduced'
    <3> SUFFICES ASSUME NEW d \in Clients
                 PROVE  /\ pc'[d] \in WithId => client_id[d] > 0
                        /\ pc'[d] \in {"new", "init"} => client_id[d] = -1
                        /\ pc'[d] = "new" => Len(mq[d]) = 0
                        /\ pc'[d] = "init" /\ Len(mq[d]) > 0 =>
                              mq[d][1].type = RESPONSE /\ mq[d][1].sender \in Given
      BY <1>1, <2>7 DEF Introduced, Given, RESPONSE, WithId
    <3>1. CASE d = c
      BY <2>9, <2>10, <3>1 DEF WithId
    <3>2. CASE d # c
      BY <2>9, <3>2 DEF IInv, Introduced
    <3> QED BY <3>1, <3>2
  <2>16. Acquainted'
    <3>1. TableOk(table)'
      BY <2>2, <2>11 DEF IInv, Acquainted, TableOk, Ids
    <3> QED BY <1>1, <2>11, <3>1 DEF IInv, Acquainted, Given
  <2>17. InitsWait'
    <3>1. ASSUME NEW i \in 1 .. Len(s), s[i].type = INIT
          PROVE  /\ pc'[s[i].sender] = "init" /\ Len(mq'[s[i].sender]) = 0
                 /\ s[i].sender # c
      <4>1. s[i] \in ServerMail
        BY <2>5, ElementOfSeq
      <4>2. s[i].sender \in Clients /\ pc[s[i].sender] = "init" /\ Len(mq[s[i].sender]) = 0
        BY <2>5, <3>1, <4>1 DEF InitsWait, Waits, ServerMail, s
      <4> QED BY <1>1, <2>7, <2>9, <4>2
    <3>2. \A i, j \in 1 .. Len(s) :
             s[i].type = INIT /\ s[j].type = INIT /\ s[i].sender = s[j].sender => i = j
      BY <2>5 DEF InitsWait, Waits, s
    <3>3. pc'[c] = "init" /\ Len(mq'[c]) = 0
      BY <2>7, <2>9, <2>10
    <3>4. \A i \in 1 .. Len(mq'["server"]) : i \in 1 .. Len(s) \/ i = Len(s) + 1
      BY <2>8
    <3> DEFINE t == mq'["server"]
    <3>5. ASSUME NEW i \in 1 .. Len(t), t[i].type = INIT
          PROVE  pc'[t[i].sender] = "init" /\ Len(mq'[t[i].sender]) = 0
      <4>1. CASE i \in 1 .. Len(s)
        <5>1. t[i] = s[i]
          BY <2>8, <4>1
        <5> QED BY <3>1, <3>5, <4>1, <5>1
      <4>2. CASE i = Len(s) + 1
        <5>1. t[i].sender = c
          BY <2>3, <2>8, <4>2
        <5> QED BY <3>3, <5>1
      <4> QED BY <3>4, <4>1, <4>2
    <3>6. \A i, j \in 1 .. Len(t) :
             t[i].type = INIT /\ t[j].type = INIT /\ t[i].sender = t[j].sender => i = j
      BY <2>3, <2>8, <3>1, <3>2, <3>4
    <3> QED BY <3>5, <3>6 DEF InitsWait, Waits, INIT
  <2>18. Counted'
    <3>1. Present' = Present
      BY <2>9, <2>10, <2>11 DEF Present, Leaving
    <3>2. Cardinality(Stops(mq'["server"])) = Cardinality(Stops(s))
      <4>1. Cardinality(Stops(Append(s, msg))) = Cardinality(Stops(s)) + IF msg.type = STOP THEN 1 ELSE 0
        BY <2>3, <2>5, StopsAppend
      <4>2. msg.type # STOP /\ Cardinality(Stops(s)) \in Nat
        BY <2>3, <2>5, StopsFinite DEF INIT, STOP
      <4> QED BY <2>6, <4>1, <4>2
    <3> QED BY <2>2, <3>1, <3>2 DEF IInv, Counted, Stops, STOP, s
  <2> QED BY <2>12, <2>13, <2>14, <2>15, <2>16, <2>17, <2>18 DEF IInv
<1> QED BY <1>2, <1>3

LEMMA ExitStep ==
    ASSUME IInv, NEW c \in Clients, Exit(c)
    PROVE  IInv'
<1> USE Constants
<1> DEFINE label == "exited"
<1>1. /\ pc[c] = "stopping" /\ pc' = [pc EXCEPT ![c] = label] /\ open' = open \ {c}
      /\ mq' = Emptied(mq, c) /\ UNCHANGED serverVars
      /\ client_id' = client_id /\ connected' = connected /\ commands' = commands
  BY DEF Exit
<1>2. /\ mq["server"] \in Seq(ServerMail) /\ DOMAIN mq = Names
      /\ \A d \in Clients : mq[d] \in Seq(ClientMail)
  BY DEF IInv, Mail
<1>3. /\ DOMAIN mq' = Names /\ mq'["server"] = mq["server"] /\ mq'[c] = <<>>
      /\ \A d \in Clients : d # c => mq'[d] = mq[d]
  BY <1>1, <1>2 DEF Emptied
<1>4. /\ \A d \in Clients : mq'[d] \in Seq(ClientMail)
      /\ \A d \in Clients : d # c => Longer(mq[d], mq'[d])
      /\ Longer(mq["server"], mq'["server"]) /\ Len(mq["server"]) \in Nat
  <2>1. \A d \in Clients : Len(mq[d]) \in Nat
    BY <1>2, LenProperties
  <2>2. Len(mq["server"]) \in Nat
    BY <1>2, LenProperties
  <2>3. \A d \in Clients : mq'[d] \in Seq(ClientMail)
    BY <1>2, <1>3, EmptySeq
  <2>4. Longer(mq["server"], mq'["server"])
    BY <1>3, <2>2 DEF Longer
  <2>5. ASSUME NEW d \in Clients, d # c PROVE Longer(mq[d], mq'[d])
    BY <1>3, <2>1, <2>5 DEF Longer
  <2> QED BY <2>2, <2>3, <2>4, <2>5
<1>5. Cardinality(Stops(mq["server"])) \in Nat
  BY <1>2, StopsFinite
<1>6. Known(c) <=> client_id[c] > 0
  BY <1>1 DEF Known
<1>7. /\ client_id \in [Clients -> {-1} \cup Given] /\ Partners(connected)
      /\ commands' \in 0 .. MaxCommands
  BY <1>1 DEF IInv, Acquainted, TypeOK, Partners, Given
<1>8. /\ label \in WithId \cup {"stopping", "exited", "failed"} /\ label = "exited"
      /\ label \notin WithId \cup {"stopping"} /\ label \in {"exited", "failed"}
      /\ open' = IF label \in {"exited", "failed"} THEN open \ {c} ELSE open
      /\ IF label = "exited" THEN pc[c] = "stopping" ELSE pc[c] \notin Leaving
  BY <1>1 DEF WithId
<1>9. /\ \A k \in 1 .. Len(mq'["server"]) : k > Len(mq["server"]) => mq'["server"][k].type # INIT
      /\ Cardinality(Stops(mq'["server"])) =
            Cardinality(Stops(mq["server"])) + IF label = "stopping" THEN 1 ELSE 0
  BY <1>3, <1>4, <1>5
<1>10. pc[c] # "init"
  BY <1>1
<1> HIDE DEF label
<1> QED BY <1>1, <1>2, <1>3, <1>4, <1>6, <1>7, <1>8, <1>9, <1>10, ClientMoves

LEMMA RegisteredStep ==
    ASSUME IInv, NEW c \in Clients, Registered(c)
    PROVE  IInv'
<1> USE Constants
<1>1. PICK m, r : m = Received(c, {RESPONSE}) /\ r = Without(c, {RESPONSE})
  OBVIOUS
<1> DEFINE types == {RESPONSE}
<1>2. /\ pc[c] = "init" /\ Waiting(c, types) # {} /\ connected' = connected /\ commands' = commands
      /\ m.sender > 0 =>
            /\ client_id' = [client_id EXCEPT ![c] = m.sender]
            /\ ClientSends(c, r, <<>>, "check")
  BY <1>1 DEF Registered
<1>3. types \in SUBSET Nat /\ \A t \in types : types = {t} /\ t = RESPONSE
  BY DEF RESPONSE
<1>4. mq[c] \in Seq(ClientMail) /\ Len(mq[c]) \in Nat
  BY LenProperties DEF IInv, Mail
<1> HIDE DEF types
<1>5. m \in ClientMail /\ r[c] \in Seq(ClientMail) /\ \A q \in Names : q # c => r[q] = mq[q]
  <2>1. m = Received(c, types) /\ r = Without(c, types)
    BY <1>1 DEF types
  <2> QED BY <1>2, <1>3, <2>1, ClientTakes
<1>6. Place(c, types) \in 1 .. Len(mq[c]) /\ m = mq[c][Place(c, types)] /\ m.type = RESPONSE
      /\ \A j \in 1 .. Len(mq[c]) : mq[c][j].type = RESPONSE => Place(c, types) <= j
  <2>1. m = Received(c, types)
    BY <1>1 DEF types
  <2>2. /\ Place(c, types) \in 1 .. Len(mq[c])
        /\ Received(c, types).type \in types
        /\ Received(c, types) = mq[c][Place(c, types)]
        /\ \A t \in types : types = {t} =>
              \A j \in 1 .. Len(mq[c]) : mq[c][j].type = t => Place(c, types) <= j
    BY <1>2, <1>3, <1>4, PlaceFound
  <2> QED BY <1>3, <2>1, <2>2
<1>7. mq[c][1].type = RESPONSE /\ mq[c][1].sender \in Given /\ Len(mq[c]) > 0
  <2>1. Len(mq[c]) > 0
    BY <1>4, <1>6
  <2> QED BY <1>2, <2>1 DEF IInv, Introduced
<1>8. Place(c, types) = 1 /\ m.sender \in Given
  <2>1. 1 \in 1 .. Len(mq[c])
    BY <1>4, <1>7
  <2>2. Place(c, types) <= 1
    BY <1>6, <1>7, <2>1
  <2>3. Place(c, types) = 1
    BY <1>4, <1>6, <2>2
  <2> QED BY <1>6, <1>7, <2>3
<1>9. m.sender > 0
  BY <1>8 DEF Given
<1>10. Known(c)
  BY <1>2, <1>7 DEF Known
<1>11. /\ client_id \in [Clients -> {-1} \cup Given] /\ Partners(connected)
       /\ commands \in 0 .. MaxCommands
  BY DEF IInv, Acquainted, TypeOK, Partners, Given
<1>12. /\ client_id' \in [Clients -> {-1} \cup Given] /\ client_id'[c] > 0
       /\ \A d \in Clients : d # c => client_id'[d] = client_id[d]
  BY <1>2, <1>8, <1>9, <1>11
<1>13. Partners(connected') /\ commands' \in 0 .. MaxCommands /\ pc[c] \in WithId \cup {"init"}
  BY <1>2, <1>11
<1> DEFINE label == "check"
<1>14. label \in WithId /\ ClientSends(c, r, <<>>, label)
  BY <1>2, <1>9 DEF WithId
<1> HIDE DEF label
<1> QED BY <1>5, <1>10, <1>12, <1>13, <1>14, ClientGoesOn

\* A partner that is known, or none.
LEMMA NewPartner ==
    ASSUME IInv, Partners(connected), NEW c \in Clients, NEW p \in Clients \cup {None}, NEW i \in Given,
           p \in Clients => Known(p), NEW k,
           k = [connected EXCEPT ![c] = [q |-> p, id |-> i]] \/ k = [connected EXCEPT ![c].q = p]
    PROVE  Partners(k)
<1>1. /\ connected \in [Clients -> [q : Clients \cup {None}, id : Ids]]
      /\ \A d \in Clients : (connected[d].q \in Clients => Known(connected[d].q)) /\ connected[d].id \in Given
  BY DEF Partners
<1>2. /\ k[c] = [q |-> p, id |-> i] \/ k[c] = [q |-> p, id |-> connected[c].id]
      /\ \A d \in Clients : d # c => k[d] = connected[d]
      /\ DOMAIN k = Clients /\ k = [d \in Clients |-> k[d]]
  <2>1. connected[c] \in [q : Clients \cup {None}, id : Ids]
    BY <1>1
  <2>2. [connected[c] EXCEPT !.q = p] = [q |-> p, id |-> connected[c].id]
    BY <2>1
  <2> QED BY <1>1, <2>2
<1>3. \A d \in Clients : /\ k[d] \in [q : Clients \cup {None}, id : Ids]
                         /\ k[d].q \in Clients => Known(k[d].q)
                         /\ k[d].id \in Given
  BY <1>1, <1>2, Constants
<1> QED BY <1>2, <1>3 DEF Partners

LEMMA CheckStep ==
    ASSUME IInv, NEW c \in Clients, check_msg(c)
    PROVE  IInv'
<1> USE Constants
<1>1. PICK m, r : m = Received(c, AnyType) /\ r = Without(c, AnyType)
  OBVIOUS
<1> DEFINE label == "prompt"
<1>2. /\ pc[c] = "check" /\ client_id' = client_id /\ commands' = commands
      /\ \/ /\ ClientSends(c, mq, <<>>, label) /\ connected' = connected
         \/ /\ Waiting(c, AnyType) # {} /\ m.type = CONNECT
            /\ IF m.sender \in open
               THEN /\ connected' = [connected EXCEPT ![c] = [q |-> m.sender, id |-> m.body[1]]]
                    /\ ClientSends(c, r, <<>>, label)
               ELSE connected' = connected /\ Fails(c)
         \/ /\ Waiting(c, AnyType) # {} /\ connected' = [connected EXCEPT ![c].q = None]
            /\ ClientSends(c, r, <<>>, label)
         \/ /\ Waiting(c, AnyType) # {} /\ stop(c, r) /\ connected' = connected
         \/ /\ Waiting(c, AnyType) # {} /\ ClientSends(c, r, <<>>, label) /\ connected' = connected
  BY <1>1 DEF check_msg, connect_to
<1>3. label \in WithId /\ pc[c] \in WithId /\ pc[c] \in WithId \cup {"init"}
  BY <1>2 DEF WithId
<1>4. /\ Known(c) /\ client_id[c] \in Given /\ client_id[c] > 0 /\ Partners(connected)
      /\ client_id \in [Clients -> {-1} \cup Given] /\ commands \in 0 .. MaxCommands
  BY <1>3, HasId
<1> HIDE DEF label
<1>5. mq[c] \in Seq(ClientMail) /\ AnyType \in SUBSET Nat
  BY DEF IInv, Mail, AnyType
<1>6. Waiting(c, AnyType) # {} =>
         m \in ClientMail /\ r[c] \in Seq(ClientMail) /\ \A q \in Names : q # c => r[q] = mq[q]
  <2> SUFFICES ASSUME Waiting(c, AnyType) # {}
               PROVE  /\ m \in ClientMail /\ r[c] \in Seq(ClientMail)
                      /\ \A q \in Names : q # c => r[q] = mq[q]
    OBVIOUS
  <2> QED BY <1>1, <1>5, ClientTakes
<1>7. CASE ClientSends(c, mq, <<>>, label) /\ connected' = connected
  BY <1>2, <1>3, <1>4, <1>5, <1>7, ClientGoesOn
<1>8. CASE /\ Waiting(c, AnyType) # {} /\ m.type = CONNECT
           /\ IF m.sender \in open
              THEN /\ connected' = [connected EXCEPT ![c] = [q |-> m.sender, id |-> m.body[1]]]
                   /\ ClientSends(c, r, <<>>, label)
              ELSE connected' = connected /\ Fails(c)
  <2>1. /\ m.sender \in Clients \cup {None} /\ (m.sender \in Clients => Known(m.sender))
        /\ m.body[1] \in Given
    BY <1>6, <1>8 DEF ClientMail
  <2>2. CASE m.sender \in open
    <3>1. Partners(connected')
      BY <1>4, <1>8, <2>1, <2>2, NewPartner
    <3> QED BY <1>2, <1>3, <1>4, <1>6, <1>8, <2>2, <3>1, ClientGoesOn
  <2>3. CASE m.sender \notin open
    <3>1. pc[c] \in WithId \cup {"new"} /\ Fails(c) /\ connected' = connected
          /\ commands' \in 0 .. MaxCommands
      BY <1>2, <1>3, <1>4, <1>8, <2>3
    <3> QED BY <1>2, <3>1, ClientFails
  <2> QED BY <2>2, <2>3
<1>9. CASE /\ Waiting(c, AnyType) # {} /\ connected' = [connected EXCEPT ![c].q = None]
           /\ ClientSends(c, r, <<>>, label)
  <2>1. Partners(connected')
    BY <1>4, <1>9 DEF Partners
  <2> QED BY <1>2, <1>3, <1>4, <1>6, <1>9, <2>1, ClientGoesOn
<1>10. CASE Waiting(c, AnyType) # {} /\ stop(c, r) /\ connected' = connected
  BY <1>2, <1>3, <1>6, <1>10, ClientStops
<1>11. CASE Waiting(c, AnyType) # {} /\ ClientSends(c, r, <<>>, label) /\ connected' = connected
  BY <1>2, <1>3, <1>4, <1>6, <1>11, ClientGoesOn
<1> QED BY <1>2, <1>7, <1>8, <1>9, <1>10, <1>11

LEMMA AnsweredStep ==
    ASSUME IInv, NEW c \in Clients, Answered(c)
    PROVE  IInv'
<1> USE Constants
<1>1. PICK m, r : m = Received(c, AnyType) /\ r = Without(c, AnyType)
  OBVIOUS
<1> DEFINE label == "check"
<1>2. /\ pc[c] \in {"list", "connect"} /\ client_id' = client_id /\ commands' = commands
      /\ Waiting(c, AnyType) # {}
      /\ \/ stop(c, r) /\ connected' = connected
         \/ /\ m.type = CONNECT
            /\ IF m.sender \in open
               THEN /\ connected' = [connected EXCEPT ![c].q = m.sender]
                    /\ ClientSends(c, r, <<>>, label)
               ELSE connected' = connected /\ Fails(c)
         \/ ClientSends(c, r, <<>>, label) /\ connected' = connected
  BY <1>1 DEF Answered
<1>3. label \in WithId /\ pc[c] \in WithId /\ pc[c] \in WithId \cup {"init"}
  BY <1>2 DEF WithId
<1>4. /\ Known(c) /\ client_id[c] \in Given /\ client_id[c] > 0 /\ Partners(connected)
      /\ client_id \in [Clients -> {-1} \cup Given] /\ commands \in 0 .. MaxCommands
  BY <1>3, HasId
<1> HIDE DEF label
<1>5. m \in ClientMail /\ r[c] \in Seq(ClientMail) /\ \A q \in Names : q # c => r[q] = mq[q]
  <2>1. AnyType \in SUBSET Nat
    BY DEF AnyType
  <2> QED BY <1>1, <1>2, <2>1, ClientTakes
<1>6. CASE stop(c, r) /\ connected' = connected
  BY <1>2, <1>3, <1>5, <1>6, ClientStops
<1>7. CASE /\ m.type = CONNECT
           /\ IF m.sender \in open
              THEN /\ connected' = [connected EXCEPT ![c].q = m.sender]
                   /\ ClientSends(c, r, <<>>, label)
              ELSE connected' = connected /\ Fails(c)
  <2>1. m.sender \in Clients \cup {None} /\ (m.sender \in Clients => Known(m.sender))
    BY <1>5, <1>7 DEF ClientMail
  <2>2. CASE m.sender \in open
    <3>1. Partners(connected')
      BY <1>2, <1>4, <1>7, <2>1, <2>2, NewPartner
    <3> QED BY <1>2, <1>3, <1>4, <1>5, <1>7, <2>2, <3>1, ClientGoesOn
  <2>3. CASE m.sender \notin open
    <3>1. pc[c] \in WithId \cup {"new"} /\ Fails(c) /\ connected' = connected
          /\ commands' \in 0 .. MaxCommands
      BY <1>2, <1>3, <1>4, <1>7, <2>3
    <3> QED BY <1>2, <3>1, ClientFails
  <2> QED BY <2>2, <2>3
<1>8. CASE ClientSends(c, r, <<>>, label) /\ connected' = connected
  BY <1>2, <1>3, <1>4, <1>5, <1>8, ClientGoesOn
<1> QED BY <1>2, <1>6, <1>7, <1>8

\* The commands.
LEMMA ListCommand ==
    ASSUME IInv, NEW c \in Clients, list(c)
    PROVE  IInv'
<1> USE Constants
<1> DEFINE msg == Message(LIST, client_id[c], <<>>)
           sends == <<Letter("server", msg)>>
           label == "list"
<1>1. /\ pc[c] = "prompt" /\ commands < MaxCommands /\ commands' = commands + 1
      /\ client_id' = client_id /\ connected' = connected /\ ClientSends(c, mq, sends, label)
  BY DEF list, Command
<1>2. label \in WithId \cup {"stopping"} /\ label # "stopping" /\ pc[c] \in WithId /\ pc[c] \in WithId \cup {"init"}
  BY <1>1 DEF WithId
<1>3. /\ Known(c) /\ client_id[c] \in Given /\ client_id[c] > 0 /\ Partners(connected)
      /\ client_id \in [Clients -> {-1} \cup Given] /\ commands \in 0 .. MaxCommands
  BY <1>2, HasId
<1>4. msg \in ServerMail /\ msg.type = LIST /\ LIST # INIT /\ LIST # STOP
  <2>1. client_id[c] \in Ids
    BY <1>3
  <2>2. msg \in ServerMail /\ msg.type = LIST
    BY <1>3, <2>1, ClientLetters
  <2>3. LIST # INIT /\ LIST # STOP
    BY DEF LIST, INIT, STOP
  <2> QED BY <2>2, <2>3
<1> HIDE DEF msg
<1>5. /\ DOMAIN sends \subseteq 1 .. 1 /\ 1 \in Nat
      /\ \A i \in DOMAIN sends : sends[i].to = "server" /\ sends[i].msg = msg
  BY DEF Letter
<1>6. commands' \in 0 .. MaxCommands /\ Partners(connected') /\ mq[c] \in Seq(ClientMail)
  BY <1>1, <1>3, ChatAssumption DEF IInv, Mail
<1> HIDE DEF sends, label
<1> QED BY <1>1, <1>2, <1>3, <1>4, <1>5, <1>6, ClientSent

LEMMA ConnectCommand ==
    ASSUME IInv, NEW c \in Clients, connect(c)
    PROVE  IInv'
<1> USE Constants
<1>1. PICK j \in Given : /\ connected' = [connected EXCEPT ![c].id = j]
                         /\ ClientSends(c, mq, <<Letter("server", Message(CONNECT, client_id[c], <<j>>))>>, "connect")
  BY DEF connect, Given
<1> DEFINE msg == Message(CONNECT, client_id[c], <<j>>)
           sends == <<Letter("server", msg)>>
           label == "connect"
<1>2. /\ pc[c] = "prompt" /\ commands < MaxCommands /\ commands' = commands + 1
      /\ client_id' = client_id /\ ClientSends(c, mq, sends, label)
  BY <1>1 DEF connect, Command
<1>3. label \in WithId \cup {"stopping"} /\ label # "stopping" /\ pc[c] \in WithId /\ pc[c] \in WithId \cup {"init"}
  BY <1>2 DEF WithId
<1>4. /\ Known(c) /\ client_id[c] \in Given /\ client_id[c] > 0 /\ Partners(connected)
      /\ client_id \in [Clients -> {-1} \cup Given] /\ commands \in 0 .. MaxCommands
  BY <1>3, HasId
<1>5. msg \in ServerMail /\ msg.type = CONNECT /\ CONNECT # INIT /\ CONNECT # STOP
  <2>1. client_id[c] \in Ids
    BY <1>4
  <2>2. msg \in ServerMail /\ msg.type = CONNECT
    BY <1>4, <2>1, ClientLetters
  <2>3. CONNECT # INIT /\ CONNECT # STOP
    BY DEF CONNECT, INIT, STOP
  <2> QED BY <2>2, <2>3
<1> HIDE DEF msg
<1>6. /\ DOMAIN sends \subseteq 1 .. 1 /\ 1 \in Nat
      /\ \A i \in DOMAIN sends : sends[i].to = "server" /\ sends[i].msg = msg
  BY DEF Letter
<1>7. commands' \in 0 .. MaxCommands /\ mq[c] \in Seq(ClientMail)
  BY <1>2, <1>4, ChatAssumption DEF IInv, Mail
<1>8. Partners(connected')
  BY <1>1, <1>4 DEF Partners
<1> HIDE DEF sends, label
<1> QED BY <1>2, <1>3, <1>4, <1>5, <1>6, <1>7, <1>8, ClientSent

LEMMA DisconnectCommand ==
    ASSUME IInv, NEW c \in Clients, disconnect(c)
    PROVE  IInv'
<1> USE Constants
<1>1. PICK g \in Ids :
         ClientSends(c, mq, <<Letter("server", Message(DISCONNECT, client_id[c], <<g>>)),
                              Letter(connected[c].q, Message(DISCONNECT, client_id[c], <<g>>))>>, "check")
  BY DEF disconnect
<1> DEFINE msg == Message(DISCONNECT, client_id[c], <<g>>)
           sends == <<Letter("server", msg), Letter(connected[c].q, msg)>>
           label == "check"
<1>2. /\ pc[c] = "prompt" /\ commands < MaxCommands /\ commands' = commands + 1
      /\ client_id' = client_id /\ ClientSends(c, mq, sends, label)
      /\ connected' = [connected EXCEPT ![c].q = None]
  BY <1>1 DEF disconnect, Command
<1>3. label \in WithId \cup {"stopping"} /\ label # "stopping" /\ pc[c] \in WithId /\ pc[c] \in WithId \cup {"init"}
  BY <1>2 DEF WithId
<1>4. /\ Known(c) /\ client_id[c] \in Given /\ client_id[c] > 0 /\ Partners(connected)
      /\ client_id \in [Clients -> {-1} \cup Given] /\ commands \in 0 .. MaxCommands
  BY <1>3, HasId
<1>5. msg \in ServerMail /\ msg \in ClientMail /\ msg.type = DISCONNECT
      /\ DISCONNECT # INIT /\ DISCONNECT # STOP
  <2>1. msg \in ServerMail /\ msg \in ClientMail /\ msg.type = DISCONNECT
    BY <1>4, ClientLetters
  <2>2. DISCONNECT # INIT /\ DISCONNECT # STOP
    BY DEF DISCONNECT, INIT, STOP
  <2> QED BY <2>1, <2>2
<1> HIDE DEF msg
<1>6. /\ DOMAIN sends \subseteq 1 .. 2 /\ 2 \in Nat
      /\ \A i \in DOMAIN sends : sends[i].to \in {"server", connected[c].q} /\ sends[i].msg = msg
  BY DEF Letter
<1>7. commands' \in 0 .. MaxCommands /\ mq[c] \in Seq(ClientMail)
  BY <1>2, <1>4, ChatAssumption DEF IInv, Mail
<1>8. Partners(connected')
  BY <1>2, <1>4 DEF Partners
<1>9. connected[c].q \in Clients => Known(connected[c].q)
  BY <1>4 DEF Partners
<1> HIDE DEF sends, label
<1>10. /\ \A i \in DOMAIN sends : sends[i].to \in Clients => Known(sends[i].to) /\ sends[i].msg \in ClientMail
       /\ \A i \in DOMAIN sends : sends[i].msg \in ServerMail /\ sends[i].msg.type # INIT
                                  /\ sends[i].msg.type # STOP
  BY <1>5, <1>6, <1>9
<1>11. client_id' \in [Clients -> {-1} \cup Given] /\ client_id'[c] > 0 /\ client_id' = client_id
  BY <1>2, <1>4
<1>12. ClientSends(c, mq, sends, label)
  BY <1>2
<1> QED BY <1>3, <1>4, <1>6, <1>7, <1>8, <1>10, <1>11, <1>12, ClientSent

LEMMA SendCommand ==
    ASSUME IInv, NEW c \in Clients, send_msg(c)
    PROVE  IInv'
<1> USE Constants
<1> DEFINE msg == Message(RESPONSE, client_id[c], <<>>)
           sends == <<Letter(connected[c].q, msg)>>
           label == "check"
<1>1. /\ pc[c] = "prompt" /\ commands < MaxCommands /\ commands' = commands + 1
      /\ client_id' = client_id /\ connected' = connected /\ ClientSends(c, mq, sends, label)
  BY DEF send_msg, Command
<1>2. label \in WithId \cup {"stopping"} /\ label # "stopping" /\ pc[c] \in WithId /\ pc[c] \in WithId \cup {"init"}
  BY <1>1 DEF WithId
<1>3. /\ Known(c) /\ client_id[c] \in Given /\ client_id[c] > 0 /\ Partners(connected)
      /\ client_id \in [Clients -> {-1} \cup Given] /\ commands \in 0 .. MaxCommands
  BY <1>2, HasId
<1>4. msg \in ClientMail
  BY <1>3, ClientLetters
<1> HIDE DEF msg
<1>5. /\ DOMAIN sends \subseteq 1 .. 1 /\ 1 \in Nat
      /\ \A i \in DOMAIN sends : sends[i].to = connected[c].q /\ sends[i].msg = msg
  BY DEF Letter
<1>6. commands' \in 0 .. MaxCommands /\ Partners(connected') /\ mq[c] \in Seq(ClientMail)
  BY <1>1, <1>3, ChatAssumption DEF IInv, Mail
<1>7. (connected[c].q \in Clients => Known(connected[c].q)) /\ connected[c].q # "server"
  <2>1. connected[c].q \in Clients \cup {None}
    BY <1>3 DEF Partners
  <2> QED BY <1>3, <2>1 DEF Partners
<1> HIDE DEF sends, label
<1> QED BY <1>1, <1>2, <1>3, <1>4, <1>5, <1>6, <1>7, ClientSent

LEMMA LookStep ==
    ASSUME IInv, NEW c \in Clients, look(c)
    PROVE  IInv'
<1> DEFINE label == "check"
<1>1. /\ pc[c] = "prompt" /\ UNCHANGED <<client_id, connected, commands>>
      /\ ClientSends(c, mq, <<>>, label)
  BY DEF look
<1>2. label \in WithId /\ pc[c] \in WithId /\ mq[c] \in Seq(ClientMail)
  BY <1>1 DEF WithId, IInv, Mail
<1> HIDE DEF label
<1> QED BY <1>1, <1>2, HasId, ClientGoesOn

LEMMA StopCommands ==
    ASSUME IInv, NEW c \in Clients, stop_command(c) \/ Interrupt(c)
    PROVE  IInv'
<1>1. /\ pc[c] \in WithId /\ stop(c, mq) /\ UNCHANGED <<client_id, connected, commands>>
      /\ mq[c] \in Seq(ClientMail)
  BY DEF stop_command, Interrupt, WithId, IInv, Mail
<1> QED BY <1>1, ClientStops

-----------------------------------------------------------------------------
(* The theorems *)

LEMMA InitIInv == Init => IInv
<1> SUFFICES ASSUME Init PROVE IInv
  OBVIOUS
<1> USE Constants DEF Init
<1>1. \A S : <<>> \in Seq(S) /\ Len(<<>>) = 0
  BY EmptySeq
<1>2. \A q \in Names : mq[q] = <<>>
  OBVIOUS
<1>3. TypeOK
  BY ChatAssumption DEF TypeOK, Ids
<1>4. Mail /\ QueuesOpen /\ Introduced
  BY <1>1, <1>2 DEF Mail, QueuesOpen, Introduced, Running, WithId
<1>5. Acquainted
  <2>1. TableOk(table)
    BY <1>3 DEF TableOk, TypeOK
  <2>2. \A c \in Clients : connected[c].q = None /\ connected[c].id \in Given
    BY DEF Given
  <2> QED BY <2>1, <2>2 DEF Acquainted
<1>6. InitsWait
  BY <1>1, <1>2 DEF InitsWait, Waits
<1>7. Counted
  <2>1. Present = {} /\ Stops(mq["server"]) = {}
    BY <1>1, <1>2 DEF Present, Known, Stops
  <2>2. counter = Cardinality(Present) + Cardinality(Stops(mq["server"]))
    <3>1. counter = 0
      OBVIOUS
    <3>2. Cardinality({}) = 0
      BY FS_EmptySet
    <3> HIDE DEF Init
    <3>3. Cardinality(Present) = 0
      BY <2>1, <3>2
    <3>4. Cardinality(Stops(mq["server"])) = 0
      BY <2>1, <3>2
    <3> QED BY <3>1, <3>3, <3>4
  <2> QED BY <2>1, <2>2 DEF Counted
<1> QED BY <1>3, <1>4, <1>5, <1>6, <1>7 DEF IInv

LEMMA NextIInv == IInv /\ [Next]_vars => IInv'
<1> SUFFICES ASSUME IInv, [Next]_vars PROVE IInv'
  OBVIOUS
<1>1. CASE ServerStep
  BY <1>1, InitStep, StopStep, ListStep, ConnectStep, DisconnectStep, OtherStep, AwaitStep
     DEF ServerStep, Serve
<1>2. CASE Shutdown
  BY <1>2, ShutdownStep
<1>3. ASSUME NEW c \in Clients, Start(c) \/ ClientStep(c) \/ Interrupt(c) PROVE IInv'
  BY <1>3, StartStep, ExitStep, RegisteredStep, CheckStep, AnsweredStep, ListCommand, ConnectCommand,
     DisconnectCommand, SendCommand, LookStep, StopCommands DEF ClientStep
<1>4. CASE UNCHANGED vars
  BY <1>4, ZenonT(60)
     DEF vars, IInv, TypeOK, Mail, QueuesOpen, Introduced, Acquainted, InitsWait, Counted,
     TableOk, Waits, Present, Known, Stops, ServerMail, ClientMail, Messages, Given, Ids, AnyType
<1> QED BY <1>1, <1>2, <1>3, <1>4 DEF Next

\* IInv is an inductive invariant of the chat.
THEOREM InductiveInvariant == Spec => []IInv
<1> QED BY InitIInv, NextIInv, PTL DEF Spec

\* Types: the counter stays between 0 and MAX_CLIENTS, current within the
\* table, and a client's id is one the server gives (server.c, client.c).
THEOREM TypeCorrect == Spec => []TypeOK
<1>1. IInv => TypeOK
  BY DEF IInv
<1> QED BY <1>1, InductiveInvariant, PTL

\* Who is known has been accepted.
LEMMA KnownAccepted ==
    ASSUME IInv, NEW c \in Clients
    PROVE  Accepted(c) <=> Known(c)
<1>1. mq[c] \in Seq(ClientMail)
  BY DEF IInv, Mail
<1>2. DOMAIN mq[c] = 1 .. Len(mq[c]) /\ Len(mq[c]) \in Nat
  BY <1>1, LenProperties
<1>3. pc[c] = "init" /\ Len(mq[c]) > 0 => mq[c][1].type = RESPONSE /\ mq[c][1].sender > 0
  BY DEF IInv, Introduced, Given
<1> QED BY <1>2, <1>3 DEF Accepted, Known

\* The server's count is the clients it accepted that have not stopped and
\* the STOPs it has yet to serve (init, stop and handle_sigint of server.c).
THEOREM CountExact == Spec => []CounterCounts
<1>1. ASSUME IInv PROVE CounterCounts
  <2>1. Present = {c \in Clients : Accepted(c) /\ pc[c] \notin Leaving}
    BY <1>1, KnownAccepted DEF Present
  <2>2. Stops(mq["server"]) = StopsUnderway
    BY <1>1, LenProperties DEF IInv, Mail, Stops, StopsUnderway
  <2> QED BY <1>1, <2>1, <2>2 DEF IInv, Counted, CounterCounts
<1> QED BY <1>1, InductiveInvariant, PTL

\* The server ends only after every client it accepted has stopped (main's
\* loop and handle_sigint of server.c).
THEOREM LeavesLast == Spec => []ServerLeavesLast
<1>1. ASSUME IInv PROVE ServerLeavesLast
  <2>1. Present = {c \in Clients : Accepted(c) /\ pc[c] \notin Leaving}
    BY <1>1, KnownAccepted DEF Present
  <2> QED BY <1>1, <2>1 DEF IInv, Counted, ServerLeavesLast
<1> QED BY <1>1, InductiveInvariant, PTL

=============================================================================
