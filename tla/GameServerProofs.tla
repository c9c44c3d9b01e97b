-------------------------- MODULE GameServerProofs --------------------------
(***************************************************************************)
(* Proofs about GameServer for every set of clients and names, every board *)
(* and every even number of slots up to ten: the count of the clients is   *)
(* exact, the ping thread never finds a client to remove, and the players  *)
(* of a game take turns.                                                   *)
(***************************************************************************)
EXTENDS GameServer, FiniteSetTheorems, SequenceTheorems, WellFoundedInduction, TLAPS

(* The inductive invariant *)

\* What travels: a field that a kind of datagram has not is None.
Kinds == {"move", "end", "ping", "symbol", "id", "waiting", "killed", "too_many", "in_use",
          "l", "over", "E", "response"}
Messages ==
    [kind : Kinds, sym : Symbols \cup {None}, field : Fields \cup {None}, id : Slots \cup {None}]
MoveOk(m) == m.kind = "move" => m.sym \in Symbols /\ m.field \in Fields
ClientMail ==
    {m \in Messages :
        /\ m.kind \in {"move", "end", "ping", "symbol", "id", "waiting", "killed", "too_many", "in_use"}
        /\ MoveOk(m)
        /\ m.kind = "symbol" => m.sym \in Symbols
        /\ m.kind = "id" => m.id \in Slots}
Requests ==
    {u \in [from : Names, msg : Messages] :
        /\ u.msg.kind \in {"l", "move", "over", "E", "response"}
        /\ MoveOk(u.msg)
        /\ u.msg.kind \in {"move", "over"} => u.msg.id \in Slots}

Mail ==
    /\ inbox \in [Sockets -> Seq(Requests)]
    /\ request \in Requests \cup {None}
    /\ registering # None => request \in Requests
    /\ mail \in [Names -> Seq(ClientMail)]
    /\ \A n \in Names : ~Bound(n) => mail[n] = <<>>

Started(n) == \E c \in Clients : client_name[c] = n /\ pc[c] # "new"
InTable(n) == \E i \in Slots : clients[i].name = n

\* A login is that of a client without a slot and without an id; the "over" of
\* a client that is gone carries its slot.
Sound(u) ==
    /\ Started(u.from)
    /\ u.msg.kind = "l" =>
         /\ ~InTable(u.from)
         /\ \A c \in Clients : client_name[c] = u.from => client_id[c] = -1
         /\ \A k \in 1 .. Len(mail[u.from]) : mail[u.from][k].kind \notin {"id", "end"}
    /\ u.msg.kind = "over" => ~Bound(u.from) /\ clients[u.msg.id].name = u.from

\* What a client sends first is a login, what it sends after an "over" nothing.
InTurn(u, v) == u.from = v.from => u.msg.kind # "over" /\ v.msg.kind # "l"

RequestsSound ==
    /\ \A s \in Sockets : \A k \in 1 .. Len(inbox[s]) :
         /\ Sound(inbox[s][k])
         /\ inbox[s][k].from \in Local <=> s = "unix"
         /\ request # None => InTurn(request, inbox[s][k])
         /\ \A m \in 1 .. k - 1 : InTurn(inbox[s][m], inbox[s][k])
    /\ request # None => Sound(request)

RegistrationSound ==
    /\ registering # None =>
         /\ request # None /\ request.msg.kind = "l"
         /\ clients[registering].name = None
    /\ \A i \in Registered : Started(clients[i].name)
    /\ \A c \in Clients : pc[c] = "new" => client_id[c] = -1

HasId(c, k) == client_id[c] # -1 \/ \E m \in 1 .. k : mail[client_name[c]][m].kind = "id"

\* Whoever is in the table has its id or will read it before any "end".
IdsSound ==
    /\ \A c \in Clients : Alive(c) =>
         /\ client_id[c] # -1 => clients[client_id[c]].name = client_name[c]
         /\ InTable(client_name[c]) => HasId(c, Len(mail[client_name[c]]))
         /\ \A k \in 1 .. Len(mail[client_name[c]]) :
              mail[client_name[c]][k].kind = "end" => HasId(c, k)
    /\ \A n \in Names : \A k \in 1 .. Len(mail[n]) :
         mail[n][k].kind = "id" => clients[mail[n][k].id].name = n

TableSound ==
    /\ clients_number = Cardinality(Registered \cup ({registering} \ {None}))
    /\ \A i, j \in Registered : clients[i].name = clients[j].name => i = j

AllSound == RequestsSound /\ RegistrationSound /\ IdsSound /\ TableSound

\* As long as the server is there and nobody has come back under a name.
Ordinary == server = "up" /\ ~Returned

\* What holds of every server, and what of an ordinary one.
Typed == TypeOK /\ Mail /\ (checked => ping # MAX_CLIENTS) /\ PingRemovesNobody
IInv == Typed /\ (Ordinary => AllSound)

-----------------------------------------------------------------------------
(* Numbers and the table *)

\* A set of numbers has a least element.
LEMMA LeastElement ==
    ASSUME NEW T, T \subseteq Nat, T # {}
    PROVE  \E n \in T : \A k \in T : n <= k
<1> DEFINE Below == {0 .. n : n \in T}
<1>1. IsWellFoundedOn(StrictSubsetOrdering(Nat), FiniteSubsetsOf(Nat))
  BY FS_StrictSubsetOrderingWellFounded
<1>2. Below \subseteq FiniteSubsetsOf(Nat) /\ Below # {}
  <2>1. \A n \in T : IsFiniteSet(0 .. n) /\ 0 .. n \subseteq Nat
    BY FS_Interval
  <2> QED BY <2>1 DEF FiniteSubsetsOf
<1> HIDE DEF Below
<1>3. PICK x \in Below : \A y \in Below : ~ (<<y, x>> \in StrictSubsetOrdering(Nat))
  BY <1>1, <1>2, WFMin
<1>4. PICK n \in T : x = 0 .. n
  BY DEF Below
<1>5. \A k \in T : n <= k
  <2> SUFFICES ASSUME NEW k \in T, k < n PROVE FALSE
    OBVIOUS
  <2>1. 0 .. k \subseteq 0 .. n /\ 0 .. k # 0 .. n /\ 0 .. k \subseteq Nat /\ 0 .. n \subseteq Nat
    <3>1. n \in 0 .. n /\ n \notin 0 .. k
      OBVIOUS
    <3> QED BY <3>1
  <2>2. <<0 .. k, 0 .. n>> \in StrictSubsetOrdering(Nat)
    BY <2>1 DEF StrictSubsetOrdering
  <2>3. 0 .. k \in Below
    BY DEF Below
  <2> QED BY <1>3, <1>4, <2>2, <2>3
<1> QED BY <1>5

\* A set of numbers below a bound has a greatest element.
LEMMA GreatestElement ==
    ASSUME NEW N \in Nat, NEW T, T \subseteq 0 .. N, T # {}
    PROVE  \E n \in T : \A k \in T : k <= n
<1> DEFINE U == {N - k : k \in T}
<1>1. U \subseteq Nat /\ U # {}
  <2>1. \A k \in T : N - k \in Nat
    OBVIOUS
  <2>2. PICK k \in T : TRUE
    OBVIOUS
  <2> QED BY <2>1, <2>2
<1> HIDE DEF U
<1>2. PICK u \in U : \A v \in U : u <= v
  BY <1>1, LeastElement
<1>3. PICK n \in T : u = N - n
  BY DEF U
<1>4. \A k \in T : k <= n
  <2> SUFFICES ASSUME NEW k \in T PROVE k <= n
    OBVIOUS
  <2>1. N - k \in U
    BY DEF U
  <2>2. N - n <= N - k /\ n \in 0 .. N /\ k \in 0 .. N
    BY <1>2, <1>3, <2>1
  <2> QED BY <2>2
<1> QED BY <1>4

LEMMA Constants ==
    /\ MAX_CLIENTS \in Nat /\ MAX_CLIENTS > 0 /\ 0 \in Slots /\ Slots \subseteq 0 .. MAX_CLIENTS
    /\ None \notin Names /\ None \notin Slots
    /\ \A c \in Clients : client_name[c] \in Names
    /\ \A p \in Pairs : p \in Nat
  BY GameAssumption DEF Slots, Pairs

\* The places register_client takes exist.
LEMMA Places ==
    /\ free_place \in Slots
    /\ Free(clients) # {} => clients[free_place].name = None
    /\ (\E p \in Pairs : pairs[p].x = -1) => free_pair \in Pairs /\ pairs[free_pair].x = -1
<1>1. Free(clients) # {} => \E i \in Free(clients) : \A j \in Free(clients) : j <= i
  BY Constants, GreatestElement DEF Free
<1>2. free_place \in Slots /\ (Free(clients) # {} => clients[free_place].name = None)
  BY <1>1, Constants DEF free_place, Free
<1>3. ASSUME \E p \in Pairs : pairs[p].x = -1 PROVE free_pair \in Pairs /\ pairs[free_pair].x = -1
  <2> DEFINE T == {p \in Pairs : pairs[p].x = -1}
  <2>1. PICK p \in T : \A q \in T : p <= q
    <3>1. T \subseteq Nat /\ T # {}
      BY <1>3, Constants
    <3> HIDE DEF T
    <3> QED BY <3>1, LeastElement
  <2>2. \A q \in 0 .. p - 1 : q \in Pairs
    BY <2>1, GameAssumption DEF Pairs
  <2>3. \A q \in 0 .. p - 1 : pairs[q].x # -1
    BY <2>1, <2>2, Constants
  <2> QED BY <2>1, <2>3 DEF free_pair
<1> QED BY <1>2, <1>3

-----------------------------------------------------------------------------
(* What the server sends *)

\* b is a with more at its end.
Longer(a, b) == Len(a) <= Len(b) /\ \A i \in 1 .. Len(a) : b[i] = a[i]

\* What is new in a name's mail after a step's letters was sent to it.
LEMMA PostedMail ==
    ASSUME NEW queues, NEW letters, NEW N \in Nat, DOMAIN letters \subseteq 0 .. N,
           NEW n \in Names, NEW S, queues[n] \in Seq(S),
           \A i \in DOMAIN letters : letters[i].to = n => letters[i].msg \in S
    PROVE  /\ Posted(queues, letters)[n] \in Seq(S)
           /\ Longer(queues[n], Posted(queues, letters)[n])
           /\ \A k \in 1 .. Len(Posted(queues, letters)[n]) : k > Len(queues[n]) =>
                 \E i \in DOMAIN letters : letters[i].to = n /\ Posted(queues, letters)[n][k] = letters[i].msg
           /\ ~Bound(n) => Posted(queues, letters)[n] = queues[n]
           /\ Bound(n) /\ AllReachable(letters) /\ (\E i \in DOMAIN letters : letters[i].to = n) =>
                 Len(Posted(queues, letters)[n]) > Len(queues[n])
<1> DEFINE I == {i \in Arriving(letters) : letters[i].to = n}
           len == Cardinality(I)
           m == letters[CHOOSE i \in I : TRUE].msg
           t == [k \in 1 .. len |-> m]
           r == Posted(queues, letters)[n]
<1>1. IsFiniteSet(I) /\ len \in Nat
  <2>1. IsFiniteSet(0 .. N)
    BY FS_Interval
  <2>2. I \in SUBSET (0 .. N)
    BY DEF Arriving
  <2> QED BY <2>1, <2>2, FS_Subset, FS_CardinalityType
<1>2. len > 0 => (CHOOSE i \in I : TRUE) \in I
  BY <1>1, FS_EmptySet
<1>3. len > 0 => m \in S /\ \E i \in DOMAIN letters : letters[i].to = n /\ m = letters[i].msg
  BY <1>2 DEF Arriving
<1>4. r = IF Bound(n) THEN queues[n] \o t ELSE queues[n]
  BY DEF Posted
<1>5. AllReachable(letters) /\ (\E i \in DOMAIN letters : letters[i].to = n) => len > 0
  <2> SUFFICES ASSUME AllReachable(letters), NEW i \in DOMAIN letters, letters[i].to = n PROVE len > 0
    OBVIOUS
  <2>1. i \in I
    BY DEF AllReachable, Arriving
  <2>2. I # {}
    BY <2>1
  <2>3. len # 0
    BY <1>1, <2>2, FS_EmptySet
  <2> QED BY <1>1, <2>3
<1> HIDE DEF I, m, r
<1>6. t \in Seq(S)
  <2>1. \A k \in 1 .. len : m \in S
    BY <1>1, <1>3
  <2> HIDE DEF len
  <2> QED BY <1>1, <2>1
<1>7. Len(t) = len /\ \A k \in 1 .. len : t[k] = m
  BY <1>1
<1>8. Len(queues[n]) \in Nat
  BY LenProperties
<1>9. CASE ~Bound(n)
  <2>1. r = queues[n]
    BY <1>4, <1>9
  <2> QED BY <1>8, <1>9, <2>1 DEF Longer, r
<1>10. CASE Bound(n)
  <2>1. /\ r \in Seq(S)
        /\ Len(r) = Len(queues[n]) + len
        /\ \A i \in 1 .. Len(queues[n]) + len :
              r[i] = IF i <= Len(queues[n]) THEN queues[n][i] ELSE t[i - Len(queues[n])]
    <3> HIDE DEF t, len
    <3> QED BY <1>4, <1>6, <1>7, <1>10, ConcatProperties, ZenonT(60)
  <2> HIDE DEF t, len
  <2>2. Longer(queues[n], r)
    <3>1. Len(queues[n]) \in Nat /\ len \in Nat
      BY <1>1, <1>8
    <3>2. Len(r) >= Len(queues[n])
      BY <2>1, <3>1
    <3>3. \A i \in 1 .. Len(queues[n]) : r[i] = queues[n][i]
      BY <2>1, <3>1
    <3> QED BY <3>2, <3>3 DEF Longer
  <2>3. \A k \in 1 .. Len(r) : k > Len(queues[n]) =>
           \E i \in DOMAIN letters : letters[i].to = n /\ r[k] = letters[i].msg
    <3> SUFFICES ASSUME NEW k \in 1 .. Len(r), k > Len(queues[n])
                 PROVE  \E i \in DOMAIN letters : letters[i].to = n /\ r[k] = letters[i].msg
      OBVIOUS
    <3>1. k - Len(queues[n]) \in 1 .. len /\ r[k] = t[k - Len(queues[n])]
      BY <1>1, <1>8, <2>1
    <3> QED BY <1>1, <1>3, <1>7, <3>1
  <2>4. AllReachable(letters) /\ (\E i \in DOMAIN letters : letters[i].to = n) => Len(r) > Len(queues[n])
    BY <1>1, <1>5, <1>8, <2>1
  <2> QED BY <1>10, <2>1, <2>2, <2>3, <2>4 DEF r
<1> QED BY <1>9, <1>10

-----------------------------------------------------------------------------
(* Types, and clients that are entered active *)

LEMMA Datagrams ==
    /\ \A kind \in {"end", "ping", "waiting", "killed", "too_many", "in_use"} : Plain(kind) \in ClientMail
    /\ \A sym \in Symbols : Datagram("symbol", sym, None, None) \in ClientMail
    /\ \A i \in Slots : Datagram("id", None, None, i) \in ClientMail
    /\ \A n \in Names : \A kind \in {"l", "E", "response"} : [from |-> n, msg |-> Plain(kind)] \in Requests
    /\ \A n \in Names, i \in Slots : [from |-> n, msg |-> Datagram("over", None, None, i)] \in Requests
    /\ \A n \in Names, sym \in Symbols, f \in Fields, i \in Slots :
          [from |-> n, msg |-> Datagram("move", sym, f, i)] \in Requests
    /\ \A u \in Requests : u.msg.kind = "move" => u.msg \in ClientMail
<1>1. \A k \in Kinds, s \in Symbols \cup {None}, f \in Fields \cup {None}, i \in Slots \cup {None} :
         /\ Datagram(k, s, f, i) \in Messages /\ Datagram(k, s, f, i).kind = k
         /\ Datagram(k, s, f, i).sym = s /\ Datagram(k, s, f, i).field = f
         /\ Datagram(k, s, f, i).id = i
  BY DEF Datagram, Messages
<1>2. \A k \in Kinds, s \in Symbols \cup {None}, f \in Fields \cup {None}, i \in Slots \cup {None} :
         /\ k \in {"end", "ping", "waiting", "killed", "too_many", "in_use"} =>
              Datagram(k, s, f, i) \in ClientMail
         /\ k = "symbol" /\ s \in Symbols => Datagram(k, s, f, i) \in ClientMail
         /\ k = "id" /\ i \in Slots => Datagram(k, s, f, i) \in ClientMail
  <2>1. ASSUME NEW m \in Messages, MoveOk(m),
               m.kind \in {"move", "end", "ping", "symbol", "id", "waiting", "killed", "too_many", "in_use"},
               m.kind = "symbol" => m.sym \in Symbols, m.kind = "id" => m.id \in Slots
        PROVE  m \in ClientMail
    BY <2>1 DEF ClientMail
  <2> TAKE k \in Kinds, s \in Symbols \cup {None}, f \in Fields \cup {None}, i \in Slots \cup {None}
  <2> DEFINE d == Datagram(k, s, f, i)
  <2>2. d \in Messages /\ d.kind = k /\ d.sym = s /\ d.id = i
    BY <1>1
  <2> HIDE DEF d
  <2>3. CASE k \in {"end", "ping", "waiting", "killed", "too_many", "in_use"}
    <3>1. d \in ClientMail
      BY <2>1, <2>2, <2>3 DEF MoveOk
    <3> QED BY <2>3, <3>1 DEF d
  <2>4. CASE k = "symbol"
    <3>1. s \in Symbols => d \in ClientMail
      BY <2>1, <2>2, <2>4 DEF MoveOk
    <3> QED BY <2>4, <3>1 DEF d
  <2>5. CASE k = "id"
    <3>1. i \in Slots => d \in ClientMail
      BY <2>1, <2>2, <2>5 DEF MoveOk
    <3> QED BY <2>5, <3>1 DEF d
  <2> QED BY <2>3, <2>4, <2>5
<1>3. ASSUME NEW n \in Names, NEW m \in Messages, m.kind \in {"l", "move", "over", "E", "response"},
             MoveOk(m), m.kind \in {"move", "over"} => m.id \in Slots
      PROVE  [from |-> n, msg |-> m] \in Requests
  BY <1>3 DEF Requests
<1>4. \A n \in Names, k \in Kinds, s \in Symbols \cup {None}, f \in Fields \cup {None}, i \in Slots \cup {None} :
         /\ k \in {"l", "E", "response"} => [from |-> n, msg |-> Datagram(k, s, f, i)] \in Requests
         /\ k = "over" /\ i \in Slots => [from |-> n, msg |-> Datagram(k, s, f, i)] \in Requests
         /\ k = "move" /\ s \in Symbols /\ f \in Fields /\ i \in Slots =>
              [from |-> n, msg |-> Datagram(k, s, f, i)] \in Requests
  BY <1>1, <1>3 DEF MoveOk
<1>5. \A u \in Requests : u.msg.kind = "move" => u.msg \in ClientMail
  BY DEF ClientMail, Requests
<1>6. /\ {"end", "ping", "waiting", "killed", "too_many", "in_use"} \subseteq Kinds
      /\ {"symbol", "id", "l", "E", "response", "over", "move"} \subseteq Kinds
  BY DEF Kinds
<1> QED BY <1>2, <1>4, <1>5, <1>6 DEF Plain

\* One letter, or two.
LEMMA LettersAre ==
    ASSUME NEW a, NEW b, NEW m, NEW n
    PROVE  /\ DOMAIN <<Letter(a, m)>> = {1} /\ <<Letter(a, m)>>[1] = Letter(a, m)
           /\ DOMAIN <<Letter(a, m), Letter(b, n)>> = {1, 2}
           /\ <<Letter(a, m), Letter(b, n)>>[1] = Letter(a, m)
           /\ <<Letter(a, m), Letter(b, n)>>[2] = Letter(b, n)
           /\ Letter(a, m).to = a /\ Letter(a, m).msg = m
           /\ {1} \subseteq 0 .. 2 /\ {1, 2} \subseteq 0 .. 2 /\ 2 \in Nat
<1>1. Letter(a, m).to = a /\ Letter(a, m).msg = m
  BY DEF Letter
<1> QED BY <1>1

ClientsOk(table) ==
    /\ table \in [Slots -> [name : Names \cup {None}, active : BOOLEAN, pair_id : Pairs \cup {-1}]]
    /\ \A i \in Slots : table[i].name # None => table[i].active
LockOk == locked \in BOOLEAN
ServerVarsOk ==
    /\ clients_number \in Int /\ waiting_for_pair \in Slots
    /\ pairs \in [Pairs -> [o : Slots \cup {-1}, x : Slots \cup {-1}]]
    /\ registering \in Slots \cup {None} /\ request \in Requests \cup {None}
    /\ registering # None => request \in Requests
    /\ LockOk
ThreadOk == ping \in 0 .. MAX_CLIENTS /\ checked \in BOOLEAN /\ (checked => ping # MAX_CLIENTS)

LEMMA ServerTypes == Typed => ClientsOk(clients) /\ ServerVarsOk /\ ThreadOk
  BY DEF Typed, TypeOK, Mail, PingRemovesNobody, Registered, ClientsOk, ServerVarsOk, LockOk, ThreadOk

\* The mail after letters of the right types.
LEMMA PostedTyped ==
    ASSUME NEW queues \in [Names -> Seq(ClientMail)], \A n \in Names : ~Bound(n) => queues[n] = <<>>,
           NEW letters, NEW N \in Nat, DOMAIN letters \subseteq 0 .. N,
           \A i \in DOMAIN letters : letters[i].msg \in ClientMail
    PROVE  /\ Posted(queues, letters) \in [Names -> Seq(ClientMail)]
           /\ \A n \in Names : ~Bound(n) => Posted(queues, letters)[n] = <<>>
<1>1. \A n \in Names : /\ Posted(queues, letters)[n] \in Seq(ClientMail)
                       /\ ~Bound(n) => Posted(queues, letters)[n] = queues[n]
  BY PostedMail
<1>2. Posted(queues, letters) = [n \in Names |-> Posted(queues, letters)[n]]
  BY DEF Posted
<1> QED BY <1>1, <1>2

LEMMA FarewellLetters ==
    ASSUME NEW table
    PROVE  /\ DOMAIN Farewell(table) \subseteq 0 .. MAX_CLIENTS
           /\ \A i \in DOMAIN Farewell(table) : Farewell(table)[i].msg \in ClientMail
  BY Constants, Datagrams DEF Farewell, Letter

\* A step of the server.
LEMMA ServerTyped ==
    ASSUME Typed, UNCHANGED clientVars, inbox' \in [Sockets -> Seq(Requests)],
           ClientsOk(clients'), ServerVarsOk', ThreadOk',
           NEW letters, NEW N \in Nat, DOMAIN letters \subseteq 0 .. N,
           \A i \in DOMAIN letters : letters[i].msg \in ClientMail,
           \/ ServerSends(letters)
           \/ UNCHANGED <<mail, server>>
           \/ server' = "gone" /\ UNCHANGED mail
           \/ server' = "gone" /\ mail' = Posted(mail, Farewell(clients))
    PROVE  Typed'
<1>1. \A n \in Names : Bound(n)' <=> Bound(n)
  BY DEF clientVars, Bound, Alive
<1>2. mail \in [Names -> Seq(ClientMail)] /\ \A n \in Names : ~Bound(n) => mail[n] = <<>>
  BY DEF Typed, Mail
<1>3. /\ Posted(mail, letters) \in [Names -> Seq(ClientMail)]
      /\ \A n \in Names : ~Bound(n) => Posted(mail, letters)[n] = <<>>
  BY <1>2, PostedTyped
<1>4. \A table : /\ Posted(Posted(mail, letters), Farewell(table)) \in [Names -> Seq(ClientMail)]
                 /\ \A n \in Names : ~Bound(n) => Posted(Posted(mail, letters), Farewell(table))[n] = <<>>
                 /\ Posted(mail, Farewell(table)) \in [Names -> Seq(ClientMail)]
                 /\ \A n \in Names : ~Bound(n) => Posted(mail, Farewell(table))[n] = <<>>
  BY <1>2, <1>3, FarewellLetters, PostedTyped, Constants
<1>5. /\ mail' \in [Names -> Seq(ClientMail)]
      /\ \A n \in Names : ~Bound(n) => mail'[n] = <<>>
      /\ server' \in {"up", "gone"}
  <2>1. server \in {"up", "gone"}
    BY DEF Typed, TypeOK
  <2> QED BY <1>2, <1>3, <1>4, <2>1 DEF ServerSends
<1>6. Mail'
  BY <1>1, <1>5 DEF Mail, ServerVarsOk
<1>7. TypeOK'
  BY <1>5 DEF Typed, TypeOK, clientVars, ServerVarsOk, LockOk, ThreadOk, ClientsOk
<1>8. PingRemovesNobody'
  BY DEF PingRemovesNobody, Registered, ClientsOk
<1> QED BY <1>6, <1>7, <1>8 DEF Typed, ThreadOk

\* A step of the server that sends nothing.
LEMMA QuietTyped ==
    ASSUME Typed, UNCHANGED clientVars, inbox' \in [Sockets -> Seq(Requests)],
           ClientsOk(clients'), ServerVarsOk', ThreadOk', UNCHANGED <<mail, server>>
    PROVE  Typed'
<1> DEFINE letters == [i \in {} |-> 0]
<1>1. DOMAIN letters \subseteq 0 .. 0 /\ DOMAIN letters = {}
  OBVIOUS
<1> HIDE DEF letters
<1> QED BY <1>1, ServerTyped

LEMMA ReceiveTyped ==
    ASSUME Typed, NEW s \in Sockets, Receive(s)
    PROVE  Typed'
<1>1. inbox \in [Sockets -> Seq(Requests)] /\ inbox[s] # <<>>
  BY DEF Typed, Mail, Receive
<1>2. inbox[s] \in Seq(Requests)
  BY <1>1
<1>3. Head(inbox[s]) \in Requests /\ Tail(inbox[s]) \in Seq(Requests)
  BY <1>1, <1>2, HeadTailProperties
<1>4. inbox' \in [Sockets -> Seq(Requests)] /\ request' \in Requests
  BY <1>1, <1>3 DEF Receive
<1>5. /\ UNCHANGED <<registering, locked, mail, server, tableVars, pingVars, clientVars>>
  BY DEF Receive
<1>6. ClientsOk(clients') /\ ServerVarsOk' /\ ThreadOk'
  BY <1>4, <1>5, ServerTypes DEF ClientsOk, ServerVarsOk, LockOk, ThreadOk, tableVars, pingVars
<1> QED BY <1>4, <1>5, <1>6, QuietTyped

\* A request is there to be handled.
LEMMA RequestThere ==
    ASSUME Typed, request # None
    PROVE  request \in Requests /\ request.from \in Names /\ request.msg.kind \in Kinds
           /\ (request.msg.kind = "over" => request.msg.id \in Slots)
           /\ (request.msg.kind = "move" => request.msg \in ClientMail)
<1>1. request \in Requests
  BY DEF Typed, Mail
<1> QED BY <1>1, Datagrams DEF Requests, Messages, Kinds

LEMMA RefuseTyped ==
    ASSUME Typed, UNCHANGED <<pingVars, inbox, clientVars>>, request # None, registering = None,
           NEW kind \in {"too_many", "in_use"}, Refuse(kind), LockOk'
    PROVE  Typed'
<1> DEFINE letters == <<Letter(request.from, Plain(kind))>>
<1>1. /\ DOMAIN letters \subseteq 0 .. 2 /\ \A i \in DOMAIN letters : letters[i].msg \in ClientMail
  <2>1. Plain(kind) \in ClientMail
    BY Datagrams
  <2>2. DOMAIN letters = {1} /\ letters[1] = Letter(request.from, Plain(kind))
    BY LettersAre
  <2>3. letters[1].msg = Plain(kind)
    BY <2>2 DEF Letter
  <2>4. 1 \in 0 .. 2
    OBVIOUS
  <2> HIDE DEF letters
  <2> QED BY <2>1, <2>2, <2>3, <2>4
<1>2. ServerSends(letters) /\ UNCHANGED <<tableVars, registering>> /\ request' = None
  BY DEF Refuse, Handled
<1> HIDE DEF letters
<1>3. ClientsOk(clients') /\ ServerVarsOk' /\ ThreadOk' /\ inbox' \in [Sockets -> Seq(Requests)]
  BY <1>2, ServerTypes DEF ClientsOk, ServerVarsOk, LockOk, ThreadOk, tableVars, pingVars, Typed, Mail
<1>4. 2 \in Nat
  OBVIOUS
<1> QED BY <1>1, <1>2, <1>3, <1>4, ServerTyped

LEMMA RegisterTyped ==
    ASSUME Typed, Register
    PROVE  Typed'
<1>1. UNCHANGED <<pingVars, inbox, clientVars>> /\ request # None /\ registering = None /\ LockOk
        /\ request \in Requests
  BY DEF Register, Mail, LockOk, Handles, Typed, TypeOK
<1>2. ASSUME NEW kind \in {"too_many", "in_use"}, Refuse(kind), LockOk' PROVE Typed'
  BY <1>1, <1>2, RefuseTyped
<1>3. CASE clients_number < MAX_CLIENTS /\ ping = MAX_CLIENTS /\ ~in_use
  <2>1. /\ clients_number' = clients_number + 1 /\ registering' = free_place /\ pair_up
        /\ UNCHANGED <<locked, request>>
    <3>1. ~(clients_number >= MAX_CLIENTS)
      BY <1>3, Constants DEF Typed, TypeOK
    <3> QED BY <1>3, <3>1 DEF Register
  <2>2. free_place \in Slots /\ ClientsOk(clients) /\ ServerVarsOk
    BY Places, ServerTypes
  <2> DEFINE l0 == [i \in {} |-> 0]
             l1 == <<Letter(request.from, Plain("waiting"))>>
             l2 == <<Letter(At(clients, waiting_for_pair), Datagram("symbol", "X", None, None)),
                     Letter(request.from, Datagram("symbol", "O", None, None))>>
  <2>3. /\ DOMAIN l0 \subseteq 0 .. 2 /\ \A i \in DOMAIN l0 : l0[i].msg \in ClientMail
        /\ DOMAIN l1 \subseteq 0 .. 2 /\ \A i \in DOMAIN l1 : l1[i].msg \in ClientMail
        /\ DOMAIN l2 \subseteq 0 .. 2 /\ \A i \in DOMAIN l2 : l2[i].msg \in ClientMail
    <3>1. Plain("waiting") \in ClientMail
      BY Datagrams
    <3>2. /\ Datagram("symbol", "X", None, None) \in ClientMail
          /\ Datagram("symbol", "O", None, None) \in ClientMail
      BY Datagrams DEF Symbols
    <3> QED BY <3>1, <3>2, LettersAre
  <2>4. \E letters \in {l0, l1, l2} : ServerSends(letters) \/ UNCHANGED <<mail, server>>
    BY <2>1 DEF pair_up
  <2> HIDE DEF l0, l1, l2
  <2>5. /\ waiting_for_pair' \in Slots
        /\ pairs' \in [Pairs -> [o : Slots \cup {-1}, x : Slots \cup {-1}]]
        /\ ClientsOk(clients')
    <3>1. CASE clients_number' % 2 = 1
      BY <2>1, <2>2, <3>1 DEF pair_up, ClientsOk, ServerVarsOk
    <3>2. CASE clients_number' % 2 # 1 /\ \A p \in Pairs : pairs[p].x # -1
      BY <2>1, <2>2, <3>2 DEF pair_up, ClientsOk, ServerVarsOk
    <3>3. CASE clients_number' % 2 # 1 /\ ~ \A p \in Pairs : pairs[p].x # -1
      <4>1. free_pair \in Pairs
        BY <3>3, Places
      <4>2. /\ UNCHANGED waiting_for_pair
            /\ pairs' = [pairs EXCEPT ![free_pair] = [o |-> free_place, x |-> waiting_for_pair]]
            /\ clients' = [clients EXCEPT ![free_place].pair_id = free_pair,
                                          ![waiting_for_pair].pair_id = free_pair]
        BY <2>1, <3>3 DEF pair_up
      <4>3. ClientsOk(clients')
        <5>1. waiting_for_pair \in Slots /\ free_place \in Slots
          BY <2>2 DEF ServerVarsOk, LockOk
        <5> DEFINE one == [clients EXCEPT ![free_place].pair_id = free_pair]
        <5>2. ClientsOk(one)
          BY <2>2, <4>1, <5>1 DEF ClientsOk
        <5>3. clients' = [one EXCEPT ![waiting_for_pair].pair_id = free_pair]
          BY <4>2
        <5> HIDE DEF one
        <5> QED BY <4>1, <5>1, <5>2, <5>3 DEF ClientsOk
      <4>4. pairs' \in [Pairs -> [o : Slots \cup {-1}, x : Slots \cup {-1}]]
        BY <2>2, <4>1, <4>2 DEF ServerVarsOk
      <4> QED BY <2>2, <4>2, <4>3, <4>4 DEF ServerVarsOk
    <3> QED BY <3>1, <3>2, <3>3
  <2>6. ServerVarsOk' /\ ThreadOk' /\ inbox' \in [Sockets -> Seq(Requests)]
    BY <1>1, <2>1, <2>2, <2>5, ServerTypes DEF ServerVarsOk, LockOk, ThreadOk, pingVars, Typed, Mail
  <2>7. PICK letters \in {l0, l1, l2} : ServerSends(letters) \/ UNCHANGED <<mail, server>>
    BY <2>4
  <2>8. DOMAIN letters \subseteq 0 .. 2 /\ \A i \in DOMAIN letters : letters[i].msg \in ClientMail
        /\ 2 \in Nat
    BY <2>3, <2>7
  <2> QED BY <1>1, <2>5, <2>6, <2>7, <2>8, ServerTyped
<1>4. (locked' = TRUE \/ locked' = locked) => LockOk'
  BY <1>1 DEF LockOk
<1> QED BY <1>1, <1>2, <1>3, <1>4 DEF Register

LEMMA FillingTyped ==
    ASSUME Typed, Activate \/ Enter
    PROVE  Typed'
<1>1. /\ registering # None /\ registering \in Slots
      /\ UNCHANGED <<clients_number, waiting_for_pair, pairs, locked, inbox, pingVars, clientVars>>
  BY ServerTypes DEF Activate, Enter, Filling, ServerVarsOk
<1>2. ClientsOk(clients) /\ ServerVarsOk /\ ThreadOk /\ inbox \in [Sockets -> Seq(Requests)]
  BY ServerTypes DEF Typed, Mail
<1>3. CASE Activate
  <2>1. clients' = [clients EXCEPT ![registering].active = TRUE]
        /\ UNCHANGED <<server, request, registering, mail>>
    BY <1>3 DEF Activate
  <2>2. ClientsOk(clients') /\ ServerVarsOk' /\ ThreadOk'
    BY <1>1, <1>2, <2>1, ZenonT(60) DEF ClientsOk, ServerVarsOk, LockOk, ThreadOk, pingVars
  <2> QED BY <1>1, <1>2, <2>1, <2>2, QuietTyped
<1>4. CASE Enter
  <2> DEFINE letters == <<Letter(request.from, Datagram("id", None, None, registering))>>
  <2>1. /\ clients[registering].active
        /\ clients' = [clients EXCEPT ![registering].name = request.from]
        /\ registering' = None /\ request' = None /\ ServerSends(letters)
    BY <1>4 DEF Enter, Handled
  <2>2. DOMAIN letters = {1} /\ letters[1].msg \in ClientMail
    <3>1. Datagram("id", None, None, registering) \in ClientMail
      BY <1>1, Datagrams
    <3> QED BY <3>1, LettersAre
  <2>3. DOMAIN letters \subseteq 0 .. 1 /\ \A i \in DOMAIN letters : letters[i].msg \in ClientMail
        /\ 1 \in Nat
    BY <2>2
  <2> HIDE DEF letters
  <2>4. request.from \in Names
    BY <1>1, <1>2 DEF Requests, ServerVarsOk
  <2>5. ClientsOk(clients') /\ ServerVarsOk' /\ ThreadOk'
    BY <1>1, <1>2, <2>1, <2>4, ZenonT(60) DEF ClientsOk, ServerVarsOk, LockOk, ThreadOk, pingVars
  <2> QED BY <1>1, <1>2, <2>1, <2>3, <2>5, ServerTyped
<1> QED BY <1>3, <1>4

LEMMA RemoveTyped ==
    ASSUME Typed, Remove
    PROVE  Typed'
<1> DEFINE i == request.msg.id
           pair == pairs[clients[i].pair_id]
           other_id == IF pair.o = i THEN pair.x ELSE pair.o
           letters == <<Letter(At(clients', other_id), Plain("end"))>>
<1>1. /\ request # None /\ registering = None /\ request.msg.kind = "over"
      /\ UNCHANGED <<pingVars, inbox, clientVars, waiting_for_pair, pairs, registering, locked>>
      /\ request' = None /\ clients_number' = clients_number - 1
      /\ clients' = [j \in Slots |->
                      [clients[j] EXCEPT
                          !.name = IF j = i THEN None ELSE @,
                          !.pair_id = IF clients[i].pair_id # -1 /\ j \in {i, other_id}
                                      THEN -1 ELSE @]]
      /\ UNCHANGED <<mail, server>> \/ ServerSends(letters)
  BY ZenonT(60) DEF Remove, Handles, Handled
<1>2. ClientsOk(clients) /\ ServerVarsOk /\ ThreadOk /\ inbox \in [Sockets -> Seq(Requests)]
  BY ServerTypes DEF Typed, Mail
<1>3. DOMAIN letters \subseteq 0 .. 1 /\ (\A k \in DOMAIN letters : letters[k].msg \in ClientMail)
      /\ 1 \in Nat
  <2>1. Plain("end") \in ClientMail
    BY Datagrams
  <2>2. DOMAIN letters = {1} /\ letters[1].msg = Plain("end")
    BY LettersAre, SMTT(60)
  <2> HIDE DEF letters
  <2> QED BY <2>1, <2>2
<1> HIDE DEF i, pair, other_id, letters
<1>4. ClientsOk(clients')
  BY <1>1, <1>2, ZenonT(60) DEF ClientsOk
<1>5. ServerVarsOk' /\ ThreadOk'
  <2>0. clients_number' = clients_number - 1
    BY <1>1
  <2>1. clients_number' \in Int
    BY <1>2, <2>0 DEF ServerVarsOk
  <2>2. ThreadOk'
    BY <1>1, <1>2 DEF ThreadOk, pingVars
  <2> QED BY <1>1, <1>2, <2>1, <2>2 DEF ServerVarsOk, LockOk
<1> QED BY <1>1, <1>2, <1>3, <1>4, <1>5, ServerTyped

LEMMA MoveTyped ==
    ASSUME Typed, UNCHANGED <<pingVars, inbox, clientVars>>, registering = None,
           NEW i, NEW sides, DOMAIN sides \subseteq 0 .. 2, NEW msg \in ClientMail,
           make_move(i, sides, msg)
    PROVE  Typed'
<1>1. /\ UNCHANGED <<tableVars, registering, locked>> /\ request' = None
      /\ \/ \E game : ServerSends([k \in DOMAIN sides |-> Letter(At(clients, game[sides[k]]), msg)])
         \/ server' = "gone" /\ UNCHANGED mail
  BY DEF make_move, Handled
<1>2. ClientsOk(clients) /\ ServerVarsOk /\ ThreadOk /\ inbox \in [Sockets -> Seq(Requests)]
  BY ServerTypes DEF Typed, Mail
<1>3. ClientsOk(clients') /\ ServerVarsOk' /\ ThreadOk'
  BY <1>1, <1>2 DEF ClientsOk, ServerVarsOk, LockOk, ThreadOk, pingVars, tableVars
<1>4. PICK game : LET letters == [k \in DOMAIN sides |-> Letter(At(clients, game[sides[k]]), msg)]
                  IN  ServerSends(letters) \/ (server' = "gone" /\ UNCHANGED mail)
  BY <1>1
<1> DEFINE letters == [k \in DOMAIN sides |-> Letter(At(clients, game[sides[k]]), msg)]
<1>5. /\ DOMAIN letters \subseteq 0 .. 2 /\ 2 \in Nat
      /\ \A k \in DOMAIN letters : letters[k].msg \in ClientMail
  BY DEF Letter
<1>6. ServerSends(letters) \/ (server' = "gone" /\ UNCHANGED mail)
  BY <1>4
<1> HIDE DEF letters
<1> QED BY <1>2, <1>3, <1>5, <1>6, ServerTyped

LEMMA RequestsTyped ==
    ASSUME Typed, Relay \/ EndGame \/ Response
    PROVE  Typed'
<1>1. UNCHANGED <<pingVars, inbox, clientVars>> /\ request # None /\ registering = None
  BY DEF Relay, EndGame, Response, Handles
<1>2. CASE Relay
  <2> DEFINE sides == <<IF request.msg.sym = "X" THEN "o" ELSE "x">>
  <2>1. make_move(read_id(request.msg.id), sides, request.msg) /\ request.msg \in ClientMail
    BY <1>1, <1>2, RequestThere DEF Relay, Handles
  <2>2. DOMAIN sides \subseteq 0 .. 2
    OBVIOUS
  <2> HIDE DEF sides
  <2> QED BY <1>1, <2>1, <2>2, MoveTyped
<1>3. CASE EndGame
  <2>1. PICK i : make_move(i, <<"o", "x">>, Plain("end"))
    BY <1>3 DEF EndGame
  <2>2. Plain("end") \in ClientMail
    BY Datagrams
  <2>3. DOMAIN <<"o", "x">> \subseteq 0 .. 2
    OBVIOUS
  <2> QED BY <1>1, <2>1, <2>2, <2>3, MoveTyped
<1>4. CASE Response
  <2>1. UNCHANGED <<server, tableVars, registering, locked, mail>> /\ request' = None
    BY <1>4 DEF Response, Handled
  <2>2. ClientsOk(clients') /\ ServerVarsOk' /\ ThreadOk' /\ inbox' \in [Sockets -> Seq(Requests)]
    BY <1>1, <2>1, ServerTypes DEF ClientsOk, ServerVarsOk, LockOk, ThreadOk, pingVars, tableVars, Typed, Mail
  <2> QED BY <1>1, <2>1, <2>2, QuietTyped
<1> QED BY <1>2, <1>3, <1>4

LEMMA PingTyped ==
    ASSUME Typed, PingThread \/ ServerInterrupt
    PROVE  Typed'
<1>1. UNCHANGED <<threadVars, tableVars, inbox, clientVars>>
  BY DEF PingThread, StartRound, CheckSlot, send_ping, ServerInterrupt, PingRest
<1>2. ClientsOk(clients') /\ ServerVarsOk' /\ inbox' \in [Sockets -> Seq(Requests)]
  BY <1>1, ServerTypes DEF ClientsOk, ServerVarsOk, LockOk, tableVars, threadVars, Typed, Mail
<1>3. ThreadOk
  BY ServerTypes
<1>4. CASE StartRound \/ CheckSlot
  <2>1. ThreadOk'
    <3>1. CASE StartRound
      BY <1>3, <3>1, Constants DEF StartRound, ThreadOk
    <3>2. CASE CheckSlot
      <4>1. ping # MAX_CLIENTS /\ ((checked' = TRUE /\ ping' = ping)
                                   \/ (checked' = checked /\ ~checked /\ ping' = ping + 1))
        BY <3>2 DEF CheckSlot
      <4>2. ping' \in 0 .. MAX_CLIENTS
        BY <1>3, <4>1, Constants DEF ThreadOk
      <4>3. checked' \in BOOLEAN /\ (checked' => ping' # MAX_CLIENTS)
        <5>1. CASE checked' = TRUE /\ ping' = ping
          BY <4>1, <5>1
        <5>2. CASE checked' = checked /\ ~checked
          BY <1>3, <5>2 DEF ThreadOk
        <5> QED BY <4>1, <5>1, <5>2
      <4> QED BY <4>2, <4>3 DEF ThreadOk
    <3> QED BY <1>4, <3>1, <3>2
  <2>2. UNCHANGED <<mail, server>>
    BY <1>4 DEF StartRound, CheckSlot
  <2> QED BY <1>1, <1>2, <2>1, <2>2, QuietTyped
<1>5. CASE send_ping
  <2> DEFINE letters == <<Letter(clients[ping].name, Plain("ping"))>>
  <2>1. ServerSends(letters) /\ checked /\ checked' = FALSE /\ ping' = ping + 1
    BY <1>5 DEF send_ping
  <2>0. ThreadOk'
    <3>1. ping' \in 0 .. MAX_CLIENTS
      BY <1>3, <2>1, Constants DEF ThreadOk
    <3> QED BY <2>1, <3>1 DEF ThreadOk
  <2>2. DOMAIN letters = {1} /\ letters[1].msg \in ClientMail
    <3>1. Plain("ping") \in ClientMail
      BY Datagrams
    <3> QED BY <3>1, LettersAre
  <2>3. DOMAIN letters \subseteq 0 .. 1 /\ (\A i \in DOMAIN letters : letters[i].msg \in ClientMail)
        /\ 1 \in Nat
    BY <2>2
  <2> HIDE DEF letters
  <2> QED BY <1>1, <1>2, <2>0, <2>1, <2>3, ServerTyped
<1>6. CASE ServerInterrupt
  <2> DEFINE letters == [i \in {} |-> 0]
  <2>1. DOMAIN letters \subseteq 0 .. 0 /\ DOMAIN letters = {}
    OBVIOUS
  <2> HIDE DEF letters
  <2>2. ThreadOk' /\ server' = "gone" /\ mail' = Posted(mail, Farewell(clients))
    BY <1>3, <1>6 DEF ServerInterrupt, ThreadOk, pingVars
  <2> QED BY <1>1, <1>2, <2>1, <2>2, ServerTyped
<1> QED BY <1>4, <1>5, <1>6 DEF PingThread

LocalOk ==
    /\ client_id \in [Clients -> Slots \cup {-1}]
    /\ symbol \in [Clients -> Symbols \cup {None}]
    /\ board \in [Clients -> [Fields -> Symbols \cup {"-"}]]

\* A step of a client.
LEMMA ClientTyped ==
    ASSUME Typed, NEW c \in Clients, ClientRest, LocalOk', inbox' \in [Sockets -> Seq(Requests)],
           NEW label \in {"reading", "moving", "gone"}, NEW rest \in Seq(ClientMail),
           pc' = [pc EXCEPT ![c] = label],
           mail' = [mail EXCEPT ![client_name[c]] = IF label = "gone" THEN <<>> ELSE rest]
    PROVE  Typed'
<1>1. pc \in [Clients -> {"new", "reading", "moving", "gone"}] /\ mail \in [Names -> Seq(ClientMail)]
      /\ client_name[c] \in Names /\ server \in {"up", "gone"}
  BY Constants DEF Typed, TypeOK, Mail
<1>2. <<>> \in Seq(ClientMail)
  BY EmptySeq
<1>3. mail' \in [Names -> Seq(ClientMail)] /\ pc' \in [Clients -> {"new", "reading", "moving", "gone"}]
  BY <1>1, <1>2
<1>4. ASSUME NEW n \in Names, ~Bound(n)' PROVE mail'[n] = <<>>
  <2>1. CASE n = client_name[c]
    <3>1. label = "gone"
      BY <1>1, <1>4, <2>1 DEF Bound, Alive
    <3> QED BY <1>1, <2>1, <3>1
  <2>2. CASE n # client_name[c]
    <3>1. ~Bound(n)
      BY <1>1, <1>4, <2>2 DEF Bound, Alive
    <3> QED BY <1>1, <2>2, <3>1 DEF Typed, Mail
  <2> QED BY <2>1, <2>2
<1>5. Mail'
  BY <1>3, <1>4 DEF Mail, Typed, ClientRest, threadVars
<1>6. TypeOK'
  BY <1>3 DEF Typed, TypeOK, LocalOk, ClientRest, threadVars, tableVars, pingVars
<1>7. PingRemovesNobody' /\ (checked => ping # MAX_CLIENTS)'
  BY DEF Typed, PingRemovesNobody, Registered, ClientRest, tableVars, pingVars
<1> QED BY <1>5, <1>6, <1>7 DEF Typed

LEMMA SendsTyped ==
    ASSUME Typed, NEW c \in Clients, ClientRest, LocalOk',
           NEW label \in {"reading", "moving", "gone"}, NEW rest \in Seq(ClientMail),
           NEW msg, [from |-> client_name[c], msg |-> msg] \in Requests,
           ClientSends(c, msg, rest, label)
    PROVE  Typed'
<1>1. pc \in [Clients -> {"new", "reading", "moving", "gone"}] /\ inbox \in [Sockets -> Seq(Requests)]
      /\ Socket(c) \in Sockets
  BY DEF Typed, TypeOK, Mail, Sockets, Socket
<1>2. inbox' \in [Sockets -> Seq(Requests)]
  BY <1>1 DEF ClientSends, Arrives
<1> DEFINE l == IF Fails(c) THEN "gone" ELSE label
<1>3. l \in {"reading", "moving", "gone"} /\ pc' = [pc EXCEPT ![c] = l] /\ pc'[c] = l
  BY <1>1 DEF ClientSends
<1>4. mail' = [mail EXCEPT ![client_name[c]] = IF l = "gone" THEN <<>> ELSE rest]
  BY <1>3 DEF ClientSends
<1> HIDE DEF l
<1> QED BY <1>2, <1>3, <1>4, ClientTyped

LEMMA GoesTyped ==
    ASSUME Typed, NEW c \in Clients, ClientRest, LocalOk', NEW label \in {"reading", "moving", "gone"},
           rest_of(c) \in Seq(ClientMail), Goes(c, label)
    PROVE  Typed'
<1>1. inbox' \in [Sockets -> Seq(Requests)]
  BY DEF Typed, Mail, Goes
<1> QED BY <1>1, ClientTyped DEF Goes

\* What a client reads.
LEMMA ReadMail ==
    ASSUME Typed, NEW c \in Clients, NEW kinds, Reads(c, kinds)
    PROVE  /\ msg_of(c) \in ClientMail /\ msg_of(c).kind \in kinds
           /\ mail[client_name[c]] \in Seq(ClientMail) /\ rest_of(c) \in Seq(ClientMail)
           /\ mail[client_name[c]] # <<>> /\ pc[c] = "reading" /\ ClientRest /\ LocalOk
<1>1. mail[client_name[c]] \in Seq(ClientMail) /\ mail[client_name[c]] # <<>>
  BY Constants DEF Typed, Mail, Reads
<1>2. msg_of(c) \in ClientMail /\ rest_of(c) \in Seq(ClientMail)
  BY <1>1, HeadTailProperties DEF msg_of, rest_of
<1> QED BY <1>1, <1>2 DEF Reads, msg_of, Typed, TypeOK, LocalOk

LEMMA ReadTyped ==
    ASSUME Typed, NEW c \in Clients,
           \/ ReadEnd(c) \/ ReadPing(c) \/ ReadSymbol(c) \/ ReadId(c) \/ ReadWaiting(c) \/ ReadDismissal(c)
    PROVE  Typed'
<1>0. client_name[c] \in Names /\ Id(c) \in Slots
  BY Constants DEF Id, Typed, TypeOK
<1>1. CASE ReadEnd(c)
  <2>1. ClientRest /\ LocalOk' /\ ClientSends(c, over(c), <<>>, "gone")
    BY <1>1, ReadMail DEF ReadEnd, LocalOk
  <2>2. <<>> \in Seq(ClientMail) /\ [from |-> client_name[c], msg |-> over(c)] \in Requests
    BY <1>0, EmptySeq, Datagrams DEF over
  <2> QED BY <2>1, <2>2, SendsTyped
<1>2. CASE ReadPing(c)
  <2>1. ClientRest /\ LocalOk' /\ ClientSends(c, Plain("response"), rest_of(c), "reading")
        /\ rest_of(c) \in Seq(ClientMail)
    BY <1>2, ReadMail DEF ReadPing, LocalOk
  <2>2. [from |-> client_name[c], msg |-> Plain("response")] \in Requests
    BY <1>0, Datagrams
  <2> QED BY <2>1, <2>2, SendsTyped
<1>3. CASE ReadSymbol(c)
  <2>1. msg_of(c) \in ClientMail /\ msg_of(c).kind = "symbol" /\ rest_of(c) \in Seq(ClientMail)
        /\ ClientRest /\ LocalOk
    BY <1>3, ReadMail DEF ReadSymbol
  <2>2. msg_of(c).sym \in Symbols
    BY <2>1 DEF ClientMail
  <2>3. LocalOk'
    BY <1>3, <2>1, <2>2 DEF ReadSymbol, LocalOk
  <2>4. Goes(c, IF symbol'[c] = "X" THEN "moving" ELSE "reading")
    BY <1>3 DEF ReadSymbol
  <2> QED BY <2>1, <2>3, <2>4, GoesTyped
<1>4. CASE ReadId(c)
  <2>1. msg_of(c) \in ClientMail /\ msg_of(c).kind = "id" /\ rest_of(c) \in Seq(ClientMail)
        /\ ClientRest /\ LocalOk
    BY <1>4, ReadMail DEF ReadId
  <2>2. msg_of(c).id \in Slots
    BY <2>1 DEF ClientMail
  <2>3. LocalOk' /\ Goes(c, "reading")
    BY <1>4, <2>1, <2>2 DEF ReadId, LocalOk
  <2> QED BY <2>1, <2>3, GoesTyped
<1>5. CASE ReadWaiting(c) \/ ReadDismissal(c)
  <2>1. ClientRest /\ LocalOk' /\ rest_of(c) \in Seq(ClientMail)
    BY <1>5, ReadMail DEF ReadWaiting, ReadDismissal, LocalOk
  <2>2. Goes(c, "reading") \/ Goes(c, "gone")
    BY <1>5 DEF ReadWaiting, ReadDismissal
  <2> QED BY <2>1, <2>2, GoesTyped
<1> QED BY <1>1, <1>2, <1>3, <1>4, <1>5

LEMMA ReadMoveTyped ==
    ASSUME Typed, NEW c \in Clients, ReadMove(c)
    PROVE  Typed'
<1>1. msg_of(c) \in ClientMail /\ msg_of(c).kind = "move" /\ rest_of(c) \in Seq(ClientMail)
      /\ ClientRest /\ LocalOk
  BY ReadMail DEF ReadMove
<1>2. msg_of(c).sym \in Symbols /\ msg_of(c).field \in Fields
  BY <1>1 DEF ClientMail, MoveOk
<1>3. LocalOk'
  BY <1>1, <1>2 DEF ReadMove, LocalOk
<1>4. ClientSends(c, Plain("E"), rest_of(c), "reading") \/ Goes(c, "moving")
  BY DEF ReadMove
<1>5. [from |-> client_name[c], msg |-> Plain("E")] \in Requests
  BY Constants, Datagrams
<1> QED BY <1>1, <1>3, <1>4, <1>5, SendsTyped, GoesTyped

LEMMA read_moveTyped ==
    ASSUME Typed, NEW c \in Clients, read_move(c)
    PROVE  Typed'
<1>0. client_name[c] \in Names /\ Id(c) \in Slots /\ LocalOk /\ mail[client_name[c]] \in Seq(ClientMail)
      /\ inbox \in [Sockets -> Seq(Requests)] /\ mail \in [Names -> Seq(ClientMail)]
  BY Constants DEF Id, Typed, TypeOK, Mail, LocalOk
<1>1. PICK f \in Fields :
        /\ board[c][f] = "-"
        /\ IF symbol[c] = None
           THEN /\ pc' = [pc EXCEPT ![c] = IF Fails(c) THEN "gone" ELSE "reading"]
                /\ mail' = [mail EXCEPT ![client_name[c]] = IF Fails(c) THEN <<>> ELSE @]
                /\ UNCHANGED <<inbox, board>>
           ELSE /\ board' = [board EXCEPT ![c][f] = symbol[c]]
                /\ ClientSends(c, Datagram("move", symbol[c], f, Id(c)), mail[client_name[c]],
                               "reading")
  BY DEF read_move
<1>2. ClientRest /\ UNCHANGED <<client_id, symbol, crashes>>
  BY DEF read_move
<1>3. CASE symbol[c] = None
  <2> DEFINE l == IF Fails(c) THEN "gone" ELSE "reading"
  <2>1. LocalOk' /\ inbox' \in [Sockets -> Seq(Requests)] /\ l \in {"reading", "moving", "gone"}
        /\ pc' = [pc EXCEPT ![c] = l]
    BY <1>0, <1>1, <1>2, <1>3 DEF LocalOk
  <2>2. mail' = [mail EXCEPT ![client_name[c]] = IF l = "gone" THEN <<>> ELSE mail[client_name[c]]]
    BY <1>0, <1>1, <1>3
  <2> HIDE DEF l
  <2> QED BY <1>0, <1>2, <2>1, <2>2, ClientTyped
<1>4. CASE symbol[c] # None
  <2>1. symbol[c] \in Symbols
    BY <1>0, <1>4 DEF LocalOk
  <2>2. LocalOk'
    <3>1. board' = [board EXCEPT ![c][f] = symbol[c]]
      BY <1>1, <1>4
    <3>2. board' \in [Clients -> [Fields -> Symbols \cup {"-"}]]
      BY <1>0, <2>1, <3>1 DEF LocalOk
    <3> QED BY <1>0, <1>2, <3>2 DEF LocalOk
  <2>3. [from |-> client_name[c], msg |-> Datagram("move", symbol[c], f, Id(c))] \in Requests
    BY <1>0, <2>1, Datagrams
  <2> QED BY <1>0, <1>1, <1>2, <1>4, <2>2, <2>3, SendsTyped
<1> QED BY <1>3, <1>4

LEMMA StartTyped ==
    ASSUME Typed, NEW c \in Clients, Start(c) \/ Interrupt(c) \/ Crash(c)
    PROVE  Typed'
<1>0. client_name[c] \in Names /\ Id(c) \in Slots /\ <<>> \in Seq(ClientMail)
  BY Constants, EmptySeq DEF Id, Typed, TypeOK
<1>1. ClientRest /\ LocalOk'
  BY DEF Start, Interrupt, Crash, Typed, TypeOK, LocalOk
<1>2. CASE Start(c) \/ Interrupt(c)
  <2>1. /\ [from |-> client_name[c], msg |-> Plain("l")] \in Requests
        /\ [from |-> client_name[c], msg |-> over(c)] \in Requests
    BY <1>0, Datagrams DEF over
  <2>2. ClientSends(c, Plain("l"), <<>>, "reading") \/ ClientSends(c, over(c), <<>>, "gone")
    BY <1>2 DEF Start, Interrupt
  <2> QED BY <1>0, <1>1, <2>1, <2>2, SendsTyped
<1>3. CASE Crash(c)
  <2> DEFINE l == "gone"
  <2>1. inbox' \in [Sockets -> Seq(Requests)] /\ pc' = [pc EXCEPT ![c] = l]
        /\ l \in {"reading", "moving", "gone"}
        /\ mail' = [mail EXCEPT ![client_name[c]] = IF l = "gone" THEN <<>> ELSE <<>>]
    BY <1>3 DEF Crash, Typed, Mail
  <2> HIDE DEF l
  <2> QED BY <1>0, <1>1, <2>1, ClientTyped
<1> QED BY <1>2, <1>3

LEMMA InitTyped == Init => Typed
<1> SUFFICES ASSUME Init PROVE Typed
  OBVIOUS
<1>1. TypeOK
  <2>1. clients \in [Slots -> [name : Names \cup {None}, active : BOOLEAN, pair_id : Pairs \cup {-1}]]
    <3>1. 0 \in Pairs
      BY GameAssumption DEF Pairs
    <3> QED BY <3>1 DEF Init
  <2>2. pairs \in [Pairs -> [o : Slots \cup {-1}, x : Slots \cup {-1}]]
    BY DEF Init
  <2>3. clients_number \in Int /\ waiting_for_pair \in Slots /\ ping \in 0 .. MAX_CLIENTS
    BY Constants DEF Init
  <2>4. /\ server \in {"up", "gone"} /\ registering \in Slots \cup {None}
        /\ checked \in BOOLEAN /\ locked \in BOOLEAN
        /\ pc \in [Clients -> {"new", "reading", "moving", "gone"}]
        /\ client_id \in [Clients -> Slots \cup {-1}]
        /\ symbol \in [Clients -> Symbols \cup {None}]
        /\ board \in [Clients -> [Fields -> Symbols \cup {"-"}]]
    BY DEF Init
  <2> QED BY <2>1, <2>2, <2>3, <2>4 DEF TypeOK
<1>2. <<>> \in Seq(Requests) /\ <<>> \in Seq(ClientMail)
  BY EmptySeq
<1>3. Mail
  BY <1>2, Constants DEF Init, Mail
<1>4. PingRemovesNobody /\ (checked => ping # MAX_CLIENTS)
  BY DEF Init, PingRemovesNobody, Registered
<1> QED BY <1>1, <1>3, <1>4 DEF Typed

LEMMA NextTyped == Typed /\ [Next]_vars => Typed'
<1> SUFFICES ASSUME Typed, [Next]_vars PROVE Typed'
  OBVIOUS
<1>1. CASE SocketThread
  BY <1>1, ReceiveTyped, RegisterTyped, FillingTyped, RemoveTyped, RequestsTyped DEF SocketThread
<1>2. CASE PingThread \/ ServerInterrupt
  BY <1>2, PingTyped
<1>3. ASSUME NEW c \in Clients, Client(c) \/ Interrupt(c) \/ Crash(c) PROVE Typed'
  BY <1>3, ReadTyped, ReadMoveTyped, read_moveTyped, StartTyped DEF Client
<1>4. CASE UNCHANGED vars
  BY <1>4 DEF vars, Typed, TypeOK, Mail, PingRemovesNobody, Registered, Bound, Alive
<1> QED BY <1>1, <1>2, <1>3, <1>4 DEF Next

-----------------------------------------------------------------------------
(* Logins, ids and the count of the clients *)

\* The letters of a server that goes on have all been sent.
LEMMA ServerGoesOn ==
    ASSUME Typed, server' = "up",
           NEW letters, NEW N \in Nat, DOMAIN letters \subseteq 0 .. N,
           \A i \in DOMAIN letters : letters[i].msg \in ClientMail,
           ServerSends(letters)
    PROVE  /\ AllReachable(letters) /\ mail' = Posted(mail, letters)
           /\ \A n \in Names :
                /\ Longer(mail[n], mail'[n])
                /\ \A k \in 1 .. Len(mail'[n]) : k > Len(mail[n]) =>
                     \E i \in DOMAIN letters : letters[i].to = n /\ mail'[n][k] = letters[i].msg
                /\ Bound(n) /\ (\E i \in DOMAIN letters : letters[i].to = n) =>
                     Len(mail'[n]) > Len(mail[n])
<1>1. AllReachable(letters) /\ mail' = Posted(mail, letters)
  BY DEF ServerSends
<1>2. \A n \in Names : mail[n] \in Seq(ClientMail)
  BY DEF Typed, Mail
<1> QED BY <1>1, <1>2, PostedMail

\* The mail of a step that sends nothing.
LEMMA MailStays ==
    ASSUME Typed, UNCHANGED mail
    PROVE  \A n \in Names : /\ Longer(mail[n], mail'[n])
                            /\ \A k \in 1 .. Len(mail'[n]) : ~(k > Len(mail[n]))
<1>1. \A n \in Names : Len(mail[n]) \in Nat
  BY LenProperties DEF Typed, Mail
<1> QED BY <1>1 DEF Longer

\* Mail that grows by letters to clients in the table, and by ids that are
\* right, and a table that loses only names that are gone.
LEMMA IdsKept ==
    ASSUME Typed, Typed', IdsSound, UNCHANGED clientVars,
           \A n \in Names :
             /\ Longer(mail[n], mail'[n])
             /\ \A k \in 1 .. Len(mail'[n]) : k > Len(mail[n]) =>
                  /\ mail'[n][k].kind = "id" => clients'[mail'[n][k].id].name = n
                  /\ mail'[n][k].kind = "end" => InTable(n),
           \A i \in Slots : clients[i].name \in Names /\ clients'[i].name # clients[i].name =>
             ~Bound(clients[i].name),
           \A n \in Names : InTable(n)' /\ Bound(n) =>
             InTable(n) \/ \E k \in 1 .. Len(mail'[n]) : mail'[n][k].kind = "id"
    PROVE  IdsSound'
<1>1. \A n \in Names : /\ mail[n] \in Seq(ClientMail) /\ mail'[n] \in Seq(ClientMail)
                       /\ Len(mail[n]) \in Nat /\ Len(mail'[n]) \in Nat
                       /\ ~Bound(n) => Len(mail[n]) = 0
  BY LenProperties, EmptySeq DEF Typed, Mail
<1>2. \A c \in Clients : (Alive(c)' <=> Alive(c)) /\ client_id'[c] = client_id[c]
  BY DEF clientVars, Alive
<1>3. \A c \in Clients : Alive(c) => Bound(client_name[c])
  BY DEF Bound
<1>4. \A c \in Clients : client_id[c] \in Slots \cup {-1} /\ client_name[c] \in Names
  BY Constants DEF Typed, TypeOK
<1>5. ASSUME NEW c \in Clients, Alive(c)' PROVE client_id'[c] # -1 => clients'[client_id'[c]].name = client_name[c]
  <2>1. client_id[c] # -1 => clients[client_id[c]].name = client_name[c]
    BY <1>2, <1>5 DEF IdsSound
  <2> QED BY <1>2, <1>3, <1>4, <1>5, <2>1
<1>6. ASSUME NEW c \in Clients, NEW k \in Nat, NEW l \in Nat, HasId(c, k),
             k <= Len(mail[client_name[c]]), k <= l
      PROVE  HasId(c, l)'
  <2>1. Longer(mail[client_name[c]], mail'[client_name[c]])
    BY <1>4
  <2> QED BY <1>1, <1>2, <1>4, <1>6, <2>1, SMTT(60) DEF HasId, Longer
<1>7. ASSUME NEW c \in Clients, Alive(c)', InTable(client_name[c])'
      PROVE  HasId(c, Len(mail[client_name[c]]))'
  <2>1. CASE InTable(client_name[c])
    <3>1. HasId(c, Len(mail[client_name[c]]))
      BY <1>2, <1>7, <2>1 DEF IdsSound
    <3>2. Len(mail[client_name[c]]) <= Len(mail'[client_name[c]])
      BY <1>4 DEF Longer
    <3> QED BY <1>1, <1>4, <1>6, <3>1, <3>2
  <2>2. CASE \E k \in 1 .. Len(mail'[client_name[c]]) : mail'[client_name[c]][k].kind = "id"
    BY <2>2 DEF HasId
  <2> QED BY <1>2, <1>3, <1>4, <1>7, <2>1, <2>2
<1>8. ASSUME NEW c \in Clients, Alive(c)', NEW k \in 1 .. Len(mail'[client_name[c]]),
             mail'[client_name[c]][k].kind = "end"
      PROVE  HasId(c, k)'
  <2> DEFINE n == client_name[c]
  <2>1. n \in Names /\ Len(mail[n]) \in Nat /\ k \in Nat
    BY <1>1, <1>4
  <2>2. CASE k <= Len(mail[n])
    <3>1. mail[n][k].kind = "end"
      BY <1>8, <2>1, <2>2 DEF Longer
    <3>2. HasId(c, k)
      BY <1>2, <1>8, <2>1, <2>2, <3>1 DEF IdsSound
    <3> QED BY <1>6, <2>1, <2>2, <3>2
  <2>3. CASE k > Len(mail[n])
    <3>1. InTable(n)
      BY <1>8, <2>1, <2>3
    <3>2. HasId(c, Len(mail[n]))
      BY <1>2, <1>8, <3>1 DEF IdsSound
    <3>3. Len(mail[n]) <= k
      BY <2>1, <2>3
    <3> QED BY <1>6, <2>1, <3>2, <3>3
  <2> QED BY <2>1, <2>2, <2>3
<1>9. ASSUME NEW n \in Names, NEW k \in 1 .. Len(mail'[n]), mail'[n][k].kind = "id"
      PROVE  clients'[mail'[n][k].id].name = n
  <2>1. CASE k > Len(mail[n])
    BY <1>9, <2>1
  <2>2. CASE ~(k > Len(mail[n]))
    <3>1. k \in 1 .. Len(mail[n]) /\ mail'[n][k] = mail[n][k] /\ Bound(n)
      BY <1>1, <2>2 DEF Longer
    <3>2. mail[n][k] \in ClientMail
      BY <1>1, <3>1, ElementOfSeq
    <3>3. mail[n][k].id \in Slots /\ clients[mail[n][k].id].name = n
      BY <1>9, <3>1, <3>2 DEF IdsSound, ClientMail
    <3> QED BY <3>1, <3>3
  <2> QED BY <2>1, <2>2
<1> QED BY <1>2, <1>5, <1>7, <1>8, <1>9 DEF IdsSound

\* A request stays sound when its sender is neither entered nor written to,
\* and an "over" keeps its slot.
LEMMA SoundKept ==
    ASSUME NEW u, u.from \in Names, Sound(u), UNCHANGED clientVars,
           Longer(mail[u.from], mail'[u.from]), Len(mail'[u.from]) \in Nat, Len(mail[u.from]) \in Nat,
           u.msg.kind = "l" =>
             /\ ~InTable(u.from)'
             /\ \A k \in 1 .. Len(mail'[u.from]) : k > Len(mail[u.from]) =>
                  mail'[u.from][k].kind \notin {"id", "end"},
           u.msg.kind = "over" => clients'[u.msg.id].name = clients[u.msg.id].name
    PROVE  Sound(u)'
<1>1. Started(u.from)' /\ (Bound(u.from)' <=> Bound(u.from))
      /\ \A c \in Clients : client_id'[c] = client_id[c]
  BY DEF Sound, Started, clientVars, Bound, Alive
<1>2. ASSUME u.msg.kind = "l", NEW k \in 1 .. Len(mail'[u.from])
      PROVE  mail'[u.from][k].kind \notin {"id", "end"}
  <2>1. CASE k > Len(mail[u.from])
    BY <1>2, <2>1
  <2>2. CASE ~(k > Len(mail[u.from]))
    <3>1. k \in 1 .. Len(mail[u.from])
      BY <2>2
    <3>2. mail'[u.from][k] = mail[u.from][k]
      BY <3>1 DEF Longer
    <3> QED BY <1>2, <3>1, <3>2 DEF Sound
  <2> QED BY <2>1, <2>2
<1> QED BY <1>1, <1>2 DEF Sound

\* A step of a client takes it on, never back to its start.
LEMMA PcGoesOn ==
    ASSUME NEW c \in Clients, Client(c) \/ Interrupt(c) \/ Crash(c)
    PROVE  /\ \E l \in {"reading", "moving", "gone"} : pc' = [pc EXCEPT ![c] = l]
           /\ ClientRest
<1>1. ASSUME NEW msg, NEW rest, NEW label \in {"reading", "moving", "gone"}, ClientSends(c, msg, rest, label)
      PROVE  \E l \in {"reading", "moving", "gone"} : pc' = [pc EXCEPT ![c] = l]
  BY <1>1 DEF ClientSends
<1>2. ASSUME NEW label \in {"reading", "moving", "gone"}, Goes(c, label)
      PROVE  \E l \in {"reading", "moving", "gone"} : pc' = [pc EXCEPT ![c] = l]
  BY <1>2 DEF Goes
<1>3. CASE Start(c) \/ Interrupt(c) \/ Crash(c)
  BY <1>1, <1>3 DEF Start, Interrupt, Crash
<1>4. CASE ReadMove(c) \/ ReadEnd(c) \/ ReadPing(c) \/ ReadId(c) \/ ReadWaiting(c) \/ ReadDismissal(c)
  BY <1>1, <1>2, <1>4 DEF ReadMove, ReadEnd, ReadPing, ReadId, ReadWaiting, ReadDismissal, Reads
<1>5. CASE ReadSymbol(c)
  BY <1>2, <1>5 DEF ReadSymbol, Reads
<1>6. CASE read_move(c)
  BY <1>1, <1>6 DEF read_move
<1> QED BY <1>3, <1>4, <1>5, <1>6 DEF Client

\* A server that is gone stays gone, and who has come back has come back.
LEMMA OrdinaryBefore ==
    ASSUME Typed, [Next]_vars, Ordinary'
    PROVE  Ordinary
<1>1. server = "up"
  <2>1. CASE SocketThread \/ PingThread \/ ServerInterrupt
    BY <2>1, ZenonT(60)
       DEF SocketThread, Receive, Register, Handles, Activate, Enter, Filling, Remove, Relay, EndGame,
                Response, PingThread, StartRound, CheckSlot, send_ping, ServerInterrupt
  <2>2. ASSUME NEW c \in Clients, Client(c) \/ Interrupt(c) \/ Crash(c) PROVE server = "up"
    BY <2>2, PcGoesOn DEF ClientRest, Ordinary
  <2>3. CASE UNCHANGED vars
    BY <2>3 DEF vars, Ordinary
  <2> QED BY <2>1, <2>2, <2>3 DEF Next
<1>2. \A d \in Clients : pc'[d] = "new" => pc[d] = "new"
  <2>0. pc \in [Clients -> {"new", "reading", "moving", "gone"}]
    BY DEF Typed, TypeOK
  <2>1. CASE SocketThread
    <3>1. UNCHANGED clientVars
      BY <2>1, ZenonT(60)
         DEF SocketThread, Receive, Register, Handles, Activate, Enter, Filling, Remove, Relay, EndGame,
                  Response
    <3> QED BY <3>1 DEF clientVars
  <2>2. CASE PingThread \/ ServerInterrupt
    BY <2>2 DEF PingThread, StartRound, CheckSlot, send_ping, ServerInterrupt, PingRest, clientVars
  <2>3. ASSUME NEW c \in Clients, Client(c) \/ Interrupt(c) \/ Crash(c), NEW d \in Clients, pc'[d] = "new"
        PROVE  pc[d] = "new"
    <3>1. PICK l \in {"reading", "moving", "gone"} : pc' = [pc EXCEPT ![c] = l]
      BY <2>3, PcGoesOn
    <3> QED BY <2>0, <2>3, <3>1
  <2>4. CASE UNCHANGED vars
    BY <2>4 DEF vars
  <2> QED BY <2>1, <2>2, <2>3, <2>4 DEF Next
<1>3. ~Returned
  BY <1>2 DEF Ordinary, Returned
<1> QED BY <1>1, <1>3 DEF Ordinary

\* A step of the server that enters and removes nobody.
LEMMA SameTable ==
    ASSUME Typed, Typed', AllSound, UNCHANGED <<clientVars, inbox>>, request' \in {request, None},
           \A i \in Slots : clients'[i].name = clients[i].name,
           \A n \in Names :
             /\ Longer(mail[n], mail'[n])
             /\ \A k \in 1 .. Len(mail'[n]) : k > Len(mail[n]) =>
                  mail'[n][k].kind # "id" /\ (mail'[n][k].kind = "end" => InTable(n)),
           registering' # None =>
             request' # None /\ request'.msg.kind = "l" /\ clients[registering'].name = None,
           clients_number' = Cardinality(Registered \cup ({registering'} \ {None}))
    PROVE  AllSound'
<1>1. \A n : InTable(n)' <=> InTable(n)
  BY DEF InTable
<1>2. Registered' = Registered
  BY DEF Registered
<1>3. \A n \in Names : Len(mail[n]) \in Nat /\ Len(mail'[n]) \in Nat
  BY LenProperties DEF Typed, Mail
<1>4. IdsSound'
  <2>1. \A i \in Slots : clients[i].name \in Names /\ clients'[i].name # clients[i].name => ~Bound(clients[i].name)
    OBVIOUS
  <2>2. \A n \in Names : InTable(n)' => InTable(n)
    BY <1>1
  <2>3. \A n \in Names :
             /\ Longer(mail[n], mail'[n])
             /\ \A k \in 1 .. Len(mail'[n]) : k > Len(mail[n]) =>
                  /\ mail'[n][k].kind = "id" => clients'[mail'[n][k].id].name = n
                  /\ mail'[n][k].kind = "end" => InTable(n)
    OBVIOUS
  <2> QED BY <2>1, <2>2, <2>3, IdsKept DEF AllSound
<1>5. ASSUME NEW u \in Requests, Sound(u) PROVE Sound(u)'
  <2>1. u.from \in Names /\ (u.msg.kind = "over" => u.msg.id \in Slots)
    BY DEF Requests
  <2>2. u.msg.kind = "l" => ~InTable(u.from)
    BY <1>5 DEF Sound
  <2>3. u.msg.kind = "l" =>
             /\ ~InTable(u.from)'
             /\ \A k \in 1 .. Len(mail'[u.from]) : k > Len(mail[u.from]) =>
                  mail'[u.from][k].kind \notin {"id", "end"}
    BY <1>1, <2>1, <2>2
  <2>4. u.msg.kind = "over" => clients'[u.msg.id].name = clients[u.msg.id].name
    BY <2>1
  <2>5. Longer(mail[u.from], mail'[u.from]) /\ Len(mail'[u.from]) \in Nat /\ Len(mail[u.from]) \in Nat
    BY <1>3, <2>1
  <2> QED BY <1>5, <2>1, <2>3, <2>4, <2>5, SoundKept
<1>6. RequestsSound'
  <2>1. \A s \in Sockets : \A k \in 1 .. Len(inbox[s]) : inbox[s][k] \in Requests
    BY ElementOfSeq DEF Typed, Mail
  <2>2. RequestsSound
    BY DEF AllSound
  <2>3. ASSUME NEW s \in Sockets, NEW k \in 1 .. Len(inbox[s])
        PROVE  /\ Sound(inbox[s][k])
               /\ inbox[s][k].from \in Local <=> s = "unix"
               /\ request # None => InTurn(request, inbox[s][k])
               /\ \A m \in 1 .. k - 1 : InTurn(inbox[s][m], inbox[s][k])
    BY <2>2 DEF RequestsSound
  <2>4. ASSUME NEW s \in Sockets, NEW k \in 1 .. Len(inbox[s]), NEW u, u = inbox[s][k]
        PROVE  Sound(u)'
    BY <1>5, <2>1, <2>3, <2>4
  <2>5. ASSUME NEW u, u = request', request' # None PROVE Sound(u)'
    <3>1. u = request /\ request # None
      BY <2>5
    <3>2. Sound(u) /\ u \in Requests
      BY <2>2, <3>1 DEF RequestsSound, Typed, Mail
    <3> QED BY <1>5, <3>2
  <2>6. inbox' = inbox
    OBVIOUS
  <2>7. request' # None => request' = request
    OBVIOUS
  <2> QED BY <2>3, <2>4, <2>5, <2>6, <2>7 DEF RequestsSound, InTurn
<1>7. RegistrationSound'
  <2>1. \A n : Started(n)' <=> Started(n)
    BY DEF Started, clientVars
  <2>2. RegistrationSound
    BY DEF AllSound
  <2>3. ASSUME registering' # None PROVE clients'[registering'].name = None
    <3>1. registering' \in Slots
      BY <2>3 DEF Typed, TypeOK
    <3> QED BY <2>3, <3>1
  <2>4. ASSUME NEW i \in Registered, NEW n, n = clients[i].name PROVE Started(n)'
    BY <2>1, <2>2, <2>4 DEF RegistrationSound
  <2>5. \A i \in Registered : clients'[i].name = clients[i].name
    BY DEF Registered
  <2> QED BY <1>2, <2>2, <2>3, <2>4, <2>5 DEF RegistrationSound, clientVars, Started
<1>8. TableSound'
  <2>1. \A i, j \in Registered : clients[i].name = clients[j].name => i = j
    BY DEF AllSound, TableSound
  <2>2. \A i \in Registered : clients'[i].name = clients[i].name
    BY DEF Registered
  <2> QED BY <1>2, <2>1, <2>2 DEF TableSound
<1> QED BY <1>4, <1>6, <1>7, <1>8 DEF AllSound

LEMMA ReceiveSound ==
    ASSUME Typed, Typed', AllSound, NEW s \in Sockets, Receive(s)
    PROVE  AllSound'
<1> DEFINE q == inbox[s]
<1>1. q \in Seq(Requests) /\ q # <<>> /\ Len(q) \in Nat /\ inbox \in [Sockets -> Seq(Requests)]
  BY LenProperties DEF Typed, Mail, Receive
<1>2. /\ 1 \in 1 .. Len(q) /\ Head(q) = q[1] /\ Len(Tail(q)) = Len(q) - 1
      /\ \A k \in 1 .. Len(Tail(q)) : k + 1 \in 1 .. Len(q) /\ Tail(q)[k] = q[k + 1]
  <2>1. Head(q) = q[1] /\ Len(Tail(q)) = Len(q) - 1 /\ Len(q) > 0
    BY <1>1, EmptySeq
  <2>2. \A k \in 1 .. Len(q) - 1 : Tail(q)[k] = q[k + 1]
    BY <1>1
  <2> HIDE DEF q
  <2> QED BY <1>1, <2>1, <2>2
<1> HIDE DEF q
<1>3. /\ request = None /\ request' = Head(q) /\ inbox' = [inbox EXCEPT ![s] = Tail(q)]
      /\ UNCHANGED <<registering, mail, clients, clients_number, pc, client_id>>
  BY DEF Receive, q, tableVars, clientVars
<1>4. \A u : Sound(u) => Sound(u)'
  BY <1>3 DEF Sound, Started, InTable, Bound, Alive
<1>5. RequestsSound
  BY DEF AllSound
<1>6. Sound(q[1]) /\ (\A v : v = q[1] => Sound(v)')
  BY <1>2, <1>4, <1>5 DEF RequestsSound, q
<1>7. inbox'[s] = Tail(q) /\ \A t \in Sockets : t # s => inbox'[t] = inbox[t]
  BY <1>1, <1>3
<1>8. ASSUME NEW t \in Sockets, NEW k \in 1 .. Len(inbox'[t]), NEW u, u = inbox'[t][k]
      PROVE  /\ Sound(u)'
             /\ u.from \in Local <=> t = "unix"
             /\ InTurn(q[1], u)
             /\ \A m \in 1 .. k - 1 : InTurn(inbox'[t][m], u)
  <2>1. CASE t = s
    <3>1. k + 1 \in 1 .. Len(q) /\ u = q[k + 1] /\ k \in Nat
      BY <1>2, <1>7, <1>8, <2>1
    <3>2. Sound(u) /\ (u.from \in Local <=> t = "unix") /\ \A m \in 1 .. k : InTurn(q[m], u)
      <4>1. /\ Sound(q[k + 1]) /\ (q[k + 1].from \in Local <=> s = "unix")
            /\ \A m \in 1 .. (k + 1) - 1 : InTurn(q[m], q[k + 1])
        BY <1>5, <3>1 DEF RequestsSound, q
      <4> QED BY <2>1, <3>1, <4>1
    <3>3. \A m \in 1 .. k - 1 : m + 1 \in 1 .. k /\ inbox'[t][m] = q[m + 1]
      <4>1. k \in 1 .. Len(q) - 1 /\ Len(q) - 1 = Len(Tail(q)) /\ inbox'[t] = Tail(q)
        BY <1>1, <1>2, <1>7, <1>8, <2>1
      <4>2. \A m \in 1 .. k - 1 : m + 1 \in 1 .. k /\ m \in 1 .. Len(Tail(q))
        BY <1>1, <4>1
      <4> QED BY <1>2, <4>1, <4>2
    <3>4. 1 \in 1 .. k
      BY <3>1
    <3> QED BY <1>4, <2>1, <3>2, <3>3, <3>4
  <2>2. CASE t # s
    <3>1. /\ Sound(inbox[t][k]) /\ (inbox[t][k].from \in Local <=> t = "unix")
          /\ \A m \in 1 .. k - 1 : InTurn(inbox[t][m], inbox[t][k])
      BY <1>5, <1>7, <1>8, <2>2 DEF RequestsSound
    <3>2. q[1].from \in Local <=> s = "unix"
      BY <1>2, <1>5 DEF RequestsSound, q
    <3>3. q[1].from # u.from
      BY <1>7, <1>8, <2>2, <3>1, <3>2 DEF Sockets
    <3> QED BY <1>4, <1>7, <1>8, <2>2, <3>1, <3>3 DEF InTurn
  <2> QED BY <2>1, <2>2
<1>9. RequestsSound'
  <2>1. request' = q[1]
    BY <1>2, <1>3
  <2> QED BY <1>6, <1>8, <2>1 DEF RequestsSound, InTurn
<1>10. RegistrationSound' /\ IdsSound' /\ TableSound'
  <2>1. registering = None
    BY <1>3 DEF AllSound, RegistrationSound
  <2> QED BY <1>3, <2>1 DEF AllSound, RegistrationSound, IdsSound, TableSound, Registered, Started, InTable,
                            HasId, Alive
<1> QED BY <1>9, <1>10 DEF AllSound

\* Letters that are neither ids nor ends.
LEMMA PlainMail ==
    ASSUME Typed, server' = "up",
           NEW letters, NEW N \in Nat, DOMAIN letters \subseteq 0 .. N,
           \A i \in DOMAIN letters :
             /\ letters[i].msg \in ClientMail /\ letters[i].msg.kind # "id"
             /\ letters[i].msg.kind = "end" /\ letters[i].to \in Names => InTable(letters[i].to),
           ServerSends(letters) \/ UNCHANGED <<mail, server>>
    PROVE  \A n \in Names :
             /\ Longer(mail[n], mail'[n])
             /\ \A k \in 1 .. Len(mail'[n]) : k > Len(mail[n]) =>
                  mail'[n][k].kind # "id" /\ (mail'[n][k].kind = "end" => InTable(n))
<1>1. CASE ServerSends(letters)
  <2> TAKE n \in Names
  <2>1. /\ Longer(mail[n], mail'[n])
        /\ \A k \in 1 .. Len(mail'[n]) : k > Len(mail[n]) =>
             \E i \in DOMAIN letters : letters[i].to = n /\ mail'[n][k] = letters[i].msg
    BY <1>1, ServerGoesOn
  <2> QED BY <2>1
<1>2. CASE UNCHANGED <<mail, server>>
  BY <1>2, MailStays
<1> QED BY <1>1, <1>2

LEMMA RequestsActionsSound ==
    ASSUME Typed, Typed', AllSound, server' = "up", Relay \/ EndGame \/ Response
    PROVE  AllSound'
<1>1. /\ UNCHANGED <<tableVars, registering, clientVars, inbox>> /\ request' = None
      /\ request # None /\ registering = None
  BY DEF Relay, EndGame, Response, make_move, Handles, Handled
<1>2. clients_number' = Cardinality(Registered \cup ({registering'} \ {None}))
  BY <1>1 DEF AllSound, TableSound, tableVars
<1>3. ASSUME NEW i, NEW sides, DOMAIN sides \subseteq 0 .. 2, \A k \in DOMAIN sides : sides[k] \in {"o", "x"},
             NEW msg \in ClientMail, msg.kind # "id", make_move(i, sides, msg)
      PROVE  AllSound'
  <2>1. PICK game \in IF i \in Slots THEN {players(i)} ELSE {pairs[p] : p \in Pairs} :
           ServerSends([k \in DOMAIN sides |-> Letter(At(clients, game[sides[k]]), msg)])
    BY <1>3 DEF make_move
  <2>2. game \in [o : Slots \cup {-1}, x : Slots \cup {-1}]
    <3>1. /\ clients \in [Slots -> [name : Names \cup {None}, active : BOOLEAN, pair_id : Pairs \cup {-1}]]
          /\ pairs \in [Pairs -> [o : Slots \cup {-1}, x : Slots \cup {-1}]]
      BY DEF Typed, TypeOK
    <3>2. i \in Slots => clients[i].pair_id \in Pairs \cup {-1}
      BY <3>1
    <3> QED BY <2>1, <3>1, <3>2 DEF players
  <2> DEFINE letters == [k \in DOMAIN sides |-> Letter(At(clients, game[sides[k]]), msg)]
  <2>3. /\ DOMAIN letters \subseteq 0 .. 2 /\ 2 \in Nat /\ ServerSends(letters)
        /\ \A k \in DOMAIN letters : letters[k].msg = msg /\ letters[k].to = At(clients, game[sides[k]])
        /\ DOMAIN letters = DOMAIN sides
    BY <1>3, <2>1 DEF Letter
  <2> HIDE DEF letters
  <2>4. \A k \in DOMAIN letters : letters[k].to \in Names => InTable(letters[k].to)
    <3> SUFFICES ASSUME NEW k \in DOMAIN letters, letters[k].to \in Names PROVE InTable(letters[k].to)
      OBVIOUS
    <3>1. game[sides[k]] \in Slots \cup {-1}
      BY <1>3, <2>2, <2>3
    <3>2. letters[k].to = At(clients, game[sides[k]]) /\ game[sides[k]] # -1
      BY <2>3, Constants DEF At
    <3> QED BY <3>1, <3>2 DEF At, InTable
  <2>5. \A k \in DOMAIN letters :
          /\ letters[k].msg \in ClientMail /\ letters[k].msg.kind # "id"
          /\ letters[k].msg.kind = "end" /\ letters[k].to \in Names => InTable(letters[k].to)
    BY <1>3, <2>3, <2>4
  <2>6. \A n \in Names :
             /\ Longer(mail[n], mail'[n])
             /\ \A k \in 1 .. Len(mail'[n]) : k > Len(mail[n]) =>
                  mail'[n][k].kind # "id" /\ (mail'[n][k].kind = "end" => InTable(n))
    BY <2>3, <2>5, PlainMail
  <2> QED BY <1>1, <1>2, <2>6, SameTable DEF tableVars
<1>4. CASE Relay
  <2> DEFINE sides == <<IF request.msg.sym = "X" THEN "o" ELSE "x">>
  <2>1. /\ make_move(read_id(request.msg.id), sides, request.msg)
        /\ request.msg \in ClientMail /\ request.msg.kind # "id"
    BY <1>1, <1>4, RequestThere DEF Relay, Handles
  <2>2. DOMAIN sides \subseteq 0 .. 2 /\ \A k \in DOMAIN sides : sides[k] \in {"o", "x"}
    OBVIOUS
  <2> HIDE DEF sides
  <2> QED BY <1>3, <2>1, <2>2
<1>5. CASE EndGame
  <2> DEFINE sides == <<"o", "x">>
  <2>1. PICK i : make_move(i, sides, Plain("end"))
    BY <1>5 DEF EndGame
  <2>2. Plain("end") \in ClientMail /\ Plain("end").kind # "id"
    BY Datagrams DEF Plain, Datagram
  <2>3. DOMAIN sides \subseteq 0 .. 2 /\ \A k \in DOMAIN sides : sides[k] \in {"o", "x"}
    OBVIOUS
  <2> HIDE DEF sides
  <2> QED BY <1>3, <2>1, <2>2, <2>3
<1>6. CASE Response
  <2>1. UNCHANGED <<tableVars, mail>>
    BY <1>6 DEF Response
  <2> QED BY <1>1, <1>2, <2>1, MailStays, SameTable DEF tableVars
<1> QED BY <1>4, <1>5, <1>6

LEMMA PingSound ==
    ASSUME Typed, Typed', AllSound, server' = "up", PingThread
    PROVE  AllSound'
<1>1. UNCHANGED <<threadVars, tableVars, inbox, clientVars>>
  BY DEF PingThread, StartRound, CheckSlot, send_ping, PingRest
<1> DEFINE letters == <<Letter(clients[ping].name, Plain("ping"))>>
<1>2. ServerSends(letters) \/ UNCHANGED <<mail, server>>
  BY DEF PingThread, StartRound, CheckSlot, send_ping
<1>3. DOMAIN letters = {1} /\ letters[1].msg = Plain("ping")
  BY LettersAre
<1> HIDE DEF letters
<1>4. Plain("ping") \in ClientMail /\ Plain("ping").kind = "ping"
  BY Datagrams DEF Plain, Datagram
<1>5. /\ DOMAIN letters \subseteq 0 .. 1 /\ 1 \in Nat
      /\ \A i \in DOMAIN letters :
           /\ letters[i].msg \in ClientMail /\ letters[i].msg.kind # "id"
           /\ letters[i].msg.kind = "end" /\ letters[i].to \in Names => InTable(letters[i].to)
  BY <1>3, <1>4
<1>6. \A n \in Names :
           /\ Longer(mail[n], mail'[n])
           /\ \A k \in 1 .. Len(mail'[n]) : k > Len(mail[n]) =>
                mail'[n][k].kind # "id" /\ (mail'[n][k].kind = "end" => InTable(n))
  BY <1>2, <1>5, PlainMail
<1>7. /\ registering' # None =>
           request' # None /\ request'.msg.kind = "l" /\ clients[registering'].name = None
      /\ clients_number' = Cardinality(Registered \cup ({registering'} \ {None}))
  BY <1>1 DEF AllSound, RegistrationSound, TableSound, threadVars, tableVars
<1> QED BY <1>1, <1>6, <1>7, SameTable DEF threadVars, tableVars

\* With fewer clients than slots there is a free slot.
LEMMA SlotFree ==
    ASSUME clients_number = Cardinality(Registered), clients_number < MAX_CLIENTS
    PROVE  Free(clients) # {} /\ IsFiniteSet(Registered)
<1>1. IsFiniteSet(Slots) /\ Cardinality(Slots) = MAX_CLIENTS
  BY FS_Interval, Constants DEF Slots
<1>2. Registered # Slots
  BY <1>1, Constants
<1>3. PICK i \in Slots : clients[i].name = None
  BY <1>2 DEF Registered
<1>4. IsFiniteSet(Registered)
  BY <1>1, FS_Subset DEF Registered
<1> QED BY <1>3, <1>4 DEF Free

LEMMA RegisterSound ==
    ASSUME Typed, Typed', AllSound, server' = "up", Register
    PROVE  AllSound'
<1>1. /\ UNCHANGED <<inbox, clientVars>> /\ request # None /\ registering = None /\ request.msg.kind = "l"
  BY DEF Register, Handles
<1>2. clients_number = Cardinality(Registered)
  <2>1. Registered \cup ({registering} \ {None}) = Registered
    BY <1>1
  <2> QED BY <2>1 DEF AllSound, TableSound
<1>3. ASSUME NEW kind \in {"too_many", "in_use"}, Refuse(kind) PROVE AllSound'
  <2> DEFINE letters == <<Letter(request.from, Plain(kind))>>
  <2>1. ServerSends(letters) /\ UNCHANGED <<tableVars, registering>> /\ request' = None
    BY <1>3 DEF Refuse, Handled
  <2>2. DOMAIN letters = {1} /\ letters[1].msg = Plain(kind)
    BY LettersAre
  <2> HIDE DEF letters
  <2>3. Plain(kind) \in ClientMail /\ Plain(kind).kind = kind
    BY Datagrams DEF Plain, Datagram
  <2>4. /\ DOMAIN letters \subseteq 0 .. 1 /\ 1 \in Nat
        /\ \A i \in DOMAIN letters :
             /\ letters[i].msg \in ClientMail /\ letters[i].msg.kind # "id"
             /\ letters[i].msg.kind = "end" /\ letters[i].to \in Names => InTable(letters[i].to)
    BY <2>2, <2>3
  <2>5. \A n \in Names :
             /\ Longer(mail[n], mail'[n])
             /\ \A k \in 1 .. Len(mail'[n]) : k > Len(mail[n]) =>
                  mail'[n][k].kind # "id" /\ (mail'[n][k].kind = "end" => InTable(n))
    BY <2>1, <2>4, PlainMail
  <2>6. /\ registering' = None
        /\ clients_number' = Cardinality(Registered \cup ({registering'} \ {None}))
    BY <1>1, <2>1 DEF AllSound, TableSound, tableVars
  <2> QED BY <1>1, <2>1, <2>5, <2>6, SameTable DEF tableVars
<1>4. CASE clients_number < MAX_CLIENTS /\ ping = MAX_CLIENTS /\ ~in_use
  <2>1. /\ clients_number' = clients_number + 1 /\ registering' = free_place /\ pair_up
        /\ UNCHANGED <<locked, request>>
    <3>1. ~(clients_number >= MAX_CLIENTS)
      BY <1>4, Constants DEF Typed, TypeOK
    <3> QED BY <1>4, <3>1 DEF Register
  <2>2. /\ free_place \in Slots /\ clients[free_place].name = None /\ IsFiniteSet(Registered)
        /\ waiting_for_pair \in Slots
        /\ clients \in [Slots -> [name : Names \cup {None}, active : BOOLEAN, pair_id : Pairs \cup {-1}]]
    BY <1>2, <1>4, Places, SlotFree DEF Typed, TypeOK
  <2>3. \A i \in Slots : clients'[i].name = clients[i].name
    <3>1. CASE UNCHANGED clients
      BY <3>1
    <3>2. CASE clients' = [clients EXCEPT ![free_place].pair_id = free_pair,
                                          ![waiting_for_pair].pair_id = free_pair]
      <4> DEFINE one == [clients EXCEPT ![free_place].pair_id = free_pair]
      <4>1. DOMAIN one = Slots /\ \A i \in Slots : one[i].name = clients[i].name
        BY <2>2
      <4>2. \A i \in Slots : "pair_id" \in DOMAIN clients[i] /\ "name" \in DOMAIN one[i]
        BY <2>2
      <4>3. clients' = [one EXCEPT ![waiting_for_pair].pair_id = free_pair]
        BY <3>2
      <4> HIDE DEF one
      <4> QED BY <2>2, <4>1, <4>2, <4>3
    <3> QED BY <2>1, <3>1, <3>2 DEF pair_up
  <2> DEFINE l1 == <<Letter(request.from, Plain("waiting"))>>
             l2 == <<Letter(At(clients, waiting_for_pair), Datagram("symbol", "X", None, None)),
                     Letter(request.from, Datagram("symbol", "O", None, None))>>
  <2>4. \E letters \in {l1, l2} : ServerSends(letters) \/ UNCHANGED <<mail, server>>
    BY <2>1 DEF pair_up
  <2>5. \A letters \in {l1, l2} :
          /\ DOMAIN letters \subseteq 0 .. 2 /\ 2 \in Nat
          /\ \A i \in DOMAIN letters : letters[i].msg \in ClientMail /\ letters[i].msg.kind \notin {"id", "end"}
    <3>1. Plain("waiting") \in ClientMail /\ Plain("waiting").kind = "waiting"
      BY Datagrams DEF Plain, Datagram
    <3>2. /\ Datagram("symbol", "X", None, None) \in ClientMail
          /\ Datagram("symbol", "O", None, None) \in ClientMail
          /\ Datagram("symbol", "X", None, None).kind = "symbol"
          /\ Datagram("symbol", "O", None, None).kind = "symbol"
      BY Datagrams DEF Symbols, Datagram
    <3> QED BY <3>1, <3>2, LettersAre
  <2> HIDE DEF l1, l2
  <2>6. PICK letters \in {l1, l2} : ServerSends(letters) \/ UNCHANGED <<mail, server>>
    BY <2>4
  <2>7. \A n \in Names :
             /\ Longer(mail[n], mail'[n])
             /\ \A k \in 1 .. Len(mail'[n]) : k > Len(mail[n]) =>
                  mail'[n][k].kind # "id" /\ (mail'[n][k].kind = "end" => InTable(n))
    BY <2>5, <2>6, PlainMail
  <2>8. clients_number' = Cardinality(Registered \cup ({registering'} \ {None}))
    <3>1. Registered \cup ({registering'} \ {None}) = Registered \cup {free_place}
      BY <2>1, <2>2, Constants
    <3>2. free_place \notin Registered
      BY <2>2 DEF Registered
    <3>3. Cardinality(Registered \cup {free_place}) = Cardinality(Registered) + 1
      BY <2>2, <3>2, FS_AddElement
    <3> QED BY <1>2, <2>1, <3>1, <3>3
  <2>9. request' # None /\ request'.msg.kind = "l" /\ clients[registering'].name = None
    BY <1>1, <2>1, <2>2
  <2> QED BY <1>1, <2>1, <2>3, <2>7, <2>8, <2>9, SameTable
<1> QED BY <1>3, <1>4 DEF Register

LEMMA ActivateSound ==
    ASSUME Typed, Typed', AllSound, Activate
    PROVE  AllSound'
<1>1. /\ registering \in Slots
      /\ clients' = [clients EXCEPT ![registering].active = TRUE]
      /\ UNCHANGED <<request, registering, mail, clients_number, inbox, clientVars>>
  BY DEF Activate, Filling, Typed, TypeOK
<1>2. clients \in [Slots -> [name : Names \cup {None}, active : BOOLEAN, pair_id : Pairs \cup {-1}]]
  BY DEF Typed, TypeOK
<1>3. \A i \in Slots : clients'[i].name = clients[i].name
  BY <1>1, <1>2
<1>4. /\ registering' # None =>
           request' # None /\ request'.msg.kind = "l" /\ clients[registering'].name = None
      /\ clients_number' = Cardinality(Registered \cup ({registering'} \ {None}))
  BY <1>1 DEF AllSound, RegistrationSound, TableSound
<1> QED BY <1>1, <1>3, <1>4, MailStays, SameTable

LEMMA EnterSound ==
    ASSUME Typed, Typed', AllSound, server' = "up", Enter
    PROVE  AllSound'
<1> DEFINE r == registering
           f == request.from
           id == Datagram("id", None, None, r)
           letters == <<Letter(f, id)>>
<1>1. /\ r \in Slots /\ registering # None
      /\ clients' = [clients EXCEPT ![r].name = f]
      /\ registering' = None /\ request' = None /\ ServerSends(letters)
      /\ UNCHANGED <<clients_number, inbox, clientVars>>
  BY DEF Enter, Filling, Handled, Typed, TypeOK
<1>2. clients \in [Slots -> [name : Names \cup {None}, active : BOOLEAN, pair_id : Pairs \cup {-1}]]
  BY DEF Typed, TypeOK
<1>3. /\ request # None /\ request.msg.kind = "l" /\ clients[r].name = None /\ f \in Names
      /\ Sound(request)
  <2>1. request # None /\ request.msg.kind = "l" /\ clients[r].name = None
    BY <1>1 DEF AllSound, RegistrationSound
  <2> QED BY <2>1, RequestThere DEF AllSound, RequestsSound
<1>4. DOMAIN letters = {1} /\ letters[1].to = f /\ letters[1].msg = id
  BY LettersAre
<1>5. id \in ClientMail /\ id.kind = "id" /\ id.id = r
  BY <1>1, Datagrams DEF Datagram
<1> HIDE DEF letters, id
<1>6. DOMAIN letters \subseteq 0 .. 1 /\ 1 \in Nat /\ \A i \in DOMAIN letters : letters[i].msg \in ClientMail
  BY <1>4, <1>5
<1>7. \A n \in Names :
        /\ Longer(mail[n], mail'[n])
        /\ \A k \in 1 .. Len(mail'[n]) : k > Len(mail[n]) => n = f /\ mail'[n][k] = id
        /\ n = f /\ Bound(n) => Len(mail'[n]) > Len(mail[n])
        /\ Len(mail[n]) \in Nat /\ Len(mail'[n]) \in Nat
  <2>1. \A n \in Names : Len(mail[n]) \in Nat /\ Len(mail'[n]) \in Nat
    BY LenProperties DEF Typed, Mail
  <2>2. \A n \in Names :
          /\ Longer(mail[n], mail'[n])
          /\ \A k \in 1 .. Len(mail'[n]) : k > Len(mail[n]) =>
               \E i \in DOMAIN letters : letters[i].to = n /\ mail'[n][k] = letters[i].msg
          /\ Bound(n) /\ (\E i \in DOMAIN letters : letters[i].to = n) => Len(mail'[n]) > Len(mail[n])
    BY <1>1, <1>6, ServerGoesOn
  <2> QED BY <1>4, <2>1, <2>2
<1>8. clients'[r].name = f /\ \A i \in Slots : i # r => clients'[i].name = clients[i].name
  BY <1>1, <1>2
<1>9. \A n \in Names : InTable(n)' <=> (n = f \/ InTable(n))
  BY <1>1, <1>3, <1>8, Constants DEF InTable
<1>10. IdsSound'
  <2>1. \A n \in Names :
             /\ Longer(mail[n], mail'[n])
             /\ \A k \in 1 .. Len(mail'[n]) : k > Len(mail[n]) =>
                  /\ mail'[n][k].kind = "id" => clients'[mail'[n][k].id].name = n
                  /\ mail'[n][k].kind = "end" => InTable(n)
    BY <1>5, <1>7, <1>8
  <2>2. \A i \in Slots : clients[i].name \in Names /\ clients'[i].name # clients[i].name => ~Bound(clients[i].name)
    BY <1>3, <1>8, Constants
  <2>3. \A n \in Names : InTable(n)' /\ Bound(n) =>
             InTable(n) \/ \E k \in 1 .. Len(mail'[n]) : mail'[n][k].kind = "id"
    <3> SUFFICES ASSUME Bound(f) PROVE \E k \in 1 .. Len(mail'[f]) : mail'[f][k].kind = "id"
      BY <1>9
    <3>1. Len(mail'[f]) \in 1 .. Len(mail'[f]) /\ Len(mail'[f]) > Len(mail[f])
      BY <1>3, <1>7
    <3> QED BY <1>3, <1>5, <1>7, <3>1
  <2> QED BY <1>1, <2>1, <2>2, <2>3, IdsKept DEF AllSound
<1>11. RequestsSound'
  <2>1. ASSUME NEW s \in Sockets, NEW k \in 1 .. Len(inbox[s]), NEW u, u = inbox[s][k]
        PROVE  Sound(u)'
    <3>1. Sound(u) /\ InTurn(request, u)
      BY <1>3, <2>1 DEF AllSound, RequestsSound
    <3>2. u \in Requests /\ u.from \in Names /\ (u.msg.kind = "over" => u.msg.id \in Slots)
      <4>1. u \in Requests
        BY <2>1, ElementOfSeq DEF Typed, Mail
      <4> QED BY <4>1 DEF Requests
    <3>3. u.msg.kind = "l" => u.from # f
      BY <3>1 DEF InTurn
    <3>4. u.msg.kind = "l" =>
            /\ ~InTable(u.from)'
            /\ \A j \in 1 .. Len(mail'[u.from]) : j > Len(mail[u.from]) =>
                 mail'[u.from][j].kind \notin {"id", "end"}
      BY <1>7, <1>9, <3>1, <3>2, <3>3 DEF Sound
    <3>5. u.msg.kind = "over" => clients'[u.msg.id].name = clients[u.msg.id].name
      <4>1. u.msg.kind = "over" => clients[u.msg.id].name = u.from
        BY <3>1 DEF Sound
      <4> QED BY <1>3, <1>8, <3>2, <4>1, Constants
    <3>6. Longer(mail[u.from], mail'[u.from]) /\ Len(mail'[u.from]) \in Nat /\ Len(mail[u.from]) \in Nat
      BY <1>7, <3>2
    <3> QED BY <1>1, <3>1, <3>2, <3>4, <3>5, <3>6, SoundKept
  <2>2. ASSUME NEW s \in Sockets, NEW k \in 1 .. Len(inbox[s])
        PROVE  /\ inbox[s][k].from \in Local <=> s = "unix"
               /\ \A m \in 1 .. k - 1 : InTurn(inbox[s][m], inbox[s][k])
    BY DEF AllSound, RequestsSound
  <2> QED BY <1>1, <2>1, <2>2 DEF RequestsSound, InTurn
<1>12. RegistrationSound'
  <2>1. \A n : Started(n)' <=> Started(n)
    BY <1>1 DEF Started, clientVars
  <2>2. RegistrationSound /\ Started(f)
    BY <1>3 DEF AllSound, Sound
  <2>3. ASSUME NEW i \in Slots, clients'[i].name # None, NEW n, n = clients'[i].name PROVE Started(n)'
    BY <1>8, <2>1, <2>2, <2>3 DEF RegistrationSound, Registered
  <2> QED BY <1>1, <2>2, <2>3 DEF RegistrationSound, clientVars, Registered, Started
<1>13. TableSound'
  <2>1. Registered' = Registered \cup {r}
    BY <1>1, <1>3, <1>8, Constants DEF Registered
  <2>2. Registered' \cup ({registering'} \ {None}) = Registered \cup ({registering} \ {None})
    BY <1>1, <2>1
  <2>3. ASSUME NEW i \in Registered', NEW j \in Registered', clients'[i].name = clients'[j].name
        PROVE  i = j
    <3>1. \A k \in Registered : clients[k].name # f
      BY <1>3 DEF Sound, InTable, Registered
    <3>2. \A k \in Registered : k \in Slots
      BY DEF Registered
    <3>3. \A k, l \in Registered : clients[k].name = clients[l].name => k = l
      BY DEF AllSound, TableSound
    <3> QED BY <1>8, <2>1, <2>3, <3>1, <3>2, <3>3
  <2> QED BY <1>1, <2>2, <2>3, ZenonT(60) DEF AllSound, TableSound
<1> QED BY <1>10, <1>11, <1>12, <1>13 DEF AllSound

LEMMA RemoveSound ==
    ASSUME Typed, Typed', AllSound, server' = "up", Remove
    PROVE  AllSound'
<1> DEFINE r == request.msg.id
           f == request.from
           pair == pairs[clients[r].pair_id]
           other_id == IF pair.o = r THEN pair.x ELSE pair.o
           letters == <<Letter(At(clients', other_id), Plain("end"))>>
<1>1. /\ request # None /\ registering = None /\ request.msg.kind = "over"
      /\ UNCHANGED <<inbox, clientVars, registering>> /\ request' = None
      /\ clients' = [j \in Slots |->
                      [clients[j] EXCEPT
                          !.name = IF j = r THEN None ELSE @,
                          !.pair_id = IF clients[r].pair_id # -1 /\ j \in {r, other_id}
                                      THEN -1 ELSE @]]
      /\ UNCHANGED <<mail, server>> \/ (ServerSends(letters) /\ clients[r].pair_id # -1)
  BY ZenonT(60) DEF Remove, Handles, Handled
<1>2. clients_number' = clients_number - 1
  BY ZenonT(60) DEF Remove
<1>3. /\ clients \in [Slots -> [name : Names \cup {None}, active : BOOLEAN, pair_id : Pairs \cup {-1}]]
      /\ pairs \in [Pairs -> [o : Slots \cup {-1}, x : Slots \cup {-1}]]
  BY DEF Typed, TypeOK
<1>4. r \in Slots /\ f \in Names /\ clients[r].name = f /\ ~Bound(f) /\ Sound(request)
  <2>1. Sound(request)
    BY <1>1, ZenonT(60) DEF AllSound, RequestsSound
  <2> QED BY <1>1, <2>1, RequestThere, ZenonT(60) DEF Sound
<1>5. other_id \in Slots \cup {-1} \/ clients[r].pair_id = -1
  BY <1>3, <1>4
<1>6. DOMAIN letters = {1} /\ letters[1].to = At(clients', other_id) /\ letters[1].msg = Plain("end")
  BY LettersAre
<1> HIDE DEF r, f, pair, other_id, letters
<1>7. clients'[r].name = None /\ \A i \in Slots : i # r => clients'[i].name = clients[i].name
  BY <1>1, <1>3, <1>4, ZenonT(60)
<1>8. \A n \in Names : InTable(n)' => InTable(n)
  BY <1>4, <1>7, Constants DEF InTable
<1>9. /\ DOMAIN letters \subseteq 0 .. 1 /\ 1 \in Nat
      /\ clients[r].pair_id # -1 => \A i \in DOMAIN letters :
           /\ letters[i].msg \in ClientMail /\ letters[i].msg.kind # "id"
           /\ letters[i].msg.kind = "end" /\ letters[i].to \in Names => InTable(letters[i].to)
  <2>1. Plain("end") \in ClientMail /\ Plain("end").kind = "end"
    BY Datagrams DEF Plain, Datagram
  <2>2. clients[r].pair_id # -1 /\ letters[1].to \in Names => InTable(letters[1].to)
    <3> SUFFICES ASSUME clients[r].pair_id # -1, letters[1].to \in Names PROVE InTable(letters[1].to)
      OBVIOUS
    <3>1. other_id \in Slots /\ letters[1].to = clients'[other_id].name
      BY <1>5, <1>6, Constants DEF At
    <3>2. other_id # r
      BY <1>7, <3>1, Constants
    <3> QED BY <1>7, <3>1, <3>2 DEF InTable
  <2> QED BY <1>6, <2>1, <2>2
<1>10. \A n \in Names :
        /\ Longer(mail[n], mail'[n])
        /\ \A k \in 1 .. Len(mail'[n]) : k > Len(mail[n]) =>
             mail'[n][k].kind # "id" /\ (mail'[n][k].kind = "end" => InTable(n))
        /\ Len(mail[n]) \in Nat /\ Len(mail'[n]) \in Nat
  <2>1. \A n \in Names : Len(mail[n]) \in Nat /\ Len(mail'[n]) \in Nat
    BY LenProperties DEF Typed, Mail
  <2>2. CASE UNCHANGED <<mail, server>>
    BY <2>1, <2>2, MailStays
  <2>3. CASE ServerSends(letters) /\ clients[r].pair_id # -1
    BY <1>9, <2>1, <2>3, PlainMail, SMTT(60)
  <2> QED BY <1>1, <2>2, <2>3
<1>11. IdsSound'
  <2>1. \A n \in Names :
             /\ Longer(mail[n], mail'[n])
             /\ \A k \in 1 .. Len(mail'[n]) : k > Len(mail[n]) =>
                  /\ mail'[n][k].kind = "id" => clients'[mail'[n][k].id].name = n
                  /\ mail'[n][k].kind = "end" => InTable(n)
    BY <1>10
  <2>2. \A i \in Slots : clients[i].name \in Names /\ clients'[i].name # clients[i].name => ~Bound(clients[i].name)
    BY <1>4, <1>7
  <2> QED BY <1>1, <1>8, <2>1, <2>2, IdsKept DEF AllSound
<1>12. RequestsSound'
  <2>1. ASSUME NEW s \in Sockets, NEW k \in 1 .. Len(inbox[s]), NEW u, u = inbox[s][k]
        PROVE  Sound(u)'
    <3>1. Sound(u) /\ InTurn(request, u)
      BY <1>1, <2>1 DEF AllSound, RequestsSound
    <3>2. u \in Requests /\ u.from \in Names /\ (u.msg.kind = "over" => u.msg.id \in Slots)
      <4>1. u \in Requests
        BY <2>1, ElementOfSeq DEF Typed, Mail
      <4> QED BY <4>1 DEF Requests
    <3>3. u.from # f
      BY <1>1, <3>1 DEF InTurn, f
    <3>4. u.msg.kind = "l" =>
            /\ ~InTable(u.from)'
            /\ \A j \in 1 .. Len(mail'[u.from]) : j > Len(mail[u.from]) =>
                 mail'[u.from][j].kind \notin {"id", "end"}
      BY <1>8, <1>10, <3>1, <3>2 DEF Sound
    <3>5. u.msg.kind = "over" => clients'[u.msg.id].name = clients[u.msg.id].name
      <4>1. u.msg.kind = "over" => clients[u.msg.id].name = u.from
        BY <3>1 DEF Sound
      <4> QED BY <1>4, <1>7, <3>2, <3>3, <4>1
    <3>6. Longer(mail[u.from], mail'[u.from]) /\ Len(mail'[u.from]) \in Nat /\ Len(mail[u.from]) \in Nat
      BY <1>10, <3>2
    <3> QED BY <1>1, <3>1, <3>2, <3>4, <3>5, <3>6, SoundKept
  <2>2. ASSUME NEW s \in Sockets, NEW k \in 1 .. Len(inbox[s])
        PROVE  /\ inbox[s][k].from \in Local <=> s = "unix"
               /\ \A m \in 1 .. k - 1 : InTurn(inbox[s][m], inbox[s][k])
    BY DEF AllSound, RequestsSound
  <2>3. inbox' = inbox /\ request' = None
    BY <1>1
  <2> QED BY <2>1, <2>2, <2>3 DEF RequestsSound, InTurn
<1>13. RegistrationSound'
  <2>1. \A n : Started(n)' <=> Started(n)
    BY <1>1 DEF Started, clientVars
  <2>2. RegistrationSound
    BY DEF AllSound
  <2>3. ASSUME NEW i \in Slots, clients'[i].name # None, NEW n, n = clients'[i].name PROVE Started(n)'
    BY <1>7, <2>1, <2>2, <2>3 DEF RegistrationSound, Registered
  <2> QED BY <1>1, <2>2, <2>3 DEF RegistrationSound, clientVars, Registered, Started
<1>14. TableSound'
  <2>1. Registered' = Registered \ {r} /\ r \in Registered
    BY <1>4, <1>7, Constants DEF Registered
  <2>2. IsFiniteSet(Registered)
    <3>1. IsFiniteSet(Slots)
      BY FS_Interval, Constants DEF Slots
    <3> QED BY <3>1, FS_Subset DEF Registered
  <2>3. Cardinality(Registered \ {r}) = Cardinality(Registered) - 1
    BY <2>1, <2>2, FS_RemoveElement
  <2>4. /\ Registered \cup ({registering} \ {None}) = Registered
        /\ Registered' \cup ({registering'} \ {None}) = Registered \ {r}
    BY <1>1, <2>1
  <2>5. clients_number = Cardinality(Registered)
    BY <2>4 DEF AllSound, TableSound
  <2>6. clients_number' = Cardinality(Registered' \cup ({registering'} \ {None}))
    BY <1>2, <2>3, <2>4, <2>5
  <2>7. \A i \in Registered : i # r => i \in Slots /\ clients'[i].name = clients[i].name
    BY <1>7 DEF Registered
  <2>8. \A i, j \in Registered : clients[i].name = clients[j].name => i = j
    BY DEF AllSound, TableSound
  <2> QED BY <2>1, <2>6, <2>7, <2>8 DEF TableSound
<1> QED BY <1>11, <1>12, <1>13, <1>14 DEF AllSound

\* Behind what is in the server's sockets there is at most one more, v of client c.
Behind(c, v) ==
    \A s \in Sockets : \A k \in 1 .. Len(inbox'[s]) :
        \/ k \in 1 .. Len(inbox[s]) /\ inbox'[s][k] = inbox[s][k]
        \/ k = Len(inbox[s]) + 1 /\ s = Socket(c) /\ inbox'[s][k] = v

LEMMA InboxAfter ==
    ASSUME Typed, server = "up", NEW c \in Clients, NEW msg, NEW v, v = [from |-> client_name[c], msg |-> msg],
           Arrives(c, msg) \/ UNCHANGED inbox, v \in Requests
    PROVE  Behind(c, v)
<1>1. inbox \in [Sockets -> Seq(Requests)] /\ Socket(c) \in Sockets
  BY DEF Typed, Mail, Socket, Sockets
<1>2. CASE UNCHANGED inbox
  BY <1>2 DEF Behind
<1>3. CASE Arrives(c, msg)
  <2>1. inbox' = [inbox EXCEPT ![Socket(c)] = Append(@, v)]
    BY <1>3 DEF Arrives
  <2> SUFFICES ASSUME NEW s \in Sockets, NEW k \in 1 .. Len(inbox'[s])
               PROVE  \/ k \in 1 .. Len(inbox[s]) /\ inbox'[s][k] = inbox[s][k]
                      \/ k = Len(inbox[s]) + 1 /\ s = Socket(c) /\ inbox'[s][k] = v
    BY DEF Behind
  <2>2. CASE s = Socket(c)
    <3> DEFINE q == inbox[s]
    <3>1. q \in Seq(Requests) /\ inbox'[s] = Append(q, v)
      BY <1>1, <2>1, <2>2
    <3> HIDE DEF q
    <3>2. Len(Append(q, v)) = Len(q) + 1 /\ Len(q) \in Nat /\ Append(q, v)[Len(q) + 1] = v
          /\ \A i \in 1 .. Len(q) : Append(q, v)[i] = q[i]
      BY <3>1, AppendProperties, LenProperties
    <3>3. k \in 1 .. Len(q) \/ k = Len(q) + 1
      BY <3>1, <3>2
    <3> QED BY <2>2, <3>1, <3>2, <3>3 DEF q
  <2>3. CASE s # Socket(c)
    <3>1. inbox'[s] = inbox[s]
      BY <1>1, <2>1, <2>3
    <3> QED BY <3>1
  <2> QED BY <2>2, <2>3
<1> QED BY <1>2, <1>3

\* The requests after a step of a client.
LEMMA RequestsAfter ==
    ASSUME Typed, RequestsSound, NEW c \in Clients, UNCHANGED request,
           NEW v, v.from = client_name[c], Behind(c, v), Sound(v)',
           \A u \in Requests : Sound(u) => Sound(u)' /\ InTurn(u, v)
    PROVE  RequestsSound'
<1>1. \A s \in Sockets : Len(inbox[s]) \in Nat /\ \A k \in 1 .. Len(inbox[s]) : inbox[s][k] \in Requests
  BY LenProperties, ElementOfSeq DEF Typed, Mail
<1>2. ASSUME NEW s \in Sockets, NEW k \in 1 .. Len(inbox[s])
      PROVE  /\ Sound(inbox[s][k])
             /\ inbox[s][k].from \in Local <=> s = "unix"
             /\ request # None => InTurn(request, inbox[s][k])
             /\ \A m \in 1 .. k - 1 : InTurn(inbox[s][m], inbox[s][k])
  BY DEF RequestsSound
<1>3. request # None => Sound(request) /\ request \in Requests
  BY DEF RequestsSound, Typed, Mail
<1>4. ASSUME NEW s \in Sockets, NEW k \in 1 .. Len(inbox'[s]), NEW u, u = inbox'[s][k]
      PROVE  /\ Sound(u)'
             /\ u.from \in Local <=> s = "unix"
             /\ request # None => InTurn(request, u)
             /\ \A m \in 1 .. k - 1 : InTurn(inbox'[s][m], u)
  <2>1. CASE k \in 1 .. Len(inbox[s]) /\ inbox'[s][k] = inbox[s][k]
    <3>1. /\ Sound(u) /\ u \in Requests /\ (u.from \in Local <=> s = "unix")
          /\ request # None => InTurn(request, u)
          /\ \A m \in 1 .. k - 1 : InTurn(inbox[s][m], u)
      BY <1>1, <1>2, <1>4, <2>1
    <3>2. \A m \in 1 .. k - 1 : inbox'[s][m] = inbox[s][m]
      <4>1. \A m \in 1 .. k - 1 : m \in 1 .. Len(inbox'[s]) /\ m # Len(inbox[s]) + 1
        BY <1>1, <1>4, <2>1
      <4> QED BY <4>1 DEF Behind
    <3> QED BY <3>1, <3>2
  <2>2. CASE k = Len(inbox[s]) + 1 /\ s = Socket(c) /\ inbox'[s][k] = v
    <3>1. \A m \in 1 .. k - 1 : m \in 1 .. Len(inbox[s]) /\ inbox'[s][m] = inbox[s][m]
      <4>1. \A m \in 1 .. k - 1 : m \in 1 .. Len(inbox[s]) /\ m \in 1 .. Len(inbox'[s]) /\ m # Len(inbox[s]) + 1
        BY <1>1, <1>4, <2>2
      <4> QED BY <4>1 DEF Behind
    <3>2. \A m \in 1 .. k - 1 : InTurn(inbox'[s][m], v)
      BY <1>1, <1>2, <3>1
    <3>3. u.from \in Local <=> s = "unix"
      BY <1>4, <2>2 DEF Socket
    <3> QED BY <1>3, <1>4, <2>2, <3>2, <3>3
  <2> QED BY <1>4, <2>1, <2>2 DEF Behind
<1>5. ASSUME NEW u, u = request', request' # None PROVE Sound(u)'
  BY <1>3, <1>5
<1>6. request' = request
  OBVIOUS
<1> QED BY <1>4, <1>5, <1>6 DEF RequestsSound, InTurn

\* What a client's step leaves as it was.
LEMMA TableAfter ==
    ASSUME AllSound, ClientRest, \A d \in Clients : pc'[d] = "new" => pc[d] = "new" /\ client_id'[d] = client_id[d]
    PROVE  RegistrationSound' /\ TableSound'
<1>1. UNCHANGED <<registering, request, clients, clients_number>>
  BY DEF ClientRest, threadVars, tableVars
<1>2. \A n : Started(n) => Started(n)'
  BY DEF Started
<1>3. RegistrationSound /\ TableSound
  BY DEF AllSound
<1>4. Registered' = Registered
  BY <1>1 DEF Registered
<1>5. TableSound'
  BY <1>1, <1>3, <1>4 DEF TableSound
<1>6. ASSUME NEW i \in Registered, NEW n, n = clients[i].name PROVE Started(n)'
  BY <1>2, <1>3, <1>6 DEF RegistrationSound
<1> QED BY <1>1, <1>3, <1>4, <1>5, <1>6 DEF RegistrationSound, Started

\* Nobody but a live client uses its name.
LEMMA OnlyUser ==
    ASSUME Ordinary, NEW c \in Clients, Alive(c)
    PROVE  /\ \A d \in Clients : client_name[d] = client_name[c] /\ d # c => pc[d] = "new"
           /\ Started(client_name[c]) /\ Bound(client_name[c])
  BY DEF Ordinary, Returned, Alive, Started, Bound

LEMMA StartSound ==
    ASSUME Typed, Typed', AllSound, Ordinary, Ordinary', NEW c \in Clients, Start(c)
    PROVE  AllSound'
<1> DEFINE n == client_name[c]
<1>1. n \in Names /\ pc \in [Clients -> {"new", "reading", "moving", "gone"}]
      /\ mail \in [Names -> Seq(ClientMail)] /\ server = "up"
  BY Constants DEF Typed, TypeOK, Mail, Ordinary
<1>2. pc[c] = "new" /\ ClientRest /\ UNCHANGED client_id /\ ClientSends(c, Plain("l"), <<>>, "reading")
  BY DEF Start
<1>3. pc' = [pc EXCEPT ![c] = "reading"] /\ mail' = [mail EXCEPT ![n] = <<>>] /\ Arrives(c, Plain("l"))
  <2>1. pc' = [pc EXCEPT ![c] = "reading"] /\ Arrives(c, Plain("l"))
    BY <1>1, <1>2 DEF ClientSends, Fails
  <2>2. pc'[c] = "reading"
    BY <1>1, <2>1
  <2> QED BY <1>2, <2>1, <2>2 DEF ClientSends
<1>4. UNCHANGED <<server, request, clients>>
  BY <1>2 DEF ClientRest, threadVars, tableVars
<1>5. ~Started(n)
  <2>1. \A d \in Clients : d # c /\ client_name[d] = n => pc'[d] = "new"
    BY <1>1, <1>3 DEF Ordinary, Returned
  <2> QED BY <1>1, <1>2, <1>3, <2>1 DEF Started
<1>6. ~InTable(n) /\ \A d \in Clients : client_name[d] = n => client_id[d] = -1
  <2>1. RegistrationSound
    BY DEF AllSound
  <2>2. ASSUME NEW i \in Slots, clients[i].name = n PROVE FALSE
    BY <1>1, <1>5, <2>1, <2>2, Constants DEF RegistrationSound, Registered
  <2> QED BY <1>5, <2>1, <2>2 DEF InTable, RegistrationSound, Started
<1>7. \A m : m # n => /\ Started(m)' <=> Started(m)
                      /\ Bound(m)' <=> Bound(m)
  BY <1>1, <1>3 DEF Started, Bound, Alive
<1>8. mail'[n] = <<>> /\ \A m \in Names : m # n => mail'[m] = mail[m]
  BY <1>1, <1>3
<1>9. PICK v : v = [from |-> n, msg |-> Plain("l")]
  OBVIOUS
<1>10. v \in Requests /\ v.from = n /\ v.msg.kind = "l"
  BY <1>1, <1>9, Datagrams DEF Plain, Datagram
<1>11. Sound(v)'
  <2>1. Started(n)' /\ ~InTable(n)' /\ \A d \in Clients : client_name[d] = n => client_id'[d] = -1
    <3>1. Started(n)'
      BY <1>1, <1>3 DEF Started
    <3> QED BY <1>2, <1>4, <1>6, <3>1 DEF InTable
  <2>2. \A k \in 1 .. Len(mail'[n]) : FALSE
    BY <1>8, EmptySeq
  <2> QED BY <1>10, <2>1, <2>2 DEF Sound
<1>12. ASSUME NEW u \in Requests, Sound(u) PROVE Sound(u)' /\ InTurn(u, v)
  <2>1. u.from # n /\ u.from \in Names
    BY <1>5, <1>12 DEF Sound, Requests
  <2>2. InTurn(u, v)
    BY <1>10, <2>1 DEF InTurn
  <2> QED BY <1>2, <1>4, <1>7, <1>8, <1>12, <2>1, <2>2 DEF Sound, InTable
<1>13. RequestsSound'
  <2>1. Behind(c, v)
    BY <1>1, <1>3, <1>9, <1>10, InboxAfter
  <2> QED BY <1>4, <1>10, <1>11, <1>12, <2>1, RequestsAfter DEF AllSound
<1>14. RegistrationSound' /\ TableSound'
  <2>1. \A d \in Clients : pc'[d] = "new" => pc[d] = "new" /\ client_id'[d] = client_id[d]
    BY <1>1, <1>2, <1>3
  <2> QED BY <1>2, <2>1, TableAfter
<1>15. IdsSound'
  <2>1. \A d \in Clients : d # c /\ Alive(d)' => Alive(d) /\ client_name[d] # n
    <3>1. \A d \in Clients : d # c => pc'[d] = pc[d]
      BY <1>1, <1>3
    <3> QED BY <1>5, <3>1 DEF Alive, Started
  <2>2. \A k \in 1 .. Len(mail'[n]) : FALSE
    BY <1>8, EmptySeq
  <2>3. IdsSound /\ \A d \in Clients : client_name[d] \in Names
    BY Constants DEF AllSound
  <2>4. client_id'[c] = -1 /\ ~InTable(n)' /\ \A m : InTable(m)' <=> InTable(m)
    BY <1>2, <1>4, <1>6 DEF InTable
  <2>5. ASSUME NEW d \in Clients, Alive(d)'
        PROVE  /\ client_id'[d] # -1 => clients'[client_id'[d]].name = client_name[d]
               /\ InTable(client_name[d])' => HasId(d, Len(mail[client_name[d]]))'
               /\ \A k \in 1 .. Len(mail'[client_name[d]]) :
                    mail'[client_name[d]][k].kind = "end" => HasId(d, k)'
    <3>1. CASE d = c
      BY <2>2, <2>4, <3>1
    <3>2. CASE d # c
      <4>1. Alive(d) /\ client_name[d] # n /\ client_name[d] \in Names
        BY <2>1, <2>3, <2>5, <3>2
      <4> QED BY <1>2, <1>4, <1>8, <2>3, <2>4, <4>1 DEF IdsSound, HasId
    <3> QED BY <3>1, <3>2
  <2>6. ASSUME NEW m \in Names, NEW k \in 1 .. Len(mail'[m]), mail'[m][k].kind = "id"
        PROVE  clients'[mail'[m][k].id].name = m
    <3>1. m # n
      BY <2>2, <2>6
    <3> QED BY <1>4, <1>8, <2>3, <2>6, <3>1 DEF IdsSound
  <2> QED BY <2>5, <2>6 DEF IdsSound
<1> QED BY <1>13, <1>14, <1>15 DEF AllSound

\* A client that leaves: its last datagram, if any, is the "over" of its slot.
LEMMA LeavesSound ==
    ASSUME Typed, Typed', AllSound, Ordinary, NEW c \in Clients, Alive(c), ClientRest, UNCHANGED client_id,
           pc' = [pc EXCEPT ![c] = "gone"], mail' = [mail EXCEPT ![client_name[c]] = <<>>],
           UNCHANGED inbox \/ (client_id[c] # -1 /\ Arrives(c, over(c)))
    PROVE  AllSound'
<1> DEFINE n == client_name[c]
<1>1. n \in Names /\ pc \in [Clients -> {"new", "reading", "moving", "gone"}]
      /\ mail \in [Names -> Seq(ClientMail)] /\ server = "up" /\ client_id[c] \in Slots \cup {-1}
      /\ pc[c] # "new"
  BY Constants DEF Typed, TypeOK, Mail, Ordinary, Alive
<1>2. UNCHANGED <<server, request, clients>>
  BY DEF ClientRest, threadVars, tableVars
<1>3. \A d \in Clients : (d = c => pc'[d] = "gone") /\ (d # c => pc'[d] = pc[d])
  BY <1>1
<1>4. mail'[n] = <<>> /\ \A m \in Names : m # n => mail'[m] = mail[m]
  BY <1>1
<1>5. ~Bound(n)' /\ Started(n)' /\ \A d \in Clients : Alive(d)' => Alive(d) /\ client_name[d] # n
  <2>1. \A d \in Clients : client_name[d] = n /\ d # c => pc[d] = "new"
    BY OnlyUser
  <2>2. \A d \in Clients : Alive(d)' => Alive(d) /\ client_name[d] # n
    BY <1>3, <2>1 DEF Alive
  <2>3. Started(n)'
    BY <1>3 DEF Started
  <2> QED BY <2>2, <2>3 DEF Bound
<1>6. \A m : /\ Started(m)' <=> Started(m)
             /\ Bound(m)' => Bound(m)
             /\ InTable(m)' <=> InTable(m)
  <2>1. \A m : Started(m)' <=> Started(m)
    BY <1>1, <1>3 DEF Started
  <2>2. \A m : Bound(m)' => Bound(m)
    BY <1>5 DEF Bound
  <2> QED BY <1>2, <2>1, <2>2 DEF InTable
<1>7. \A k \in 1 .. Len(mail'[n]) : FALSE
  BY <1>4, EmptySeq
<1>8. ASSUME NEW u \in Requests, Sound(u) PROVE Sound(u)'
  <2>1. u.from \in Names
    BY DEF Requests
  <2>2. CASE u.from = n
    BY <1>2, <1>5, <1>6, <1>7, <1>8, <2>2 DEF Sound
  <2>3. CASE u.from # n
    BY <1>2, <1>4, <1>6, <1>8, <2>1, <2>3 DEF Sound
  <2> QED BY <2>2, <2>3
<1>9. PICK v : v = [from |-> n, msg |-> IF inbox' = inbox THEN Plain("response") ELSE over(c)]
  OBVIOUS
<1>10. v \in Requests /\ v.from = n /\ v.msg.kind # "l" /\ Behind(c, v)
       /\ (v.msg.kind = "over" => clients[v.msg.id].name = n)
  <2>1. CASE inbox' = inbox
    <3>1. v = [from |-> n, msg |-> Plain("response")]
      BY <1>9, <2>1
    <3>2. v \in Requests /\ v.from = n /\ v.msg.kind = "response"
      BY <1>1, <3>1, Datagrams DEF Plain, Datagram
    <3> QED BY <1>1, <2>1, <3>1, <3>2, InboxAfter
  <2>2. CASE inbox' # inbox
    <3>1. v = [from |-> n, msg |-> over(c)] /\ client_id[c] # -1 /\ Arrives(c, over(c))
      BY <1>9, <2>2
    <3>2. Id(c) \in Slots /\ Id(c) = client_id[c]
      BY <1>1, <3>1 DEF Id
    <3>3. v.from = n /\ v.msg.kind = "over" /\ v.msg.id = client_id[c]
      BY <3>1, <3>2 DEF over, Datagram
    <3>4. v \in Requests
      BY <1>1, <3>1, <3>2, Datagrams DEF over
    <3>5. clients[client_id[c]].name = n
      BY <3>1 DEF AllSound, IdsSound
    <3> QED BY <1>1, <3>1, <3>3, <3>4, <3>5, InboxAfter
  <2> QED BY <2>1, <2>2
<1>11. Sound(v)'
  BY <1>2, <1>5, <1>10 DEF Sound
<1>12. ASSUME NEW u \in Requests, Sound(u) PROVE InTurn(u, v)
  <2>1. u.from = n => u.msg.kind # "over"
    BY <1>12, OnlyUser DEF Sound
  <2> QED BY <1>10, <2>1 DEF InTurn
<1>13. RequestsSound'
  BY <1>2, <1>8, <1>10, <1>11, <1>12, RequestsAfter DEF AllSound
<1>14. RegistrationSound' /\ TableSound'
  <2>1. \A d \in Clients : pc'[d] = "new" => pc[d] = "new" /\ client_id'[d] = client_id[d]
    BY <1>1, <1>3
  <2> QED BY <2>1, TableAfter
<1>15. IdsSound'
  <2>1. IdsSound /\ \A d \in Clients : client_name[d] \in Names
    BY Constants DEF AllSound
  <2>2. ASSUME NEW d \in Clients, Alive(d)'
        PROVE  /\ client_id'[d] # -1 => clients'[client_id'[d]].name = client_name[d]
               /\ InTable(client_name[d])' => HasId(d, Len(mail[client_name[d]]))'
               /\ \A k \in 1 .. Len(mail'[client_name[d]]) :
                    mail'[client_name[d]][k].kind = "end" => HasId(d, k)'
    <3>1. Alive(d) /\ client_name[d] # n /\ client_name[d] \in Names
      BY <1>5, <2>1, <2>2
    <3> QED BY <1>2, <1>4, <1>6, <2>1, <3>1 DEF IdsSound, HasId
  <2>3. ASSUME NEW m \in Names, NEW k \in 1 .. Len(mail'[m]), mail'[m][k].kind = "id"
        PROVE  clients'[mail'[m][k].id].name = m
    <3>1. m # n
      BY <1>7, <2>3
    <3> QED BY <1>2, <1>4, <2>1, <2>3, <3>1 DEF IdsSound
  <2> QED BY <2>2, <2>3 DEF IdsSound
<1> QED BY <1>13, <1>14, <1>15 DEF AllSound

\* A client that goes on: it has read its first r letters, none or one.
LEMMA StaysSound ==
    ASSUME Typed, Typed', AllSound, Ordinary, NEW c \in Clients, Alive(c), ClientRest,
           NEW label \in {"reading", "moving"}, pc' = [pc EXCEPT ![c] = label],
           NEW r \in {0, 1}, Len(mail[client_name[c]]) = Len(mail'[client_name[c]]) + r,
           \A k \in 1 .. Len(mail'[client_name[c]]) : mail'[client_name[c]][k] = mail[client_name[c]][k + r],
           \A m \in Names : m # client_name[c] => mail'[m] = mail[m],
           \A d \in Clients : d # c => client_id'[d] = client_id[d],
           client_id'[c] = IF r = 1 /\ mail[client_name[c]][1].kind = "id"
                           THEN mail[client_name[c]][1].id ELSE client_id[c],
           NEW msg, msg.kind \notin {"l", "over"}, [from |-> client_name[c], msg |-> msg] \in Requests,
           UNCHANGED inbox \/ Arrives(c, msg)
    PROVE  AllSound'
<1> DEFINE n == client_name[c]
           old == mail[n]
           new == mail'[n]
<1>1. n \in Names /\ pc \in [Clients -> {"new", "reading", "moving", "gone"}]
      /\ server = "up" /\ client_id[c] \in Slots \cup {-1} /\ pc[c] # "new"
      /\ old \in Seq(ClientMail)
  BY Constants DEF Typed, TypeOK, Mail, Ordinary, Alive
<1>2. UNCHANGED <<server, request, clients>>
  BY DEF ClientRest, threadVars, tableVars
<1>3. \A d \in Clients : /\ Alive(d)' <=> Alive(d)
                         /\ pc'[d] = "new" <=> pc[d] = "new"
  <2>1. Alive(c)' /\ pc'[c] # "new"
    BY <1>1 DEF Alive
  <2>2. \A d \in Clients : d # c => pc'[d] = pc[d]
    BY <1>1
  <2> QED BY <1>1, <2>1, <2>2 DEF Alive
<1>4. \A m : /\ Started(m)' <=> Started(m)
             /\ Bound(m)' <=> Bound(m)
             /\ InTable(m)' <=> InTable(m)
  BY <1>2, <1>3 DEF Started, Bound, InTable
<1>5. /\ Len(old) \in Nat /\ Len(new) \in Nat /\ Len(old) = Len(new) + r
      /\ \A k \in 1 .. Len(new) : k + r \in 1 .. Len(old) /\ new[k] = old[k + r]
      /\ r = 1 => 1 \in 1 .. Len(old)
  <2>1. Len(old) \in Nat /\ Len(new) \in Nat
    BY <1>1, LenProperties DEF Typed, Mail
  <2>2. \A k \in 1 .. Len(new) : k + r \in 1 .. Len(old)
    BY <2>1
  <2> QED BY <2>1, <2>2
<1>6. client_id'[c] # client_id[c] => r = 1 /\ old[1].kind = "id" /\ client_id'[c] = old[1].id
  OBVIOUS
<1>7. ASSUME NEW u \in Requests, Sound(u) PROVE Sound(u)'
  <2>1. u.from \in Names
    BY DEF Requests
  <2>2. CASE u.from = n
    <3>1. u.msg.kind = "l" => \A k \in 1 .. Len(old) : old[k].kind \notin {"id", "end"}
      BY <1>7, <2>2 DEF Sound
    <3>2. u.msg.kind = "l" => \A k \in 1 .. Len(new) : new[k].kind \notin {"id", "end"}
      BY <1>5, <3>1
    <3>3. u.msg.kind = "l" => client_id'[c] = client_id[c]
      BY <1>5, <1>6, <3>1
    <3> QED BY <1>2, <1>4, <1>7, <2>2, <3>2, <3>3 DEF Sound
  <2>3. CASE u.from # n
    BY <1>2, <1>4, <1>7, <2>1, <2>3 DEF Sound
  <2> QED BY <2>2, <2>3
<1>8. PICK v : v = [from |-> n, msg |-> msg]
  OBVIOUS
<1>9. v \in Requests /\ v.from = n /\ v.msg.kind \notin {"l", "over"} /\ Behind(c, v)
  BY <1>1, <1>8, InboxAfter
<1>10. Sound(v)'
  <2>1. Started(n)'
    BY <1>4, OnlyUser
  <2> QED BY <1>9, <2>1 DEF Sound
<1>11. ASSUME NEW u \in Requests, Sound(u) PROVE InTurn(u, v)
  <2>1. u.from = n => u.msg.kind # "over"
    BY <1>11, OnlyUser DEF Sound
  <2> QED BY <1>9, <2>1 DEF InTurn
<1>12. RequestsSound'
  BY <1>2, <1>7, <1>9, <1>10, <1>11, RequestsAfter DEF AllSound
<1>13. RegistrationSound' /\ TableSound'
  <2>1. \A d \in Clients : pc'[d] = "new" => pc[d] = "new" /\ client_id'[d] = client_id[d]
    BY <1>1, <1>3
  <2> QED BY <2>1, TableAfter
<1>14. IdsSound'
  <2>1. IdsSound /\ \A d \in Clients : client_name[d] \in Names
    BY Constants DEF AllSound
  <2>2. \A d \in Clients : Alive(d) /\ client_name[d] = n => d = c
    BY OnlyUser DEF Alive
  <2>3. \A k \in 1 .. Len(old) : old[k] \in ClientMail /\ (old[k].kind = "id" => old[k].id \in Slots)
    <3>1. \A k \in 1 .. Len(old) : old[k] \in ClientMail
      BY <1>1, ElementOfSeq
    <3> QED BY <3>1 DEF ClientMail
  <2>4. \A k \in 1 .. Len(old) : old[k].kind = "id" => clients[old[k].id].name = n
    BY <1>1, <2>1 DEF IdsSound
  <2>5. client_id'[c] # -1 => clients[client_id'[c]].name = n
    <3>1. client_id[c] # -1 => clients[client_id[c]].name = n
      BY <2>1 DEF IdsSound
    <3> QED BY <1>5, <1>6, <2>4, <3>1
  <2>6. ASSUME NEW k \in 0 .. Len(new), HasId(c, k + r) PROVE HasId(c, k)'
    <3>1. CASE client_id'[c] # -1
      BY <3>1 DEF HasId
    <3>2. CASE client_id'[c] = -1
      <4>1. client_id[c] = -1 /\ (r = 1 => old[1].kind # "id")
        <5>1. r = 1 /\ old[1].kind = "id" => client_id'[c] \in Slots /\ client_id'[c] = old[1].id
          BY <1>5, <2>3
        <5>2. -1 \notin Slots
          BY DEF Slots
        <5> QED BY <1>6, <3>2, <5>1, <5>2
      <4>2. PICK m \in 1 .. k + r : old[m].kind = "id"
        BY <2>6, <4>1 DEF HasId
      <4>3. m - r \in 1 .. k /\ m - r \in 1 .. Len(new) /\ (m - r) + r = m
        <5>1. r = 1 => m # 1
          BY <4>1, <4>2
        <5> QED BY <1>5, <5>1
      <4>4. new[m - r].kind = "id"
        BY <1>5, <4>2, <4>3
      <4> QED BY <4>3, <4>4 DEF HasId
    <3> QED BY <3>1, <3>2
  <2>7. ASSUME NEW k, k = Len(new), InTable(n) PROVE HasId(c, k)'
    <3>1. HasId(c, k + r) /\ k \in 0 .. Len(new)
      BY <1>5, <2>1, <2>7 DEF IdsSound
    <3> QED BY <2>6, <3>1
  <2>8. \A k \in 1 .. Len(new) : new[k].kind = "end" => HasId(c, k)'
    <3> SUFFICES ASSUME NEW k \in 1 .. Len(new), new[k].kind = "end" PROVE HasId(c, k)'
      OBVIOUS
    <3>1. HasId(c, k + r) /\ k \in 0 .. Len(new)
      BY <1>5, <2>1 DEF IdsSound
    <3> QED BY <2>6, <3>1
  <2>9. ASSUME NEW d \in Clients, Alive(d)'
        PROVE  /\ client_id'[d] # -1 => clients'[client_id'[d]].name = client_name[d]
               /\ InTable(client_name[d])' => HasId(d, Len(mail[client_name[d]]))'
               /\ \A k \in 1 .. Len(mail'[client_name[d]]) :
                    mail'[client_name[d]][k].kind = "end" => HasId(d, k)'
    <3>1. CASE d = c
      <4>1. InTable(n) => HasId(c, Len(mail[n]))'
        BY <2>7 DEF HasId
      <4> QED BY <1>2, <1>4, <2>5, <2>8, <3>1, <4>1
    <3>2. CASE d # c
      <4>1. Alive(d) /\ client_name[d] # n /\ client_name[d] \in Names
        BY <1>3, <2>1, <2>2, <2>9, <3>2
      <4>2. client_id'[d] = client_id[d] /\ mail'[client_name[d]] = mail[client_name[d]]
        BY <1>2, <1>4, <3>2, <4>1
      <4>3. \A k : HasId(d, k)' <=> HasId(d, k)
        BY <4>2 DEF HasId
      <4>4. /\ client_id[d] # -1 => clients[client_id[d]].name = client_name[d]
            /\ InTable(client_name[d]) => HasId(d, Len(mail[client_name[d]]))
            /\ \A k \in 1 .. Len(mail[client_name[d]]) :
                 mail[client_name[d]][k].kind = "end" => HasId(d, k)
        BY <2>1, <4>1 DEF IdsSound
      <4> HIDE DEF HasId, InTable
      <4>5. clients' = clients /\ (InTable(client_name[d])' <=> InTable(client_name[d]))
        BY <1>2 DEF InTable
      <4>6. HasId(d, Len(mail[client_name[d]]))' <=> HasId(d, Len(mail[client_name[d]]))
        BY <4>2 DEF HasId
      <4> QED BY <4>2, <4>3, <4>4, <4>5, <4>6
    <3> QED BY <3>1, <3>2
  <2>10. ASSUME NEW m \in Names, NEW k \in 1 .. Len(mail'[m]), mail'[m][k].kind = "id"
        PROVE  clients'[mail'[m][k].id].name = m
    <3>1. CASE m = n
      BY <1>2, <1>5, <2>4, <2>10, <3>1, ZenonT(60)
    <3>2. CASE m # n
      BY <1>2, <2>1, <2>10, <3>2 DEF IdsSound
    <3> QED BY <3>1, <3>2
  <2> QED BY <2>9, <2>10 DEF IdsSound
<1> QED BY <1>12, <1>13, <1>14 DEF AllSound

\* What is left behind the first letter.
LEMMA Shifted ==
    ASSUME Typed, NEW c \in Clients, mail[client_name[c]] # <<>>,
           mail' = [mail EXCEPT ![client_name[c]] = rest_of(c)]
    PROVE  /\ Len(mail[client_name[c]]) = Len(mail'[client_name[c]]) + 1
           /\ \A k \in 1 .. Len(mail'[client_name[c]]) : mail'[client_name[c]][k] = mail[client_name[c]][k + 1]
           /\ \A m \in Names : m # client_name[c] => mail'[m] = mail[m]
           /\ msg_of(c) = mail[client_name[c]][1] /\ Len(mail[client_name[c]]) \in Nat
           /\ 1 \in 1 .. Len(mail[client_name[c]])
<1> DEFINE q == mail[client_name[c]]
<1>1. q \in Seq(ClientMail) /\ q # <<>> /\ mail'[client_name[c]] = Tail(q) /\ msg_of(c) = Head(q)
      /\ \A m \in Names : m # client_name[c] => mail'[m] = mail[m]
  BY Constants DEF Typed, Mail, msg_of, rest_of
<1> HIDE DEF q
<1>2. Len(Tail(q)) = Len(q) - 1 /\ Head(q) = q[1] /\ Len(q) \in Nat /\ Len(q) > 0
  BY <1>1, EmptySeq
<1>3. \A k \in 1 .. Len(q) - 1 : Tail(q)[k] = q[k + 1]
  BY <1>1
<1>4. Len(q) = Len(Tail(q)) + 1 /\ 1 \in 1 .. Len(q) /\ \A k \in 1 .. Len(Tail(q)) : Tail(q)[k] = q[k + 1]
  BY <1>2, <1>3
<1> QED BY <1>1, <1>2, <1>4 DEF q

LEMMA ReadSound ==
    ASSUME Typed, Typed', AllSound, Ordinary, NEW c \in Clients,
           \/ ReadMove(c) \/ ReadEnd(c) \/ ReadPing(c) \/ ReadSymbol(c) \/ ReadId(c)
           \/ ReadWaiting(c) \/ ReadDismissal(c)
    PROVE  AllSound'
<1> DEFINE n == client_name[c]
<1>1. /\ pc[c] = "reading" /\ Alive(c) /\ ClientRest /\ mail[n] # <<>>
      /\ pc \in [Clients -> {"new", "reading", "moving", "gone"}] /\ mail \in [Names -> Seq(ClientMail)]
      /\ client_id \in [Clients -> Slots \cup {-1}]
      /\ n \in Names /\ ~Fails(c) /\ Id(c) \in Slots
  BY Constants DEF ReadMove, ReadEnd, ReadPing, ReadSymbol, ReadId, ReadWaiting, ReadDismissal, Reads, Alive,
                   Typed, TypeOK, Mail, Ordinary, Fails, Id
<1>2. /\ [from |-> n, msg |-> Plain("E")] \in Requests /\ Plain("E").kind = "E"
      /\ [from |-> n, msg |-> Plain("response")] \in Requests /\ Plain("response").kind = "response"
  BY <1>1, Datagrams DEF Plain, Datagram
<1>3. ASSUME NEW label \in {"reading", "moving"}, pc' = [pc EXCEPT ![c] = label],
             mail' = [mail EXCEPT ![n] = rest_of(c)],
             client_id' = IF msg_of(c).kind = "id" THEN [client_id EXCEPT ![c] = msg_of(c).id] ELSE client_id,
             NEW kind \in {"E", "response"}, UNCHANGED inbox \/ Arrives(c, Plain(kind))
      PROVE  AllSound'
  <2>1. /\ Len(mail[n]) = Len(mail'[n]) + 1
        /\ \A k \in 1 .. Len(mail'[n]) : mail'[n][k] = mail[n][k + 1]
        /\ \A m \in Names : m # n => mail'[m] = mail[m]
        /\ msg_of(c) = mail[n][1]
    BY <1>1, <1>3, Shifted
  <2>2. /\ client_id'[c] = IF 1 = 1 /\ mail[n][1].kind = "id" THEN mail[n][1].id ELSE client_id[c]
        /\ \A d \in Clients : d # c => client_id'[d] = client_id[d]
    BY <1>1, <1>3, <2>1
  <2>3. Plain(kind).kind \notin {"l", "over"} /\ [from |-> n, msg |-> Plain(kind)] \in Requests /\ 1 \in {0, 1}
    BY <1>2
  <2> QED BY <1>1, <1>3, <2>1, <2>2, <2>3, StaysSound
<1>4. ASSUME NEW kind \in {"E", "response"}, NEW label \in {"reading", "moving"},
             ClientSends(c, Plain(kind), rest_of(c), label) \/ Goes(c, label)
      PROVE  /\ pc' = [pc EXCEPT ![c] = label] /\ mail' = [mail EXCEPT ![n] = rest_of(c)]
             /\ UNCHANGED inbox \/ Arrives(c, Plain(kind))
  <2>1. pc' = [pc EXCEPT ![c] = label] /\ pc'[c] = label
    BY <1>1, <1>4 DEF ClientSends, Goes
  <2> QED BY <1>4, <2>1 DEF ClientSends, Goes
<1>5. CASE ReadMove(c)
  <2>1. msg_of(c).kind = "move" /\ UNCHANGED client_id
    BY <1>5 DEF ReadMove, Reads, msg_of
  <2>2. ClientSends(c, Plain("E"), rest_of(c), "reading") \/ Goes(c, "moving")
    BY <1>5 DEF ReadMove
  <2> QED BY <1>3, <1>4, <2>1, <2>2
<1>6. CASE ReadPing(c) \/ ReadWaiting(c)
  <2>1. msg_of(c).kind \in {"ping", "waiting"} /\ UNCHANGED client_id
    BY <1>6 DEF ReadPing, ReadWaiting, Reads, msg_of
  <2>2. ClientSends(c, Plain("response"), rest_of(c), "reading") \/ Goes(c, "reading")
    BY <1>6 DEF ReadPing, ReadWaiting
  <2> QED BY <1>3, <1>4, <2>1, <2>2
<1>7. CASE ReadSymbol(c)
  <2>1. msg_of(c).kind = "symbol" /\ UNCHANGED client_id
    BY <1>7 DEF ReadSymbol, Reads, msg_of
  <2>2. PICK label \in {"reading", "moving"} : Goes(c, label)
    BY <1>7 DEF ReadSymbol
  <2> QED BY <1>3, <1>4, <2>1, <2>2
<1>8. CASE ReadId(c)
  <2>1. msg_of(c).kind = "id" /\ client_id' = [client_id EXCEPT ![c] = msg_of(c).id] /\ Goes(c, "reading")
    BY <1>8 DEF ReadId, Reads, msg_of
  <2> QED BY <1>3, <1>4, <2>1
<1>9. CASE ReadEnd(c)
  <2>1. UNCHANGED client_id /\ ClientSends(c, over(c), <<>>, "gone") /\ Head(mail[n]).kind = "end"
    BY <1>9 DEF ReadEnd, Reads
  <2>2. pc' = [pc EXCEPT ![c] = "gone"] /\ Arrives(c, over(c)) /\ pc'[c] = "gone"
    BY <1>1, <2>1 DEF ClientSends
  <2>3. mail' = [mail EXCEPT ![n] = <<>>]
    BY <2>1, <2>2 DEF ClientSends
  <2>4. client_id[c] # -1
    <3>1. mail[n] \in Seq(ClientMail)
      BY <1>1
    <3>2. mail[n][1].kind = "end" /\ 1 \in 1 .. Len(mail[n])
      <4> DEFINE q == mail[n]
      <4>1. q \in Seq(ClientMail) /\ q # <<>> /\ Head(q).kind = "end"
        BY <1>1, <2>1, <3>1
      <4> HIDE DEF q
      <4>2. Head(q) = q[1] /\ 1 \in 1 .. Len(q)
        BY <4>1, EmptySeq
      <4> QED BY <4>1, <4>2 DEF q
    <3>3. HasId(c, 1)
      BY <1>1, <3>2 DEF AllSound, IdsSound
    <3>4. \A m \in 1 .. 1 : mail[n][m].kind # "id"
      BY <3>2
    <3> QED BY <3>3, <3>4 DEF HasId
  <2> QED BY <1>1, <2>1, <2>2, <2>3, <2>4, LeavesSound
<1>10. CASE ReadDismissal(c)
  <2>1. UNCHANGED client_id /\ Goes(c, "gone")
    BY <1>10 DEF ReadDismissal
  <2>2. pc' = [pc EXCEPT ![c] = "gone"] /\ mail' = [mail EXCEPT ![n] = <<>>] /\ UNCHANGED inbox
    BY <2>1 DEF Goes
  <2> QED BY <1>1, <2>1, <2>2, LeavesSound
<1> QED BY <1>5, <1>6, <1>7, <1>8, <1>9, <1>10

LEMMA UserSound ==
    ASSUME Typed, Typed', AllSound, Ordinary, NEW c \in Clients, read_move(c) \/ Interrupt(c) \/ Crash(c)
    PROVE  AllSound'
<1> DEFINE n == client_name[c]
<1>1. /\ Alive(c) /\ ClientRest /\ UNCHANGED client_id
      /\ pc \in [Clients -> {"new", "reading", "moving", "gone"}] /\ mail \in [Names -> Seq(ClientMail)]
      /\ client_id \in [Clients -> Slots \cup {-1}] /\ symbol \in [Clients -> Symbols \cup {None}]
      /\ n \in Names /\ ~Fails(c) /\ Id(c) \in Slots
  BY Constants DEF read_move, Interrupt, Crash, Alive, Typed, TypeOK, Mail, Ordinary, Fails, Id
<1>2. CASE Interrupt(c)
  <2>1. client_id[c] # -1 /\ ClientSends(c, over(c), <<>>, "gone")
    BY <1>2 DEF Interrupt
  <2>2. pc' = [pc EXCEPT ![c] = "gone"] /\ Arrives(c, over(c)) /\ pc'[c] = "gone"
    BY <1>1, <2>1 DEF ClientSends
  <2>3. mail' = [mail EXCEPT ![n] = <<>>]
    BY <2>1, <2>2 DEF ClientSends
  <2> QED BY <1>1, <2>1, <2>2, <2>3, LeavesSound
<1>3. CASE Crash(c)
  <2>1. pc' = [pc EXCEPT ![c] = "gone"] /\ mail' = [mail EXCEPT ![n] = <<>>] /\ UNCHANGED inbox
    BY <1>3 DEF Crash
  <2> QED BY <1>1, <2>1, LeavesSound
<1>4. CASE read_move(c)
  <2>1. ASSUME pc' = [pc EXCEPT ![c] = "reading"], mail' = [mail EXCEPT ![n] = mail[n]],
               NEW msg, msg.kind \notin {"l", "over"}, [from |-> n, msg |-> msg] \in Requests,
               UNCHANGED inbox \/ Arrives(c, msg)
        PROVE  AllSound'
    <3>1. mail' = mail
      BY <1>1, <2>1
    <3>2. Len(mail[n]) \in Nat
      BY <1>1, LenProperties
    <3>3. /\ Len(mail[n]) = Len(mail'[n]) + 0
          /\ \A k \in 1 .. Len(mail'[n]) : mail'[n][k] = mail[n][k + 0]
          /\ \A m \in Names : m # n => mail'[m] = mail[m]
      BY <3>1, <3>2
    <3>4. /\ client_id'[c] = IF 0 = 1 /\ mail[n][1].kind = "id" THEN mail[n][1].id ELSE client_id[c]
          /\ \A d \in Clients : d # c => client_id'[d] = client_id[d]
          /\ 0 \in {0, 1} /\ "reading" \in {"reading", "moving"}
      BY <1>1
    <3> QED BY <1>1, <2>1, <3>3, <3>4, StaysSound
  <2>2. PICK f \in Fields :
          IF symbol[c] = None
          THEN /\ pc' = [pc EXCEPT ![c] = IF Fails(c) THEN "gone" ELSE "reading"]
               /\ mail' = [mail EXCEPT ![n] = IF Fails(c) THEN <<>> ELSE @]
               /\ UNCHANGED <<inbox, board>>
          ELSE ClientSends(c, Datagram("move", symbol[c], f, Id(c)), mail[n], "reading")
    BY <1>4 DEF read_move
  <2>3. CASE symbol[c] = None
    <3>1. [from |-> n, msg |-> Plain("response")] \in Requests /\ Plain("response").kind = "response"
      BY <1>1, Datagrams DEF Plain, Datagram
    <3>2. pc' = [pc EXCEPT ![c] = "reading"] /\ mail' = [mail EXCEPT ![n] = mail[n]] /\ UNCHANGED inbox
      BY <1>1, <2>2, <2>3
    <3> QED BY <2>1, <3>1, <3>2
  <2>4. CASE symbol[c] # None
    <3> DEFINE msg == Datagram("move", symbol[c], f, Id(c))
    <3>1. symbol[c] \in Symbols
      BY <1>1, <2>4
    <3>2. [from |-> n, msg |-> msg] \in Requests /\ msg.kind = "move"
      BY <1>1, <3>1, Datagrams DEF Datagram
    <3>3. ClientSends(c, msg, mail[n], "reading")
      BY <2>2, <2>4
    <3> HIDE DEF msg
    <3>4. pc' = [pc EXCEPT ![c] = "reading"] /\ Arrives(c, msg) /\ pc'[c] = "reading"
      BY <1>1, <3>3 DEF ClientSends
    <3>5. mail' = [mail EXCEPT ![n] = mail[n]]
      BY <3>3, <3>4 DEF ClientSends
    <3> QED BY <2>1, <3>2, <3>4, <3>5
  <2> QED BY <2>3, <2>4
<1> QED BY <1>2, <1>3, <1>4

LEMMA InitSound == Init => AllSound
<1> SUFFICES ASSUME Init PROVE AllSound
  OBVIOUS
<1>1. /\ \A s \in Sockets : \A k \in 1 .. Len(inbox[s]) : FALSE
      /\ \A n \in Names : \A k \in 1 .. Len(mail[n]) : FALSE
      /\ request = None /\ registering = None
  BY EmptySeq DEF Init
<1>2. Registered = {} /\ clients_number = 0
  BY DEF Init, Registered
<1>3. \A c \in Clients : ~Alive(c) /\ client_id[c] = -1
  BY DEF Init, Alive
<1>4. TableSound
  <2>1. Registered \cup ({registering} \ {None}) = {}
    BY <1>1, <1>2
  <2> QED BY <1>2, <2>1, FS_EmptySet DEF TableSound
<1> QED BY <1>1, <1>2, <1>3, <1>4, Constants DEF AllSound, RequestsSound, RegistrationSound, IdsSound

LEMMA NextSound == IInv /\ [Next]_vars => IInv'
<1> SUFFICES ASSUME IInv, [Next]_vars PROVE IInv'
  OBVIOUS
<1>1. Typed /\ Typed'
  BY NextTyped DEF IInv
<1>2. ASSUME Ordinary' PROVE AllSound'
  <2>1. Ordinary /\ AllSound /\ server' = "up"
    BY <1>1, <1>2, OrdinaryBefore DEF IInv, Ordinary
  <2>2. CASE SocketThread
    BY <1>1, <2>1, <2>2, ReceiveSound, RegisterSound, ActivateSound, EnterSound, RemoveSound,
       RequestsActionsSound DEF SocketThread
  <2>3. CASE PingThread
    BY <1>1, <2>1, <2>3, PingSound
  <2>4. CASE ServerInterrupt
    BY <2>1, <2>4 DEF ServerInterrupt
  <2>5. ASSUME NEW c \in Clients, Client(c) \/ Interrupt(c) \/ Crash(c) PROVE AllSound'
    BY <1>1, <1>2, <2>1, <2>5, StartSound, ReadSound, UserSound DEF Client
  <2>6. CASE UNCHANGED vars
    BY <2>1, <2>6 DEF vars, AllSound, RequestsSound, RegistrationSound, IdsSound, TableSound, Sound, Started,
                      InTable, Bound, Alive, HasId, Registered
  <2> QED BY <2>2, <2>3, <2>4, <2>5, <2>6 DEF Next
<1> QED BY <1>1, <1>2 DEF IInv

-----------------------------------------------------------------------------
(* Games: whose turn it is, and the boards *)

\* A client in a slot, its own from the moment register_client fills it.
Sits(c, i) == clients[i].name = client_name[c] \/ (registering = i /\ request.from = client_name[c])
Engaged(c) ==
    /\ Alive(c)
    /\ \A k \in 1 .. Len(mail[client_name[c]]) : mail[client_name[c]][k].kind # "end"
Seated(i) == clients[i].pair_id = -1 \/ InGame(i)

\* Both slots of a pair are in its game, or neither is; a free slot is in none.
PairsSound ==
    /\ \A q \in Pairs : pairs[q].x # -1 =>
         /\ pairs[q].o \in Slots /\ pairs[q].x # pairs[q].o
         /\ clients[pairs[q].x].pair_id = q <=> clients[pairs[q].o].pair_id = q
    /\ \A q \in Pairs : pairs[q].x = -1 => pairs[q].o = -1
    /\ \A i \in Slots : clients[i].name = None /\ registering # i => ~InGame(i)

\* The turn comes with a move of the other player, or with the symbol X.
Turning == {m \in ClientMail : m.kind = "move" \/ (m.kind = "symbol" /\ m.sym = "X")}
MovesOf(n) == {u \in Requests : u.from = n /\ u.msg.kind = "move"}

\* A client that was told a symbol has sat down to a game; one that has the
\* turn has its id; a move carries the slot of its sender.
MoveSound(u) == u.msg.kind = "move" => clients[u.msg.id].name = u.from /\ Seated(u.msg.id)
SeatSound(c) ==
    /\ symbol[c] # None \/ (\E k \in 1 .. Len(mail[client_name[c]]) : mail[client_name[c]][k].kind = "symbol") =>
         \E i \in Slots : Sits(c, i) /\ Seated(i)
    /\ pc[c] = "moving" => client_id[c] # -1
    /\ \A k \in 1 .. Len(mail[client_name[c]]) : mail[client_name[c]][k] \in Turning => HasId(c, k)
SeatsSound ==
    /\ \A c \in Clients : Alive(c) => SeatSound(c)
    /\ \A s \in Sockets : \A k \in 1 .. Len(inbox[s]) : MoveSound(inbox[s][k])
    /\ request # None => MoveSound(request)

\* The turns that client c has or was sent, and the moves it has sent itself.
Asks(n) == request # None /\ request \in MovesOf(n)
Count(q, S) == Cardinality({k \in 1 .. Len(q) : q[k] \in S})
One(p) == IF p THEN 1 ELSE 0
Hand(c) ==
    One(pc[c] = "moving") + Count(mail[client_name[c]], Turning)
        + One(Asks(client_name[c])) + Count(inbox[Socket(c)], MovesOf(client_name[c]))

Blank(c) == symbol[c] = None /\ \A f \in Fields : board[c][f] = "-"
\* A client that plays no game has a blank board, and no turn.
Fresh(c) ==
    /\ Blank(c) /\ Hand(c) = 0
    /\ \A k \in 1 .. Len(mail[client_name[c]]) : mail[client_name[c]][k].kind # "symbol"
FreshSound ==
    /\ \A c \in Clients : pc[c] = "new" => Blank(c)
    /\ \A c \in Clients : Engaged(c) /\ (\A i \in Slots : Sits(c, i) => ~InGame(i)) => Fresh(c)

\* Client c plays with symbol s against d: its moves stand on its board.
Side(c, d, s) ==
    /\ symbol[c] \in {None, s}
    /\ \A k \in 1 .. Len(mail[client_name[c]]) :
         mail[client_name[c]][k].kind = "symbol" => mail[client_name[c]][k].sym = s
    /\ \A m \in MovesFrom(c, d) : m.sym = s /\ board[c][m.field] = s

\* Two clients in one game: there is one turn, or a move on its way to become
\* one, and but for that move the boards agree.
Duel(c, d, s, t) ==
    /\ Side(c, d, s) /\ Side(d, c, t)
    /\ Hand(c) + Hand(d) <= 1
    /\ \A f \in Fields : board[c][f] = board[d][f] \/ \E m \in MovesFrom(c, d) \cup MovesFrom(d, c) : m.field = f
DuelsSound ==
    \A p \in Pairs : pairs[p].x # -1 /\ clients[pairs[p].x].pair_id = p =>
        \A x, o \in Clients :
            /\ Sits(x, pairs[p].x) /\ Sits(o, pairs[p].o)
            /\ Engaged(x) /\ Engaged(o)
            => Duel(x, o, "X", "O")

GamesSound == PairsSound /\ SeatsSound /\ FreshSound /\ DuelsSound

\* As long as every move was read as it was sent and every game was played by two.
Orderly == Ordinary /\ ~misread /\ ~torn
GInv == IInv /\ (Orderly => GamesSound)

-----------------------------------------------------------------------------
(* Counting *)

\* The places of a sequence that Count counts.
LEMMA CountIs ==
    ASSUME NEW q, Len(q) \in Nat, NEW S
    PROVE  /\ IsFiniteSet({k \in 1 .. Len(q) : q[k] \in S}) /\ Count(q, S) \in Nat
           /\ Count(q, S) = 0 <=> \A k \in 1 .. Len(q) : q[k] \notin S
           /\ Count(q, S) <= 1 =>
                \A k, l \in 1 .. Len(q) : q[k] \in S /\ q[l] \in S => k = l
<1> DEFINE K == {k \in 1 .. Len(q) : q[k] \in S}
<1>1. IsFiniteSet(K)
  <2>1. IsFiniteSet(1 .. Len(q)) /\ K \in SUBSET (1 .. Len(q))
    BY FS_Interval
  <2> QED BY <2>1, FS_Subset
<1>2. Cardinality(K) \in Nat
  BY <1>1, FS_CardinalityType
<1>3. Cardinality(K) = 0 <=> K = {}
  BY <1>1, FS_EmptySet
<1>4. ASSUME Cardinality(K) <= 1, NEW k \in K, NEW l \in K PROVE k = l
  <2>1. Cardinality(K) = 1
    BY <1>2, <1>3, <1>4
  <2>2. PICK j : K = {j}
    BY <1>1, <2>1, FS_Singleton
  <2> HIDE DEF K
  <2> QED BY <1>4, <2>2
<1> QED BY <1>1, <1>2, <1>3, <1>4 DEF Count

\* More at the end adds what is new.
LEMMA CountLonger ==
    ASSUME NEW a, NEW b, Len(a) \in Nat, Len(b) \in Nat, NEW S, Longer(a, b)
    PROVE  /\ (\A k \in 1 .. Len(b) : k > Len(a) => b[k] \notin S) => Count(b, S) = Count(a, S)
           /\ Len(b) <= Len(a) + 1 => Count(b, S) <= Count(a, S) + 1
<1> DEFINE A == {k \in 1 .. Len(a) : a[k] \in S}
           B == {k \in 1 .. Len(b) : b[k] \in S}
<1>1. IsFiniteSet(A) /\ IsFiniteSet(B) /\ Cardinality(A) \in Nat /\ Cardinality(B) \in Nat
  BY CountIs DEF Count
<1>2. ASSUME \A k \in 1 .. Len(b) : k > Len(a) => b[k] \notin S PROVE A = B
  <2>1. A \subseteq B
    BY DEF Longer
  <2>2. ASSUME NEW k \in B PROVE k \in A
    <3>1. k \in 1 .. Len(a)
      BY <1>2, <2>2
    <3> QED BY <2>2, <3>1 DEF Longer
  <2> QED BY <2>1, <2>2
<1>3. ASSUME Len(b) <= Len(a) + 1 PROVE Cardinality(B) <= Cardinality(A) + 1
  <2>1. B \subseteq A \cup {Len(a) + 1}
    <3> SUFFICES ASSUME NEW k \in B, k # Len(a) + 1 PROVE k \in A
      OBVIOUS
    <3>1. k \in 1 .. Len(a)
      BY <1>3
    <3> QED BY <3>1 DEF Longer
  <2> HIDE DEF A, B
  <2>2. /\ IsFiniteSet(A \cup {Len(a) + 1})
        /\ Cardinality(A \cup {Len(a) + 1}) = IF Len(a) + 1 \in A THEN Cardinality(A) ELSE Cardinality(A) + 1
    BY <1>1, FS_AddElement
  <2>3. Cardinality(B) <= Cardinality(A \cup {Len(a) + 1})
    BY <2>1, <2>2, FS_Subset
  <2> QED BY <1>1, <2>2, <2>3
<1> QED BY <1>2, <1>3 DEF Count

\* Without its first a sequence has no more, and one less if that counted.
LEMMA CountShifted ==
    ASSUME NEW a, NEW b, Len(a) \in Nat, Len(b) \in Nat, NEW S, Len(a) = Len(b) + 1,
           \A k \in 1 .. Len(b) : b[k] = a[k + 1]
    PROVE  Count(b, S) + One(a[1] \in S) <= Count(a, S)
<1> DEFINE A == {k \in 1 .. Len(a) : a[k] \in S}
           B == {k \in 1 .. Len(b) : b[k] \in S}
           f == [k \in B |-> k + 1]
<1>1. IsFiniteSet(A) /\ IsFiniteSet(B) /\ Cardinality(A) \in Nat /\ Cardinality(B) \in Nat
  BY CountIs DEF Count
<1>2. f \in Injection(B, A \ {1})
  <2>1. \A k \in B : k \in Nat /\ k + 1 \in A \ {1}
    OBVIOUS
  <2> HIDE DEF A, B
  <2>2. f \in [B -> A \ {1}] /\ \A k, l \in B : f[k] = f[l] => k = l
    BY <2>1
  <2> QED BY <2>2 DEF Injection, IsInjective
<1>3. 1 \in A <=> a[1] \in S
  OBVIOUS
<1> HIDE DEF A, B, f
<1>4. /\ IsFiniteSet(A \ {1})
      /\ Cardinality(A \ {1}) = IF 1 \in A THEN Cardinality(A) - 1 ELSE Cardinality(A)
  BY <1>1, FS_RemoveElement
<1>5. Cardinality(B) <= Cardinality(A \ {1})
  BY <1>2, <1>4, FS_Injection
<1>6. Cardinality(B) + One(a[1] \in S) <= Cardinality(A)
  BY <1>1, <1>3, <1>4, <1>5 DEF One
<1> QED BY <1>6 DEF Count, A, B

-----------------------------------------------------------------------------
(* Turns *)

LEMMA HandIs ==
    ASSUME Typed, NEW c \in Clients
    PROVE  /\ client_name[c] \in Names /\ Socket(c) \in Sockets
           /\ Len(mail[client_name[c]]) \in Nat /\ Len(inbox[Socket(c)]) \in Nat
           /\ One(pc[c] = "moving") \in {0, 1} /\ One(Asks(client_name[c])) \in {0, 1}
           /\ Count(mail[client_name[c]], Turning) \in Nat
           /\ Count(inbox[Socket(c)], MovesOf(client_name[c])) \in Nat
           /\ Hand(c) \in Nat
<1>1. client_name[c] \in Names /\ Socket(c) \in Sockets
  BY Constants DEF Socket, Sockets
<1>2. Len(mail[client_name[c]]) \in Nat /\ Len(inbox[Socket(c)]) \in Nat
  BY <1>1, LenProperties DEF Typed, Mail
<1>3. One(pc[c] = "moving") \in {0, 1} /\ One(Asks(client_name[c])) \in {0, 1}
  BY DEF One
<1>4. /\ Count(mail[client_name[c]], Turning) \in Nat
      /\ Count(inbox[Socket(c)], MovesOf(client_name[c])) \in Nat
  BY <1>2, CountIs
<1> QED BY <1>1, <1>2, <1>3, <1>4 DEF Hand

\* A client without a turn is not at a move, was sent none and has sent none.
LEMMA NoHand ==
    ASSUME Typed, RequestsSound, NEW c \in Clients, Hand(c) = 0
    PROVE  /\ pc[c] # "moving"
           /\ \A k \in 1 .. Len(mail[client_name[c]]) : mail[client_name[c]][k] \notin Turning
           /\ \A u \in Underway : u.from = client_name[c] => u.msg.kind # "move"
<1>1. /\ One(pc[c] = "moving") = 0 /\ One(Asks(client_name[c])) = 0
      /\ Count(mail[client_name[c]], Turning) = 0
      /\ Count(inbox[Socket(c)], MovesOf(client_name[c])) = 0
  BY HandIs DEF Hand
<1>2. /\ \A k \in 1 .. Len(mail[client_name[c]]) : mail[client_name[c]][k] \notin Turning
      /\ \A k \in 1 .. Len(inbox[Socket(c)]) : inbox[Socket(c)][k] \notin MovesOf(client_name[c])
  BY <1>1, HandIs, CountIs
<1>3. pc[c] # "moving" /\ ~Asks(client_name[c])
  BY <1>1 DEF One
<1>4. ASSUME NEW u \in Underway, u.from = client_name[c], u.msg.kind = "move" PROVE FALSE
  <2>3. /\ u = request => request # None \/ \E s \in Sockets : \E k \in 1 .. Len(inbox[s]) : u = inbox[s][k]
        /\ u = request \/ \E s \in Sockets : \E k \in 1 .. Len(inbox[s]) : u = inbox[s][k]
    <3>1. \A s \in Sockets : DOMAIN inbox[s] = 1 .. Len(inbox[s])
      BY DEF Typed, Mail
    <3> QED BY <1>4, <3>1 DEF Underway
  <2>1. CASE u = request /\ request # None
    BY <1>3, <1>4, <2>1, <2>3 DEF Asks, MovesOf, Typed, Mail
  <2>2. ASSUME NEW s \in Sockets, NEW k \in 1 .. Len(inbox[s]), u = inbox[s][k] PROVE FALSE
    <3>1. u \in Requests
      BY <2>2, ElementOfSeq DEF Typed, Mail
    <3>2. u.from \in Local <=> s = "unix"
      BY <2>2 DEF RequestsSound
    <3>3. s = Socket(c)
      BY <1>4, <3>2 DEF Socket, Sockets
    <3> QED BY <1>2, <1>4, <2>2, <3>1, <3>3 DEF MovesOf
  <2> QED BY <2>1, <2>2, <2>3
<1> QED BY <1>2, <1>3, <1>4

\* Where the moves are that a client was sent or has sent.
LEMMA MovesAre ==
    ASSUME Typed, RequestsSound, NEW c \in Clients, NEW d \in Clients, NEW m
    PROVE  m \in MovesFrom(c, d) <=>
             /\ m.kind = "move"
             /\ \/ \E k \in 1 .. Len(mail[client_name[d]]) : mail[client_name[d]][k] = m
                \/ Asks(client_name[c]) /\ request.msg = m
                \/ \E k \in 1 .. Len(inbox[Socket(c)]) :
                     inbox[Socket(c)][k] \in MovesOf(client_name[c]) /\ inbox[Socket(c)][k].msg = m
<1>1. /\ client_name[d] \in Names /\ Socket(c) \in Sockets
      /\ DOMAIN mail[client_name[d]] = 1 .. Len(mail[client_name[d]])
      /\ \A s \in Sockets : DOMAIN inbox[s] = 1 .. Len(inbox[s])
  BY Constants DEF Socket, Sockets, Typed, Mail
<1>2. \A u : u \in Underway <=> \/ request # None /\ u = request
                                \/ \E s \in Sockets : \E k \in 1 .. Len(inbox[s]) : u = inbox[s][k]
  BY <1>1 DEF Underway
<1>3. \A s \in Sockets : \A k \in 1 .. Len(inbox[s]) :
         inbox[s][k] \in Requests /\ (inbox[s][k].from \in Local <=> s = "unix")
  BY ElementOfSeq DEF RequestsSound, Typed, Mail
<1>4. request # None => request \in Requests
  BY DEF Typed, Mail
<1>5. \A s \in Sockets : \A k \in 1 .. Len(inbox[s]) : inbox[s][k].from = client_name[c] => s = Socket(c)
  BY <1>3 DEF Socket, Sockets
<1>7. \A u : u \in Underway /\ u.from = client_name[c] /\ u.msg.kind = "move" <=>
         \/ Asks(client_name[c]) /\ u = request
         \/ \E k \in 1 .. Len(inbox[Socket(c)]) : u = inbox[Socket(c)][k] /\ u \in MovesOf(client_name[c])
  BY <1>1, <1>2, <1>3, <1>4, <1>5 DEF MovesOf, Asks
<1>8. m \in MovesFrom(c, d) <=>
         /\ m.kind = "move"
         /\ \/ \E k \in 1 .. Len(mail[client_name[d]]) : mail[client_name[d]][k] = m
            \/ \E u \in Underway : u.from = client_name[c] /\ u.msg = m
  BY <1>1 DEF MovesFrom
<1>9. (m.kind = "move" /\ \E u \in Underway : u.from = client_name[c] /\ u.msg = m) <=>
         (m.kind = "move" /\ \E u : u \in Underway /\ u.from = client_name[c] /\ u.msg.kind = "move" /\ u.msg = m)
  OBVIOUS
<1> QED BY <1>7, <1>8, <1>9

\* A move is a turn of whoever it was sent to or has sent it.
LEMMA HandMoves ==
    ASSUME Typed, RequestsSound, NEW c \in Clients, NEW m \in MovesFrom(c, c)
    PROVE  /\ Hand(c) >= 1
           /\ Hand(c) <= 1 => pc[c] # "moving" /\ \A l \in MovesFrom(c, c) : l = m
<1> DEFINE q == mail[client_name[c]]
           b == inbox[Socket(c)]
           S == MovesOf(client_name[c])
           At1(l) == \E k \in 1 .. Len(q) : q[k] = l
           At2(l) == Asks(client_name[c]) /\ request.msg = l
           At3(l) == \E k \in 1 .. Len(b) : b[k] \in S /\ b[k].msg = l
<1>1. \A l \in MovesFrom(c, c) : l.kind = "move" /\ (At1(l) \/ At2(l) \/ At3(l))
  BY MovesAre
<1>2. /\ Len(q) \in Nat /\ Len(b) \in Nat
      /\ One(pc[c] = "moving") \in {0, 1} /\ One(Asks(client_name[c])) \in {0, 1}
      /\ Count(q, Turning) \in Nat /\ Count(b, S) \in Nat
      /\ Hand(c) = One(pc[c] = "moving") + Count(q, Turning) + One(Asks(client_name[c])) + Count(b, S)
  BY HandIs DEF Hand
<1>3. \A l \in MovesFrom(c, c) : At1(l) => \E k \in 1 .. Len(q) : q[k] = l /\ q[k] \in Turning
  <2>1. mail[client_name[c]] \in Seq(ClientMail)
    BY Constants DEF Typed, Mail
  <2>2. \A k \in 1 .. Len(q) : q[k] \in ClientMail
    BY <2>1, ElementOfSeq
  <2> HIDE DEF q
  <2> QED BY <1>1, <2>2 DEF Turning
<1> HIDE DEF q, b, S
<1>4. /\ \A l \in MovesFrom(c, c) : At1(l) => Count(q, Turning) >= 1
      /\ \A l, k \in MovesFrom(c, c) : At1(l) /\ At1(k) /\ Count(q, Turning) <= 1 => l = k
  <2>1. /\ Count(q, Turning) = 0 <=> \A k \in 1 .. Len(q) : q[k] \notin Turning
        /\ Count(q, Turning) <= 1 => \A k, l \in 1 .. Len(q) : q[k] \in Turning /\ q[l] \in Turning => k = l
    BY <1>2, CountIs
  <2>2. \A l \in MovesFrom(c, c) : At1(l) => Count(q, Turning) >= 1
    BY <1>2, <1>3, <2>1
  <2>3. ASSUME NEW l \in MovesFrom(c, c), NEW k \in MovesFrom(c, c), At1(l), At1(k), Count(q, Turning) <= 1
        PROVE  l = k
    <3>1. PICK i \in 1 .. Len(q) : q[i] = l /\ q[i] \in Turning
      BY <1>3, <2>3
    <3>2. PICK j \in 1 .. Len(q) : q[j] = k /\ q[j] \in Turning
      BY <1>3, <2>3
    <3> QED BY <2>1, <2>3, <3>1, <3>2
  <2> HIDE DEF At1
  <2> QED BY <2>2, <2>3
<1>5. /\ \A l \in MovesFrom(c, c) : At3(l) => Count(b, S) >= 1
      /\ \A l, k \in MovesFrom(c, c) : At3(l) /\ At3(k) /\ Count(b, S) <= 1 => l = k
  <2>1. /\ Count(b, S) = 0 <=> \A k \in 1 .. Len(b) : b[k] \notin S
        /\ Count(b, S) <= 1 => \A k, l \in 1 .. Len(b) : b[k] \in S /\ b[l] \in S => k = l
    BY <1>2, CountIs
  <2>2. \A l \in MovesFrom(c, c) : At3(l) => Count(b, S) >= 1
    BY <1>2, <2>1
  <2>3. ASSUME NEW l \in MovesFrom(c, c), NEW k \in MovesFrom(c, c), At3(l), At3(k), Count(b, S) <= 1
        PROVE  l = k
    BY <2>1, <2>3
  <2> HIDE DEF At3
  <2> QED BY <2>2, <2>3
<1>6. /\ \A l \in MovesFrom(c, c) : At2(l) => One(Asks(client_name[c])) = 1
      /\ \A l, k \in MovesFrom(c, c) : At2(l) /\ At2(k) => l = k
  BY DEF One
<1> HIDE DEF At1, At2, At3
<1>7. pc[c] = "moving" => One(pc[c] = "moving") = 1
  BY DEF One
<1>8. \A l \in MovesFrom(c, c) :
         \/ At1(l) /\ Count(q, Turning) >= 1
         \/ At2(l) /\ One(Asks(client_name[c])) = 1
         \/ At3(l) /\ Count(b, S) >= 1
  BY <1>1, <1>4, <1>5, <1>6
<1> DEFINE n1 == One(pc[c] = "moving")
           n2 == Count(q, Turning)
           n3 == One(Asks(client_name[c]))
           n4 == Count(b, S)
<1> HIDE DEF n1, n2, n3, n4
<1>9. n1 \in {0, 1} /\ n2 \in Nat /\ n3 \in {0, 1} /\ n4 \in Nat /\ Hand(c) = n1 + n2 + n3 + n4
  BY <1>2 DEF n1, n2, n3, n4
<1>10. \A l \in MovesFrom(c, c) : (At1(l) /\ n2 >= 1) \/ (At2(l) /\ n3 = 1) \/ (At3(l) /\ n4 >= 1)
  BY <1>8 DEF n2, n3, n4
<1>11. Hand(c) >= 1 /\ (Hand(c) <= 1 => n1 = 0)
  BY <1>9, <1>10
<1>12. ASSUME Hand(c) <= 1, NEW l \in MovesFrom(c, c) PROVE l = m
  <2>1. \/ At1(l) /\ At1(m) /\ n2 <= 1
        \/ At2(l) /\ At2(m)
        \/ At3(l) /\ At3(m) /\ n4 <= 1
    BY <1>9, <1>10, <1>12
  <2> QED BY <1>4, <1>5, <1>6, <2>1 DEF n2, n4
<1> QED BY <1>7, <1>11, <1>12 DEF n1

\* Between two clients with one turn there is one move, or one has the turn.
LEMMA OneTurn ==
    ASSUME Typed, RequestsSound, NEW c \in Clients, NEW d \in Clients, Hand(c) + Hand(d) <= 1
    PROVE  /\ \A m, l \in MovesFrom(c, d) \cup MovesFrom(d, c) : m = l
           /\ \A m \in MovesFrom(c, d) \cup MovesFrom(d, c) : pc[c] # "moving" /\ pc[d] # "moving"
           /\ c # d => ~(pc[c] = "moving" /\ pc[d] = "moving")
           /\ MovesFrom(c, d) \cup MovesFrom(d, c) = MovesFrom(c, c) \cup MovesFrom(d, d)
<1>1. \A m : m \in MovesFrom(c, d) \cup MovesFrom(d, c) <=> m \in MovesFrom(c, c) \cup MovesFrom(d, d)
  <2> TAKE m
  <2>1. /\ m \in MovesFrom(c, d) <=> m.kind = "move" /\
             \/ \E k \in 1 .. Len(mail[client_name[d]]) : mail[client_name[d]][k] = m
             \/ Asks(client_name[c]) /\ request.msg = m
             \/ \E k \in 1 .. Len(inbox[Socket(c)]) :
                  inbox[Socket(c)][k] \in MovesOf(client_name[c]) /\ inbox[Socket(c)][k].msg = m
        /\ m \in MovesFrom(d, c) <=> m.kind = "move" /\
             \/ \E k \in 1 .. Len(mail[client_name[c]]) : mail[client_name[c]][k] = m
             \/ Asks(client_name[d]) /\ request.msg = m
             \/ \E k \in 1 .. Len(inbox[Socket(d)]) :
                  inbox[Socket(d)][k] \in MovesOf(client_name[d]) /\ inbox[Socket(d)][k].msg = m
    BY MovesAre
  <2>2. /\ m \in MovesFrom(c, c) <=> m.kind = "move" /\
             \/ \E k \in 1 .. Len(mail[client_name[c]]) : mail[client_name[c]][k] = m
             \/ Asks(client_name[c]) /\ request.msg = m
             \/ \E k \in 1 .. Len(inbox[Socket(c)]) :
                  inbox[Socket(c)][k] \in MovesOf(client_name[c]) /\ inbox[Socket(c)][k].msg = m
        /\ m \in MovesFrom(d, d) <=> m.kind = "move" /\
             \/ \E k \in 1 .. Len(mail[client_name[d]]) : mail[client_name[d]][k] = m
             \/ Asks(client_name[d]) /\ request.msg = m
             \/ \E k \in 1 .. Len(inbox[Socket(d)]) :
                  inbox[Socket(d)][k] \in MovesOf(client_name[d]) /\ inbox[Socket(d)][k].msg = m
    BY MovesAre
  <2> QED BY <2>1, <2>2
<1>2. Hand(c) \in Nat /\ Hand(d) \in Nat
  BY HandIs
<1>3. \A e \in {c, d} : \A m \in MovesFrom(e, e) : Hand(e) >= 1 /\ (Hand(e) <= 1 => pc[e] # "moving" /\ \A l \in MovesFrom(e, e) : l = m)
  BY HandMoves
<1>4. \A e \in {c, d} : pc[e] = "moving" => Hand(e) >= 1
  <2> SUFFICES ASSUME NEW e \in {c, d}, pc[e] = "moving" PROVE Hand(e) >= 1
    OBVIOUS
  <2>1. One(pc[e] = "moving") = 1
    BY DEF One
  <2>2. e \in Clients
    OBVIOUS
  <2>3. /\ Hand(e) = One(pc[e] = "moving") + Count(mail[client_name[e]], Turning)
                       + One(Asks(client_name[e])) + Count(inbox[Socket(e)], MovesOf(client_name[e]))
        /\ Count(mail[client_name[e]], Turning) \in Nat /\ One(Asks(client_name[e])) \in {0, 1}
        /\ Count(inbox[Socket(e)], MovesOf(client_name[e])) \in Nat
    BY <2>2, HandIs DEF Hand
  <2> QED BY <2>1, <2>3
<1>5. \A m, l \in MovesFrom(c, c) \cup MovesFrom(d, d) : m = l
  BY <1>2, <1>3
<1>6. \A m \in MovesFrom(c, c) \cup MovesFrom(d, d) : pc[c] # "moving" /\ pc[d] # "moving"
  BY <1>2, <1>3, <1>4
<1>7. ~(pc[c] = "moving" /\ pc[d] = "moving")
  BY <1>2, <1>4
<1> QED BY <1>1, <1>5, <1>6, <1>7

-----------------------------------------------------------------------------
(* Games and the steps of the server *)

\* New letters that are no turns leave a client with the turns it has; one
\* letter is one turn at most; a move taken from the server's hands is one less.
LEMMA ServerHands ==
    ASSUME Typed, Typed', UNCHANGED <<clientVars, inbox>>, request' \in {request, None},
           NEW c \in Clients, Longer(mail[client_name[c]], mail'[client_name[c]])
    PROVE  /\ (\A k \in 1 .. Len(mail'[client_name[c]]) :
                  k > Len(mail[client_name[c]]) => mail'[client_name[c]][k] \notin Turning)
                => /\ Hand(c)' <= Hand(c)
                   /\ Asks(client_name[c]) /\ request' = None => Hand(c)' <= Hand(c) - 1
           /\ Len(mail'[client_name[c]]) <= Len(mail[client_name[c]]) + 1 => Hand(c)' <= Hand(c) + 1
           /\ Hand(c)' \in Nat
<1> DEFINE n == client_name[c]
           n1 == One(pc[c] = "moving")
           n2 == Count(mail[n], Turning)
           n3 == One(Asks(n))
           n4 == Count(inbox[Socket(c)], MovesOf(n))
           m2 == Count(mail'[n], Turning)
           m3 == One(Asks(n)')
<1>1. /\ n1 \in {0, 1} /\ n2 \in Nat /\ n3 \in {0, 1} /\ n4 \in Nat
      /\ Hand(c) = n1 + n2 + n3 + n4 /\ Len(mail[n]) \in Nat /\ n \in Names
  BY HandIs DEF Hand
<1>2. Len(mail'[n]) \in Nat
  BY <1>1, LenProperties DEF Typed, Mail
<1>3. m2 \in Nat
  BY <1>2, CountIs
<1>4. Hand(c)' = n1 + m2 + m3 + n4
  BY DEF Hand, clientVars
<1>5. m3 \in {0, 1} /\ m3 <= n3 /\ (Asks(n) /\ request' = None => n3 = 1 /\ m3 = 0)
  <2>1. Asks(n)' => Asks(n) /\ request' # None
    BY DEF Asks
  <2> QED BY <2>1 DEF One
<1>6. /\ (\A k \in 1 .. Len(mail'[n]) : k > Len(mail[n]) => mail'[n][k] \notin Turning) => m2 = n2
      /\ Len(mail'[n]) <= Len(mail[n]) + 1 => m2 <= n2 + 1
  BY <1>1, <1>2, CountLonger
<1> HIDE DEF n1, n2, n3, n4, m2, m3
<1> QED BY <1>1, <1>3, <1>4, <1>5, <1>6

\* The moves between two clients stay when the request that is done with is no
\* move of theirs and the new letters are none.
LEMMA MovesStay ==
    ASSUME Typed, Typed', UNCHANGED inbox, request' \in {request, None},
           NEW c \in Clients, NEW d \in Clients, Longer(mail[client_name[d]], mail'[client_name[d]]),
           request' = request \/ request.msg.kind # "move" \/ request.from # client_name[c],
           \A k \in 1 .. Len(mail'[client_name[d]]) :
              k > Len(mail[client_name[d]]) => mail'[client_name[d]][k].kind # "move"
    PROVE  MovesFrom(c, d)' = MovesFrom(c, d)
<1> DEFINE n == client_name[d]
           Sent == {r.msg : r \in {u \in Underway : u.from = client_name[c]}}
           Sent2 == {r.msg : r \in {u \in Underway' : u.from = client_name[c]}}
<1>1. /\ DOMAIN mail[n] = 1 .. Len(mail[n]) /\ DOMAIN mail'[n] = 1 .. Len(mail'[n])
      /\ Len(mail[n]) \in Nat /\ Len(mail'[n]) \in Nat
  <2>1. mail[n] \in Seq(ClientMail) /\ mail'[n] \in Seq(ClientMail)
    BY Constants DEF Typed, Mail
  <2> QED BY <2>1, LenProperties
<1>2. \A m : m.kind = "move" => (m \in Sent2 <=> m \in Sent)
  <2>1. \A u : u.msg.kind = "move" /\ u.from = client_name[c] => (u \in Underway' <=> u \in Underway)
    BY DEF Underway
  <2> QED BY <2>1
<1>3. \A m : m.kind = "move" =>
         ((\E k \in 1 .. Len(mail'[n]) : mail'[n][k] = m) <=> \E k \in 1 .. Len(mail[n]) : mail[n][k] = m)
  <2> TAKE m
  <2> SUFFICES ASSUME m.kind = "move"
               PROVE  (\E k \in 1 .. Len(mail'[n]) : mail'[n][k] = m) <=> \E k \in 1 .. Len(mail[n]) : mail[n][k] = m
    OBVIOUS
  <2>1. ASSUME NEW k \in 1 .. Len(mail'[n]), mail'[n][k] = m PROVE \E l \in 1 .. Len(mail[n]) : mail[n][l] = m
    <3>1. ~(k > Len(mail[n]))
      BY <2>1
    <3>2. k \in 1 .. Len(mail[n])
      BY <1>1, <3>1
    <3> QED BY <2>1, <3>2 DEF Longer
  <2>2. ASSUME NEW k \in 1 .. Len(mail[n]), mail[n][k] = m PROVE \E l \in 1 .. Len(mail'[n]) : mail'[n][l] = m
    <3>1. k \in 1 .. Len(mail'[n])
      BY <1>1 DEF Longer
    <3> QED BY <2>2, <3>1 DEF Longer
  <2> QED BY <2>1, <2>2
<1>4. /\ MovesFrom(c, d) = {m \in Sent \cup {mail[n][k] : k \in 1 .. Len(mail[n])} : m.kind = "move"}
      /\ MovesFrom(c, d)' = {m \in Sent2 \cup {mail'[n][k] : k \in 1 .. Len(mail'[n])} : m.kind = "move"}
  BY <1>1 DEF MovesFrom
<1> HIDE DEF Sent, Sent2
<1>5. /\ \A m : m \in MovesFrom(c, d) <=>
                 m.kind = "move" /\ (m \in Sent \/ \E k \in 1 .. Len(mail[n]) : mail[n][k] = m)
      /\ \A m : m \in MovesFrom(c, d)' <=>
                 m.kind = "move" /\ (m \in Sent2 \/ \E k \in 1 .. Len(mail'[n]) : mail'[n][k] = m)
  BY <1>4
<1> QED BY <1>2, <1>3, <1>5

\* A duel goes on through a step of the server that has nothing to do with it.
LEMMA DuelStays ==
    ASSUME Typed, Typed', UNCHANGED <<clientVars, inbox>>, request' \in {request, None},
           NEW c \in Clients, NEW d \in Clients, NEW s, NEW t, Duel(c, d, s, t),
           \A e \in {c, d} :
             /\ Longer(mail[client_name[e]], mail'[client_name[e]])
             /\ \A k \in 1 .. Len(mail'[client_name[e]]) :
                   k > Len(mail[client_name[e]]) => mail'[client_name[e]][k].kind \notin {"symbol", "move"},
           MovesFrom(c, d)' = MovesFrom(c, d), MovesFrom(d, c)' = MovesFrom(d, c)
    PROVE  Duel(c, d, s, t)'
<1>1. Hand(c)' + Hand(d)' <= 1
  <2>1. ASSUME NEW e \in {c, d} PROVE Hand(e)' <= Hand(e) /\ Hand(e) \in Nat /\ Hand(e)' \in Nat
    <3>1. \A k \in 1 .. Len(mail'[client_name[e]]) :
             k > Len(mail[client_name[e]]) => mail'[client_name[e]][k] \notin Turning
      BY DEF Turning
    <3> QED BY <3>1, HandIs, ServerHands
  <2>2. Hand(c) + Hand(d) <= 1
    BY DEF Duel
  <2> QED BY <2>1, <2>2
<1>2. symbol' = symbol /\ board' = board
  BY DEF clientVars
<1>3. ASSUME NEW e \in {c, d}, NEW r,
             \A k \in 1 .. Len(mail[client_name[e]]) :
               mail[client_name[e]][k].kind = "symbol" => mail[client_name[e]][k].sym = r,
             NEW k \in 1 .. Len(mail'[client_name[e]]), mail'[client_name[e]][k].kind = "symbol"
      PROVE  mail'[client_name[e]][k].sym = r
  <2>1. ~(k > Len(mail[client_name[e]]))
    BY <1>3
  <2>2. Len(mail[client_name[e]]) \in Nat
    BY HandIs
  <2>3. k \in 1 .. Len(mail[client_name[e]])
    BY <2>1, <2>2
  <2> QED BY <1>3, <2>3 DEF Longer
<1>4. Side(c, d, s)' /\ Side(d, c, t)'
  BY <1>2, <1>3 DEF Duel, Side
<1> QED BY <1>1, <1>2, <1>4 DEF Duel

-----------------------------------------------------------------------------
(* Seats *)

\* What a name's mail holds after a step that only adds to it.
LEMMA GrownMail ==
    ASSUME Typed, Typed', NEW n \in Names, Longer(mail[n], mail'[n])
    PROVE  /\ Len(mail[n]) \in Nat /\ Len(mail'[n]) \in Nat
           /\ \A k \in 1 .. Len(mail[n]) : k \in 1 .. Len(mail'[n]) /\ mail'[n][k] = mail[n][k]
           /\ \A k \in 1 .. Len(mail'[n]) :
                ~(k > Len(mail[n])) => k \in 1 .. Len(mail[n]) /\ mail'[n][k] = mail[n][k]
<1>1. Len(mail[n]) \in Nat /\ Len(mail'[n]) \in Nat
  BY LenProperties DEF Typed, Mail
<1>2. Len(mail[n]) <= Len(mail'[n]) /\ \A k \in 1 .. Len(mail[n]) : mail'[n][k] = mail[n][k]
  BY DEF Longer
<1>3. \A k \in 1 .. Len(mail[n]) : k \in 1 .. Len(mail'[n])
  BY <1>1, <1>2
<1>4. \A k \in 1 .. Len(mail'[n]) : ~(k > Len(mail[n])) => k \in 1 .. Len(mail[n])
  BY <1>1
<1> QED BY <1>1, <1>2, <1>3, <1>4

LEMMA HasIdKept ==
    ASSUME Typed, Typed', UNCHANGED clientVars, NEW c \in Clients, NEW k \in Nat, NEW l \in Nat,
           Longer(mail[client_name[c]], mail'[client_name[c]]),
           HasId(c, k), k <= Len(mail[client_name[c]]), k <= l
    PROVE  HasId(c, l)'
<1> DEFINE n == client_name[c]
<1>1. n \in Names /\ client_id' = client_id
  BY Constants DEF clientVars
<1>2. CASE client_id[c] # -1
  BY <1>1, <1>2 DEF HasId
<1>3. CASE \E m \in 1 .. k : mail[n][m].kind = "id"
  <2>1. PICK m \in 1 .. k : mail[n][m].kind = "id"
    BY <1>3
  <2>2. m \in 1 .. Len(mail[n]) /\ m \in 1 .. l
    BY <1>1, GrownMail
  <2>3. mail'[n][m] = mail[n][m]
    BY <2>2 DEF Longer
  <2> QED BY <2>1, <2>2, <2>3 DEF HasId
<1> QED BY <1>2, <1>3 DEF HasId

\* A client keeps its seat, and what is new in its mail is for one that has it.
LEMMA SeatKept ==
    ASSUME Typed, Typed', UNCHANGED clientVars, NEW c \in Clients, SeatSound(c),
           Longer(mail[client_name[c]], mail'[client_name[c]]),
           (\E i \in Slots : Sits(c, i) /\ Seated(i)) => \E i \in Slots : Sits(c, i)' /\ Seated(i)',
           \A k \in 1 .. Len(mail'[client_name[c]]) : k > Len(mail[client_name[c]]) =>
             /\ mail'[client_name[c]][k].kind = "symbol" => \E i \in Slots : Sits(c, i)' /\ Seated(i)'
             /\ mail'[client_name[c]][k] \in Turning => HasId(c, Len(mail[client_name[c]]))
    PROVE  SeatSound(c)'
<1> DEFINE n == client_name[c]
<1>1. n \in Names /\ client_id' = client_id /\ pc' = pc /\ symbol' = symbol
  BY Constants DEF clientVars
<1>2. /\ Len(mail[n]) \in Nat /\ Len(mail'[n]) \in Nat
      /\ \A k \in 1 .. Len(mail'[n]) :
           ~(k > Len(mail[n])) => k \in 1 .. Len(mail[n]) /\ mail'[n][k] = mail[n][k]
  BY <1>1, GrownMail
<1>3. ASSUME symbol'[c] # None \/ \E k \in 1 .. Len(mail'[n]) : mail'[n][k].kind = "symbol"
      PROVE  \E i \in Slots : Sits(c, i)' /\ Seated(i)'
  <2>1. CASE symbol[c] # None \/ \E k \in 1 .. Len(mail[n]) : mail[n][k].kind = "symbol"
    BY <2>1 DEF SeatSound
  <2>2. CASE \E k \in 1 .. Len(mail'[n]) : k > Len(mail[n]) /\ mail'[n][k].kind = "symbol"
    BY <2>2
  <2> QED BY <1>1, <1>2, <1>3, <2>1, <2>2
<1>4. pc'[c] = "moving" => client_id'[c] # -1
  BY <1>1 DEF SeatSound
<1>5. ASSUME NEW k \in 1 .. Len(mail'[n]), mail'[n][k] \in Turning
      PROVE  HasId(c, k)'
  <2>1. k \in Nat
    OBVIOUS
  <2>2. CASE k > Len(mail[n])
    <3>1. HasId(c, Len(mail[n])) /\ Len(mail[n]) <= k /\ Len(mail[n]) <= Len(mail[n])
      BY <1>2, <1>5, <2>1, <2>2
    <3> QED BY <1>2, <2>1, <3>1, HasIdKept
  <2>3. CASE ~(k > Len(mail[n]))
    <3>1. k \in 1 .. Len(mail[n]) /\ mail[n][k] \in Turning
      BY <1>2, <1>5, <2>3
    <3>2. HasId(c, k)
      BY <3>1 DEF SeatSound
    <3>3. k <= Len(mail[n]) /\ k <= k
      BY <1>2, <3>1
    <3> QED BY <2>1, <3>2, <3>3, HasIdKept
  <2> QED BY <2>2, <2>3
<1>6. Turning' = Turning
  BY DEF Turning
<1> QED BY <1>3, <1>4, <1>5, <1>6 DEF SeatSound

\* A client without a game stays without turns.
LEMMA FreshKept ==
    ASSUME Typed, Typed', UNCHANGED <<clientVars, inbox>>, request' \in {request, None},
           NEW c \in Clients, Fresh(c),
           Longer(mail[client_name[c]], mail'[client_name[c]]),
           \A k \in 1 .. Len(mail'[client_name[c]]) :
              k > Len(mail[client_name[c]]) => mail'[client_name[c]][k].kind \notin {"symbol", "move"}
    PROVE  Fresh(c)'
<1> DEFINE n == client_name[c]
<1>1. n \in Names /\ board' = board /\ symbol' = symbol
  BY Constants DEF clientVars
<1>2. Hand(c)' = 0
  <2>1. \A k \in 1 .. Len(mail'[n]) : k > Len(mail[n]) => mail'[n][k] \notin Turning
    BY DEF Turning
  <2>2. Hand(c)' <= Hand(c) /\ Hand(c)' \in Nat /\ Hand(c) = 0
    BY <2>1, ServerHands DEF Fresh
  <2> QED BY <2>2
<1>3. \A k \in 1 .. Len(mail'[n]) : mail'[n][k].kind # "symbol"
  <2>1. \A k \in 1 .. Len(mail'[n]) :
           ~(k > Len(mail[n])) => k \in 1 .. Len(mail[n]) /\ mail'[n][k] = mail[n][k]
    BY <1>1, GrownMail
  <2> QED BY <2>1 DEF Fresh
<1> QED BY <1>1, <1>2, <1>3 DEF Fresh, Blank

\* Whoever has read no end yet had read none before.
LEMMA EngagedBefore ==
    ASSUME Typed, Typed', UNCHANGED clientVars, NEW c \in Clients,
           Longer(mail[client_name[c]], mail'[client_name[c]]), Engaged(c)'
    PROVE  Engaged(c)
<1> DEFINE n == client_name[c]
<1>1. n \in Names /\ (Alive(c)' <=> Alive(c))
  BY Constants DEF clientVars, Alive
<1>2. \A k \in 1 .. Len(mail[n]) : k \in 1 .. Len(mail'[n]) /\ mail'[n][k] = mail[n][k]
  BY <1>1, GrownMail
<1> QED BY <1>1, <1>2 DEF Engaged

\* A step of the server that begins, plays and ends no game.
LEMMA GamesKept ==
    ASSUME Typed, Typed', GamesSound, UNCHANGED <<clientVars, inbox, pairs>>,
           request' \in {request, None}, request' = request \/ request.msg.kind # "move",
           \A n \in Names :
             /\ Longer(mail[n], mail'[n])
             /\ \A k \in 1 .. Len(mail'[n]) : k > Len(mail[n]) => mail'[n][k].kind \notin {"symbol", "move"},
           \A i \in Slots :
             /\ clients'[i].pair_id = clients[i].pair_id
             /\ clients[i].name # None => clients'[i].name = clients[i].name
             /\ clients'[i].name = None /\ registering' # i => clients[i].name = None /\ registering # i,
           \A c \in Clients, i \in Slots :
             /\ Sits(c, i) => Sits(c, i)'
             /\ Sits(c, i)' => Sits(c, i) \/ ~InGame(i)
    PROVE  GamesSound'
<1>1. \A i \in Slots : (InGame(i)' <=> InGame(i)) /\ (Seated(i)' <=> Seated(i))
  BY DEF InGame, Seated
<1>2. \A c \in Clients : /\ client_name[c] \in Names
                         /\ Alive(c)' <=> Alive(c)
                         /\ Engaged(c)' => Engaged(c)
  BY Constants, EngagedBefore DEF Alive, clientVars
<1>3. pairs \in [Pairs -> [o : Slots \cup {-1}, x : Slots \cup {-1}]]
  BY DEF Typed, TypeOK
<1>4. PairsSound'
  <2>1. PairsSound
    BY DEF GamesSound
  <2>2. ASSUME NEW q \in Pairs, pairs[q].x # -1
        PROVE  clients'[pairs[q].x].pair_id = clients[pairs[q].x].pair_id
               /\ clients'[pairs[q].o].pair_id = clients[pairs[q].o].pair_id
    BY <1>3, <2>1, <2>2 DEF PairsSound
  <2> QED BY <1>1, <2>1, <2>2 DEF PairsSound
<1>5. SeatsSound'
  <2>1. SeatsSound
    BY DEF GamesSound
  <2>2. ASSUME NEW c \in Clients, Alive(c)' PROVE SeatSound(c)'
    <3>1. SeatSound(c)
      BY <1>2, <2>1, <2>2 DEF SeatsSound
    <3>2. (\E i \in Slots : Sits(c, i) /\ Seated(i)) => \E i \in Slots : Sits(c, i)' /\ Seated(i)'
      BY <1>1
    <3>3. \A k \in 1 .. Len(mail'[client_name[c]]) : k > Len(mail[client_name[c]]) =>
             /\ mail'[client_name[c]][k].kind # "symbol"
             /\ mail'[client_name[c]][k] \notin Turning
      BY <1>2 DEF Turning
    <3>4. Longer(mail[client_name[c]], mail'[client_name[c]])
      BY <1>2
    <3> QED BY <3>1, <3>2, <3>3, <3>4, SeatKept
  <2>3. ASSUME NEW u \in Requests, MoveSound(u) PROVE MoveSound(u)'
    <3>1. u.msg.kind = "move" => u.msg.id \in Slots /\ u.from # None
      BY Constants DEF Requests
    <3> QED BY <1>1, <2>3, <3>1 DEF MoveSound
  <2>4. ASSUME NEW s \in Sockets, NEW k \in 1 .. Len(inbox[s]), NEW u, u = inbox[s][k]
        PROVE  MoveSound(u)'
    <3>1. u \in Requests
      BY <2>4, ElementOfSeq DEF Typed, Mail
    <3> QED BY <2>1, <2>3, <2>4, <3>1 DEF SeatsSound
  <2>5. ASSUME NEW u, u = request', request' # None PROVE MoveSound(u)'
    <3>1. u = request /\ request # None /\ u \in Requests
      BY <2>5 DEF Typed, Mail
    <3> QED BY <2>1, <2>3, <3>1 DEF SeatsSound
  <2>6. inbox' = inbox
    OBVIOUS
  <2> QED BY <2>2, <2>4, <2>5, <2>6 DEF SeatsSound, MoveSound
<1>6. FreshSound'
  <2>1. FreshSound
    BY DEF GamesSound
  <2>2. ASSUME NEW c \in Clients, Engaged(c)', \A i \in Slots : Sits(c, i)' => ~InGame(i)'
        PROVE  Fresh(c)'
    <3>1. Fresh(c)
      BY <1>1, <1>2, <2>1, <2>2 DEF FreshSound
    <3> QED BY <1>2, <3>1, FreshKept
  <2>3. pc' = pc /\ symbol' = symbol /\ board' = board
    BY DEF clientVars
  <2> QED BY <2>1, <2>2, <2>3 DEF FreshSound, Blank
<1>7. DuelsSound'
  <2> SUFFICES ASSUME NEW p \in Pairs, pairs[p].x # -1, clients'[pairs[p].x].pair_id = p,
                      NEW x \in Clients, NEW o \in Clients,
                      Sits(x, pairs[p].x)', Sits(o, pairs[p].o)', Engaged(x)', Engaged(o)'
               PROVE  Duel(x, o, "X", "O")'
    BY DEF DuelsSound
  <2>1. /\ pairs[p].x \in Slots /\ pairs[p].o \in Slots
        /\ clients[pairs[p].x].pair_id = p /\ clients[pairs[p].o].pair_id = p /\ p # -1
    BY <1>3, Constants DEF GamesSound, PairsSound
  <2>2. InGame(pairs[p].x) /\ InGame(pairs[p].o)
    BY <2>1 DEF InGame
  <2>3. Duel(x, o, "X", "O")
    BY <1>2, <2>1, <2>2 DEF GamesSound, DuelsSound
  <2>4. MovesFrom(x, o)' = MovesFrom(x, o) /\ MovesFrom(o, x)' = MovesFrom(o, x)
    BY <1>2, MovesStay
  <2>5. \A e \in {x, o} :
             /\ Longer(mail[client_name[e]], mail'[client_name[e]])
             /\ \A k \in 1 .. Len(mail'[client_name[e]]) :
                   k > Len(mail[client_name[e]]) => mail'[client_name[e]][k].kind \notin {"symbol", "move"}
    BY <1>2
  <2> QED BY <2>3, <2>4, <2>5, DuelStays
<1> QED BY <1>4, <1>5, <1>6, <1>7 DEF GamesSound

\* The mail after letters that are neither symbols nor moves.
LEMMA QuietMail ==
    ASSUME Typed, server' = "up",
           NEW letters, NEW N \in Nat, DOMAIN letters \subseteq 0 .. N,
           \A i \in DOMAIN letters :
             letters[i].msg \in ClientMail /\ letters[i].msg.kind \notin {"symbol", "move"},
           ServerSends(letters) \/ UNCHANGED <<mail, server>>
    PROVE  \A n \in Names :
             /\ Longer(mail[n], mail'[n])
             /\ \A k \in 1 .. Len(mail'[n]) : k > Len(mail[n]) => mail'[n][k].kind \notin {"symbol", "move"}
<1>1. CASE ServerSends(letters)
  <2> TAKE n \in Names
  <2>1. /\ Longer(mail[n], mail'[n])
        /\ \A k \in 1 .. Len(mail'[n]) : k > Len(mail[n]) =>
             \E i \in DOMAIN letters : letters[i].to = n /\ mail'[n][k] = letters[i].msg
    BY <1>1, ServerGoesOn
  <2> QED BY <2>1
<1>2. CASE UNCHANGED <<mail, server>>
  BY <1>2, MailStays
<1> QED BY <1>1, <1>2

\* A step of the server that leaves the table as it is.
LEMMA SameTableGames ==
    ASSUME Typed, Typed', GamesSound, server' = "up",
           UNCHANGED <<clientVars, inbox, tableVars, registering>>,
           request' \in {request, None}, request' = request \/ request.msg.kind # "move",
           registering # None => request' = request,
           NEW letters, NEW N \in Nat, DOMAIN letters \subseteq 0 .. N,
           \A i \in DOMAIN letters :
             letters[i].msg \in ClientMail /\ letters[i].msg.kind \notin {"symbol", "move"},
           ServerSends(letters) \/ UNCHANGED <<mail, server>>
    PROVE  GamesSound'
<1>1. UNCHANGED <<clients, pairs>>
  BY DEF tableVars
<1>2. \A c \in Clients, i \in Slots : Sits(c, i)' <=> Sits(c, i)
  BY <1>1, Constants DEF Sits
<1>3. \A n \in Names :
        /\ Longer(mail[n], mail'[n])
        /\ \A k \in 1 .. Len(mail'[n]) : k > Len(mail[n]) => mail'[n][k].kind \notin {"symbol", "move"}
  BY QuietMail
<1> QED BY <1>1, <1>2, <1>3, GamesKept

LEMMA QuietGames ==
    ASSUME Typed, Typed', GamesSound, server' = "up", EndGame \/ Response \/ PingThread
    PROVE  GamesSound'
<1>1. CASE EndGame
  <2>1. /\ UNCHANGED <<clientVars, inbox, tableVars, registering>> /\ request' = None
        /\ request.msg.kind # "move" /\ registering = None
    BY <1>1 DEF EndGame, make_move, Handles, Handled
  <2>2. PICK game : ServerSends([k \in DOMAIN <<"o", "x">> |-> Letter(At(clients, game[<<"o", "x">>[k]]), Plain("end"))])
    BY <1>1 DEF EndGame, make_move
  <2> DEFINE letters == [k \in DOMAIN <<"o", "x">> |-> Letter(At(clients, game[<<"o", "x">>[k]]), Plain("end"))]
  <2>3. /\ DOMAIN letters \subseteq 0 .. 2 /\ 2 \in Nat
        /\ \A k \in DOMAIN letters : letters[k].msg = Plain("end")
    BY DEF Letter
  <2>4. ServerSends(letters)
    BY <2>2
  <2> HIDE DEF letters
  <2>5. Plain("end") \in ClientMail /\ Plain("end").kind = "end"
    BY Datagrams DEF Plain, Datagram
  <2> QED BY <2>1, <2>3, <2>4, <2>5, SameTableGames
<1>2. CASE Response \/ PingThread
  <2>1. /\ UNCHANGED <<clientVars, inbox, tableVars, registering>> /\ request' \in {request, None}
        /\ request' = request \/ request.msg.kind # "move"
        /\ registering # None => request' = request
    BY <1>2 DEF Response, Handles, Handled, PingThread, StartRound, CheckSlot, send_ping, PingRest, threadVars
  <2> DEFINE letters == <<Letter(clients[ping].name, Plain("ping"))>>
  <2>2. ServerSends(letters) \/ UNCHANGED <<mail, server>>
    BY <1>2 DEF Response, PingThread, StartRound, CheckSlot, send_ping
  <2>3. DOMAIN letters = {1} /\ letters[1].msg = Plain("ping")
    BY LettersAre
  <2> HIDE DEF letters
  <2>4. Plain("ping") \in ClientMail /\ Plain("ping").kind = "ping"
    BY Datagrams DEF Plain, Datagram
  <2>5. /\ DOMAIN letters \subseteq 0 .. 1 /\ 1 \in Nat
        /\ \A i \in DOMAIN letters :
             letters[i].msg \in ClientMail /\ letters[i].msg.kind \notin {"symbol", "move"}
    BY <2>3, <2>4
  <2> QED BY <2>1, <2>2, <2>5, SameTableGames
<1> QED BY <1>1, <1>2

LEMMA RefuseGames ==
    ASSUME Typed, Typed', GamesSound, server' = "up", Handles({"l"}),
           NEW kind \in {"too_many", "in_use"}, Refuse(kind)
    PROVE  GamesSound'
<1> DEFINE letters == <<Letter(request.from, Plain(kind))>>
<1>1. /\ ServerSends(letters) /\ UNCHANGED <<clientVars, inbox, tableVars, registering>>
      /\ request' = None /\ request.msg.kind # "move" /\ registering = None
  BY DEF Refuse, Handled, Handles
<1>2. DOMAIN letters = {1} /\ letters[1].msg = Plain(kind)
  BY LettersAre
<1> HIDE DEF letters
<1>3. Plain(kind) \in ClientMail /\ Plain(kind).kind = kind
  BY Datagrams DEF Plain, Datagram
<1>4. /\ DOMAIN letters \subseteq 0 .. 1 /\ 1 \in Nat
      /\ \A i \in DOMAIN letters :
           letters[i].msg \in ClientMail /\ letters[i].msg.kind \notin {"symbol", "move"}
  BY <1>2, <1>3
<1> QED BY <1>1, <1>4, SameTableGames

\* register_client when nobody waits, or no pair is left: the slot it fills is
\* in no game.
LEMMA SeatGames ==
    ASSUME Typed, Typed', AllSound, GamesSound, server' = "up", Handles({"l"}),
           clients_number < MAX_CLIENTS,
           registering' = free_place, UNCHANGED <<clients, pairs, request>>,
           ServerSends(<<Letter(request.from, Plain("waiting"))>>) \/ UNCHANGED <<mail, server>>
    PROVE  GamesSound'
<1>1. /\ registering = None /\ UNCHANGED <<inbox, clientVars>>
  BY DEF Handles
<1>2. free_place \in Slots /\ clients[free_place].name = None
  <2>1. clients_number = Cardinality(Registered)
    <3>1. Registered \cup ({registering} \ {None}) = Registered
      BY <1>1
    <3> QED BY <3>1 DEF AllSound, TableSound
  <2> QED BY <2>1, Places, SlotFree
<1>3. ~InGame(free_place)
  BY <1>1, <1>2, Constants DEF GamesSound, PairsSound
<1>4. \A c \in Clients, i \in Slots :
         /\ Sits(c, i) => Sits(c, i)'
         /\ Sits(c, i)' => Sits(c, i) \/ ~InGame(i)
  BY <1>1, <1>3, Constants DEF Sits
<1> DEFINE letters == <<Letter(request.from, Plain("waiting"))>>
<1>5. DOMAIN letters = {1} /\ letters[1].msg = Plain("waiting")
  BY LettersAre
<1>6. ServerSends(letters) \/ UNCHANGED <<mail, server>>
  OBVIOUS
<1> HIDE DEF letters
<1>7. Plain("waiting") \in ClientMail /\ Plain("waiting").kind = "waiting"
  BY Datagrams DEF Plain, Datagram
<1>8. /\ DOMAIN letters \subseteq 0 .. 1 /\ 1 \in Nat
      /\ \A i \in DOMAIN letters :
           letters[i].msg \in ClientMail /\ letters[i].msg.kind \notin {"symbol", "move"}
  BY <1>5, <1>7
<1>9. \A n \in Names :
        /\ Longer(mail[n], mail'[n])
        /\ \A k \in 1 .. Len(mail'[n]) : k > Len(mail[n]) => mail'[n][k].kind \notin {"symbol", "move"}
  BY <1>6, <1>8, QuietMail
<1> QED BY <1>1, <1>4, <1>9, Constants, GamesKept

LEMMA FillingGames ==
    ASSUME Typed, Typed', AllSound, GamesSound, server' = "up", Activate \/ Enter
    PROVE  GamesSound'
<1>1. /\ registering \in Slots /\ registering # None /\ UNCHANGED <<pairs, inbox, clientVars>>
      /\ clients \in [Slots -> [name : Names \cup {None}, active : BOOLEAN, pair_id : Pairs \cup {-1}]]
  BY DEF Activate, Enter, Filling, Typed, TypeOK
<1>2. request # None /\ request.msg.kind = "l" /\ clients[registering].name = None
      /\ request.from \in Names
  <2>1. request # None /\ request.msg.kind = "l" /\ clients[registering].name = None
    BY <1>1 DEF AllSound, RegistrationSound
  <2> QED BY <2>1, RequestThere
<1>3. CASE Activate
  <2>1. /\ clients' = [clients EXCEPT ![registering].active = TRUE]
        /\ UNCHANGED <<request, registering, mail>>
    BY <1>3 DEF Activate
  <2>2. \A i \in Slots : clients'[i].name = clients[i].name /\ clients'[i].pair_id = clients[i].pair_id
    BY <1>1, <2>1
  <2>3. \A c \in Clients, i \in Slots : Sits(c, i)' <=> Sits(c, i)
    BY <2>1, <2>2 DEF Sits
  <2>4. \A n \in Names :
        /\ Longer(mail[n], mail'[n])
        /\ \A k \in 1 .. Len(mail'[n]) : k > Len(mail[n]) => mail'[n][k].kind \notin {"symbol", "move"}
    BY <2>1, MailStays
  <2> QED BY <1>1, <2>1, <2>2, <2>3, <2>4, GamesKept
<1>4. CASE Enter
  <2> DEFINE letters == <<Letter(request.from, Datagram("id", None, None, registering))>>
  <2>1. /\ clients' = [clients EXCEPT ![registering].name = request.from]
        /\ registering' = None /\ request' = None /\ ServerSends(letters)
    BY <1>4 DEF Enter, Handled
  <2>2. DOMAIN letters = {1} /\ letters[1].msg = Datagram("id", None, None, registering)
    BY LettersAre
  <2> HIDE DEF letters
  <2>3. Datagram("id", None, None, registering) \in ClientMail
        /\ Datagram("id", None, None, registering).kind = "id"
    BY <1>1, Datagrams DEF Datagram
  <2>4. /\ DOMAIN letters \subseteq 0 .. 1 /\ 1 \in Nat
        /\ \A i \in DOMAIN letters :
             letters[i].msg \in ClientMail /\ letters[i].msg.kind \notin {"symbol", "move"}
    BY <2>2, <2>3
  <2>5. \A n \in Names :
        /\ Longer(mail[n], mail'[n])
        /\ \A k \in 1 .. Len(mail'[n]) : k > Len(mail[n]) => mail'[n][k].kind \notin {"symbol", "move"}
    BY <2>1, <2>4, QuietMail
  <2>6. /\ \A i \in Slots : clients'[i].pair_id = clients[i].pair_id
        /\ clients'[registering].name = request.from
        /\ \A i \in Slots : i # registering => clients'[i].name = clients[i].name
    BY <1>1, <2>1
  <2>7. \A c \in Clients, i \in Slots : Sits(c, i)' <=> Sits(c, i)
    BY <1>1, <1>2, <2>1, <2>6, Constants DEF Sits
  <2>8. \A i \in Slots :
             /\ clients'[i].pair_id = clients[i].pair_id
             /\ clients[i].name # None => clients'[i].name = clients[i].name
             /\ clients'[i].name = None /\ registering' # i => clients[i].name = None /\ registering # i
    BY <1>2, <2>6, Constants
  <2> QED BY <1>1, <1>2, <2>1, <2>5, <2>7, <2>8, GamesKept
<1> QED BY <1>3, <1>4

-----------------------------------------------------------------------------
(* A datagram on its way through the server *)

LEMMA NoneIsNoRequest == None \notin Requests
<1> DEFINE All == [kind : {"l", "move", "over", "E", "response"}, sym : {"X", "O", None},
                   field : Fields \cup {None}, id : 0 .. MAX_CLIENTS - 1 \cup {None}]
<1>1. \A m \in Messages : m.kind \in {"l", "move", "over", "E", "response"} => m \in All
  BY DEF Messages, Symbols, Slots
<1>2. None \notin [from : Names, msg : All]
  BY GameAssumption
<1> HIDE DEF All
<1> QED BY <1>1, <1>2 DEF Requests

LEMMA HandNext ==
    ASSUME Typed', NEW c \in Clients
    PROVE  /\ Hand(c)' = One(pc'[c] = "moving") + Count(mail'[client_name[c]], Turning)
                 + One(Asks(client_name[c])') + Count(inbox'[Socket(c)], MovesOf(client_name[c]))
           /\ One(pc'[c] = "moving") \in {0, 1} /\ One(Asks(client_name[c])') \in {0, 1}
           /\ Len(mail'[client_name[c]]) \in Nat /\ Len(inbox'[Socket(c)]) \in Nat
           /\ Count(mail'[client_name[c]], Turning) \in Nat
           /\ Count(inbox'[Socket(c)], MovesOf(client_name[c])) \in Nat
           /\ Hand(c)' \in Nat
<1>1. client_name[c] \in Names /\ Socket(c) \in Sockets
  BY Constants DEF Socket, Sockets
<1>2. Len(mail'[client_name[c]]) \in Nat /\ Len(inbox'[Socket(c)]) \in Nat
  BY <1>1, LenProperties DEF Typed, Mail
<1>3. One(pc'[c] = "moving") \in {0, 1} /\ One(Asks(client_name[c])') \in {0, 1}
  BY DEF One
<1>4. /\ Count(mail'[client_name[c]], Turning) \in Nat
      /\ Count(inbox'[Socket(c)], MovesOf(client_name[c])) \in Nat
  BY <1>2, CountIs
<1>5. Hand(c)' = One(pc'[c] = "moving") + Count(mail'[client_name[c]], Turning)
                 + One(Asks(client_name[c])') + Count(inbox'[Socket(c)], MovesOf(client_name[c]))
  BY DEF Hand
<1> QED BY <1>2, <1>3, <1>4, <1>5

LEMMA ReceiveGames ==
    ASSUME Typed, Typed', AllSound, GamesSound, NEW s \in Sockets, Receive(s)
    PROVE  GamesSound'
<1> DEFINE q == inbox[s]
<1>1. q \in Seq(Requests) /\ q # <<>> /\ Len(q) \in Nat /\ inbox \in [Sockets -> Seq(Requests)]
  BY LenProperties DEF Typed, Mail, Receive
<1>2. /\ 1 \in 1 .. Len(q) /\ Head(q) = q[1] /\ Len(q) = Len(Tail(q)) + 1 /\ Len(Tail(q)) \in Nat
      /\ \A k \in 1 .. Len(Tail(q)) : k + 1 \in 1 .. Len(q) /\ Tail(q)[k] = q[k + 1]
  <2>1. Head(q) = q[1] /\ Len(Tail(q)) = Len(q) - 1 /\ Len(q) > 0
    BY <1>1, EmptySeq
  <2>2. \A k \in 1 .. Len(q) - 1 : Tail(q)[k] = q[k + 1]
    BY <1>1
  <2> HIDE DEF q
  <2> QED BY <1>1, <2>1, <2>2
<1>3. /\ request = None /\ request' = q[1] /\ inbox' = [inbox EXCEPT ![s] = Tail(q)]
      /\ UNCHANGED <<registering, mail, clients, pairs, pc, client_id, symbol, board>>
  BY <1>2 DEF Receive, tableVars, clientVars
<1>4. q[1] \in Requests /\ request' # None
  BY <1>1, <1>2, <1>3, ElementOfSeq, NoneIsNoRequest
<1>5. inbox'[s] = Tail(q) /\ (\A t \in Sockets : t # s => inbox'[t] = inbox[t])
      /\ DOMAIN inbox = Sockets /\ DOMAIN inbox' = Sockets
  BY <1>1, <1>3
<1>6. registering = None
  BY <1>3 DEF AllSound, RegistrationSound
<1>7. \A c \in Clients, i \in Slots : Sits(c, i)' <=> Sits(c, i)
  BY <1>3, <1>6, Constants DEF Sits
<1>8. \A i : (InGame(i)' <=> InGame(i)) /\ (Seated(i)' <=> Seated(i))
  BY <1>3 DEF InGame, Seated
<1>9. \A c \in Clients : (Alive(c)' <=> Alive(c)) /\ (Engaged(c)' <=> Engaged(c))
  BY <1>3 DEF Alive, Engaged
<1>10. ASSUME NEW c \in Clients PROVE Hand(c)' <= Hand(c) /\ Hand(c)' \in Nat /\ Hand(c) \in Nat
  <2> DEFINE n == client_name[c]
             S == MovesOf(n)
  <2>1. ~Asks(n) /\ One(Asks(n)) = 0
    BY <1>3 DEF Asks, One
  <2>2. One(Asks(n)') = One(q[1] \in S)
    <3>1. Asks(n)' <=> q[1] \in S
      BY <1>3, <1>4 DEF Asks
    <3> QED BY <3>1 DEF One
  <2>3. Count(inbox'[Socket(c)], S) + One(q[1] \in S) <= Count(inbox[Socket(c)], S)
    <3>1. CASE s = Socket(c)
      <4> HIDE DEF q, S
      <4>1. Count(Tail(q), S) + One(q[1] \in S) <= Count(q, S)
        BY <1>1, <1>2, CountShifted
      <4>2. inbox'[Socket(c)] = Tail(q) /\ inbox[Socket(c)] = q
        BY <1>5, <3>1 DEF q
      <4> QED BY <4>1, <4>2
    <3>2. CASE s # Socket(c)
      <4>1. q[1].from \in Local <=> s = "unix"
        BY <1>2 DEF AllSound, RequestsSound
      <4>2. q[1].from # n
        BY <3>2, <4>1 DEF Socket, Sockets
      <4>3. One(q[1] \in S) = 0
        BY <4>2 DEF One, MovesOf
      <4>4. inbox'[Socket(c)] = inbox[Socket(c)]
        BY <1>5, <3>2, HandIs
      <4>5. Count(inbox[Socket(c)], S) \in Nat
        BY HandIs
      <4> QED BY <4>3, <4>4, <4>5
    <3> QED BY <3>1, <3>2
  <2> HIDE DEF S
  <2>4. mail' = mail /\ pc' = pc
    BY <1>3
  <2>5. /\ Hand(c) = One(pc[c] = "moving") + Count(mail[n], Turning) + One(Asks(n)) + Count(inbox[Socket(c)], S)
        /\ One(pc[c] = "moving") \in {0, 1} /\ Count(mail[n], Turning) \in Nat
        /\ Count(inbox[Socket(c)], S) \in Nat /\ Hand(c) \in Nat
    BY HandIs DEF Hand, S
  <2>6. /\ Hand(c)' = One(pc[c] = "moving") + Count(mail[n], Turning) + One(Asks(n)') + Count(inbox'[Socket(c)], S)
        /\ Count(inbox'[Socket(c)], S) \in Nat /\ Hand(c)' \in Nat
    BY <2>4, HandNext DEF S
  <2>7. One(q[1] \in S) \in {0, 1}
    BY DEF One
  <2> QED BY <2>1, <2>2, <2>3, <2>5, <2>6, <2>7
<1>11. Underway' = Underway
  <2>1. {q[k] : k \in DOMAIN q} = {q[1]} \cup {Tail(q)[k] : k \in DOMAIN Tail(q)}
    <3>1. DOMAIN q = 1 .. Len(q) /\ DOMAIN Tail(q) = 1 .. Len(Tail(q))
      BY <1>1
    <3> HIDE DEF q
    <3>2. \A k \in 1 .. Len(q) : k = 1 \/ (k - 1 \in 1 .. Len(Tail(q)) /\ q[k] = Tail(q)[k - 1])
      <4> SUFFICES ASSUME NEW k \in 1 .. Len(q), k # 1
                   PROVE  k - 1 \in 1 .. Len(Tail(q)) /\ q[k] = Tail(q)[k - 1]
        OBVIOUS
      <4>1. k - 1 \in 1 .. Len(Tail(q)) /\ (k - 1) + 1 = k
        BY <1>1, <1>2
      <4> QED BY <1>2, <4>1
    <3>3. \A x : x \in {q[k] : k \in 1 .. Len(q)} => x = q[1] \/ x \in {Tail(q)[k] : k \in 1 .. Len(Tail(q))}
      BY <3>2
    <3>4. \A x : x = q[1] \/ x \in {Tail(q)[k] : k \in 1 .. Len(Tail(q))} => x \in {q[k] : k \in 1 .. Len(q)}
      BY <1>2
    <3> QED BY <3>1, <3>3, <3>4
  <2> DEFINE In(t) == {inbox[t][k] : k \in DOMAIN inbox[t]}
             Next2(t) == {inbox'[t][k] : k \in DOMAIN inbox'[t]}
  <2>2. /\ In(s) = {q[1]} \cup Next2(s)
        /\ \A t \in Sockets : t # s => Next2(t) = In(t)
    <3>1. In(s) = {q[1]} \cup Next2(s)
      BY <1>5, <2>1
    <3>2. ASSUME NEW t \in Sockets, t # s PROVE Next2(t) = In(t)
      <4>1. inbox'[t] = inbox[t]
        BY <1>5, <3>2
      <4> QED BY <4>1
    <3> QED BY <3>1, <3>2
  <2>3. Underway = UNION {In(t) : t \in Sockets} /\ Underway' = (UNION {Next2(t) : t \in Sockets}) \cup {q[1]}
    BY <1>3, <1>4 DEF Underway
  <2> HIDE DEF In, Next2, q
  <2> QED BY <2>2, <2>3
<1>12. \A c, d \in Clients : MovesFrom(c, d)' = MovesFrom(c, d)
  BY <1>3, <1>11 DEF MovesFrom
<1>13. PairsSound'
  BY <1>3, <1>8 DEF GamesSound, PairsSound
<1>14. SeatsSound'
  <2>1. SeatsSound
    BY DEF GamesSound
  <2>2. \A u : MoveSound(u) => MoveSound(u)'
    BY <1>3, <1>8 DEF MoveSound
  <2>3. \A t \in Sockets : \A k \in 1 .. Len(inbox[t]) : MoveSound(inbox[t][k])
    BY <2>1 DEF SeatsSound
  <2>4. ASSUME NEW t \in Sockets, NEW k \in 1 .. Len(inbox'[t]), NEW u, u = inbox'[t][k] PROVE MoveSound(u)'
    <3>1. CASE t = s
      <4>1. k + 1 \in 1 .. Len(q) /\ u = q[k + 1]
        BY <1>2, <1>5, <2>4, <3>1
      <4> QED BY <2>2, <2>3, <4>1
    <3>2. CASE t # s
      BY <1>5, <2>2, <2>3, <2>4, <3>2
    <3> QED BY <3>1, <3>2
  <2>5. ASSUME NEW u, u = q[1] PROVE MoveSound(u)'
    BY <1>2, <2>2, <2>3, <2>5
  <2>6. \A c \in Clients : SeatSound(c) => SeatSound(c)'
    BY <1>3, <1>7, <1>8 DEF SeatSound, HasId, Turning
  <2>7. \A c \in Clients : Alive(c)' => SeatSound(c)'
    BY <1>9, <2>1, <2>6 DEF SeatsSound
  <2> QED BY <1>3, <2>4, <2>5, <2>7 DEF SeatsSound, MoveSound
<1>15. FreshSound'
  <2>1. FreshSound
    BY DEF GamesSound
  <2>2. ASSUME NEW c \in Clients, Fresh(c) PROVE Fresh(c)'
    <3>1. Hand(c)' = 0
      BY <1>10, <2>2 DEF Fresh
    <3> QED BY <1>3, <2>2, <3>1 DEF Fresh, Blank
  <2> QED BY <1>3, <1>7, <1>8, <1>9, <2>1, <2>2 DEF FreshSound, Blank
<1>16. DuelsSound'
  <2>1. ASSUME NEW c \in Clients, NEW d \in Clients, Duel(c, d, "X", "O") PROVE Duel(c, d, "X", "O")'
    <3>1. Hand(c)' + Hand(d)' <= 1
      BY <1>10, <2>1 DEF Duel
    <3>2. Side(c, d, "X")' /\ Side(d, c, "O")'
      BY <1>3, <1>12, <2>1 DEF Duel, Side
    <3> QED BY <1>3, <1>12, <2>1, <3>1, <3>2 DEF Duel
  <2>2. pairs' = pairs /\ clients' = clients
    BY <1>3
  <2>3. ASSUME NEW p \in Pairs, pairs[p].x # -1, clients[pairs[p].x].pair_id = p,
               NEW x \in Clients, NEW o \in Clients,
               Sits(x, pairs[p].x)', Sits(o, pairs[p].o)', Engaged(x)', Engaged(o)'
        PROVE  Duel(x, o, "X", "O")'
    <3>1. pairs[p].x \in Slots /\ pairs[p].o \in Slots
      BY <2>3 DEF GamesSound, PairsSound, Typed, TypeOK
    <3>2. Duel(x, o, "X", "O")
      BY <1>7, <1>9, <2>2, <2>3, <3>1 DEF GamesSound, DuelsSound
    <3> QED BY <2>1, <3>2
  <2> QED BY <2>2, <2>3 DEF DuelsSound
<1> QED BY <1>13, <1>14, <1>15, <1>16 DEF GamesSound

\* A name that is sent one letter gets one.
LEMMA OneMore ==
    ASSUME Typed, NEW letters, NEW m \in Names, NEW j, letters[j].msg \in ClientMail,
           {k \in Arriving(letters) : letters[k].to = m} \subseteq {j}
    PROVE  Len(Posted(mail, letters)[m]) <= Len(mail[m]) + 1
<1> DEFINE mine == {k \in Arriving(letters) : letters[k].to = m}
           len == Cardinality(mine)
           l == letters[CHOOSE i \in mine : TRUE].msg
           t == [k \in 1 .. len |-> l]
<1>1. mine = {} \/ mine = {j}
  OBVIOUS
<1>2. len \in {0, 1}
  BY <1>1, FS_EmptySet, FS_Singleton
<1>3. Len(mail[m]) \in Nat /\ mail[m] \in Seq(ClientMail)
  BY LenProperties DEF Typed, Mail
<1>4. Posted(mail, letters)[m] = IF Bound(m) THEN mail[m] \o t ELSE mail[m]
  BY DEF Posted
<1> HIDE DEF len, l, mine
<1>5. mine # {} => l \in ClientMail
  <2>1. mine # {} => (CHOOSE i \in mine : TRUE) = j
    BY <1>1
  <2> QED BY <2>1 DEF l
<1>6. len = 1 => mine # {}
  BY FS_EmptySet DEF len
<1>7. t \in Seq(ClientMail) /\ Len(t) = len
  <2>1. \A k \in 1 .. len : l \in ClientMail
    BY <1>2, <1>5, <1>6
  <2> QED BY <1>2, <2>1
<1> HIDE DEF t
<1>8. Len(mail[m] \o t) = Len(mail[m]) + len
  BY <1>3, <1>7, ConcatProperties
<1> QED BY <1>2, <1>3, <1>4, <1>8

\* One letter is new in one name's mail, if that.
LEMMA OneLetter ==
    ASSUME Typed, server' = "up", NEW n, NEW msg \in ClientMail, ServerSends(<<Letter(n, msg)>>)
    PROVE  /\ n # None
           /\ \A m \in Names :
                /\ Longer(mail[m], mail'[m]) /\ Len(mail'[m]) <= Len(mail[m]) + 1
                /\ \A k \in 1 .. Len(mail'[m]) : k > Len(mail[m]) => m = n /\ mail'[m][k] = msg
                /\ m = n /\ Bound(m) => Len(mail'[m]) > Len(mail[m])
<1> DEFINE letters == <<Letter(n, msg)>>
<1>1. DOMAIN letters = {1} /\ letters[1].to = n /\ letters[1].msg = msg
  BY LettersAre
<1>2. ServerSends(letters)
  OBVIOUS
<1> HIDE DEF letters
<1>3. DOMAIN letters \subseteq 0 .. 1 /\ 1 \in Nat /\ \A i \in DOMAIN letters : letters[i].msg \in ClientMail
  BY <1>1
<1>4. /\ AllReachable(letters) /\ mail' = Posted(mail, letters)
      /\ \A m \in Names :
           /\ Longer(mail[m], mail'[m])
           /\ \A k \in 1 .. Len(mail'[m]) : k > Len(mail[m]) =>
                \E i \in DOMAIN letters : letters[i].to = m /\ mail'[m][k] = letters[i].msg
           /\ Bound(m) /\ (\E i \in DOMAIN letters : letters[i].to = m) => Len(mail'[m]) > Len(mail[m])
  BY <1>2, <1>3, ServerGoesOn
<1>5. n # None
  BY <1>1, <1>4 DEF AllReachable, Reachable
<1>6. ASSUME NEW m \in Names PROVE Len(mail'[m]) <= Len(mail[m]) + 1
  <2>1. {k \in Arriving(letters) : letters[k].to = m} \subseteq {1} /\ letters[1].msg \in ClientMail
    BY <1>1 DEF Arriving
  <2> QED BY <1>4, <2>1, OneMore
<1> QED BY <1>1, <1>4, <1>5, <1>6

LEMMA DuelTurned ==
    ASSUME NEW c, NEW d, NEW s, NEW t
    PROVE  /\ Hand(c) \in Nat /\ Hand(d) \in Nat /\ Duel(c, d, s, t) => Duel(d, c, t, s)
           /\ Hand(c)' \in Nat /\ Hand(d)' \in Nat /\ Duel(c, d, s, t)' => Duel(d, c, t, s)'
  BY DEF Duel

\* A move goes from the hands of the server to the other player.
LEMMA RelayDuel ==
    ASSUME Typed, Typed', AllSound, UNCHANGED <<clientVars, inbox>>, request' = None,
           NEW c \in Clients, NEW d \in Clients, client_name[c] # client_name[d],
           Asks(client_name[c]), NEW s, NEW t, Duel(c, d, s, t),
           Longer(mail[client_name[c]], mail'[client_name[c]]),
           \A k \in 1 .. Len(mail'[client_name[c]]) : ~(k > Len(mail[client_name[c]])),
           Longer(mail[client_name[d]], mail'[client_name[d]]),
           Len(mail'[client_name[d]]) = Len(mail[client_name[d]]) + 1,
           mail'[client_name[d]][Len(mail'[client_name[d]])] = request.msg
    PROVE  Duel(c, d, s, t)'
<1> DEFINE nc == client_name[c]
           nd == client_name[d]
           u == request.msg
<1>1. /\ nc \in Names /\ nd \in Names /\ symbol' = symbol /\ board' = board
      /\ request # None /\ request.from = nc /\ u.kind = "move" /\ request \in Requests
  BY Constants DEF clientVars, Asks, MovesOf
<1>2. /\ Len(mail[nc]) \in Nat /\ Len(mail'[nc]) \in Nat
      /\ \A k \in 1 .. Len(mail'[nc]) : k \in 1 .. Len(mail[nc]) /\ mail'[nc][k] = mail[nc][k]
      /\ \A k \in 1 .. Len(mail[nc]) : k \in 1 .. Len(mail'[nc]) /\ mail'[nc][k] = mail[nc][k]
  BY <1>1, GrownMail
<1>3. /\ Len(mail[nd]) \in Nat /\ Len(mail'[nd]) \in Nat
      /\ \A k \in 1 .. Len(mail[nd]) : k \in 1 .. Len(mail'[nd]) /\ mail'[nd][k] = mail[nd][k]
      /\ \A k \in 1 .. Len(mail'[nd]) :
           (k \in 1 .. Len(mail[nd]) /\ mail'[nd][k] = mail[nd][k]) \/ mail'[nd][k] = u
      /\ Len(mail'[nd]) \in 1 .. Len(mail'[nd])
  <2>1. /\ Len(mail[nd]) \in Nat /\ Len(mail'[nd]) \in Nat
        /\ \A k \in 1 .. Len(mail[nd]) : k \in 1 .. Len(mail'[nd]) /\ mail'[nd][k] = mail[nd][k]
        /\ \A k \in 1 .. Len(mail'[nd]) :
             ~(k > Len(mail[nd])) => k \in 1 .. Len(mail[nd]) /\ mail'[nd][k] = mail[nd][k]
    BY <1>1, GrownMail
  <2>2. \A k \in 1 .. Len(mail'[nd]) : k > Len(mail[nd]) => k = Len(mail'[nd])
    BY <2>1
  <2> QED BY <2>1, <2>2
<1>4. Hand(c)' + Hand(d)' <= 1
  <2>1. Hand(c)' <= Hand(c) - 1 /\ Hand(c)' \in Nat /\ Hand(c) \in Nat
    BY HandIs, ServerHands
  <2>2. Hand(d)' <= Hand(d) + 1 /\ Hand(d)' \in Nat /\ Hand(d) \in Nat
    <3>1. Len(mail'[nd]) <= Len(mail[nd]) + 1
      BY <1>3
    <3> QED BY <3>1, HandIs, ServerHands
  <2>3. Hand(c) + Hand(d) <= 1
    BY DEF Duel
  <2> QED BY <2>1, <2>2, <2>3
<1>5. MovesFrom(d, c)' = MovesFrom(d, c)
  BY <1>1, MovesStay
<1>6. MovesFrom(c, d)' = MovesFrom(c, d)
  <2> DEFINE Sent == {r.msg : r \in {w \in Underway : w.from = nc}}
             Sent2 == {r.msg : r \in {w \in Underway' : w.from = nc}}
  <2>1. /\ \A m : m \in MovesFrom(c, d) <=>
             m.kind = "move" /\ (m \in Sent \/ \E k \in 1 .. Len(mail[nd]) : mail[nd][k] = m)
        /\ \A m : m \in MovesFrom(c, d)' <=>
             m.kind = "move" /\ (m \in Sent2 \/ \E k \in 1 .. Len(mail'[nd]) : mail'[nd][k] = m)
    <3>1. DOMAIN mail[nd] = 1 .. Len(mail[nd]) /\ DOMAIN mail'[nd] = 1 .. Len(mail'[nd])
      <4>1. mail[nd] \in Seq(ClientMail) /\ mail'[nd] \in Seq(ClientMail)
        BY <1>1 DEF Typed, Mail
      <4> QED BY <4>1, LenProperties
    <3> QED BY <3>1 DEF MovesFrom
  <2>2. \A m : m \in Sent <=> m \in Sent2 \/ m = u
    <3>1. \A w : w \in Underway <=> w \in Underway' \/ w = request
      BY <1>1 DEF Underway
    <3> QED BY <1>1, <3>1
  <2> HIDE DEF Sent, Sent2
  <2>3. \A m : (\E k \in 1 .. Len(mail'[nd]) : mail'[nd][k] = m)
                 <=> m = u \/ \E k \in 1 .. Len(mail[nd]) : mail[nd][k] = m
    BY <1>3
  <2> QED BY <2>1, <2>2, <2>3
<1>7. Side(c, d, s)'
  <2>1. Side(c, d, s)
    BY DEF Duel
  <2> QED BY <1>1, <1>2, <1>6, <2>1 DEF Side
<1>8. Side(d, c, t)'
  <2>1. Side(d, c, t)
    BY DEF Duel
  <2> QED BY <1>1, <1>3, <1>5, <2>1 DEF Side
<1> QED BY <1>1, <1>4, <1>5, <1>6, <1>7, <1>8 DEF Duel

LEMMA RelayGames ==
    ASSUME Typed, Typed', AllSound, GamesSound, server' = "up", ~misread', Relay
    PROVE  GamesSound'
<1> DEFINE k == request.msg.id
           f == request.from
           m == request.msg
           side == IF m.sym = "X" THEN "o" ELSE "x"
           p == clients[k].pair_id
           n == At(clients, players(k)[side])
<1>1. /\ request # None /\ registering = None /\ m.kind = "move"
      /\ UNCHANGED <<clients, pairs, registering, inbox, clientVars>> /\ request' = None
      /\ make_move(read_id(k), <<side>>, m)
  BY DEF Relay, Handles, make_move, Handled, tableVars
<1>2. /\ request \in Requests /\ m \in ClientMail /\ k \in Slots /\ f \in Names /\ m.sym \in Symbols
      /\ clients \in [Slots -> [name : Names \cup {None}, active : BOOLEAN, pair_id : Pairs \cup {-1}]]
      /\ pairs \in [Pairs -> [o : Slots \cup {-1}, x : Slots \cup {-1}]]
  <2>1. request \in Requests /\ m \in ClientMail
    BY <1>1, RequestThere
  <2> QED BY <1>1, <2>1 DEF Requests, MoveOk, Typed, TypeOK
<1>3. read_id(k) = k
  <2>1. misread' = (misread \/ (request.msg.kind = "move" /\ buf.five # None))
    BY DEF Relay, make_move, Handled
  <2> QED BY <1>1, <2>1 DEF read_id
<1>4. ServerSends(<<Letter(n, m)>>)
  <2>1. ServerSends([j \in DOMAIN <<side>> |-> Letter(At(clients, players(k)[<<side>>[j]]), m)])
    BY <1>1, <1>2, <1>3 DEF make_move
  <2>2. [j \in DOMAIN <<side>> |-> Letter(At(clients, players(k)[<<side>>[j]]), m)] = <<Letter(n, m)>>
    <3> HIDE DEF side, m, k
    <3> QED OBVIOUS
  <2> QED BY <2>1, <2>2
<1>5. /\ n # None
      /\ \A a \in Names :
           /\ Longer(mail[a], mail'[a]) /\ Len(mail'[a]) <= Len(mail[a]) + 1
           /\ \A l \in 1 .. Len(mail'[a]) : l > Len(mail[a]) => a = n /\ mail'[a][l] = m
           /\ a = n /\ Bound(a) => Len(mail'[a]) > Len(mail[a])
  <2> HIDE DEF n, m
  <2> QED BY <1>2, <1>4, OneLetter
<1>6. clients[k].name = f /\ Seated(k)
  BY <1>1 DEF GamesSound, SeatsSound, MoveSound
<1>7. p \in Pairs /\ players(k) = pairs[p]
  BY <1>2, <1>5 DEF players, At
<1>8. /\ k \in {pairs[p].o, pairs[p].x} /\ pairs[p].x \in Slots /\ pairs[p].o \in Slots /\ pairs[p].x # pairs[p].o
      /\ clients[pairs[p].x].pair_id = p /\ clients[pairs[p].o].pair_id = p /\ p # -1
  <2>0. p # -1
    BY <1>7, Constants
  <2>1. k \in {pairs[p].o, pairs[p].x}
    BY <1>6, <2>0 DEF Seated, InGame
  <2>2. pairs[p].x # -1
    <3>1. k # -1
      BY <1>2, Constants
    <3> QED BY <1>7, <2>1, <3>1 DEF GamesSound, PairsSound
  <2>3. pairs[p].x \in Slots
    BY <1>2, <1>7, <2>2
  <2> QED BY <1>7, <2>0, <2>1, <2>2, <2>3 DEF GamesSound, PairsSound
<1> DEFINE j == pairs[p][side]
<1>9. j \in Slots /\ clients[j].pair_id = p /\ j \in {pairs[p].o, pairs[p].x} /\ n = clients[j].name /\ n \in Names
  <2>1. j \in Slots /\ clients[j].pair_id = p /\ j \in {pairs[p].o, pairs[p].x} /\ j # -1
    BY <1>8, Constants
  <2>2. n = clients[j].name
    BY <1>7, <2>1 DEF At
  <2>3. n \in Names
    <3> HIDE DEF n, p, k, side
    <3>1. clients[j].name \in Names \cup {None} /\ n # None /\ n = clients[j].name
      BY <1>2, <1>5, <2>1, <2>2
    <3> QED BY <3>1
  <2> HIDE DEF n
  <2> QED BY <2>1, <2>2, <2>3
<1>10. \A c \in Clients, i \in Slots : /\ Sits(c, i)' <=> Sits(c, i)
                                       /\ Sits(c, i) <=> clients[i].name = client_name[c]
  BY <1>1, Constants DEF Sits
<1>11. \A i, l \in Slots : clients[i].name = clients[l].name /\ clients[i].name # None => i = l
  BY DEF AllSound, TableSound, Registered
<1>12. \A i : (InGame(i)' <=> InGame(i)) /\ (Seated(i)' <=> Seated(i))
  BY <1>1 DEF InGame, Seated
<1>13. \A c \in Clients : /\ client_name[c] \in Names /\ client_name[c] # None
                          /\ Alive(c)' <=> Alive(c)
                          /\ Engaged(c)' => Engaged(c)
  BY <1>1, <1>5, Constants, EngagedBefore DEF Alive, clientVars
<1> HIDE DEF k, f, m, side, p, n, j
<1>14. PairsSound'
  BY <1>1, <1>12 DEF GamesSound, PairsSound
<1>15. SeatsSound'
  <2>1. SeatsSound
    BY DEF GamesSound
  <2>2. ASSUME NEW c \in Clients, Alive(c)' PROVE SeatSound(c)'
    <3>1. SeatSound(c)
      BY <1>13, <2>1, <2>2 DEF SeatsSound
    <3>2. (\E i \in Slots : Sits(c, i) /\ Seated(i)) => \E i \in Slots : Sits(c, i)' /\ Seated(i)'
      BY <1>10, <1>12
    <3>3. \A l \in 1 .. Len(mail'[client_name[c]]) : l > Len(mail[client_name[c]]) =>
             mail'[client_name[c]][l].kind # "symbol" /\ HasId(c, Len(mail[client_name[c]]))
      <4> SUFFICES ASSUME NEW l \in 1 .. Len(mail'[client_name[c]]), l > Len(mail[client_name[c]])
                   PROVE  mail'[client_name[c]][l].kind # "symbol" /\ HasId(c, Len(mail[client_name[c]]))
        OBVIOUS
      <4>1. client_name[c] = n /\ mail'[client_name[c]][l] = m
        BY <1>5, <1>13
      <4>2. InTable(client_name[c])
        BY <1>9, <4>1 DEF InTable
      <4> QED BY <1>1, <1>13, <2>2, <4>1, <4>2 DEF AllSound, IdsSound, m
    <3>4. Longer(mail[client_name[c]], mail'[client_name[c]])
      BY <1>5, <1>13
    <3> QED BY <1>1, <3>1, <3>2, <3>3, <3>4, SeatKept
  <2>3. \A s \in Sockets : \A l \in 1 .. Len(inbox[s]) : MoveSound(inbox[s][l])'
    BY <1>1, <1>12, <2>1 DEF SeatsSound, MoveSound
  <2> QED BY <1>1, <2>2, <2>3 DEF SeatsSound, MoveSound
<1>16. FreshSound'
  <2>1. FreshSound
    BY DEF GamesSound
  <2>2. ASSUME NEW c \in Clients, Engaged(c)', \A i \in Slots : Sits(c, i)' => ~InGame(i)'
        PROVE  Fresh(c)'
    <3>1. Fresh(c)
      BY <1>10, <1>12, <1>13, <2>1, <2>2 DEF FreshSound
    <3>2. client_name[c] # n
      BY <1>8, <1>9, <1>10, <1>12, <2>2 DEF InGame
    <3> QED BY <1>1, <1>5, <1>13, <3>1, <3>2, FreshKept
  <2> QED BY <1>1, <2>1, <2>2 DEF FreshSound, Blank, clientVars
<1>17. DuelsSound'
  <2> SUFFICES ASSUME NEW q \in Pairs, pairs[q].x # -1, clients[pairs[q].x].pair_id = q,
                      NEW x \in Clients, NEW o \in Clients,
                      Sits(x, pairs[q].x), Sits(o, pairs[q].o), Engaged(x)', Engaged(o)'
               PROVE  Duel(x, o, "X", "O")'
    <3>1. \A q \in Pairs : pairs[q].x # -1 => pairs[q].x \in Slots /\ pairs[q].o \in Slots
      BY <1>2 DEF GamesSound, PairsSound
    <3> QED BY <1>1, <1>10, <3>1 DEF DuelsSound
  <2>1. /\ pairs[q].x \in Slots /\ pairs[q].o \in Slots /\ pairs[q].x # pairs[q].o
        /\ clients[pairs[q].o].pair_id = q
        /\ clients[pairs[q].x].name = client_name[x] /\ clients[pairs[q].o].name = client_name[o]
    BY <1>2, <1>10 DEF GamesSound, PairsSound
  <2>2. Duel(x, o, "X", "O")
    BY <1>13 DEF GamesSound, DuelsSound
  <2>3. client_name[x] # client_name[o]
    BY <1>11, <1>13, <2>1
  <2>4. Bound(client_name[x]) /\ Bound(client_name[o])
    BY <1>13 DEF Engaged, Bound
  <2>5. ASSUME NEW c \in Clients, NEW d \in Clients, client_name[c] = f, client_name[d] = n, f # n,
               Bound(client_name[d]), NEW s, NEW t, Duel(c, d, s, t)
        PROVE  Duel(c, d, s, t)'
    <3>1. Asks(client_name[c])
      BY <1>1, <1>2, <2>5 DEF Asks, MovesOf, f, m
    <3>2. \A l \in 1 .. Len(mail'[client_name[c]]) : ~(l > Len(mail[client_name[c]]))
      BY <1>5, <1>13, <2>5
    <3>3. Len(mail[n]) \in Nat /\ Len(mail'[n]) \in Nat
      BY <1>5, <1>9, GrownMail
    <3>4. Len(mail'[n]) = Len(mail[n]) + 1
      BY <1>5, <1>9, <2>5, <3>3
    <3>5. mail'[n][Len(mail'[n])] = request.msg
      <4>1. Len(mail'[n]) \in 1 .. Len(mail'[n]) /\ Len(mail'[n]) > Len(mail[n])
        BY <3>3, <3>4
      <4> QED BY <1>5, <1>9, <4>1 DEF m
    <3> QED BY <1>1, <1>5, <1>13, <2>5, <3>1, <3>2, <3>4, <3>5, RelayDuel
  <2>6. CASE q = p /\ k = pairs[p].x
    <3>1. client_name[x] = f
      BY <1>6, <2>1, <2>6
    <3>2. m \in MovesFrom(x, o)
      <4>1. Asks(client_name[x]) /\ request.msg = m
        BY <1>1, <1>2, <3>1 DEF Asks, MovesOf, f, m
      <4> QED BY <1>1, <4>1, MovesAre DEF AllSound
    <3>3. m.sym = "X"
      BY <2>2, <3>2 DEF Duel, Side
    <3>4. client_name[o] = n
      BY <1>9, <2>1, <2>6, <3>3 DEF j, side
    <3> QED BY <2>2, <2>3, <2>4, <2>5, <3>1, <3>4
  <2>7. CASE q = p /\ k = pairs[p].o
    <3>1. client_name[o] = f
      BY <1>6, <2>1, <2>7
    <3>2. m \in MovesFrom(o, x)
      <4>1. Asks(client_name[o]) /\ request.msg = m
        BY <1>1, <1>2, <3>1 DEF Asks, MovesOf, f, m
      <4> QED BY <1>1, <4>1, MovesAre DEF AllSound
    <3>3. m.sym = "O"
      BY <2>2, <3>2 DEF Duel, Side
    <3>4. client_name[x] = n
      BY <1>9, <2>1, <2>7, <3>3 DEF j, side
    <3>5. Duel(o, x, "O", "X")
      BY <2>2, HandIs, DuelTurned
    <3>6. Duel(o, x, "O", "X")'
      BY <2>3, <2>4, <2>5, <3>1, <3>4, <3>5
    <3> QED BY <3>6, HandNext, DuelTurned
  <2>8. CASE q # p
    <3>1. client_name[x] \notin {f, n} /\ client_name[o] \notin {f, n}
      <4>1. \A i \in {pairs[q].x, pairs[q].o} : i \in Slots /\ clients[i].name # None /\ clients[i].pair_id # p
        BY <1>13, <2>1, <2>8
      <4>2. clients[k].pair_id = p /\ clients[k].name = f /\ k \in Slots
        BY <1>2, <1>6 DEF p
      <4>3. \A i \in {pairs[q].x, pairs[q].o} : clients[i].name # f /\ clients[i].name # n
        BY <1>9, <1>11, <4>1, <4>2
      <4> QED BY <2>1, <4>3
    <3>2. \A e \in {x, o} :
             /\ Longer(mail[client_name[e]], mail'[client_name[e]])
             /\ \A l \in 1 .. Len(mail'[client_name[e]]) : ~(l > Len(mail[client_name[e]]))
      BY <1>5, <1>13, <3>1
    <3>3. MovesFrom(x, o)' = MovesFrom(x, o) /\ MovesFrom(o, x)' = MovesFrom(o, x)
      BY <1>1, <3>1, <3>2, MovesStay DEF f
    <3> QED BY <1>1, <2>2, <3>2, <3>3, DuelStays
  <2> QED BY <1>8, <2>6, <2>7, <2>8
<1> QED BY <1>14, <1>15, <1>16, <1>17 DEF GamesSound

-----------------------------------------------------------------------------
(* A new game *)

LEMMA TwoLetters ==
    ASSUME Typed, server' = "up", NEW a \in Names, NEW b \in Names, a # b,
           NEW l \in ClientMail, NEW r \in ClientMail, ServerSends(<<Letter(a, l), Letter(b, r)>>)
    PROVE  \A m \in Names :
             /\ Longer(mail[m], mail'[m]) /\ Len(mail'[m]) <= Len(mail[m]) + 1
             /\ \A k \in 1 .. Len(mail'[m]) : k > Len(mail[m]) =>
                  (m = a /\ mail'[m][k] = l) \/ (m = b /\ mail'[m][k] = r)
<1> DEFINE letters == <<Letter(a, l), Letter(b, r)>>
<1>1. /\ DOMAIN letters = {1, 2}
      /\ letters[1].to = a /\ letters[1].msg = l /\ letters[2].to = b /\ letters[2].msg = r
  BY LettersAre DEF Letter
<1>2. ServerSends(letters)
  OBVIOUS
<1> HIDE DEF letters
<1>3. DOMAIN letters \subseteq 0 .. 2 /\ 2 \in Nat /\ \A i \in DOMAIN letters : letters[i].msg \in ClientMail
  BY <1>1
<1>4. /\ mail' = Posted(mail, letters)
      /\ \A m \in Names :
           /\ Longer(mail[m], mail'[m])
           /\ \A k \in 1 .. Len(mail'[m]) : k > Len(mail[m]) =>
                \E i \in DOMAIN letters : letters[i].to = m /\ mail'[m][k] = letters[i].msg
  BY <1>2, <1>3, ServerGoesOn
<1>5. ASSUME NEW m \in Names PROVE Len(mail'[m]) <= Len(mail[m]) + 1
  <2>1. \A k \in Arriving(letters) : k = 1 \/ k = 2
    BY <1>1 DEF Arriving
  <2>2. \/ {k \in Arriving(letters) : letters[k].to = m} \subseteq {1}
        \/ {k \in Arriving(letters) : letters[k].to = m} \subseteq {2}
    BY <1>1, <2>1
  <2> QED BY <1>1, <1>4, <2>2, OneMore
<1> QED BY <1>1, <1>4, <1>5

\* Two clients without a game begin one.
LEMMA NewDuel ==
    ASSUME Typed, Typed', AllSound, UNCHANGED <<clientVars, inbox, request>>,
           NEW c \in Clients, NEW d \in Clients, Fresh(c), Fresh(d),
           \A e \in {c, d} :
             /\ Longer(mail[client_name[e]], mail'[client_name[e]])
             /\ Len(mail'[client_name[e]]) <= Len(mail[client_name[e]]) + 1,
           \A k \in 1 .. Len(mail'[client_name[c]]) : k > Len(mail[client_name[c]]) =>
              mail'[client_name[c]][k] = Datagram("symbol", "X", None, None),
           \A k \in 1 .. Len(mail'[client_name[d]]) : k > Len(mail[client_name[d]]) =>
              mail'[client_name[d]][k] = Datagram("symbol", "O", None, None)
    PROVE  Duel(c, d, "X", "O")'
<1> DEFINE nc == client_name[c]
           nd == client_name[d]
<1>1. /\ nc \in Names /\ nd \in Names /\ symbol' = symbol /\ board' = board /\ request' = request
      /\ inbox' = inbox
  BY Constants DEF clientVars
<1>2. \A e \in {c, d} : /\ Hand(e) = 0 /\ symbol[e] = None
                        /\ \A f \in Fields : board[e][f] = "-"
                        /\ \A k \in 1 .. Len(mail[client_name[e]]) : mail[client_name[e]][k].kind # "symbol"
  BY DEF Fresh, Blank
<1>3. Hand(c)' <= 1 /\ Hand(c)' \in Nat
  <2>1. Hand(c)' <= Hand(c) + 1 /\ Hand(c)' \in Nat
    BY ServerHands
  <2> QED BY <1>2, <2>1
<1>4. Hand(d)' = 0
  <2>1. Datagram("symbol", "O", None, None) \notin Turning
    BY DEF Turning, Datagram
  <2>2. Hand(d)' <= Hand(d) /\ Hand(d)' \in Nat
    BY <2>1, ServerHands
  <2> QED BY <1>2, <2>2
<1>5. \A e \in {c, d} : \A k \in 1 .. Len(mail'[client_name[e]]) :
         k > Len(mail[client_name[e]]) => mail'[client_name[e]][k].kind # "move"
  BY DEF Datagram
<1>6. \A e, g \in {c, d} : MovesFrom(e, g) = {}
  <2> SUFFICES ASSUME NEW e \in {c, d}, NEW g \in {c, d}, NEW m \in MovesFrom(e, g) PROVE FALSE
    OBVIOUS
  <2>1. /\ \A k \in 1 .. Len(mail[client_name[g]]) : mail[client_name[g]][k] \notin Turning
        /\ \A u \in Underway : u.from = client_name[e] => u.msg.kind # "move"
    BY <1>2, NoHand DEF AllSound
  <2>2. /\ mail[client_name[g]] \in Seq(ClientMail) /\ DOMAIN mail[client_name[g]] = 1 .. Len(mail[client_name[g]])
    BY <1>1, LenProperties DEF Typed, Mail
  <2>3. \A k \in 1 .. Len(mail[client_name[g]]) : mail[client_name[g]][k] \in ClientMail
    BY <2>2, ElementOfSeq
  <2>4. \A k \in 1 .. Len(mail[client_name[g]]) : mail[client_name[g]][k].kind # "move"
    BY <2>1, <2>3 DEF Turning
  <2> QED BY <2>1, <2>2, <2>4 DEF MovesFrom
<1>7. MovesFrom(c, d)' = {} /\ MovesFrom(d, c)' = {}
  <2>1. MovesFrom(c, d)' = MovesFrom(c, d) /\ MovesFrom(d, c)' = MovesFrom(d, c)
    BY <1>1, <1>5, MovesStay
  <2> QED BY <1>6, <2>1
<1>8. /\ \A k \in 1 .. Len(mail'[nc]) : mail'[nc][k].kind = "symbol" => mail'[nc][k].sym = "X"
      /\ \A k \in 1 .. Len(mail'[nd]) : mail'[nd][k].kind = "symbol" => mail'[nd][k].sym = "O"
  <2>1. \A e \in {c, d} : \A k \in 1 .. Len(mail'[client_name[e]]) :
           ~(k > Len(mail[client_name[e]])) => mail'[client_name[e]][k].kind # "symbol"
    BY <1>1, <1>2, GrownMail
  <2>2. Datagram("symbol", "X", None, None).sym = "X" /\ Datagram("symbol", "O", None, None).sym = "O"
    BY DEF Datagram
  <2> QED BY <2>1, <2>2
<1>9. Side(c, d, "X")' /\ Side(d, c, "O")'
  BY <1>1, <1>2, <1>7, <1>8 DEF Side
<1>10. \A f \in Fields : board'[c][f] = board'[d][f]
  BY <1>1, <1>2
<1>11. Hand(c)' + Hand(d)' <= 1
  BY <1>3, <1>4
<1> QED BY <1>9, <1>10, <1>11 DEF Duel

LEMMA PairGames ==
    ASSUME Typed, Typed', AllSound, GamesSound, server' = "up", ~torn', Handles({"l"}),
           clients_number < MAX_CLIENTS, registering' = free_place, UNCHANGED request,
           \E q \in Pairs : pairs[q].x = -1,
           NEW i, i = free_place, NEW w, w = waiting_for_pair, NEW p, p = free_pair,
           torn' = (torn \/ InGame(w)),
           pairs' = [pairs EXCEPT ![p] = [o |-> i, x |-> w]],
           clients' = [clients EXCEPT ![i].pair_id = p, ![w].pair_id = p],
           ServerSends(<<Letter(At(clients, w), Datagram("symbol", "X", None, None)),
                         Letter(request.from, Datagram("symbol", "O", None, None))>>)
    PROVE  GamesSound'
<1> DEFINE f == request.from
           a == clients[w].name
           X == Datagram("symbol", "X", None, None)
           O == Datagram("symbol", "O", None, None)
<1>1. /\ registering = None /\ UNCHANGED <<inbox, clientVars, pc, client_id, symbol, board>>
      /\ request # None /\ request.msg.kind = "l" /\ f \in Names
      /\ X \in ClientMail /\ O \in ClientMail /\ X.kind = "symbol" /\ O.kind = "symbol"
  <2>1. registering = None /\ UNCHANGED <<inbox, clientVars, pc, client_id, symbol, board>>
        /\ request # None /\ request.msg.kind = "l"
    BY DEF Handles, clientVars
  <2> QED BY <2>1, RequestThere, Datagrams DEF Datagram, Symbols
<1>2. /\ clients \in [Slots -> [name : Names \cup {None}, active : BOOLEAN, pair_id : Pairs \cup {-1}]]
      /\ pairs \in [Pairs -> [o : Slots \cup {-1}, x : Slots \cup {-1}]]
      /\ w \in Slots
  BY DEF Typed, TypeOK
<1>3. i \in Slots /\ clients[i].name = None
  <2>1. clients_number = Cardinality(Registered)
    <3>1. Registered \cup ({registering} \ {None}) = Registered
      BY <1>1
    <3> QED BY <3>1 DEF AllSound, TableSound
  <2> QED BY <2>1, Places, SlotFree
<1>4. p \in Pairs /\ pairs[p].x = -1 /\ pairs[p].o = -1
  <2>1. p \in Pairs /\ pairs[p].x = -1
    BY Places
  <2> QED BY <2>1 DEF GamesSound, PairsSound
<1>5. ~InGame(i) /\ ~InGame(w)
  BY <1>1, <1>3, Constants DEF GamesSound, PairsSound
<1>6. -1 \notin Slots /\ p # -1 /\ None \notin Names
  BY <1>4, Constants
<1>7. a \in Names /\ w # i
  <2>1. At(clients, w) = a
    BY <1>2, <1>6 DEF At
  <2> DEFINE letters == <<Letter(a, X), Letter(f, O)>>
  <2>2. DOMAIN letters = {1, 2} /\ letters[1] = Letter(a, X) /\ letters[2] = Letter(f, O)
    BY LettersAre
  <2>3. ServerSends(letters)
    BY <2>1
  <2> HIDE DEF letters, X, O
  <2>4. /\ DOMAIN letters \subseteq 0 .. 2 /\ 2 \in Nat
        /\ \A l \in DOMAIN letters : letters[l].msg \in ClientMail
    BY <1>1, <2>2 DEF Letter
  <2>5. AllReachable(letters)
    BY <2>3, <2>4, ServerGoesOn
  <2>6. a # None
    BY <2>2, <2>5 DEF AllReachable, Reachable, Letter
  <2>7. a \in Names \cup {None}
    BY <1>2
  <2> QED BY <1>3, <2>6, <2>7
<1>8. \A j \in Slots : clients[j].name # f
  BY <1>1 DEF AllSound, RequestsSound, Sound, InTable
<1>9. \A n \in Names :
         /\ Longer(mail[n], mail'[n]) /\ Len(mail'[n]) <= Len(mail[n]) + 1
         /\ \A k \in 1 .. Len(mail'[n]) : k > Len(mail[n]) =>
              (n = a /\ mail'[n][k] = X) \/ (n = f /\ mail'[n][k] = O)
  <2>1. At(clients, w) = a /\ a # f
    BY <1>2, <1>6, <1>8 DEF At
  <2>2. ServerSends(<<Letter(a, X), Letter(f, O)>>)
    BY <2>1
  <2> HIDE DEF a, f, X, O
  <2> QED BY <1>1, <1>7, <2>1, <2>2, TwoLetters
<1> HIDE DEF f, X, O
<1>10. /\ \A j \in Slots : clients'[j].name = clients[j].name
       /\ \A j \in {i, w} : clients'[j].pair_id = p
       /\ \A j \in Slots : j \notin {i, w} => clients'[j].pair_id = clients[j].pair_id
  <2> DEFINE one == [clients EXCEPT ![i].pair_id = p]
  <2>1. clients' = [one EXCEPT ![w].pair_id = p]
    OBVIOUS
  <2>2. /\ DOMAIN one = Slots /\ \A j \in Slots : one[j].name = clients[j].name
        /\ one[i].pair_id = p /\ \A j \in Slots : j # i => one[j] = clients[j]
        /\ \A j \in Slots : "pair_id" \in DOMAIN one[j] /\ "name" \in DOMAIN one[j]
    BY <1>2, <1>3
  <2> HIDE DEF one
  <2>3. \A j \in Slots : clients'[j] = IF j = w THEN [one[j] EXCEPT !.pair_id = p] ELSE one[j]
    BY <1>2, <2>1, <2>2
  <2>4. ASSUME NEW j \in Slots PROVE clients'[j].name = one[j].name
    <3>1. clients'[j] = one[j] \/ clients'[j] = [one[j] EXCEPT !.pair_id = p]
      BY <2>3
    <3>2. [one[j] EXCEPT !.pair_id = p].name = one[j].name
      BY <2>2
    <3> QED BY <3>1, <3>2
  <2>5. clients'[w].pair_id = p /\ \A j \in Slots : j # w => clients'[j].pair_id = one[j].pair_id
    BY <1>2, <2>2, <2>3
  <2> QED BY <1>2, <1>3, <2>2, <2>4, <2>5
<1>11. /\ pairs'[p].x = w /\ pairs'[p].o = i
       /\ \A q \in Pairs : q # p => pairs'[q] = pairs[q]
  BY <1>2, <1>4
<1> HIDE DEF a
<1>12. /\ \A j \in {i, w} : InGame(j)'
       /\ \A j \in Slots : j \notin {i, w} => (InGame(j)' <=> InGame(j))
       /\ \A j \in Slots : /\ InGame(j) => InGame(j)'
                           /\ Seated(j) => Seated(j)'
  <2>1. \A j \in {i, w} : InGame(j)'
    BY <1>6, <1>10, <1>11 DEF InGame
  <2>2. ASSUME NEW j \in Slots, j \notin {i, w} PROVE InGame(j)' <=> InGame(j)
    <3>1. clients'[j].pair_id = clients[j].pair_id /\ clients[j].pair_id \in Pairs \cup {-1} /\ j # -1
      BY <1>2, <1>6, <1>10, <2>2
    <3>2. CASE clients[j].pair_id = -1
      BY <3>1, <3>2 DEF InGame
    <3>3. CASE clients[j].pair_id = p
      BY <1>4, <1>11, <2>2, <3>1, <3>3 DEF InGame
    <3>4. CASE clients[j].pair_id \in Pairs /\ clients[j].pair_id # p
      <4>1. pairs'[clients[j].pair_id] = pairs[clients[j].pair_id]
        BY <1>11, <3>4
      <4> QED BY <3>1, <4>1 DEF InGame
    <3> QED BY <3>1, <3>2, <3>3, <3>4
  <2>3. ASSUME NEW j \in Slots PROVE (InGame(j) => InGame(j)') /\ (Seated(j) => Seated(j)')
    BY <1>10, <2>1, <2>2 DEF Seated
  <2> QED BY <2>1, <2>2, <2>3
<1>13. \A c \in Clients, j \in Slots :
          /\ Sits(c, j) <=> clients[j].name = client_name[c]
          /\ Sits(c, j)' <=> (clients[j].name = client_name[c] \/ (j = i /\ client_name[c] = f))
  <2>1. registering' = i
    OBVIOUS
  <2> QED BY <1>1, <1>3, <1>10, <2>1, Constants DEF Sits, f
<1>14. \A j, l \in Slots : clients[j].name = clients[l].name /\ clients[j].name # None => j = l
  BY DEF AllSound, TableSound, Registered
<1>15. \A c \in Clients : /\ client_name[c] \in Names /\ client_name[c] # None
                          /\ Alive(c)' <=> Alive(c)
                          /\ Engaged(c)' => Engaged(c)
  BY <1>1, <1>9, Constants, EngagedBefore DEF Alive
<1>16. clients[w].name = a /\ \A j \in Slots : clients[j].name = a => j = w
  BY <1>2, <1>6, <1>7, <1>14 DEF a
<1>17. PairsSound'
  <2>1. PairsSound
    BY DEF GamesSound
  <2>2. ASSUME NEW q \in Pairs, q # p, pairs[q].x # -1
        PROVE  /\ pairs[q].o \in Slots /\ pairs[q].x # pairs[q].o
               /\ clients'[pairs[q].x].pair_id = q <=> clients'[pairs[q].o].pair_id = q
    <3>1. /\ pairs[q].o \in Slots /\ pairs[q].x \in Slots /\ pairs[q].x # pairs[q].o
          /\ clients[pairs[q].x].pair_id = q <=> clients[pairs[q].o].pair_id = q
      BY <1>2, <2>1, <2>2 DEF PairsSound
    <3>2. ASSUME NEW j \in {pairs[q].x, pairs[q].o} PROVE clients'[j].pair_id = q <=> clients[j].pair_id = q
      <4>1. CASE j \in {i, w}
        <5>1. clients[j].pair_id # q
          <6>1. q # -1
            BY Constants
          <6> QED BY <1>5, <3>2, <4>1, <6>1 DEF InGame
        <5> QED BY <1>10, <2>2, <4>1, <5>1
      <4>2. CASE j \notin {i, w}
        BY <1>10, <3>1, <4>2
      <4> QED BY <4>1, <4>2
    <3> QED BY <3>1, <3>2
  <2>3. ASSUME NEW q \in Pairs, pairs'[q].x # -1
        PROVE  /\ pairs'[q].o \in Slots /\ pairs'[q].x # pairs'[q].o
               /\ clients'[pairs'[q].x].pair_id = q <=> clients'[pairs'[q].o].pair_id = q
    <3>1. CASE q = p
      BY <1>3, <1>7, <1>10, <1>11, <3>1
    <3>2. CASE q # p
      BY <1>11, <2>2, <2>3, <3>2
    <3> QED BY <3>1, <3>2
  <2>4. ASSUME NEW q \in Pairs, pairs'[q].x = -1 PROVE pairs'[q].o = -1
    <3>1. q # p
      BY <1>2, <1>6, <1>11, <2>4
    <3> QED BY <1>11, <2>1, <2>4, <3>1 DEF PairsSound
  <2>5. ASSUME NEW j \in Slots, clients'[j].name = None, registering' # j PROVE ~InGame(j)'
    <3>1. j # i /\ j # w /\ clients[j].name = None
      BY <1>6, <1>7, <1>10, <1>16, <2>5
    <3>2. ~InGame(j)
      BY <1>1, <2>1, <3>1, Constants DEF PairsSound
    <3> QED BY <1>12, <3>1, <3>2
  <2> QED BY <2>3, <2>4, <2>5 DEF PairsSound
<1>18. SeatsSound'
  <2>1. SeatsSound
    BY DEF GamesSound
  <2>2. ASSUME NEW c \in Clients, Alive(c)' PROVE SeatSound(c)'
    <3> DEFINE n == client_name[c]
    <3>1. SeatSound(c)
      BY <1>15, <2>1, <2>2 DEF SeatsSound
    <3>2. (\E j \in Slots : Sits(c, j) /\ Seated(j)) => \E j \in Slots : Sits(c, j)' /\ Seated(j)'
      BY <1>12, <1>13
    <3>3. ASSUME NEW k \in 1 .. Len(mail'[n]), k > Len(mail[n])
          PROVE  /\ \E j \in Slots : Sits(c, j)' /\ Seated(j)'
                 /\ mail'[n][k] \in Turning => HasId(c, Len(mail[n]))
      <4>1. CASE n = a /\ mail'[n][k] = X
        <5>1. w \in Slots /\ Sits(c, w)' /\ Seated(w)'
          BY <1>2, <1>12, <1>13, <1>16, <4>1 DEF Seated
        <5>2. InTable(n)
          BY <1>2, <1>16, <4>1 DEF InTable
        <5>3. HasId(c, Len(mail[n]))
          BY <1>15, <2>2, <5>2 DEF AllSound, IdsSound
        <5> QED BY <5>1, <5>3
      <4>2. CASE n = f /\ mail'[n][k] = O
        <5>1. i \in Slots /\ Sits(c, i)' /\ Seated(i)'
          BY <1>3, <1>12, <1>13, <4>2 DEF Seated
        <5>2. mail'[n][k] \notin Turning
          BY <4>2 DEF O, Datagram, Turning
        <5> QED BY <5>1, <5>2
      <4> QED BY <1>9, <1>15, <3>3, <4>1, <4>2
    <3>4. Longer(mail[n], mail'[n])
      BY <1>9, <1>15
    <3> QED BY <1>1, <3>1, <3>2, <3>3, <3>4, SeatKept
  <2>3. ASSUME NEW u \in Requests, MoveSound(u) PROVE MoveSound(u)'
    <3>1. u.msg.kind = "move" => u.msg.id \in Slots
      BY DEF Requests
    <3> QED BY <1>10, <1>12, <2>3, <3>1 DEF MoveSound
  <2>4. ASSUME NEW s \in Sockets, NEW l \in 1 .. Len(inbox[s]), NEW u, u = inbox[s][l]
        PROVE  MoveSound(u)'
    <3>1. u \in Requests
      BY <2>4, ElementOfSeq DEF Typed, Mail
    <3> QED BY <2>1, <2>3, <2>4, <3>1 DEF SeatsSound
  <2>5. request' # None => MoveSound(request)'
    BY <1>1 DEF MoveSound
  <2> QED BY <1>1, <2>2, <2>4, <2>5 DEF SeatsSound, MoveSound
<1>19. FreshSound'
  <2>1. FreshSound
    BY DEF GamesSound
  <2>2. ASSUME NEW c \in Clients, Engaged(c)', \A j \in Slots : Sits(c, j)' => ~InGame(j)'
        PROVE  Fresh(c)'
    <3>1. Fresh(c)
      BY <1>12, <1>13, <1>15, <2>1, <2>2 DEF FreshSound
    <3>2. client_name[c] # a
      <4>1. w \in Slots /\ InGame(w)'
        BY <1>2, <1>12
      <4> QED BY <1>13, <1>16, <2>2, <4>1
    <3>3. client_name[c] # f
      <4>1. i \in Slots /\ InGame(i)'
        BY <1>3, <1>12
      <4> QED BY <1>13, <2>2, <4>1
    <3> QED BY <1>1, <1>9, <1>15, <3>1, <3>2, <3>3, FreshKept
  <2> QED BY <1>1, <2>1, <2>2 DEF FreshSound, Blank
<1>20. DuelsSound'
  <2> SUFFICES ASSUME NEW q \in Pairs, pairs'[q].x # -1, clients'[pairs'[q].x].pair_id = q,
                      NEW x \in Clients, NEW o \in Clients,
                      Sits(x, pairs[q].x)', Sits(o, pairs[q].o)', Engaged(x)', Engaged(o)'
               PROVE  Duel(x, o, "X", "O")'
    BY DEF DuelsSound
  <2>1. client_name[x] \in Names /\ client_name[o] \in Names /\ Engaged(x) /\ Engaged(o)
    BY <1>15
  <2>2. CASE q = p
    <3>1. client_name[x] = a
      <4>1. Sits(x, w)' /\ w \in Slots
        BY <1>2, <1>11, <2>2
      <4> QED BY <1>7, <1>13, <1>16, <4>1
    <3>2. client_name[o] = f
      <4>1. Sits(o, i)' /\ i \in Slots
        BY <1>3, <1>11, <2>2
      <4> QED BY <1>3, <1>13, <1>15, <4>1
    <3>3. Fresh(x)
      <4>1. \A j \in Slots : Sits(x, j) => ~InGame(j)
        BY <1>5, <1>13, <1>16, <3>1
      <4> QED BY <2>1, <4>1 DEF GamesSound, FreshSound
    <3>4. Fresh(o)
      <4>1. \A j \in Slots : ~Sits(o, j)
        BY <1>8, <1>13, <3>2 DEF f
      <4> QED BY <2>1, <4>1 DEF GamesSound, FreshSound
    <3>5. a # f
      BY <1>2, <1>8, <1>16 DEF f
    <3> QED BY <1>1, <1>9, <2>1, <3>1, <3>2, <3>3, <3>4, <3>5, NewDuel DEF X, O
  <2>3. CASE q # p
    <3>1. pairs'[q] = pairs[q] /\ pairs[q].x \in Slots
      BY <1>2, <1>11, <2>3
    <3>2. pairs[q].x \notin {i, w} /\ clients[pairs[q].x].pair_id = q
      BY <1>10, <2>3, <3>1
    <3>3. pairs[q].o \in Slots /\ clients[pairs[q].o].pair_id = q
      BY <3>1, <3>2 DEF GamesSound, PairsSound
    <3>4. pairs[q].o \notin {i, w}
      <4>1. InGame(pairs[q].o)
        <5>1. q # -1
          BY Constants
        <5> QED BY <3>3, <5>1 DEF InGame
      <4> QED BY <1>5, <4>1
    <3>5. /\ clients[pairs[q].x].name = client_name[x] /\ clients[pairs[q].o].name = client_name[o]
          /\ Sits(x, pairs[q].x) /\ Sits(o, pairs[q].o)
      <4>1. Sits(x, pairs[q].x)' <=> (clients[pairs[q].x].name = client_name[x] \/ (pairs[q].x = i /\ client_name[x] = f))
        BY <1>13, <3>1, <3>1 DEF Sits
      <4>2. Sits(o, pairs[q].o)' <=> (clients[pairs[q].o].name = client_name[o] \/ (pairs[q].o = i /\ client_name[o] = f))
        BY <1>13, <3>1, <3>3 DEF Sits
      <4> QED BY <1>13, <3>1, <3>2, <3>3, <3>4, <4>1, <4>2
    <3>6. Duel(x, o, "X", "O")
      BY <2>1, <3>1, <3>2, <3>5 DEF GamesSound, DuelsSound
    <3>7. client_name[x] \notin {a, f} /\ client_name[o] \notin {a, f}
      BY <1>8, <1>16, <3>1, <3>2, <3>3, <3>4, <3>5 DEF f
    <3>8. \A e \in {x, o} :
             /\ Longer(mail[client_name[e]], mail'[client_name[e]])
             /\ \A l \in 1 .. Len(mail'[client_name[e]]) : ~(l > Len(mail[client_name[e]]))
      BY <1>9, <2>1, <3>7
    <3>9. MovesFrom(x, o)' = MovesFrom(x, o) /\ MovesFrom(o, x)' = MovesFrom(o, x)
      BY <1>1, <3>8, MovesStay
    <3> QED BY <1>1, <3>6, <3>8, <3>9, DuelStays
  <2> QED BY <2>2, <2>3
<1> QED BY <1>17, <1>18, <1>19, <1>20 DEF GamesSound

LEMMA RegisterGames ==
    ASSUME Typed, Typed', AllSound, GamesSound, server' = "up", ~torn', Register
    PROVE  GamesSound'
<1>1. Handles({"l"})
  BY DEF Register
<1>2. ASSUME NEW kind \in {"too_many", "in_use"}, Refuse(kind) PROVE GamesSound'
  BY <1>1, <1>2, RefuseGames
<1>3. CASE clients_number < MAX_CLIENTS /\ ping = MAX_CLIENTS /\ ~in_use
  <2>1. /\ registering' = free_place /\ pair_up /\ UNCHANGED request
    <3>1. ~(clients_number >= MAX_CLIENTS)
      BY <1>3, Constants DEF Typed, TypeOK
    <3> QED BY <1>3, <3>1 DEF Register
  <2>2. CASE clients_number' % 2 = 1 \/ \A p \in Pairs : pairs[p].x # -1
    <3>1. /\ UNCHANGED <<clients, pairs>>
          /\ ServerSends(<<Letter(request.from, Plain("waiting"))>>) \/ UNCHANGED <<mail, server>>
      BY <2>1, <2>2 DEF pair_up
    <3> QED BY <1>1, <1>3, <2>1, <3>1, SeatGames
  <2>3. CASE clients_number' % 2 # 1 /\ \E p \in Pairs : pairs[p].x = -1
    <3>1. /\ torn' = (torn \/ InGame(waiting_for_pair))
          /\ pairs' = [pairs EXCEPT ![free_pair] = [o |-> free_place, x |-> waiting_for_pair]]
          /\ clients' = [clients EXCEPT ![free_place].pair_id = free_pair,
                                        ![waiting_for_pair].pair_id = free_pair]
          /\ ServerSends(<<Letter(At(clients, waiting_for_pair), Datagram("symbol", "X", None, None)),
                           Letter(request.from, Datagram("symbol", "O", None, None))>>)
      BY <2>1, <2>3 DEF pair_up
    <3> QED BY <1>1, <1>3, <2>1, <2>3, <3>1, PairGames
  <2> QED BY <2>2, <2>3
<1> QED BY <1>2, <1>3 DEF Register

\* A client is taken from the table; when it played, its game is over.
LEMMA RemoveGames ==
    ASSUME Typed, Typed', AllSound, GamesSound, server' = "up", ~torn', Remove
    PROVE  GamesSound'
<1> DEFINE i == request.msg.id
           p == clients[i].pair_id
           other == IF pairs[p].o = i THEN pairs[p].x ELSE pairs[p].o
           G == IF p = -1 THEN {} ELSE {i, other}
           f == request.from
<1>1. /\ registering = None /\ request # None /\ request.msg.kind = "over" /\ request' = None
      /\ UNCHANGED <<inbox, clientVars, pc, client_id, symbol, board, pairs, registering>>
  BY DEF Remove, Handles, Handled, clientVars
<1>2. /\ clients \in [Slots -> [name : Names \cup {None}, active : BOOLEAN, pair_id : Pairs \cup {-1}]]
      /\ pairs \in [Pairs -> [o : Slots \cup {-1}, x : Slots \cup {-1}]]
      /\ i \in Slots /\ f \in Names /\ -1 \notin Slots /\ -1 \notin Pairs
  <2>1. i \in Slots /\ f \in Names
    BY <1>1, RequestThere
  <2> QED BY <2>1, Constants DEF Typed, TypeOK
<1>3. clients[i].name = f /\ ~Bound(f)
  BY <1>1 DEF AllSound, RequestsSound, Sound
<1>4. p # -1 => /\ p \in Pairs /\ i \in {pairs[p].o, pairs[p].x}
                /\ pairs[p].o \in Slots /\ pairs[p].x \in Slots /\ pairs[p].x # pairs[p].o
                /\ clients[pairs[p].x].pair_id = p /\ clients[pairs[p].o].pair_id = p
                /\ other \in Slots /\ other # i /\ {i, other} = {pairs[p].o, pairs[p].x}
  <2> SUFFICES ASSUME p # -1
               PROVE  /\ p \in Pairs /\ i \in {pairs[p].o, pairs[p].x}
                      /\ pairs[p].o \in Slots /\ pairs[p].x \in Slots /\ pairs[p].x # pairs[p].o
                      /\ clients[pairs[p].x].pair_id = p /\ clients[pairs[p].o].pair_id = p
    OBVIOUS
  <2>1. InGame(i)
    <3>1. torn' = (torn \/ (p # -1 /\ ~InGame(i)))
      BY DEF Remove
    <3> HIDE DEF p, i
    <3> QED BY <3>1
  <2>2. p \in Pairs /\ i \in {pairs[p].o, pairs[p].x}
    BY <1>2, <2>1 DEF InGame
  <2>3. PairsSound
    BY DEF GamesSound
  <2>4. pairs[p].x # -1
    <3>1. pairs[p].x = -1 => pairs[p].o = -1
      BY <2>2, <2>3 DEF PairsSound
    <3> QED BY <1>2, <2>2, <3>1
  <2>5. pairs[p].x \in Slots
    BY <1>2, <2>2, <2>4
  <2> QED BY <2>2, <2>3, <2>4, <2>5 DEF PairsSound
<1>5. \A j \in Slots : /\ clients'[j].name = IF j = i THEN None ELSE clients[j].name
                       /\ clients'[j].pair_id = IF j \in G THEN -1 ELSE clients[j].pair_id
  <2>1. clients' = [j \in Slots |->
                      [clients[j] EXCEPT
                          !.name = IF j = i THEN None ELSE @,
                          !.pair_id = IF clients[i].pair_id # -1 /\ j \in {i, other}
                                      THEN -1 ELSE @]]
    BY DEF Remove
  <2>2. \A j \in Slots : "pair_id" \in DOMAIN clients[j] /\ "name" \in DOMAIN clients[j]
    BY <1>2
  <2> HIDE DEF i, other
  <2>3. ASSUME NEW j \in Slots
        PROVE  /\ clients'[j].name = IF j = i THEN None ELSE clients[j].name
               /\ clients'[j].pair_id = IF j \in G THEN -1 ELSE clients[j].pair_id
    <3>1. clients'[j] = [clients[j] EXCEPT
                          !.name = IF j = i THEN None ELSE @,
                          !.pair_id = IF p # -1 /\ j \in {i, other} THEN -1 ELSE @]
      BY <2>1
    <3>2. p # -1 /\ j \in {i, other} <=> j \in G
      OBVIOUS
    <3> HIDE DEF p, G
    <3> QED BY <2>2, <3>1, <3>2
  <2> QED BY <2>3
<1>6. /\ p = -1 => UNCHANGED <<mail, server>>
      /\ p # -1 => ServerSends(<<Letter(clients[other].name, Plain("end"))>>)
  <2>1. IF p = -1 THEN UNCHANGED <<mail, server>>
        ELSE ServerSends(<<Letter(At(clients', other), Plain("end"))>>)
    BY DEF Remove
  <2>2. p # -1 => At(clients', other) = clients[other].name
    BY <1>2, <1>4, <1>5 DEF At
  <2> HIDE DEF p, other
  <2> QED BY <2>1, <2>2
<1> HIDE DEF other, f
<1>7. /\ Plain("end") \in ClientMail /\ Plain("end").kind = "end"
      /\ \A n \in Names :
           /\ Longer(mail[n], mail'[n])
           /\ \A k \in 1 .. Len(mail'[n]) : k > Len(mail[n]) => mail'[n][k] = Plain("end")
           /\ p # -1 /\ n = clients[other].name /\ Bound(n) => Len(mail'[n]) > Len(mail[n])
  <2>1. Plain("end") \in ClientMail /\ Plain("end").kind = "end"
    BY Datagrams DEF Plain, Datagram
  <2> HIDE DEF p
  <2>2. CASE p = -1
    BY <1>6, <2>1, <2>2, MailStays
  <2>3. CASE p # -1
    BY <1>6, <2>1, <2>3, OneLetter
  <2> QED BY <2>1, <2>2, <2>3
<1>8. \A j \in Slots : /\ j \in G => ~InGame(j)' /\ Seated(j)'
                       /\ j \notin G => (InGame(j)' <=> InGame(j)) /\ (Seated(j)' <=> Seated(j))
  BY <1>1, <1>5 DEF InGame, Seated
<1>9. ASSUME NEW j \in Slots, j = i PROVE ~InGame(j)'
  <2>1. CASE p = -1
    BY <1>5, <1>9, <2>1 DEF InGame
  <2>2. CASE p # -1
    BY <1>8, <1>9, <2>2
  <2> QED BY <2>1, <2>2
<1>10. \A c \in Clients : /\ client_name[c] \in Names /\ client_name[c] # None
                          /\ Alive(c)' <=> Alive(c)
                          /\ Alive(c) => client_name[c] # f /\ Bound(client_name[c])
                          /\ Engaged(c)' => Engaged(c)
  BY <1>1, <1>3, <1>7, Constants, EngagedBefore DEF Alive, Bound
<1>11. \A c \in Clients, j \in Slots :
          /\ Sits(c, j) <=> clients[j].name = client_name[c]
          /\ Alive(c) => (Sits(c, j)' <=> Sits(c, j))
          /\ Alive(c) /\ Sits(c, j) => j # i
  BY <1>1, <1>3, <1>5, <1>10, Constants DEF Sits
<1>12. \A j \in G : /\ clients[j].pair_id = p /\ j \in Slots /\ p # -1 /\ p \in Pairs
                    /\ j = i \/ j = other
  BY <1>2, <1>4
<1>13. PairsSound'
  <2>1. PairsSound
    BY DEF GamesSound
  <2>2. ASSUME NEW q \in Pairs, pairs[q].x # -1
        PROVE  clients'[pairs[q].x].pair_id = q <=> clients'[pairs[q].o].pair_id = q
    <3>1. /\ pairs[q].x \in Slots /\ pairs[q].o \in Slots /\ q # -1
          /\ clients[pairs[q].x].pair_id = q <=> clients[pairs[q].o].pair_id = q
      BY <1>2, <2>1, <2>2 DEF PairsSound
    <3>2. CASE p # -1 /\ q = p
      BY <1>4, <1>5, <3>1, <3>2
    <3>3. CASE ~(p # -1 /\ q = p)
      <4> HIDE DEF G, p
      <4>1. \A j \in Slots : clients'[j].pair_id = q <=> clients[j].pair_id = q
        BY <1>5, <1>12, <3>1, <3>3
      <4> QED BY <3>1, <4>1
    <3> QED BY <3>2, <3>3
  <2>3. ASSUME NEW j \in Slots, clients'[j].name = None, registering' # j PROVE ~InGame(j)'
    <3>1. CASE j = i
      BY <1>9, <3>1
    <3>2. CASE j # i
      <4>1. ~InGame(j)
        BY <1>1, <1>5, <2>1, <2>3, <3>2 DEF PairsSound
      <4> QED BY <1>8, <4>1
    <3> QED BY <3>1, <3>2
  <2> QED BY <1>1, <2>1, <2>2, <2>3 DEF PairsSound
<1> HIDE DEF i, p, G
<1>14. SeatsSound'
  <2>1. SeatsSound
    BY DEF GamesSound
  <2>2. ASSUME NEW c \in Clients, Alive(c)' PROVE SeatSound(c)'
    <3>1. SeatSound(c)
      BY <1>10, <2>1, <2>2 DEF SeatsSound
    <3>2. (\E j \in Slots : Sits(c, j) /\ Seated(j)) => \E j \in Slots : Sits(c, j)' /\ Seated(j)'
      BY <1>8, <1>10, <1>11, <2>2
    <3>3. \A k \in 1 .. Len(mail'[client_name[c]]) : k > Len(mail[client_name[c]]) =>
             mail'[client_name[c]][k].kind # "symbol" /\ mail'[client_name[c]][k] \notin Turning
      BY <1>7, <1>10 DEF Turning
    <3>4. Longer(mail[client_name[c]], mail'[client_name[c]])
      BY <1>7, <1>10
    <3> QED BY <1>1, <3>1, <3>2, <3>3, <3>4, SeatKept
  <2>3. ASSUME NEW s \in Sockets, NEW l \in 1 .. Len(inbox[s]), NEW u, u = inbox[s][l]
        PROVE  MoveSound(u)'
    <3>1. u \in Requests
      BY <2>3, ElementOfSeq DEF Typed, Mail
    <3>2. MoveSound(u)
      BY <2>1, <2>3 DEF SeatsSound
    <3>3. u.from # f
      BY <1>1, <2>3 DEF AllSound, RequestsSound, InTurn, f
    <3>4. CASE u.msg.kind = "move"
      <4>1. u.msg.id \in Slots /\ clients[u.msg.id].name = u.from /\ Seated(u.msg.id)
        BY <3>1, <3>2, <3>4 DEF MoveSound, Requests
      <4>2. u.msg.id # i
        BY <1>3, <3>3, <4>1
      <4>3. clients'[u.msg.id].name = u.from /\ Seated(u.msg.id)'
        BY <1>5, <1>8, <4>1, <4>2
      <4> QED BY <4>3 DEF MoveSound
    <3> QED BY <3>4 DEF MoveSound
  <2> QED BY <1>1, <2>2, <2>3 DEF SeatsSound, MoveSound
<1>15. FreshSound'
  <2>1. FreshSound
    BY DEF GamesSound
  <2>2. ASSUME NEW c \in Clients, Engaged(c)', \A j \in Slots : Sits(c, j)' => ~InGame(j)'
        PROVE  Fresh(c)'
    <3> DEFINE n == client_name[c]
    <3>1. Alive(c) /\ Engaged(c) /\ n \in Names /\ Bound(n)
      BY <1>10, <2>2 DEF Engaged
    <3>2. ASSUME NEW j \in Slots, Sits(c, j), InGame(j) PROVE FALSE
      <4>1. j \in G
        BY <1>8, <1>11, <2>2, <3>1, <3>2
      <4>2. p # -1 /\ n = clients[other].name
        BY <1>11, <1>12, <3>1, <3>2, <4>1
      <4>3. Len(mail'[n]) > Len(mail[n]) /\ Longer(mail[n], mail'[n])
        BY <1>7, <3>1, <4>2
      <4>4. Len(mail'[n]) \in 1 .. Len(mail'[n])
        BY <3>1, <4>3, GrownMail
      <4>5. mail'[n][Len(mail'[n])].kind = "end"
        BY <1>7, <3>1, <4>3, <4>4
      <4> QED BY <2>2, <4>4, <4>5 DEF Engaged
    <3>3. Fresh(c)
      BY <2>1, <3>1, <3>2 DEF FreshSound
    <3> QED BY <1>1, <1>7, <3>1, <3>3, FreshKept
  <2> QED BY <1>1, <2>1, <2>2 DEF FreshSound, Blank
<1>16. DuelsSound'
  <2> SUFFICES ASSUME NEW q \in Pairs, pairs[q].x # -1, clients'[pairs[q].x].pair_id = q,
                      NEW x \in Clients, NEW o \in Clients,
                      Sits(x, pairs[q].x), Sits(o, pairs[q].o), Engaged(x)', Engaged(o)'
               PROVE  Duel(x, o, "X", "O")'
    <3>1. \A q \in Pairs : pairs[q].x # -1 => pairs[q].x \in Slots /\ pairs[q].o \in Slots
      BY <1>2 DEF GamesSound, PairsSound
    <3>2. \A c \in Clients, j \in Slots : Engaged(c)' /\ Sits(c, j)' => Sits(c, j)
      BY <1>10, <1>11 DEF Engaged
    <3> QED BY <1>1, <3>1, <3>2 DEF DuelsSound
  <2>1. /\ client_name[x] \in Names /\ client_name[o] \in Names
        /\ Engaged(x) /\ Engaged(o) /\ Alive(x) /\ Alive(o)
    BY <1>10 DEF Engaged
  <2>2. pairs[q].x \in Slots /\ pairs[q].o \in Slots
    BY <1>2 DEF GamesSound, PairsSound
  <2>3. clients[pairs[q].x].pair_id = q
    BY <1>2, <1>5, <2>2
  <2>4. Duel(x, o, "X", "O")
    BY <2>1, <2>3 DEF GamesSound, DuelsSound
  <2>5. \A e \in {x, o} :
             /\ Longer(mail[client_name[e]], mail'[client_name[e]])
             /\ \A l \in 1 .. Len(mail'[client_name[e]]) :
                  l > Len(mail[client_name[e]]) => mail'[client_name[e]][l].kind \notin {"symbol", "move"}
    BY <1>7, <2>1
  <2>6. MovesFrom(x, o)' = MovesFrom(x, o) /\ MovesFrom(o, x)' = MovesFrom(o, x)
    BY <1>1, <2>5, MovesStay
  <2> QED BY <1>1, <2>4, <2>5, <2>6, DuelStays
<1> QED BY <1>13, <1>14, <1>15, <1>16 DEF GamesSound

-----------------------------------------------------------------------------
(* Games and the steps of the clients *)

\* The server's sockets may have got v of client c.
Added(c, v) == UNCHANGED inbox \/ inbox' = [inbox EXCEPT ![Socket(c)] = Append(@, v)]

\* A step of client c, which may send v; other clients alive have other names.
ClientStep(c, v) ==
    /\ UNCHANGED <<clients, pairs, registering, request>>
    /\ v \in Requests /\ v.from = client_name[c] /\ Added(c, v)
    /\ \A m \in Names : m # client_name[c] => mail'[m] = mail[m]
    /\ \A d \in Clients : d # c =>
         /\ pc'[d] = pc[d] /\ client_id'[d] = client_id[d]
         /\ symbol'[d] = symbol[d] /\ board'[d] = board[d]
         /\ Alive(d) => client_name[d] # client_name[c]

\* It has read its first r letters, none or one.
Takes(c, r) ==
    /\ r \in {0, 1} /\ Len(mail[client_name[c]]) = Len(mail'[client_name[c]]) + r
    /\ \A k \in 1 .. Len(mail'[client_name[c]]) : mail'[client_name[c]][k] = mail[client_name[c]][k + r]

LEMMA AddedIs ==
    ASSUME Typed, NEW c \in Clients, NEW v \in Requests, Added(c, v)
    PROVE  /\ \A s \in Sockets :
                /\ Len(inbox[s]) \in Nat /\ Len(inbox'[s]) \in Nat
                /\ Longer(inbox[s], inbox'[s]) /\ Len(inbox'[s]) <= Len(inbox[s]) + 1
                /\ DOMAIN inbox[s] = 1 .. Len(inbox[s]) /\ DOMAIN inbox'[s] = 1 .. Len(inbox'[s])
                /\ \A k \in 1 .. Len(inbox[s]) : k \in 1 .. Len(inbox'[s]) /\ inbox'[s][k] = inbox[s][k]
                /\ \A k \in 1 .. Len(inbox'[s]) :
                     \/ k \in 1 .. Len(inbox[s]) /\ inbox'[s][k] = inbox[s][k]
                     \/ k > Len(inbox[s]) /\ s = Socket(c) /\ inbox'[s][k] = v
           /\ UNCHANGED inbox \/ \E k \in 1 .. Len(inbox'[Socket(c)]) : inbox'[Socket(c)][k] = v
           /\ Socket(c) \in Sockets
<1>1. inbox \in [Sockets -> Seq(Requests)] /\ Socket(c) \in Sockets
  BY DEF Typed, Mail, Socket, Sockets
<1>2. \A s \in Sockets : Len(inbox[s]) \in Nat /\ DOMAIN inbox[s] = 1 .. Len(inbox[s])
  BY <1>1, LenProperties
<1>3. CASE UNCHANGED inbox
  BY <1>1, <1>2, <1>3 DEF Longer
<1>4. CASE inbox' = [inbox EXCEPT ![Socket(c)] = Append(@, v)]
  <2> DEFINE q == inbox[Socket(c)]
             b == inbox'[Socket(c)]
  <2>1. q \in Seq(Requests) /\ b = Append(q, v)
    BY <1>1, <1>4
  <2>2. \A s \in Sockets : s # Socket(c) => inbox'[s] = inbox[s]
    BY <1>1, <1>4
  <2> HIDE DEF q, b
  <2>3. /\ Len(b) = Len(q) + 1 /\ Len(q) \in Nat /\ b[Len(q) + 1] = v /\ DOMAIN b = 1 .. Len(q) + 1
        /\ \A i \in 1 .. Len(q) : b[i] = q[i]
    <3>1. b \in Seq(Requests)
      BY <2>1, AppendProperties
    <3>2. Len(b) = Len(q) + 1 /\ Len(q) \in Nat /\ b[Len(q) + 1] = v /\ \A i \in 1 .. Len(q) : b[i] = q[i]
      BY <2>1, AppendProperties, LenProperties
    <3> QED BY <3>1, <3>2, LenProperties
  <2>4. /\ \A k \in 1 .. Len(q) : k \in 1 .. Len(b)
        /\ \A k \in 1 .. Len(b) : k \in 1 .. Len(q) \/ (k = Len(q) + 1 /\ k > Len(q))
        /\ Len(q) + 1 \in 1 .. Len(b) /\ Len(b) \in Nat /\ Len(b) <= Len(q) + 1 /\ Len(q) <= Len(b)
    BY <2>3
  <2>5. \A s \in Sockets : s = Socket(c) => inbox[s] = q /\ inbox'[s] = b
    BY DEF q, b
  <2>6. ASSUME NEW s \in Sockets
        PROVE  /\ Len(inbox[s]) \in Nat /\ Len(inbox'[s]) \in Nat
               /\ Longer(inbox[s], inbox'[s]) /\ Len(inbox'[s]) <= Len(inbox[s]) + 1
               /\ DOMAIN inbox[s] = 1 .. Len(inbox[s]) /\ DOMAIN inbox'[s] = 1 .. Len(inbox'[s])
               /\ \A k \in 1 .. Len(inbox[s]) : k \in 1 .. Len(inbox'[s]) /\ inbox'[s][k] = inbox[s][k]
               /\ \A k \in 1 .. Len(inbox'[s]) :
                    \/ k \in 1 .. Len(inbox[s]) /\ inbox'[s][k] = inbox[s][k]
                    \/ k > Len(inbox[s]) /\ s = Socket(c) /\ inbox'[s][k] = v
    <3>1. CASE s = Socket(c)
      BY <1>2, <2>3, <2>4, <2>5, <3>1 DEF Longer
    <3>2. CASE s # Socket(c)
      BY <1>2, <2>2, <3>2 DEF Longer
    <3> QED BY <3>1, <3>2
  <2>7. \E k \in 1 .. Len(inbox'[Socket(c)]) : inbox'[Socket(c)][k] = v
    BY <2>3, <2>4 DEF b
  <2> QED BY <1>1, <2>6, <2>7
<1> QED BY <1>3, <1>4 DEF Added

\* What is under way from a name.
LEMMA SentBy ==
    ASSUME Typed, NEW c \in Clients, NEW v, ClientStep(c, v)
    PROVE  \A u : /\ u.from # client_name[c] => (u \in Underway' <=> u \in Underway)
                  /\ u \in Underway => u \in Underway'
                  /\ u \in Underway' => u \in Underway \/ (u = v /\ inbox' # inbox)
                  /\ inbox' # inbox => v \in Underway'
<1>1. /\ v \in Requests /\ v.from = client_name[c] /\ Added(c, v) /\ request' = request
      /\ Socket(c) \in Sockets
  BY DEF ClientStep, Socket, Sockets
<1>2. \A s \in Sockets :
        /\ DOMAIN inbox[s] = 1 .. Len(inbox[s]) /\ DOMAIN inbox'[s] = 1 .. Len(inbox'[s])
        /\ \A k \in 1 .. Len(inbox[s]) : k \in 1 .. Len(inbox'[s]) /\ inbox'[s][k] = inbox[s][k]
        /\ \A k \in 1 .. Len(inbox'[s]) :
             (k \in 1 .. Len(inbox[s]) /\ inbox'[s][k] = inbox[s][k]) \/ inbox'[s][k] = v
  BY <1>1, AddedIs
<1>3. /\ \A u : u \in Underway <=> \/ request # None /\ u = request
                                   \/ \E s \in Sockets : \E k \in 1 .. Len(inbox[s]) : u = inbox[s][k]
      /\ \A u : u \in Underway' <=> \/ request # None /\ u = request
                                    \/ \E s \in Sockets : \E k \in 1 .. Len(inbox'[s]) : u = inbox'[s][k]
  BY <1>1, <1>2 DEF Underway
<1>4. inbox' # inbox => \E k \in 1 .. Len(inbox'[Socket(c)]) : inbox'[Socket(c)][k] = v
  BY <1>1, AddedIs
<1>5. inbox' # inbox => v \in Underway'
  BY <1>1, <1>3, <1>4
<1>6. \A u : u \in Underway => u \in Underway'
  BY <1>2, <1>3
<1>7. \A u : u \in Underway' => u \in Underway \/ (u = v /\ inbox' # inbox)
  <2>1. \A u : u \in Underway' => u \in Underway \/ u = v
    BY <1>2, <1>3
  <2>2. inbox' = inbox => Underway' = Underway
    BY <1>1 DEF Underway
  <2> QED BY <2>1, <2>2
<1> QED BY <1>1, <1>5, <1>6, <1>7

\* What moves there are between two clients, by their mail and by what is under way.
LEMMA MovesBy ==
    ASSUME Typed, Typed', NEW c \in Clients, NEW d \in Clients
    PROVE  /\ \A m : m \in MovesFrom(c, d) <=>
                /\ m.kind = "move"
                /\ \/ \E u : u \in Underway /\ u.from = client_name[c] /\ u.msg = m
                   \/ \E k \in 1 .. Len(mail[client_name[d]]) : mail[client_name[d]][k] = m
           /\ \A m : m \in MovesFrom(c, d)' <=>
                /\ m.kind = "move"
                /\ \/ \E u : u \in Underway' /\ u.from = client_name[c] /\ u.msg = m
                   \/ \E k \in 1 .. Len(mail'[client_name[d]]) : mail'[client_name[d]][k] = m
<1>1. mail[client_name[d]] \in Seq(ClientMail) /\ mail'[client_name[d]] \in Seq(ClientMail)
  BY Constants DEF Typed, Mail
<1>2. /\ DOMAIN mail[client_name[d]] = 1 .. Len(mail[client_name[d]])
      /\ DOMAIN mail'[client_name[d]] = 1 .. Len(mail'[client_name[d]])
  BY <1>1, LenProperties
<1> DEFINE Sent == {r.msg : r \in {u \in Underway : u.from = client_name[c]}}
           Sent2 == {r.msg : r \in {u \in Underway' : u.from = client_name[c]}}
<1>3. /\ \A m : m \in Sent <=> \E u : u \in Underway /\ u.from = client_name[c] /\ u.msg = m
      /\ \A m : m \in Sent2 <=> \E u : u \in Underway' /\ u.from = client_name[c] /\ u.msg = m
  OBVIOUS
<1>4. /\ MovesFrom(c, d) = {m \in Sent \cup {mail[client_name[d]][k] : k \in 1 .. Len(mail[client_name[d]])} : m.kind = "move"}
      /\ MovesFrom(c, d)' = {m \in Sent2 \cup {mail'[client_name[d]][k] : k \in 1 .. Len(mail'[client_name[d]])} : m.kind = "move"}
  BY <1>2 DEF MovesFrom
<1> HIDE DEF Sent, Sent2
<1> QED BY <1>3, <1>4

\* A client's step is none of another's games.
LEMMA OtherClients ==
    ASSUME Typed, Typed', NEW c \in Clients, NEW v, ClientStep(c, v),
           NEW d \in Clients, client_name[d] # client_name[c]
    PROVE  /\ mail'[client_name[d]] = mail[client_name[d]] /\ client_name[d] \in Names /\ d # c
           /\ Hand(d)' = Hand(d) /\ (Alive(d)' <=> Alive(d)) /\ (Engaged(d)' <=> Engaged(d))
           /\ SeatSound(d) => SeatSound(d)'
           /\ Fresh(d) => Fresh(d)'
<1> DEFINE n == client_name[d]
<1>1. /\ UNCHANGED <<clients, pairs, registering, request>>
      /\ v \in Requests /\ v.from = client_name[c] /\ Added(c, v)
      /\ n \in Names /\ d # c /\ mail'[n] = mail[n]
      /\ pc'[d] = pc[d] /\ client_id'[d] = client_id[d]
      /\ symbol'[d] = symbol[d] /\ board'[d] = board[d]
      /\ Socket(d) \in Sockets
  BY Constants DEF ClientStep, Socket, Sockets
<1>2. Count(inbox'[Socket(d)], MovesOf(n)) = Count(inbox[Socket(d)], MovesOf(n))
  <2>1. /\ Len(inbox[Socket(d)]) \in Nat /\ Len(inbox'[Socket(d)]) \in Nat
        /\ Longer(inbox[Socket(d)], inbox'[Socket(d)])
        /\ \A k \in 1 .. Len(inbox'[Socket(d)]) :
              k > Len(inbox[Socket(d)]) => inbox'[Socket(d)][k] = v
    BY <1>1, AddedIs
  <2>2. v \notin MovesOf(n)
    BY <1>1 DEF MovesOf
  <2> QED BY <2>1, <2>2, CountLonger
<1>3. Hand(d)' = Hand(d)
  <2>1. One(Asks(n)') = One(Asks(n))
    BY <1>1 DEF Asks
  <2>2. Hand(d)' = One(pc'[d] = "moving") + Count(mail'[n], Turning)
                 + One(Asks(n)') + Count(inbox'[Socket(d)], MovesOf(n))
    BY HandNext
  <2> QED BY <1>1, <1>2, <2>1, <2>2 DEF Hand
<1>4. \A i : (Seated(i)' <=> Seated(i)) /\ (Sits(d, i)' <=> Sits(d, i))
  BY <1>1 DEF Seated, InGame, Sits
<1>5. SeatSound(d) => SeatSound(d)'
  BY <1>1, <1>4 DEF SeatSound, HasId, Turning
<1>6. Fresh(d) => Fresh(d)'
  BY <1>1, <1>3 DEF Fresh, Blank
<1>7. (Alive(d)' <=> Alive(d)) /\ (Engaged(d)' <=> Engaged(d))
  BY <1>1 DEF Alive, Engaged
<1> QED BY <1>1, <1>3, <1>5, <1>6, <1>7

LEMMA OtherMoves ==
    ASSUME Typed, Typed', NEW c \in Clients, NEW v, ClientStep(c, v),
           NEW d \in Clients, client_name[d] # client_name[c],
           NEW e \in Clients, client_name[e] # client_name[c]
    PROVE  MovesFrom(d, e)' = MovesFrom(d, e)
<1>1. mail'[client_name[e]] = mail[client_name[e]]
  BY OtherClients
<1>2. \A u : u.from = client_name[d] => (u \in Underway' <=> u \in Underway)
  BY SentBy
<1>3. \A m : m \in MovesFrom(d, e)' <=> m \in MovesFrom(d, e)
  BY <1>1, <1>2, MovesBy
<1> QED BY <1>3

\* Who sits in two slots is not one: a name has one slot, one being filled included.
LEMMA SitsOnce ==
    ASSUME Typed, AllSound, NEW c \in Clients, NEW i \in Slots, NEW j \in Slots, Sits(c, i), Sits(c, j)
    PROVE  i = j
<1>1. client_name[c] \in Names /\ client_name[c] # None
  BY Constants
<1>2. \A k, l \in Slots : clients[k].name = client_name[c] /\ clients[l].name = client_name[c] => k = l
  BY <1>1 DEF AllSound, TableSound, Registered
<1>3. registering # None /\ request.from = client_name[c] => \A k \in Slots : clients[k].name # client_name[c]
  BY DEF AllSound, RegistrationSound, RequestsSound, Sound, InTable
<1> QED BY <1>2, <1>3, Constants DEF Sits

\* A client's step is right for all games when it is for those of the client.
LEMMA ClientGames ==
    ASSUME Typed, Typed', AllSound, GamesSound, NEW c \in Clients, NEW v, ClientStep(c, v),
           pc'[c] # "new", MoveSound(v) \/ UNCHANGED inbox,
           Alive(c)' => SeatSound(c)',
           Engaged(c)' =>
             \/ Fresh(c)' /\ \A i \in Slots : ~Sits(c, i)
             \/ /\ Engaged(c) /\ (Fresh(c) => Fresh(c)')
                /\ \A d \in Clients, s, t \in Symbols :
                     s # t /\ client_name[d] # client_name[c] /\ Duel(c, d, s, t) => Duel(c, d, s, t)'
    PROVE  GamesSound'
<1>1. /\ UNCHANGED <<clients, pairs, registering, request>>
      /\ v \in Requests /\ v.from = client_name[c] /\ Added(c, v)
      /\ \A d \in Clients : d # c =>
           /\ pc'[d] = pc[d] /\ symbol'[d] = symbol[d] /\ board'[d] = board[d]
           /\ Alive(d) => client_name[d] # client_name[c]
  BY DEF ClientStep
<1>2. \A i : /\ InGame(i)' <=> InGame(i)
             /\ Seated(i)' <=> Seated(i)
             /\ \A d \in Clients : Sits(d, i)' <=> Sits(d, i)
  BY <1>1 DEF InGame, Seated, Sits
<1>3. \A d \in Clients : d # c /\ Alive(d)' => Alive(d) /\ client_name[d] # client_name[c]
  BY <1>1 DEF Alive
<1>4. PairsSound'
  BY <1>1, <1>2 DEF GamesSound, PairsSound
<1>5. SeatsSound'
  <2>1. SeatsSound
    BY DEF GamesSound
  <2>2. ASSUME NEW d \in Clients, Alive(d)' PROVE SeatSound(d)'
    <3>1. CASE d # c
      BY <1>3, <2>1, <2>2, <3>1, OtherClients DEF SeatsSound
    <3> QED BY <2>2, <3>1
  <2>3. \A u : MoveSound(u) => MoveSound(u)'
    BY <1>1, <1>2 DEF MoveSound
  <2>4. ASSUME NEW s \in Sockets, NEW k \in 1 .. Len(inbox'[s]), NEW u, u = inbox'[s][k]
        PROVE  MoveSound(u)'
    <3>1. CASE UNCHANGED inbox
      BY <2>1, <2>3, <2>4, <3>1 DEF SeatsSound
    <3>2. CASE MoveSound(v)
      <4>1. (k \in 1 .. Len(inbox[s]) /\ u = inbox[s][k]) \/ u = v
        BY <1>1, <2>4, AddedIs
      <4>2. MoveSound(u)
        BY <2>1, <3>2, <4>1 DEF SeatsSound
      <4> QED BY <2>3, <4>2
    <3> QED BY <3>1, <3>2
  <2>5. request' # None => MoveSound(request)'
    BY <1>1, <2>1, <2>3 DEF SeatsSound, MoveSound
  <2> QED BY <2>2, <2>4, <2>5 DEF SeatsSound, MoveSound
<1>6. FreshSound'
  <2>1. FreshSound
    BY DEF GamesSound
  <2>2. ASSUME NEW d \in Clients, Engaged(d)', \A i \in Slots : Sits(d, i)' => ~InGame(i)'
        PROVE  Fresh(d)'
    <3>1. Engaged(d) => Fresh(d)
      BY <1>2, <2>1, <2>2 DEF FreshSound
    <3>2. CASE d # c
      <4>1. client_name[d] # client_name[c]
        BY <1>3, <2>2, <3>2 DEF Engaged
      <4> QED BY <2>2, <3>1, <4>1, OtherClients
    <3>3. CASE d = c
      BY <2>2, <3>1, <3>3
    <3> QED BY <3>2, <3>3
  <2>3. \A d \in Clients : pc'[d] = "new" => Blank(d)'
    BY <1>1, <2>1 DEF FreshSound, Blank
  <2> QED BY <2>2, <2>3 DEF FreshSound
<1>7. DuelsSound'
  <2> SUFFICES ASSUME NEW q \in Pairs, pairs[q].x # -1, clients[pairs[q].x].pair_id = q,
                      NEW x \in Clients, NEW o \in Clients,
                      Sits(x, pairs[q].x), Sits(o, pairs[q].o), Engaged(x)', Engaged(o)'
               PROVE  Duel(x, o, "X", "O")'
    BY <1>1, <1>2 DEF DuelsSound
  <2>1. pairs[q].x \in Slots /\ pairs[q].o \in Slots /\ pairs[q].x # pairs[q].o
    BY DEF GamesSound, PairsSound, Typed, TypeOK
  <2>2. x # o
    BY <2>1, SitsOnce
  <2>3. \A d \in Clients : d # c /\ Engaged(d)' => client_name[d] # client_name[c] /\ Engaged(d)
    BY <1>3, OtherClients DEF Engaged
  <2>4. Engaged(x) /\ Engaged(o) => Duel(x, o, "X", "O")
    BY DEF GamesSound, DuelsSound
  <2>5. CASE x = c
    <3>1. Engaged(c) /\ client_name[o] # client_name[c] /\ Engaged(o)
      BY <2>1, <2>2, <2>3, <2>5
    <3> QED BY <2>4, <2>5, <3>1, <2>1 DEF Symbols
  <2>6. CASE o = c
    <3>1. Engaged(c) /\ client_name[x] # client_name[c] /\ Engaged(x)
      BY <2>1, <2>2, <2>3, <2>6
    <3>2. Duel(o, x, "O", "X")
      BY <2>4, <2>6, <3>1, HandIs, DuelTurned
    <3>3. Duel(o, x, "O", "X")'
      BY <2>1, <2>6, <3>1, <3>2 DEF Symbols
    <3> QED BY <3>3, HandNext, DuelTurned
  <2>7. CASE x # c /\ o # c
    <3>1. client_name[x] # client_name[c] /\ client_name[o] # client_name[c] /\ Duel(x, o, "X", "O")
      BY <2>3, <2>4, <2>7
    <3>2. MovesFrom(x, o)' = MovesFrom(x, o) /\ MovesFrom(o, x)' = MovesFrom(o, x)
      BY <3>1, OtherMoves
    <3>3. /\ Hand(x)' = Hand(x) /\ Hand(o)' = Hand(o)
          /\ mail'[client_name[x]] = mail[client_name[x]] /\ mail'[client_name[o]] = mail[client_name[o]]
      BY <3>1, OtherClients
    <3>4. Side(x, o, "X")' /\ Side(o, x, "O")'
      BY <1>1, <2>7, <3>1, <3>2, <3>3 DEF Duel, Side
    <3> QED BY <1>1, <2>7, <3>1, <3>2, <3>3, <3>4 DEF Duel
  <2> QED BY <2>5, <2>6, <2>7
<1> QED BY <1>4, <1>5, <1>6, <1>7 DEF GamesSound

\* What a client's step takes from its mail.
LEMMA Taken ==
    ASSUME Typed, Typed', NEW c \in Clients, NEW r, Takes(c, r)
    PROVE  /\ Len(mail[client_name[c]]) \in Nat /\ Len(mail'[client_name[c]]) \in Nat
           /\ \A k \in 1 .. Len(mail'[client_name[c]]) :
                /\ k + r \in 1 .. Len(mail[client_name[c]])
                /\ mail'[client_name[c]][k] = mail[client_name[c]][k + r]
           /\ \A k \in 1 .. Len(mail[client_name[c]]) :
                \/ k - r \in 1 .. Len(mail'[client_name[c]]) /\ mail'[client_name[c]][k - r] = mail[client_name[c]][k]
                \/ k = 1 /\ r = 1
           /\ r = 1 => 1 \in 1 .. Len(mail[client_name[c]]) /\ mail[client_name[c]][1] \in ClientMail
<1> DEFINE q == mail[client_name[c]]
           b == mail'[client_name[c]]
<1>1. q \in Seq(ClientMail) /\ b \in Seq(ClientMail)
  BY Constants DEF Typed, Mail
<1>2. Len(q) \in Nat /\ Len(b) \in Nat /\ \A k \in 1 .. Len(q) : q[k] \in ClientMail
  BY <1>1, LenProperties, ElementOfSeq
<1>3. r \in {0, 1} /\ Len(q) = Len(b) + r /\ \A k \in 1 .. Len(b) : b[k] = q[k + r]
  BY DEF Takes
<1> HIDE DEF q, b
<1>4. \A k \in 1 .. Len(b) : k + r \in 1 .. Len(q) /\ b[k] = q[k + r]
  BY <1>2, <1>3
<1>5. ASSUME NEW k \in 1 .. Len(q), ~(k = 1 /\ r = 1) PROVE k - r \in 1 .. Len(b) /\ b[k - r] = q[k]
  <2>1. k - r \in 1 .. Len(b) /\ (k - r) + r = k
    BY <1>2, <1>3, <1>5
  <2> QED BY <1>4, <2>1
<1>6. r = 1 => 1 \in 1 .. Len(q) /\ q[1] \in ClientMail
  BY <1>2, <1>3
<1> QED BY <1>2, <1>4, <1>5, <1>6 DEF q, b

\* The turns of a client after its step: reading one takes it from the mail,
\* a move made takes it from the user, and sends it.
LEMMA HandStep ==
    ASSUME Typed, Typed', NEW c \in Clients, NEW v, ClientStep(c, v), NEW r, Takes(c, r),
           One(pc'[c] = "moving") + One(inbox' # inbox /\ v.msg.kind = "move")
             <= One(pc[c] = "moving") + One(r = 1 /\ mail[client_name[c]][1] \in Turning)
    PROVE  Hand(c)' <= Hand(c)
<1> DEFINE n == client_name[c]
           S == MovesOf(n)
           q == mail[n]
           b == mail'[n]
<1>1. /\ v \in Requests /\ v.from = n /\ Added(c, v) /\ request' = request /\ Socket(c) \in Sockets
  BY DEF ClientStep, Socket, Sockets
<1>2. Len(q) \in Nat /\ Len(b) \in Nat /\ r \in {0, 1} /\ Len(q) = Len(b) + r /\ \A k \in 1 .. Len(b) : b[k] = q[k + r]
  BY Taken DEF Takes
<1>3. Count(b, Turning) + One(r = 1 /\ q[1] \in Turning) <= Count(q, Turning)
  <2> HIDE DEF q, b
  <2>1. CASE r = 1
    <3>1. Count(b, Turning) + One(q[1] \in Turning) <= Count(q, Turning)
      BY <1>2, <2>1, CountShifted
    <3> QED BY <2>1, <3>1
  <2>2. CASE r = 0
    <3>1. \A k \in 1 .. Len(b) : b[k] = q[k]
      BY <1>2, <2>2
    <3>2. Longer(q, b) /\ \A k \in 1 .. Len(b) : k > Len(q) => b[k] \notin Turning
      BY <1>2, <2>2, <3>1 DEF Longer
    <3>3. Count(b, Turning) = Count(q, Turning)
      BY <1>2, <3>2, CountLonger
    <3>4. Count(q, Turning) \in Nat
      BY <1>2, CountIs
    <3> QED BY <2>2, <3>3, <3>4 DEF One
  <2> QED BY <1>2, <2>1, <2>2
<1>4. Count(inbox'[Socket(c)], S) <= Count(inbox[Socket(c)], S) + One(inbox' # inbox /\ v.msg.kind = "move")
  <2>1. /\ Len(inbox[Socket(c)]) \in Nat /\ Len(inbox'[Socket(c)]) \in Nat
        /\ Longer(inbox[Socket(c)], inbox'[Socket(c)]) /\ Len(inbox'[Socket(c)]) <= Len(inbox[Socket(c)]) + 1
        /\ \A k \in 1 .. Len(inbox'[Socket(c)]) :
              k > Len(inbox[Socket(c)]) => inbox'[Socket(c)][k] = v
    BY <1>1, AddedIs
  <2>2. Count(inbox[Socket(c)], S) \in Nat
    BY <2>1, CountIs
  <2>3. CASE inbox' # inbox /\ v.msg.kind = "move"
    <3>1. Count(inbox'[Socket(c)], S) <= Count(inbox[Socket(c)], S) + 1
      BY <2>1, CountLonger
    <3> QED BY <2>3, <3>1 DEF One
  <2>4. CASE inbox' = inbox
    BY <2>2, <2>4 DEF One
  <2>5. CASE v.msg.kind # "move"
    <3>1. v \notin S
      BY <2>5 DEF MovesOf
    <3> HIDE DEF S
    <3>2. Count(inbox'[Socket(c)], S) = Count(inbox[Socket(c)], S)
      BY <2>1, <3>1, CountLonger
    <3> QED BY <2>2, <2>5, <3>2 DEF One
  <2> QED BY <2>3, <2>4, <2>5
<1>5. One(Asks(n)') = One(Asks(n))
  BY <1>1 DEF Asks
<1>6. /\ Hand(c)' = One(pc'[c] = "moving") + Count(b, Turning) + One(Asks(n)') + Count(inbox'[Socket(c)], S)
      /\ One(pc'[c] = "moving") \in {0, 1} /\ Count(b, Turning) \in Nat /\ Count(inbox'[Socket(c)], S) \in Nat
  BY HandNext
<1>7. /\ Hand(c) = One(pc[c] = "moving") + Count(q, Turning) + One(Asks(n)) + Count(inbox[Socket(c)], S)
      /\ One(pc[c] = "moving") \in {0, 1} /\ One(Asks(n)) \in {0, 1}
      /\ Count(q, Turning) \in Nat /\ Count(inbox[Socket(c)], S) \in Nat
  BY HandIs DEF Hand
<1>8. /\ One(inbox' # inbox /\ v.msg.kind = "move") \in {0, 1}
      /\ One(r = 1 /\ q[1] \in Turning) \in {0, 1}
  BY DEF One
<1> DEFINE sent == One(inbox' # inbox /\ v.msg.kind = "move")
           first == One(r = 1 /\ q[1] \in Turning)
           p1 == One(pc[c] = "moving")
           p2 == One(pc'[c] = "moving")
           a == One(Asks(n))
           m1 == Count(q, Turning)
           m2 == Count(b, Turning)
           i1 == Count(inbox[Socket(c)], S)
           i2 == Count(inbox'[Socket(c)], S)
<1>9. /\ p2 + sent <= p1 + first /\ m2 + first <= m1 /\ i2 <= i1 + sent
      /\ Hand(c) = p1 + m1 + a + i1 /\ Hand(c)' = p2 + m2 + a + i2
      /\ p1 \in {0, 1} /\ p2 \in {0, 1} /\ a \in {0, 1} /\ sent \in {0, 1} /\ first \in {0, 1}
      /\ m1 \in Nat /\ m2 \in Nat /\ i1 \in Nat /\ i2 \in Nat
  BY <1>3, <1>4, <1>5, <1>6, <1>7, <1>8
<1> HIDE DEF sent, first, p1, p2, a, m1, m2, i1, i2
<1> QED BY <1>9

\* The moves between a client and another after the client's step.
LEMMA StepMoves ==
    ASSUME Typed, Typed', NEW c \in Clients, NEW v, ClientStep(c, v), NEW r, Takes(c, r),
           NEW d \in Clients, client_name[d] # client_name[c]
    PROVE  /\ \A m \in MovesFrom(c, d) : m \in MovesFrom(c, d)'
           /\ \A m \in MovesFrom(c, d)' :
                m \in MovesFrom(c, d) \/ (m = v.msg /\ inbox' # inbox /\ v.msg.kind = "move")
           /\ inbox' # inbox /\ v.msg.kind = "move" => v.msg \in MovesFrom(c, d)'
           /\ \A m \in MovesFrom(d, c)' : m \in MovesFrom(d, c)
           /\ \A m \in MovesFrom(d, c) :
                m \in MovesFrom(d, c)' \/ (r = 1 /\ m = mail[client_name[c]][1] /\ m.kind = "move")
           /\ r = 1 /\ mail[client_name[c]][1].kind = "move" => mail[client_name[c]][1] \in MovesFrom(d, c)
<1> DEFINE n == client_name[c]
<1>1. v.from = n /\ mail'[client_name[d]] = mail[client_name[d]]
  BY OtherClients DEF ClientStep
<1>2. \A u : /\ u.from # n => (u \in Underway' <=> u \in Underway)
             /\ u \in Underway => u \in Underway'
             /\ u \in Underway' => u \in Underway \/ (u = v /\ inbox' # inbox)
             /\ inbox' # inbox => v \in Underway'
  BY SentBy
<1>3. /\ \A k \in 1 .. Len(mail'[n]) : k + r \in 1 .. Len(mail[n]) /\ mail'[n][k] = mail[n][k + r]
      /\ \A k \in 1 .. Len(mail[n]) :
            (k - r \in 1 .. Len(mail'[n]) /\ mail'[n][k - r] = mail[n][k]) \/ (k = 1 /\ r = 1)
      /\ r = 1 => 1 \in 1 .. Len(mail[n])
  BY Taken
<1>4. /\ \A m : m \in MovesFrom(c, d) <=>
           /\ m.kind = "move"
           /\ \/ \E u : u \in Underway /\ u.from = n /\ u.msg = m
              \/ \E k \in 1 .. Len(mail[client_name[d]]) : mail[client_name[d]][k] = m
      /\ \A m : m \in MovesFrom(c, d)' <=>
           /\ m.kind = "move"
           /\ \/ \E u : u \in Underway' /\ u.from = n /\ u.msg = m
              \/ \E k \in 1 .. Len(mail'[client_name[d]]) : mail'[client_name[d]][k] = m
  BY MovesBy
<1>5. /\ \A m : m \in MovesFrom(d, c) <=>
           /\ m.kind = "move"
           /\ \/ \E u : u \in Underway /\ u.from = client_name[d] /\ u.msg = m
              \/ \E k \in 1 .. Len(mail[n]) : mail[n][k] = m
      /\ \A m : m \in MovesFrom(d, c)' <=>
           /\ m.kind = "move"
           /\ \/ \E u : u \in Underway' /\ u.from = client_name[d] /\ u.msg = m
              \/ \E k \in 1 .. Len(mail'[n]) : mail'[n][k] = m
  BY MovesBy
<1>6. /\ \A m \in MovesFrom(c, d) : m \in MovesFrom(c, d)'
      /\ \A m \in MovesFrom(c, d)' :
           m \in MovesFrom(c, d) \/ (m = v.msg /\ inbox' # inbox /\ v.msg.kind = "move")
      /\ inbox' # inbox /\ v.msg.kind = "move" => v.msg \in MovesFrom(c, d)'
  BY <1>1, <1>2, <1>4
<1>7. \A m : (\E k \in 1 .. Len(mail'[n]) : mail'[n][k] = m) => \E k \in 1 .. Len(mail[n]) : mail[n][k] = m
  BY <1>3
<1>8. \A m : (\E k \in 1 .. Len(mail[n]) : mail[n][k] = m) =>
                (\E k \in 1 .. Len(mail'[n]) : mail'[n][k] = m) \/ (r = 1 /\ m = mail[n][1])
  BY <1>3
<1>9. /\ \A m \in MovesFrom(d, c)' : m \in MovesFrom(d, c)
      /\ \A m \in MovesFrom(d, c) :
           m \in MovesFrom(d, c)' \/ (r = 1 /\ m = mail[n][1] /\ m.kind = "move")
  BY <1>2, <1>5, <1>7, <1>8
<1>10. r = 1 /\ mail[n][1].kind = "move" => mail[n][1] \in MovesFrom(d, c)
  BY <1>3, <1>5
<1> QED BY <1>6, <1>9, <1>10

LEMMA SeatStep ==
    ASSUME Typed, Typed', NEW c \in Clients, NEW v, ClientStep(c, v), NEW r, Takes(c, r), SeatSound(c),
           client_id'[c] = IF r = 1 /\ mail[client_name[c]][1].kind = "id"
                           THEN mail[client_name[c]][1].id ELSE client_id[c],
           symbol'[c] = symbol[c] \/ (r = 1 /\ mail[client_name[c]][1].kind = "symbol"),
           pc'[c] = "moving" => r = 1 /\ mail[client_name[c]][1] \in Turning
    PROVE  SeatSound(c)'
<1> DEFINE n == client_name[c]
<1>1. /\ r \in {0, 1} /\ Len(mail[n]) \in Nat /\ Len(mail'[n]) \in Nat
      /\ \A k \in 1 .. Len(mail'[n]) : k + r \in 1 .. Len(mail[n]) /\ mail'[n][k] = mail[n][k + r]
      /\ \A k \in 1 .. Len(mail[n]) :
            (k - r \in 1 .. Len(mail'[n]) /\ mail'[n][k - r] = mail[n][k]) \/ (k = 1 /\ r = 1)
      /\ r = 1 => 1 \in 1 .. Len(mail[n]) /\ mail[n][1] \in ClientMail
  BY Taken DEF Takes
<1>2. \A i : (Seated(i)' <=> Seated(i)) /\ (Sits(c, i)' <=> Sits(c, i))
  BY DEF ClientStep, Seated, InGame, Sits
<1>3. symbol'[c] # None \/ (\E k \in 1 .. Len(mail'[n]) : mail'[n][k].kind = "symbol")
        => symbol[c] # None \/ \E k \in 1 .. Len(mail[n]) : mail[n][k].kind = "symbol"
  BY <1>1
<1>4. client_id[c] # -1 \/ (r = 1 /\ mail[n][1].kind = "id") => client_id'[c] # -1
  <2>1. r = 1 /\ mail[n][1].kind = "id" => mail[n][1].id # -1
    BY <1>1, Constants DEF ClientMail, Slots
  <2> QED BY <2>1
<1>5. pc'[c] = "moving" => client_id'[c] # -1
  <2> SUFFICES ASSUME pc'[c] = "moving" PROVE client_id'[c] # -1
    OBVIOUS
  <2>1. HasId(c, 1)
    BY <1>1 DEF SeatSound
  <2>2. \A m \in 1 .. 1 : mail[n][m].kind # "id"
    BY DEF Turning
  <2> QED BY <1>4, <2>1, <2>2 DEF HasId
<1>6. ASSUME NEW k \in 1 .. Len(mail'[n]), mail'[n][k] \in Turning PROVE HasId(c, k)'
  <2>1. HasId(c, k + r)
    BY <1>1, <1>6 DEF SeatSound
  <2>2. CASE client_id[c] # -1
    BY <1>4, <2>2 DEF HasId
  <2>3. CASE \E m \in 1 .. k + r : mail[n][m].kind = "id"
    <3>1. PICK m \in 1 .. k + r : mail[n][m].kind = "id"
      BY <2>3
    <3>2. m \in 1 .. Len(mail[n])
      BY <1>1, <3>1
    <3>3. CASE m = 1 /\ r = 1
      BY <1>4, <3>1, <3>3 DEF HasId
    <3>4. CASE ~(m = 1 /\ r = 1)
      <4>1. m - r \in 1 .. k /\ mail'[n][m - r].kind = "id"
        BY <1>1, <3>1, <3>2, <3>4
      <4> QED BY <4>1 DEF HasId
    <3> QED BY <3>3, <3>4
  <2> QED BY <2>1, <2>2, <2>3 DEF HasId
<1>7. Turning' = Turning
  BY DEF Turning
<1> QED BY <1>2, <1>3, <1>5, <1>6, <1>7 DEF SeatSound

LEMMA DuelStep ==
    ASSUME Typed, Typed', NEW c \in Clients, NEW v, ClientStep(c, v), NEW r, Takes(c, r),
           Hand(c)' <= Hand(c),
           NEW d \in Clients, client_name[d] # client_name[c], NEW s, NEW t, Duel(c, d, s, t),
           symbol'[c] \in {None, s},
           \A m \in MovesFrom(c, d)' : m.sym = s /\ board'[c][m.field] = s,
           \A f \in Fields :
              board'[c][f] = board[d][f] \/ \E m \in MovesFrom(c, d)' \cup MovesFrom(d, c)' : m.field = f
    PROVE  Duel(c, d, s, t)'
<1> DEFINE n == client_name[c]
<1>1. /\ mail'[client_name[d]] = mail[client_name[d]] /\ d # c /\ Hand(d)' = Hand(d)
  BY OtherClients
<1>2. symbol'[d] = symbol[d] /\ board'[d] = board[d]
  BY <1>1 DEF ClientStep
<1>3. Hand(c)' + Hand(d)' <= 1
  <2>1. Hand(c) \in Nat /\ Hand(d) \in Nat /\ Hand(c)' \in Nat /\ Hand(c) + Hand(d) <= 1
    BY HandIs, HandNext DEF Duel
  <2> QED BY <1>1, <2>1
<1>4. Side(c, d, s)'
  <2>1. \A k \in 1 .. Len(mail'[n]) : k + r \in 1 .. Len(mail[n]) /\ mail'[n][k] = mail[n][k + r]
    BY Taken
  <2>2. Side(c, d, s)
    BY DEF Duel
  <2>3. \A k \in 1 .. Len(mail'[n]) : mail'[n][k].kind = "symbol" => mail'[n][k].sym = s
    BY <2>1, <2>2 DEF Side
  <2> QED BY <2>3 DEF Side
<1>5. Side(d, c, t)'
  <2>1. \A m \in MovesFrom(d, c)' : m \in MovesFrom(d, c)
    BY StepMoves
  <2>2. Side(d, c, t)
    BY DEF Duel
  <2> QED BY <1>1, <1>2, <2>1, <2>2 DEF Side
<1> QED BY <1>2, <1>3, <1>4, <1>5 DEF Duel

LEMMA FreshIs ==
    ASSUME NEW c \in Clients, Fresh(c)
    PROVE  /\ Blank(c) /\ Hand(c) = 0
           /\ \A k \in 1 .. Len(mail[client_name[c]]) : mail[client_name[c]][k].kind # "symbol"
  BY DEF Fresh

\* A client that goes on.
LEMMA StaysGames ==
    ASSUME Typed, Typed', AllSound, GamesSound, NEW c \in Clients, Alive(c), NEW v, ClientStep(c, v),
           NEW r, Takes(c, r), pc'[c] \in {"reading", "moving"},
           One(pc'[c] = "moving") + One(inbox' # inbox /\ v.msg.kind = "move")
             <= One(pc[c] = "moving") + One(r = 1 /\ mail[client_name[c]][1] \in Turning),
           client_id'[c] = IF r = 1 /\ mail[client_name[c]][1].kind = "id"
                           THEN mail[client_name[c]][1].id ELSE client_id[c],
           symbol'[c] = symbol[c] \/ (r = 1 /\ mail[client_name[c]][1].kind = "symbol"),
           pc'[c] = "moving" => r = 1 /\ mail[client_name[c]][1] \in Turning,
           r = 1 => mail[client_name[c]][1].kind # "end",
           MoveSound(v) \/ UNCHANGED inbox,
           Fresh(c) => symbol'[c] = symbol[c] /\ board'[c] = board[c],
           \A d \in Clients, s, t \in Symbols :
             s # t /\ client_name[d] # client_name[c] /\ Duel(c, d, s, t) =>
               /\ symbol'[c] \in {None, s}
               /\ \A m \in MovesFrom(c, d)' : m.sym = s /\ board'[c][m.field] = s
               /\ \A f \in Fields :
                    board'[c][f] = board[d][f] \/ \E m \in MovesFrom(c, d)' \cup MovesFrom(d, c)' : m.field = f
    PROVE  GamesSound'
<1> DEFINE n == client_name[c]
<1>1. Hand(c)' <= Hand(c)
  BY HandStep
<1>2. SeatSound(c)'
  <2>1. SeatSound(c)
    BY DEF GamesSound, SeatsSound
  <2> QED BY <2>1, SeatStep
<1>3. /\ r \in {0, 1}
      /\ \A k \in 1 .. Len(mail'[n]) : k + r \in 1 .. Len(mail[n]) /\ mail'[n][k] = mail[n][k + r]
      /\ \A k \in 1 .. Len(mail[n]) :
            (k - r \in 1 .. Len(mail'[n]) /\ mail'[n][k - r] = mail[n][k]) \/ (k = 1 /\ r = 1)
  BY Taken DEF Takes
<1>4. Engaged(c)' => Engaged(c)
  BY <1>3 DEF Engaged
<1>5. Fresh(c) => Fresh(c)'
  <2> SUFFICES ASSUME Fresh(c) PROVE Fresh(c)'
    OBVIOUS
  <2>1. Hand(c)' = 0
    BY <1>1, HandNext DEF Fresh
  <2>2. \A k \in 1 .. Len(mail'[n]) : mail'[n][k].kind # "symbol"
    <3>1. \A k \in 1 .. Len(mail[n]) : mail[n][k].kind # "symbol"
      BY FreshIs
    <3> SUFFICES ASSUME NEW k \in 1 .. Len(mail'[n]) PROVE mail'[n][k].kind # "symbol"
      OBVIOUS
    <3>2. k + r \in 1 .. Len(mail[n]) /\ mail'[n][k] = mail[n][k + r]
      BY <1>3
    <3> HIDE DEF n
    <3> QED BY <3>1, <3>2
  <2>3. symbol'[c] = symbol[c] /\ board'[c] = board[c] /\ Blank(c)
    BY DEF Fresh
  <2> QED BY <2>1, <2>2, <2>3 DEF Fresh, Blank
<1>6. ASSUME NEW d \in Clients, NEW s \in Symbols, NEW t \in Symbols,
             s # t, client_name[d] # n, Duel(c, d, s, t)
      PROVE  Duel(c, d, s, t)'
  <2>1. /\ symbol'[c] \in {None, s}
        /\ \A m \in MovesFrom(c, d)' : m.sym = s /\ board'[c][m.field] = s
        /\ \A f \in Fields :
             board'[c][f] = board[d][f] \/ \E m \in MovesFrom(c, d)' \cup MovesFrom(d, c)' : m.field = f
    BY <1>6
  <2> QED BY <1>1, <1>6, <2>1, DuelStep
<1>7. pc'[c] # "new"
  OBVIOUS
<1> QED BY <1>2, <1>4, <1>5, <1>6, <1>7, ClientGames

LEMMA IsStep ==
    ASSUME Typed, Ordinary, NEW c \in Clients, Alive(c) \/ ~Bound(client_name[c]), ClientRest,
           NEW l, pc' = [pc EXCEPT ![c] = l], NEW rest, mail' = [mail EXCEPT ![client_name[c]] = rest],
           NEW msg, NEW v, v = [from |-> client_name[c], msg |-> msg], v \in Requests,
           UNCHANGED inbox \/ Arrives(c, msg),
           \A d \in Clients : d # c =>
             client_id'[d] = client_id[d] /\ symbol'[d] = symbol[d] /\ board'[d] = board[d]
    PROVE  ClientStep(c, v) /\ v.from = client_name[c] /\ v.msg = msg /\ pc'[c] = l
           /\ (Arrives(c, msg) => inbox' # inbox)
<1> DEFINE n == client_name[c]
<1>1. /\ mail \in [Names -> Seq(ClientMail)] /\ pc \in [Clients -> {"new", "reading", "moving", "gone"}]
      /\ inbox \in [Sockets -> Seq(Requests)] /\ server = "up" /\ Socket(c) \in Sockets
  BY DEF Typed, TypeOK, Mail, Ordinary, Socket, Sockets
<1>2. UNCHANGED <<clients, pairs, registering, request>>
  BY DEF ClientRest, threadVars, tableVars
<1>3. v.from = n /\ v.msg = msg
  OBVIOUS
<1>4. Added(c, v)
  BY <1>1 DEF Arrives, Added
<1>5. \A m \in Names : m # n => mail'[m] = mail[m]
  BY <1>1
<1>6. pc'[c] = l /\ \A d \in Clients : d # c => pc'[d] = pc[d]
  BY <1>1
<1>7. \A d \in Clients : d # c /\ Alive(d) => client_name[d] # n
  BY OnlyUser DEF Alive, Bound
<1>8. Arrives(c, msg) => inbox' # inbox
  <2> SUFFICES ASSUME Arrives(c, msg) PROVE inbox' # inbox
    OBVIOUS
  <2> DEFINE q == inbox[Socket(c)]
  <2>1. inbox'[Socket(c)] = Append(q, v) /\ q \in Seq(Requests)
    BY <1>1 DEF Arrives
  <2> HIDE DEF q
  <2>2. Len(Append(q, v)) = Len(q) + 1 /\ Len(q) \in Nat
    BY <2>1, AppendProperties, LenProperties
  <2>3. inbox'[Socket(c)] # q
    BY <2>1, <2>2
  <2> QED BY <2>3 DEF q
<1> QED BY <1>2, <1>3, <1>4, <1>5, <1>6, <1>7, <1>8 DEF ClientStep

\* A client that has read a letter and sent one, or none.
LEMMA HasRead ==
    ASSUME Typed, Typed', Ordinary, NEW c \in Clients, Alive(c), mail[client_name[c]] # <<>>,
           NEW kind \in {"E", "response"}, NEW label \in {"reading", "moving"},
           ClientSends(c, Plain(kind), rest_of(c), label) \/ Goes(c, label)
    PROVE  /\ pc' = [pc EXCEPT ![c] = label] /\ mail' = [mail EXCEPT ![client_name[c]] = rest_of(c)]
           /\ UNCHANGED inbox \/ Arrives(c, Plain(kind))
           /\ Takes(c, 1) /\ msg_of(c) = mail[client_name[c]][1] /\ msg_of(c) \in ClientMail
<1>1. /\ pc \in [Clients -> {"new", "reading", "moving", "gone"}] /\ ~Fails(c)
  BY DEF Typed, TypeOK, Ordinary, Fails
<1>2. pc' = [pc EXCEPT ![c] = label] /\ pc'[c] = label
  BY <1>1 DEF ClientSends, Goes
<1>3. mail' = [mail EXCEPT ![client_name[c]] = rest_of(c)] /\ (UNCHANGED inbox \/ Arrives(c, Plain(kind)))
  BY <1>2 DEF ClientSends, Goes
<1>4. Takes(c, 1) /\ msg_of(c) = mail[client_name[c]][1]
  BY <1>3, Shifted DEF Takes
<1> QED BY <1>2, <1>3, <1>4, Taken

\* A step in which a client reads and sends no move leaves its duels.
LEMMA QuietDuel ==
    ASSUME Typed, Typed', NEW c \in Clients, NEW v, ClientStep(c, v), NEW r, Takes(c, r),
           v.msg.kind # "move" \/ UNCHANGED inbox,
           r = 1 => mail[client_name[c]][1].kind # "move", board'[c] = board[c],
           NEW d \in Clients, client_name[d] # client_name[c], NEW s, NEW t, Duel(c, d, s, t)
    PROVE  /\ symbol[c] \in {None, s}
           /\ r = 1 /\ mail[client_name[c]][1].kind = "symbol" => mail[client_name[c]][1].sym = s
           /\ \A m \in MovesFrom(c, d)' : m.sym = s /\ board'[c][m.field] = s
           /\ \A f \in Fields :
                board'[c][f] = board[d][f] \/ \E m \in MovesFrom(c, d)' \cup MovesFrom(d, c)' : m.field = f
<1>1. /\ \A m \in MovesFrom(c, d) : m \in MovesFrom(c, d)'
      /\ \A m \in MovesFrom(c, d)' : m \in MovesFrom(c, d)
      /\ \A m \in MovesFrom(d, c) : m \in MovesFrom(d, c)'
  BY StepMoves
<1>2. r = 1 => 1 \in 1 .. Len(mail[client_name[c]])
  BY Taken
<1>3. /\ Side(c, d, s)
      /\ \A f \in Fields : board[c][f] = board[d][f] \/ \E m \in MovesFrom(c, d) \cup MovesFrom(d, c) : m.field = f
  BY DEF Duel
<1> QED BY <1>1, <1>2, <1>3 DEF Side

LEMMA ReadGames ==
    ASSUME Typed, Typed', AllSound, GamesSound, Ordinary, NEW c \in Clients,
           ReadPing(c) \/ ReadSymbol(c) \/ ReadId(c) \/ ReadWaiting(c)
    PROVE  GamesSound'
<1> DEFINE n == client_name[c]
<1>1. /\ Alive(c) /\ pc[c] = "reading" /\ mail[n] # <<>> /\ ClientRest /\ UNCHANGED board
      /\ client_id \in [Clients -> Slots \cup {-1}] /\ symbol \in [Clients -> Symbols \cup {None}]
      /\ msg_of(c).kind \in {"ping", "symbol", "id", "waiting"}
      /\ n \in Names
  BY Constants DEF ReadPing, ReadSymbol, ReadId, ReadWaiting, Reads, Alive, msg_of, Typed, TypeOK
<1>2. PICK label \in {"reading", "moving"} :
         /\ ClientSends(c, Plain("response"), rest_of(c), label) \/ Goes(c, label)
         /\ label = "moving" <=> msg_of(c).kind = "symbol" /\ msg_of(c).sym = "X"
  <2>1. CASE ReadSymbol(c)
    <3>1. /\ msg_of(c).kind = "symbol" /\ symbol' = [symbol EXCEPT ![c] = msg_of(c).sym]
          /\ Goes(c, IF symbol'[c] = "X" THEN "moving" ELSE "reading")
      BY <2>1 DEF ReadSymbol, Reads, msg_of
    <3>2. symbol'[c] = msg_of(c).sym
      BY <1>1, <3>1
    <3> QED BY <3>1, <3>2
  <2>2. CASE ReadPing(c) \/ ReadId(c) \/ ReadWaiting(c)
    <3>1. ClientSends(c, Plain("response"), rest_of(c), "reading") \/ Goes(c, "reading")
      BY <2>2 DEF ReadPing, ReadId, ReadWaiting
    <3>2. msg_of(c).kind # "symbol"
      BY <2>2 DEF ReadPing, ReadId, ReadWaiting, Reads, msg_of
    <3> QED BY <3>1, <3>2
  <2> QED BY <2>1, <2>2
<1>3. /\ symbol'[c] = IF msg_of(c).kind = "symbol" THEN msg_of(c).sym ELSE symbol[c]
      /\ client_id'[c] = IF msg_of(c).kind = "id" THEN msg_of(c).id ELSE client_id[c]
      /\ \A d \in Clients : d # c => client_id'[d] = client_id[d] /\ symbol'[d] = symbol[d] /\ board'[d] = board[d]
  <2>1. CASE ReadSymbol(c)
    BY <1>1, <2>1 DEF ReadSymbol, Reads, msg_of
  <2>2. CASE ReadId(c)
    BY <1>1, <2>2 DEF ReadId, Reads, msg_of
  <2>3. CASE ReadPing(c) \/ ReadWaiting(c)
    BY <1>1, <2>3 DEF ReadPing, ReadWaiting, Reads, msg_of
  <2> QED BY <2>1, <2>2, <2>3
<1>4. /\ pc' = [pc EXCEPT ![c] = label] /\ mail' = [mail EXCEPT ![n] = rest_of(c)]
      /\ UNCHANGED inbox \/ Arrives(c, Plain("response"))
      /\ Takes(c, 1) /\ msg_of(c) = mail[n][1] /\ msg_of(c) \in ClientMail
  BY <1>1, <1>2, HasRead
<1>5. PICK v : v = [from |-> n, msg |-> Plain("response")]
  OBVIOUS
<1>6. v \in Requests /\ v.msg.kind = "response"
  BY <1>1, <1>5, Datagrams DEF Plain, Datagram
<1>7. ClientStep(c, v) /\ pc'[c] = label
  BY <1>1, <1>3, <1>4, <1>5, <1>6, IsStep
<1>8. pc'[c] = "moving" <=> mail[n][1] \in Turning
  BY <1>1, <1>2, <1>4, <1>7 DEF Turning
<1>9. One(pc'[c] = "moving") + One(inbox' # inbox /\ v.msg.kind = "move")
        <= One(pc[c] = "moving") + One(1 = 1 /\ mail[n][1] \in Turning)
  BY <1>1, <1>6, <1>8 DEF One
<1>10. MoveSound(v)
  BY <1>6 DEF MoveSound
<1>11. Fresh(c) => symbol'[c] = symbol[c] /\ board'[c] = board[c]
  <2>1. 1 \in 1 .. Len(mail[n])
    BY <1>4, Taken
  <2> QED BY <1>1, <1>3, <1>4, <2>1 DEF Fresh
<1>12. ASSUME NEW d \in Clients, NEW s \in Symbols, NEW t \in Symbols, s # t, client_name[d] # n, Duel(c, d, s, t)
       PROVE  /\ symbol'[c] \in {None, s}
              /\ \A m \in MovesFrom(c, d)' : m.sym = s /\ board'[c][m.field] = s
              /\ \A f \in Fields :
                   board'[c][f] = board[d][f] \/ \E m \in MovesFrom(c, d)' \cup MovesFrom(d, c)' : m.field = f
  <2>1. mail[n][1].kind # "move" /\ board'[c] = board[c]
    BY <1>1, <1>4
  <2>2. /\ symbol[c] \in {None, s}
        /\ 1 = 1 /\ mail[n][1].kind = "symbol" => mail[n][1].sym = s
        /\ \A m \in MovesFrom(c, d)' : m.sym = s /\ board'[c][m.field] = s
        /\ \A f \in Fields :
             board'[c][f] = board[d][f] \/ \E m \in MovesFrom(c, d)' \cup MovesFrom(d, c)' : m.field = f
    BY <1>4, <1>6, <1>7, <1>12, <2>1, QuietDuel
  <2> QED BY <1>3, <1>4, <2>2
<1>13. /\ pc'[c] \in {"reading", "moving"} /\ mail[n][1].kind # "end"
       /\ pc'[c] = "moving" => 1 = 1 /\ mail[n][1] \in Turning
       /\ symbol'[c] = symbol[c] \/ (1 = 1 /\ mail[n][1].kind = "symbol")
       /\ client_id'[c] = IF 1 = 1 /\ mail[n][1].kind = "id" THEN mail[n][1].id ELSE client_id[c]
  BY <1>1, <1>3, <1>4, <1>7, <1>8
<1> QED BY <1>1, <1>4, <1>7, <1>9, <1>10, <1>11, <1>12, <1>13, StaysGames

LEMMA ReadMoveGames ==
    ASSUME Typed, Typed', AllSound, GamesSound, Ordinary, NEW c \in Clients, ReadMove(c)
    PROVE  GamesSound'
<1> DEFINE n == client_name[c]
           m0 == msg_of(c)
<1>1. /\ Alive(c) /\ pc[c] = "reading" /\ mail[n] # <<>> /\ ClientRest /\ UNCHANGED <<client_id, symbol>>
      /\ m0.kind = "move" /\ board' = [board EXCEPT ![c][m0.field] = m0.sym]
      /\ n \in Names /\ board \in [Clients -> [Fields -> Symbols \cup {"-"}]]
  BY Constants DEF ReadMove, Reads, Alive, msg_of, Typed, TypeOK
<1>2. PICK label \in {"reading", "moving"} : ClientSends(c, Plain("E"), rest_of(c), label) \/ Goes(c, label)
  BY DEF ReadMove
<1>3. /\ pc' = [pc EXCEPT ![c] = label] /\ mail' = [mail EXCEPT ![n] = rest_of(c)]
      /\ UNCHANGED inbox \/ Arrives(c, Plain("E"))
      /\ Takes(c, 1) /\ m0 = mail[n][1] /\ m0 \in ClientMail
  BY <1>1, <1>2, HasRead
<1> HIDE DEF m0
<1>4. PICK v : v = [from |-> n, msg |-> Plain("E")]
  OBVIOUS
<1>5. v \in Requests /\ v.msg.kind = "E"
  BY <1>1, <1>4, Datagrams DEF Plain, Datagram
<1>6. m0.sym \in Symbols /\ m0.field \in Fields /\ m0 \in Turning
  BY <1>1, <1>3 DEF ClientMail, MoveOk, Turning
<1>7. /\ board'[c] = [board[c] EXCEPT ![m0.field] = m0.sym]
      /\ \A d \in Clients : d # c => client_id'[d] = client_id[d] /\ symbol'[d] = symbol[d] /\ board'[d] = board[d]
  BY <1>1
<1>8. ClientStep(c, v) /\ pc'[c] = label
  BY <1>1, <1>3, <1>4, <1>5, <1>7, IsStep
<1>9. One(pc'[c] = "moving") + One(inbox' # inbox /\ v.msg.kind = "move")
        <= One(pc[c] = "moving") + One(1 = 1 /\ mail[n][1] \in Turning)
  BY <1>1, <1>3, <1>5, <1>6 DEF One
<1>10. MoveSound(v)
  BY <1>5 DEF MoveSound
<1>11. Fresh(c) => symbol'[c] = symbol[c] /\ board'[c] = board[c]
  <2>1. 1 \in 1 .. Len(mail[n])
    BY <1>3, Taken
  <2>2. ~Fresh(c)
    BY <1>3, <1>6, <2>1, NoHand DEF Fresh, AllSound
  <2> QED BY <2>2
<1>12. ASSUME NEW d \in Clients, NEW s \in Symbols, NEW t \in Symbols, s # t, client_name[d] # n, Duel(c, d, s, t)
       PROVE  /\ symbol'[c] \in {None, s}
              /\ \A m \in MovesFrom(c, d)' : m.sym = s /\ board'[c][m.field] = s
              /\ \A f \in Fields :
                   board'[c][f] = board[d][f] \/ \E m \in MovesFrom(c, d)' \cup MovesFrom(d, c)' : m.field = f
  <2>1. /\ \A m \in MovesFrom(c, d)' : m \in MovesFrom(c, d)
        /\ m0 \in MovesFrom(d, c)
    <3>1. /\ \A m \in MovesFrom(c, d)' :
                m \in MovesFrom(c, d) \/ (m = v.msg /\ inbox' # inbox /\ v.msg.kind = "move")
          /\ 1 = 1 /\ mail[n][1].kind = "move" => mail[n][1] \in MovesFrom(d, c)
      BY <1>3, <1>8, <1>12, StepMoves
    <3> QED BY <1>1, <1>3, <1>5, <3>1
  <2>2. Side(c, d, s) /\ Side(d, c, t) /\ Hand(c) + Hand(d) <= 1
    BY <1>12 DEF Duel
  <2>3. \A m \in MovesFrom(c, d) \cup MovesFrom(d, c) : m = m0
    BY <2>1, <2>2, OneTurn DEF AllSound
  <2>4. m0.sym = t /\ board[d][m0.field] = t
    BY <2>1, <2>2 DEF Side
  <2>5. \A m \in MovesFrom(c, d) : FALSE
    <3>1. \A m \in MovesFrom(c, d) : m.sym = s
      BY <2>2 DEF Side
    <3> QED BY <1>12, <2>3, <2>4, <3>1
  <2>6. ASSUME NEW f \in Fields PROVE board'[c][f] = board[d][f]
    <3>1. CASE f = m0.field
      BY <1>1, <1>6, <1>7, <2>4, <3>1
    <3>2. CASE f # m0.field
      <4>1. board'[c][f] = board[c][f]
        BY <1>1, <1>7, <3>2
      <4>2. board[c][f] = board[d][f] \/ \E m \in MovesFrom(c, d) \cup MovesFrom(d, c) : m.field = f
        BY <1>12 DEF Duel
      <4> QED BY <2>3, <3>2, <4>1, <4>2
    <3> QED BY <3>1, <3>2
  <2>7. symbol'[c] \in {None, s}
    BY <1>1, <2>2 DEF Side
  <2> QED BY <2>1, <2>5, <2>6, <2>7
<1>13. /\ pc'[c] \in {"reading", "moving"} /\ mail[n][1].kind # "end"
       /\ pc'[c] = "moving" => 1 = 1 /\ mail[n][1] \in Turning
       /\ symbol'[c] = symbol[c] \/ (1 = 1 /\ mail[n][1].kind = "symbol")
       /\ client_id'[c] = IF 1 = 1 /\ mail[n][1].kind = "id" THEN mail[n][1].id ELSE client_id[c]
  BY <1>1, <1>3, <1>6, <1>8
<1> QED BY <1>1, <1>3, <1>8, <1>9, <1>10, <1>11, <1>12, <1>13, StaysGames

\* A user's move: the turn goes from the client to its datagram.
LEMMA read_moveGames ==
    ASSUME Typed, Typed', AllSound, GamesSound, Ordinary, NEW c \in Clients, read_move(c)
    PROVE  GamesSound'
<1> DEFINE n == client_name[c]
<1>1. /\ Alive(c) /\ pc[c] = "moving" /\ ClientRest /\ UNCHANGED <<client_id, symbol>>
      /\ n \in Names /\ Id(c) \in Slots /\ ~Fails(c)
      /\ pc \in [Clients -> {"new", "reading", "moving", "gone"}] /\ mail \in [Names -> Seq(ClientMail)]
      /\ board \in [Clients -> [Fields -> Symbols \cup {"-"}]]
      /\ client_id \in [Clients -> Slots \cup {-1}] /\ symbol \in [Clients -> Symbols \cup {None}]
  BY Constants DEF read_move, Alive, Typed, TypeOK, Mail, Ordinary, Fails, Id
<1>2. ASSUME mail' = [mail EXCEPT ![n] = mail[n]] PROVE mail' = mail /\ Takes(c, 0)
  <2>1. mail' = mail
    BY <1>1, <1>2
  <2>2. Len(mail[n]) \in Nat
    BY <1>1, LenProperties
  <2> QED BY <2>1, <2>2 DEF Takes
<1>3. ~Fresh(c)
  BY <1>1, NoHand DEF Fresh, AllSound
<1>4. PICK f \in Fields :
        /\ board[c][f] = "-"
        /\ IF symbol[c] = None
           THEN /\ pc' = [pc EXCEPT ![c] = IF Fails(c) THEN "gone" ELSE "reading"]
                /\ mail' = [mail EXCEPT ![n] = IF Fails(c) THEN <<>> ELSE @]
                /\ UNCHANGED <<inbox, board>>
           ELSE /\ board' = [board EXCEPT ![c][f] = symbol[c]]
                /\ ClientSends(c, Datagram("move", symbol[c], f, Id(c)), mail[n], "reading")
  BY DEF read_move
<1>5. CASE symbol[c] = None
  <2>1. pc' = [pc EXCEPT ![c] = "reading"] /\ mail' = [mail EXCEPT ![n] = mail[n]] /\ UNCHANGED <<inbox, board>>
    BY <1>1, <1>4, <1>5
  <2>2. PICK v : v = [from |-> n, msg |-> Plain("response")]
    OBVIOUS
  <2>3. v \in Requests /\ v.msg.kind = "response"
    BY <1>1, <2>2, Datagrams DEF Plain, Datagram
  <2>4. ClientStep(c, v) /\ pc'[c] = "reading" /\ Takes(c, 0)
    BY <1>1, <1>2, <2>1, <2>2, <2>3, IsStep
  <2>5. One(pc'[c] = "moving") + One(inbox' # inbox /\ v.msg.kind = "move")
        <= One(pc[c] = "moving") + One(0 = 1 /\ mail[n][1] \in Turning)
    BY <1>1, <2>1, <2>4 DEF One
  <2>6. ASSUME NEW d \in Clients, NEW s \in Symbols, NEW t \in Symbols, s # t, client_name[d] # n, Duel(c, d, s, t)
        PROVE  /\ symbol'[c] \in {None, s}
               /\ \A m \in MovesFrom(c, d)' : m.sym = s /\ board'[c][m.field] = s
               /\ \A g \in Fields :
                    board'[c][g] = board[d][g] \/ \E m \in MovesFrom(c, d)' \cup MovesFrom(d, c)' : m.field = g
    <3>1. board'[c] = board[c] /\ 0 # 1
      BY <2>1
    <3>2. /\ symbol[c] \in {None, s}
          /\ \A m \in MovesFrom(c, d)' : m.sym = s /\ board'[c][m.field] = s
          /\ \A g \in Fields :
               board'[c][g] = board[d][g] \/ \E m \in MovesFrom(c, d)' \cup MovesFrom(d, c)' : m.field = g
      BY <2>3, <2>4, <2>6, <3>1, QuietDuel
    <3> QED BY <1>1, <3>2
  <2>7. /\ symbol'[c] = symbol[c] /\ 0 # 1 /\ pc'[c] \in {"reading", "moving"} /\ pc'[c] # "moving"
        /\ client_id'[c] = client_id[c]
    BY <1>1, <2>4
  <2>8. UNCHANGED inbox
    BY <2>1
  <2> QED BY <1>1, <1>3, <2>4, <2>5, <2>6, <2>7, <2>8, StaysGames
<1>6. CASE symbol[c] # None
  <2> DEFINE msg == Datagram("move", symbol[c], f, Id(c))
  <2>1. symbol[c] \in Symbols /\ board' = [board EXCEPT ![c][f] = symbol[c]] /\ ClientSends(c, msg, mail[n], "reading")
    BY <1>1, <1>4, <1>6
  <2>2. /\ [from |-> n, msg |-> msg] \in Requests
        /\ msg.kind = "move" /\ msg.sym = symbol[c] /\ msg.field = f /\ msg.id = Id(c)
    BY <1>1, <2>1, Datagrams DEF Datagram
  <2> HIDE DEF msg
  <2>3. pc' = [pc EXCEPT ![c] = "reading"] /\ Arrives(c, msg) /\ mail' = [mail EXCEPT ![n] = mail[n]]
    <3>1. pc' = [pc EXCEPT ![c] = "reading"] /\ Arrives(c, msg) /\ pc'[c] = "reading"
      BY <1>1, <2>1 DEF ClientSends
    <3> QED BY <2>1, <3>1 DEF ClientSends
  <2>4. PICK v : v = [from |-> n, msg |-> msg]
    OBVIOUS
  <2>5. /\ board'[c] = [board[c] EXCEPT ![f] = symbol[c]]
        /\ \A d \in Clients : d # c => client_id'[d] = client_id[d] /\ symbol'[d] = symbol[d] /\ board'[d] = board[d]
    BY <1>1, <2>1
  <2>6. /\ ClientStep(c, v) /\ pc'[c] = "reading" /\ Takes(c, 0) /\ v.msg = msg /\ v.from = n /\ inbox' # inbox
    <3>1. v \in Requests
      BY <2>2, <2>4
    <3>2. UNCHANGED inbox \/ Arrives(c, msg)
      BY <2>3
    <3>3. ClientStep(c, v) /\ v.from = n /\ v.msg = msg /\ pc'[c] = "reading" /\ (Arrives(c, msg) => inbox' # inbox)
      <4>1. /\ pc' = [pc EXCEPT ![c] = "reading"] /\ mail' = [mail EXCEPT ![client_name[c]] = mail[n]]
            /\ v = [from |-> client_name[c], msg |-> msg] /\ Alive(c) /\ ClientRest
        BY <1>1, <2>3, <2>4
      <4>2. \A d \in Clients : d # c =>
              client_id'[d] = client_id[d] /\ symbol'[d] = symbol[d] /\ board'[d] = board[d]
        BY <2>5
      <4> HIDE DEF n
      <4>3. ClientStep(c, v) /\ v.from = client_name[c] /\ v.msg = msg /\ pc'[c] = "reading"
            /\ (Arrives(c, msg) => inbox' # inbox)
        BY <3>1, <3>2, <4>1, <4>2, IsStep
      <4> QED BY <4>3 DEF n
    <3>4. Takes(c, 0)
      BY <1>2, <2>3
    <3> QED BY <2>3, <3>3, <3>4
  <2>7. One(pc'[c] = "moving") + One(inbox' # inbox /\ v.msg.kind = "move")
        <= One(pc[c] = "moving") + One(0 = 1 /\ mail[n][1] \in Turning)
    BY <1>1, <2>6 DEF One
  <2>8. MoveSound(v)
    <3>1. SeatSound(c)
      BY <1>1 DEF GamesSound, SeatsSound
    <3>2. client_id[c] \in Slots /\ Id(c) = client_id[c]
      BY <1>1, <3>1 DEF SeatSound, Id
    <3>3. clients[client_id[c]].name = n
      BY <1>1, <3>2, Constants DEF AllSound, IdsSound
    <3>4. PICK i \in Slots : Sits(c, i) /\ Seated(i)
      BY <1>6, <3>1 DEF SeatSound
    <3>5. Sits(c, client_id[c])
      BY <3>3 DEF Sits
    <3>6. i = client_id[c]
      BY <3>2, <3>4, <3>5, SitsOnce
    <3> QED BY <2>2, <2>6, <3>2, <3>3, <3>4, <3>6 DEF MoveSound
  <2>9. ASSUME NEW d \in Clients, NEW s \in Symbols, NEW t \in Symbols, s # t, client_name[d] # n, Duel(c, d, s, t)
        PROVE  /\ symbol'[c] \in {None, s}
               /\ \A m \in MovesFrom(c, d)' : m.sym = s /\ board'[c][m.field] = s
               /\ \A g \in Fields :
                    board'[c][g] = board[d][g] \/ \E m \in MovesFrom(c, d)' \cup MovesFrom(d, c)' : m.field = g
    <3>1. Side(c, d, s) /\ Hand(c) + Hand(d) <= 1
      BY <2>9 DEF Duel
    <3>2. symbol[c] = s
      BY <1>6, <3>1 DEF Side
    <3>3. \A m \in MovesFrom(c, d) \cup MovesFrom(d, c) : FALSE
      BY <1>1, <3>1, OneTurn DEF AllSound
    <3>4. /\ \A m \in MovesFrom(c, d)' : m \in MovesFrom(c, d) \/ m = msg
          /\ msg \in MovesFrom(c, d)'
      BY <2>2, <2>6, <2>9, StepMoves
    <3>5. board'[c][f] = s
      BY <1>1, <2>5, <3>2
    <3>6. ASSUME NEW g \in Fields, g # f PROVE board'[c][g] = board[d][g]
      <4>1. board'[c][g] = board[c][g]
        BY <1>1, <2>5, <3>6
      <4>2. board[c][g] = board[d][g] \/ \E m \in MovesFrom(c, d) \cup MovesFrom(d, c) : m.field = g
        BY <2>9 DEF Duel
      <4> QED BY <3>3, <4>1, <4>2
    <3>7. symbol'[c] \in {None, s}
      BY <1>1, <3>2
    <3> QED BY <2>2, <3>2, <3>3, <3>4, <3>5, <3>6, <3>7
  <2>10. /\ symbol'[c] = symbol[c] /\ 0 # 1 /\ pc'[c] \in {"reading", "moving"} /\ pc'[c] # "moving"
         /\ client_id'[c] = client_id[c]
    BY <1>1, <2>6
  <2> QED BY <1>1, <1>3, <2>6, <2>7, <2>8, <2>9, <2>10, StaysGames
<1> QED BY <1>5, <1>6

LEMMA LeavesGames ==
    ASSUME Typed, Typed', AllSound, GamesSound, Ordinary, NEW c \in Clients,
           ReadEnd(c) \/ ReadDismissal(c) \/ Interrupt(c) \/ Crash(c)
    PROVE  GamesSound'
<1> DEFINE n == client_name[c]
<1>1. /\ Alive(c) /\ ClientRest /\ UNCHANGED <<client_id, symbol, board>> /\ n \in Names /\ Id(c) \in Slots
      /\ pc \in [Clients -> {"new", "reading", "moving", "gone"}]
  BY Constants DEF ReadEnd, ReadDismissal, Interrupt, Crash, Reads, Alive, Typed, TypeOK, Id
<1>2. /\ pc' = [pc EXCEPT ![c] = "gone"] /\ mail' = [mail EXCEPT ![n] = <<>>]
      /\ UNCHANGED inbox \/ Arrives(c, over(c))
  <2>1. ClientSends(c, over(c), <<>>, "gone") \/ Goes(c, "gone") \/ Crash(c)
    BY DEF ReadEnd, ReadDismissal, Interrupt
  <2>2. pc' = [pc EXCEPT ![c] = "gone"] /\ pc'[c] = "gone"
    BY <1>1, <2>1 DEF ClientSends, Goes, Crash
  <2> QED BY <2>1, <2>2 DEF ClientSends, Goes, Crash
<1>3. PICK v : v = [from |-> n, msg |-> over(c)]
  OBVIOUS
<1>4. v \in Requests /\ v.msg.kind = "over"
  BY <1>1, <1>3, Datagrams DEF over, Datagram
<1>5. ClientStep(c, v) /\ pc'[c] = "gone"
  BY <1>1, <1>2, <1>3, <1>4, IsStep
<1>6. ~Alive(c)' /\ ~Engaged(c)' /\ MoveSound(v)
  BY <1>4, <1>5 DEF Alive, Engaged, MoveSound
<1> QED BY <1>5, <1>6, ClientGames

LEMMA StartGames ==
    ASSUME Typed, Typed', AllSound, GamesSound, Ordinary, Ordinary', NEW c \in Clients, Start(c)
    PROVE  GamesSound'
<1> DEFINE n == client_name[c]
<1>1. /\ pc[c] = "new" /\ ~Bound(n) /\ ClientRest /\ UNCHANGED <<client_id, symbol, board>> /\ n \in Names
      /\ ClientSends(c, Plain("l"), <<>>, "reading") /\ ~Fails(c)
      /\ pc \in [Clients -> {"new", "reading", "moving", "gone"}] /\ mail \in [Names -> Seq(ClientMail)]
  BY Constants DEF Start, Typed, TypeOK, Mail, Ordinary, Fails
<1>2. /\ pc' = [pc EXCEPT ![c] = "reading"] /\ mail' = [mail EXCEPT ![n] = <<>>] /\ Arrives(c, Plain("l"))
      /\ pc'[c] = "reading" /\ mail'[n] = <<>>
  <2>1. pc' = [pc EXCEPT ![c] = "reading"] /\ pc'[c] = "reading" /\ Arrives(c, Plain("l"))
    BY <1>1 DEF ClientSends
  <2> QED BY <1>1, <2>1 DEF ClientSends
<1>3. PICK v : v = [from |-> n, msg |-> Plain("l")]
  OBVIOUS
<1>4. v \in Requests /\ v.msg.kind = "l"
  BY <1>1, <1>3, Datagrams DEF Plain, Datagram
<1>5. ClientStep(c, v)
  BY <1>1, <1>2, <1>3, <1>4, IsStep
<1>6. ~Started(n)
  <2>1. \A d \in Clients : d # c /\ client_name[d] = n => pc'[d] = "new"
    BY <1>1, <1>2 DEF Ordinary, Returned
  <2> QED BY <1>1, <1>2, <2>1 DEF Started
<1>7. \A u : u \in MovesOf(n) => ~Sound(u)
  BY <1>6 DEF MovesOf, Sound
<1>8. Hand(c)' = 0
  <2>1. One(pc'[c] = "moving") = 0
    BY <1>2 DEF One
  <2>2. Count(mail'[n], Turning) = 0
    <3>1. \A k \in 1 .. Len(mail'[n]) : mail'[n][k] \notin Turning
      BY <1>2, EmptySeq
    <3> QED BY <3>1, HandNext, CountIs
  <2>3. One(Asks(n)') = 0
    <3>1. ~Asks(n)'
      BY <1>5, <1>7 DEF Asks, ClientStep, AllSound, RequestsSound
    <3> QED BY <3>1 DEF One
  <2>4. Count(inbox'[Socket(c)], MovesOf(n)) = 0
    <3>1. \A k \in 1 .. Len(inbox'[Socket(c)]) : inbox'[Socket(c)][k] \notin MovesOf(n)
      <4> SUFFICES ASSUME NEW k \in 1 .. Len(inbox'[Socket(c)]), NEW u, u = inbox'[Socket(c)][k], u \in MovesOf(n)
                   PROVE  FALSE
        OBVIOUS
      <4>1. Socket(c) \in Sockets /\ Added(c, v)
        BY <1>5 DEF Socket, Sockets, ClientStep
      <4>2. (k \in 1 .. Len(inbox[Socket(c)]) /\ u = inbox[Socket(c)][k]) \/ u = v
        BY <1>4, <4>1, AddedIs
      <4>3. u # v
        BY <1>4 DEF MovesOf
      <4> QED BY <1>7, <4>1, <4>2, <4>3 DEF AllSound, RequestsSound
    <3> QED BY <3>1, HandNext, CountIs
  <2> QED BY <2>1, <2>2, <2>3, <2>4, HandNext
<1>9. Blank(c)'
  BY <1>1 DEF GamesSound, FreshSound, Blank
<1>10. Fresh(c)' /\ \A i \in Slots : ~Sits(c, i)
  <2>1. Fresh(c)'
    BY <1>2, <1>8, <1>9, EmptySeq DEF Fresh
  <2>2. \A i \in Slots : clients[i].name # n
    BY <1>1, <1>6, Constants DEF AllSound, RegistrationSound, Registered
  <2>3. registering # None => request.from # n
    BY <1>6 DEF AllSound, RegistrationSound, RequestsSound, Sound
  <2> QED BY <2>1, <2>2, <2>3, Constants DEF Sits
<1>11. SeatSound(c)'
  BY <1>2, <1>9, EmptySeq DEF SeatSound, Blank
<1>12. pc'[c] # "new" /\ MoveSound(v)
  BY <1>2, <1>4 DEF MoveSound
<1> QED BY <1>5, <1>10, <1>11, <1>12, ClientGames

LEMMA OrderlyBefore ==
    ASSUME Typed, [Next]_vars, Orderly'
    PROVE  Orderly
<1>1. Ordinary
  BY OrdinaryBefore DEF Orderly
<1>2. ~misread'
  BY DEF Orderly
<1>3. ~torn'
  BY DEF Orderly
<1>4. ~misread
  <2>1. CASE \E s \in Sockets : Receive(s)
    BY <1>2, <2>1 DEF Receive
  <2>2. ASSUME Handled PROVE ~misread
    BY <1>2, <2>2 DEF Handled
  <2>3. CASE Register \/ Activate \/ Enter
    BY <1>2, <2>2, <2>3 DEF Register, Refuse, Activate, Enter
  <2>4. CASE Remove \/ Relay \/ EndGame \/ Response
    BY <2>2, <2>4 DEF Remove, Relay, EndGame, Response, make_move
  <2>5. CASE PingThread \/ ServerInterrupt
    BY <1>2, <2>5 DEF PingThread, StartRound, CheckSlot, send_ping, PingRest, ServerInterrupt, threadVars
  <2>6. ASSUME NEW c \in Clients, Client(c) \/ Interrupt(c) \/ Crash(c) PROVE ~misread
    BY <1>2, <2>6, PcGoesOn DEF ClientRest, threadVars
  <2>7. CASE UNCHANGED vars
    BY <1>2, <2>7 DEF vars
  <2> QED BY <2>1, <2>3, <2>4, <2>5, <2>6, <2>7 DEF Next, SocketThread
<1>5. ~torn
  <2>1. CASE \E s \in Sockets : Receive(s)
    BY <1>3, <2>1 DEF Receive, tableVars
  <2>2. CASE Register
    <3>1. ASSUME pair_up PROVE ~torn
      BY <1>3, <3>1 DEF pair_up
    <3>2. ASSUME NEW kind, Refuse(kind) PROVE ~torn
      BY <1>3, <3>2 DEF Refuse, tableVars
    <3> QED BY <2>2, <3>1, <3>2 DEF Register
  <2>3. CASE Activate \/ Enter
    BY <1>3, <2>3 DEF Activate, Enter, Filling
  <2>4. CASE Remove
    BY <1>3, <2>4 DEF Remove
  <2>5. CASE Relay \/ EndGame \/ Response
    BY <1>3, <2>5 DEF Relay, EndGame, Response, make_move, tableVars
  <2>6. CASE PingThread \/ ServerInterrupt
    BY <1>3, <2>6 DEF PingThread, StartRound, CheckSlot, send_ping, PingRest, ServerInterrupt, tableVars
  <2>7. ASSUME NEW c \in Clients, Client(c) \/ Interrupt(c) \/ Crash(c) PROVE ~torn
    BY <1>3, <2>7, PcGoesOn DEF ClientRest, tableVars
  <2>8. CASE UNCHANGED vars
    BY <1>3, <2>8 DEF vars
  <2> QED BY <2>1, <2>2, <2>3, <2>4, <2>5, <2>6, <2>7, <2>8 DEF Next, SocketThread
<1> QED BY <1>1, <1>4, <1>5 DEF Orderly

LEMMA SameGames ==
    ASSUME Typed, Typed', GamesSound, UNCHANGED vars
    PROVE  GamesSound'
<1>1. /\ UNCHANGED <<clientVars, inbox, pairs, clients, registering, request, mail>>
  BY DEF vars, clientVars
<1>2. mail \in [Names -> Seq(ClientMail)]
  BY DEF Typed, Mail
<1>3. \A n \in Names : Len(mail[n]) \in Nat
  BY <1>2, LenProperties
<1>4. \A n \in Names :
        /\ Longer(mail[n], mail'[n])
        /\ \A k \in 1 .. Len(mail'[n]) : k > Len(mail[n]) => mail'[n][k].kind \notin {"symbol", "move"}
  BY <1>1, <1>3 DEF Longer
<1>5. \A c \in Clients, i \in Slots : Sits(c, i)' <=> Sits(c, i)
  BY <1>1 DEF Sits
<1> QED BY <1>1, <1>4, <1>5, GamesKept

LEMMA InitGames == Init => GamesSound
<1> SUFFICES ASSUME Init PROVE GamesSound
  OBVIOUS
<1>1. /\ \A s \in Sockets : \A k \in 1 .. Len(inbox[s]) : FALSE
      /\ \A n \in Names : \A k \in 1 .. Len(mail[n]) : FALSE
      /\ request = None /\ registering = None
  BY EmptySeq DEF Init
<1>2. \A c \in Clients : ~Alive(c) /\ Blank(c)
  BY DEF Init, Alive, Blank
<1>3. \A q \in Pairs : pairs[q].x = -1 /\ pairs[q].o = -1
  BY DEF Init
<1>4. \A i \in Slots : ~InGame(i)
  <2> SUFFICES ASSUME NEW i \in Slots PROVE ~InGame(i)
    OBVIOUS
  <2>1. clients[i].pair_id = 0 /\ 0 \in Pairs /\ i # -1
    <3>1. clients[i].pair_id = 0 /\ i # -1
      BY DEF Init, Slots
    <3>2. clients[i].pair_id \in Pairs \cup {-1}
      BY InitTyped DEF Typed, TypeOK
    <3> QED BY <3>1, <3>2
  <2> QED BY <1>3, <2>1 DEF InGame
<1> QED BY <1>1, <1>2, <1>3, <1>4 DEF GamesSound, PairsSound, SeatsSound, FreshSound, DuelsSound, Engaged

LEMMA NextGames == GInv /\ [Next]_vars => GInv'
<1> SUFFICES ASSUME GInv, [Next]_vars PROVE GInv'
  OBVIOUS
<1>1. IInv /\ IInv' /\ Typed /\ Typed'
  BY NextSound, NextTyped DEF GInv, IInv
<1>2. ASSUME Orderly' PROVE GamesSound'
  <2>1. Orderly
    BY <1>1, <1>2, OrderlyBefore
  <2>2. /\ Ordinary /\ Ordinary' /\ AllSound /\ GamesSound
        /\ server' = "up" /\ ~misread' /\ ~torn'
    BY <1>1, <1>2, <2>1 DEF Orderly, GInv, IInv, Ordinary
  <2>3. CASE SocketThread
    <3>1. CASE \E s \in Sockets : Receive(s)
      BY <1>1, <2>2, <3>1, ReceiveGames
    <3>2. CASE Register
      BY <1>1, <2>2, <3>2, RegisterGames
    <3>3. CASE Activate \/ Enter
      BY <1>1, <2>2, <3>3, FillingGames
    <3>4. CASE Remove
      BY <1>1, <2>2, <3>4, RemoveGames
    <3>5. CASE Relay
      BY <1>1, <2>2, <3>5, RelayGames
    <3>6. CASE EndGame \/ Response
      BY <1>1, <2>2, <3>6, QuietGames
    <3> QED BY <2>3, <3>1, <3>2, <3>3, <3>4, <3>5, <3>6 DEF SocketThread
  <2>4. CASE PingThread
    BY <1>1, <2>2, <2>4, QuietGames
  <2>5. CASE ServerInterrupt
    BY <2>2, <2>5 DEF ServerInterrupt
  <2>6. ASSUME NEW c \in Clients, Client(c) \/ Interrupt(c) \/ Crash(c) PROVE GamesSound'
    <3>1. CASE Start(c)
      BY <1>1, <2>2, <3>1, StartGames
    <3>2. CASE ReadPing(c) \/ ReadSymbol(c) \/ ReadId(c) \/ ReadWaiting(c)
      BY <1>1, <2>2, <3>2, ReadGames
    <3>3. CASE ReadMove(c)
      BY <1>1, <2>2, <3>3, ReadMoveGames
    <3>4. CASE read_move(c)
      BY <1>1, <2>2, <3>4, read_moveGames
    <3>5. CASE ReadEnd(c) \/ ReadDismissal(c) \/ Interrupt(c) \/ Crash(c)
      BY <1>1, <2>2, <3>5, LeavesGames
    <3> QED BY <2>6, <3>1, <3>2, <3>3, <3>4, <3>5 DEF Client
  <2>7. CASE UNCHANGED vars
    BY <1>1, <2>2, <2>7, SameGames
  <2> QED BY <2>3, <2>4, <2>5, <2>6, <2>7 DEF Next
<1> QED BY <1>1, <1>2 DEF GInv

\* What the invariant says of two clients that play with each other.
LEMMA PlayersTurn ==
    ASSUME Typed, AllSound, GamesSound, NEW x \in Clients, NEW o \in Clients, Playing(x, o)
    PROVE  LET moves == MovesFrom(x, o) \cup MovesFrom(o, x) IN
           /\ Cardinality(moves) + Cardinality({c \in {x, o} : pc[c] = "moving"}) <= 1
           /\ \A f \in Fields : board[x][f] = board[o][f] \/ \E m \in moves : m.field = f
<1> DEFINE moves == MovesFrom(x, o) \cup MovesFrom(o, x)
           movers == {c \in {x, o} : pc[c] = "moving"}
<1>1. PICK p \in Pairs :
        /\ Plays(x, pairs[p].x) /\ Plays(o, pairs[p].o)
        /\ clients[pairs[p].x].pair_id = p /\ clients[pairs[p].o].pair_id = p
  BY DEF Playing
<1>2. /\ pairs[p].x # -1 /\ pairs[p].o # -1
      /\ Alive(x) /\ Alive(o) /\ Sits(x, pairs[p].x) /\ Sits(o, pairs[p].o)
  BY <1>1 DEF Plays, Sits
<1>3. Engaged(x) /\ Engaged(o)
  <2>1. mail[client_name[x]] \in Seq(ClientMail) /\ mail[client_name[o]] \in Seq(ClientMail)
    BY Constants DEF Typed, Mail
  <2>2. /\ DOMAIN mail[client_name[x]] = 1 .. Len(mail[client_name[x]])
        /\ DOMAIN mail[client_name[o]] = 1 .. Len(mail[client_name[o]])
    BY <2>1, LenProperties
  <2> QED BY <1>1, <2>2 DEF Plays, Engaged
<1>4. Duel(x, o, "X", "O")
  BY <1>1, <1>2, <1>3 DEF GamesSound, DuelsSound
<1>5. x # o
  <2>1. pairs[p].x \in Slots /\ pairs[p].o \in Slots /\ pairs[p].x # pairs[p].o
    <3>1. pairs[p].o \in Slots /\ pairs[p].x # pairs[p].o
      BY <1>2 DEF GamesSound, PairsSound
    <3>2. pairs[p].x \in Slots \cup {-1}
      BY DEF Typed, TypeOK
    <3> QED BY <1>2, <3>1, <3>2
  <2> QED BY <1>2, <2>1, SitsOnce
<1>6. Hand(x) + Hand(o) <= 1
  BY <1>4 DEF Duel
<1>7. /\ \A m, l \in moves : m = l
      /\ \A m \in moves : pc[x] # "moving" /\ pc[o] # "moving"
      /\ ~(pc[x] = "moving" /\ pc[o] = "moving")
  BY <1>5, <1>6, OneTurn DEF AllSound
<1>8. \A f \in Fields : board[x][f] = board[o][f] \/ \E m \in moves : m.field = f
  BY <1>4 DEF Duel
<1> HIDE DEF moves
<1>9. Cardinality(moves) + Cardinality(movers) <= 1
  <2>1. CASE moves = {}
    <3>1. movers = {} \/ movers = {x} \/ movers = {o}
      BY <1>7
    <3>2. Cardinality(moves) = 0
      BY <2>1, FS_EmptySet
    <3>3. Cardinality(movers) \in 0 .. 1
      <4> HIDE DEF movers
      <4>1. Cardinality({}) = 0
        BY FS_EmptySet
      <4>2. Cardinality({x}) = 1 /\ Cardinality({o}) = 1
        BY FS_Singleton
      <4> QED BY <3>1, <4>1, <4>2
    <3> HIDE DEF movers
    <3> QED BY <3>2, <3>3
  <2>2. CASE moves # {}
    <3>1. PICK m : moves = {m}
      BY <1>7, <2>2
    <3>2. movers = {}
      BY <1>7, <2>2
    <3> HIDE DEF movers
    <3>3. Cardinality(moves) = 1 /\ Cardinality(movers) = 0
      BY <3>1, <3>2, FS_EmptySet, FS_Singleton
    <3> QED BY <3>3
  <2> QED BY <2>1, <2>2
<1> QED BY <1>8, <1>9 DEF moves

-----------------------------------------------------------------------------
(* The theorems *)

\* Every table, datagram and variable keeps its type, and the logins, the ids
\* and the slots go together as AllSound says, as long as the server is up and
\* nobody has come back under a name.
THEOREM InductiveInvariant == Spec => []IInv
<1>1. Init => IInv
  BY InitTyped, InitSound DEF IInv
<1> QED BY <1>1, NextSound, PTL DEF Spec

\* The types of server and clients, also of a server that is gone and of one
\* to which clients have come back.
THEOREM TypeCorrect == Spec => []TypeOK
<1>1. IInv => TypeOK
  BY DEF IInv, Typed
<1> QED BY <1>1, InductiveInvariant, PTL

\* The ping thread's removal of a client that is not active never takes place,
\* since register_client sets active before the name, without the mutex.
THEOREM PingSafe == Spec => []PingRemovesNobody
<1>1. IInv => PingRemovesNobody
  BY DEF IInv, Typed
<1> QED BY <1>1, InductiveInvariant, PTL

\* clients_number is the number of slots in use, and no name has two, in every
\* interleaving of logins, moves, ends, interrupts and crashes.
THEOREM CountExact == Spec => []CountsRegistered
<1>1. IInv => CountsRegistered
  BY DEF IInv, Ordinary, AllSound, TableSound, CountsRegistered
<1> QED BY <1>1, InductiveInvariant, PTL

\* A client is removed for no other's "over", and the id a live client has read
\* is that of its own slot.
OwnSlots ==
    Ordinary =>
        /\ request # None /\ request.msg.kind = "over" => clients[request.msg.id].name = request.from
        /\ \A c \in Clients : Alive(c) /\ client_id[c] # -1 => clients[client_id[c]].name = client_name[c]

\* register_client never takes its return that keeps clients_mtx locked.
MutexGivenBack == Ordinary => ~locked

\* remove_client trusts the id in the datagram, and make_move the id in a move:
\* both are those of the sender's slot.
THEOREM OverRemovesItsSender == Spec => []OwnSlots
<1>1. IInv => OwnSlots
  <2> SUFFICES ASSUME AllSound PROVE OwnSlots
    BY DEF IInv, OwnSlots
  <2>1. request # None /\ request.msg.kind = "over" => clients[request.msg.id].name = request.from
    BY DEF AllSound, RequestsSound, Sound
  <2> QED BY <2>1 DEF OwnSlots, AllSound, IdsSound
<1> QED BY <1>1, InductiveInvariant, PTL

\* Only the login of a name in use leaves the mutex locked, and with it the
\* server stuck; as long as nobody comes back, no login is of that kind.
THEOREM MutexFree == Spec => []MutexGivenBack
<1>1. Init => IInv /\ MutexGivenBack
  <2>1. Init => ~locked
    BY DEF Init
  <2> QED BY <2>1, InitTyped, InitSound DEF IInv, MutexGivenBack
<1>2. IInv /\ MutexGivenBack /\ [Next]_vars => (IInv /\ MutexGivenBack)'
  <2> SUFFICES ASSUME IInv, MutexGivenBack, [Next]_vars, Ordinary' PROVE ~locked'
    BY NextSound DEF MutexGivenBack
  <2>1. AllSound /\ ~locked
    BY OrdinaryBefore DEF IInv, MutexGivenBack
  <2>2. ASSUME Register PROVE ~in_use
    <3>1. request # None /\ request.msg.kind = "l"
      BY <2>2 DEF Register, Handles
    <3> QED BY <2>1, <3>1 DEF AllSound, RequestsSound, Sound, InTable, in_use
  <2>3. CASE SocketThread
    <3>1. CASE Register
      BY <2>1, <2>2, <3>1, ZenonT(60) DEF Register
    <3>2. CASE ~Register
      BY <2>1, <2>3, <3>2, ZenonT(60)
         DEF SocketThread, Receive, Activate, Enter, Filling, Remove, Relay, EndGame,
                            Response, make_move
    <3> QED BY <3>1, <3>2
  <2>4. CASE PingThread \/ ServerInterrupt
    BY <2>1, <2>4 DEF PingThread, StartRound, CheckSlot, send_ping, PingRest, ServerInterrupt, threadVars
  <2>5. ASSUME NEW c \in Clients, Client(c) \/ Interrupt(c) \/ Crash(c) PROVE ~locked'
    BY <2>1, <2>5, PcGoesOn DEF ClientRest, threadVars
  <2>6. CASE UNCHANGED vars
    BY <2>1, <2>6 DEF vars
  <2> QED BY <2>3, <2>4, <2>5, <2>6 DEF Next
<1> QED BY <1>1, <1>2, PTL DEF Spec

\* Two players of one game never have the turn at once, and their boards differ
\* in nothing but the move under way between them, whatever logins, ends,
\* pings, interrupts and crashes come between, as long as every move was read
\* as it was sent and every game was played by two.
THEOREM GamesAlternate == Spec => []TurnsAlternate
<1>1. Init => GInv
  BY InitTyped, InitSound, InitGames DEF GInv, IInv
<1>2. GInv => TurnsAlternate
  <2> SUFFICES ASSUME GInv, Orderly, NEW x \in Clients, NEW o \in Clients, Playing(x, o)
               PROVE  LET moves == MovesFrom(x, o) \cup MovesFrom(o, x) IN
                      /\ Cardinality(moves) + Cardinality({c \in {x, o} : pc[c] = "moving"}) <= 1
                      /\ \A f \in Fields : board[x][f] = board[o][f] \/ \E m \in moves : m.field = f
    BY DEF TurnsAlternate, Orderly, Ordinary
  <2>1. Typed /\ AllSound /\ GamesSound
    BY DEF GInv, IInv, Orderly
  <2> QED BY <2>1, PlayersTurn
<1> QED BY <1>1, <1>2, NextGames, PTL DEF Spec
=============================================================================
