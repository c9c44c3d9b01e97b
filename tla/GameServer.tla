------------------------------ MODULE GameServer ------------------------------
(***************************************************************************)
(* Tic-tac-toe over datagrams (cw10, the server and client of zad2).  The  *)
(* server's socket thread serves one datagram after the other, its ping    *)
(* thread walks over the table; a client reads one datagram, or its user   *)
(* enters a move.  Names are the addresses, all of one length, of six or   *)
(* more characters with no digit among the third to the fifth: addresses   *)
(* are then never cut short.  The server's buffer is never cleared, so     *)
(* what the last datagram left in it is read on behind a shorter one: of   *)
(* numbers, an id behind "E" and the digit of an "over" behind a move.     *)
(* Writes in front of clients[] and pairs[] hit padding; a send to         *)
(* clients[-1], as to any socket -1, fails.                                *)
(***************************************************************************)
EXTENDS Integers, FiniteSets, Sequences

CONSTANTS
    Clients,       \* the client processes
    Names,
    client_name,   \* [Clients -> Names], the argument of each
    Local,         \* the names that are paths of Unix sockets
    None,
    MAX_CLIENTS,
    Fields,        \* of the board
    Lines,         \* the sets of fields that win
    MaxPings,      \* bound: rounds of the ping thread
    MaxCrashes     \* bound: clients that are killed

ASSUME GameAssumption ==
    /\ IsFiniteSet(Clients)
    /\ None \notin Names \cup 0 .. MAX_CLIENTS - 1
    /\ None \notin [from : Names, msg : [kind : {"l", "move", "over", "E", "response"},
                                        sym : {"X", "O", None}, field : Fields \cup {None},
                                        id : 0 .. MAX_CLIENTS - 1 \cup {None}]]
    /\ client_name \in [Clients -> Names] /\ Local \subseteq Names
    /\ MAX_CLIENTS \in 1 .. 10 /\ MAX_CLIENTS % 2 = 0     \* bound: ids of one digit
    /\ Lines \subseteq SUBSET Fields /\ {} \notin Lines
    /\ MaxPings \in Nat /\ MaxCrashes \in Nat

VARIABLES
    server,             \* "up" or "gone"
    clients,            \* clients[]: name (None where socket_fd is -1), active, pair_id
    clients_number, waiting_for_pair, pairs,
    torn,               \* auxiliary: a player was drawn into a second game, or was told
                        \* the end of its game by one that did not play in it
    request,            \* the datagram the socket thread is at, or None
    registering,        \* the slot register_client is filling, or None
    buf,                \* the socket thread's buffer: the id at byte 4, of a move, and
                        \* the one at byte 5, of an "over"; None for no digit
    misread,            \* auxiliary: some move was read with a digit behind its id
    ping,               \* the slot the ping thread is at; MAX_CLIENTS when it sleeps
    checked,            \* it has checked that slot and is about to send
    pings,              \* rounds so far
    locked,             \* clients_mtx was left locked by the socket thread
    inbox,              \* the datagrams at the server's two sockets
    mail,               \* those at the clients' sockets
    pc, client_id, symbol, board,    \* of each client
    crashes             \* clients killed so far

tableVars == <<clients, clients_number, waiting_for_pair, pairs, torn>>
threadVars == <<request, registering, buf, misread, locked>>
pingVars == <<ping, checked, pings>>
clientVars == <<pc, client_id, symbol, board, crashes>>
vars == <<server, clients, clients_number, waiting_for_pair, pairs, torn, request, registering,
          buf, misread, ping, checked, pings, locked, inbox, mail, pc, client_id, symbol, board, crashes>>

Slots == 0 .. MAX_CLIENTS - 1
Pairs == 0 .. MAX_CLIENTS \div 2 - 1
Sockets == {"unix", "inet"}
Symbols == {"X", "O"}

\* A datagram to a client, and one to the server, which comes from a name.
Datagram(kind, sym, field, id) == [kind |-> kind, sym |-> sym, field |-> field, id |-> id]
Plain(kind) == Datagram(kind, None, None, None)
Letter(to, msg) == [to |-> to, msg |-> msg]

\* A client starts without a symbol and with the id 0; -1 stands for that 0
\* as long as no id has come.
Init ==
    /\ server = "up"
    /\ clients = [i \in Slots |-> [name |-> None, active |-> FALSE, pair_id |-> 0]]
    /\ clients_number = 0 /\ waiting_for_pair = 0
    /\ pairs = [p \in Pairs |-> [o |-> -1, x |-> -1]] /\ torn = FALSE
    /\ request = None /\ registering = None /\ buf = [four |-> None, five |-> None]
    /\ misread = FALSE /\ locked = FALSE
    /\ ping = MAX_CLIENTS /\ checked = FALSE /\ pings = 0
    /\ inbox = [s \in Sockets |-> <<>>]
    /\ mail = [n \in Names |-> <<>>]
    /\ pc = [c \in Clients |-> "new"]
    /\ client_id = [c \in Clients |-> -1]
    /\ symbol = [c \in Clients |-> None]
    /\ board = [c \in Clients |-> [f \in Fields |-> "-"]]
    /\ crashes = 0

-----------------------------------------------------------------------------
(* Sending *)

Alive(c) == pc[c] \in {"reading", "moving"}
Bound(n) == \E c \in Clients : client_name[c] = n /\ Alive(c)

\* sendto fails on socket -1 and on a path nobody is bound to; a datagram to a
\* port nobody is bound to is lost.
Reachable(n) == n # None /\ (n \in Local => Bound(n))
AllReachable(letters) == \A k \in DOMAIN letters : Reachable(letters[k].to)

\* Letters are sent in the order of their numbers, up to the first that fails.
Arriving(letters) ==
    {k \in DOMAIN letters : \A j \in DOMAIN letters : j <= k => Reachable(letters[j].to)}

\* The mail after that; letters of one step to the same name are alike.
Posted(queues, letters) ==
    [n \in Names |->
        LET mine == {k \in Arriving(letters) : letters[k].to = n}
        IN  IF Bound(n)
            THEN queues[n] \o [k \in 1 .. Cardinality(mine) |-> letters[CHOOSE i \in mine : TRUE].msg]
            ELSE queues[n]]

\* The slot's address; the slot in front of the table has none.
At(table, i) == IF i = -1 THEN None ELSE table[i].name

\* The letters server_cleanup sends: every slot that was ever used is active.
Farewell(table) ==
    [i \in {k \in Slots : table[k].active} |-> Letter(table[i].name, Plain("killed"))]

\* What a step of the server ends with: its sends, and on the first that fails
\* error(), whose exit runs server_cleanup.
ServerSends(letters) ==
    IF AllReachable(letters)
    THEN /\ mail' = Posted(mail, letters)
         /\ UNCHANGED server
    ELSE /\ mail' = Posted(Posted(mail, letters), Farewell(clients'))
         /\ server' = "gone"

-----------------------------------------------------------------------------
(* The socket thread *)

\* recvfrom, and find_client, which finds nobody (it compares addresses of
\* arrays) but waits for the mutex.
Receive(s) ==
    /\ server = "up" /\ request = None /\ inbox[s] # <<>>
    /\ ping = MAX_CLIENTS
    /\ request' = Head(inbox[s])
    /\ inbox' = [inbox EXCEPT ![s] = Tail(@)]
    /\ UNCHANGED <<server, registering, buf, misread, locked, mail, tableVars, pingVars, clientVars>>

Handles(kinds) ==
    /\ server = "up" /\ request # None /\ registering = None
    /\ request.msg.kind \in kinds
    /\ UNCHANGED <<pingVars, inbox, clientVars>>

\* The request is done with; its bytes stay in the buffer.
Handled ==
    /\ request' = None
    /\ buf' = CASE request.msg.kind = "move" -> [buf EXCEPT !.four = request.msg.id]
                [] request.msg.kind = "over" -> [four |-> None, five |-> request.msg.id]
                [] request.msg.kind = "E" -> buf
                [] OTHER -> [four |-> None, five |-> None]
    /\ misread' = (misread \/ (request.msg.kind = "move" /\ buf.five # None))

Refuse(kind) ==
    /\ UNCHANGED <<tableVars, registering>>
    /\ Handled
    /\ ServerSends(<<Letter(request.from, Plain(kind))>>)

Free(table) == {i \in Slots : table[i].name = None}
\* The last free place.  With none (only when a returned client has upset the
\* count) the variable is uninitialized; 0 stands for what it holds.
free_place == IF Free(clients) = {} THEN 0 ELSE CHOOSE i \in Free(clients) : \A j \in Free(clients) : j <= i
in_use == \E i \in Slots : clients[i].name = request.from
free_pair == CHOOSE p \in Pairs : pairs[p].x = -1 /\ \A q \in 0 .. p - 1 : pairs[q].x # -1

\* Slot i is in the game its pair_id names.  At first pair_id is 0, and 0 is a
\* game like any other.
InGame(i) == clients[i].pair_id # -1 /\ i \in {pairs[clients[i].pair_id].o, pairs[clients[i].pair_id].x}

\* Mutant: both players are told the symbol X.
pair_up_twice_X ==
    LET i == free_place IN
    IF clients_number' % 2 = 1
    THEN /\ waiting_for_pair' = i
         /\ UNCHANGED <<clients, pairs, torn>>
         /\ ServerSends(<<Letter(request.from, Plain("waiting"))>>)
    ELSE /\ UNCHANGED waiting_for_pair
         /\ IF \A p \in Pairs : pairs[p].x # -1
            THEN UNCHANGED <<clients, pairs, torn, mail, server>>
            ELSE /\ torn' = (torn \/ InGame(waiting_for_pair))
                 /\ pairs' = [pairs EXCEPT ![free_pair] = [o |-> i, x |-> waiting_for_pair]]
                 /\ clients' = [clients EXCEPT ![i].pair_id = free_pair,
                                               ![waiting_for_pair].pair_id = free_pair]
                 /\ ServerSends(<<Letter(At(clients, waiting_for_pair),
                                         Datagram("symbol", "X", None, None)),
                                  Letter(request.from, Datagram("symbol", "X", None, None))>>)

\* The pairing in register_client: every second registration is paired with
\* the one before, as long as there is a pair that was never used.
pair_up ==
    LET i == free_place IN
    IF clients_number' % 2 = 1
    THEN /\ waiting_for_pair' = i
         /\ UNCHANGED <<clients, pairs, torn>>
         /\ ServerSends(<<Letter(request.from, Plain("waiting"))>>)
    ELSE /\ UNCHANGED waiting_for_pair
         /\ IF \A p \in Pairs : pairs[p].x # -1
            THEN UNCHANGED <<clients, pairs, torn, mail, server>>
            ELSE /\ torn' = (torn \/ InGame(waiting_for_pair))
                 /\ pairs' = [pairs EXCEPT ![free_pair] = [o |-> i, x |-> waiting_for_pair]]
                 /\ clients' = [clients EXCEPT ![i].pair_id = free_pair,
                                               ![waiting_for_pair].pair_id = free_pair]
                 /\ ServerSends(<<Letter(At(clients, waiting_for_pair),
                                         Datagram("symbol", "X", None, None)),
                                  Letter(request.from, Datagram("symbol", "O", None, None))>>)

\* register_client up to the unlocking of pairs_mtx.  A name in use returns
\* with clients_mtx locked.
Register ==
    /\ Handles({"l"})
    /\ \/ /\ clients_number >= MAX_CLIENTS
          /\ UNCHANGED locked
          /\ Refuse("too_many")
       \/ /\ clients_number < MAX_CLIENTS /\ ping = MAX_CLIENTS /\ in_use
          /\ locked' = TRUE
          /\ Refuse("in_use")
       \/ /\ clients_number < MAX_CLIENTS /\ ping = MAX_CLIENTS /\ ~in_use
          /\ clients_number' = clients_number + 1
          /\ registering' = free_place
          /\ pair_up
          /\ UNCHANGED <<locked, request, buf, misread>>

Filling ==
    /\ server = "up" /\ registering # None
    /\ UNCHANGED <<clients_number, waiting_for_pair, pairs, torn, locked, inbox, pingVars, clientVars>>

\* The rest of register_client: active first, then the name and socket_fd;
\* and the answer of process_msg.
Activate ==
    /\ Filling /\ ~clients[registering].active
    /\ clients' = [clients EXCEPT ![registering].active = TRUE]
    /\ UNCHANGED <<server, request, registering, buf, misread, mail>>

\* Mutant: the name and socket_fd first.
Enter_first ==
    /\ Filling
    /\ clients' = [clients EXCEPT ![registering].name = request.from]
    /\ registering' = None
    /\ Handled
    /\ ServerSends(<<Letter(request.from, Datagram("id", None, None, registering))>>)

Enter ==
    /\ Filling /\ clients[registering].active
    /\ clients' = [clients EXCEPT ![registering].name = request.from]
    /\ registering' = None
    /\ Handled
    /\ ServerSends(<<Letter(request.from, Datagram("id", None, None, registering))>>)

\* Mutant: the client leaves the table and is still counted.
Remove_uncounted ==
    /\ Handles({"over"})
    /\ Handled
    /\ UNCHANGED <<clients_number, waiting_for_pair, pairs, torn, registering, locked, mail, server>>
    /\ clients' = [clients EXCEPT ![request.msg.id].name = None]

\* remove_client.  The pair is not freed: pair_id is -1 when it is used to.
Remove ==
    LET i == request.msg.id
        pair == pairs[clients[i].pair_id]
        other_id == IF pair.o = i THEN pair.x ELSE pair.o
    IN
    /\ Handles({"over"})
    /\ Handled
    /\ clients_number' = clients_number - 1
    /\ torn' = (torn \/ (clients[i].pair_id # -1 /\ ~InGame(i)))
    /\ UNCHANGED <<waiting_for_pair, pairs, registering, locked>>
    /\ clients' = [j \in Slots |->
                      [clients[j] EXCEPT
                          !.name = IF j = i THEN None ELSE @,
                          !.pair_id = IF clients[i].pair_id # -1 /\ j \in {i, other_id}
                                      THEN -1 ELSE @]]
    /\ IF clients[i].pair_id = -1
       THEN UNCHANGED <<mail, server>>
       ELSE ServerSends(<<Letter(At(clients', other_id), Plain("end"))>>)

\* The players of the game of client i; pairs[-1] was set to -1 by the
\* remove_client that set the pair_id to -1.
players(i) == IF clients[i].pair_id = -1 THEN [o |-> -1, x |-> -1] ELSE pairs[clients[i].pair_id]

\* sscanf reads on behind an id while there are digits.
read_id(id) == IF buf.five = None THEN id ELSE 10 * id + buf.five

\* make_move of a client i: msg goes to these sides of its game.  An i outside
\* of the table finds some pair_id in the memory there, or ends the server
\* without cleanup.
make_move(i, sides, msg) ==
    /\ Handled
    /\ UNCHANGED <<tableVars, registering, locked>>
    /\ \/ \E game \in IF i \in Slots THEN {players(i)} ELSE {pairs[p] : p \in Pairs} :
            ServerSends([k \in DOMAIN sides |-> Letter(At(clients, game[sides[k]]), msg)])
       \/ /\ i \notin Slots
          /\ server' = "gone"
          /\ UNCHANGED mail

\* A move goes to the other player.
Relay ==
    /\ Handles({"move"})
    /\ make_move(read_id(request.msg.id), <<IF request.msg.sym = "X" THEN "o" ELSE "x">>, request.msg)

\* "E" has no id: the one read is that of a move still in the buffer, or an
\* uninitialized int.
EndGame ==
    /\ Handles({"E"})
    /\ \E i \in IF buf.four # None THEN {read_id(buf.four)} ELSE Slots \cup {-1} :
        make_move(i, <<"o", "x">>, Plain("end"))

\* The answer to a ping sets active in a copy.
Response ==
    /\ Handles({"response"})
    /\ Handled
    /\ UNCHANGED <<server, tableVars, registering, locked, mail>>

SocketThread ==
    \/ \E s \in Sockets : Receive(s)
    \/ Register \/ Activate \/ Enter \/ Remove \/ Relay \/ EndGame \/ Response

-----------------------------------------------------------------------------
(* The ping thread, and Ctrl+C *)

PingRest == UNCHANGED <<threadVars, tableVars, inbox, clientVars>>

StartRound ==
    /\ server = "up" /\ ping = MAX_CLIENTS /\ ~locked
    /\ pings < MaxPings
    /\ pings' = pings + 1 /\ ping' = 0
    /\ PingRest /\ UNCHANGED <<server, mail, checked>>

\* A slot in use is pinged (its removal would need active to be 0).
CheckSlot ==
    /\ server = "up" /\ ping # MAX_CLIENTS /\ ~checked
    /\ IF clients[ping].name # None
       THEN checked' = TRUE /\ UNCHANGED ping
       ELSE ping' = ping + 1 /\ UNCHANGED checked
    /\ PingRest /\ UNCHANGED <<server, mail, pings>>

\* The slot is read again for the call.
send_ping ==
    /\ server = "up" /\ checked
    /\ PingRest /\ UNCHANGED pings
    /\ checked' = FALSE /\ ping' = ping + 1
    /\ ServerSends(<<Letter(clients[ping].name, Plain("ping"))>>)

PingThread == StartRound \/ CheckSlot \/ send_ping

ServerInterrupt ==
    /\ server = "up"
    /\ server' = "gone"
    /\ mail' = Posted(mail, Farewell(clients))
    /\ UNCHANGED <<threadVars, tableVars, pingVars, inbox, clientVars>>

-----------------------------------------------------------------------------
(* A client *)

Socket(c) == IF client_name[c] \in Local THEN "unix" ELSE "inet"
Id(c) == IF client_id[c] = -1 THEN 0 ELSE client_id[c]

\* A datagram to the server; without one, a Unix socket fails and error() ends
\* the client.
Arrives(c, msg) ==
    inbox' = IF server = "up"
             THEN [inbox EXCEPT ![Socket(c)] = Append(@, [from |-> client_name[c], msg |-> msg])]
             ELSE inbox
Fails(c) == server = "gone" /\ client_name[c] \in Local

\* The client is at label then, with its mail what rest says.
ClientSends(c, msg, rest, label) ==
    /\ Arrives(c, msg)
    /\ pc' = [pc EXCEPT ![c] = IF Fails(c) THEN "gone" ELSE label]
    /\ mail' = [mail EXCEPT ![client_name[c]] = IF pc'[c] = "gone" THEN <<>> ELSE rest]

ClientRest == UNCHANGED <<server, threadVars, tableVars, pingVars>>

\* bind needs the address; then the login.
Start(c) ==
    /\ pc[c] = "new"
    /\ ~Bound(client_name[c])
    /\ ClientSends(c, Plain("l"), <<>>, "reading")
    /\ ClientRest /\ UNCHANGED <<client_id, symbol, board, crashes>>

check_end(b) ==
    \/ \A f \in Fields : b[f] # "-"
    \/ \E l \in Lines, s \in Symbols : \A f \in l : b[f] = s

\* main: read and process_msg.
Reads(c, kinds) ==
    /\ pc[c] = "reading"
    /\ mail[client_name[c]] # <<>>
    /\ Head(mail[client_name[c]]).kind \in kinds
    /\ ClientRest /\ UNCHANGED crashes

msg_of(c) == Head(mail[client_name[c]])
rest_of(c) == Tail(mail[client_name[c]])
Goes(c, label) ==
    /\ pc' = [pc EXCEPT ![c] = label]
    /\ mail' = [mail EXCEPT ![client_name[c]] = IF label = "gone" THEN <<>> ELSE rest_of(c)]
    /\ UNCHANGED inbox

\* The opponent's move: the field is written whatever it holds.
ReadMove(c) ==
    /\ Reads(c, {"move"})
    /\ board' = [board EXCEPT ![c][msg_of(c).field] = msg_of(c).sym]
    /\ IF check_end(board'[c])
       THEN ClientSends(c, Plain("E"), rest_of(c), "reading")
       ELSE Goes(c, "moving")
    /\ UNCHANGED <<client_id, symbol>>

over(c) == Datagram("over", None, None, Id(c))

ReadEnd(c) ==
    /\ Reads(c, {"end"})
    /\ ClientSends(c, over(c), <<>>, "gone")
    /\ UNCHANGED <<client_id, symbol, board>>

ReadPing(c) ==
    /\ Reads(c, {"ping"})
    /\ ClientSends(c, Plain("response"), rest_of(c), "reading")
    /\ UNCHANGED <<client_id, symbol, board>>

\* Mutant: the first word of the message is read for the symbol.
ReadSymbol_first_word(c) ==
    /\ Reads(c, {"symbol"})
    /\ symbol' = [symbol EXCEPT ![c] = msg_of(c).kind]
    /\ Goes(c, "reading")
    /\ UNCHANGED <<client_id, board>>

ReadSymbol(c) ==
    /\ Reads(c, {"symbol"})
    /\ symbol' = [symbol EXCEPT ![c] = msg_of(c).sym]
    /\ Goes(c, IF symbol'[c] = "X" THEN "moving" ELSE "reading")
    /\ UNCHANGED <<client_id, board>>

ReadId(c) ==
    /\ Reads(c, {"id"})
    /\ client_id' = [client_id EXCEPT ![c] = msg_of(c).id]
    /\ Goes(c, "reading")
    /\ UNCHANGED <<symbol, board>>

ReadWaiting(c) ==
    /\ Reads(c, {"waiting"})
    /\ Goes(c, "reading")
    /\ UNCHANGED <<client_id, symbol, board>>

ReadDismissal(c) ==
    /\ Reads(c, {"killed", "too_many", "in_use"})
    /\ Goes(c, "gone")
    /\ UNCHANGED <<client_id, symbol, board>>

\* read_move, the user choosing a field that is free.  A client that was given
\* no symbol sends an empty datagram, which the server passes over.
read_move(c) ==
    /\ pc[c] = "moving"
    /\ \E f \in Fields :
        /\ board[c][f] = "-"
        /\ IF symbol[c] = None
           THEN /\ pc' = [pc EXCEPT ![c] = IF Fails(c) THEN "gone" ELSE "reading"]
                /\ mail' = [mail EXCEPT ![client_name[c]] = IF Fails(c) THEN <<>> ELSE @]
                /\ UNCHANGED <<inbox, board>>
           ELSE /\ board' = [board EXCEPT ![c][f] = symbol[c]]
                /\ ClientSends(c, Datagram("move", symbol[c], f, Id(c)), mail[client_name[c]],
                               "reading")
    /\ ClientRest /\ UNCHANGED <<client_id, symbol, crashes>>

\* Ctrl+C, once the id has come: earlier it would remove client 0.
Interrupt(c) ==
    /\ Alive(c) /\ client_id[c] # -1
    /\ ClientSends(c, over(c), <<>>, "gone")
    /\ ClientRest /\ UNCHANGED <<client_id, symbol, board, crashes>>

Crash(c) ==
    /\ Alive(c)
    /\ crashes < MaxCrashes
    /\ crashes' = crashes + 1
    /\ pc' = [pc EXCEPT ![c] = "gone"]
    /\ mail' = [mail EXCEPT ![client_name[c]] = <<>>]
    /\ ClientRest /\ UNCHANGED <<inbox, client_id, symbol, board>>

Client(c) ==
    \/ Start(c) \/ ReadMove(c) \/ ReadEnd(c) \/ ReadPing(c) \/ ReadSymbol(c) \/ ReadId(c)
    \/ ReadWaiting(c) \/ ReadDismissal(c) \/ read_move(c)

Next ==
    \/ SocketThread \/ PingThread \/ ServerInterrupt
    \/ \E c \in Clients : Client(c) \/ Interrupt(c) \/ Crash(c)

Spec == Init /\ [][Next]_vars

-----------------------------------------------------------------------------
TypeOK ==
    /\ server \in {"up", "gone"}
    /\ clients \in [Slots -> [name : Names \cup {None}, active : BOOLEAN, pair_id : Pairs \cup {-1}]]
    /\ clients_number \in Int
    /\ waiting_for_pair \in Slots
    /\ pairs \in [Pairs -> [o : Slots \cup {-1}, x : Slots \cup {-1}]]
    /\ registering \in Slots \cup {None}
    /\ ping \in 0 .. MAX_CLIENTS /\ checked \in BOOLEAN /\ locked \in BOOLEAN
    /\ pc \in [Clients -> {"new", "reading", "moving", "gone"}]
    /\ client_id \in [Clients -> Slots \cup {-1}]
    /\ symbol \in [Clients -> Symbols \cup {None}]
    /\ board \in [Clients -> [Fields -> Symbols \cup {"-"}]]

Registered == {i \in Slots : clients[i].name # None}

Returned == \E c, d \in Clients :
    c # d /\ client_name[c] = client_name[d] /\ "new" \notin {pc[c], pc[d]} 

\* clients_number, which decides whether a client is refused, whether there is
\* a free place for it and whether it is paired, is the number of slots in use,
\* one being filled included, and no name has two of them.
CountsRegistered ==
    server = "up" /\ ~Returned =>
        /\ clients_number = Cardinality(Registered \cup ({registering} \ {None}))
        /\ \A i, j \in Registered : clients[i].name = clients[j].name => i = j

\* The ping thread never finds a client in the table that is not active, not
\* even one the socket thread is entering: it removes nobody.
PingRemovesNobody == \A i \in Registered : clients[i].active

\* The live client that plays in slot i, its game not ended.
Plays(c, i) ==
    /\ i # -1 /\ Alive(c) /\ client_id[c] = i /\ clients[i].name = client_name[c]
    /\ \A k \in DOMAIN mail[client_name[c]] : mail[client_name[c]][k].kind # "end"
Playing(x, o) ==
    \E p \in Pairs :
        /\ Plays(x, pairs[p].x) /\ Plays(o, pairs[p].o)
        /\ clients[pairs[p].x].pair_id = p /\ clients[pairs[p].o].pair_id = p

\* Datagrams under way to the server, and the moves under way in a game.
Underway ==
    (UNION {{inbox[s][k] : k \in DOMAIN inbox[s]} : s \in Sockets})
        \cup (IF request = None THEN {} ELSE {request})
MovesFrom(c, d) ==
    {m \in {r.msg : r \in {u \in Underway : u.from = client_name[c]}}
            \cup {mail[client_name[d]][k] : k \in DOMAIN mail[client_name[d]]} : m.kind = "move"}

\* Two players of one game never have the turn at once, and their boards
\* differ in nothing but the one move that is under way between them: as long
\* as make_move has read the ids of the moves it passed on, nobody was drawn
\* into a second game, and no game was ended by one who did not play in it.
TurnsAlternate ==
    server = "up" /\ ~Returned /\ ~misread /\ ~torn => \A x, o \in Clients : Playing(x, o) =>
        LET moves == MovesFrom(x, o) \cup MovesFrom(o, x) IN
        /\ Cardinality(moves) + Cardinality({c \in {x, o} : pc[c] = "moving"}) <= 1
        /\ \A f \in Fields : board[x][f] = board[o][f] \/ \E m \in moves : m.field = f
=============================================================================
