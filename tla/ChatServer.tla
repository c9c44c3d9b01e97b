------------------------------ MODULE ChatServer ------------------------------
(***************************************************************************)
(* The chat over message queues (cw06/zad1).  The server keeps a table of  *)
(* clients, indexed by the ids it hands out; a client reads one message,   *)
(* takes one command, and so on.  A request the server serves, a message   *)
(* or a command of a client is one step: the programs share nothing but    *)
(* the queues.  Either may be interrupted (Ctrl+C) where it waits, a       *)
(* client not before it has its id: its STOP would carry -1, and the       *)
(* server would write in front of its table.                               *)
(***************************************************************************)
EXTENDS MessageQueues

CONSTANTS
    Clients,
    None,             \* the -1 in place of a queue
    MAX_CLIENTS,
    MaxCommands       \* bound: LIST, CONNECT, DISCONNECT and texts, of all clients

ASSUME ChatAssumption ==
    /\ IsFiniteSet(Clients) /\ None \notin Names
    /\ Names = Clients \cup {"server"} /\ "server" \notin Clients
    /\ MAX_CLIENTS \in Nat \ {0}
    /\ MaxCommands \in Nat

VARIABLES
    table,                        \* queues[]: q_id, key, aviable
    counter, current, starting,
    server,                       \* where the server is
    pc,                           \* where each client is
    client_id,
    connected,                    \* connected.q_id and .aviable, the partner's id
    commands                      \* how many commands were given

serverVars == <<table, counter, current, starting, server>>
clientVars == <<pc, client_id, connected, commands>>
vars == <<open, mq, table, counter, current, starting, server, pc, client_id, connected, commands>>

Ids == 0 .. MAX_CLIENTS

STOP == 1
DISCONNECT == 2
LIST == 3
CONNECT == 4
INIT == 5
RESPONSE == 6
FINISH == 7
AnyType == 1 .. 8

Message(type, sender, body) == [type |-> type, sender |-> sender, body |-> body]

\* The server has its queue before any client starts.
Init ==
    /\ open = {"server"}
    /\ mq = [q \in Names |-> <<>>]
    /\ table = [i \in Ids |-> [q |-> IF i = 0 THEN "server" ELSE None, key |-> None, aviable |-> TRUE]]
    /\ counter = 0 /\ current = 1 /\ starting = TRUE
    /\ server = "serving"
    /\ pc = [c \in Clients |-> "new"]
    /\ client_id = [c \in Clients |-> -1]
    /\ connected = [c \in Clients |-> [q |-> None, id |-> 1]]
    /\ commands = 0

-----------------------------------------------------------------------------
(* The server *)

\* What a handler ends with: its sends, and the server in a new state; error()
\* on a send that fails, and exit in any case, remove the server's queue.
ServerEnds == server' \in {"gone", "failed"}
ServerSends(queues, sends, status) ==
    /\ server' = IF AllOpen(sends) THEN status ELSE "failed"
    /\ open' = IF ServerEnds THEN open \ {"server"} ELSE open
    /\ mq' = IF ServerEnds THEN Emptied(Post(queues, sends), "server") ELSE Post(queues, sends)

\* The condition of main's loop.
main_loop == IF counter' > 0 \/ starting' THEN "serving" ELSE "gone"

Request(type) ==
    /\ server = "serving"
    /\ Waiting("server", AnyType) # {}
    /\ Received("server", AnyType).type = type
    /\ UNCHANGED clientVars

request == Received("server", AnyType)
Reply(sends) == ServerSends(Without("server", AnyType), sends, main_loop)

\* Mutant: the search for a free id does not end at the last one.
next_current_unbounded ==
    CHOOSE i \in current .. MAX_CLIENTS + 1 :
        /\ i = MAX_CLIENTS + 1 \/ table'[i].q = None
        /\ \A k \in current .. i - 1 : table'[k].q # None

\* From current up to an entry without a queue, or to the last.
next_current ==
    CHOOSE i \in current .. MAX_CLIENTS :
        /\ i = MAX_CLIENTS \/ table'[i].q = None
        /\ \A k \in current .. i - 1 : table'[k].q # None

\* Mutant: a refused client is counted.
counted_refused == counter + 1

counted == IF counter < MAX_CLIENTS THEN counter + 1 ELSE counter

\* init(); a full server answers to whoever has the id current.
ServeInit ==
    /\ Request(INIT)
    /\ IF request.sender \notin open
       THEN /\ UNCHANGED <<table, counter, current, starting>>
            /\ ServerSends(mq, <<>>, "failed")
       ELSE /\ table' = IF counter < MAX_CLIENTS
                        THEN [table EXCEPT ![current].q = request.sender,
                                           ![current].key = request.sender]
                        ELSE table
            /\ starting' = IF counter < MAX_CLIENTS THEN FALSE ELSE starting
            /\ counter' = counted
            /\ current' = next_current
            /\ Reply(<<Letter(table'[current].q,
                              Message(RESPONSE, IF counter < MAX_CLIENTS THEN current ELSE -1, <<>>))>>)

\* stop(): the client's partner is told and available again.
ServeStop ==
    LET i == request.sender
        partners == {request.body[k] : k \in DOMAIN request.body}
    IN
    /\ Request(STOP)
    /\ table' = [j \in Ids |->
                    [table[j] EXCEPT !.aviable = @ \/ j \in partners,
                                     !.q = IF j = i THEN None ELSE @]]
    /\ counter' = counter - 1
    /\ current' = i
    /\ UNCHANGED starting
    /\ Reply([k \in DOMAIN request.body |->
                 Letter(table[request.body[k]].q, Message(DISCONNECT, 0, <<>>))])

\* list() overwrites the sender before it answers: the answer goes to id 0.
ServeList ==
    /\ Request(LIST)
    /\ UNCHANGED <<table, counter, current, starting>>
    /\ Reply(<<Letter(table[0].q, Message(RESPONSE, 0, <<>>))>>)

ServeConnect ==
    LET from == request.sender
        to == request.body[1]
    IN
    /\ Request(CONNECT)
    /\ UNCHANGED <<counter, current, starting>>
    /\ IF table[to].aviable /\ table[from].aviable
       THEN /\ table' = [table EXCEPT ![to].aviable = FALSE, ![from].aviable = FALSE]
            /\ Reply(<<Letter(table[from].q, Message(CONNECT, table[to].key, <<from>>)),
                       Letter(table[to].q, Message(CONNECT, table[from].key, <<from>>))>>)
       ELSE /\ UNCHANGED table
            /\ Reply(<<Letter(table[from].q, Message(RESPONSE, -1, <<>>))>>)

ServeDisconnect ==
    /\ Request(DISCONNECT)
    /\ UNCHANGED <<counter, current, starting>>
    /\ table' = [table EXCEPT ![request.body[1]].aviable = TRUE,
                              ![request.sender].aviable = TRUE]
    /\ Reply(<<>>)

\* Its own answers to LIST.
ServeOther ==
    /\ Request(RESPONSE)
    /\ UNCHANGED <<table, counter, current, starting>>
    /\ Reply(<<>>)

Serve == ServeInit \/ ServeStop \/ ServeList \/ ServeConnect \/ ServeDisconnect \/ ServeOther

\* Mutant: the last id is forgotten, as in list().
told_to_finish_but_last == {i \in 1 .. MAX_CLIENTS - 1 : table[i].q # None}

told_to_finish == {i \in 1 .. MAX_CLIENTS : table[i].q # None}

\* handle_sigint() up to its loop.
Shutdown ==
    /\ server = "serving"
    /\ ServerSends(mq, [i \in told_to_finish |-> Letter(table[i].q, Message(FINISH, 0, <<>>))],
                   IF counter > 0 THEN "finishing" ELSE "gone")
    /\ UNCHANGED <<table, counter, current, starting, clientVars>>

\* Mutant: any message is taken for a STOP.
awaited_anything == AnyType

awaited == {STOP}

\* Its loop: only STOPs are received, and only counted.
AwaitStop ==
    /\ server = "finishing"
    /\ Waiting("server", awaited) # {}
    /\ counter' = counter - 1
    /\ ServerSends(Without("server", awaited), <<>>, IF counter' > 0 THEN "finishing" ELSE "gone")
    /\ UNCHANGED <<table, current, starting, clientVars>>

ServerStep == Serve \/ AwaitStop

-----------------------------------------------------------------------------
(* A client *)

\* A client sends, then is at label; error() and exit remove its queue.
ClientSends(c, queues, sends, label) ==
    /\ pc' = [pc EXCEPT ![c] = IF AllOpen(sends) THEN label ELSE "failed"]
    /\ open' = IF AllOpen(sends) THEN open ELSE open \ {c}
    /\ mq' = IF AllOpen(sends) THEN Post(queues, sends) ELSE Emptied(Post(queues, sends), c)
    /\ UNCHANGED serverVars

Fails(c) ==
    /\ pc' = [pc EXCEPT ![c] = "failed"]
    /\ open' = open \ {c}
    /\ mq' = Emptied(mq, c)
    /\ UNCHANGED serverVars

\* stop(), its exit still to come.
stop(c, queues) ==
    ClientSends(c, queues,
                <<Letter("server", Message(STOP, client_id[c],
                            IF connected[c].q # None THEN <<connected[c].id>> ELSE <<>>))>>,
                "stopping")

Exit(c) ==
    /\ pc[c] = "stopping"
    /\ pc' = [pc EXCEPT ![c] = "exited"]
    /\ open' = open \ {c}
    /\ mq' = Emptied(mq, c)
    /\ UNCHANGED <<serverVars, client_id, connected, commands>>

\* main: make the queue, look for the server's, send INIT.
Start(c) ==
    /\ pc[c] = "new"
    /\ IF "server" \in open
       THEN /\ pc' = [pc EXCEPT ![c] = "init"]
            /\ open' = open \cup {c}
            /\ mq' = Post(mq, <<Letter("server", Message(INIT, c, <<>>))>>)
            /\ UNCHANGED serverVars
       ELSE Fails(c)
    /\ UNCHANGED <<client_id, connected, commands>>

Registered(c) ==
    /\ pc[c] = "init"
    /\ Waiting(c, {RESPONSE}) # {}
    /\ UNCHANGED <<connected, commands>>
    /\ IF Received(c, {RESPONSE}).sender > 0
       THEN /\ client_id' = [client_id EXCEPT ![c] = Received(c, {RESPONSE}).sender]
            /\ ClientSends(c, Without(c, {RESPONSE}), <<>>, "check")
       ELSE /\ UNCHANGED client_id
            /\ Fails(c)

\* The partner's queue is opened, if it still exists (the key of an entry
\* never used is whatever the stack held: no queue's).
connect_to(c, key, id) ==
    IF key \in open
    THEN /\ connected' = [connected EXCEPT ![c] = [q |-> key, id |-> id]]
         /\ ClientSends(c, Without(c, AnyType), <<>>, "prompt")
    ELSE /\ UNCHANGED connected
         /\ Fails(c)

check_msg(c) ==
    LET msg == Received(c, AnyType) IN
    /\ pc[c] = "check"
    /\ UNCHANGED <<client_id, commands>>
    /\ \/ /\ Waiting(c, AnyType) = {}
          /\ ClientSends(c, mq, <<>>, "prompt")
          /\ UNCHANGED connected
       \/ /\ Waiting(c, AnyType) # {} /\ msg.type = CONNECT
          /\ connect_to(c, msg.sender, msg.body[1])
       \/ /\ Waiting(c, AnyType) # {} /\ msg.type = DISCONNECT
          /\ connected' = [connected EXCEPT ![c].q = None]
          /\ ClientSends(c, Without(c, AnyType), <<>>, "prompt")
       \/ /\ Waiting(c, AnyType) # {} /\ msg.type = FINISH
          /\ stop(c, Without(c, AnyType))
          /\ UNCHANGED connected
       \/ /\ Waiting(c, AnyType) # {} /\ msg.type = RESPONSE
          /\ ClientSends(c, Without(c, AnyType), <<>>, "prompt")
          /\ UNCHANGED connected

Command(c) ==
    /\ pc[c] = "prompt"
    /\ commands < MaxCommands
    /\ commands' = commands + 1
    /\ UNCHANGED client_id

list(c) ==
    /\ Command(c)
    /\ ClientSends(c, mq, <<Letter("server", Message(LIST, client_id[c], <<>>))>>, "list")
    /\ UNCHANGED connected

connect(c) ==
    /\ Command(c)
    /\ \E id \in 1 .. MAX_CLIENTS :
        /\ connected' = [connected EXCEPT ![c].id = id]
        /\ ClientSends(c, mq, <<Letter("server", Message(CONNECT, client_id[c], <<id>>))>>, "connect")

\* The id the message carries is whatever the stack held; one that is no id
\* makes the server write outside of its table, which is not modelled.
disconnect(c) ==
    /\ Command(c)
    /\ connected' = [connected EXCEPT ![c].q = None]
    /\ \E garbage \in Ids :
        LET msg == Message(DISCONNECT, client_id[c], <<garbage>>) IN
        ClientSends(c, mq, <<Letter("server", msg), Letter(connected[c].q, msg)>>, "check")

send_msg(c) ==
    /\ Command(c)
    /\ connected[c].q # None
    /\ ClientSends(c, mq, <<Letter(connected[c].q, Message(RESPONSE, client_id[c], <<>>))>>, "check")
    /\ UNCHANGED connected

\* A word that is no command only looks for a message when there is no
\* partner, and so does SEND, twice: `if (strcmp(...))` tests for every other
\* word.
look(c) ==
    /\ pc[c] = "prompt"
    /\ ClientSends(c, mq, <<>>, "check")
    /\ UNCHANGED <<client_id, connected, commands>>

\* The command STOP, and Ctrl+C at the prompt.
stop_command(c) ==
    /\ pc[c] = "prompt"
    /\ stop(c, mq)
    /\ UNCHANGED <<client_id, connected, commands>>

\* The message a client waits for after LIST and CONNECT may be any.
Answered(c) ==
    LET msg == Received(c, AnyType) IN
    /\ pc[c] \in {"list", "connect"}
    /\ Waiting(c, AnyType) # {}
    /\ UNCHANGED <<client_id, commands>>
    /\ \/ /\ msg.type = FINISH
          /\ stop(c, Without(c, AnyType))
          /\ UNCHANGED connected
       \/ /\ pc[c] = "connect" /\ msg.type = CONNECT
          /\ IF msg.sender \in open
             THEN /\ connected' = [connected EXCEPT ![c].q = msg.sender]
                  /\ ClientSends(c, Without(c, AnyType), <<>>, "check")
             ELSE /\ UNCHANGED connected
                  /\ Fails(c)
       \/ /\ msg.type # FINISH /\ ~(pc[c] = "connect" /\ msg.type = CONNECT)
          /\ ClientSends(c, Without(c, AnyType), <<>>, "check")
          /\ UNCHANGED connected

\* Ctrl+C while it waits for an answer.
Interrupt(c) ==
    /\ pc[c] \in {"list", "connect"}
    /\ stop(c, mq)
    /\ UNCHANGED <<client_id, connected, commands>>

\* What a client does by itself, given a user who now and then presses a key.
ClientStep(c) ==
    \/ Exit(c) \/ Registered(c) \/ check_msg(c) \/ Answered(c)
    \/ list(c) \/ connect(c) \/ disconnect(c) \/ send_msg(c) \/ look(c) \/ stop_command(c)

Next ==
    \/ ServerStep \/ Shutdown
    \/ \E c \in Clients : Start(c) \/ ClientStep(c) \/ Interrupt(c)

Spec == Init /\ [][Next]_vars
FairSpec == Spec /\ WF_vars(ServerStep) /\ \A c \in Clients : WF_vars(ClientStep(c))

-----------------------------------------------------------------------------
\* The server has given c an id, whether or not c has read it yet.
Accepted(c) ==
    \/ client_id[c] > 0
    \/ pc[c] = "init" /\ \E i \in DOMAIN mq[c] : mq[c][i].type = RESPONSE /\ mq[c][i].sender > 0

Leaving == {"stopping", "exited"}
StopsUnderway == {i \in DOMAIN mq["server"] : mq["server"][i].type = STOP}

TypeOK ==
    /\ open \subseteq Names
    /\ table \in [Ids -> [q : Names \cup {None}, key : Clients \cup {None}, aviable : BOOLEAN]]
    /\ counter \in 0 .. MAX_CLIENTS
    /\ current \in 1 .. MAX_CLIENTS
    /\ server \in {"serving", "finishing", "gone", "failed"}
    /\ pc \in [Clients -> {"new", "init", "check", "prompt", "list", "connect",
                           "stopping", "exited", "failed"}]
    /\ client_id \in [Clients -> {-1} \cup 1 .. MAX_CLIENTS]
    /\ connected \in [Clients -> [q : Clients \cup {None}, id : Ids]]
    /\ commands \in 0 .. MaxCommands

\* The server's count is the clients it accepted that have not stopped, those
\* whose STOP it has yet to serve included; STOP overtakes every other
\* request, clients die on errors, and still none is counted twice or lost.
CounterCounts ==
    server \in {"serving", "finishing"} =>
        counter = Cardinality({c \in Clients : Accepted(c) /\ pc[c] \notin Leaving})
                    + Cardinality(StopsUnderway)

\* The server removes its queue and ends only after every client it accepted
\* has stopped (cw06/zad1/README.md:25-26).
ServerLeavesLast ==
    server = "gone" => \A c \in Clients : Accepted(c) => pc[c] \in Leaving

\* A server that is interrupted ends, unless a client died without a STOP.
FinishEnds ==
    server = "finishing" ~> (server # "finishing" \/ \E c \in Clients : pc[c] = "failed")

\* The server "assigns the client an identifier" (cw06/zad1/README.md:4),
\* which later requests and answers go by.  Refuted: when two clients have
\* stopped, the search for a free id starts at the one that stopped last and
\* never looks below it, and the last entry is taken although it is in use.
UniqueIds ==
    \A c, d \in Clients :
        client_id[c] = client_id[d] /\ client_id[c] > 0
            /\ {pc[c], pc[d]} \cap (Leaving \cup {"failed"}) = {} => c = d
=============================================================================
