------------------------------- MODULE MCGame -------------------------------
(***************************************************************************)
(* Three instances of GameServer for TLC: a full table of two slots, with  *)
(* a client that comes back under the name of one that was killed; a table *)
(* of four slots with four clients, two games at once, of one move each;   *)
(* and one with two clients, a ping thread and a client that is killed.    *)
(***************************************************************************)
EXTENDS GameServer, TLC

CONSTANTS c1, c2, c3, c4, d1, d2, d3, d4
VARIABLE instance

names == [c \in {c1, c2, c3, c4} |-> IF c = c4 THEN c1 ELSE c]
line == {{1, 2}}

Players == {d1, d2, d3, d4}
Wide == INSTANCE GameServer WITH
    Clients <- Players, Names <- Players, client_name <- [c \in Players |-> c],
    Local <- {d1, d2}, MAX_CLIENTS <- 4, Fields <- {1}, Lines <- {}, MaxCrashes <- 0

Two == {c2, c3}
Pinged == INSTANCE GameServer WITH
    Clients <- Two, Names <- Two, client_name <- [c \in Two |-> c],
    MAX_CLIENTS <- 4, Fields <- {1, 2, 3}, MaxPings <- 1

MCInit ==
    \/ instance = "full" /\ Init
    \/ instance = "wide" /\ Wide!Init
    \/ instance = "pinged" /\ Pinged!Init

MCNext ==
    \/ instance = "full" /\ Next /\ UNCHANGED instance
    \/ instance = "wide" /\ Wide!Next /\ UNCHANGED instance
    \/ instance = "pinged" /\ Pinged!Next /\ UNCHANGED instance

MCSpec == MCInit /\ [][MCNext]_<<vars, instance>>

\* Of a server that is gone nothing is left.
View == IF server = "up" THEN <<instance, vars>> ELSE <<instance, server, mail, clientVars>>
Symmetry == Permutations({d1, d2}) \cup Permutations({d3, d4})

InInstance(full, wide, pinged) ==
    CASE instance = "full" -> full [] instance = "wide" -> wide [] OTHER -> pinged

\* The variables of server and clients keep their types.
Typed == InInstance(TypeOK, Wide!TypeOK, Pinged!TypeOK)

\* clients_number is the number of slots in use, and no name has two slots.
Counted == InInstance(CountsRegistered, Wide!CountsRegistered, Pinged!CountsRegistered)

\* The ping thread finds no client to remove.
PingSpares == InInstance(PingRemovesNobody, Wide!PingRemovesNobody, Pinged!PingRemovesNobody)

\* The two players of a game take turns, on boards that agree.
Alternate == InInstance(TurnsAlternate, Wide!TurnsAlternate, Pinged!TurnsAlternate)
=============================================================================
