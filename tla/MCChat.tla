------------------------------- MODULE MCChat -------------------------------
(* Instances of ChatServer for TLC. *)
EXTENDS ChatServer

QueueNames == Clients \cup {"server"}
Users == Permutations(Clients)
=============================================================================
