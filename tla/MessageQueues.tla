---------------------------- MODULE MessageQueues ----------------------------
(***************************************************************************)
(* System V message queues as the chat programs of cw06 use them: a        *)
(* receiver takes the oldest message of the lowest type it asks for, a     *)
(* send to a queue that was removed fails.  No queue of an instance comes  *)
(* near the kernel's limit of a queue (16384 bytes, 60 messages here), so  *)
(* a send never blocks.                                                    *)
(***************************************************************************)
EXTENDS Integers, FiniteSets, Sequences, SequencesExt

CONSTANT Names   \* the names (keys) of the queues

VARIABLES
    open,   \* the queues that exist
    mq      \* their messages, oldest first

\* The sends that succeed: all up to the first queue that is gone, where the
\* program ends.
AllOpen(sends) == \A i \in DOMAIN sends : sends[i].to \in open
Sent(sends, q) ==
    {i \in DOMAIN sends :
        sends[i].to = q /\ \A k \in DOMAIN sends : k <= i => sends[k].to \in open}

Letter(to, msg) == [to |-> to, msg |-> msg]

\* The queues after a program has sent its letters in the order of their
\* numbers; those to the same queue are alike.
Post(queues, sends) ==
    [q \in Names |->
        queues[q] \o [k \in 1 .. Cardinality(Sent(sends, q)) |->
                         sends[CHOOSE i \in Sent(sends, q) : TRUE].msg]]

Emptied(queues, q) == [queues EXCEPT ![q] = <<>>]

\* msgrcv with types up to -t for all of them, or one type: where the message
\* is, and the queues without it.
Waiting(q, types) == {i \in DOMAIN mq[q] : mq[q][i].type \in types}
Place(q, types) ==
    CHOOSE i \in Waiting(q, types) : \A j \in Waiting(q, types) :
        mq[q][i].type < mq[q][j].type \/ (mq[q][i].type = mq[q][j].type /\ i <= j)
Received(q, types) == mq[q][Place(q, types)]
Without(q, types) == [mq EXCEPT ![q] = RemoveAt(@, Place(q, types))]
=============================================================================
