------------------------------- MODULE Signals -------------------------------
(***************************************************************************)
(* Signals between two processes as the kernel delivers them, for the      *)
(* programs of cw04/zad4.  A standard signal that is already pending is    *)
(* not queued again; a real-time signal always is.  Of the pending signals *)
(* that are not blocked the one with the lowest number comes first, and    *)
(* equal ones in the order they were sent.                                 *)
(***************************************************************************)
EXTENDS Integers, Sequences

CONSTANTS Processes

VARIABLE pending   \* per process and signal, the values sent and not delivered

SIGUSR1 == 10
SIGUSR2 == 12
SIGRTMIN == 34
Signal == {SIGUSR1, SIGUSR2, SIGRTMIN, SIGRTMIN + 1}
RealTime == {SIGRTMIN, SIGRTMIN + 1}

NothingPending == [p \in Processes |-> [sig \in Signal |-> <<>>]]

\* Mutant: no signal is queued.
RaiseCoalescing(p, sig, value) ==
    IF pending[p][sig] = <<>>
    THEN pending' = [pending EXCEPT ![p][sig] = Append(@, value)]
    ELSE UNCHANGED pending

\* kill (value 0) and sigqueue; the return value is never tested.
Raise(p, sig, value) ==
    IF sig \in RealTime \/ pending[p][sig] = <<>>
    THEN pending' = [pending EXCEPT ![p][sig] = Append(@, value)]
    ELSE UNCHANGED pending

\* Mutant: the highest number first.
DeliversHighest(p, sig, open) ==
    /\ sig \in open /\ pending[p][sig] # <<>>
    /\ \A s \in open : s > sig => pending[p][s] = <<>>

\* The kernel hands sig to p, whose mask lets the signals in `open` through.
Delivers(p, sig, open) ==
    /\ sig \in open /\ pending[p][sig] # <<>>
    /\ \A s \in open : s < sig => pending[p][s] = <<>>

Value(p, sig) == Head(pending[p][sig])
Without(p, sig) == [pending EXCEPT ![p][sig] = Tail(@)]
=============================================================================
