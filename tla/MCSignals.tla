------------------------------ MODULE MCSignals ------------------------------
(* Instances of SignalCounting for TLC. *)
EXTENDS SignalCounting

AB == {"sender", "catcher"}

\* zad4a in its three modes, and zad4b with real-time signals, the mode in
\* which SIGUSR1 is blocked until sigsuspend.
Working == {<<FALSE, "KILL">>, <<FALSE, "SIGQUEUE">>, <<FALSE, "SIGRT">>, <<TRUE, "SIGRT">>}

\* zad4b with kill and standard signals.
ConfirmedKill == {<<TRUE, "KILL">>}
=============================================================================
