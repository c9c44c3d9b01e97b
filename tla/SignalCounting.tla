--------------------------- MODULE SignalCounting ---------------------------
(***************************************************************************)
(* The sender and the catcher of cw04/zad4: the sender sends num signals   *)
(* and one that ends the transmission, the catcher counts them and sends   *)
(* as many back.  In zad4b (confirm = TRUE) the catcher confirms each      *)
(* signal and the sender waits for the confirmation before the next one.   *)
(*                                                                         *)
(* A signal can be delivered between any two steps of a process that has   *)
(* it unblocked; both handlers run with every signal blocked.              *)
(***************************************************************************)
EXTENDS Signals

CONSTANTS
    Programs,   \* the pairs <<confirm, mode>> to run
    MaxNum      \* bound: the largest num the sender is started with

VARIABLES
    confirm, mode, num,       \* zad4a or zad4b, argv[3], argv[2]
    spc,                      \* the sender: where it is
    i,                        \* its loop counter in send_kill and send_queue
    confirmation,
    counter,                  \* per process, its count of signals
    seen,                     \* the last number the sender printed
    cpc, j, queueing          \* the catcher: where it is, its loop, its mode

parameters == <<confirm, mode, num>>
senderVars == <<spc, i, confirmation, seen>>
catcherVars == <<cpc, j, queueing>>
vars == <<pending, confirm, mode, num, spc, i, confirmation, counter, seen, cpc, j, queueing>>

ASSUME CountingAssumption ==
    /\ Processes = {"sender", "catcher"}
    /\ Programs \subseteq (BOOLEAN \X {"KILL", "SIGQUEUE", "SIGRT"}) \ {<<TRUE, "SIGQUEUE">>}
    /\ MaxNum \in Nat

sig1 == IF mode = "SIGRT" THEN SIGRTMIN ELSE SIGUSR1
sig2 == IF mode = "SIGRT" THEN SIGRTMIN + 1 ELSE SIGUSR2

Init ==
    /\ pending = NothingPending
    /\ \E program \in Programs : confirm = program[1] /\ mode = program[2]
    /\ num \in 0 .. MaxNum
    /\ spc = "send" /\ i = 0 /\ confirmation = 0 /\ seen = 0
    /\ counter = [p \in Processes |-> 0]
    /\ cpc = "pause" /\ j = 0 /\ queueing = FALSE

-----------------------------------------------------------------------------
(* The sender *)

\* Mutant: one signal too many.
more_to_send_extra == i <= num

more_to_send == i < num

\* Mutant: no wait for the confirmation.
await_nothing == UNCHANGED spc /\ confirmation' = 1

await_confirmation == spc' = "suspend" /\ confirmation' = 1

\* One round of send_kill or send_queue: the value of kill is 0.
SendSig1 ==
    /\ spc = "send" /\ more_to_send
    /\ Raise("catcher", sig1, IF mode = "SIGQUEUE" THEN i + 1 ELSE 0)
    /\ i' = i + 1
    /\ IF confirm THEN await_confirmation ELSE UNCHANGED <<spc, confirmation>>
    /\ UNCHANGED <<parameters, counter, seen, catcherVars>>

\* sigsuspend: from here only SIGUSR1 gets through.
Suspend ==
    /\ spc = "suspend"
    /\ spc' = "suspended"
    /\ UNCHANGED <<pending, parameters, i, confirmation, counter, seen, catcherVars>>

SendSig2 ==
    /\ spc = "send" /\ i = num
    /\ Raise("catcher", sig2, IF mode = "SIGQUEUE" THEN -1 ELSE 0)
    /\ spc' = "pause"
    /\ UNCHANGED <<parameters, i, confirmation, counter, seen, catcherVars>>

\* Mutant: main leaves the confirmation signal open as well.
SenderOpenToConfirmation ==
    IF spc = "suspended" THEN {SIGUSR1}
    ELSE IF spc = "exited" THEN {} ELSE {sig1, sig2, SIGUSR1}

\* What the sender's mask lets through: sigprocmask in main, and in zad4b the
\* narrower one of sigsuspend.
SenderOpen ==
    IF spc = "suspended" THEN {SIGUSR1}
    ELSE IF spc = "exited" THEN {} ELSE {sig1, sig2}

\* handler(), which also ends a sigsuspend.
SenderHandles(sig) ==
    /\ Delivers("sender", sig, SenderOpen)
    /\ pending' = Without("sender", sig)
    /\ seen' = IF sig = sig1 /\ Value("sender", sig) # 0 THEN Value("sender", sig) ELSE seen
    /\ counter' = IF sig = sig1 /\ (~confirm \/ confirmation = 0)
                  THEN [counter EXCEPT !["sender"] = @ + 1] ELSE counter
    /\ spc' = IF sig = sig2 THEN "exited" ELSE IF spc = "suspended" THEN "send" ELSE spc
    /\ confirmation' = 0
    /\ UNCHANGED <<parameters, i, catcherVars>>

SenderStep ==
    SendSig1 \/ Suspend \/ SendSig2 \/ \E sig \in Signal : SenderHandles(sig)

-----------------------------------------------------------------------------
(* The catcher *)

CatchSig1(sig) ==
    /\ cpc = "pause" /\ sig \in {SIGUSR1, SIGRTMIN}
    /\ Delivers("catcher", sig, Signal)
    /\ pending' = Without("catcher", sig)
    /\ counter' = [counter EXCEPT !["catcher"] = @ + 1]
    /\ cpc' = IF confirm THEN "confirm" ELSE "pause"
    /\ UNCHANGED <<parameters, senderVars, j, queueing>>

\* The confirmation, always SIGUSR1.  A confirmed sigqueue would carry an
\* uninitialised value: CountingAssumption leaves that mode out.
Confirm ==
    /\ cpc = "confirm"
    /\ Raise("sender", SIGUSR1, 0)
    /\ cpc' = "pause"
    /\ UNCHANGED <<parameters, senderVars, counter, j, queueing>>

CatchSig2(sig) ==
    /\ cpc = "pause" /\ sig \in {SIGUSR2, SIGRTMIN + 1}
    /\ Delivers("catcher", sig, Signal)
    /\ pending' = Without("catcher", sig)
    /\ queueing' = (Value("catcher", sig) # 0)
    /\ cpc' = "reply"
    /\ UNCHANGED <<parameters, senderVars, counter, j>>

\* Mutant: the numbers start at 0.
reply_number_from_zero == j

reply_number == j + 1

\* One round of the catcher's send_kill or send_queue.
ReplySig1 ==
    /\ cpc = "reply" /\ j < counter["catcher"]
    /\ Raise("sender", sig1, IF queueing THEN reply_number ELSE 0)
    /\ j' = j + 1
    /\ UNCHANGED <<parameters, senderVars, counter, cpc, queueing>>

ReplySig2 ==
    /\ cpc = "reply" /\ j = counter["catcher"]
    /\ Raise("sender", sig2, IF queueing THEN -1 ELSE 0)
    /\ cpc' = "exited"
    /\ UNCHANGED <<parameters, senderVars, counter, j, queueing>>

CatcherStep ==
    \/ \E sig \in Signal : CatchSig1(sig) \/ CatchSig2(sig)
    \/ Confirm \/ ReplySig1 \/ ReplySig2

Next == SenderStep \/ CatcherStep

Spec == Init /\ [][Next]_vars
FairSpec == Spec /\ WF_vars(SenderStep) /\ WF_vars(CatcherStep)

-----------------------------------------------------------------------------
TypeOK ==
    /\ \A p \in Processes : DOMAIN pending[p] = Signal
    /\ confirm \in BOOLEAN /\ mode \in {"KILL", "SIGQUEUE", "SIGRT"} /\ num \in 0 .. MaxNum
    /\ spc \in {"send", "suspend", "suspended", "pause", "exited"}
    /\ cpc \in {"pause", "confirm", "reply", "exited"}
    /\ i \in 0 .. num /\ j \in 0 .. num
    /\ confirmation \in {0, 1} /\ seen \in 0 .. num /\ queueing \in BOOLEAN
    /\ counter \in [Processes -> 0 .. num]

\* Signals get lost but never made: the sender gets back at most what the
\* catcher counted, the catcher at most what was sent, and a transmission of
\* at least one signal never looks empty to either of them.
CountsShrink ==
    /\ counter["sender"] <= j /\ j <= counter["catcher"] /\ counter["catcher"] <= i
    /\ cpc = "reply" /\ num > 0 => counter["catcher"] > 0
    /\ spc = "exited" /\ num > 0 => counter["sender"] > 0

\* With sigqueue the number the sender printed last lies between what it
\* counted and what the catcher counted, so it is the better estimate.
NumbersBoundLoss ==
    spc = "exited" /\ mode = "SIGQUEUE" =>
        counter["sender"] <= seen /\ seen <= counter["catcher"]

\* With real-time signals, confirmed or not, both ends count exactly num.
RealTimeLosesNothing ==
    /\ cpc \in {"reply", "exited"} /\ mode = "SIGRT" => counter["catcher"] = num
    /\ spc = "exited" /\ mode = "SIGRT" => counter["sender"] = num

\* With confirmations the sender goes on to signal i only when the catcher
\* has counted the i - 1 before it, and no confirmation is taken for a reply.
OneAtATime ==
    [][confirm =>
        /\ i' # i => counter["catcher"] = i
        /\ counter'["sender"] # counter["sender"] => cpc \in {"reply", "exited"}]_vars

\* Both programs end: the last signal of each direction always gets through.
BothEnd == <>(spc = "exited" /\ cpc = "exited")

\* "Ensure a solution in which the number of signals received agrees with
\* the number sent, and which does not deadlock" (cw04/zad4/README.md:28-30).
\* Refuted in mode KILL: the confirmation may be handled before sigsuspend,
\* which then waits for a signal that has already come.
NoDeadlock ==
    ~(/\ spc = "suspended" /\ pending["sender"][SIGUSR1] = <<>>
      /\ cpc = "pause" /\ \A sig \in Signal : pending["catcher"][sig] = <<>>)
=============================================================================
