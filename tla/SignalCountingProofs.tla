------------------------ MODULE SignalCountingProofs ------------------------
(***************************************************************************)
(* Proofs about SignalCounting for every number of signals and every set   *)
(* of its programs.                                                        *)
(***************************************************************************)
EXTENDS SignalCounting, SequenceTheorems, TLAPS

(* The inductive invariant. *)

Sent2 == spc \in {"pause", "exited"}
Replying == cpc \in {"reply", "exited"}
Waiting == spc \in {"suspend", "suspended"}

\* What is pending of the four signals of a transmission and of the
\* confirmations, which in mode KILL are one with the replies.
out1 == pending["catcher"][sig1]
out2 == pending["catcher"][sig2]
back1 == pending["sender"][sig1]
back2 == pending["sender"][sig2]
confirms == pending["sender"][SIGUSR1]

Shape ==
    /\ pending \in [Processes -> [Signal -> Seq(Int)]]
    /\ confirm \in BOOLEAN /\ mode \in {"KILL", "SIGQUEUE", "SIGRT"} /\ num \in 0 .. MaxNum
    /\ ~(confirm /\ mode = "SIGQUEUE")
    /\ spc \in {"send", "suspend", "suspended", "pause", "exited"}
    /\ cpc \in {"pause", "confirm", "reply", "exited"}
    /\ i \in 0 .. num /\ j \in Nat /\ confirmation \in {0, 1} /\ seen \in Nat
    /\ queueing \in BOOLEAN
    /\ counter \in [Processes -> Nat]

\* Nothing but those signals is ever sent.
Quiet ==
    /\ \A sig \in Signal : sig # sig1 /\ sig # sig2 => pending["catcher"][sig] = <<>>
    /\ \A sig \in Signal :
          sig # sig1 /\ sig # sig2 /\ sig # SIGUSR1 => pending["sender"][sig] = <<>>

\* The way to the catcher: every sig1 is counted, pending or lost to one that
\* was pending already; sig2 comes once, after all of them.
Forward ==
    /\ counter["catcher"] + Len(out1) <= i
    /\ mode = "SIGRT" => counter["catcher"] + Len(out1) = i
    /\ i > 0 => counter["catcher"] > 0 \/ Len(out1) > 0
    /\ Len(out2) <= 1
    /\ Len(out2) > 0 => Sent2
    /\ Sent2 => i = num
    /\ Replying => Sent2 /\ Len(out1) = 0 /\ Len(out2) = 0

\* The way back, the same for the replies once the catcher has begun to send
\* them; before, the sender has nothing pending but a confirmation.
Backward ==
    /\ ~Replying => /\ j = 0 /\ counter["sender"] = 0 /\ Len(back2) = 0
                    /\ mode = "SIGRT" => Len(back1) = 0
    /\ Replying => /\ mode = "SIGRT" => Len(confirms) = 0
                   /\ counter["sender"] + Len(back1) <= j
                   /\ mode = "SIGRT" => counter["sender"] + Len(back1) = j
    /\ j > 0 => counter["sender"] > 0 \/ Len(back1) > 0
    /\ j <= counter["catcher"]
    /\ cpc = "exited" => j = counter["catcher"]
    /\ Len(back2) > 0 => cpc = "exited"
    /\ spc = "exited" => cpc = "exited" /\ Len(back1) = 0

\* What the numbers that travel with the signals can be.
Numbered ==
    /\ seen <= j
    /\ \A k \in 1 .. Len(back1) : back1[k] \in 0 .. j
    /\ mode = "SIGQUEUE" =>
         /\ \A k \in 1 .. Len(out2) : out2[k] # 0
         /\ Replying => queueing
         /\ counter["sender"] <= seen
         /\ Len(back1) <= 1
         /\ \A k \in 1 .. Len(back1) : seen < back1[k]

\* The one signal under way between the two, in the order of its stages: sent,
\* counted, confirmed, and the confirmation handled too early (mode KILL).
Turn ==
    \/ /\ Len(out1) = 1 /\ cpc = "pause" /\ counter["catcher"] = i - 1
       /\ Len(confirms) = 0 /\ confirmation = 1
    \/ /\ Len(out1) = 0 /\ cpc = "confirm" /\ counter["catcher"] = i
       /\ Len(confirms) = 0 /\ confirmation = 1
    \/ /\ Len(out1) = 0 /\ cpc = "pause" /\ counter["catcher"] = i
       /\ Len(confirms) = 1 /\ confirmation = 1
    \/ /\ Len(out1) = 0 /\ cpc = "pause" /\ counter["catcher"] = i
       /\ Len(confirms) = 0 /\ confirmation = 0

Confirmations ==
    /\ Waiting => confirm /\ Turn
    /\ ~Waiting => /\ confirmation = 0 /\ cpc # "confirm"
                   /\ confirm => Len(out1) = 0 /\ counter["catcher"] = i
                   /\ ~Replying => Len(confirms) = 0

IInv == Shape /\ Quiet /\ Forward /\ Backward /\ Numbered /\ Confirmations

-----------------------------------------------------------------------------
(* One signal sent, one signal delivered *)

\* The two signals of a transmission, for each mode.
LEMMA SignalsOfMode ==
    /\ sig1 \in Signal /\ sig2 \in Signal /\ sig1 # sig2 /\ sig1 < sig2
    /\ mode = "SIGRT" => sig1 = 34 /\ sig2 = 35
    /\ mode # "SIGRT" => sig1 = 10 /\ sig2 = 12
    /\ Signal = {10, 12, 34, 35} /\ RealTime = {34, 35} /\ SIGUSR1 = 10
  BY DEF sig1, sig2, SIGUSR1, SIGUSR2, SIGRTMIN, Signal, RealTime

\* A signal that is sent is queued, or lost because it was pending already.
LEMMA Raised ==
    ASSUME pending \in [Processes -> [Signal -> Seq(Int)]], NEW p \in Processes,
           NEW sig \in Signal, NEW v \in Int, Raise(p, sig, v)
    PROVE  /\ pending' \in [Processes -> [Signal -> Seq(Int)]]
           /\ \A q \in Processes, s \in Signal :
                 q # p \/ s # sig => pending'[q][s] = pending[q][s]
           /\ Len(pending[p][sig]) \in Nat
           /\ \/ /\ sig \notin RealTime /\ Len(pending[p][sig]) > 0
                 /\ pending'[p][sig] = pending[p][sig]
              \/ /\ sig \in RealTime \/ Len(pending[p][sig]) = 0
                 /\ Len(pending'[p][sig]) = Len(pending[p][sig]) + 1
                 /\ \A k \in 1 .. Len(pending[p][sig]) :
                       pending'[p][sig][k] = pending[p][sig][k]
                 /\ pending'[p][sig][Len(pending[p][sig]) + 1] = v
<1> DEFINE old == pending[p][sig]
           new == Append(old, v)
<1>1. old \in Seq(Int) /\ Len(old) \in Nat /\ (Len(old) = 0 <=> old = <<>>)
  <2>1. old \in Seq(Int)
    OBVIOUS
  <2> QED BY <2>1, LenProperties, EmptySeq
<1>2. /\ new \in Seq(Int) /\ Len(new) = Len(old) + 1
      /\ \A k \in 1 .. Len(old) : new[k] = old[k]
      /\ new[Len(old) + 1] = v
  <2> HIDE DEF old
  <2> QED BY <1>1, AppendProperties
<1> HIDE DEF new
<1>3. CASE sig \in RealTime \/ old = <<>>
  <2>1. pending' = [pending EXCEPT ![p][sig] = new]
    BY <1>3 DEF Raise, new
  <2>2. pending'[p][sig] = new
    BY <2>1
  <2>3. /\ pending' \in [Processes -> [Signal -> Seq(Int)]]
        /\ \A q \in Processes, s \in Signal : q # p \/ s # sig => pending'[q][s] = pending[q][s]
    BY <1>2, <2>1
  <2> QED BY <1>1, <1>2, <1>3, <2>2, <2>3
<1>4. CASE ~(sig \in RealTime \/ old = <<>>)
  BY <1>1, <1>4 DEF Raise
<1> QED BY <1>3, <1>4

\* A signal that is delivered is the oldest of its kind.
LEMMA Taken ==
    ASSUME pending \in [Processes -> [Signal -> Seq(Int)]], NEW p \in Processes,
           NEW sig \in Signal, pending[p][sig] # <<>>, pending' = Without(p, sig)
    PROVE  /\ pending' \in [Processes -> [Signal -> Seq(Int)]]
           /\ \A q \in Processes, s \in Signal :
                 q # p \/ s # sig => pending'[q][s] = pending[q][s]
           /\ Len(pending[p][sig]) \in Nat /\ Len(pending[p][sig]) >= 1
           /\ Len(pending'[p][sig]) = Len(pending[p][sig]) - 1
           /\ \A k \in 1 .. Len(pending[p][sig]) - 1 :
                 pending'[p][sig][k] = pending[p][sig][k + 1]
           /\ Value(p, sig) = pending[p][sig][1] /\ Value(p, sig) \in Int
<1> DEFINE old == pending[p][sig]
           new == Tail(old)
<1>1. old \in Seq(Int) /\ Len(old) \in Nat /\ Len(old) >= 1
  BY EmptySeq, LenProperties
<1>2. /\ new \in Seq(Int) /\ Len(new) = Len(old) - 1
      /\ \A k \in 1 .. Len(old) - 1 : new[k] = old[k + 1]
      /\ Head(old) = old[1] /\ Head(old) \in Int
  BY <1>1, HeadTailProperties
<1> HIDE DEF new
<1>3. pending' = [pending EXCEPT ![p][sig] = new]
  BY DEF Without, new
<1>4. pending'[p][sig] = new
  BY <1>3
<1>5. /\ pending' \in [Processes -> [Signal -> Seq(Int)]]
      /\ \A q \in Processes, s \in Signal : q # p \/ s # sig => pending'[q][s] = pending[q][s]
  BY <1>2, <1>3
<1> QED BY <1>1, <1>2, <1>4, <1>5 DEF Value

\* What is pending is counted in natural numbers, and in mode KILL and
\* SIGQUEUE the confirmations are the replies.
LEMMA Channels ==
    ASSUME Shape
    PROVE  /\ "catcher" \in Processes /\ "sender" \in Processes
           /\ \A p \in Processes, sig \in Signal :
                 /\ Len(pending[p][sig]) \in Nat
                 /\ Len(pending[p][sig]) = 0 <=> pending[p][sig] = <<>>
           /\ Len(out1) \in Nat /\ Len(out2) \in Nat /\ Len(back1) \in Nat
           /\ Len(back2) \in Nat /\ Len(confirms) \in Nat
           /\ mode # "SIGRT" => confirms = back1
           /\ counter["catcher"] \in Nat /\ counter["sender"] \in Nat
           /\ i \in Nat /\ num \in Nat
<1>1. "catcher" \in Processes /\ "sender" \in Processes
  BY CountingAssumption
<1>2. \A p \in Processes, sig \in Signal :
        /\ Len(pending[p][sig]) \in Nat
        /\ Len(pending[p][sig]) = 0 <=> pending[p][sig] = <<>>
  <2> SUFFICES ASSUME NEW p \in Processes, NEW sig \in Signal
               PROVE  /\ Len(pending[p][sig]) \in Nat
                      /\ Len(pending[p][sig]) = 0 <=> pending[p][sig] = <<>>
    OBVIOUS
  <2>1. pending[p][sig] \in Seq(Int)
    BY DEF Shape
  <2> QED BY <2>1, EmptySeq, LenProperties
<1>3. mode # "SIGRT" => confirms = back1
  BY DEF confirms, back1, sig1
<1>4. sig1 \in Signal /\ sig2 \in Signal /\ SIGUSR1 \in Signal
  BY SignalsOfMode
<1>5. counter["catcher"] \in Nat /\ counter["sender"] \in Nat /\ i \in Nat /\ num \in Nat
  BY <1>1 DEF Shape
<1> QED BY <1>1, <1>2, <1>3, <1>4, <1>5 DEF out1, out2, back1, back2, confirms

-----------------------------------------------------------------------------
(* The steps *)

\* Both programs start in the inductive invariant.
LEMMA InitIInv == Init => IInv
<1> SUFFICES ASSUME Init PROVE IInv
  OBVIOUS
<1>1. \A sig \in Signal : pending["catcher"][sig] = <<>> /\ pending["sender"][sig] = <<>>
  BY CountingAssumption DEF Init, NothingPending
<1>2. Len(<<>>) = 0
  OBVIOUS
<1>3. Shape
  <2>1. /\ confirm \in BOOLEAN /\ mode \in {"KILL", "SIGQUEUE", "SIGRT"}
        /\ ~(confirm /\ mode = "SIGQUEUE")
    <3>1. PICK program \in Programs : confirm = program[1] /\ mode = program[2]
      BY DEF Init
    <3>2. program \in BOOLEAN \X {"KILL", "SIGQUEUE", "SIGRT"} /\ program # <<TRUE, "SIGQUEUE">>
      BY CountingAssumption
    <3>3. PICK a \in BOOLEAN, b \in {"KILL", "SIGQUEUE", "SIGRT"} : program = <<a, b>>
      BY <3>2
    <3>4. confirm = a /\ mode = b /\ ~(a = TRUE /\ b = "SIGQUEUE")
      BY <3>1, <3>2, <3>3
    <3> QED BY <3>4
  <2>2. pending \in [Processes -> [Signal -> Seq(Int)]]
    BY DEF Init, NothingPending
  <2>3. num \in 0 .. MaxNum /\ i \in 0 .. num
    BY CountingAssumption DEF Init
  <2> QED BY <2>1, <2>2, <2>3 DEF Init, Shape
<1>4. counter["catcher"] = 0 /\ counter["sender"] = 0
  BY CountingAssumption DEF Init
<1>5. /\ Len(out1) = 0 /\ Len(out2) = 0 /\ Len(back1) = 0 /\ Len(back2) = 0
      /\ Len(confirms) = 0 /\ Quiet
  BY <1>1, <1>2, SignalsOfMode DEF out1, out2, back1, back2, confirms, Quiet
<1>6. /\ spc = "send" /\ cpc = "pause" /\ i = 0 /\ j = 0 /\ seen = 0 /\ confirmation = 0
      /\ ~Sent2 /\ ~Replying /\ ~Waiting
  BY DEF Init, Sent2, Replying, Waiting
<1>7. Forward
  BY <1>4, <1>5, <1>6 DEF Forward
<1>8. Backward
  BY <1>4, <1>5, <1>6 DEF Backward
<1>9. Numbered
  BY <1>4, <1>5, <1>6 DEF Numbered
<1>10. Confirmations
  BY <1>4, <1>5, <1>6 DEF Confirmations
<1> QED BY <1>3, <1>5, <1>7, <1>8, <1>9, <1>10 DEF IInv

\* The sender sends one more sig1.
LEMMA SendSig1IInv ==
    ASSUME IInv, SendSig1
    PROVE  IInv' /\ (confirm => counter["catcher"] = i)
<1>1. Shape /\ Quiet /\ Forward /\ Backward /\ Numbered /\ Confirmations
  BY DEF IInv
<1>2. /\ spc = "send" /\ i < num /\ i' = i + 1
      /\ UNCHANGED <<confirm, mode, num, counter, seen, cpc, j, queueing>>
      /\ confirm => spc' = "suspend" /\ confirmation' = 1
      /\ ~confirm => spc' = spc /\ confirmation' = confirmation
  BY DEF SendSig1, more_to_send, await_confirmation, parameters, catcherVars
<1>3. sig1' = sig1 /\ sig2' = sig2
  BY <1>2 DEF sig1, sig2
<1>4. /\ ~Sent2 /\ ~Replying /\ ~Sent2' /\ ~Replying' /\ ~Waiting
      /\ Waiting' <=> confirm
  BY <1>1, <1>2 DEF Sent2, Replying, Forward, Waiting
<1>5. (IF mode = "SIGQUEUE" THEN i + 1 ELSE 0) \in Int
  BY <1>1, Channels
<1>6. /\ pending' \in [Processes -> [Signal -> Seq(Int)]]
      /\ \A q \in Processes, s \in Signal :
            q # "catcher" \/ s # sig1 => pending'[q][s] = pending[q][s]
      /\ Len(out1) \in Nat
      /\ \/ mode # "SIGRT" /\ Len(out1) > 0 /\ out1' = out1
         \/ (mode = "SIGRT" \/ Len(out1) = 0) /\ Len(out1') = Len(out1) + 1
  <2>1. Raise("catcher", sig1, IF mode = "SIGQUEUE" THEN i + 1 ELSE 0)
    BY DEF SendSig1
  <2>2. sig1 \in RealTime <=> mode = "SIGRT"
    BY SignalsOfMode
  <2>3. pending \in [Processes -> [Signal -> Seq(Int)]] /\ "catcher" \in Processes /\ sig1 \in Signal
    BY <1>1, Channels, SignalsOfMode DEF Shape
  <2> HIDE DEF sig1
  <2> QED BY <1>3, <1>5, <2>1, <2>2, <2>3, Raised DEF out1
<1>7. out2' = out2 /\ back1' = back1 /\ back2' = back2 /\ confirms' = confirms /\ Quiet'
  <2>1. /\ \A s \in Signal : pending'["sender"][s] = pending["sender"][s]
        /\ \A s \in Signal : s # sig1 => pending'["catcher"][s] = pending["catcher"][s]
    BY <1>1, <1>6, Channels
  <2> QED BY <1>1, <1>3, <2>1, SignalsOfMode DEF out2, back1, back2, confirms, Quiet
<1>8. Shape'
  BY <1>1, <1>2, <1>6 DEF Shape
<1>9. Len(out1') \in Nat /\ Len(out1') > 0
  BY <1>6
<1>10. counter["catcher"] + Len(out1') <= i + 1
  <2>1. counter["catcher"] + Len(out1) <= i /\ counter["catcher"] \in Nat /\ i \in Nat
    BY <1>1, Channels DEF Forward
  <2> QED BY <1>6, <2>1
<1>11. Forward'
  <2>1. mode = "SIGRT" => counter["catcher"] + Len(out1') = i + 1
    <3>1. mode = "SIGRT" => counter["catcher"] + Len(out1) = i
      BY <1>1 DEF Forward
    <3>2. counter["catcher"] \in Nat /\ i \in Nat
      BY <1>1, Channels
    <3>3. mode = "SIGRT" => Len(out1') = Len(out1) + 1 /\ Len(out1) \in Nat
      BY <1>6
    <3> QED BY <3>1, <3>2, <3>3
  <2>2. Len(out2') <= 1 /\ ~(Len(out2') > 0)
    BY <1>1, <1>4, <1>7, Channels DEF Forward
  <2> QED BY <1>2, <1>4, <1>9, <1>10, <2>1, <2>2 DEF Forward
<1>12. Backward'
  BY <1>1, <1>2, <1>4, <1>7 DEF Backward, Sent2
<1>13. Numbered'
  BY <1>1, <1>2, <1>4, <1>7 DEF Numbered
<1>14. confirm => counter["catcher"] = i /\ Len(out1) = 0
  BY <1>1, <1>4 DEF Confirmations
<1>15. Confirmations'
  <2>1. CASE confirm
    <3>1. Len(out1') = 1 /\ cpc = "pause" /\ Len(confirms) = 0
      <4>1. cpc # "confirm" /\ Len(confirms) = 0
        BY <1>1, <1>4 DEF Confirmations
      <4>2. cpc = "pause"
        BY <1>1, <1>4, <4>1 DEF Shape, Replying
      <4> QED BY <1>6, <1>14, <2>1, <4>1, <4>2
    <3>2. i = i' - 1
      BY <1>1, <1>2, Channels
    <3>3. Turn'
      BY <1>2, <1>7, <1>14, <2>1, <3>1, <3>2 DEF Turn
    <3> QED BY <1>2, <1>4, <2>1, <3>3 DEF Confirmations
  <2>2. CASE ~confirm
    BY <1>1, <1>2, <1>4, <1>7, <2>2 DEF Confirmations
  <2> QED BY <2>1, <2>2
<1> QED BY <1>7, <1>8, <1>11, <1>12, <1>13, <1>14, <1>15 DEF IInv

\* The sender waits: the signal under way stays where it is.
LEMMA SuspendIInv == IInv /\ Suspend => IInv'
<1> SUFFICES ASSUME IInv, Suspend PROVE IInv'
  OBVIOUS
<1>1. /\ spc = "suspend" /\ spc' = "suspended"
      /\ UNCHANGED <<pending, confirm, mode, num, i, confirmation, counter, seen, cpc, j, queueing>>
  BY DEF Suspend, parameters, catcherVars
<1>2. sig1' = sig1 /\ sig2' = sig2
  BY <1>1 DEF sig1, sig2
<1>3. /\ Waiting /\ Waiting' /\ ~Sent2 /\ ~Sent2' /\ (Replying' <=> Replying)
      /\ out1' = out1 /\ out2' = out2 /\ back1' = back1 /\ back2' = back2
      /\ confirms' = confirms
  BY <1>1, <1>2 DEF Waiting, Sent2, Replying, out1, out2, back1, back2, confirms
<1>4. Shape' /\ Quiet'
  BY <1>1, <1>2 DEF IInv, Shape, Quiet
<1>5. Forward'
  BY <1>1, <1>3 DEF IInv, Forward
<1>6. Backward' /\ Numbered'
  BY <1>1, <1>3 DEF IInv, Backward, Numbered
<1>7. Confirmations'
  BY <1>1, <1>3 DEF IInv, Confirmations, Turn
<1> QED BY <1>4, <1>5, <1>6, <1>7 DEF IInv

\* The sender ends the transmission: sig2 is the only one ever sent.
LEMMA SendSig2IInv == IInv /\ SendSig2 => IInv'
<1> SUFFICES ASSUME IInv, SendSig2 PROVE IInv'
  OBVIOUS
<1> DEFINE v == IF mode = "SIGQUEUE" THEN -1 ELSE 0
<1>1. Shape /\ Quiet /\ Forward /\ Backward /\ Numbered /\ Confirmations
  BY DEF IInv
<1>2. /\ spc = "send" /\ i = num /\ spc' = "pause"
      /\ UNCHANGED <<confirm, mode, num, i, confirmation, counter, seen, cpc, j, queueing>>
  BY DEF SendSig2, parameters, catcherVars
<1>3. sig1' = sig1 /\ sig2' = sig2
  BY <1>2 DEF sig1, sig2
<1>4. ~Sent2 /\ Sent2' /\ ~Waiting /\ ~Waiting' /\ ~Replying /\ ~Replying'
  BY <1>1, <1>2 DEF Sent2, Replying, Forward, Waiting
<1>5. Len(out2) = 0
  BY <1>1, <1>4, Channels DEF Forward
<1>6. /\ pending' \in [Processes -> [Signal -> Seq(Int)]]
      /\ \A q \in Processes, s \in Signal :
            q # "catcher" \/ s # sig2 => pending'[q][s] = pending[q][s]
      /\ Len(out2') = 1 /\ out2'[1] = v
  <2>1. Raise("catcher", sig2, v)
    BY DEF SendSig2
  <2>2. pending \in [Processes -> [Signal -> Seq(Int)]] /\ "catcher" \in Processes /\ sig2 \in Signal
    BY <1>1, Channels, SignalsOfMode DEF Shape
  <2>3. v \in Int
    OBVIOUS
  <2> HIDE DEF sig2, v
  <2>4. /\ pending' \in [Processes -> [Signal -> Seq(Int)]]
        /\ \A q \in Processes, s \in Signal :
              q # "catcher" \/ s # sig2 => pending'[q][s] = pending[q][s]
        /\ \/ Len(pending["catcher"][sig2]) > 0
           \/ /\ Len(pending'["catcher"][sig2]) = Len(pending["catcher"][sig2]) + 1
              /\ pending'["catcher"][sig2][Len(pending["catcher"][sig2]) + 1] = v
    BY <2>1, <2>2, <2>3, Raised
  <2>5. Len(out2') = 0 + 1 /\ out2'[0 + 1] = v
    BY <1>3, <1>5, <2>4 DEF out2
  <2> QED BY <2>4, <2>5
<1>7. out1' = out1 /\ back1' = back1 /\ back2' = back2 /\ confirms' = confirms /\ Quiet'
  <2>1. /\ \A s \in Signal : pending'["sender"][s] = pending["sender"][s]
        /\ \A s \in Signal : s # sig2 => pending'["catcher"][s] = pending["catcher"][s]
    BY <1>1, <1>6, Channels
  <2> QED BY <1>1, <1>3, <2>1, SignalsOfMode DEF out1, back1, back2, confirms, Quiet
<1>8. Shape'
  BY <1>1, <1>2, <1>6 DEF Shape
<1>9. Forward'
  <2>1. Len(out2') = 1
    BY <1>6
  <2> QED BY <1>1, <1>2, <1>4, <1>7, <2>1 DEF Forward
<1>10. Backward'
  BY <1>1, <1>2, <1>4, <1>7 DEF Backward
<1>11. Numbered'
  <2>1. mode = "SIGQUEUE" => \A k \in 1 .. Len(out2') : out2'[k] # 0
    <3> SUFFICES ASSUME mode = "SIGQUEUE", NEW k \in 1 .. Len(out2') PROVE out2'[k] # 0
      OBVIOUS
    <3>1. Len(out2') = 1 /\ out2'[1] = v
      BY <1>6
    <3>2. k = 1
      BY <3>1
    <3> QED BY <3>1, <3>2
  <2> QED BY <1>1, <1>2, <1>4, <1>7, <2>1 DEF Numbered
<1>12. Confirmations'
  BY <1>1, <1>2, <1>4, <1>7 DEF Confirmations
<1> QED BY <1>7, <1>8, <1>9, <1>10, <1>11, <1>12 DEF IInv

\* The sender's handler takes a reply or a confirmation: it counts only the
\* replies.
LEMMA SenderHandlesIInv ==
    ASSUME IInv, NEW sig \in Signal, SenderHandles(sig)
    PROVE  /\ IInv'
           /\ confirm /\ counter'["sender"] # counter["sender"] => Replying
<1>1. Shape /\ Quiet /\ Forward /\ Backward /\ Numbered /\ Confirmations
  BY DEF IInv
<1>2. /\ UNCHANGED <<confirm, mode, num, i, cpc, j, queueing>>
      /\ confirmation' = 0
  BY DEF SenderHandles, parameters, catcherVars
<1>3. sig1' = sig1 /\ sig2' = sig2
  BY <1>2 DEF sig1, sig2
<1>4. /\ pending["sender"][sig] # <<>> /\ pending' = Without("sender", sig)
      /\ sig \in SenderOpen /\ \A s \in SenderOpen : s < sig => pending["sender"][s] = <<>>
  BY DEF SenderHandles, Delivers
<1>5. spc # "exited"
  BY <1>4 DEF SenderOpen
<1>6. Replying' <=> Replying
  BY <1>2 DEF Replying
<1>7. /\ pending' \in [Processes -> [Signal -> Seq(Int)]]
      /\ \A q \in Processes, s \in Signal :
            q # "sender" \/ s # sig => pending'[q][s] = pending[q][s]
      /\ Len(pending["sender"][sig]) \in Nat /\ Len(pending["sender"][sig]) >= 1
      /\ Len(pending'["sender"][sig]) = Len(pending["sender"][sig]) - 1
      /\ \A k \in 1 .. Len(pending["sender"][sig]) - 1 :
            pending'["sender"][sig][k] = pending["sender"][sig][k + 1]
      /\ Value("sender", sig) = pending["sender"][sig][1]
  <2>1. pending \in [Processes -> [Signal -> Seq(Int)]] /\ "sender" \in Processes
    BY <1>1, Channels DEF Shape
  <2> QED BY <1>4, <2>1, Taken
<1>8. out1' = out1 /\ out2' = out2 /\ Quiet'
  <2>1. /\ \A s \in Signal : pending'["catcher"][s] = pending["catcher"][s]
        /\ \A s \in Signal : s # sig => pending'["sender"][s] = pending["sender"][s]
    BY <1>1, <1>7, Channels
  <2>2. sig = sig1 \/ sig = sig2 \/ sig = SIGUSR1
    BY <1>1, <1>4 DEF Quiet
  <2> QED BY <1>1, <1>3, <2>1, <2>2, SignalsOfMode DEF out1, out2, Quiet
<1>9. /\ sig # sig1 => back1' = back1
      /\ sig # sig2 => back2' = back2
      /\ sig # SIGUSR1 => confirms' = confirms
  <2>1. \A s \in Signal : s # sig => pending'["sender"][s] = pending["sender"][s]
    BY <1>1, <1>7, Channels
  <2> QED BY <1>1, <1>3, <2>1, SignalsOfMode DEF back1, back2, confirms
\* sig2 ends the sender.
<1>10. CASE sig = sig2
  <2>1. Len(back2) > 0 /\ Len(back2) \in Nat /\ Len(back2') = Len(back2) - 1
    BY <1>3, <1>7, <1>10 DEF back2
  <2>2. /\ cpc = "exited" /\ Replying /\ Sent2 /\ spc = "pause"
        /\ ~Waiting /\ ~Waiting' /\ Sent2' /\ spc' = "exited"
    <3>1. cpc = "exited"
      BY <1>1, <2>1 DEF Backward
    <3>2. Sent2 /\ Replying
      BY <1>1, <3>1 DEF Forward, Replying
    <3>3. spc' = "exited"
      BY <1>10 DEF SenderHandles
    <3> QED BY <1>5, <3>1, <3>2, <3>3 DEF Sent2, Waiting
  <2>3. Len(back1) = 0
    <3>1. sig1 \in SenderOpen /\ sig1 < sig
      BY <1>10, <2>2, SignalsOfMode DEF SenderOpen
    <3>2. pending["sender"][sig1] = <<>>
      BY <1>4, <3>1
    <3> QED BY <1>1, <3>2, Channels, SignalsOfMode DEF back1
  <2>4. sig # sig1 /\ sig # SIGUSR1
    BY <1>10, SignalsOfMode
  <2>5. seen' = seen /\ counter' = counter
    BY <2>4 DEF SenderHandles
  <2>6. Shape'
    BY <1>1, <1>2, <1>7, <2>2, <2>5 DEF Shape
  <2>7. Forward'
    BY <1>1, <1>2, <1>6, <1>8, <2>2, <2>5 DEF Forward
  <2>8. Backward'
    BY <1>1, <1>2, <1>6, <1>9, <2>2, <2>3, <2>4, <2>5 DEF Backward
  <2>9. Numbered'
    BY <1>1, <1>2, <1>6, <1>8, <1>9, <2>4, <2>5 DEF Numbered
  <2>10. Confirmations'
    BY <1>1, <1>2, <1>6, <1>8, <2>2, <2>5 DEF Confirmations
  <2> QED BY <1>8, <2>5, <2>6, <2>7, <2>8, <2>9, <2>10 DEF IInv
\* A reply is counted.
<1>11. CASE sig = sig1 /\ Replying
  <2>1. /\ spc = "pause" /\ spc' = spc /\ Sent2 /\ Sent2' /\ ~Waiting /\ ~Waiting'
        /\ confirmation = 0
    <3>1. Sent2 /\ spc = "pause"
      BY <1>1, <1>5, <1>11 DEF Forward, Sent2
    <3>2. ~Waiting /\ confirmation = 0
      BY <1>1, <3>1 DEF Waiting, Confirmations
    <3>3. spc' = spc
      BY <1>11, <3>1, SignalsOfMode DEF SenderHandles
    <3> QED BY <3>1, <3>2, <3>3 DEF Sent2, Waiting
  <2>2. sig # sig2 /\ (mode = "SIGRT" => sig # SIGUSR1)
    BY <1>11, SignalsOfMode
  <2>3. /\ Len(back1) \in Nat /\ Len(back1) >= 1 /\ Len(back1') = Len(back1) - 1
        /\ \A k \in 1 .. Len(back1) - 1 : back1'[k] = back1[k + 1]
        /\ Value("sender", sig) = back1[1]
    BY <1>3, <1>7, <1>11 DEF back1
  <2>4. seen' = IF back1[1] # 0 THEN back1[1] ELSE seen
    BY <1>11, <2>3 DEF SenderHandles
  <2>5. counter' = [counter EXCEPT !["sender"] = @ + 1]
    BY <1>11, <2>1 DEF SenderHandles
  <2>6. /\ counter'["catcher"] = counter["catcher"]
        /\ counter'["sender"] = counter["sender"] + 1 /\ counter["sender"] \in Nat
        /\ counter' \in [Processes -> Nat] /\ counter["catcher"] \in Nat
    <3>1. counter["sender"] \in Nat
      BY <1>1, Channels
    <3> QED BY <1>1, <2>5, <3>1, CountingAssumption DEF Shape
  <2>7. back1[1] \in 0 .. j /\ j \in Nat /\ seen \in Nat /\ seen <= j
    BY <1>1, <2>3 DEF Numbered, Shape
  <2>8. seen' \in Nat /\ seen' <= j
    BY <2>4, <2>7
  <2>9. Shape'
    BY <1>1, <1>2, <1>7, <2>1, <2>6, <2>8 DEF Shape
  <2>10. Forward'
    BY <1>1, <1>2, <1>6, <1>8, <2>1, <2>6 DEF Forward
  <2>11. Backward'
    <3>1. counter["sender"] + Len(back1) <= j
      BY <1>1, <1>11 DEF Backward
    <3>2. mode = "SIGRT" => counter["sender"] + Len(back1) = j
      BY <1>1, <1>11 DEF Backward
    <3>3. /\ counter'["sender"] + Len(back1') <= j
          /\ mode = "SIGRT" => counter'["sender"] + Len(back1') = j
          /\ counter'["sender"] > 0
      <4>1. Len(back1) \in Nat /\ Len(back1') = Len(back1) - 1
        BY <2>3
      <4> QED BY <2>6, <3>1, <3>2, <4>1
    <3>4. mode = "SIGRT" => Len(confirms') = 0
      BY <1>1, <1>9, <1>11, <2>2 DEF Backward
    <3> QED BY <1>1, <1>2, <1>6, <1>9, <1>11, <2>1, <2>2, <2>6, <3>3, <3>4 DEF Backward
  <2>12. Numbered'
    <3>1. \A k \in 1 .. Len(back1') : k + 1 \in 1 .. Len(back1) /\ back1'[k] = back1[k + 1]
      BY <2>3
    <3>2. \A k \in 1 .. Len(back1') : back1'[k] \in 0 .. j
      BY <1>1, <3>1 DEF Numbered
    <3>3. mode = "SIGQUEUE" => counter'["sender"] <= seen' /\ Len(back1') = 0
      <4> SUFFICES ASSUME mode = "SIGQUEUE" PROVE counter'["sender"] <= seen' /\ Len(back1') = 0
        OBVIOUS
      <4>1. /\ counter["sender"] <= seen /\ Len(back1) <= 1
            /\ \A k \in 1 .. Len(back1) : seen < back1[k]
        BY <1>1 DEF Numbered
      <4>2. Len(back1) = 1 /\ Len(back1') = 0
        BY <2>3, <4>1
      <4>3. seen < back1[1]
        BY <4>1, <4>2
      <4>4. seen' = back1[1]
        BY <2>4, <2>7, <4>3
      <4> QED BY <2>6, <2>7, <4>1, <4>2, <4>3, <4>4
    <3> QED BY <1>1, <1>2, <1>6, <1>8, <2>8, <3>2, <3>3 DEF Numbered
  <2>13. Confirmations'
    BY <1>1, <1>2, <1>6, <1>8, <1>11, <2>1, <2>6 DEF Confirmations
  <2> QED BY <1>8, <1>11, <2>9, <2>10, <2>11, <2>12, <2>13 DEF IInv
\* A confirmation lets the sender go on, or comes too early.
<1>12. CASE sig # sig2 /\ ~(sig = sig1 /\ Replying)
  <2>1. sig = SIGUSR1 /\ Len(confirms) > 0 /\ Len(confirms') = Len(confirms) - 1
    <3>1. sig = sig1 \/ sig = SIGUSR1
      BY <1>1, <1>4, <1>12 DEF Quiet
    <3>2. CASE sig = SIGUSR1
      BY <1>7, <3>2 DEF confirms
    <3>3. CASE sig = sig1 /\ sig # SIGUSR1
      <4>1. mode = "SIGRT" /\ Len(back1) > 0 /\ Len(back1) \in Nat /\ ~Replying
        BY <1>7, <1>12, <3>3, SignalsOfMode DEF back1
      <4> QED BY <1>1, <4>1 DEF Backward
    <3> QED BY <3>1, <3>2, <3>3
  <2>2. Waiting
    <3>1. CASE Replying
      <4>1. mode # "SIGRT" => sig = sig1
        BY <2>1, SignalsOfMode
      <4>2. mode = "SIGRT" /\ Len(confirms) = 0
        BY <1>1, <1>12, <3>1, <4>1 DEF Backward
      <4> QED BY <2>1, <4>2
    <3>2. CASE ~Replying
      BY <1>1, <2>1, <3>2 DEF Confirmations
    <3> QED BY <3>1, <3>2
  <2>3. /\ confirm /\ Len(out1) = 0 /\ cpc = "pause" /\ counter["catcher"] = i
        /\ Len(confirms) = 1 /\ confirmation = 1
    BY <1>1, <2>1, <2>2 DEF Confirmations, Turn
  <2>4. Len(confirms') = 0 /\ ~Replying /\ ~Sent2
    BY <2>1, <2>2, <2>3 DEF Replying, Waiting, Sent2
  <2>5. counter' = counter
    BY <2>3 DEF SenderHandles
  <2>6. spc' = (IF spc = "suspended" THEN "send" ELSE spc) /\ ~Sent2'
    BY <1>12, <2>2 DEF SenderHandles, Waiting, Sent2
  <2>7. j = 0 /\ counter["sender"] = 0 /\ Len(back2) = 0 /\ (mode = "SIGRT" => Len(back1) = 0)
    BY <1>1, <2>4 DEF Backward
  <2>8. /\ Len(back1') = 0 /\ Len(back2') = 0
    <3>1. CASE mode = "SIGRT"
      BY <1>9, <1>12, <2>1, <2>7, <3>1, SignalsOfMode
    <3>2. CASE mode # "SIGRT"
      <4>1. confirms' = back1'
        BY <1>2, <1>3, <3>2 DEF confirms, back1, sig1
      <4> QED BY <1>9, <1>12, <2>4, <2>7, <4>1
    <3> QED BY <3>1, <3>2
  <2>9. seen' = seen
    <3>1. CASE sig # sig1
      BY <3>1 DEF SenderHandles
    <3>2. CASE sig = sig1
      <4>1. Value("sender", sig) = back1[1] /\ Len(back1) >= 1 /\ Len(back1) \in Nat
        BY <1>7, <3>2 DEF back1
      <4>2. back1[1] \in 0 .. 0
        BY <1>1, <2>7, <4>1 DEF Numbered
      <4> QED BY <3>2, <4>1, <4>2 DEF SenderHandles
    <3> QED BY <3>1, <3>2
  <2>10. Shape'
    BY <1>1, <1>2, <1>7, <2>5, <2>6, <2>9 DEF Shape
  <2>11. Forward'
    BY <1>1, <1>2, <1>6, <1>8, <2>4, <2>5, <2>6 DEF Forward
  <2>12. Backward'
    <3>1. cpc' # "exited" /\ spc' # "exited" /\ 0 <= counter'["catcher"]
      BY <1>1, <1>2, <2>3, <2>5, <2>6, Channels DEF Sent2
    <3> QED BY <1>2, <1>6, <2>4, <2>5, <2>7, <2>8, <3>1 DEF Backward
  <2>13. Numbered'
    BY <1>1, <1>2, <1>6, <1>8, <2>5, <2>8, <2>9 DEF Numbered
  <2>14. Confirmations'
    <3>1. Waiting' => Turn'
      BY <1>2, <1>8, <2>3, <2>4, <2>5 DEF Turn
    <3> QED BY <1>2, <1>6, <1>8, <2>3, <2>4, <2>5, <3>1 DEF Confirmations
  <2> QED BY <1>8, <2>5, <2>10, <2>11, <2>12, <2>13, <2>14 DEF IInv
<1> QED BY <1>10, <1>11, <1>12

\* The catcher counts a sig1.
LEMMA CatchSig1IInv == \A sig \in Signal : IInv /\ CatchSig1(sig) => IInv'
<1> SUFFICES ASSUME NEW sig \in Signal, IInv, CatchSig1(sig) PROVE IInv'
  OBVIOUS
<1>1. Shape /\ Quiet /\ Forward /\ Backward /\ Numbered /\ Confirmations
  BY DEF IInv
<1>2. /\ UNCHANGED <<confirm, mode, num, spc, i, confirmation, seen, j, queueing>>
      /\ cpc = "pause" /\ cpc' = IF confirm THEN "confirm" ELSE "pause"
  BY DEF CatchSig1, parameters, senderVars
<1>3. sig1' = sig1 /\ sig2' = sig2
  BY <1>2 DEF sig1, sig2
<1>4. /\ pending["catcher"][sig] # <<>> /\ pending' = Without("catcher", sig)
      /\ sig = 10 \/ sig = 34
  BY DEF CatchSig1, Delivers, SIGUSR1, SIGRTMIN
<1>5. sig = sig1
  BY <1>1, <1>4, SignalsOfMode DEF Quiet, Shape
<1>6. /\ pending' \in [Processes -> [Signal -> Seq(Int)]]
      /\ \A q \in Processes, s \in Signal :
            q # "catcher" \/ s # sig => pending'[q][s] = pending[q][s]
      /\ Len(out1) \in Nat /\ Len(out1) >= 1 /\ Len(out1') = Len(out1) - 1
  <2>1. pending \in [Processes -> [Signal -> Seq(Int)]] /\ "catcher" \in Processes
    BY <1>1, Channels DEF Shape
  <2> QED BY <1>3, <1>4, <1>5, <2>1, Taken DEF out1
<1>7. out2' = out2 /\ back1' = back1 /\ back2' = back2 /\ confirms' = confirms /\ Quiet'
  <2>1. /\ \A s \in Signal : pending'["sender"][s] = pending["sender"][s]
        /\ \A s \in Signal : s # sig => pending'["catcher"][s] = pending["catcher"][s]
    BY <1>1, <1>6, Channels
  <2> QED BY <1>1, <1>3, <1>5, <2>1, SignalsOfMode DEF out2, back1, back2, confirms, Quiet
<1>8. /\ counter' \in [Processes -> Nat] /\ counter'["sender"] = counter["sender"]
      /\ counter'["catcher"] = counter["catcher"] + 1 /\ counter["catcher"] \in Nat
  <2>1. counter["catcher"] \in Nat /\ counter' = [counter EXCEPT !["catcher"] = @ + 1]
    BY <1>1, Channels DEF CatchSig1
  <2> QED BY <1>1, <2>1, CountingAssumption DEF Shape
<1>9. ~Replying /\ ~Replying' /\ (Waiting' <=> Waiting) /\ (Sent2' <=> Sent2)
  BY <1>2 DEF Replying, Waiting, Sent2
<1>10. counter'["catcher"] + Len(out1') = counter["catcher"] + Len(out1) /\ Len(out1') \in Nat
  BY <1>6, <1>8
<1>11. Shape'
  BY <1>1, <1>2, <1>6, <1>8 DEF Shape
<1>12. Forward'
  <2>1. counter'["catcher"] > 0
    BY <1>8
  <2> QED BY <1>1, <1>2, <1>7, <1>9, <1>10, <2>1 DEF Forward
<1>13. Backward'
  <2>1. j = 0 /\ 0 <= counter'["catcher"] /\ spc # "exited" /\ cpc' # "exited"
    BY <1>1, <1>2, <1>8, <1>9 DEF Backward
  <2> QED BY <1>1, <1>2, <1>7, <1>8, <1>9, <2>1 DEF Backward
<1>14. Numbered'
  BY <1>1, <1>2, <1>7, <1>8, <1>9 DEF Numbered
<1>15. Confirmations'
  <2>1. CASE confirm
    <3>1. Waiting
      BY <1>1, <1>6, <2>1 DEF Confirmations
    <3>2. Len(out1) = 1 /\ counter["catcher"] = i - 1 /\ Len(confirms) = 0 /\ confirmation = 1
      BY <1>1, <1>6, <3>1 DEF Confirmations, Turn
    <3>3. Len(out1') = 0 /\ counter'["catcher"] = i
      <4>1. i \in Nat
        BY <1>1, Channels
      <4> QED BY <1>6, <1>8, <3>2, <4>1
    <3>4. Turn'
      BY <1>2, <1>7, <2>1, <3>2, <3>3 DEF Turn
    <3> QED BY <1>2, <1>9, <2>1, <3>1, <3>4 DEF Confirmations
  <2>2. CASE ~confirm
    BY <1>1, <1>2, <1>7, <1>9, <2>2 DEF Confirmations
  <2> QED BY <2>1, <2>2
<1> QED BY <1>7, <1>11, <1>12, <1>13, <1>14, <1>15 DEF IInv

\* The catcher confirms: in mode KILL the confirmation looks like a reply.
LEMMA ConfirmIInv == IInv /\ Confirm => IInv'
<1> SUFFICES ASSUME IInv, Confirm PROVE IInv'
  OBVIOUS
<1>1. Shape /\ Quiet /\ Forward /\ Backward /\ Numbered /\ Confirmations
  BY DEF IInv
<1>2. /\ UNCHANGED <<confirm, mode, num, spc, i, confirmation, seen, counter, j, queueing>>
      /\ cpc = "confirm" /\ cpc' = "pause"
  BY DEF Confirm, parameters, senderVars
<1>3. sig1' = sig1 /\ sig2' = sig2
  BY <1>2 DEF sig1, sig2
<1>4. /\ Waiting /\ Waiting' /\ ~Replying /\ ~Replying' /\ ~Sent2 /\ ~Sent2'
  BY <1>1, <1>2 DEF Confirmations, Waiting, Replying, Sent2
<1>5. /\ confirm /\ Len(out1) = 0 /\ counter["catcher"] = i
      /\ Len(confirms) = 0 /\ confirmation = 1
  BY <1>1, <1>2, <1>4 DEF Confirmations, Turn
<1>6. /\ pending' \in [Processes -> [Signal -> Seq(Int)]]
      /\ \A q \in Processes, s \in Signal :
            q # "sender" \/ s # SIGUSR1 => pending'[q][s] = pending[q][s]
      /\ Len(confirms') = 1 /\ confirms'[1] = 0
  <2>1. pending \in [Processes -> [Signal -> Seq(Int)]] /\ "sender" \in Processes
    BY <1>1, Channels DEF Shape
  <2>2. Raise("sender", SIGUSR1, 0) /\ SIGUSR1 \in Signal
    BY SignalsOfMode DEF Confirm
  <2>3. /\ pending' \in [Processes -> [Signal -> Seq(Int)]]
        /\ \A q \in Processes, s \in Signal :
              q # "sender" \/ s # SIGUSR1 => pending'[q][s] = pending[q][s]
        /\ \/ Len(pending["sender"][SIGUSR1]) > 0
           \/ /\ Len(pending'["sender"][SIGUSR1]) = Len(pending["sender"][SIGUSR1]) + 1
              /\ pending'["sender"][SIGUSR1][Len(pending["sender"][SIGUSR1]) + 1] = 0
    BY <2>1, <2>2, Raised
  <2>4. Len(confirms') = 0 + 1 /\ confirms'[0 + 1] = 0
    BY <1>5, <2>3 DEF confirms
  <2> QED BY <2>3, <2>4
<1>7. /\ out1' = out1 /\ out2' = out2 /\ back2' = back2 /\ Quiet'
      /\ mode = "SIGRT" => back1' = back1
      /\ mode # "SIGRT" => back1' = confirms'
  <2>1. /\ \A s \in Signal : pending'["catcher"][s] = pending["catcher"][s]
        /\ \A s \in Signal : s # SIGUSR1 => pending'["sender"][s] = pending["sender"][s]
    BY <1>1, <1>6, Channels
  <2> QED BY <1>1, <1>3, <2>1, SignalsOfMode DEF out1, out2, back1, back2, confirms, Quiet
<1>8. Shape'
  BY <1>1, <1>2, <1>6 DEF Shape
<1>9. Forward'
  BY <1>1, <1>2, <1>4, <1>7 DEF Forward
<1>10. Backward'
  <2>1. j = 0
    BY <1>1, <1>4 DEF Backward
  <2> QED BY <1>1, <1>2, <1>4, <1>7, <2>1 DEF Backward
<1>11. Numbered'
  <2>1. mode # "SIGQUEUE" /\ mode' = mode /\ seen' <= j' /\ j \in Nat /\ j' = j
    BY <1>1, <1>2, <1>5 DEF Shape, Numbered
  <2>2. \A k \in 1 .. Len(back1') : back1'[k] \in 0 .. j
    <3>1. CASE mode = "SIGRT"
      BY <1>1, <1>7, <3>1 DEF Numbered
    <3>2. CASE mode # "SIGRT"
      <4>1. Len(back1') = 1 /\ back1'[1] = 0
        BY <1>6, <1>7, <3>2
      <4>2. \A k \in 1 .. Len(back1') : k = 1
        BY <4>1
      <4> QED BY <2>1, <4>1, <4>2
    <3> QED BY <3>1, <3>2
  <2> QED BY <2>1, <2>2 DEF Numbered
<1>12. Confirmations'
  <2>1. Len(confirms') = 1
    BY <1>6
  <2>2. Turn'
    BY <1>2, <1>5, <1>7, <2>1 DEF Turn
  <2> QED BY <1>2, <1>4, <1>5, <2>2 DEF Confirmations
<1> QED BY <1>7, <1>8, <1>9, <1>10, <1>11, <1>12 DEF IInv

\* The catcher takes sig2: no sig1 is pending any more.
LEMMA CatchSig2IInv == \A sig \in Signal : IInv /\ CatchSig2(sig) => IInv'
<1> SUFFICES ASSUME NEW sig \in Signal, IInv, CatchSig2(sig) PROVE IInv'
  OBVIOUS
<1>1. Shape /\ Quiet /\ Forward /\ Backward /\ Numbered /\ Confirmations
  BY DEF IInv
<1>2. /\ UNCHANGED <<confirm, mode, num, spc, i, confirmation, seen, counter, j>>
      /\ cpc = "pause" /\ cpc' = "reply"
      /\ queueing' = (Value("catcher", sig) # 0)
  BY DEF CatchSig2, parameters, senderVars
<1>3. sig1' = sig1 /\ sig2' = sig2
  BY <1>2 DEF sig1, sig2
<1>4. /\ pending["catcher"][sig] # <<>> /\ pending' = Without("catcher", sig)
      /\ \A s \in Signal : s < sig => pending["catcher"][s] = <<>>
      /\ sig = 12 \/ sig = 35
  BY DEF CatchSig2, Delivers, SIGUSR2, SIGRTMIN
<1>5. sig = sig2
  BY <1>1, <1>4, SignalsOfMode DEF Quiet, Shape
<1>6. /\ pending' \in [Processes -> [Signal -> Seq(Int)]]
      /\ \A q \in Processes, s \in Signal :
            q # "catcher" \/ s # sig => pending'[q][s] = pending[q][s]
      /\ Len(out2) \in Nat /\ Len(out2) >= 1 /\ Len(out2') = Len(out2) - 1
      /\ Value("catcher", sig) = out2[1]
  <2>1. pending \in [Processes -> [Signal -> Seq(Int)]] /\ "catcher" \in Processes
    BY <1>1, Channels DEF Shape
  <2> QED BY <1>3, <1>4, <1>5, <2>1, Taken DEF out2
<1>7. out1' = out1 /\ back1' = back1 /\ back2' = back2 /\ confirms' = confirms /\ Quiet'
  <2>1. /\ \A s \in Signal : pending'["sender"][s] = pending["sender"][s]
        /\ \A s \in Signal : s # sig => pending'["catcher"][s] = pending["catcher"][s]
    BY <1>1, <1>6, Channels
  <2> QED BY <1>1, <1>3, <1>5, <2>1, SignalsOfMode DEF out1, back1, back2, confirms, Quiet
<1>8. Len(out1) = 0
  <2>1. pending["catcher"][sig1] = <<>>
    BY <1>4, <1>5, SignalsOfMode
  <2> QED BY <1>1, <2>1, Channels, SignalsOfMode DEF out1
<1>9. /\ Sent2 /\ Sent2' /\ ~Waiting /\ ~Waiting' /\ ~Replying /\ Replying'
      /\ spc # "exited"
  <2>1. Sent2
    BY <1>1, <1>6 DEF Forward
  <2>2. spc # "exited"
    BY <1>1, <1>2 DEF Backward
  <2> QED BY <1>2, <2>1, <2>2 DEF Sent2, Waiting, Replying
<1>10. Len(confirms) = 0 /\ Len(back1) = 0 /\ Len(back2) = 0 /\ j = 0 /\ counter["sender"] = 0
  BY <1>1, <1>9, Channels DEF Confirmations, Backward, Shape
<1>11. Len(out2') = 0
  <2>1. Len(out2) <= 1
    BY <1>1 DEF Forward
  <2> QED BY <1>6, <2>1
<1>12. Shape'
  BY <1>1, <1>2, <1>6 DEF Shape
<1>13. Forward'
  BY <1>1, <1>2, <1>7, <1>8, <1>9, <1>11 DEF Forward
<1>14. Backward'
  BY <1>1, <1>2, <1>7, <1>9, <1>10 DEF Backward
<1>15. Numbered'
  <2>1. mode = "SIGQUEUE" => queueing'
    <3> SUFFICES ASSUME mode = "SIGQUEUE" PROVE queueing'
      OBVIOUS
    <3>1. \A k \in 1 .. Len(out2) : out2[k] # 0
      BY <1>1 DEF Numbered
    <3>2. 1 \in 1 .. Len(out2)
      BY <1>6
    <3>3. Value("catcher", sig) # 0
      BY <1>6, <3>1, <3>2
    <3> QED BY <1>2, <3>3
  <2> QED BY <1>1, <1>2, <1>7, <1>9, <1>11, <2>1 DEF Numbered
<1>16. Confirmations'
  BY <1>1, <1>2, <1>7, <1>9 DEF Confirmations
<1> QED BY <1>7, <1>12, <1>13, <1>14, <1>15, <1>16 DEF IInv

\* The catcher sends one more sig1 back.
LEMMA ReplySig1IInv == IInv /\ ReplySig1 => IInv'
<1> SUFFICES ASSUME IInv, ReplySig1 PROVE IInv'
  OBVIOUS
<1> DEFINE v == IF queueing THEN j + 1 ELSE 0
<1>1. Shape /\ Quiet /\ Forward /\ Backward /\ Numbered /\ Confirmations
  BY DEF IInv
<1>2. /\ UNCHANGED <<confirm, mode, num, spc, i, confirmation, seen, counter, cpc, queueing>>
      /\ cpc = "reply" /\ j < counter["catcher"] /\ j' = j + 1
  BY DEF ReplySig1, parameters, senderVars
<1>3. sig1' = sig1 /\ sig2' = sig2
  BY <1>2 DEF sig1, sig2
<1>4. /\ Replying /\ Replying' /\ (Sent2' <=> Sent2) /\ (Waiting' <=> Waiting)
      /\ j \in Nat /\ counter["catcher"] \in Nat /\ counter["sender"] \in Nat /\ seen \in Nat
  BY <1>1, <1>2, Channels DEF Replying, Sent2, Waiting, Shape
<1>5. v \in 0 .. j + 1 /\ (queueing => v = j + 1)
  BY <1>4
<1> HIDE DEF v
<1>6. /\ pending' \in [Processes -> [Signal -> Seq(Int)]]
      /\ \A q \in Processes, s \in Signal :
            q # "sender" \/ s # sig1 => pending'[q][s] = pending[q][s]
      /\ Len(back1) \in Nat
      /\ \/ mode # "SIGRT" /\ Len(back1) > 0 /\ back1' = back1
         \/ /\ mode = "SIGRT" \/ Len(back1) = 0
            /\ Len(back1') = Len(back1) + 1
            /\ \A k \in 1 .. Len(back1) : back1'[k] = back1[k]
            /\ back1'[Len(back1) + 1] = v
  <2>1. pending \in [Processes -> [Signal -> Seq(Int)]] /\ "sender" \in Processes
    BY <1>1, Channels DEF Shape
  <2>2. sig1 \in Signal /\ (sig1 \in RealTime <=> mode = "SIGRT")
    BY SignalsOfMode
  <2>3. v \in Int /\ Raise("sender", sig1, v)
    BY <1>4, <1>5 DEF ReplySig1, v, reply_number
  <2>4. back1 = pending["sender"][sig1] /\ back1' = pending'["sender"][sig1]
    BY <1>3 DEF back1
  <2> HIDE DEF sig1
  <2> QED BY <2>1, <2>2, <2>3, <2>4, Raised
<1>7. /\ Len(back1') \in Nat /\ Len(back1') > 0
      /\ mode = "SIGRT" => Len(back1') = Len(back1) + 1
      /\ Len(back1') <= Len(back1) + 1
      /\ mode # "SIGRT" /\ Len(back1) <= 1 => Len(back1') <= 1
  BY <1>6
<1>8. /\ out1' = out1 /\ out2' = out2 /\ back2' = back2 /\ Quiet'
      /\ mode = "SIGRT" => confirms' = confirms
  <2>1. /\ \A s \in Signal : pending'["catcher"][s] = pending["catcher"][s]
        /\ \A s \in Signal : s # sig1 => pending'["sender"][s] = pending["sender"][s]
    BY <1>1, <1>6, Channels
  <2> QED BY <1>1, <1>3, <2>1, SignalsOfMode DEF out1, out2, back2, confirms, Quiet
<1>9. Shape'
  BY <1>1, <1>2, <1>4, <1>6 DEF Shape
<1>10. Forward'
  BY <1>1, <1>2, <1>4, <1>8 DEF Forward
<1>11. Backward'
  <2>1. /\ counter["sender"] + Len(back1') <= j + 1
        /\ mode = "SIGRT" => counter["sender"] + Len(back1') = j + 1
    <3>1. /\ counter["sender"] + Len(back1) <= j
          /\ mode = "SIGRT" => counter["sender"] + Len(back1) = j
      BY <1>1, <1>4 DEF Backward
    <3>2. Len(back1) \in Nat
      BY <1>6
    <3> QED BY <1>4, <1>7, <3>1, <3>2
  <2>2. j + 1 <= counter["catcher"]
    BY <1>2, <1>4
  <2>3. mode = "SIGRT" => Len(confirms') = 0
    BY <1>1, <1>4, <1>8 DEF Backward
  <2>4. spc # "exited" /\ Len(back2) = 0
    BY <1>1, <1>2, Channels DEF Backward
  <2> QED BY <1>2, <1>4, <1>7, <1>8, <2>1, <2>2, <2>3, <2>4 DEF Backward
<1>12. Numbered'
  <2>1. seen <= j /\ (mode = "SIGQUEUE" => queueing /\ counter["sender"] <= seen /\ Len(back1) <= 1)
    BY <1>1, <1>4 DEF Numbered
  <2>2. seen' <= j + 1
    BY <1>2, <1>4, <2>1
  <2>3. \A k \in 1 .. Len(back1') :
          (k \in 1 .. Len(back1) /\ back1'[k] = back1[k]) \/ back1'[k] = v
    <3> SUFFICES ASSUME NEW k \in 1 .. Len(back1')
                 PROVE  (k \in 1 .. Len(back1) /\ back1'[k] = back1[k]) \/ back1'[k] = v
      OBVIOUS
    <3>1. CASE back1' = back1
      BY <3>1
    <3>2. CASE Len(back1') = Len(back1) + 1 /\ back1'[Len(back1) + 1] = v
               /\ \A m \in 1 .. Len(back1) : back1'[m] = back1[m]
      <4>1. Len(back1) \in Nat
        BY <1>6
      <4>2. k \in 1 .. Len(back1) \/ k = Len(back1) + 1
        BY <3>2, <4>1
      <4> QED BY <3>2, <4>2
    <3> QED BY <1>6, <3>1, <3>2
  <2>4. \A k \in 1 .. Len(back1') : back1'[k] \in 0 .. j + 1
    <3>1. \A k \in 1 .. Len(back1) : back1[k] \in 0 .. j
      BY <1>1 DEF Numbered
    <3>2. \A k \in 1 .. Len(back1) : back1[k] \in 0 .. j + 1
      BY <1>4, <3>1
    <3> QED BY <1>5, <2>3, <3>2
  <2>5. mode = "SIGQUEUE" => \A k \in 1 .. Len(back1') : seen < back1'[k]
    <3> SUFFICES ASSUME mode = "SIGQUEUE" PROVE \A k \in 1 .. Len(back1') : seen < back1'[k]
      OBVIOUS
    <3>1. seen < v
      BY <1>4, <1>5, <2>1
    <3>2. \A k \in 1 .. Len(back1) : seen < back1[k]
      BY <1>1 DEF Numbered
    <3> QED BY <2>3, <3>1, <3>2
  <2>6. mode = "SIGQUEUE" =>
          Len(back1') <= 1 /\ \A k \in 1 .. Len(out2') : out2'[k] # 0
    BY <1>1, <1>7, <1>8, <2>1 DEF Numbered
  <2> QED BY <1>2, <1>4, <2>1, <2>2, <2>4, <2>5, <2>6 DEF Numbered
<1>13. Confirmations'
  <2>1. ~Waiting /\ confirmation = 0
    BY <1>1, <1>4 DEF Confirmations, Forward, Sent2, Waiting
  <2> QED BY <1>1, <1>2, <1>4, <1>8, <2>1 DEF Confirmations
<1> QED BY <1>8, <1>9, <1>10, <1>11, <1>12, <1>13 DEF IInv

\* The catcher ends its answer.
LEMMA ReplySig2IInv == IInv /\ ReplySig2 => IInv'
<1> SUFFICES ASSUME IInv, ReplySig2 PROVE IInv'
  OBVIOUS
<1> DEFINE v == IF queueing THEN -1 ELSE 0
<1>1. Shape /\ Quiet /\ Forward /\ Backward /\ Numbered /\ Confirmations
  BY DEF IInv
<1>2. /\ UNCHANGED <<confirm, mode, num, spc, i, confirmation, seen, counter, j, queueing>>
      /\ cpc = "reply" /\ j = counter["catcher"] /\ cpc' = "exited"
  BY DEF ReplySig2, parameters, senderVars
<1>3. sig1' = sig1 /\ sig2' = sig2
  BY <1>2 DEF sig1, sig2
<1>4. Replying /\ Replying' /\ (Sent2' <=> Sent2) /\ (Waiting' <=> Waiting)
  BY <1>2 DEF Replying, Sent2, Waiting
<1>5. /\ pending' \in [Processes -> [Signal -> Seq(Int)]]
      /\ \A q \in Processes, s \in Signal :
            q # "sender" \/ s # sig2 => pending'[q][s] = pending[q][s]
  <2>1. pending \in [Processes -> [Signal -> Seq(Int)]] /\ "sender" \in Processes
    BY <1>1, Channels DEF Shape
  <2>2. v \in Int /\ sig2 \in Signal /\ Raise("sender", sig2, v)
    BY SignalsOfMode DEF ReplySig2
  <2> HIDE DEF v, sig2
  <2> QED BY <2>1, <2>2, Raised
<1>6. out1' = out1 /\ out2' = out2 /\ back1' = back1 /\ confirms' = confirms /\ Quiet'
  <2>1. /\ \A s \in Signal : pending'["catcher"][s] = pending["catcher"][s]
        /\ \A s \in Signal : s # sig2 => pending'["sender"][s] = pending["sender"][s]
    BY <1>1, <1>5, Channels
  <2> QED BY <1>1, <1>3, <2>1, SignalsOfMode DEF out1, out2, back1, confirms, Quiet
<1>7. Shape'
  BY <1>1, <1>2, <1>5 DEF Shape
<1>8. Forward'
  BY <1>1, <1>2, <1>4, <1>6 DEF Forward
<1>9. Backward'
  <2>1. spc # "exited"
    BY <1>1, <1>2 DEF Backward
  <2> QED BY <1>1, <1>2, <1>4, <1>6, <2>1 DEF Backward
<1>10. Numbered'
  BY <1>1, <1>2, <1>4, <1>6 DEF Numbered
<1>11. Confirmations'
  <2>1. ~Waiting
    BY <1>1, <1>4 DEF Forward, Sent2, Waiting
  <2> QED BY <1>1, <1>2, <1>4, <1>6, <2>1 DEF Confirmations
<1> QED BY <1>6, <1>7, <1>8, <1>9, <1>10, <1>11 DEF IInv

\* A stuttering step.
LEMMA StutterIInv == IInv /\ UNCHANGED vars => IInv'
<1> SUFFICES ASSUME IInv, UNCHANGED vars PROVE IInv'
  OBVIOUS
<1>1. UNCHANGED <<pending, confirm, mode, num, spc, i, confirmation, counter, seen, cpc, j, queueing>>
  BY DEF vars
<1>2. sig1' = sig1 /\ sig2' = sig2
  BY <1>1 DEF sig1, sig2
<1>3. /\ (Waiting' <=> Waiting) /\ (Sent2' <=> Sent2) /\ (Replying' <=> Replying)
      /\ out1' = out1 /\ out2' = out2 /\ back1' = back1 /\ back2' = back2
      /\ confirms' = confirms
  BY <1>1, <1>2 DEF Waiting, Sent2, Replying, out1, out2, back1, back2, confirms
<1>4. Shape' /\ Quiet'
  BY <1>1, <1>2 DEF IInv, Shape, Quiet
<1>5. Forward' /\ Backward' /\ Numbered'
  BY <1>1, <1>3 DEF IInv, Forward, Backward, Numbered
<1>6. Confirmations'
  BY <1>1, <1>3 DEF IInv, Confirmations, Turn
<1> QED BY <1>4, <1>5, <1>6 DEF IInv

-----------------------------------------------------------------------------
(* The theorems *)

\* IInv is an inductive invariant of sender and catcher.
THEOREM InductiveInvariant == Spec => []IInv
<1>1. IInv /\ [Next]_vars => IInv'
  <2> SUFFICES ASSUME IInv, [Next]_vars PROVE IInv'
    OBVIOUS
  <2>1. CASE SendSig1
    BY <2>1, SendSig1IInv
  <2>2. CASE Suspend
    BY <2>2, SuspendIInv
  <2>3. CASE SendSig2
    BY <2>3, SendSig2IInv
  <2>4. ASSUME NEW sig \in Signal, SenderHandles(sig) PROVE IInv'
    BY <2>4, SenderHandlesIInv
  <2>5. ASSUME NEW sig \in Signal, CatchSig1(sig) PROVE IInv'
    BY <2>5, CatchSig1IInv
  <2>6. ASSUME NEW sig \in Signal, CatchSig2(sig) PROVE IInv'
    BY <2>6, CatchSig2IInv
  <2>7. CASE Confirm
    BY <2>7, ConfirmIInv
  <2>8. CASE ReplySig1
    BY <2>8, ReplySig1IInv
  <2>9. CASE ReplySig2
    BY <2>9, ReplySig2IInv
  <2>10. CASE UNCHANGED vars
    BY <2>10, StutterIInv
  <2> QED BY <2>1, <2>2, <2>3, <2>4, <2>5, <2>6, <2>7, <2>8, <2>9, <2>10
          DEF Next, SenderStep, CatcherStep
<1> QED BY <1>1, InitIInv, PTL DEF Spec

\* Types: no loop runs past the num it was given, and no counter of either
\* process past the number of signals sent (sender.c and catcher.c of zad4).
THEOREM TypeCorrect == Spec => []TypeOK
<1>1. IInv => TypeOK
  <2> SUFFICES ASSUME IInv PROVE TypeOK
    OBVIOUS
  <2>1. Shape /\ Forward /\ Backward /\ Numbered
    BY DEF IInv
  <2>2. /\ Len(out1) \in Nat /\ Len(back1) \in Nat /\ counter["catcher"] \in Nat
        /\ counter["sender"] \in Nat /\ i \in Nat /\ num \in Nat
    BY <2>1, Channels
  <2>3. i <= num /\ j \in Nat /\ seen \in Nat
    BY <2>1 DEF Shape
  <2>4. counter["catcher"] <= num
    <3>1. counter["catcher"] + Len(out1) <= i
      BY <2>1 DEF Forward
    <3> QED BY <2>2, <2>3, <3>1
  <2>5. j <= counter["catcher"]
    BY <2>1 DEF Backward
  <2>6. counter["sender"] <= j
    <3>1. CASE Replying
      <4>1. counter["sender"] + Len(back1) <= j
        BY <2>1, <3>1 DEF Backward
      <4> QED BY <2>2, <2>3, <4>1
    <3>2. CASE ~Replying
      <4>1. counter["sender"] = 0
        BY <2>1, <3>2 DEF Backward
      <4> QED BY <2>3, <4>1
    <3> QED BY <3>1, <3>2
  <2>7. seen <= j
    BY <2>1 DEF Numbered
  <2>8. j \in 0 .. num /\ seen \in 0 .. num /\ counter["sender"] \in 0 .. num
        /\ counter["catcher"] \in 0 .. num
    BY <2>2, <2>3, <2>4, <2>5, <2>6, <2>7
  <2>9. counter \in [Processes -> 0 .. num]
    BY <2>1, <2>8, CountingAssumption DEF Shape
  <2>10. \A p \in Processes : DOMAIN pending[p] = Signal
    BY <2>1 DEF Shape
  <2> QED BY <2>1, <2>8, <2>9, <2>10 DEF Shape, TypeOK
<1> QED BY <1>1, InductiveInvariant, PTL

\* Signals get lost but never made, and the first of them always arrives
\* (handler and send_kill of sender.c and catcher.c).
THEOREM Shrink == Spec => []CountsShrink
<1>1. IInv => CountsShrink
  <2> SUFFICES ASSUME IInv PROVE CountsShrink
    OBVIOUS
  <2>1. Shape /\ Forward /\ Backward
    BY DEF IInv
  <2>2. /\ Len(out1) \in Nat /\ Len(back1) \in Nat /\ counter["catcher"] \in Nat
        /\ counter["sender"] \in Nat /\ i \in Nat /\ num \in Nat /\ j \in Nat
    BY <2>1, Channels DEF Shape
  <2>3. counter["catcher"] <= i
    <3>1. counter["catcher"] + Len(out1) <= i
      BY <2>1 DEF Forward
    <3> QED BY <2>2, <3>1
  <2>4. counter["sender"] <= j
    <3>1. CASE Replying
      <4>1. counter["sender"] + Len(back1) <= j
        BY <2>1, <3>1 DEF Backward
      <4> QED BY <2>2, <4>1
    <3>2. CASE ~Replying
      <4>1. counter["sender"] = 0
        BY <2>1, <3>2 DEF Backward
      <4> QED BY <2>2, <4>1
    <3> QED BY <3>1, <3>2
  <2>5. j <= counter["catcher"]
    BY <2>1 DEF Backward
  <2>6. Replying /\ num > 0 => counter["catcher"] > 0
    <3>1. Replying => i = num /\ Len(out1) = 0
      BY <2>1 DEF Forward
    <3>2. i > 0 => counter["catcher"] > 0 \/ Len(out1) > 0
      BY <2>1 DEF Forward
    <3> QED BY <2>2, <3>1, <3>2
  <2>7. spc = "exited" /\ num > 0 => counter["sender"] > 0
    <3> SUFFICES ASSUME spc = "exited", num > 0 PROVE counter["sender"] > 0
      OBVIOUS
    <3>1. cpc = "exited" /\ Len(back1) = 0
      BY <2>1 DEF Backward
    <3>2. j = counter["catcher"] /\ (j > 0 => counter["sender"] > 0 \/ Len(back1) > 0)
      BY <2>1, <3>1 DEF Backward
    <3>3. counter["catcher"] > 0
      BY <2>6, <3>1 DEF Replying
    <3> QED BY <2>2, <3>1, <3>2, <3>3
  <2> QED BY <2>3, <2>4, <2>5, <2>6, <2>7 DEF CountsShrink, Replying
<1> QED BY <1>1, InductiveInvariant, PTL

\* In mode SIGQUEUE the last number printed lies between what the sender and
\* what the catcher counted (the handlers and send_queue).
THEOREM Numbers == Spec => []NumbersBoundLoss
<1>1. IInv => NumbersBoundLoss
  <2> SUFFICES ASSUME IInv, mode = "SIGQUEUE"
               PROVE  counter["sender"] <= seen /\ seen <= counter["catcher"]
    BY DEF NumbersBoundLoss
  <2>1. Shape /\ counter["sender"] <= seen /\ seen <= j /\ j <= counter["catcher"]
    BY DEF IInv, Numbered, Backward
  <2>2. seen \in Nat /\ j \in Nat /\ counter["catcher"] \in Nat
    BY <2>1, Channels DEF Shape
  <2> QED BY <2>1, <2>2
<1> QED BY <1>1, InductiveInvariant, PTL

\* With real-time signals both ends count every signal, confirmed or not.
THEOREM RealTimeExact == Spec => []RealTimeLosesNothing
<1>1. IInv => RealTimeLosesNothing
  <2> SUFFICES ASSUME IInv, mode = "SIGRT"
               PROVE  /\ Replying => counter["catcher"] = num
                      /\ spc = "exited" => counter["sender"] = num
    BY DEF RealTimeLosesNothing, Replying
  <2>1. Shape /\ Forward /\ Backward
    BY DEF IInv
  <2>2. counter["catcher"] \in Nat /\ counter["sender"] \in Nat
    BY <2>1, Channels
  <2>3. Replying => counter["catcher"] = num
    <3>1. counter["catcher"] + Len(out1) = i /\ (Replying => i = num /\ Len(out1) = 0)
      BY <2>1 DEF Forward
    <3> QED BY <2>2, <3>1
  <2>4. spc = "exited" => counter["sender"] = num
    <3> SUFFICES ASSUME spc = "exited" PROVE counter["sender"] = num
      OBVIOUS
    <3>1. cpc = "exited" /\ Replying /\ Len(back1) = 0
      BY <2>1 DEF Backward, Replying
    <3>2. j = counter["catcher"] /\ counter["sender"] + Len(back1) = j
      BY <2>1, <3>1 DEF Backward
    <3> QED BY <2>2, <2>3, <3>1, <3>2
  <2> QED BY <2>3, <2>4
<1> QED BY <1>1, InductiveInvariant, PTL

\* With confirmations each signal has been counted when the next one is sent,
\* and the sender counts no confirmation as a reply (send_kill and handler of
\* zad4b).
THEOREM InTurn == Spec => OneAtATime
<1>1. IInv /\ [Next]_vars =>
        [confirm => /\ i' # i => counter["catcher"] = i
                    /\ counter'["sender"] # counter["sender"] => cpc \in {"reply", "exited"}]_vars
  <2> SUFFICES ASSUME IInv, Next, confirm
               PROVE  /\ i' # i => counter["catcher"] = i
                      /\ counter'["sender"] # counter["sender"] => cpc \in {"reply", "exited"}
    OBVIOUS
  <2>1. CASE SendSig1
    BY <2>1, SendSig1IInv DEF SendSig1
  <2>2. CASE Suspend \/ SendSig2 \/ Confirm \/ ReplySig1 \/ ReplySig2
    BY <2>2 DEF Suspend, SendSig2, Confirm, ReplySig1, ReplySig2, senderVars
  <2>3. ASSUME NEW sig \in Signal, SenderHandles(sig)
        PROVE  i' = i /\ (counter'["sender"] # counter["sender"] => cpc \in {"reply", "exited"})
    BY <2>3, SenderHandlesIInv DEF SenderHandles, Replying
  <2>4. ASSUME NEW sig \in Signal, CatchSig1(sig) \/ CatchSig2(sig)
        PROVE  i' = i /\ counter'["sender"] = counter["sender"]
    BY <2>4, CountingAssumption DEF CatchSig1, CatchSig2, senderVars, IInv, Shape
  <2> QED BY <2>1, <2>2, <2>3, <2>4 DEF Next, SenderStep, CatcherStep
<1> QED BY <1>1, InductiveInvariant, PTL DEF Spec, OneAtATime

=============================================================================
