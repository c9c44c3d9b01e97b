--------------------------- MODULE ProgramsProofs ---------------------------
(***************************************************************************)
(* Proofs about the small programs: a line of the shell goes on whatever   *)
(* its commands read and write; the sort never turns from reading a stream *)
(* to writing it without a seek, puts the records in order and, wherever   *)
(* it stops, has lost none; the threads of the histogram count the picture *)
(* whichever way it is divided; the matrix workers multiply no piece twice *)
(* and one of them by itself all of them; and the block array frees no     *)
(* block twice.                                                            *)
(***************************************************************************)
EXTENDS Programs, FiniteSetTheorems, SequenceTheorems, WellFoundedInduction, TLAPS

-----------------------------------------------------------------------------
(* The shell *)

Doings == {"choosing", "reading", "writing", "gone"}

\* Only command k, until it has gone, holds the end it writes to; the end it is
\* read from stays with the shell.
ShellEnds ==
    \A k \in 1 .. Len(commands) :
        /\ \A p \in 0 .. Len(commands) :
             <<k, "write">> \in ends[p] => p = k /\ k <= forked /\ doing[k] # "gone"
        /\ k <= forked => <<k, "read">> \in ends[0]

ShellInv ==
    /\ commands \in Seq([want : Nat \cup {All}, make : Nat])
    /\ forked \in 0 .. Len(commands) /\ reaped \in 0 .. forked
    /\ doing \in Seq(Doings) /\ Len(doing) = forked
    /\ commands # <<>> =>
         /\ pipe \in [1 .. Len(commands) -> Nat]
         /\ ends \in [0 .. Len(commands) -> SUBSET (Nat \X {"read", "write"})]
    /\ \A k \in 1 .. forked : doing[k] = "writing" => commands[k].make # 0
    /\ \A k \in 1 .. forked : doing[k] = "reading" => commands[k].want # 0
    /\ ShellEnds

LEMMA ShellConstants ==
    /\ MaxCommands \in Nat /\ Capacity \in Nat /\ Capacity > 0
    /\ Wants \subseteq Nat \cup {All} /\ Makes \subseteq Nat /\ All \notin Nat
  BY ProgramsAssumption DEF Shell!PipelinesAssumption

LEMMA ShellInit == Shell!Init => ShellInv
<1> SUFFICES ASSUME Shell!Init PROVE ShellInv
  OBVIOUS
<1>1. commands = <<>> /\ Len(commands) = 0 /\ doing = <<>> /\ Len(doing) = 0 /\ forked = 0 /\ reaped = 0
  BY DEF Shell!Init
<1> QED BY <1>1, EmptySeq DEF ShellInv, ShellEnds

LEMMA ShellStart == ShellInv /\ Shell!Start => ShellInv'
<1> SUFFICES ASSUME ShellInv, Shell!Start PROVE ShellInv'
  OBVIOUS
<1>1. PICK n \in 1 .. MaxCommands : commands' \in [1 .. n -> [want : Wants, make : Makes]]
  BY DEF Shell!Start
<1>2. n \in Nat /\ commands' \in Seq([want : Nat \cup {All}, make : Nat]) /\ Len(commands') = n
  <2>1. n \in Nat
    BY ShellConstants
  <2>2. [want : Wants, make : Makes] \subseteq [want : Nat \cup {All}, make : Nat]
    BY ShellConstants
  <2>3. PICK line \in [1 .. n -> [want : Nat \cup {All}, make : Nat]] : commands' = line
    BY <1>1, <2>2
  <2>4. line = [i \in 1 .. n |-> line[i]] /\ \A i \in 1 .. n : line[i] \in [want : Nat \cup {All}, make : Nat]
    BY <2>3
  <2>5. line \in Seq([want : Nat \cup {All}, make : Nat])
    BY <2>1, <2>4
  <2>6. Len(line) = n
    BY <2>1, <2>4
  <2> QED BY <2>1, <2>3, <2>5, <2>6
<1>3. forked = 0 /\ reaped = 0 /\ commands = <<>> /\ UNCHANGED <<forked, reaped, doing>>
  <2>1. commands = <<>> /\ UNCHANGED <<forked, reaped, doing>>
    BY DEF Shell!Start
  <2> QED BY <2>1 DEF ShellInv
<1>4. /\ ends' = [p \in 0 .. Len(commands') |-> {}]
      /\ pipe' = [k \in 1 .. Len(commands') |-> 0]
  BY DEF Shell!Start, Shell!last
<1>5. ShellEnds'
  BY <1>2, <1>3, <1>4 DEF ShellEnds
<1> QED BY <1>2, <1>3, <1>4, <1>5 DEF ShellInv

LEMMA ShellFork == ShellInv /\ Shell!execute_one => ShellInv'
<1> SUFFICES ASSUME ShellInv, Shell!execute_one PROVE ShellInv'
  OBVIOUS
<1> DEFINE k == forked + 1
           n == Len(commands)
<1>1. /\ forked < n /\ forked' = k /\ doing' = Append(doing, "choosing")
      /\ ends' = [ends EXCEPT ![k] = ends[0] \cup {<<k, "write">>}, ![0] = @ \cup {<<k, "read">>}]
      /\ UNCHANGED <<reaped, commands, pipe>>
  BY DEF Shell!execute_one, Shell!last, Shell!Read, Shell!Write
<1>2. n \in Nat /\ forked \in 0 .. n /\ k \in 1 .. n /\ commands # <<>> /\ reaped \in 0 .. forked
  <2>1. n \in Nat
    BY LenProperties DEF ShellInv
  <2>2. forked \in 0 .. n /\ k \in 1 .. n /\ reaped \in 0 .. forked
    BY <1>1, <2>1 DEF ShellInv
  <2> QED BY <2>1, <2>2
<1>3. ends \in [0 .. n -> SUBSET (Nat \X {"read", "write"})]
  BY <1>2 DEF ShellInv
<1>4. ends' \in [0 .. n -> SUBSET (Nat \X {"read", "write"})]
  <2>1. <<k, "write">> \in Nat \X {"read", "write"} /\ <<k, "read">> \in Nat \X {"read", "write"}
    BY <1>2
  <2> HIDE DEF k
  <2> QED BY <1>1, <1>2, <1>3, <2>1
<1>5. /\ ends'[0] = ends[0] \cup {<<k, "read">>}
      /\ ends'[k] = ends[0] \cup {<<k, "write">>}
      /\ \A p \in 1 .. n : p # k => ends'[p] = ends[p]
  <2>1. k # 0 /\ 0 \in 0 .. n /\ k \in 0 .. n
    BY <1>2
  <2> HIDE DEF k
  <2> QED BY <1>1, <1>3, <2>1
<1>6. /\ doing' \in Seq(Doings) /\ Len(doing') = k /\ doing'[k] = "choosing"
      /\ \A j \in 1 .. forked : doing'[j] = doing[j]
  <2>1. doing \in Seq(Doings) /\ Len(doing) = forked /\ "choosing" \in Doings
    BY DEF ShellInv, Doings
  <2> QED BY <1>1, <2>1, AppendProperties
<1> HIDE DEF k
<1>7. ShellEnds'
  <2>1. forked < k
    BY <1>2 DEF k
  <2>2. \A j \in 1 .. n : \A p \in 0 .. n : <<j, "write">> \in ends[p] => p = j /\ j <= forked /\ doing[j] # "gone"
    BY DEF ShellInv, ShellEnds
  <2>3. \A j \in 1 .. n : j <= forked => <<j, "read">> \in ends[0]
    BY DEF ShellInv, ShellEnds
  <2>4. ASSUME NEW j \in 1 .. n, NEW p \in 0 .. n, <<j, "write">> \in ends'[p]
        PROVE  p = j /\ j <= k /\ doing'[j] # "gone"
    <3>1. CASE p = k
      <4>1. <<j, "write">> \notin ends[0]
        BY <2>2, <1>2
      <4>2. j = k
        BY <1>5, <2>4, <3>1, <4>1
      <4> QED BY <1>6, <3>1, <4>2, <1>2
    <3>2. CASE p # k
      <4>1. <<j, "write">> \in ends[p]
        BY <1>2, <1>5, <2>4, <3>2
      <4>2. p = j /\ j <= forked /\ doing[j] # "gone"
        BY <2>2, <4>1
      <4> QED BY <1>2, <1>6, <2>1, <4>2
    <3> QED BY <3>1, <3>2
  <2>5. \A j \in 1 .. n : j <= k => <<j, "read">> \in ends'[0]
    BY <1>2, <1>5, <2>3 DEF k
  <2> QED BY <1>1, <2>4, <2>5 DEF ShellEnds
<1>8. \A j \in 1 .. k : /\ doing'[j] = "writing" => commands[j].make # 0
                        /\ doing'[j] = "reading" => commands[j].want # 0
  BY <1>2, <1>6 DEF ShellInv, k
<1>9. k \in 0 .. n /\ reaped \in 0 .. k
  BY <1>2 DEF k
<1>10. commands' = commands /\ pipe' = pipe /\ reaped' = reaped /\ forked' = k
  BY <1>1
<1> QED BY <1>4, <1>6, <1>7, <1>8, <1>9, <1>10 DEF ShellInv

LEMMA ShellWait == ShellInv /\ Shell!wait => ShellInv'
<1> SUFFICES ASSUME ShellInv, Shell!wait PROVE ShellInv'
  OBVIOUS
<1>1. reaped' = reaped + 1 /\ forked = Len(commands) /\ reaped < Len(commands)
      /\ UNCHANGED <<forked, commands, doing, ends, pipe>>
  BY DEF Shell!wait, Shell!Waitable, Shell!last
<1>2. reaped' \in 0 .. forked
  BY <1>1 DEF ShellInv
<1>3. ShellEnds'
  BY <1>1 DEF ShellInv, ShellEnds
<1> QED BY <1>1, <1>2, <1>3 DEF ShellInv

\* A command does something; in it may go and close its ends.
LEMMA ShellGoes ==
    ASSUME ShellInv, NEW k \in 1 .. forked, NEW what \in Doings, UNCHANGED <<forked, reaped>>,
           doing' = [doing EXCEPT ![k] = what],
           ends' = IF what = "gone" THEN [ends EXCEPT ![k] = {}] ELSE ends,
           commands' \in Seq([want : Nat \cup {All}, make : Nat]), Len(commands') = Len(commands),
           \A j \in 1 .. forked : j # k => commands'[j] = commands[j],
           what = "writing" => commands'[k].make # 0, what = "reading" => commands'[k].want # 0,
           pipe' \in [1 .. Len(commands) -> Nat]
    PROVE  ShellInv'
<1> DEFINE n == Len(commands)
<1>1. /\ n \in Nat /\ forked \in 0 .. n /\ commands # <<>> /\ k \in 1 .. n /\ reaped \in 0 .. forked
      /\ doing \in Seq(Doings) /\ Len(doing) = forked
  <2>1. n \in Nat /\ commands \in Seq([want : Nat \cup {All}, make : Nat])
    BY LenProperties DEF ShellInv
  <2>2. forked \in 0 .. n /\ k \in 1 .. n
    BY <2>1 DEF ShellInv
  <2>3. commands # <<>>
    BY <2>2, EmptySeq
  <2> QED BY <2>1, <2>2, <2>3 DEF ShellInv
<1>2. ends \in [0 .. n -> SUBSET (Nat \X {"read", "write"})]
  BY <1>1 DEF ShellInv
<1>3. ends' \in [0 .. n -> SUBSET (Nat \X {"read", "write"})]
  BY <1>1, <1>2
<1>4. /\ \A p \in 0 .. n : ends'[p] \subseteq ends[p]
      /\ ends'[0] = ends[0]
      /\ what = "gone" => ends'[k] = {}
  BY <1>1, <1>2
<1>5. /\ doing' \in Seq(Doings) /\ Len(doing') = forked
      /\ \A j \in 1 .. forked : doing'[j] = IF j = k THEN what ELSE doing[j]
  BY <1>1, ExceptSeq
<1>6. ShellEnds'
  <2>1. \A j \in 1 .. n : \A p \in 0 .. n : <<j, "write">> \in ends[p] => p = j /\ j <= forked /\ doing[j] # "gone"
    BY DEF ShellInv, ShellEnds
  <2>2. \A j \in 1 .. n : j <= forked => <<j, "read">> \in ends'[0]
    BY <1>4 DEF ShellInv, ShellEnds
  <2>3. ASSUME NEW j \in 1 .. n, NEW p \in 0 .. n, <<j, "write">> \in ends'[p]
        PROVE  p = j /\ j <= forked /\ doing'[j] # "gone"
    <3>1. p = j /\ j <= forked /\ doing[j] # "gone"
      BY <1>4, <2>1, <2>3
    <3> QED BY <1>1, <1>4, <1>5, <2>3, <3>1
  <2> QED BY <2>2, <2>3 DEF ShellEnds
<1>7. \A j \in 1 .. forked : /\ doing'[j] = "writing" => commands'[j].make # 0
                             /\ doing'[j] = "reading" => commands'[j].want # 0
  BY <1>5 DEF ShellInv
<1>8. Len(commands') = n /\ forked' = forked /\ reaped' = reaped
  OBVIOUS
<1> QED BY <1>1, <1>3, <1>5, <1>6, <1>7, <1>8 DEF ShellInv

\* A command may change what is left of it.
LEMMA ShellLeft ==
    ASSUME ShellInv, NEW k \in 1 .. forked, NEW left \in [want : Nat \cup {All}, make : Nat]
    PROVE  /\ [commands EXCEPT ![k] = left] \in Seq([want : Nat \cup {All}, make : Nat])
           /\ Len([commands EXCEPT ![k] = left]) = Len(commands)
           /\ \A j \in 1 .. forked : j # k => [commands EXCEPT ![k] = left][j] = commands[j]
<1>1. commands \in Seq([want : Nat \cup {All}, make : Nat]) /\ Len(commands) \in Nat
  BY LenProperties DEF ShellInv
<1>2. k \in 1 .. Len(commands) /\ \A j \in 1 .. forked : j \in 1 .. Len(commands)
  BY <1>1 DEF ShellInv
<1> HIDE DEF ShellInv
<1>3. /\ [commands EXCEPT ![k] = left] \in Seq([want : Nat \cup {All}, make : Nat])
      /\ Len([commands EXCEPT ![k] = left]) = Len(commands)
      /\ \A j \in 1 .. Len(commands) : [commands EXCEPT ![k] = left][j] = IF j = k THEN left ELSE commands[j]
  BY <1>1, <1>2, ExceptSeq
<1> QED BY <1>2, <1>3

LEMMA ShellTyped ==
    ASSUME ShellInv, NEW k \in 1 .. forked
    PROVE  /\ Len(commands) \in Nat /\ forked \in Nat /\ forked <= Len(commands)
           /\ k \in 1 .. Len(commands) /\ commands # <<>>
           /\ commands \in Seq([want : Nat \cup {All}, make : Nat])
           /\ commands[k] \in [want : Nat \cup {All}, make : Nat]
           /\ pipe \in [1 .. Len(commands) -> Nat]
           /\ ends \in [0 .. Len(commands) -> SUBSET (Nat \X {"read", "write"})]
           /\ doing[k] \in Doings
<1>1. commands \in Seq([want : Nat \cup {All}, make : Nat]) /\ Len(commands) \in Nat
  BY LenProperties DEF ShellInv
<1>2. forked \in Nat /\ forked <= Len(commands) /\ k \in 1 .. Len(commands)
  BY <1>1 DEF ShellInv
<1>3. commands # <<>>
  BY <1>2, EmptySeq
<1>4. commands[k] \in [want : Nat \cup {All}, make : Nat]
  BY <1>1, <1>2, ElementOfSeq
<1>5. doing[k] \in Doings
  <2>1. doing \in Seq(Doings) /\ Len(doing) = forked
    BY DEF ShellInv
  <2> QED BY <2>1, <1>2, ElementOfSeq
<1> QED BY <1>1, <1>2, <1>3, <1>4, <1>5 DEF ShellInv

LEMMA ShellChoose ==
    ASSUME ShellInv, NEW k \in 1 .. forked, Shell!choose(k), UNCHANGED <<forked, reaped>>
    PROVE  ShellInv'
<1>1. PICK what \in Doings :
        /\ doing' = [doing EXCEPT ![k] = what]
        /\ ends' = IF what = "gone" THEN [ends EXCEPT ![k] = {}] ELSE ends
        /\ what = "writing" => commands[k].make # 0
        /\ what = "reading" => commands[k].want # 0
        /\ UNCHANGED <<commands, pipe>>
  BY DEF Shell!choose, Shell!Goes, Shell!Exit, Doings
<1>2. commands' = commands /\ pipe' = pipe
  BY <1>1
<1>3. /\ commands' \in Seq([want : Nat \cup {All}, make : Nat]) /\ Len(commands') = Len(commands)
      /\ pipe' \in [1 .. Len(commands) -> Nat]
      /\ \A j \in 1 .. forked : j # k => commands'[j] = commands[j]
      /\ what = "writing" => commands'[k].make # 0
      /\ what = "reading" => commands'[k].want # 0
  BY <1>1, <1>2, ShellTyped
<1> HIDE DEF Doings
<1> QED BY <1>1, <1>3, ShellGoes

LEMMA ShellRead ==
    ASSUME ShellInv, NEW k \in 1 .. forked, Shell!read(k), UNCHANGED <<forked, reaped>>
    PROVE  ShellInv'
<1>1. doing' = [doing EXCEPT ![k] = "choosing"] /\ ends' = ends /\ doing[k] = "reading"
  BY DEF Shell!read, Shell!Goes, Shell!CanRead
<1>2. commands[k].want \in Nat \cup {All} /\ commands[k].make \in Nat /\ commands[k].want # 0
      /\ k \in Nat /\ k \in 1 .. Len(commands) /\ pipe \in [1 .. Len(commands) -> Nat]
      /\ Len(commands) \in Nat
  BY <1>1, ShellTyped DEF ShellInv
<1>3. PICK left \in [want : Nat \cup {All}, make : Nat] : commands' = [commands EXCEPT ![k] = left]
  <2>1. CASE commands' = [commands EXCEPT ![k].want = 0]
    <3>1. [commands[k] EXCEPT !.want = 0] \in [want : Nat \cup {All}, make : Nat]
      BY ShellTyped
    <3> QED BY <2>1, <3>1
  <2>2. CASE commands' = [commands EXCEPT ![k].want = IF @ = All THEN All ELSE @ - 1]
    <3> DEFINE w == IF commands[k].want = All THEN All ELSE commands[k].want - 1
    <3>1. w \in Nat \cup {All}
      BY <1>2
    <3>2. commands' = [commands EXCEPT ![k] = [commands[k] EXCEPT !.want = w]]
      BY <2>2
    <3> HIDE DEF w
    <3>3. [commands[k] EXCEPT !.want = w] \in [want : Nat \cup {All}, make : Nat]
      BY <3>1, ShellTyped
    <3> QED BY <3>2, <3>3
  <2> QED BY <2>1, <2>2 DEF Shell!read
<1>4. pipe' \in [1 .. Len(commands) -> Nat]
  <2>1. CASE UNCHANGED pipe
    BY <2>1, <1>2
  <2>2. CASE ~Shell!Ended(k) /\ pipe' = [pipe EXCEPT ![k - 1] = @ - 1]
    <3>1. Shell!Items(k) > 0
      BY <2>2 DEF Shell!read, Shell!CanRead
    <3>2. k # 1 /\ pipe[k - 1] > 0
      BY <3>1 DEF Shell!Items
    <3>3. k - 1 \in 1 .. Len(commands)
      BY <1>2, <3>2
    <3>4. pipe[k - 1] - 1 \in Nat
      BY <1>2, <3>2, <3>3
    <3> QED BY <1>2, <2>2, <3>3, <3>4
  <2> QED BY <2>1, <2>2 DEF Shell!read
<1>5. "choosing" \in Doings /\ "choosing" \notin {"gone", "reading", "writing"}
  BY DEF Doings
<1>6. /\ commands' \in Seq([want : Nat \cup {All}, make : Nat]) /\ Len(commands') = Len(commands)
      /\ \A j \in 1 .. forked : j # k => commands'[j] = commands[j]
  BY <1>3, ShellLeft, ZenonT(60)
<1> QED BY <1>1, <1>4, <1>5, <1>6, ShellGoes

LEMMA ShellWrite ==
    ASSUME ShellInv, NEW k \in 1 .. forked, Shell!write(k), UNCHANGED <<forked, reaped>>
    PROVE  ShellInv'
<1>1. doing[k] = "writing"
  BY DEF Shell!write, Shell!CanWrite
<1>2. commands[k].make \in Nat /\ commands[k].make # 0
      /\ k \in Nat /\ k \in 1 .. Len(commands) /\ pipe \in [1 .. Len(commands) -> Nat]
      /\ Len(commands) \in Nat
  BY <1>1, ShellTyped DEF ShellInv
<1>3. CASE Shell!Broken(k)
  <2>1. doing' = [doing EXCEPT ![k] = "gone"] /\ ends' = [ends EXCEPT ![k] = {}]
        /\ commands' = commands /\ pipe' = pipe
    BY <1>3 DEF Shell!write, Shell!Goes, Shell!Exit
  <2>2. "gone" \in Doings
    BY DEF Doings
  <2>3. commands' \in Seq([want : Nat \cup {All}, make : Nat]) /\ Len(commands') = Len(commands)
        /\ pipe' \in [1 .. Len(commands) -> Nat]
        /\ \A j \in 1 .. forked : j # k => commands'[j] = commands[j]
    BY <2>1, ShellTyped
  <2> QED BY <2>1, <2>2, <2>3, ShellGoes
<1>4. CASE ~Shell!Broken(k)
  <2> DEFINE left == [commands[k] EXCEPT !.make = commands[k].make - 1]
  <2>1. doing' = [doing EXCEPT ![k] = "choosing"] /\ ends' = ends
        /\ commands' = [commands EXCEPT ![k] = left]
        /\ (pipe' = pipe \/ pipe' = [pipe EXCEPT ![k] = @ + 1])
    BY <1>4 DEF Shell!write, Shell!Goes
  <2>2. left \in [want : Nat \cup {All}, make : Nat]
    <3>1. commands[k].make - 1 \in Nat
      BY <1>2
    <3> QED BY <3>1, ShellTyped
  <2> HIDE DEF left
  <2>3. pipe' \in [1 .. Len(commands) -> Nat]
    <3>1. pipe[k] + 1 \in Nat
      BY <1>2
    <3> QED BY <1>2, <2>1, <3>1
  <2>4. "choosing" \in Doings /\ "choosing" \notin {"gone", "reading", "writing"}
    BY DEF Doings
  <2>5. /\ commands' \in Seq([want : Nat \cup {All}, make : Nat]) /\ Len(commands') = Len(commands)
        /\ \A j \in 1 .. forked : j # k => commands'[j] = commands[j]
    BY <2>1, <2>2, ShellLeft, ZenonT(60)
  <2> QED BY <2>1, <2>3, <2>4, <2>5, ShellGoes
<1> QED BY <1>3, <1>4

\* Every step of the composition keeps the invariant of the shell.
LEMMA ShellNext == ShellInv /\ [Next]_vars => ShellInv'
<1> SUFFICES ASSUME ShellInv, [Next]_vars PROVE ShellInv'
  OBVIOUS
<1>1. CASE Shell!Next
  <2>1. ASSUME NEW k \in 1 .. forked, Shell!Command(k) PROVE ShellInv'
    BY <2>1, ShellChoose, ShellRead, ShellWrite DEF Shell!Command
  <2> QED BY <1>1, <2>1, ShellStart, ShellFork, ShellWait DEF Shell!Next, Shell!Forked
<1>2. CASE UNCHANGED pipeVars
  <2>1. UNCHANGED <<forked, reaped, commands, doing, ends, pipe>>
    BY <1>2 DEF pipeVars
  <2> QED BY <2>1 DEF ShellInv, ShellEnds
<1> QED BY <1>1, <1>2 DEF Next, vars

\* A set of numbers has a least element.
LEMMA LeastElement ==
    ASSUME NEW T, T \subseteq Nat, T # {}
    PROVE  \E n \in T : \A k \in T : n <= k
<1> DEFINE Below == {0 .. n : n \in T}
<1>1. IsWellFoundedOn(StrictSubsetOrdering(Nat), FiniteSubsetsOf(Nat))
  BY FS_StrictSubsetOrderingWellFounded
<1>2. Below \subseteq FiniteSubsetsOf(Nat) /\ Below # {}
  <2>1. \A n \in T : IsFiniteSet(0 .. n) /\ 0 .. n \subseteq Nat
    BY FS_Interval
  <2> QED BY <2>1 DEF FiniteSubsetsOf
<1> HIDE DEF Below
<1>3. PICK x \in Below : \A y \in Below : ~ (<<y, x>> \in StrictSubsetOrdering(Nat))
  BY <1>1, <1>2, WFMin
<1>4. PICK n \in T : x = 0 .. n
  BY DEF Below
<1>5. \A k \in T : n <= k
  <2> SUFFICES ASSUME NEW k \in T, k < n PROVE FALSE
    OBVIOUS
  <2>1. 0 .. k \subseteq 0 .. n /\ 0 .. k # 0 .. n /\ 0 .. k \subseteq Nat /\ 0 .. n \subseteq Nat
    <3>1. n \in 0 .. n /\ n \notin 0 .. k
      OBVIOUS
    <3> QED BY <3>1
  <2>2. <<0 .. k, 0 .. n>> \in StrictSubsetOrdering(Nat)
    BY <2>1 DEF StrictSubsetOrdering
  <2>3. 0 .. k \in Below
    BY DEF Below
  <2> QED BY <1>3, <1>4, <2>2, <2>3
<1> QED BY <1>5

\* Whoever is stuck, the first reader of a line and the last writer are not.
LEMMA ShellGoesOn == ShellInv => Shell!LineGoesOn
<1> SUFFICES ASSUME ShellInv, commands # <<>>, reaped < Len(commands), ~(forked < Len(commands)),
                    ~Shell!Waitable,
                    \A k \in 1 .. forked : doing[k] # "choosing" /\ ~Shell!CanRead(k)
                                           /\ ~Shell!CanWrite(k) /\ ~Shell!LeftUnread(k)
             PROVE  FALSE
  BY DEF Shell!LineGoesOn, Shell!Forked, Shell!last
<1> DEFINE n == Len(commands)
<1>1. n \in Nat /\ forked = n /\ reaped + 1 \in 1 .. n /\ reaped \in Nat
  <2>1. n \in Nat
    BY LenProperties DEF ShellInv
  <2> QED BY <2>1 DEF ShellInv
<1>2. /\ pipe \in [1 .. n -> Nat]
      /\ ends \in [0 .. n -> SUBSET (Nat \X {"read", "write"})]
      /\ \A k \in 1 .. n : doing[k] \in {"reading", "writing", "gone"}
  <2>1. \A k \in 1 .. n : doing[k] \in Doings
    BY <1>1, ShellTyped
  <2> QED BY <1>1, <2>1 DEF ShellInv, Doings
<1>3. \A k \in 1 .. n : \A p \in 0 .. n : <<k, "write">> \in ends[p] => doing[k] # "gone"
  BY DEF ShellInv, ShellEnds
<1>4. doing[reaped + 1] # "gone"
  BY <1>1 DEF Shell!Waitable, Shell!last
<1>5. \A k \in 1 .. n : doing[k] = "writing" => k # n /\ pipe[k] >= Capacity
  <2> SUFFICES ASSUME NEW k \in 1 .. n, doing[k] = "writing" PROVE k # n /\ pipe[k] >= Capacity
    OBVIOUS
  <2>1. ~(k = n \/ pipe[k] < Capacity)
    BY <1>1 DEF Shell!CanWrite, Shell!last
  <2>2. pipe[k] \in Nat
    BY <1>2
  <2> QED BY <2>1, <2>2, ShellConstants
<1> HIDE DEF n
\* The first reader would be told of the end of its input or have its writer write.
<1>6. \A k \in 1 .. n : doing[k] # "reading"
  <2> DEFINE T == {k \in 1 .. n : doing[k] = "reading"}
  <2> SUFFICES ASSUME T # {} PROVE FALSE
    OBVIOUS
  <2>1. PICK k \in T : \A j \in T : k <= j
    <3>1. T \subseteq Nat
      OBVIOUS
    <3> HIDE DEF T
    <3> QED BY <3>1, LeastElement
  <2>2. k \in 1 .. n /\ doing[k] = "reading" /\ k \in Nat
    BY <1>1
  <2>3. ~(Shell!Items(k) > 0) /\ ~Shell!Ended(k)
    BY <1>1, <2>2 DEF Shell!CanRead
  <2>4. k # 1
    BY <2>3 DEF Shell!Ended, Shell!Items
  <2>5. k - 1 \in 1 .. n /\ k - 1 < k
    BY <2>2, <2>4, <1>1
  <2>6. pipe[k - 1] = 0
    <3>1. ~(pipe[k - 1] > 0) /\ pipe[k - 1] \in Nat
      BY <1>2, <2>3, <2>4, <2>5 DEF Shell!Items
    <3> QED BY <3>1
  <2>7. PICK p \in 0 .. n : <<k - 1, "write">> \in ends[p]
    <3>1. Shell!Holders(Shell!Write(k - 1)) # {}
      BY <2>3, <2>4, <2>6 DEF Shell!Ended, Shell!Items
    <3>2. DOMAIN ends = 0 .. n
      BY <1>2
    <3> QED BY <3>1, <3>2 DEF Shell!Holders, Shell!Write
  <2>8. doing[k - 1] # "gone"
    BY <1>3, <2>5, <2>7
  <2>9. doing[k - 1] # "reading"
    BY <2>1, <2>2, <2>5
  <2>10. doing[k - 1] = "writing"
    BY <1>2, <2>5, <2>8, <2>9
  <2> QED BY <1>5, <2>5, <2>6, <2>10, ShellConstants
\* So the first one left writes, and so does every one behind it.
<1>7. doing[reaped + 1] = "writing"
  BY <1>1, <1>2, <1>4, <1>6
<1> DEFINE T == {k \in reaped + 1 .. n : doing[k] # "writing"}
<1>8. CASE T = {}
  <2>1. doing[n] = "writing" /\ n \in 1 .. n
    BY <1>1, <1>8
  <2> QED BY <1>5, <2>1
<1>9. CASE T # {}
  <2>1. PICK k \in T : \A j \in T : k <= j
    <3>1. T \subseteq Nat
      BY <1>1
    <3> HIDE DEF T
    <3> QED BY <1>9, <3>1, LeastElement
  <2>2. k \in 1 .. n /\ k \in reaped + 1 .. n /\ doing[k] # "writing" /\ k \in Nat
    BY <1>1
  <2>3. k # reaped + 1
    BY <1>7, <2>2
  <2>4. k - 1 \in 1 .. n /\ k - 1 \in reaped + 1 .. n /\ k - 1 < k /\ k # 1
    BY <1>1, <2>2, <2>3
  <2>5. doing[k - 1] = "writing"
    BY <2>1, <2>2, <2>4
  <2>6. pipe[k - 1] >= Capacity /\ pipe[k - 1] \in Nat
    BY <1>2, <1>5, <2>4, <2>5
  <2>7. Shell!Items(k) > 0
    BY <2>4, <2>6, ShellConstants DEF Shell!Items
  <2>8. doing[k] = "gone"
    BY <1>2, <1>6, <2>2
  <2> QED BY <1>1, <2>2, <2>7, <2>8 DEF Shell!LeftUnread
<1> QED BY <1>8, <1>9

\* However long the line, whatever its commands want and make and however
\* little a pipe holds: until the shell has waited for them all somebody can go
\* on, or a command has left its input unread.
THEOREM LineGoesOnAlways == Spec => []LineGoesOn
<1>1. Init => ShellInv
  BY ShellInit DEF Init
<1>2. ShellInv => LineGoesOn
  BY ShellGoesOn DEF LineGoesOn
<1> QED BY <1>1, <1>2, ShellNext, PTL DEF Spec

\* The shell holds the read end of the pipe of every command it has forked, so
\* no write of a command ever finds its pipe broken: where the reader has gone
\* the writer blocks, and only LeftUnread excuses the line.
PipesWhole == \A k \in 1 .. forked : ~Shell!Broken(k)

\* No command of the shell is ended by a broken pipe.
THEOREM NoPipeBreaks == Spec => []PipesWhole
<1>1. Init => ShellInv
  BY ShellInit DEF Init
<1>2. ShellInv => PipesWhole
  <2> SUFFICES ASSUME ShellInv, NEW k \in 1 .. forked PROVE ~Shell!Broken(k)
    BY DEF PipesWhole
  <2>1. k \in 1 .. Len(commands) /\ k <= forked /\ 0 \in DOMAIN ends
    <3>1. 0 \in 0 .. Len(commands)
      BY ShellTyped
    <3> QED BY <3>1, ShellTyped
  <2>2. <<k, "read">> \in ends[0]
    BY <2>1 DEF ShellInv, ShellEnds
  <2> QED BY <2>1, <2>2 DEF Shell!Broken, Shell!Holders, Shell!Read
<1> QED BY <1>1, <1>2, ShellNext, PTL DEF Spec

-----------------------------------------------------------------------------
(* The sort *)

Passes == {"enter", "smaller", "bigger", "back", "skip", "end"}
Calls == [length : Nat, pass : Passes, i : Nat, smaller : Nat, bigger : Nat]

\* What was done last on the two files, in each pass of the innermost call.
Turn(pass) ==
    /\ pass = "enter" => old_last = "seek" /\ tmp_last = "seek"
    /\ pass = "smaller" => old_last = "read" /\ tmp_last \in {"seek", "write"}
    /\ pass = "bigger" => old_last \in {"seek", "read"} /\ tmp_last = "write"
    /\ pass = "back" => old_last \in {"seek", "write"} /\ tmp_last \in {"seek", "read"}

\* The other calls are behind their passes, where only a seek or a return is left.
Behind(s) == \A d \in 1 .. Len(s) - 1 : s[d].pass \in {"skip", "end"}

SortInv ==
    /\ calls \in Seq(Calls) /\ Behind(calls)
    /\ calls # <<>> => Turn(calls[Len(calls)].pass)
    /\ job = "none" => old_last = "seek" /\ tmp_last = "seek" /\ calls = <<>>
    /\ job = "copy" => old_last \in {"seek", "read"} /\ tmp_last \in {"seek", "write"} /\ calls = <<>>

Parted ==
    /\ <<old_last, old_last'>> \notin {<<"read", "write">>, <<"write", "read">>}
    /\ <<tmp_last, tmp_last'>> \notin {<<"read", "write">>, <<"write", "read">>}

\* A call that goes on, and the ones around it.
LEMMA SortCalls ==
    ASSUME calls \in Seq(Calls), calls # <<>>, Behind(calls)
    PROVE  /\ Len(calls) \in Nat \ {0} /\ Sort!top \in Calls /\ Sort!top = calls[Len(calls)]
           /\ Sort!Outer \in Seq(Calls) /\ Len(Sort!Outer) = Len(calls) - 1
           /\ \A d \in 1 .. Len(calls) - 1 :
                Sort!Outer[d] = calls[d] /\ Sort!Outer[d].pass \in {"skip", "end"}
<1>1. Len(calls) \in Nat \ {0}
  BY EmptySeq, LenProperties
<1>2. calls[Len(calls)] \in Calls
  BY <1>1, ElementOfSeq
<1>3. /\ Sort!Outer \in Seq(Calls) /\ Len(Sort!Outer) = Len(calls) - 1
      /\ \A d \in 1 .. Len(calls) - 1 : Sort!Outer[d] = calls[d]
  <2>1. Len(calls) - 1 \in Nat /\ Len(calls) - 1 \in 0 .. Len(calls)
    BY <1>1
  <2>2. /\ SubSeq(calls, 1, Len(calls) - 1) \in Seq(Calls)
        /\ Len(SubSeq(calls, 1, Len(calls) - 1)) = Len(calls) - 1
        /\ \A d \in 1 .. Len(calls) - 1 : SubSeq(calls, 1, Len(calls) - 1)[d] = calls[d]
    <3> PICK m \in Nat : m = Len(calls) - 1
      BY <1>1
    <3>1. m \in Int /\ 1 \in Int /\ m - 1 + 1 = m /\ (~(1 <= m) => m = 0)
      OBVIOUS
    <3>2. \A d \in 1 .. m : calls[d] \in Calls
      BY <1>1, ElementOfSeq
    <3>3. /\ SubSeq(calls, 1, m) \in Seq(Calls)
          /\ Len(SubSeq(calls, 1, m)) = IF 1 <= m THEN m - 1 + 1 ELSE 0
          /\ \A d \in 1 .. m - 1 + 1 : SubSeq(calls, 1, m)[d] = calls[1 + d - 1]
      BY <3>1, <3>2, SubSeqProperties
    <3>4. Len(SubSeq(calls, 1, m)) = m
      BY <3>1, <3>3
    <3>5. \A d \in 1 .. m : SubSeq(calls, 1, m)[d] = calls[d]
      BY <3>1, <3>3
    <3> QED BY <3>3, <3>4, <3>5
  <2> QED BY <2>2 DEF Sort!Outer
<1> QED BY <1>1, <1>2, <1>3 DEF Sort!top, Behind

\* A step within the innermost call.
LEMMA SortGoes ==
    ASSUME calls \in Seq(Calls), calls # <<>>, Behind(calls), NEW c \in Calls
    PROVE  LET s == Append(Sort!Outer, c) IN
           s \in Seq(Calls) /\ s # <<>> /\ Len(s) = Len(calls) /\ s[Len(s)] = c /\ Behind(s)
<1> DEFINE s == Append(Sort!Outer, c)
<1>1. /\ s \in Seq(Calls) /\ Len(s) = Len(Sort!Outer) + 1 /\ s[Len(Sort!Outer) + 1] = c
      /\ \A d \in 1 .. Len(Sort!Outer) : s[d] = Sort!Outer[d]
  <2>1. Sort!Outer \in Seq(Calls)
    BY SortCalls
  <2> QED BY <2>1, AppendProperties
<1>2. Len(s) = Len(calls) /\ Len(Sort!Outer) + 1 = Len(calls) /\ Len(s) \in Nat \ {0}
  BY <1>1, SortCalls
<1> HIDE DEF s
<1>3. s # <<>>
  BY <1>1, <1>2, EmptySeq
<1>4. \A d \in 1 .. Len(s) - 1 : s[d].pass \in {"skip", "end"}
  <2> SUFFICES ASSUME NEW d \in 1 .. Len(s) - 1 PROVE s[d].pass \in {"skip", "end"}
    OBVIOUS
  <2>1. d \in 1 .. Len(calls) - 1 /\ d \in 1 .. Len(Sort!Outer)
    BY <1>2
  <2>2. s[d] = Sort!Outer[d]
    BY <1>1, <2>1
  <2> QED BY <2>1, <2>2, SortCalls
<1>5. s[Len(s)] = c
  BY <1>1, <1>2
<1>6. s \in Seq(Calls) /\ s # <<>> /\ Len(s) = Len(calls) /\ s[Len(s)] = c /\ Behind(s)
  BY <1>1, <1>2, <1>3, <1>4, <1>5 DEF Behind
<1> QED BY <1>6 DEF s

\* A call of the innermost one.
LEMMA SortDeeper ==
    ASSUME calls \in Seq(Calls), calls # <<>>, Behind(calls), NEW c \in Calls, NEW d \in Calls,
           c.pass \in {"skip", "end"}
    PROVE  LET s == Append(Sort!Outer, c) \o <<d>> IN
           s \in Seq(Calls) /\ s # <<>> /\ s[Len(s)] = d /\ Behind(s)
<1> DEFINE t == Append(Sort!Outer, c)
           s == t \o <<d>>
<1>1. t \in Seq(Calls) /\ t # <<>> /\ Len(t) = Len(calls) /\ t[Len(t)] = c /\ Behind(t)
  BY SortGoes
<1>2. Len(t) \in Nat \ {0}
  BY <1>1, SortCalls
<1> HIDE DEF t
<1>3. <<d>> \in Seq(Calls) /\ Len(<<d>>) = 1 /\ <<d>>[1] = d
  OBVIOUS
<1>4. /\ s \in Seq(Calls) /\ Len(s) = Len(t) + 1
      /\ \A k \in 1 .. Len(t) + 1 : s[k] = IF k <= Len(t) THEN t[k] ELSE <<d>>[k - Len(t)]
  BY <1>1, <1>3, ConcatProperties
<1> HIDE DEF s
<1>5. s[Len(t) + 1] = d
  <2>1. Len(t) + 1 \in 1 .. Len(t) + 1 /\ ~(Len(t) + 1 <= Len(t)) /\ Len(t) + 1 - Len(t) = 1
    BY <1>2
  <2> QED BY <1>3, <1>4, <2>1
<1>6. s # <<>>
  BY <1>2, <1>4, EmptySeq
<1>7. \A k \in 1 .. Len(s) - 1 : s[k].pass \in {"skip", "end"}
  <2> SUFFICES ASSUME NEW k \in 1 .. Len(s) - 1 PROVE s[k].pass \in {"skip", "end"}
    OBVIOUS
  <2>1. k \in 1 .. Len(t) /\ k \in 1 .. Len(t) + 1 /\ k <= Len(t)
    BY <1>2, <1>4
  <2>2. s[k] = t[k]
    BY <1>4, <2>1
  <2>3. k = Len(t) \/ k \in 1 .. Len(t) - 1
    BY <1>2, <2>1
  <2> QED BY <1>1, <2>2, <2>3 DEF Behind
<1>8. s \in Seq(Calls) /\ s # <<>> /\ s[Len(s)] = d /\ Behind(s)
  BY <1>4, <1>5, <1>6, <1>7 DEF Behind
<1> QED BY <1>8 DEF s, t

\* The records that the passes of a call make of it are calls.
LEMMA SortCounts ==
    ASSUME NEW c \in Calls
    PROVE  /\ \A p \in Passes : [c EXCEPT !.pass = p] \in Calls /\ [c EXCEPT !.pass = p].pass = p
           /\ \A p \in Passes : [c EXCEPT !.pass = p, !.i = 0] \in Calls
                                /\ [c EXCEPT !.pass = p, !.i = 0].pass = p
           /\ [c EXCEPT !.i = @ + 1] \in Calls /\ [c EXCEPT !.i = @ + 1].pass = c.pass
           /\ [c EXCEPT !.i = @ + 1, !.smaller = @ + 1] \in Calls
           /\ [c EXCEPT !.i = @ + 1, !.smaller = @ + 1].pass = c.pass
           /\ [c EXCEPT !.i = @ + 1, !.bigger = @ + 1] \in Calls
           /\ [c EXCEPT !.i = @ + 1, !.bigger = @ + 1].pass = c.pass
           /\ c.pass \in Passes /\ c.smaller \in Nat /\ c.bigger \in Nat
<1>1. c.i + 1 \in Nat /\ c.smaller + 1 \in Nat /\ c.bigger + 1 \in Nat /\ 0 \in Nat
      /\ c.pass \in Passes /\ c.smaller \in Nat /\ c.bigger \in Nat
  BY DEF Calls
<1>2. \A p \in Passes : [c EXCEPT !.pass = p] \in Calls /\ [c EXCEPT !.pass = p].pass = p
  BY DEF Calls
<1>3. \A p \in Passes : [c EXCEPT !.pass = p, !.i = 0] \in Calls
                        /\ [c EXCEPT !.pass = p, !.i = 0].pass = p
  BY DEF Calls
<1>4. [c EXCEPT !.i = @ + 1] \in Calls /\ [c EXCEPT !.i = @ + 1].pass = c.pass
  BY <1>1 DEF Calls
<1>5. /\ [c EXCEPT !.i = @ + 1, !.smaller = @ + 1] \in Calls
      /\ [c EXCEPT !.i = @ + 1, !.smaller = @ + 1].pass = c.pass
  BY <1>1 DEF Calls
<1>6. /\ [c EXCEPT !.i = @ + 1, !.bigger = @ + 1] \in Calls
      /\ [c EXCEPT !.i = @ + 1, !.bigger = @ + 1].pass = c.pass
  BY <1>1 DEF Calls
<1> QED BY <1>1, <1>2, <1>3, <1>4, <1>5, <1>6

LEMMA SortNew ==
    ASSUME NEW n \in Nat
    PROVE  Sort!Call(n) \in Calls /\ Sort!Call(n).pass = "enter"
  BY DEF Sort!Call, Calls, Passes

\* The invariant after a step of the sort, from what is left of its calls.
LEMMA SortStep ==
    ASSUME job = "sort", job' = job, calls' \in Seq(Calls), Behind(calls'),
           NEW p, calls' # <<>> => calls'[Len(calls')].pass = p, Turn(p)'
    PROVE  SortInv'
  BY DEF SortInv, Behind, Turn

\* A step that moves one record, or the seek between two passes.
LEMMA SortMoves ==
    ASSUME SortInv, Sort!sort_file, UNCHANGED job
    PROVE  SortInv' /\ Parted
<1> USE DEF Sort!Seek, Sort!ReadOld, Sort!WriteTmp, Sort!Goes
<1>1. job = "sort" /\ calls # <<>>
  BY DEF Sort!sort_file, Sort!Short, Sort!ReadPivot, Sort!CopySmaller, Sort!WritePivot,
         Sort!CopyBigger, Sort!Rewind, Sort!CopyBack, Sort!SortSmaller, Sort!SortBigger,
         Sort!Return, Sort!Running
<1>2. calls \in Seq(Calls) /\ Behind(calls) /\ Sort!top \in Calls /\ Turn(Sort!top.pass)
  BY <1>1, SortCalls DEF SortInv
\* Within a call: how the innermost one goes on, and what its pass asks of the files.
<1>3. ASSUME NEW c \in Calls, calls' = Append(Sort!Outer, c), Turn(c.pass)' PROVE SortInv'
  <2>1. calls' \in Seq(Calls) /\ calls' # <<>> /\ calls'[Len(calls')] = c /\ Behind(calls')
    BY <1>1, <1>2, <1>3, SortGoes
  <2> QED BY <1>1, <1>3, <2>1, SortStep
<1>4. ASSUME NEW c \in Calls, c.pass \in {"skip", "end"}, NEW n \in Nat,
             calls' = Append(Sort!Outer, c) \o <<Sort!Call(n)>>,
             old_last' = "seek" /\ tmp_last' = "seek"
      PROVE  SortInv'
  <2>1. Sort!Call(n) \in Calls /\ Sort!Call(n).pass = "enter"
    BY SortNew
  <2>2. calls' \in Seq(Calls) /\ calls'[Len(calls')] = Sort!Call(n) /\ Behind(calls')
    BY <1>1, <1>2, <1>4, <2>1, SortDeeper
  <2>3. Turn("enter")'
    BY <1>4 DEF Turn
  <2> QED BY <1>1, <2>1, <2>2, <2>3, SortStep
<1>5. ASSUME calls' = Sort!Outer PROVE SortInv'
  <2>1. Sort!Outer \in Seq(Calls) /\ Len(Sort!Outer) = Len(calls) - 1 /\ Len(calls) \in Nat \ {0}
        /\ \A d \in 1 .. Len(calls) - 1 : Sort!Outer[d].pass \in {"skip", "end"}
    BY <1>1, <1>2, SortCalls
  <2>2. Behind(Sort!Outer)
    <3>1. \A d \in 1 .. Len(Sort!Outer) - 1 : d \in 1 .. Len(calls) - 1
      BY <2>1
    <3> QED BY <2>1, <3>1 DEF Behind
  <2>3. PICK p \in {"skip", "end"} : Sort!Outer # <<>> => Sort!Outer[Len(Sort!Outer)].pass = p
    <3> SUFFICES ASSUME Sort!Outer # <<>> PROVE Sort!Outer[Len(Sort!Outer)].pass \in {"skip", "end"}
      OBVIOUS
    <3>1. Len(Sort!Outer) \in 1 .. Len(calls) - 1
      BY <2>1, EmptySeq
    <3> QED BY <2>1, <3>1
  <2>4. Turn(p)'
    BY DEF Turn
  <2> QED BY <1>1, <1>5, <2>1, <2>2, <2>3, <2>4, SortStep
<1>6. CASE Sort!Short
  BY <1>5, <1>6 DEF Sort!Short, Parted
<1>7. CASE Sort!ReadPivot
  <2>1. Sort!top.pass = "enter" /\ old_last' = "read" /\ tmp_last' = tmp_last
        /\ calls' = Append(Sort!Outer, [Sort!top EXCEPT !.pass = "smaller"])
    BY <1>7 DEF Sort!ReadPivot, Sort!Running
  <2>2. [Sort!top EXCEPT !.pass = "smaller"] \in Calls
        /\ [Sort!top EXCEPT !.pass = "smaller"].pass = "smaller"
    BY <1>2, SortCounts, ZenonT(60) DEF Passes
  <2>3. Turn("smaller")' /\ Parted
    BY <1>2, <2>1 DEF Turn, Parted
  <2> QED BY <1>3, <2>1, <2>2, <2>3, ZenonT(60)
<1>8. CASE Sort!CopySmaller
  <2>1. PICK c \in Calls : calls' = Append(Sort!Outer, c) /\ c.pass = "smaller"
    <3>1. /\ Sort!top.pass = "smaller"
          /\ \/ calls' = Append(Sort!Outer, [Sort!top EXCEPT !.i = @ + 1, !.smaller = @ + 1])
             \/ calls' = Append(Sort!Outer, [Sort!top EXCEPT !.i = @ + 1])
      BY <1>8 DEF Sort!CopySmaller, Sort!copy_block, Sort!Running
    <3>2. /\ [Sort!top EXCEPT !.i = @ + 1, !.smaller = @ + 1] \in Calls
          /\ [Sort!top EXCEPT !.i = @ + 1, !.smaller = @ + 1].pass = "smaller"
          /\ [Sort!top EXCEPT !.i = @ + 1] \in Calls
          /\ [Sort!top EXCEPT !.i = @ + 1].pass = "smaller"
      BY <1>2, <3>1, SortCounts, ZenonT(60)
    <3> QED BY <3>1, <3>2
  <2>2. Sort!top.pass = "smaller" /\ old_last' = "read" /\ tmp_last' \in {tmp_last, "write"}
    BY <1>8 DEF Sort!CopySmaller, Sort!copy_block, Sort!Running
  <2>3. Turn("smaller")' /\ Parted
    BY <1>2, <2>2 DEF Turn, Parted
  <2> QED BY <1>3, <2>1, <2>3
<1>9. CASE Sort!WritePivot
  <2>1. Sort!top.pass = "smaller" /\ old_last' = "seek" /\ tmp_last' = "write"
        /\ calls' = Append(Sort!Outer, [Sort!top EXCEPT !.pass = "bigger", !.i = 0])
    BY <1>9 DEF Sort!WritePivot, Sort!Running
  <2>2. [Sort!top EXCEPT !.pass = "bigger", !.i = 0] \in Calls
        /\ [Sort!top EXCEPT !.pass = "bigger", !.i = 0].pass = "bigger"
    BY <1>2, SortCounts, ZenonT(60) DEF Passes
  <2>3. Turn("bigger")' /\ Parted
    BY <1>2, <2>1 DEF Turn, Parted
  <2> QED BY <1>3, <2>1, <2>2, <2>3, ZenonT(60)
<1>10. CASE Sort!CopyBigger
  <2>1. PICK c \in Calls : calls' = Append(Sort!Outer, c) /\ c.pass = "bigger"
    <3>1. /\ Sort!top.pass = "bigger"
          /\ \/ calls' = Append(Sort!Outer, [Sort!top EXCEPT !.i = @ + 1, !.bigger = @ + 1])
             \/ calls' = Append(Sort!Outer, [Sort!top EXCEPT !.i = @ + 1])
      BY <1>10, SMTT(60) DEF Sort!CopyBigger, Sort!copy_block, Sort!Running
    <3>2. /\ [Sort!top EXCEPT !.i = @ + 1, !.bigger = @ + 1] \in Calls
          /\ [Sort!top EXCEPT !.i = @ + 1, !.bigger = @ + 1].pass = "bigger"
          /\ [Sort!top EXCEPT !.i = @ + 1] \in Calls
          /\ [Sort!top EXCEPT !.i = @ + 1].pass = "bigger"
      BY <1>2, <3>1, SortCounts, ZenonT(60)
    <3> QED BY <3>1, <3>2, ZenonT(60)
  <2>2. Sort!top.pass = "bigger" /\ old_last' = "read" /\ tmp_last' \in {tmp_last, "write"}
    BY <1>10 DEF Sort!CopyBigger, Sort!copy_block, Sort!Running
  <2>3. Turn("bigger")' /\ Parted
    BY <1>2, <2>2 DEF Turn, Parted
  <2> QED BY <1>3, <2>1, <2>3, SMTT(60)
<1>11. CASE Sort!Rewind
  <2>1. old_last' = "seek" /\ tmp_last' = "seek"
        /\ calls' = Append(Sort!Outer, [Sort!top EXCEPT !.pass = "back", !.i = 0])
    BY <1>11 DEF Sort!Rewind
  <2>2. [Sort!top EXCEPT !.pass = "back", !.i = 0] \in Calls
        /\ [Sort!top EXCEPT !.pass = "back", !.i = 0].pass = "back"
    BY <1>2, SortCounts, ZenonT(60) DEF Passes
  <2>3. Turn("back")' /\ Parted
    BY <2>1 DEF Turn, Parted
  <2> QED BY <1>3, <2>1, <2>2, <2>3, ZenonT(60)
<1>12. CASE Sort!CopyBack
  <2>1. Sort!top.pass = "back" /\ old_last' = "write" /\ tmp_last' = "read"
        /\ calls' = Append(Sort!Outer, [Sort!top EXCEPT !.i = @ + 1])
    BY <1>12 DEF Sort!CopyBack, Sort!Running
  <2>2. [Sort!top EXCEPT !.i = @ + 1] \in Calls /\ [Sort!top EXCEPT !.i = @ + 1].pass = "back"
    BY <1>2, <2>1, SortCounts, ZenonT(60)
  <2>3. Turn("back")' /\ Parted
    BY <1>2, <2>1 DEF Turn, Parted
  <2> QED BY <1>3, <2>1, <2>2, <2>3, ZenonT(60)
<1>13. CASE Sort!SortSmaller
  <2>1. [Sort!top EXCEPT !.pass = "skip"] \in Calls /\ Sort!top.smaller \in Nat
        /\ [Sort!top EXCEPT !.pass = "skip"].pass = "skip"
    BY <1>2, SortCounts, ZenonT(60) DEF Passes
  <2>2. old_last' = "seek" /\ tmp_last' = "seek"
        /\ calls' = Append(Sort!Outer, [Sort!top EXCEPT !.pass = "skip"]) \o <<Sort!Call(Sort!top.smaller)>>
    BY <1>13 DEF Sort!SortSmaller
  <2> QED BY <1>4, <2>1, <2>2, ZenonT(60) DEF Parted
<1>14. CASE Sort!SortBigger
  <2>1. [Sort!top EXCEPT !.pass = "end"] \in Calls /\ Sort!top.bigger \in Nat
        /\ [Sort!top EXCEPT !.pass = "end"].pass = "end"
    BY <1>2, SortCounts, ZenonT(60) DEF Passes
  <2>2. old_last' = "seek" /\ tmp_last' = "seek"
        /\ calls' = Append(Sort!Outer, [Sort!top EXCEPT !.pass = "end"]) \o <<Sort!Call(Sort!top.bigger)>>
    BY <1>14 DEF Sort!SortBigger
  <2> QED BY <1>4, <2>1, <2>2, ZenonT(60) DEF Parted
<1>15. CASE Sort!Return
  BY <1>5, <1>15 DEF Sort!Return, Parted
<1> QED BY <1>6, <1>7, <1>8, <1>9, <1>10, <1>11, <1>12, <1>13, <1>14, <1>15 DEF Sort!sort_file

LEMMA SortInit == Sort!Init => SortInv
  BY EmptySeq DEF Sort!Init, SortInv, Behind

\* Every step of the composition parts the reads of a file from its writes.
LEMMA SortNext == SortInv /\ [Next]_vars => SortInv' /\ [Parted]_Sort!sortVars
<1> SUFFICES ASSUME SortInv, [Next]_vars PROVE SortInv' /\ [Parted]_Sort!sortVars
  OBVIOUS
<1>1. CASE UNCHANGED sortVars
  <2>1. job' = job /\ calls' = calls /\ old_last' = old_last /\ tmp_last' = tmp_last
    BY <1>1 DEF sortVars
  <2>2. UNCHANGED Sort!sortVars
    BY <1>1 DEF sortVars, Sort!sortVars
  <2> QED BY <2>1, <2>2 DEF SortInv, Behind, Turn
<1>2. CASE Sort!Start
  <2>1. /\ job = "none" /\ old_last' = old_last /\ tmp_last' = tmp_last
        /\ \/ job' = "sort" /\ \E n \in 1 .. MaxRecords : calls' = <<Sort!Call(n)>>
           \/ job' = "copy" /\ calls' = <<>>
    BY <1>2 DEF Sort!Start, Sort!sort_lib, Sort!sort_sys, Sort!copy, Sort!Opens
  <2>2. old_last' = "seek" /\ tmp_last' = "seek" /\ Parted
    BY <2>1 DEF SortInv, Parted
  <2>3. CASE job' = "copy" /\ calls' = <<>>
    BY <2>2, <2>3, EmptySeq DEF SortInv, Behind
  <2>4. ASSUME job' = "sort", NEW n \in 1 .. MaxRecords, calls' = <<Sort!Call(n)>> PROVE SortInv'
    <3>1. n \in Nat
      BY ProgramsAssumption DEF Sort!SortAssumption
    <3>2. Sort!Call(n) \in Calls /\ Sort!Call(n).pass = "enter"
      BY <3>1, SortNew
    <3>3. calls' \in Seq(Calls) /\ Len(calls') = 1 /\ calls'[1] = Sort!Call(n)
      BY <2>4, <3>2
    <3>4. Behind(calls')
      BY <3>3 DEF Behind
    <3>5. Turn("enter")'
      BY <2>2 DEF Turn
    <3>6. calls'[Len(calls')].pass = "enter"
      BY <3>2, <3>3
    <3> QED BY <2>4, <3>3, <3>4, <3>5, <3>6 DEF SortInv, Behind, Turn
  <2> QED BY <2>1, <2>2, <2>3, <2>4
<1>3. CASE Sort!Finish \/ Sort!Fail
  <2>1. job' = job /\ calls' = calls /\ old_last' = old_last /\ tmp_last' = tmp_last
    BY <1>3 DEF Sort!Finish, Sort!Fail, Sort!Fixed
  <2>2. Parted
    BY <2>1 DEF Parted
  <2> QED BY <2>1, <2>2 DEF SortInv, Behind, Turn
<1>4. CASE Sort!sort_file /\ Sort!Fixed
  BY <1>4, SortMoves DEF Sort!Fixed
<1>5. CASE Sort!CopyRecord /\ Sort!Fixed
  <2>1. job = "copy" /\ job' = job /\ calls' = calls /\ old_last' = "read" /\ tmp_last' = "write"
    BY <1>5 DEF Sort!CopyRecord, Sort!Fixed, Sort!ReadOld, Sort!WriteTmp
  <2>2. Parted
    BY <2>1 DEF SortInv, Parted
  <2> QED BY <2>1, <2>2 DEF SortInv, Behind, Turn
<1> QED BY <1>1, <1>2, <1>3, <1>4, <1>5 DEF Next, vars, Sort!Next

\* For every file, however long and whatever its records compare like, and
\* wherever the sort fails: no stream is read after a write or written after a
\* read without a seek in between.
THEOREM SeeksBetweenAlways == Spec => SeeksBetween
<1>1. Init => SortInv
  BY SortInit DEF Init
<1>2. SortInv /\ [Next]_vars => SortInv'
  BY SortNext
<1>3. SortInv /\ [Next]_vars => [Parted]_Sort!sortVars
  BY SortNext
<1>4. [][Parted]_Sort!sortVars <=> SeeksBetween
  BY PTL DEF SeeksBetween, Sort!SeeksBetween, Parted
<1> QED BY <1>1, <1>2, <1>3, <1>4, PTL DEF Spec

-----------------------------------------------------------------------------
(* What the sort does: counting *)

\* How many of the places S hold r.
Count(f, S, r) == Cardinality({k \in S : f[k] = r})

LEMMA CountType ==
    ASSUME NEW f, NEW S, IsFiniteSet(S), NEW r
    PROVE  Count(f, S, r) \in Nat
<1>1. IsFiniteSet({k \in S : f[k] = r})
  BY FS_Subset
<1> QED BY <1>1, FS_CardinalityType DEF Count

LEMMA CountAdd ==
    ASSUME NEW f, NEW S, IsFiniteSet(S), NEW e, e \notin S, NEW r
    PROVE  Count(f, S \cup {e}, r) = Count(f, S, r) + IF f[e] = r THEN 1 ELSE 0
<1> DEFINE T == {k \in S : f[k] = r}
<1>1. IsFiniteSet(T) /\ e \notin T
  BY FS_Subset
<1>2. Count(f, S, r) = Cardinality(T) /\ Cardinality(T) \in Nat
  BY <1>1, FS_CardinalityType DEF Count
<1>3. CASE f[e] = r
  <2>1. {k \in S \cup {e} : f[k] = r} = T \cup {e}
    BY <1>3
  <2>2. Cardinality(T \cup {e}) = Cardinality(T) + 1
    BY <1>1, FS_AddElement
  <2> QED BY <1>2, <1>3, <2>1, <2>2 DEF Count
<1>4. CASE f[e] # r
  <2>1. {k \in S \cup {e} : f[k] = r} = T
    BY <1>4
  <2>2. Count(f, S \cup {e}, r) = Cardinality(T)
    BY <2>1 DEF Count
  <2> HIDE DEF T
  <2> QED BY <1>2, <1>4, <2>2
<1> QED BY <1>3, <1>4

LEMMA CountSame ==
    ASSUME NEW f, NEW g, NEW S, \A k \in S : f[k] = g[k], NEW r
    PROVE  Count(f, S, r) = Count(g, S, r)
<1>1. {k \in S : f[k] = r} = {k \in S : g[k] = r}
  OBVIOUS
<1> QED BY <1>1 DEF Count

LEMMA CountUnion ==
    ASSUME NEW f, NEW S, IsFiniteSet(S), NEW T, IsFiniteSet(T), S \cap T = {}, NEW r
    PROVE  Count(f, S \cup T, r) = Count(f, S, r) + Count(f, T, r)
<1> DEFINE A == {k \in S : f[k] = r}
           B == {k \in T : f[k] = r}
<1>1. IsFiniteSet(A) /\ IsFiniteSet(B) /\ A \cap B = {}
  BY FS_Subset
<1>2. {k \in S \cup T : f[k] = r} = A \cup B
  OBVIOUS
<1>3. Cardinality(A) \in Nat /\ Cardinality(B) \in Nat /\ Cardinality(A \cap B) = 0
  BY <1>1, FS_CardinalityType, FS_EmptySet
<1>4. Cardinality(A \cup B) = Cardinality(A) + Cardinality(B) - Cardinality(A \cap B)
  BY <1>1, FS_Union
<1>5. Cardinality(A \cup B) = Cardinality(A) + Cardinality(B)
  BY <1>3, <1>4
<1> QED BY <1>2, <1>5 DEF Count

\* The places of part of a file.
LEMMA Interval ==
    ASSUME NEW a \in Nat, NEW b \in Nat
    PROVE  /\ IsFiniteSet(a + 1 .. b) /\ \A S : S \subseteq a + 1 .. b => IsFiniteSet(S)
           /\ b >= a => Cardinality(a + 1 .. b) = b - a
<1>1. IsFiniteSet(a + 1 .. b) /\ Cardinality(a + 1 .. b) = IF a + 1 > b THEN 0 ELSE b - (a + 1) + 1
  BY FS_Interval
<1>2. b >= a => (IF a + 1 > b THEN 0 ELSE b - (a + 1) + 1) = b - a
  OBVIOUS
<1> QED BY <1>1, <1>2, FS_Subset

\* The same records, as the sort of the composition has it.
LEMMA PermutedCounts ==
    ASSUME NEW s \in Seq(Records), NEW t \in Seq(Records), Len(s) = Len(t)
    PROVE  Sort!Permuted(s, t) <=>
             \A r \in Records : Count(s, 1 .. Len(s), r) = Count(t, 1 .. Len(s), r)
<1>1. \A S : Sort!Cardinality(S) = Cardinality(S)
  BY DEF Sort!Cardinality, Cardinality
<1>2. DOMAIN s = 1 .. Len(s) /\ DOMAIN t = 1 .. Len(s)
  BY LenProperties
<1> QED BY <1>1, <1>2 DEF Sort!Permuted, Count

\* One place more.
LEMMA CountNext ==
    ASSUME NEW f, NEW a \in Nat, NEW b \in Nat, a <= b, NEW r
    PROVE  Count(f, a + 1 .. b + 1, r) = Count(f, a + 1 .. b, r) + IF f[b + 1] = r THEN 1 ELSE 0
<1>1. a + 1 .. b + 1 = (a + 1 .. b) \cup {b + 1} /\ b + 1 \notin a + 1 .. b
  OBVIOUS
<1>2. IsFiniteSet(a + 1 .. b)
  BY Interval
<1> HIDE DEF Count
<1> QED BY <1>1, <1>2, CountAdd

LEMMA CountNone ==
    ASSUME NEW f, NEW S, NEW r, \A k \in S : f[k] # r
    PROVE  Count(f, S, r) = 0
<1>1. {k \in S : f[k] = r} = {}
  OBVIOUS
<1> QED BY <1>1, FS_EmptySet DEF Count

-----------------------------------------------------------------------------
(* The calls around the innermost one *)

Depth == Len(calls)
Inner == calls[Depth]

\* What the calls are after a step within the innermost one, after a call and
\* after a return.
LEMMA StackGoes ==
    ASSUME calls \in Seq(Calls), calls # <<>>, Behind(calls), NEW c \in Calls, calls' = Append(Sort!Outer, c)
    PROVE  /\ calls' \in Seq(Calls) /\ calls' # <<>> /\ Behind(calls')
           /\ Depth' = Depth /\ Depth \in Nat \ {0} /\ Inner' = c
           /\ \A d \in 1 .. Depth - 1 : calls'[d] = calls[d]
<1>1. calls' \in Seq(Calls) /\ calls' # <<>> /\ Len(calls') = Len(calls) /\ calls'[Len(calls')] = c
      /\ Behind(calls')
  BY SortGoes
<1>2. /\ Len(calls) \in Nat \ {0} /\ Sort!Outer \in Seq(Calls) /\ Len(Sort!Outer) = Len(calls) - 1
      /\ \A d \in 1 .. Len(calls) - 1 : Sort!Outer[d] = calls[d]
  BY SortCalls
<1>3. \A d \in 1 .. Len(Sort!Outer) : calls'[d] = Sort!Outer[d]
  BY <1>2, AppendProperties
<1> QED BY <1>1, <1>2, <1>3 DEF Depth, Inner

LEMMA StackDeeper ==
    ASSUME calls \in Seq(Calls), calls # <<>>, Behind(calls), NEW c \in Calls, NEW e \in Calls, c.pass \in {"skip", "end"},
           calls' = Append(Sort!Outer, c) \o <<e>>
    PROVE  /\ calls' \in Seq(Calls) /\ calls' # <<>> /\ Behind(calls')
           /\ Depth' = Depth + 1 /\ Depth \in Nat \ {0} /\ Inner' = e
           /\ calls'[Depth] = c /\ calls'[Depth + 1] = e
           /\ \A d \in 1 .. Depth - 1 : calls'[d] = calls[d]
<1> DEFINE t == Append(Sort!Outer, c)
<1>1. calls' \in Seq(Calls) /\ calls' # <<>> /\ calls'[Len(calls')] = e /\ Behind(calls')
  BY SortDeeper
<1>2. t \in Seq(Calls) /\ Len(t) = Len(calls) /\ t[Len(t)] = c
  BY SortGoes
<1>3. /\ Len(calls) \in Nat \ {0} /\ Sort!Outer \in Seq(Calls) /\ Len(Sort!Outer) = Len(calls) - 1
      /\ \A d \in 1 .. Len(calls) - 1 : Sort!Outer[d] = calls[d]
  BY SortCalls
<1>4. \A d \in 1 .. Len(calls) - 1 : t[d] = calls[d]
  BY <1>3, AppendProperties
<1> HIDE DEF t
<1>5. <<e>> \in Seq(Calls) /\ Len(<<e>>) = 1
  OBVIOUS
<1>6. /\ Len(calls') = Len(t) + 1
      /\ \A k \in 1 .. Len(t) + 1 : calls'[k] = IF k <= Len(t) THEN t[k] ELSE <<e>>[k - Len(t)]
  <2>1. calls' = t \o <<e>>
    BY DEF t
  <2> QED BY <1>2, <1>5, <2>1, ConcatProperties
<1>7. /\ Len(calls') = Len(calls) + 1 /\ calls'[Len(calls)] = c
      /\ \A d \in 1 .. Len(calls) - 1 : calls'[d] = calls[d]
  <2>1. \A k \in 1 .. Len(calls) : calls'[k] = t[k]
    BY <1>2, <1>3, <1>6
  <2> QED BY <1>2, <1>3, <1>4, <1>6, <2>1
<1> QED BY <1>1, <1>3, <1>7 DEF Depth, Inner

LEMMA StackReturns ==
    ASSUME calls \in Seq(Calls), calls # <<>>, Behind(calls), calls' = Sort!Outer
    PROVE  /\ calls' \in Seq(Calls) /\ Behind(calls')
           /\ Depth' = Depth - 1 /\ Depth \in Nat \ {0}
           /\ calls' # <<>> <=> Depth > 1
           /\ \A d \in 1 .. Depth - 1 : calls'[d] = calls[d]
<1>1. /\ Len(calls) \in Nat \ {0} /\ Sort!Outer \in Seq(Calls) /\ Len(Sort!Outer) = Len(calls) - 1
      /\ \A d \in 1 .. Len(calls) - 1 :
           Sort!Outer[d] = calls[d] /\ Sort!Outer[d].pass \in {"skip", "end"}
  BY SortCalls
<1>2. Behind(calls')
  BY <1>1 DEF Behind
<1>3. calls' # <<>> <=> Len(calls) > 1
  BY <1>1, EmptySeq
<1> QED BY <1>1, <1>2, <1>3 DEF Depth

-----------------------------------------------------------------------------
(* What the sort does: the invariant *)

\* The first c records are in order; those behind c do not come before them.
Rises(c) == \A k, l \in 1 .. Len(old) : k < l /\ l <= c => Key[old[k]] <= Key[old[l]]
Cut(c) == \A k, l \in 1 .. Len(old) : k <= c /\ c < l /\ l <= len => Key[old[k]] <= Key[old[l]]

\* r may be anywhere in the part s + 1 .. e.
Fit(s, e, r) ==
    \A l \in 1 .. Len(old) : /\ l <= s => Key[old[l]] <= Key[r]
                             /\ e < l /\ l <= len => Key[r] <= Key[old[l]]

\* The parts of the calls end at en: the calls around the innermost one still
\* have their greater records to sort ("skip"), behind the pivot, or nothing.
Waits(en) ==
    /\ en \in [1 .. Depth -> Nat] /\ en[1] = len
    /\ \A d, e \in 1 .. Depth : d <= e => en[e] <= en[d]
    /\ \A d \in 1 .. Depth : Cut(en[d])
    /\ \A d \in 1 .. Depth - 1 :
         /\ calls[d].pass = "end" => en[d] = en[d + 1]
         /\ calls[d].pass = "skip" => en[d] = en[d + 1] + 1 + calls[d].bigger /\ Cut(en[d + 1] + 1)
    /\ Depth > 1 => len <= Len(tmp)

NotAbove(q) == {r \in Records : Key[q] >= Key[r]}
Above(q) == {r \in Records : Key[q] < Key[r]}

\* The places a + 1 .. b of tmp_ hold those of Q among the i records behind
\* the pivot, and Picked is how many they are.
Taken(Q, a, b, s, e, i) ==
    /\ \A k \in a + 1 .. b : \A r : tmp[k] = r => r \in Q /\ Fit(s, e, r)
    /\ \A r \in Q : Count(tmp, a + 1 .. b, r) = Count(old, s + 2 .. s + 1 + i, r)
Picked(Q, s, i) == Cardinality({k \in s + 2 .. s + 1 + i : old[k] \in Q})

\* The file holds its records, in whatever order.
Same == \A r \in Records : Count(old, 1 .. Len(old), r) = Count(input, 1 .. Len(old), r)

\* A call c with the part s + 1 .. e, in each of its passes.
EnterOK(s, e, c) ==
    /\ c.i = 0 /\ c.smaller = 0 /\ c.bigger = 0
    /\ old_pos = s /\ tmp_pos = s /\ s <= Len(tmp)

SmallerOK(s, e, c, q) ==
    /\ c.i <= c.length - 1 /\ old_pos = s + 1 + c.i /\ old_pos <= Len(old)
    /\ q = old[s + 1] /\ c.bigger = 0
    /\ tmp_pos = s + c.smaller /\ tmp_pos <= Len(tmp)
    /\ c.smaller = Picked(NotAbove(q), s, c.i)
    /\ Taken(NotAbove(q), s, s + c.smaller, s, e, c.i)

BiggerOK(s, e, c, q) ==
    /\ c.i <= c.length - 1 /\ old_pos = s + 1 + c.i /\ e <= Len(old)
    /\ q = old[s + 1] /\ tmp[s + c.smaller + 1] = q
    /\ tmp_pos = s + c.smaller + 1 + c.bigger /\ tmp_pos <= Len(tmp)
    /\ c.smaller = Picked(NotAbove(q), s, c.length - 1)
    /\ c.bigger = Picked(Above(q), s, c.i)
    /\ Taken(NotAbove(q), s, s + c.smaller, s, e, c.length - 1)
    /\ Taken(Above(q), s + c.smaller + 1, s + c.smaller + 1 + c.bigger, s, e, c.i)

BackOK(s, e, c) ==
    /\ c.i <= c.length /\ old_pos = s + c.i /\ tmp_pos = s + c.i
    /\ c.smaller + 1 + c.bigger = c.length /\ e <= Len(old) /\ e <= Len(tmp)
    /\ \A k \in s + 1 .. s + c.i : old[k] = tmp[k]
    /\ \A k \in s + 1 .. e : \A r : tmp[k] = r => Fit(s, e, r)
    /\ \A k \in s + 1 .. s + c.smaller : Key[tmp[k]] <= Key[tmp[s + c.smaller + 1]]
    /\ \A k \in s + c.smaller + 2 .. e : Key[tmp[s + c.smaller + 1]] <= Key[tmp[k]]
    /\ \A r \in Records :
         Count(tmp, s + 1 .. e, r) + Count(old, (1 .. Len(old)) \ (s + 1 .. e), r)
           = Count(input, 1 .. Len(old), r)

PassOK(s, e, c) ==
    /\ c.pass \in {"enter", "smaller", "bigger", "back"} => s >= 0 /\ Cut(s) /\ Rises(s)
    /\ c.pass \in {"smaller", "bigger", "back"} => c.length > 1
    /\ c.pass # "back" => Same
    /\ c.pass = "enter" => EnterOK(s, e, c)
    /\ c.pass = "smaller" => \A q : q = pivot => SmallerOK(s, e, c, q)
    /\ c.pass = "bigger" => \A q : q = pivot => BiggerOK(s, e, c, q)
    /\ c.pass = "back" => BackOK(s, e, c)
    /\ c.pass \in {"skip", "end"} => tmp_pos = old_pos /\ old_pos >= 0 /\ Rises(old_pos) /\ len <= Len(tmp)
    /\ c.pass = "skip" => old_pos + 1 + c.bigger = e /\ Cut(old_pos) /\ Cut(old_pos + 1)
    /\ c.pass = "end" => old_pos = e

\* What the files and the positions are.
FilesTyped ==
    /\ input \in Seq(Records) /\ old \in Seq(Records) /\ tmp \in Seq(Records)
    /\ Len(old) = Len(input) /\ len \in Nat /\ old_pos \in Int /\ tmp_pos \in Int

\* The innermost call c has the part s + 1 .. e.
Sorting ==
    /\ calls # <<>>
    /\ \E en : \E s \in Int, e \in Nat, c \in Calls :
         c = Inner /\ e = en[Depth] /\ s + c.length = e /\ Waits(en) /\ PassOK(s, e, c)

\* The records that are no part of the sort stay; while a call is under way, it
\* and those around it are as above; in the end all that was asked for is in order.
FileInv ==
    /\ FilesTyped
    /\ job \in {"none", "sort", "copy"}
    /\ job = "sort" =>
         /\ \A k \in len + 1 .. Len(old) : old[k] = input[k]
         /\ calls # <<>> => Sorting
         /\ calls = <<>> => Same /\ Rises(len)
    /\ job # "sort" => old = input
    /\ job = "none" => status = "running" /\ old_pos = 0 /\ tmp_pos = 0
    /\ job = "copy" =>
         /\ old_pos = Len(tmp) /\ tmp_pos = Len(tmp) /\ Len(tmp) <= Len(old)
         /\ \A k \in 1 .. Len(tmp) : tmp[k] = input[k]
    /\ status = "done" => /\ job = "sort" => calls = <<>>
                          /\ job = "copy" => old_pos = len

LEMMA KeyInt == \A r \in Records : Key[r] \in Int
  BY ProgramsAssumption DEF Sort!SortAssumption

LEMMA LenNat ==
    ASSUME NEW S, NEW s \in Seq(S)
    PROVE  Len(s) \in Nat /\ \A k \in 1 .. Len(s) : s[k] \in S
  BY LenProperties

\* A write at a position that is at most the end of a file.
LEMMA WrittenFile ==
    ASSUME NEW file \in Seq(Records), NEW pos \in Nat, pos <= Len(file), NEW r \in Records
    PROVE  /\ Sort!Written(file, pos, r) \in Seq(Records)
           /\ Len(file) <= Len(Sort!Written(file, pos, r)) /\ pos + 1 <= Len(Sort!Written(file, pos, r))
           /\ pos < Len(file) => Len(Sort!Written(file, pos, r)) = Len(file)
           /\ Sort!Written(file, pos, r)[pos + 1] = r
           /\ \A k \in 1 .. Len(file) : k # pos + 1 => Sort!Written(file, pos, r)[k] = file[k]
<1>1. Len(file) \in Nat /\ \A k \in 1 .. Len(file) : file[k] \in Records
  BY LenNat
<1>2. PICK n \in Nat : n = IF pos = Len(file) THEN pos + 1 ELSE Len(file)
  BY <1>1
<1>3. n >= Len(file) /\ n >= pos + 1 /\ n > 0 /\ (pos < Len(file) => n = Len(file))
      /\ \A k \in 1 .. n : k # pos + 1 => k \in 1 .. Len(file)
  BY <1>1, <1>2
<1> PICK w : w = Sort!Written(file, pos, r)
  OBVIOUS
<1>4. w = [k \in 1 .. n |-> IF k = pos + 1 THEN r ELSE file[k]]
  BY <1>2 DEF Sort!Written
<1>5. w \in Seq(Records) /\ Len(w) = n
  <2>1. \A k \in 1 .. n : (IF k = pos + 1 THEN r ELSE file[k]) \in Records
    BY <1>1, <1>3
  <2>2. w \in [1 .. n -> Records]
    BY <1>4, <2>1
  <2>3. w \in Seq(Records)
    BY <2>2
  <2> QED BY <1>4, <2>3
<1>6. w[pos + 1] = r /\ \A k \in 1 .. Len(file) : k # pos + 1 => w[k] = file[k]
  <2>1. pos + 1 \in 1 .. n /\ \A k \in 1 .. Len(file) : k \in 1 .. n
    BY <1>1, <1>3
  <2> QED BY <1>4, <2>1
<1> QED BY <1>3, <1>5, <1>6

\* What may stand in a part stands there.
LEMMA CutFits ==
    ASSUME NEW s \in Int, NEW e \in Int, Cut(s), Cut(e), Len(old) \in Nat, len \in Int,
           NEW k \in 1 .. Len(old), s < k, k <= e, e <= len
    PROVE  Fit(s, e, old[k])
  BY DEF Fit, Cut

-----------------------------------------------------------------------------
(* What the sort does: the calls *)

\* What is known of the ends of the parts.
LEMMA Ends ==
    ASSUME calls \in Seq(Calls), calls # <<>>, len \in Nat, NEW en, Waits(en)
    PROVE  /\ Depth \in Nat \ {0} /\ Depth \in 1 .. Depth /\ Inner \in Calls
           /\ \A d \in 1 .. Depth : en[d] \in Nat /\ en[d] <= len /\ en[Depth] <= en[d] /\ calls[d] \in Calls
<1>1. Depth \in Nat \ {0} /\ \A d \in 1 .. Depth : calls[d] \in Calls
  BY LenNat, EmptySeq DEF Depth
<1>2. 1 \in 1 .. Depth /\ Depth \in 1 .. Depth /\ \A d \in 1 .. Depth : 1 <= d /\ d <= Depth
  BY <1>1
<1> HIDE DEF Depth
<1>3. \A d \in 1 .. Depth : en[d] \in Nat /\ en[d] <= en[1] /\ en[Depth] <= en[d]
  BY <1>2 DEF Waits
<1>4. en[1] = len
  BY DEF Waits
<1> QED BY <1>1, <1>2, <1>3, <1>4 DEF Inner

\* A step that writes, if at all, only to tmp_ does not matter to the calls
\* around; nor does one that puts a record where it may be into the part.
LEMMA OldSame ==
    ASSUME UNCHANGED <<old, len>>
    PROVE  /\ \A c : (Rises(c)' <=> Rises(c)) /\ (Cut(c)' <=> Cut(c))
           /\ \A s, e, r : Fit(s, e, r)' <=> Fit(s, e, r)
  BY DEF Rises, Cut, Fit

LEMMA OldPut ==
    ASSUME Len(old) \in Nat, len \in Nat, len' = len, Len(old') = Len(old),
           NEW s \in Int, NEW e \in Int, NEW p \in Int, s < p, p <= e, NEW x \in Records,
           Fit(s, e, x), old'[p] = x, \A k \in 1 .. Len(old) : k # p => old'[k] = old[k]
    PROVE  /\ Rises(s) => Rises(s)'
           /\ Cut(s) => Cut(s)'
           /\ \A c \in Int : e <= c /\ Cut(c) => Cut(c)'
           /\ \A r : Fit(s, e, r) => Fit(s, e, r)'
<1>1. \A k \in 1 .. Len(old) : k <= s => old'[k] = old[k]
  OBVIOUS
<1>2. \A k \in 1 .. Len(old) : e < k => old'[k] = old[k]
  OBVIOUS
<1>3. ASSUME Rises(s) PROVE Rises(s)'
  BY <1>1, <1>3 DEF Rises
<1>4. ASSUME Cut(s) PROVE Cut(s)'
  <2> SUFFICES ASSUME NEW k \in 1 .. Len(old), NEW l \in 1 .. Len(old), k <= s, s < l, l <= len
               PROVE  Key[old'[k]] <= Key[old'[l]]
    BY DEF Cut
  <2>1. old'[k] = old[k]
    BY <1>1
  <2>2. CASE l = p
    BY <2>1, <2>2 DEF Fit
  <2>3. CASE l # p
    BY <1>4, <2>1, <2>3 DEF Cut
  <2> QED BY <2>2, <2>3
<1>5. ASSUME NEW c \in Int, e <= c, Cut(c) PROVE Cut(c)'
  <2> SUFFICES ASSUME NEW k \in 1 .. Len(old), NEW l \in 1 .. Len(old), k <= c, c < l, l <= len
               PROVE  Key[old'[k]] <= Key[old'[l]]
    BY DEF Cut
  <2>1. e < l /\ old'[l] = old[l]
    BY <1>2, <1>5
  <2>2. CASE k = p
    BY <2>1, <2>2 DEF Fit
  <2>3. CASE k # p
    BY <1>5, <2>1, <2>3 DEF Cut
  <2> QED BY <2>2, <2>3
<1>6. ASSUME NEW r, Fit(s, e, r) PROVE Fit(s, e, r)'
  BY <1>1, <1>2, <1>6 DEF Fit
<1> QED BY <1>3, <1>4, <1>5, <1>6

\* The innermost call goes on.
LEMMA WaitsOn ==
    ASSUME calls \in Seq(Calls), calls # <<>>, Behind(calls), len \in Nat, NEW en, Waits(en), len' = len,
           NEW c \in Calls, calls' = Append(Sort!Outer, c),
           Len(tmp) \in Nat, Len(tmp') \in Nat, Len(tmp) <= Len(tmp'),
           \A b \in Int : en[Depth] <= b /\ Cut(b) => Cut(b)'
    PROVE  /\ Waits(en)' /\ c = Inner' /\ en[Depth] = en[Depth']
           /\ calls' \in Seq(Calls) /\ calls' # <<>>
<1>1. /\ calls' \in Seq(Calls) /\ calls' # <<>> /\ Depth' = Depth /\ Inner' = c
      /\ \A d \in 1 .. Depth - 1 : calls'[d] = calls[d]
  BY StackGoes
<1>2. Depth \in Nat \ {0} /\ \A d \in 1 .. Depth : en[d] \in Nat /\ en[Depth] <= en[d]
  BY Ends
<1> HIDE DEF Depth
<1>3. \A d \in 1 .. Depth : Cut(en[d])'
  BY <1>2 DEF Waits
<1>4. ASSUME NEW d \in 1 .. Depth - 1
      PROVE  /\ calls'[d].pass = "end" => en[d] = en[d + 1]
             /\ calls'[d].pass = "skip" => en[d] = en[d + 1] + 1 + calls'[d].bigger /\ Cut(en[d + 1] + 1)'
  <2>1. d + 1 \in 1 .. Depth
    BY <1>2
  <2>5. calls'[d] = calls[d]
    BY <1>1
  <2>2. calls[d].pass = "end" => en[d] = en[d + 1]
    BY DEF Waits
  <2>3. calls[d].pass = "skip" => en[d] = en[d + 1] + 1 + calls[d].bigger /\ Cut(en[d + 1] + 1)
    BY DEF Waits
  <2>4. en[d + 1] + 1 \in Int /\ en[Depth] <= en[d + 1] + 1
    BY <1>2, <2>1
  <2> QED BY <2>2, <2>3, <2>4, <2>5
<1>5. Depth > 1 => len <= Len(tmp')
  <2>1. Depth > 1 => len <= Len(tmp)
    BY DEF Waits
  <2> QED BY <2>1
<1>6. /\ en \in [1 .. Depth -> Nat] /\ en[1] = len
      /\ \A d, e \in 1 .. Depth : d <= e => en[e] <= en[d]
  BY DEF Waits
<1> QED BY <1>1, <1>3, <1>4, <1>5, <1>6 DEF Waits

\* A call of it, for the side s + 1 .. e of its part.
LEMMA WaitsDeeper ==
    ASSUME calls \in Seq(Calls), calls # <<>>, Behind(calls), len \in Nat, NEW en, Waits(en),
           UNCHANGED <<old, len, tmp>>, len <= Len(tmp),
           NEW c \in Calls, NEW n \in Calls, c.pass \in {"skip", "end"},
           calls' = Append(Sort!Outer, c) \o <<n>>,
           NEW e \in Nat, e <= en[Depth], Cut(e),
           c.pass = "end" => en[Depth] = e,
           c.pass = "skip" => en[Depth] = e + 1 + c.bigger /\ Cut(e + 1)
    PROVE  /\ n = Inner' /\ calls' \in Seq(Calls) /\ calls' # <<>>
           /\ \E en1 : Waits(en1)' /\ e = en1[Depth']
<1>1. /\ calls' \in Seq(Calls) /\ calls' # <<>> /\ Depth' = Depth + 1 /\ Inner' = n
      /\ calls'[Depth] = c /\ \A d \in 1 .. Depth - 1 : calls'[d] = calls[d]
  BY StackDeeper
<1>2. Depth \in Nat \ {0} /\ \A d \in 1 .. Depth : en[d] \in Nat /\ en[Depth] <= en[d]
  BY Ends
<1> PICK D \in Nat \ {0} : D = Depth
  BY <1>2
<1> DEFINE en1 == [d \in 1 .. D + 1 |-> IF d = D + 1 THEN e ELSE en[d]]
<1>3. /\ en \in [1 .. D -> Nat] /\ en[1] = len /\ \A d, f \in 1 .. D : d <= f => en[f] <= en[d]
      /\ \A d \in 1 .. D : Cut(en[d])
  BY DEF Waits
<1>4. ASSUME NEW d \in 1 .. D - 1
      PROVE  /\ calls[d].pass = "end" => en[d] = en[d + 1]
             /\ calls[d].pass = "skip" => en[d] = en[d + 1] + 1 + calls[d].bigger /\ Cut(en[d + 1] + 1)
  BY DEF Waits
<1>5. /\ \A d \in 1 .. D : en1[d] = en[d] /\ d # D + 1
      /\ en1[D + 1] = e /\ en1 \in [1 .. D + 1 -> Nat] /\ \A d \in 1 .. D + 1 : d = D + 1 \/ d \in 1 .. D
  BY <1>3
<1> HIDE DEF en1, Depth
<1>6. en1[1] = len
  BY <1>3, <1>5
<1>7. \A d, f \in 1 .. D + 1 : d <= f => en1[f] <= en1[d]
  <2> SUFFICES ASSUME NEW d \in 1 .. D + 1, NEW f \in 1 .. D + 1, d <= f PROVE en1[f] <= en1[d]
    OBVIOUS
  <2>1. CASE f \in 1 .. D
    BY <1>3, <1>5, <2>1, SMTT(60)
  <2>2. CASE f = D + 1 /\ d \in 1 .. D
    <3>1. en[D] \in Nat /\ en[d] \in Nat /\ en[D] <= en[d] /\ e <= en[D]
      BY <1>2, <2>2
    <3> QED BY <1>5, <2>2, <3>1
  <2>3. CASE d = D + 1 /\ f = D + 1
    BY <1>5, <2>3
  <2> QED BY <1>5, <2>1, <2>2, <2>3
<1>8. \A d \in 1 .. D + 1 : Cut(en1[d])'
  BY <1>3, <1>5, OldSame
<1>9. ASSUME NEW d \in 1 .. D
      PROVE  /\ calls'[d].pass = "end" => en1[d] = en1[d + 1]
             /\ calls'[d].pass = "skip" => en1[d] = en1[d + 1] + 1 + calls'[d].bigger /\ Cut(en1[d + 1] + 1)'
  <2>1. CASE d = D
    BY <1>1, <1>5, <2>1, OldSame
  <2>2. CASE d # D
    <3>1. d \in 1 .. D - 1 /\ d + 1 \in 1 .. D
      BY <2>2
    <3>2. calls'[d] = calls[d]
      BY <1>1, <3>1
    <3> QED BY <1>4, <1>5, <3>1, <3>2, OldSame
  <2> QED BY <2>1, <2>2
<1>10. Depth' = D + 1 /\ len' = len /\ len <= Len(tmp') /\ D + 1 - 1 = D
  BY <1>1
<1>11. Waits(en1)'
  <2>1. en1 \in [1 .. Depth' -> Nat] /\ en1[1] = len'
    BY <1>5, <1>6, <1>10
  <2>2. \A d, f \in 1 .. Depth' : d <= f => en1[f] <= en1[d]
    BY <1>7, <1>10
  <2>3. \A d \in 1 .. Depth' : Cut(en1[d])'
    BY <1>8, <1>10
  <2>4. Depth' - 1 = D
    BY <1>10
  <2>5. \A d \in 1 .. Depth' - 1 :
          /\ calls'[d].pass = "end" => en1[d] = en1[d + 1]
          /\ calls'[d].pass = "skip" => en1[d] = en1[d + 1] + 1 + calls'[d].bigger /\ Cut(en1[d + 1] + 1)'
    BY <1>9, <2>4
  <2> QED BY <1>10, <2>1, <2>2, <2>3, <2>5 DEF Waits
<1> QED BY <1>1, <1>5, <1>10, <1>11

\* It returns at the end of its part, which is in order.
LEMMA Returns ==
    ASSUME calls \in Seq(Calls), calls # <<>>, Behind(calls), len \in Nat, NEW en, Waits(en),
           UNCHANGED <<old, len, tmp, input>>, calls' = Sort!Outer,
           NEW e \in Nat, e = en[Depth], Rises(e), Same, old_pos' = e, tmp_pos' = e
    PROVE  /\ calls' = <<>> => Same' /\ Rises(len)'
           /\ calls' # <<>> => Sorting'
<1>1. /\ calls' \in Seq(Calls) /\ Behind(calls') /\ Depth' = Depth - 1
      /\ calls' # <<>> <=> Depth > 1
      /\ \A d \in 1 .. Depth - 1 : calls'[d] = calls[d]
  BY StackReturns
<1>2. Depth \in Nat \ {0} /\ \A d \in 1 .. Depth : en[d] \in Nat /\ en[d] <= len
  BY Ends
<1>3. /\ en \in [1 .. Depth -> Nat] /\ en[1] = len
      /\ \A d, f \in 1 .. Depth : d <= f => en[f] <= en[d]
      /\ \A d \in 1 .. Depth : Cut(en[d])
      /\ Depth > 1 => len <= Len(tmp)
  BY DEF Waits
<1>4. Same' /\ \A b : (Rises(b)' <=> Rises(b)) /\ (Cut(b)' <=> Cut(b))
  BY OldSame DEF Same
<1>5. ASSUME calls' = <<>> PROVE Rises(len)'
  <2>1. ~(Depth > 1)
    BY <1>1, <1>5
  <2>2. Depth = 1
    BY <1>2, <2>1
  <2> QED BY <1>3, <1>4, <2>2
<1>6. ASSUME calls' # <<>> PROVE Sorting'
  <2>1. Depth > 1
    BY <1>1, <1>6
  <2> PICK D \in Nat \ {0} : D + 1 = Depth
    <3>1. Depth - 1 \in Nat \ {0} /\ Depth - 1 + 1 = Depth
      BY <1>2, <2>1
    <3> QED BY <3>1
  <2>2. Depth - 1 = D /\ Depth' = D /\ D \in 1 .. Depth /\ D \in 1 .. Depth - 1 /\ D \in 1 .. D
    BY <1>1
  <2>3. calls'[D] = calls[D] /\ calls'[D] \in Calls /\ calls'[D].pass \in {"skip", "end"}
        /\ Inner' = calls'[D]
    <3>1. calls'[D] = calls[D] /\ calls[D].pass \in {"skip", "end"}
      BY <1>1, <2>2 DEF Behind, Depth
    <3>2. calls'[D] \in Calls
      BY <1>1, <2>2, LenNat DEF Depth
    <3> QED BY <2>2, <3>1, <3>2 DEF Inner
  <2> PICK c \in Calls : c = calls'[D]
    BY <2>3
  <2> DEFINE en1 == [d \in 1 .. D |-> en[d]]
  <2>4. en1 \in [1 .. D -> Nat] /\ \A d \in 1 .. D : en1[d] = en[d] /\ d \in 1 .. Depth
    <3>1. \A d \in 1 .. D : d \in 1 .. Depth
      OBVIOUS
    <3> QED BY <1>2, <3>1
  <2> HIDE DEF en1, Depth
  <2>5. Waits(en1)'
    <3>1. en1 \in [1 .. D -> Nat] /\ en1[1] = len
      BY <1>3, <2>4
    <3>2. \A d, f \in 1 .. D : d <= f => en1[f] <= en1[d]
      BY <1>3, <2>4
    <3>3. \A d \in 1 .. D : Cut(en1[d])'
      BY <1>3, <1>4, <2>4
    <3>4. ASSUME NEW d \in 1 .. D - 1
          PROVE  /\ calls'[d].pass = "end" => en1[d] = en1[d + 1]
                 /\ calls'[d].pass = "skip" => en1[d] = en1[d + 1] + 1 + calls'[d].bigger /\ Cut(en1[d + 1] + 1)'
      <4>1. d \in 1 .. D /\ d + 1 \in 1 .. D /\ d \in 1 .. Depth - 1
        BY <2>2
      <4>2. /\ calls[d].pass = "end" => en[d] = en[d + 1]
            /\ calls[d].pass = "skip" => en[d] = en[d + 1] + 1 + calls[d].bigger /\ Cut(en[d + 1] + 1)
        BY <4>1 DEF Waits
      <4>3. calls'[d] = calls[d]
        BY <1>1, <4>1
      <4> QED BY <1>4, <2>4, <4>1, <4>2, <4>3
    <3>5. len' = len /\ len <= Len(tmp')
      BY <1>3, <2>1
    <3> QED BY <2>2, <3>1, <3>2, <3>3, <3>4, <3>5 DEF Waits
  <2>6. /\ c.pass = "end" => en[D] = e
        /\ c.pass = "skip" => en[D] = e + 1 + c.bigger /\ Cut(e + 1)
    BY <2>2, <2>3 DEF Waits
  <2>7. c.length \in Nat /\ c.bigger \in Nat /\ en[D] \in Nat /\ en1[D] = en[D]
    BY <1>2, <2>2, <2>4 DEF Calls
  <2> PICK f \in Nat : f = en[D]
    BY <2>7
  <2> PICK s \in Int : s + c.length = f
    <3>1. f - c.length \in Int /\ (f - c.length) + c.length = f
      BY <2>7
    <3> QED BY <3>1
  <2>8. Cut(e)
    <3>1. Depth \in 1 .. Depth
      BY <1>2
    <3> QED BY <1>3, <3>1
  <2>9. PassOK(s, f, c)'
    <3>1. c.pass \in {"skip", "end"} /\ c.pass \notin {"enter", "smaller", "bigger", "back"}
      BY <2>3
    <3>2. tmp_pos' = old_pos' /\ old_pos' >= 0 /\ Rises(old_pos)' /\ len' <= Len(tmp')
      <4>1. Rises(old_pos)' <=> Rises(e)'
        BY DEF Rises
      <4> QED BY <1>3, <1>4, <2>1, <4>1
    <3>3. c.pass = "skip" => old_pos' + 1 + c.bigger = f /\ Cut(old_pos)' /\ Cut(old_pos + 1)'
      <4>1. (Cut(old_pos)' <=> Cut(e)') /\ (Cut(old_pos + 1)' <=> Cut(e + 1)')
        BY DEF Cut
      <4> QED BY <1>4, <2>6, <2>8, <4>1
    <3>4. c.pass = "end" => old_pos' = f
      BY <2>6
    <3> QED BY <1>4, <3>1, <3>2, <3>3, <3>4 DEF PassOK
  <2>10. c = Inner' /\ f = en1[Depth']
    BY <2>2, <2>3, <2>7
  <2> QED BY <1>6, <2>5, <2>9, <2>10 DEF Sorting
<1> QED BY <1>4, <1>5, <1>6

-----------------------------------------------------------------------------
(* What the sort does: the records that a pass takes *)

LEMMA TakenNone ==
    ASSUME NEW Q, NEW a \in Int, NEW s \in Int, NEW e
    PROVE  Taken(Q, a, a, s, e, 0) /\ Picked(Q, s, 0) = 0
<1>1. a + 1 .. a = {} /\ s + 2 .. s + 1 + 0 = {}
  OBVIOUS
<1>2. \A f, r : Count(f, {}, r) = 0
  BY CountNone
<1>3. {k \in {} : old[k] \in Q} = {}
  OBVIOUS
<1>4. Picked(Q, s, 0) = 0
  BY <1>1, <1>3, FS_EmptySet DEF Picked
<1> QED BY <1>1, <1>2, <1>4 DEF Taken

\* The next record, x, is one of Q and written, or it is not.
LEMMA PickedNext ==
    ASSUME NEW Q, NEW s \in Nat, NEW i \in Nat, UNCHANGED old
    PROVE  /\ Picked(Q, s, i)' = Picked(Q, s, i)
           /\ Picked(Q, s, i + 1)' = Picked(Q, s, i) + IF old[s + 2 + i] \in Q THEN 1 ELSE 0
           /\ Picked(Q, s, i) \in Nat
<1> DEFINE P == {k \in s + 2 .. s + 1 + i : old[k] \in Q}
<1>1. s + 2 .. s + 1 + (i + 1) = (s + 2 .. s + 1 + i) \cup {s + 2 + i} /\ s + 2 + i \notin s + 2 .. s + 1 + i
  OBVIOUS
<1>2. IsFiniteSet(P)
  <2>1. s + 1 \in Nat /\ s + 1 + i \in Nat /\ s + 1 + 1 = s + 2
    OBVIOUS
  <2>2. P \subseteq s + 1 + 1 .. s + 1 + i
    BY <2>1
  <2> HIDE DEF P
  <2> QED BY <2>1, <2>2, Interval
<1>3. Cardinality(P) \in Nat /\ Picked(Q, s, i) = Cardinality(P) /\ Picked(Q, s, i)' = Cardinality(P)
  BY <1>2, FS_CardinalityType DEF Picked
<1>4. CASE old[s + 2 + i] \in Q
  <2>1. {k \in s + 2 .. s + 1 + (i + 1) : old[k] \in Q} = P \cup {s + 2 + i}
    BY <1>1, <1>4
  <2>2. s + 2 + i \notin P
    BY <1>1
  <2>3. Cardinality(P \cup {s + 2 + i}) = Cardinality(P) + 1
    BY <1>2, <2>2, FS_AddElement
  <2>4. Picked(Q, s, i + 1)' = Cardinality(P \cup {s + 2 + i})
    BY <2>1 DEF Picked
  <2> QED BY <1>3, <1>4, <2>3, <2>4
<1>5. CASE old[s + 2 + i] \notin Q
  <2>1. {k \in s + 2 .. s + 1 + (i + 1) : old[k] \in Q} = P
    BY <1>1, <1>5
  <2>2. Picked(Q, s, i + 1)' = Cardinality(P)
    BY <2>1 DEF Picked
  <2> HIDE DEF P
  <2> QED BY <1>3, <1>5, <2>2
<1> QED BY <1>3, <1>4, <1>5

LEMMA TakenSame ==
    ASSUME UNCHANGED <<old, len>>, NEW Q, NEW a \in Int, NEW b \in Int, NEW s \in Int, NEW e, NEW i \in Int,
           Taken(Q, a, b, s, e, i), \A k \in a + 1 .. b : tmp'[k] = tmp[k]
    PROVE  Taken(Q, a, b, s, e, i)'
<1>1. \A k \in a + 1 .. b : \A r : tmp'[k] = r => r \in Q /\ Fit(s, e, r)'
  BY OldSame DEF Taken
<1>2. \A r \in Q : Count(tmp', a + 1 .. b, r) = Count(tmp, a + 1 .. b, r)
  BY CountSame
<1>3. \A r \in Q : Count(tmp', a + 1 .. b, r) = Count(old', s + 2 .. s + 1 + i, r)
  BY <1>2 DEF Taken
<1> QED BY <1>1, <1>3 DEF Taken, Count

LEMMA TakenNext ==
    ASSUME UNCHANGED <<old, len>>, NEW Q, NEW a \in Nat, NEW b \in Nat, a <= b,
           NEW s \in Nat, NEW e, NEW i \in Nat, Taken(Q, a, b, s, e, i),
           \A k \in a + 1 .. b : tmp'[k] = tmp[k]
    PROVE  /\ old[s + 2 + i] \in Q /\ tmp'[b + 1] = old[s + 2 + i] /\ Fit(s, e, old[s + 2 + i])
                => Taken(Q, a, b + 1, s, e, i + 1)'
           /\ old[s + 2 + i] \notin Q => Taken(Q, a, b, s, e, i + 1)'
<1>1. Taken(Q, a, b, s, e, i)'
  BY TakenSame
<1>2. \A r : Count(old', s + 2 .. s + 1 + (i + 1), r)
               = Count(old', s + 2 .. s + 1 + i, r) + IF old[s + 2 + i] = r THEN 1 ELSE 0
  <2> SUFFICES ASSUME NEW r
               PROVE  Count(old', s + 2 .. s + 1 + (i + 1), r)
                        = Count(old', s + 2 .. s + 1 + i, r) + IF old[s + 2 + i] = r THEN 1 ELSE 0
    OBVIOUS
  <2>1. PICK u \in Nat : u = s + 1
    OBVIOUS
  <2>2. PICK v \in Nat : v = s + 1 + i
    OBVIOUS
  <2>5. u <= v
    BY <2>1, <2>2
  <2>3. Count(old', u + 1 .. v + 1, r) = Count(old', u + 1 .. v, r) + IF old'[v + 1] = r THEN 1 ELSE 0
    BY <2>5, CountNext
  <2>4. u + 1 = s + 2 /\ v + 1 = s + 1 + (i + 1) /\ v + 1 = s + 2 + i
    BY <2>1, <2>2
  <2> QED BY <2>2, <2>3, <2>4
<1>3. ASSUME old[s + 2 + i] \in Q, tmp'[b + 1] = old[s + 2 + i], Fit(s, e, old[s + 2 + i])
      PROVE  Taken(Q, a, b + 1, s, e, i + 1)'
  <2>1. \A k \in a + 1 .. b + 1 : \A r : tmp'[k] = r => r \in Q /\ Fit(s, e, r)'
    <3> SUFFICES ASSUME NEW k \in a + 1 .. b + 1, NEW r, tmp'[k] = r PROVE r \in Q /\ Fit(s, e, r)'
      OBVIOUS
    <3>1. CASE k = b + 1
      BY <1>3, <3>1, OldSame
    <3>2. CASE k # b + 1
      <4>1. k \in a + 1 .. b
        BY <3>2
      <4> QED BY <1>1, <4>1 DEF Taken
    <3> QED BY <3>1, <3>2
  <2>2. \A r \in Q : Count(tmp', a + 1 .. b + 1, r) = Count(tmp', a + 1 .. b, r) + IF old[s + 2 + i] = r THEN 1 ELSE 0
    BY <1>3, CountNext
  <2>3. \A r \in Q : Count(tmp', a + 1 .. b, r) = Count(old', s + 2 .. s + 1 + i, r)
    BY <1>1 DEF Taken, Count
  <2>4. \A r \in Q : Count(tmp', a + 1 .. b + 1, r) = Count(old', s + 2 .. s + 1 + (i + 1), r)
    BY <1>2, <2>2, <2>3
  <2> QED BY <2>1, <2>4 DEF Taken, Count
<1>4. ASSUME old[s + 2 + i] \notin Q PROVE Taken(Q, a, b, s, e, i + 1)'
  <2>1. \A r \in Q : old[s + 2 + i] # r
    BY <1>4
  <2>2. \A r \in Q : Count(old', s + 2 .. s + 1 + (i + 1), r) = Count(old', s + 2 .. s + 1 + i, r)
    <3> SUFFICES ASSUME NEW r \in Q
                 PROVE  Count(old', s + 2 .. s + 1 + (i + 1), r) = Count(old', s + 2 .. s + 1 + i, r)
      OBVIOUS
    <3>1. IsFiniteSet(s + 2 .. s + 1 + i)
      <4>1. s + 1 \in Nat /\ s + 1 + i \in Nat /\ s + 1 + 1 = s + 2
        OBVIOUS
      <4> QED BY <4>1, Interval
    <3>2. Count(old', s + 2 .. s + 1 + i, r) \in Nat
      BY <3>1, CountType
    <3> QED BY <1>2, <2>1, <3>2
  <2>3. \A r \in Q : Count(tmp', a + 1 .. b, r) = Count(old', s + 2 .. s + 1 + i, r)
    BY <1>1 DEF Taken, Count
  <2>4. \A k \in a + 1 .. b : \A r : tmp'[k] = r => r \in Q /\ Fit(s, e, r)'
    BY <1>1 DEF Taken
  <2>5. \A r \in Q : Count(tmp', a + 1 .. b, r) = Count(old', s + 2 .. s + 1 + (i + 1), r)
    BY <2>2, <2>3
  <2> QED BY <2>4, <2>5 DEF Taken, Count
<1> QED BY <1>3, <1>4

\* All records behind the pivot are taken by one of the two passes.
LEMMA PickedAll ==
    ASSUME NEW s \in Nat, NEW i \in Nat, NEW q \in Records, s + 1 + i <= Len(old), old \in Seq(Records)
    PROVE  Picked(NotAbove(q), s, i) + Picked(Above(q), s, i) = i
<1> DEFINE S == s + 2 .. s + 1 + i
           A == {k \in S : old[k] \in NotAbove(q)}
           B == {k \in S : old[k] \in Above(q)}
<1>1. \A k \in S : old[k] \in Records
  <2>1. \A k \in S : k \in 1 .. Len(old)
    BY LenNat
  <2> QED BY <2>1, LenNat
<1>2. \A r \in Records : Key[q] >= Key[r] <=> ~(Key[q] < Key[r])
  BY KeyInt
<1>3. A \cup B = S /\ A \cap B = {}
  BY <1>1, <1>2 DEF NotAbove, Above
<1>4. IsFiniteSet(S) /\ Cardinality(S) = i
  <2>1. PICK u \in Nat : u = s + 1
    OBVIOUS
  <2>2. PICK v \in Nat : v = s + 1 + i
    OBVIOUS
  <2>3. S = u + 1 .. v /\ v >= u /\ v - u = i
    BY <2>1, <2>2
  <2> QED BY <2>3, Interval
<1>5. IsFiniteSet(A) /\ IsFiniteSet(B)
  BY <1>4, FS_Subset
<1>6. Cardinality(A) \in Nat /\ Cardinality(B) \in Nat /\ Cardinality(A \cap B) = 0
  BY <1>3, <1>5, FS_CardinalityType, FS_EmptySet
<1>7. Cardinality(A \cup B) = Cardinality(A) + Cardinality(B) - Cardinality(A \cap B)
  BY <1>5, FS_Union
<1>8. Cardinality(S) = Cardinality(A \cup B)
  BY <1>3
<1>9. Picked(NotAbove(q), s, i) = Cardinality(A) /\ Picked(Above(q), s, i) = Cardinality(B)
  BY DEF Picked
<1> HIDE DEF S, A, B
<1> QED BY <1>4, <1>6, <1>7, <1>8, <1>9

\* What the passes have written is the part, in another order.
LEMMA Together ==
    ASSUME FilesTyped, NEW s \in Nat, NEW e \in Nat, NEW m \in Nat, s < m, m <= e, e <= Len(old),
           NEW q \in Records, tmp[m] = q, old[s + 1] = q,
           Taken(NotAbove(q), s, m - 1, s, e, e - s - 1), Taken(Above(q), m, e, s, e, e - s - 1),
           NEW r \in Records
    PROVE  Count(tmp, s + 1 .. e, r) = Count(old, s + 1 .. e, r)
<1> DEFINE A == s + 1 .. m - 1
           B == m + 1 .. e
           T == s + 2 .. e
           one == IF q = r THEN 1 ELSE 0
<1>1. IsFiniteSet(A) /\ IsFiniteSet(B) /\ IsFiniteSet(T)
  <2>1. m - 1 \in Nat /\ s + 1 \in Nat /\ s + 1 + 1 = s + 2
    OBVIOUS
  <2> QED BY <2>1, Interval
<1>2. /\ s + 1 .. e = (A \cup {m}) \cup B /\ m \notin A /\ (A \cup {m}) \cap B = {}
      /\ s + 1 .. e = T \cup {s + 1} /\ s + 1 \notin T
      /\ s + 1 + (e - s - 1) = e
  OBVIOUS
<1>3. IsFiniteSet(A \cup {m})
  BY <1>1, FS_AddElement
<1> HIDE DEF A, B
<1>4. Count(tmp, A \cup {m}, r) = Count(tmp, A, r) + one
  BY <1>1, <1>2, CountAdd
<1>5. Count(tmp, s + 1 .. e, r) = Count(tmp, A \cup {m}, r) + Count(tmp, B, r)
  BY <1>1, <1>2, <1>3, CountUnion
<1>6. Count(old, s + 1 .. e, r) = Count(old, T, r) + one
  <2> HIDE DEF T
  <2>1. Count(old, T \cup {s + 1}, r) = Count(old, T, r) + IF old[s + 1] = r THEN 1 ELSE 0
    <3>1. IsFiniteSet(T) /\ s + 1 \notin T
      BY <1>1, <1>2
    <3> QED BY <3>1, CountAdd
  <2> QED BY <1>2, <2>1
<1>7. Count(tmp, A, r) \in Nat /\ Count(tmp, B, r) \in Nat /\ Count(old, T, r) \in Nat
  BY <1>1, CountType
<1>8. Count(tmp, A, r) + Count(tmp, B, r) = Count(old, T, r)
  <2>1. s + 2 .. s + 1 + (e - s - 1) = T
    BY <1>2
  <2>2. /\ \A k \in A : tmp[k] \in NotAbove(q)
        /\ \A x \in NotAbove(q) : Count(tmp, A, x) = Count(old, T, x)
    BY <2>1 DEF Taken, A
  <2>3. /\ \A k \in B : tmp[k] \in Above(q)
        /\ \A x \in Above(q) : Count(tmp, B, x) = Count(old, T, x)
    BY <2>1 DEF Taken, B
  <2>4. (r \in NotAbove(q) /\ r \notin Above(q)) \/ (r \in Above(q) /\ r \notin NotAbove(q))
    BY KeyInt DEF NotAbove, Above
  <2> HIDE DEF T
  <2>5. CASE r \in NotAbove(q) /\ r \notin Above(q)
    <3>1. Count(tmp, B, r) = 0
      BY <2>3, <2>5, CountNone
    <3> QED BY <1>7, <2>2, <2>5, <3>1
  <2>6. CASE r \in Above(q) /\ r \notin NotAbove(q)
    <3>1. Count(tmp, A, r) = 0
      BY <2>2, <2>6, CountNone
    <3> QED BY <1>7, <2>3, <2>6, <3>1
  <2> QED BY <2>4, <2>5, <2>6
<1>9. one \in Nat
  OBVIOUS
<1> HIDE DEF one, T
<1> QED BY <1>4, <1>5, <1>6, <1>7, <1>8, <1>9

-----------------------------------------------------------------------------
(* What the sort does: its steps *)

\* The innermost call c and the calls around it.
Now(en, s, e, c) ==
    /\ calls \in Seq(Calls) /\ calls # <<>> /\ Behind(calls)
    /\ c = Inner /\ e = en[Depth] /\ s + c.length = e
    /\ Waits(en) /\ PassOK(s, e, c)

LEMMA NowTyped ==
    ASSUME FilesTyped, NEW en, NEW s \in Int, NEW e \in Nat, NEW c \in Calls, Now(en, s, e, c)
    PROVE  /\ c = Sort!top /\ Len(old) \in Nat /\ Len(tmp) \in Nat /\ len \in Nat
           /\ \A k \in 1 .. Len(old) : old[k] \in Records
           /\ \A k \in 1 .. Len(tmp) : tmp[k] \in Records
           /\ e <= len /\ s + c.length = e /\ Cut(e)
           /\ c.pass \in Passes
           /\ c.i \in Nat /\ c.length \in Nat /\ c.smaller \in Nat /\ c.bigger \in Nat
<1>1. c = Sort!top
  BY SortCalls DEF Now, Inner, Depth
<1>2. e <= len /\ Depth \in 1 .. Depth
  BY Ends DEF Now, FilesTyped
<1>3. Cut(e)
  BY <1>2 DEF Now, Waits
<1>4. /\ Len(old) \in Nat /\ Len(tmp) \in Nat /\ len \in Nat
      /\ \A k \in 1 .. Len(old) : old[k] \in Records
      /\ \A k \in 1 .. Len(tmp) : tmp[k] \in Records
  BY LenNat DEF FilesTyped
<1>5. /\ c.pass \in Passes /\ s + c.length = e
      /\ c.i \in Nat /\ c.length \in Nat /\ c.smaller \in Nat /\ c.bigger \in Nat
  BY DEF Now, Calls
<1> QED BY <1>1, <1>2, <1>3, <1>4, <1>5

\* A step of the innermost call that leaves the file alone.
LEMMA GoesOn ==
    ASSUME FilesTyped, NEW en, NEW s \in Int, NEW e \in Nat, NEW c \in Calls, Now(en, s, e, c), UNCHANGED <<old, len>>,
           NEW c1 \in Calls, calls' = Append(Sort!Outer, c1), c1.length = c.length,
           Len(tmp') \in Nat, Len(tmp) <= Len(tmp'), PassOK(s, e, c1)'
    PROVE  Sorting'
<1>1. Waits(en)' /\ c1 = Inner' /\ en[Depth] = en[Depth'] /\ calls' # <<>>
  BY NowTyped, WaitsOn, OldSame DEF Now
<1>2. e = en[Depth] /\ s + c1.length = e
  BY DEF Now
<1> QED BY <1>1, <1>2 DEF Sorting

LEMMA DoesReadPivot ==
    ASSUME FilesTyped, NEW en, NEW s \in Int, NEW e \in Nat, NEW c \in Calls, Now(en, s, e, c), Sort!ReadPivot, UNCHANGED <<len, input>>
    PROVE  FilesTyped' /\ Sorting' /\ UNCHANGED old
<1>1. /\ c.pass = "enter" /\ c.length > 1 /\ old_pos \in 0 .. Len(old) - 1
      /\ pivot' = old[old_pos + 1] /\ old_pos' = old_pos + 1
      /\ UNCHANGED <<old, tmp, tmp_pos>>
      /\ calls' = Append(Sort!Outer, [c EXCEPT !.pass = "smaller"])
  BY NowTyped, ZenonT(60) DEF Sort!ReadPivot, Sort!Running, Sort!CanRead, Sort!ReadOld, Sort!Goes
<1>2. /\ s >= 0 /\ Cut(s) /\ Rises(s) /\ Same /\ EnterOK(s, e, c)
  BY <1>1 DEF Now, PassOK
<1>3. PICK c1 \in Calls : /\ c1 = [c EXCEPT !.pass = "smaller"]
                          /\ c1.pass = "smaller" /\ c1.length = c.length
                          /\ c1.i = 0 /\ c1.smaller = 0 /\ c1.bigger = 0
  <2>1. [c EXCEPT !.pass = "smaller"] \in Calls
    BY NowTyped, SortCounts, ZenonT(60) DEF Passes
  <2> QED BY <1>2, <2>1, NowTyped DEF Calls, EnterOK
<1> PICK q \in Records : q = old[s + 1] /\ q = pivot' /\ s + 1 \in 1 .. Len(old)
  BY <1>1, <1>2, NowTyped DEF EnterOK
<1>4. SmallerOK(s, e, c1, q)'
  <2>1. s \in Nat /\ c.length \in Nat /\ Len(old) \in Nat
    BY <1>2, NowTyped
  <2>2. \A Q : Taken(Q, s, s, s, e, 0) /\ Picked(Q, s, 0) = 0
    BY <2>1, TakenNone
  <2>3. \A Q : Taken(Q, s, s, s, e, 0)' /\ Picked(Q, s, 0)' = 0
    <3> SUFFICES ASSUME NEW Q PROVE Taken(Q, s, s, s, e, 0)' /\ Picked(Q, s, 0)' = 0
      OBVIOUS
    <3>1. UNCHANGED <<old, len, tmp>>
      BY <1>1
    <3>2. Taken(Q, s, s, s, e, 0)'
      BY <2>1, <2>2, <3>1, TakenSame
    <3>3. Picked(Q, s, 0)' = 0
      BY <2>2, <3>1 DEF Picked
    <3> QED BY <3>2, <3>3
  <2>4. /\ c1.i <= c1.length - 1 /\ old_pos' = s + 1 + c1.i /\ old_pos' <= Len(old')
        /\ q = old'[s + 1] /\ c1.bigger = 0
        /\ tmp_pos' = s + c1.smaller /\ tmp_pos' <= Len(tmp')
    BY <1>1, <1>2, <1>3, <2>1 DEF EnterOK
  <2>5. s + c1.smaller = s /\ c1.i = 0 /\ c1.smaller = 0
    BY <1>3, <2>1
  <2>6. c1.smaller = Picked(NotAbove(q), s, c1.i)'
    BY <2>3, <2>5
  <2>7. Taken(NotAbove(q), s, s + c1.smaller, s, e, c1.i)'
    BY <2>3, <2>5
  <2> QED BY <2>4, <2>6, <2>7 DEF SmallerOK
<1>5. PassOK(s, e, c1)'
  <2>1. Cut(s)' /\ Rises(s)' /\ Same'
    BY <1>1, <1>2, OldSame DEF Same
  <2>2. c1.length > 1
    BY <1>1, <1>3
  <2>3. \A x : x = pivot' => SmallerOK(s, e, c1, x)'
    BY <1>4
  <2> QED BY <1>2, <1>3, <2>1, <2>2, <2>3 DEF PassOK
<1>6. Sorting'
  <2>1. Len(tmp') \in Nat /\ Len(tmp) <= Len(tmp')
    BY <1>1, NowTyped
  <2> QED BY <1>1, <1>3, <1>5, <2>1, GoesOn
<1>7. FilesTyped'
  BY <1>1 DEF FilesTyped
<1> QED BY <1>1, <1>6, <1>7

LEMMA DoesCopySmaller ==
    ASSUME FilesTyped, NEW en, NEW s \in Int, NEW e \in Nat, NEW c \in Calls, Now(en, s, e, c),
           Sort!CopySmaller, UNCHANGED <<len, input>>
    PROVE  FilesTyped' /\ Sorting' /\ UNCHANGED old
<1>i. PICK i \in Nat, n \in Nat, L \in Nat : i = c.i /\ n = c.smaller /\ L = c.length
  BY NowTyped
<1>l. PICK ol \in Nat, tl \in Nat : ol = Len(old) /\ tl = Len(tmp)
  BY NowTyped
<1>1. /\ Sort!top = c /\ s + L = e /\ e <= len /\ Cut(e)
      /\ (\A k \in 1 .. ol : old[k] \in Records) /\ len \in Nat
  BY <1>i, <1>l, NowTyped
<1>2. /\ c.pass = "smaller" /\ i < L - 1 /\ old_pos \in 0 .. ol - 1
      /\ old_pos' = old_pos + 1 /\ UNCHANGED <<old, pivot>>
      /\ \/ /\ Key[pivot] >= Key[old[old_pos + 1]]
            /\ tmp' = Sort!Written(tmp, tmp_pos, old[old_pos + 1]) /\ tmp_pos' = tmp_pos + 1
            /\ calls' = Append(Sort!Outer, [c EXCEPT !.i = @ + 1, !.smaller = @ + 1])
         \/ /\ ~(Key[pivot] >= Key[old[old_pos + 1]])
            /\ UNCHANGED <<tmp, tmp_pos>>
            /\ calls' = Append(Sort!Outer, [c EXCEPT !.i = @ + 1])
  BY <1>i, <1>l, <1>1 DEF Sort!CopySmaller, Sort!copy_block, Sort!Running, Sort!CanRead, Sort!ReadOld,
              Sort!Goes, Sort!WriteTmp, Sort!sm
<1>3. s >= 0 /\ Cut(s) /\ Rises(s) /\ c.length > 1 /\ Same /\ SmallerOK(s, e, c, pivot)
  BY <1>2 DEF Now, PassOK
<1>b. PICK b \in Nat : b = s + n
  BY <1>3
<1>12. old_pos = s + 1 + i /\ old_pos <= ol /\ tmp_pos = b /\ b <= tl
  BY <1>i, <1>l, <1>b, <1>3 DEF SmallerOK
<1>4. /\ pivot = old[s + 1] /\ c.bigger = 0
      /\ n = Picked(NotAbove(pivot), s, i) /\ Taken(NotAbove(pivot), s, b, s, e, i)
  BY <1>i, <1>b, <1>3 DEF SmallerOK
<1>13. s + L = e /\ e <= len /\ len \in Nat /\ i < L - 1 /\ old_pos \in 0 .. ol - 1 /\ s >= 0
  BY <1>1, <1>2, <1>3
<1>5. /\ s + 2 + i \in 1 .. ol /\ s + 1 \in 1 .. ol /\ s + 2 + i <= e /\ s \in Nat /\ s <= b
      /\ s < s + 2 + i /\ i + 1 <= L - 1 /\ b + 1 \in Nat /\ n + 1 \in Nat /\ i + 1 \in Nat
      /\ b + 1 = s + (n + 1) /\ s + 1 + (i + 1) = s + 2 + i
  BY <1>b, <1>12, <1>13
<1>6. old_pos + 1 = s + 2 + i
  BY <1>12
<1>q. PICK q \in Records : q = pivot
  BY <1>1, <1>4, <1>5
<1>x. PICK x \in Records : x = old[s + 2 + i]
  BY <1>1, <1>5
<1>7. Fit(s, e, x) /\ (x \in NotAbove(q) <=> Key[q] >= Key[x])
  <2>1. Fit(s, e, old[s + 2 + i])
    BY <1>l, <1>1, <1>3, <1>5, CutFits
  <2> QED BY <1>x, <2>1 DEF NotAbove
<1>8. Cut(s)' /\ Rises(s)' /\ Same'
  BY <1>2, <1>3, OldSame DEF Same
<1>9. ASSUME NEW c1 \in Calls, calls' = Append(Sort!Outer, c1), c1.length = L, c1.pass = "smaller",
             c1.i = i + 1, c1.bigger = 0, tmp' \in Seq(Records), tl <= Len(tmp'),
             tmp_pos' = s + c1.smaller, s + c1.smaller <= Len(tmp'),
             c1.smaller = Picked(NotAbove(q), s, i + 1)',
             Taken(NotAbove(q), s, s + c1.smaller, s, e, i + 1)'
      PROVE  FilesTyped' /\ Sorting'
  <2>1. SmallerOK(s, e, c1, q)'
    <3>1. old_pos' = s + 1 + c1.i /\ old_pos' <= Len(old')
      <4>1. old_pos' = s + 1 + (i + 1) /\ s + 1 + (i + 1) <= ol
        <5>1. old_pos' = old_pos + 1
          BY <1>2
        <5> QED BY <1>5, <1>6, <5>1
      <4> QED BY <1>l, <1>2, <1>9, <4>1
    <3>2. c1.i <= c1.length - 1 /\ tmp_pos' = s + c1.smaller /\ tmp_pos' <= Len(tmp')
      BY <1>5, <1>9
    <3>3. q = old'[s + 1] /\ c1.bigger = 0
      BY <1>q, <1>2, <1>4, <1>9
    <3>4. c1.smaller = Picked(NotAbove(q), s, c1.i)'
      BY <1>9
    <3>5. Taken(NotAbove(q), s, s + c1.smaller, s, e, c1.i)'
      BY <1>9
    <3> QED BY <3>1, <3>2, <3>3, <3>4, <3>5 DEF SmallerOK
  <2>2. \A y : y = pivot' => SmallerOK(s, e, c1, y)'
    BY <1>q, <1>2, <2>1
  <2>3. PassOK(s, e, c1)'
    BY <1>i, <1>3, <1>8, <1>9, <2>2 DEF PassOK
  <2>4. Len(tmp') \in Nat
    BY <1>9, LenNat
  <2>5. Sorting'
    BY <1>i, <1>l, <1>2, <1>9, <2>3, <2>4, GoesOn
  <2>6. old_pos' \in Int /\ tmp_pos' \in Int
    <3>1. old_pos' = s + 2 + i /\ tmp_pos' = s + c1.smaller /\ c1.smaller \in Nat
      BY <1>2, <1>6, <1>9 DEF Calls
    <3> QED BY <3>1
  <2> QED BY <1>2, <1>9, <2>5, <2>6 DEF FilesTyped
<1>10. CASE Key[q] >= Key[x]
  <2>1. tmp' = Sort!Written(tmp, b, x) /\ tmp_pos' = b + 1
        /\ calls' = Append(Sort!Outer, [c EXCEPT !.i = @ + 1, !.smaller = @ + 1])
    BY <1>x, <1>q, <1>2, <1>12, <1>6, <1>10
  <2>2. /\ tmp' \in Seq(Records) /\ Len(tmp) <= Len(tmp') /\ b + 1 <= Len(tmp') /\ tmp'[b + 1] = x
        /\ \A k \in 1 .. Len(tmp) : k # b + 1 => tmp'[k] = tmp[k]
    <3>1. tmp \in Seq(Records) /\ b <= Len(tmp)
      BY <1>l, <1>12 DEF FilesTyped
    <3>2. tmp' = Sort!Written(tmp, b, x)
      BY <2>1
    <3> QED BY <3>1, <3>2, WrittenFile, ZenonT(60)
  <2>3. \A k \in s + 1 .. b : tmp'[k] = tmp[k]
    <3>1. \A k \in s + 1 .. b : k \in 1 .. tl /\ k # b + 1
      BY <1>12, <1>13
    <3> QED BY <1>l, <2>2, <3>1
  <2>4. Taken(NotAbove(q), s, b + 1, s, e, i + 1)'
    BY <1>q, <1>x, <1>2, <1>4, <1>5, <1>7, <1>10, <2>2, <2>3, TakenNext, ZenonT(60)
  <2>5. n + 1 = Picked(NotAbove(q), s, i + 1)'
    <3>1. Picked(NotAbove(q), s, i + 1)' = Picked(NotAbove(q), s, i) + IF old[s + 2 + i] \in NotAbove(q) THEN 1 ELSE 0
      <4>1. s \in Nat /\ UNCHANGED old
        BY <1>2, <1>5
      <4> QED BY <4>1, PickedNext
    <3> QED BY <1>q, <1>x, <1>4, <1>7, <1>10, <3>1
  <2>c. PICK c1 \in Calls : c1 = [c EXCEPT !.i = @ + 1, !.smaller = @ + 1]
    BY SortCounts
  <2>6. c1.length = L /\ c1.pass = "smaller" /\ c1.i = i + 1 /\ c1.bigger = 0
        /\ c1.smaller = n + 1
    BY <1>i, <1>2, <1>4, <2>c DEF Calls
  <2>7. calls' = Append(Sort!Outer, c1)
    BY <2>1, <2>c
  <2>8. s + c1.smaller = b + 1
    BY <1>5, <2>6
  <2> QED BY <1>l, <1>2, <1>9, <2>1, <2>2, <2>4, <2>5, <2>6, <2>7, <2>8
<1>11. CASE ~(Key[q] >= Key[x])
  <2>1. UNCHANGED <<tmp, tmp_pos>> /\ calls' = Append(Sort!Outer, [c EXCEPT !.i = @ + 1])
    BY <1>q, <1>x, <1>2, <1>12, <1>6, <1>11
  <2>2. Taken(NotAbove(q), s, b, s, e, i + 1)'
    BY <1>q, <1>x, <1>2, <1>4, <1>5, <1>7, <1>11, <2>1, TakenNext, SMTT(60)
  <2>3. n = Picked(NotAbove(q), s, i + 1)'
    <3>1. Picked(NotAbove(q), s, i + 1)' = Picked(NotAbove(q), s, i) + IF old[s + 2 + i] \in NotAbove(q) THEN 1 ELSE 0
      <4>1. s \in Nat /\ UNCHANGED old
        BY <1>2, <1>5
      <4> QED BY <4>1, PickedNext
    <3> QED BY <1>q, <1>x, <1>4, <1>7, <1>11, <3>1
  <2>c. PICK c1 \in Calls : c1 = [c EXCEPT !.i = @ + 1]
    BY SortCounts
  <2>4. c1.length = L /\ c1.pass = "smaller" /\ c1.i = i + 1 /\ c1.bigger = 0
        /\ c1.smaller = n
    BY <1>i, <1>2, <1>4, <2>c DEF Calls
  <2>5. calls' = Append(Sort!Outer, c1)
    BY <2>1, <2>c
  <2>6. tmp' = tmp /\ tmp_pos' = b /\ b <= tl
    BY <1>12, <2>1
  <2>7. tmp' \in Seq(Records) /\ tl <= Len(tmp') /\ b <= Len(tmp')
    BY <1>l, <2>6 DEF FilesTyped
  <2>8. s + c1.smaller = b /\ tmp_pos' = b
    BY <1>b, <2>4, <2>6
  <2>9. Taken(NotAbove(q), s, s + c1.smaller, s, e, i + 1)'
    BY <2>2, <2>8
  <2>10. c1.smaller = Picked(NotAbove(q), s, i + 1)'
    BY <2>3, <2>4
  <2>11. tmp' \in Seq(Records) /\ tl <= Len(tmp') /\ tmp_pos' = s + c1.smaller /\ s + c1.smaller <= Len(tmp')
    BY <2>7, <2>8
  <2> QED BY <1>2, <1>9, <2>4, <2>5, <2>9, <2>10, <2>11
<1> QED BY <1>2, <1>10, <1>11

LEMMA DoesWritePivot ==
    ASSUME FilesTyped, NEW en, NEW s \in Int, NEW e \in Nat, NEW c \in Calls, Now(en, s, e, c),
           Sort!WritePivot, UNCHANGED <<len, input>>
    PROVE  FilesTyped' /\ Sorting' /\ UNCHANGED old
<1>i. PICK i \in Nat, n \in Nat, L \in Nat : i = c.i /\ n = c.smaller /\ L = c.length
  BY NowTyped
<1>l. PICK ol \in Nat, tl \in Nat : ol = Len(old) /\ tl = Len(tmp)
  BY NowTyped
<1>1. /\ Sort!top = c /\ s + L = e
      /\ (\A k \in 1 .. ol : old[k] \in Records) /\ len \in Nat
  BY <1>i, <1>l, NowTyped
<1>2. /\ c.pass = "smaller" /\ i = L - 1 /\ old_pos' = old_pos - (L - 1) /\ UNCHANGED <<old, pivot>>
      /\ tmp' = Sort!Written(tmp, tmp_pos, pivot) /\ tmp_pos' = tmp_pos + 1
      /\ calls' = Append(Sort!Outer, [c EXCEPT !.pass = "bigger", !.i = 0])
  BY <1>i, <1>1 DEF Sort!WritePivot, Sort!Running, Sort!Goes, Sort!WriteTmp
<1>3. s >= 0 /\ Cut(s) /\ Rises(s) /\ c.length > 1 /\ Same /\ SmallerOK(s, e, c, pivot)
  BY <1>2 DEF Now, PassOK
<1>b. PICK b \in Nat : b = s + n
  BY <1>3
<1>4. old_pos = s + 1 + i /\ old_pos <= ol /\ tmp_pos = b /\ b <= tl
  BY <1>i, <1>l, <1>b, <1>3 DEF SmallerOK
<1>5. /\ pivot = old[s + 1] /\ c.bigger = 0
      /\ n = Picked(NotAbove(pivot), s, i) /\ Taken(NotAbove(pivot), s, b, s, e, i)
  BY <1>i, <1>b, <1>3 DEF SmallerOK
<1>6. s + L = e /\ i = L - 1 /\ s >= 0 /\ old_pos' = old_pos - (L - 1) /\ tmp_pos' = tmp_pos + 1 /\ L > 1
  BY <1>i, <1>1, <1>2, <1>3
<1>7. /\ s + 1 \in 1 .. ol /\ s \in Nat /\ old_pos' = s + 1 /\ e <= ol /\ tmp_pos' = b + 1 /\ b + 1 \in Nat
      /\ s <= b /\ s + n + 1 = b + 1 /\ old_pos' \in Int /\ tmp_pos' \in Int
  BY <1>b, <1>4, <1>6
<1>q. PICK q \in Records : q = pivot
  BY <1>1, <1>5, <1>7
<1>8. Cut(s)' /\ Rises(s)' /\ Same'
  BY <1>2, <1>3, OldSame DEF Same
<1>9. /\ tmp' \in Seq(Records) /\ Len(tmp) <= Len(tmp') /\ b + 1 <= Len(tmp') /\ tmp'[b + 1] = q
      /\ \A k \in 1 .. Len(tmp) : k # b + 1 => tmp'[k] = tmp[k]
  <2>1. tmp \in Seq(Records) /\ b <= Len(tmp)
    BY <1>l, <1>4 DEF FilesTyped
  <2>2. tmp' = Sort!Written(tmp, b, q)
    BY <1>q, <1>2, <1>4
  <2> QED BY <2>1, <2>2, WrittenFile, ZenonT(60)
<1>10. Taken(NotAbove(q), s, b, s, e, i)' /\ n = Picked(NotAbove(q), s, i)'
  <2>1. \A k \in s + 1 .. b : tmp'[k] = tmp[k]
    <3>1. \A k \in s + 1 .. b : k \in 1 .. tl /\ k # b + 1
      BY <1>4, <1>7
    <3> QED BY <1>l, <1>9, <3>1
  <2>2. Taken(NotAbove(q), s, b, s, e, i)'
    BY <1>q, <1>2, <1>5, <2>1, TakenSame
  <2>3. UNCHANGED old
    BY <1>2
  <2>4. Picked(NotAbove(q), s, i)' = Picked(NotAbove(q), s, i)
    BY <2>3 DEF Picked
  <2> QED BY <1>q, <1>5, <2>2, <2>4
<1>11. Taken(Above(q), b + 1, b + 1, s, e, 0)' /\ 0 = Picked(Above(q), s, 0)'
  <2>1. Taken(Above(q), b + 1, b + 1, s, e, 0) /\ Picked(Above(q), s, 0) = 0
    BY <1>7, TakenNone
  <2>2. \A k \in b + 1 + 1 .. b + 1 : tmp'[k] = tmp[k]
    OBVIOUS
  <2>3. UNCHANGED <<old, len>>
    BY <1>2
  <2>4. Taken(Above(q), b + 1, b + 1, s, e, 0)'
    BY <1>7, <2>1, <2>2, <2>3, TakenSame
  <2>5. Picked(Above(q), s, 0)' = Picked(Above(q), s, 0)
    BY <2>3, SMTT(60) DEF Picked
  <2> QED BY <2>1, <2>4, <2>5
<1>c. PICK c1 \in Calls : c1 = [c EXCEPT !.pass = "bigger", !.i = 0]
  BY SortCounts DEF Passes
<1>12. c1.length = L /\ c1.pass = "bigger" /\ c1.i = 0 /\ c1.smaller = n /\ c1.bigger = 0
  BY <1>i, <1>c, <1>5 DEF Calls
<1>13. BiggerOK(s, e, c1, q)'
  <2>1. /\ c1.i <= c1.length - 1 /\ old_pos' = s + 1 + c1.i /\ e <= Len(old')
        /\ tmp_pos' = s + c1.smaller + 1 + c1.bigger /\ tmp_pos' <= Len(tmp')
    <3>1. e <= Len(old') /\ b + 1 <= Len(tmp')
      BY <1>l, <1>2, <1>7, <1>9
    <3> QED BY <1>6, <1>7, <1>12, <3>1
  <2>2. q = old'[s + 1] /\ tmp'[s + c1.smaller + 1] = q
    <3>1. s + c1.smaller + 1 = b + 1
      BY <1>7, <1>12
    <3> QED BY <1>q, <1>2, <1>5, <1>9, <3>1
  <2>3. c1.smaller = Picked(NotAbove(q), s, c1.length - 1)' /\ c1.bigger = Picked(Above(q), s, c1.i)'
    <3>1. c1.length - 1 = i
      BY <1>6, <1>12
    <3> QED BY <1>10, <1>11, <1>12, <3>1
  <2>4. Taken(NotAbove(q), s, s + c1.smaller, s, e, c1.length - 1)'
    <3>1. c1.length - 1 = i /\ s + c1.smaller = b
      BY <1>b, <1>6, <1>12
    <3> QED BY <1>10, <3>1
  <2>5. Taken(Above(q), s + c1.smaller + 1, s + c1.smaller + 1 + c1.bigger, s, e, c1.i)'
    <3>1. s + c1.smaller + 1 = b + 1 /\ s + c1.smaller + 1 + c1.bigger = b + 1 /\ c1.i = 0
      BY <1>7, <1>12
    <3> QED BY <1>11, <3>1
  <2> QED BY <2>1, <2>2, <2>3, <2>4, <2>5 DEF BiggerOK
<1>14. PassOK(s, e, c1)'
  <2>1. \A y : y = pivot' => BiggerOK(s, e, c1, y)'
    BY <1>q, <1>2, <1>13
  <2> QED BY <1>i, <1>3, <1>8, <1>12, <2>1 DEF PassOK
<1>15. Sorting'
  <2>1. Len(tmp') \in Nat
    BY <1>9, LenNat
  <2>2. calls' = Append(Sort!Outer, c1) /\ c1.length = c.length /\ UNCHANGED <<old, len>>
    BY <1>i, <1>c, <1>2, <1>12
  <2> QED BY <1>9, <1>14, <2>1, <2>2, GoesOn
<1>16. FilesTyped'
  BY <1>2, <1>7, <1>9 DEF FilesTyped
<1> QED BY <1>2, <1>15, <1>16

LEMMA DoesCopyBigger ==
    ASSUME FilesTyped, NEW en, NEW s \in Int, NEW e \in Nat, NEW c \in Calls, Now(en, s, e, c),
           Sort!CopyBigger, UNCHANGED <<len, input>>
    PROVE  FilesTyped' /\ Sorting' /\ UNCHANGED old
<1>i. PICK i \in Nat, n \in Nat, g \in Nat, L \in Nat :
        i = c.i /\ n = c.smaller /\ g = c.bigger /\ L = c.length
  BY NowTyped
<1>l. PICK ol \in Nat, tl \in Nat : ol = Len(old) /\ tl = Len(tmp)
  BY NowTyped
<1>1. /\ Sort!top = c /\ s + L = e /\ e <= len /\ Cut(e)
      /\ (\A k \in 1 .. ol : old[k] \in Records) /\ len \in Nat
  BY <1>i, <1>l, NowTyped
<1>2. /\ c.pass = "bigger" /\ i < L - 1 /\ old_pos \in 0 .. ol - 1
      /\ old_pos' = old_pos + 1 /\ UNCHANGED <<old, pivot>>
      /\ \/ /\ Key[pivot] < Key[old[old_pos + 1]]
            /\ tmp' = Sort!Written(tmp, tmp_pos, old[old_pos + 1]) /\ tmp_pos' = tmp_pos + 1
            /\ calls' = Append(Sort!Outer, [c EXCEPT !.i = @ + 1, !.bigger = @ + 1])
         \/ /\ ~(Key[pivot] < Key[old[old_pos + 1]])
            /\ UNCHANGED <<tmp, tmp_pos>>
            /\ calls' = Append(Sort!Outer, [c EXCEPT !.i = @ + 1])
  BY <1>i, <1>l, <1>1 DEF Sort!CopyBigger, Sort!copy_block, Sort!Running, Sort!CanRead, Sort!ReadOld,
              Sort!Goes, Sort!WriteTmp, Sort!gt_eq
<1>3. s >= 0 /\ Cut(s) /\ Rises(s) /\ c.length > 1 /\ Same /\ BiggerOK(s, e, c, pivot)
  BY <1>2 DEF Now, PassOK
<1>m. PICK m \in Nat : m = s + n + 1
  BY <1>3
<1>b. PICK b \in Nat : b = m + g
  OBVIOUS
<1>4. old_pos = s + 1 + i /\ e <= ol /\ tmp_pos = b /\ b <= tl
  BY <1>i, <1>l, <1>m, <1>b, <1>3 DEF BiggerOK
<1>5. /\ pivot = old[s + 1] /\ tmp[m] = pivot
      /\ n = Picked(NotAbove(pivot), s, L - 1) /\ g = Picked(Above(pivot), s, i)
  BY <1>i, <1>m, <1>3 DEF BiggerOK
<1>6. Taken(NotAbove(pivot), s, s + n, s, e, L - 1) /\ Taken(Above(pivot), m, b, s, e, i)
  BY <1>i, <1>m, <1>b, <1>3 DEF BiggerOK
<1>7. s + L = e /\ e <= len /\ len \in Nat /\ i < L - 1 /\ s >= 0
  BY <1>1, <1>2, <1>3
<1>8. /\ s + 2 + i \in 1 .. ol /\ s + 1 \in 1 .. ol /\ s + 2 + i <= e /\ s \in Nat /\ m <= b
      /\ s < s + 2 + i /\ i + 1 <= L - 1 /\ b + 1 \in Nat /\ g + 1 \in Nat /\ i + 1 \in Nat
      /\ b + 1 = m + (g + 1) /\ s + 1 + (i + 1) = s + 2 + i /\ s + n \in Int /\ s + n < m /\ 1 <= m
  BY <1>m, <1>b, <1>4, <1>7
<1>9. old_pos + 1 = s + 2 + i
  BY <1>4
<1>q. PICK q \in Records : q = pivot
  BY <1>1, <1>5, <1>8
<1>x. PICK x \in Records : x = old[s + 2 + i]
  BY <1>1, <1>8
<1>10. Fit(s, e, x) /\ (x \in Above(q) <=> Key[q] < Key[x])
  <2>1. Fit(s, e, old[s + 2 + i])
    BY <1>l, <1>1, <1>3, <1>8, CutFits
  <2> QED BY <1>x, <2>1 DEF Above
<1>11. Cut(s)' /\ Rises(s)' /\ Same'
  BY <1>2, <1>3, OldSame DEF Same
\* The smaller ones, and the pivot behind them, are there already.
<1>12. ASSUME \A k \in 1 .. b : tmp'[k] = tmp[k]
       PROVE  /\ Taken(NotAbove(q), s, s + n, s, e, L - 1)' /\ n = Picked(NotAbove(q), s, L - 1)'
              /\ tmp'[m] = q
  <2>1. \A k \in s + 1 .. s + n : tmp'[k] = tmp[k]
    <3>1. \A k \in s + 1 .. s + n : k \in 1 .. b
      BY <1>8
    <3> QED BY <1>12, <3>1
  <2>2. Taken(NotAbove(q), s, s + n, s, e, L - 1)'
    <3>1. UNCHANGED <<old, len>> /\ Taken(NotAbove(q), s, s + n, s, e, L - 1)
      BY <1>q, <1>2, <1>6
    <3>2. s + n \in Int /\ L - 1 \in Int
      OBVIOUS
    <3> QED BY <2>1, <3>1, <3>2, TakenSame
  <2>3. UNCHANGED old
    BY <1>2
  <2>4. Picked(NotAbove(q), s, L - 1)' = Picked(NotAbove(q), s, L - 1)
    BY <2>3 DEF Picked
  <2>5. m \in 1 .. b
    BY <1>8
  <2> QED BY <1>q, <1>5, <1>12, <2>2, <2>4, <2>5
<1>13. ASSUME NEW c1 \in Calls, calls' = Append(Sort!Outer, c1), c1.length = L, c1.pass = "bigger",
              c1.i = i + 1, c1.smaller = n, tmp' \in Seq(Records), tl <= Len(tmp'),
              \A k \in 1 .. b : tmp'[k] = tmp[k],
              tmp_pos' = m + c1.bigger, m + c1.bigger <= Len(tmp'),
              c1.bigger = Picked(Above(q), s, i + 1)',
              Taken(Above(q), m, m + c1.bigger, s, e, i + 1)'
       PROVE  FilesTyped' /\ Sorting'
  <2>1. BiggerOK(s, e, c1, q)'
    <3>1. old_pos' = s + 1 + c1.i /\ e <= Len(old')
      <4>1. old_pos' = s + 1 + (i + 1)
        <5>1. old_pos' = old_pos + 1
          BY <1>2
        <5> QED BY <1>8, <1>9, <5>1
      <4> QED BY <1>l, <1>2, <1>4, <1>13, <4>1
    <3>2. c1.i <= c1.length - 1
      BY <1>8, <1>13
    <3>3. tmp_pos' = s + c1.smaller + 1 + c1.bigger /\ tmp_pos' <= Len(tmp')
      BY <1>m, <1>13
    <3>4. q = old'[s + 1] /\ tmp'[s + c1.smaller + 1] = q
      BY <1>m, <1>q, <1>2, <1>5, <1>12, <1>13
    <3>5. c1.smaller = Picked(NotAbove(q), s, c1.length - 1)' /\ c1.bigger = Picked(Above(q), s, c1.i)'
      BY <1>12, <1>13
    <3>6. Taken(NotAbove(q), s, s + c1.smaller, s, e, c1.length - 1)'
      BY <1>12, <1>13
    <3>7. Taken(Above(q), s + c1.smaller + 1, s + c1.smaller + 1 + c1.bigger, s, e, c1.i)'
      BY <1>m, <1>13
    <3> QED BY <3>1, <3>2, <3>3, <3>4, <3>5, <3>6, <3>7 DEF BiggerOK
  <2>2. \A y : y = pivot' => BiggerOK(s, e, c1, y)'
    BY <1>q, <1>2, <2>1
  <2>3. PassOK(s, e, c1)'
    BY <1>i, <1>3, <1>11, <1>13, <2>2 DEF PassOK
  <2>4. Len(tmp') \in Nat
    BY <1>13, LenNat
  <2>5. Sorting'
    BY <1>i, <1>l, <1>2, <1>13, <2>3, <2>4, GoesOn
  <2>6. old_pos' \in Int /\ tmp_pos' \in Int
    <3>1. old_pos' = s + 2 + i /\ tmp_pos' = m + c1.bigger /\ c1.bigger \in Nat
      BY <1>2, <1>9, <1>13 DEF Calls
    <3> QED BY <3>1
  <2> QED BY <1>2, <1>13, <2>5, <2>6 DEF FilesTyped
<1>14. Picked(Above(q), s, i + 1)' = Picked(Above(q), s, i) + IF old[s + 2 + i] \in Above(q) THEN 1 ELSE 0
  <2>1. s \in Nat /\ UNCHANGED old
    BY <1>2, <1>8
  <2> QED BY <2>1, PickedNext
<1>15. CASE Key[q] < Key[x]
  <2>1. tmp' = Sort!Written(tmp, b, x) /\ tmp_pos' = b + 1
        /\ calls' = Append(Sort!Outer, [c EXCEPT !.i = @ + 1, !.bigger = @ + 1])
    BY <1>x, <1>q, <1>2, <1>4, <1>9, <1>15
  <2>2. /\ tmp' \in Seq(Records) /\ Len(tmp) <= Len(tmp') /\ b + 1 <= Len(tmp') /\ tmp'[b + 1] = x
        /\ \A k \in 1 .. Len(tmp) : k # b + 1 => tmp'[k] = tmp[k]
    <3>1. tmp \in Seq(Records) /\ b <= Len(tmp)
      BY <1>l, <1>4 DEF FilesTyped
    <3>2. tmp' = Sort!Written(tmp, b, x)
      BY <2>1
    <3> QED BY <3>1, <3>2, WrittenFile, ZenonT(60)
  <2>3. \A k \in 1 .. b : tmp'[k] = tmp[k]
    <3>1. \A k \in 1 .. b : k \in 1 .. tl /\ k # b + 1
      BY <1>4
    <3> QED BY <1>l, <2>2, <3>1
  <2>4. \A k \in m + 1 .. b : tmp'[k] = tmp[k]
    <3>1. \A k \in m + 1 .. b : k \in 1 .. b
      OBVIOUS
    <3> QED BY <2>3, <3>1
  <2>5. Taken(Above(q), m, b + 1, s, e, i + 1)'
    BY <1>q, <1>x, <1>2, <1>6, <1>8, <1>10, <1>15, <2>2, <2>4, TakenNext, ZenonT(60)
  <2>6. g + 1 = Picked(Above(q), s, i + 1)'
    BY <1>q, <1>x, <1>5, <1>10, <1>14, <1>15
  <2>c. PICK c1 \in Calls : c1 = [c EXCEPT !.i = @ + 1, !.bigger = @ + 1]
    BY SortCounts
  <2>7. c1.length = L /\ c1.pass = "bigger" /\ c1.i = i + 1 /\ c1.smaller = n /\ c1.bigger = g + 1
    BY <1>i, <1>2, <2>c DEF Calls
  <2>8. calls' = Append(Sort!Outer, c1)
    BY <2>1, <2>c
  <2>9. m + c1.bigger = b + 1
    BY <1>8, <2>7
  <2> QED BY <1>l, <1>2, <1>13, <2>1, <2>2, <2>3, <2>5, <2>6, <2>7, <2>8, <2>9
<1>16. CASE ~(Key[q] < Key[x])
  <2>1. UNCHANGED <<tmp, tmp_pos>> /\ calls' = Append(Sort!Outer, [c EXCEPT !.i = @ + 1])
    BY <1>q, <1>x, <1>2, <1>9, <1>16
  <2>2. Taken(Above(q), m, b, s, e, i + 1)'
    BY <1>q, <1>x, <1>2, <1>6, <1>8, <1>10, <1>16, <2>1, TakenNext, SMTT(60)
  <2>3. g = Picked(Above(q), s, i + 1)'
    BY <1>q, <1>x, <1>5, <1>10, <1>14, <1>16, SMTT(60)
  <2>c. PICK c1 \in Calls : c1 = [c EXCEPT !.i = @ + 1]
    BY SortCounts, ZenonT(60)
  <2>4. c1.length = L /\ c1.pass = "bigger" /\ c1.i = i + 1 /\ c1.smaller = n /\ c1.bigger = g
    BY <1>i, <1>2, <2>c DEF Calls
  <2>5. calls' = Append(Sort!Outer, c1)
    BY <2>1, <2>c
  <2>6. tmp' = tmp /\ tmp_pos' = b /\ b <= tl
    BY <1>4, <2>1
  <2>7. tmp' \in Seq(Records) /\ tl <= Len(tmp') /\ b <= Len(tmp') /\ \A k \in 1 .. b : tmp'[k] = tmp[k]
    BY <1>l, <2>6 DEF FilesTyped
  <2>8. m + c1.bigger = b
    BY <1>b, <2>4
  <2> QED BY <1>2, <1>13, <2>2, <2>3, <2>4, <2>5, <2>6, <2>7, <2>8
<1> QED BY <1>2, <1>15, <1>16

\* The file: what is outside the part, and the part.
LEMMA CountParts ==
    ASSUME NEW f, NEW n \in Nat, NEW s \in Nat, NEW e \in Nat, e <= n, NEW r
    PROVE  /\ Count(f, 1 .. n, r) = Count(f, s + 1 .. e, r) + Count(f, (1 .. n) \ (s + 1 .. e), r)
           /\ Count(f, s + 1 .. e, r) \in Nat /\ Count(f, (1 .. n) \ (s + 1 .. e), r) \in Nat
<1> DEFINE P == s + 1 .. e
           R == (1 .. n) \ P
<1>1. IsFiniteSet(P) /\ IsFiniteSet(R)
  <2>1. IsFiniteSet(P)
    BY Interval
  <2>2. 0 \in Nat /\ 0 + 1 = 1 /\ R \subseteq 0 + 1 .. n
    OBVIOUS
  <2> QED BY <2>1, <2>2, Interval
<1>2. P \cap R = {} /\ P \cup R = 1 .. n
  OBVIOUS
<1> HIDE DEF P, R
<1>3. Count(f, P \cup R, r) = Count(f, P, r) + Count(f, R, r)
  BY <1>1, <1>2, CountUnion
<1>4. Count(f, P, r) \in Nat /\ Count(f, R, r) \in Nat
  BY <1>1, CountType
<1> QED BY <1>2, <1>3, <1>4 DEF P, R

LEMMA DoesRewind ==
    ASSUME FilesTyped, NEW en, NEW s \in Int, NEW e \in Nat, NEW c \in Calls, Now(en, s, e, c),
           Sort!Rewind, UNCHANGED <<len, input>>
    PROVE  FilesTyped' /\ Sorting' /\ UNCHANGED old
<1>i. PICK i \in Nat, n \in Nat, g \in Nat, L \in Nat :
        i = c.i /\ n = c.smaller /\ g = c.bigger /\ L = c.length
  BY NowTyped
<1>l. PICK ol \in Nat, tl \in Nat : ol = Len(old) /\ tl = Len(tmp)
  BY NowTyped
<1>1. /\ Sort!top = c /\ s + L = e /\ e <= len /\ Cut(e)
      /\ (\A k \in 1 .. ol : old[k] \in Records) /\ len \in Nat
  BY <1>i, <1>l, NowTyped
<1>2. /\ c.pass = "bigger" /\ i = L - 1
      /\ old_pos' = old_pos + (-L) /\ tmp_pos' = tmp_pos + (-L) /\ UNCHANGED <<old, tmp>>
      /\ calls' = Append(Sort!Outer, [c EXCEPT !.pass = "back", !.i = 0])
  BY <1>i, <1>1 DEF Sort!Rewind, Sort!Running, Sort!Seek, Sort!Goes
<1>3. s >= 0 /\ Cut(s) /\ Rises(s) /\ c.length > 1 /\ Same /\ BiggerOK(s, e, c, pivot)
  BY <1>2 DEF Now, PassOK
<1>m. PICK m \in Nat : m = s + n + 1
  BY <1>3
<1>4. /\ old_pos = s + 1 + i /\ e <= ol /\ tmp_pos = m + g /\ tmp_pos <= tl
      /\ pivot = old[s + 1] /\ tmp[m] = pivot
      /\ n = Picked(NotAbove(pivot), s, L - 1) /\ g = Picked(Above(pivot), s, i)
      /\ Taken(NotAbove(pivot), s, s + n, s, e, L - 1) /\ Taken(Above(pivot), m, m + g, s, e, i)
  BY <1>i, <1>l, <1>m, <1>3 DEF BiggerOK
<1>5. s \in Nat /\ L - 1 \in Nat /\ s + 1 + (L - 1) <= ol /\ s + 1 \in 1 .. ol /\ s + 1 <= e /\ s < s + 1
  BY <1>i, <1>1, <1>3, <1>4
<1>q. PICK q \in Records : q = pivot
  BY <1>1, <1>4, <1>5
<1>6. n + g = L - 1
  <2>1. old \in Seq(Records)
    BY DEF FilesTyped
  <2>2. Picked(NotAbove(q), s, L - 1) + Picked(Above(q), s, L - 1) = L - 1
    BY <1>l, <1>5, <2>1, PickedAll
  <2> QED BY <1>q, <1>2, <1>4, <2>2
<1>7. /\ m + g = e /\ s + n = m - 1 /\ L - 1 = e - s - 1 /\ s < m /\ m <= e
      /\ old_pos' = s /\ tmp_pos' = s /\ e <= tl
  <2>1. s + L = e /\ i = L - 1 /\ old_pos' = old_pos + (-L) /\ tmp_pos' = tmp_pos + (-L)
    BY <1>1, <1>2
  <2>2. old_pos = s + 1 + i /\ tmp_pos = m + g /\ tmp_pos <= tl
    BY <1>4
  <2> QED BY <1>m, <1>6, <2>1, <2>2
<1>8. Taken(NotAbove(q), s, m - 1, s, e, e - s - 1) /\ Taken(Above(q), m, e, s, e, e - s - 1)
  BY <1>q, <1>2, <1>4, <1>7
<1>9. Fit(s, e, q)
  BY <1>q, <1>l, <1>1, <1>3, <1>4, <1>5, CutFits
<1>10. ASSUME NEW k \in s + 1 .. e, NEW r, tmp[k] = r PROVE Fit(s, e, r)
  <2>1. CASE k < m
    <3>1. k \in s + 1 .. m - 1
      BY <2>1
    <3> QED BY <1>8, <1>10, <3>1 DEF Taken
  <2>2. CASE k = m
    BY <1>q, <1>4, <1>9, <1>10, <2>2
  <2>3. CASE k > m
    <3>1. k \in m + 1 .. e
      BY <2>3
    <3> QED BY <1>8, <1>10, <3>1 DEF Taken
  <2> QED BY <2>1, <2>2, <2>3
<1>11. ASSUME NEW k \in s + 1 .. m - 1 PROVE Key[tmp[k]] <= Key[tmp[m]]
  <2>1. tmp[k] \in NotAbove(q)
    BY <1>8 DEF Taken
  <2>2. Key[q] >= Key[tmp[k]] /\ tmp[k] \in Records
    BY <2>1 DEF NotAbove
  <2> QED BY <1>q, <1>4, <2>2, KeyInt
<1>12. ASSUME NEW k \in m + 1 .. e PROVE Key[tmp[m]] <= Key[tmp[k]]
  <2>1. tmp[k] \in Above(q)
    BY <1>8 DEF Taken
  <2>2. Key[q] < Key[tmp[k]] /\ tmp[k] \in Records
    BY <2>1 DEF Above
  <2> QED BY <1>q, <1>4, <2>2, KeyInt
<1>13. ASSUME NEW r \in Records
       PROVE  Count(tmp, s + 1 .. e, r) + Count(old, (1 .. ol) \ (s + 1 .. e), r) = Count(input, 1 .. ol, r)
  <2>1. Count(tmp, s + 1 .. e, r) = Count(old, s + 1 .. e, r)
    <3>1. s < m /\ m <= e /\ e <= Len(old) /\ tmp[m] = q /\ old[s + 1] = q
      BY <1>q, <1>l, <1>4, <1>7
    <3> QED BY <1>5, <1>8, <3>1, Together, SMTT(60)
  <2>2. Count(old, 1 .. ol, r) = Count(old, s + 1 .. e, r) + Count(old, (1 .. ol) \ (s + 1 .. e), r)
    <3>1. s \in Nat /\ e <= ol
      BY <1>4, <1>5
    <3> QED BY <3>1, CountParts
  <2>3. Count(old, 1 .. ol, r) = Count(input, 1 .. ol, r)
    BY <1>l, <1>3, SMTT(60) DEF Same
  <2> QED BY <2>1, <2>2, <2>3
<1>c. PICK c1 \in Calls : c1 = [c EXCEPT !.pass = "back", !.i = 0]
  BY SortCounts, ZenonT(60) DEF Passes
<1>14. c1.length = L /\ c1.pass = "back" /\ c1.i = 0 /\ c1.smaller = n /\ c1.bigger = g
  BY <1>i, <1>c DEF Calls
<1>15. BackOK(s, e, c1)'
  <2>1. /\ c1.i <= c1.length /\ old_pos' = s + c1.i /\ tmp_pos' = s + c1.i
        /\ c1.smaller + 1 + c1.bigger = c1.length /\ e <= Len(old') /\ e <= Len(tmp')
    <3>1. e <= Len(old') /\ e <= Len(tmp')
      BY <1>l, <1>2, <1>4, <1>7
    <3> QED BY <1>5, <1>6, <1>7, <1>14, <3>1
  <2>2. \A k \in s + 1 .. s + c1.i : old'[k] = tmp'[k]
    <3>1. s + 1 .. s + c1.i = {}
      BY <1>14
    <3> QED BY <3>1
  <2>3. \A k \in s + 1 .. e : \A r : tmp'[k] = r => Fit(s, e, r)'
    BY <1>2, <1>10, OldSame
  <2>4. /\ \A k \in s + 1 .. s + c1.smaller : Key[tmp'[k]] <= Key[tmp'[s + c1.smaller + 1]]
        /\ \A k \in s + c1.smaller + 2 .. e : Key[tmp'[s + c1.smaller + 1]] <= Key[tmp'[k]]
    <3>1. s + c1.smaller = m - 1 /\ s + c1.smaller + 1 = m /\ s + c1.smaller + 2 = m + 1
      BY <1>m, <1>14
    <3> QED BY <1>2, <1>11, <1>12, <3>1
  <2>5. \A r \in Records :
          Count(tmp', s + 1 .. e, r) + Count(old', (1 .. Len(old')) \ (s + 1 .. e), r)
            = Count(input', 1 .. Len(old'), r)
    BY <1>l, <1>2, <1>13
  <2> QED BY <2>1, <2>2, <2>3, <2>4, <2>5 DEF BackOK, Count
<1>16. PassOK(s, e, c1)'
  <2>1. Cut(s)' /\ Rises(s)'
    BY <1>2, <1>3, OldSame
  <2> QED BY <1>i, <1>3, <1>14, <1>15, <2>1 DEF PassOK
<1>17. Sorting'
  <2>1. Len(tmp') \in Nat /\ Len(tmp) <= Len(tmp')
    BY <1>2, NowTyped
  <2>2. calls' = Append(Sort!Outer, c1) /\ c1.length = c.length /\ UNCHANGED <<old, len>>
    BY <1>i, <1>c, <1>2, <1>14
  <2> QED BY <1>16, <2>1, <2>2, GoesOn
<1>18. FilesTyped'
  <2>1. old_pos' \in Int /\ tmp_pos' \in Int
    BY <1>7
  <2> QED BY <1>2, <2>1 DEF FilesTyped
<1> QED BY <1>2, <1>17, <1>18

LEMMA DoesCopyBack ==
    ASSUME FilesTyped, NEW en, NEW s \in Int, NEW e \in Nat, NEW c \in Calls, Now(en, s, e, c),
           Sort!CopyBack, UNCHANGED <<len, input>>
    PROVE  /\ FilesTyped' /\ Sorting'
           /\ \A k \in len + 1 .. Len(old) : old'[k] = old[k]
<1>i. PICK i \in Nat, n \in Nat, g \in Nat, L \in Nat :
        i = c.i /\ n = c.smaller /\ g = c.bigger /\ L = c.length
  BY NowTyped
<1>l. PICK ol \in Nat, tl \in Nat : ol = Len(old) /\ tl = Len(tmp)
  BY NowTyped
<1>1. /\ Sort!top = c /\ s + L = e /\ e <= len /\ len \in Nat
      /\ (\A k \in 1 .. tl : tmp[k] \in Records)
  BY <1>i, <1>l, NowTyped
<1>2. /\ c.pass = "back" /\ i < L /\ old' = Sort!Written(old, old_pos, tmp[tmp_pos + 1])
      /\ old_pos' = old_pos + 1 /\ tmp_pos' = tmp_pos + 1 /\ UNCHANGED <<tmp, pivot>>
      /\ calls' = Append(Sort!Outer, [c EXCEPT !.i = @ + 1])
  BY <1>i, <1>1 DEF Sort!CopyBack, Sort!Running, Sort!Goes
<1>3. s >= 0 /\ Cut(s) /\ Rises(s) /\ c.length > 1 /\ BackOK(s, e, c)
  BY <1>2 DEF Now, PassOK
<1>b. PICK b \in Nat, p \in Nat : b = s + i /\ p = s + i + 1
  BY <1>3
<1>4. old_pos = b /\ tmp_pos = b /\ n + 1 + g = L /\ e <= ol /\ e <= tl
  BY <1>i, <1>l, <1>b, <1>3 DEF BackOK
<1>14. \A k \in s + 1 .. b : old[k] = tmp[k]
  BY <1>i, <1>b, <1>3 DEF BackOK
<1>5. /\ \A k \in s + 1 .. e : \A r : tmp[k] = r => Fit(s, e, r)
      /\ \A k \in s + 1 .. s + n : Key[tmp[k]] <= Key[tmp[s + n + 1]]
      /\ \A k \in s + n + 2 .. e : Key[tmp[s + n + 1]] <= Key[tmp[k]]
      /\ \A r \in Records : Count(tmp, s + 1 .. e, r) + Count(old, (1 .. ol) \ (s + 1 .. e), r) = Count(input, 1 .. ol, r)
  BY <1>i, <1>l, <1>3 DEF BackOK
<1>6. s + L = e /\ s >= 0 /\ i < L /\ old_pos' = old_pos + 1 /\ tmp_pos' = tmp_pos + 1 /\ e <= len /\ len \in Nat
  BY <1>1, <1>2, <1>3
<1>7. /\ b < ol /\ p \in s + 1 .. e /\ p = b + 1 /\ p \in 1 .. tl /\ p \in 1 .. ol /\ s < p /\ p <= e
      /\ old_pos' = p /\ tmp_pos' = p /\ s \in Nat /\ p <= len
  <2>1. p <= e /\ p = b + 1 /\ s < p /\ s \in Nat
    BY <1>b, <1>i, <1>6
  <2>2. e <= ol /\ e <= tl /\ e <= len /\ len \in Nat
    BY <1>4, <1>6
  <2>3. p <= ol /\ p <= tl /\ p <= len /\ b < ol
    BY <1>b, <1>l, <2>1, <2>2
  <2>4. old_pos' = p /\ tmp_pos' = p
    BY <1>4, <1>6, <2>1
  <2>5. 1 <= p /\ s + 1 <= p
    BY <1>b, <2>1
  <2> QED BY <1>b, <1>l, <2>1, <2>2, <2>3, <2>4, <2>5
<1>x. PICK x \in Records : x = tmp[p]
  BY <1>1, <1>7
<1>8. Fit(s, e, x)
  BY <1>x, <1>5, <1>7
<1>9. /\ old' \in Seq(Records) /\ Len(old') = Len(old) /\ old'[p] = x
      /\ \A k \in 1 .. Len(old) : k # p => old'[k] = old[k]
  <2>1. old \in Seq(Records) /\ b <= Len(old) /\ b < Len(old)
    BY <1>l, <1>7 DEF FilesTyped
  <2>2. old' = Sort!Written(old, b, x)
    BY <1>x, <1>2, <1>4, <1>7
  <2> QED BY <1>7, <2>1, <2>2, WrittenFile, ZenonT(60)
<1>10. /\ Rises(s)' /\ Cut(s)'
       /\ \A d \in Int : e <= d /\ Cut(d) => Cut(d)'
       /\ \A r : Fit(s, e, r) => Fit(s, e, r)'
  <2>1. Len(old) \in Nat /\ len \in Nat /\ len' = len
    BY NowTyped, ZenonT(60)
  <2> QED BY <1>3, <1>7, <1>8, <1>9, <2>1, OldPut
<1>c. PICK c1 \in Calls : c1 = [c EXCEPT !.i = @ + 1]
  BY SortCounts, ZenonT(60)
<1>11. c1.length = L /\ c1.pass = "back" /\ c1.i = i + 1 /\ c1.smaller = n /\ c1.bigger = g
  BY <1>i, <1>c, <1>2 DEF Calls
<1>12. BackOK(s, e, c1)'
  <2>1. /\ c1.i <= c1.length /\ old_pos' = s + c1.i /\ tmp_pos' = s + c1.i
        /\ c1.smaller + 1 + c1.bigger = c1.length /\ e <= Len(old') /\ e <= Len(tmp')
    <3>1. e <= Len(old') /\ e <= Len(tmp')
      BY <1>l, <1>2, <1>4, <1>9
    <3>2. c1.i <= c1.length /\ p = s + c1.i /\ c1.smaller + 1 + c1.bigger = c1.length
      BY <1>b, <1>4, <1>6, <1>11
    <3>3. old_pos' = p /\ tmp_pos' = p
      BY <1>7
    <3> QED BY <3>1, <3>2, <3>3
  <2>2. \A k \in s + 1 .. s + c1.i : old'[k] = tmp'[k]
    <3> SUFFICES ASSUME NEW k \in s + 1 .. s + c1.i PROVE old'[k] = tmp'[k]
      OBVIOUS
    <3>1. k = p \/ (k # p /\ k \in s + 1 .. b /\ k \in 1 .. ol)
      BY <1>b, <1>7, <1>11
    <3>2. CASE k = p
      BY <1>x, <1>2, <1>9, <3>2
    <3>3. CASE k # p /\ k \in s + 1 .. b /\ k \in 1 .. ol
      BY <1>l, <1>2, <1>9, <1>14, <3>3
    <3> QED BY <3>1, <3>2, <3>3
  <2>3. \A k \in s + 1 .. e : \A r : tmp'[k] = r => Fit(s, e, r)'
    BY <1>2, <1>5, <1>10
  <2>4. /\ \A k \in s + 1 .. s + c1.smaller : Key[tmp'[k]] <= Key[tmp'[s + c1.smaller + 1]]
        /\ \A k \in s + c1.smaller + 2 .. e : Key[tmp'[s + c1.smaller + 1]] <= Key[tmp'[k]]
    BY <1>2, <1>5, <1>11
  <2>5. ASSUME NEW r \in Records
        PROVE  Count(tmp', s + 1 .. e, r) + Count(old', (1 .. Len(old')) \ (s + 1 .. e), r)
                 = Count(input', 1 .. Len(old'), r)
    <3>1. \A k \in (1 .. ol) \ (s + 1 .. e) : old'[k] = old[k]
      BY <1>l, <1>7, <1>9
    <3>2. Count(old', (1 .. ol) \ (s + 1 .. e), r) = Count(old, (1 .. ol) \ (s + 1 .. e), r)
      BY <3>1, CountSame
    <3> QED BY <1>l, <1>2, <1>5, <1>9, <3>2
  <2> QED BY <2>1, <2>2, <2>3, <2>4, <2>5 DEF BackOK, Count
<1>13. PassOK(s, e, c1)'
  BY <1>i, <1>3, <1>10, <1>11, <1>12 DEF PassOK
<1>17. Sorting'
  <2>1. e = en[Depth]
    BY DEF Now
  <2>2. \A d \in Int : en[Depth] <= d /\ Cut(d) => Cut(d)'
    BY <1>10, <2>1
  <2>3. calls' = Append(Sort!Outer, c1) /\ Len(tmp) \in Nat /\ Len(tmp') \in Nat /\ Len(tmp) <= Len(tmp') /\ len' = len /\ len \in Nat
    <3>1. Len(tmp) \in Nat /\ tmp' = tmp /\ len \in Nat
      BY <1>2, NowTyped
    <3>2. Len(tmp) <= Len(tmp') /\ Len(tmp') \in Nat
      BY <3>1
    <3> QED BY <1>c, <1>2, <3>1, <3>2
  <2>4. Waits(en)' /\ c1 = Inner' /\ en[Depth] = en[Depth'] /\ calls' # <<>>
    BY <2>2, <2>3, WaitsOn DEF Now
  <2>5. s + c1.length = e
    BY <1>6, <1>11
  <2> QED BY <1>13, <2>1, <2>4, <2>5 DEF Sorting
<1>15. FilesTyped'
  <2>1. old_pos' \in Int /\ tmp_pos' \in Int
    BY <1>7
  <2> QED BY <1>2, <1>9, <2>1 DEF FilesTyped
<1>16. \A k \in len + 1 .. Len(old) : old'[k] = old[k]
  <2>1. \A k \in len + 1 .. ol : k # p /\ k \in 1 .. ol
    BY <1>1, <1>7
  <2> QED BY <1>l, <1>9, <2>1
<1> QED BY <1>15, <1>16, <1>17

\* The part is copied back; the smaller records of it are sorted first.
LEMMA DoesSortSmaller ==
    ASSUME FilesTyped, NEW en, NEW s \in Int, NEW e \in Nat, NEW c \in Calls, Now(en, s, e, c),
           Sort!SortSmaller, UNCHANGED <<len, input>>
    PROVE  FilesTyped' /\ Sorting' /\ UNCHANGED old
<1>i. PICK n \in Nat, g \in Nat, L \in Nat : n = c.smaller /\ g = c.bigger /\ L = c.length
  BY NowTyped
<1>l. PICK ol \in Nat, tl \in Nat : ol = Len(old) /\ tl = Len(tmp)
  BY NowTyped
<1>1. /\ Sort!top = c /\ s + L = e /\ e <= len /\ len \in Nat /\ Cut(e)
      /\ (\A k \in 1 .. tl : tmp[k] \in Records)
  BY <1>i, <1>l, NowTyped
<1>2. /\ c.pass = "back" /\ c.i = L
      /\ old_pos' = old_pos + (-L) /\ tmp_pos' = tmp_pos + (-L) /\ UNCHANGED <<old, tmp>>
      /\ calls' = Append(Sort!Outer, [c EXCEPT !.pass = "skip"]) \o <<Sort!Call(n)>>
  BY <1>i, <1>1 DEF Sort!SortSmaller, Sort!Running, Sort!Seek
<1>3. s >= 0 /\ Cut(s) /\ Rises(s) /\ BackOK(s, e, c)
  BY <1>2 DEF Now, PassOK
<1>m. PICK m \in Nat, e1 \in Nat : m = s + n + 1 /\ e1 = s + n
  BY <1>3
<1>4. old_pos = s + L /\ tmp_pos = s + L /\ n + 1 + g = L /\ e <= ol /\ e <= tl
  BY <1>i, <1>l, <1>2, <1>3 DEF BackOK
<1>5. /\ old_pos' = s /\ tmp_pos' = s /\ s \in Nat /\ s + L = e /\ m <= e /\ m = e1 + 1 /\ s < m
      /\ e1 <= e /\ e = e1 + 1 + g /\ e <= ol
  <2>1. s >= 0 /\ s + L = e /\ old_pos' = old_pos + (-L) /\ tmp_pos' = tmp_pos + (-L)
    BY <1>1, <1>2, <1>3
  <2> QED BY <1>m, <1>4, <2>1
<1>6. /\ \A k \in s + 1 .. e : old[k] = tmp[k]
      /\ \A k \in s + 1 .. s + n : Key[tmp[k]] <= Key[tmp[s + n + 1]]
      /\ \A k \in s + n + 2 .. e : Key[tmp[s + n + 1]] <= Key[tmp[k]]
      /\ \A r \in Records : Count(tmp, s + 1 .. e, r) + Count(old, (1 .. ol) \ (s + 1 .. e), r) = Count(input, 1 .. ol, r)
  BY <1>i, <1>l, <1>2, <1>3, <1>5 DEF BackOK
<1>7. \A k \in s + 1 .. e : k \in 1 .. tl /\ tmp[k] \in Records /\ old[k] = tmp[k] /\ Key[tmp[k]] \in Int
  <2>1. \A k \in s + 1 .. e : k \in 1 .. tl
    BY <1>l, <1>4, <1>5
  <2> QED BY <1>1, <1>6, <2>1, KeyInt
\* The pivot parts the smaller records from the greater ones.
<1>8. ASSUME NEW k \in s + 1 .. e, NEW l \in s + 1 .. e, k <= m, m <= l
      PROVE  Key[old[k]] <= Key[old[l]]
  <2>1. k # m => k \in s + 1 .. s + n
    BY <1>m, <1>8
  <2>2. l # m => l \in s + n + 2 .. e
    BY <1>m, <1>8
  <2>3. m \in s + 1 .. e
    BY <1>5
  <2>4. Key[tmp[k]] <= Key[tmp[m]]
    BY <1>m, <1>6, <1>7, <2>1, <2>3
  <2>5. Key[tmp[m]] <= Key[tmp[l]]
    BY <1>m, <1>6, <1>7, <2>2, <2>3
  <2> QED BY <1>7, <2>3, <2>4, <2>5
<1>9. ASSUME NEW d \in {e1, m} PROVE Cut(d)
  <2> SUFFICES ASSUME NEW k \in 1 .. Len(old), NEW l \in 1 .. Len(old), k <= d, d < l, l <= len
               PROVE  Key[old[k]] <= Key[old[l]]
    BY DEF Cut
  <2>1. k \in 1 .. ol /\ l \in 1 .. ol
    BY <1>l
  <2>2. k <= m /\ m <= l /\ s < l /\ k <= e
    BY <1>5, <2>1
  <2>3. CASE k <= s
    BY <1>3, <2>2, <2>3 DEF Cut
  <2>4. CASE e < l
    BY <1>1, <2>2, <2>4 DEF Cut
  <2>5. CASE ~(k <= s) /\ ~(e < l)
    <3>1. k \in s + 1 .. e /\ l \in s + 1 .. e
      BY <1>5, <2>1, <2>2, <2>5
    <3> QED BY <1>8, <2>2, <3>1
  <2> QED BY <2>3, <2>4, <2>5
<1>10. Same
  <2> SUFFICES ASSUME NEW r \in Records PROVE Count(old, 1 .. Len(old), r) = Count(input, 1 .. Len(old), r)
    BY DEF Same
  <2>1. Count(old, s + 1 .. e, r) = Count(tmp, s + 1 .. e, r)
    BY <1>6, CountSame
  <2>2. Count(old, 1 .. ol, r) = Count(old, s + 1 .. e, r) + Count(old, (1 .. ol) \ (s + 1 .. e), r)
    BY <1>5, CountParts
  <2> QED BY <1>l, <1>6, <2>1, <2>2
<1>c. PICK c1 \in Calls : c1 = [c EXCEPT !.pass = "skip"]
  BY SortCounts, ZenonT(60) DEF Passes
<1>11. c1.pass = "skip" /\ c1.bigger = g
  BY <1>i, <1>c DEF Calls
<1>d. PICK c2 \in Calls : c2 = Sort!Call(n)
  BY SortNew
<1>12. c2.pass = "enter" /\ c2.length = n /\ c2.i = 0 /\ c2.smaller = 0 /\ c2.bigger = 0
  BY <1>d DEF Sort!Call
<1>13. len <= Len(tmp)
  <2>1. Depth \in Nat \ {0}
    BY Ends, <1>1 DEF Now
  <2>2. CASE Depth = 1
    <3>1. e = len
      BY <2>2 DEF Now, Waits
    <3> QED BY <1>l, <1>4, <3>1
  <2>3. CASE Depth > 1
    BY <2>3 DEF Now, Waits
  <2> QED BY <2>1, <2>2, <2>3
<1>14. /\ c2 = Inner' /\ calls' \in Seq(Calls) /\ calls' # <<>>
       /\ \E en1 : Waits(en1)' /\ e1 = en1[Depth']
  <2>1. e = en[Depth] /\ calls \in Seq(Calls) /\ calls # <<>> /\ Behind(calls) /\ Waits(en)
    BY DEF Now
  <2>2. UNCHANGED <<old, len, tmp>> /\ calls' = Append(Sort!Outer, c1) \o <<c2>> /\ len \in Nat
    BY <1>1, <1>2, <1>c, <1>d
  <2>3. e1 <= en[Depth] /\ Cut(e1) /\ Cut(e1 + 1) /\ en[Depth] = e1 + 1 + c1.bigger
    BY <1>5, <1>9, <1>11, <2>1
  <2> QED BY <1>11, <1>13, <2>1, <2>2, <2>3, WaitsDeeper, ZenonT(60)
<1>15. PassOK(s, e1, c2)'
  <2>1. Cut(s)' /\ Rises(s)' /\ Same'
    BY <1>2, <1>3, <1>10, OldSame DEF Same
  <2>2. s <= Len(tmp')
    BY <1>l, <1>2, <1>4, <1>5
  <2>3. EnterOK(s, e1, c2)'
    BY <1>5, <1>12, <2>2 DEF EnterOK
  <2> QED BY <1>3, <1>12, <2>1, <2>3 DEF PassOK
<1>16. Sorting'
  <2>1. s + c2.length = e1
    BY <1>m, <1>12
  <2> QED BY <1>14, <1>15, <2>1 DEF Sorting
<1>17. FilesTyped'
  <2>1. old_pos' \in Int /\ tmp_pos' \in Int
    BY <1>5
  <2> QED BY <1>2, <2>1 DEF FilesTyped
<1> QED BY <1>2, <1>16, <1>17

\* One record more is in order.
LEMMA RisesNext ==
    ASSUME NEW p \in Nat, Rises(p), Cut(p), p + 1 <= len, len \in Nat, Len(old) \in Nat
    PROVE  Rises(p + 1)
<1> SUFFICES ASSUME NEW k \in 1 .. Len(old), NEW l \in 1 .. Len(old), k < l, l <= p + 1
             PROVE  Key[old[k]] <= Key[old[l]]
  BY DEF Rises
<1>1. l <= p \/ (k <= p /\ p < l /\ l <= len)
  OBVIOUS
<1> QED BY <1>1 DEF Rises, Cut

\* Then, behind the pivot, the greater ones.
LEMMA DoesSortBigger ==
    ASSUME FilesTyped, NEW en, NEW s \in Int, NEW e \in Nat, NEW c \in Calls, Now(en, s, e, c),
           Sort!SortBigger, UNCHANGED <<len, input>>
    PROVE  FilesTyped' /\ Sorting' /\ UNCHANGED old
<1>i. PICK g \in Nat : g = c.bigger
  BY NowTyped
<1>1. Sort!top = c /\ e <= len /\ len \in Nat /\ Len(old) \in Nat /\ Len(tmp) \in Nat /\ Cut(e)
  BY NowTyped
<1>2. /\ c.pass = "skip" /\ old_pos' = old_pos + 1 /\ tmp_pos' = tmp_pos + 1 /\ UNCHANGED <<old, tmp>>
      /\ calls' = Append(Sort!Outer, [c EXCEPT !.pass = "end"]) \o <<Sort!Call(g)>>
  BY <1>i, <1>1 DEF Sort!SortBigger, Sort!Running, Sort!Seek
<1>3. /\ Same /\ tmp_pos = old_pos /\ old_pos >= 0 /\ Rises(old_pos) /\ len <= Len(tmp)
      /\ old_pos + 1 + g = e /\ Cut(old_pos) /\ Cut(old_pos + 1)
  BY <1>i, <1>2 DEF Now, PassOK
<1>p. PICK p \in Nat, t \in Nat : p = old_pos /\ t = p + 1
  <2>1. old_pos \in Nat
    BY <1>3 DEF FilesTyped
  <2> QED BY <2>1
<1>4. t <= e /\ old_pos' = t /\ tmp_pos' = t /\ t + g = e
  <2>1. old_pos' = old_pos + 1 /\ tmp_pos' = tmp_pos + 1 /\ tmp_pos = old_pos /\ old_pos + 1 + g = e
    BY <1>2, <1>3
  <2> QED BY <1>i, <1>p, <2>1
<1>5. t <= len /\ t <= Len(tmp)
  <2>1. e <= len /\ len \in Nat /\ len <= Len(tmp) /\ Len(tmp) \in Nat
    BY <1>1, <1>3
  <2> QED BY <1>p, <1>4, <2>1
<1>6. Cut(t) /\ Rises(t)
  <2>1. p + 1 <= len /\ Rises(p) /\ Cut(p) /\ len \in Nat /\ Len(old) \in Nat
    BY <1>p, <1>1, <1>3, <1>5
  <2>2. Rises(p + 1)
    BY <1>p, <2>1, RisesNext
  <2> QED BY <1>p, <1>3, <2>2
<1>c. PICK c1 \in Calls : c1 = [c EXCEPT !.pass = "end"]
  BY SortCounts, ZenonT(60) DEF Passes
<1>7. c1.pass = "end"
  BY <1>c DEF Calls
<1>d. PICK c2 \in Calls : c2 = Sort!Call(g)
  BY <1>i, SortNew
<1>8. c2.pass = "enter" /\ c2.length = g /\ c2.i = 0 /\ c2.smaller = 0 /\ c2.bigger = 0
  BY <1>d DEF Sort!Call
<1>9. /\ c2 = Inner' /\ calls' \in Seq(Calls) /\ calls' # <<>>
      /\ \E en1 : Waits(en1)' /\ e = en1[Depth']
  <2>1. e = en[Depth] /\ calls \in Seq(Calls) /\ calls # <<>> /\ Behind(calls) /\ Waits(en)
    BY DEF Now
  <2>2. UNCHANGED <<old, len, tmp>> /\ calls' = Append(Sort!Outer, c1) \o <<c2>> /\ len \in Nat /\ len <= Len(tmp)
    BY <1>1, <1>2, <1>3, <1>c, <1>d
  <2>3. e <= en[Depth] /\ Cut(e) /\ en[Depth] = e
    BY <1>1, <2>1
  <2> QED BY <1>7, <2>1, <2>2, <2>3, WaitsDeeper
<1>10. PassOK(t, e, c2)'
  <2>1. Cut(t)' /\ Rises(t)' /\ Same'
    BY <1>2, <1>3, <1>6, OldSame DEF Same
  <2>2. t <= Len(tmp')
    BY <1>2, <1>5
  <2>3. EnterOK(t, e, c2)'
    BY <1>4, <1>8, <2>2 DEF EnterOK
  <2>4. t >= 0
    BY <1>p
  <2> QED BY <1>8, <2>1, <2>3, <2>4 DEF PassOK
<1>11. Sorting'
  <2>1. t \in Int /\ t + c2.length = e
    BY <1>p, <1>4, <1>8
  <2> QED BY <1>9, <1>10, <2>1 DEF Sorting
<1>12. FilesTyped'
  <2>1. old_pos' \in Int /\ tmp_pos' \in Int
    BY <1>p, <1>4
  <2> QED BY <1>2, <2>1 DEF FilesTyped
<1> QED BY <1>2, <1>11, <1>12

\* A part of at most one record is in order.
LEMMA DoesShort ==
    ASSUME FilesTyped, NEW en, NEW s \in Int, NEW e \in Nat, NEW c \in Calls, Now(en, s, e, c),
           Sort!Short, UNCHANGED <<len, input>>
    PROVE  /\ FilesTyped' /\ UNCHANGED old
           /\ calls' = <<>> => Same' /\ Rises(len)'
           /\ calls' # <<>> => Sorting'
<1>i. PICK L \in Nat : L = c.length
  BY NowTyped
<1>1. Sort!top = c /\ s + L = e /\ e <= len /\ len \in Nat /\ Len(old) \in Nat
  BY <1>i, NowTyped
<1>2. /\ c.pass = "enter" /\ L <= 1 /\ old_pos' = old_pos + L /\ tmp_pos' = tmp_pos + L
      /\ UNCHANGED <<old, tmp>> /\ calls' = Sort!Outer
  BY <1>i, <1>1 DEF Sort!Short, Sort!Running, Sort!Seek
<1>3. s >= 0 /\ Cut(s) /\ Rises(s) /\ Same /\ EnterOK(s, e, c)
  BY <1>2 DEF Now, PassOK
<1>4. old_pos' = e /\ tmp_pos' = e
  <2>1. old_pos = s /\ tmp_pos = s
    BY <1>3 DEF EnterOK
  <2> QED BY <1>1, <1>2, <2>1
<1>5. Rises(e)
  <2>1. e = s \/ (s \in Nat /\ e = s + 1 /\ s + 1 <= len)
    <3>1. L = 0 \/ L = 1
      BY <1>i, <1>2
    <3>2. s >= 0 /\ s + L = e /\ e <= len
      BY <1>1, <1>3
    <3> QED BY <3>1, <3>2
  <2> QED BY <1>1, <1>3, <2>1, RisesNext
<1>6. /\ calls' = <<>> => Same' /\ Rises(len)'
      /\ calls' # <<>> => Sorting'
  <2>1. e = en[Depth] /\ calls \in Seq(Calls) /\ calls # <<>> /\ Behind(calls) /\ Waits(en)
    BY DEF Now
  <2>2. UNCHANGED <<old, len, tmp, input>> /\ calls' = Sort!Outer /\ len \in Nat
    BY <1>1, <1>2
  <2> QED BY <1>3, <1>4, <1>5, <2>1, <2>2, Returns
<1>7. FilesTyped'
  <2>1. old_pos' \in Int /\ tmp_pos' \in Int
    BY <1>4
  <2> QED BY <1>2, <2>1 DEF FilesTyped
<1> QED BY <1>2, <1>6, <1>7

LEMMA DoesReturn ==
    ASSUME FilesTyped, NEW en, NEW s \in Int, NEW e \in Nat, NEW c \in Calls, Now(en, s, e, c),
           Sort!Return, UNCHANGED <<len, input>>
    PROVE  /\ FilesTyped' /\ UNCHANGED old
           /\ calls' = <<>> => Same' /\ Rises(len)'
           /\ calls' # <<>> => Sorting'
<1>1. Sort!top = c /\ len \in Nat
  BY NowTyped
<1>2. c.pass = "end" /\ UNCHANGED <<old, tmp, old_pos, tmp_pos>> /\ calls' = Sort!Outer
  BY <1>1 DEF Sort!Return, Sort!Running
<1>3. Same /\ tmp_pos = old_pos /\ Rises(old_pos) /\ old_pos = e
  BY <1>2 DEF Now, PassOK
<1>4. Rises(e) /\ old_pos' = e /\ tmp_pos' = e
  BY <1>2, <1>3
<1>5. /\ calls' = <<>> => Same' /\ Rises(len)'
      /\ calls' # <<>> => Sorting'
  <2>1. e = en[Depth] /\ calls \in Seq(Calls) /\ calls # <<>> /\ Behind(calls) /\ Waits(en)
    BY DEF Now
  <2>2. UNCHANGED <<old, len, tmp, input>> /\ calls' = Sort!Outer /\ len \in Nat
    BY <1>1, <1>2
  <2> QED BY <1>3, <1>4, <2>1, <2>2, Returns
<1>6. FilesTyped'
  BY <1>2 DEF FilesTyped
<1> QED BY <1>2, <1>5, <1>6

-----------------------------------------------------------------------------
(* What the sort does: the whole of it *)

\* A step that touches neither the files nor the calls.
LEMMA FilesStay ==
    ASSUME UNCHANGED <<input, len, old, tmp, old_pos, tmp_pos, pivot, calls>>
    PROVE  /\ FilesTyped' = FilesTyped /\ Same' = Same /\ Rises(len)' = Rises(len)
           /\ Sorting => Sorting'
<1>1. Depth' = Depth /\ Inner' = Inner
  BY DEF Depth, Inner
<1>2. /\ \A c : (Rises(c)' <=> Rises(c)) /\ (Cut(c)' <=> Cut(c))
      /\ \A s, e, r : Fit(s, e, r)' <=> Fit(s, e, r)
  BY OldSame
<1>3. Same' = Same
  BY DEF Same, Count
<1>4. \A en : Waits(en) => Waits(en)'
  BY <1>1, <1>2 DEF Waits
<1>5. \A Q, a, b, s, e, i : Taken(Q, a, b, s, e, i) => Taken(Q, a, b, s, e, i)'
  BY <1>2 DEF Taken, Count
<1>6. \A Q, s, i : Picked(Q, s, i)' = Picked(Q, s, i)
  BY DEF Picked
<1>7. ASSUME NEW s, NEW e, NEW c PROVE PassOK(s, e, c) => PassOK(s, e, c)'
  <2>1. EnterOK(s, e, c) => EnterOK(s, e, c)'
    BY DEF EnterOK
  <2>2. \A q : SmallerOK(s, e, c, q) => SmallerOK(s, e, c, q)'
    BY <1>5, <1>6 DEF SmallerOK
  <2>3. \A q : BiggerOK(s, e, c, q) => BiggerOK(s, e, c, q)'
    BY <1>5, <1>6 DEF BiggerOK
  <2>4. BackOK(s, e, c) => BackOK(s, e, c)'
    BY <1>2 DEF BackOK, Count
  <2>5. /\ Rises(old_pos) => Rises(old_pos)'
        /\ Cut(old_pos) => Cut(old_pos)'
        /\ Cut(old_pos + 1) => Cut(old_pos + 1)'
    BY DEF Rises, Cut
  <2> QED BY <1>2, <1>3, <2>1, <2>2, <2>3, <2>4, <2>5 DEF PassOK
<1>8. Sorting => Sorting'
  BY <1>1, <1>4, <1>7 DEF Sorting
<1>9. FilesTyped' = FilesTyped
  BY DEF FilesTyped
<1>10. Rises(len)' = Rises(len)
  BY DEF Rises
<1> QED BY <1>3, <1>8, <1>9, <1>10

LEMMA FileInit == Sort!Init => FileInv
  BY EmptySeq DEF Sort!Init, FileInv, FilesTyped

\* The file is opened: one call, for all that was asked for.
LEMMA FileStart == FileInv /\ Sort!Start => FileInv'
<1> SUFFICES ASSUME FileInv, Sort!Start PROVE FileInv'
  OBVIOUS
<1>0. job = "none"
  BY DEF Sort!Start
<1>1. PICK file \in Sort!Contents, n \in 1 .. MaxRecords :
        Sort!sort_lib(file, n) \/ Sort!copy(file, n) \/ \E left \in {<<>>, file} : Sort!sort_sys(file, n, left)
  BY DEF Sort!Start
<1>2. file \in Seq(Records) /\ Len(file) \in Nat /\ n \in Nat
  <2>1. MaxRecords \in Nat
    BY ProgramsAssumption DEF Sort!SortAssumption
  <2>2. PICK k \in 0 .. MaxRecords : file \in [1 .. k -> Records]
    BY DEF Sort!Contents
  <2>3. k \in Nat /\ n \in Nat
    BY <2>1
  <2>4. file \in Seq(Records)
    BY <2>2, <2>3
  <2> QED BY <2>3, <2>4, LenNat
<1>3. /\ job = "none" /\ input' = file /\ old' = file /\ len' = n
      /\ UNCHANGED <<status, old_pos, tmp_pos, pivot>>
      /\ \/ job' = "sort" /\ calls' = <<Sort!Call(n)>> /\ tmp' \in {<<>>, file}
         \/ job' = "copy" /\ tmp' = <<>>
  BY <1>0, <1>1 DEF Sort!sort_lib, Sort!sort_sys, Sort!copy, Sort!Opens
<1>4. status' = "running" /\ old_pos' = 0 /\ tmp_pos' = 0
  BY <1>3 DEF FileInv
<1>5. FilesTyped' /\ Len(tmp') \in Nat /\ Len(tmp') >= 0
  <2>1. tmp' \in Seq(Records)
    BY <1>2, <1>3, EmptySeq
  <2> QED BY <1>2, <1>3, <1>4, <2>1, LenNat DEF FilesTyped
<1>6. CASE job' = "copy" /\ tmp' = <<>>
  <2>1. Len(tmp') = 0 /\ Len(old') >= 0 /\ 1 .. 0 = {}
    BY <1>2, <1>3, <1>6, EmptySeq
  <2> QED BY <1>3, <1>4, <1>5, <1>6, <2>1 DEF FileInv
<1>7. CASE job' = "sort" /\ calls' = <<Sort!Call(n)>>
  <2>c. PICK c \in Calls : c = Sort!Call(n)
    BY <1>2, SortNew
  <2>1. c.pass = "enter" /\ c.length = n /\ c.i = 0 /\ c.smaller = 0 /\ c.bigger = 0
    BY <2>c DEF Sort!Call
  <2>2. Depth' = 1 /\ Inner' = c /\ calls' # <<>>
    BY <1>7, <2>c DEF Depth, Inner
  <2> DEFINE en == [d \in 1 .. 1 |-> n]
  <2>3. en \in [1 .. 1 -> Nat] /\ en[1] = n
    BY <1>2
  <2> HIDE DEF en
  <2>4. Cut(n)' /\ Cut(0)' /\ Rises(0)'
    <3>1. Cut(n)'
      BY <1>2, <1>3 DEF Cut
    <3>2. Cut(0)' /\ Rises(0)'
      <4>1. \A k \in 1 .. Len(old') : ~(k <= 0)
        BY <1>2
      <4>2. \A k, l \in 1 .. Len(old') : ~(k < l /\ l <= 0)
        BY <1>2
      <4> QED BY <4>1, <4>2 DEF Cut, Rises
    <3> QED BY <3>1, <3>2
  <2>5. Waits(en)'
    <3>1. 1 .. 1 = {1} /\ 1 .. 1 - 1 = {} /\ ~(1 > 1) /\ 1 <= 1
      OBVIOUS
    <3>2. \A d, e \in 1 .. 1 : d <= e => en[e] <= en[d]
      BY <1>2, <2>3, <3>1
    <3>3. \A d \in 1 .. 1 : Cut(en[d])'
      BY <2>3, <2>4, <3>1
    <3> QED BY <1>3, <2>2, <2>3, <3>1, <3>2, <3>3 DEF Waits
  <2>6. Same'
    BY <1>3 DEF Same, Count
  <2>7. PassOK(0, n, c)'
    <3>1. EnterOK(0, n, c)'
      BY <1>4, <1>5, <2>1 DEF EnterOK
    <3> QED BY <2>1, <2>4, <2>6, <3>1 DEF PassOK
  <2>8. Sorting'
    <3>1. 0 + c.length = n /\ 0 \in Int
      BY <1>2, <2>1
    <3>2. n = en[Depth'] /\ c = Inner'
      BY <2>2, <2>3
    <3> QED BY <1>2, <2>2, <2>5, <2>7, <3>1, <3>2 DEF Sorting
  <2> QED BY <1>3, <1>4, <1>5, <1>7, <2>2, <2>8 DEF FileInv
<1> QED BY <1>3, <1>6, <1>7

LEMMA FileFinish == FileInv /\ Sort!Finish => FileInv'
<1> SUFFICES ASSUME FileInv, Sort!Finish PROVE FileInv'
  OBVIOUS
<1>1. /\ UNCHANGED <<job, input, len, old, old_pos, tmp_pos, calls>> /\ status' = "done"
      /\ \/ job = "sort" /\ calls = <<>> /\ tmp' = <<>>
         \/ job = "copy" /\ old_pos = len /\ tmp' = tmp
  BY DEF Sort!Finish, Sort!Fixed
<1>2. FilesTyped'
  <2>1. FilesTyped /\ tmp' \in Seq(Records)
    BY <1>1, EmptySeq DEF FileInv, FilesTyped
  <2> QED BY <1>1, <2>1 DEF FilesTyped
<1>3. (Same => Same') /\ (Rises(len) => Rises(len)')
  BY <1>1 DEF Same, Rises, Count
<1>4. CASE job = "sort" /\ calls = <<>>
  BY <1>1, <1>2, <1>3, <1>4 DEF FileInv
<1>5. CASE job = "copy" /\ old_pos = len /\ tmp' = tmp
  BY <1>1, <1>2, <1>5 DEF FileInv
<1> QED BY <1>1, <1>4, <1>5

LEMMA FileFail == FileInv /\ Sort!Fail => FileInv'
<1> SUFFICES ASSUME FileInv, Sort!Fail PROVE FileInv'
  OBVIOUS
<1>1. /\ job # "none" /\ status' = "failed"
      /\ UNCHANGED <<job, input, len, old, tmp, old_pos, tmp_pos, pivot, calls>>
  BY DEF Sort!Fail, Sort!Fixed
<1>2. FilesTyped' /\ Same' = Same /\ Rises(len)' = Rises(len) /\ (Sorting => Sorting')
  BY <1>1, FilesStay DEF FileInv
<1> QED BY <1>1, <1>2 DEF FileInv

\* One record is copied.
LEMMA FileCopy == FileInv /\ Sort!CopyRecord /\ Sort!Fixed /\ UNCHANGED status => FileInv'
<1> SUFFICES ASSUME FileInv, Sort!CopyRecord, Sort!Fixed, UNCHANGED status PROVE FileInv'
  OBVIOUS
<1>1. /\ job = "copy" /\ status = "running" /\ old_pos \in 0 .. Len(old) - 1
      /\ old_pos' = old_pos + 1 /\ tmp' = Sort!Written(tmp, tmp_pos, old[old_pos + 1])
      /\ tmp_pos' = tmp_pos + 1
      /\ UNCHANGED <<job, status, input, len, old>>
  BY DEF Sort!CopyRecord, Sort!Fixed, Sort!CanRead, Sort!ReadOld, Sort!WriteTmp
<1>2. /\ old_pos = Len(tmp) /\ tmp_pos = Len(tmp) /\ old = input
      /\ \A k \in 1 .. Len(tmp) : tmp[k] = input[k]
      /\ FilesTyped /\ tmp \in Seq(Records) /\ old \in Seq(Records)
  BY <1>1 DEF FileInv, FilesTyped
<1>t. PICK t \in Nat, ol \in Nat : t = Len(tmp) /\ ol = Len(old)
  BY <1>2, LenNat
<1>3. t + 1 \in 1 .. ol /\ old_pos' = t + 1 /\ tmp_pos' = t + 1
  BY <1>t, <1>1, <1>2
<1>x. PICK x \in Records : x = old[t + 1]
  BY <1>t, <1>2, <1>3, LenNat
<1>4. tmp' = [k \in 1 .. t + 1 |-> IF k = t + 1 THEN x ELSE tmp[k]]
  BY <1>t, <1>x, <1>1, <1>2 DEF Sort!Written
<1>5. tmp' \in Seq(Records)
  <2>1. t <= Len(tmp) /\ tmp' = Sort!Written(tmp, t, x)
    BY <1>t, <1>x, <1>1, <1>2
  <2> QED BY <1>2, <2>1, WrittenFile
<1>6. Len(tmp') = t + 1
  BY <1>4
<1>7. \A k \in 1 .. t + 1 : tmp'[k] = input[k]
  <2>1. \A k \in 1 .. t + 1 : k = t + 1 \/ k \in 1 .. t
    OBVIOUS
  <2> QED BY <1>t, <1>x, <1>2, <1>4, <2>1
<1>8. FilesTyped'
  <2>1. old_pos' \in Int /\ tmp_pos' \in Int
    BY <1>3
  <2> QED BY <1>1, <1>2, <1>5, <2>1 DEF FilesTyped
<1>9. t + 1 <= ol
  BY <1>3
<1>10. Len(tmp') <= Len(old') /\ old_pos' = Len(tmp') /\ tmp_pos' = Len(tmp')
  BY <1>t, <1>1, <1>3, <1>6, <1>9
<1>11. \A k \in 1 .. Len(tmp') : tmp'[k] = input'[k]
  BY <1>1, <1>6, <1>7
<1> QED BY <1>1, <1>2, <1>8, <1>10, <1>11 DEF FileInv

\* A step of the sort.
LEMMA FileMoves ==
    ASSUME FileInv, SortInv, Sort!sort_file, Sort!Fixed, UNCHANGED status
    PROVE  FileInv'
<1>1. job = "sort" /\ status = "running" /\ calls # <<>> /\ UNCHANGED <<job, input, len, status>>
  BY DEF Sort!sort_file, Sort!Short, Sort!ReadPivot, Sort!CopySmaller, Sort!WritePivot,
         Sort!CopyBigger, Sort!Rewind, Sort!CopyBack, Sort!SortSmaller, Sort!SortBigger,
         Sort!Return, Sort!Running, Sort!Fixed
<1>2. FilesTyped /\ Sorting /\ (\A k \in len + 1 .. Len(old) : old[k] = input[k])
      /\ calls \in Seq(Calls) /\ Behind(calls)
  BY <1>1 DEF FileInv, SortInv
<1>3. PICK en : \E s \in Int, e \in Nat, c \in Calls :
                  c = Inner /\ e = en[Depth] /\ s + c.length = e /\ Waits(en) /\ PassOK(s, e, c)
  BY <1>2 DEF Sorting
<1>4. PICK s \in Int, e \in Nat, c \in Calls :
        c = Inner /\ e = en[Depth] /\ s + c.length = e /\ Waits(en) /\ PassOK(s, e, c)
  BY <1>3
<1>5. s \in Int /\ e \in Nat /\ c \in Calls /\ Now(en, s, e, c)
  BY <1>1, <1>2, <1>4 DEF Now
<1>6. /\ FilesTyped' /\ \A k \in len + 1 .. Len(old) : old'[k] = old[k]
      /\ calls' = <<>> => Same' /\ Rises(len)'
      /\ calls' # <<>> => Sorting'
  <2>1. UNCHANGED <<len, input>> /\ (Sorting' => calls' # <<>>)
    BY <1>1 DEF Sorting
  <2>2. CASE Sort!Short
    BY <1>2, <1>5, <2>1, <2>2, DoesShort
  <2>3. CASE Sort!ReadPivot
    BY <1>2, <1>5, <2>1, <2>3, DoesReadPivot
  <2>4. CASE Sort!CopySmaller
    BY <1>2, <1>5, <2>1, <2>4, DoesCopySmaller
  <2>5. CASE Sort!WritePivot
    BY <1>2, <1>5, <2>1, <2>5, DoesWritePivot
  <2>6. CASE Sort!CopyBigger
    BY <1>2, <1>5, <2>1, <2>6, DoesCopyBigger
  <2>7. CASE Sort!Rewind
    BY <1>2, <1>5, <2>1, <2>7, DoesRewind
  <2>8. CASE Sort!CopyBack
    BY <1>2, <1>5, <2>1, <2>8, DoesCopyBack
  <2>9. CASE Sort!SortSmaller
    BY <1>2, <1>5, <2>1, <2>9, DoesSortSmaller
  <2>10. CASE Sort!SortBigger
    BY <1>2, <1>5, <2>1, <2>10, DoesSortBigger
  <2>11. CASE Sort!Return
    BY <1>2, <1>5, <2>1, <2>11, DoesReturn
  <2> QED BY <2>2, <2>3, <2>4, <2>5, <2>6, <2>7, <2>8, <2>9, <2>10, <2>11 DEF Sort!sort_file
<1>7. Len(old') = Len(old)
  BY <1>1, <1>2, <1>6 DEF FilesTyped
<1> QED BY <1>1, <1>2, <1>6, <1>7 DEF FileInv

LEMMA FileNext == FileInv /\ SortInv /\ [Next]_vars => FileInv'
<1> SUFFICES ASSUME FileInv, SortInv, [Next]_vars PROVE FileInv'
  OBVIOUS
<1>1. CASE UNCHANGED sortVars
  <2>1. UNCHANGED <<job, status, input, len, old, tmp, old_pos, tmp_pos, pivot, calls>>
    BY <1>1 DEF sortVars
  <2>2. FilesTyped' /\ Same' = Same /\ Rises(len)' = Rises(len) /\ (Sorting => Sorting')
    BY <2>1, FilesStay DEF FileInv
  <2> QED BY <2>1, <2>2 DEF FileInv
<1>2. CASE Sort!Start
  BY <1>2, FileStart
<1>3. CASE Sort!Finish \/ Sort!Fail
  BY <1>3, FileFinish, FileFail
<1>4. CASE Sort!sort_file /\ Sort!Fixed /\ UNCHANGED status
  BY <1>4, FileMoves
<1>5. CASE Sort!CopyRecord /\ Sort!Fixed /\ UNCHANGED status
  BY <1>5, FileCopy
<1> QED BY <1>1, <1>2, <1>3, <1>4, <1>5 DEF Next, vars, Sort!Next

LEMMA FileAlways == Spec => [](FileInv /\ SortInv)
<1>1. Init => FileInv /\ SortInv
  BY FileInit, SortInit DEF Init
<1>2. FileInv /\ SortInv /\ [Next]_vars => FileInv' /\ SortInv'
  BY FileNext, SortNext
<1> QED BY <1>1, <1>2, PTL DEF Spec

LEMMA SamePermuted ==
    ASSUME FilesTyped, Same
    PROVE  Sort!Permuted(old, input)
<1>1. old \in Seq(Records) /\ input \in Seq(Records) /\ Len(old) = Len(input)
  BY DEF FilesTyped
<1> QED BY <1>1, PermutedCounts DEF Same

\* The invariant says that the job was done.
LEMMA FileJobDone == FileInv => Sort!JobDone
<1> SUFFICES ASSUME FileInv PROVE Sort!JobDone
  OBVIOUS
<1>1. FilesTyped /\ Len(old) \in Nat /\ len \in Nat
  BY LenNat DEF FileInv, FilesTyped
<1>2. ASSUME status = "done", job = "sort"
      PROVE  /\ Sort!Permuted(old, input)
             /\ \A k, l \in 1 .. len : k < l /\ l <= Len(old) => Key[old[k]] <= Key[old[l]]
             /\ \A k \in len + 1 .. Len(old) : old[k] = input[k]
  <2>1. Same /\ Rises(len) /\ \A k \in len + 1 .. Len(old) : old[k] = input[k]
    BY <1>2 DEF FileInv
  <2>2. ASSUME NEW k \in 1 .. len, NEW l \in 1 .. len, k < l, l <= Len(old)
        PROVE  Key[old[k]] <= Key[old[l]]
    <3>1. k \in 1 .. Len(old) /\ l \in 1 .. Len(old) /\ l <= len
      BY <1>1, <2>2
    <3> QED BY <2>1, <2>2, <3>1 DEF Rises
  <2> QED BY <1>1, <2>1, <2>2, SamePermuted
<1>3. ASSUME status = "done", job = "copy" PROVE tmp = SubSeq(input, 1, len) /\ old = input
  <2>1. /\ old_pos = len /\ old_pos = Len(tmp) /\ Len(tmp) <= Len(old) /\ old = input
        /\ \A k \in 1 .. Len(tmp) : tmp[k] = input[k]
    BY <1>3 DEF FileInv
  <2>2. tmp \in Seq(Records) /\ input \in Seq(Records) /\ len \in Nat /\ len <= Len(input) /\ Len(tmp) = len
    BY <1>1, <2>1 DEF FilesTyped
  <2>3. /\ SubSeq(input, 1, len) \in Seq(Records) /\ Len(SubSeq(input, 1, len)) = len
        /\ \A k \in 1 .. len : SubSeq(input, 1, len)[k] = input[k]
    <3>1. 1 \in 1 .. Len(input) + 1 /\ len \in 1 - 1 .. Len(input)
      BY <2>2, LenNat
    <3>2. /\ Len(SubSeq(input, 1, len)) = len - 1 + 1
          /\ \A k \in 1 .. len - 1 + 1 : SubSeq(input, 1, len)[k] = input[1 + k - 1]
          /\ SubSeq(input, 1, len) \in Seq(Records)
      BY <2>2, <3>1, SubSeqProperties
    <3>3. len - 1 + 1 = len /\ \A k \in 1 .. len : 1 + k - 1 = k
      BY <2>2
    <3> QED BY <3>2, <3>3
  <2>4. tmp = SubSeq(input, 1, len)
    BY <2>1, <2>2, <2>3, SeqEqual
  <2> QED BY <2>1, <2>4
<1> QED BY <1>2, <1>3 DEF Sort!JobDone

\* The invariant says where the records are.
LEMMA FileNothingLost == FileInv => Sort!NothingLost
<1> SUFFICES ASSUME FileInv PROVE Sort!NothingLost
  OBVIOUS
<1>1. FilesTyped
  BY DEF FileInv
<1>2. CASE Same
  BY <1>1, <1>2, SamePermuted DEF Sort!NothingLost
<1>3. CASE ~Same
  <2>1. calls # <<>> /\ Sorting
    <3>1. job = "sort"
      BY <1>3 DEF FileInv, Same
    <3> QED BY <1>3, <3>1 DEF FileInv
  <2>2. PICK en : \E s \in Int, e \in Nat, c \in Calls :
                    c = Inner /\ e = en[Depth] /\ s + c.length = e /\ Waits(en) /\ PassOK(s, e, c)
    BY <2>1 DEF Sorting
  <2>3. PICK s \in Int, e \in Nat, c \in Calls :
          c = Inner /\ e = en[Depth] /\ s + c.length = e /\ Waits(en) /\ PassOK(s, e, c)
    BY <2>2
  <2>4. c.pass = "back" /\ BackOK(s, e, c) /\ s >= 0
    BY <1>3, <2>3 DEF PassOK
  <2>5. Sort!top = c
    BY <2>3 DEF Sort!top, Inner, Depth
  <2>6. old_pos - c.i + 1 = s + 1 /\ old_pos - c.i + c.length = e
    <3>1. old_pos = s + c.i /\ c.i \in Nat /\ c.length \in Nat
      BY <2>4 DEF BackOK, Calls
    <3>2. s + c.length = e
      BY <2>3
    <3> QED BY <3>1, <3>2
  <2>l. PICK ol \in Nat : ol = Len(old)
    BY <1>1, LenNat DEF FilesTyped
  <2>7. e <= ol /\ e <= Len(tmp) /\ s \in Nat
    BY <2>l, <2>4 DEF BackOK
  <2> DEFINE P == s + 1 .. e
             whole == [k \in DOMAIN old |-> IF k \in P THEN tmp[k] ELSE old[k]]
  <2>8. /\ whole \in Seq(Records) /\ Len(whole) = ol
        /\ \A k \in 1 .. ol : whole[k] = IF k \in P THEN tmp[k] ELSE old[k]
    <3>1. DOMAIN old = 1 .. ol /\ (\A k \in 1 .. ol : old[k] \in Records)
      BY <1>1, <2>l, LenNat, LenProperties DEF FilesTyped
    <3>2. \A k \in P : tmp[k] \in Records
      <4>1. \A k \in P : k \in 1 .. Len(tmp)
        BY <1>1, <2>7, LenNat DEF FilesTyped
      <4> QED BY <1>1, <4>1, LenNat DEF FilesTyped
    <3> HIDE DEF P
    <3>3. whole \in [1 .. ol -> Records]
      BY <3>1, <3>2
    <3>4. whole \in Seq(Records) /\ Len(whole) = ol
      BY <3>3
    <3> QED BY <3>1, <3>4
  <2>9. ASSUME NEW r \in Records PROVE Count(whole, 1 .. ol, r) = Count(input, 1 .. ol, r)
    <3>1. Count(whole, 1 .. ol, r) = Count(whole, P, r) + Count(whole, (1 .. ol) \ P, r)
      BY <2>7, CountParts
    <3>2. \A k \in P : whole[k] = tmp[k]
      <4>1. \A k \in P : k \in 1 .. ol
        BY <2>7
      <4> QED BY <2>8, <4>1
    <3>3. \A k \in (1 .. ol) \ P : whole[k] = old[k]
      BY <2>8
    <3> HIDE DEF whole
    <3>4. Count(whole, P, r) = Count(tmp, P, r) /\ Count(whole, (1 .. ol) \ P, r) = Count(old, (1 .. ol) \ P, r)
      BY <3>2, <3>3, CountSame
    <3>5. Count(tmp, P, r) + Count(old, (1 .. ol) \ P, r) = Count(input, 1 .. ol, r)
      BY <2>l, <2>4 DEF BackOK
    <3> QED BY <3>1, <3>4, <3>5
  <2>10. Sort!Permuted(whole, input)
    <3>1. input \in Seq(Records) /\ Len(input) = ol
      BY <1>1, <2>l DEF FilesTyped
    <3> HIDE DEF whole
    <3> QED BY <2>8, <2>9, <3>1, PermutedCounts
  <2> QED BY <2>1, <2>4, <2>5, <2>6, <2>10 DEF Sort!NothingLost
<1> QED BY <1>2, <1>3

\* For every file and length asked for, with tmp_ empty or holding what an earlier
\* run has left, and wherever the sort stops: the records of the file are all in
\* it, or all in it with the part being copied back taken from tmp_.
THEOREM NothingLostAlways == Spec => []NothingLost
<1>1. FileInv /\ SortInv => NothingLost
  BY FileNothingLost DEF NothingLost
<1> QED BY <1>1, FileAlways, PTL

\* For every file and length: a sort that ends without an error has put the
\* records asked for in order, lost none and left the others where they were; a
\* copy that does is the records asked for.
THEOREM JobDoneAlways == Spec => []JobDone
<1>1. FileInv /\ SortInv => JobDone
  BY FileJobDone DEF JobDone
<1> QED BY <1>1, FileAlways, PTL

-----------------------------------------------------------------------------
(* The block array *)

\* Where the last block of the first filling can be at the start of round r:
\* it moves towards the cells 0 .. 2, which the rounds remove in turn.
Late(p, r) ==
    /\ p >= 2 => p + r <= full - 2
    /\ p = 1 => r <= full - 3 \/ (r % 3 = 0 /\ r <= full - 2)
    /\ p = 0 => /\ r <= full + 1
                /\ r % 3 = 1 => r <= full - 1
                /\ r % 3 = 2 => r <= full

\* That block, `full`, stays in the cell behind the last one in use as well.
BlockLooped(s, r) ==
    /\ size = s /\ array[full - 1] = full
    /\ made \in Nat /\ made >= full
    /\ \A i \in 0 .. size - 1 : array[i] <= made
    /\ \A p \in 0 .. size - 1 : array[p] = full => Late(p, r)

BlockInv ==
    /\ stage \in {"new", "fill", "drop", "loop", "refill", "done"}
    /\ stage # "new" =>
         /\ full \in Files /\ array \in [0 .. full - 1 -> Nat] /\ size \in 0 .. full
         /\ \A i, j \in 0 .. size - 1 : array[i] = array[j] => i = j
         /\ round \in 0 .. Rounds
    /\ stage = "new" => size = 0 /\ made = 0 /\ round = 0
    /\ stage \in {"fill", "drop"} => made = size /\ round = 0 /\ \A i \in 0 .. size - 1 : array[i] = i + 1
    /\ stage = "fill" => size < full
    /\ stage = "drop" => size = full
    /\ stage \in {"loop", "done"} => BlockLooped(full - 1, round)
    /\ stage = "refill" => BlockLooped(full - 2, round + 1) /\ round < Rounds
    /\ stage = "done" =>
         /\ round = Rounds
         /\ freed = [b \in 1 .. made |-> Cardinality({i \in DOMAIN array : array[i] = b})]

LEMMA BlockConstants == Rounds \in Nat /\ \A n \in Files : n \in Nat /\ n >= 3
  BY ProgramsAssumption DEF Blocks!BlockAssumption

LEMMA Thirds ==
    ASSUME NEW r \in Nat
    PROVE  r % 3 \in 0 .. 2 /\ (r + 1) % 3 = IF r % 3 = 2 THEN 0 ELSE (r % 3) + 1
  OBVIOUS

\* One round takes that block away or a cell nearer.
LEMMA LateMoves ==
    ASSUME full \in Nat, full >= 3, NEW r \in Nat, NEW p \in 0 .. full - 2, Late(p, r)
    PROVE  /\ p < r % 3 => Late(p, r + 1)
           /\ p > r % 3 => Late(p - 1, r + 1)
<1> DEFINE t == r % 3
           u == (r + 1) % 3
<1>1. t \in 0 .. 2 /\ u = IF t = 2 THEN 0 ELSE t + 1
  BY Thirds
<1>2. /\ p >= 2 => p + r <= full - 2
      /\ p = 1 => r <= full - 3 \/ (t = 0 /\ r <= full - 2)
      /\ p = 0 => r <= full + 1 /\ (t = 1 => r <= full - 1) /\ (t = 2 => r <= full)
  BY DEF Late
<1>3. \A q : Late(q, r + 1) <=>
        /\ q >= 2 => q + (r + 1) <= full - 2
        /\ q = 1 => r + 1 <= full - 3 \/ (u = 0 /\ r + 1 <= full - 2)
        /\ q = 0 => r + 1 <= full + 1 /\ (u = 1 => r + 1 <= full - 1) /\ (u = 2 => r + 1 <= full)
  BY DEF Late
<1> HIDE DEF t, u
<1>4. p < t => Late(p, r + 1)
  <2> SUFFICES ASSUME p < t PROVE Late(p, r + 1)
    OBVIOUS
  <2>1. p \in {0, 1}
    BY <1>1
  <2>2. CASE p = 0
    BY <1>1, <1>2, <1>3, <2>2
  <2>3. CASE p = 1
    BY <1>1, <1>2, <1>3, <2>3
  <2> QED BY <2>1, <2>2, <2>3
<1>5. p > t => Late(p - 1, r + 1)
  <2> SUFFICES ASSUME p > t PROVE Late(p - 1, r + 1)
    OBVIOUS
  <2>1. CASE p = 1
    BY <1>1, <1>2, <1>3, <2>1
  <2>2. CASE p = 2
    BY <1>1, <1>2, <1>3, <2>2
  <2>3. CASE p > 2
    BY <1>1, <1>2, <1>3, <2>3
  <2> QED BY <1>1, <2>1, <2>2, <2>3
<1> QED BY <1>4, <1>5 DEF t

\* The instance counts as everybody does.
LEMMA BlockCounts == \A S : Blocks!Cardinality(S) = Cardinality(S)
  BY DEF Blocks!Cardinality, Cardinality

LEMMA BlockInit == Blocks!Init => BlockInv
  BY DEF Blocks!Init, BlockInv

LEMMA BlockArrayMade == BlockInv /\ Blocks!create_array => BlockInv'
<1> SUFFICES ASSUME BlockInv, Blocks!create_array PROVE BlockInv'
  OBVIOUS
<1>1. /\ stage = "new" /\ stage' = "fill" /\ full' \in Files /\ size' = 0 /\ made' = 0 /\ round' = 0
      /\ array' = [i \in 0 .. full' - 1 |-> 0]
  BY DEF Blocks!create_array, Blocks!NULL, BlockInv
<1>2. full' \in Nat /\ full' >= 3 /\ Rounds \in Nat
  BY <1>1, BlockConstants
<1>3. array' \in [0 .. full' - 1 -> Nat]
  BY <1>1
<1>4. 0 .. size' - 1 = {} /\ size' \in 0 .. full' /\ size' < full' /\ round' \in 0 .. Rounds
  BY <1>1, <1>2
<1> QED BY <1>1, <1>3, <1>4 DEF BlockInv

\* A block for a cell that is there: nothing else moves.
LEMMA BlockCreated ==
    ASSUME full \in Nat, size \in 0 .. full - 1, Blocks!create_block, made \in Nat,
           array \in [0 .. full - 1 -> Nat],
           \A i, j \in 0 .. size - 1 : array[i] = array[j] => i = j,
           \A i \in 0 .. size - 1 : array[i] <= made
    PROVE  /\ full' = full /\ size' = size + 1 /\ made' = made + 1
           /\ array' \in [0 .. full' - 1 -> Nat]
           /\ array'[size] = made'
           /\ \A i \in 0 .. full - 1 : i # size => array'[i] = array[i]
           /\ \A i, j \in 0 .. size' - 1 : array'[i] = array'[j] => i = j
           /\ \A i \in 0 .. size' - 1 : array'[i] <= made'
<1>1. full # size /\ Cardinality(0 .. full - 1) = full
  BY FS_Interval
<1>2. /\ full' = full /\ made' = made + 1 /\ size' = size + 1
      /\ array' = [i \in 0 .. full - 1 |-> IF i = size THEN made + 1 ELSE array[i]]
  <2>1. made' = made + 1 /\ size' = size + 1
    BY DEF Blocks!create_block
  <2>2. full' = Cardinality(IF full = size THEN 0 .. full ELSE 0 .. full - 1)
    BY BlockCounts DEF Blocks!create_block
  <2>3. array' = [i \in IF full = size THEN 0 .. full ELSE 0 .. full - 1 |->
                     IF i = size THEN made + 1 ELSE array[i]]
    BY DEF Blocks!create_block
  <2>4. (IF full = size THEN 0 .. full ELSE 0 .. full - 1) = 0 .. full - 1
    BY <1>1
  <2> QED BY <1>1, <2>1, <2>2, <2>3, <2>4
<1>3. array' \in [0 .. full - 1 -> Nat] /\ array'[size] = made + 1
      /\ \A i \in 0 .. full - 1 : i # size => array'[i] = array[i]
  BY <1>2
<1>4. \A i \in 0 .. size' - 1 : i \in 0 .. full - 1 /\ (i # size => i \in 0 .. size - 1)
  BY <1>2
<1>5. \A i \in 0 .. size' - 1 : array'[i] <= made'
  <2> SUFFICES ASSUME NEW i \in 0 .. size' - 1 PROVE array'[i] <= made'
    OBVIOUS
  <2>1. CASE i = size
    BY <1>2, <1>3, <2>1
  <2>2. CASE i # size
    <3>1. array'[i] = array[i] /\ array[i] <= made /\ array[i] \in Nat
      BY <1>3, <1>4, <2>2
    <3> QED BY <1>2, <3>1
  <2> QED BY <2>1, <2>2
<1>6. \A i \in 0 .. size - 1 : array[i] # made + 1
  <2> SUFFICES ASSUME NEW i \in 0 .. size - 1 PROVE array[i] # made + 1
    OBVIOUS
  <2>1. array[i] <= made /\ array[i] \in Nat
    OBVIOUS
  <2> QED BY <2>1
<1>7. ASSUME NEW i \in 0 .. size' - 1, NEW j \in 0 .. size' - 1, array'[i] = array'[j] PROVE i = j
  <2>1. CASE i = size \/ j = size
    BY <1>3, <1>4, <1>6, <1>7, <2>1
  <2>2. CASE i # size /\ j # size
    <3>1. i \in 0 .. size - 1 /\ j \in 0 .. size - 1 /\ array'[i] = array[i] /\ array'[j] = array[j]
      BY <1>3, <1>4, <2>2
    <3> QED BY <1>7, <3>1
  <2> QED BY <2>1, <2>2
<1> QED BY <1>2, <1>3, <1>5, <1>7

\* What a removal leaves of a cell, and in the cell behind the last.
LEMMA BlockRemoved ==
    ASSUME full \in Nat, size \in 1 .. full, NEW index \in Nat, Blocks!remove_block(index),
           array \in [0 .. full - 1 -> Nat],
           \A i, j \in 0 .. size - 1 : array[i] = array[j] => i = j
    PROVE  /\ full' = full /\ size' = size - 1 /\ made' = made
           /\ array' \in [0 .. full' - 1 -> Nat]
           /\ \A i \in 0 .. size' - 1 :
                array'[i] = IF i >= index THEN array[i + 1] ELSE array[i]
           /\ array'[full - 1] = array[full - 1]
           /\ \A i, j \in 0 .. size' - 1 : array'[i] = array'[j] => i = j
<1>1. /\ full' = full /\ size' = size - 1 /\ made' = made
      /\ array' = [i \in 0 .. full - 1 |->
                      IF i < size - 1 /\ i >= index THEN array[i + 1] ELSE array[i]]
  BY DEF Blocks!remove_block
<1>2. \A i \in 0 .. full - 1 : i < size - 1 => i + 1 \in 0 .. full - 1
  OBVIOUS
<1>3. array' \in [0 .. full - 1 -> Nat]
  BY <1>1, <1>2
<1>4. array'[full - 1] = array[full - 1]
  <2>1. full - 1 \in 0 .. full - 1 /\ ~(full - 1 < size - 1)
    OBVIOUS
  <2> QED BY <1>1, <2>1
<1>5. ASSUME NEW i \in 0 .. size' - 1 PROVE array'[i] = IF i >= index THEN array[i + 1] ELSE array[i]
  <2>1. i \in 0 .. full - 1 /\ i < size - 1
    BY <1>1
  <2> QED BY <1>1, <2>1
<1>6. ASSUME NEW i \in 0 .. size' - 1, NEW j \in 0 .. size' - 1, array'[i] = array'[j] PROVE i = j
  <2> DEFINE from(k) == IF k >= index THEN k + 1 ELSE k
  <2>1. from(i) \in 0 .. size - 1 /\ from(j) \in 0 .. size - 1
    BY <1>1
  <2>2. array'[i] = array[from(i)] /\ array'[j] = array[from(j)]
    BY <1>5
  <2>3. from(i) = from(j)
    <3> HIDE DEF from
    <3> QED BY <1>6, <2>1, <2>2
  <2> QED BY <1>1, <2>3
<1> QED BY <1>1, <1>3, <1>4, <1>5, <1>6

LEMMA BlockFill == BlockInv /\ Blocks!Fill => BlockInv'
<1> SUFFICES ASSUME BlockInv, Blocks!Fill PROVE BlockInv'
  OBVIOUS
<1>1. /\ stage = "fill" /\ Blocks!create_block /\ round' = round
      /\ stage' = IF size' = full THEN "drop" ELSE "fill"
  BY DEF Blocks!Fill
<1>2. /\ full \in Files /\ full \in Nat /\ full >= 3 /\ array \in [0 .. full - 1 -> Nat]
      /\ size \in 0 .. full - 1 /\ made = size /\ round = 0 /\ made \in Nat
      /\ \A i, j \in 0 .. size - 1 : array[i] = array[j] => i = j
      /\ \A i \in 0 .. size - 1 : array[i] = i + 1
  <2>1. full \in Files /\ size \in 0 .. full /\ size < full
    BY <1>1 DEF BlockInv
  <2>2. full \in Nat /\ full >= 3 /\ size \in 0 .. full - 1
    BY <2>1, BlockConstants
  <2> QED BY <1>1, <2>1, <2>2 DEF BlockInv
<1>3. \A i \in 0 .. size - 1 : array[i] <= made
  BY <1>2
<1>4. /\ full' = full /\ size' = size + 1 /\ made' = made + 1
      /\ array' \in [0 .. full' - 1 -> Nat]
      /\ array'[size] = made'
      /\ \A i \in 0 .. full - 1 : i # size => array'[i] = array[i]
      /\ \A i, j \in 0 .. size' - 1 : array'[i] = array'[j] => i = j
  BY <1>1, <1>2, <1>3, BlockCreated
<1>5. \A i \in 0 .. size' - 1 : array'[i] = i + 1
  <2> SUFFICES ASSUME NEW i \in 0 .. size' - 1 PROVE array'[i] = i + 1
    OBVIOUS
  <2>1. CASE i = size
    BY <1>2, <1>4, <2>1
  <2>2. CASE i # size
    <3>1. i \in 0 .. size - 1 /\ i \in 0 .. full - 1
      BY <1>2, <1>4, <2>2
    <3> QED BY <1>2, <1>4, <2>2, <3>1
  <2> QED BY <2>1, <2>2
<1>6. full' \in Files /\ size' \in 0 .. full' /\ made' = size' /\ round' \in 0 .. Rounds /\ round' = 0
      /\ (size' # full => size' < full')
  BY <1>1, <1>2, <1>4, BlockConstants
<1> QED BY <1>1, <1>4, <1>5, <1>6 DEF BlockInv

\* What the rounds need of the state.
LEMMA BlockTyped ==
    ASSUME BlockInv, stage # "new"
    PROVE  /\ full \in Files /\ full \in Nat /\ full >= 3 /\ array \in [0 .. full - 1 -> Nat]
           /\ size \in 0 .. full /\ round \in Nat /\ round <= Rounds /\ Rounds \in Nat
           /\ \A i, j \in 0 .. size - 1 : array[i] = array[j] => i = j
<1>1. full \in Files /\ round \in 0 .. Rounds
  BY DEF BlockInv
<1> QED BY <1>1, BlockConstants DEF BlockInv

LEMMA BlockDrop == BlockInv /\ Blocks!Drop => BlockInv'
<1> SUFFICES ASSUME BlockInv, Blocks!Drop PROVE BlockInv'
  OBVIOUS
<1>1. stage = "drop" /\ Blocks!remove_block(1) /\ stage' = "loop" /\ round' = round
  BY DEF Blocks!Drop
<1>2. /\ full \in Files /\ full \in Nat /\ full >= 3 /\ array \in [0 .. full - 1 -> Nat]
      /\ size \in 1 .. full /\ \A i, j \in 0 .. size - 1 : array[i] = array[j] => i = j
      /\ Rounds \in Nat
  BY <1>1, BlockTyped DEF BlockInv
<1>3. size = full /\ made = size /\ round = 0 /\ \A i \in 0 .. size - 1 : array[i] = i + 1
  BY <1>1 DEF BlockInv
<1>4. /\ full' = full /\ size' = size - 1 /\ made' = made
      /\ array' \in [0 .. full' - 1 -> Nat]
      /\ \A i \in 0 .. size' - 1 : array'[i] = IF i >= 1 THEN array[i + 1] ELSE array[i]
      /\ array'[full - 1] = array[full - 1]
      /\ \A i, j \in 0 .. size' - 1 : array'[i] = array'[j] => i = j
  BY <1>1, <1>2, BlockRemoved
<1>5. \A i \in 0 .. size' - 1 : array'[i] = IF i >= 1 THEN i + 2 ELSE i + 1
  <2> SUFFICES ASSUME NEW i \in 0 .. size' - 1 PROVE array'[i] = IF i >= 1 THEN i + 2 ELSE i + 1
    OBVIOUS
  <2>1. i \in 0 .. size - 1 /\ i + 1 \in 0 .. size - 1
    BY <1>2, <1>4
  <2>2. array[i] = i + 1 /\ array[i + 1] = (i + 1) + 1
    BY <1>3, <2>1
  <2> QED BY <1>4, <2>2
<1>6. array'[full - 1] = full
  BY <1>2, <1>3, <1>4
<1>7. \A i \in 0 .. size' - 1 : array'[i] <= made' /\ (array'[i] = full => i = full - 2)
  BY <1>2, <1>3, <1>4, <1>5
<1>8. Late(full - 2, 0)'
  BY <1>2, <1>4 DEF Late
<1>9. BlockLooped(full - 1, round)'
  <2>1. size' = full' - 1 /\ array'[full' - 1] = full' /\ made' \in Nat /\ made' >= full'
    BY <1>2, <1>3, <1>4, <1>6
  <2>2. \A p \in 0 .. size' - 1 : array'[p] = full' => Late(p, round)'
    BY <1>1, <1>3, <1>4, <1>7, <1>8
  <2> QED BY <1>7, <2>1, <2>2 DEF BlockLooped
<1>10. full' \in Files /\ size' \in 0 .. full' /\ round' \in 0 .. Rounds
  BY <1>1, <1>2, <1>3, <1>4
<1> QED BY <1>1, <1>4, <1>9, <1>10 DEF BlockInv

LEMMA BlockRemove == BlockInv /\ Blocks!LoopRemove => BlockInv'
<1> SUFFICES ASSUME BlockInv, Blocks!LoopRemove PROVE BlockInv'
  OBVIOUS
<1>1. stage = "loop" /\ round < Rounds /\ Blocks!remove_block(round % 3) /\ stage' = "refill" /\ round' = round
  BY DEF Blocks!LoopRemove
<1>2. /\ full \in Files /\ full \in Nat /\ full >= 3 /\ array \in [0 .. full - 1 -> Nat]
      /\ \A i, j \in 0 .. size - 1 : array[i] = array[j] => i = j
      /\ Rounds \in Nat /\ round \in Nat
  BY <1>1, BlockTyped
<1>3. /\ size = full - 1 /\ array[full - 1] = full /\ made \in Nat /\ made >= full
      /\ \A i \in 0 .. size - 1 : array[i] <= made
      /\ \A p \in 0 .. size - 1 : array[p] = full => Late(p, round)
  BY <1>1 DEF BlockInv, BlockLooped
<1>4. round % 3 \in Nat /\ size \in 1 .. full
  BY <1>2, <1>3, Thirds
<1>5. /\ full' = full /\ size' = size - 1 /\ made' = made
      /\ array' \in [0 .. full' - 1 -> Nat]
      /\ \A i \in 0 .. size' - 1 :
           array'[i] = IF i >= round % 3 THEN array[i + 1] ELSE array[i]
      /\ array'[full - 1] = array[full - 1]
      /\ \A i, j \in 0 .. size' - 1 : array'[i] = array'[j] => i = j
  BY <1>1, <1>2, <1>4, BlockRemoved
<1>6. \A i \in 0 .. size' - 1 : i \in 0 .. size - 1 /\ i + 1 \in 0 .. size - 1 /\ i + 1 - 1 = i
  BY <1>2, <1>3, <1>5
<1>7. \A i \in 0 .. size' - 1 : array'[i] <= made'
  BY <1>3, <1>5, <1>6
<1>8. ASSUME NEW p \in 0 .. size' - 1, array'[p] = full PROVE Late(p, round + 1)
  <2>1. CASE p >= round % 3
    <3>1. array[p + 1] = full /\ p + 1 \in 0 .. size - 1
      BY <1>5, <1>6, <1>8, <2>1
    <3>2. PICK q \in 0 .. full - 2 : q = p + 1 /\ q > round % 3 /\ q - 1 = p
      BY <1>2, <1>3, <1>4, <2>1, <3>1
    <3>3. Late(q, round)
      BY <1>3, <3>1, <3>2
    <3>4. Late(q - 1, round + 1)
      BY <1>2, <3>2, <3>3, LateMoves
    <3> QED BY <3>2, <3>4
  <2>2. CASE ~(p >= round % 3)
    <3>1. array[p] = full /\ p \in 0 .. size - 1
      BY <1>5, <1>6, <1>8, <2>2
    <3>2. Late(p, round) /\ p \in 0 .. full - 2 /\ p < round % 3
      BY <1>2, <1>3, <1>4, <2>2, <3>1
    <3> QED BY <1>2, <3>2, LateMoves
  <2> QED BY <2>1, <2>2
<1>9. BlockLooped(full - 2, round + 1)'
  <2>1. size' = full' - 2 /\ array'[full' - 1] = full' /\ made' \in Nat /\ made' >= full'
    BY <1>2, <1>3, <1>5
  <2>2. \A p \in 0 .. size' - 1 : array'[p] = full' => Late(p, round + 1)'
    <3> SUFFICES ASSUME NEW p \in 0 .. size' - 1, array'[p] = full' PROVE Late(p, round + 1)'
      OBVIOUS
    <3>1. Late(p, round + 1)
      BY <1>5, <1>8
    <3> QED BY <1>1, <1>5, <3>1 DEF Late
  <2> QED BY <1>7, <2>1, <2>2 DEF BlockLooped
<1>10. full' \in Files /\ size' \in 0 .. full' /\ round' \in 0 .. Rounds /\ round' < Rounds
  BY <1>1, <1>2, <1>3, <1>5
<1> QED BY <1>1, <1>5, <1>9, <1>10 DEF BlockInv

LEMMA BlockCreate == BlockInv /\ Blocks!LoopCreate => BlockInv'
<1> SUFFICES ASSUME BlockInv, Blocks!LoopCreate PROVE BlockInv'
  OBVIOUS
<1>1. stage = "refill" /\ Blocks!create_block /\ stage' = "loop" /\ round' = round + 1
  BY DEF Blocks!LoopCreate
<1>2. /\ full \in Files /\ full \in Nat /\ full >= 3 /\ array \in [0 .. full - 1 -> Nat]
      /\ \A i, j \in 0 .. size - 1 : array[i] = array[j] => i = j
      /\ Rounds \in Nat /\ round \in Nat
  BY <1>1, BlockTyped
<1>3. /\ size = full - 2 /\ array[full - 1] = full /\ made \in Nat /\ made >= full
      /\ \A i \in 0 .. size - 1 : array[i] <= made
      /\ \A p \in 0 .. size - 1 : array[p] = full => Late(p, round + 1)
      /\ round < Rounds
  BY <1>1 DEF BlockInv, BlockLooped
<1>4. size \in 0 .. full - 1
  BY <1>2, <1>3
<1>5. /\ full' = full /\ size' = size + 1 /\ made' = made + 1
      /\ array' \in [0 .. full' - 1 -> Nat]
      /\ array'[size] = made'
      /\ \A i \in 0 .. full - 1 : i # size => array'[i] = array[i]
      /\ \A i, j \in 0 .. size' - 1 : array'[i] = array'[j] => i = j
      /\ \A i \in 0 .. size' - 1 : array'[i] <= made'
  BY <1>1, <1>2, <1>3, <1>4, BlockCreated
<1>6. array'[full - 1] = full
  <2>1. full - 1 \in 0 .. full - 1 /\ full - 1 # size
    BY <1>2, <1>3
  <2> QED BY <1>3, <1>5, <2>1
<1>7. ASSUME NEW p \in 0 .. size' - 1, array'[p] = full' PROVE Late(p, round)'
  <2>1. p # size
    BY <1>2, <1>3, <1>5, <1>7
  <2>2. p \in 0 .. size - 1 /\ p \in 0 .. full - 1
    BY <1>2, <1>3, <1>5, <2>1
  <2>3. Late(p, round + 1)
    BY <1>3, <1>5, <1>7, <2>1, <2>2
  <2> QED BY <1>1, <1>5, <2>3 DEF Late
<1>8. BlockLooped(full - 1, round)'
  <2>1. size' = full' - 1 /\ array'[full' - 1] = full' /\ made' \in Nat /\ made' >= full'
    BY <1>2, <1>3, <1>5, <1>6
  <2> QED BY <1>5, <1>7, <2>1 DEF BlockLooped
<1>9. full' \in Files /\ size' \in 0 .. full' /\ round' \in 0 .. Rounds
  BY <1>1, <1>2, <1>3, <1>5
<1> QED BY <1>1, <1>5, <1>8, <1>9 DEF BlockInv

LEMMA BlockFree == BlockInv /\ Blocks!FreeAll => BlockInv'
<1> SUFFICES ASSUME BlockInv, Blocks!FreeAll PROVE BlockInv'
  OBVIOUS
<1>1. /\ stage = "loop" /\ round = Rounds /\ stage' = "done"
      /\ array' = array /\ size' = size /\ full' = full /\ made' = made /\ round' = round
      /\ freed' = [b \in 1 .. made' |-> Cardinality({i \in DOMAIN array' : array'[i] = b})]
  <2>1. /\ stage = "loop" /\ round = Rounds /\ stage' = "done"
        /\ array' = array /\ size' = size /\ full' = full /\ made' = made /\ round' = round
    BY DEF Blocks!FreeAll
  <2>2. freed' = [b \in 1 .. made |-> Cardinality({i \in DOMAIN array : array[i] = b})]
    BY BlockCounts DEF Blocks!FreeAll
  <2> QED BY <2>1, <2>2
<1>2. BlockLooped(full - 1, round)'
  BY <1>1 DEF BlockInv, BlockLooped, Late
<1> QED BY <1>1, <1>2 DEF BlockInv

\* Every step of the composition keeps the invariant of the block array.
LEMMA BlockNext == BlockInv /\ [Next]_vars => BlockInv'
<1> SUFFICES ASSUME BlockInv, [Next]_vars PROVE BlockInv'
  OBVIOUS
<1>1. CASE Blocks!Next
  BY <1>1, BlockArrayMade, BlockFill, BlockDrop, BlockRemove, BlockCreate, BlockFree DEF Blocks!Next
<1>2. CASE UNCHANGED blockVars
  <2>1. UNCHANGED <<stage, array, size, full, made, round, freed>>
    BY <1>2 DEF blockVars
  <2> QED BY <2>1 DEF BlockInv, BlockLooped, Late
<1> QED BY <1>1, <1>2 DEF Next, vars

\* Two more rounds than files take away the block that two cells hold.
LEMMA BlocksFreedOnce ==
    ASSUME BlockInv, \A n \in Files : n + 2 <= Rounds
    PROVE  Blocks!FreedOnce
<1>1. \A i, j \in 0 .. size - 1 : array[i] = array[j] => i = j
  BY DEF BlockInv
<1>2. ASSUME stage = "done", NEW b \in DOMAIN freed PROVE freed[b] <= 1
  <2>1. /\ full \in Files /\ full \in Nat /\ full >= 3 /\ array \in [0 .. full - 1 -> Nat]
        /\ Rounds \in Nat
    BY <1>2, BlockTyped
  <2>2. /\ round = Rounds /\ size = full - 1 /\ array[full - 1] = full
        /\ \A p \in 0 .. size - 1 : array[p] = full => Late(p, round)
    BY <1>2 DEF BlockInv, BlockLooped
  <2>3. \A p \in 0 .. full - 2 : array[p] # full
    <3> SUFFICES ASSUME NEW p \in 0 .. full - 2, array[p] = full PROVE FALSE
      OBVIOUS
    <3>1. Late(p, round)
      BY <2>1, <2>2
    <3>2. p >= 2 \/ p = 1 \/ p = 0
      OBVIOUS
    <3>3. full + 2 <= round
      BY <2>1, <2>2
    <3> QED BY <2>1, <2>2, <3>1, <3>2, <3>3 DEF Late
  <2>4. \A i, j \in 0 .. full - 1 : array[i] = array[j] => i = j
    <3> SUFFICES ASSUME NEW i \in 0 .. full - 1, NEW j \in 0 .. full - 1, array[i] = array[j]
                 PROVE  i = j
      OBVIOUS
    <3>1. i = full - 1 \/ i \in 0 .. full - 2
      BY <2>1
    <3>2. j = full - 1 \/ j \in 0 .. full - 2
      BY <2>1
    <3>3. 0 .. full - 2 = 0 .. size - 1
      BY <2>1, <2>2
    <3> QED BY <1>1, <2>2, <2>3, <3>1, <3>2, <3>3
  <2> DEFINE cells == {i \in DOMAIN array : array[i] = b}
  <2>5. Cardinality(cells) <= 1
    <3>1. CASE cells = {}
      BY <3>1, FS_EmptySet
    <3>2. CASE cells # {}
      <4>1. PICK i \in cells : TRUE
        BY <3>2
      <4>2. cells = {i}
        BY <2>1, <2>4, <4>1
      <4>3. Cardinality({i}) = 1
        BY FS_Singleton
      <4> HIDE DEF cells
      <4> QED BY <4>2, <4>3
    <3> QED BY <3>1, <3>2
  <2>6. freed[b] = Cardinality(cells)
    <3>1. freed = [c \in 1 .. made |-> Cardinality({i \in DOMAIN array : array[i] = c})]
      BY <1>2 DEF BlockInv
    <3> QED BY <3>1
  <2> QED BY <2>5, <2>6
<1> QED BY <1>1, <1>2 DEF Blocks!FreedOnce

\* With at least two rounds more than files, be it however many, the cells in
\* use hold different blocks and the loop at the end of run frees none twice:
\* by then it has removed the one block that a cell behind the last still holds.
THEOREM FreedOnceAlways ==
    ASSUME \A n \in Files : n + 2 <= Rounds
    PROVE  Spec => []FreedOnce
<1>1. Init => BlockInv
  BY BlockInit DEF Init
<1>2. BlockInv => FreedOnce
  BY BlocksFreedOnce DEF FreedOnce
<1> QED BY <1>1, <1>2, BlockNext, PTL DEF Spec

-----------------------------------------------------------------------------
(* Division *)

\* Division with remainder.
LEMMA Divide ==
    ASSUME NEW a \in Nat, NEW b \in Nat \ {0}
    PROVE  /\ a \div b \in Nat /\ a % b \in 0 .. b - 1
           /\ a = b * (a \div b) + (a % b)
  OBVIOUS

LEMMA TimesAbove ==
    ASSUME NEW b \in Nat \ {0}, NEW p \in Int, NEW q \in Int, p < q
    PROVE  b * p + b <= b * q
<1>1. b * (q - p - 1) >= 0
  OBVIOUS
<1>2. b * (q - p - 1) = b * q - b * p - b
  OBVIOUS
<1>3. b * p \in Int /\ b * q \in Int
  OBVIOUS
<1> QED BY <1>1, <1>2, <1>3

\* There is one way to divide.
LEMMA DivideOnce ==
    ASSUME NEW b \in Nat \ {0}, NEW q \in Nat, NEW r \in 0 .. b - 1
    PROVE  /\ (b * q + r) \div b = q /\ (b * q + r) % b = r
           /\ b * q + r \in Nat
<1>1. b * q \in Nat
  OBVIOUS
<1> DEFINE a == b * q + r
<1>2. a \in Nat
  BY <1>1
<1> HIDE DEF a
<1>3. PICK p \in Nat, s \in 0 .. b - 1 : p = a \div b /\ s = a % b /\ a = b * p + s
  BY <1>2, Divide
<1>4. b * p \in Nat
  OBVIOUS
<1>5. ~ p < q
  <2> SUFFICES ASSUME p < q PROVE FALSE
    OBVIOUS
  <2>1. b * p + b <= b * q
    BY TimesAbove
  <2> QED BY <1>1, <1>3, <1>4, <2>1 DEF a
<1>6. ~ q < p
  <2> SUFFICES ASSUME q < p PROVE FALSE
    OBVIOUS
  <2>1. b * q + b <= b * p
    BY TimesAbove
  <2> QED BY <1>1, <1>3, <1>4, <2>1 DEF a
<1>7. p = q
  BY <1>3, <1>5, <1>6
<1>8. s = r
  BY <1>1, <1>3, <1>7 DEF a
<1> QED BY <1>2, <1>3, <1>7, <1>8 DEF a

-----------------------------------------------------------------------------
(* The histogram: cells to count and places in the picture *)

\* What is still to be counted of shade x: the places of x in the threads' work.
Cells(w, x) ==
    {p \in Hist!Threads \X Nat : p[2] \in 1 .. Len(w[p[1]]) /\ w[p[1]][p[2]] = x}

LEMMA HistConstants ==
    /\ threads_num \in Nat \ {0} /\ max_val \in 0 .. 255
    /\ Sizes \subseteq (Nat \ {0}) \X (Nat \ {0})
    /\ Hist!Threads = 0 .. threads_num - 1 /\ Hist!Shades = 0 .. max_val
    /\ Hist!Shades \subseteq Nat /\ Hist!Unread = -1
  BY ProgramsAssumption DEF Hist!HistogramAssumption, Hist!Threads, Hist!Shades, Hist!Unread

LEMMA HistCounts == \A S : Hist!Cardinality(S) = Cardinality(S)
  BY DEF Hist!Cardinality, Cardinality

\* A counted pixel is one cell less.
LEMMA CellsTail ==
    ASSUME NEW k \in Hist!Threads,
           NEW w \in [Hist!Threads -> Seq(Hist!Shades)], w[k] # <<>>,
           NEW x, IsFiniteSet(Cells(w, x))
    PROVE  LET v == [w EXCEPT ![k] = Tail(@)] IN
           /\ IsFiniteSet(Cells(v, x))
           /\ Cardinality(Cells(v, x)) \in Nat
           /\ Cardinality(Cells(w, x)) = Cardinality(Cells(v, x)) + IF Head(w[k]) = x THEN 1 ELSE 0
<1> DEFINE v == [w EXCEPT ![k] = Tail(@)]
           here == <<k, 1>>
           A == Cells(w, x) \ {here}
           f == [p \in A |-> IF p[1] = k THEN <<k, p[2] - 1>> ELSE p]
<1>1. /\ w[k] \in Seq(Hist!Shades) /\ Len(w[k]) \in Nat /\ Len(w[k]) >= 1 /\ Head(w[k]) = w[k][1]
      /\ Len(Tail(w[k])) = Len(w[k]) - 1
      /\ \A i \in 1 .. Len(w[k]) - 1 : Tail(w[k])[i] = w[k][i + 1]
  <2>1. w[k] \in Seq(Hist!Shades)
    OBVIOUS
  <2> QED BY <2>1, HeadTailProperties, ElementOfSeq, EmptySeq, LenProperties
<1>2. v[k] = Tail(w[k]) /\ \A j \in Hist!Threads : j # k => v[j] = w[j]
  OBVIOUS
<1> HIDE DEF v
<1>3. here \in Cells(w, x) <=> Head(w[k]) = x
  BY <1>1 DEF Cells
<1>4. \A p \in A : /\ p[1] \in Hist!Threads /\ p[2] \in Nat /\ p = <<p[1], p[2]>>
                   /\ p[2] \in 1 .. Len(w[p[1]]) /\ w[p[1]][p[2]] = x
                   /\ p[1] = k => p[2] > 1
  BY DEF Cells
<1>5. f \in Bijection(A, Cells(v, x))
  <2>1. \A p \in A : f[p] \in Cells(v, x)
    <3> SUFFICES ASSUME NEW p \in A PROVE f[p] \in Cells(v, x)
      OBVIOUS
    <3>1. CASE p[1] = k
      <4>1. f[p] = <<k, p[2] - 1>> /\ p[2] - 1 \in 1 .. Len(w[k]) - 1
        BY <1>1, <1>4, <3>1
      <4>2. Tail(w[k])[p[2] - 1] = w[k][p[2] - 1 + 1]
        BY <1>1, <4>1
      <4>3. w[k][p[2] - 1 + 1] = x
        BY <1>4, <3>1
      <4>4. v[k][p[2] - 1] = x /\ p[2] - 1 \in 1 .. Len(v[k])
        BY <1>1, <1>2, <4>1, <4>2, <4>3, SMTT(60)
      <4>5. <<k, p[2] - 1>> \in Cells(v, x)
        BY <4>4, SMTT(60) DEF Cells
      <4> QED BY <4>1, <4>5
    <3>2. CASE p[1] # k
      <4>1. f[p] = p /\ v[p[1]] = w[p[1]]
        BY <1>2, <1>4, <3>2
      <4> QED BY <1>4, <4>1 DEF Cells
    <3> QED BY <3>1, <3>2
  <2>2. \A p, q \in A : f[p] = f[q] => p = q
    <3> SUFFICES ASSUME NEW p \in A, NEW q \in A, f[p] = f[q] PROVE p = q
      OBVIOUS
    <3>1. f[p][1] = p[1] /\ f[q][1] = q[1]
      BY <1>4
    <3>2. CASE p[1] = k
      <4>1. f[p] = <<k, p[2] - 1>> /\ f[q] = <<k, q[2] - 1>>
        BY <3>1, <3>2
      <4>2. p[2] - 1 = q[2] - 1
        BY <4>1
      <4> QED BY <1>4, <3>1, <3>2, <4>2
    <3>3. CASE p[1] # k
      BY <3>1, <3>3
    <3> QED BY <3>2, <3>3
  <2>3. \A q \in Cells(v, x) : \E p \in A : f[p] = q
    <3> SUFFICES ASSUME NEW q \in Cells(v, x) PROVE \E p \in A : f[p] = q
      OBVIOUS
    <3>1. q[1] \in Hist!Threads /\ q[2] \in Nat /\ q = <<q[1], q[2]>>
          /\ q[2] \in 1 .. Len(v[q[1]]) /\ v[q[1]][q[2]] = x
      BY DEF Cells
    <3>2. CASE q[1] = k
      <4> DEFINE p == <<k, q[2] + 1>>
      <4>1. p \in Cells(w, x)
        <5>1. q[2] \in 1 .. Len(w[k]) - 1
          BY <1>1, <1>2, <3>1, <3>2
        <5>2. Tail(w[k])[q[2]] = w[k][q[2] + 1]
          BY <1>1, <5>1
        <5> QED BY <1>1, <1>2, <3>1, <3>2, <5>1, <5>2 DEF Cells
      <4>2. p # here
        BY <3>1
      <4>3. p \in A
        BY <4>1, <4>2
      <4>4. f[p] = <<k, p[2] - 1>>
        BY <4>3
      <4>5. p[2] - 1 = q[2]
        BY <3>1
      <4> QED BY <3>1, <3>2, <4>3, <4>4, <4>5
    <3>3. CASE q[1] # k
      <4>1. q \in Cells(w, x)
        BY <1>2, <3>1, <3>3 DEF Cells
      <4>2. q \in A /\ f[q] = q
        BY <3>3, <4>1
      <4> QED BY <4>2
    <3> QED BY <3>2, <3>3
  <2>4. f \in [A -> Cells(v, x)]
    BY <2>1
  <2> HIDE DEF f, A
  <2> QED BY <2>2, <2>3, <2>4 DEF Bijection, Injection, Surjection, IsInjective
<1>6. IsFiniteSet(A) /\ Cardinality(A) = IF here \in Cells(w, x) THEN Cardinality(Cells(w, x)) - 1
                                                               ELSE Cardinality(Cells(w, x))
  BY FS_RemoveElement
<1>7. IsFiniteSet(Cells(v, x)) /\ Cardinality(Cells(v, x)) = Cardinality(A)
  BY <1>5, <1>6, FS_Bijection DEF ExistsBijection
<1>8. Cardinality(A) \in Nat /\ Cardinality(Cells(w, x)) \in Nat
  BY <1>6, FS_CardinalityType
<1> HIDE DEF A, here
<1>9. Cardinality(Cells(w, x)) = Cardinality(Cells(v, x)) + IF Head(w[k]) = x THEN 1 ELSE 0
  BY <1>3, <1>6, <1>7, <1>8
<1> QED BY <1>7, <1>8, <1>9 DEF v

\* As many, when one function goes from each of the one to each of the other.
LEMMA AsMany ==
    ASSUME NEW S, NEW T, NEW f \in [S -> T], IsFiniteSet(S),
           \A a, b \in S : f[a] = f[b] => a = b,
           \A t \in T : \E a \in S : f[a] = t
    PROVE  IsFiniteSet(T) /\ Cardinality(T) = Cardinality(S)
<1>1. f \in Bijection(S, T)
  BY DEF Bijection, Injection, Surjection, IsInjective
<1> QED BY <1>1, FS_Bijection DEF ExistsBijection

LEMMA NoMore ==
    ASSUME NEW S, NEW T, NEW f \in [S -> T], IsFiniteSet(T),
           \A a, b \in S : f[a] = f[b] => a = b
    PROVE  IsFiniteSet(S) /\ Cardinality(S) <= Cardinality(T)
<1>1. f \in Injection(S, T)
  BY DEF Injection, IsInjective
<1> QED BY <1>1, FS_Injection

\* The places of a table of h rows of b, counted from 1.
LEMMA Grid ==
    ASSUME NEW h \in Nat, NEW b \in Nat \ {0}
    PROVE  /\ h * b \in Nat
           /\ \A n \in 1 .. h * b :
                /\ (n - 1) \div b \in 0 .. h - 1 /\ (n - 1) % b \in 0 .. b - 1
                /\ n = b * ((n - 1) \div b) + ((n - 1) % b) + 1
<1>1. h * b \in Nat /\ h * b = b * h
  OBVIOUS
<1>2. ASSUME NEW n \in 1 .. h * b
      PROVE  /\ (n - 1) \div b \in 0 .. h - 1 /\ (n - 1) % b \in 0 .. b - 1
             /\ n = b * ((n - 1) \div b) + ((n - 1) % b) + 1
  <2>1. n - 1 \in Nat
    BY <1>1
  <2>2. PICK q \in Nat, r \in 0 .. b - 1 :
            q = (n - 1) \div b /\ r = (n - 1) % b /\ n - 1 = b * q + r
    BY <2>1, Divide
  <2>3. b * q \in Nat
    OBVIOUS
  <2>4. q < h
    <3> SUFFICES ASSUME h <= q PROVE FALSE
      BY <2>2
    <3>1. b * h <= b * q
      <4>1. CASE h = q
        BY <4>1
      <4>2. CASE h < q
        BY <1>1, <2>3, <4>2, TimesAbove
      <4> QED BY <4>1, <4>2
    <3> QED BY <1>1, <2>2, <2>3, <3>1
  <2>5. n = b * q + r + 1
    BY <1>1, <2>2, <2>3
  <2> QED BY <2>2, <2>4, <2>5
<1> QED BY <1>1, <1>2

LEMMA GridPlace ==
    ASSUME NEW h \in Nat, NEW b \in Nat \ {0}, NEW q \in 0 .. h - 1, NEW r \in 1 .. b
    PROVE  /\ b * q + r \in 1 .. h * b
           /\ (b * q + r - 1) \div b = q /\ (b * q + r - 1) % b = r - 1
<1>1. b * q \in Nat /\ q \in Nat /\ r - 1 \in 0 .. b - 1 /\ h * b = b * h /\ b * h \in Nat
  OBVIOUS
<1>2. b * q + b <= b * h
  BY TimesAbove
<1>3. b * q + r - 1 = b * q + (r - 1)
  BY <1>1
<1>4. (b * q + (r - 1)) \div b = q /\ (b * q + (r - 1)) % b = r - 1
  BY <1>1, DivideOnce
<1>5. b * q + r \in 1 .. h * b
  BY <1>1, <1>2
<1> QED BY <1>3, <1>4, <1>5

\* The pictures of h rows of w pixels, and where shade x is in one.
Pictures(h, w) == [1 .. h -> [1 .. w -> Hist!Shades]]
Places(picture, w, x) == {p \in (DOMAIN picture) \X (1 .. w) : picture[p[1]][p[2]] = x}

LEMMA PlacesFinite ==
    ASSUME NEW h \in Nat, NEW w \in Nat, NEW picture \in Pictures(h, w), NEW x
    PROVE  /\ IsFiniteSet(Places(picture, w, x)) /\ Cardinality(Places(picture, w, x)) \in Nat
           /\ \A p \in Places(picture, w, x) :
                p[1] \in 1 .. h /\ p[2] \in 1 .. w /\ p = <<p[1], p[2]>> /\ picture[p[1]][p[2]] = x
           /\ \A r \in 1 .. h, c \in 1 .. w :
                picture[r][c] = x => <<r, c>> \in Places(picture, w, x)
<1>1. IsFiniteSet(1 .. h) /\ IsFiniteSet(1 .. w)
  BY FS_Interval
<1>2. IsFiniteSet((1 .. h) \X (1 .. w))
  BY <1>1, FS_Product
<1>3. Places(picture, w, x) \subseteq (1 .. h) \X (1 .. w)
  BY DEF Places, Pictures
<1>4. IsFiniteSet(Places(picture, w, x))
  BY <1>2, <1>3, FS_Subset
<1> QED BY <1>4, FS_CardinalityType DEF Places, Pictures

LEMMA CellsAre ==
    ASSUME NEW w \in [Hist!Threads -> Seq(Hist!Shades)], NEW x
    PROVE  /\ \A p \in Cells(w, x) :
                /\ p[1] \in Hist!Threads /\ p[2] \in Nat /\ p = <<p[1], p[2]>>
                /\ p[2] \in 1 .. Len(w[p[1]]) /\ w[p[1]][p[2]] = x
           /\ \A k \in Hist!Threads : \A n \in 1 .. Len(w[k]) :
                w[k][n] = x => <<k, n>> \in Cells(w, x)
  BY DEF Cells

\* Thread k of the interleaved division has the columns k, k + threads_num, ...
LEMMA Columns ==
    ASSUME NEW k \in Hist!Threads, NEW w \in Nat \ {0}
    PROVE  LET S == {j \in 0 .. w - 1 : j >= k /\ (j - k) % threads_num = 0} IN
           /\ Cardinality(S) \in Nat
           /\ \A q \in Nat : q < Cardinality(S) <=> k + threads_num * q < w
<1> DEFINE T == threads_num
           S == {j \in 0 .. w - 1 : j >= k /\ (j - k) % T = 0}
           D == (w - 1 - k) \div T
           m == IF k < w THEN D + 1 ELSE 0
<1>1. T \in Nat \ {0} /\ k \in Nat
  BY HistConstants
<1> HIDE DEF T
<1>2. k < w => D \in Nat
  <2>1. k < w => w - 1 - k \in Nat
    BY <1>1
  <2> QED BY <1>1, <2>1, Divide
<1>3. m \in Nat
  BY <1>2
<1>4. ASSUME NEW q \in Nat PROVE q < m <=> k + T * q < w
  <2>0. T * q \in Nat
    BY <1>1
  <2>1. CASE k < w
    <3>1. w - 1 - k \in Nat
      BY <1>1, <2>1
    <3>2. PICK d \in Nat, r \in 0 .. T - 1 : d = D /\ w - 1 - k = T * d + r
      BY <1>1, <3>1, Divide, ZenonT(60)
    <3>3. T * d \in Nat
      BY <1>1
    <3>4. q < m <=> q <= d
      BY <2>1, <3>2
    <3>5. k + T * q < w <=> T * q <= T * d + r
      BY <1>1, <2>0, <3>2, <3>3
    <3>6. q < d => T * q + T <= T * d
      BY <1>1, TimesAbove
    <3>7. d < q => T * d + T <= T * q
      BY <1>1, TimesAbove
    <3>8. q <= d <=> T * q <= T * d + r
      <4>1. CASE q = d
        BY <2>0, <3>2, <4>1
      <4>2. CASE q < d
        BY <1>1, <2>0, <3>2, <3>3, <3>6, <4>2
      <4>3. CASE d < q
        BY <1>1, <2>0, <3>2, <3>3, <3>7, <4>3
      <4> QED BY <3>2, <4>1, <4>2, <4>3
    <3> QED BY <3>4, <3>5, <3>8
  <2>2. CASE ~ k < w
    BY <1>1, <2>0, <2>2
  <2> QED BY <2>1, <2>2
<1> HIDE DEF m
<1> DEFINE f == [q \in 0 .. m - 1 |-> k + T * q]
<1>5. f \in [0 .. m - 1 -> S]
  <2> SUFFICES ASSUME NEW q \in 0 .. m - 1 PROVE k + T * q \in S
    OBVIOUS
  <2>1. q \in Nat /\ T * q \in Nat /\ q < m
    BY <1>1, <1>3
  <2>2. k + T * q < w
    BY <1>4, <2>1
  <2>3. k + T * q \in 0 .. w - 1 /\ k + T * q >= k /\ (k + T * q) - k = T * q + 0
    BY <1>1, <2>1, <2>2
  <2>4. (T * q + 0) % T = 0
    BY <1>1, <2>1, DivideOnce
  <2> QED BY <2>3, <2>4
<1>6. \A a, b \in 0 .. m - 1 : f[a] = f[b] => a = b
  <2> SUFFICES ASSUME NEW a \in 0 .. m - 1, NEW b \in 0 .. m - 1, f[a] = f[b] PROVE a = b
    OBVIOUS
  <2>1. a \in Nat /\ b \in Nat /\ T * a \in Nat /\ T * b \in Nat
    BY <1>1, <1>3
  <2>2. T * a + 0 = T * b + 0
    BY <1>1, <2>1
  <2>3. (T * a + 0) \div T = a /\ (T * b + 0) \div T = b
    BY <1>1, <2>1, DivideOnce
  <2> QED BY <2>2, <2>3
<1>7. \A j \in S : \E q \in 0 .. m - 1 : f[q] = j
  <2> SUFFICES ASSUME NEW j \in S PROVE \E q \in 0 .. m - 1 : f[q] = j
    OBVIOUS
  <2>1. j - k \in Nat /\ (j - k) % T = 0 /\ j < w /\ j \in Nat
    BY <1>1
  <2>2. PICK q \in Nat : j - k = T * q + 0
    BY <1>1, <2>1, Divide
  <2>3. T * q \in Nat
    BY <1>1
  <2>4. k + T * q = j
    BY <1>1, <2>1, <2>2, <2>3
  <2>5. q < m
    BY <1>4, <2>1, <2>4
  <2>6. q \in 0 .. m - 1
    BY <1>3, <2>5
  <2> QED BY <2>4, <2>6
<1>8. IsFiniteSet(0 .. m - 1) /\ Cardinality(0 .. m - 1) = m
  <2>1. IsFiniteSet(0 .. m - 1)
        /\ Cardinality(0 .. m - 1) = IF 0 > m - 1 THEN 0 ELSE m - 1 - 0 + 1
    BY <1>3, FS_Interval
  <2> QED BY <1>3, <2>1
<1> HIDE DEF f, S
<1> DEFINE I == 0 .. m - 1
<1> HIDE DEF I
<1>9. Cardinality(S) = m
  <2>1. f \in [I -> S] /\ IsFiniteSet(I) /\ Cardinality(I) = m
    BY <1>5, <1>8 DEF I
  <2>2. \A a, b \in I : f[a] = f[b] => a = b
    BY <1>6 DEF I
  <2>3. \A j \in S : \E q \in I : f[q] = j
    BY <1>7 DEF I
  <2>4. IsFiniteSet(S) /\ Cardinality(S) = Cardinality(I)
    BY <2>1, <2>2, <2>3, AsMany
  <2> QED BY <2>1, <2>4
<1>10. Cardinality(S) \in Nat /\ \A q \in Nat : q < Cardinality(S) <=> k + T * q < w
  BY <1>3, <1>4, <1>9
<1> QED BY <1>10 DEF S, T

\* Where the n-th pixel of a thread lies: in its row, and in which of its columns.
Rest(h, n) == 1 + ((n - 1) % h)
Line(h, n) == (n - 1) \div h
Spot(h, r, q) == h * q + r

LEMMA PlaceTurned ==
    ASSUME NEW h \in Nat \ {0}, NEW m \in Nat, NEW r \in 1 .. h, NEW a \in Nat, a < m
    PROVE  /\ h * a + r \in 1 .. h * m
           /\ 1 + ((h * a + r - 1) % h) = r /\ (h * a + r - 1) \div h = a
<1>1. a \in 0 .. m - 1 /\ m * h = h * m
  OBVIOUS
<1>2. /\ h * a + r \in 1 .. m * h
      /\ (h * a + r - 1) \div h = a /\ (h * a + r - 1) % h = r - 1
  BY <1>1, GridPlace
<1> QED BY <1>1, <1>2

\* The interleaved columns of a thread, one after the other.
LEMMA InterleavedAre ==
    ASSUME NEW h \in Nat \ {0}, NEW w \in Nat \ {0},
           NEW picture \in Pictures(h, w), NEW beyond,
           NEW k \in Hist!Threads, NEW mine, mine = Hist!Pixels("interleaved", k, picture, w, beyond)
    PROVE  /\ mine \in Seq(Hist!Shades)
           /\ \A n \in 1 .. Len(mine) :
                /\ Rest(h, n) \in 1 .. h /\ Line(h, n) \in Nat
                /\ 1 + k + threads_num * Line(h, n) \in 1 .. w
                /\ n = Spot(h, Rest(h, n), Line(h, n))
                /\ mine[n] = picture[Rest(h, n)][1 + k + threads_num * Line(h, n)]
           /\ \A r \in 1 .. h : \A q \in Nat :
                k + threads_num * q < w =>
                    /\ Spot(h, r, q) \in 1 .. Len(mine)
                    /\ Rest(h, Spot(h, r, q)) = r /\ Line(h, Spot(h, r, q)) = q
<1> DEFINE S == {j \in 0 .. w - 1 : j >= k /\ (j - k) % threads_num = 0}
           m == Cardinality(S)
           row(n) == Rest(h, n)
           turn(n) == Line(h, n)
           col(n) == 1 + k + threads_num * turn(n)
<1>1. m \in Nat /\ \A a \in Nat : a < m <=> k + threads_num * a < w
  BY Columns
<1>2. Len(picture) = h
  <2>1. picture \in Seq([1 .. w -> Hist!Shades]) /\ DOMAIN picture = 1 .. h
    BY DEF Pictures
  <2> QED BY <2>1, LenProperties
<1>3. mine = [n \in 1 .. h * m |-> picture[1 + ((n - 1) % h)][1 + k + threads_num * ((n - 1) \div h)]]
  BY <1>2, HistCounts DEF Rest, Line, Hist!Pixels, Hist!hist_interleaved
<1> HIDE DEF m
<1>4. m * h = h * m /\ h * m \in Nat
  BY <1>1
<1>5. ASSUME NEW n \in 1 .. h * m
      PROVE  row(n) \in 1 .. h /\ turn(n) \in Nat /\ col(n) \in 1 .. w /\ n = h * turn(n) + row(n)
  <2>0. n \in 1 .. m * h
    BY <1>4
  <2>1. /\ (n - 1) \div h \in 0 .. m - 1 /\ (n - 1) % h \in 0 .. h - 1
        /\ n = h * ((n - 1) \div h) + ((n - 1) % h) + 1
    BY <1>1, <2>0, Grid, Zenon
  <2> DEFINE a == (n - 1) \div h
             e == (n - 1) % h
  <2> HIDE DEF a, e
  <2>2. a \in Nat /\ a < m /\ e \in 0 .. h - 1 /\ n = h * a + e + 1
    BY <1>1, <2>1 DEF a, e
  <2>3. k + threads_num * a < w /\ k \in Nat /\ threads_num * a \in Nat /\ h * a \in Nat
    BY <1>1, <2>2, HistConstants
  <2>4. 1 + e \in 1 .. h /\ 1 + k + threads_num * a \in 1 .. w /\ n = h * a + (1 + e)
    BY <2>2, <2>3
  <2> QED BY <2>2, <2>4 DEF a, e, Rest, Line
<1>6. ASSUME NEW r \in 1 .. h, NEW a \in Nat, k + threads_num * a < w
      PROVE  h * a + r \in 1 .. h * m /\ row(h * a + r) = r /\ turn(h * a + r) = a
  <2>1. a < m
    BY <1>1, <1>6
  <2> QED BY <1>1, <2>1, PlaceTurned DEF Rest, Line
<1>7. \A n \in 1 .. h * m : picture[row(n)][col(n)] \in Hist!Shades
  BY <1>5 DEF Pictures
<1>8. mine = [n \in 1 .. h * m |-> picture[row(n)][col(n)]]
  BY <1>3 DEF Rest, Line
<1> HIDE DEF row, col, turn
<1>9. mine \in [1 .. h * m -> Hist!Shades]
  BY <1>7, <1>8
<1>10. mine \in Seq(Hist!Shades) /\ Len(mine) = h * m
  BY <1>4, <1>9, LenProperties
<1>11. \A n \in 1 .. h * m : mine[n] = picture[row(n)][col(n)]
  BY <1>8
<1> QED BY <1>5, <1>6, <1>10, <1>11 DEF row, col, turn, Spot

-----------------------------------------------------------------------------
(* The histogram: interleaved columns *)

\* What a picture has of shade x, and what the threads start with.
Right(how, picture, w, x, c) ==
    LET n == Cardinality(Places(picture, w, x)) IN
    /\ how = "interleaved" => c = n
    /\ how = "block" => c >= n /\ (w % threads_num = 0 => c = n)
    /\ how = "sign" => c = IF x \in 1 .. (max_val \div threads_num) * threads_num THEN n ELSE 0

\* Interleaved, every place of the picture is a cell of one thread.
LEMMA InterleavedRight ==
    ASSUME NEW h \in Nat \ {0}, NEW w \in Nat \ {0}, NEW picture \in Pictures(h, w), NEW beyond,
           NEW given \in [Hist!Threads -> Seq(Hist!Shades)],
           \A k \in Hist!Threads : given[k] = Hist!Pixels("interleaved", k, picture, w, beyond),
           NEW x
    PROVE  /\ IsFiniteSet(Cells(given, x))
           /\ Right("interleaved", picture, w, x, Cardinality(Cells(given, x)))
<1> DEFINE T == threads_num
           row(n) == Rest(h, n)
           turn(n) == Line(h, n)
           S == Places(picture, w, x)
           f == [p \in S |-> <<(p[2] - 1) % T, Spot(h, p[1], (p[2] - 1) \div T)>>]
<1>1. T \in Nat \ {0} /\ Hist!Threads = 0 .. T - 1
  BY HistConstants
<1>2. ASSUME NEW k \in Hist!Threads
      PROVE  /\ \A n \in 1 .. Len(given[k]) :
                  /\ row(n) \in 1 .. h /\ turn(n) \in Nat /\ 1 + k + T * turn(n) \in 1 .. w
                  /\ n = Spot(h, row(n), turn(n))
                  /\ given[k][n] = picture[row(n)][1 + k + T * turn(n)]
             /\ \A r \in 1 .. h : \A q \in Nat :
                  k + T * q < w =>
                    /\ Spot(h, r, q) \in 1 .. Len(given[k])
                    /\ row(Spot(h, r, q)) = r /\ turn(Spot(h, r, q)) = q
  BY InterleavedAre, SMTT(60)
<1> HIDE DEF row, turn, T
<1>3. \A p \in S : /\ p[1] \in 1 .. h /\ p[2] \in 1 .. w /\ p = <<p[1], p[2]>>
                   /\ picture[p[1]][p[2]] = x
  BY PlacesFinite
<1>4. \A p \in Cells(given, x) :
        /\ p[1] \in Hist!Threads /\ p[2] \in Nat /\ p = <<p[1], p[2]>>
        /\ p[2] \in 1 .. Len(given[p[1]]) /\ given[p[1]][p[2]] = x
  BY CellsAre
<1>5. ASSUME NEW c \in 1 .. w
      PROVE  /\ (c - 1) % T \in Hist!Threads /\ (c - 1) \div T \in Nat
             /\ ((c - 1) % T) + T * ((c - 1) \div T) = c - 1
  <2>1. c - 1 \in Nat
    OBVIOUS
  <2>2. PICK q \in Nat, r \in 0 .. T - 1 : q = (c - 1) \div T /\ r = (c - 1) % T /\ c - 1 = T * q + r
    BY <1>1, <2>1, Divide, ZenonT(60)
  <2>3. T * q \in Nat
    BY <1>1
  <2>4. r + T * q = c - 1
    BY <2>2, <2>3
  <2> QED BY <1>1, <2>2, <2>4
<1>6. ASSUME NEW p \in S PROVE f[p] \in Cells(given, x)
  <2> DEFINE k == (p[2] - 1) % T
             q == (p[2] - 1) \div T
             n == Spot(h, p[1], q)
  <2>1. k \in Hist!Threads /\ q \in Nat /\ k + T * q = p[2] - 1
    BY <1>3, <1>5
  <2> HIDE DEF k, q
  <2>2. k \in Nat /\ T * q \in Nat /\ h * q \in Nat /\ p[1] \in 1 .. h /\ p[2] \in 1 .. w
    BY <1>1, <1>3, <2>1, SMTT(60)
  <2>3. k + T * q < w /\ 1 + k + T * q = p[2]
    <3>1. \A e \in Nat : k + e = p[2] - 1 => k + e < w /\ 1 + k + e = p[2]
      BY <2>2
    <3> QED BY <2>1, <2>2, <3>1
  <2>4. n \in 1 .. Len(given[k]) /\ row(n) = p[1] /\ turn(n) = q
    BY <1>2, <2>1, <2>2, <2>3, SMTT(60)
  <2> HIDE DEF n
  <2>5. given[k][n] = picture[p[1]][p[2]]
    BY <1>2, <2>1, <2>3, <2>4, SMTT(60)
  <2>6. <<k, n>> \in Cells(given, x)
    BY <1>3, <2>1, <2>4, <2>5, CellsAre
  <2> QED BY <2>6 DEF k, n, q
<1>7. ASSUME NEW a \in S, NEW b \in S, f[a] = f[b] PROVE a = b
  <2> DEFINE ka == (a[2] - 1) % T
             qa == (a[2] - 1) \div T
             na == Spot(h, a[1], qa)
             kb == (b[2] - 1) % T
             qb == (b[2] - 1) \div T
             nb == Spot(h, b[1], qb)
  <2>1. ka = kb /\ na = nb
    BY <1>7
  <2>2. ka \in Hist!Threads /\ qa \in Nat /\ ka + T * qa = a[2] - 1
    BY <1>3, <1>5
  <2>3. kb \in Hist!Threads /\ qb \in Nat /\ kb + T * qb = b[2] - 1
    BY <1>3, <1>5
  <2> HIDE DEF ka, qa, kb, qb
  <2>4. a[1] \in 1 .. h /\ a[2] \in 1 .. w /\ b[1] \in 1 .. h /\ b[2] \in 1 .. w
    BY <1>3
  <2>5. ka \in Nat /\ T * qa \in Nat /\ kb \in Nat /\ T * qb \in Nat
    BY <1>1, <2>2, <2>3
  <2>6. ka + T * qa < w /\ kb + T * qb < w
    <3>1. \A d, e \in Nat : d + e = a[2] - 1 \/ d + e = b[2] - 1 => d + e < w
      BY <2>4
    <3> QED BY <2>2, <2>3, <2>5, <3>1
  <2>7. row(na) = a[1] /\ turn(na) = qa
    BY <1>2, <2>2, <2>4, <2>6, SMTT(60)
  <2>8. row(nb) = b[1] /\ turn(nb) = qb
    BY <1>2, <2>3, <2>4, <2>6, SMTT(60)
  <2> HIDE DEF na, nb
  <2>9. a[1] = b[1] /\ qa = qb
    BY <2>1, <2>7, <2>8
  <2>10. a[2] - 1 = b[2] - 1
    BY <2>1, <2>2, <2>3, <2>9
  <2>11. a[2] = b[2]
    BY <2>4, <2>10
  <2> QED BY <1>3, <2>9, <2>11
<1>8. ASSUME NEW t \in Cells(given, x) PROVE \E a \in S : f[a] = t
  <2> DEFINE k == t[1]
             n == t[2]
             q == turn(n)
             r == row(n)
             c == 1 + k + T * q
             a == <<r, c>>
  <2>1. k \in Hist!Threads /\ n \in 1 .. Len(given[k]) /\ given[k][n] = x /\ t = <<k, n>>
    BY <1>4
  <2> HIDE DEF k, n
  <2>2. /\ r \in 1 .. h /\ q \in Nat /\ c \in 1 .. w /\ n = Spot(h, r, q)
        /\ given[k][n] = picture[r][c]
    BY <1>2, <2>1
  <2> HIDE DEF r, q
  <2>3. a \in S
    BY <2>1, <2>2, PlacesFinite
  <2>4. k \in 0 .. T - 1 /\ T * q \in Nat /\ c - 1 = T * q + k
    BY <1>1, <2>1, <2>2, SMTT(60)
  <2>5. (T * q + k) \div T = q /\ (T * q + k) % T = k
    BY <1>1, <2>2, <2>4, DivideOnce
  <2>6. (c - 1) % T = k /\ (c - 1) \div T = q
    BY <2>4, <2>5
  <2> HIDE DEF c
  <2>7. f[a] = <<k, Spot(h, r, q)>>
    BY <2>3, <2>6
  <2> QED BY <2>1, <2>2, <2>3, <2>7
<1>9. f \in [S -> Cells(given, x)] /\ IsFiniteSet(S)
  BY <1>6, PlacesFinite
<1> HIDE DEF f, S
<1>10. IsFiniteSet(Cells(given, x)) /\ Cardinality(Cells(given, x)) = Cardinality(S)
  BY <1>7, <1>8, <1>9, AsMany
<1> QED BY <1>10 DEF Right, S

-----------------------------------------------------------------------------
(* The histogram: blocks of columns *)

\* What a thread reads in a row, j columns from its start.
Seen(picture, w, beyond, r, j) == IF j < w THEN picture[r][j + 1] ELSE beyond

\* The pixels row by row, of b columns.
Part(rows, b, picture, w, start, stop, beyond) ==
    stop - start = b /\ rows = Hist!Rows(picture, w, start, stop, beyond)

LEMMA RowsAre ==
    ASSUME NEW h \in Nat \ {0}, NEW w \in Nat \ {0},
           NEW picture \in Pictures(h, w), NEW beyond \in Hist!Shades,
           NEW start \in Nat, NEW stop \in Nat, NEW b \in Nat \ {0}, NEW rows,
           Part(rows, b, picture, w, start, stop, beyond)
    PROVE  /\ rows \in Seq(Hist!Shades) /\ Len(rows) = h * b
           /\ \A n \in 1 .. h * b :
                rows[n] = Seen(picture, w, beyond, 1 + Line(b, n), start + (Rest(b, n) - 1))
<1> DEFINE shade(n) == LET j == start + ((n - 1) % b) IN
                       IF j < w THEN picture[1 + ((n - 1) \div b)][j + 1] ELSE beyond
<1>1. Len(picture) = h /\ h * b \in Nat
  <2>1. picture \in Seq([1 .. w -> Hist!Shades]) /\ DOMAIN picture = 1 .. h
    BY DEF Pictures
  <2> QED BY <2>1, LenProperties, Grid
<1>2. rows = [n \in 1 .. h * b |-> shade(n)]
  BY <1>1 DEF Hist!Rows, Part
<1>3. ASSUME NEW n \in 1 .. h * b PROVE shade(n) \in Hist!Shades
  <2>1. (n - 1) \div b \in 0 .. h - 1 /\ (n - 1) % b \in 0 .. b - 1
    BY Grid
  <2>2. 1 + ((n - 1) \div b) \in 1 .. h
    BY <2>1
  <2>3. start + ((n - 1) % b) < w => start + ((n - 1) % b) + 1 \in 1 .. w
    BY <2>1
  <2> QED BY <2>2, <2>3 DEF Pictures
<1> HIDE DEF shade
<1>4. rows \in [1 .. h * b -> Hist!Shades]
  BY <1>2, <1>3
<1>5. rows \in Seq(Hist!Shades) /\ Len(rows) = h * b
  BY <1>1, <1>4, LenProperties
<1>6. \A n \in 1 .. h * b : rows[n] = shade(n)
  BY <1>2
<1>7. \A n \in 1 .. h * b : Rest(b, n) - 1 = (n - 1) % b
  <2> SUFFICES ASSUME NEW n \in 1 .. h * b PROVE Rest(b, n) - 1 = (n - 1) % b
    OBVIOUS
  <2>1. (n - 1) % b \in 0 .. b - 1
    BY Grid
  <2> QED BY <2>1 DEF Rest
<1> QED BY <1>5, <1>6, <1>7 DEF shade, Line, Seen

\* Blocks of a rounded-up size cover the width, and exactly when it divides.
LEMMA BlockSize ==
    ASSUME NEW w \in Nat \ {0}
    PROVE  LET cols == (w + threads_num - 1) \div threads_num IN
           /\ cols \in Nat \ {0} /\ w <= cols * threads_num
           /\ w % threads_num = 0 => w = cols * threads_num
<1> DEFINE T == threads_num
           cols == (w + T - 1) \div T
<1>1. T \in Nat \ {0}
  BY HistConstants
<1> HIDE DEF T
<1>2. w + T - 1 \in Nat
  BY <1>1
<1>3. PICK q \in Nat, r \in 0 .. T - 1 : q = cols /\ w + T - 1 = T * q + r
  BY <1>1, <1>2, Divide
<1>4. T * q \in Nat /\ T * q = q * T
  BY <1>1
<1>5. w <= q * T
  BY <1>1, <1>3, <1>4
<1>6. q # 0
  <2> SUFFICES ASSUME q = 0 PROVE FALSE
    OBVIOUS
  <2>1. q * T = 0
    BY <1>1
  <2> QED BY <1>5, <2>1
<1>7. ASSUME w % T = 0 PROVE w = q * T
  <2>1. PICK d \in Nat : w = T * d + 0
    BY <1>1, <1>7, Divide
  <2>2. T * d \in Nat /\ T - 1 \in 0 .. T - 1 /\ T * d = d * T
    BY <1>1
  <2>3. w + T - 1 = T * d + (T - 1)
    BY <1>1, <2>1, <2>2
  <2>4. (T * d + (T - 1)) \div T = d
    BY <1>1, <2>2, DivideOnce
  <2>5. q = d
    BY <1>3, <2>3, <2>4
  <2> QED BY <2>1, <2>2, <2>5
<1>8. cols \in Nat \ {0} /\ w <= cols * T /\ (w % T = 0 => w = cols * T)
  BY <1>3, <1>5, <1>6, <1>7
<1> QED BY <1>8 DEF cols, T

LEMMA SpotAt ==
    ASSUME NEW h \in Nat \ {0}, NEW b \in Nat \ {0}, NEW q \in 0 .. h - 1, NEW r \in 1 .. b
    PROVE  /\ Spot(b, r, q) \in 1 .. h * b
           /\ Rest(b, Spot(b, r, q)) = r /\ Line(b, Spot(b, r, q)) = q
<1>1. /\ b * q + r \in 1 .. h * b
      /\ (b * q + r - 1) \div b = q /\ (b * q + r - 1) % b = r - 1
  BY GridPlace
<1> QED BY <1>1 DEF Rest, Line, Spot

\* The rows of a block: where a pixel of it lies, and which pixel lies there.
LEMMA BlockGrid ==
    ASSUME NEW h \in Nat \ {0}, NEW b \in Nat \ {0}
    PROVE  /\ h * b \in Nat
           /\ \A n \in 1 .. h * b :
                /\ Rest(b, n) \in 1 .. b /\ Line(b, n) \in 0 .. h - 1
                /\ n = Spot(b, Rest(b, n), Line(b, n))
           /\ \A q \in 0 .. h - 1 : \A r \in 1 .. b :
                /\ Spot(b, r, q) \in 1 .. h * b
                /\ Rest(b, Spot(b, r, q)) = r /\ Line(b, Spot(b, r, q)) = q
<1>1. ASSUME NEW n \in 1 .. h * b
      PROVE  /\ Rest(b, n) \in 1 .. b /\ Line(b, n) \in 0 .. h - 1
             /\ n = Spot(b, Rest(b, n), Line(b, n))
  <2> DEFINE q == (n - 1) \div b
             r == (n - 1) % b
  <2>1. q \in 0 .. h - 1 /\ r \in 0 .. b - 1 /\ n = b * q + r + 1
    BY Grid
  <2> HIDE DEF q, r
  <2>2. b * q \in Nat
    BY <2>1
  <2>3. 1 + r \in 1 .. b /\ n = b * q + (1 + r)
    BY <2>1, <2>2
  <2> QED BY <2>1, <2>3 DEF Rest, Line, Spot, q, r
<1>2. \A q \in 0 .. h - 1 : \A r \in 1 .. b :
        /\ Spot(b, r, q) \in 1 .. h * b
        /\ Rest(b, Spot(b, r, q)) = r /\ Line(b, Spot(b, r, q)) = q
  BY SpotAt
<1>3. h * b \in Nat
  OBVIOUS
<1> QED BY <1>1, <1>2, <1>3

\* The pixels of one thread's block.
LEMMA BlockAre ==
    ASSUME NEW h \in Nat \ {0}, NEW w \in Nat \ {0}, NEW picture \in Pictures(h, w),
           NEW beyond \in Hist!Shades, NEW k \in Hist!Threads,
           NEW cols \in Nat \ {0}, cols = (w + threads_num - 1) \div threads_num,
           NEW mine, mine = Hist!Pixels("block", k, picture, w, beyond)
    PROVE  /\ mine \in Seq(Hist!Shades) /\ Len(mine) = h * cols
           /\ \A n \in 1 .. h * cols :
                mine[n] = Seen(picture, w, beyond, 1 + Line(cols, n), cols * k + (Rest(cols, n) - 1))
<1> DEFINE start == cols * k
           stop == cols * (k + 1)
<1>1. k \in Nat /\ start \in Nat /\ stop \in Nat /\ stop - start = cols
  <2>1. k \in Nat
    BY HistConstants
  <2>2. start \in Nat
    BY <2>1
  <2>3. stop = start + cols
    BY <2>1
  <2> HIDE DEF start, stop
  <2> QED BY <2>1, <2>2, <2>3
<1>2. Part(mine, cols, picture, w, start, stop, beyond)
  BY <1>1 DEF Hist!Pixels, Hist!hist_block, Part
<1> HIDE DEF start, stop
<1>3. /\ mine \in Seq(Hist!Shades) /\ Len(mine) = h * cols
      /\ \A n \in 1 .. h * cols :
            mine[n] = Seen(picture, w, beyond, 1 + Line(cols, n), start + (Rest(cols, n) - 1))
  BY <1>1, <1>2, RowsAre
<1> QED BY <1>3 DEF start

\* By blocks, every place of the picture is a cell of one thread; when the
\* threads divide the width there are no other cells.
LEMMA BlockRight ==
    ASSUME NEW h \in Nat \ {0}, NEW w \in Nat \ {0}, NEW picture \in Pictures(h, w),
           NEW beyond \in Hist!Shades,
           NEW given \in [Hist!Threads -> Seq(Hist!Shades)],
           \A k \in Hist!Threads : given[k] = Hist!Pixels("block", k, picture, w, beyond),
           NEW x
    PROVE  /\ IsFiniteSet(Cells(given, x))
           /\ Right("block", picture, w, x, Cardinality(Cells(given, x)))
<1> DEFINE T == threads_num
<1>0. PICK b \in Nat \ {0} :
         /\ b = (w + T - 1) \div T
         /\ w <= b * T /\ (w % T = 0 => w = b * T)
  BY BlockSize
<1> DEFINE S == Places(picture, w, x)
           thread(c) == (c - 1) \div b
           col(c) == 1 + ((c - 1) % b)
           f == [p \in S |-> <<thread(p[2]), Spot(b, col(p[2]), p[1] - 1)>>]
<1>1. T \in Nat \ {0} /\ Hist!Threads = 0 .. T - 1
  BY HistConstants
<1>2. ASSUME NEW k \in Hist!Threads
      PROVE  /\ Len(given[k]) = h * b
             /\ \A n \in 1 .. h * b :
                  given[k][n] = Seen(picture, w, beyond, 1 + Line(b, n), b * k + (Rest(b, n) - 1))
  BY <1>0, BlockAre
<1>3. \A p \in S : /\ p[1] \in 1 .. h /\ p[2] \in 1 .. w /\ p = <<p[1], p[2]>>
                   /\ picture[p[1]][p[2]] = x
  BY PlacesFinite
<1>4. \A p \in Cells(given, x) :
        /\ p[1] \in Hist!Threads /\ p[2] \in Nat /\ p = <<p[1], p[2]>>
        /\ p[2] \in 1 .. Len(given[p[1]]) /\ given[p[1]][p[2]] = x
  BY CellsAre
<1> HIDE DEF T
<1>5. ASSUME NEW c \in 1 .. w
      PROVE  /\ thread(c) \in Hist!Threads /\ col(c) \in 1 .. b
             /\ b * thread(c) \in Nat /\ b * thread(c) + (col(c) - 1) = c - 1
  <2>1. c - 1 \in Nat
    OBVIOUS
  <2>2. PICK q \in Nat, r \in 0 .. b - 1 : q = (c - 1) \div b /\ r = (c - 1) % b /\ c - 1 = b * q + r
    BY <2>1, Divide, ZenonT(60)
  <2>3. b * q \in Nat
    OBVIOUS
  <2>4. q < T
    <3> SUFFICES ASSUME T <= q PROVE FALSE
      BY <1>1
    <3>1. b * T <= b * q
      <4>1. CASE T = q
        BY <2>3, <4>1
      <4>2. CASE T < q
        <5>1. b * T + b <= b * q
          BY <1>1, <4>2, TimesAbove
        <5>2. b * T \in Nat
          BY <1>1
        <5> QED BY <2>3, <5>1, <5>2
      <4> QED BY <1>1, <4>1, <4>2
    <3>2. b * T \in Nat
      BY <1>1
    <3> QED BY <1>0, <2>2, <2>3, <3>1, <3>2, SMTT(60)
  <2>5. 1 + r \in 1 .. b /\ b * q + (1 + r - 1) = c - 1
    BY <2>2, <2>3
  <2> QED BY <1>1, <2>2, <2>3, <2>4, <2>5
<1> HIDE DEF thread, col
<1>6. ASSUME NEW p \in S PROVE f[p] \in Cells(given, x)
  <2> DEFINE k == thread(p[2])
             r == col(p[2])
             q == p[1] - 1
             n == Spot(b, r, q)
  <2>1. k \in Hist!Threads /\ r \in 1 .. b /\ b * k \in Nat /\ b * k + (r - 1) = p[2] - 1
    BY <1>3, <1>5
  <2>2. q \in 0 .. h - 1 /\ p[1] \in 1 .. h /\ p[2] \in 1 .. w /\ 1 + q = p[1]
    BY <1>3
  <2> HIDE DEF k, q, r
  <2>3. n \in 1 .. h * b /\ Rest(b, n) = r /\ Line(b, n) = q
    <3>1. q \in 0 .. h - 1 /\ r \in 1 .. b
      BY <2>1, <2>2
    <3> QED BY <3>1, SpotAt
  <2> HIDE DEF n
  <2>4. p[2] - 1 < w /\ p[2] - 1 + 1 = p[2]
    BY <2>2
  <2>5. given[k][n] = picture[p[1]][p[2]]
    <3>1. given[k][n] = Seen(picture, w, beyond, p[1], p[2] - 1)
      BY <1>2, <2>1, <2>2, <2>3
    <3> QED BY <2>4, <3>1 DEF Seen
  <2>6. <<k, n>> \in Cells(given, x)
    BY <1>2, <1>3, <2>1, <2>3, <2>5, CellsAre
  <2> QED BY <2>6 DEF k, n, q, r
<1>7. ASSUME NEW a \in S, NEW c \in S, f[a] = f[c] PROVE a = c
  <2> DEFINE ra == col(a[2])
             qa == a[1] - 1
             na == Spot(b, ra, qa)
             rc == col(c[2])
             qc == c[1] - 1
             nc == Spot(b, rc, qc)
  <2>1. thread(a[2]) = thread(c[2]) /\ na = nc
    BY <1>7
  <2>2. /\ a[1] \in 1 .. h /\ a[2] \in 1 .. w /\ c[1] \in 1 .. h /\ c[2] \in 1 .. w
        /\ qa \in 0 .. h - 1 /\ qc \in 0 .. h - 1 /\ a[1] = qa + 1 /\ c[1] = qc + 1
    BY <1>3
  <2>3. ra \in 1 .. b /\ b * thread(a[2]) + (ra - 1) = a[2] - 1
    BY <1>5, <2>2
  <2>4. rc \in 1 .. b /\ b * thread(c[2]) + (rc - 1) = c[2] - 1
    BY <1>5, <2>2
  <2> HIDE DEF ra, qa, rc, qc
  <2>5. Rest(b, na) = ra /\ Line(b, na) = qa
    BY <2>2, <2>3, SpotAt, SMTT(60)
  <2>6. Rest(b, nc) = rc /\ Line(b, nc) = qc
    BY <2>2, <2>4, SpotAt, SMTT(60)
  <2> HIDE DEF na, nc
  <2>7. ra = rc /\ qa = qc
    BY <2>1, <2>5, <2>6
  <2>8. a[2] - 1 = c[2] - 1
    BY <2>1, <2>3, <2>4, <2>7
  <2>9. a[1] = c[1] /\ a[2] = c[2]
    BY <2>2, <2>7, <2>8
  <2> QED BY <1>3, <2>9
<1>8. ASSUME w = b * T, NEW t \in Cells(given, x) PROVE \E a \in S : f[a] = t
  <2> DEFINE k == t[1]
             n == t[2]
             r == Rest(b, n)
             q == Line(b, n)
             c == b * k + r
             a == <<1 + q, c>>
  <2>1. k \in Hist!Threads /\ n \in 1 .. h * b /\ given[k][n] = x /\ t = <<k, n>>
    BY <1>2, <1>4
  <2> HIDE DEF k, n
  <2>2. r \in 1 .. b /\ q \in 0 .. h - 1 /\ n = Spot(b, r, q)
    BY <2>1, BlockGrid, ZenonT(60)
  <2> DEFINE j == b * k + (r - 1)
  <2>3. given[k][n] = IF j < w THEN picture[1 + q][j + 1] ELSE beyond
    BY <1>2, <2>1 DEF Seen
  <2> HIDE DEF r, q
  <2>4. /\ k \in 0 .. T - 1 /\ b * k \in Nat /\ j = c - 1 /\ j + 1 = c
        /\ b * k + b <= b * T
    <3>1. k \in 0 .. T - 1 /\ k \in Int /\ k < T /\ T \in Int
      BY <1>1, <2>1
    <3>2. b * k + b <= b * T /\ b * k \in Nat
      BY <3>1, TimesAbove
    <3> QED BY <2>2, <3>1, <3>2
  <2>5. c \in 1 .. w /\ j < w /\ 1 + q \in 1 .. h /\ 1 + q - 1 = q
    <3>1. b * T \in Nat
      BY <1>1
    <3> QED BY <1>8, <2>2, <2>4, <3>1
  <2>6. a \in S
    BY <2>1, <2>3, <2>4, <2>5, PlacesFinite
  <2>7. c - 1 = b * k + (r - 1) /\ r - 1 \in 0 .. b - 1 /\ k \in Nat
    BY <2>2, <2>4
  <2>8. (b * k + (r - 1)) \div b = k /\ (b * k + (r - 1)) % b = r - 1
    BY <2>7, DivideOnce
  <2>9. thread(c) = k /\ col(c) = r
    BY <2>2, <2>7, <2>8 DEF thread, col
  <2> HIDE DEF c
  <2>10. f[a] = <<k, Spot(b, r, q)>>
    <3>1. a[1] - 1 = q /\ a[2] = c
      BY <2>2, <2>5
    <3> HIDE DEF a
    <3>2. f[a] = <<thread(a[2]), Spot(b, col(a[2]), a[1] - 1)>>
      BY <2>6
    <3> QED BY <2>9, <3>1, <3>2
  <2> QED BY <2>1, <2>2, <2>6, <2>10
<1>9. IsFiniteSet(Cells(given, x))
  <2>1. h * b \in Nat
    OBVIOUS
  <2>2. IsFiniteSet(0 .. T - 1) /\ IsFiniteSet(1 .. h * b)
    BY <1>1, <2>1, FS_Interval
  <2>3. IsFiniteSet(Hist!Threads \X (1 .. h * b))
    BY <1>1, <2>2, FS_Product
  <2>4. Cells(given, x) \subseteq Hist!Threads \X (1 .. h * b)
    BY <1>2, <1>4
  <2> QED BY <2>3, <2>4, FS_Subset
<1>10. f \in [S -> Cells(given, x)] /\ IsFiniteSet(S) /\ Cardinality(S) \in Nat
  BY <1>6, PlacesFinite
<1> HIDE DEF f, S
<1>11. Cardinality(S) <= Cardinality(Cells(given, x))
  BY <1>7, <1>9, <1>10, NoMore
<1>12. w % T = 0 => Cardinality(Cells(given, x)) = Cardinality(S)
  <2>1. w % T = 0 => w = b * T
    BY <1>0
  <2> QED BY <2>1, <1>7, <1>8, <1>10, AsMany
<1>13. Cardinality(Cells(given, x)) \in Nat
  BY <1>9, FS_CardinalityType
<1> QED BY <1>9, <1>10, <1>11, <1>12, <1>13 DEF Right, S, T

-----------------------------------------------------------------------------
(* The histogram: the shades of a thread *)

\* What thread k has of the first m shades of s, dividing by shade.
Sifts(f, s, k, m) ==
    f = [n \in 0 .. m |->
            IF n = 0 THEN <<>>
            ELSE IF Hist!Covered(k, s[n]) THEN Append(f[n - 1], s[n]) ELSE f[n - 1]]

LEMMA SiftNext ==
    ASSUME NEW s, NEW k, NEW m \in Nat, NEW f, Sifts(f, s, k, m)
    PROVE  \E g : Sifts(g, s, k, m + 1)
<1> DEFINE e == IF Hist!Covered(k, s[m + 1]) THEN Append(f[m], s[m + 1]) ELSE f[m]
           g == [n \in 0 .. m + 1 |-> IF n = m + 1 THEN e ELSE f[n]]
           body(h, n) == IF n = 0 THEN <<>>
                         ELSE IF Hist!Covered(k, s[n]) THEN Append(h[n - 1], s[n]) ELSE h[n - 1]
<1>1. f = [n \in 0 .. m |-> body(f, n)]
  BY DEF Sifts
<1>2. \A n \in 0 .. m : n \in 0 .. m + 1 /\ n # m + 1 /\ g[n] = f[n]
  OBVIOUS
<1>3. g[m + 1] = e
  OBVIOUS
<1>4. body(g, m + 1) = e
  <2>1. m + 1 # 0 /\ m + 1 - 1 = m /\ m \in 0 .. m
    OBVIOUS
  <2>2. g[m] = f[m]
    BY <1>2, <2>1
  <2> HIDE DEF g
  <2> QED BY <2>1, <2>2
<1> HIDE DEF e
<1>5. ASSUME NEW n \in 0 .. m PROVE body(g, n) = body(f, n)
  <2>1. CASE n = 0
    BY <2>1
  <2>2. CASE n # 0
    <3>1. n - 1 \in 0 .. m
      BY <2>2
    <3>2. g[n - 1] = f[n - 1]
      BY <1>2, <3>1
    <3> HIDE DEF g
    <3> QED BY <3>2
  <2> QED BY <2>1, <2>2
<1>6. \A n \in 0 .. m : f[n] = body(f, n)
  BY <1>1
<1>7. ASSUME NEW n \in 0 .. m + 1 PROVE g[n] = body(g, n)
  <2>1. CASE n = m + 1
    BY <1>3, <1>4, <2>1
  <2>2. CASE n # m + 1
    <3>1. n \in 0 .. m
      BY <2>2
    <3> HIDE DEF g, body
    <3> QED BY <1>2, <1>5, <1>6, <3>1
  <2> QED BY <2>1, <2>2
<1>8. g = [n \in 0 .. m + 1 |-> g[n]]
  OBVIOUS
<1> HIDE DEF g, body
<1>9. g = [n \in 0 .. m + 1 |-> body(g, n)]
  BY <1>7, <1>8
<1> QED BY <1>9 DEF Sifts, body

LEMMA SiftThere ==
    ASSUME NEW s, NEW k, NEW n \in Nat
    PROVE  \E f : Sifts(f, s, k, n)
<1> DEFINE Bad == {m \in Nat : ~ \E f : Sifts(f, s, k, m)}
<1>1. \E f : Sifts(f, s, k, 0)
  <2> DEFINE f == [i \in 0 .. 0 |-> <<>>]
  <2>1. f = [i \in 0 .. 0 |->
              IF i = 0 THEN <<>>
              ELSE IF Hist!Covered(k, s[i]) THEN Append(f[i - 1], s[i]) ELSE f[i - 1]]
    OBVIOUS
  <2> HIDE DEF f
  <2> QED BY <2>1 DEF Sifts
<1>2. Bad = {}
  <2> SUFFICES ASSUME Bad # {} PROVE FALSE
    OBVIOUS
  <2>1. PICK m \in Bad : \A j \in Bad : m <= j
    BY LeastElement
  <2>2. m \in Nat /\ m # 0
    BY <1>1, <2>1
  <2>3. m - 1 \in Nat /\ m - 1 \notin Bad /\ m - 1 + 1 = m
    BY <2>1, <2>2
  <2>4. PICK f : Sifts(f, s, k, m - 1)
    BY <2>3
  <2>5. \E g : Sifts(g, s, k, m)
    BY <2>3, <2>4, SiftNext
  <2> QED BY <2>1, <2>5
<1> QED BY <1>2

LEMMA SignSifts ==
    ASSUME NEW k, NEW picture, NEW w, NEW beyond,
           NEW rows, rows = Hist!Rows(picture, w, 0, w, beyond), Len(rows) \in Nat
    PROVE  \E f : Sifts(f, rows, k, Len(rows))
                  /\ Hist!Pixels("sign", k, picture, w, beyond) = f[Len(rows)]
<1> DEFINE f == CHOOSE f : Sifts(f, rows, k, Len(rows))
<1>1. Sifts(f, rows, k, Len(rows))
  <2>1. \E g : Sifts(g, rows, k, Len(rows))
    BY SiftThere
  <2> QED BY <2>1
<1>2. Hist!Pixels("sign", k, picture, w, beyond) = f[Len(rows)]
  BY DEF Hist!Pixels, Hist!hist_sign, Sifts
<1> QED BY <1>1, <1>2

\* Thread k keeps the shades it covers, each as often as there are, and no other.
Kept(t, s, k, m) ==
    /\ t \in Seq(Hist!Shades)
    /\ \A i \in 1 .. Len(t) : Hist!Covered(k, t[i])
    /\ \A x : Hist!Covered(k, x) => Count(t, 1 .. Len(t), x) = Count(s, 1 .. m, x)

LEMMA CountOne ==
    ASSUME NEW f, NEW b \in Nat, NEW r
    PROVE  /\ Count(f, 1 .. b + 1, r) = Count(f, 1 .. b, r) + IF f[b + 1] = r THEN 1 ELSE 0
           /\ Count(f, 1 .. b, r) \in Nat
<1>1. 1 .. b + 1 = (1 .. b) \cup {b + 1} /\ b + 1 \notin 1 .. b
  OBVIOUS
<1>2. IsFiniteSet(1 .. b)
  BY FS_Interval
<1>3. Count(f, (1 .. b) \cup {b + 1}, r) = Count(f, 1 .. b, r) + IF f[b + 1] = r THEN 1 ELSE 0
  <2> DEFINE S == 1 .. b
             e == b + 1
  <2>1. IsFiniteSet(S) /\ e \notin S
    BY <1>1, <1>2
  <2> HIDE DEF S, e
  <2>2. Count(f, S \cup {e}, r) = Count(f, S, r) + IF f[e] = r THEN 1 ELSE 0
    BY <2>1, CountAdd
  <2> QED BY <2>2 DEF S, e
<1>4. Count(f, 1 .. b, r) \in Nat
  BY <1>2, CountType
<1> QED BY <1>1, <1>3, <1>4

LEMMA KeptNext ==
    ASSUME NEW s, NEW k, NEW m \in Nat, NEW t, Kept(t, s, k, m), s[m + 1] \in Hist!Shades
    PROVE  Kept(IF Hist!Covered(k, s[m + 1]) THEN Append(t, s[m + 1]) ELSE t, s, k, m + 1)
<1>1. t \in Seq(Hist!Shades) /\ Len(t) \in Nat
  BY LenProperties DEF Kept
<1>2. CASE Hist!Covered(k, s[m + 1])
  <2> DEFINE e == s[m + 1]
             u == Append(t, e)
  <2>1. /\ u \in Seq(Hist!Shades) /\ Len(u) = Len(t) + 1 /\ u[Len(t) + 1] = e
        /\ \A i \in 1 .. Len(t) : u[i] = t[i]
    BY <1>1, AppendProperties
  <2> HIDE DEF u
  <2>2. ASSUME NEW i \in 1 .. Len(u) PROVE Hist!Covered(k, u[i])
    <3>1. CASE i = Len(t) + 1
      BY <1>2, <2>1, <3>1
    <3>2. CASE i # Len(t) + 1
      <4>1. i \in 1 .. Len(t)
        BY <1>1, <2>1, <3>2
      <4> QED BY <2>1, <4>1 DEF Kept
    <3> QED BY <3>1, <3>2
  <2>3. ASSUME NEW x, Hist!Covered(k, x)
        PROVE  Count(u, 1 .. Len(u), x) = Count(s, 1 .. m + 1, x)
    <3>1. Count(u, 1 .. Len(t) + 1, x) = Count(u, 1 .. Len(t), x) + IF e = x THEN 1 ELSE 0
      BY <1>1, <2>1, CountOne, SMTT(60)
    <3>2. Count(u, 1 .. Len(t), x) = Count(t, 1 .. Len(t), x)
      BY <2>1, CountSame
    <3>3. Count(s, 1 .. m + 1, x) = Count(s, 1 .. m, x) + IF e = x THEN 1 ELSE 0
      BY CountOne
    <3>4. Count(t, 1 .. Len(t), x) = Count(s, 1 .. m, x)
      BY <2>3 DEF Kept
    <3> QED BY <2>1, <3>1, <3>2, <3>3, <3>4
  <2>4. Kept(u, s, k, m + 1)
    BY <2>1, <2>2, <2>3 DEF Kept
  <2> QED BY <1>2, <2>4 DEF u
<1>3. CASE ~ Hist!Covered(k, s[m + 1])
  <2>1. ASSUME NEW x, Hist!Covered(k, x)
        PROVE  Count(t, 1 .. Len(t), x) = Count(s, 1 .. m + 1, x)
    <3>1. s[m + 1] # x
      BY <1>3, <2>1
    <3>2. Count(s, 1 .. m + 1, x) = Count(s, 1 .. m, x) + 0 /\ Count(s, 1 .. m, x) \in Nat
      BY <3>1, CountOne
    <3>3. Count(t, 1 .. Len(t), x) = Count(s, 1 .. m, x)
      BY <2>1 DEF Kept
    <3> QED BY <3>2, <3>3
  <2>2. Kept(t, s, k, m + 1)
    BY <2>1 DEF Kept
  <2> QED BY <1>3, <2>2
<1> QED BY <1>2, <1>3

LEMMA SiftKeeps ==
    ASSUME NEW s \in Seq(Hist!Shades), NEW k, NEW f, Sifts(f, s, k, Len(s))
    PROVE  Kept(f[Len(s)], s, k, Len(s))
<1> DEFINE Bad == {m \in Nat : m <= Len(s) /\ ~ Kept(f[m], s, k, m)}
<1>0. Len(s) \in Nat /\ \A i \in 1 .. Len(s) : s[i] \in Hist!Shades
  BY LenProperties, ElementOfSeq
<1>1. \A n \in 0 .. Len(s) :
        f[n] = IF n = 0 THEN <<>>
               ELSE IF Hist!Covered(k, s[n]) THEN Append(f[n - 1], s[n]) ELSE f[n - 1]
  BY DEF Sifts
<1>2. Kept(f[0], s, k, 0)
  <2>1. f[0] = <<>>
    BY <1>0, <1>1
  <2>2. <<>> \in Seq(Hist!Shades) /\ Len(<<>>) = 0
    BY EmptySeq
  <2>3. ASSUME NEW x PROVE Count(<<>>, 1 .. 0, x) = Count(s, 1 .. 0, x)
    <3>1. 1 .. 0 = {}
      OBVIOUS
    <3>2. Count(<<>>, {}, x) = 0 /\ Count(s, {}, x) = 0
      BY CountNone
    <3> QED BY <3>1, <3>2
  <2> QED BY <2>1, <2>2, <2>3 DEF Kept
<1>3. Bad = {}
  <2> SUFFICES ASSUME Bad # {} PROVE FALSE
    OBVIOUS
  <2>1. PICK m \in Bad : \A j \in Bad : m <= j
    BY LeastElement
  <2>2. m \in Nat /\ m # 0 /\ m <= Len(s)
    BY <1>2, <2>1
  <2> DEFINE j == m - 1
  <2>3. j \in Nat /\ j \notin Bad /\ j + 1 = m /\ j <= Len(s)
    BY <1>0, <2>1, <2>2
  <2>4. Kept(f[j], s, k, j)
    BY <2>3
  <2>5. s[m] \in Hist!Shades
    BY <1>0, <2>2
  <2>6. f[m] = IF Hist!Covered(k, s[m]) THEN Append(f[j], s[m]) ELSE f[j]
    BY <1>0, <1>1, <2>2
  <2> HIDE DEF j
  <2>7. Kept(f[m], s, k, m)
    BY <2>3, <2>4, <2>5, <2>6, KeptNext
  <2> QED BY <2>1, <2>7
<1> QED BY <1>0, <1>3

\* A thread's share of the shades, when they are divided by shade.
Share == max_val \div threads_num

LEMMA ShareIs ==
    /\ Share \in Nat
    /\ \A k \in Hist!Threads : \A x \in Hist!Shades :
         /\ Share * k \in Nat
         /\ Hist!Covered(k, x) <=> x <= Share * k + Share /\ x > Share * k
<1>1. Share \in Nat
  <2>1. max_val \in Nat
    BY HistConstants
  <2> QED BY <2>1, HistConstants, Divide DEF Share
<1>2. \A k \in Nat : Share * k \in Nat /\ Share * (k + 1) = Share * k + Share
  BY <1>1
<1>3. \A k \in Hist!Threads : k \in Nat
  BY HistConstants
<1> QED BY <1>1, <1>2, <1>3 DEF Share, Hist!Covered

LEMMA CoveredOnce ==
    ASSUME NEW k \in Hist!Threads, NEW j \in Hist!Threads, NEW x \in Hist!Shades,
           Hist!Covered(k, x), Hist!Covered(j, x)
    PROVE  k = j
<1>1. ASSUME NEW a \in Hist!Threads, NEW b \in Hist!Threads,
             Hist!Covered(a, x), Hist!Covered(b, x)
      PROVE  ~ a < b
  <2> SUFFICES ASSUME a < b PROVE FALSE
    OBVIOUS
  <2>1. /\ Share \in Nat /\ Share * a \in Nat /\ Share * b \in Nat
        /\ x <= Share * a + Share /\ x > Share * b /\ x > Share * a
    BY <1>1, ShareIs
  <2>2. x \in Nat /\ a \in Int /\ b \in Int
    BY HistConstants
  <2>3. Share \in Nat \ {0}
    BY <2>1, <2>2
  <2>4. Share * a + Share <= Share * b
    BY <2>2, <2>3, TimesAbove
  <2> QED BY <2>1, <2>2, <2>4
<1>2. ~ k < j /\ ~ j < k
  BY <1>1
<1>3. k \in Int /\ j \in Int
  BY HistConstants
<1> QED BY <1>2, <1>3

\* The shades some thread covers.
LEMMA CoveredAre ==
    ASSUME NEW x \in Hist!Shades
    PROVE  (\E k \in Hist!Threads : Hist!Covered(k, x)) <=> x \in 1 .. Share * threads_num
<1> DEFINE T == threads_num
<1>1. Share \in Nat /\ T \in Nat \ {0} /\ Hist!Threads = 0 .. T - 1 /\ x \in Nat
  BY HistConstants, ShareIs
<1> HIDE DEF T
<1>2. ASSUME NEW k \in Hist!Threads, Hist!Covered(k, x) PROVE x \in 1 .. Share * T
  <2>1. Share * k \in Nat /\ x <= Share * k + Share /\ x > Share * k
    BY <1>2, ShareIs
  <2>2. Share \in Nat \ {0} /\ k \in Int /\ T \in Int /\ k < T
    BY <1>1, <2>1
  <2>3. Share * k + Share <= Share * T
    BY <2>2, TimesAbove
  <2>4. Share * T \in Nat
    BY <1>1
  <2> QED BY <1>1, <2>1, <2>3, <2>4
<1>3. ASSUME x \in 1 .. Share * T PROVE \E k \in Hist!Threads : Hist!Covered(k, x)
  <2>1. Share # 0
    <3> SUFFICES ASSUME Share = 0 PROVE FALSE
      OBVIOUS
    <3>1. Share * T = 0
      BY <1>1
    <3> QED BY <1>1, <1>3, <3>1
  <2>2. x \in 1 .. T * Share /\ Share \in Nat \ {0} /\ T \in Nat
    BY <1>1, <1>3, <2>1
  <2> DEFINE q == (x - 1) \div Share
             r == (x - 1) % Share
  <2>3. q \in 0 .. T - 1 /\ r \in 0 .. Share - 1 /\ x = Share * q + r + 1
    BY <2>2, Grid
  <2> HIDE DEF q, r
  <2>4. q \in Hist!Threads
    BY <1>1, <2>3
  <2>5. Share * q \in Nat
    BY <2>4, ShareIs
  <2>6. x <= Share * q + Share /\ x > Share * q
    BY <1>1, <2>3, <2>5
  <2> QED BY <2>4, <2>6, ShareIs
<1> QED BY <1>2, <1>3 DEF T

\* All the rows have as many of a shade as the picture.
LEMMA RowsCount ==
    ASSUME NEW h \in Nat \ {0}, NEW w \in Nat \ {0},
           NEW picture \in Pictures(h, w), NEW beyond \in Hist!Shades, NEW rows,
           Part(rows, w, picture, w, 0, w, beyond), NEW x
    PROVE  Count(rows, 1 .. Len(rows), x) = Cardinality(Places(picture, w, x))
<1> DEFINE S == {n \in 1 .. h * w : rows[n] = x}
           P == Places(picture, w, x)
           row(n) == 1 + Line(w, n)
           col(n) == Rest(w, n)
           f == [n \in S |-> <<row(n), col(n)>>]
<1>1. /\ rows \in Seq(Hist!Shades) /\ Len(rows) = h * w
      /\ \A n \in 1 .. h * w : rows[n] = Seen(picture, w, beyond, row(n), 0 + (col(n) - 1))
  BY RowsAre
<1>2. /\ h * w \in Nat
      /\ \A n \in 1 .. h * w :
           Rest(w, n) \in 1 .. w /\ Line(w, n) \in 0 .. h - 1 /\ n = Spot(w, Rest(w, n), Line(w, n))
      /\ \A q \in 0 .. h - 1 : \A r \in 1 .. w :
           /\ Spot(w, r, q) \in 1 .. h * w
           /\ Rest(w, Spot(w, r, q)) = r /\ Line(w, Spot(w, r, q)) = q
  BY BlockGrid
<1>3. ASSUME NEW n \in 1 .. h * w
      PROVE  /\ row(n) \in 1 .. h /\ col(n) \in 1 .. w /\ row(n) - 1 = Line(w, n)
             /\ rows[n] = picture[row(n)][col(n)]
  <2>1. Rest(w, n) \in 1 .. w /\ Line(w, n) \in 0 .. h - 1
    BY <1>2
  <2>2. row(n) \in 1 .. h /\ col(n) \in 1 .. w /\ row(n) - 1 = Line(w, n)
    BY <2>1
  <2>3. rows[n] = Seen(picture, w, beyond, row(n), 0 + (col(n) - 1))
    BY <1>1
  <2> HIDE DEF row, col
  <2>4. 0 + (col(n) - 1) < w /\ 0 + (col(n) - 1) + 1 = col(n)
    BY <2>2
  <2> QED BY <2>2, <2>3, <2>4 DEF Seen
<1>4. ASSUME NEW p \in P
      PROVE  /\ p[1] - 1 \in 0 .. h - 1 /\ 1 + (p[1] - 1) = p[1] /\ p[2] \in 1 .. w
             /\ p = <<p[1], p[2]>> /\ picture[p[1]][p[2]] = x
  <2>1. p[1] \in 1 .. h /\ p[2] \in 1 .. w /\ p = <<p[1], p[2]>> /\ picture[p[1]][p[2]] = x
    BY PlacesFinite
  <2> QED BY <2>1
<1>5. ASSUME NEW n \in S PROVE f[n] \in P
  <2>1. row(n) \in 1 .. h /\ col(n) \in 1 .. w /\ picture[row(n)][col(n)] = x
    BY <1>3
  <2> HIDE DEF row, col
  <2>2. <<row(n), col(n)>> \in P
    BY <2>1, PlacesFinite
  <2> HIDE DEF P
  <2> QED BY <2>2
<1>6. ASSUME NEW a \in S, NEW c \in S, f[a] = f[c] PROVE a = c
  <2>1. row(a) = row(c) /\ col(a) = col(c)
    BY <1>6
  <2>2. row(a) - 1 = Line(w, a) /\ row(c) - 1 = Line(w, c)
    BY <1>3
  <2>3. a = Spot(w, Rest(w, a), Line(w, a)) /\ c = Spot(w, Rest(w, c), Line(w, c))
    BY <1>2
  <2>4. Line(w, a) = Line(w, c) /\ Rest(w, a) = Rest(w, c)
    BY <2>1, <2>2
  <2> QED BY <2>3, <2>4
<1>7. ASSUME NEW p \in P PROVE \E n \in S : f[n] = p
  <2> DEFINE q == p[1] - 1
             r == p[2]
             n == Spot(w, r, q)
  <2>1. q \in 0 .. h - 1 /\ 1 + q = p[1] /\ r \in 1 .. w /\ p = <<p[1], r>> /\ picture[p[1]][r] = x
    BY <1>4
  <2> HIDE DEF q, r
  <2>2. n \in 1 .. h * w /\ Rest(w, n) = r /\ Line(w, n) = q
    BY <1>2, <2>1
  <2> HIDE DEF n
  <2>3. row(n) = p[1] /\ col(n) = r
    BY <2>1, <2>2
  <2>4. rows[n] = x
    BY <1>3, <2>1, <2>2, <2>3
  <2> HIDE DEF row, col
  <2>5. n \in S /\ f[n] = p
    BY <2>1, <2>2, <2>3, <2>4
  <2> QED BY <2>5
<1>8. IsFiniteSet(S)
  <2>1. IsFiniteSet(1 .. h * w)
    BY <1>2, FS_Interval
  <2> QED BY <2>1, FS_Subset
<1>9. f \in [S -> P]
  BY <1>5
<1> HIDE DEF f, P
<1>10. Cardinality(P) = Cardinality(S)
  BY <1>6, <1>7, <1>8, <1>9, AsMany, SMTT(60)
<1> QED BY <1>1, <1>10 DEF Count, P

\* A thread of hist_sign keeps what it covers of all the rows.
LEMMA SignKept ==
    ASSUME NEW h \in Nat \ {0}, NEW w \in Nat \ {0}, NEW picture \in Pictures(h, w),
           NEW beyond \in Hist!Shades, NEW k \in Hist!Threads,
           NEW rows, rows = Hist!Rows(picture, w, 0, w, beyond)
    PROVE  /\ Part(rows, w, picture, w, 0, w, beyond)
           /\ Kept(Hist!Pixels("sign", k, picture, w, beyond), rows, k, Len(rows))
<1>1. Part(rows, w, picture, w, 0, w, beyond)
  <2>1. w - 0 = w
    OBVIOUS
  <2> QED BY <2>1 DEF Part
<1>2. rows \in Seq(Hist!Shades)
  BY <1>1, RowsAre
<1>3. Len(rows) \in Nat
  BY <1>2, LenProperties
<1>4. PICK f : /\ Sifts(f, rows, k, Len(rows))
               /\ Hist!Pixels("sign", k, picture, w, beyond) = f[Len(rows)]
  BY <1>3, SignSifts
<1> QED BY <1>1, <1>2, <1>4, SiftKeeps

\* By shade, every place of a shade some thread covers is a cell of that thread.
LEMMA SignRight ==
    ASSUME NEW h \in Nat \ {0}, NEW w \in Nat \ {0}, NEW picture \in Pictures(h, w),
           NEW beyond \in Hist!Shades,
           NEW given \in [Hist!Threads -> Seq(Hist!Shades)],
           \A k \in Hist!Threads : given[k] = Hist!Pixels("sign", k, picture, w, beyond),
           NEW x \in Hist!Shades
    PROVE  /\ IsFiniteSet(Cells(given, x))
           /\ Right("sign", picture, w, x, Cardinality(Cells(given, x)))
           /\ \A k \in Hist!Threads : \A i \in 1 .. Len(given[k]) : Hist!Covered(k, given[k][i])
<1> DEFINE rows == Hist!Rows(picture, w, 0, w, beyond)
<1> HIDE DEF rows
<1>1. \A k \in Hist!Threads : /\ Part(rows, w, picture, w, 0, w, beyond)
                              /\ Kept(given[k], rows, k, Len(rows))
  BY SignKept DEF rows
<1>2. Part(rows, w, picture, w, 0, w, beyond)
  <2>1. 0 \in Hist!Threads
    BY HistConstants
  <2> QED BY <1>1, <2>1
<1>4. Count(rows, 1 .. Len(rows), x) = Cardinality(Places(picture, w, x))
  BY <1>2, RowsCount
<1>5. \A k \in Hist!Threads : \A i \in 1 .. Len(given[k]) : Hist!Covered(k, given[k][i])
  BY <1>1 DEF Kept
<1>6. \A p \in Cells(given, x) :
        /\ p[1] \in Hist!Threads /\ p[2] \in Nat /\ p = <<p[1], p[2]>>
        /\ p[2] \in 1 .. Len(given[p[1]]) /\ given[p[1]][p[2]] = x
  BY CellsAre
<1>7. \A p \in Cells(given, x) : p[1] \in Hist!Threads /\ Hist!Covered(p[1], x)
  BY <1>5, <1>6
<1>8. CASE x \in 1 .. Share * threads_num
  <2>1. PICK k \in Hist!Threads : Hist!Covered(k, x)
    BY <1>8, CoveredAre
  <2> DEFINE S == {n \in 1 .. Len(given[k]) : given[k][n] = x}
             f == [n \in S |-> <<k, n>>]
  <2>2. Cardinality(S) = Cardinality(Places(picture, w, x))
    <3>1. Count(given[k], 1 .. Len(given[k]), x) = Count(rows, 1 .. Len(rows), x)
      BY <1>1, <2>1 DEF Kept
    <3> QED BY <1>4, <3>1 DEF Count
  <2>3. IsFiniteSet(S)
    <3>1. given[k] \in Seq(Hist!Shades)
      OBVIOUS
    <3>2. Len(given[k]) \in Nat
      BY <3>1, LenProperties
    <3>3. IsFiniteSet(1 .. Len(given[k]))
      BY <3>2, FS_Interval
    <3> QED BY <3>3, FS_Subset
  <2>4. \A n \in S : f[n] \in Cells(given, x)
    BY CellsAre
  <2>5. \A a, c \in S : f[a] = f[c] => a = c
    OBVIOUS
  <2>6. ASSUME NEW p \in Cells(given, x) PROVE \E n \in S : f[n] = p
    <3>1. p[1] = k
      BY <1>7, <2>1, CoveredOnce
    <3>2. p[2] \in S /\ p = <<k, p[2]>>
      BY <1>6, <3>1
    <3> QED BY <3>2
  <2>7. f \in [S -> Cells(given, x)]
    BY <2>4
  <2> HIDE DEF f, S
  <2>8. IsFiniteSet(Cells(given, x)) /\ Cardinality(Cells(given, x)) = Cardinality(S)
    BY <2>3, <2>5, <2>6, <2>7, AsMany
  <2> QED BY <1>5, <1>8, <2>2, <2>8 DEF Right, Share
<1>9. CASE x \notin 1 .. Share * threads_num
  <2>1. Cells(given, x) = {}
    BY <1>7, <1>9, CoveredAre
  <2>2. IsFiniteSet(Cells(given, x)) /\ Cardinality(Cells(given, x)) = 0
    BY <2>1, FS_EmptySet
  <2> QED BY <1>5, <1>9, <2>2 DEF Right, Share
<1> QED BY <1>8, <1>9

\* What the threads are given, in every mode.
LEMMA GivenRight ==
    ASSUME NEW h \in Nat \ {0}, NEW w \in Nat \ {0}, NEW picture \in Pictures(h, w),
           NEW beyond \in Hist!Shades, NEW how \in {"sign", "block", "interleaved"},
           NEW given, given = [k \in Hist!Threads |-> Hist!Pixels(how, k, picture, w, beyond)]
    PROVE  /\ given \in [Hist!Threads -> Seq(Hist!Shades)]
           /\ \A x \in Hist!Shades : /\ IsFiniteSet(Cells(given, x))
                                     /\ Right(how, picture, w, x, Cardinality(Cells(given, x)))
           /\ how = "sign" =>
                \A k \in Hist!Threads : \A i \in 1 .. Len(given[k]) : Hist!Covered(k, given[k][i])
<1>1. given \in [Hist!Threads -> Seq(Hist!Shades)]
  <2> SUFFICES ASSUME NEW k \in Hist!Threads
               PROVE  Hist!Pixels(how, k, picture, w, beyond) \in Seq(Hist!Shades)
    OBVIOUS
  <2>1. CASE how = "sign"
    BY <2>1, SignKept DEF Kept
  <2>2. CASE how = "block"
    <3>1. PICK b \in Nat \ {0} : b = (w + threads_num - 1) \div threads_num
      BY BlockSize
    <3> QED BY <2>2, <3>1, BlockAre
  <2>3. CASE how = "interleaved"
    BY <2>3, InterleavedAre
  <2> QED BY <2>1, <2>2, <2>3
<1>2. \A k \in Hist!Threads : given[k] = Hist!Pixels(how, k, picture, w, beyond)
  OBVIOUS
<1>3. CASE how = "sign"
  <2>1. ASSUME NEW x \in Hist!Shades
        PROVE  /\ IsFiniteSet(Cells(given, x))
               /\ Right("sign", picture, w, x, Cardinality(Cells(given, x)))
               /\ \A k \in Hist!Threads : \A i \in 1 .. Len(given[k]) : Hist!Covered(k, given[k][i])
    BY <1>1, <1>2, <1>3, SignRight
  <2>2. 0 \in Hist!Shades
    BY HistConstants
  <2> QED BY <1>1, <1>3, <2>1, <2>2
<1>4. CASE how = "block"
  <2>1. ASSUME NEW x \in Hist!Shades
        PROVE  /\ IsFiniteSet(Cells(given, x))
               /\ Right("block", picture, w, x, Cardinality(Cells(given, x)))
    BY <1>1, <1>2, <1>4, BlockRight
  <2> QED BY <1>1, <1>4, <2>1
<1>5. CASE how = "interleaved"
  <2>1. ASSUME NEW x \in Hist!Shades
        PROVE  /\ IsFiniteSet(Cells(given, x))
               /\ Right("interleaved", picture, w, x, Cardinality(Cells(given, x)))
    BY <1>1, <1>2, <1>5, InterleavedRight
  <2> QED BY <1>1, <1>5, <2>1
<1> QED BY <1>3, <1>4, <1>5

-----------------------------------------------------------------------------
(* The histogram: the threads *)

HistTyped ==
    /\ mode \in {"none", "sign", "block", "interleaved"}
    /\ hist \in [Hist!Shades -> Nat]
    /\ hist_lock \in [Hist!Shades -> BOOLEAN]
    /\ work \in [Hist!Threads -> Seq(Hist!Shades)]
    /\ loaded \in [Hist!Threads -> Nat \cup {Hist!Unread}]
    /\ holds \in [Hist!Threads -> BOOLEAN]

\* Before the threads start.
HistBefore ==
    /\ \A x \in Hist!Shades : hist[x] = 0
    /\ \A k \in Hist!Threads : work[k] = <<>>

\* One thread at a time holds a counter, and what it has read is still there;
\* by shade, nobody else counts what a thread counts.
HistAlone ==
    /\ \A k \in Hist!Threads :
         /\ holds[k] => mode # "sign" /\ Hist!Busy(k) /\ hist_lock[Hist!Shade(k)]
         /\ loaded[k] # Hist!Unread =>
              /\ Hist!Busy(k) /\ loaded[k] = hist[Hist!Shade(k)]
              /\ mode # "sign" => holds[k]
    /\ \A k, j \in Hist!Threads : holds[k] /\ holds[j] /\ Hist!Shade(k) = Hist!Shade(j) => k = j
    /\ mode = "sign" =>
         \A k \in Hist!Threads : \A i \in 1 .. Len(work[k]) : Hist!Covered(k, work[k][i])

\* What is counted and what is still to be counted make up the picture.
HistCounted ==
    \E h \in Nat \ {0} :
        /\ width \in Nat \ {0} /\ pixel_map \in Pictures(h, width)
        /\ \A x \in Hist!Shades :
             /\ IsFiniteSet(Cells(work, x))
             /\ Right(mode, pixel_map, width, x, hist[x] + Cardinality(Cells(work, x)))

HistInv ==
    /\ HistTyped /\ HistAlone
    /\ mode = "none" => HistBefore
    /\ mode # "none" => HistCounted

LEMMA HistInit == Hist!Init => HistInv
<1> SUFFICES ASSUME Hist!Init PROVE HistInv
  OBVIOUS
<1> USE DEF Hist!Init
<1>1. <<>> \in Seq(Hist!Shades)
  OBVIOUS
<1>2. HistTyped
  BY <1>1 DEF HistTyped
<1>3. HistBefore
  BY DEF HistBefore
<1>4. HistAlone
  BY DEF HistAlone
<1> QED BY <1>2, <1>3, <1>4 DEF HistInv

LEMMA HistStart == HistInv /\ Hist!Start => HistInv'
<1> SUFFICES ASSUME HistInv, Hist!Start PROVE HistInv'
  OBVIOUS
<1>1. /\ mode = "none" /\ mode' \in {"sign", "block", "interleaved"}
      /\ hist' = hist /\ hist_lock' = hist_lock /\ loaded' = loaded /\ holds' = holds
  BY DEF Hist!Start
<1>2. PICK p \in Sizes : \E picture \in [1 .. p[1] -> [1 .. p[2] -> Hist!Shades]] :
        /\ width' = p[2] /\ pixel_map' = picture
        /\ \E beyond \in Hist!Shades :
             work' = [k \in Hist!Threads |-> Hist!Pixels(mode', k, picture, p[2], beyond)]
  BY DEF Hist!Start
<1> DEFINE h == p[1]
           w == p[2]
<1>3. h \in Nat \ {0} /\ w \in Nat \ {0}
  BY HistConstants
<1> HIDE DEF h, w
<1>4. PICK picture \in Pictures(h, w), beyond \in Hist!Shades :
        /\ width' = w /\ pixel_map' = picture
        /\ work' = [k \in Hist!Threads |-> Hist!Pixels(mode', k, picture, w, beyond)]
  BY <1>2 DEF Pictures, h, w
<1>5. PICK how \in {"sign", "block", "interleaved"} : how = mode'
  BY <1>1
<1> DEFINE given == [k \in Hist!Threads |-> Hist!Pixels(how, k, picture, w, beyond)]
<1>6. /\ work' = given
      /\ given \in [Hist!Threads -> Seq(Hist!Shades)]
      /\ \A x \in Hist!Shades : /\ IsFiniteSet(Cells(given, x))
                                /\ Right(mode', picture, w, x, Cardinality(Cells(given, x)))
      /\ mode' = "sign" =>
           \A k \in Hist!Threads : \A i \in 1 .. Len(given[k]) : Hist!Covered(k, given[k][i])
  <2>1. work' = given
    BY <1>4, <1>5
  <2>2. /\ given \in [Hist!Threads -> Seq(Hist!Shades)]
        /\ \A x \in Hist!Shades : /\ IsFiniteSet(Cells(given, x))
                                  /\ Right(how, picture, w, x, Cardinality(Cells(given, x)))
        /\ how = "sign" =>
             \A k \in Hist!Threads : \A i \in 1 .. Len(given[k]) : Hist!Covered(k, given[k][i])
    <3> DEFINE g == given
    <3>1. g = [k \in Hist!Threads |-> Hist!Pixels(how, k, picture, w, beyond)]
      OBVIOUS
    <3> HIDE DEF given, g
    <3>2. /\ g \in [Hist!Threads -> Seq(Hist!Shades)]
          /\ \A x \in Hist!Shades : /\ IsFiniteSet(Cells(g, x))
                                    /\ Right(how, picture, w, x, Cardinality(Cells(g, x)))
          /\ how = "sign" =>
               \A k \in Hist!Threads : \A i \in 1 .. Len(g[k]) : Hist!Covered(k, g[k][i])
      BY <1>3, <3>1, GivenRight
    <3> QED BY <3>2 DEF g
  <2> QED BY <1>5, <2>1, <2>2
<1> HIDE DEF given
<1>7. HistTyped'
  BY <1>1, <1>6 DEF HistInv, HistTyped
<1>8. HistAlone'
  <2>1. \A k \in Hist!Threads : ~ Hist!Busy(k)
    BY <1>1 DEF HistInv, HistBefore, Hist!Busy
  <2>2. \A k \in Hist!Threads : ~ holds[k] /\ loaded[k] = Hist!Unread
    BY <2>1 DEF HistInv, HistAlone
  <2> QED BY <1>1, <1>6, <2>2 DEF HistAlone
<1>9. HistCounted'
  <2>1. ASSUME NEW x \in Hist!Shades
        PROVE  hist'[x] + Cardinality(Cells(given, x)) = Cardinality(Cells(given, x))
    <3>1. hist'[x] = 0
      BY <1>1 DEF HistInv, HistBefore
    <3>2. Cardinality(Cells(given, x)) \in Nat
      BY <1>6, FS_CardinalityType
    <3> QED BY <3>1, <3>2
  <2>2. \A x \in Hist!Shades :
          /\ IsFiniteSet(Cells(work', x))
          /\ Right(mode', pixel_map', width', x, hist'[x] + Cardinality(Cells(work', x)))
    BY <1>4, <1>6, <2>1
  <2> QED BY <1>3, <1>4, <2>2 DEF HistCounted
<1> QED BY <1>1, <1>7, <1>8, <1>9 DEF HistInv

LEMMA HistLock == HistInv => \A k \in Hist!Threads : Hist!Lock(k) => HistInv'
<1> SUFFICES ASSUME HistInv, NEW k \in Hist!Threads, Hist!Lock(k) PROVE HistInv'
  OBVIOUS
<1> DEFINE s == Hist!Shade(k)
<1>1. /\ Hist!Busy(k) /\ mode # "sign" /\ ~ holds[k] /\ ~ hist_lock[s]
      /\ hist_lock' = [hist_lock EXCEPT ![s] = TRUE]
      /\ holds' = [holds EXCEPT ![k] = TRUE]
      /\ mode' = mode /\ width' = width /\ pixel_map' = pixel_map /\ hist' = hist
      /\ work' = work /\ loaded' = loaded
  BY DEF Hist!Lock
<1> HIDE DEF s
<1>2. HistTyped'
  BY <1>1 DEF HistInv, HistTyped
<1>3. HistAlone'
  <2>1. /\ \A j \in Hist!Threads : Hist!Busy(j)' = Hist!Busy(j)
        /\ \A j \in Hist!Threads : Hist!Shade(j)' = Hist!Shade(j)
    BY <1>1 DEF Hist!Busy, Hist!Shade
  <2>2. s \in Hist!Shades
    BY <1>1 DEF HistInv, HistTyped, s, Hist!Shade, Hist!Busy
  <2>3. \A x \in Hist!Shades : hist_lock'[x] = (x = s \/ hist_lock[x])
    BY <1>1, <2>2 DEF HistInv, HistTyped
  <2>4. \A j \in Hist!Threads : holds'[j] = (j = k \/ holds[j])
    BY <1>1 DEF HistInv, HistTyped
  <2>5. \A j \in Hist!Threads : Hist!Busy(j) => Hist!Shade(j) \in Hist!Shades
    BY DEF HistInv, HistTyped, Hist!Shade, Hist!Busy
  <2>6. \A j \in Hist!Threads : holds[j] => Hist!Busy(j) /\ Hist!Shade(j) # s /\ hist_lock[Hist!Shade(j)]
    BY <1>1 DEF HistInv, HistAlone
  <2>7. \A j \in Hist!Threads :
          holds'[j] => mode' # "sign" /\ Hist!Busy(j)' /\ hist_lock'[Hist!Shade(j)']
    BY <1>1, <2>1, <2>2, <2>3, <2>4, <2>5, <2>6 DEF s
  <2>8. \A j \in Hist!Threads :
          loaded'[j] # Hist!Unread =>
              /\ Hist!Busy(j)' /\ loaded'[j] = hist'[Hist!Shade(j)']
              /\ mode' # "sign" => holds'[j]
    BY <1>1, <2>1, <2>4 DEF HistInv, HistAlone
  <2>9. \A i, j \in Hist!Threads :
          holds'[i] /\ holds'[j] /\ Hist!Shade(i)' = Hist!Shade(j)' => i = j
    BY <1>1, <2>1, <2>4, <2>6 DEF HistInv, HistAlone, s
  <2> QED BY <1>1, <2>7, <2>8, <2>9 DEF HistAlone
<1>4. mode' # "none" => HistCounted'
  BY <1>1 DEF HistInv, HistCounted
<1>5. mode' = "none" => HistBefore'
  BY <1>1 DEF HistInv, HistBefore
<1> QED BY <1>2, <1>3, <1>4, <1>5 DEF HistInv

LEMMA HistLoad == HistInv => \A k \in Hist!Threads : Hist!Load(k) => HistInv'
<1> SUFFICES ASSUME HistInv, NEW k \in Hist!Threads, Hist!Load(k) PROVE HistInv'
  OBVIOUS
<1> DEFINE s == Hist!Shade(k)
<1>1. /\ Hist!Busy(k) /\ (mode # "sign" => holds[k])
      /\ loaded' = [loaded EXCEPT ![k] = hist[s]]
      /\ mode' = mode /\ width' = width /\ pixel_map' = pixel_map /\ hist' = hist
      /\ hist_lock' = hist_lock /\ work' = work /\ holds' = holds
  BY DEF Hist!Load
<1>2. s \in Hist!Shades
  BY <1>1 DEF HistInv, HistTyped, Hist!Shade, Hist!Busy
<1> HIDE DEF s
<1>3. HistTyped'
  BY <1>1, <1>2 DEF HistInv, HistTyped
<1>4. HistAlone'
  <2>1. /\ \A j \in Hist!Threads : Hist!Busy(j)' = Hist!Busy(j)
        /\ \A j \in Hist!Threads : Hist!Shade(j)' = Hist!Shade(j)
    BY <1>1 DEF Hist!Busy, Hist!Shade
  <2>2. \A j \in Hist!Threads : loaded'[j] = IF j = k THEN hist[s] ELSE loaded[j]
    BY <1>1 DEF HistInv, HistTyped
  <2>3. \A j \in Hist!Threads :
          loaded'[j] # Hist!Unread =>
              /\ Hist!Busy(j)' /\ loaded'[j] = hist'[Hist!Shade(j)']
              /\ mode' # "sign" => holds'[j]
    BY <1>1, <2>1, <2>2 DEF HistInv, HistAlone, s
  <2> QED BY <1>1, <2>1, <2>3 DEF HistInv, HistAlone
<1>5. mode' # "none" => HistCounted'
  BY <1>1 DEF HistInv, HistCounted
<1>6. mode' = "none" => HistBefore'
  BY <1>1 DEF HistInv, HistBefore
<1> QED BY <1>3, <1>4, <1>5, <1>6 DEF HistInv

\* Shade s is counted once more, and thread k has one place less to count.
LEMMA HistStore == HistInv => \A k \in Hist!Threads : Hist!Store(k) => HistInv'
<1> SUFFICES ASSUME HistInv, NEW k \in Hist!Threads, Hist!Store(k) PROVE HistInv'
  OBVIOUS
<1> DEFINE s == Hist!Shade(k)
<1>1. /\ Hist!Busy(k) /\ loaded[k] # Hist!Unread /\ (mode # "sign" => holds[k])
      /\ hist' = [hist EXCEPT ![s] = loaded[k] + 1]
      /\ hist_lock' = [hist_lock EXCEPT ![s] = FALSE]
      /\ holds' = [holds EXCEPT ![k] = FALSE]
      /\ loaded' = [loaded EXCEPT ![k] = Hist!Unread]
      /\ work' = [work EXCEPT ![k] = Tail(@)]
      /\ mode' = mode /\ width' = width /\ pixel_map' = pixel_map
  BY DEF Hist!Store
<1>2. /\ work \in [Hist!Threads -> Seq(Hist!Shades)] /\ work[k] # <<>> /\ s = Head(work[k])
      /\ work[k] \in Seq(Hist!Shades)
  BY <1>1 DEF HistInv, HistTyped, Hist!Busy, Hist!Shade
<1> HIDE DEF s
<1>3. /\ Len(work[k]) \in Nat /\ Len(work[k]) >= 1 /\ s = work[k][1] /\ s \in Hist!Shades
      /\ Tail(work[k]) \in Seq(Hist!Shades)
      /\ Len(Tail(work[k])) = Len(work[k]) - 1
      /\ \A i \in 1 .. Len(work[k]) - 1 : Tail(work[k])[i] = work[k][i + 1]
  <2>1. Len(work[k]) \in Nat /\ Len(work[k]) >= 1 /\ s = work[k][1]
    BY <1>2, LenProperties, EmptySeq
  <2> QED BY <1>2, <2>1, HeadTailProperties, ElementOfSeq
<1>4. work'[k] = Tail(work[k]) /\ \A j \in Hist!Threads : j # k => work'[j] = work[j]
  BY <1>1, <1>2
<1>5. loaded[k] = hist[s] /\ hist[s] \in Nat
  <2>1. loaded[k] = hist[s]
    BY <1>1 DEF HistInv, HistAlone, s
  <2> QED BY <1>3, <2>1 DEF HistInv, HistTyped
<1>6. \A x \in Hist!Shades : hist'[x] = hist[x] + IF s = x THEN 1 ELSE 0
  BY <1>1, <1>3, <1>5 DEF HistInv, HistTyped
<1>7. HistTyped'
  BY <1>1, <1>2, <1>3, <1>5 DEF HistInv, HistTyped
<1>8. HistAlone'
  <2>1. \A j \in Hist!Threads : j # k => Hist!Busy(j)' = Hist!Busy(j) /\ Hist!Shade(j)' = Hist!Shade(j)
    BY <1>4 DEF Hist!Busy, Hist!Shade
  <2>2. \A j \in Hist!Threads : /\ holds'[j] = (j # k /\ holds[j])
                                /\ loaded'[j] = IF j = k THEN Hist!Unread ELSE loaded[j]
    BY <1>1 DEF HistInv, HistTyped
  <2>3. \A j \in Hist!Threads :
          Hist!Busy(j) => Hist!Shade(j) \in Hist!Shades /\ Hist!Shade(j) = work[j][1] /\ 1 \in 1 .. Len(work[j])
    <3> SUFFICES ASSUME NEW j \in Hist!Threads, Hist!Busy(j)
                 PROVE  Hist!Shade(j) \in Hist!Shades /\ Hist!Shade(j) = work[j][1] /\ 1 \in 1 .. Len(work[j])
      OBVIOUS
    <3>1. work[j] \in Seq(Hist!Shades) /\ work[j] # <<>>
      BY <1>2 DEF Hist!Busy
    <3>2. Len(work[j]) \in Nat /\ Len(work[j]) >= 1
      BY <3>1, LenProperties, EmptySeq
    <3> QED BY <3>1, <3>2, ElementOfSeq DEF Hist!Shade
  <2>4. \A x \in Hist!Shades : x # s => hist'[x] = hist[x] /\ hist_lock'[x] = hist_lock[x]
    BY <1>1 DEF HistInv, HistTyped
  <2>5. \A j \in Hist!Threads :
          j # k /\ (holds[j] \/ loaded[j] # Hist!Unread) => Hist!Busy(j) /\ Hist!Shade(j) # s
    <3> SUFFICES ASSUME NEW j \in Hist!Threads, j # k, holds[j] \/ loaded[j] # Hist!Unread
                 PROVE  Hist!Busy(j) /\ Hist!Shade(j) # s
      OBVIOUS
    <3>1. Hist!Busy(j)
      BY DEF HistInv, HistAlone
    <3>2. CASE mode = "sign"
      <4>1. Hist!Covered(j, Hist!Shade(j))
        BY <2>3, <3>1, <3>2 DEF HistInv, HistAlone
      <4>2. Hist!Covered(k, s)
        BY <1>1, <2>3, <3>2 DEF HistInv, HistAlone, s
      <4> QED BY <1>3, <3>1, <4>1, <4>2, CoveredOnce
    <3>3. CASE mode # "sign"
      <4>1. holds[j] /\ holds[k]
        BY <1>1, <3>3 DEF HistInv, HistAlone
      <4> QED BY <3>1, <4>1 DEF HistInv, HistAlone, s
    <3> QED BY <3>2, <3>3
  <2>6. \A j \in Hist!Threads :
          holds'[j] => mode' # "sign" /\ Hist!Busy(j)' /\ hist_lock'[Hist!Shade(j)']
    <3> SUFFICES ASSUME NEW j \in Hist!Threads, holds'[j]
                 PROVE  mode' # "sign" /\ Hist!Busy(j)' /\ hist_lock'[Hist!Shade(j)']
      OBVIOUS
    <3>1. j # k /\ holds[j]
      BY <2>2
    <3>2. Hist!Busy(j) /\ Hist!Shade(j) # s /\ Hist!Shade(j) \in Hist!Shades
      BY <2>3, <2>5, <3>1
    <3>3. mode # "sign" /\ hist_lock[Hist!Shade(j)]
      BY <3>1 DEF HistInv, HistAlone
    <3>4. Hist!Busy(j)' = Hist!Busy(j) /\ Hist!Shade(j)' = Hist!Shade(j)
      BY <2>1, <3>1
    <3> QED BY <1>1, <2>4, <3>2, <3>3, <3>4
  <2>7. \A j \in Hist!Threads :
          loaded'[j] # Hist!Unread =>
              /\ Hist!Busy(j)' /\ loaded'[j] = hist'[Hist!Shade(j)']
              /\ mode' # "sign" => holds'[j]
    <3> SUFFICES ASSUME NEW j \in Hist!Threads, loaded'[j] # Hist!Unread
                 PROVE  /\ Hist!Busy(j)' /\ loaded'[j] = hist'[Hist!Shade(j)']
                        /\ mode' # "sign" => holds'[j]
      OBVIOUS
    <3>1. j # k /\ loaded[j] # Hist!Unread /\ loaded'[j] = loaded[j]
      BY <2>2
    <3>2. Hist!Busy(j) /\ Hist!Shade(j) # s /\ Hist!Shade(j) \in Hist!Shades
      BY <2>3, <2>5, <3>1
    <3>3. loaded[j] = hist[Hist!Shade(j)] /\ (mode # "sign" => holds[j])
      BY <3>1 DEF HistInv, HistAlone
    <3>4. Hist!Busy(j)' = Hist!Busy(j) /\ Hist!Shade(j)' = Hist!Shade(j)
      BY <2>1, <3>1
    <3> QED BY <1>1, <2>2, <2>4, <3>1, <3>2, <3>3, <3>4
  <2>8. \A i, j \in Hist!Threads :
          holds'[i] /\ holds'[j] /\ Hist!Shade(i)' = Hist!Shade(j)' => i = j
    <3> SUFFICES ASSUME NEW i \in Hist!Threads, NEW j \in Hist!Threads,
                        holds'[i], holds'[j], Hist!Shade(i)' = Hist!Shade(j)'
                 PROVE  i = j
      OBVIOUS
    <3>1. i # k /\ j # k /\ holds[i] /\ holds[j]
      BY <2>2
    <3>2. Hist!Shade(i) = Hist!Shade(j)
      BY <2>1, <3>1
    <3> QED BY <3>1, <3>2 DEF HistInv, HistAlone
  <2>9. mode' = "sign" =>
          \A j \in Hist!Threads : \A i \in 1 .. Len(work'[j]) : Hist!Covered(j, work'[j][i])
    <3> SUFFICES ASSUME mode' = "sign", NEW j \in Hist!Threads, NEW i \in 1 .. Len(work'[j])
                 PROVE  Hist!Covered(j, work'[j][i])
      OBVIOUS
    <3>1. \A n \in 1 .. Len(work[j]) : Hist!Covered(j, work[j][n])
      BY <1>1 DEF HistInv, HistAlone
    <3>2. CASE j = k
      <4>1. i \in 1 .. Len(work[k]) - 1 /\ work'[k] = Tail(work[k])
        BY <1>3, <1>4, <3>2
      <4>2. Tail(work[k])[i] = work[k][i + 1] /\ i + 1 \in 1 .. Len(work[k])
        BY <1>3, <4>1
      <4> QED BY <3>1, <3>2, <4>1, <4>2
    <3>3. CASE j # k
      BY <1>4, <3>1, <3>3
    <3> QED BY <3>2, <3>3
  <2> QED BY <2>6, <2>7, <2>8, <2>9 DEF HistAlone
<1>9. mode # "none"
  BY <1>2 DEF HistInv, HistBefore
<1>10. HistCounted'
  <2>1. PICK h \in Nat \ {0} :
          /\ width \in Nat \ {0} /\ pixel_map \in Pictures(h, width)
          /\ \A x \in Hist!Shades :
               /\ IsFiniteSet(Cells(work, x))
               /\ Right(mode, pixel_map, width, x, hist[x] + Cardinality(Cells(work, x)))
    BY <1>9 DEF HistInv, HistCounted
  <2>2. ASSUME NEW x \in Hist!Shades
        PROVE  /\ IsFiniteSet(Cells(work', x))
               /\ hist'[x] + Cardinality(Cells(work', x)) = hist[x] + Cardinality(Cells(work, x))
    <3>1. IsFiniteSet(Cells(work, x))
      BY <2>1
    <3> DEFINE v == [work EXCEPT ![k] = Tail(@)]
    <3>2. /\ IsFiniteSet(Cells(v, x)) /\ Cardinality(Cells(v, x)) \in Nat
          /\ Cardinality(Cells(work, x)) = Cardinality(Cells(v, x)) + IF Head(work[k]) = x THEN 1 ELSE 0
      BY <1>2, <3>1, CellsTail
    <3>3. work' = v
      BY <1>1
    <3> HIDE DEF v
    <3>4. hist'[x] = hist[x] + IF s = x THEN 1 ELSE 0
      BY <1>6
    <3>5. hist[x] \in Nat
      BY DEF HistInv, HistTyped
    <3>6. s = Head(work[k])
      BY <1>2
    <3> QED BY <3>2, <3>3, <3>4, <3>5, <3>6
  <2>3. \A x \in Hist!Shades :
          /\ IsFiniteSet(Cells(work', x))
          /\ Right(mode', pixel_map', width', x, hist'[x] + Cardinality(Cells(work', x)))
    BY <1>1, <2>1, <2>2
  <2> QED BY <1>1, <2>1, <2>3 DEF HistCounted
<1> QED BY <1>1, <1>7, <1>8, <1>9, <1>10 DEF HistInv

LEMMA HistNext == HistInv /\ [Next]_vars => HistInv'
<1> SUFFICES ASSUME HistInv, [Next]_vars PROVE HistInv'
  OBVIOUS
<1>1. CASE UNCHANGED histVars
  BY <1>1 DEF histVars, HistInv, HistTyped, HistBefore, HistAlone, HistCounted,
              Hist!Busy, Hist!Shade
<1>2. CASE Hist!Next
  BY <1>2, HistStart, HistLock, HistLoad, HistStore DEF Hist!Next
<1> QED BY <1>1, <1>2 DEF Next, vars

LEMMA HistExact == HistInv => Hist!Exact
<1> SUFFICES ASSUME HistInv, Hist!Joined, NEW x \in Hist!Shades
             PROVE  /\ mode = "interleaved" => hist[x] = Hist!Occurrences(x)
                    /\ mode = "block" => hist[x] >= Hist!Occurrences(x)
                    /\ mode = "block" /\ width % threads_num = 0 => hist[x] = Hist!Occurrences(x)
                    /\ mode = "sign" =>
                         hist[x] = IF x \in 1 .. (max_val \div threads_num) * threads_num
                                   THEN Hist!Occurrences(x) ELSE 0
  BY DEF Hist!Exact
<1>1. mode # "none" /\ \A k \in Hist!Threads : work[k] = <<>>
  BY DEF Hist!Joined, Hist!Busy
<1>2. Cells(work, x) = {}
  <2>1. \A k \in Hist!Threads : 1 .. Len(work[k]) = {}
    BY <1>1
  <2> QED BY <2>1 DEF Cells
<1>3. Cardinality(Cells(work, x)) = 0 /\ hist[x] \in Nat
  BY <1>2, FS_EmptySet DEF HistInv, HistTyped
<1>4. Right(mode, pixel_map, width, x, hist[x] + Cardinality(Cells(work, x)))
  BY <1>1 DEF HistInv, HistCounted
<1>5. hist[x] + Cardinality(Cells(work, x)) = hist[x]
  BY <1>3
<1>6. Hist!Occurrences(x) = Cardinality(Places(pixel_map, width, x))
  BY HistCounts DEF Hist!Occurrences, Places
<1> QED BY <1>4, <1>5, <1>6 DEF Right

\* Once every thread has been joined, the histogram is that of the picture,
\* for every picture and number of threads, in whatever order they count and
\* whatever lies in memory behind a row.
THEOREM ExactAlways == Spec => []Exact
<1>1. Init => HistInv
  BY HistInit DEF Init
<1>2. HistInv /\ [Next]_vars => HistInv'
  BY HistNext
<1>3. HistInv => Exact
  BY HistExact DEF Exact
<1> QED BY <1>1, <1>2, <1>3, PTL DEF Spec

-----------------------------------------------------------------------------
(* The matrix workers: the text of a task *)

LEMMA MatrixConstants ==
    /\ Base \in Nat \ {0, 1} /\ Base * Base \in Nat
    /\ MaxLines \in Nat \ {0} /\ MaxCols \in Nat \ {0}
    /\ MaxLines < Base * Base /\ MaxCols <= Base * Base
    /\ None \notin Workers /\ Matrix!Tab = -2 /\ Matrix!Minus = -1
<1>1. Base \in Nat => Base * Base \in Nat
  OBVIOUS
<1> QED BY <1>1, ProgramsAssumption DEF Matrix!MatrixAssumption, Matrix!Tab, Matrix!Minus

\* The values of the first digits of s.
Values(f, s) == f = [n \in 0 .. Len(s) |-> IF n = 0 THEN 0 ELSE Base * f[n - 1] + s[n]]

\* The numbers printed have one digit or two.
LEMMA NumberIs ==
    ASSUME NEW s \in Seq(Int), Len(s) \in 1 .. 2
    PROVE  Matrix!Number(s) = IF Len(s) = 1 THEN s[1] ELSE Base * s[1] + s[2]
<1> DEFINE f == CHOOSE f : Values(f, s)
           e == IF Len(s) = 1 THEN 0 ELSE Base * s[1] + s[2]
           g == [n \in 0 .. Len(s) |-> IF n = 0 THEN 0 ELSE IF n = 1 THEN s[1] ELSE e]
<1>0. Len(s) = 1 \/ Len(s) = 2
  OBVIOUS
<1>1. Base \in Nat
  BY MatrixConstants
<1>2. s[1] \in Int /\ (Len(s) = 2 => s[2] \in Int)
  BY ElementOfSeq
<1>3. Values(g, s)
  <2>1. ASSUME NEW n \in 0 .. Len(s) PROVE g[n] = IF n = 0 THEN 0 ELSE Base * g[n - 1] + s[n]
    <3>1. CASE n = 0
      BY <3>1
    <3>2. CASE n = 1
      <4>1. g[1] = s[1] /\ g[0] = 0
        OBVIOUS
      <4>2. Base * 0 + s[1] = s[1]
        BY <1>1, <1>2
      <4> QED BY <3>2, <4>1, <4>2
    <3>3. CASE n = 2
      <4>1. Len(s) = 2
        <5>1. Len(s) # 1
          <6> SUFFICES ASSUME Len(s) = 1 PROVE FALSE
            OBVIOUS
          <6>1. n \in 0 .. 1
            OBVIOUS
          <6> QED BY <3>3, <6>1
        <5> QED BY <1>0, <5>1
      <4>2. g[2] = Base * s[1] + s[2] /\ g[1] = s[1]
        BY <4>1
      <4> QED BY <3>3, <4>2
    <3> QED BY <3>1, <3>2, <3>3
  <2>2. g = [n \in 0 .. Len(s) |-> g[n]]
    OBVIOUS
  <2> HIDE DEF g
  <2> QED BY <2>1, <2>2 DEF Values
<1>4. Values(f, s)
  BY <1>3
<1>5. Matrix!Number(s) = f[Len(s)]
  BY DEF Matrix!Number, Values
<1> HIDE DEF f, g
<1>6. \A n \in 0 .. Len(s) : f[n] = IF n = 0 THEN 0 ELSE Base * f[n - 1] + s[n]
  BY <1>4 DEF Values
<1>7. f[0] = 0
  BY <1>6
<1>8. f[1] = s[1]
  <2>1. f[1] = Base * f[0] + s[1]
    BY <1>6
  <2> QED BY <1>1, <1>2, <1>7, <2>1
<1>9. Len(s) = 2 => f[2] = Base * s[1] + s[2]
  <2>1. Len(s) = 2 => f[2] = Base * f[1] + s[2]
    BY <1>6
  <2> QED BY <1>8, <2>1
<1> QED BY <1>0, <1>5, <1>8, <1>9

\* Text m says line l and column c: the line printed with p digits, and the
\* column with one or two, of which the first may be zero.
TaskText(m, p) ==
    /\ m \in Seq(Int) /\ p \in 1 .. 2 /\ Len(m) \in p + 2 .. p + 3
    /\ m[p + 1] = Matrix!Tab
    /\ \A k \in 1 .. Len(m) : k # p + 1 => m[k] \in 0 .. Base - 1
    /\ p = 2 => m[1] # 0
LineIn(m, p) == IF p = 1 THEN m[1] ELSE Base * m[1] + m[2]
ColumnIn(m, p) == IF Len(m) = p + 2 THEN m[p + 2] ELSE Base * m[p + 2] + m[p + 3]
Task(m, p, l, c) == TaskText(m, p) /\ LineIn(m, p) = l /\ ColumnIn(m, p) = c

LEMMA TaskScanned ==
    ASSUME NEW m, NEW p, NEW l, NEW c, Task(m, p, l, c)
    PROVE  /\ Matrix!Scanned(m) = [line |-> l, col |-> c] /\ l \in Nat /\ c \in Nat
           /\ m[1] # Matrix!Minus
<1> DEFINE tab == CHOOSE k \in DOMAIN m : m[k] = Matrix!Tab
           a == SubSeq(m, 1, p)
           b == SubSeq(m, p + 2, Len(m))
<1>1. /\ m \in Seq(Int) /\ p \in 1 .. 2 /\ Len(m) \in p + 2 .. p + 3
      /\ m[p + 1] = Matrix!Tab
      /\ \A k \in 1 .. Len(m) : k # p + 1 => m[k] \in 0 .. Base - 1
  BY DEF Task, TaskText
<1>0. p \in 1 .. 2 /\ p \in Int /\ Len(m) \in Int /\ (Len(m) = p + 2 \/ Len(m) = p + 3)
  <2>1. ASSUME NEW a0 \in Int, NEW z0 \in a0 + 2 .. a0 + 3 PROVE z0 \in Int /\ (z0 = a0 + 2 \/ z0 = a0 + 3)
    OBVIOUS
  <2> QED BY <1>1, <2>1
<1>2. Base \in Nat /\ Matrix!Tab = -2 /\ Matrix!Minus = -1
  BY MatrixConstants
<1>3. Len(m) \in Nat /\ DOMAIN m = 1 .. Len(m) /\ \A k \in 1 .. Len(m) : m[k] \in Int
  BY <1>1, LenProperties, ElementOfSeq
<1>4. tab = p + 1
  <2>1. p + 1 \in DOMAIN m
    BY <1>1, <1>3
  <2>2. \A k \in DOMAIN m : m[k] = Matrix!Tab => k = p + 1
    BY <1>1, <1>2, <1>3
  <2> QED BY <1>1, <2>1, <2>2
<1>5. m[1] # Matrix!Minus
  BY <1>1, <1>2
<1> HIDE DEF tab
<1>6. tab - 1 = p /\ tab + 1 = p + 2
  BY <1>1, <1>4
<1>7. Matrix!Scanned(m) = [line |-> Matrix!Number(a), col |-> Matrix!Number(b)]
  BY <1>5, <1>6 DEF Matrix!Scanned, tab
<1>8. a \in Seq(Int) /\ Len(a) = p /\ a[1] = m[1] /\ (p = 2 => a[2] = m[2])
  <2>1. p \in Int /\ 1 \in Int /\ \A i \in 1 .. p : m[i] \in Int
    BY <1>1, <1>3
  <2>2. /\ a \in Seq(Int) /\ Len(a) = IF 1 <= p THEN p - 1 + 1 ELSE 0
        /\ \A i \in 1 .. p - 1 + 1 : a[i] = m[1 + i - 1]
    BY <2>1, SubSeqProperties
  <2> HIDE DEF a
  <2>3. Len(a) = p
    BY <1>1, <2>2
  <2>4. a[1] = m[1]
    BY <1>1, <2>2
  <2>5. p = 2 => a[2] = m[2]
    BY <1>1, <2>2
  <2> QED BY <2>2, <2>3, <2>4, <2>5
<1>9. /\ b \in Seq(Int) /\ Len(b) = Len(m) - p - 1 /\ b[1] = m[p + 2]
      /\ Len(b) = 2 => b[2] = m[p + 3]
  <2>1. p + 2 \in Int /\ Len(m) \in Int /\ \A i \in p + 2 .. Len(m) : m[i] \in Int
    BY <1>1, <1>3
  <2> DEFINE z == Len(m)
             y == p + 2
  <2>2. /\ b \in Seq(Int) /\ Len(b) = IF y <= z THEN z - y + 1 ELSE 0
        /\ \A i \in 1 .. z - y + 1 : b[i] = m[y + i - 1]
    BY <2>1, SubSeqProperties
  <2> HIDE DEF b
  <2>3. Len(b) = Len(m) - p - 1 /\ Len(b) \in 1 .. 2 /\ z - y + 1 = Len(b)
    <3>1. y \in Int /\ y = p + 2 /\ (z = y \/ z = y + 1)
      BY <1>0
    <3>2. y <= z /\ z - y + 1 \in 1 .. 2 /\ z - y + 1 = z - p - 1
      BY <1>0, <3>1
    <3> HIDE DEF y, z
    <3>3. Len(b) = z - y + 1
      BY <2>2, <3>2
    <3> QED BY <3>2, <3>3 DEF y, z
  <2>4. b[1] = m[p + 2]
    <3>1. y + 1 - 1 = p + 2
      BY <1>1
    <3> QED BY <2>2, <2>3, <3>1
  <2>5. Len(b) = 2 => b[2] = m[p + 3]
    <3>1. y + 2 - 1 = p + 3
      BY <1>1
    <3> QED BY <2>2, <2>3, <3>1
  <2> QED BY <2>2, <2>3, <2>4, <2>5
<1> HIDE DEF a, b
<1>10. Matrix!Number(a) = IF Len(a) = 1 THEN a[1] ELSE Base * a[1] + a[2]
  <2>1. a \in Seq(Int) /\ Len(a) \in 1 .. 2
    BY <1>1, <1>8
  <2> QED BY <2>1, NumberIs
<1>11. Matrix!Number(b) = IF Len(b) = 1 THEN b[1] ELSE Base * b[1] + b[2]
  <2>1. Len(b) \in 1 .. 2
    <3>1. Len(b) = Len(m) - p - 1
      BY <1>9
    <3> QED BY <1>0, <3>1
  <2>2. b \in Seq(Int)
    BY <1>9
  <2> QED BY <2>1, <2>2, NumberIs
<1>12. Matrix!Number(a) = l
  BY <1>1, <1>8, <1>10 DEF Task, LineIn
<1>13. Matrix!Number(b) = c
  <2>1. p \in Int /\ Len(m) \in Int /\ (Len(m) = p + 2 \/ Len(m) = p + 3)
    BY <1>0
  <2>2. Len(b) = 1 <=> Len(m) = p + 2
    BY <1>9, <2>1
  <2>3. Len(b) # 1 => Len(b) = 2
    BY <1>9, <2>1
  <2> QED BY <1>9, <1>11, <2>2, <2>3 DEF Task, ColumnIn
<1>14. \A d, e \in 0 .. Base - 1 : Base * d + e \in Nat /\ d \in Nat
  BY <1>2
<1>15. l \in Nat
  <2>1. m[1] \in 0 .. Base - 1 /\ (p = 2 => m[2] \in 0 .. Base - 1)
    BY <1>1
  <2> QED BY <1>1, <1>14, <2>1 DEF Task, LineIn
<1>16. c \in Nat
  <2>1. p + 2 \in 1 .. Len(m) /\ p + 2 # p + 1 /\ p + 3 # p + 1
    BY <1>1, <1>3
  <2>2. Len(m) # p + 2 => Len(m) = p + 3 /\ p + 3 \in 1 .. Len(m)
    BY <1>0
  <2>3. m[p + 2] \in 0 .. Base - 1 /\ (Len(m) # p + 2 => m[p + 3] \in 0 .. Base - 1)
    BY <1>1, <2>1, <2>2
  <2> QED BY <1>14, <2>3 DEF Task, ColumnIn
<1> QED BY <1>5, <1>7, <1>12, <1>13, <1>15, <1>16

LEMMA DigitsAre ==
    ASSUME NEW n \in Nat, n < Base * Base
    PROVE  LET s == Matrix!Digits(n) IN
           /\ s \in Seq(Int)
           /\ \/ n < Base /\ Len(s) = 1 /\ s[1] = n
              \/ /\ n >= Base /\ Len(s) = 2
                 /\ s[1] \in 1 .. Base - 1 /\ s[2] \in 0 .. Base - 1 /\ n = Base * s[1] + s[2]
<1>1. Base \in Nat \ {0} /\ Base \in Nat
  BY MatrixConstants
<1>2. CASE n < Base
  <2>1. Matrix!Digits(n) = <<n>>
    BY <1>2 DEF Matrix!Digits
  <2> QED BY <1>2, <2>1
<1>3. CASE ~ n < Base
  <2>1. PICK q \in Nat, r \in 0 .. Base - 1 : q = n \div Base /\ r = n % Base /\ n = Base * q + r
    BY <1>1, Divide
  <2>2. Matrix!Digits(n) = <<q, r>>
    BY <1>3, <2>1 DEF Matrix!Digits
  <2>3. q # 0
    <3> SUFFICES ASSUME q = 0 PROVE FALSE
      OBVIOUS
    <3>1. Base * q = 0
      BY <1>1
    <3> QED BY <1>1, <1>3, <2>1, <3>1
  <2>4. q < Base
    <3> SUFFICES ASSUME Base <= q PROVE FALSE
      BY <1>1, <2>1
    <3>1. Base * q \in Nat /\ Base * Base \in Nat
      BY <1>1
    <3>2. Base * Base <= Base * q
      <4>1. CASE Base = q
        BY <4>1, <3>1
      <4>2. CASE Base < q
        <5>1. Base * Base + Base <= Base * q
          BY <1>1, <4>2, TimesAbove
        <5> QED BY <1>1, <3>1, <5>1
      <4> QED BY <1>1, <2>1, <4>1, <4>2
    <3> QED BY <1>1, <2>1, <3>1, <3>2
  <2>5. q \in 1 .. Base - 1 /\ n >= Base
    BY <1>1, <1>3, <2>3, <2>4
  <2> HIDE DEF Matrix!Digits
  <2>6. <<q, r>> \in Seq(Int) /\ Len(<<q, r>>) = 2 /\ <<q, r>>[1] = q /\ <<q, r>>[2] = r
    BY <2>1
  <2> QED BY <2>1, <2>2, <2>5, <2>6
<1> QED BY <1>2, <1>3

\* The parts of a sequence put together of two.
LEMMA ConcatParts ==
    ASSUME NEW s \in Seq(Int), NEW u \in Seq(Int)
    PROVE  /\ s \o u \in Seq(Int) /\ Len(s \o u) = Len(s) + Len(u)
           /\ \A j \in 1 .. Len(s) : (s \o u)[j] = s[j]
           /\ \A x \in Int, j \in 1 .. Len(u) : x = Len(s) + j => (s \o u)[x] = u[j]
<1>1. /\ s \o u \in Seq(Int) /\ Len(s \o u) = Len(s) + Len(u)
      /\ \A i \in 1 .. Len(s) + Len(u) : (s \o u)[i] = IF i <= Len(s) THEN s[i] ELSE u[i - Len(s)]
  BY ConcatProperties
<1>2. Len(s) \in Nat /\ Len(u) \in Nat
  BY LenProperties
<1> DEFINE y == s \o u
<1> HIDE DEF y
<1>3. \A i \in 1 .. Len(s) + Len(u) : y[i] = IF i <= Len(s) THEN s[i] ELSE u[i - Len(s)]
  BY <1>1 DEF y
<1>4. ASSUME NEW j \in 1 .. Len(s) PROVE y[j] = s[j]
  <2>1. j \in 1 .. Len(s) + Len(u) /\ j <= Len(s)
    BY <1>2
  <2> QED BY <1>3, <2>1
<1>5. ASSUME NEW x \in Int, NEW j \in 1 .. Len(u), x = Len(s) + j PROVE y[x] = u[j]
  <2>1. x \in 1 .. Len(s) + Len(u) /\ ~ x <= Len(s) /\ x - Len(s) = j
    BY <1>2, <1>5
  <2> QED BY <1>3, <2>1
<1> QED BY <1>1, <1>4, <1>5 DEF y

\* What is printed for a line and a column says them.
LEMMA PrintedIs ==
    ASSUME NEW n \in Nat, n < Base * Base, NEW e \in Nat, e < Base * Base
    PROVE  \E q \in 1 .. 2 :
             /\ Task(Matrix!Printed(n, e), q, n, e)
             /\ e < Base => Len(Matrix!Printed(n, e)) = q + 2
<1> DEFINE a == Matrix!Digits(n)
           b == Matrix!Digits(e)
           t == Matrix!Printed(n, e)
           q == Len(a)
           r == Len(b)
<1>1. Base \in Nat \ {0, 1} /\ Matrix!Tab = -2
  BY MatrixConstants
<1>2. /\ a \in Seq(Int)
      /\ \/ n < Base /\ Len(a) = 1 /\ a[1] = n
         \/ /\ n >= Base /\ Len(a) = 2
            /\ a[1] \in 1 .. Base - 1 /\ a[2] \in 0 .. Base - 1 /\ n = Base * a[1] + a[2]
  BY DigitsAre
<1>3. /\ b \in Seq(Int)
      /\ \/ e < Base /\ Len(b) = 1 /\ b[1] = e
         \/ /\ e >= Base /\ Len(b) = 2
            /\ b[1] \in 1 .. Base - 1 /\ b[2] \in 0 .. Base - 1 /\ e = Base * b[1] + b[2]
  BY DigitsAre
<1>4. t = (a \o <<Matrix!Tab>>) \o b
  <2>1. n # -1
    OBVIOUS
  <2> HIDE DEF Matrix!Digits
  <2> QED BY <2>1 DEF Matrix!Printed
<1>5. q \in 1 .. 2 /\ r \in 1 .. 2 /\ Len(a) = q /\ Len(b) = r
  BY <1>2, <1>3
<1> DEFINE h == a \o <<Matrix!Tab>>
<1> HIDE DEF a, b, t, q, r
<1>6. /\ h \in Seq(Int) /\ Len(h) = q + 1 /\ h[q + 1] = Matrix!Tab
      /\ \A k \in 1 .. q : h[k] = a[k]
  <2>1. <<Matrix!Tab>> \in Seq(Int) /\ Len(<<Matrix!Tab>>) = 1 /\ <<Matrix!Tab>>[1] = Matrix!Tab
    BY <1>1
  <2> DEFINE s == <<Matrix!Tab>>
  <2> HIDE DEF s
  <2>2. /\ h \in Seq(Int) /\ Len(h) = Len(a) + Len(s)
        /\ \A k \in 1 .. Len(a) : h[k] = a[k]
        /\ \A x \in Int, j \in 1 .. Len(s) : x = Len(a) + j => h[x] = s[j]
    BY <1>2, <2>1, ConcatParts DEF s
  <2> HIDE DEF h
  <2>3. Len(s) = 1 /\ s[1] = Matrix!Tab
    BY <2>1 DEF s
  <2>4. q + 1 \in Int
    BY <1>5
  <2> QED BY <1>5, <2>2, <2>3, <2>4
<1> HIDE DEF h
<1>7. /\ t \in Seq(Int) /\ Len(t) = q + 1 + r
      /\ \A k \in 1 .. q + 1 : t[k] = h[k]
      /\ t[q + 2] = b[1] /\ (r = 2 => t[q + 3] = b[2])
  <2>1. t = h \o b
    BY <1>4 DEF h
  <2>2. /\ t \in Seq(Int) /\ Len(t) = Len(h) + Len(b)
        /\ \A k \in 1 .. Len(h) : t[k] = h[k]
        /\ \A x \in Int, j \in 1 .. Len(b) : x = Len(h) + j => t[x] = b[j]
    <3>1. b \in Seq(Int) /\ h \in Seq(Int)
      BY <1>3, <1>6
    <3> QED BY ONLY <2>1, <3>1, ConcatParts
  <2>3. t[q + 2] = b[1]
    <3>1. q + 2 \in Int /\ q + 2 = Len(h) + 1 /\ 1 \in 1 .. Len(b)
      BY <1>5, <1>6
    <3> QED BY <2>2, <3>1
  <2>4. r = 2 => t[q + 3] = b[2]
    <3>1. q + 3 \in Int /\ q + 3 = Len(h) + 2 /\ (r = 2 => 2 \in 1 .. Len(b))
      BY <1>5, <1>6
    <3> QED BY <2>2, <3>1
  <2> QED BY <1>5, <1>6, <2>2, <2>3, <2>4
<1>8. /\ a[1] \in 0 .. Base - 1 /\ (q = 2 => a[2] \in 0 .. Base - 1 /\ a[1] # 0)
      /\ b[1] \in 0 .. Base - 1 /\ (r = 2 => b[2] \in 0 .. Base - 1)
  BY <1>1, <1>2, <1>3, <1>5
<1>9. t[1] = a[1] /\ (q = 2 => t[2] = a[2]) /\ t[q + 1] = Matrix!Tab
  <2>1. \A k \in 1 .. q + 1 : t[k] = h[k]
    BY <1>7
  <2>2. 1 \in 1 .. q /\ 1 \in 1 .. q + 1 /\ q + 1 \in 1 .. q + 1
    BY <1>5
  <2>3. q = 2 => 2 \in 1 .. q /\ 2 \in 1 .. q + 1
    BY <1>5
  <2> QED BY <1>6, <2>1, <2>2, <2>3
<1>10. TaskText(t, q)
  <2>1. Len(t) \in q + 2 .. q + 3
    <3>1. Len(t) = q + 1 + r
      BY <1>7
    <3> QED BY <1>5, <3>1
  <2>2. ASSUME NEW k \in 1 .. Len(t), k # q + 1 PROVE t[k] \in 0 .. Base - 1
    <3>1. k \in 1 .. q \/ k = q + 2 \/ (k = q + 3 /\ r = 2)
      BY <1>5, <1>7, <2>2
    <3>2. CASE k \in 1 .. q
      <4>1. k = 1 \/ (k = 2 /\ q = 2)
        BY <1>5, <3>2
      <4> QED BY <1>8, <1>9, <4>1
    <3>3. CASE k = q + 2
      BY <1>7, <1>8, <3>3
    <3>4. CASE k = q + 3 /\ r = 2
      BY <1>7, <1>8, <3>4
    <3> QED BY <3>1, <3>2, <3>3, <3>4
  <2>3. q = 2 => t[1] # 0
    BY <1>8, <1>9
  <2> QED BY <1>5, <1>7, <1>9, <2>1, <2>2, <2>3 DEF TaskText
<1>11. LineIn(t, q) = n
  BY <1>2, <1>5, <1>9 DEF LineIn
<1>12. ColumnIn(t, q) = e
  <2>1. Len(t) = q + 2 <=> r = 1
    <3>1. Len(t) = q + 1 + r
      BY <1>7
    <3> QED BY <1>5, <3>1
  <2> QED BY <1>3, <1>5, <1>7, <2>1 DEF ColumnIn
<1>13. e < Base => Len(t) = q + 2
  BY <1>1, <1>3, <1>5, <1>7
<1> QED BY <1>5, <1>10, <1>11, <1>12, <1>13 DEF Task, t

\* The first digit says how many the line has.
LEMMA LineDigits ==
    ASSUME NEW m, NEW p, NEW l, NEW c, Task(m, p, l, c)
    PROVE  p \in 1 .. 2 /\ (p = 2 <=> l >= Base) /\ l \in Nat
<1>1. Base \in Nat \ {0, 1}
  BY MatrixConstants
<1>2. p \in 1 .. 2 /\ m[1] \in 0 .. Base - 1 /\ (p = 2 => m[1] # 0 /\ m[2] \in 0 .. Base - 1)
  <2>1. p \in 1 .. 2 /\ Len(m) \in p + 2 .. p + 3
    BY DEF Task, TaskText
  <2>2. 1 \in 1 .. Len(m) /\ 1 # p + 1 /\ (p = 2 => 2 \in 1 .. Len(m) /\ 2 # p + 1)
    BY <2>1
  <2> QED BY <2>1, <2>2 DEF Task, TaskText
<1>3. CASE p = 1
  <2>1. l = m[1]
    BY <1>3 DEF Task, LineIn
  <2> QED BY <1>1, <1>2, <1>3, <2>1
<1>4. CASE p = 2
  <2>1. l = Base * m[1] + m[2]
    BY <1>4 DEF Task, LineIn
  <2>2. ASSUME NEW x \in 1 .. Base - 1 PROVE Base * x \in Nat /\ Base * x >= Base
    <3>1. x - 1 \in Nat /\ x = (x - 1) + 1 /\ Base * (x - 1) \in Nat
      BY <1>1
    <3>2. Base * x = Base * (x - 1) + Base
      BY <1>1
    <3> QED BY <1>1, <3>1, <3>2
  <2>3. Base * m[1] \in Nat /\ Base * m[1] >= Base
    BY <1>2, <1>4, <2>2
  <2> QED BY <1>1, <1>2, <1>4, <2>1, <2>3
<1> QED BY <1>2, <1>3, <1>4

\* A task that is passed on is not of an earlier line, and then what is left of
\* the text before it can only make its column larger; where nothing can be left,
\* it is told as it is.
LEMMA Passed ==
    ASSUME NEW m, NEW p, NEW l, NEW c, Task(m, p, l, c),
           NEW n \in Nat, n < Base * Base, n >= l, NEW e \in Nat, e < Base * Base
    PROVE  \E q \in 1 .. 2 : \E d \in Nat :
             /\ d >= e /\ Task(Matrix!Overwritten(m, Matrix!Printed(n, e)), q, n, d)
             /\ Len(m) = p + 2 /\ e < Base =>
                  d = e /\ Len(Matrix!Overwritten(m, Matrix!Printed(n, e))) = q + 2
<1> DEFINE t == Matrix!Printed(n, e)
           o == Matrix!Overwritten(m, t)
<1>1. Base \in Nat \ {0, 1}
  BY MatrixConstants
<1>2. PICK q \in 1 .. 2 : Task(t, q, n, e) /\ (e < Base => Len(t) = q + 2)
  BY PrintedIs
<1> HIDE DEF t
<1>3. /\ m \in Seq(Int) /\ p \in 1 .. 2 /\ Len(m) \in p + 2 .. p + 3
      /\ \A k \in 1 .. Len(m) : k # p + 1 => m[k] \in 0 .. Base - 1
  BY DEF Task, TaskText
<1>4. /\ t \in Seq(Int) /\ q \in 1 .. 2 /\ Len(t) \in q + 2 .. q + 3
      /\ t[q + 1] = Matrix!Tab
      /\ \A k \in 1 .. Len(t) : k # q + 1 => t[k] \in 0 .. Base - 1
      /\ q = 2 => t[1] # 0
  BY <1>2 DEF Task, TaskText
<1>5. Len(m) \in Nat /\ Len(t) \in Nat
  BY <1>3, <1>4, LenProperties
<1>6. p <= q
  <2>1. p = 2 => l >= Base
    BY LineDigits
  <2>2. q = 2 <=> n >= Base
    BY <1>2, LineDigits
  <2>3. l \in Nat
    BY LineDigits
  <2> QED BY <1>1, <1>3, <2>1, <2>2, <2>3
<1>7. CASE Len(t) >= Len(m)
  <2>1. o = [k \in 1 .. Len(t) |-> t[k]]
    <3>1. (IF Len(t) > Len(m) THEN Len(t) ELSE Len(m)) = Len(t)
      BY <1>5, <1>7
    <3>2. \A k \in 1 .. Len(t) : k <= Len(t)
      BY <1>5
    <3> QED BY <3>1, <3>2 DEF Matrix!Overwritten
  <2>2. o = t
    BY <1>4, <2>1
  <2> HIDE DEF o
  <2>3. Task(o, q, n, e) /\ (e < Base => Len(o) = q + 2) /\ e >= e
    BY <1>2, <2>2
  <2> QED BY <2>3 DEF o, t
<1>8. CASE Len(t) < Len(m)
  <2>1. q = p /\ Len(t) = p + 2 /\ Len(m) = p + 3
    <3> DEFINE x == Len(t)
               y == Len(m)
    <3>1. x \in Int /\ y \in Int /\ x >= q + 2 /\ y <= p + 3 /\ x < y /\ p <= q /\ p \in Int /\ q \in Int
      BY <1>3, <1>4, <1>5, <1>6, <1>8
    <3> HIDE DEF x, y
    <3>2. q = p /\ x = p + 2 /\ y = p + 3
      BY <3>1
    <3> QED BY <3>2 DEF x, y
  <2>2. o = [k \in 1 .. p + 3 |-> IF k <= p + 2 THEN t[k] ELSE m[k]]
    <3>1. (IF Len(t) > Len(m) THEN Len(t) ELSE Len(m)) = p + 3
      BY <1>5, <1>8, <2>1
    <3> QED BY <2>1, <3>1 DEF Matrix!Overwritten
  <2> DEFINE d == Base * e + m[p + 3]
  <2>3. /\ \A k \in 1 .. p + 2 : o[k] = t[k]
        /\ o[p + 3] = m[p + 3]
        /\ DOMAIN o = 1 .. p + 3
    BY <1>3, <2>2
  <2>4. m[p + 3] \in 0 .. Base - 1
    BY <1>3, <2>1
  <2>5. o \in Seq(Int) /\ Len(o) = p + 3
    <3>1. ASSUME NEW k \in 1 .. p + 3 PROVE o[k] \in Int
      <4>1. \A i \in 1 .. p + 2 : t[i] \in Int
        BY <1>4, <2>1, ElementOfSeq
      <4>2. k \in 1 .. p + 2 \/ k = p + 3
        BY <1>3
      <4> QED BY <2>3, <2>4, <4>1, <4>2
    <3>2. p + 3 \in Nat
      BY <1>3
    <3>3. o = [k \in 1 .. p + 3 |-> o[k]]
      BY <2>2
    <3> HIDE DEF o
    <3>4. o \in [1 .. p + 3 -> Int]
      BY <3>1, <3>3
    <3> QED BY <2>3, <3>2, <3>4, LenProperties
  <2> HIDE DEF o
  <2>6. o[q + 1] = Matrix!Tab
    <3>1. q + 1 \in 1 .. p + 2
      BY <1>3, <2>1
    <3> QED BY <1>4, <2>3, <3>1
  <2>7. o[1] = t[1] /\ o[p + 2] = t[p + 2] /\ (p = 2 => o[2] = t[2])
    BY <1>3, <2>3
  <2>8. TaskText(o, q)
    <3>1. ASSUME NEW k \in 1 .. Len(o), k # q + 1 PROVE o[k] \in 0 .. Base - 1
      <4>1. k \in 1 .. p + 2 \/ k = p + 3
        BY <1>3, <2>5
      <4>2. CASE k \in 1 .. p + 2
        BY <1>4, <2>1, <2>3, <3>1, <4>2
      <4>3. CASE k = p + 3
        BY <2>3, <2>4, <4>3
      <4> QED BY <4>1, <4>2, <4>3
    <3>2. Len(o) \in q + 2 .. q + 3
      BY <1>4, <2>1, <2>5
    <3>3. q = 2 => o[1] # 0
      BY <1>4, <2>7
    <3> QED BY <1>4, <2>5, <2>6, <3>1, <3>2, <3>3 DEF TaskText
  <2>9. LineIn(o, q) = n
    <3>1. LineIn(t, q) = n
      BY <1>2 DEF Task
    <3>2. LineIn(o, q) = LineIn(t, q)
      BY <1>4, <2>1, <2>7 DEF LineIn
    <3> QED BY <3>1, <3>2
  <2>10. ColumnIn(o, q) = d
    <3>1. t[p + 2] = e
      <4>1. ColumnIn(t, q) = e
        BY <1>2 DEF Task
      <4> QED BY <2>1, <4>1 DEF ColumnIn
    <3>2. Len(o) # q + 2
      BY <1>3, <2>1, <2>5
    <3> QED BY <2>1, <2>3, <2>7, <3>1, <3>2 DEF ColumnIn
  <2>11. d \in Nat /\ d >= e
    <3>1. Base - 1 \in Nat /\ Base * e = (Base - 1) * e + e
      BY <1>1
    <3>2. (Base - 1) * e \in Nat
      BY <3>1
    <3> HIDE DEF d
    <3>3. d = (Base - 1) * e + e + m[p + 3]
      BY <3>1 DEF d
    <3> QED BY <2>4, <3>2, <3>3
  <2> HIDE DEF d
  <2>12. Task(o, q, n, d)
    BY <2>8, <2>9, <2>10 DEF Task
  <2>13. Len(m) # p + 2
    BY <1>3, <2>1
  <2> QED BY <2>11, <2>12, <2>13 DEF o, t
<1> QED BY <1>5, <1>7, <1>8

\* When there is no task left, the text says so.
LEMMA Halted ==
    ASSUME NEW m \in Seq(Int), NEW e \in Nat, e < Base * Base
    PROVE  LET o == Matrix!Overwritten(m, Matrix!Printed(-1, e)) IN
           o \in Seq(Int) /\ o[1] = Matrix!Minus
<1> DEFINE b == Matrix!Digits(e)
           t == Matrix!Printed(-1, e)
           o == Matrix!Overwritten(m, t)
           z == IF Len(t) > Len(m) THEN Len(t) ELSE Len(m)
<1>1. b \in Seq(Int) /\ Len(b) \in 1 .. 2
  BY DigitsAre
<1>2. Matrix!Tab = -2 /\ Matrix!Minus = -1
  BY MatrixConstants
<1> HIDE DEF b
<1>3. t = (<<Matrix!Minus, 1>> \o <<Matrix!Tab>>) \o b
  BY DEF Matrix!Printed, b
<1>4. t \in Seq(Int) /\ Len(t) = 3 + Len(b) /\ t[1] = Matrix!Minus
  <2> DEFINE h == <<Matrix!Minus, 1>> \o <<Matrix!Tab>>
  <2>1. /\ <<Matrix!Minus, 1>> \in Seq(Int) /\ <<Matrix!Tab>> \in Seq(Int)
        /\ Len(<<Matrix!Minus, 1>>) = 2 /\ Len(<<Matrix!Tab>>) = 1
        /\ <<Matrix!Minus, 1>>[1] = Matrix!Minus
    BY <1>2
  <2> DEFINE x == <<Matrix!Minus, 1>>
             y == <<Matrix!Tab>>
  <2> HIDE DEF x, y
  <2>2. h \in Seq(Int) /\ Len(h) = 3 /\ h[1] = Matrix!Minus
    <3>1. /\ x \o y \in Seq(Int) /\ Len(x \o y) = Len(x) + Len(y)
          /\ \A k \in 1 .. Len(x) : (x \o y)[k] = x[k]
      BY <2>1, ConcatParts DEF x, y
    <3>2. Len(x) = 2 /\ Len(y) = 1 /\ x[1] = Matrix!Minus
      BY <2>1 DEF x, y
    <3>3. (x \o y)[1] = x[1]
      BY <3>1, <3>2
    <3>4. h = x \o y
      BY DEF x, y
    <3> HIDE DEF h
    <3> QED BY <3>1, <3>2, <3>3, <3>4
  <2> HIDE DEF h
  <2> HIDE DEF t
  <2>3. t = h \o b
    BY <1>3 DEF h
  <2>4. /\ t \in Seq(Int) /\ Len(t) = Len(h) + Len(b)
        /\ \A k \in 1 .. Len(h) : t[k] = h[k]
    <3>1. b \in Seq(Int) /\ h \in Seq(Int)
      BY <1>1, <2>2
    <3> QED BY ONLY <2>3, <3>1, ConcatParts
  <2> QED BY <2>2, <2>4
<1> HIDE DEF t
<1>5. Len(m) \in Nat /\ Len(t) \in Nat /\ Len(t) >= 1 /\ z \in Nat /\ z >= Len(t)
  BY <1>1, <1>4, LenProperties
<1>6. o = [k \in 1 .. z |-> IF k <= Len(t) THEN t[k] ELSE m[k]]
  BY DEF Matrix!Overwritten
<1>7. o[1] = t[1]
  BY <1>5, <1>6
<1>8. ASSUME NEW k \in 1 .. z PROVE o[k] \in Int
  <2>1. \A i \in 1 .. Len(t) : t[i] \in Int
    BY <1>4, ElementOfSeq
  <2>2. \A i \in 1 .. Len(m) : m[i] \in Int
    BY ElementOfSeq
  <2>3. CASE k <= Len(t)
    BY <1>5, <1>6, <2>1, <2>3
  <2>4. CASE ~ k <= Len(t)
    <3>1. k \in 1 .. Len(m)
      BY <1>5, <2>4
    <3> QED BY <1>6, <2>2, <2>4, <3>1
  <2> QED BY <2>3, <2>4
<1>9. o \in [1 .. z -> Int]
  BY <1>6, <1>8
<1> HIDE DEF o, z
<1>10. o \in Seq(Int)
  BY <1>5, <1>9
<1> QED BY <1>4, <1>7, <1>10 DEF o, t

-----------------------------------------------------------------------------
(* The matrix workers: no piece twice *)

LEMMA MatrixFinite ==
    IsFiniteSet(Workers) /\ \A S : Matrix!Cardinality(S) = Cardinality(S)
<1>1. \A S : Matrix!Cardinality(S) = Cardinality(S)
  BY DEF Matrix!Cardinality, Cardinality
<1>2. \A S : Matrix!IsFiniteSet(S) = IsFiniteSet(S)
  BY DEF Matrix!IsFiniteSet, IsFiniteSet
<1>3. Matrix!IsFiniteSet(Workers)
  BY ProgramsAssumption DEF Matrix!MatrixAssumption
<1> QED BY <1>1, <1>2, <1>3

Piece == [line : Nat, start : Nat, end : Int, record : Nat]

MatrixTyped ==
    /\ list \in Seq(1 .. MaxCols) /\ Len(list) <= MaxLines
    /\ team \subseteq Workers /\ (list # <<>> => team # {})
    /\ pc \in [Workers -> {"none", "loop", "locked", "read", "pass", "multiply", "ended"}]
    /\ taken = [w \in Workers |-> taken[w]]
    /\ record \in [Workers -> Nat] /\ position \in [Workers -> Nat]
    /\ line_no \in [Workers -> Nat] /\ col_end \in [Workers -> Int]
    /\ results \in Seq(Piece)
    /\ list = <<>> => results = <<>> /\ line_no = [w \in Workers |-> 0]

\* A worker that deals with the task in "msg" has the lock; what it has taken is
\* the task, and it will go on to a later column or to the line after it.
Deals(w) ==
    /\ pc[w] # "none" => list # <<>>
    /\ pc[w] \in {"locked", "read", "pass"} => lock = w
    /\ pc[w] \in {"read", "pass"} => \E p \in 1 .. 2 : Task(msg, p, taken[w].line, taken[w].col)
    /\ pc[w] = "pass" =>
        /\ line_no[w] = taken[w].line /\ col_end[w] > taken[w].col
        /\ record[w] \in 1 .. Len(list)
    /\ pc[w] = "multiply" => Matrix!product(w) \in Piece
    /\ position[w] < Len(list) => line_no[w] <= position[w]

\* Every piece is of an earlier line and column than the task in "msg".
Earlier(x, l, c) == x.line < l \/ (x.line = l /\ x.start < c)
AllEarlier(l, c) ==
    /\ \A k \in DOMAIN results : Earlier(results[k], l, c)
    /\ \A w \in Workers : Matrix!InHand(w) => Earlier(Matrix!product(w), l, c)
Told ==
    /\ list # <<>> =>
        msg[1] = Matrix!Minus \/ \E p \in 1 .. 2 : \E l, c \in Nat : Task(msg, p, l, c)
    /\ \A p \in 1 .. 2 : \A l, c \in Nat :
        Task(msg, p, l, c) => l <= MaxLines /\ AllEarlier(l, c)

MatrixInv ==
    /\ MatrixTyped /\ Told /\ Matrix!PiecesDistinct
    /\ \A w \in Workers : Deals(w)

LEMMA MatrixInit == Matrix!Init => MatrixInv
<1> SUFFICES ASSUME Matrix!Init PROVE MatrixInv
  OBVIOUS
<1>1. /\ list = <<>> /\ team = {} /\ results = <<>> /\ msg = <<>>
      /\ pc = [w \in Workers |-> "none"]
      /\ taken = [w \in Workers |-> [line |-> 0, col |-> 0]]
      /\ record = [w \in Workers |-> 0] /\ position = [w \in Workers |-> 0]
      /\ line_no = [w \in Workers |-> 0] /\ col_end = [w \in Workers |-> 0]
  BY DEF Matrix!Init
<1>2. Len(list) = 0 /\ list \in Seq(1 .. MaxCols) /\ results \in Seq(Piece) /\ DOMAIN results = {}
  BY <1>1
<1>3. MatrixTyped
  <2>1. taken = [w \in Workers |-> taken[w]]
    BY <1>1
  <2>2. 0 <= MaxLines
    BY MatrixConstants
  <2> QED BY <1>1, <1>2, <2>1, <2>2 DEF MatrixTyped
<1>4. \A w \in Workers : pc[w] = "none"
  BY <1>1
<1>5. Told
  <2>1. ASSUME NEW p \in 1 .. 2, NEW l \in Nat, NEW c \in Nat, Task(msg, p, l, c) PROVE FALSE
    <3>1. Len(msg) \in p + 2 .. p + 3 /\ Len(msg) = 0
      BY <1>1, <2>1 DEF Task, TaskText
    <3> QED BY <3>1
  <2> QED BY <1>1, <2>1 DEF Told
<1>6. Matrix!PiecesDistinct
  BY <1>2, <1>4 DEF Matrix!PiecesDistinct, Matrix!InHand
<1>7. ASSUME NEW w \in Workers PROVE Deals(w)
  <2>1. position[w] = 0 /\ line_no[w] = 0
    BY <1>1
  <2> QED BY <1>2, <1>4, <2>1 DEF Deals
<1> QED BY <1>3, <1>5, <1>6, <1>7 DEF MatrixInv

\* What a step must leave alone of a worker, for it to deal as before.
Apart(v) ==
    /\ pc'[v] = pc[v] /\ taken'[v] = taken[v] /\ record'[v] = record[v]
    /\ position'[v] = position[v] /\ line_no'[v] = line_no[v] /\ col_end'[v] = col_end[v]

LEMMA StillDeals ==
    ASSUME NEW v \in Workers, Deals(v), list' = list, Apart(v),
           pc[v] \in {"locked", "read", "pass"} => lock' = lock /\ msg' = msg
    PROVE  Deals(v)'
<1>1. Matrix!product(v)' = Matrix!product(v)
  BY DEF Matrix!product, Apart
<1> QED BY <1>1 DEF Deals, Apart

\* A step that neither tells a task nor adds a piece.
LEMMA PiecesKept ==
    ASSUME MatrixInv, list' = list, msg' = msg, results' = results,
           \A v \in Workers :
             Matrix!InHand(v)' => Matrix!InHand(v) /\ Matrix!product(v)' = Matrix!product(v)
    PROVE  Told' /\ Matrix!PiecesDistinct'
<1>1. Told /\ Matrix!PiecesDistinct
  BY DEF MatrixInv
<1>2. \A l, c \in Nat : AllEarlier(l, c) => AllEarlier(l, c)'
  BY DEF AllEarlier
<1>3. Told'
  BY <1>1, <1>2 DEF Told
<1>4. Matrix!PiecesDistinct'
  BY <1>1 DEF Matrix!PiecesDistinct
<1> QED BY <1>3, <1>4

LEMMA MatrixStart == MatrixInv /\ Matrix!Start => MatrixInv'
<1> SUFFICES ASSUME MatrixInv, Matrix!Start PROVE MatrixInv'
  OBVIOUS
<1>1. /\ list = <<>> /\ team' \in (SUBSET Workers) \ {{}} /\ msg' = Matrix!Printed(0, 0)
      /\ pc' = [w \in Workers |-> IF w \in team' THEN "loop" ELSE "none"]
      /\ UNCHANGED <<lock, taken, record, position, line_no, col_end, results>>
  BY DEF Matrix!Start, Matrix!localVars
<1>2. PICK n \in 1 .. MaxLines : list' \in [1 .. n -> 1 .. MaxCols]
  BY DEF Matrix!Start
<1>3. n \in Nat \ {0} /\ list' \in Seq(1 .. MaxCols) /\ Len(list') = n /\ n <= MaxLines /\ list' # <<>>
  <2>1. n \in Nat \ {0} /\ n <= MaxLines
    BY MatrixConstants
  <2>2. PICK f \in [1 .. n -> 1 .. MaxCols] : list' = f
    BY <1>2
  <2>3. f \in Seq(1 .. MaxCols) /\ Len(f) = n
    <3>1. f = [i \in 1 .. n |-> f[i]] /\ \A i \in 1 .. n : f[i] \in 1 .. MaxCols
      OBVIOUS
    <3>2. f \in Seq(1 .. MaxCols)
      BY <2>1, <3>1
    <3>3. Len(f) = n
      BY <2>1, <3>1
    <3> QED BY <3>2, <3>3
  <2>4. f # <<>>
    BY <2>1, <2>3
  <2> QED BY <2>1, <2>2, <2>3, <2>4
<1>4. results' = <<>> /\ line_no' = [w \in Workers |-> 0]
  BY <1>1 DEF MatrixInv, MatrixTyped
<1>5. pc' \in [Workers -> {"none", "loop", "locked", "read", "pass", "multiply", "ended"}]
  BY <1>1
<1>6. MatrixTyped'
  <2>1. /\ taken = [w \in Workers |-> taken[w]] /\ record \in [Workers -> Nat]
        /\ position \in [Workers -> Nat] /\ line_no \in [Workers -> Nat]
        /\ col_end \in [Workers -> Int] /\ results \in Seq(Piece)
    BY DEF MatrixInv, MatrixTyped
  <2>2. team' \subseteq Workers /\ team' # {}
    BY <1>1
  <2> QED BY <1>1, <1>3, <1>5, <2>1, <2>2 DEF MatrixTyped
<1>7. \A w \in Workers : pc'[w] \in {"none", "loop"}
  BY <1>1
<1>8. \A w \in Workers : ~ Matrix!InHand(w)'
  BY <1>7 DEF Matrix!InHand
<1>9. Matrix!PiecesDistinct'
  BY <1>4, <1>8 DEF Matrix!PiecesDistinct
<1>10. PICK q \in 1 .. 2 : Task(msg', q, 0, 0)
  <2>1. 0 \in Nat /\ 0 < Base * Base
    BY MatrixConstants
  <2> QED BY <1>1, <2>1, PrintedIs
<1>11. Told'
  <2>1. \A l, c : AllEarlier(l, c)'
    BY <1>4, <1>8 DEF AllEarlier
  <2>2. ASSUME NEW p \in 1 .. 2, NEW l \in Nat, NEW c \in Nat, Task(msg', p, l, c) PROVE l <= MaxLines
    <3>1. Matrix!Scanned(msg') = [line |-> l, col |-> c] /\ Matrix!Scanned(msg') = [line |-> 0, col |-> 0]
      BY <1>10, <2>2, TaskScanned
    <3>2. l = 0
      BY <3>1
    <3> QED BY <3>2, MatrixConstants
  <2> QED BY <1>10, <2>1, <2>2 DEF Told
<1>12. ASSUME NEW w \in Workers PROVE Deals(w)'
  <2>1. line_no'[w] = 0 /\ position'[w] \in Nat
    BY <1>4, <1>6 DEF MatrixTyped
  <2> QED BY <1>3, <1>7, <2>1 DEF Deals
<1> QED BY <1>6, <1>9, <1>11, <1>12 DEF MatrixInv

\* Facts that every step of a worker starts from.
LEMMA WorkerTypes ==
    ASSUME MatrixInv, NEW w \in Workers
    PROVE  /\ MatrixTyped /\ Deals(w)
           /\ record[w] \in Nat /\ position[w] \in Nat /\ line_no[w] \in Nat /\ col_end[w] \in Int
           /\ w # None
BY MatrixConstants DEF MatrixInv, MatrixTyped

LEMMA MatrixLock ==
    ASSUME MatrixInv, NEW w \in Workers, Matrix!Lock(w)
    PROVE  MatrixInv'
<1>1. /\ pc[w] = "loop" /\ lock = None /\ lock' = w /\ pc' = [pc EXCEPT ![w] = "locked"]
      /\ UNCHANGED <<list, team, msg, taken, record, position, line_no, col_end, results>>
  BY DEF Matrix!Lock, Matrix!At, Matrix!Goes, Matrix!localVars
<1>2. MatrixTyped /\ pc \in [Workers -> {"none", "loop", "locked", "read", "pass", "multiply", "ended"}]
  BY DEF MatrixInv, MatrixTyped
<1>3. pc'[w] = "locked" /\ \A v \in Workers : v # w => pc'[v] = pc[v]
  BY <1>1, <1>2
<1>4. MatrixTyped'
  BY <1>1, <1>2 DEF MatrixTyped
<1>5. Told' /\ Matrix!PiecesDistinct'
  <2>1. \A v \in Workers :
          Matrix!InHand(v)' => Matrix!InHand(v) /\ Matrix!product(v)' = Matrix!product(v)
    BY <1>1, <1>3 DEF Matrix!InHand, Matrix!product
  <2> QED BY <1>1, <2>1, PiecesKept
<1>6. ASSUME NEW v \in Workers PROVE Deals(v)'
  <2>1. Deals(v)
    BY DEF MatrixInv
  <2>2. CASE v = w
    BY <1>1, <1>3, <2>1, <2>2 DEF Deals
  <2>3. CASE v # w
    <3>1. pc[v] \notin {"locked", "read", "pass"}
      BY <1>1, <2>1, MatrixConstants DEF Deals
    <3> QED BY <1>1, <1>3, <2>1, <2>3, <3>1, StillDeals DEF Apart
  <2> QED BY <2>2, <2>3
<1> QED BY <1>4, <1>5, <1>6 DEF MatrixInv

LEMMA MatrixReadTask ==
    ASSUME MatrixInv, NEW w \in Workers, Matrix!ReadTask(w)
    PROVE  MatrixInv'
<1>1. /\ pc[w] = "locked" /\ taken' = [taken EXCEPT ![w] = Matrix!Scanned(msg)]
      /\ UNCHANGED <<list, team, msg, record, position, line_no, col_end, results>>
      /\ \/ taken'[w].line = -1 /\ lock' = None /\ pc' = [pc EXCEPT ![w] = "loop"]
         \/ taken'[w].line # -1 /\ lock' = lock /\ pc' = [pc EXCEPT ![w] = "read"]
  BY DEF Matrix!ReadTask, Matrix!At, Matrix!Goes
<1>2. MatrixTyped /\ pc \in [Workers -> {"none", "loop", "locked", "read", "pass", "multiply", "ended"}]
      /\ taken = [v \in Workers |-> taken[v]]
  BY DEF MatrixInv, MatrixTyped
<1>3. pc'[w] \in {"loop", "read"} /\ \A v \in Workers : v # w => pc'[v] = pc[v]
  BY <1>1, <1>2
<1>4. /\ taken'[w] = Matrix!Scanned(msg)
      /\ \A v \in Workers : v # w => taken'[v] = taken[v]
      /\ taken' = [v \in Workers |-> taken'[v]]
  BY <1>1, <1>2
<1>5. MatrixTyped'
  <2>1. pc' \in [Workers -> {"none", "loop", "locked", "read", "pass", "multiply", "ended"}]
    BY <1>1, <1>2
  <2> QED BY <1>1, <1>2, <1>4, <2>1 DEF MatrixTyped
<1>6. Told' /\ Matrix!PiecesDistinct'
  <2>1. \A v \in Workers :
          Matrix!InHand(v)' => Matrix!InHand(v) /\ Matrix!product(v)' = Matrix!product(v)
    BY <1>1, <1>3, <1>4 DEF Matrix!InHand, Matrix!product
  <2> QED BY <1>1, <2>1, PiecesKept
<1>7. Deals(w) /\ lock = w /\ list # <<>>
  BY <1>1 DEF MatrixInv, Deals
<1>8. Deals(w)'
  <2>1. CASE pc'[w] = "loop"
    BY <1>1, <1>7, <2>1 DEF Deals
  <2>2. CASE pc'[w] = "read"
    <3>1. taken'[w].line # -1 /\ lock' = lock
      BY <1>1, <1>2, <2>2
    <3>2. msg[1] # Matrix!Minus
      <4>1. msg[1] = Matrix!Minus => Matrix!Scanned(msg).line = -1
        BY DEF Matrix!Scanned
      <4> QED BY <1>4, <3>1, <4>1
    <3>3. PICK p \in 1 .. 2 : \E l, c \in Nat : Task(msg, p, l, c)
      BY <1>7, <3>2 DEF MatrixInv, Told
    <3>4. PICK l \in Nat, c \in Nat : Task(msg, p, l, c)
      BY <3>3
    <3>5. taken'[w] = [line |-> l, col |-> c]
      BY <1>4, <3>4, TaskScanned
    <3>6. Task(msg', p, taken'[w].line, taken'[w].col)
      BY <1>1, <3>4, <3>5
    <3> QED BY <1>1, <1>7, <2>2, <3>1, <3>6 DEF Deals
  <2> QED BY <1>3, <2>1, <2>2
<1>9. ASSUME NEW v \in Workers, v # w PROVE Deals(v)'
  <2>1. Deals(v) /\ pc[v] \notin {"locked", "read", "pass"}
    BY <1>7, <1>9 DEF MatrixInv, Deals
  <2> QED BY <1>1, <1>3, <1>4, <1>9, <2>1, StillDeals DEF Apart
<1> QED BY <1>5, <1>6, <1>8, <1>9 DEF MatrixInv

LEMMA MatrixReadList ==
    ASSUME MatrixInv, NEW w \in Workers, Matrix!ReadList(w)
    PROVE  MatrixInv'
<1> DEFINE ahead == taken[w].line - line_no[w]
           wanted == position[w] + (IF ahead > 1 THEN ahead ELSE 1)
           last == Len(list)
           read == IF wanted < last THEN wanted ELSE last
           share == Matrix!Cardinality(team)
           step == IF list[read] < share THEN 1 ELSE list[read] \div share
<1>1. /\ pc[w] = "read" /\ pc' = [pc EXCEPT ![w] = "pass"]
      /\ position' = [position EXCEPT ![w] = read] /\ record' = [record EXCEPT ![w] = read]
      /\ line_no' = [line_no EXCEPT ![w] = taken[w].line]
      /\ col_end' = [col_end EXCEPT ![w] = taken[w].col + step]
      /\ UNCHANGED <<list, team, msg, lock, taken, results>>
  BY DEF Matrix!ReadList, Matrix!At, Matrix!Goes
<1>2. /\ MatrixTyped
      /\ pc \in [Workers -> {"none", "loop", "locked", "read", "pass", "multiply", "ended"}]
      /\ record \in [Workers -> Nat] /\ position \in [Workers -> Nat]
      /\ line_no \in [Workers -> Nat] /\ col_end \in [Workers -> Int]
      /\ list \in Seq(1 .. MaxCols) /\ team \subseteq Workers /\ (list # <<>> => team # {})
  BY DEF MatrixInv, MatrixTyped
<1>3. Deals(w) /\ lock = w /\ list # <<>>
  BY <1>1 DEF MatrixInv, Deals
<1>4. PICK p \in 1 .. 2 : Task(msg, p, taken[w].line, taken[w].col)
  BY <1>1, <1>3 DEF Deals
<1>5. taken[w].line \in Nat /\ taken[w].col \in Nat
  BY <1>4, TaskScanned
<1>6. last \in Nat \ {0}
  BY <1>2, <1>3, EmptySeq, LenProperties
<1>7. position[w] \in Nat /\ line_no[w] \in Nat /\ (position[w] < last => line_no[w] <= position[w])
  BY <1>2, <1>3 DEF Deals
<1>8. wanted \in Nat \ {0} /\ read \in 1 .. last /\ (read < last => taken[w].line <= read)
  <2>1. ahead \in Int
    BY <1>5, <1>7
  <2>2. wanted \in Nat /\ wanted >= position[w] + ahead /\ wanted >= position[w] + 1
    BY <1>7, <2>1
  <2>3. read \in 1 .. last
    BY <1>6, <1>7, <2>2
  <2>4. ASSUME read < last PROVE taken[w].line <= read
    <3>1. read = wanted /\ position[w] < last
      BY <1>6, <1>7, <2>2, <2>4
    <3>2. line_no[w] <= position[w]
      BY <1>7, <3>1
    <3> HIDE DEF wanted, read
    <3> QED BY <1>5, <1>7, <2>2, <3>1, <3>2
  <2> QED BY <1>7, <2>2, <2>3, <2>4
<1> HIDE DEF wanted, read, ahead
<1>9. share \in Nat \ {0}
  <2>2. IsFiniteSet(team) /\ team # {}
    BY <1>2, <1>3, MatrixFinite, FS_Subset
  <2>3. share = Cardinality(team)
    BY MatrixFinite
  <2> QED BY <2>2, <2>3, FS_CardinalityType, FS_EmptySet
<1> HIDE DEF share
<1>10. step \in Nat \ {0}
  <2>1. list[read] \in 1 .. MaxCols /\ MaxCols \in Nat
    BY <1>2, <1>8, ElementOfSeq, MatrixConstants
  <2>2. PICK x \in Nat : x = list[read]
    BY <2>1
  <2>3. CASE x < share
    BY <2>2, <2>3
  <2>4. CASE ~ x < share
    <3>1. PICK q \in Nat, r \in 0 .. share - 1 : q = x \div share /\ r = x % share /\ x = share * q + r
      BY <1>9, Divide
    <3>2. q # 0
      <4> SUFFICES ASSUME q = 0 PROVE FALSE
        OBVIOUS
      <4>1. share * q = 0
        BY <1>9
      <4> QED BY <1>9, <2>4, <3>1, <4>1
    <3>3. step = q
      BY <2>2, <2>4, <3>1
    <3> QED BY <3>2, <3>3
  <2> QED BY <2>3, <2>4
<1> HIDE DEF step
<1>11. /\ pc'[w] = "pass" /\ position'[w] = read /\ record'[w] = read
       /\ line_no'[w] = taken[w].line /\ col_end'[w] = taken[w].col + step
  BY <1>1, <1>2
<1>12. ASSUME NEW v \in Workers, v # w PROVE Apart(v)
  BY <1>1, <1>2, <1>12 DEF Apart
<1>13. MatrixTyped'
  <2>1. read \in Nat /\ taken[w].col + step \in Int
    BY <1>5, <1>6, <1>8, <1>10
  <2>2. pc' \in [Workers -> {"none", "loop", "locked", "read", "pass", "multiply", "ended"}]
    BY <1>1, <1>2
  <2>3. position' \in [Workers -> Nat] /\ record' \in [Workers -> Nat]
    BY <1>1, <1>2, <2>1
  <2>4. line_no' \in [Workers -> Nat] /\ col_end' \in [Workers -> Int]
    BY <1>1, <1>2, <1>5, <2>1
  <2> QED BY <1>1, <1>2, <1>3, <2>2, <2>3, <2>4 DEF MatrixTyped
<1>14. Told' /\ Matrix!PiecesDistinct'
  <2>1. \A v \in Workers :
          Matrix!InHand(v)' => Matrix!InHand(v) /\ Matrix!product(v)' = Matrix!product(v)
    BY <1>11, <1>12 DEF Matrix!InHand, Matrix!product, Apart
  <2> QED BY <1>1, <2>1, PiecesKept
<1>15. Deals(w)'
  <2>1. col_end'[w] > taken[w].col
    BY <1>5, <1>10, <1>11
  <2> QED BY <1>1, <1>3, <1>4, <1>8, <1>11, <2>1 DEF Deals
<1>16. ASSUME NEW v \in Workers, v # w PROVE Deals(v)'
  <2>1. Deals(v)
    BY DEF MatrixInv
  <2> QED BY <1>1, <1>12, <1>16, <2>1, StillDeals
<1> QED BY <1>13, <1>14, <1>15, <1>16 DEF MatrixInv

LEMMA MatrixPassOn ==
    ASSUME MatrixInv, NEW w \in Workers, Matrix!PassOn(w)
    PROVE  MatrixInv'
<1> DEFINE n == Matrix!next_line(w)
           e == Matrix!col_new_start(w)
           x == Matrix!product(w)
<1>1. /\ pc[w] = "pass" /\ pc' = [pc EXCEPT ![w] = "multiply"] /\ lock' = None
      /\ msg' = Matrix!Overwritten(msg, Matrix!Printed(n, e))
      /\ UNCHANGED <<list, team, taken, record, position, line_no, col_end, results>>
  BY DEF Matrix!PassOn, Matrix!At, Matrix!Goes, Matrix!localVars
<1>2. /\ MatrixTyped /\ Told /\ Matrix!PiecesDistinct
      /\ pc \in [Workers -> {"none", "loop", "locked", "read", "pass", "multiply", "ended"}]
      /\ record \in [Workers -> Nat] /\ position \in [Workers -> Nat]
      /\ line_no \in [Workers -> Nat] /\ col_end \in [Workers -> Int]
      /\ list \in Seq(1 .. MaxCols) /\ Len(list) <= MaxLines
  BY DEF MatrixInv, MatrixTyped
<1>3. Deals(w) /\ lock = w /\ list # <<>>
  BY <1>1 DEF MatrixInv, Deals
<1>4. PICK l, c : l = taken[w].line /\ c = taken[w].col
  OBVIOUS
<1>5. PICK p \in 1 .. 2 : Task(msg, p, l, c)
  BY <1>1, <1>3, <1>4 DEF Deals
<1>6. l \in Nat /\ c \in Nat /\ l <= MaxLines /\ AllEarlier(l, c)
  <2>1. l \in Nat /\ c \in Nat
    BY <1>5, TaskScanned
  <2> QED BY <1>2, <1>5, <2>1 DEF Told
<1>7. /\ line_no[w] = l /\ col_end[w] \in Int /\ col_end[w] > c /\ record[w] \in 1 .. Len(list)
      /\ position[w] \in Nat /\ record[w] \in Nat /\ (position[w] < Len(list) => l <= position[w])
  BY <1>1, <1>2, <1>3, <1>4 DEF Deals
<1>8. list[record[w]] \in 1 .. MaxCols /\ list[record[w]] <= Base * Base
  <2>1. list[record[w]] \in 1 .. MaxCols
    BY <1>2, <1>7, ElementOfSeq
  <2> QED BY <2>1, MatrixConstants
<1>9. e \in Nat /\ e < Base * Base /\ (e # 0 => e > c)
  <2>1. e = IF col_end[w] < list[record[w]] THEN col_end[w] ELSE 0
    BY DEF Matrix!col_new_start
  <2>2. 0 < Base * Base /\ Base * Base \in Nat /\ list[record[w]] \in Nat
    BY <1>8, MatrixConstants
  <2> HIDE DEF e
  <2>3. CASE col_end[w] < list[record[w]]
    BY <1>6, <1>7, <1>8, <2>1, <2>2, <2>3
  <2>4. CASE ~ col_end[w] < list[record[w]]
    BY <2>1, <2>2, <2>4
  <2> QED BY <2>3, <2>4
<1>10. \/ n = -1
       \/ n \in Nat /\ n <= MaxLines /\ ((n = l /\ e > c) \/ n = l + 1)
  <2>1. n = CASE e # 0 -> line_no[w] [] e = 0 /\ position[w] < Len(list) -> line_no[w] + 1 [] OTHER -> -1
    BY DEF Matrix!next_line
  <2> HIDE DEF n, e
  <2>2. CASE e # 0
    <3>1. n = l
      BY <1>7, <2>1, <2>2
    <3> QED BY <1>6, <1>9, <2>2, <3>1
  <2>3. CASE e = 0 /\ position[w] < Len(list)
    <3>1. n = l + 1
      BY <1>7, <2>1, <2>3
    <3>2. l + 1 <= MaxLines
      <4>1. Len(list) \in Nat /\ MaxLines \in Nat
        BY <1>2, LenProperties, MatrixConstants
      <4> QED BY <1>2, <1>6, <1>7, <2>3, <4>1
    <3> QED BY <1>6, <3>1, <3>2
  <2>4. CASE e = 0 /\ ~ position[w] < Len(list)
    BY <2>1, <2>4
  <2> QED BY <2>2, <2>3, <2>4
<1> HIDE DEF n, e
<1>11. pc'[w] = "multiply" /\ \A v \in Workers : v # w => pc'[v] = pc[v]
  BY <1>1, <1>2
<1>12. \A v \in Workers : Matrix!product(v)' = Matrix!product(v)
  BY <1>1 DEF Matrix!product
<1>13. MatrixTyped'
  <2>1. pc' \in [Workers -> {"none", "loop", "locked", "read", "pass", "multiply", "ended"}]
    BY <1>1, <1>2
  <2> QED BY <1>1, <1>2, <2>1 DEF MatrixTyped
<1>14. x \in Piece /\ x.line = l /\ x.start = c
  BY <1>4, <1>6, <1>7 DEF Matrix!product, Piece
<1>15. \A y : Matrix!Before(y, x) <=> Earlier(y, l, c)
  BY <1>14 DEF Matrix!Before, Earlier
<1> HIDE DEF x
<1>16. Matrix!PiecesDistinct'
  <2>1. results' = results /\ \A v \in Workers \ {w} : Matrix!InHand(v)' <=> Matrix!InHand(v)
    BY <1>1, <1>11 DEF Matrix!InHand
  <2>2. \A k \in DOMAIN results : Matrix!Before(results[k], x)
    BY <1>6, <1>15 DEF AllEarlier
  <2>3. \A v \in Workers \ {w} : Matrix!InHand(v) => Matrix!Before(Matrix!product(v), x)
    BY <1>6, <1>15 DEF AllEarlier
  <2>4. ASSUME NEW v \in Workers, NEW k \in DOMAIN results, Matrix!InHand(v)'
        PROVE  Matrix!Before(results[k], Matrix!product(v)) \/ Matrix!Before(Matrix!product(v), results[k])
    BY <1>2, <2>1, <2>2, <2>4 DEF Matrix!PiecesDistinct, x
  <2>5. ASSUME NEW u \in Workers, NEW v \in Workers, u # v, Matrix!InHand(u)', Matrix!InHand(v)'
        PROVE  Matrix!Before(Matrix!product(v), Matrix!product(u)) \/ Matrix!Before(Matrix!product(u), Matrix!product(v))
    <3>1. CASE u = w
      BY <2>1, <2>3, <2>5, <3>1 DEF x
    <3>2. CASE v = w
      BY <2>1, <2>3, <2>5, <3>2 DEF x
    <3>3. CASE u # w /\ v # w
      BY <1>2, <2>1, <2>5, <3>3 DEF Matrix!PiecesDistinct
    <3> QED BY <3>1, <3>2, <3>3
  <2>6. \A k, j \in DOMAIN results :
          k # j => Matrix!Before(results[k], results[j]) \/ Matrix!Before(results[j], results[k])
    BY <1>2 DEF Matrix!PiecesDistinct
  <2>7. \A y, z : Matrix!Before(y, z)' <=> Matrix!Before(y, z)
    BY DEF Matrix!Before
  <2> HIDE DEF Matrix!Before
  <2> QED BY <1>12, <2>1, <2>4, <2>5, <2>6, <2>7 DEF Matrix!PiecesDistinct
<1>17. Told'
  <2>1. ASSUME NEW i \in Nat, NEW j \in Nat, i > l \/ (i = l /\ j > c) PROVE AllEarlier(i, j)'
    <3>1. ASSUME NEW y \in Piece, Earlier(y, l, c) PROVE Earlier(y, i, j)
      <4>1. y.line \in Nat /\ y.start \in Nat
        BY DEF Piece
      <4> QED BY <1>6, <2>1, <3>1, <4>1 DEF Earlier
    <3>2. Earlier(x, i, j)
      BY <1>6, <1>14, <2>1 DEF Earlier
    <3>3. \A k \in DOMAIN results : Earlier(results[k], i, j)
      <4>1. \A k \in DOMAIN results : results[k] \in Piece
        BY ElementOfSeq, <1>2 DEF MatrixTyped
      <4> QED BY <1>6, <3>1, <4>1 DEF AllEarlier
    <3>4. ASSUME NEW v \in Workers, Matrix!InHand(v)' PROVE Earlier(Matrix!product(v), i, j)
      <4>1. CASE v = w
        BY <3>2, <4>1 DEF x
      <4>2. CASE v # w
        <5>1. Matrix!InHand(v)
          BY <1>11, <3>4, <4>2 DEF Matrix!InHand
        <5>2. Matrix!product(v) \in Piece
          BY <5>1 DEF MatrixInv, Deals, Matrix!InHand
        <5> QED BY <1>6, <3>1, <5>1, <5>2 DEF AllEarlier
      <4> QED BY <4>1, <4>2
    <3> QED BY <1>1, <1>12, <3>3, <3>4 DEF AllEarlier
  <2>2. CASE n = -1
    <3>1. msg \in Seq(Int)
      BY <1>5 DEF Task, TaskText
    <3>2. msg'[1] = Matrix!Minus
      BY <1>1, <1>9, <2>2, <3>1, Halted
    <3>3. \A q, i, j : ~ Task(msg', q, i, j)
      BY <3>2, TaskScanned
    <3> QED BY <3>2, <3>3 DEF Told
  <2>3. CASE n # -1
    <3>1. PICK i \in Nat, b \in Nat :
            i = n /\ b = e /\ i <= MaxLines /\ ((i = l /\ b > c) \/ i = l + 1)
      BY <1>9, <1>10, <2>3
    <3>2. i < Base * Base /\ i >= l
      BY <1>6, <3>1, MatrixConstants
    <3>3. PICK q \in 1 .. 2 : \E d \in Nat : d >= b /\ Task(msg', q, i, d)
      BY <1>1, <1>5, <1>9, <3>1, <3>2, Passed
    <3>4. PICK d \in Nat : d >= b /\ Task(msg', q, i, d)
      BY <3>3
    <3>5. AllEarlier(i, d)'
      <4>1. i > l \/ (i = l /\ d > c)
        BY <1>6, <3>1, <3>4
      <4> QED BY <2>1, <4>1
    <3>6. ASSUME NEW a \in 1 .. 2, NEW g \in Nat, NEW h \in Nat, Task(msg', a, g, h) PROVE g = i /\ h = d
      <4>1. Matrix!Scanned(msg') = [line |-> g, col |-> h] /\ Matrix!Scanned(msg') = [line |-> i, col |-> d]
        BY <3>4, <3>6, TaskScanned
      <4> QED BY <4>1
    <3>7. \A a \in 1 .. 2 : \A g, h \in Nat :
            Task(msg', a, g, h) => g <= MaxLines /\ AllEarlier(g, h)'
      BY <3>1, <3>5, <3>6
    <3> QED BY <3>4, <3>7 DEF Told
  <2> QED BY <2>2, <2>3
<1>18. Deals(w)'
  <2>1. Matrix!product(w)' \in Piece
    BY <1>12, <1>14 DEF x
  <2> QED BY <1>1, <1>3, <1>11, <2>1 DEF Deals
<1>19. ASSUME NEW v \in Workers, v # w PROVE Deals(v)'
  <2>1. Deals(v) /\ pc[v] \notin {"locked", "read", "pass"}
    BY <1>3, <1>19 DEF MatrixInv, Deals
  <2> QED BY <1>1, <1>11, <1>19, <2>1, StillDeals DEF Apart
<1> QED BY <1>13, <1>16, <1>17, <1>18, <1>19 DEF MatrixInv

LEMMA MatrixMultiply ==
    ASSUME MatrixInv, NEW w \in Workers, Matrix!Multiply(w)
    PROVE  MatrixInv'
<1> DEFINE x == Matrix!product(w)
           n == Len(results)
<1>1. /\ pc[w] = "multiply" /\ pc' = [pc EXCEPT ![w] = "loop"] /\ results' = Append(results, x)
      /\ UNCHANGED <<list, team, msg, lock, taken, record, position, line_no, col_end>>
  BY DEF Matrix!Multiply, Matrix!At, Matrix!Goes, Matrix!localVars
<1>2. /\ MatrixTyped /\ Told /\ Matrix!PiecesDistinct /\ results \in Seq(Piece)
      /\ pc \in [Workers -> {"none", "loop", "locked", "read", "pass", "multiply", "ended"}]
  BY DEF MatrixInv, MatrixTyped
<1>3. Deals(w) /\ x \in Piece /\ list # <<>> /\ Matrix!InHand(w)
  BY <1>1 DEF MatrixInv, Deals, Matrix!InHand
<1>4. /\ pc'[w] = "loop" /\ \A v \in Workers : v # w => pc'[v] = pc[v]
      /\ ~ Matrix!InHand(w)'
      /\ \A v \in Workers : Matrix!InHand(v)' => Matrix!InHand(v) /\ v # w
  BY <1>1, <1>2 DEF Matrix!InHand
<1>5. \A v \in Workers : Matrix!product(v)' = Matrix!product(v)
  BY <1>1 DEF Matrix!product
<1> HIDE DEF x
<1>6. /\ n \in Nat /\ results' \in Seq(Piece) /\ Len(results') = n + 1
      /\ \A k \in 1 .. n : results'[k] = results[k]
      /\ results'[n + 1] = x
      /\ DOMAIN results = 1 .. n /\ DOMAIN results' = 1 .. n + 1
  <2>1. /\ n \in Nat /\ results' \in Seq(Piece) /\ Len(results') = n + 1
        /\ \A k \in 1 .. n : results'[k] = results[k]
        /\ results'[n + 1] = x
    BY <1>1, <1>2, <1>3, AppendProperties, LenProperties
  <2> QED BY <1>2, <2>1, LenProperties
<1> HIDE DEF n
<1>7. \A k \in DOMAIN results' : (k \in DOMAIN results /\ results'[k] = results[k]) \/ (k = n + 1 /\ results'[k] = x)
  BY <1>6
<1>8. MatrixTyped'
  <2>1. pc' \in [Workers -> {"none", "loop", "locked", "read", "pass", "multiply", "ended"}]
    BY <1>1, <1>2
  <2> QED BY <1>1, <1>2, <1>3, <1>6, <2>1 DEF MatrixTyped
<1>9. Told'
  <2>1. ASSUME NEW l \in Nat, NEW c \in Nat, AllEarlier(l, c) PROVE AllEarlier(l, c)'
    <3>1. Earlier(x, l, c)
      BY <1>3, <2>1 DEF AllEarlier, x
    <3>2. \A k \in DOMAIN results' : Earlier(results'[k], l, c)
      BY <1>7, <2>1, <3>1 DEF AllEarlier
    <3>3. \A v \in Workers : Matrix!InHand(v)' => Earlier(Matrix!product(v), l, c)
      BY <1>4, <2>1 DEF AllEarlier
    <3> QED BY <1>5, <3>2, <3>3 DEF AllEarlier
  <2> QED BY <1>1, <1>2, <2>1 DEF Told
<1>10. Matrix!PiecesDistinct'
  <2> DEFINE Apiece(y, z) == Matrix!Before(y, z) \/ Matrix!Before(z, y)
  <2> HIDE DEF Apiece
  <2>1. \A k, j \in DOMAIN results : k # j => Apiece(results[k], results[j])
    BY <1>2 DEF Matrix!PiecesDistinct, Apiece
  <2>2. \A v \in Workers : Matrix!InHand(v) =>
          \A k \in DOMAIN results : Apiece(results[k], Matrix!product(v))
    BY <1>2 DEF Matrix!PiecesDistinct, Apiece
  <2>3. \A u, v \in Workers : u # v /\ Matrix!InHand(u) /\ Matrix!InHand(v) =>
          Apiece(Matrix!product(u), Matrix!product(v))
    BY <1>2 DEF Matrix!PiecesDistinct, Apiece
  <2>4. \A y, z : Apiece(y, z) <=> Apiece(z, y)
    BY DEF Apiece
  <2>5. \A k \in DOMAIN results : Apiece(results[k], x)
    BY <1>3, <2>2 DEF x
  <2>6. \A v \in Workers : Matrix!InHand(v)' => Apiece(x, Matrix!product(v))
    BY <1>3, <1>4, <2>3 DEF x
  <2>7. ASSUME NEW k \in DOMAIN results', NEW j \in DOMAIN results', k # j
        PROVE  Apiece(results'[k], results'[j])
    BY <1>7, <2>1, <2>4, <2>5, <2>7
  <2>8. ASSUME NEW v \in Workers, Matrix!InHand(v)', NEW k \in DOMAIN results'
        PROVE  Apiece(results'[k], Matrix!product(v))
    BY <1>4, <1>7, <2>2, <2>6, <2>8
  <2>9. ASSUME NEW u \in Workers, NEW v \in Workers, u # v, Matrix!InHand(u)', Matrix!InHand(v)'
        PROVE  Apiece(Matrix!product(u), Matrix!product(v))
    BY <1>4, <2>3, <2>9
  <2>10. \A y, z : Matrix!Before(y, z)' <=> Matrix!Before(y, z)
    BY DEF Matrix!Before
  <2> HIDE DEF Matrix!Before
  <2> QED BY <1>5, <2>7, <2>8, <2>9, <2>10 DEF Matrix!PiecesDistinct, Apiece
<1>11. ASSUME NEW v \in Workers PROVE Deals(v)'
  <2>1. Deals(v)
    BY DEF MatrixInv
  <2>2. CASE v = w
    BY <1>1, <1>3, <1>4, <2>1, <2>2 DEF Deals
  <2>3. CASE v # w
    BY <1>1, <1>4, <2>1, <2>3, StillDeals DEF Apart
  <2> QED BY <2>2, <2>3
<1> QED BY <1>8, <1>9, <1>10, <1>11 DEF MatrixInv

\* A worker whose time is over, or that is killed; its lock is given back.
LEMMA MatrixEnds ==
    ASSUME MatrixInv, NEW w \in Workers, pc[w] # "none",
           pc' = [pc EXCEPT ![w] = "ended"],
           lock' = lock \/ (lock = w /\ lock' = None),
           UNCHANGED <<list, team, msg, taken, record, position, line_no, col_end, results>>
    PROVE  MatrixInv'
<1>1. MatrixTyped /\ pc \in [Workers -> {"none", "loop", "locked", "read", "pass", "multiply", "ended"}]
  BY DEF MatrixInv, MatrixTyped
<1>2. pc'[w] = "ended" /\ \A v \in Workers : v # w => pc'[v] = pc[v]
  BY <1>1
<1>3. MatrixTyped'
  <2>1. pc' \in [Workers -> {"none", "loop", "locked", "read", "pass", "multiply", "ended"}]
    BY <1>1
  <2> QED BY <1>1, <2>1 DEF MatrixTyped
<1>4. Told' /\ Matrix!PiecesDistinct'
  <2>1. \A v \in Workers :
          Matrix!InHand(v)' => Matrix!InHand(v) /\ Matrix!product(v)' = Matrix!product(v)
    BY <1>2 DEF Matrix!InHand, Matrix!product
  <2> QED BY <2>1, PiecesKept
<1>5. ASSUME NEW v \in Workers PROVE Deals(v)'
  <2>1. Deals(v)
    BY DEF MatrixInv
  <2>2. CASE v = w
    BY <1>2, <2>1, <2>2 DEF Deals
  <2>3. CASE v # w
    <3>1. pc[v] \in {"locked", "read", "pass"} => lock' = lock
      BY <2>1, <2>3 DEF Deals
    <3> QED BY <1>2, <2>1, <2>3, <3>1, StillDeals DEF Apart
  <2> QED BY <2>2, <2>3
<1> QED BY <1>3, <1>4, <1>5 DEF MatrixInv

LEMMA MatrixUnchanged ==
    ASSUME MatrixInv,
           UNCHANGED <<list, team, msg, lock, pc, taken, record, position, line_no, col_end, results>>
    PROVE  MatrixInv'
<1>1. MatrixTyped'
  BY DEF MatrixInv, MatrixTyped
<1>2. Told' /\ Matrix!PiecesDistinct'
  <2>1. \A v \in Workers :
          Matrix!InHand(v)' => Matrix!InHand(v) /\ Matrix!product(v)' = Matrix!product(v)
    BY DEF Matrix!InHand, Matrix!product
  <2> QED BY <2>1, PiecesKept
<1>3. ASSUME NEW v \in Workers PROVE Deals(v)'
  <2>1. Deals(v)
    BY DEF MatrixInv
  <2> QED BY <2>1, StillDeals DEF Apart
<1> QED BY <1>1, <1>2, <1>3 DEF MatrixInv

LEMMA MatrixNext == MatrixInv /\ Matrix!Next => MatrixInv'
<1> SUFFICES ASSUME MatrixInv, Matrix!Next PROVE MatrixInv'
  OBVIOUS
<1>1. CASE Matrix!Start
  BY <1>1, MatrixStart
<1>2. CASE Matrix!Paste
  <2>1. UNCHANGED <<list, team, msg, lock, pc, taken, record, position, line_no, col_end, results>>
    BY <1>2 DEF Matrix!Paste, Matrix!localVars
  <2> QED BY <2>1, MatrixUnchanged
<1>3. ASSUME NEW w \in Workers, Matrix!Worker(w) PROVE MatrixInv'
  <2>1. CASE Matrix!Lock(w)
    BY <2>1, MatrixLock
  <2>2. CASE Matrix!ReadTask(w)
    BY <2>2, MatrixReadTask
  <2>3. CASE Matrix!ReadList(w)
    BY <2>3, MatrixReadList
  <2>4. CASE Matrix!PassOn(w)
    BY <2>4, MatrixPassOn
  <2>5. CASE Matrix!Multiply(w)
    BY <2>5, MatrixMultiply
  <2>6. CASE Matrix!TimeOut(w)
    <3>1. /\ pc[w] # "none" /\ pc' = [pc EXCEPT ![w] = "ended"] /\ lock' = lock
          /\ UNCHANGED <<list, team, msg, taken, record, position, line_no, col_end, results>>
      BY <2>6 DEF Matrix!TimeOut, Matrix!At, Matrix!Goes, Matrix!localVars
    <3> QED BY <3>1, MatrixEnds
  <2>7. CASE Matrix!Kill(w)
    <3>1. /\ pc[w] # "none" /\ pc' = [pc EXCEPT ![w] = "ended"]
          /\ lock' = lock \/ (lock = w /\ lock' = None)
          /\ UNCHANGED <<list, team, msg, taken, record, position, line_no, col_end, results>>
      BY <2>7 DEF Matrix!Kill, Matrix!Goes, Matrix!localVars
    <3> QED BY <3>1, MatrixEnds
  <2> QED BY <1>3, <2>1, <2>2, <2>3, <2>4, <2>5, <2>6, <2>7 DEF Matrix!Worker
<1> QED BY <1>1, <1>2, <1>3 DEF Matrix!Next

\* Every run of the program keeps the invariant, as no other program has its
\* variables.
LEMMA MatrixAlways == Spec => []MatrixInv
<1>1. Init => MatrixInv
  BY MatrixInit DEF Init
<1>2. MatrixInv /\ [Next]_vars => MatrixInv'
  <2> SUFFICES ASSUME MatrixInv, [Next]_vars PROVE MatrixInv'
    OBVIOUS
  <2>1. Matrix!Next \/ UNCHANGED matrixVars
    BY DEF Next, vars
  <2>2. CASE Matrix!Next
    BY <2>2, MatrixNext
  <2>3. CASE UNCHANGED matrixVars
    BY <2>3, MatrixUnchanged DEF matrixVars
  <2> QED BY <2>1, <2>2, <2>3
<1> QED BY <1>1, <1>2, PTL DEF Spec

\* Whatever workers there are, and whichever are killed, no line and column of
\* the list is multiplied twice: the task file only ever goes on, although a text
\* written over a longer one keeps its last digit.
THEOREM PiecesDistinctAlways == Spec => []PiecesDistinct
<1>1. MatrixInv => PiecesDistinct
  BY DEF MatrixInv, PiecesDistinct
<1> QED BY <1>1, MatrixAlways, PTL

-----------------------------------------------------------------------------
(* The matrix workers: one worker by itself *)

Whole(k) == [line |-> k - 1, start |-> 0, end |-> list[k], record |-> k]
Says(n) == \E p \in 1 .. 2 : Task(msg, p, n, 0) /\ Len(msg) = p + 2
Tells(n) ==
    \/ msg[1] = Matrix!Minus /\ n = Len(list)
    \/ Says(n) /\ n < Len(list)

\* When w is the only worker, the text has never anything left behind it, and w
\* is one record ahead of the line it counts.
InOrder(w) ==
    LET n == Len(results) IN
    /\ n <= Len(list) /\ \A k \in DOMAIN results : results[k] = Whole(k)
    /\ pc[w] \in {"loop", "locked", "read"} =>
        Tells(n) /\ position[w] = n /\ line_no[w] = IF n = 0 THEN 0 ELSE n - 1
    /\ pc[w] = "read" => n < Len(list) /\ taken[w] = [line |-> n, col |-> 0]
    /\ pc[w] \in {"pass", "multiply"} =>
        n < Len(list) /\ Matrix!product(w) = Whole(n + 1) /\ position[w] = n + 1 /\ line_no[w] = n
    /\ pc[w] = "pass" => Says(n)
    /\ pc[w] = "multiply" => Tells(n + 1)
    /\ \A r \in DOMAIN pasted : pasted[r] = IF r <= n THEN <<results[r]>> ELSE <<>>

OneInv ==
    /\ list = <<>> => team = {} /\ pasted = <<>> /\ position = [w \in Workers |-> 0]
    /\ \A w \in Workers : w \notin team => pc[w] = "none"
    /\ pasted # <<>> => \A w \in team : pc[w] = "ended"
    /\ \A w \in Workers : team = {w} => InOrder(w)

LEMMA OneInit == Matrix!Init => OneInv
  BY DEF Matrix!Init, OneInv

LEMMA OneStart == MatrixInv /\ OneInv /\ Matrix!Start => OneInv'
<1> SUFFICES ASSUME MatrixInv, OneInv, Matrix!Start PROVE OneInv'
  OBVIOUS
<1>1. /\ list = <<>> /\ list' # <<>> /\ team' \in (SUBSET Workers) \ {{}} /\ msg' = Matrix!Printed(0, 0)
      /\ pc' = [w \in Workers |-> IF w \in team' THEN "loop" ELSE "none"]
      /\ UNCHANGED <<position, line_no, results, pasted>>
  <2>1. MatrixInv'
    BY MatrixStart
  <2>2. PICK n \in 1 .. MaxLines : list' \in [1 .. n -> 1 .. MaxCols]
    BY DEF Matrix!Start
  <2>3. list' # <<>>
    <3>1. n \in Nat \ {0} /\ DOMAIN list' = 1 .. n
      BY <2>2, MatrixConstants
    <3>2. 1 \in DOMAIN list'
      BY <3>1
    <3> QED BY <3>2
  <2> QED BY <2>3 DEF Matrix!Start, Matrix!localVars
<1>2. MatrixTyped' /\ results = <<>> /\ line_no = [w \in Workers |-> 0] /\ pasted = <<>>
  BY <1>1, MatrixStart DEF MatrixInv, MatrixTyped, OneInv
<1>3. PICK q \in 1 .. 2 : Task(msg', q, 0, 0) /\ Len(msg') = q + 2
  <2>1. 0 \in Nat /\ 0 < Base * Base /\ 0 < Base
    BY MatrixConstants
  <2> QED BY <1>1, <2>1, PrintedIs
<1>4. Len(list') \in Nat \ {0}
  BY <1>1, <1>2, EmptySeq, LenProperties DEF MatrixTyped
<1>5. ASSUME NEW w \in Workers, team' = {w} PROVE InOrder(w)'
  <2>1. pc'[w] = "loop" /\ line_no'[w] = 0
    BY <1>1, <1>2, <1>5
  <2>2. results' = <<>> /\ Len(results') = 0 /\ DOMAIN results' = {} /\ pasted' = <<>> /\ DOMAIN pasted' = {}
    BY <1>1, <1>2
  <2>3. position'[w] = 0
    BY <1>1 DEF OneInv
  <2>4. Tells(0)'
    BY <1>3, <1>4 DEF Tells, Says
  <2> QED BY <1>4, <2>1, <2>2, <2>3, <2>4 DEF InOrder
<1>6. (\A w \in Workers : w \notin team => pc[w] = "none")'
  BY <1>1
<1> QED BY <1>1, <1>2, <1>5, <1>6 DEF OneInv

\* For the steps of a worker.
LEMMA OneStep ==
    ASSUME MatrixInv, OneInv, NEW w \in Workers, pc[w] \notin {"none", "ended"},
           UNCHANGED <<list, team, pasted>>,
           \A v \in Workers : v # w => pc'[v] = pc[v],
           team = {w} /\ InOrder(w) /\ pasted = <<>> => InOrder(w)'
    PROVE  OneInv'
<1>1. w \in team /\ pasted = <<>> /\ list # <<>>
  BY DEF OneInv, MatrixInv, Deals
<1>2. ASSUME NEW v \in Workers, team = {v} PROVE InOrder(v)'
  <2>1. v = w
    BY <1>1, <1>2
  <2> QED BY <1>1, <1>2, <2>1 DEF OneInv
<1>3. ASSUME NEW v \in Workers, v \notin team PROVE pc'[v] = "none"
  BY <1>1, <1>3 DEF OneInv
<1> QED BY <1>1, <1>2, <1>3 DEF OneInv

LEMMA OneLock ==
    ASSUME MatrixInv, OneInv, NEW w \in Workers, Matrix!Lock(w)
    PROVE  OneInv'
<1>1. /\ pc[w] = "loop" /\ pc' = [pc EXCEPT ![w] = "locked"]
      /\ UNCHANGED <<list, team, msg, taken, record, position, line_no, col_end, results, pasted>>
  BY DEF Matrix!Lock, Matrix!At, Matrix!Goes, Matrix!localVars
<1>2. pc'[w] = "locked" /\ \A v \in Workers : v # w => pc'[v] = pc[v]
  BY <1>1 DEF MatrixInv, MatrixTyped
<1>3. InOrder(w) => InOrder(w)'
  BY <1>1, <1>2 DEF InOrder, Tells, Says, Whole
<1> QED BY <1>1, <1>2, <1>3, OneStep

LEMMA OneReadTask ==
    ASSUME MatrixInv, OneInv, NEW w \in Workers, Matrix!ReadTask(w)
    PROVE  OneInv'
<1>1. /\ pc[w] = "locked" /\ taken' = [taken EXCEPT ![w] = Matrix!Scanned(msg)]
      /\ UNCHANGED <<list, team, msg, record, position, line_no, col_end, results, pasted>>
      /\ \/ taken'[w].line = -1 /\ pc' = [pc EXCEPT ![w] = "loop"]
         \/ taken'[w].line # -1 /\ pc' = [pc EXCEPT ![w] = "read"]
  BY DEF Matrix!ReadTask, Matrix!At, Matrix!Goes
<1>2. pc'[w] \in {"loop", "read"} /\ \A v \in Workers : v # w => pc'[v] = pc[v]
  BY <1>1 DEF MatrixInv, MatrixTyped
<1>3. taken'[w] = Matrix!Scanned(msg)
  BY <1>1 DEF MatrixInv, MatrixTyped
<1>4. ASSUME InOrder(w) PROVE InOrder(w)'
  <2> DEFINE n == Len(results)
  <2>1. Tells(n)
    BY <1>1, <1>4 DEF InOrder
  <2>2. CASE pc'[w] = "loop"
    BY <1>1, <1>4, <2>2 DEF InOrder, Tells, Says, Whole
  <2>3. CASE pc'[w] = "read"
    <3>1. taken'[w].line # -1
      BY <1>1, <2>3 DEF MatrixInv, MatrixTyped
    <3>2. msg[1] # Matrix!Minus
      <4>1. msg[1] = Matrix!Minus => Matrix!Scanned(msg).line = -1
        BY DEF Matrix!Scanned
      <4> QED BY <1>3, <3>1, <4>1
    <3>3. n < Len(list) /\ Says(n)
      BY <2>1, <3>2 DEF Tells
    <3>4. taken'[w] = [line |-> n, col |-> 0]
      <4>1. PICK p \in 1 .. 2 : Task(msg, p, n, 0)
        BY <3>3 DEF Says
      <4> QED BY <1>3, <4>1, TaskScanned
    <3> QED BY <1>1, <1>4, <2>3, <3>3, <3>4 DEF InOrder, Tells, Says, Whole
  <2> QED BY <1>2, <2>2, <2>3
<1> QED BY <1>1, <1>2, <1>4, OneStep

LEMMA OneReadList ==
    ASSUME MatrixInv, OneInv, NEW w \in Workers, Matrix!ReadList(w)
    PROVE  OneInv'
<1> DEFINE ahead == taken[w].line - line_no[w]
           wanted == position[w] + (IF ahead > 1 THEN ahead ELSE 1)
           last == Len(list)
           read == IF wanted < last THEN wanted ELSE last
           share == Matrix!Cardinality(team)
           step == IF list[read] < share THEN 1 ELSE list[read] \div share
<1>1. /\ pc[w] = "read" /\ pc' = [pc EXCEPT ![w] = "pass"]
      /\ position' = [position EXCEPT ![w] = read] /\ record' = [record EXCEPT ![w] = read]
      /\ line_no' = [line_no EXCEPT ![w] = taken[w].line]
      /\ col_end' = [col_end EXCEPT ![w] = taken[w].col + step]
      /\ UNCHANGED <<list, team, msg, taken, results, pasted>>
  BY DEF Matrix!ReadList, Matrix!At, Matrix!Goes
<1>2. /\ record \in [Workers -> Nat] /\ position \in [Workers -> Nat]
      /\ line_no \in [Workers -> Nat] /\ col_end \in [Workers -> Int]
      /\ pc \in [Workers -> {"none", "loop", "locked", "read", "pass", "multiply", "ended"}]
      /\ list \in Seq(1 .. MaxCols) /\ results \in Seq(Piece)
  BY DEF MatrixInv, MatrixTyped
<1>3. pc'[w] = "pass" /\ \A v \in Workers : v # w => pc'[v] = pc[v]
  BY <1>1, <1>2
<1>4. ASSUME team = {w}, InOrder(w), pasted = <<>> PROVE InOrder(w)'
  <2> DEFINE n == Len(results)
  <2>1. /\ n \in Nat /\ last \in Nat /\ n < last /\ taken[w] = [line |-> n, col |-> 0]
        /\ Tells(n) /\ position[w] = n /\ line_no[w] = IF n = 0 THEN 0 ELSE n - 1
        /\ \A k \in DOMAIN results : results[k] = Whole(k)
    BY <1>1, <1>2, <1>4, LenProperties DEF InOrder
  <2> HIDE DEF n
  <2>2. taken[w].line = n /\ taken[w].col = 0
    BY <2>1
  <2>3. ahead \in 0 .. 1
    BY <2>1, <2>2
  <2>4. wanted = n + 1
    <3> HIDE DEF ahead
    <3> QED BY <2>1, <2>3
  <2>5. read = n + 1
    <3> HIDE DEF wanted
    <3> QED BY <2>1, <2>4
  <2> HIDE DEF read, last
  <2>6. share = 1
    <3>1. Cardinality({w}) = 1
      BY FS_Singleton
    <3> QED BY <1>4, <3>1, MatrixFinite
  <2>7. PICK x \in 1 .. MaxCols : x = list[n + 1]
    <3>1. n + 1 \in 1 .. Len(list)
      BY <2>1 DEF last
    <3> QED BY <1>2, <3>1, ElementOfSeq
  <2>8. step = x
    <3>1. x \in Nat \ {0}
      BY MatrixConstants
    <3>2. PICK q \in Nat, r \in 0 .. 1 - 1 : q = x \div 1 /\ r = x % 1 /\ x = 1 * q + r
      BY <3>1, Divide
    <3> QED BY <2>5, <2>6, <2>7, <3>1, <3>2
  <2> HIDE DEF step
  <2>9. position'[w] = n + 1 /\ record'[w] = n + 1 /\ line_no'[w] = n /\ col_end'[w] = list[n + 1]
    <3>1. taken[w].col + step = x
      BY <2>2, <2>8, MatrixConstants
    <3> QED BY <1>1, <1>2, <2>2, <2>5, <2>7, <3>1
  <2>10. Matrix!product(w)' = Whole(n + 1)
    <3> DEFINE j == n + 1
               piece == [line |-> n, start |-> 0, end |-> list[j], record |-> j]
    <3>1. j - 1 = n
      BY <2>1
    <3>2. taken'[w].line = n /\ taken'[w].col = 0
      BY <1>1, <2>2
    <3>3. Matrix!product(w)' = piece
      BY <2>9, <3>2 DEF Matrix!product
    <3>4. Whole(j) = [line |-> j - 1, start |-> 0, end |-> list[j], record |-> j]
      BY DEF Whole
    <3> HIDE DEF j
    <3>5. Whole(j) = piece
      BY <3>1, <3>4
    <3> HIDE DEF piece
    <3>6. Matrix!product(w)' = Whole(j)
      BY <3>3, <3>5
    <3> QED BY <3>6 DEF j
  <2>11. Says(n)
    BY <2>1 DEF Tells, last
  <2>12. Says(n)'
    BY <1>1, <2>11 DEF Says, n
  <2> HIDE DEF Matrix!product
  <2>13. \A k \in DOMAIN results' : results'[k] = Whole(k)'
    BY <1>1, <2>1 DEF Whole
  <2>14. Len(results') = n /\ Len(list') = last /\ DOMAIN pasted' = {}
    BY <1>1, <1>4 DEF n, last
  <2>15. (Whole(Len(results) + 1))' = Whole(n + 1)
    BY <1>1 DEF Whole, n
  <2>16. (Says(Len(results)))'
    BY <1>1, <2>12 DEF Says, n
  <2> QED BY <1>3, <2>1, <2>9, <2>10, <2>13, <2>14, <2>15, <2>16 DEF InOrder
<1> QED BY <1>1, <1>3, <1>4, OneStep

LEMMA OnePassOn ==
    ASSUME MatrixInv, OneInv, NEW w \in Workers, Matrix!PassOn(w)
    PROVE  OneInv'
<1> DEFINE z == Matrix!next_line(w)
           e == Matrix!col_new_start(w)
<1>1. /\ pc[w] = "pass" /\ pc' = [pc EXCEPT ![w] = "multiply"]
      /\ msg' = Matrix!Overwritten(msg, Matrix!Printed(z, e))
      /\ UNCHANGED <<list, team, taken, record, position, line_no, col_end, results, pasted>>
  BY DEF Matrix!PassOn, Matrix!At, Matrix!Goes, Matrix!localVars
<1>2. pc'[w] = "multiply" /\ \A v \in Workers : v # w => pc'[v] = pc[v]
  BY <1>1 DEF MatrixInv, MatrixTyped
<1>3. list \in Seq(1 .. MaxCols) /\ Len(list) <= MaxLines /\ results \in Seq(Piece)
  BY DEF MatrixInv, MatrixTyped
<1>4. ASSUME InOrder(w), pasted = <<>> PROVE InOrder(w)'
  <2>1. PICK n \in Nat : n = Len(results)
    BY <1>3, LenProperties
  <2>2. /\ n < Len(list) /\ Matrix!product(w) = Whole(n + 1) /\ position[w] = n + 1 /\ line_no[w] = n
        /\ Says(n) /\ \A k \in DOMAIN results : results[k] = Whole(k)
    BY <1>1, <1>4, <2>1 DEF InOrder
  <2>3. Len(list) \in Nat
    BY <1>3, LenProperties
  <2>4. col_end[w] = list[n + 1] /\ record[w] = n + 1
    BY <2>2 DEF Matrix!product, Whole
  <2>5. e = 0
    <3>1. list[n + 1] \in Int
      <4>1. n + 1 \in 1 .. Len(list)
        BY <2>2, <2>3
      <4>2. list[n + 1] \in 1 .. MaxCols
        BY <1>3, <4>1, ElementOfSeq
      <4> QED BY <4>2, MatrixConstants
    <3> QED BY <2>4, <3>1 DEF Matrix!col_new_start
  <2>6. z = IF n + 1 < Len(list) THEN n + 1 ELSE -1
    BY <2>2, <2>5 DEF Matrix!next_line
  <2> HIDE DEF z, e
  <2>7. PICK p \in 1 .. 2 : Task(msg, p, n, 0) /\ Len(msg) = p + 2
    BY <2>2 DEF Says
  <2>8. msg' = Matrix!Overwritten(msg, Matrix!Printed(z, 0))
    BY <1>1, <2>5
  <2>9. 0 \in Nat /\ 0 < Base * Base /\ 0 < Base
    BY MatrixConstants
  <2>10. Tells(n + 1)'
    <3>1. CASE n + 1 < Len(list)
      <4>1. n + 1 \in Nat /\ n + 1 < Base * Base /\ n + 1 >= n
        <5>1. MaxLines \in Nat /\ Base * Base \in Nat /\ MaxLines < Base * Base
          BY MatrixConstants
        <5> QED BY <1>3, <2>3, <3>1, <5>1
      <4>2. msg' = Matrix!Overwritten(msg, Matrix!Printed(n + 1, 0))
        BY <2>6, <2>8, <3>1
      <4>3. PICK q \in 1 .. 2 : \E d \in Nat : /\ d >= 0 /\ Task(msg', q, n + 1, d)
                                               /\ Len(msg) = p + 2 /\ 0 < Base => d = 0 /\ Len(msg') = q + 2
        BY <2>7, <2>9, <4>1, <4>2, Passed
      <4>4. Task(msg', q, n + 1, 0) /\ Len(msg') = q + 2
        BY <2>7, <2>9, <4>3
      <4> QED BY <1>1, <3>1, <4>4 DEF Tells, Says
    <3>2. CASE ~ n + 1 < Len(list)
      <4>1. n + 1 = Len(list)
        BY <2>2, <2>3, <3>2
      <4>2. msg' = Matrix!Overwritten(msg, Matrix!Printed(-1, 0))
        BY <2>6, <2>8, <3>2
      <4>3. msg'[1] = Matrix!Minus
        <5>1. msg \in Seq(Int)
          BY <2>7 DEF Task, TaskText
        <5> QED BY <2>9, <4>2, <5>1, Halted
      <4> QED BY <1>1, <4>1, <4>3 DEF Tells
    <3> QED BY <3>1, <3>2
  <2>11. Matrix!product(w)' = Matrix!product(w)
    BY <1>1 DEF Matrix!product
  <2>12. \A k : Whole(k)' = Whole(k)
    BY <1>1 DEF Whole
  <2>13. Len(results') = n /\ DOMAIN pasted' = {}
    BY <1>1, <1>4, <2>1
  <2> HIDE DEF Matrix!product, Tells, Whole
  <2> QED BY <1>1, <1>2, <2>2, <2>3, <2>10, <2>11, <2>12, <2>13 DEF InOrder
<1> QED BY <1>1, <1>2, <1>4, OneStep

LEMMA OneMultiply ==
    ASSUME MatrixInv, OneInv, NEW w \in Workers, Matrix!Multiply(w)
    PROVE  OneInv'
<1> DEFINE x == Matrix!product(w)
<1>1. /\ pc[w] = "multiply" /\ pc' = [pc EXCEPT ![w] = "loop"] /\ results' = Append(results, x)
      /\ UNCHANGED <<list, team, msg, taken, record, position, line_no, col_end, pasted>>
  BY DEF Matrix!Multiply, Matrix!At, Matrix!Goes, Matrix!localVars
<1>2. pc'[w] = "loop" /\ \A v \in Workers : v # w => pc'[v] = pc[v]
  BY <1>1 DEF MatrixInv, MatrixTyped
<1>3. results \in Seq(Piece) /\ x \in Piece /\ list \in Seq(1 .. MaxCols)
  BY <1>1 DEF MatrixInv, MatrixTyped, Deals
<1>4. ASSUME InOrder(w), pasted = <<>> PROVE InOrder(w)'
  <2>1. PICK n \in Nat : n = Len(results)
    BY <1>3, LenProperties
  <2>2. /\ n < Len(list) /\ x = Whole(n + 1) /\ position[w] = n + 1 /\ line_no[w] = n
        /\ Tells(n + 1) /\ \A k \in DOMAIN results : results[k] = Whole(k)
    BY <1>1, <1>4, <2>1 DEF InOrder
  <2> HIDE DEF x
  <2>3. Len(list) \in Nat
    BY <1>3, LenProperties
  <2>4. /\ results' \in Seq(Piece) /\ Len(results') = n + 1
        /\ \A k \in 1 .. n : results'[k] = results[k]
        /\ results'[n + 1] = x
    BY <1>1, <1>3, <2>1, AppendProperties
  <2>5. DOMAIN results = 1 .. n /\ DOMAIN results' = 1 .. n + 1
    BY <1>3, <2>1, <2>4, LenProperties
  <2>6. \A k : Whole(k)' = Whole(k)
    BY <1>1 DEF Whole
  <2>7. \A k \in DOMAIN results' : results'[k] = Whole(k)'
    <3>1. \A k \in DOMAIN results' : k \in DOMAIN results \/ k = n + 1
      BY <2>1, <2>5
    <3> QED BY <2>2, <2>4, <2>5, <2>6, <3>1
  <2>8. Tells(n + 1)'
    BY <1>1, <2>2 DEF Tells, Says
  <2>9. n + 1 # 0 /\ n + 1 - 1 = n /\ n + 1 <= Len(list)
    BY <2>1, <2>2, <2>3
  <2> HIDE DEF Tells, Whole
  <2> QED BY <1>1, <1>2, <1>4, <2>2, <2>4, <2>7, <2>8, <2>9 DEF InOrder
<1> QED BY <1>1, <1>2, <1>4, OneStep

LEMMA OneEnds ==
    ASSUME MatrixInv, OneInv, NEW w \in Workers, pc[w] \notin {"none", "ended"},
           pc' = [pc EXCEPT ![w] = "ended"],
           UNCHANGED <<list, team, msg, taken, record, position, line_no, col_end, results, pasted>>
    PROVE  OneInv'
<1>1. pc'[w] = "ended" /\ \A v \in Workers : v # w => pc'[v] = pc[v]
  BY DEF MatrixInv, MatrixTyped
<1>2. InOrder(w) => InOrder(w)'
  BY <1>1 DEF InOrder, Whole
<1> QED BY <1>1, <1>2, OneStep

LEMMA OnePaste == MatrixInv /\ OneInv /\ Matrix!Paste => OneInv'
<1> SUFFICES ASSUME MatrixInv, OneInv, Matrix!Paste PROVE OneInv'
  OBVIOUS
<1>1. /\ team # {} /\ pasted = <<>> /\ \A w \in team : pc[w] = "ended"
      /\ pasted' = [r \in DOMAIN list |-> Matrix!pieces(r)]
      /\ UNCHANGED <<list, team, msg, pc, taken, record, position, line_no, col_end, results>>
  BY DEF Matrix!Paste, Matrix!localVars
<1>2. ASSUME NEW w \in Workers, team = {w} PROVE InOrder(w)'
  <2>1. InOrder(w) /\ pc[w] = "ended"
    BY <1>1, <1>2 DEF OneInv
  <2>2. list \in Seq(1 .. MaxCols) /\ results \in Seq(Piece)
    BY DEF MatrixInv, MatrixTyped
  <2>3. PICK n \in Nat : n = Len(results)
    BY <2>2, LenProperties
  <2>4. DOMAIN results = 1 .. n /\ DOMAIN list = 1 .. Len(list) /\ Len(list) \in Nat
    BY <2>2, <2>3, LenProperties
  <2>5. \A k \in 1 .. n : results[k].record = k
    BY <2>1, <2>4 DEF InOrder, Whole
  <2>6. ASSUME NEW r \in DOMAIN list PROVE Matrix!pieces(r) = IF r <= n THEN <<results[r]>> ELSE <<>>
    <3> DEFINE files == {k \in DOMAIN results : results[k].record = r}
               before(k) == {j \in files : results[j].start < results[k].start
                                           \/ (results[j].start = results[k].start /\ j < k)}
               chosen(i) == CHOOSE k \in files : Matrix!Cardinality(before(k)) = i - 1
               pasting == [i \in 1 .. Matrix!Cardinality(files) |-> results[chosen(i)]]
    <3>1. Matrix!pieces(r) = pasting
      BY DEF Matrix!pieces
    <3>2. CASE r <= n
      <4>1. files = {r}
        BY <2>4, <2>5, <3>2
      <4>2. Matrix!Cardinality(files) = 1
        BY <4>1, FS_Singleton, MatrixFinite
      <4>3. before(r) = {}
        <5>1. results[r].start \in Nat /\ r \in Int
          <6>1. r \in 1 .. n
            BY <2>4, <3>2
          <6>2. results[r] \in Piece
            BY <2>2, <2>4, <6>1, ElementOfSeq
          <6> QED BY <6>1, <6>2 DEF Piece
        <5>2. \A j \in files : j = r
          BY <4>1
        <5> HIDE DEF files
        <5> QED BY <5>1, <5>2
      <4>4. Matrix!Cardinality(before(r)) = 1 - 1
        BY <4>3, FS_EmptySet, MatrixFinite
      <4> HIDE DEF before
      <4>5. chosen(1) = r
        BY <4>1, <4>4
      <4> HIDE DEF files, chosen
      <4>6. pasting = [i \in 1 .. 1 |-> results[chosen(i)]]
        BY <4>2
      <4> HIDE DEF pasting
      <4>7. pasting = <<results[r]>>
        BY <4>5, <4>6
      <4> QED BY <3>1, <3>2, <4>7
    <3>3. CASE ~ r <= n
      <4>1. files = {}
        <5>1. \A k \in 1 .. n : k # r
          BY <2>3, <2>4, <3>3
        <5> QED BY <2>4, <2>5, <5>1
      <4>2. Matrix!Cardinality(files) = 0
        BY <4>1, FS_EmptySet, MatrixFinite
      <4> HIDE DEF files, chosen
      <4>3. pasting = <<>>
        BY <4>2
      <4> QED BY <3>1, <3>3, <4>3
    <3> QED BY <3>2, <3>3
  <2>7. \A r \in DOMAIN pasted' : pasted'[r] = IF r <= n THEN <<results[r]>> ELSE <<>>
    BY <1>1, <2>6
  <2> QED BY <1>1, <2>1, <2>3, <2>7 DEF InOrder, Whole
<1>3. list # <<>>
  BY <1>1 DEF OneInv
<1>4. pc' = pc /\ team' = team /\ list' = list
  BY <1>1
<1> QED BY <1>1, <1>2, <1>3, <1>4 DEF OneInv

LEMMA OneNext ==
    ASSUME MatrixInv, OneInv, [Next]_vars
    PROVE  OneInv'
<1>1. CASE Matrix!Start
  BY <1>1, OneStart
<1>2. CASE Matrix!Paste
  BY <1>2, OnePaste
<1>3. ASSUME NEW w \in Workers, Matrix!Worker(w) PROVE OneInv'
  <2>1. CASE Matrix!Lock(w)
    BY <2>1, OneLock
  <2>2. CASE Matrix!ReadTask(w)
    BY <2>2, OneReadTask
  <2>3. CASE Matrix!ReadList(w)
    BY <2>3, OneReadList
  <2>4. CASE Matrix!PassOn(w)
    BY <2>4, OnePassOn
  <2>5. CASE Matrix!Multiply(w)
    BY <2>5, OneMultiply
  <2>6. CASE Matrix!TimeOut(w)
    <3>1. /\ pc[w] \notin {"none", "ended"} /\ pc' = [pc EXCEPT ![w] = "ended"]
          /\ UNCHANGED <<list, team, msg, taken, record, position, line_no, col_end, results, pasted>>
      BY <2>6 DEF Matrix!TimeOut, Matrix!At, Matrix!Goes, Matrix!localVars
    <3> QED BY <3>1, OneEnds
  <2>7. CASE Matrix!Kill(w)
    <3>1. /\ pc[w] \notin {"none", "ended"} /\ pc' = [pc EXCEPT ![w] = "ended"]
          /\ UNCHANGED <<list, team, msg, taken, record, position, line_no, col_end, results, pasted>>
      BY <2>7 DEF Matrix!Kill, Matrix!Goes, Matrix!localVars
    <3> QED BY <3>1, OneEnds
  <2> QED BY <1>3, <2>1, <2>2, <2>3, <2>4, <2>5, <2>6, <2>7 DEF Matrix!Worker
<1>4. CASE UNCHANGED matrixVars
  <2>1. \A w : InOrder(w) => InOrder(w)'
    BY <1>4 DEF matrixVars, InOrder, Tells, Says, Whole, Matrix!product
  <2> QED BY <1>4, <2>1 DEF matrixVars, OneInv
<1>5. Matrix!Next \/ UNCHANGED matrixVars
  BY DEF Next, vars
<1> QED BY <1>1, <1>2, <1>3, <1>4, <1>5 DEF Matrix!Next

LEMMA OneRight == MatrixInv /\ OneInv => OneWorkerRight
<1> SUFFICES ASSUME MatrixInv, OneInv, Matrix!Cardinality(team) = 1
             PROVE  /\ Len(results) <= Len(list)
                    /\ \A k \in DOMAIN results :
                         results[k] = [line |-> k - 1, start |-> 0, end |-> list[k], record |-> k]
                    /\ \A w \in team : pc[w] \in {"loop", "locked"} =>
                         Len(results) = IF Matrix!Scanned(msg).line = -1 THEN Len(list)
                                        ELSE Matrix!Scanned(msg).line
                    /\ \A r \in DOMAIN pasted :
                         pasted[r] = IF r <= Len(results) THEN <<results[r]>> ELSE <<>>
  BY DEF OneWorkerRight, Matrix!OneWorkerRight
<1>1. team \subseteq Workers /\ IsFiniteSet(team)
  BY MatrixFinite, FS_Subset DEF MatrixInv, MatrixTyped
<1>2. PICK w \in Workers : team = {w}
  <2>1. Cardinality(team) = 1
    BY MatrixFinite
  <2>2. \E x : team = {x}
    BY <1>1, <2>1, FS_Singleton
  <2> QED BY <1>1, <2>2
<1>3. InOrder(w)
  BY <1>2 DEF OneInv
<1>4. ASSUME pc[w] \in {"loop", "locked"}
      PROVE  Len(results) = IF Matrix!Scanned(msg).line = -1 THEN Len(list)
                            ELSE Matrix!Scanned(msg).line
  <2>1. Tells(Len(results))
    BY <1>3, <1>4 DEF InOrder
  <2>2. CASE msg[1] = Matrix!Minus /\ Len(results) = Len(list)
    <3>1. Matrix!Scanned(msg).line = -1
      BY <2>2 DEF Matrix!Scanned
    <3> QED BY <2>2, <3>1
  <2>3. CASE Says(Len(results))
    <3>1. PICK p \in 1 .. 2 : Task(msg, p, Len(results), 0)
      BY <2>3 DEF Says
    <3>2. Matrix!Scanned(msg).line = Len(results) /\ Len(results) \in Nat
      BY <3>1, TaskScanned
    <3> QED BY <3>2
  <2> QED BY <2>1, <2>2, <2>3 DEF Tells
<1> QED BY <1>2, <1>3, <1>4 DEF InOrder, Whole

\* One worker by itself multiplies the lines in order, each whole and with the
\* matrices of its record; what the manager pastes are these products.
THEOREM OneWorkerRightAlways == Spec => []OneWorkerRight
<1>1. Init => OneInv
  BY OneInit DEF Init
<1>2. MatrixInv /\ OneInv /\ [Next]_vars => OneInv'
  BY OneNext
<1>3. MatrixInv /\ OneInv => OneWorkerRight
  BY OneRight
<1> QED BY <1>1, <1>2, <1>3, MatrixAlways, PTL DEF Spec
=============================================================================
