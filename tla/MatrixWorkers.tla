---------------------------- MODULE MatrixWorkers ----------------------------
(***************************************************************************)
(* Multiplying the matrices of a list with several processes (cw03/zad2,   *)
(* and zad3, where limits on time and memory may kill a worker).  The file *)
(* "msg" holds the next task, a line of the list and a column to start at; *)
(* a worker that has locked it takes the task and writes the next one.     *)
(* Each result goes to a file of its own (mode "s"), named for the third   *)
(* file of the line and the column; the manager pastes them together.  The *)
(* list ends without a newline, as the lists in the repository do.  What   *)
(* is multiplied is left out.                                              *)
(***************************************************************************)
EXTENDS Integers, FiniteSets, Sequences

CONSTANTS
    Workers,
    None,
    Base,         \* the radix of the numbers in "msg", ten in the code
    MaxLines,     \* bound: records of the list
    MaxCols,      \* bound: columns of a matrix
    MaxKills      \* bound: workers killed

MatrixAssumption ==
    /\ IsFiniteSet(Workers) /\ None \notin Workers
    /\ Base \in Nat \ {0, 1}
    /\ MaxLines \in Nat \ {0} /\ MaxCols \in Nat \ {0}
    /\ MaxLines < Base * Base /\ MaxCols <= Base * Base
    /\ MaxKills \in Nat

VARIABLES
    list,        \* for each line, the columns of its second matrix; <<>> before main
    team,        \* the workers that are forked
    msg,         \* the text in "msg"
    lock,        \* who holds its flock, or None
    pc,          \* of each worker
    taken,       \* its current_line and col_start
    record,      \* the line whose file names it has read last, counted from 1
    position,    \* how many records it has read of the list
    line_no,     \* its i
    col_end,
    results,     \* the products, in the order they are written
    pasted,      \* the manager's files, one for each line
    kills

matrixVars == <<list, team, msg, lock, pc, taken, record, position, line_no, col_end, results,
                pasted, kills>>
localVars == <<taken, record, position, line_no, col_end>>

Tab == -2
Minus == -1
Digits(n) == IF n < Base THEN <<n>> ELSE <<n \div Base, n % Base>>
Number(s) ==
    LET value[n \in 0 .. Len(s)] == IF n = 0 THEN 0 ELSE Base * value[n - 1] + s[n]
    IN  value[Len(s)]

\* "%d\t%d" printed, and scanned.
Printed(line, col) ==
    (IF line = -1 THEN <<Minus, 1>> ELSE Digits(line)) \o <<Tab>> \o Digits(col)
Scanned(text) ==
    LET tab == CHOOSE k \in DOMAIN text : text[k] = Tab IN
    [line |-> IF text[1] = Minus THEN -1 ELSE Number(SubSeq(text, 1, tab - 1)),
     col |-> Number(SubSeq(text, tab + 1, Len(text)))]

\* A text written at the start of the file leaves what lies behind it.
Overwritten(text, new) ==
    [k \in 1 .. (IF Len(new) > Len(text) THEN Len(new) ELSE Len(text)) |->
        IF k <= Len(new) THEN new[k] ELSE text[k]]

Init ==
    /\ list = <<>> /\ team = {} /\ msg = <<>> /\ lock = None
    /\ pc = [w \in Workers |-> "none"]
    /\ taken = [w \in Workers |-> [line |-> 0, col |-> 0]]
    /\ record = [w \in Workers |-> 0] /\ position = [w \in Workers |-> 0]
    /\ line_no = [w \in Workers |-> 0] /\ col_end = [w \in Workers |-> 0]
    /\ results = <<>> /\ pasted = <<>> /\ kills = 0

\* main writes the first task, run_processes forks.
Start ==
    /\ list = <<>>
    /\ \E n \in 1 .. MaxLines : list' \in [1 .. n -> 1 .. MaxCols]
    /\ team' \in (SUBSET Workers) \ {{}}
    /\ msg' = Printed(0, 0)
    /\ pc' = [w \in Workers |-> IF w \in team' THEN "loop" ELSE "none"]
    /\ UNCHANGED <<lock, localVars, results, pasted, kills>>

At(w, label) == pc[w] = label /\ UNCHANGED <<list, team, pasted, kills>>
Goes(w, label) == pc' = [pc EXCEPT ![w] = label]

\* Mutant: flock fails, and the worker goes on.
Lock_tried(w) ==
    /\ At(w, "loop")
    /\ lock' = IF lock = None THEN w ELSE lock
    /\ Goes(w, "locked")
    /\ UNCHANGED <<msg, localVars, results>>

\* flock; while another worker has the lock, it is tried again and again.
Lock(w) ==
    /\ At(w, "loop")
    /\ lock = None
    /\ lock' = w
    /\ Goes(w, "locked")
    /\ UNCHANGED <<msg, localVars, results>>

\* fgets and sscanf; without a task, the lock is given back.
ReadTask(w) ==
    /\ At(w, "locked")
    /\ taken' = [taken EXCEPT ![w] = Scanned(msg)]
    /\ IF taken'[w].line = -1
       THEN lock' = None /\ Goes(w, "loop")
       ELSE UNCHANGED lock /\ Goes(w, "read")
    /\ UNCHANGED <<msg, record, position, line_no, col_end, results>>

\* The list is read on until i is the line, at least one record; at its end
\* the names of the last record stay.  So a worker whose first task is not on
\* line 0, or that is given another column of its line, reads the wrong one.
ReadList(w) ==
    LET ahead == taken[w].line - line_no[w]
        wanted == position[w] + (IF ahead > 1 THEN ahead ELSE 1)
        read == IF wanted < Len(list) THEN wanted ELSE Len(list)
        share == Cardinality(team)
        step == IF list[read] < share THEN 1 ELSE list[read] \div share
    IN
    /\ At(w, "read")
    /\ position' = [position EXCEPT ![w] = read]
    /\ record' = [record EXCEPT ![w] = read]
    /\ line_no' = [line_no EXCEPT ![w] = taken[w].line]
    /\ col_end' = [col_end EXCEPT ![w] = taken[w].col + step]
    /\ Goes(w, "pass")
    /\ UNCHANGED <<msg, lock, taken, results>>

col_new_start(w) == IF col_end[w] < list[record[w]] THEN col_end[w] ELSE 0
\* Mutant: the line after the last is passed on as well.
next_line_beyond(w) == IF col_new_start(w) # 0 THEN line_no[w] ELSE line_no[w] + 1

next_line(w) ==
    CASE col_new_start(w) # 0 -> line_no[w]
      [] col_new_start(w) = 0 /\ position[w] < Len(list) -> line_no[w] + 1
      [] OTHER -> -1

\* The next task is written over this one, and the lock given back.
PassOn(w) ==
    /\ At(w, "pass")
    /\ msg' = Overwritten(msg, Printed(next_line(w), col_new_start(w)))
    /\ lock' = None
    /\ Goes(w, "multiply")
    /\ UNCHANGED <<localVars, results>>

product(w) == [line |-> taken[w].line, start |-> taken[w].col, end |-> col_end[w],
               record |-> record[w]]

\* multiply, and the file of the piece.
Multiply(w) ==
    /\ At(w, "multiply")
    /\ results' = Append(results, product(w))
    /\ Goes(w, "loop")
    /\ UNCHANGED <<msg, lock, localVars>>

\* max_time is over; it is looked at once in every round.
TimeOut(w) ==
    /\ At(w, "loop")
    /\ Goes(w, "ended")
    /\ UNCHANGED <<msg, lock, localVars, results>>

\* RLIMIT_CPU: the kernel gives the flock of a killed worker back.
Kill(w) ==
    /\ pc[w] \notin {"none", "ended"}
    /\ kills < MaxKills
    /\ kills' = kills + 1
    /\ lock' = IF lock = w THEN None ELSE lock
    /\ Goes(w, "ended")
    /\ UNCHANGED <<list, team, msg, localVars, results, pasted>>

\* What paste puts together for the third file of record r: its pieces in the
\* order of their names, those of one name in the order they were appended.
pieces(r) ==
    LET files == {k \in DOMAIN results : results[k].record = r}
        before(k) == {j \in files : results[j].start < results[k].start
                                    \/ (results[j].start = results[k].start /\ j < k)}
    IN  [i \in 1 .. Cardinality(files) |->
            results[CHOOSE k \in files : Cardinality(before(k)) = i - 1]]

\* run_processes when all are waited for.
Paste ==
    /\ team # {} /\ pasted = <<>>
    /\ \A w \in team : pc[w] = "ended"
    /\ pasted' = [r \in DOMAIN list |-> pieces(r)]
    /\ UNCHANGED <<list, team, msg, lock, pc, localVars, results, kills>>

Worker(w) ==
    Lock(w) \/ ReadTask(w) \/ ReadList(w) \/ PassOn(w) \/ Multiply(w) \/ TimeOut(w) \/ Kill(w)

Next == Start \/ Paste \/ \E w \in Workers : Worker(w)

Spec == Init /\ [][Next]_matrixVars

-----------------------------------------------------------------------------
\* Whatever workers there are, and whichever are killed, no line and column is
\* multiplied by two of them, or twice by one.
Before(p, q) == p.line < q.line \/ (p.line = q.line /\ p.start < q.start)
InHand(w) == pc[w] = "multiply"
PiecesDistinct ==
    /\ \A k, l \in DOMAIN results :
        k # l => Before(results[k], results[l]) \/ Before(results[l], results[k])
    /\ \A w \in Workers : InHand(w) =>
        /\ \A k \in DOMAIN results :
            Before(results[k], product(w)) \/ Before(product(w), results[k])
        /\ \A v \in Workers \ {w} :
            InHand(v) => Before(product(v), product(w)) \/ Before(product(w), product(v))

\* One worker by itself multiplies the lines of the list in order, each whole
\* and with the matrices of its own record, and when there is no task left it
\* has done them all; what the manager pastes are these products.
OneWorkerRight ==
    Cardinality(team) = 1 =>
        /\ Len(results) <= Len(list)
        /\ \A k \in DOMAIN results :
            results[k] = [line |-> k - 1, start |-> 0, end |-> list[k], record |-> k]
        /\ \A w \in team : pc[w] \in {"loop", "locked"} =>
            Len(results) = IF Scanned(msg).line = -1 THEN Len(list) ELSE Scanned(msg).line
        /\ \A r \in DOMAIN pasted :
            pasted[r] = IF r <= Len(results) THEN <<results[r]>> ELSE <<>>
=============================================================================
