------------------------------ MODULE Programs ------------------------------
(***************************************************************************)
(* Five programs that share nothing, in one specification: `program` says  *)
(* which of them is run, the others stay where they begin.                 *)
(***************************************************************************)
EXTENDS Integers, FiniteSets, Sequences

CONSTANTS
    Records, Key, MaxRecords,                        \* FileSort
    threads_num, max_val, Sizes,                     \* Histogram
    Workers, None, Base, MaxLines, MaxCols, MaxKills,    \* MatrixWorkers
    Files, Rounds,                                   \* BlockArray
    MaxCommands, Wants, Makes, All, Capacity         \* Pipelines

VARIABLES
    program,
    job, status, input, len, old, tmp, old_pos, tmp_pos, old_last, tmp_last, pivot, calls,
    mode, width, pixel_map, hist, hist_lock, work, loaded, holds,
    list, team, msg, lock, pc, taken, record, position, line_no, col_end, results, pasted, kills,
    stage, array, size, full, made, round, freed,
    forked, reaped, commands, doing, ends, pipe

sortVars == <<job, status, input, len, old, tmp, old_pos, tmp_pos, old_last, tmp_last, pivot, calls>>
histVars == <<mode, width, pixel_map, hist, hist_lock, work, loaded, holds>>
matrixVars == <<list, team, msg, lock, pc, taken, record, position, line_no, col_end, results,
                pasted, kills>>
blockVars == <<stage, array, size, full, made, round, freed>>
pipeVars == <<forked, reaped, commands, doing, ends, pipe>>

Sort == INSTANCE FileSort
Hist == INSTANCE Histogram
Matrix == INSTANCE MatrixWorkers
Blocks == INSTANCE BlockArray
Shell == INSTANCE Pipelines

ASSUME ProgramsAssumption ==
    /\ Sort!SortAssumption /\ Hist!HistogramAssumption
    /\ Matrix!MatrixAssumption /\ Blocks!BlockAssumption
    /\ Shell!PipelinesAssumption

Init ==
    /\ program \in {"sort", "histogram", "macierz", "difflib", "mysh"}
    /\ Sort!Init /\ Hist!Init /\ Matrix!Init /\ Blocks!Init /\ Shell!Init

Next ==
    \/ /\ program = "sort" /\ Sort!Next
       /\ UNCHANGED <<program, histVars, matrixVars, blockVars, pipeVars>>
    \/ /\ program = "histogram" /\ Hist!Next
       /\ UNCHANGED <<program, sortVars, matrixVars, blockVars, pipeVars>>
    \/ /\ program = "macierz" /\ Matrix!Next
       /\ UNCHANGED <<program, sortVars, histVars, blockVars, pipeVars>>
    \/ /\ program = "difflib" /\ Blocks!Next
       /\ UNCHANGED <<program, sortVars, histVars, matrixVars, pipeVars>>
    \/ /\ program = "mysh" /\ Shell!Next
       /\ UNCHANGED <<program, sortVars, histVars, matrixVars, blockVars>>

vars == <<program, sortVars, histVars, matrixVars, blockVars, pipeVars>>

Spec == Init /\ [][Next]_vars

-----------------------------------------------------------------------------
\* A sorted file holds its records in order; a copy is the first len records.
JobDone == Sort!JobDone

\* Wherever the sort stops, every record is in the file or in tmp_.
NothingLost == Sort!NothingLost

\* A seek parts the reads of a stream from its writes.
SeeksBetween == Sort!SeeksBetween

\* The histogram of the joined threads is that of the picture.
Exact == Hist!Exact

\* No piece of a product is multiplied twice, whichever workers are killed.
PiecesDistinct == Matrix!PiecesDistinct

\* One worker by itself multiplies every line whole and with its own matrices.
OneWorkerRight == Matrix!OneWorkerRight

\* No block is freed twice, though removed blocks stay in the array.
FreedOnce == Blocks!FreedOnce

\* Until a line has ended, somebody can go on, unless input was left unread.
LineGoesOn == Shell!LineGoesOn
=============================================================================
