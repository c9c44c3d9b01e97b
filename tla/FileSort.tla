------------------------------- MODULE FileSort -------------------------------
(***************************************************************************)
(* Sorting a file of records through a temporary one (cw02/zad1), with     *)
(* stdio (libprog.c) or with system calls (sysprog.c): a quicksort that    *)
(* keeps its state in the positions of the two files.  A step is one       *)
(* record moved, or the seeks between two passes; any may fail, and then   *)
(* both files are closed and stay as they are.                             *)
(* Records are compared up to their first zero byte: Key is what is        *)
(* compared.                                                               *)
(***************************************************************************)
EXTENDS Integers, FiniteSets, Sequences

CONSTANTS
    Records,
    Key,           \* [Records -> Int]
    MaxRecords     \* bound: records of a file, and the length asked for

SortAssumption ==
    /\ IsFiniteSet(Records) /\ Key \in [Records -> Int]
    /\ MaxRecords \in Nat

VARIABLES
    job,             \* "none", "sort" or "copy"
    status,          \* "running", "done" or "failed"
    input,           \* what the file held at first
    len,             \* the number of records asked for
    old, tmp,        \* the files
    old_pos, tmp_pos,
    old_last, tmp_last,    \* the last operation on each: "seek", "read" or "write"
    pivot,
    calls            \* the calls of sort_file, innermost last

sortVars == <<job, status, input, len, old, tmp, old_pos, tmp_pos, old_last, tmp_last, pivot, calls>>

Contents == UNION {[1 .. n -> Records] : n \in 0 .. MaxRecords}

Init ==
    /\ job = "none" /\ status = "running"
    /\ input = <<>> /\ len = 0 /\ old = <<>> /\ tmp = <<>>
    /\ old_pos = 0 /\ tmp_pos = 0 /\ old_last = "seek" /\ tmp_last = "seek"
    /\ pivot = 0 /\ calls = <<>>

\* A call: the pass it is in, how many records of the pass are done, and what
\* the passes before have counted.
Call(length) == [length |-> length, pass |-> "enter", i |-> 0, smaller |-> 0, bigger |-> 0]
top == calls[Len(calls)]
Outer == SubSeq(calls, 1, Len(calls) - 1)
Goes(call) == calls' = Append(Outer, call)

\* The file after a write at its position, which is at most at its end.
Written(file, pos, r) == [k \in 1 .. (IF pos = Len(file) THEN pos + 1 ELSE Len(file)) |->
                             IF k = pos + 1 THEN r ELSE file[k]]

Running(pass) == job = "sort" /\ status = "running" /\ calls # <<>> /\ top.pass = pass
Fixed == UNCHANGED <<job, input, len>>

\* sort_lib makes tmp_ empty; sort_sys keeps what an earlier run has left in it.
Opens(file, n) ==
    /\ input' = file /\ old' = file /\ len' = n
    /\ UNCHANGED <<status, old_pos, tmp_pos, old_last, tmp_last, pivot>>

sort_lib(file, n) ==
    /\ Opens(file, n)
    /\ job' = "sort" /\ calls' = <<Call(n)>>
    /\ tmp' = <<>>

sort_sys(file, n, left) ==
    /\ Opens(file, n)
    /\ job' = "sort" /\ calls' = <<Call(n)>>
    /\ tmp' = left

\* copy_lib and copy_sys; tmp is the new file.
copy(file, n) ==
    /\ Opens(file, n)
    /\ job' = "copy" /\ calls' = <<>>
    /\ tmp' = <<>>

\* read_file and write_file: a read beyond the end fails.
CanRead(file, pos) == pos \in 0 .. Len(file) - 1
ReadOld == old_last' = "read" /\ old_pos' = old_pos + 1
WriteTmp(r) ==
    /\ tmp_last' = "write" /\ tmp' = Written(tmp, tmp_pos, r) /\ tmp_pos' = tmp_pos + 1
Seek(off) ==
    /\ old_pos' = old_pos + off /\ tmp_pos' = tmp_pos + off
    /\ old_last' = "seek" /\ tmp_last' = "seek"
    /\ UNCHANGED <<old, tmp>>

Short ==
    /\ Running("enter") /\ top.length <= 1
    /\ Seek(top.length)
    /\ calls' = Outer
    /\ UNCHANGED pivot

ReadPivot ==
    /\ Running("enter") /\ top.length > 1
    /\ CanRead(old, old_pos)
    /\ pivot' = old[old_pos + 1]
    /\ ReadOld
    /\ Goes([top EXCEPT !.pass = "smaller"])
    /\ UNCHANGED <<old, tmp, tmp_pos, tmp_last>>

sm(r) == Key[pivot] >= Key[r]
\* Mutant: a record equal to the pivot is copied by both passes.
gt_eq_equal(r) == Key[pivot] <= Key[r]
gt_eq(r) == Key[pivot] < Key[r]

\* copy_blocks from old to tmp, one record: it is copied if compare holds.
copy_block(compare, counted) ==
    /\ top.i < top.length - 1
    /\ CanRead(old, old_pos)
    /\ ReadOld
    /\ IF compare
       THEN WriteTmp(old[old_pos + 1]) /\ Goes(counted)
       ELSE UNCHANGED <<tmp, tmp_pos, tmp_last>> /\ Goes([top EXCEPT !.i = @ + 1])
    /\ UNCHANGED <<old, pivot>>

CopySmaller ==
    /\ Running("smaller")
    /\ copy_block(sm(old[old_pos + 1]), [top EXCEPT !.i = @ + 1, !.smaller = @ + 1])

\* Between the passes: back to the record after the pivot, and the pivot.
WritePivot ==
    /\ Running("smaller") /\ top.i = top.length - 1
    /\ old_pos' = old_pos - (top.length - 1) /\ old_last' = "seek"
    /\ WriteTmp(pivot)
    /\ Goes([top EXCEPT !.pass = "bigger", !.i = 0])
    /\ UNCHANGED <<old, pivot>>

CopyBigger ==
    /\ Running("bigger")
    /\ copy_block(gt_eq(old[old_pos + 1]), [top EXCEPT !.i = @ + 1, !.bigger = @ + 1])

\* Mutant: only the file itself is set back by the seek.
Rewind_one ==
    /\ Running("bigger") /\ top.i = top.length - 1
    /\ old_pos' = old_pos - top.length /\ old_last' = "seek"
    /\ tmp_pos' = tmp_pos - top.length /\ UNCHANGED <<old, tmp, tmp_last>>
    /\ Goes([top EXCEPT !.pass = "back", !.i = 0])
    /\ UNCHANGED pivot

\* Both files back to the start of the part.
Rewind ==
    /\ Running("bigger") /\ top.i = top.length - 1
    /\ Seek(-top.length)
    /\ Goes([top EXCEPT !.pass = "back", !.i = 0])
    /\ UNCHANGED pivot

\* copy_blocks from tmp to old.
CopyBack ==
    /\ Running("back") /\ top.i < top.length
    /\ CanRead(tmp, tmp_pos)
    /\ old' = Written(old, old_pos, tmp[tmp_pos + 1])
    /\ old_pos' = old_pos + 1 /\ tmp_pos' = tmp_pos + 1
    /\ old_last' = "write" /\ tmp_last' = "read"
    /\ Goes([top EXCEPT !.i = @ + 1])
    /\ UNCHANGED <<tmp, pivot>>

\* The smaller records first, from the start of the part.
SortSmaller ==
    /\ Running("back") /\ top.i = top.length
    /\ Seek(-top.length)
    /\ calls' = Append(Outer, [top EXCEPT !.pass = "skip"]) \o <<Call(top.smaller)>>
    /\ UNCHANGED pivot

\* Mutant: the position is one record behind the pivot already.
SortBigger_no_seek ==
    /\ Running("skip")
    /\ calls' = Append(Outer, [top EXCEPT !.pass = "end"]) \o <<Call(top.bigger)>>
    /\ UNCHANGED <<old, tmp, old_pos, tmp_pos, old_last, tmp_last, pivot>>

\* Then, behind the pivot, the greater ones.
SortBigger ==
    /\ Running("skip")
    /\ Seek(1)
    /\ calls' = Append(Outer, [top EXCEPT !.pass = "end"]) \o <<Call(top.bigger)>>
    /\ UNCHANGED pivot

Return ==
    /\ Running("end")
    /\ calls' = Outer
    /\ UNCHANGED <<old, tmp, old_pos, tmp_pos, old_last, tmp_last, pivot>>

\* One record of copy_lib or copy_sys.
CopyRecord ==
    /\ job = "copy" /\ status = "running" /\ old_pos < len
    /\ CanRead(old, old_pos)
    /\ ReadOld /\ WriteTmp(old[old_pos + 1])
    /\ UNCHANGED <<old, pivot, calls>>

sort_file ==
    \/ Short \/ ReadPivot \/ CopySmaller \/ WritePivot \/ CopyBigger \/ Rewind
    \/ CopyBack \/ SortSmaller \/ SortBigger \/ Return

\* The end of sort_lib and sort_sys, which remove tmp_, and of the copies.
Finish ==
    /\ status = "running"
    /\ \/ job = "sort" /\ calls = <<>> /\ tmp' = <<>>
       \/ job = "copy" /\ old_pos = len /\ UNCHANGED tmp
    /\ status' = "done"
    /\ Fixed /\ UNCHANGED <<old, old_pos, tmp_pos, old_last, tmp_last, pivot, calls>>

\* error_lib, error_sys: at the end of a file, or when an operation fails.
Fail ==
    /\ job # "none" /\ status = "running"
    /\ status' = "failed"
    /\ Fixed /\ UNCHANGED <<old, tmp, old_pos, tmp_pos, old_last, tmp_last, pivot, calls>>

Start ==
    /\ job = "none"
    /\ \E file \in Contents, n \in 1 .. MaxRecords :
        sort_lib(file, n) \/ copy(file, n) \/ \E left \in {<<>>, file} : sort_sys(file, n, left)

Next ==
    \/ Start \/ Finish \/ Fail
    \/ (sort_file \/ CopyRecord) /\ Fixed /\ UNCHANGED status

Spec == Init /\ [][Next]_sortVars

-----------------------------------------------------------------------------
Permuted(s, t) ==
    Len(s) = Len(t) /\ \A r \in Records :
        Cardinality({k \in DOMAIN s : s[k] = r}) = Cardinality({k \in DOMAIN t : t[k] = r})

\* A file that was sorted holds its records, the first len of them in order
\* and the rest where they were; a copy is the first len records.
JobDone ==
    /\ status = "done" /\ job = "sort" =>
        /\ Permuted(old, input)
        /\ \A k, l \in 1 .. len : k < l /\ l <= Len(old) => Key[old[k]] <= Key[old[l]]
        /\ \A k \in len + 1 .. Len(old) : old[k] = input[k]
    /\ status = "done" /\ job = "copy" => tmp = SubSeq(input, 1, len) /\ old = input

\* Wherever the sort stops, no record is lost: the file holds them all, or it
\* does with the part being copied back taken from tmp_, which an error leaves
\* in place.
NothingLost ==
    LET start == old_pos - top.i
        part == start + 1 .. start + top.length
    IN
    \/ Permuted(old, input)
    \/ /\ calls # <<>> /\ top.pass = "back"
       /\ Permuted([k \in DOMAIN old |-> IF k \in part THEN tmp[k] ELSE old[k]], input)

\* A stream open for update is never read right after it was written, nor
\* written right after it was read (C99 7.19.5.3p6): a seek is in between.
SeeksBetween ==
    [][/\ <<old_last, old_last'>> \notin {<<"read", "write">>, <<"write", "read">>}
       /\ <<tmp_last, tmp_last'>> \notin {<<"read", "write">>, <<"write", "read">>}]_sortVars
=============================================================================
