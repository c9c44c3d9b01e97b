------------------------------ MODULE Histogram ------------------------------
(***************************************************************************)
(* Counting the shades of a picture with several threads (cw08), divided   *)
(* by shade, by blocks of columns or by interleaved columns.  An increment *)
(* of hist[x] is a read and a write; only the last two ways lock hist[x].  *)
(***************************************************************************)
EXTENDS Integers, FiniteSets, Sequences

CONSTANTS
    threads_num,
    max_val,
    Sizes          \* the pairs of height and width a picture may have

HistogramAssumption ==
    /\ threads_num \in Nat \ {0}
    /\ max_val \in 0 .. 255
    /\ Sizes \subseteq (Nat \ {0}) \X (Nat \ {0})

VARIABLES
    mode,        \* "none", "sign", "block" or "interleaved"
    width, pixel_map,
    hist, hist_lock,
    work,        \* the shades each thread has still to count, in its order
    loaded,      \* what it has read of hist[x], or Unread
    holds        \* whether it holds the lock of the shade it is at

histVars == <<mode, width, pixel_map, hist, hist_lock, work, loaded, holds>>

Shades == 0 .. max_val
Threads == 0 .. threads_num - 1
Unread == -1

Init ==
    /\ mode = "none" /\ width = 0 /\ pixel_map = <<>>
    /\ hist = [x \in Shades |-> 0]
    /\ hist_lock = [x \in Shades |-> FALSE]
    /\ work = [k \in Threads |-> <<>>]
    /\ loaded = [k \in Threads |-> Unread]
    /\ holds = [k \in Threads |-> FALSE]

\* The pixels row by row, of the columns from start up to stop.  Those beyond
\* the width lie behind the row in memory, where any shade may be read.
Rows(picture, w, start, stop, beyond) ==
    LET cols == stop - start IN
    [n \in 1 .. Len(picture) * cols |->
        LET j == start + ((n - 1) % cols) IN
        IF j < w THEN picture[1 + (n - 1) \div cols][j + 1] ELSE beyond]

Covered(k, x) == LET share == max_val \div threads_num IN x <= share * (k + 1) /\ x > share * k
hist_sign(k, picture, w, beyond) ==
    LET all == Rows(picture, w, 0, w, beyond)
        mine[n \in 0 .. Len(all)] ==
            IF n = 0 THEN <<>>
            ELSE IF Covered(k, all[n]) THEN Append(mine[n - 1], all[n]) ELSE mine[n - 1]
    IN  mine[Len(all)]

\* Mutant: the size of a block is rounded down.
hist_block_floor(k, picture, w, beyond) ==
    LET size == w \div threads_num IN
    Rows(picture, w, size * k, size * (k + 1), beyond)

hist_block(k, picture, w, beyond) ==
    LET size == (w + threads_num - 1) \div threads_num IN
    Rows(picture, w, size * k, size * (k + 1), beyond)

hist_interleaved(k, picture, w, beyond) ==
    LET h == Len(picture)
        mine == Cardinality({j \in 0 .. w - 1 : j >= k /\ (j - k) % threads_num = 0})
    IN  [n \in 1 .. h * mine |->
            picture[1 + ((n - 1) % h)][1 + k + threads_num * ((n - 1) \div h)]]

\* The shades a thread counts, in the mode chosen.
Pixels(how, k, picture, w, beyond) ==
    CASE how = "sign" -> hist_sign(k, picture, w, beyond)
      [] how = "block" -> hist_block(k, picture, w, beyond)
      [] how = "interleaved" -> hist_interleaved(k, picture, w, beyond)

\* select_mode, read_file and start_threads.
Start ==
    /\ mode = "none"
    /\ \E size \in Sizes : \E picture \in [1 .. size[1] -> [1 .. size[2] -> Shades]] :
        /\ width' = size[2] /\ pixel_map' = picture
        /\ mode' \in {"sign", "block", "interleaved"}
        /\ \E beyond \in Shades :
            work' = [k \in Threads |-> Pixels(mode', k, picture, size[2], beyond)]
    /\ UNCHANGED <<hist, hist_lock, loaded, holds>>

Busy(k) == work[k] # <<>>
Shade(k) == Head(work[k])

Lock(k) ==
    /\ Busy(k) /\ mode # "sign"
    /\ ~holds[k] /\ ~hist_lock[Shade(k)]
    /\ hist_lock' = [hist_lock EXCEPT ![Shade(k)] = TRUE]
    /\ holds' = [holds EXCEPT ![k] = TRUE]
    /\ UNCHANGED <<mode, width, pixel_map, hist, work, loaded>>

\* Mutant: the counter is read before it is locked.
Load_unlocked(k) ==
    /\ Busy(k) /\ loaded[k] = Unread
    /\ loaded' = [loaded EXCEPT ![k] = hist[Shade(k)]]
    /\ UNCHANGED <<mode, width, pixel_map, hist, hist_lock, work, holds>>

Load(k) ==
    /\ Busy(k) /\ loaded[k] = Unread
    /\ mode # "sign" => holds[k]
    /\ loaded' = [loaded EXCEPT ![k] = hist[Shade(k)]]
    /\ UNCHANGED <<mode, width, pixel_map, hist, hist_lock, work, holds>>

\* The write, and the unlock.
Store(k) ==
    /\ Busy(k) /\ loaded[k] # Unread
    /\ mode # "sign" => holds[k]
    /\ hist' = [hist EXCEPT ![Shade(k)] = loaded[k] + 1]
    /\ hist_lock' = [hist_lock EXCEPT ![Shade(k)] = FALSE]
    /\ holds' = [holds EXCEPT ![k] = FALSE]
    /\ loaded' = [loaded EXCEPT ![k] = Unread]
    /\ work' = [work EXCEPT ![k] = Tail(@)]
    /\ UNCHANGED <<mode, width, pixel_map>>

Next == Start \/ \E k \in Threads : Lock(k) \/ Load(k) \/ Store(k)

Spec == Init /\ [][Next]_histVars

-----------------------------------------------------------------------------
\* collect_threads has seen the end of every thread.
Joined == mode # "none" /\ \A k \in Threads : ~Busy(k)

Occurrences(x) ==
    Cardinality({p \in (DOMAIN pixel_map) \X (1 .. width) : pixel_map[p[1]][p[2]] = x})

\* The histogram written is that of the picture: always with interleaved
\* columns, with blocks when they fill the width, and by shade for the shades
\* above 0 up to the last multiple of the threads' share; no other shade is
\* counted by shade, and blocks never count a shade too seldom.
Exact ==
    Joined => \A x \in Shades :
        /\ mode = "interleaved" => hist[x] = Occurrences(x)
        /\ mode = "block" => hist[x] >= Occurrences(x)
        /\ mode = "block" /\ width % threads_num = 0 => hist[x] = Occurrences(x)
        /\ mode = "sign" =>
               hist[x] = IF x \in 1 .. (max_val \div threads_num) * threads_num
                         THEN Occurrences(x) ELSE 0
=============================================================================
