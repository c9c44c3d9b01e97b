------------------------------ MODULE BlockArray ------------------------------
(***************************************************************************)
(* The array of blocks of cw01 (zad1/difflib.c), driven as in run of       *)
(* zad2/main.c: a block for each of n files, one removed, then again and   *)
(* again one removed and one made, and at the end every cell freed.  A     *)
(* block is a number, the order in which it was allocated; a removed block *)
(* is not freed, and what its cell held stays behind the last one.         *)
(***************************************************************************)
EXTENDS Integers, FiniteSets

CONSTANTS
    Files,      \* the numbers of files a run may have
    Rounds      \* 100000 in the code

BlockAssumption == Files \subseteq Nat /\ (\A n \in Files : n >= 3) /\ Rounds \in Nat

VARIABLES
    stage,      \* "new", "fill", "drop", "loop", "refill" or "done"
    array, size, full,
    made,       \* how many blocks were allocated
    round,
    freed       \* how often each block was freed

blockVars == <<stage, array, size, full, made, round, freed>>

NULL == 0

Init ==
    /\ stage = "new" /\ array = <<>> /\ size = 0 /\ full = 0
    /\ made = 0 /\ round = 0 /\ freed = <<>>

create_array ==
    /\ stage = "new"
    /\ full' \in Files
    /\ array' = [i \in 0 .. full' - 1 |-> NULL]
    /\ size' = 0
    /\ stage' = "fill"
    /\ UNCHANGED <<made, round, freed>>

create_block ==
    LET cells == IF full = size THEN 0 .. full ELSE 0 .. full - 1 IN
    /\ full' = Cardinality(cells)
    /\ array' = [i \in cells |-> IF i = size THEN made + 1 ELSE array[i]]
    /\ made' = made + 1
    /\ size' = size + 1

\* Mutant: the cells are moved one short of the last.
remove_block_short(index) ==
    /\ size' = size - 1
    /\ array' = [i \in DOMAIN array |->
                    IF i < size' - 1 /\ i >= index THEN array[i + 1] ELSE array[i]]
    /\ UNCHANGED <<full, made>>

\* An index at or beyond the last cell removes the last.
remove_block(index) ==
    /\ size' = size - 1
    /\ array' = [i \in DOMAIN array |->
                    IF i < size' /\ i >= index THEN array[i + 1] ELSE array[i]]
    /\ UNCHANGED <<full, made>>

Fill ==
    /\ stage = "fill"
    /\ create_block
    /\ stage' = IF size' = full THEN "drop" ELSE "fill"
    /\ UNCHANGED <<round, freed>>

Drop ==
    /\ stage = "drop"
    /\ remove_block(1)
    /\ stage' = "loop"
    /\ UNCHANGED <<round, freed>>

LoopRemove ==
    /\ stage = "loop" /\ round < Rounds
    /\ remove_block(round % 3)
    /\ stage' = "refill"
    /\ UNCHANGED <<round, freed>>

LoopCreate ==
    /\ stage = "refill"
    /\ create_block
    /\ round' = round + 1
    /\ stage' = "loop"
    /\ UNCHANGED freed

\* Every cell up to full is freed, not only those up to size.
FreeAll ==
    /\ stage = "loop" /\ round = Rounds
    /\ freed' = [b \in 1 .. made |-> Cardinality({i \in DOMAIN array : array[i] = b})]
    /\ stage' = "done"
    /\ UNCHANGED <<array, size, full, made, round>>

Next == create_array \/ Fill \/ Drop \/ LoopRemove \/ LoopCreate \/ FreeAll

Spec == Init /\ [][Next]_blockVars

-----------------------------------------------------------------------------
\* The cells below size hold different blocks, and in the end no block is
\* freed twice, though a cell beyond size keeps a block that was moved: by
\* then the loop has removed every block of the first filling.
FreedOnce ==
    /\ \A i, j \in 0 .. size - 1 : array[i] = array[j] => i = j
    /\ stage = "done" => \A b \in DOMAIN freed : freed[b] <= 1
=============================================================================
