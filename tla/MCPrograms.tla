----------------------------- MODULE MCPrograms -----------------------------
(***************************************************************************)
(* An instance of Programs for TLC.  Two of the four records compare       *)
(* equal; the two threads divide the width of the second size only; with   *)
(* numbers to the base 2, columns of two digits come up; there are more    *)
(* items than a pipe holds, and commands that leave some.                  *)
(***************************************************************************)
EXTENDS Programs, TLC

CONSTANTS w1, w2

keys == <<1, 2, 2, 3>>
sizes == {<<1, 3>>, <<2, 2>>}

\* The workers of the matrix programs are interchangeable.
Symmetry == Permutations(Workers)
=============================================================================
