--------------------------- MODULE OrderedOutput ---------------------------
(***************************************************************************)
(* What `unsolved` promises: it prints the cosets one after another, in    *)
(* the order of their indices, each once, with its own unsolved cubes.     *)
(***************************************************************************)
EXTENDS Naturals, Sequences

CONSTANT
  N         \* number of cosets

VARIABLES
  unsolved, \* [0 .. N - 1 -> set of cubes], which printing leaves alone
  printed   \* sequence of sets of cubes

Init == printed = << >>

PrintNext == /\ Len(printed) < N
         /\ printed' = Append(printed, unsolved[Len(printed)])
         /\ UNCHANGED unsolved

vars == <<unsolved, printed>>

Spec == Init /\ [][PrintNext]_vars /\ WF_vars(PrintNext)
=============================================================================
