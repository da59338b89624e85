--------------------------- MODULE SolutionStore ---------------------------
(***************************************************************************)
(* What the involution database promises to every command: for each edge   *)
(* coset it keeps a list of solutions.  The list only grows, a recorded    *)
(* solution is never altered, lost or moved, and every symmetry orbit of   *)
(* corner states is solved by at most one entry of the list.               *)
(*                                                                         *)
(* The abstract store knows nothing of the file, the cache, the locks, the *)
(* threads and the processes that Tracker.tla describes; Tracker           *)
(* implements this module.                                                 *)
(***************************************************************************)
EXTENDS Integers, Sequences

CONSTANTS
  Coset,     \* edge cosets, the indices 0 .. N_EDGE_INVO - 1 of the code
  Moves,     \* move sequences
  OrbitOf(_, _)  \* OrbitOf(c, m): the corner states of coset c that m solves

VARIABLE
  recorded   \* [Coset -> Seq(Moves)], the solutions of each coset

Lacks(c, m) == \A i \in DOMAIN recorded[c] :
                     OrbitOf(c, recorded[c][i]) # OrbitOf(c, m)

Init == recorded = [c \in Coset |-> << >>]

Record(c, m) == /\ Lacks(c, m)
                /\ recorded' = [recorded EXCEPT ![c] = Append(@, m)]

Next == \E c \in Coset, m \in Moves : Record(c, m)

Spec == Init /\ [][Next]_recorded
=============================================================================
