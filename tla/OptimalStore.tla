---------------------------- MODULE OptimalStore ----------------------------
(***************************************************************************)
(* What the commands that write may do to the database, seen as knowledge  *)
(* about optimal lengths.  A cube (a symmetry representative) gets at most *)
(* one recorded length and it is the length of its shortest sequence;      *)
(* proven_min of a coset is a lower bound for its unsolved cubes and only  *)
(* grows.  EcosetCommand, NeighborCommand and IngestCommand take only such *)
(* steps, so the database stays sound whatever commands are run, in        *)
(* whatever order, and wherever they are interrupted or killed.            *)
(***************************************************************************)
EXTENDS Integers

CONSTANTS
  Coset,     \* edge cosets
  Cube,      \* cubes, one for each symmetry class of involutions
  CosetOf,   \* [Cube -> Coset]
  Dist,      \* [Cube -> Nat]: length of the shortest sequence
  Bound,     \* values of proven_min, a set of naturals
  Unsolved   \* the length of a cube that no slot solves

VARIABLES
  length,      \* [Cube -> Nat or Unsolved]
  proven_min   \* [Coset -> Bound]

Open(c) == {x \in Cube : CosetOf[x] = c /\ length[x] = Unsolved}

(* The solved cubes have their optimal length, the others are at least as  *)
(* far as their coset's bound.                                             *)
Sound ==
  /\ \A x \in Cube : length[x] \in {Unsolved, Dist[x]}
  /\ \A c \in Coset : \A x \in Open(c) : proven_min[c] <= Dist[x]

Init == /\ length \in [Cube -> Nat \union {Unsolved}]
        /\ proven_min \in [Coset -> Bound]
        /\ Sound

(* Some unsolved cubes get their solutions.                                *)
Solve(X) == /\ \A x \in X : length[x] = Unsolved
            /\ length' = [x \in Cube |-> IF x \in X THEN Dist[x] ELSE length[x]]
            /\ UNCHANGED proven_min

(* A search has shown that the unsolved cubes of a coset are further.      *)
Raise(c, b) == /\ proven_min[c] < b
               /\ \A x \in Open(c) : b <= Dist[x]
               /\ proven_min' = [proven_min EXCEPT ![c] = b]
               /\ UNCHANGED length

Next == \/ \E X \in SUBSET Cube : Solve(X)
        \/ \E c \in Coset, b \in Bound : Raise(c, b)

Spec == Init /\ [][Next]_<<length, proven_min>>
=============================================================================
