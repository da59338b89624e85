------------------------------ MODULE MCEprune ------------------------------
(***************************************************************************)
(* A small puzzle for EpruneGenerator.tla: positions <<a, b>> of Z7 x Z3   *)
(* with a symmetry that negates both.  The classes of permutations are     *)
(* a = 0 .. 3 (4 .. 6 are their images), the first of them has the         *)
(* symmetry itself.  Moves 0 and 1 add <<1, 1>> and <<-1, -1>>, moves 2    *)
(* and 3 add <<0, 1>> and <<0, -1>>.  Three workers have blocks of two     *)
(* permutations, of which the last holds no representative, and of 1, 1    *)
(* and 2 rows.                                                             *)
(***************************************************************************)
EXTENDS EpruneGenerator

MCImage == [s \in 0 .. 1 |-> [a \in 0 .. 6 |-> IF s = 0 THEN a ELSE (7 - a) % 7]]
MCSymInv == [s \in 0 .. 1 |-> s]
MCMoved == [a \in 0 .. 6 |-> [k \in 0 .. 3 |-> (a + <<1, 6, 0, 0>>[k + 1]) % 7]]
MCTurned == [b \in 0 .. 2 |-> [k \in 0 .. 3 |-> (b + <<1, 2, 1, 2>>[k + 1]) % 3]]
MCSymi == [b \in 0 .. 2 |-> [s \in 0 .. 1 |-> IF s = 0 THEN b ELSE (3 - b) % 3]]
=============================================================================
