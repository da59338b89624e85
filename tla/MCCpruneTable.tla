--------------------------- MODULE MCCpruneTable ---------------------------
(***************************************************************************)
(* A small puzzle for CpruneTable.tla: positions <<a, b>> of Z5 x Z3 with  *)
(* a symmetry that negates both.  The rows are a = 0, 1 and 2, the first   *)
(* one has the symmetry itself.  Moves 0 and 1 add <<1, 1>> and <<-1, -1>> *)
(* and moves 2 and 3 add <<0, 1>> and <<0, -1>>.  Two workers; the arena   *)
(* has room for a table more.                                              *)
(***************************************************************************)
EXTENDS CpruneTable

CONSTANTS w1, w2

Add(p, k) == CASE k = 0 -> <<(p[1] + 1) % 5, (p[2] + 1) % 3>>
               [] k = 1 -> <<(p[1] + 4) % 5, (p[2] + 2) % 3>>
               [] k = 2 -> <<p[1], (p[2] + 1) % 3>>
               [] k = 3 -> <<p[1], (p[2] + 2) % 3>>
Normalize(p) == IF p[1] <= 2 THEN p ELSE <<5 - p[1], (3 - p[2]) % 3>>

MCMove == 0 .. 3
MCRawMove == [r \in 0 .. 2 |-> [k \in MCMove |-> Normalize(Add(<<r, 0>>, k))[1]]]
MCOrientMove ==
  [r \in 0 .. 2 |-> [k \in MCMove |-> [o \in 0 .. 2 |-> Normalize(Add(<<r, o>>, k))[2]]]]
MCSelfSym == [r \in 0 .. 2 |-> [o \in 0 .. 2 |-> IF r = 0 THEN {(3 - o) % 3} ELSE {}]]
MCSeedSets == {{0}, {1}, {3}, {7}, {2, 4}, {0, 3, 8}, 1 .. 8}
=============================================================================
