----------------------------- MODULE MCUnsolved -----------------------------
(***************************************************************************)
(* Four cosets for three workers.  The databases: nothing solved; two      *)
(* cosets finished; all finished.                                          *)
(***************************************************************************)
EXTENDS UnsolvedCommand

CONSTANTS w1, w2, w3

MCCorner == 1 .. 3
MCOrbit == [c \in 0 .. 3 |-> [x \in MCCorner |->
              IF c = 0 /\ x # 3 THEN {1, 2} ELSE
              IF c = 1 THEN MCCorner ELSE {x}]]
MCCornerSets == {[c \in 0 .. 3 |-> MCCorner],
                 [c \in 0 .. 3 |-> IF c \in {1, 2} THEN {} ELSE {1, 2}],
                 [c \in 0 .. 3 |-> {}]}
=============================================================================
