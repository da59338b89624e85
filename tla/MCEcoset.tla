------------------------------ MODULE MCEcoset ------------------------------
(***************************************************************************)
(* Three cosets: the first has cubes at distances 1 and 2 (the nearer one  *)
(* also has a longer sequence that a deep pass would meet), the second has *)
(* one cube at distance 0, the third one beyond the smaller depth.         *)
(***************************************************************************)
EXTENDS EcosetCommand, TLC

CONSTANTS near, mid, root, far, w1, w2

MCCube == {near, mid, root, far}
MCCosetOf == (near :> 0) @@ (mid :> 0) @@ (root :> 1) @@ (far :> 2)
MCLengths == (near :> {1, 3}) @@ (mid :> {2, 3}) @@ (root :> {0, 2}) @@ (far :> {3})
=============================================================================
