----------------------------- MODULE MCTracker -----------------------------
(***************************************************************************)
(* Instances of Tracker.tla for TLC.  Coset 1 has the corner states 1, 2   *)
(* and 3, where 1 and 2 are symmetric; coset 2 has the one corner state 4. *)
(* The slot of coset 2 comes before those of coset 1: in the file create   *)
(* makes, each coset but the last is followed by another one's slots.      *)
(***************************************************************************)
EXTENDS Tracker, TLC

MCCoset == 1 .. 2
MCCorner == 1 .. 4
MCCornerInit == (1 :> {1, 2, 3}) @@ (2 :> {4})
MCOrbit == [c \in MCCoset |-> [x \in MCCorner |->
              IF c = 1 /\ x \in {1, 2} THEN {1, 2} ELSE {x}]]
MCOffset == (1 :> 1) @@ (2 :> 0)
MCNCubes == (1 :> 2) @@ (2 :> 1)
MCPrune == (1 :> 0) @@ (2 :> 1)
MCSlotCount == 3

(* Sequence m reaches corner state m; sequences 3 and 4 have length 1.     *)
MCMoves == {1, 3, 4}
MCCornerOf == [m \in MCMoves |-> m]
MCSizeOf == [m \in MCMoves |-> IF m > 2 THEN 1 ELSE 0]
MCRecode == [m \in MCMoves |-> m]

(* A process of two threads, which are alike, and a process of one.        *)
CONSTANTS p1, p2, w1, w2, w3
MCProcessOf == (w1 :> p1) @@ (w2 :> p1) @@ (w3 :> p2)
MCSymmetry == Permutations({w1, w2})
=============================================================================
