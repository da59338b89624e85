-------------------------- MODULE MCSolutionCodec --------------------------
(***************************************************************************)
(* Sequences for SolutionCodec.tla in which opposite faces take each other *)
(* back: U1 U3 D1 D3 R1.                                                   *)
(***************************************************************************)
EXTENDS SolutionCodec

RedundantAlphabet == {0, 2, 9, 11, 3}
EmptyStart == {<< >>}
=============================================================================
