------------------------------- MODULE MCCube -------------------------------
(***************************************************************************)
(* The real cube: a behavior of this model either turns it along sequences *)
(* of moves, CubeWalk.tla, or makes the lists of Involutions.tla.          *)
(*                                                                         *)
(* The moves have opposite faces among them, so that they commute and      *)
(* cancel, and the last face, whose moves have the largest codes: U1 U3 R2 *)
(* D1 D3 L3 B1 B3.                                                         *)
(***************************************************************************)
EXTENDS CubeWalk, Involutions

VARIABLE walking

MCAlphabet == {0, 2, 4, 9, 11, 14, 15, 17}

(* Seventeen moves to start with, so that three more fill a slot, and U1   *)
(* R2, which three more take back.                                         *)
Long == <<17, 0, 10, 4, 12, 8, 15, 3, 2, 9, 14, 7, 1, 5, 16, 11, 6>>
MCStarts == {<< >>, <<0, 4>>, Long}

NoWalk == /\ seq = << >> /\ room = 0
          /\ edge_coord = FromCube("edges", Identity)
          /\ corner_coord = FromCube("corners", Identity)
NoLists == /\ parity = 0 /\ perms = {} /\ expanding = << >> /\ edges = << >>
           /\ corners = {} /\ ssym_count = << >> /\ corner_init = {}

InitCube == \/ walking = TRUE /\ InitWalk /\ NoLists
            \/ walking = FALSE /\ NoWalk /\ InitLists
NextCube == /\ UNCHANGED walking
            /\ \/ walking /\ NextWalk /\ UNCHANGED lists
               \/ ~ walking /\ NextLists /\ UNCHANGED walk

SpecCube == InitCube /\ [][NextCube]_<<walk, lists, walking>>
=============================================================================
