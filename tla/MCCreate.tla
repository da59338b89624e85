------------------------------ MODULE MCCreate ------------------------------
(***************************************************************************)
(* One process of `create`, which is killed and started again.             *)
(***************************************************************************)
EXTENDS CreateDatabase
CONSTANTS p1, i1, i2, i3, i4, i5
=============================================================================
