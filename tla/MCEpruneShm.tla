---------------------------- MODULE MCEpruneShm ----------------------------
(***************************************************************************)
(* Two processes of ecoset and one of create, and an index of three        *)
(* blocks.                                                                 *)
(***************************************************************************)
EXTENDS EpruneShm
CONSTANTS e1, e2, c1, s1, s2, s3, s4, b1, b2, b3
=============================================================================
