------------------------------ MODULE MCIngest ------------------------------
(***************************************************************************)
(* Coset 0 has the cubes a and b, coset 1 has cube c.  Lines a1 and a2     *)
(* both solve a, a3 does so with more moves than needed, "bad" is refused. *)
(***************************************************************************)
EXTENDS IngestCommand, TLC

CONSTANTS a, b, c, a1, a2, a3, b1, c1, bad, w1, w2

MCCube == {a, b, c}
MCCosetOf == (a :> 0) @@ (b :> 0) @@ (c :> 1)
MCDist == (a :> 1) @@ (b :> 2) @@ (c :> 2)
MCLine == {a1, a2, a3, b1, c1, bad}
MCCubeOf == (a1 :> a) @@ (a2 :> a) @@ (a3 :> a) @@ (b1 :> b) @@ (c1 :> c)
         @@ (bad :> NoCube)
MCSize == (a1 :> 1) @@ (a2 :> 1) @@ (a3 :> 2) @@ (b1 :> 2) @@ (c1 :> 2) @@ (bad :> 1)
(* Line a2 has moves that canonical() merges.                              *)
MCRawSize == [MCSize EXCEPT ![a2] = 2]
MCInputs == {<<a1, a1, c1, b1>>, <<a2, a1, a3>>, <<bad, a3, c1, a1>>, << >>}
=============================================================================
