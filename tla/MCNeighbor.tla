----------------------------- MODULE MCNeighbor -----------------------------
(***************************************************************************)
(* Three cosets of one or two cubes.  Move "ab" joins cosets 0 and 1, "ac" *)
(* joins 0 and 2, "bc" joins 1 and 2, and "aa" keeps coset 0.  Some        *)
(* wrapped sequences have the optimal length of the neighbor, some are     *)
(* longer.                                                                 *)
(***************************************************************************)
EXTENDS NeighborCommand, TLC

CONSTANTS a1, a2, b, c, w1, w2

MCCube == {a1, a2, b, c}
MCCosetOf == (a1 :> 0) @@ (a2 :> 0) @@ (b :> 1) @@ (c :> 2)
MCDist == (a1 :> 1) @@ (a2 :> 1) @@ (b :> 2) @@ (c :> 1)
MCMove == {"aa", "ab", "ac", "bc"}
MCFrom == ("aa" :> 0) @@ ("ab" :> 0) @@ ("ac" :> 0) @@ ("bc" :> 1)
MCTo == ("aa" :> 0) @@ ("ab" :> 1) @@ ("ac" :> 2) @@ ("bc" :> 2)
MCThere == ("aa" :> {<<a1, a2, 1>>, <<a2, a1, 2>>})
        @@ ("ab" :> {<<a1, b, 2>>, <<a2, b, 3>>})
        @@ ("ac" :> {<<a1, c, 2>>})
        @@ ("bc" :> {<<b, c, 1>>})
MCBack == ("aa" :> {})
       @@ ("ab" :> {<<b, a1, 2>>, <<b, a2, 1>>})
       @@ ("ac" :> {<<c, a1, 1>>})
       @@ ("bc" :> {<<c, b, 2>>})
=============================================================================
