------------------------------ MODULE CubeWalk ------------------------------
(***************************************************************************)
(* A sequence of moves and what the program makes of it: the cube, the     *)
(* coordinates that are moved along with it as ECSolver.tla's search does, *)
(* the solution slot, and the neighbors of its cube (neighborsolver).      *)
(***************************************************************************)
EXTENDS SolutionCodec, Coordinates

CONSTANT Wrappings   \* the symmetries that neighbors are brought back with

ASSUME WalkAssumption == Wrappings \subseteq Symmetry

VARIABLES
  edge_coord, corner_coord   \* ec and cc of the search

walk == <<seq, room, edge_coord, corner_coord>>

InitWalk ==
  /\ Init
  /\ edge_coord = FromCube("edges", FromMoveseq(seq))
  /\ corner_coord = FromCube("corners", FromMoveseq(seq))

Turn(m) ==
  /\ Extend(m)
  /\ edge_coord' = MoveCoord("edges", edge_coord, m)
  /\ corner_coord' = MoveCoord("corners", corner_coord, m)

NextWalk == \E m \in Alphabet : Turn(m)

-----------------------------------------------------------------------------
(* neighborsolver: the cube with m done before and after it, seen from     *)
(* another side, and moves that make it.                                   *)
Wrap(c, m, s) == Sym(DoMove(Premove(c, MoveInv(m)), m), s)

WrapMoves(moves, m, s) ==
  LET wrapped == <<MoveInv(m)>> \o moves \o <<m>> IN
  Canonical([i \in DOMAIN wrapped |-> SymMove(wrapped[i], s)])

(* Mutant: the move back is mapped like the move.                          *)
BugWayBack(m, s) == MoveInv(Movei(m, s))

(* cmd_neighbor goes the other way with this move and the inverse symmetry.*)
WayBack(m, s) == MoveInv(Movei(m, SymInverse[s + 1]))

-----------------------------------------------------------------------------
(* Canonical turns the cube as the sequence does, is never longer, and     *)
(* keeps only moves.                                                       *)
CanonicalKeepsCube ==
  LET s == Canonical(seq) IN
  /\ \A i \in DOMAIN s : s[i] \in Move
  /\ Len(s) <= Len(seq)
  /\ FromMoveseq(s) = FromMoveseq(seq)

(* The coordinates that are moved along are those of the cube: they give   *)
(* its edges and its corners back, and although the symmetry may be        *)
(* another one than the constructor takes, the turns of the representative *)
(* are the constructor's up to the representative's own symmetries, which  *)
(* is what the pruning tables are looked up with.                          *)
CoordinatesFollow ==
  LET c == FromMoveseq(seq)
      Same(x, fresh, kind) ==
        /\ x.rep = fresh.rep
        /\ \/ x.orient = fresh.orient
           \/ \E s \in PermSelfSym(kind, x.rep) : x.orient = OrientSymi(kind, fresh.orient, s) IN
  /\ ToCube("edges", edge_coord) = [c EXCEPT !.cp = Identity.cp, !.co = Identity.co]
  /\ ToCube("corners", corner_coord) = [c EXCEPT !.ep = Identity.ep, !.eo = Identity.eo]
  /\ Same(edge_coord, FromCube("edges", c), "edges")
  /\ Same(corner_coord, FromCube("corners", c), "corners")
  /\ Real(corner_coord) = <<CornerPerm(c), CornerOrient(c)>>

(* A solution of a coset wrapped in a move, as a sequence, solves what the *)
(* cube wrapped in it is; and the move and symmetry that the command       *)
(* neighbor takes from the neighbor lead back to the first cube.           *)
NeighborsWrap ==
  seq # << >> =>
    LET m == Last(seq)
        c == FromMoveseq(Front(seq)) IN
    \A s \in Wrappings :
      /\ FromMoveseq(WrapMoves(Front(seq), m, s)) = Wrap(c, m, s)
      /\ Wrap(Wrap(c, m, s), WayBack(m, s), SymInverse[s + 1]) = c

(* The numbers of a cube give it back, whatever the cube was before they   *)
(* are set; the inverse is what the moves backwards make; and the parity   *)
(* of the edges alone is the parity of the quarter turns.                  *)
CubeReadsBack ==
  LET c == FromMoveseq(seq)
      inverse == Invert(c)
      back == FromMoveseq([i \in DOMAIN seq |-> MoveInv(seq[Len(seq) + 1 - i])])
      SetAll(d) ==
        SetOrient("corners", SetOrient("edges",
          SetCornerPerm(SetEdgePerm(d, EdgePerm(c)), CornerPerm(c)), EdgeOrient(c)), CornerOrient(c))
      quarters == Cardinality({i \in DOMAIN seq : Quarters(seq[i]) # 2}) IN
  /\ inverse = back /\ Compose(c, inverse, FALSE) = Identity
  /\ SetAll(Identity) = c /\ SetAll(inverse) = c
  /\ SetEdgeOrient(inverse, EdgeOrient(c)).eo = c.eo
  /\ Parity([c EXCEPT !.cp = Identity.cp]) = quarters % 2 /\ Parity(c) = 0
=============================================================================
