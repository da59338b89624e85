----------------------------- MODULE Coordinates -----------------------------
(***************************************************************************)
(* The coordinates that the solver moves along instead of a cube: ecoord.h *)
(* and ccoord.h over eperm48, cperm16 and orient of src/src.  The edges    *)
(* (corners) are a permutation up to symmetry, the symmetry that leads to  *)
(* it from its representative, and the turns as they are there.  A number  *)
(* of a class is modelled by its representative, the smallest permutation  *)
(* of the class: the tables number the classes in this order.              *)
(***************************************************************************)
EXTENDS Cube

Kind == {"edges", "corners"}
SymOf(kind) == IF kind = "edges" THEN 0 .. 47 ELSE 0 .. 15

Perm(kind, c) == IF kind = "edges" THEN EdgePerm(c) ELSE CornerPerm(c)
PermCube(kind, perm) ==
  IF kind = "edges" THEN SetEdgePerm(Identity, perm) ELSE SetCornerPerm(Identity, perm)
Orient(kind, c) == IF kind = "edges" THEN EdgeOrient(c) ELSE CornerOrient(c)
SetOrient(kind, c, orient) ==
  IF kind = "edges" THEN SetEdgeOrient(c, orient) ELSE SetCornerOrient(c, orient)

-----------------------------------------------------------------------------
(* The tables of orient.cpp.                                               *)
OrientMove(kind, orient, m) ==
  Orient(kind, DoMove(SetOrient(kind, Identity, orient), m))
OrientSymi(kind, orient, s) ==
  Orient(kind, Symi(SetOrient(kind, Identity, orient), s))
OrientSelfSym(kind, orient) ==
  {s \in SymOf(kind) \ {0} : OrientSymi(kind, orient, s) = orient}

(* The permutations that the symmetries make of this one.                  *)
PermImages(kind, c) == Tuple([s \in 1 .. Cardinality(SymOf(kind)) |-> Perm(kind, Sym(c, s - 1))])
Leading(kind, images, perm) == {s \in SymOf(kind) \ {0} : images[s + 1] = perm}
PermSelfSym(kind, perm) == Leading(kind, PermImages(kind, PermCube(kind, perm)), perm)

(* The constructors from a cube: the first symmetry to the smallest one.   *)
Smallest(images) ==
  LET rep == Min({images[i] : i \in DOMAIN images}) IN
  [rep |-> rep, sym |-> SymInverse[Min({i \in DOMAIN images : images[i] = rep})]]
PermClass(kind, c) == Smallest(PermImages(kind, c))
Coord(kind, class, c) ==
  [rep |-> class.rep, sym |-> class.sym,
   orient |-> OrientSymi(kind, Orient(kind, c), class.sym)]
FromCube(kind, c) == Coord(kind, PermClass(kind, c), c)

(* r2s of generate: of the symmetries that lead from the representative to *)
(* a permutation eperm48 keeps the last one and cperm16 the first.         *)
FromRep(kind, rep, perm) ==
  LET to == Leading(kind, PermImages(kind, PermCube(kind, rep)), perm) IN
  [rep |-> rep, sym |-> IF perm = rep THEN 0
                        ELSE (IF kind = "edges" THEN Max(to) ELSE Min(to))]
RawToSym(kind, perm) == FromRep(kind, PermClass(kind, PermCube(kind, perm)).rep, perm)

(* Mutant: the symmetries are put together the other way round.            *)
BugCompound(lhs, rhs) == SymProduct[rhs + 1][lhs + 1]
Compound(lhs, rhs) == SymProduct[lhs + 1][rhs + 1]

(* move_ex, and movei of the turns.                                        *)
Moved(kind, x, n, ex) ==
  [rep |-> ex.rep, sym |-> Compound(ex.sym, x.sym),
   orient |-> OrientSymi(kind, OrientMove(kind, x.orient, n), ex.sym)]
MoveEx(kind, rep, n) == RawToSym(kind, Perm(kind, DoMove(PermCube(kind, rep), n)))
MoveAs(kind, x, n) == Moved(kind, x, n, MoveEx(kind, x.rep, n))
MoveCoord(kind, x, m) == MoveAs(kind, x, Movei(m, x.sym))

(* operator cube.                                                          *)
ToCube(kind, x) == Sym(SetOrient(kind, PermCube(kind, x.rep), x.orient), x.sym)

SelfSym(kind, x) == PermSelfSym(kind, x.rep) \intersect OrientSelfSym(kind, x.orient)

(* ccoord::real.                                                           *)
Real(x) == <<CornerPerm(Sym(PermCube("corners", x.rep), x.sym)),
             OrientSymi("corners", x.orient, SymInverse[x.sym + 1])>>
=============================================================================
