----------------------------- MODULE Involutions -----------------------------
(***************************************************************************)
(* The lists that the program makes when it starts: involution.cpp lists   *)
(* the self-inverse edges up to symmetry and all self-inverse corners of   *)
(* each parity, and counts the symmetries of the corners; tracker::init    *)
(* makes the set of corner hashes (corner_hash.cpp) that every edge        *)
(* coset's corner_set starts from.                                         *)
(***************************************************************************)
EXTENDS Coordinates

CONSTANTS
  EdgePlaces,    \* the edge permutations that are listed move these places only
  CornerSwaps,   \* the corners that are counted have so many swaps
  CountedTurns   \* the turns of the listed edges that cubes are counted for

ASSUME InvolutionAssumption == EdgePlaces \subseteq 0 .. 11 /\ CornerSwaps \subseteq 0 .. 4

VARIABLES
  parity,        \* of the lists that are made
  perms,         \* the edge permutations that are not expanded yet
  expanding,            \* the one that is being expanded, and its next turns
  edges,         \* a sequence of coordinates
  corners,       \* a set of coordinates
  ssym_count,    \* corner_ssym_count: [parity -> [set of symmetries -> Nat]]
  corner_init    \* the hashes of the corners

lists == <<parity, perms, expanding, edges, corners, ssym_count, corner_init>>

-----------------------------------------------------------------------------
(* invo_perms: the lowest free place keeps its cubie or swaps it.          *)
RECURSIVE InvoPerms(_, _, _)
InvoPerms(odd, arr, free) ==
  LET i == Min(free) IN
  IF free = {} THEN IF odd = 0 THEN {arr} ELSE {}
  ELSE InvoPerms(odd, arr, free \ {i}) \union
       UNION {InvoPerms(1 - odd, [arr EXCEPT ![i + 1] = k, ![k + 1] = i], free \ {i, k}) :
                k \in free \ {i}}

(* c * c == cube{}, of edges or corners alone.                             *)
SelfInverse(perm, orient, n) ==
  \A i \in DOMAIN perm : /\ perm[perm[i] + 1] = i - 1
                         /\ (orient[perm[i] + 1] + orient[i]) % n = 0

EdgePerms(p) == InvoPerms(p, Identity.ep, EdgePlaces)
CornerPerms(p) == InvoPerms(p, Identity.cp, 0 .. 7)

InitLists ==
  /\ parity \in 0 .. 1
  /\ perms = EdgePerms(parity)
  /\ expanding = << >>
  /\ edges = << >>
  /\ corners = {}
  /\ ssym_count = [p \in 0 .. 1 |-> << >>]
  /\ corner_init = {}

(* expand_ep: only a representative is expanded, and of its turns those    *)
(* are listed that no symmetry makes of earlier ones.                      *)
Expand(c, class) ==
  IF class.sym # 0 THEN << >>
  ELSE [cube |-> c, class |-> class, self |-> PermSelfSym("edges", class.rep),
        eo |-> 0, seen |-> {}, out |-> << >>]
BeginExpand(perm) ==
  LET c == [Identity EXCEPT !.ep = perm] IN Expand(c, PermClass("edges", c))

(* Mutant: the turns that symmetries make are not left out.                *)
BugSeen(eo, self) == {eo}
Seen(eo, self) == {OrientSymi("edges", eo, s) : s \in self}

Visit(st) ==
  LET c == SetEdgeOrient(st.cube, st.eo) IN
  IF st.eo \in st.seen \/ ~ SelfInverse(c.ep, c.eo, 2) THEN [st EXCEPT !.eo = @ + 1]
  ELSE [st EXCEPT !.eo = @ + 1, !.seen = @ \union Seen(st.eo, st.self),
                  !.out = Append(@, Coord("edges", st.class, c))]
VisitSome(start) ==
  LET st[k \in 0 .. 64] == IF k = 0 THEN start ELSE Visit(st[k - 1]) IN st[64]

BeginEdges ==
  LET perm == CHOOSE p \in perms : TRUE IN
  /\ expanding = << >> /\ perms # {}
  /\ expanding' = BeginExpand(perm)
  /\ perms' = perms \ {perm}
  /\ UNCHANGED <<parity, edges, corners, ssym_count, corner_init>>

VisitEdges ==
  /\ expanding # << >> /\ expanding.eo < 2048
  /\ expanding' = VisitSome(expanding)
  /\ UNCHANGED <<parity, perms, edges, corners, ssym_count, corner_init>>

EndEdges ==
  /\ expanding # << >> /\ expanding.eo = 2048
  /\ edges' = edges \o expanding.out
  /\ expanding' = << >>
  /\ UNCHANGED <<parity, perms, corners, ssym_count, corner_init>>

(* expand_cp.                                                              *)
CornerTurns == Tuple([co \in 1 .. 2187 |-> UnrankCornerOrient(co - 1)])
SelfInverseTurns(perm) == {t \in {CornerTurns[i] : i \in 1 .. 2187} : SelfInverse(perm, t, 3)}
ExpandCorners(perm) ==
  LET class == PermClass("corners", [Identity EXCEPT !.cp = perm]) IN
  {Coord("corners", class, [Identity EXCEPT !.cp = perm, !.co = t]) :
     t \in SelfInverseTurns(perm)}

GenCorners ==
  /\ expanding = << >> /\ perms = {} /\ corners = {}
  /\ corners' = UNION {ExpandCorners(p) : p \in CornerPerms(parity)}
  /\ UNCHANGED <<parity, perms, expanding, edges, ssym_count, corner_init>>

(* The corners that are counted, as cubes.                                 *)
Counted ==
  LET cubes == {ToCube("corners", cc) : cc \in corners} IN
  {c \in cubes : Cardinality({i \in 1 .. 8 : c.cp[i] > i - 1}) \in CornerSwaps}

SymmetryCount ==
  LET csyms == {<<c, SelfSym48(c)>> : c \in Counted} IN
  [csym \in {x[2] : x \in csyms} |-> Cardinality({x \in csyms : x[2] = csym})]

CountSymmetries ==
  /\ corners # {} /\ ssym_count[parity] = << >>
  /\ ssym_count' = [ssym_count EXCEPT ![parity] = SymmetryCount]
  /\ UNCHANGED <<parity, perms, expanding, edges, corners, corner_init>>

(* Mutant: the symmetries of the edges are counted for every corner.       *)
BugCommon(esym, csym) == Cardinality(esym)
Common(esym, csym) == Cardinality(esym \intersect csym)

(* cube_count: how many involutions, up to symmetry, have these edges.     *)
CubeCount(ec) ==
  LET c == ToCube("edges", ec)
      esym == SelfSym48(c)
      count == ssym_count[Parity(c)] IN
  MapThenSumSet(LAMBDA csym : count[csym] * Common(esym, csym), DOMAIN count)
    \div Cardinality(esym)

(* cmd_countall: how many cubes a solution of the cube c stands for, in a  *)
(* coset whose edges have these symmetries.                                *)
CountAll(c, edges_self) ==
  LET self == {0} \union {s \in edges_self : Symi(c, s) = c} IN 48 \div Cardinality(self)

-----------------------------------------------------------------------------
(* corner_hash: products below 2^56, and their remainders by 2^31 - 1.     *)
P == 2147483647
A == \H5d99b6
H == <<
  \H49585, \H9c207, \H5ccfa9, \H76717, \H319e2c, \H49cd0a, \H7b0a5, \H8aa2b,
  \H1d488bb, \H1f88b, \H19d25, \H101369, \H1f93d, \H83cbbe, \H1feca9, \H46848fb,
  \H257257, \H2809a9, \Haeb01b, \Hb8d5d7, \H24d085, \H9b39a, \H118a0eb, \H2b410c,
  \H135513, \H2b4ba9, \H70acd, \H2c7d21, \H7e7d3, \H157907, \H711662, \H98e886,
  \H693b2, \He56226, \H1850b9, \H1380d, \H7191f6, \H36156, \H9d75f, \H5b82e,
  \Hb0afba, \H17dfd7, \H163744b8, \H95a17fd, \H56381, \Hf87cb, \Hcb921, \H2df597,
  \H11809b, \H5908d, \He54529, \H42d3, \H82a11, \H12449dd, \H5a63fe, \H7bb85b,
  \H140de1a, \H133054f, \H194a91, \H574e1b, \H11c778f, \H1bb87, \H1bba3e, \Hb2605,
  \H21d5009, \H14b512e, \H57a751, \Ha4e29, \H1d36a3, \Ha4336, \He259b, \H21c00b,
  \H47c7312, \H29108f, \H199da27, \Hb299e, \Hca641, \H77bc2, \H3506a2, \He38f81,
  \H33010f, \H333fe9f, \H115d9c8, \H21c74a4, \Ha580eb, \H2d2481, \H558c492, \Had892,
  \Hfc759, \H12ef7b, \Ha1262, \Hf814ae, \H1f09f65, \H51d486, \H78238f, \H20b1210,
  \Hbfe87, \H8fa9a, \H5a8ec, \H14919, \Hedc430, \H139104a, \H1b02e21, \H17291,
  \H2b478b, \H255292, \H4319d, \H16e4fb, \Hfef82, \H5398db, \H6d939f, \H286f698,
  \H1b904e, \H1878d6, \H941389, \H191d05, \H1f8f1ac, \H70fa5, \H8b873f, \H383a07,
  \H67e4e, \Hd67ec7, \H27cd2c, \H6bd95e, \H476a91, \H818f2f, \H78a07, \H10fc341>>

(* a * n % P, bit by bit: to double a number is to rotate its 31 bits.     *)
LOCAL MulMod(a, n) ==
  LET Add(x, y) == IF x >= P - y THEN x - (P - y) ELSE x + y
      Rotate(k) == (a % 2 ^ (31 - k)) * 2 ^ k + (a \div 2 ^ (31 - k))
      sum[k \in 0 .. 27] ==
        LET low == IF k = 0 THEN 0 ELSE sum[k - 1] IN
        IF (n \div 2 ^ k) % 2 = 0 THEN low
        ELSE Add(low, IF k = 0 THEN a ELSE Rotate(k))
  IN sum[27]

(* Mutant: the turns are those of the representative.                      *)
BugKey(cc) == Real(cc)[1] * 4096 + cc.orient
Joined(real) == real[1] * 4096 + real[2]
Key(cc) == Joined(Real(cc))

HashKey(n) ==
  LET h0 == MulMod(A, n) % 128 IN 512 * h0 + (MulMod(H[h0 + 1], n) % 512)
CornerHash(cc) == HashKey(Key(cc))

InitTracker ==
  /\ ssym_count[parity] # << >> /\ corner_init = {}
  /\ corner_init' = {CornerHash(cc) : cc \in corners}
  /\ UNCHANGED <<parity, perms, expanding, edges, corners, ssym_count>>

NextLists ==
  \/ BeginEdges \/ VisitEdges \/ EndEdges \/ GenCorners \/ CountSymmetries \/ InitTracker

-----------------------------------------------------------------------------
Ready == corner_init # {}
EdgesDone == /\ expanding = << >> /\ perms = {} /\ corners = {}
             /\ DOMAIN ssym_count = 0 .. 1

(* No two corners of self-inverse cubes of one parity have one hash: a bit *)
(* of a corner_set is one cube, for the corners that there really are.     *)
HashIsPerfect == Ready => Cardinality(corner_init) = Cardinality(corners)

(* Self-inverse edges are listed once up to symmetry, whichever cube of    *)
(* the class one starts from: a coset of the database is not there twice.  *)
EdgesListedOnce ==
  LET At(x) == <<x.rep, x.orient>>
      Class(x) == {At(x)} \union
                  {<<x.rep, OrientSymi("edges", x.orient, s)>> : s \in PermSelfSym("edges", x.rep)}
      Turned(perm) == {c \in {SetEdgeOrient([Identity EXCEPT !.ep = perm], eo) : eo \in 0 .. 2047} :
                         SelfInverse(c.ep, c.eo, 2)}
      Coords(perm) == LET class == PermClass("edges", [Identity EXCEPT !.ep = perm]) IN
                      {Coord("edges", class, c) : c \in Turned(perm)}
      all == {At(x) : x \in UNION {Coords(perm) : perm \in EdgePerms(parity)}} IN
  EdgesDone =>
    /\ \A i \in DOMAIN edges :
         LET class == Class(edges[i]) IN
         \A j \in (DOMAIN edges) \ {i} : At(edges[j]) \notin class
    /\ all = UNION {Class(edges[i]) : i \in DOMAIN edges}

(* The count that the header of a coset gets, from the symmetries alone,   *)
(* is the number of cubes that the command unsolved prints of a coset that *)
(* has no solution: those that no symmetry of the edges makes smaller; and *)
(* countall, once all of them are solved, counts every cube whose edges a  *)
(* symmetry makes of these.                                                *)
CubesAreCounted ==
  Ready =>
    \A i \in DOMAIN edges : edges[i].orient \in CountedTurns =>
      LET e == ToCube("edges", edges[i])
          self == SelfSym("edges", edges[i])
          reps == {c \in {Compose(e, k, FALSE) : k \in Counted} :
                     \A s \in self : ~ Less(Sym(c, s), c)}
          images == {Sym(e, s) : s \in Symmetry} IN
      /\ CubeCount(edges[i]) = Cardinality(reps)
      /\ MapThenSumSet(LAMBDA c : CountAll(c, self), reps) = Cardinality(images) * Cardinality(Counted)
=============================================================================
