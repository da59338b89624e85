-------------------------------- MODULE Cube --------------------------------
(***************************************************************************)
(* The cube of src/src/cube.{h,cpp}, avx2_cube.h and sym.{h,cpp}: twelve   *)
(* edges and eight corners, each with the cubie at a place and how it is   *)
(* turned.  A vector register of the code has a byte for each place, the   *)
(* cubie in its low half and the turn in its high half; here they are four *)
(* sequences, with place p at p + 1.                                       *)
(***************************************************************************)
EXTENDS Integers, Sequences, FiniteSets, SequencesExt

LOCAL Move == 0 .. 17        \* N_MOVES
Symmetry == 0 .. 47          \* N_SYM48; the first 16 keep the axis of U and D

(* TLC evaluates a function again at each use, and a sequence once.        *)
Tuple(f) == f \o << >>
UpTo(n) == [i \in 1 .. n |-> i]
LOCAL Sum(s) ==
  LET sum[i \in 0 .. Len(s)] == IF i = 0 THEN 0 ELSE sum[i - 1] + s[i] IN sum[Len(s)]

Identity == [ep |-> [i \in 1 .. 12 |-> i - 1] \o << >>,
             eo |-> [i \in 1 .. 12 |-> 0] \o << >>,
             cp |-> [i \in 1 .. 8 |-> i - 1] \o << >>,
             co |-> [i \in 1 .. 8 |-> 0] \o << >>]

M_U == [ep |-> <<3, 0, 1, 2, 4, 5, 6, 7, 8, 9, 10, 11>>,
        eo |-> <<1, 1, 1, 1, 0, 0, 0, 0, 0, 0, 0, 0>>,
        cp |-> <<3, 0, 1, 2, 4, 5, 6, 7>>, co |-> Identity.co]
S_URF3 == [ep |-> <<1, 8, 5, 9, 3, 11, 7, 10, 0, 4, 6, 2>>, eo |-> Identity.eo,
           cp |-> <<0, 4, 5, 1, 3, 7, 6, 2>>, co |-> <<1, 2, 1, 2, 2, 1, 2, 1>>]
S_U4 == [ep |-> <<3, 0, 1, 2, 7, 4, 5, 6, 11, 8, 9, 10>>,
         eo |-> [i \in 1 .. 12 |-> 1] \o << >>,
         cp |-> <<3, 0, 1, 2, 7, 4, 5, 6>>, co |-> Identity.co]
S_LR2 == [ep |-> <<2, 1, 0, 3, 6, 5, 4, 7, 9, 8, 11, 10>>, eo |-> Identity.eo,
          cp |-> <<1, 0, 3, 2, 5, 4, 7, 6>>, co |-> Identity.co]

-----------------------------------------------------------------------------
(* The permutation q, and then p on what it gives.                         *)
After(p, q) == Tuple([i \in DOMAIN q |-> p[q[i] + 1]])

(* avx2::compose: in a mirror the corners turn the other way.              *)
Compose(a, b, mirror) ==
  [ep |-> After(a.ep, b.ep),
   eo |-> Tuple([i \in 1 .. 12 |-> (a.eo[b.ep[i] + 1] + b.eo[i]) % 2]),
   cp |-> After(a.cp, b.cp),
   co |-> Tuple([i \in 1 .. 8 |->
            LET t == a.co[b.cp[i] + 1] IN
            (IF mirror THEN t - b.co[i] ELSE t + b.co[i]) % 3])]

(* avx2::invert raises a permutation to the power 27719, from its third on *)
(* by squares ("v") and products with the third ("p3") and the first       *)
(* ("p"): every cycle of at most 12 places comes round in 27720 steps.     *)
Shuffles == <<"v", "v", "v", "p3", "v", "v", "v", "v", "p",
                    "v", "v", "v", "v", "v", "p3", "v", "p">>

InvertPerm(p) ==
  LET p3 == After(After(p, p), p)
      power[k \in 0 .. 17] ==
        LET v == power[k - 1] IN
        IF k = 0 THEN p3
        ELSE After(v, CASE Shuffles[k] = "v" -> v [] Shuffles[k] = "p3" -> p3
                        [] Shuffles[k] = "p" -> p) IN
  power[17]

InvertTurns(c, ep, cp) ==
  [ep |-> ep, eo |-> After(c.eo, ep),
   cp |-> cp, co |-> After(Tuple([i \in 1 .. 8 |-> (2 * c.co[i]) % 3]), cp)]
Invert(c) == InvertTurns(c, InvertPerm(c.ep), InvertPerm(c.cp))

(* operator < compares the bytes from the last corner down to the first    *)
(* edge.                                                                   *)
Byte(c, i) == IF i > 12 THEN 16 * c.co[i - 12] + c.cp[i - 12] ELSE 16 * c.eo[i] + c.ep[i]
Less(a, b) ==
  \E i \in 1 .. 20 : /\ Byte(a, i) < Byte(b, i)
                     /\ \A j \in i + 1 .. 20 : Byte(a, j) = Byte(b, j)

-----------------------------------------------------------------------------
(* init_syms: the odd ones are mirrors.                                    *)
S_F2 == Compose(Compose(Compose(S_URF3, S_U4, FALSE), S_U4, FALSE), Invert(S_URF3), FALSE)

SymCube[i \in Symmetry] ==
  CASE i = 0         -> Identity
    [] i = 1         -> S_LR2
    [] i \in 2 .. 3   -> Compose(S_F2, SymCube[i - 2], FALSE)
    [] i \in 4 .. 15  -> Compose(S_U4, SymCube[i - 4], FALSE)
    [] i \in 16 .. 47 -> Compose(S_URF3, SymCube[i - 16], FALSE)

(* The symmetries, each with the one that takes it back.                   *)
WithInverses(syms) ==
  Tuple([i \in 1 .. 48 |->
    [sym |-> syms[i],
     inv |-> syms[CHOOSE j \in 1 .. 48 : Compose(syms[i], syms[j], i % 2 = 0) = Identity]]])
Syms == WithInverses(Tuple([i \in 1 .. 48 |-> SymCube[i - 1]]))

Conjugate(x, c, mirror) == Compose(Compose(x.inv, c, mirror), x.sym, mirror)
ConjugateBack(x, c, mirror) == Compose(Compose(x.sym, c, mirror), x.inv, mirror)
Sym(c, s) == Conjugate(Syms[s + 1], c, s % 2 = 1)
Symi(c, s) == ConjugateBack(Syms[s + 1], c, s % 2 = 1)

(* init_moves: the powers of U, then R and F, then D, L and B.             *)
MoveCube[m \in Move] ==
  CASE m = 0        -> M_U
    [] m \in 1 .. 2  -> Compose(MoveCube[m - 1], M_U, FALSE)
    [] m \in 3 .. 8  -> Sym(MoveCube[m - 3], 16)
    [] m \in 9 .. 17 -> Invert(Sym(MoveCube[m - 9], 11))

Moves == Tuple([m \in 1 .. 18 |-> MoveCube[m - 1]])

DoMove(c, m) == Compose(c, Moves[m + 1], FALSE)
Premove(c, m) == Compose(Moves[m + 1], c, FALSE)
FromMoveseq(moves) == FoldLeft(DoMove, Identity, moves)
MoveInv(m) == m + 2 - 2 * (m % 3)

(* sym::init: the group, told apart by what it makes of U1 R1, and how it  *)
(* moves the moves.                                                        *)
LOCAL Probe == DoMove(M_U, 3)
LOCAL Images == Tuple([s \in 1 .. 48 |-> Sym(Probe, s - 1)])
LOCAL Lookup(images, c) == CHOOSE s \in Symmetry : images[s + 1] = c

Products(images) ==
  Tuple([i \in 1 .. 48 |-> Tuple([j \in 1 .. 48 |-> Lookup(images, Sym(images[i], j - 1))])])
SymProduct == Products(Images)
SymInverse == Tuple([s \in 1 .. 48 |-> Lookup(Images, Symi(Probe, s - 1))])

MovesSeen(moves) ==
  Tuple([m \in 1 .. 18 |-> Tuple([s \in 1 .. 48 |->
    LET image == Symi(moves[m], s - 1) IN CHOOSE n \in Move : moves[n + 1] = image])])
SymMovei == MovesSeen(Moves)

Movei(m, s) == SymMovei[m + 1][s + 1]
SymMove(m, s) == Movei(m, SymInverse[s + 1])

-----------------------------------------------------------------------------
(* Permutations by number: the nibbles of a table are lowered, or taken    *)
(* out, as the cubies are used up.                                         *)
Factorial[n \in 0 .. 12] == IF n = 0 THEN 1 ELSE n * Factorial[n - 1]

Rank(p) ==
  FoldLeft(LAMBDA r, i :
             r * (Len(p) - i + 1) + p[i] - Cardinality({j \in 1 .. i - 1 : p[j] < p[i]}),
           0, UpTo(Len(p) - 1))

Unrank(n, r) ==
  LET Take(st, i) ==
        LET d == ((r \div Factorial[n - i]) % (n - i + 1)) + 1 IN
        [p |-> Append(st.p, st.left[d]), left |-> RemoveAt(st.left, d)] IN
  FoldLeft(Take, [p |-> << >>, left |-> [i \in 1 .. n |-> i - 1]], UpTo(n)).p

EdgePerm(c) == Rank(c.ep)
CornerPerm(c) == Rank(c.cp)
(* The cubies that are put in place are not turned.                        *)
SetEdgePerm(c, r) == [c EXCEPT !.ep = Unrank(12, r), !.eo = Identity.eo]
SetCornerPerm(c, r) == [c EXCEPT !.cp = Unrank(8, r), !.co = Identity.co]

(* Edge turns by number, without the last one, which set_eorient_parity    *)
(* makes of the others.                                                    *)
EdgeOrient(c) == Sum([i \in 1 .. 11 |-> c.eo[i] * 2 ^ (i - 1)])

SetEdgeOrient(c, eorient) ==
  LET bit == [i \in 1 .. 11 |-> (eorient \div 2 ^ (i - 1)) % 2] IN
  [c EXCEPT !.eo = Append(bit, (Sum(c.eo) + Sum(bit)) % 2)]

(* Corner turns by number, without the first one.  The divisions by powers *)
(* of three are multiplications by a reciprocal in sixteen bits, of which  *)
(* four more are shifted out for 27 and above.                             *)
CornerOrient(c) == Sum([i \in 1 .. 7 |-> c.co[i + 1] * 3 ^ (i - 1)])

(* Mutant: the first of the four is forgotten.                             *)
BugShift(k) == IF k > 4 THEN 16 ELSE 1
Shift(k) == IF k > 3 THEN 16 ELSE 1
Reciprocal == <<21846, 7282, 38837, 12946, 4316, 1439>>
Divided(corient, k) ==
  IF k = 1 THEN corient
  ELSE ((corient * Reciprocal[k - 1]) \div 65536) \div Shift(k)

UnrankCornerOrient(corient) ==
  LET third(v) == (v * 21846) \div 65536
      co == [k \in 1 .. 7 |-> LET v == Divided(corient, k) IN v - 3 * third(v)] IN
  <<(- Sum(co)) % 3>> \o co

SetCornerOrient(c, corient) == [c EXCEPT !.co = UnrankCornerOrient(corient)]

(* avx2::parity: the inversions of both permutations.                      *)
Inversions(p) == Cardinality({<<i, j>> \in (DOMAIN p) \X (DOMAIN p) : i < j /\ p[i] > p[j]})
Parity(c) == (Inversions(c.ep) + Inversions(c.cp)) % 2

SelfSym48(c) == {s \in Symmetry : Sym(c, s) = c}
=============================================================================
