----------------------------- MODULE MCECSolver -----------------------------
(***************************************************************************)
(* A small puzzle for ECSolver.tla with the moves U2, R, R' and D2: U2 and *)
(* D2 are of opposite faces and commute, R has order three.  The edges are *)
(* the permutations of 1 .. 5 and the corners those of 1 .. 3; 360 of      *)
(* their pairs can be reached, up to 9 moves away.  A symmetry exchanges   *)
(* U2 with D2 and R with R'.  An R may keep the distance of the edges.     *)
(***************************************************************************)
EXTENDS ECSolver

U2 == 0
R1 == 1
R3 == 2
D2 == 3
MCFace == [m \in Move |-> CASE m = U2 -> 0 [] m \in {R1, R3} -> 1 [] m = D2 -> 3]

\* the function f with its values, which TLC otherwise computes at each use
Table(f) == CHOOSE g \in {f} \union {f} : TRUE

Then(p, q) == [i \in DOMAIN p |-> q[p[i]]]
EGen == [m \in Move |-> CASE m = U2 -> <<2, 1, 3, 4, 5>>
                            [] m = R1 -> <<1, 3, 4, 2, 5>>
                            [] m = R3 -> <<1, 4, 2, 3, 5>>
                            [] m = D2 -> <<1, 2, 3, 5, 4>>]
CGen == [m \in Move |-> CASE m \in {U2, D2} -> <<2, 1, 3>>
                            [] m = R1 -> <<2, 3, 1>>
                            [] m = R3 -> <<3, 1, 2>>]
EId == <<1, 2, 3, 4, 5>>
CId == <<1, 2, 3>>
MCHome == <<EId, CId>>

\* the states that n moves lead to, for n = 0 .. top
Levels(x, gen(_, _), top) ==
  LET level[n \in 0 .. top] ==
        IF n = 0 THEN {x} ELSE {gen(y, m) : y \in level[n - 1], m \in Move}
  IN Table([n \in 0 .. top |-> level[n]])
Level(x, levels) == CHOOSE n \in DOMAIN levels :
                      x \in levels[n] /\ \A k \in 0 .. n - 1 : x \notin levels[k]

ELevels == Levels(EId, LAMBDA p, m : Then(p, EGen[m]), 8)
CLevels == Levels(CId, LAMBDA p, m : Then(p, CGen[m]), 2)
Cubes == Levels(MCHome, LAMBDA x, m : <<Then(x[1], EGen[m]), Then(x[2], CGen[m])>>, 9)
EdgeTable == UNION {ELevels[n] : n \in DOMAIN ELevels}
CornerTable == UNION {CLevels[n] : n \in DOMAIN CLevels}

EMoveTable == Table([p \in EdgeTable |-> [m \in Move |-> Then(p, EGen[m])]])
CMoveTable == Table([p \in CornerTable |-> [m \in Move |-> Then(p, CGen[m])]])

\* the symmetry is a conjugation, by a permutation of order two
Conjugate(p, g) == Then(Then(g, p), g)
MCSym == {"same", "swap"}
ESymTable == Table([s \in MCSym |-> [p \in EdgeTable |->
             IF s = "same" THEN p ELSE Conjugate(p, <<5, 4, 3, 2, 1>>)]])
CSymTable == Table([s \in MCSym |-> [p \in CornerTable |->
             IF s = "same" THEN p ELSE Conjugate(p, <<2, 1, 3>>)]])
MSymTable == Table([s \in MCSym |-> [m \in Move |->
             IF s = "same" THEN m ELSE 3 - m]])
Code(p) == p[1] * 1000 + p[2] * 100 + p[3] * 10 + p[4]
Rep(p) == LET q == Conjugate(p, <<5, 4, 3, 2, 1>>) IN IF Code(p) <= Code(q) THEN p ELSE q
TimesTable == Table([p \in CornerTable |-> [q \in CornerTable |-> Then(p, q)]])
RepOfTable == Table([p \in EdgeTable |-> Rep(p)])

Inv(p) == [i \in DOMAIN p |-> CHOOSE j \in DOMAIN p : p[j] = i]
EDistTable == LET all == ELevels IN Table([p \in EdgeTable |-> Level(p, all)])
CDistTable == LET all == CLevels IN
  Table([p \in CornerTable |-> [q \in CornerTable |-> Level(Then(Inv(p), q), all)]])
DistTable == LET all == Cubes IN
  Table([x \in UNION {all[n] : n \in DOMAIN all} |-> Level(x, all)])

InvolutionTable == {p \in CornerTable : Then(p, p) = CId}
\* the two others have the hash of an involution
HashTable == Table([p \in CornerTable |-> IF Then(p, p) = CId THEN p ELSE CId])
StartsTable == {p \in EdgeTable : Then(p, p) = EId /\ Rep(p) = p}

\* TLC keeps the values of definitions, but not those given to constants
MCEdge == EdgeTable
MCCorner == CornerTable
MCEMove == EMoveTable
MCCMove == CMoveTable
MCTimes == TimesTable
MCESym == ESymTable
MCCSym == CSymTable
MCMSym == MSymTable
MCRepOf == RepOfTable
MCEDist == EDistTable
MCCDist == CDistTable
MCDist == DistTable
MCInvolution == InvolutionTable
MCHash == HashTable
MCStarts == StartsTable
=============================================================================
