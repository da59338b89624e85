--------------------------- MODULE ECSolverProofs ---------------------------
(***************************************************************************)
(* Proofs about ECSolver.tla for any puzzle: what the search of a coset    *)
(* records is optimal and the bound that it leaves is true, though it      *)
(* drops symmetric seeds, orders of commuting moves, and nodes by edge     *)
(* distances that it does not look up and by an old corner table.          *)
(***************************************************************************)
EXTENDS ECSolver, SequenceTheorems, WellFoundedInduction, TLAPS

(* n moves lead from x to t.                                               *)
Near(x, t, n) ==
  \E p \in [0 .. n -> State] :
    /\ p[0] = x /\ p[n] = t
    /\ \A i \in 1 .. n : \E m \in Move : p[i] = MoveCube(p[i - 1], m)

(* The edges are solved and the corners are those of a coset's cube.       *)
Target(c) == <<Home[1], c>>

-----------------------------------------------------------------------------
(* Numbers and states.                                                     *)

(* A nonempty set of numbers has a least one.                              *)
LEMMA LeastNumber ==
  ASSUME NEW S \in SUBSET Nat, S # {}
  PROVE  \E m \in S : \A n \in S : m <= n
<1> DEFINE R == OpToRel(<, Nat)
<1>1. IsWellFoundedOn(R, Nat)
  BY NatLessThanWellFounded
<1>2. \A m, n \in Nat : <<m, n>> \in R <=> m < n
  BY DEF OpToRel
<1> HIDE DEF R
<1>3. PICK m \in S : \A n \in S : ~ (<<n, m>> \in R)
  BY <1>1, WFMin, Zenon
<1>4. \A n \in S : m <= n
  <2>1. TAKE n \in S
  <2>2. m \in Nat /\ n \in Nat /\ ~ (n < m)
    BY <1>2, <1>3
  <2>3. QED
    BY <2>2
<1>5. QED
  BY <1>4

(* Induction, for a set of numbers: a number that is missing would have a  *)
(* least one before it.                                                    *)
LEMMA AllNumbers ==
  ASSUME NEW n \in Nat, NEW S, 0 \in S, \A i \in 1 .. n : i - 1 \in S => i \in S
  PROVE  \A i \in 0 .. n : i \in S
<1> DEFINE Missing == {i \in 0 .. n : i \notin S}
<1>1. SUFFICES ASSUME Missing # {}
               PROVE  FALSE
  OBVIOUS
<1>2. Missing \in SUBSET Nat
  OBVIOUS
<1>3. PICK m \in Missing : \A i \in Missing : m <= i
  BY <1>1, <1>2, LeastNumber
<1>4. m \in 1 .. n /\ m \notin S
  BY <1>3
<1>5. m - 1 \in 0 .. n /\ ~ (m <= m - 1)
  BY <1>4
<1>6. m - 1 \in S
  BY <1>3, <1>5
<1>7. QED
  BY <1>4, <1>6

LEMMA Constants ==
  /\ NMoves \in Nat \ {0} /\ Move \subseteq Nat /\ 0 \in Move
  /\ Home \in State /\ Home[1] \in Edge /\ Home[2] \in Corner /\ Home = Target(Home[2])
  /\ SeedDepth \in Nat
<1>1. Home \in State
  BY ParameterAssumption
<1>2. /\ Home[1] \in Edge /\ Home[2] \in Corner /\ Home = Target(Home[2])
  BY <1>1 DEF State, Target
<1>3. NMoves \in Nat \ {0} /\ Move \subseteq Nat /\ 0 \in Move
  BY ParameterAssumption DEF Move
<1>4. QED
  BY <1>1, <1>2, <1>3, ParameterAssumption

LEMMA OneMove ==
  ASSUME NEW x \in State, NEW m \in Move
  PROVE  MoveCube(x, m) \in State
<1>1. x[1] \in Edge /\ x[2] \in Corner
  BY DEF State
<1>2. EMove[x[1]][m] \in Edge /\ CMove[x[2]][m] \in Corner
  BY <1>1, MoveAssumption
<1>3. QED
  BY <1>2 DEF MoveCube, State

(* Played is a recursive function of the numbers up to Len(mv).            *)
LEMMA PlayedSteps ==
  ASSUME NEW x, NEW mv \in Seq(Move)
  PROVE  /\ Played(x, mv)[0] = x
         /\ \A i \in 1 .. Len(mv) : Played(x, mv)[i] = MoveCube(Played(x, mv)[i - 1], mv[i])
<1> DEFINE N == Len(mv)
           Body(g, i) == IF i = 0 THEN x ELSE MoveCube(g[i - 1], mv[i])
           IsPlayed(g, n) == g = [i \in 0 .. n |-> Body(g, i)]
           Exists == {n \in Nat : \E g : IsPlayed(g, n)}
<1>1. N \in Nat
  BY LenProperties
<1>0. Played(x, mv) = CHOOSE g : g = [i \in 0 .. N |-> Body(g, i)]
  BY DEF Played
<1> HIDE DEF N
<1>2. 0 \in Exists
  <2> DEFINE g == [i \in 0 .. 0 |-> x]
  <2>1. \A i \in 0 .. 0 : i = 0 /\ Body(g, i) = x
    OBVIOUS
  <2>2. IsPlayed(g, 0)
    BY <2>1
  <2>3. QED
    BY <2>2
<1>3. ASSUME NEW n \in 1 .. N, n - 1 \in Exists
      PROVE  n \in Exists
  <2>1. PICK g : IsPlayed(g, n - 1)
    BY <1>3
  <2> DEFINE last == MoveCube(g[n - 1], mv[n])
             h == [i \in 0 .. n |-> IF i = n THEN last ELSE g[i]]
  <2>2. \A i \in 0 .. n - 1 : g[i] = Body(g, i) /\ h[i] = g[i]
    BY <2>1
  <2>3. ASSUME NEW i \in 0 .. n
        PROVE  h[i] = Body(h, i)
    <3>1. CASE i = n
      <4>1. h[i] = last /\ h[i - 1] = g[n - 1]
        BY <3>1
      <4> HIDE DEF h
      <4>2. QED
        BY <3>1, <4>1
    <3>2. CASE i = 0
      <4>1. 0 \in 0 .. n - 1
        OBVIOUS
      <4>2. g[0] = Body(g, 0) /\ h[0] = g[0]
        BY <2>2, <4>1
      <4> HIDE DEF h
      <4>3. QED
        BY <3>2, <4>2
    <3>3. CASE i \in 1 .. n - 1
      <4>1. i - 1 \in 0 .. n - 1 /\ i \in 0 .. n - 1 /\ i # 0
        BY <3>3
      <4>2. h[i] = Body(g, i) /\ h[i - 1] = g[i - 1]
        BY <2>2, <4>1
      <4> HIDE DEF h
      <4>3. QED
        BY <4>1, <4>2
    <3>4. QED
      BY <3>1, <3>2, <3>3
  <2>4. h = [i \in 0 .. n |-> h[i]]
    OBVIOUS
  <2> HIDE DEF h
  <2>5. h = [i \in 0 .. n |-> Body(h, i)]
    BY <2>3, <2>4
  <2>6. QED
    BY <1>1, <2>5
<1>4. N \in Exists
  <2> HIDE DEF Exists
  <2>1. \A n \in 0 .. N : n \in Exists
    BY <1>1, <1>2, <1>3, AllNumbers
  <2>2. QED
    BY <1>1, <2>1
<1>5. IsPlayed(Played(x, mv), N)
  <2>1. \E g : g = [i \in 0 .. N |-> Body(g, i)]
    BY <1>4
  <2>2. QED
    BY <1>0, <2>1
<1> HIDE DEF Exists
<1>6. QED
  BY <1>1, <1>5 DEF N

(* A state after some moves depends on these only.                         *)
LEMMA PlayedPrefix ==
  ASSUME NEW x, NEW mv \in Seq(Move), NEW nv \in Seq(Move),
         NEW k \in Nat, k <= Len(mv), k <= Len(nv), \A i \in 1 .. k : mv[i] = nv[i]
  PROVE  \A i \in 0 .. k : Played(x, mv)[i] = Played(x, nv)[i]
<1> DEFINE p == Played(x, mv)
           q == Played(x, nv)
           S == {i \in Nat : p[i] = q[i]}
<1>1. Len(mv) \in Nat /\ Len(nv) \in Nat
  BY LenProperties
<1>2. /\ p[0] = q[0]
      /\ \A i \in 1 .. k : p[i] = MoveCube(p[i - 1], mv[i]) /\ q[i] = MoveCube(q[i - 1], nv[i])
  BY <1>1, PlayedSteps
<1> HIDE DEF p, q
<1>3. 0 \in S
  BY <1>2
<1>4. ASSUME NEW i \in 1 .. k, i - 1 \in S
      PROVE  i \in S
  BY <1>2, <1>4
<1> HIDE DEF S
<1>5. \A i \in 0 .. k : i \in S
  BY <1>3, <1>4, AllNumbers
<1>6. QED
  BY <1>5 DEF S, p, q

LEMMA PlayedStates ==
  ASSUME NEW x \in State, NEW mv \in Seq(Move)
  PROVE  \A i \in 0 .. Len(mv) : Played(x, mv)[i] \in State
<1> DEFINE p == Played(x, mv)
           S == {i \in Nat : p[i] \in State}
<1>1. Len(mv) \in Nat /\ \A i \in 1 .. Len(mv) : mv[i] \in Move
  BY LenProperties, ElementOfSeq
<1>2. /\ p[0] = x
      /\ \A i \in 1 .. Len(mv) : p[i] = MoveCube(p[i - 1], mv[i])
  BY PlayedSteps
<1> HIDE DEF p
<1>3. 0 \in S
  BY <1>2
<1>4. ASSUME NEW i \in 1 .. Len(mv), i - 1 \in S
      PROVE  i \in S
  BY <1>1, <1>2, <1>4, OneMove
<1> HIDE DEF S
<1>5. \A i \in 0 .. Len(mv) : i \in S
  BY <1>1, <1>3, <1>4, AllNumbers
<1>6. QED
  BY <1>5 DEF S, p

(* The corners do not depend on the edges.                                 *)
LEMMA PlayedCorners ==
  ASSUME NEW x, NEW y, x[2] = y[2], NEW mv \in Seq(Move)
  PROVE  \A i \in 0 .. Len(mv) : Played(x, mv)[i][2] = Played(y, mv)[i][2]
<1> DEFINE p == Played(x, mv)
           q == Played(y, mv)
           S == {i \in Nat : p[i][2] = q[i][2]}
<1>1. Len(mv) \in Nat
  BY LenProperties
<1>2. /\ p[0] = x /\ q[0] = y
      /\ \A i \in 1 .. Len(mv) : p[i] = MoveCube(p[i - 1], mv[i]) /\ q[i] = MoveCube(q[i - 1], mv[i])
  BY PlayedSteps
<1> HIDE DEF p, q
<1>3. 0 \in S
  BY <1>2
<1>4. ASSUME NEW i \in 1 .. Len(mv), i - 1 \in S
      PROVE  i \in S
  <2>1. p[i][2] = CMove[p[i - 1][2]][mv[i]] /\ q[i][2] = CMove[q[i - 1][2]][mv[i]]
    BY <1>2 DEF MoveCube
  <2>2. QED
    BY <1>4, <2>1
<1> HIDE DEF S
<1>5. \A i \in 0 .. Len(mv) : i \in S
  BY <1>1, <1>3, <1>4, AllNumbers
<1>6. QED
  BY <1>5 DEF S, p, q

-----------------------------------------------------------------------------
(* Paths.                                                                  *)

LEMMA NearNothing ==
  ASSUME NEW x, NEW t \in State
  PROVE  Near(x, t, 0) <=> x = t
<1>1. ASSUME Near(x, t, 0)
      PROVE  x = t
  BY <1>1 DEF Near
<1>2. ASSUME x = t
      PROVE  Near(x, t, 0)
  <2> DEFINE p == [i \in 0 .. 0 |-> x]
  <2>1. p \in [0 .. 0 -> State] /\ p[0] = x /\ p[0] = t
    BY <1>2
  <2> HIDE DEF p
  <2>2. QED
    BY <2>1 DEF Near
<1>3. QED
  BY <1>1, <1>2

(* The first move of a path.                                               *)
LEMMA NearSteps ==
  ASSUME NEW x \in State, NEW t, NEW n \in Nat
  PROVE  Near(x, t, n + 1) <=> \E m \in Move : Near(MoveCube(x, m), t, n)
<1>1. ASSUME Near(x, t, n + 1)
      PROVE  \E m \in Move : Near(MoveCube(x, m), t, n)
  <2>1. PICK p \in [0 .. n + 1 -> State] :
          /\ p[0] = x /\ p[n + 1] = t
          /\ \A i \in 1 .. n + 1 : \E m \in Move : p[i] = MoveCube(p[i - 1], m)
    BY <1>1 DEF Near
  <2>2. PICK m \in Move : p[1] = MoveCube(x, m)
    <3>1. 1 \in 1 .. n + 1 /\ 1 - 1 = 0
      OBVIOUS
    <3>2. QED
      BY <2>1, <3>1
  <2> DEFINE q == [i \in 0 .. n |-> p[i + 1]]
  <2>3. q \in [0 .. n -> State]
    <3>1. \A i \in 0 .. n : i + 1 \in 0 .. n + 1
      OBVIOUS
    <3>2. QED
      BY <3>1
  <2>4. q[0] = MoveCube(x, m) /\ q[n] = t
    BY <2>1, <2>2
  <2>5. ASSUME NEW i \in 1 .. n
        PROVE  \E k \in Move : q[i] = MoveCube(q[i - 1], k)
    <3>1. i + 1 \in 1 .. n + 1 /\ (i + 1) - 1 = i /\ (i - 1) + 1 = i /\ i - 1 \in 0 .. n
      OBVIOUS
    <3>2. q[i] = p[i + 1] /\ q[i - 1] = p[i]
      BY <3>1
    <3> HIDE DEF q
    <3>3. QED
      BY <2>1, <3>1, <3>2
  <2> HIDE DEF q
  <2>6. Near(MoveCube(x, m), t, n)
    BY <2>3, <2>4, <2>5 DEF Near
  <2>7. QED
    BY <2>6
<1>2. ASSUME NEW m \in Move, Near(MoveCube(x, m), t, n)
      PROVE  Near(x, t, n + 1)
  <2>1. PICK p \in [0 .. n -> State] :
          /\ p[0] = MoveCube(x, m) /\ p[n] = t
          /\ \A i \in 1 .. n : \E k \in Move : p[i] = MoveCube(p[i - 1], k)
    BY <1>2 DEF Near
  <2> DEFINE q == [i \in 0 .. n + 1 |-> IF i = 0 THEN x ELSE p[i - 1]]
  <2>2. q \in [0 .. n + 1 -> State]
    <3>1. \A i \in 0 .. n + 1 : i # 0 => i - 1 \in 0 .. n
      OBVIOUS
    <3>2. QED
      BY <3>1
  <2>3. q[0] = x /\ q[n + 1] = t
    <3>1. q[n + 1] = p[(n + 1) - 1] /\ (n + 1) - 1 = n
      OBVIOUS
    <3>2. QED
      BY <2>1, <3>1
  <2>4. ASSUME NEW i \in 1 .. n + 1
        PROVE  \E k \in Move : q[i] = MoveCube(q[i - 1], k)
    <3>1. CASE i = 1
      <4>1. q[i] = p[0] /\ q[i - 1] = x
        BY <3>1
      <4> HIDE DEF q
      <4>2. QED
        BY <2>1, <4>1
    <3>2. CASE i # 1
      <4>1. i - 1 \in 1 .. n /\ q[i] = p[i - 1] /\ q[i - 1] = p[(i - 1) - 1]
        BY <3>2
      <4> HIDE DEF q
      <4>2. QED
        BY <2>1, <4>1
    <3>3. QED
      BY <3>1, <3>2
  <2> HIDE DEF q
  <2>5. QED
    BY <2>2, <2>3, <2>4 DEF Near
<1>3. QED
  BY <1>1, <1>2

(* Whatever maps moves to moves maps paths to paths.                       *)
LEMMA NearMapped ==
  ASSUME NEW f \in [State -> State],
         \A x \in State, m \in Move : \E k \in Move : f[MoveCube(x, m)] = MoveCube(f[x], k),
         NEW x \in State, NEW t \in State, NEW n \in Nat, Near(x, t, n)
  PROVE  Near(f[x], f[t], n)
<1>1. PICK p \in [0 .. n -> State] :
        /\ p[0] = x /\ p[n] = t
        /\ \A i \in 1 .. n : \E m \in Move : p[i] = MoveCube(p[i - 1], m)
  BY DEF Near
<1> DEFINE q == [i \in 0 .. n |-> f[p[i]]]
<1>2. q \in [0 .. n -> State] /\ q[0] = f[x] /\ q[n] = f[t]
  BY <1>1
<1>3. ASSUME NEW i \in 1 .. n
      PROVE  \E k \in Move : q[i] = MoveCube(q[i - 1], k)
  <2>1. i \in 0 .. n /\ i - 1 \in 0 .. n
    OBVIOUS
  <2>2. q[i] = f[p[i]] /\ q[i - 1] = f[p[i - 1]] /\ p[i - 1] \in State
    BY <2>1
  <2>3. PICK m \in Move : p[i] = MoveCube(p[i - 1], m)
    BY <1>1
  <2> HIDE DEF q
  <2>4. QED
    BY <2>2, <2>3
<1> HIDE DEF q
<1>4. QED
  BY <1>2, <1>3 DEF Near

(* A path that begins with the moves of a sequence.                        *)
LEMMA NearPlayed ==
  ASSUME NEW x \in State, NEW mv \in Seq(Move), NEW i \in 0 .. Len(mv),
         NEW t, NEW n \in Nat, Near(Played(x, mv)[i], t, n)
  PROVE  Near(x, t, i + n)
<1> DEFINE p == Played(x, mv)
           S == {k \in Nat : \A a \in Nat : Near(p[k], t, a) => Near(x, t, k + a)}
<1>1. Len(mv) \in Nat /\ \A k \in 1 .. Len(mv) : mv[k] \in Move
  BY LenProperties, ElementOfSeq
<1>2. /\ p[0] = x /\ \A k \in 0 .. Len(mv) : p[k] \in State
      /\ \A k \in 1 .. Len(mv) : p[k] = MoveCube(p[k - 1], mv[k])
  BY PlayedSteps, PlayedStates
<1>3. Near(p[i], t, n)
  OBVIOUS
<1> HIDE DEF p
<1>4. 0 \in S
  BY <1>2
<1>5. ASSUME NEW k \in 1 .. Len(mv), k - 1 \in S
      PROVE  k \in S
  <2>1. SUFFICES ASSUME NEW a \in Nat, Near(p[k], t, a)
                 PROVE  Near(x, t, k + a)
    BY <1>1
  <2>2. k - 1 \in 0 .. Len(mv) /\ (k - 1) + (a + 1) = k + a
    BY <1>1
  <2>3. Near(p[k - 1], t, a + 1)
    BY <1>1, <1>2, <2>1, <2>2, NearSteps
  <2>4. Near(x, t, (k - 1) + (a + 1))
    BY <1>5, <2>3
  <2>5. QED
    BY <2>2, <2>4
<1> HIDE DEF S
<1>6. \A k \in 0 .. Len(mv) : k \in S
  BY <1>1, <1>4, <1>5, AllNumbers
<1>7. QED
  BY <1>3, <1>6 DEF S

-----------------------------------------------------------------------------
(* Distances.                                                              *)

(* No path is shorter than the distances of edges and of corners.          *)
LEMMA EdgesAndCorners ==
  ASSUME NEW c \in Corner, NEW n \in Nat, NEW x \in State, Near(x, Target(c), n)
  PROVE  EDist[x[1]] <= n /\ CDist[x[2]][c] <= n
<1> DEFINE t == Target(c)
           Far(y, k) == EDist[y[1]] <= k /\ CDist[y[2]][c] <= k
           S == {k \in Nat : \A y \in State : Near(y, t, k) => Far(y, k)}
<1>0. t \in State /\ t[1] = Home[1] /\ t[2] = c
  BY Constants DEF State, Target
<1>1. 0 \in S
  <2>1. EDist[t[1]] = 0 /\ CDist[t[2]][c] = 0
    BY <1>0, Constants, MoveAssumption
  <2>2. QED
    BY <1>0, <2>1, NearNothing
<1>2. ASSUME NEW k \in 1 .. n, k - 1 \in S
      PROVE  k \in S
  <2>1. SUFFICES ASSUME NEW y \in State, Near(y, t, k)
                 PROVE  Far(y, k)
    OBVIOUS
  <2>2. k - 1 \in Nat /\ (k - 1) + 1 = k
    OBVIOUS
  <2>3. PICK m \in Move : Near(MoveCube(y, m), t, k - 1)
    BY <2>1, <2>2, NearSteps
  <2>4. Far(MoveCube(y, m), k - 1)
    BY <1>2, <2>3, OneMove
  <2>5. /\ y[1] \in Edge /\ y[2] \in Corner
        /\ MoveCube(y, m)[1] = EMove[y[1]][m] /\ MoveCube(y, m)[2] = CMove[y[2]][m]
    BY DEF State, MoveCube
  <2>6. EDist[y[1]] <= k
    <3>1. /\ EDist[y[1]] \in Nat /\ EMove[y[1]][m] \in Edge
          /\ EDist[EMove[y[1]][m]] - EDist[y[1]] \in -1 .. 1
      BY <2>5, MoveAssumption
    <3>2. EDist[EMove[y[1]][m]] \in Nat
      BY <3>1, MoveAssumption
    <3>3. QED
      BY <2>4, <2>5, <3>1, <3>2
  <2>7. CDist[y[2]][c] <= k
    <3>1. /\ CDist[y[2]][c] \in Nat /\ CMove[y[2]][m] \in Corner
          /\ CDist[y[2]][c] <= CDist[CMove[y[2]][m]][c] + 1
      BY <2>5, MoveAssumption
    <3>2. CDist[CMove[y[2]][m]][c] \in Nat
      BY <3>1, MoveAssumption
    <3>3. QED
      BY <2>4, <2>5, <3>1, <3>2
  <2>8. QED
    BY <2>6, <2>7
<1> HIDE DEF S
<1>3. \A k \in 0 .. n : k \in S
  BY <1>1, <1>2, AllNumbers
<1>4. QED
  BY <1>3 DEF S

(* Dist is the length of a shortest path to Home.                          *)
LEMMA DistIsLeast ==
  ASSUME NEW n \in Nat, NEW x \in Cube, Near(x, Home, n)
  PROVE  Dist[x] <= n
<1> DEFINE S == {k \in Nat : \A y \in Cube : Near(y, Home, k) => Dist[y] <= k}
<1>1. 0 \in S
  <2>1. Dist[Home] = 0
    BY ParameterAssumption, MoveAssumption
  <2>2. QED
    BY <2>1, Constants, NearNothing
<1>2. ASSUME NEW k \in 1 .. n, k - 1 \in S
      PROVE  k \in S
  <2>1. SUFFICES ASSUME NEW y \in Cube, Near(y, Home, k)
                 PROVE  Dist[y] <= k
    OBVIOUS
  <2>2. k - 1 \in Nat /\ (k - 1) + 1 = k /\ y \in State
    BY ParameterAssumption
  <2>3. PICK m \in Move : Near(MoveCube(y, m), Home, k - 1)
    BY <2>1, <2>2, NearSteps
  <2>4. MoveCube(y, m) \in Cube /\ Dist[y] <= Dist[MoveCube(y, m)] + 1
    BY MoveAssumption
  <2>5. Dist[MoveCube(y, m)] <= k - 1 /\ Dist[MoveCube(y, m)] \in Nat /\ Dist[y] \in Nat
    BY <1>2, <2>3, <2>4, MoveAssumption
  <2>6. QED
    BY <2>4, <2>5
<1> HIDE DEF S
<1>3. \A k \in 0 .. n : k \in S
  BY <1>1, <1>2, AllNumbers
<1>4. QED
  BY <1>3 DEF S

LEMMA DistIsReached ==
  ASSUME NEW x \in Cube
  PROVE  Dist[x] \in Nat /\ Near(x, Home, Dist[x])
<1> DEFINE S == {k \in Nat : \A y \in Cube : Dist[y] = k => Near(y, Home, k)}
<1>0. Dist[x] \in Nat
  BY MoveAssumption
<1>1. 0 \in S
  <2>1. \A y \in Cube : Dist[y] = 0 => y = Home
    BY MoveAssumption
  <2>2. QED
    BY <2>1, Constants, NearNothing
<1>2. ASSUME NEW k \in 1 .. Dist[x], k - 1 \in S
      PROVE  k \in S
  <2>1. SUFFICES ASSUME NEW y \in Cube, Dist[y] = k
                 PROVE  Near(y, Home, k)
    BY <1>0
  <2>2. y # Home /\ y \in State
    BY <1>0, <2>1, ParameterAssumption, MoveAssumption
  <2>3. PICK m \in Move : Dist[MoveCube(y, m)] < Dist[y]
    BY <2>2, MoveAssumption
  <2>4. MoveCube(y, m) \in Cube /\ Dist[y] <= Dist[MoveCube(y, m)] + 1
    BY MoveAssumption
  <2>5. Dist[MoveCube(y, m)] \in Nat
    BY <2>4, MoveAssumption
  <2>6. Dist[MoveCube(y, m)] = k - 1
    BY <1>0, <2>1, <2>3, <2>4, <2>5
  <2>7. Near(MoveCube(y, m), Home, k - 1)
    BY <1>2, <2>4, <2>6
  <2>8. k - 1 \in Nat /\ (k - 1) + 1 = k
    BY <1>0
  <2>9. QED
    BY <2>2, <2>7, <2>8, NearSteps
<1> HIDE DEF S
<1>3. \A k \in 0 .. Dist[x] : k \in S
  BY <1>0, <1>1, <1>2, AllNumbers
<1>4. Dist[x] \in S
  BY <1>0, <1>3
<1>5. QED
  BY <1>0, <1>4 DEF S

-----------------------------------------------------------------------------
(* Symmetries and involutions.                                             *)

LEMMA SymMoves ==
  ASSUME NEW s \in Sym, NEW x \in State
  PROVE  /\ SymCube(s, x) \in State
         /\ \A m \in Move : /\ MSym[s][m] \in Move
                            /\ SymCube(s, MoveCube(x, m)) = MoveCube(SymCube(s, x), MSym[s][m])
<1>1. x[1] \in Edge /\ x[2] \in Corner
  BY DEF State
<1>2. ASSUME NEW m \in Move
      PROVE  /\ MSym[s][m] \in Move
             /\ SymCube(s, MoveCube(x, m)) = MoveCube(SymCube(s, x), MSym[s][m])
  <2>1. MSym[s][m] \in Move
    <3>1. {MSym[s][k] : k \in Move} = Move
      BY SymAssumption
    <3>2. QED
      BY <3>1
  <2>2. /\ \A e \in Edge : ESym[s][EMove[e][m]] = EMove[ESym[s][e]][MSym[s][m]]
        /\ \A c \in Corner : CSym[s][CMove[c][m]] = CMove[CSym[s][c]][MSym[s][m]]
    BY SymAssumption
  <2>3. /\ ESym[s][EMove[x[1]][m]] = EMove[ESym[s][x[1]]][MSym[s][m]]
        /\ CSym[s][CMove[x[2]][m]] = CMove[CSym[s][x[2]]][MSym[s][m]]
    BY <1>1, <2>2
  <2>4. QED
    BY <2>1, <2>3 DEF SymCube, MoveCube
<1>3. QED
  BY <1>2, SymAssumption

LEMMA NearSym ==
  ASSUME NEW s \in Sym, NEW x \in State, NEW t \in State, NEW n \in Nat, Near(x, t, n)
  PROVE  Near(SymCube(s, x), SymCube(s, t), n)
<1> DEFINE f == [y \in State |-> SymCube(s, y)]
<1>1. f \in [State -> State]
  BY SymMoves
<1>2. \A y \in State, m \in Move : \E k \in Move : f[MoveCube(y, m)] = MoveCube(f[y], k)
  BY SymMoves, OneMove
<1>3. f[x] = SymCube(s, x) /\ f[t] = SymCube(s, t)
  OBVIOUS
<1> HIDE DEF f
<1>4. Near(f[x], f[t], n)
  BY <1>1, <1>2, NearMapped
<1>5. QED
  BY <1>3, <1>4

(* The self symmetries of a coset are a group.                             *)
LEMMA Orbits ==
  ASSUME NEW e \in Edge, NEW c \in Corner
  PROVE  /\ c \in OrbitOf(e, c)
         /\ \A d \in OrbitOf(e, c) : /\ d \in Corner
                                     /\ c \in OrbitOf(e, d)
                                     /\ OrbitOf(e, d) \subseteq OrbitOf(e, c)
<1> DEFINE x == <<e, c>>
<1>1. x \in State /\ x[1] = e /\ x[2] = c
  BY DEF State
<1>2. c \in OrbitOf(e, c)
  <2>1. PICK s \in Sym : \A y \in State : SymCube(s, y) = y
    BY SymAssumption
  <2>2. SymCube(s, x) = x
    BY <1>1, <2>1
  <2>3. ESym[s][e] = e /\ CSym[s][c] = c
    BY <2>2 DEF SymCube
  <2>4. QED
    BY <2>3 DEF OrbitOf, SelfSym
<1>3. ASSUME NEW d \in OrbitOf(e, c)
      PROVE  d \in Corner /\ c \in OrbitOf(e, d) /\ OrbitOf(e, d) \subseteq OrbitOf(e, c)
  <2>1. PICK s \in Sym : ESym[s][e] = e /\ d = CSym[s][c]
    BY DEF OrbitOf, SelfSym
  <2>2. SymCube(s, x) = <<e, d>>
    BY <2>1 DEF SymCube
  <2>3. <<e, d>> \in State
    BY <1>1, <2>2, SymMoves
  <2>4. d \in Corner
    BY <2>3 DEF State
  <2>5. c \in OrbitOf(e, d)
    <3>1. PICK t \in Sym : \A y \in State : SymCube(t, SymCube(s, y)) = y
      BY SymAssumption
    <3>2. SymCube(t, <<e, d>>) = <<e, c>>
      BY <1>1, <2>2, <3>1
    <3>3. ESym[t][e] = e /\ CSym[t][d] = c
      BY <3>2 DEF SymCube
    <3>4. QED
      BY <3>3 DEF OrbitOf, SelfSym
  <2>6. ASSUME NEW f \in OrbitOf(e, d)
        PROVE  f \in OrbitOf(e, c)
    <3>1. PICK t \in Sym : ESym[t][e] = e /\ f = CSym[t][d]
      BY DEF OrbitOf, SelfSym
    <3>2. PICK u \in Sym : \A y \in State : SymCube(u, y) = SymCube(t, SymCube(s, y))
      BY SymAssumption
    <3>3. SymCube(u, x) = <<e, f>>
      <4>1. SymCube(t, <<e, d>>) = <<e, f>>
        BY <3>1 DEF SymCube
      <4>2. QED
        BY <1>1, <2>2, <3>2, <4>1
    <3>4. ESym[u][e] = e /\ CSym[u][c] = f
      BY <3>3 DEF SymCube
    <3>5. QED
      BY <3>4 DEF OrbitOf, SelfSym
  <2>7. QED
    BY <2>4, <2>5, <2>6
<1>4. QED
  BY <1>2, <1>3

LEMMA SymTarget ==
  ASSUME NEW s \in Sym, NEW c \in Corner
  PROVE  Target(c) \in State /\ SymCube(s, Target(c)) = Target(CSym[s][c])
<1>1. ESym[s][Home[1]] = Home[1]
  <2>1. SymCube(s, Home) = Home
    BY SymAssumption
  <2>2. QED
    BY <2>1, Constants DEF SymCube, Target
<1>2. QED
  BY <1>1, Constants DEF Target, SymCube, State

(* A symmetry of the coset leaves the start cube where it is.              *)
LEMMA StartSym ==
  ASSUME NEW e \in Edge, NEW s \in SelfSym(e)
  PROVE  StartCube(e) \in State /\ SymCube(s, StartCube(e)) = StartCube(e)
<1>1. CSym[s][Home[2]] = Home[2]
  <2>1. SymCube(s, Home) = Home
    BY SymAssumption DEF SelfSym
  <2>2. QED
    BY <2>1, Constants DEF SymCube, Target
<1>2. QED
  BY <1>1, Constants DEF StartCube, SymCube, SelfSym, State

LEMMA OrbitNear ==
  ASSUME NEW e \in Edge, NEW c \in Corner, NEW d \in OrbitOf(e, c), NEW n \in Nat
  PROVE  Near(StartCube(e), Target(c), n) <=> Near(StartCube(e), Target(d), n)
<1>1. ASSUME NEW a \in Corner, NEW b \in OrbitOf(e, a), Near(StartCube(e), Target(a), n)
      PROVE  Near(StartCube(e), Target(b), n)
  <2>1. PICK s \in SelfSym(e) : b = CSym[s][a]
    BY DEF OrbitOf
  <2>2. s \in Sym
    BY DEF SelfSym
  <2>3. Near(SymCube(s, StartCube(e)), SymCube(s, Target(a)), n)
    BY <1>1, <2>2, NearSym, SymTarget, StartSym
  <2>4. QED
    BY <2>1, <2>2, <2>3, SymTarget, StartSym
<1>2. d \in Corner /\ c \in OrbitOf(e, d)
  BY Orbits
<1>3. QED
  BY <1>1, <1>2

(* The moves that solve the edges from the start cube turn its corners     *)
(* into those of the involution, and take the involution to Home.          *)
LEMMA InvolutionNear ==
  ASSUME NEW e \in Edge, NEW c \in CornersOf(e), NEW n \in Nat
  PROVE  Near(StartCube(e), Target(c), n) <=> Near(<<e, c>>, Home, n)
<1> DEFINE f == [x \in State |-> <<x[1], Times[c][x[2]]>>]
<1>1. c \in Involution /\ c \in Corner
  BY ParameterAssumption DEF CornersOf
<1>2. /\ Times[c][Home[2]] = c /\ Times[c][c] = Home[2]
      /\ \A d \in Corner : /\ Times[c][d] \in Corner
                           /\ \A m \in Move : Times[c][CMove[d][m]] = CMove[Times[c][d]][m]
  BY <1>1, InvolutionAssumption
<1>3. f \in [State -> State]
  BY <1>2 DEF State
<1>4. \A x \in State, m \in Move : \E k \in Move : f[MoveCube(x, m)] = MoveCube(f[x], k)
  <2>1. TAKE x \in State, m \in Move
  <2>2. MoveCube(x, m) \in State /\ x[2] \in Corner
    BY OneMove DEF State
  <2>3. f[MoveCube(x, m)] = <<EMove[x[1]][m], CMove[Times[c][x[2]]][m]>>
    BY <1>2, <2>2 DEF MoveCube
  <2>4. MoveCube(f[x], m) = <<EMove[x[1]][m], CMove[Times[c][x[2]]][m]>>
    BY DEF MoveCube
  <2>5. QED
    BY <2>3, <2>4
<1>5. /\ StartCube(e) \in State /\ Target(c) \in State /\ <<e, c>> \in State
      /\ Home \in State
  BY <1>1, Constants DEF StartCube, Target, State
<1>6. f[StartCube(e)] = <<e, c>> /\ f[<<e, c>>] = StartCube(e)
  BY <1>2, <1>5 DEF StartCube
<1>7. f[Target(c)] = Home /\ f[Home] = Target(c)
  BY <1>2, <1>5, Constants DEF Target
<1> HIDE DEF f
<1>8. ASSUME Near(StartCube(e), Target(c), n)
      PROVE  Near(<<e, c>>, Home, n)
  <2>1. Near(f[StartCube(e)], f[Target(c)], n)
    BY <1>3, <1>4, <1>5, <1>8, NearMapped
  <2>2. QED
    BY <1>6, <1>7, <2>1
<1>9. ASSUME Near(<<e, c>>, Home, n)
      PROVE  Near(StartCube(e), Target(c), n)
  <2>1. Near(f[<<e, c>>], f[Home], n)
    BY <1>3, <1>4, <1>5, <1>9, NearMapped
  <2>2. QED
    BY <1>6, <1>7, <2>1
<1>10. QED
  BY <1>8, <1>9

LEMMA CosetDist ==
  ASSUME NEW e \in Edge, NEW c \in CornersOf(e)
  PROVE  /\ Dist[<<e, c>>] \in Nat
         /\ Near(StartCube(e), Target(c), Dist[<<e, c>>])
         /\ \A n \in Nat : Near(StartCube(e), Target(c), n) => Dist[<<e, c>>] <= n
<1>1. <<e, c>> \in Cube
  BY DEF CornersOf
<1>2. Dist[<<e, c>>] \in Nat
  BY <1>1, DistIsReached
<1>3. QED
  BY <1>1, <1>2, DistIsReached, DistIsLeast, InvolutionNear

-----------------------------------------------------------------------------
(* The seeds.                                                              *)

SeedRecord == [x : State, last_axis : Int, moves : Seq(Move)]

(* The pair of a seed and a move that is number a in the loops of a depth. *)
Parent(st, a) == st.seeds[(a \div NMoves) + 1]
NextTurn(a) == a % NMoves
Child(st, a) == MoveCube(Parent(st, a).x, NextTurn(a))
Allowed(st, a) == ~ Repeats(NextTurn(a), Parent(st, a).last_axis)
Sprouted(st, a) == [x |-> Child(st, a), last_axis |-> Face[NextTurn(a)],
                    moves |-> Append(Parent(st, a).moves, NextTurn(a))]

RepsOf(e, list, n) == {SymRep(e, list[j].x) : j \in 1 .. n}

(* After i pairs: each seed came from an allowed pair, before which all    *)
(* allowed ones had symmetric cubes among the seeds before it.             *)
Grown(e, st, g, i) ==
  /\ g.seeds \in Seq(SeedRecord)
  /\ g.seen = st.seen \union RepsOf(e, g.seeds, Len(g.seeds))
  /\ \A b \in 0 .. i - 1 : Allowed(st, b) => SymRep(e, Child(st, b)) \in g.seen
  /\ \A j \in 1 .. Len(g.seeds) : \E a \in 0 .. i - 1 :
       /\ Allowed(st, a) /\ g.seeds[j] = Sprouted(st, a)
       /\ \A b \in 0 .. a - 1 :
            Allowed(st, b) => SymRep(e, Child(st, b)) \in st.seen \union RepsOf(e, g.seeds, j - 1)

LEMMA SproutSteps ==
  ASSUME NEW e, NEW st, st.seeds \in Seq(SeedRecord)
  PROVE  /\ Sprouts(e, st)[0] = [seen |-> st.seen, seeds |-> << >>]
         /\ \A i \in 1 .. Len(st.seeds) * NMoves :
              Sprouts(e, st)[i] =
                Sprout(e, Sprouts(e, st)[i - 1], Parent(st, i - 1), NextTurn(i - 1))
<1> DEFINE N == Len(st.seeds) * NMoves
           Body(g, i) == IF i = 0 THEN [seen |-> st.seen, seeds |-> << >>] ELSE Sprout(e, g[i - 1], Parent(st, i - 1), NextTurn(i - 1))
           IsOne(g, n) == g = [i \in 0 .. n |-> Body(g, i)]
           Exists == {n \in Nat : \E g : IsOne(g, n)}
<1>1. N \in Nat
  BY LenProperties, Constants
<1>0. Sprouts(e, st) = CHOOSE g : g = [i \in 0 .. N |-> Body(g, i)]
  BY DEF Sprouts, Parent, NextTurn
<1> HIDE DEF N
<1>2. 0 \in Exists
  <2> DEFINE g == [i \in 0 .. 0 |-> [seen |-> st.seen, seeds |-> << >>]]
  <2>1. \A i \in 0 .. 0 : i = 0 /\ Body(g, i) = [seen |-> st.seen, seeds |-> << >>]
    OBVIOUS
  <2>2. IsOne(g, 0)
    BY <2>1
  <2>3. QED
    BY <2>2
<1>3. ASSUME NEW n \in 1 .. N, n - 1 \in Exists
      PROVE  n \in Exists
  <2>1. PICK g : IsOne(g, n - 1)
    BY <1>3
  <2> DEFINE h == [i \in 0 .. n |-> IF i = n THEN Body(g, n) ELSE g[i]]
  <2>2. \A i \in 0 .. n - 1 : g[i] = Body(g, i) /\ h[i] = g[i]
    BY <2>1
  <2>3. ASSUME NEW i \in 0 .. n
        PROVE  h[i] = Body(h, i)
    <3>1. CASE i = n
      <4>1. h[i] = Body(g, i) /\ h[i - 1] = g[i - 1] /\ i # 0
        BY <3>1
      <4> HIDE DEF h
      <4>2. QED
        BY <4>1
    <3>2. CASE i = 0
      <4>1. 0 \in 0 .. n - 1
        OBVIOUS
      <4>2. g[0] = Body(g, 0) /\ h[0] = g[0]
        BY <2>2, <4>1
      <4> HIDE DEF h
      <4>3. QED
        BY <3>2, <4>2
    <3>3. CASE i \in 1 .. n - 1
      <4>1. i - 1 \in 0 .. n - 1 /\ i \in 0 .. n - 1 /\ i # 0
        BY <3>3
      <4>2. h[i] = Body(g, i) /\ h[i - 1] = g[i - 1]
        BY <2>2, <4>1
      <4> HIDE DEF h
      <4>3. QED
        BY <4>1, <4>2
    <3>4. QED
      BY <3>1, <3>2, <3>3
  <2>4. h = [i \in 0 .. n |-> h[i]]
    OBVIOUS
  <2> HIDE DEF h
  <2>5. h = [i \in 0 .. n |-> Body(h, i)]
    BY <2>3, <2>4
  <2>6. QED
    BY <1>1, <2>5
<1>4. N \in Exists
  <2> HIDE DEF Exists
  <2>1. \A n \in 0 .. N : n \in Exists
    BY <1>1, <1>2, <1>3, AllNumbers
  <2>2. QED
    BY <1>1, <2>1
<1>5. IsOne(Sprouts(e, st), N)
  <2>1. \E g : g = [i \in 0 .. N |-> Body(g, i)]
    BY <1>4
  <2>2. QED
    BY <1>0, <2>1
<1> HIDE DEF Exists
<1>6. QED
  BY <1>1, <1>5 DEF N

LEMMA LevelSteps ==
  ASSUME NEW e
  PROVE  /\ SeedLevels(e)[0] = FirstSeeds(e)
         /\ \A k \in 1 .. SeedDepth :
              LET st == SeedLevels(e)[k - 1] IN
              SeedLevels(e)[k] = Sprouts(e, st)[Len(st.seeds) * NMoves]
<1> DEFINE N == SeedDepth
           Body(g, i) == IF i = 0 THEN FirstSeeds(e) ELSE Sprouts(e, g[i - 1])[Len(g[i - 1].seeds) * NMoves]
           IsOne(g, n) == g = [i \in 0 .. n |-> Body(g, i)]
           Exists == {n \in Nat : \E g : IsOne(g, n)}
<1>1. N \in Nat
  BY Constants
<1>0. SeedLevels(e) = CHOOSE g : g = [i \in 0 .. N |-> Body(g, i)]
  BY DEF SeedLevels
<1> HIDE DEF N
<1>2. 0 \in Exists
  <2> DEFINE g == [i \in 0 .. 0 |-> FirstSeeds(e)]
  <2>1. \A i \in 0 .. 0 : i = 0 /\ Body(g, i) = FirstSeeds(e)
    OBVIOUS
  <2>2. IsOne(g, 0)
    BY <2>1
  <2>3. QED
    BY <2>2
<1>3. ASSUME NEW n \in 1 .. N, n - 1 \in Exists
      PROVE  n \in Exists
  <2>1. PICK g : IsOne(g, n - 1)
    BY <1>3
  <2> DEFINE h == [i \in 0 .. n |-> IF i = n THEN Body(g, n) ELSE g[i]]
  <2>2. \A i \in 0 .. n - 1 : g[i] = Body(g, i) /\ h[i] = g[i]
    BY <2>1
  <2>3. ASSUME NEW i \in 0 .. n
        PROVE  h[i] = Body(h, i)
    <3>1. CASE i = n
      <4>1. h[i] = Body(g, i) /\ h[i - 1] = g[i - 1] /\ i # 0
        BY <3>1
      <4> HIDE DEF h
      <4>2. QED
        BY <4>1
    <3>2. CASE i = 0
      <4>1. 0 \in 0 .. n - 1
        OBVIOUS
      <4>2. g[0] = Body(g, 0) /\ h[0] = g[0]
        BY <2>2, <4>1
      <4> HIDE DEF h
      <4>3. QED
        BY <3>2, <4>2
    <3>3. CASE i \in 1 .. n - 1
      <4>1. i - 1 \in 0 .. n - 1 /\ i \in 0 .. n - 1 /\ i # 0
        BY <3>3
      <4>2. h[i] = Body(g, i) /\ h[i - 1] = g[i - 1]
        BY <2>2, <4>1
      <4> HIDE DEF h
      <4>3. QED
        BY <4>1, <4>2
    <3>4. i = n \/ i = 0 \/ i \in 1 .. n - 1
      OBVIOUS
    <3> HIDE DEF h, Body
    <3>5. QED
      BY <3>1, <3>2, <3>3, <3>4
  <2>4. h = [i \in 0 .. n |-> h[i]]
    OBVIOUS
  <2> HIDE DEF h
  <2>5. h = [i \in 0 .. n |-> Body(h, i)]
    BY <2>3, <2>4
  <2>6. QED
    BY <1>1, <2>5
<1>4. N \in Exists
  <2> HIDE DEF Exists
  <2>1. \A n \in 0 .. N : n \in Exists
    BY <1>1, <1>2, <1>3, AllNumbers
  <2>2. QED
    BY <1>1, <2>1
<1>5. IsOne(SeedLevels(e), N)
  <2>1. \E g : g = [i \in 0 .. N |-> Body(g, i)]
    BY <1>4
  <2>2. QED
    BY <1>0, <2>1
<1> HIDE DEF Exists
<1>6. QED
  BY <1>1, <1>5 DEF N

LEMMA Pairs ==
  ASSUME NEW L \in Nat
  PROVE  /\ \A a \in 0 .. L * NMoves - 1 :
              /\ (a \div NMoves) + 1 \in 1 .. L /\ NextTurn(a) \in Move
              /\ a = (a \div NMoves) * NMoves + NextTurn(a)
         /\ \A j \in 1 .. L, m \in Move : \E a \in 0 .. L * NMoves - 1 :
              /\ (a \div NMoves) + 1 = j /\ NextTurn(a) = m
              /\ a = (j - 1) * NMoves + m
<1>1. NMoves \in Nat \ {0} /\ Move = 0 .. NMoves - 1
  BY Constants DEF Move
<1>2. ASSUME NEW a \in 0 .. L * NMoves - 1
      PROVE  /\ (a \div NMoves) + 1 \in 1 .. L /\ NextTurn(a) \in Move
             /\ a = (a \div NMoves) * NMoves + NextTurn(a)
  <2>1. a \in Nat /\ a < L * NMoves /\ L * NMoves \in Nat
    BY <1>1
  <2>2. /\ a % NMoves \in 0 .. NMoves - 1 /\ a \div NMoves \in Nat
        /\ a = NMoves * (a \div NMoves) + (a % NMoves)
    BY <1>1, <2>1
  <2>3. a \div NMoves < L
    BY <1>1, <2>1, <2>2
  <2>4. QED
    BY <1>1, <2>2, <2>3 DEF NextTurn
<1>3. ASSUME NEW j \in 1 .. L, NEW m \in Move
      PROVE  \E a \in 0 .. L * NMoves - 1 :
               /\ (a \div NMoves) + 1 = j /\ NextTurn(a) = m
               /\ a = (j - 1) * NMoves + m
  <2> DEFINE a == (j - 1) * NMoves + m
  <2>1. a \in Nat /\ m \in 0 .. NMoves - 1 /\ j - 1 \in Nat
    BY <1>1
  <2>2. /\ a % NMoves \in 0 .. NMoves - 1 /\ a \div NMoves \in Nat
        /\ a = NMoves * (a \div NMoves) + (a % NMoves)
    BY <1>1, <2>1
  <2>3. a \div NMoves = j - 1 /\ a % NMoves = m
    BY <1>1, <2>1, <2>2
  <2>4. a \in 0 .. L * NMoves - 1
    BY <1>1, <2>1
  <2> HIDE DEF a
  <2>5. QED
    BY <2>1, <2>3, <2>4 DEF NextTurn, a
<1>4. QED
  BY <1>2, <1>3

LEMMA SproutGrown ==
  ASSUME NEW e, NEW st, st.seeds \in Seq(SeedRecord),
         NEW g, NEW i \in 0 .. Len(st.seeds) * NMoves - 1, Grown(e, st, g, i)
  PROVE  Grown(e, st, Sprout(e, g, Parent(st, i), NextTurn(i)), i + 1)
<1> DEFINE rep == SymRep(e, Child(st, i))
           new == Sprouted(st, i)
           h == Sprout(e, g, Parent(st, i), NextTurn(i))
<1>1. Len(st.seeds) \in Nat /\ i \in Nat /\ NextTurn(i) \in Move /\ Parent(st, i) \in SeedRecord
  <2>1. Len(st.seeds) \in Nat /\ \A j \in 1 .. Len(st.seeds) : st.seeds[j] \in SeedRecord
    BY LenProperties, ElementOfSeq
  <2>2. (i \div NMoves) + 1 \in 1 .. Len(st.seeds) /\ NextTurn(i) \in Move
    BY <2>1, Pairs
  <2>3. QED
    BY <2>1, <2>2 DEF Parent
<1>2. new \in SeedRecord
  <2>1. Child(st, i) \in State
    BY <1>1, OneMove DEF Child, SeedRecord
  <2>2. Face[NextTurn(i)] \in Int
    BY <1>1, ParameterAssumption
  <2>3. Append(Parent(st, i).moves, NextTurn(i)) \in Seq(Move)
    BY <1>1, AppendProperties DEF SeedRecord
  <2>4. QED
    BY <2>1, <2>2, <2>3 DEF SeedRecord, Sprouted
<1>3. /\ ~ Allowed(st, i) \/ rep \in g.seen => h = g
      /\ Allowed(st, i) /\ rep \notin g.seen =>
           h = [seen |-> g.seen \union {rep}, seeds |-> Append(g.seeds, new)]
  BY DEF Sprout, Allowed, Sprouted, Child
<1>4. \A b \in 0 .. i : b = i \/ b \in 0 .. i - 1
  BY <1>1
<1>5. (i + 1) - 1 = i /\ 0 .. i - 1 \subseteq 0 .. i /\ i \in 0 .. i
  BY <1>1
<1> HIDE DEF rep, new, h
<1>6. CASE ~ Allowed(st, i) \/ rep \in g.seen
  <2>1. h = g
    BY <1>3, <1>6
  <2>2. \A b \in 0 .. i : Allowed(st, b) => SymRep(e, Child(st, b)) \in g.seen
    BY <1>4, <1>6 DEF Grown, rep
  <2>3. \A j \in 1 .. Len(g.seeds) : \E a \in 0 .. i :
          /\ Allowed(st, a) /\ g.seeds[j] = Sprouted(st, a)
          /\ \A b \in 0 .. a - 1 :
               Allowed(st, b) => SymRep(e, Child(st, b)) \in st.seen \union RepsOf(e, g.seeds, j - 1)
    BY <1>5 DEF Grown
  <2>4. Grown(e, st, g, i + 1)
    BY <1>5, <2>2, <2>3 DEF Grown
  <2>5. QED
    BY <2>1, <2>4 DEF h
<1>7. CASE Allowed(st, i) /\ rep \notin g.seen
  <2> DEFINE L == Len(g.seeds)
  <2>1. h.seen = g.seen \union {rep} /\ h.seeds = Append(g.seeds, new)
    BY <1>3, <1>7
  <2>2. g.seeds \in Seq(SeedRecord)
    BY DEF Grown
  <2>3. /\ L \in Nat /\ h.seeds \in Seq(SeedRecord) /\ Len(h.seeds) = L + 1
        /\ h.seeds[L + 1] = new
        /\ \A j \in 1 .. L : h.seeds[j] = g.seeds[j]
    BY <1>2, <2>1, <2>2, AppendProperties, LenProperties
  <2> HIDE DEF L
  <2>4. \A n \in 0 .. L : RepsOf(e, h.seeds, n) = RepsOf(e, g.seeds, n)
    BY <2>3 DEF RepsOf
  <2>5. RepsOf(e, h.seeds, L + 1) = RepsOf(e, g.seeds, L) \union {rep}
    <3>1. SymRep(e, new.x) = rep
      BY DEF new, rep, Sprouted
    <3>2. \A j : j \in 1 .. L + 1 <=> j \in 1 .. L \/ j = L + 1
      BY <2>3
    <3>3. QED
      BY <2>3, <3>1, <3>2 DEF RepsOf
  <2>6. h.seen = st.seen \union RepsOf(e, h.seeds, L + 1)
    BY <2>1, <2>5 DEF Grown, L
  <2>7. \A b \in 0 .. i : Allowed(st, b) => SymRep(e, Child(st, b)) \in h.seen
    <3>1. \A b \in 0 .. i - 1 : Allowed(st, b) => SymRep(e, Child(st, b)) \in g.seen
      BY DEF Grown
    <3>2. QED
      BY <1>4, <2>1, <3>1 DEF rep
  <2>8. ASSUME NEW j \in 1 .. L + 1
        PROVE  \E a \in 0 .. i :
                 /\ Allowed(st, a) /\ h.seeds[j] = Sprouted(st, a)
                 /\ \A b \in 0 .. a - 1 : Allowed(st, b) =>
                      SymRep(e, Child(st, b)) \in st.seen \union RepsOf(e, h.seeds, j - 1)
    <3>1. CASE j \in 1 .. L
      <4>1. PICK a \in 0 .. i - 1 :
              /\ Allowed(st, a) /\ g.seeds[j] = Sprouted(st, a)
              /\ \A b \in 0 .. a - 1 : Allowed(st, b) =>
                   SymRep(e, Child(st, b)) \in st.seen \union RepsOf(e, g.seeds, j - 1)
        BY <3>1 DEF Grown, L
      <4>2. j - 1 \in 0 .. L /\ a \in 0 .. i
        BY <1>5, <2>3, <3>1
      <4>3. RepsOf(e, h.seeds, j - 1) = RepsOf(e, g.seeds, j - 1) /\ h.seeds[j] = g.seeds[j]
        BY <2>3, <2>4, <3>1, <4>2
      <4>4. QED
        BY <4>1, <4>2, <4>3
    <3>2. CASE j = L + 1
      <4>1. j - 1 = L /\ L \in 0 .. L
        BY <2>3, <3>2
      <4>2. RepsOf(e, h.seeds, j - 1) = RepsOf(e, g.seeds, L)
        BY <2>4, <4>1
      <4>3. \A b \in 0 .. i - 1 : Allowed(st, b) =>
              SymRep(e, Child(st, b)) \in st.seen \union RepsOf(e, h.seeds, j - 1)
        BY <4>2 DEF Grown, L
      <4>4. h.seeds[j] = Sprouted(st, i)
        BY <2>3, <3>2 DEF new
      <4>5. QED
        BY <1>5, <1>7, <4>3, <4>4
    <3>3. QED
      BY <2>3, <3>1, <3>2
  <2>9. Grown(e, st, h, i + 1)
    BY <1>5, <2>3, <2>6, <2>7, <2>8 DEF Grown
  <2>10. QED
    BY <2>9 DEF h
<1>8. QED
  BY <1>6, <1>7

(* The seeds of a depth have grown from those of the one before.           *)
SeedsOf(e, k) == SeedLevels(e)[k].seeds

LEMMA LevelGrown ==
  ASSUME NEW e, NEW k \in 1 .. SeedDepth, SeedsOf(e, k - 1) \in Seq(SeedRecord)
  PROVE  Grown(e, SeedLevels(e)[k - 1], SeedLevels(e)[k], Len(SeedsOf(e, k - 1)) * NMoves)
<1> DEFINE st == SeedLevels(e)[k - 1]
           last == Len(st.seeds) * NMoves
           sprouts == Sprouts(e, st)
           S == {i \in Nat : Grown(e, st, sprouts[i], i)}
<1>1. st.seeds \in Seq(SeedRecord) /\ last \in Nat
  BY LenProperties, Constants DEF SeedsOf
<1>2. SeedLevels(e)[k] = sprouts[last]
  BY LevelSteps
<1>3. /\ sprouts[0] = [seen |-> st.seen, seeds |-> << >>]
      /\ \A i \in 1 .. last :
           sprouts[i] = Sprout(e, sprouts[i - 1], Parent(st, i - 1), NextTurn(i - 1))
  BY <1>1, SproutSteps
<1> HIDE DEF sprouts
<1>4. 0 \in S
  <2>1. sprouts[0].seen = st.seen /\ sprouts[0].seeds = << >>
    BY <1>3
  <2>2. << >> \in Seq(SeedRecord) /\ Len(<< >>) = 0
    BY EmptySeq
  <2>3. RepsOf(e, << >>, 0) = {}
    BY DEF RepsOf
  <2>4. 0 .. 0 - 1 = {} /\ 1 .. 0 = {}
    OBVIOUS
  <2>5. QED
    BY <2>1, <2>2, <2>3, <2>4 DEF Grown
<1>5. ASSUME NEW i \in 1 .. last, i - 1 \in S
      PROVE  i \in S
  <2>1. i - 1 \in 0 .. last - 1 /\ (i - 1) + 1 = i /\ i \in Nat
    BY <1>1
  <2>2. Grown(e, st, sprouts[i - 1], i - 1)
    BY <1>5
  <2>3. Grown(e, st, sprouts[i], (i - 1) + 1)
    BY <1>1, <1>3, <2>1, <2>2, SproutGrown
  <2>4. QED
    BY <2>1, <2>3
<1> HIDE DEF S
<1>6. \A i \in 0 .. last : i \in S
  BY <1>1, <1>4, <1>5, AllNumbers
<1>7. last \in S
  BY <1>1, <1>6
<1>8. QED
  BY <1>2, <1>7 DEF S, SeedsOf

(* A seed of depth k is the cube that its k moves lead to.                 *)
IsSeed(e, k, seed) == Len(seed.moves) = k /\ seed.x = Played(StartCube(e), seed.moves)[k]

LEMMA RootSeed ==
  ASSUME NEW e \in Edge
  PROVE  /\ SeedsOf(e, 0) = <<[x |-> StartCube(e), last_axis |-> -1, moves |-> << >>]>>
         /\ SeedsOf(e, 0) \in Seq(SeedRecord)
         /\ SeedLevels(e)[0].seen = {SymRep(e, StartCube(e))}
         /\ Len(SeedsOf(e, 0)) = 1 /\ IsSeed(e, 0, SeedsOf(e, 0)[1])
<1> DEFINE root == [x |-> StartCube(e), last_axis |-> -1, moves |-> << >>]
<1>1. SeedsOf(e, 0) = <<root>> /\ SeedLevels(e)[0].seen = {SymRep(e, StartCube(e))}
  <2>1. SeedLevels(e)[0] = FirstSeeds(e)
    BY LevelSteps
  <2>2. QED
    BY <2>1 DEF SeedsOf, FirstSeeds
<1>2. StartCube(e) \in State
  BY Constants DEF StartCube, State
<1>3. << >> \in Seq(Move) /\ Len(<< >>) = 0
  BY EmptySeq
<1>4. root \in SeedRecord
  BY <1>2, <1>3 DEF SeedRecord
<1>5. Played(StartCube(e), << >>)[0] = StartCube(e)
  BY <1>3, PlayedSteps
<1>6. IsSeed(e, 0, root)
  BY <1>3, <1>5 DEF IsSeed
<1> HIDE DEF root
<1>7. <<root>> \in Seq(SeedRecord) /\ Len(<<root>>) = 1 /\ <<root>>[1] = root
  BY <1>4
<1>8. QED
  BY <1>1, <1>6, <1>7 DEF root

LEMMA SeedsPlayed ==
  ASSUME NEW e \in Edge
  PROVE  \A k \in 0 .. SeedDepth :
           /\ SeedsOf(e, k) \in Seq(SeedRecord)
           /\ \A j \in 1 .. Len(SeedsOf(e, k)) : IsSeed(e, k, SeedsOf(e, k)[j])
<1> DEFINE Good(k) == /\ SeedsOf(e, k) \in Seq(SeedRecord)
                      /\ \A j \in 1 .. Len(SeedsOf(e, k)) : IsSeed(e, k, SeedsOf(e, k)[j])
           S == {k \in Nat : Good(k)}
<1>1. 0 \in S
  <2>1. \A j \in 1 .. 1 : j = 1
    OBVIOUS
  <2>2. QED
    BY <2>1, RootSeed
<1>2. ASSUME NEW k \in 1 .. SeedDepth, k - 1 \in S
      PROVE  k \in S
  <2> DEFINE st == SeedLevels(e)[k - 1]
             L == Len(SeedsOf(e, k - 1))
  <2>1. Good(k - 1)
    BY <1>2
  <2>2. Grown(e, st, SeedLevels(e)[k], L * NMoves)
    BY <2>1, LevelGrown
  <2>3. SeedsOf(e, k) \in Seq(SeedRecord)
    BY <2>2 DEF Grown, SeedsOf
  <2>4. ASSUME NEW j \in 1 .. Len(SeedsOf(e, k))
        PROVE  IsSeed(e, k, SeedsOf(e, k)[j])
    <3>1. PICK a \in 0 .. L * NMoves - 1 : SeedsOf(e, k)[j] = Sprouted(st, a)
      BY <2>2 DEF Grown, SeedsOf
    <3> DEFINE p == Parent(st, a)
               m == NextTurn(a)
               mv == p.moves
               nv == Append(mv, m)
    <3>2. L \in Nat
      BY <2>1, LenProperties
    <3>3. (a \div NMoves) + 1 \in 1 .. L /\ m \in Move
      BY <3>2, Pairs
    <3>4. p \in SeedRecord /\ IsSeed(e, k - 1, p)
      BY <2>1, <3>3, ElementOfSeq DEF Parent, SeedsOf
    <3>5. mv \in Seq(Move) /\ Len(mv) = k - 1 /\ p.x = Played(StartCube(e), mv)[k - 1]
      BY <3>4 DEF SeedRecord, IsSeed
    <3>6. SeedsOf(e, k)[j].moves = nv /\ SeedsOf(e, k)[j].x = MoveCube(p.x, m)
      BY <3>1 DEF Sprouted, Child
    <3> HIDE DEF p, m, mv
    <3>7. /\ nv \in Seq(Move) /\ Len(nv) = k /\ nv[k] = m
          /\ \A i \in 1 .. k - 1 : mv[i] = nv[i]
      BY <3>3, <3>5, AppendProperties
    <3> HIDE DEF nv
    <3>8. k - 1 \in Nat /\ k \in 1 .. k /\ k - 1 \in 0 .. k - 1 /\ k - 1 <= k
      OBVIOUS
    <3>9. Played(StartCube(e), nv)[k - 1] = p.x
      BY <3>5, <3>7, <3>8, PlayedPrefix
    <3>10. Played(StartCube(e), nv)[k] = MoveCube(p.x, m)
      BY <3>7, <3>8, <3>9, PlayedSteps
    <3>11. QED
      BY <3>6, <3>7, <3>10 DEF IsSeed
  <2>5. QED
    BY <2>3, <2>4
<1> HIDE DEF S
<1>3. \A k \in 0 .. SeedDepth : k \in S
  BY <1>1, <1>2, Constants, AllNumbers
<1>4. QED
  BY <1>3 DEF S

(* What find_seeds has seen is a seed of some depth, up to symmetry.       *)
LEMMA SeenSeeds ==
  ASSUME NEW e \in Edge
  PROVE  \A k \in 0 .. SeedDepth : \A r \in SeedLevels(e)[k].seen :
           \E i \in 0 .. k : \E j \in 1 .. Len(SeedsOf(e, i)) : r = SymRep(e, SeedsOf(e, i)[j].x)
<1> DEFINE Known(r, k) == \E i \in 0 .. k : \E j \in 1 .. Len(SeedsOf(e, i)) :
                            r = SymRep(e, SeedsOf(e, i)[j].x)
           S == {k \in Nat : \A r \in SeedLevels(e)[k].seen : Known(r, k)}
<1>1. 0 \in S
  <2>1. ASSUME NEW r \in SeedLevels(e)[0].seen
        PROVE  Known(r, 0)
    <3>1. r = SymRep(e, StartCube(e)) /\ SeedsOf(e, 0)[1].x = StartCube(e)
      BY RootSeed
    <3>2. 0 \in 0 .. 0 /\ 1 \in 1 .. Len(SeedsOf(e, 0))
      BY RootSeed
    <3>3. QED
      BY <3>1, <3>2
  <2>2. QED
    BY <2>1
<1>2. ASSUME NEW k \in 1 .. SeedDepth, k - 1 \in S
      PROVE  k \in S
  <2>1. k - 1 \in 0 .. SeedDepth /\ k \in Nat
    BY Constants
  <2>2. Grown(e, SeedLevels(e)[k - 1], SeedLevels(e)[k], Len(SeedsOf(e, k - 1)) * NMoves)
    BY <2>1, SeedsPlayed, LevelGrown
  <2>3. ASSUME NEW r \in SeedLevels(e)[k].seen
        PROVE  Known(r, k)
    <3>1. \/ r \in SeedLevels(e)[k - 1].seen
          \/ r \in RepsOf(e, SeedsOf(e, k), Len(SeedsOf(e, k)))
      BY <2>2 DEF Grown, SeedsOf
    <3>2. CASE r \in SeedLevels(e)[k - 1].seen
      <4>1. PICK i \in 0 .. k - 1 : \E j \in 1 .. Len(SeedsOf(e, i)) :
                                    r = SymRep(e, SeedsOf(e, i)[j].x)
        BY <1>2, <3>2
      <4>2. i \in 0 .. k
        OBVIOUS
      <4>3. QED
        BY <4>1, <4>2
    <3>3. CASE r \in RepsOf(e, SeedsOf(e, k), Len(SeedsOf(e, k)))
      <4>1. k \in 0 .. k
        OBVIOUS
      <4>2. QED
        BY <3>3, <4>1 DEF RepsOf
    <3>4. QED
      BY <3>1, <3>2, <3>3
  <2>4. QED
    BY <2>1, <2>3
<1> HIDE DEF S
<1>3. \A k \in 0 .. SeedDepth : k \in S
  BY <1>1, <1>2, Constants, AllNumbers
<1>4. QED
  BY <1>3 DEF S

(* n moves lead from x to solved edges and corners of the orbit of c.      *)
Reaches(e, c, n, x) == \E d \in OrbitOf(e, c) : Near(x, Target(d), n)

LEMMA SeedFar ==
  ASSUME NEW e \in Edge, NEW c \in CornersOf(e), NEW k \in 0 .. SeedDepth,
         NEW j \in 1 .. Len(SeedsOf(e, k)), NEW a \in Nat,
         Reaches(e, c, a, SeedsOf(e, k)[j].x)
  PROVE  SeedsOf(e, k)[j] \in SeedRecord /\ Dist[<<e, c>>] <= k + a
<1> DEFINE seed == SeedsOf(e, k)[j]
<1>0. c \in Corner /\ k \in Nat
  BY ParameterAssumption, Constants DEF CornersOf
<1>1. PICK d \in OrbitOf(e, c) : Near(seed.x, Target(d), a)
  BY DEF Reaches
<1>2. seed \in SeedRecord /\ IsSeed(e, k, seed)
  BY SeedsPlayed, ElementOfSeq
<1> HIDE DEF seed
<1>3. seed.moves \in Seq(Move) /\ k \in 0 .. Len(seed.moves) /\ StartCube(e) \in State
  BY <1>0, <1>2, Constants DEF SeedRecord, IsSeed, StartCube, State
<1>4. Near(StartCube(e), Target(d), k + a)
  BY <1>1, <1>2, <1>3, NearPlayed DEF IsSeed
<1>5. Near(StartCube(e), Target(c), k + a) /\ k + a \in Nat
  BY <1>0, <1>4, OrbitNear
<1>6. QED
  BY <1>2, <1>5, CosetDist DEF seed

(* Cubes that are the same up to symmetry reach the same orbits.           *)
LEMMA RepReaches ==
  ASSUME NEW e \in Edge, NEW c \in Corner, NEW n \in Nat,
         NEW x \in State, NEW y \in State, SymRep(e, x) = SymRep(e, y), Reaches(e, c, n, x)
  PROVE  Reaches(e, c, n, y)
<1>1. y \in SymRep(e, y)
  <2>1. PICK s \in Sym : \A z \in State : SymCube(s, z) = z
    BY SymAssumption
  <2>2. SymCube(s, StartCube(e)) = StartCube(e)
    BY <2>1, Constants DEF StartCube, State
  <2>3. s \in SelfSym(e)
    BY <2>2 DEF SelfSym, SymCube, StartCube
  <2>4. QED
    BY <2>1, <2>3 DEF SymRep
<1>2. PICK s \in SelfSym(e) : y = SymCube(s, x)
  BY <1>1 DEF SymRep
<1>3. PICK d \in OrbitOf(e, c) : Near(x, Target(d), n)
  BY DEF Reaches
<1>4. s \in Sym /\ d \in Corner /\ OrbitOf(e, d) \subseteq OrbitOf(e, c)
  BY Orbits DEF SelfSym
<1>5. CSym[s][d] \in OrbitOf(e, c)
  BY <1>4 DEF OrbitOf
<1>6. Near(y, Target(CSym[s][d]), n)
  <2>1. Near(SymCube(s, x), SymCube(s, Target(d)), n)
    BY <1>3, <1>4, NearSym, SymTarget
  <2>2. QED
    BY <1>2, <1>4, <2>1, SymTarget
<1>7. QED
  BY <1>5, <1>6 DEF Reaches

(* The search can go on from x: no path is shorter, and none begins with a *)
(* move that it leaves out after the last one.                             *)
Alive(x, last_axis, n, t) ==
  /\ Near(x, t, n)
  /\ \A k \in 0 .. n - 1 : ~ Near(x, t, k)
  /\ \A m \in Move : n > 0 /\ Repeats(m, last_axis) => ~ Near(MoveCube(x, m), t, n - 1)

(* Two moves of one face are not on a shortest path.                       *)
LEMMA SameFace ==
  ASSUME NEW x \in State, NEW t, NEW n \in Nat, NEW l \in Move, NEW m \in Move,
         Face[l] = Face[m], Near(MoveCube(MoveCube(x, l), m), t, n)
  PROVE  Near(x, t, n) \/ Near(x, t, n + 1)
<1>1. \/ MoveCube(MoveCube(x, l), m) = x
      \/ \E k \in Move : MoveCube(MoveCube(x, l), m) = MoveCube(x, k)
  BY MoveAssumption
<1>2. QED
  BY <1>1, NearSteps

LEMMA OppositeFaces ==
  ASSUME NEW x \in State, NEW t, NEW n \in Nat, NEW l \in Move, NEW m \in Move,
         Face[m] + 3 = Face[l], Near(MoveCube(MoveCube(x, l), m), t, n)
  PROVE  Near(MoveCube(x, m), t, n + 1) /\ m < l
<1>1. MoveCube(MoveCube(x, m), l) = MoveCube(MoveCube(x, l), m)
  BY MoveAssumption
<1>2. MoveCube(x, m) \in State
  BY OneMove
<1>3. ~ (l <= m)
  <2>1. Face[m] \in Nat /\ Face[l] \in Nat
    BY ParameterAssumption
  <2>2. l <= m => Face[l] <= Face[m]
    BY ParameterAssumption
  <2>3. QED
    BY <2>1, <2>2
<1>4. m \in Nat /\ l \in Nat
  BY Constants
<1>5. QED
  BY <1>1, <1>2, <1>3, <1>4, NearSteps

(* How a seed has come about, and what was seen before it.                 *)
LEMMA SeedOrigin ==
  ASSUME NEW e \in Edge, NEW k \in 1 .. SeedDepth, NEW j \in 1 .. Len(SeedsOf(e, k))
  PROVE  \E i \in 1 .. Len(SeedsOf(e, k - 1)) : \E l \in Move :
           LET p == SeedsOf(e, k - 1)[i] IN
           /\ SeedsOf(e, k)[j].x = MoveCube(p.x, l) /\ SeedsOf(e, k)[j].last_axis = Face[l]
           /\ ~ Repeats(l, p.last_axis)
           /\ \A m \in Move :
                m < l /\ ~ Repeats(m, p.last_axis) =>
                  \/ SymRep(e, MoveCube(p.x, m)) \in SeedLevels(e)[k - 1].seen
                  \/ \E b \in 1 .. j - 1 :
                       SymRep(e, MoveCube(p.x, m)) = SymRep(e, SeedsOf(e, k)[b].x)
<1> DEFINE st == SeedLevels(e)[k - 1]
           L == Len(SeedsOf(e, k - 1))
<1>0. k - 1 \in 0 .. SeedDepth
  BY Constants
<1>1. SeedsOf(e, k - 1) \in Seq(SeedRecord) /\ L \in Nat
  BY <1>0, SeedsPlayed, LenProperties
<1>2. Grown(e, st, SeedLevels(e)[k], L * NMoves)
  BY <1>1, LevelGrown
<1>3. PICK a \in 0 .. L * NMoves - 1 :
        /\ Allowed(st, a) /\ SeedsOf(e, k)[j] = Sprouted(st, a)
        /\ \A b \in 0 .. a - 1 : Allowed(st, b) =>
             SymRep(e, Child(st, b)) \in st.seen \union RepsOf(e, SeedsOf(e, k), j - 1)
  BY <1>2 DEF Grown, SeedsOf
<1> DEFINE i == (a \div NMoves) + 1
           l == NextTurn(a)
           p == SeedsOf(e, k - 1)[i]
<1>4. i \in 1 .. L /\ l \in Move /\ a = (a \div NMoves) * NMoves + l
  BY <1>1, Pairs
<1>5. p = Parent(st, a)
  BY DEF Parent, SeedsOf
<1>6. a = (i - 1) * NMoves + l
  <2>1. a \div NMoves \in Int
    BY Constants
  <2>2. i - 1 = a \div NMoves
    BY <2>1
  <2>3. QED
    BY <1>4, <2>2
<1>7. /\ SeedsOf(e, k)[j].x = MoveCube(p.x, l) /\ SeedsOf(e, k)[j].last_axis = Face[l]
      /\ ~ Repeats(l, p.last_axis)
  BY <1>3, <1>5 DEF Sprouted, Child, Allowed
<1> HIDE DEF i, l
<1>8. ASSUME NEW m \in Move, m < l, ~ Repeats(m, p.last_axis)
      PROVE  \/ SymRep(e, MoveCube(p.x, m)) \in SeedLevels(e)[k - 1].seen
             \/ \E b \in 1 .. j - 1 :
                  SymRep(e, MoveCube(p.x, m)) = SymRep(e, SeedsOf(e, k)[b].x)
  <2>1. PICK b \in 0 .. L * NMoves - 1 :
          (b \div NMoves) + 1 = i /\ NextTurn(b) = m /\ b = (i - 1) * NMoves + m
    BY <1>1, <1>4, Pairs
  <2>2. b < a
    <3>1. NMoves \in Nat /\ i - 1 \in Nat /\ m \in Nat /\ l \in Nat
      BY <1>1, <1>4, Constants
    <3>2. (i - 1) * NMoves \in Nat
      BY <3>1
    <3>3. QED
      BY <1>6, <1>8, <2>1, <3>1, <3>2
  <2>3. b \in 0 .. a - 1
    BY <1>1, <2>1, <2>2
  <2>4. Parent(st, b) = p /\ Child(st, b) = MoveCube(p.x, m) /\ Allowed(st, b)
    BY <1>8, <2>1 DEF Parent, Child, Allowed, SeedsOf
  <2>5. SymRep(e, MoveCube(p.x, m)) \in st.seen \union RepsOf(e, SeedsOf(e, k), j - 1)
    BY <1>3, <2>3, <2>4
  <2>6. QED
    BY <2>5 DEF RepsOf
<1>9. QED
  BY <1>4, <1>7, <1>8

(* A cube that was seen in the first k depths and reaches the orbit of c   *)
(* in as few moves as a cube after k moves may: it is symmetric to a seed  *)
(* of depth k.                                                             *)
LEMMA SeenReaches ==
  ASSUME NEW e \in Edge, NEW c \in CornersOf(e), NEW k \in 0 .. SeedDepth,
         k <= Dist[<<e, c>>],
         NEW x \in State, Reaches(e, c, Dist[<<e, c>>] - k, x),
         NEW i \in 0 .. k, NEW j \in 1 .. Len(SeedsOf(e, i)),
         SymRep(e, x) = SymRep(e, SeedsOf(e, i)[j].x)
  PROVE  i = k /\ Reaches(e, c, Dist[<<e, c>>] - k, SeedsOf(e, i)[j].x)
<1> DEFINE D == Dist[<<e, c>>]
<1>1. D \in Nat /\ D - k \in Nat /\ k \in Nat /\ i \in 0 .. SeedDepth /\ c \in Corner
  BY CosetDist, ParameterAssumption, Constants DEF CornersOf
<1>2. SeedsOf(e, i)[j] \in SeedRecord
  BY <1>1, SeedsPlayed, ElementOfSeq
<1>3. SeedsOf(e, i)[j].x \in State
  BY <1>2 DEF SeedRecord
<1>4. Reaches(e, c, D - k, SeedsOf(e, i)[j].x)
  BY <1>1, <1>3, RepReaches
<1>5. D <= i + (D - k)
  BY <1>1, <1>4, SeedFar
<1>6. QED
  BY <1>1, <1>4, <1>5

(* Of the seeds of a depth that are on a shortest way, the first one can   *)
(* go on: another order of opposite faces would come from an earlier one.  *)
LEMMA FirstSeedAlive ==
  ASSUME NEW e \in Edge, NEW c \in CornersOf(e), NEW k \in 0 .. SeedDepth,
         k <= Dist[<<e, c>>],
         NEW j \in 1 .. Len(SeedsOf(e, k)),
         Reaches(e, c, Dist[<<e, c>>] - k, SeedsOf(e, k)[j].x),
         \A b \in 1 .. j - 1 : ~ Reaches(e, c, Dist[<<e, c>>] - k, SeedsOf(e, k)[b].x)
  PROVE  \E d \in OrbitOf(e, c) :
           Alive(SeedsOf(e, k)[j].x, SeedsOf(e, k)[j].last_axis, Dist[<<e, c>>] - k, Target(d))
<1> DEFINE D == Dist[<<e, c>>]
           seed == SeedsOf(e, k)[j]
<1>1. D \in Nat /\ D - k \in Nat /\ k \in Nat /\ c \in Corner /\ j \in Nat
  BY CosetDist, ParameterAssumption, Constants DEF CornersOf
<1>2. PICK d \in OrbitOf(e, c) : Near(seed.x, Target(d), D - k)
  BY DEF Reaches
<1> DEFINE t == Target(d)
<1>3. seed \in SeedRecord /\ seed.x \in State
  <2>1. seed \in SeedRecord
    BY <1>1, SeedsPlayed, ElementOfSeq
  <2>2. QED
    BY <2>1 DEF SeedRecord
<1>4. \A i \in 0 .. SeedDepth : \A b \in 1 .. Len(SeedsOf(e, i)), a \in Nat :
        Near(SeedsOf(e, i)[b].x, t, a) => D <= i + a /\ SeedsOf(e, i)[b] \in SeedRecord
  <2>1. TAKE i \in 0 .. SeedDepth
  <2>2. TAKE b \in 1 .. Len(SeedsOf(e, i)), a \in Nat
  <2>3. Near(SeedsOf(e, i)[b].x, t, a) => Reaches(e, c, a, SeedsOf(e, i)[b].x)
    BY DEF Reaches
  <2>4. QED
    BY <2>3, SeedFar
<1>5. \A a \in 0 .. D - k - 1 : ~ Near(seed.x, t, a)
  <2>1. TAKE a \in 0 .. D - k - 1
  <2>2. a \in Nat /\ ~ (D <= k + a)
    BY <1>1
  <2>3. QED
    BY <1>4, <2>2
<1> HIDE DEF t
<1>6. ASSUME NEW m \in Move, D - k > 0, Repeats(m, seed.last_axis),
             Near(MoveCube(seed.x, m), t, D - k - 1)
      PROVE  FALSE
  <2>1. CASE k = 0
    <3>1. seed.last_axis = -1
      <4>1. j = 1
        BY <2>1, RootSeed
      <4>2. QED
        BY <2>1, <4>1, RootSeed
    <3>2. Face[m] \in Nat
      BY ParameterAssumption
    <3>3. QED
      BY <1>6, <3>1, <3>2 DEF Repeats
  <2>2. CASE k # 0
    <3>0. /\ k \in 1 .. SeedDepth /\ k - 1 \in 0 .. SeedDepth
          /\ D - k - 1 \in Nat /\ (D - k - 1) + 1 = D - k
      BY <1>1, <1>6, <2>2, Constants
    <3>1. PICK i \in 1 .. Len(SeedsOf(e, k - 1)), l \in Move :
            LET p == SeedsOf(e, k - 1)[i] IN
            /\ seed.x = MoveCube(p.x, l) /\ seed.last_axis = Face[l]
            /\ ~ Repeats(l, p.last_axis)
            /\ \A q \in Move :
                 q < l /\ ~ Repeats(q, p.last_axis) =>
                   \/ SymRep(e, MoveCube(p.x, q)) \in SeedLevels(e)[k - 1].seen
                   \/ \E b \in 1 .. j - 1 :
                        SymRep(e, MoveCube(p.x, q)) = SymRep(e, SeedsOf(e, k)[b].x)
      BY <3>0, SeedOrigin
    <3> DEFINE p == SeedsOf(e, k - 1)[i]
    <3>2. p \in SeedRecord
      BY <3>0, SeedsPlayed, ElementOfSeq
    <3>3. p.x \in State /\ p.last_axis \in Int
      BY <3>2 DEF SeedRecord
    <3>4. \A a \in Nat : Near(p.x, t, a) => D <= (k - 1) + a
      BY <1>4, <3>0
    <3>5. Face[m] = Face[l] \/ Face[m] + 3 = Face[l]
      BY <1>6, <3>1 DEF Repeats
    <3>6. Near(MoveCube(MoveCube(p.x, l), m), t, D - k - 1)
      BY <1>6, <3>1
    <3>7. CASE Face[m] = Face[l]
      <4>1. Near(p.x, t, D - k - 1) \/ Near(p.x, t, D - k)
        BY <3>0, <3>3, <3>6, <3>7, SameFace
      <4>2. D <= (k - 1) + (D - k - 1) \/ D <= (k - 1) + (D - k)
        BY <1>1, <3>0, <3>4, <4>1
      <4>3. QED
        BY <1>1, <4>2
    <3>8. CASE Face[m] + 3 = Face[l]
      <4>1. Near(MoveCube(p.x, m), t, D - k) /\ m < l
        BY <3>0, <3>3, <3>6, <3>8, OppositeFaces
      <4>2. ~ Repeats(m, p.last_axis)
        <5>1. SUFFICES ASSUME Repeats(m, p.last_axis)
                       PROVE  FALSE
          OBVIOUS
        <5>2. Face[m] = p.last_axis
          BY <3>1, <3>8, <5>1 DEF Repeats
        <5>3. CASE k = 1
          <6>0. k - 1 = 0
            BY <5>3
          <6>1. p.last_axis = -1
            <7>1. i = 1 /\ SeedsOf(e, k - 1)[1].last_axis = -1
              <8>1. SeedsOf(e, k - 1) = SeedsOf(e, 0)
                BY <6>0
              <8>2. SeedsOf(e, 0)[1].last_axis = -1 /\ Len(SeedsOf(e, 0)) = 1
                BY RootSeed
              <8>3. i \in 1 .. Len(SeedsOf(e, k - 1))
                OBVIOUS
              <8>4. i \in 1 .. 1
                BY <8>1, <8>2, <8>3
              <8>5. QED
                BY <8>1, <8>2, <8>4
            <7>2. QED
              BY <7>1
          <6>2. Face[m] \in Nat
            BY ParameterAssumption
          <6>3. QED
            BY <5>2, <6>1, <6>2
        <5>4. CASE k # 1
          <6>1. k - 1 \in 1 .. SeedDepth /\ (k - 1) - 1 \in 0 .. SeedDepth
            BY <1>1, <3>0, <5>4, Constants
          <6>2. PICK h \in 1 .. Len(SeedsOf(e, (k - 1) - 1)), u \in Move :
                  /\ p.x = MoveCube(SeedsOf(e, (k - 1) - 1)[h].x, u)
                  /\ p.last_axis = Face[u]
            BY <6>1, SeedOrigin
          <6> DEFINE z == SeedsOf(e, (k - 1) - 1)[h]
          <6>3. z \in SeedRecord
            BY <6>1, SeedsPlayed, ElementOfSeq
          <6>4. z.x \in State
            BY <6>3 DEF SeedRecord
          <6>5. Near(z.x, t, D - k) \/ Near(z.x, t, (D - k) + 1)
            BY <1>1, <4>1, <5>2, <6>2, <6>4, SameFace
          <6>6. D <= ((k - 1) - 1) + (D - k) \/ D <= ((k - 1) - 1) + ((D - k) + 1)
            <7>1. D - k \in Nat /\ (D - k) + 1 \in Nat
              BY <1>1
            <7>2. \A a \in Nat : Near(z.x, t, a) => D <= ((k - 1) - 1) + a
              BY <1>4, <6>1
            <7>3. QED
              BY <6>5, <7>1, <7>2
          <6> HIDE DEF D
          <6>7. ~ (D <= ((k - 1) - 1) + (D - k))
            BY <1>1
          <6>8. ~ (D <= ((k - 1) - 1) + ((D - k) + 1))
            BY <1>1
          <6>9. QED
            BY <6>6, <6>7, <6>8
        <5>5. QED
          BY <5>3, <5>4
      <4> DEFINE y == MoveCube(p.x, m)
      <4>3. y \in State /\ Reaches(e, c, D - k, y)
        BY <3>3, <4>1, OneMove DEF Reaches, t
      <4>4. \/ SymRep(e, y) \in SeedLevels(e)[k - 1].seen
            \/ \E b \in 1 .. j - 1 : SymRep(e, y) = SymRep(e, SeedsOf(e, k)[b].x)
        BY <3>1, <4>1, <4>2
      <4> HIDE DEF y
      <4>5. CASE SymRep(e, y) \in SeedLevels(e)[k - 1].seen
        <5>1. PICK h \in 0 .. k - 1 : \E b \in 1 .. Len(SeedsOf(e, h)) :
                                      SymRep(e, y) = SymRep(e, SeedsOf(e, h)[b].x)
          BY <3>0, <4>5, SeenSeeds
        <5>2. h \in 0 .. k /\ h # k
          BY <1>1
        <5>3. QED
          BY <4>3, <5>1, <5>2, SeenReaches
      <4>6. CASE \E b \in 1 .. j - 1 : SymRep(e, y) = SymRep(e, SeedsOf(e, k)[b].x)
        <5>1. PICK b \in 1 .. j - 1 : SymRep(e, y) = SymRep(e, SeedsOf(e, k)[b].x)
          BY <4>6
        <5>2. b \in 1 .. Len(SeedsOf(e, k)) /\ k \in 0 .. k
          <6>1. Len(SeedsOf(e, k)) \in Nat
            BY SeedsPlayed, LenProperties
          <6>2. QED
            BY <1>1, <6>1
        <5>3. Reaches(e, c, D - k, SeedsOf(e, k)[b].x)
          BY <4>3, <5>1, <5>2, SeenReaches
        <5>4. QED
          BY <5>1, <5>3
      <4>7. QED
        BY <4>4, <4>5, <4>6
    <3>9. QED
      BY <3>5, <3>7, <3>8
  <2>3. QED
    BY <2>1, <2>2
<1>7. \A m \in Move : D - k > 0 /\ Repeats(m, seed.last_axis) =>
                        ~ Near(MoveCube(seed.x, m), t, D - k - 1)
  BY <1>6
<1> HIDE DEF D, seed
<1>8. Alive(seed.x, seed.last_axis, D - k, t)
  BY <1>2, <1>5, <1>7 DEF Alive, t
<1>9. QED
  BY <1>8 DEF t, D, seed

LEMMA SeedOnTheWay ==
  ASSUME NEW e \in Edge, NEW c \in CornersOf(e), NEW k \in 0 .. SeedDepth,
         k <= Dist[<<e, c>>],
         \E j \in 1 .. Len(SeedsOf(e, k)) :
           Reaches(e, c, Dist[<<e, c>>] - k, SeedsOf(e, k)[j].x)
  PROVE  \E j \in 1 .. Len(SeedsOf(e, k)), d \in OrbitOf(e, c) :
           Alive(SeedsOf(e, k)[j].x, SeedsOf(e, k)[j].last_axis, Dist[<<e, c>>] - k, Target(d))
<1> DEFINE D == Dist[<<e, c>>]
           On == {j \in 1 .. Len(SeedsOf(e, k)) : Reaches(e, c, D - k, SeedsOf(e, k)[j].x)}
<1>1. Len(SeedsOf(e, k)) \in Nat
  BY SeedsPlayed, LenProperties
<1>2. On \in SUBSET Nat /\ On # {}
  BY <1>1
<1>3. PICK j \in On : \A b \in On : j <= b
  BY <1>2, LeastNumber
<1>4. ASSUME NEW b \in 1 .. j - 1
      PROVE  ~ Reaches(e, c, D - k, SeedsOf(e, k)[b].x)
  <2>1. j \in 1 .. Len(SeedsOf(e, k)) /\ b \in 1 .. Len(SeedsOf(e, k)) /\ ~ (j <= b)
    BY <1>1, <1>3
  <2>2. QED
    BY <1>3, <2>1
<1>5. j \in 1 .. Len(SeedsOf(e, k)) /\ Reaches(e, c, D - k, SeedsOf(e, k)[j].x)
  BY <1>3
<1> HIDE DEF On
<1>6. QED
  BY <1>4, <1>5, FirstSeedAlive

(* At every depth a seed, or a symmetric one, is on the way to each cube   *)
(* of the coset that is at least so far.                                   *)
LEMMA SeedsComplete ==
  ASSUME NEW e \in Edge, NEW c \in CornersOf(e)
  PROVE  \A k \in 0 .. SeedDepth : k <= Dist[<<e, c>>] =>
           \E j \in 1 .. Len(SeedsOf(e, k)), d \in OrbitOf(e, c) :
             Alive(SeedsOf(e, k)[j].x, SeedsOf(e, k)[j].last_axis, Dist[<<e, c>>] - k, Target(d))
<1> DEFINE D == Dist[<<e, c>>]
           Found(k) == \E j \in 1 .. Len(SeedsOf(e, k)) : Reaches(e, c, D - k, SeedsOf(e, k)[j].x)
           S == {k \in Nat : k <= D => Found(k)}
<1>1. D \in Nat /\ c \in Corner
  BY CosetDist, ParameterAssumption DEF CornersOf
<1>2. 0 \in S
  <2>1. SeedsOf(e, 0)[1].x = StartCube(e) /\ 1 \in 1 .. Len(SeedsOf(e, 0)) /\ D - 0 = D
    BY <1>1, RootSeed
  <2>2. Reaches(e, c, D, StartCube(e))
    BY <1>1, CosetDist, Orbits DEF Reaches
  <2>3. QED
    BY <2>1, <2>2
<1>3. ASSUME NEW k \in 1 .. SeedDepth, k - 1 \in S
      PROVE  k \in S
  <2>1. SUFFICES ASSUME k <= D
                 PROVE  Found(k)
    BY Constants
  <2>2. /\ k - 1 \in 0 .. SeedDepth /\ k - 1 <= D /\ k \in 0 .. SeedDepth /\ k \in Nat
        /\ D - k \in Nat /\ (D - k) + 1 = D - (k - 1) /\ D - (k - 1) > 0
        /\ (D - (k - 1)) - 1 = D - k
    BY <1>1, <2>1, Constants
  <2>3. PICK i \in 1 .. Len(SeedsOf(e, k - 1)), d \in OrbitOf(e, c) :
          Alive(SeedsOf(e, k - 1)[i].x, SeedsOf(e, k - 1)[i].last_axis, D - (k - 1), Target(d))
    <3>1. Found(k - 1)
      BY <1>3, <2>2
    <3>2. QED
      BY <2>2, <3>1, SeedOnTheWay
  <2> DEFINE st == SeedLevels(e)[k - 1]
             p == SeedsOf(e, k - 1)[i]
  <2>4. SeedsOf(e, k - 1) \in Seq(SeedRecord) /\ p \in SeedRecord
    BY <2>2, SeedsPlayed, ElementOfSeq
  <2>5. p.x \in State /\ Len(SeedsOf(e, k - 1)) \in Nat
    BY <2>4, LenProperties DEF SeedRecord
  <2>6. Near(p.x, Target(d), (D - k) + 1)
    BY <2>2, <2>3 DEF Alive
  <2>7. PICK m \in Move : Near(MoveCube(p.x, m), Target(d), D - k)
    BY <2>2, <2>5, <2>6, NearSteps
  <2>8. ~ Repeats(m, p.last_axis)
    BY <2>2, <2>3, <2>7 DEF Alive
  <2> DEFINE x == MoveCube(p.x, m)
  <2>9. x \in State /\ Reaches(e, c, D - k, x)
    BY <2>5, <2>7, OneMove DEF Reaches
  <2>10. SymRep(e, x) \in SeedLevels(e)[k].seen
    <3>1. PICK b \in 0 .. Len(SeedsOf(e, k - 1)) * NMoves - 1 :
            (b \div NMoves) + 1 = i /\ NextTurn(b) = m
      BY <2>5, Pairs
    <3>2. Allowed(st, b) /\ Child(st, b) = x
      BY <2>8, <3>1 DEF Allowed, Child, Parent, SeedsOf
    <3>3. Grown(e, st, SeedLevels(e)[k], Len(SeedsOf(e, k - 1)) * NMoves)
      BY <2>4, LevelGrown
    <3>4. QED
      BY <3>2, <3>3 DEF Grown
  <2> HIDE DEF x
  <2>11. PICK h \in 0 .. k : \E j \in 1 .. Len(SeedsOf(e, h)) :
                             SymRep(e, x) = SymRep(e, SeedsOf(e, h)[j].x)
    BY <2>2, <2>10, SeenSeeds
  <2>12. PICK j \in 1 .. Len(SeedsOf(e, h)) : SymRep(e, x) = SymRep(e, SeedsOf(e, h)[j].x)
    BY <2>11
  <2>13. h = k /\ Reaches(e, c, D - k, SeedsOf(e, h)[j].x)
    BY <2>1, <2>2, <2>9, <2>12, SeenReaches
  <2>14. QED
    BY <2>13
<1> HIDE DEF S
<1>4. \A k \in 0 .. SeedDepth : k \in S
  BY <1>2, <1>3, Constants, AllNumbers
<1>5. \A k \in 0 .. SeedDepth : k <= D => Found(k)
  BY <1>4 DEF S
<1>6. QED
  BY <1>5, SeedOnTheWay

-----------------------------------------------------------------------------
(* The search.  Its invariant says what is recorded, what a call of search *)
(* was given, and that each unsolved cube of the depth that is searched is *)
(* still ahead: of a seed, or of a call of search, in a move of its mask.  *)

Node == [ec : Edge, cc : Corner, depth : Nat, prune : Nat, last_axis : Int,
         mask : SUBSET Move]
SeedLen(n) == IF n < SeedDepth THEN n ELSE SeedDepth
Entered(i) == ~ (i = Len(stack) /\ pc = "enter")

Types ==
  /\ ec0 \in Starts /\ seeds = FindSeeds(ec0)
  /\ max_depth \in Nat /\ terminated \in BOOLEAN
  /\ proven_min \in Nat /\ search_depth = proven_min
  /\ seed_idx \in 0 .. Len(SeedsNow)
  /\ stack \in Seq(Node) /\ moves \in Seq(Move)
  /\ pc \in {"pass", "enter", "loop", "back", "done", "canceled"}

Records ==
  /\ length \in [CornersOf(ec0) -> Nat \union {Unsolved}]
  /\ OptimalLengths /\ BoundIsProven
  /\ \A c \in Open : OrbitOf(ec0, c) \subseteq Open
  /\ Open \subseteq cpr

(* A call of search for the cube that the first moves of mv lead to, which *)
(* may use left moves of the n.                                            *)
Called(e, mv, n, i, node, left) ==
  /\ left \in Nat \ {0} /\ left = n - SeedLen(n) + 1 - i
  /\ <<node.ec, node.cc>> = Played(StartCube(e), mv)[n - left]
  /\ node.prune = EDist[node.ec] /\ node.prune <= left
  /\ node.mask \subseteq Mask(node.ec, node.prune, node.depth)
Left(node, entered) == IF entered THEN node.depth + 1 ELSE node.depth

Calls ==
  /\ pc \in {"pass", "done", "canceled"} => stack = << >>
  /\ pc \in {"enter", "loop"} => stack # << >>
  /\ pc \in {"loop", "back"} => Len(moves) = SeedLen(search_depth) + Len(stack)
  /\ pc = "enter" => Len(moves) + 1 = SeedLen(search_depth) + Len(stack)
  /\ \A i \in 1 .. Len(stack) :
       Called(ec0, moves, search_depth, i, stack[i], Left(stack[i], Entered(i)))

(* The search can still come from a call to t.                             *)
MovesAhead(node, t) ==
  \E b \in node.mask :
    LET m == RealMove(node.ec, b) IN
    /\ ~ Repeats(m, node.last_axis)
    /\ Alive(MoveCube(<<node.ec, node.cc>>, m), Face[m], node.depth, t)
CallAhead(node, entered, t) ==
  IF entered THEN MovesAhead(node, t)
  ELSE Alive(<<node.ec, node.cc>>, node.last_axis, node.depth, t)
SeedAhead(j, n, t) == Alive(SeedsNow[j].x, SeedsNow[j].last_axis, n - SeedLen(n), t)

Ahead(c) ==
  \E d \in OrbitOf(ec0, c) :
    \/ \E j \in seed_idx + 1 .. Len(SeedsNow) : SeedAhead(j, search_depth, Target(d))
    \/ \E i \in 1 .. Len(stack) : CallAhead(stack[i], Entered(i), Target(d))

(* The pass goes on, or has not been cut short by a signal.                *)
Whole == pc \notin {"done", "canceled"} /\ (terminated => pc = "pass")
Complete == Whole => \A c \in Open : Dist[<<ec0, c>>] = search_depth => Ahead(c)

IInv == Types /\ Records /\ Calls /\ Complete

-----------------------------------------------------------------------------
(* What the pruning keeps.                                                 *)

(* A move on the shortest path that comes first among those of its kind is *)
(* not left out, and the search can go on from there.                      *)
LEMMA AliveMove ==
  ASSUME NEW x \in State, NEW last_axis, NEW n \in Nat, NEW t, Alive(x, last_axis, n + 1, t)
  PROVE  \E m \in Move : /\ ~ Repeats(m, last_axis)
                         /\ Alive(MoveCube(x, m), Face[m], n, t)
<1> DEFINE Good == {m \in Move : Near(MoveCube(x, m), t, n)}
<1>1. Near(x, t, n + 1) /\ n + 1 > 0 /\ (n + 1) - 1 = n
  BY DEF Alive
<1>2. Good \in SUBSET Nat /\ Good # {}
  BY <1>1, NearSteps, Constants
<1>3. PICK m \in Good : \A k \in Good : m <= k
  BY <1>2, LeastNumber
<1>4. m \in Move /\ Near(MoveCube(x, m), t, n)
  BY <1>3
<1>5. ~ Repeats(m, last_axis)
  BY <1>1, <1>4 DEF Alive
<1>6. \A k \in 0 .. n : ~ Near(x, t, k)
  BY DEF Alive
<1>7. \A k \in 0 .. n - 1 : ~ Near(MoveCube(x, m), t, k)
  <2>1. TAKE k \in 0 .. n - 1
  <2>2. k \in Nat /\ k + 1 \in 0 .. n
    OBVIOUS
  <2>3. QED
    BY <1>4, <1>6, <2>2, NearSteps
<1>8. ASSUME NEW k \in Move, n > 0, Repeats(k, Face[m]),
             Near(MoveCube(MoveCube(x, m), k), t, n - 1)
      PROVE  FALSE
  <2>1. n - 1 \in Nat /\ n - 1 \in 0 .. n /\ n \in 0 .. n /\ (n - 1) + 1 = n
    BY <1>8
  <2>2. CASE Face[k] = Face[m]
    BY <1>4, <1>6, <1>8, <2>1, <2>2, SameFace
  <2>3. CASE Face[k] + 3 = Face[m]
    <3>1. Near(MoveCube(x, k), t, n) /\ k < m
      BY <1>4, <1>8, <2>1, <2>3, OppositeFaces
    <3>2. k \in Good /\ k \in Nat /\ m \in Nat
      BY <1>4, <3>1, Constants
    <3>3. QED
      BY <1>3, <3>1, <3>2
  <2>4. QED
    BY <1>8, <2>2, <2>3 DEF Repeats
<1>9. \A k \in Move : n > 0 /\ Repeats(k, Face[m]) => ~ Near(MoveCube(MoveCube(x, m), k), t, n - 1)
  BY <1>8
<1>10. QED
  BY <1>4, <1>5, <1>7, <1>9 DEF Alive

(* The masks of the representative say how a real move of the edges, which *)
(* their symmetry makes of a move of the mask, changes the distance.       *)
LEMMA RealMoves ==
  ASSUME NEW e \in Edge
  PROVE  /\ \A m \in Move : \E b \in Move : RealMove(e, b) = m
         /\ \A b \in Move :
              /\ RealMove(e, b) \in Move
              /\ EDist[EMove[e][RealMove(e, b)]] \in Nat
              /\ EDist[EMove[e][RealMove(e, b)]] = EDist[EMove[RepOf[e]][b]]
         /\ EDist[e] \in Nat /\ EDist[e] = EDist[RepOf[e]]
<1> DEFINE f == Frame(e)
           r == RepOf[e]
<1>1. r \in Edge /\ \E s \in Sym : ESym[s][r] = e
  BY SymAssumption
<1>2. f \in Sym /\ ESym[f][r] = e
  BY <1>1 DEF Frame
<1> HIDE DEF f
<1>3. {MSym[f][m] : m \in Move} = Move
  BY <1>2, SymAssumption
<1>4. EDist[e] \in Nat /\ EDist[e] = EDist[r]
  <2>1. EDist[ESym[f][r]] = EDist[r]
    BY <1>1, <1>2, SymAssumption
  <2>2. QED
    BY <1>2, <2>1, MoveAssumption
<1>5. ASSUME NEW b \in Move
      PROVE  /\ MSym[f][b] \in Move
             /\ EDist[EMove[e][MSym[f][b]]] \in Nat
             /\ EDist[EMove[e][MSym[f][b]]] = EDist[EMove[r][b]]
  <2>1. MSym[f][b] \in Move /\ EMove[r][b] \in Edge
    BY <1>1, <1>3, MoveAssumption
  <2>2. ESym[f][EMove[r][b]] = EMove[e][MSym[f][b]]
    <3>1. \A g \in Edge : ESym[f][EMove[g][b]] = EMove[ESym[f][g]][MSym[f][b]]
      BY <1>2, SymAssumption
    <3>2. QED
      BY <1>1, <1>2, <3>1
  <2>3. EDist[ESym[f][EMove[r][b]]] = EDist[EMove[r][b]] /\ EDist[EMove[r][b]] \in Nat
    BY <1>2, <2>1, SymAssumption, MoveAssumption
  <2>4. QED
    BY <2>1, <2>2, <2>3
<1>6. \A m \in Move : \E b \in Move : MSym[f][b] = m
  BY <1>3
<1>7. QED
  BY <1>4, <1>5, <1>6 DEF RealMove, f

(* prune is updated to the distance, and a mask has just those moves after *)
(* which the edges can be solved in the moves that are left.               *)
LEMMA MasksExact ==
  ASSUME NEW e \in Edge, NEW left \in Nat, EDist[e] <= left + 1, NEW b \in Move
  PROVE  /\ NextPrune(e, EDist[e], b) = EDist[EMove[e][RealMove(e, b)]]
         /\ b \in Mask(e, EDist[e], left) <=> EDist[EMove[e][RealMove(e, b)]] <= left
<1> DEFINE r == RepOf[e]
           p == EDist[e]
           q == EDist[EMove[e][RealMove(e, b)]]
<1>1. p \in Nat /\ q \in Nat /\ p = EDist[r] /\ q = EDist[EMove[r][b]]
  BY RealMoves
<1>2. q - p \in -1 .. 1
  BY <1>1, SymAssumption, MoveAssumption
<1>3. (b \in Up(e) <=> q > p) /\ (b \in Down(e) <=> q < p)
  BY <1>1 DEF Up, Down
<1>4. NextPrune(e, p, b) = p + (IF b \in Up(e) THEN 1 ELSE 0) - (IF b \in Down(e) THEN 1 ELSE 0)
  BY DEF NextPrune
<1>5. /\ left = 0 /\ p # 0 => (b \in Mask(e, p, left) <=> b \in Down(e))
      /\ left = 0 /\ p = 0 => (b \in Mask(e, p, left) <=> b \notin Up(e))
      /\ left # 0 /\ p < left => b \in Mask(e, p, left)
      /\ left # 0 /\ p = left => (b \in Mask(e, p, left) <=> b \notin Up(e))
      /\ left # 0 /\ ~ (p < left) /\ p # left => (b \in Mask(e, p, left) <=> b \in Down(e))
  BY DEF Mask
<1>6. p <= left + 1
  OBVIOUS
<1> HIDE DEF p, q
<1>7. NextPrune(e, p, b) = q
  BY <1>1, <1>2, <1>3, <1>4
<1>8. b \in Mask(e, p, left) <=> q <= left
  <2>1. left # 0 /\ ~ (p < left) /\ p # left => p = left + 1
    BY <1>1, <1>6
  <2>2. left = 0 /\ p # 0 => p = 1
    BY <1>1, <1>6
  <2>3. CASE b \in Up(e)
    <3>1. q = p + 1 /\ b \notin Down(e)
      BY <1>1, <1>2, <1>3, <2>3
    <3>2. QED
      BY <1>1, <1>5, <2>1, <2>2, <2>3, <3>1
  <2>4. CASE b \in Down(e)
    <3>1. q + 1 = p /\ b \notin Up(e)
      BY <1>1, <1>2, <1>3, <2>4
    <3>2. QED
      BY <1>1, <1>5, <2>1, <2>2, <2>4, <3>1
  <2>5. CASE b \notin Up(e) /\ b \notin Down(e)
    <3>1. q = p
      BY <1>1, <1>3, <2>5
    <3>2. QED
      BY <1>1, <1>5, <2>1, <2>2, <2>5, <3>1
  <2>6. QED
    BY <2>3, <2>4, <2>5
<1>9. QED
  BY <1>7, <1>8 DEF p, q

LEMMA MasksAreMoves ==
  ASSUME NEW e, NEW prune, NEW left
  PROVE  Mask(e, prune, left) \subseteq Move
BY DEF Mask, Up, Down

-----------------------------------------------------------------------------
(* The stack, and what the variables hold.                                 *)

LEMMA StackParts ==
  ASSUME stack \in Seq(Node), stack # << >>
  PROVE  /\ Len(stack) \in Nat \ {0} /\ Top \in Node
         /\ Pop \in Seq(Node) /\ Len(Pop) = Len(stack) - 1
         /\ \A i \in 1 .. Len(stack) - 1 : Pop[i] = stack[i]
         /\ \A i \in 1 .. Len(stack) : stack[i] \in Node
<1> DEFINE n == Len(stack)
<1>1. n \in Nat /\ n # 0
  BY LenProperties, EmptySeq
<1>2. \A i \in 1 .. n : stack[i] \in Node
  BY ElementOfSeq
<1>3. /\ Pop \in Seq(Node) /\ Len(Pop) = n - 1
      /\ \A i \in 1 .. n - 1 : Pop[i] = stack[i]
  <2>1. n - 1 \in Int /\ (n - 1) - 1 + 1 = n - 1
    BY <1>1
  <2>2. \A i \in 1 .. n - 1 : stack[i] \in Node /\ 1 + i - 1 = i
    BY <1>1, <1>2
  <2>3. /\ SubSeq(stack, 1, n - 1) \in Seq(Node)
        /\ Len(SubSeq(stack, 1, n - 1)) = IF 1 <= n - 1 THEN (n - 1) - 1 + 1 ELSE 0
        /\ \A i \in 1 .. (n - 1) - 1 + 1 : SubSeq(stack, 1, n - 1)[i] = stack[1 + i - 1]
    BY <2>1, <2>2, SubSeqProperties
  <2>4. (IF 1 <= n - 1 THEN (n - 1) - 1 + 1 ELSE 0) = n - 1
    <3>1. \A k \in Nat : k # 0 => (IF 1 <= k - 1 THEN (k - 1) - 1 + 1 ELSE 0) = k - 1
      OBVIOUS
    <3> HIDE DEF n
    <3>2. QED
      BY <1>1, <3>1
  <2>5. \A i \in 1 .. n - 1 : SubSeq(stack, 1, n - 1)[i] = stack[i]
    BY <2>1, <2>2, <2>3
  <2>6. QED
    BY <2>3, <2>4, <2>5 DEF Pop
<1>4. QED
  BY <1>1, <1>2, <1>3 DEF Top

LEMMA MaskChanged ==
  ASSUME stack \in Seq(Node), stack # << >>, NEW mask \in SUBSET Move
  PROVE  LET s == WithMask(mask)
             top == s[Len(stack)] IN
         /\ s \in Seq(Node) /\ Len(s) = Len(stack)
         /\ \A i \in 1 .. Len(stack) - 1 : s[i] = stack[i]
         /\ top \in Node /\ top.mask = mask
         /\ top.ec = Top.ec /\ top.cc = Top.cc /\ top.depth = Top.depth
         /\ top.prune = Top.prune /\ top.last_axis = Top.last_axis
<1> DEFINE n == Len(stack)
           node == [Top EXCEPT !.mask = mask]
<1>1. n \in Nat \ {0} /\ Top \in Node
  BY StackParts
<1>2. n \in 1 .. n /\ Top = stack[n]
  BY <1>1 DEF Top
<1>3. node \in Node
  BY <1>1 DEF Node
<1>4. WithMask(mask) = [stack EXCEPT ![n] = node]
  BY <1>2 DEF WithMask
<1> HIDE DEF node
<1>5. /\ WithMask(mask) \in Seq(Node) /\ Len(WithMask(mask)) = n
      /\ WithMask(mask)[n] = node
      /\ \A i \in 1 .. n - 1 : WithMask(mask)[i] = stack[i]
  BY <1>1, <1>2, <1>3, <1>4
<1>6. /\ node.mask = mask /\ node.ec = Top.ec /\ node.cc = Top.cc /\ node.depth = Top.depth
      /\ node.prune = Top.prune /\ node.last_axis = Top.last_axis
  BY <1>1 DEF node, Node
<1>7. QED
  BY <1>3, <1>5, <1>6

LEMMA SeedLenIs ==
  ASSUME NEW n \in Nat
  PROVE  SeedLen(n) \in 0 .. SeedDepth /\ SeedLen(n) \in Nat /\ SeedLen(n) <= n
BY Constants DEF SeedLen

LEMMA SeedsOfPass ==
  ASSUME Types
  PROVE  /\ ec0 \in Edge /\ search_depth \in Nat
         /\ SeedsNow = SeedsOf(ec0, SeedLen(search_depth))
         /\ SeedsNow \in Seq(SeedRecord) /\ Len(SeedsNow) \in Nat
         /\ \A j \in 1 .. Len(SeedsNow) :
              /\ SeedsNow[j] \in SeedRecord
              /\ IsSeed(ec0, SeedLen(search_depth), SeedsNow[j])
<1> DEFINE k == SeedLen(search_depth)
<1>1. ec0 \in Edge /\ search_depth \in Nat
  BY ParameterAssumption DEF Types
<1>2. k \in 0 .. SeedDepth
  BY <1>1, SeedLenIs
<1>3. SeedsNow = seeds[k]
  BY DEF SeedsNow, SeedLen
<1>4. seeds[k] = SeedsOf(ec0, k)
  BY <1>2 DEF Types, FindSeeds, SeedsOf
<1> HIDE DEF k
<1>5. SeedsOf(ec0, k) \in Seq(SeedRecord) /\ \A j \in 1 .. Len(SeedsOf(ec0, k)) :
                                              IsSeed(ec0, k, SeedsOf(ec0, k)[j])
  BY <1>1, <1>2, SeedsPlayed
<1>6. Len(SeedsOf(ec0, k)) \in Nat
  BY <1>5, LenProperties
<1>7. \A j \in 1 .. Len(SeedsOf(ec0, k)) : SeedsOf(ec0, k)[j] \in SeedRecord
  BY <1>5, ElementOfSeq
<1>8. QED
  BY <1>1, <1>3, <1>4, <1>5, <1>6, <1>7 DEF k

(* What is recorded is about corners.                                      *)
LEMMA OpenCubes ==
  ASSUME Types, Records, NEW c \in Open
  PROVE  /\ c \in CornersOf(ec0) /\ c \in Involution /\ c \in Corner /\ <<ec0, c>> \in Cube
         /\ Dist[<<ec0, c>>] \in Nat /\ proven_min <= Dist[<<ec0, c>>]
         /\ \A d \in OrbitOf(ec0, c) : /\ d \in Open /\ d \in CornersOf(ec0)
                                       /\ d \in Corner /\ d \in Involution
<1>1. ec0 \in Edge
  BY SeedsOfPass
<1>2. Open \subseteq CornersOf(ec0)
  BY DEF Open, Records
<1>3. \A d \in Open : d \in CornersOf(ec0) /\ d \in Involution /\ d \in Corner /\ <<ec0, d>> \in Cube
  BY <1>2, ParameterAssumption DEF CornersOf
<1>4. Dist[<<ec0, c>>] \in Nat
  BY <1>3, MoveAssumption
<1>5. QED
  BY <1>3, <1>4 DEF Records, BoundIsProven

(* What NextMove plays, for the first move of the mask.                    *)
LEMMA MoveFits ==
  ASSUME Types, Calls, pc = "loop", Top.mask # {}
  PROVE  LET bit == CHOOSE m \in Top.mask : \A n \in Top.mask : m <= n
             m == RealMove(Top.ec, bit) IN
         /\ bit \in Top.mask /\ bit \in Move /\ m \in Move
         /\ stack # << >> /\ Top \in Node
         /\ NextPrune(Top.ec, Top.prune, bit) = EDist[EMove[Top.ec][m]]
         /\ EDist[EMove[Top.ec][m]] \in Nat /\ EDist[EMove[Top.ec][m]] <= Top.depth
         /\ EMove[Top.ec][m] \in Edge /\ CMove[Top.cc][m] \in Corner
<1> DEFINE bit == CHOOSE m \in Top.mask : \A n \in Top.mask : m <= n
           m == RealMove(Top.ec, bit)
<1>1. stack \in Seq(Node) /\ stack # << >>
  BY DEF Types, Calls
<1>2. Top \in Node /\ Len(stack) \in 1 .. Len(stack)
  BY <1>1, StackParts
<1>3. Top.ec \in Edge /\ Top.cc \in Corner /\ Top.depth \in Nat /\ Top.mask \in SUBSET Nat
  BY <1>2, Constants DEF Node
<1>4. \E k \in Top.mask : \A n \in Top.mask : k <= n
  BY <1>3, LeastNumber
<1>5. bit \in Top.mask /\ bit \in Move
  BY <1>2, <1>4 DEF Node
<1> HIDE DEF bit
<1>6. Called(ec0, moves, search_depth, Len(stack), Top, Top.depth + 1)
  BY <1>2 DEF Calls, Left, Entered, Top
<1>7. Top.prune = EDist[Top.ec] /\ EDist[Top.ec] <= Top.depth + 1
      /\ bit \in Mask(Top.ec, EDist[Top.ec], Top.depth)
  BY <1>5, <1>6 DEF Called
<1>8. /\ NextPrune(Top.ec, EDist[Top.ec], bit) = EDist[EMove[Top.ec][m]]
      /\ EDist[EMove[Top.ec][m]] <= Top.depth
  BY <1>3, <1>5, <1>7, MasksExact
<1>9. m \in Move /\ EDist[EMove[Top.ec][m]] \in Nat
  BY <1>3, <1>5, RealMoves
<1>10. EMove[Top.ec][m] \in Edge /\ CMove[Top.cc][m] \in Corner
  BY <1>3, <1>9, MoveAssumption
<1>11. QED
  BY <1>1, <1>2, <1>5, <1>7, <1>8, <1>9, <1>10 DEF bit

LEMMA TopCalled ==
  ASSUME Types, Calls, stack # << >>
  PROVE  /\ Called(ec0, moves, search_depth, Len(stack), Top, Left(Top, pc # "enter"))
         /\ Top \in Node /\ Len(stack) \in Nat \ {0} /\ Len(stack) \in 1 .. Len(stack)
<1>1. stack \in Seq(Node)
  BY DEF Types
<1>2. Top \in Node /\ Len(stack) \in Nat \ {0} /\ Len(stack) \in 1 .. Len(stack)
  BY <1>1, StackParts
<1>3. Called(ec0, moves, search_depth, Len(stack), stack[Len(stack)],
             Left(stack[Len(stack)], Entered(Len(stack))))
  BY <1>2 DEF Calls
<1>4. Entered(Len(stack)) <=> pc # "enter"
  BY DEF Entered
<1>5. QED
  BY <1>2, <1>3, <1>4 DEF Top, Left

LEMMA TypesKept ==
  ASSUME Types, Calls, [Next]_vars
  PROVE  Types'
<1> USE DEF Types
<1>0. stack \in Seq(Node) /\ moves \in Seq(Move) /\ search_depth \in Nat /\ ec0 \in Edge
  BY SeedsOfPass
<1>1. CASE Signal
  BY <1>1 DEF Signal, handle, impl, SeedsNow
<1>2. CASE NextSeed
  <2> DEFINE seed == SeedsNow[seed_idx + 1]
             remaining == search_depth - Len(seed.moves)
             node == [ec |-> seed.x[1], cc |-> seed.x[2], depth |-> remaining,
                      prune |-> EDist[seed.x[1]], last_axis |-> seed.last_axis, mask |-> {}]
  <2>1. seed_idx \in Nat /\ seed_idx + 1 \in 1 .. Len(SeedsNow)
    BY <1>2, SeedsOfPass DEF NextSeed
  <2>2. seed \in SeedRecord /\ IsSeed(ec0, SeedLen(search_depth), seed)
    BY <2>1, SeedsOfPass
  <2>3. /\ seed.x[1] \in Edge /\ seed.x[2] \in Corner /\ seed.last_axis \in Int
        /\ seed.moves \in Seq(Move) /\ Len(seed.moves) = SeedLen(search_depth)
    BY <2>2 DEF SeedRecord, State, IsSeed
  <2>4. remaining \in Nat /\ EDist[seed.x[1]] \in Nat
    BY <1>0, <2>3, SeedLenIs, MoveAssumption
  <2>5. node \in Node
    BY <2>3, <2>4 DEF Node
  <2> HIDE DEF node
  <2>6. <<node>> \in Seq(Node)
    BY <2>5
  <2>7. /\ stack' = stack \/ stack' = <<node>>
        /\ moves' = moves \/ moves' = seed.moves
        /\ pc' = pc \/ pc' = "enter"
        /\ seed_idx' = seed_idx + 1
        /\ UNCHANGED <<fixed, proven_min, terminated, search_depth>>
    BY <1>2 DEF NextSeed, node
  <2>8. stack' \in Seq(Node) /\ moves' \in Seq(Move)
    BY <1>0, <2>3, <2>6, <2>7
  <2>9. seed_idx' \in 0 .. Len(SeedsNow') /\ SeedsNow' = SeedsNow
    BY <2>1, <2>7, SeedsOfPass DEF SeedsNow, fixed
  <2>10. QED
    BY <2>7, <2>8, <2>9 DEF fixed
<1>3. CASE EndPass
  <2>1. search_depth' = search_depth + 1 /\ proven_min' = search_depth + 1
    BY <1>0, <1>3 DEF EndPass, Deeper
  <2>2. ec0' = ec0 /\ seeds' = seeds /\ seed_idx' = 0
    BY <1>3 DEF EndPass, fixed
  <2>3. Len(SeedsNow') \in Nat
    <3>0. search_depth + 1 \in Nat
      BY <1>0
    <3>1. SeedLen(search_depth + 1) \in 0 .. SeedDepth
      BY <3>0, SeedLenIs
    <3>2. SeedsNow' = SeedsOf(ec0, SeedLen(search_depth + 1))
      BY <2>1, <2>2, <3>1 DEF SeedsNow, SeedLen, FindSeeds, SeedsOf
    <3>3. QED
      BY <1>0, <3>1, <3>2, SeedsPlayed, LenProperties
  <2>4. seed_idx' \in 0 .. Len(SeedsNow')
    BY <2>2, <2>3
  <2>5. QED
    BY <1>0, <1>3, <2>1, <2>2, <2>4 DEF EndPass, fixed
<1>4. CASE Enter
  <2>1. stack # << >> /\ pc = "enter"
    BY <1>4 DEF Enter, Calls
  <2>2. Called(ec0, moves, search_depth, Len(stack), Top, Top.depth) /\ Top \in Node
    BY <2>1, TopCalled DEF Left
  <2>3. Top.depth - 1 \in Nat
    BY <2>2 DEF Called, Node
  <2> DEFINE mask == Mask(Top.ec, Top.prune, Top.depth - 1)
             node == [Top EXCEPT !.depth = Top.depth - 1, !.mask = mask]
  <2>4. mask \subseteq Move
    BY MasksAreMoves
  <2> HIDE DEF mask
  <2>5. node \in Node
    BY <2>2, <2>3, <2>4 DEF Node
  <2>6. [stack EXCEPT ![Len(stack)].depth = Top.depth - 1, ![Len(stack)].mask = mask]
          = [stack EXCEPT ![Len(stack)] = node]
    BY <1>0, <2>1, TopCalled DEF Top
  <2> HIDE DEF node
  <2>7. [stack EXCEPT ![Len(stack)] = node] \in Seq(Node)
    BY <1>0, <2>1, <2>5, TopCalled
  <2>8. Append(moves, 0) \in Seq(Move)
    BY <1>0, Constants
  <2>9. Pop \in Seq(Node)
    BY <1>0, <2>1, StackParts
  <2>10. stack' \in Seq(Node) /\ moves' \in Seq(Move)
    BY <1>0, <1>4, <2>6, <2>7, <2>8, <2>9 DEF Enter, mask
  <2>11. QED
    BY <1>4, <2>10 DEF Enter, handle, SeedsNow
<1>5. CASE NextMove
  <2> DEFINE bit == CHOOSE m \in Top.mask : \A n \in Top.mask : m <= n
             m == RealMove(Top.ec, bit)
             rest == WithMask(Top.mask \ {bit})
             with_m == [moves EXCEPT ![Len(moves)] = m]
             child == [ec |-> EMove[Top.ec][m], cc |-> CMove[Top.cc][m], depth |-> Top.depth,
                       prune |-> NextPrune(Top.ec, Top.prune, bit), last_axis |-> Face[m],
                       mask |-> {}]
  <2>1. pc = "loop" /\ Top.mask # {} /\ stack # << >>
    BY <1>5 DEF NextMove, Calls
  <2>2. /\ m \in Move /\ Top \in Node
        /\ NextPrune(Top.ec, Top.prune, bit) \in Nat
        /\ EMove[Top.ec][m] \in Edge /\ CMove[Top.cc][m] \in Corner
    BY <2>1, MoveFits
  <2>3. child \in Node
    <3>1. Face[m] \in Nat /\ Top.depth \in Nat
      BY <2>2, ParameterAssumption DEF Node
    <3>2. QED
      BY <2>2, <3>1 DEF Node
  <2>4. with_m \in Seq(Move)
    <3>1. ASSUME NEW k \in Move
          PROVE  [moves EXCEPT ![Len(moves)] = k] \in Seq(Move)
      <4>1. Len(moves) \in 1 .. Len(moves)
        <5>1. Len(moves) = SeedLen(search_depth) + Len(stack)
          BY <2>1 DEF Calls
        <5>2. SeedLen(search_depth) \in Nat /\ Len(stack) \in Nat \ {0}
          BY <1>0, <2>1, SeedLenIs, TopCalled
        <5>3. QED
          BY <5>1, <5>2
      <4>2. QED
        BY <1>0, <4>1
    <3> HIDE DEF m
    <3>2. QED
      BY <2>2, <3>1
  <2>5. rest \in Seq(Node) /\ WithMask({}) \in Seq(Node)
    <3>1. Top.mask \ {bit} \in SUBSET Move
      BY <2>2 DEF Node
    <3>2. QED
      BY <1>0, <2>1, <3>1, MaskChanged
  <2> HIDE DEF rest, child, with_m
  <2>6. Append(rest, child) \in Seq(Node)
    BY <2>3, <2>5
  <2>7. /\ stack' = rest \/ stack' = WithMask({}) \/ stack' = Append(rest, child)
        /\ moves' = moves \/ moves' = with_m
        /\ pc' = pc \/ pc' = "enter"
        /\ UNCHANGED <<fixed, proven_min, terminated, search_depth, seed_idx>>
    BY <1>5 DEF NextMove, rest, child, with_m
  <2>8. stack' \in Seq(Node) /\ moves' \in Seq(Move)
    BY <1>0, <2>4, <2>5, <2>6, <2>7
  <2>9. QED
    BY <2>7, <2>8 DEF fixed, SeedsNow
<1>6. CASE EndSearch
  <2>1. stack # << >>
    BY <1>6 DEF EndSearch, Calls
  <2>2. Pop \in Seq(Node)
    BY <1>0, <2>1, StackParts
  <2>3. SubSeq(moves, 1, Len(moves) - 1) \in Seq(Move)
    <3>1. Len(moves) \in Nat
      BY <1>0, LenProperties
    <3>2. QED
      BY <1>0, <3>1, SubSeqProperties
  <2>4. QED
    BY <1>6, <2>2, <2>3 DEF EndSearch, handle, SeedsNow
<1>7. CASE Back
  <2>1. stack' \in Seq(Node)
    <3>1. stack # << >> => WithMask({}) \in Seq(Node)
      BY <1>0, MaskChanged
    <3>2. QED
      BY <1>0, <1>7, <3>1 DEF Back
  <2>2. QED
    BY <1>7, <2>1 DEF Back, handle, SeedsNow
<1>8. CASE UNCHANGED vars
  BY <1>8 DEF vars, handle, impl, SeedsNow
<1>9. QED
  BY <1>1, <1>2, <1>3, <1>4, <1>5, <1>6, <1>7, <1>8 DEF Next, Step

-----------------------------------------------------------------------------
(* What is recorded.                                                       *)

(* A sequence of search_depth moves that solves the edges records optimal  *)
(* lengths: its cube was not solved in fewer.                              *)
LEMMA Recorded ==
  ASSUME Types, Records, NEW cc \in Corner, NEW mv \in Seq(Move),
         Len(mv) = search_depth,
         Played(StartCube(ec0), mv)[Len(mv)] = Target(cc),
         Candidate(cc, mv), UNCHANGED <<ec0, proven_min>>
  PROVE  /\ Records' /\ Open' \subseteq Open
         /\ \A c \in Open' : cc \notin OrbitOf(ec0, c)
<1> USE DEF Types
<1>0. ec0 \in Edge /\ search_depth \in Nat /\ proven_min = search_depth
  BY SeedsOfPass
<1>1. CASE Hash[cc] \notin Open \/ cc \notin Involution
  <2>1. UNCHANGED <<length, cpr, threshold>>
    BY <1>1 DEF Candidate
  <2>2. Open' = Open /\ Records'
    BY <2>1 DEF Open, Records, OptimalLengths, BoundIsProven
  <2>3. ASSUME NEW c \in Open, cc \in OrbitOf(ec0, c)
        PROVE  FALSE
    <3>1. cc \in Open /\ cc \in Involution
      BY <2>3, OpenCubes
    <3>2. QED
      BY <1>1, <3>1, InvolutionAssumption
  <2>4. QED
    BY <2>2, <2>3
<1>2. CASE ~ (Hash[cc] \notin Open \/ cc \notin Involution)
  <2> DEFINE orbit == OrbitOf(ec0, cc)
             open == Open \ orbit
  <2>1. cc \in Open
    BY <1>2, InvolutionAssumption
  <2>2. /\ cc \in orbit
        /\ \A d \in orbit : cc \in OrbitOf(ec0, d) /\ OrbitOf(ec0, d) \subseteq orbit
    BY <1>0, Orbits
  <2>3. Play(Home, mv)[2] = cc
    <3>1. Home[2] = StartCube(ec0)[2] /\ Len(mv) \in 0 .. Len(mv)
      BY <1>0 DEF StartCube
    <3>2. Played(Home, mv)[Len(mv)][2] = Played(StartCube(ec0), mv)[Len(mv)][2]
      BY <3>1, PlayedCorners
    <3>3. QED
      BY <3>2 DEF Play, Target
  <2>4. /\ length' = [d \in DOMAIN length |-> IF d \in Open \ open THEN Len(mv) ELSE length[d]]
        /\ cpr' = cpr \/ cpr' = open
    BY <1>2, <2>3 DEF Candidate
  <2>5. Open \ open = Open \cap orbit
    OBVIOUS
  <2>6. \A d \in Open \cap orbit : Len(mv) = Dist[<<ec0, d>>]
    <3>1. TAKE d \in Open \cap orbit
    <3>2. StartCube(ec0) \in State /\ Target(cc) \in State /\ Len(mv) \in 0 .. Len(mv)
      BY <1>0, Constants DEF StartCube, State, Target
    <3>3. Near(Played(StartCube(ec0), mv)[Len(mv)], Target(cc), 0)
      BY <3>2, NearNothing
    <3>4. Near(StartCube(ec0), Target(cc), Len(mv))
      <4>1. \A i \in 0 .. Len(mv), n \in Nat :
              Near(Played(StartCube(ec0), mv)[i], Target(cc), n) =>
                Near(StartCube(ec0), Target(cc), i + n)
        BY <3>2, NearPlayed
      <4>2. Near(StartCube(ec0), Target(cc), Len(mv) + 0)
        BY <3>2, <3>3, <4>1
      <4>3. Len(mv) + 0 = Len(mv)
        BY <1>0
      <4>4. QED
        BY <4>2, <4>3
    <3>5. Near(StartCube(ec0), Target(d), Len(mv))
      BY <1>0, <3>4, OrbitNear
    <3>6. d \in CornersOf(ec0) /\ Dist[<<ec0, d>>] \in Nat /\ proven_min <= Dist[<<ec0, d>>]
      BY OpenCubes
    <3>7. Dist[<<ec0, d>>] <= Len(mv)
      BY <1>0, <3>5, <3>6, CosetDist
    <3>8. QED
      BY <1>0, <3>6, <3>7
  <2> HIDE DEF orbit
  <2>7. Open' = open
    <3>1. DOMAIN length' = DOMAIN length
      BY <2>4
    <3>2. \A d \in DOMAIN length : length'[d] = IF d \in Open \cap orbit THEN Len(mv) ELSE length[d]
      BY <2>4, <2>5
    <3>3. Len(mv) # Unsolved
      BY <1>0, ParameterAssumption
    <3>4. \A d \in DOMAIN length : length'[d] = Unsolved <=> d \in Open /\ d \notin orbit
      BY <3>2, <3>3 DEF Open
    <3>5. QED
      BY <3>1, <3>4 DEF Open
  <2>8. length' \in [CornersOf(ec0') -> Nat \union {Unsolved}]
    BY <1>0, <2>4 DEF Records
  <2>9. OptimalLengths'
    <3>1. \A c \in DOMAIN length : length'[c] \in {Unsolved, Dist[<<ec0, c>>]}
      <4>1. TAKE c \in DOMAIN length
      <4>2. length[c] \in {Unsolved, Dist[<<ec0, c>>]}
        BY DEF Records, OptimalLengths
      <4>3. QED
        BY <2>4, <2>5, <2>6, <4>2
    <3>2. QED
      BY <2>4, <3>1 DEF OptimalLengths
  <2>10. BoundIsProven'
    BY <2>7 DEF Records, BoundIsProven
  <2>11. ASSUME NEW c \in open, NEW d \in OrbitOf(ec0, c)
         PROVE  d \in open
    <3>1. c \in Open /\ c \in Corner /\ d \in Open
      BY OpenCubes
    <3>2. c \in OrbitOf(ec0, d)
      BY <1>0, <3>1, Orbits
    <3>3. d \notin orbit
      BY <2>2, <2>11, <3>2
    <3>4. QED
      BY <3>1, <3>3
  <2>12. open \subseteq cpr'
    BY <2>4 DEF Records
  <2>13. Records'
    BY <2>7, <2>8, <2>9, <2>10, <2>11, <2>12 DEF Records
  <2>14. \A c \in open : cc \notin OrbitOf(ec0, c)
    BY <2>2, <2>11
  <2>15. QED
    BY <2>7, <2>13, <2>14
<1>3. QED
  BY <1>1, <1>2

(* The two places where a candidate is found.                              *)
LEMMA SeedCandidate ==
  ASSUME Types, pc = "pass", seed_idx < Len(SeedsNow),
         LET seed == SeedsNow[seed_idx + 1]
             remaining == search_depth - Len(seed.moves) IN
         remaining >= EDist[seed.x[1]] /\ remaining = 0
  PROVE  LET seed == SeedsNow[seed_idx + 1] IN
         /\ seed.x[2] \in Corner /\ seed.moves \in Seq(Move) /\ Len(seed.moves) = search_depth
         /\ seed.x = Target(seed.x[2])
         /\ Played(StartCube(ec0), seed.moves)[Len(seed.moves)] = Target(seed.x[2])
<1> DEFINE seed == SeedsNow[seed_idx + 1]
<1>1. seed_idx + 1 \in 1 .. Len(SeedsNow)
  BY SeedsOfPass DEF Types
<1>2. seed \in SeedRecord /\ IsSeed(ec0, SeedLen(search_depth), seed)
  BY <1>1, SeedsOfPass
<1> HIDE DEF seed
<1>3. /\ seed.x \in State /\ seed.moves \in Seq(Move)
      /\ Len(seed.moves) = SeedLen(search_depth) /\ Len(seed.moves) \in Nat
      /\ seed.x = Played(StartCube(ec0), seed.moves)[Len(seed.moves)]
  BY <1>2, LenProperties DEF SeedRecord, IsSeed
<1>4. seed.x[1] \in Edge /\ seed.x[2] \in Corner /\ seed.x = <<seed.x[1], seed.x[2]>>
  BY <1>3 DEF State
<1>5. Len(seed.moves) = search_depth /\ EDist[seed.x[1]] <= 0
  BY <1>3, SeedsOfPass DEF seed
<1>6. EDist[seed.x[1]] \in Nat /\ (EDist[seed.x[1]] = 0 <=> seed.x[1] = Home[1])
  BY <1>4, MoveAssumption
<1>7. seed.x[1] = Home[1]
  BY <1>5, <1>6
<1>8. QED
  BY <1>3, <1>4, <1>5, <1>7 DEF seed, Target

LEMMA MoveCandidate ==
  ASSUME Types, Calls, pc = "loop", Top.mask # {}, Top.depth = 0
  PROVE  LET bit == CHOOSE m \in Top.mask : \A n \in Top.mask : m <= n
             m == RealMove(Top.ec, bit)
             with_m == [moves EXCEPT ![Len(moves)] = m] IN
         /\ CMove[Top.cc][m] \in Corner /\ with_m \in Seq(Move) /\ Len(with_m) = search_depth
         /\ MoveCube(<<Top.ec, Top.cc>>, m) = Target(CMove[Top.cc][m])
         /\ Played(StartCube(ec0), with_m)[Len(with_m)] = Target(CMove[Top.cc][m])
<1> DEFINE bit == CHOOSE m \in Top.mask : \A n \in Top.mask : m <= n
           m == RealMove(Top.ec, bit)
           with_m == [moves EXCEPT ![Len(moves)] = m]
<1>1. /\ m \in Move /\ stack # << >>
      /\ EDist[EMove[Top.ec][m]] \in Nat /\ EDist[EMove[Top.ec][m]] <= 0
      /\ EMove[Top.ec][m] \in Edge /\ CMove[Top.cc][m] \in Corner
  BY MoveFits
<1> HIDE DEF m
<1>2. EMove[Top.ec][m] = Home[1]
  <2>1. EDist[EMove[Top.ec][m]] = 0
    BY <1>1
  <2>2. QED
    BY <1>1, <2>1, MoveAssumption
<1>3. MoveCube(<<Top.ec, Top.cc>>, m) = Target(CMove[Top.cc][m])
  BY <1>2 DEF MoveCube, Target
<1>4. Called(ec0, moves, search_depth, Len(stack), Top, 1)
  BY <1>1, TopCalled DEF Left
<1>5. /\ 1 = search_depth - SeedLen(search_depth) + 1 - Len(stack)
      /\ <<Top.ec, Top.cc>> = Played(StartCube(ec0), moves)[search_depth - 1]
  BY <1>4 DEF Called
<1>6. /\ search_depth \in Nat /\ SeedLen(search_depth) \in Nat /\ Len(stack) \in Nat \ {0}
      /\ moves \in Seq(Move)
  BY <1>1, SeedsOfPass, SeedLenIs, TopCalled DEF Types
<1>7. Len(moves) = search_depth /\ search_depth \in 1 .. Len(moves) /\ search_depth - 1 \in Nat
  BY <1>5, <1>6 DEF Calls
<1>8. /\ with_m \in Seq(Move) /\ Len(with_m) = search_depth /\ with_m[search_depth] = m
      /\ \A i \in 1 .. search_depth - 1 : with_m[i] = moves[i]
  BY <1>1, <1>6, <1>7
<1> HIDE DEF with_m
<1>9. Played(StartCube(ec0), with_m)[search_depth - 1] = <<Top.ec, Top.cc>>
  <2>1. \A i \in 0 .. search_depth - 1 :
          Played(StartCube(ec0), moves)[i] = Played(StartCube(ec0), with_m)[i]
    BY <1>6, <1>7, <1>8, PlayedPrefix
  <2>2. QED
    BY <1>5, <1>7, <2>1
<1>10. Played(StartCube(ec0), with_m)[search_depth]
         = MoveCube(Played(StartCube(ec0), with_m)[search_depth - 1], m)
  BY <1>7, <1>8, PlayedSteps
<1>11. QED
  BY <1>1, <1>3, <1>8, <1>9, <1>10 DEF m, with_m

(* At the end of a pass nothing is ahead any more: the next bound is true. *)
LEMMA PassProves ==
  ASSUME Types, Records, Calls, Complete, pc = "pass", seed_idx = Len(SeedsNow)
  PROVE  \A c \in Open : search_depth + 1 <= Dist[<<ec0, c>>]
<1>1. TAKE c \in Open
<1>2. Dist[<<ec0, c>>] \in Nat /\ search_depth <= Dist[<<ec0, c>>] /\ search_depth \in Nat
  BY OpenCubes DEF Types
<1>3. Dist[<<ec0, c>>] # search_depth
  <2>1. SUFFICES ASSUME Dist[<<ec0, c>>] = search_depth
                 PROVE  FALSE
    OBVIOUS
  <2>2. Ahead(c)
    BY <2>1 DEF Complete, Whole
  <2>3. stack = << >> /\ Len(stack) = 0
    BY EmptySeq DEF Calls
  <2>4. seed_idx + 1 .. Len(SeedsNow) = {} /\ 1 .. Len(stack) = {}
    BY <2>3, SeedsOfPass
  <2>5. QED
    BY <2>2, <2>4 DEF Ahead
<1>4. QED
  BY <1>2, <1>3

LEMMA RecordsKept ==
  ASSUME Types, Records, Calls, Complete, [Next]_vars
  PROVE  Records' /\ Open' \subseteq Open
<1>1. ASSUME UNCHANGED <<ec0, length, cpr, proven_min>>
      PROVE  Records' /\ Open' \subseteq Open
  BY <1>1 DEF Records, Open, OptimalLengths, BoundIsProven
<1>2. CASE NextSeed
  <2> DEFINE seed == SeedsNow[seed_idx + 1]
             remaining == search_depth - Len(seed.moves)
  <2>1. /\ pc = "pass" /\ seed_idx < Len(SeedsNow) /\ UNCHANGED <<ec0, proven_min>>
        /\ \/ UNCHANGED <<length, cpr>>
           \/ /\ remaining >= EDist[seed.x[1]] /\ remaining = 0
              /\ Candidate(seed.x[2], seed.moves)
    BY <1>2 DEF NextSeed, fixed
  <2>2. CASE UNCHANGED <<length, cpr>>
    BY <1>1, <2>1, <2>2
  <2>3. CASE /\ remaining >= EDist[seed.x[1]] /\ remaining = 0
             /\ Candidate(seed.x[2], seed.moves)
    <3>1. /\ seed.x[2] \in Corner /\ seed.moves \in Seq(Move) /\ Len(seed.moves) = search_depth
          /\ Played(StartCube(ec0), seed.moves)[Len(seed.moves)] = Target(seed.x[2])
      BY <2>1, <2>3, SeedCandidate
    <3> HIDE DEF seed
    <3>2. QED
      BY <2>1, <2>3, <3>1, Recorded
  <2>4. QED
    BY <2>1, <2>2, <2>3
<1>3. CASE EndPass
  <2>1. /\ pc = "pass" /\ seed_idx = Len(SeedsNow)
        /\ UNCHANGED <<ec0, length, cpr>> /\ proven_min' = search_depth + 1
    BY <1>3, SeedsOfPass DEF EndPass, fixed, Types
  <2>2. Open' = Open /\ BoundIsProven'
    BY <2>1, PassProves DEF BoundIsProven, Open
  <2>3. QED
    BY <2>1, <2>2 DEF Records, OptimalLengths
<1>4. CASE NextMove
  <2> DEFINE bit == CHOOSE m \in Top.mask : \A n \in Top.mask : m <= n
             m == RealMove(Top.ec, bit)
             with_m == [moves EXCEPT ![Len(moves)] = m]
  <2>1. /\ pc = "loop" /\ Top.mask # {} /\ UNCHANGED <<ec0, proven_min>>
        /\ \/ UNCHANGED <<length, cpr>>
           \/ Top.depth = 0 /\ Candidate(CMove[Top.cc][m], with_m)
    BY <1>4 DEF NextMove, fixed
  <2>2. CASE UNCHANGED <<length, cpr>>
    BY <1>1, <2>1, <2>2
  <2>3. CASE Top.depth = 0 /\ Candidate(CMove[Top.cc][m], with_m)
    <3>1. /\ CMove[Top.cc][m] \in Corner /\ with_m \in Seq(Move) /\ Len(with_m) = search_depth
          /\ Played(StartCube(ec0), with_m)[Len(with_m)] = Target(CMove[Top.cc][m])
      BY <2>1, <2>3, MoveCandidate
    <3> HIDE DEF m, with_m
    <3>2. QED
      BY <2>1, <2>3, <3>1, Recorded
  <2>4. QED
    BY <2>1, <2>2, <2>3
<1>5. CASE Signal \/ Enter \/ EndSearch \/ Back \/ UNCHANGED vars
  BY <1>1, <1>5 DEF Signal, Enter, EndSearch, Back, vars, handle, impl
<1>6. QED
  BY <1>2, <1>3, <1>4, <1>5 DEF Next, Step

-----------------------------------------------------------------------------
(* What a call of search was given.                                        *)

(* It does not change with the moves after its own, nor as moves leave its *)
(* mask.                                                                   *)
LEMMA CallKept ==
  ASSUME NEW e, NEW mv \in Seq(Move), NEW nv \in Seq(Move),
         NEW n \in Nat, NEW i \in Nat \ {0}, NEW node, NEW left,
         Called(e, mv, n, i, node, left),
         SeedLen(n) + i - 1 <= Len(mv), SeedLen(n) + i - 1 <= Len(nv),
         \A j \in 1 .. SeedLen(n) + i - 1 : mv[j] = nv[j],
         NEW new, new.ec = node.ec, new.cc = node.cc, new.depth = node.depth,
         new.prune = node.prune, new.mask \subseteq node.mask
  PROVE  Called(e, nv, n, i, new, left)
<1> DEFINE k == SeedLen(n) + i - 1
<1>1. SeedLen(n) \in Nat
  BY SeedLenIs
<1>2. k \in Nat /\ n - left = k
  BY <1>1 DEF Called
<1>3. k <= Len(mv) /\ k <= Len(nv) /\ \A j \in 1 .. k : mv[j] = nv[j]
  OBVIOUS
<1> HIDE DEF k
<1>6. \A a \in 0 .. k : Played(StartCube(e), mv)[a] = Played(StartCube(e), nv)[a]
  BY <1>2, <1>3, PlayedPrefix
<1>4. Played(StartCube(e), mv)[n - left] = Played(StartCube(e), nv)[n - left]
  BY <1>2, <1>6
<1>5. QED
  BY <1>4 DEF Called

LEMMA CallsKept ==
  ASSUME Types, Records, Calls, [Next]_vars
  PROVE  Calls'
<1> DEFINE K == SeedLen(search_depth)
           L == Len(stack)
           N == Len(moves)
<1>0. /\ stack \in Seq(Node) /\ moves \in Seq(Move) /\ search_depth \in Nat
      /\ L \in Nat /\ N \in Nat /\ K \in Nat
  BY SeedsOfPass, SeedLenIs, LenProperties DEF Types
<1>1. CASE Signal
  BY <1>1 DEF Signal, handle, impl, Calls, Entered
<1>2. CASE NextSeed
  <2> DEFINE seed == SeedsNow[seed_idx + 1]
             remaining == search_depth - Len(seed.moves)
             node == [ec |-> seed.x[1], cc |-> seed.x[2], depth |-> remaining,
                      prune |-> EDist[seed.x[1]], last_axis |-> seed.last_axis, mask |-> {}]
  <2>1. /\ pc = "pass" /\ stack = << >> /\ UNCHANGED <<ec0, search_depth>>
        /\ \/ pc' = pc /\ stack' = stack
           \/ /\ remaining >= EDist[seed.x[1]] /\ remaining > 0
              /\ pc' = "enter" /\ stack' = <<node>> /\ moves' = seed.moves
    BY <1>2 DEF NextSeed, fixed, Calls
  <2>2. CASE pc' = pc /\ stack' = stack
    <3>1. Len(stack') = 0
      BY <2>1, <2>2, EmptySeq
    <3>2. QED
      BY <2>1, <2>2, <3>1 DEF Calls
  <2>3. CASE /\ remaining >= EDist[seed.x[1]] /\ remaining > 0
             /\ pc' = "enter" /\ stack' = <<node>> /\ moves' = seed.moves
    <3>1. seed_idx + 1 \in 1 .. Len(SeedsNow)
      BY <1>2, SeedsOfPass DEF NextSeed, Types
    <3>2. seed \in SeedRecord /\ IsSeed(ec0, K, seed)
      BY <3>1, SeedsOfPass
    <3>3. /\ seed.x = <<seed.x[1], seed.x[2]>> /\ Len(seed.moves) = K
          /\ seed.x = Played(StartCube(ec0), seed.moves)[K]
      BY <3>2 DEF SeedRecord, State, IsSeed
    <3> HIDE DEF seed, K
    <3>4. remaining \in Nat \ {0} /\ remaining = search_depth - K + 1 - 1
          /\ search_depth - remaining = K
      BY <1>0, <2>3, <3>3
    <3>5. Called(ec0, seed.moves, search_depth, 1, node, remaining)
      <4>1. EDist[seed.x[1]] <= remaining
        BY <2>3
      <4>2. QED
        BY <3>3, <3>4, <4>1 DEF Called, K
    <3> HIDE DEF node, remaining
    <3>6. Len(stack') = 1 /\ stack'[1] = node /\ stack' # << >>
      BY <2>3
    <3>7. node.depth = remaining
      BY DEF node
    <3>8. \A i \in 1 .. Len(stack') :
            Called(ec0', moves', search_depth', i, stack'[i], Left(stack'[i], Entered(i)'))
      <4>1. TAKE i \in 1 .. Len(stack')
      <4>2. i = 1 /\ Entered(i)' = FALSE
        BY <2>3, <3>6 DEF Entered
      <4>3. QED
        BY <2>1, <2>3, <3>5, <3>6, <3>7, <4>2 DEF Left
    <3>9. Len(moves') + 1 = SeedLen(search_depth') + Len(stack')
      BY <1>0, <2>1, <2>3, <3>3, <3>6 DEF K
    <3>10. QED
      BY <2>3, <3>6, <3>8, <3>9 DEF Calls
  <2>4. QED
    BY <2>1, <2>2, <2>3
<1>3. CASE EndPass
  <2>1. stack' = << >> /\ Len(stack') = 0 /\ pc' \in {"pass", "done"}
    BY <1>3, EmptySeq DEF EndPass, Calls
  <2>2. QED
    BY <2>1 DEF Calls
<1>8. CASE UNCHANGED vars
  BY <1>8 DEF vars, handle, impl, Calls, Entered
<1> HIDE DEF L, N, K
(* The call on top changes its mask or returns, or calls another.          *)
<1>9. ASSUME stack # << >>, UNCHANGED <<ec0, search_depth>>,
             NEW nv \in Seq(Move), moves' = nv,
             K + L - 1 <= N, K + L - 1 <= Len(nv),
             \A i \in 1 .. K + L - 1 : nv[i] = moves[i]
      PROVE  \A i \in 1 .. L : \A new :
               /\ new.ec = stack[i].ec /\ new.cc = stack[i].cc /\ new.depth = stack[i].depth
               /\ new.prune = stack[i].prune /\ new.mask \subseteq stack[i].mask
               => Called(ec0', moves', search_depth', i, new, Left(stack[i], Entered(i)))
  <2>1. TAKE i \in 1 .. L
  <2>2. TAKE new
  <2>3. HAVE /\ new.ec = stack[i].ec /\ new.cc = stack[i].cc /\ new.depth = stack[i].depth
             /\ new.prune = stack[i].prune /\ new.mask \subseteq stack[i].mask
  <2>4. Called(ec0, moves, search_depth, i, stack[i], Left(stack[i], Entered(i)))
    BY DEF Calls, L
  <2>5. /\ i \in Nat \ {0} /\ K + i - 1 <= N /\ K + i - 1 <= Len(nv)
        /\ \A j \in 1 .. K + i - 1 : moves[j] = nv[j]
    <3>1. Len(nv) \in Nat
      BY LenProperties
    <3>2. QED
      BY <1>0, <1>9, <3>1
  <2>6. Called(ec0, nv, search_depth, i, new, Left(stack[i], Entered(i)))
    BY <1>0, <2>3, <2>4, <2>5, CallKept DEF K, N
  <2>7. QED
    BY <1>9, <2>6
<1>4. CASE Enter
  <2>1. /\ pc = "enter" /\ stack # << >> /\ UNCHANGED <<ec0, search_depth>>
        /\ N + 1 = K + L /\ L \in Nat \ {0} /\ L \in 1 .. L
    BY <1>4, TopCalled DEF Enter, Calls, handle, L, N, K
  <2>2. \A i \in 1 .. L - 1 : Entered(i) = TRUE
    BY <1>0, <2>1 DEF Entered, L
  <2>3. CASE stack' = Pop /\ pc' = "back" /\ moves' = moves
    <3>1. Len(Pop) = L - 1 /\ \A i \in 1 .. L - 1 : Pop[i] = stack[i]
      BY <1>0, <2>1, StackParts DEF L
    <3>2. \A i \in 1 .. Len(stack') :
            Called(ec0', moves', search_depth', i, stack'[i], Left(stack'[i], Entered(i)'))
      <4>1. TAKE i \in 1 .. Len(stack')
      <4>2. /\ i \in 1 .. L - 1 /\ i \in 1 .. L /\ Entered(i)' = TRUE /\ Entered(i) = TRUE
            /\ stack'[i] = stack[i]
        BY <1>0, <2>2, <2>3, <3>1 DEF Entered
      <4>3. K + L - 1 <= N
        BY <1>0, <2>1
      <4>4. Called(ec0', moves', search_depth', i, stack[i], Left(stack[i], Entered(i)))
        BY <1>0, <1>9, <2>1, <2>3, <4>2, <4>3 DEF N
      <4>5. QED
        BY <4>2, <4>4
    <3>3. Len(moves') = SeedLen(search_depth') + Len(stack')
      BY <1>0, <2>1, <2>3, <3>1 DEF K, N
    <3>4. QED
      BY <2>3, <3>2, <3>3 DEF Calls
  <2> DEFINE mask == Mask(Top.ec, Top.prune, Top.depth - 1)
  <2>4. CASE /\ stack' = [stack EXCEPT ![Len(stack)].depth = Top.depth - 1,
                                       ![Len(stack)].mask = mask]
             /\ moves' = Append(moves, 0) /\ pc' = "loop"
    <3> DEFINE new == [Top EXCEPT !.depth = Top.depth - 1, !.mask = mask]
    <3>1. /\ Called(ec0, moves, search_depth, L, Top, Top.depth) /\ Top \in Node
      BY <2>1, TopCalled DEF Left, L
    <3> HIDE DEF mask
    <3>2. /\ new.ec = Top.ec /\ new.cc = Top.cc /\ new.prune = Top.prune
          /\ new.depth = Top.depth - 1 /\ new.mask = mask
          /\ Top.depth \in Nat /\ Top.depth - 1 \in Nat /\ new.depth + 1 = Top.depth
      BY <3>1 DEF Node, Called
    <3>3. stack' = [stack EXCEPT ![L] = new]
      BY <1>0, <2>1, <2>4 DEF Top, L
    <3> HIDE DEF new
    <3>4. /\ Len(stack') = L /\ stack'[L] = new /\ stack' # << >>
          /\ \A i \in 1 .. L - 1 : stack'[i] = stack[i]
      BY <1>0, <2>1, <3>3 DEF L
    <3>5. /\ moves' \in Seq(Move) /\ Len(moves') = N + 1
          /\ \A i \in 1 .. N : moves'[i] = moves[i]
      BY <1>0, <2>4, Constants DEF N
    <3>6. Called(ec0, moves, search_depth, L, new, Top.depth)
      BY <3>1, <3>2 DEF Called, mask
    <3>7. /\ K + L - 1 <= N /\ K + L - 1 <= Len(moves') /\ L \in Nat \ {0}
          /\ \A i \in 1 .. K + L - 1 : moves'[i] = moves[i]
      BY <1>0, <2>1, <3>5
    <3>8. Called(ec0', moves', search_depth', L, new, Top.depth)
      <4>1. PICK nv \in Seq(Move) : nv = moves'
        BY <3>5
      <4>2. \A j \in 1 .. K + L - 1 : moves[j] = nv[j]
        BY <3>7, <4>1
      <4>3. Called(ec0, nv, search_depth, L, new, Top.depth)
        BY <1>0, <3>6, <3>7, <4>1, <4>2, CallKept DEF K, N
      <4>4. QED
        BY <2>1, <4>1, <4>3
    <3>9. \A i \in 1 .. Len(stack') :
            Called(ec0', moves', search_depth', i, stack'[i], Left(stack'[i], Entered(i)'))
      <4>1. TAKE i \in 1 .. Len(stack')
      <4>2. Entered(i)' = TRUE
        BY <2>4 DEF Entered
      <4>3. CASE i = L
        BY <3>2, <3>4, <3>8, <4>2, <4>3 DEF Left
      <4>4. CASE i # L
        <5>1. i \in 1 .. L - 1 /\ i \in 1 .. L /\ Entered(i) = TRUE /\ stack'[i] = stack[i]
          BY <1>0, <2>2, <3>4, <4>4
        <5>2. Called(ec0', moves', search_depth', i, stack[i], Left(stack[i], Entered(i)))
          BY <1>9, <2>1, <3>5, <3>7, <5>1
        <5>3. QED
          BY <4>2, <5>1, <5>2
      <4>5. QED
        BY <4>3, <4>4
    <3>10. Len(moves') = SeedLen(search_depth') + Len(stack')
      BY <1>0, <2>1, <3>4, <3>5 DEF K
    <3>11. QED
      BY <2>4, <3>4, <3>9, <3>10 DEF Calls
  <2>5. QED
    BY <1>4, <2>3, <2>4 DEF Enter

<1>5. CASE NextMove
  <2> DEFINE bit == CHOOSE m \in Top.mask : \A n \in Top.mask : m <= n
             m == RealMove(Top.ec, bit)
             rest == WithMask(Top.mask \ {bit})
             with_m == [moves EXCEPT ![Len(moves)] = m]
             child == [ec |-> EMove[Top.ec][m], cc |-> CMove[Top.cc][m], depth |-> Top.depth,
                       prune |-> NextPrune(Top.ec, Top.prune, bit), last_axis |-> Face[m],
                       mask |-> {}]
  <2>1. /\ pc = "loop" /\ Top.mask # {} /\ stack # << >> /\ UNCHANGED <<ec0, search_depth>>
        /\ N = K + L /\ L \in Nat \ {0} /\ L \in 1 .. L
    BY <1>5, TopCalled DEF NextMove, Calls, fixed, L, N, K
  <2>2. /\ bit \in Move /\ m \in Move /\ Top \in Node /\ Top.mask \subseteq Move
        /\ NextPrune(Top.ec, Top.prune, bit) = EDist[EMove[Top.ec][m]]
        /\ EDist[EMove[Top.ec][m]] \in Nat /\ EDist[EMove[Top.ec][m]] <= Top.depth
    BY <2>1, MoveFits DEF Node
  <2>3. \A i \in 1 .. L : Entered(i) = TRUE
    BY <2>1 DEF Entered
  <2> HIDE DEF bit, m
  <2>4. /\ with_m \in Seq(Move) /\ Len(with_m) = N /\ with_m[N] = m
        /\ \A i \in 1 .. N - 1 : with_m[i] = moves[i]
    BY <1>0, <2>1, <2>2 DEF N
  <2> HIDE DEF with_m
  <2>5. ASSUME NEW mask \in SUBSET Move, mask \subseteq Top.mask,
               moves' = moves \/ moves' = with_m
        PROVE  LET s == WithMask(mask) IN
               /\ s \in Seq(Node) /\ Len(s) = L
               /\ \A i \in 1 .. L : s[i] \in Node
                    /\ Called(ec0', moves', search_depth', i, s[i], s[i].depth + 1)
    <3> DEFINE s == WithMask(mask)
    <3>1. /\ s \in Seq(Node) /\ Len(s) = L
          /\ \A i \in 1 .. L - 1 : s[i] = stack[i]
          /\ s[L].mask = mask
          /\ s[L].ec = Top.ec /\ s[L].cc = Top.cc /\ s[L].depth = Top.depth
          /\ s[L].prune = Top.prune
      BY <1>0, <2>1, MaskChanged DEF L
    <3> HIDE DEF s
    <3>2. PICK nv \in Seq(Move) : nv = moves' /\ Len(nv) = N
      BY <1>0, <2>4, <2>5 DEF N
    <3>3. K + L - 1 <= N /\ K + L - 1 <= Len(nv) /\ K + L - 1 = N - 1
      BY <1>0, <2>1, <3>2
    <3>4. \A i \in 1 .. K + L - 1 : nv[i] = moves[i]
      BY <2>4, <2>5, <3>2, <3>3
    <3>5. \A i \in 1 .. L : /\ s[i].ec = stack[i].ec /\ s[i].cc = stack[i].cc
                            /\ s[i].depth = stack[i].depth
                            /\ s[i].prune = stack[i].prune /\ s[i].mask \subseteq stack[i].mask
      <4>1. TAKE i \in 1 .. L
      <4>2. CASE i = L
        BY <2>5, <3>1, <4>2 DEF Top, L
      <4>3. CASE i # L
        <5>1. i \in 1 .. L - 1
          BY <1>0, <4>3
        <5>2. QED
          BY <3>1, <5>1
      <4>4. QED
        BY <4>2, <4>3
    <3>6. ASSUME NEW i \in 1 .. L
          PROVE  s[i] \in Node
                 /\ Called(ec0', moves', search_depth', i, s[i], s[i].depth + 1)
      <4>1. Called(ec0', moves', search_depth', i, s[i], Left(stack[i], Entered(i)))
        BY <1>9, <2>1, <3>2, <3>3, <3>4, <3>5
      <4>2. s[i] \in Node
        BY <3>1, ElementOfSeq
      <4>3. QED
        BY <2>3, <3>5, <4>1, <4>2 DEF Left
    <3>7. QED
      BY <3>1, <3>6 DEF s
  <2>6. Top.mask \ {bit} \in SUBSET Move /\ Top.mask \ {bit} \subseteq Top.mask
        /\ {} \in SUBSET Move /\ {} \subseteq Top.mask
    BY <2>2
  <2>7. ASSUME NEW mask \in SUBSET Move, mask \subseteq Top.mask,
               moves' = moves \/ moves' = with_m,
               stack' = WithMask(mask), pc' = pc
        PROVE  Calls'
    <3>1. /\ Len(stack') = L
          /\ \A i \in 1 .. L : stack'[i] \in Node
               /\ Called(ec0', moves', search_depth', i, stack'[i], stack'[i].depth + 1)
      BY <2>5, <2>7
    <3>2. stack' # << >>
      BY <2>1, <3>1, EmptySeq
    <3>3. \A i \in 1 .. Len(stack') :
            Called(ec0', moves', search_depth', i, stack'[i], Left(stack'[i], Entered(i)'))
      <4>1. TAKE i \in 1 .. Len(stack')
      <4>2. Entered(i)' = TRUE
        BY <2>1, <2>7 DEF Entered
      <4>3. QED
        BY <3>1, <4>2 DEF Left
    <3>4. Len(moves') = SeedLen(search_depth') + Len(stack')
      BY <1>0, <2>1, <2>4, <2>7, <3>1 DEF K, N
    <3>5. QED
      BY <2>1, <2>7, <3>2, <3>3, <3>4 DEF Calls
  <2>8. ASSUME Top.depth > 0, moves' = with_m, stack' = Append(rest, child), pc' = "enter"
        PROVE  Calls'
    <3>1. /\ rest \in Seq(Node) /\ Len(rest) = L
          /\ \A i \in 1 .. L : rest[i] \in Node
               /\ Called(ec0', moves', search_depth', i, rest[i], rest[i].depth + 1)
      BY <2>5, <2>6, <2>8
    <3> HIDE DEF rest
    <3>2. /\ Len(stack') = L + 1 /\ stack'[L + 1] = child
          /\ \A i \in 1 .. L : stack'[i] = rest[i]
      BY <1>0, <2>8, <3>1
    <3>3. stack' # << >>
      BY <1>0, <3>2, EmptySeq
    <3>4. Called(ec0, moves, search_depth, L, Top, Top.depth + 1)
      BY <2>1, TopCalled DEF Left, L
    <3>5. /\ Top.depth \in Nat \ {0} /\ Top.depth + 1 = search_depth - K + 1 - L
          /\ <<Top.ec, Top.cc>> = Played(StartCube(ec0), moves)[search_depth - (Top.depth + 1)]
      BY <2>2, <2>8, <3>4 DEF Called, Node, K
    <3>6. /\ Top.depth = search_depth - K + 1 - (L + 1)
          /\ search_depth - (Top.depth + 1) = N - 1 /\ search_depth - Top.depth = N
          /\ N - 1 \in Nat /\ N \in 1 .. Len(with_m) /\ N - 1 <= Len(moves)
          /\ N - 1 <= Len(with_m)
      <4>1. Top.depth = search_depth - K + 1 - (L + 1)
        BY <1>0, <3>5
      <4>2. search_depth - (Top.depth + 1) = N - 1 /\ search_depth - Top.depth = N
        BY <1>0, <2>1, <4>1
      <4>3. N - 1 \in Nat /\ N \in 1 .. N /\ N - 1 <= N
        BY <1>0, <2>1
      <4>4. QED
        BY <2>4, <4>1, <4>2, <4>3 DEF N
    <3>7. Played(StartCube(ec0), with_m)[N - 1] = <<Top.ec, Top.cc>>
      <4>1. \A a \in 0 .. N - 1 :
              Played(StartCube(ec0), moves)[a] = Played(StartCube(ec0), with_m)[a]
        <5>1. \A a \in 1 .. N - 1 : moves[a] = with_m[a]
          BY <2>4
        <5>2. QED
          BY <1>0, <2>4, <3>6, <5>1, PlayedPrefix
      <4>2. QED
        BY <3>5, <3>6, <4>1
    <3>8. Played(StartCube(ec0), with_m)[N] = <<child.ec, child.cc>>
      <4>1. Played(StartCube(ec0), with_m)[N]
              = MoveCube(Played(StartCube(ec0), with_m)[N - 1], m)
        BY <2>4, <3>6, PlayedSteps
      <4>2. QED
        BY <3>7, <4>1 DEF MoveCube
    <3>9. /\ child.prune = EDist[child.ec] /\ child.prune <= Top.depth
          /\ child.depth = Top.depth /\ child.mask = {}
      BY <2>2
    <3> HIDE DEF child
    <3>10. Called(ec0', moves', search_depth', L + 1, child, Top.depth)
      BY <2>1, <2>8, <3>5, <3>6, <3>8, <3>9 DEF Called, K
    <3>11. \A i \in 1 .. Len(stack') :
             Called(ec0', moves', search_depth', i, stack'[i], Left(stack'[i], Entered(i)'))
      <4>1. TAKE i \in 1 .. Len(stack')
      <4>2. CASE i = L + 1
        <5>1. Entered(i)' = FALSE
          BY <2>8, <3>2, <4>2 DEF Entered
        <5>2. QED
          BY <3>2, <3>9, <3>10, <4>2, <5>1 DEF Left
      <4>3. CASE i # L + 1
        <5>1. i \in 1 .. L
          BY <1>0, <3>2, <4>3
        <5>2. Entered(i)' = TRUE
          BY <3>2, <4>3 DEF Entered
        <5>3. QED
          BY <3>1, <3>2, <5>1, <5>2 DEF Left
      <4>4. QED
        BY <4>2, <4>3
    <3>12. Len(moves') + 1 = SeedLen(search_depth') + Len(stack')
      <4>1. Len(moves') = N /\ search_depth' = search_depth /\ Len(stack') = L + 1
        BY <2>1, <2>4, <2>8, <3>2
      <4>2. N + 1 = K + (L + 1)
        BY <1>0, <2>1
      <4>3. QED
        BY <4>1, <4>2 DEF K
    <3>13. QED
      BY <2>8, <3>3, <3>11, <3>12 DEF Calls
  <2>9. \/ /\ moves' = moves \/ moves' = with_m
           /\ stack' = rest \/ stack' = WithMask({})
           /\ pc' = pc
        \/ Top.depth > 0 /\ moves' = with_m /\ stack' = Append(rest, child) /\ pc' = "enter"
    BY <1>5 DEF NextMove, rest, child, with_m, m, bit
  <2> HIDE DEF child
  <2>10. QED
    BY <2>6, <2>7, <2>8, <2>9
<1>6. CASE EndSearch
  <2>1. /\ pc = "loop" /\ stack # << >> /\ UNCHANGED <<ec0, search_depth>>
        /\ stack' = Pop /\ moves' = SubSeq(moves, 1, N - 1) /\ pc' = "back"
        /\ N = K + L /\ L \in Nat \ {0} /\ L \in 1 .. L
    BY <1>6, TopCalled DEF EndSearch, Calls, handle, L, N, K
  <2>2. Len(Pop) = L - 1 /\ \A i \in 1 .. L - 1 : Pop[i] = stack[i]
    BY <1>0, <2>1, StackParts DEF L
  <2>3. PICK nv \in Seq(Move) : nv = moves' /\ Len(nv) = N - 1 /\ \A i \in 1 .. N - 1 : nv[i] = moves[i]
    <3>1. N - 1 \in Nat /\ N - 1 <= Len(moves)
      BY <1>0, <2>1 DEF N
    <3>2. /\ SubSeq(moves, 1, N - 1) \in Seq(Move) /\ Len(SubSeq(moves, 1, N - 1)) = N - 1
          /\ \A i \in 1 .. N - 1 : SubSeq(moves, 1, N - 1)[i] = moves[i]
      BY <1>0, <3>1, SubSeqProperties
    <3>3. QED
      BY <2>1, <3>2
  <2>4. K + L - 1 <= N /\ K + L - 1 <= Len(nv) /\ K + L - 1 = N - 1
    BY <1>0, <2>1, <2>3
  <2>5. \A i \in 1 .. K + L - 1 : nv[i] = moves[i]
    BY <2>3, <2>4
  <2>6. \A i \in 1 .. Len(stack') :
          Called(ec0', moves', search_depth', i, stack'[i], Left(stack'[i], Entered(i)'))
    <3>1. TAKE i \in 1 .. Len(stack')
    <3>2. /\ i \in 1 .. L - 1 /\ i \in 1 .. L /\ stack'[i] = stack[i]
          /\ Entered(i)' = TRUE /\ Entered(i) = TRUE
      BY <1>0, <2>1, <2>2 DEF Entered
    <3>3. Called(ec0', moves', search_depth', i, stack[i], Left(stack[i], Entered(i)))
      BY <1>9, <2>1, <2>3, <2>4, <2>5, <3>2
    <3>4. QED
      BY <3>2, <3>3
  <2>7. Len(moves') = SeedLen(search_depth') + Len(stack')
    BY <1>0, <2>1, <2>2, <2>3 DEF K
  <2>8. QED
    BY <2>1, <2>6, <2>7 DEF Calls
<1>7. CASE Back
  <2>1. /\ pc = "back" /\ UNCHANGED <<ec0, search_depth, moves>> /\ N = K + L
    BY <1>7 DEF Back, Calls, handle, L, N, K
  <2>2. CASE stack = << >>
    <3>1. stack' = << >> /\ Len(stack') = 0 /\ pc' \in {"canceled", "pass"}
      BY <1>7, <2>2, EmptySeq DEF Back
    <3>2. QED
      BY <3>1 DEF Calls
  <2>3. CASE stack # << >>
    <3>1. /\ pc' = "loop" /\ L \in Nat \ {0} /\ L \in 1 .. L
          /\ stack' = stack \/ stack' = WithMask({})
      BY <1>7, <2>1, <2>3, TopCalled DEF Back, L
    <3>2. /\ Len(stack') = L
          /\ \A i \in 1 .. L :
               /\ stack'[i].ec = stack[i].ec /\ stack'[i].cc = stack[i].cc
               /\ stack'[i].depth = stack[i].depth
               /\ stack'[i].prune = stack[i].prune /\ stack'[i].mask \subseteq stack[i].mask
      <4>1. CASE stack' = stack
        BY <4>1 DEF L
      <4>2. CASE stack' = WithMask({})
        <5>1. {} \in SUBSET Move
          OBVIOUS
        <5>2. /\ Len(stack') = L /\ \A i \in 1 .. L - 1 : stack'[i] = stack[i]
              /\ stack'[L].mask = {} /\ stack'[L].ec = Top.ec /\ stack'[L].cc = Top.cc
              /\ stack'[L].depth = Top.depth /\ stack'[L].prune = Top.prune
          BY <1>0, <2>3, <4>2, <5>1, MaskChanged DEF L
        <5>3. \A i \in 1 .. L : i \in 1 .. L - 1 \/ i = L
          BY <1>0
        <5>4. QED
          BY <5>2, <5>3 DEF Top, L
      <4>3. QED
        BY <3>1, <4>1, <4>2
    <3>3. K + L - 1 <= N /\ moves' = moves /\ moves' \in Seq(Move)
      BY <1>0, <2>1
    <3>4. \A i \in 1 .. Len(stack') :
            Called(ec0', moves', search_depth', i, stack'[i], Left(stack'[i], Entered(i)'))
      <4>1. TAKE i \in 1 .. Len(stack')
      <4>2. Entered(i)' = TRUE /\ Entered(i) = TRUE /\ i \in 1 .. L
        BY <2>1, <3>1, <3>2 DEF Entered
      <4>3. Called(ec0', moves', search_depth', i, stack'[i], Left(stack[i], Entered(i)))
        BY <1>0, <1>9, <2>1, <2>3, <3>2, <3>3, <4>2 DEF N
      <4>4. QED
        BY <3>2, <4>2, <4>3 DEF Left
    <3>5. Len(moves') = SeedLen(search_depth') + Len(stack') /\ stack' # << >>
      <4>1. Len(stack') # 0
        BY <3>1, <3>2
      <4>2. QED
        BY <2>1, <3>2, <4>1, EmptySeq DEF K, N
    <3>6. QED
      BY <3>1, <3>4, <3>5 DEF Calls
  <2>4. QED
    BY <2>2, <2>3
<1>10. QED
  BY <1>1, <1>2, <1>3, <1>4, <1>5, <1>6, <1>7, <1>8 DEF Next, Step

-----------------------------------------------------------------------------
(* What is still ahead.                                                    *)

(* Neither the edges nor the corners of an old table turn back the search  *)
(* on the way to a cube that is unsolved.                                  *)
LEMMA NotTurnedBack ==
  ASSUME Types, Records, NEW d \in Open, NEW x \in State, NEW last_axis, NEW n \in Nat,
         Alive(x, last_axis, n, Target(d))
  PROVE  EDist[x[1]] <= n /\ ~ TooFar(x[2], n)
<1>1. d \in Corner /\ d \in cpr
  BY OpenCubes DEF Records
<1>2. EDist[x[1]] <= n /\ CDist[x[2]][d] <= n
  BY <1>1, EdgesAndCorners DEF Alive
<1>3. PICK s \in Sym : \A y \in State : SymCube(s, y) = y
  BY SymAssumption
<1>4. CSym[s][x[2]] = x[2]
  BY <1>3 DEF SymCube, State
<1>5. CDist[x[2]][d] \in Nat
  BY <1>1, MoveAssumption DEF State
<1>6. ~ (CDist[CSym[s][x[2]]][d] > n)
  BY <1>2, <1>4, <1>5
<1>7. QED
  BY <1>1, <1>2, <1>3, <1>6 DEF TooFar

(* A call that is entered has the next move in its mask.                   *)
LEMMA EntersAhead ==
  ASSUME NEW node \in Node, node.depth \in Nat \ {0},
         node.prune = EDist[node.ec], node.prune <= node.depth,
         NEW new, new.ec = node.ec, new.cc = node.cc, new.last_axis = node.last_axis,
         new.depth = node.depth - 1,
         new.mask = Mask(node.ec, node.prune, node.depth - 1),
         NEW d \in Corner, CallAhead(node, FALSE, Target(d))
  PROVE  CallAhead(new, TRUE, Target(d))
<1> DEFINE x == <<node.ec, node.cc>>
           n == node.depth - 1
<1>1. /\ x \in State /\ x[1] = node.ec /\ x[2] = node.cc /\ node.ec \in Edge
      /\ n \in Nat /\ node.depth = n + 1
  BY DEF Node, State
<1>2. Alive(x, node.last_axis, n + 1, Target(d))
  BY <1>1 DEF CallAhead
<1> HIDE DEF x, n
<1>3. PICK m \in Move : /\ ~ Repeats(m, node.last_axis)
                        /\ Alive(MoveCube(x, m), Face[m], n, Target(d))
  BY <1>1, <1>2, AliveMove
<1>4. PICK b \in Move : RealMove(node.ec, b) = m
  BY <1>1, RealMoves
<1>5. EDist[MoveCube(x, m)[1]] <= n /\ MoveCube(x, m)[1] = EMove[node.ec][m]
  <2>1. MoveCube(x, m) \in State
    BY <1>1, OneMove
  <2>2. EDist[MoveCube(x, m)[1]] <= n
    BY <1>1, <1>3, <2>1, EdgesAndCorners DEF Alive
  <2>3. QED
    BY <1>1, <2>2 DEF MoveCube
<1>6. b \in Mask(node.ec, EDist[node.ec], n)
  <2>1. EDist[node.ec] <= n + 1
    BY <1>1
  <2>2. QED
    BY <1>1, <1>4, <1>5, <2>1, MasksExact
<1>7. b \in new.mask /\ new.depth = n
  BY <1>6 DEF n
<1>8. MovesAhead(new, Target(d))
  BY <1>3, <1>4, <1>7 DEF MovesAhead, x
<1>9. QED
  BY <1>8 DEF CallAhead

(* When a pass begins there is a seed on the way to each unsolved cube.    *)
LEMMA PassBegins ==
  ASSUME NEW e \in Edge, NEW c \in CornersOf(e), NEW n \in Nat, Dist[<<e, c>>] = n
  PROVE  \E d \in OrbitOf(e, c) : \E j \in 1 .. Len(SeedsOf(e, SeedLen(n))) :
           Alive(SeedsOf(e, SeedLen(n))[j].x, SeedsOf(e, SeedLen(n))[j].last_axis,
                 n - SeedLen(n), Target(d))
<1> DEFINE k == SeedLen(n)
<1>1. k \in 0 .. SeedDepth /\ k <= Dist[<<e, c>>]
  BY SeedLenIs
<1> HIDE DEF k
<1>2. \E j \in 1 .. Len(SeedsOf(e, k)), d \in OrbitOf(e, c) :
        Alive(SeedsOf(e, k)[j].x, SeedsOf(e, k)[j].last_axis, Dist[<<e, c>>] - k, Target(d))
  BY <1>1, SeedsComplete
<1>3. QED
  BY <1>2 DEF k

LEMMA CompleteKept ==
  ASSUME Types, Records, Calls, Complete, [Next]_vars
  PROVE  Complete'
<1>0. /\ stack \in Seq(Node) /\ moves \in Seq(Move) /\ search_depth \in Nat /\ ec0 \in Edge
      /\ Len(stack) \in Nat /\ Types' /\ Records' /\ Open' \subseteq Open
  BY SeedsOfPass, LenProperties, TypesKept, RecordsKept DEF Types
<1>1. SUFFICES ASSUME Whole', NEW c \in Open', Dist[<<ec0', c>>] = search_depth'
               PROVE  Ahead(c)'
  BY DEF Complete
<1>2. c \in Open /\ c \in CornersOf(ec0)
  BY <1>0, OpenCubes
<1>3. CASE EndPass
  <2>1. /\ UNCHANGED <<ec0, seeds>> /\ seed_idx' = 0 /\ search_depth' = search_depth + 1
    BY <1>3 DEF EndPass, Deeper, fixed
  <2>2. search_depth' \in Nat /\ Dist[<<ec0, c>>] = search_depth'
    BY <1>0, <1>1, <2>1
  <2> DEFINE k == SeedLen(search_depth')
  <2>3. PICK d \in OrbitOf(ec0, c) : \E j \in 1 .. Len(SeedsOf(ec0, k)) :
          Alive(SeedsOf(ec0, k)[j].x, SeedsOf(ec0, k)[j].last_axis,
                search_depth' - k, Target(d))
    BY <1>0, <1>2, <2>2, PassBegins
  <2>4. SeedsNow' = SeedsOf(ec0, k)
    <3>1. k \in 0 .. SeedDepth
      BY <2>2, SeedLenIs
    <3>2. SeedsNow' = seeds[k]
      BY <2>1 DEF SeedsNow, SeedLen
    <3>3. QED
      BY <3>1, <3>2 DEF Types, FindSeeds, SeedsOf
  <2> HIDE DEF k
  <2>5. PICK j \in 1 .. Len(SeedsOf(ec0, k)) :
          Alive(SeedsOf(ec0, k)[j].x, SeedsOf(ec0, k)[j].last_axis,
                search_depth' - k, Target(d))
    BY <2>3
  <2>6. SeedAhead(j, search_depth, Target(d))'
    BY <2>4, <2>5 DEF SeedAhead, k
  <2>7. j \in seed_idx' + 1 .. Len(SeedsNow')
    BY <2>1, <2>4
  <2>8. d \in OrbitOf(ec0', c)
    BY <2>1
  <2>9. QED
    BY <2>6, <2>7, <2>8 DEF Ahead
<1>4. CASE Signal \/ NextSeed \/ Enter \/ NextMove \/ EndSearch \/ Back \/ UNCHANGED vars
  <2>1. UNCHANGED <<ec0, seeds, search_depth>>
    BY <1>4 DEF Signal, NextSeed, Enter, NextMove, EndSearch, Back, vars, handle, impl, fixed
  <2>2. Whole
    BY <1>1, <1>4 DEF Whole, Signal, NextSeed, Enter, NextMove, EndSearch, Back, vars, handle, impl
  <2>3. PICK d \in OrbitOf(ec0, c) :
          \/ \E j \in seed_idx + 1 .. Len(SeedsNow) : SeedAhead(j, search_depth, Target(d))
          \/ \E i \in 1 .. Len(stack) : CallAhead(stack[i], Entered(i), Target(d))
    BY <1>1, <1>2, <2>1, <2>2 DEF Complete, Ahead
  <2> DEFINE t == Target(d)
  <2>4. /\ d \in Open /\ d \in Open' /\ d \in Corner /\ t \in State /\ c \in Corner
        /\ c \in OrbitOf(ec0, d)
    <3>1. d \in Open /\ d \in Corner /\ c \in Corner
      BY <1>2, OpenCubes
    <3>2. d \in Open'
      BY <1>0, <2>1 DEF Records
    <3>3. t \in State
      BY <3>1, Constants DEF Target, State
    <3>4. c \in OrbitOf(ec0, d)
      BY <1>0, <3>1, Orbits
    <3>5. QED
      BY <3>1, <3>2, <3>3, <3>4
  <2> HIDE DEF t
  <2>5. SUFFICES \/ \E j \in seed_idx' + 1 .. Len(SeedsNow) : SeedAhead(j, search_depth, t)
                 \/ \E i \in 1 .. Len(stack') : CallAhead(stack'[i], Entered(i)', t)
    <3>1. SeedsNow' = SeedsNow
      BY <2>1 DEF SeedsNow
    <3>2. \A j : SeedAhead(j, search_depth, t)' <=> SeedAhead(j, search_depth, t)
      BY <2>1, <3>1 DEF SeedAhead, t
    <3>3. (\E i \in 1 .. Len(stack') : CallAhead(stack'[i], Entered(i)', t)) => Ahead(c)'
      BY <2>1 DEF Ahead, t
    <3>4. (\E j \in seed_idx' + 1 .. Len(SeedsNow) : SeedAhead(j, search_depth, t)) => Ahead(c)'
      BY <2>1, <3>1, <3>2 DEF Ahead, t
    <3>5. QED
      BY <3>3, <3>4
  <2>6. ASSUME UNCHANGED seed_idx,
               \A i \in 1 .. Len(stack) : CallAhead(stack[i], Entered(i), t) =>
                 \E h \in 1 .. Len(stack') : CallAhead(stack'[h], Entered(h)', t)
        PROVE  \/ \E j \in seed_idx' + 1 .. Len(SeedsNow) : SeedAhead(j, search_depth, t)
               \/ \E i \in 1 .. Len(stack') : CallAhead(stack'[i], Entered(i)', t)
    BY <2>3, <2>6 DEF t
  <2>7. CASE Signal \/ UNCHANGED vars
    <3>1. UNCHANGED <<seed_idx, stack, pc>>
      BY <2>7 DEF Signal, vars, impl
    <3>2. QED
      BY <2>6, <3>1 DEF Entered

  <2>8. CASE NextSeed
    <3> DEFINE seed == SeedsNow[seed_idx + 1]
               remaining == search_depth - Len(seed.moves)
               node == [ec |-> seed.x[1], cc |-> seed.x[2], depth |-> remaining,
                        prune |-> EDist[seed.x[1]], last_axis |-> seed.last_axis, mask |-> {}]
    <3>1. /\ pc = "pass" /\ stack = << >> /\ seed_idx < Len(SeedsNow) /\ seed_idx' = seed_idx + 1
          /\ seed_idx \in Nat /\ seed_idx + 1 \in 1 .. Len(SeedsNow) /\ Len(SeedsNow) \in Nat
          /\ UNCHANGED <<ec0, proven_min>> /\ Len(stack) = 0
      BY <2>8, SeedsOfPass, EmptySeq DEF NextSeed, Calls, Types, fixed
    <3>2. PICK j \in seed_idx + 1 .. Len(SeedsNow) : SeedAhead(j, search_depth, t)
      <4>1. 1 .. Len(stack) = {}
        BY <3>1
      <4>2. QED
        BY <2>3, <4>1 DEF t
    <3>3. CASE j # seed_idx + 1
      <4>1. j \in seed_idx' + 1 .. Len(SeedsNow)
        BY <3>1, <3>3
      <4>2. QED
        BY <3>2, <4>1
    <3>4. CASE j = seed_idx + 1
      <4>1. seed \in SeedRecord /\ IsSeed(ec0, SeedLen(search_depth), seed)
        BY <3>1, SeedsOfPass
      <4>2. Alive(seed.x, seed.last_axis, search_depth - SeedLen(search_depth), t)
        BY <3>2, <3>4 DEF SeedAhead
      <4> HIDE DEF seed
      <4>3. /\ remaining = search_depth - SeedLen(search_depth) /\ remaining \in Nat
            /\ seed.x \in State /\ seed.x = <<seed.x[1], seed.x[2]>> /\ seed.x[1] \in Edge
        <5>1. seed.x \in State /\ Len(seed.moves) = SeedLen(search_depth)
          BY <4>1 DEF IsSeed, SeedRecord
        <5>2. seed.x = <<seed.x[1], seed.x[2]>> /\ seed.x[1] \in Edge
          BY <5>1 DEF State
        <5>3. SeedLen(search_depth) \in Nat /\ SeedLen(search_depth) <= search_depth
          BY <1>0, SeedLenIs
        <5>4. search_depth - SeedLen(search_depth) \in Nat
          BY <1>0, <5>3
        <5>5. QED
          BY <5>1, <5>2, <5>4
      <4> HIDE DEF remaining
      <4>4. Alive(seed.x, seed.last_axis, remaining, t)
        BY <4>2, <4>3
      <4>5. EDist[seed.x[1]] <= remaining /\ EDist[seed.x[1]] \in Nat
        BY <2>4, <4>3, <4>4, NotTurnedBack, MoveAssumption DEF t
      <4>6. CASE remaining = 0 /\ Candidate(seed.x[2], seed.moves)
        <5>1. remaining >= EDist[seed.x[1]] /\ remaining = 0
          BY <4>3, <4>5, <4>6
        <5>2. /\ seed.x[2] \in Corner /\ seed.moves \in Seq(Move)
              /\ Len(seed.moves) = search_depth
              /\ seed.x = Target(seed.x[2])
              /\ Played(StartCube(ec0), seed.moves)[Len(seed.moves)] = Target(seed.x[2])
          BY <3>1, <5>1, SeedCandidate DEF seed, remaining
        <5>3. seed.x[2] \notin OrbitOf(ec0, c)
          BY <1>1, <3>1, <4>6, <5>2, Recorded
        <5>4. Near(seed.x, t, 0)
          BY <4>4, <4>6 DEF Alive
        <5>5. seed.x = t
          BY <2>4, <5>4, NearNothing
        <5>6. seed.x[2] = d
          BY <5>5 DEF t, Target
        <5>7. QED
          BY <2>3, <5>3, <5>6
      <4>7. CASE remaining > 0 /\ stack' = <<node>> /\ pc' = "enter"
        <5>1. /\ node.ec = seed.x[1] /\ node.cc = seed.x[2] /\ node.depth = remaining
              /\ node.last_axis = seed.last_axis
          OBVIOUS
        <5> HIDE DEF node
        <5>2. Len(stack') = 1 /\ stack'[1] = node /\ 1 \in 1 .. Len(stack')
          BY <4>7
        <5>3. Entered(1)' = FALSE
          BY <4>7, <5>2 DEF Entered
        <5>4. CallAhead(node, FALSE, t)
          BY <4>3, <4>4, <5>1 DEF CallAhead
        <5>5. CallAhead(stack'[1], Entered(1)', t)
          BY <5>2, <5>3, <5>4
        <5>6. QED
          BY <5>2, <5>5
      <4>8. \/ remaining < EDist[seed.x[1]]
            \/ remaining = 0 /\ Candidate(seed.x[2], seed.moves)
            \/ remaining > 0 /\ stack' = <<node>> /\ pc' = "enter"
        BY <2>8 DEF NextSeed, seed, remaining, node
      <4> HIDE DEF node
      <4>9. QED
        BY <4>3, <4>5, <4>6, <4>7, <4>8
    <3>5. QED
      BY <3>3, <3>4
  <2> DEFINE L == Len(stack)
  <2>9. CASE Enter
    <3>1. /\ pc = "enter" /\ stack # << >> /\ L \in Nat \ {0} /\ L \in 1 .. L
          /\ Top \in Node /\ Called(ec0, moves, search_depth, L, Top, Top.depth)
          /\ UNCHANGED seed_idx
      BY <2>9, TopCalled DEF Enter, Calls, Left
    <3>2. /\ \A i \in 1 .. L - 1 : i \in 1 .. L /\ Entered(i) = TRUE
          /\ Entered(L) = FALSE
      BY <3>1 DEF Entered
    <3>3. /\ Top.depth \in Nat \ {0} /\ Top.prune = EDist[Top.ec] /\ Top.prune <= Top.depth
          /\ <<Top.ec, Top.cc>> \in State
      BY <3>1 DEF Called, Node, State
    <3> HIDE DEF L
    <3>4. CASE TooFar(Top.cc, Top.depth) /\ stack' = Pop /\ pc' = "back"
      <4>1. Len(Pop) = L - 1 /\ \A i \in 1 .. L - 1 : Pop[i] = stack[i]
        BY <1>0, <3>1, StackParts DEF L
      <4>2. ~ CallAhead(Top, FALSE, t)
        <5>1. SUFFICES ASSUME Alive(<<Top.ec, Top.cc>>, Top.last_axis, Top.depth, t)
                       PROVE  FALSE
          BY DEF CallAhead
        <5>2. Top.depth \in Nat
          BY <3>3
        <5>3. ~ TooFar(<<Top.ec, Top.cc>>[2], Top.depth)
          BY <2>4, <3>3, <5>1, <5>2, NotTurnedBack DEF t
        <5>4. QED
          BY <3>4, <5>3
      <4>3. ASSUME NEW i \in 1 .. Len(stack), CallAhead(stack[i], Entered(i), t)
            PROVE  \E h \in 1 .. Len(stack') : CallAhead(stack'[h], Entered(h)', t)
        <5>1. i # L
          BY <3>2, <4>2, <4>3 DEF Top, L
        <5>2. i \in 1 .. L - 1 /\ Entered(i)' = TRUE
          BY <3>1, <3>4, <4>3, <5>1 DEF Entered, L
        <5>3. i \in 1 .. Len(stack') /\ stack'[i] = stack[i]
          BY <3>4, <4>1, <5>2
        <5>4. CallAhead(stack'[i], Entered(i)', t)
          BY <3>2, <4>3, <5>2, <5>3
        <5>5. QED
          BY <5>3, <5>4
      <4>4. QED
        BY <2>6, <3>1, <4>3
    <3> DEFINE mask == Mask(Top.ec, Top.prune, Top.depth - 1)
               new == [Top EXCEPT !.depth = Top.depth - 1, !.mask = mask]
    <3>5. CASE /\ stack' = [stack EXCEPT ![Len(stack)].depth = Top.depth - 1,
                                         ![Len(stack)].mask = mask]
               /\ pc' = "loop"
      <4>1. /\ new.ec = Top.ec /\ new.cc = Top.cc /\ new.last_axis = Top.last_axis
            /\ new.depth = Top.depth - 1 /\ new.mask = mask
        BY <3>1 DEF Node
      <4>2. stack' = [stack EXCEPT ![L] = new]
        BY <1>0, <3>1, <3>5 DEF Top, L
      <4> HIDE DEF new
      <4>3. /\ Len(stack') = L /\ stack'[L] = new
            /\ \A i \in 1 .. L - 1 : stack'[i] = stack[i]
        BY <1>0, <3>1, <4>2 DEF L
      <4>4. CallAhead(Top, FALSE, t) => CallAhead(new, TRUE, t)
        BY <2>4, <3>1, <3>3, <4>1, EntersAhead DEF t
      <4>5. ASSUME NEW i \in 1 .. Len(stack), CallAhead(stack[i], Entered(i), t)
            PROVE  \E h \in 1 .. Len(stack') : CallAhead(stack'[h], Entered(h)', t)
        <5>1. Entered(i)' = TRUE /\ i \in 1 .. Len(stack')
          BY <3>5, <4>3 DEF Entered, L
        <5>2. CASE i = L
          <6>1. CallAhead(stack'[i], TRUE, t)
            BY <3>2, <4>3, <4>4, <4>5, <5>2 DEF Top, L
          <6>2. QED
            BY <5>1, <6>1
        <5>3. CASE i # L
          <6>1. i \in 1 .. L - 1
            BY <3>1, <5>3 DEF L
          <6>2. CallAhead(stack'[i], Entered(i)', t)
            BY <3>2, <4>3, <4>5, <5>1, <6>1
          <6>3. QED
            BY <5>1, <6>2
        <5>4. QED
          BY <5>2, <5>3
      <4>6. QED
        BY <2>6, <3>1, <4>5
    <3>6. QED
      BY <2>9, <3>4, <3>5 DEF Enter
  <2>10. CASE NextMove
    <3> DEFINE bit == CHOOSE m \in Top.mask : \A n \in Top.mask : m <= n
               m == RealMove(Top.ec, bit)
               rest == WithMask(Top.mask \ {bit})
               with_m == [moves EXCEPT ![Len(moves)] = m]
               x == MoveCube(<<Top.ec, Top.cc>>, m)
               child == [ec |-> EMove[Top.ec][m], cc |-> CMove[Top.cc][m], depth |-> Top.depth,
                         prune |-> NextPrune(Top.ec, Top.prune, bit), last_axis |-> Face[m],
                         mask |-> {}]
    <3>1. /\ pc = "loop" /\ Top.mask # {} /\ stack # << >> /\ L \in Nat \ {0} /\ L \in 1 .. L
          /\ Top \in Node /\ UNCHANGED <<ec0, proven_min, seed_idx>>
      BY <2>10, TopCalled DEF NextMove, Calls, fixed
    <3>2. /\ m \in Move /\ bit \in Move /\ x \in State
      <4>1. m \in Move /\ bit \in Move
        BY <3>1, MoveFits
      <4> HIDE DEF m
      <4>2. <<Top.ec, Top.cc>> \in State
        BY <3>1 DEF Node, State
      <4>3. QED
        BY <4>1, <4>2, OneMove
    <3>3. \A i \in 1 .. L : Entered(i) = TRUE
      BY <3>1 DEF Entered
    <3>4. /\ rest \in Seq(Node) /\ Len(rest) = L
          /\ \A i \in 1 .. L - 1 : rest[i] = stack[i]
          /\ rest[L].mask = Top.mask \ {bit} /\ rest[L].ec = Top.ec /\ rest[L].cc = Top.cc
          /\ rest[L].depth = Top.depth /\ rest[L].last_axis = Top.last_axis
      <4>1. Top.mask \ {bit} \in SUBSET Move
        BY <3>1 DEF Node
      <4>2. QED
        BY <1>0, <3>1, <4>1, MaskChanged
    <3> HIDE DEF rest, L
(* Only the way through the move of the bit leaves the stack.              *)
    <3>5. ASSUME NEW i \in 1 .. L, CallAhead(stack[i], Entered(i), t),
                 ~ (~ Repeats(m, Top.last_axis) /\ Alive(x, Face[m], Top.depth, t))
          PROVE  CallAhead(rest[i], TRUE, t)
      <4>1. CASE i # L
        <5>1. i \in 1 .. L - 1
          BY <3>1, <4>1
        <5>2. QED
          BY <3>3, <3>4, <3>5, <5>1
      <4>2. CASE i = L
        <5>1. MovesAhead(Top, t)
          BY <3>3, <3>5, <4>2 DEF CallAhead, Top, L
        <5>2. PICK b \in Top.mask :
                /\ ~ Repeats(RealMove(Top.ec, b), Top.last_axis)
                /\ Alive(MoveCube(<<Top.ec, Top.cc>>, RealMove(Top.ec, b)),
                         Face[RealMove(Top.ec, b)], Top.depth, t)
          BY <5>1 DEF MovesAhead
        <5>3. b # bit
          BY <3>5, <5>2 DEF x, m
        <5>4. b \in rest[L].mask
          BY <3>4, <5>3
        <5>5. MovesAhead(rest[L], t)
          BY <3>4, <5>2, <5>4 DEF MovesAhead
        <5>6. QED
          BY <4>2, <5>5 DEF CallAhead
      <4>3. QED
        BY <4>1, <4>2
    <3> DEFINE Way == ~ Repeats(m, Top.last_axis) /\ Alive(x, Face[m], Top.depth, t)
    <3>6. ASSUME ~ Way, stack' = rest, pc' = pc
          PROVE  \/ \E j \in seed_idx' + 1 .. Len(SeedsNow) : SeedAhead(j, search_depth, t)
                 \/ \E i \in 1 .. Len(stack') : CallAhead(stack'[i], Entered(i)', t)
      <4>1. \A i \in 1 .. Len(stack) : CallAhead(stack[i], Entered(i), t) =>
              CallAhead(stack'[i], Entered(i)', t) /\ i \in 1 .. Len(stack')
        <5>1. TAKE i \in 1 .. Len(stack)
        <5>2. HAVE CallAhead(stack[i], Entered(i), t)
        <5>3. CallAhead(rest[i], TRUE, t)
          BY <3>5, <3>6, <5>2 DEF L
        <5>4. Entered(i)' = TRUE /\ i \in 1 .. Len(stack')
          BY <3>1, <3>4, <3>6 DEF Entered, L
        <5>5. QED
          BY <3>6, <5>3, <5>4
      <4>2. QED
        BY <2>6, <3>1, <4>1
    <3>7. CASE Repeats(m, Top.last_axis) /\ stack' = rest /\ pc' = pc
      BY <3>6, <3>7
    <3>8. CASE /\ ~ Repeats(m, Top.last_axis) /\ Top.depth = 0
               /\ Candidate(CMove[Top.cc][m], with_m)
               /\ stack' = IF \A a \in DOMAIN length : length'[a] # Unsolved
                           THEN WithMask({}) ELSE rest
               /\ pc' = pc
      <4>1. /\ CMove[Top.cc][m] \in Corner /\ with_m \in Seq(Move) /\ Len(with_m) = search_depth
            /\ x = Target(CMove[Top.cc][m])
            /\ Played(StartCube(ec0), with_m)[Len(with_m)] = Target(CMove[Top.cc][m])
        BY <3>1, <3>8, MoveCandidate
      <4>2. CMove[Top.cc][m] \notin OrbitOf(ec0, c)
        <5> HIDE DEF m, with_m
        <5>1. QED
          BY <1>1, <3>1, <3>8, <4>1, Recorded
      <4>3. ~ Way
        <5>1. SUFFICES ASSUME Alive(x, Face[m], 0, t)
                       PROVE  FALSE
          BY <3>8
        <5>2. Near(x, t, 0)
          BY <5>1 DEF Alive
        <5>3. x = t
          BY <2>4, <5>2, NearNothing
        <5>4. CMove[Top.cc][m] = d
          BY <4>1, <5>3 DEF t, Target
        <5>5. QED
          BY <2>3, <4>2, <5>4
      <4>4. stack' = rest
        <5>1. c \in DOMAIN length' /\ length'[c] = Unsolved
          BY <1>1 DEF Open
        <5>2. DOMAIN length' = DOMAIN length
          BY <1>0, <2>1 DEF Records
        <5>3. QED
          BY <3>8, <5>1, <5>2
      <4> HIDE DEF Way
      <4>5. QED
        BY <3>6, <3>8, <4>3, <4>4
    <3>9. CASE /\ ~ Repeats(m, Top.last_axis)
               /\ stack' = Append(rest, child) /\ pc' = "enter"
      <4>1. /\ <<child.ec, child.cc>> = x /\ child.depth = Top.depth
            /\ child.last_axis = Face[m]
        BY <3>1 DEF MoveCube, Node
      <4> HIDE DEF child, x, m, bit, with_m, Way
      <4>2. PICK h \in Nat : h = L + 1
        BY <3>1
      <4>3. /\ Len(stack') = h /\ stack'[h] = child /\ h \in 1 .. Len(stack')
            /\ \A i \in 1 .. L : stack'[i] = rest[i] /\ i \in 1 .. Len(stack') /\ i # h
        BY <3>1, <3>4, <3>9, <4>2
      <4>6. Entered(h)' = FALSE /\ \A i \in 1 .. L : Entered(i)' = TRUE
        <5>1. pc' = "enter" /\ Len(stack') = h /\ \A i \in 1 .. L : i # h
          BY <3>9, <4>3
        <5>2. QED
          BY <5>1 DEF Entered
      <4>4. CASE Way
        <5>1. CallAhead(child, FALSE, t)
          BY <4>1, <4>4 DEF CallAhead, Way
        <5>2. CallAhead(stack'[h], Entered(h)', t)
          BY <4>3, <4>6, <5>1
        <5>3. QED
          BY <4>3, <5>2
      <4>5. CASE ~ Way
        <5>1. \A i \in 1 .. Len(stack) : CallAhead(stack[i], Entered(i), t) =>
                CallAhead(stack'[i], Entered(i)', t) /\ i \in 1 .. Len(stack')
          BY <3>5, <4>3, <4>5, <4>6 DEF L, Way
        <5>2. QED
          BY <2>6, <3>1, <5>1
      <4>7. QED
        BY <4>4, <4>5
    <3>10. \/ Repeats(m, Top.last_axis) /\ stack' = rest /\ pc' = pc
           \/ /\ ~ Repeats(m, Top.last_axis) /\ Top.depth = 0
              /\ Candidate(CMove[Top.cc][m], with_m)
              /\ stack' = IF \A a \in DOMAIN length : length'[a] # Unsolved
                          THEN WithMask({}) ELSE rest
              /\ pc' = pc
           \/ /\ ~ Repeats(m, Top.last_axis)
              /\ stack' = Append(rest, child) /\ pc' = "enter"
      BY <2>10 DEF NextMove, rest
    <3> HIDE DEF m, with_m, child, Way
    <3>11. QED
      BY <3>7, <3>8, <3>9, <3>10
  <2>11. CASE EndSearch
    <3>1. /\ pc = "loop" /\ Top.mask = {} /\ stack # << >> /\ UNCHANGED seed_idx
          /\ stack' = Pop /\ pc' = "back" /\ L \in Nat \ {0}
      BY <2>11, TopCalled DEF EndSearch, Calls
    <3>2. Len(Pop) = L - 1 /\ \A i \in 1 .. L - 1 : Pop[i] = stack[i]
      BY <1>0, <3>1, StackParts
    <3>3. ~ CallAhead(Top, TRUE, t)
      BY <3>1 DEF CallAhead, MovesAhead
    <3>4. ASSUME NEW i \in 1 .. Len(stack), CallAhead(stack[i], Entered(i), t)
          PROVE  CallAhead(stack'[i], Entered(i)', t) /\ i \in 1 .. Len(stack')
      <4>1. Entered(i) = TRUE /\ Entered(i)' = TRUE
        BY <3>1 DEF Entered
      <4>2. i # L
        BY <3>3, <3>4, <4>1 DEF Top
      <4>3. i \in 1 .. L - 1
        BY <3>1, <4>2
      <4>4. QED
        BY <3>1, <3>2, <3>4, <4>1, <4>3
    <3>5. QED
      BY <2>6, <3>1, <3>4
  <2>12. CASE Back
    <3>1. pc = "back" /\ UNCHANGED <<seed_idx, terminated, length>>
      BY <2>12 DEF Back, handle
    <3>2. CASE stack = << >>
      <4>1. 1 .. Len(stack) = {}
        BY <3>2, EmptySeq
      <4>2. QED
        BY <2>6, <3>1, <4>1
    <3>3. CASE stack # << >>
      <4>1. pc' = "loop" /\ stack' = IF Open = {} \/ terminated THEN WithMask({}) ELSE stack
        BY <2>12, <3>3 DEF Back
      <4>2. ~ terminated /\ Open # {}
        BY <1>1, <1>2, <3>1, <4>1 DEF Whole
      <4>3. stack' = stack
        BY <4>1, <4>2
      <4>4. \A i \in 1 .. Len(stack) : Entered(i) = TRUE /\ Entered(i)' = TRUE
        BY <3>1, <4>1 DEF Entered
      <4>5. QED
        BY <2>6, <3>1, <4>3, <4>4
    <3>4. QED
      BY <3>2, <3>3
  <2>13. QED
    BY <1>4, <2>7, <2>8, <2>9, <2>10, <2>11, <2>12
<1>5. QED
  BY <1>3, <1>4 DEF Next, Step

-----------------------------------------------------------------------------
(* The theorems.                                                           *)

LEMMA InitHolds ==
  ASSUME Init
  PROVE  IInv
<1>1. /\ ec0 \in Starts /\ ec0 \in Edge /\ proven_min \in Nat /\ max_depth \in Nat
      /\ search_depth = proven_min /\ stack = << >> /\ moves = << >> /\ seed_idx = 0
      /\ pc = "pass" /\ terminated = FALSE /\ seeds = FindSeeds(ec0)
  BY ParameterAssumption DEF Init
<1>2. SeedLen(proven_min) \in 0 .. SeedDepth
  BY <1>1, SeedLenIs
<1>3. SeedsNow = SeedsOf(ec0, SeedLen(proven_min))
  BY <1>1, <1>2 DEF SeedsNow, SeedLen, FindSeeds, SeedsOf
<1>4. Len(SeedsNow) \in Nat
  BY <1>1, <1>2, <1>3, SeedsPlayed, LenProperties
<1>5. stack \in Seq(Node) /\ moves \in Seq(Move) /\ Len(stack) = 0
  BY <1>1, EmptySeq
<1>6. seed_idx \in 0 .. Len(SeedsNow)
  BY <1>1, <1>4
<1>7. Types
  BY <1>1, <1>5, <1>6 DEF Types
<1>8. Records
  <2>1. PICK X \in SUBSET CornersOf(ec0) :
          /\ \A c \in X : OrbitOf(ec0, c) \subseteq X
          /\ length = [c \in CornersOf(ec0) |-> IF c \in X THEN Unsolved ELSE Dist[<<ec0, c>>]]
    BY DEF Init
  <2>2. \A c \in CornersOf(ec0) : Dist[<<ec0, c>>] \in Nat /\ Dist[<<ec0, c>>] # Unsolved
    BY <1>1, CosetDist, ParameterAssumption
  <2>3. Open = X
    BY <2>1, <2>2 DEF Open
  <2>4. length \in [CornersOf(ec0) -> Nat \union {Unsolved}] /\ OptimalLengths
    BY <2>1, <2>2 DEF OptimalLengths
  <2>5. BoundIsProven /\ Open \subseteq cpr
    BY DEF Init, BoundIsProven
  <2>6. QED
    BY <2>1, <2>3, <2>4, <2>5 DEF Records
<1>9. Calls
  BY <1>1, <1>5 DEF Calls
<1>10. Complete
  <2>1. SUFFICES ASSUME NEW c \in Open, Dist[<<ec0, c>>] = search_depth
                 PROVE  Ahead(c)
    BY DEF Complete
  <2>2. c \in CornersOf(ec0)
    BY <1>7, <1>8, OpenCubes
  <2>3. PICK d \in OrbitOf(ec0, c) : \E j \in 1 .. Len(SeedsOf(ec0, SeedLen(search_depth))) :
          Alive(SeedsOf(ec0, SeedLen(search_depth))[j].x,
                SeedsOf(ec0, SeedLen(search_depth))[j].last_axis,
                search_depth - SeedLen(search_depth), Target(d))
    BY <1>1, <2>1, <2>2, PassBegins
  <2>4. \E j \in seed_idx + 1 .. Len(SeedsNow) : SeedAhead(j, search_depth, Target(d))
    BY <1>1, <1>3, <2>3 DEF SeedAhead
  <2>5. QED
    BY <2>4 DEF Ahead
<1>11. QED
  BY <1>7, <1>8, <1>9, <1>10 DEF IInv

LEMMA StepHolds ==
  ASSUME IInv, [Next]_vars
  PROVE  IInv'
<1>1. Types /\ Records /\ Calls /\ Complete
  BY DEF IInv
<1>2. Types' /\ Records' /\ Calls' /\ Complete'
  BY <1>1, TypesKept, RecordsKept, CallsKept, CompleteKept
<1>3. QED
  BY <1>2 DEF IInv

(* The invariant of the search: what it holds, what it has recorded, what  *)
(* each call of search was given, and what a pass has still to find.       *)
THEOREM Invariance == Spec => []IInv
<1>1. Init => IInv
  BY InitHolds
<1>2. IInv /\ [Next]_vars => IInv'
  BY StepHolds
<1>3. QED
  BY <1>1, <1>2, PTL DEF Spec

(* Whatever the puzzle, what a solver records is the least number of moves *)
(* that solves the cube: no shorter sequence is pruned away by a symmetric *)
(* seed, the order of opposite faces, the edge masks or the corner table.  *)
THEOREM LengthsOptimal == Spec => []OptimalLengths
<1>1. IInv => OptimalLengths
  BY DEF IInv, Records
<1>2. QED
  BY <1>1, Invariance, PTL

(* The bound that update_proven_min writes into the header is true of each *)
(* cube that is unsolved, also after a pass that a signal came into.       *)
THEOREM BoundProven == Spec => []BoundIsProven
<1>1. IInv => BoundIsProven
  BY DEF IInv, Records
<1>2. QED
  BY <1>1, Invariance, PTL

(* Each call of search has the cube of its moves and the true distance of  *)
(* its edges, kept with the masks of another coset's frame, and that is    *)
(* never more than the moves that are left.                                *)
THEOREM NodesAreExact == Spec => []NodesExact
<1>1. ASSUME IInv
      PROVE  NodesExact
  <2>1. DOMAIN stack = 1 .. Len(stack)
    BY <1>1, LenProperties DEF IInv, Types
  <2>2. ASSUME NEW i \in DOMAIN stack
        PROVE  LET node == stack[i]
                   entered == ~ (i = Len(stack) /\ pc = "enter")
                   left == IF entered THEN node.depth + 1 ELSE node.depth IN
               /\ <<node.ec, node.cc>> = Played(StartCube(ec0), moves)[search_depth - left]
               /\ node.prune = EDist[node.ec]
               /\ node.prune <= left
    <3>1. Called(ec0, moves, search_depth, i, stack[i], Left(stack[i], Entered(i)))
      BY <1>1, <2>1, <2>2 DEF IInv, Calls
    <3>2. QED
      BY <3>1 DEF Called, Left, Entered
  <2>3. QED
    BY <2>2 DEF NodesExact
<1>2. IInv => NodesExact
  BY <1>1
<1>3. QED
  BY <1>2, Invariance, PTL
=============================================================================
