------------------------- MODULE CpruneTableProofs -------------------------
(***************************************************************************)
(* Proofs about CpruneTable.tla for any number of workers, any puzzle and  *)
(* any seeds: every table of the arena belongs to one worker or is in the  *)
(* free list, and generate fills it with the distances from the seeds,     *)
(* whatever was in the table and however the others' steps come between.   *)
(***************************************************************************)
EXTENDS CpruneTable, FiniteSetTheorems, SequenceTheorems, WellFoundedInduction, TLAPS

(* The workers that have a table.                                          *)
Owns(w) == pc[w] \in {"pop", "fill", "depth", "search", "push"}

Places == {"idle", "lock", "back", "pop", "check", "alloc", "fill", "depth",
           "search", "push"}

Types ==
  /\ memory \in Seq([Cell -> 0 .. FF])
  /\ free_list \in Seq(Nat)
  /\ mtx \in Worker \union {Nobody}
  /\ aborted = FALSE
  /\ pc \in [Worker -> Places]
  /\ seed \in [Worker -> SUBSET Cell]
  /\ table \in [Worker -> Nat \union {Null}]
  /\ todo \in [Worker -> Nat]
  /\ max_prune \in [Worker -> Nat]

Mutex == \A w \in Worker : mtx = w <=> pc[w] \in {"back", "pop", "check", "alloc", "push"}

(* A table has one owner.                                                  *)
OneOwner ==
  \A w \in Worker :
    /\ Owns(w) => table[w] \in 1 .. Len(memory)
    /\ ~ Owns(w) => table[w] = Null
    /\ \A v \in Worker : Owns(v) /\ table[v] = table[w] => v = w

(* What a worker has seen of the free list is still so: it has the mutex.  *)
ListSeen ==
  \A w \in Worker :
    /\ pc[w] \in {"back", "pop"} => free_list # << >>
    /\ pc[w] = "pop" => table[w] = free_list[Len(free_list)]
    /\ pc[w] \in {"check", "alloc"} => free_list = << >>

(* A table is listed once, and not while it has an owner, other than the   *)
(* one that is about to take it out of the list.                           *)
ListedOnce ==
  \A i \in 1 .. Len(free_list) :
    /\ free_list[i] \in 1 .. Len(memory)
    /\ \A j \in 1 .. Len(free_list) : free_list[i] = free_list[j] => i = j
    /\ \A w \in Worker : Owns(w) /\ table[w] = free_list[i] =>
                           pc[w] = "pop" /\ i = Len(free_list)

(* No table is lost.                                                       *)
NoneLost ==
  \A k \in 1 .. Len(memory) :
    \/ \E i \in 1 .. Len(free_list) : free_list[i] = k
    \/ \E w \in Worker : Owns(w) /\ table[w] = k

(* A table has the distances up to m from the seeds, and FF for the cells  *)
(* that are further.                                                       *)
Exact(t, seeds, m) ==
  \A c \in Cell : /\ t[c] <= m \/ t[c] = FF
                  /\ \A n \in 0 .. m : t[c] <= n <=> c \in Within[seeds][n]
                  /\ \A d \in Orbit(c) : t[d] = t[c]

Empty(t) == {c \in Cell : t[c] = FF}

IsFilled(w) ==
  /\ pc[w] \in {"lock", "back", "pop", "check", "alloc", "fill", "depth", "search"} =>
       seed[w] \in SeedSets
  /\ pc[w] \in {"depth", "search"} =>
       /\ max_prune[w] \in 0 .. N /\ max_prune[w] < FF
       /\ Exact(memory[table[w]], seed[w], max_prune[w])
       /\ todo[w] = Cardinality(Empty(memory[table[w]]))
  /\ pc[w] = "search" => todo[w] = 0

Filled == \A w \in Worker : IsFilled(w)
OthersFilled(w) == \A v \in Worker \ {w} : IsFilled(v)

IInv ==
  /\ Types /\ Mutex /\ OneOwner /\ ListSeen /\ ListedOnce /\ NoneLost /\ Filled
  /\ ArenaSuffices

-----------------------------------------------------------------------------
(* Numbers, cells and the two recursive functions.                         *)

LEMMA Numbers ==
  /\ N \in Nat /\ FF = 255
  /\ IsFiniteSet(Cell) /\ Cardinality(Cell) = N
<1>1. N \in Nat
  BY TableAssumption DEF N
<1>2. /\ IsFiniteSet(0 .. N - 1)
      /\ Cardinality(0 .. N - 1) = IF 0 > N - 1 THEN 0 ELSE (N - 1) - 0 + 1
  BY <1>1, FS_Interval
<1>3. QED
  BY <1>1, <1>2 DEF Cell, FF

LEMMA Orbits ==
  \A c \in Cell : /\ Orbit(c) \subseteq Cell /\ c \in Orbit(c)
                  /\ \A d \in Orbit(c) : Orbit(d) = Orbit(c)
<1>1. \A c \in Cell : c \in Orbit(c)
  BY DEF Orbit
<1>2. QED
  BY <1>1, TableAssumption

LEMMA Moves ==
  \A c \in Cell, k \in Move :
    Neighbor(c, k) \in Cell /\ \E j \in Move : Neighbor(Neighbor(c, k), j) \in Orbit(c)
BY TableAssumption

(* A nonempty set of numbers has a least one.                              *)
LEMMA LeastNumber ==
  ASSUME NEW S \in SUBSET Nat, S # {}
  PROVE  \E m \in S : \A n \in S : m <= n
<1> DEFINE R == OpToRel(<, Nat)
<1>1. IsWellFoundedOn(R, Nat)
  BY NatLessThanWellFounded
<1>2. \A m, n \in Nat : <<m, n>> \in R <=> m < n
  BY DEF OpToRel
<1> HIDE DEF R
<1>3. PICK m \in S : \A n \in S : ~ (<<n, m>> \in R)
  BY <1>1, WFMin, Zenon
<1>4. \A n \in S : m <= n
  <2>1. TAKE n \in S
  <2>2. m \in Nat /\ n \in Nat /\ ~ (n < m)
    BY <1>2, <1>3
  <2>3. QED
    BY <2>2
<1>5. QED
  BY <1>4

(* Induction, for a set of numbers: a number that is missing would have a  *)
(* least one before it.                                                    *)
LEMMA AllNumbers ==
  ASSUME NEW n \in Nat, NEW S, 0 \in S, \A i \in 1 .. n : i - 1 \in S => i \in S
  PROVE  \A i \in 0 .. n : i \in S
<1> DEFINE Missing == {i \in 0 .. n : i \notin S}
<1>1. SUFFICES ASSUME Missing # {}
               PROVE  FALSE
  OBVIOUS
<1>2. Missing \in SUBSET Nat
  OBVIOUS
<1>3. PICK m \in Missing : \A i \in Missing : m <= i
  BY <1>1, <1>2, LeastNumber
<1>4. m \in 1 .. n /\ m \notin S
  BY <1>3
<1>5. m - 1 \in 0 .. n /\ ~ (m <= m - 1)
  BY <1>4
<1>6. m - 1 \in S
  BY <1>3, <1>5
<1>7. QED
  BY <1>4, <1>6

(* A recursive function of the numbers up to n exists: its value at 0, and *)
(* each other one from the one before.                                     *)
LEMMA ScanSteps ==
  ASSUME NEW t, NEW depth, NEW reverse
  PROVE  /\ Scan(t, depth, reverse)[0] = t
         /\ \A i \in 1 .. N :
              Scan(t, depth, reverse)[i] =
                ScanCell(Scan(t, depth, reverse)[i - 1], i - 1, depth, reverse)
<1> DEFINE Body(g, i) == IF i = 0 THEN t ELSE ScanCell(g[i - 1], i - 1, depth, reverse)
           IsScan(g, n) == g = [i \in 0 .. n |-> Body(g, i)]
           Exists == {n \in Nat : \E g : IsScan(g, n)}
<1>1. N \in Nat
  BY Numbers
<1>2. 0 \in Exists
  <2> DEFINE g == [i \in 0 .. 0 |-> t]
  <2>1. \A i \in 0 .. 0 : i = 0 /\ Body(g, i) = t
    OBVIOUS
  <2>2. IsScan(g, 0)
    BY <2>1
  <2>3. QED
    BY <2>2
<1>3. ASSUME NEW n \in 1 .. N, n - 1 \in Exists
      PROVE  n \in Exists
  <2>1. PICK g : IsScan(g, n - 1)
    BY <1>3
  <2> DEFINE last == ScanCell(g[n - 1], n - 1, depth, reverse)
             h == [i \in 0 .. n |-> IF i = n THEN last ELSE g[i]]
  <2>2. \A i \in 0 .. n - 1 : g[i] = Body(g, i) /\ h[i] = g[i]
    BY <2>1
  <2>3. ASSUME NEW i \in 0 .. n
        PROVE  h[i] = Body(h, i)
    <3>1. CASE i = n
      <4>1. h[i] = last /\ h[i - 1] = g[n - 1]
        BY <3>1
      <4> HIDE DEF h
      <4>2. QED
        BY <3>1, <4>1
    <3>2. CASE i = 0
      <4>1. 0 \in 0 .. n - 1
        OBVIOUS
      <4>2. g[0] = Body(g, 0) /\ h[0] = g[0]
        BY <2>2, <4>1
      <4> HIDE DEF h
      <4>3. QED
        BY <3>2, <4>2
    <3>3. CASE i \in 1 .. n - 1
      <4>1. i - 1 \in 0 .. n - 1 /\ i \in 0 .. n - 1 /\ i # 0
        BY <3>3
      <4>2. h[i] = Body(g, i) /\ h[i - 1] = g[i - 1]
        BY <2>2, <4>1
      <4> HIDE DEF h
      <4>3. QED
        BY <4>1, <4>2
    <3>4. QED
      BY <3>1, <3>2, <3>3
  <2>4. h = [i \in 0 .. n |-> h[i]]
    OBVIOUS
  <2> HIDE DEF h
  <2>5. h = [i \in 0 .. n |-> Body(h, i)]
    BY <2>3, <2>4
  <2>6. QED
    BY <1>1, <2>5
<1>4. N \in Exists
  <2> HIDE DEF Exists
  <2>1. \A n \in 0 .. N : n \in Exists
    BY <1>1, <1>2, <1>3, AllNumbers
  <2>2. QED
    BY <1>1, <2>1
<1>5. IsScan(Scan(t, depth, reverse), N)
  <2>1. \E g : g = [i \in 0 .. N |-> Body(g, i)]
    BY <1>4
  <2>2. Scan(t, depth, reverse) = CHOOSE g : g = [i \in 0 .. N |-> Body(g, i)]
    BY DEF Scan
  <2>3. QED
    BY <2>1, <2>2
<1> HIDE DEF Exists
<1>6. QED
  BY <1>1, <1>5

LEMMA WithinSteps ==
  ASSUME NEW seeds \in SeedSets
  PROVE  /\ Within[seeds][0] = OrbitsOf(seeds)
         /\ \A n \in 1 .. N : Within[seeds][n] = Wider(Within[seeds][n - 1])
<1> DEFINE Body(g, i) == IF i = 0 THEN OrbitsOf(seeds) ELSE Wider(g[i - 1])
           IsWithin(g, n) == g = [i \in 0 .. n |-> Body(g, i)]
           Exists == {n \in Nat : \E g : IsWithin(g, n)}
<1>1. N \in Nat
  BY Numbers
<1>2. 0 \in Exists
  <2> DEFINE g == [i \in 0 .. 0 |-> OrbitsOf(seeds)]
  <2>1. \A i \in 0 .. 0 : i = 0 /\ Body(g, i) = OrbitsOf(seeds)
    OBVIOUS
  <2>2. IsWithin(g, 0)
    BY <2>1
  <2>3. QED
    BY <2>2
<1>3. ASSUME NEW n \in 1 .. N, n - 1 \in Exists
      PROVE  n \in Exists
  <2>1. PICK g : IsWithin(g, n - 1)
    BY <1>3
  <2> DEFINE last == Wider(g[n - 1])
             h == [i \in 0 .. n |-> IF i = n THEN last ELSE g[i]]
  <2>2. \A i \in 0 .. n - 1 : g[i] = Body(g, i) /\ h[i] = g[i]
    BY <2>1
  <2>3. ASSUME NEW i \in 0 .. n
        PROVE  h[i] = Body(h, i)
    <3>1. CASE i = n
      <4>1. h[i] = last /\ h[i - 1] = g[n - 1]
        BY <3>1
      <4> HIDE DEF h
      <4>2. QED
        BY <3>1, <4>1
    <3>2. CASE i = 0
      <4>1. 0 \in 0 .. n - 1
        OBVIOUS
      <4>2. g[0] = Body(g, 0) /\ h[0] = g[0]
        BY <2>2, <4>1
      <4> HIDE DEF h
      <4>3. QED
        BY <3>2, <4>2
    <3>3. CASE i \in 1 .. n - 1
      <4>1. i - 1 \in 0 .. n - 1 /\ i \in 0 .. n - 1 /\ i # 0
        BY <3>3
      <4>2. h[i] = Body(g, i) /\ h[i - 1] = g[i - 1]
        BY <2>2, <4>1
      <4> HIDE DEF h
      <4>3. QED
        BY <4>1, <4>2
    <3>4. QED
      BY <3>1, <3>2, <3>3
  <2>4. h = [i \in 0 .. n |-> h[i]]
    OBVIOUS
  <2> HIDE DEF h
  <2>5. h = [i \in 0 .. n |-> Body(h, i)]
    BY <2>3, <2>4
  <2>6. QED
    BY <1>1, <2>5
<1>4. N \in Exists
  <2> HIDE DEF Exists
  <2>1. \A n \in 0 .. N : n \in Exists
    BY <1>1, <1>2, <1>3, AllNumbers
  <2>2. QED
    BY <1>1, <2>1
<1>5. IsWithin(Within[seeds], N)
  <2>1. \E g : g = [i \in 0 .. N |-> Body(g, i)]
    BY <1>4
  <2>2. Within[seeds] = CHOOSE g : g = [i \in 0 .. N |-> Body(g, i)]
    BY DEF Within
  <2>3. QED
    BY <2>1, <2>2
<1> HIDE DEF Exists
<1>6. QED
  BY <1>1, <1>5

LEMMA OrbitsTogether ==
  ASSUME NEW X \in SUBSET Cell
  PROVE  /\ OrbitsOf(X) \subseteq Cell
         /\ \A c \in Cell : c \in OrbitsOf(X) <=> \E x \in X : c \in Orbit(x)
         /\ \A c \in OrbitsOf(X) : \A d \in Orbit(c) : d \in OrbitsOf(X)
<1>1. \A c : c \in OrbitsOf(X) <=> \E x \in X : c \in Orbit(x)
  BY DEF OrbitsOf
<1>2. \A x \in X : Orbit(x) \subseteq Cell /\ \A d \in Orbit(x) : Orbit(d) = Orbit(x)
  BY Orbits
<1>3. QED
  BY <1>1, <1>2

LEMMA OneMove ==
  ASSUME NEW near \in SUBSET Cell
  PROVE  /\ Wider(near) \in SUBSET Cell /\ near \subseteq Wider(near)
         /\ \A c \in Cell :
              c \in Wider(near) <=> c \in near \/ \E d \in near, k \in Move : c \in Orbit(Neighbor(d, k))
<1> DEFINE X == {Neighbor(d, k) : d \in near, k \in Move}
<1>1. X \in SUBSET Cell
  BY Moves
<1>2. \A x : x \in X <=> \E d \in near, k \in Move : x = Neighbor(d, k)
  OBVIOUS
<1>3. Wider(near) = near \union OrbitsOf(X)
  BY DEF Wider
<1> HIDE DEF X
<1>4. QED
  BY <1>1, <1>2, <1>3, OrbitsTogether

(* The sets grow, and hold cells.                                          *)
LEMMA WithinGrows ==
  ASSUME NEW seeds \in SeedSets
  PROVE  /\ \A n \in 0 .. N : Within[seeds][n] \subseteq Cell
         /\ \A m, n \in 0 .. N : m <= n => Within[seeds][m] \subseteq Within[seeds][n]
<1>1. N \in Nat /\ seeds \in SUBSET Cell
  BY Numbers, TableAssumption
<1>2. \A near \in SUBSET Cell : Wider(near) \in SUBSET Cell /\ near \subseteq Wider(near)
  BY OneMove
<1>3. \A n \in 0 .. N : Within[seeds][n] \in SUBSET Cell
  <2> DEFINE S == {n \in Nat : Within[seeds][n] \in SUBSET Cell}
  <2>1. 0 \in S
    BY <1>1, WithinSteps, OrbitsTogether
  <2>2. \A n \in 1 .. N : n - 1 \in S => n \in S
    BY <1>1, <1>2, WithinSteps
  <2> HIDE DEF S
  <2>3. \A n \in 0 .. N : n \in S
    BY <1>1, <2>1, <2>2, AllNumbers
  <2>4. QED
    BY <2>3 DEF S
<1>4. \A n \in 1 .. N : Within[seeds][n - 1] \subseteq Within[seeds][n]
  <2>1. TAKE n \in 1 .. N
  <2>2. n - 1 \in 0 .. N
    BY <1>1
  <2>3. QED
    BY <1>2, <1>3, <2>2, WithinSteps
<1>5. ASSUME NEW m \in 0 .. N
      PROVE  \A n \in 0 .. N : m <= n => Within[seeds][m] \subseteq Within[seeds][n]
  <2> DEFINE S == {n \in Nat : m <= n => Within[seeds][m] \subseteq Within[seeds][n]}
  <2>1. 0 \in S
    <3>1. m <= 0 => m = 0
      OBVIOUS
    <3>2. QED
      BY <3>1
  <2>2. ASSUME NEW n \in 1 .. N, n - 1 \in S
        PROVE  n \in S
    <3>1. CASE m = n
      BY <1>1, <3>1
    <3>2. CASE m # n
      <4>1. m <= n => m <= n - 1
        BY <1>1, <3>2
      <4>2. QED
        BY <1>1, <1>4, <2>2, <4>1
    <3>3. QED
      BY <3>1, <3>2
  <2> HIDE DEF S
  <2>3. \A n \in 0 .. N : n \in S
    BY <1>1, <2>1, <2>2, AllNumbers
  <2>4. QED
    BY <2>3 DEF S
<1>6. QED
  BY <1>3, <1>5

-----------------------------------------------------------------------------
(* What generate_depth does to a table: the empty cells that are next to   *)
(* the cells of this depth get the next one, whichever way it looks and    *)
(* although it reads the table that it writes.                             *)

IsTable(t) == t \in [Cell -> 0 .. FF] /\ \A c \in Cell : \A d \in Orbit(c) : t[d] = t[c]

(* The cells that the scan finds at a cell.                                *)
Hits(t, c, depth, reverse) ==
  IF reverse
  THEN IF t[c] = FF /\ \E k \in Move : t[Neighbor(c, k)] = depth THEN Orbit(c) ELSE {}
  ELSE IF t[c] = depth THEN OrbitsOf({Neighbor(c, k) : k \in Move}) ELSE {}

After(t, X, depth) == [d \in Cell |-> IF d \in X /\ t[d] = FF THEN depth + 1 ELSE t[d]]

Closed(X) == X \in SUBSET Cell /\ \A c \in X : \A d \in Orbit(c) : d \in X

LEMMA HitsClosed ==
  ASSUME NEW t, NEW c \in Cell, NEW depth, NEW reverse
  PROVE  Closed(Hits(t, c, depth, reverse))
<1>1. Closed(Orbit(c)) /\ Closed({})
  BY Orbits DEF Closed
<1>2. {Neighbor(c, k) : k \in Move} \in SUBSET Cell
  BY Moves
<1>3. Closed(OrbitsOf({Neighbor(c, k) : k \in Move}))
  BY <1>2, OrbitsTogether DEF Closed
<1>4. QED
  BY <1>1, <1>3 DEF Hits

LEMMA ScanForward ==
  ASSUME NEW t, IsTable(t), NEW depth \in Nat, depth + 1 < FF,
         NEW X, Closed(X), NEW c \in Cell
  PROVE  ScanCell(After(t, X, depth), c, depth, FALSE) =
           After(t, X \union Hits(t, c, depth, FALSE), depth)
<1> DEFINE s == After(t, X, depth)
           near == {k \in Move : s[Neighbor(c, k)] = FF}
           new == IF s[c] # depth \/ near = {} THEN {}
                  ELSE OrbitsOf({Neighbor(c, k) : k \in near})
           hits == Hits(t, c, depth, FALSE)
<1>1. FF = 255
  BY Numbers
<1>2. ScanCell(s, c, depth, FALSE) = [d \in Cell |-> IF d \in new /\ s[d] = FF THEN depth + 1 ELSE s[d]]
  BY DEF ScanCell
<1>3. /\ \A d \in Cell : s[d] = IF d \in X /\ t[d] = FF THEN depth + 1 ELSE t[d]
      /\ \A d \in Cell : s[d] = FF <=> t[d] = FF /\ d \notin X
      /\ \A d \in Cell : s[d] = depth <=> t[d] = depth
  BY <1>1 DEF After, IsTable
<1>4. \A d, e \in Cell : d \in Orbit(e) => (s[d] = FF <=> s[e] = FF)
  BY <1>3, Orbits DEF IsTable, Closed
<1>5. {Neighbor(c, k) : k \in Move} \in SUBSET Cell /\ {Neighbor(c, k) : k \in near} \in SUBSET Cell
  BY Moves
<1> HIDE DEF s, near
<1>6. ASSUME NEW d \in Cell, s[d] = FF
      PROVE  d \in new <=> d \in hits
  <2>1. CASE t[c] # depth
    BY <1>3, <2>1 DEF Hits
  <2>2. CASE t[c] = depth
    <3>1. d \in hits <=> \E k \in Move : d \in Orbit(Neighbor(c, k))
      BY <1>5, <2>2, OrbitsTogether DEF Hits
    <3>2. d \in new <=> \E k \in near : d \in Orbit(Neighbor(c, k))
      <4>1. s[c] = depth
        BY <1>3, <2>2
      <4>2. d \in OrbitsOf({Neighbor(c, k) : k \in near}) <=>
              \E k \in near : d \in Orbit(Neighbor(c, k))
        BY <1>5, OrbitsTogether
      <4>3. QED
        BY <4>1, <4>2
    <3>3. \A k \in Move : d \in Orbit(Neighbor(c, k)) => k \in near
      BY <1>4, <1>6, Moves DEF near
    <3>4. near \subseteq Move
      BY DEF near
    <3>5. QED
      BY <3>1, <3>2, <3>3, <3>4
  <2>3. QED
    BY <2>1, <2>2
<1> HIDE DEF new, hits
<1>7. \A d \in Cell : (IF d \in new /\ s[d] = FF THEN depth + 1 ELSE s[d]) =
                      (IF d \in X \union hits /\ t[d] = FF THEN depth + 1 ELSE t[d])
  BY <1>3, <1>6
<1>8. QED
  BY <1>2, <1>7 DEF After, s, hits

LEMMA ScanBackward ==
  ASSUME NEW t, IsTable(t), NEW depth \in Nat, depth + 1 < FF,
         NEW X, Closed(X), NEW c \in Cell
  PROVE  ScanCell(After(t, X, depth), c, depth, TRUE) =
           After(t, X \union Hits(t, c, depth, TRUE), depth)
<1> DEFINE s == After(t, X, depth)
           near == {k \in Move : s[Neighbor(c, k)] = depth}
           new == IF s[c] # FF \/ near = {} THEN {} ELSE Orbit(c)
           hits == Hits(t, c, depth, TRUE)
<1>1. FF = 255
  BY Numbers
<1>2. ScanCell(s, c, depth, TRUE) = [d \in Cell |-> IF d \in new /\ s[d] = FF THEN depth + 1 ELSE s[d]]
  BY DEF ScanCell
<1>3. /\ \A d \in Cell : s[d] = IF d \in X /\ t[d] = FF THEN depth + 1 ELSE t[d]
      /\ \A d \in Cell : s[d] = FF <=> t[d] = FF /\ d \notin X
      /\ \A d \in Cell : s[d] = depth <=> t[d] = depth
  BY <1>1 DEF After, IsTable
<1>4. near = {k \in Move : t[Neighbor(c, k)] = depth}
  BY <1>3, Moves
<1> HIDE DEF s, near
<1>5. ASSUME NEW d \in Cell, s[d] = FF
      PROVE  d \in new <=> d \in hits
  <2>1. CASE d \notin Orbit(c)
    BY <2>1 DEF Hits
  <2>2. CASE d \in Orbit(c)
    <3>1. t[d] = FF /\ d \notin X /\ t[c] = FF
      BY <1>3, <1>5, <2>2 DEF IsTable
    <3>2. c \notin X
      BY <2>2, <3>1 DEF Closed
    <3>3. s[c] = FF
      BY <1>3, <3>1, <3>2
    <3>4. d \in new <=> near # {}
      BY <2>2, <3>3
    <3>5. d \in hits <=> \E k \in Move : t[Neighbor(c, k)] = depth
      BY <2>2, <3>1 DEF Hits
    <3>6. QED
      BY <1>4, <3>4, <3>5
  <2>3. QED
    BY <2>1, <2>2
<1> HIDE DEF new, hits
<1>6. \A d \in Cell : (IF d \in new /\ s[d] = FF THEN depth + 1 ELSE s[d]) =
                      (IF d \in X \union hits /\ t[d] = FF THEN depth + 1 ELSE t[d])
  BY <1>3, <1>5
<1>7. QED
  BY <1>2, <1>6 DEF After, s, hits

LEMMA ScanTable ==
  ASSUME NEW t, IsTable(t), NEW depth \in Nat, depth + 1 < FF, NEW reverse \in BOOLEAN
  PROVE  Scan(t, depth, reverse)[N] =
           After(t, UNION {Hits(t, c, depth, reverse) : c \in Cell}, depth)
<1> DEFINE Found(i) == UNION {Hits(t, c, depth, reverse) : c \in {d \in Cell : d < i}}
           S == {i \in Nat : Scan(t, depth, reverse)[i] = After(t, Found(i), depth)}
<1>1. N \in Nat /\ Cell = 0 .. N - 1
  BY Numbers DEF Cell
<1>2. \A i : Closed(Found(i))
  BY HitsClosed DEF Closed
<1>3. 0 \in S
  <2>1. Found(0) = {}
    BY <1>1
  <2>2. After(t, {}, depth) = t
    BY DEF After, IsTable
  <2>3. QED
    BY <2>1, <2>2, ScanSteps
<1>4. ASSUME NEW i \in 1 .. N, i - 1 \in S
      PROVE  i \in S
  <2>1. i - 1 \in Cell /\ {d \in Cell : d < i} = {d \in Cell : d < i - 1} \union {i - 1}
    BY <1>1
  <2>2. Found(i) = Found(i - 1) \union Hits(t, i - 1, depth, reverse)
    BY <2>1
  <2>3. Scan(t, depth, reverse)[i] = ScanCell(After(t, Found(i - 1), depth), i - 1, depth, reverse)
    BY <1>4, ScanSteps
  <2>4. Closed(Found(i - 1))
    BY <1>2
  <2> HIDE DEF Found
  <2>5. ScanCell(After(t, Found(i - 1), depth), i - 1, depth, reverse) = After(t, Found(i), depth)
    <3>1. CASE reverse = TRUE
      <4>1. ScanCell(After(t, Found(i - 1), depth), i - 1, depth, TRUE) =
              After(t, Found(i - 1) \union Hits(t, i - 1, depth, TRUE), depth)
        BY <2>1, <2>4, ScanBackward
      <4>2. QED
        BY <2>2, <3>1, <4>1, Zenon
    <3>2. CASE reverse = FALSE
      <4>1. ScanCell(After(t, Found(i - 1), depth), i - 1, depth, FALSE) =
              After(t, Found(i - 1) \union Hits(t, i - 1, depth, FALSE), depth)
        BY <2>1, <2>4, ScanForward
      <4>2. QED
        BY <2>2, <3>2, <4>1, Zenon
    <3>3. QED
      BY <3>1, <3>2
  <2>6. QED
    BY <1>1, <2>3, <2>5
<1>5. N \in S
  <2> HIDE DEF S
  <2>1. \A i \in 0 .. N : i \in S
    BY <1>1, <1>3, <1>4, AllNumbers
  <2>2. QED
    BY <1>1, <2>1
<1>6. {d \in Cell : d < N} = Cell
  BY <1>1
<1>7. QED
  BY <1>5, <1>6

(* The cells one move from a cell of this depth.                           *)
Beyond(t, depth) ==
  {d \in Cell : \E c \in Cell, k \in Move : t[c] = depth /\ d \in Orbit(Neighbor(c, k))}

(* Both ways find the same empty cells: a move can be taken back.          *)
LEMMA ScanResult ==
  ASSUME NEW t, IsTable(t), NEW depth \in Nat, depth + 1 < FF, NEW reverse \in BOOLEAN
  PROVE  Scan(t, depth, reverse)[N] = After(t, Beyond(t, depth), depth)
<1> DEFINE found == UNION {Hits(t, c, depth, reverse) : c \in Cell}
<1>1. ASSUME NEW d \in Cell, t[d] = FF
      PROVE  d \in found <=> d \in Beyond(t, depth)
  <2>1. CASE reverse = FALSE
    <3>1. ASSUME NEW c \in Cell
          PROVE  d \in Hits(t, c, depth, reverse) <=>
                   t[c] = depth /\ \E k \in Move : d \in Orbit(Neighbor(c, k))
      <4>1. {Neighbor(c, k) : k \in Move} \in SUBSET Cell
        BY Moves
      <4>2. QED
        BY <2>1, <4>1, OrbitsTogether DEF Hits
    <3>2. QED
      BY <3>1 DEF Beyond
  <2>2. CASE reverse = TRUE
    <3>1. \A c \in Cell : d \in Hits(t, c, depth, reverse) <=>
            /\ t[c] = FF /\ d \in Orbit(c)
            /\ \E k \in Move : t[Neighbor(c, k)] = depth
      BY <2>2 DEF Hits
    <3>2. ASSUME NEW c \in Cell, d \in Hits(t, c, depth, reverse)
          PROVE  d \in Beyond(t, depth)
      <4>1. PICK k \in Move : t[Neighbor(c, k)] = depth
        BY <3>1, <3>2
      <4>2. PICK j \in Move : Neighbor(Neighbor(c, k), j) \in Orbit(c)
        BY Moves
      <4>3. Neighbor(c, k) \in Cell /\ d \in Orbit(Neighbor(Neighbor(c, k), j))
        BY <3>1, <3>2, <4>2, Moves, Orbits
      <4>4. QED
        BY <4>1, <4>3 DEF Beyond
    <3>3. ASSUME d \in Beyond(t, depth)
          PROVE  \E c \in Cell : d \in Hits(t, c, depth, reverse)
      <4>1. PICK c \in Cell, k \in Move : t[c] = depth /\ d \in Orbit(Neighbor(c, k))
        BY <3>3 DEF Beyond
      <4> DEFINE e == Neighbor(c, k)
      <4>2. PICK j \in Move : Neighbor(e, j) \in Orbit(c)
        BY Moves
      <4>3. e \in Cell /\ t[e] = FF /\ t[Neighbor(e, j)] = depth
        BY <1>1, <4>1, <4>2, Moves DEF IsTable
      <4>4. d \in Hits(t, e, depth, reverse)
        BY <3>1, <4>1, <4>3
      <4>5. QED
        BY <4>3, <4>4
    <3>4. QED
      BY <3>2, <3>3
  <2>3. QED
    BY <2>1, <2>2
<1>2. Scan(t, depth, reverse)[N] = After(t, found, depth)
  BY ScanTable
<1> HIDE DEF found
<1>3. QED
  BY <1>1, <1>2 DEF After

(* One more depth.                                                         *)
LEMMA NextDepth ==
  ASSUME NEW t, NEW seeds \in SeedSets, NEW m \in Nat, m + 1 <= N, m + 1 < FF,
         t \in [Cell -> 0 .. FF], Exact(t, seeds, m), NEW reverse \in BOOLEAN
  PROVE  /\ Scan(t, m, reverse)[N] \in [Cell -> 0 .. FF]
         /\ Exact(Scan(t, m, reverse)[N], seeds, m + 1)
         /\ \A c \in Cell : Scan(t, m, reverse)[N][c] # t[c] <=>
                              t[c] = FF /\ Scan(t, m, reverse)[N][c] # FF
<1> DEFINE X == Beyond(t, m)
           s == Scan(t, m, reverse)[N]
<1>1. FF = 255 /\ N \in Nat
  BY Numbers
<1>2. IsTable(t)
  BY DEF IsTable, Exact
<1>3. s = [d \in Cell |-> IF d \in X /\ t[d] = FF THEN m + 1 ELSE t[d]]
  BY <1>2, ScanResult DEF After
<1>4. Closed(X)
  <2>1. ASSUME NEW c \in X, NEW d \in Orbit(c)
        PROVE  d \in X
    <3>1. PICK b \in Cell, k \in Move : t[b] = m /\ c \in Orbit(Neighbor(b, k))
      BY <2>1 DEF Beyond
    <3>2. d \in Cell /\ d \in Orbit(Neighbor(b, k))
      BY <2>1, <3>1, Moves, Orbits DEF Beyond
    <3>3. QED
      BY <3>1, <3>2 DEF Beyond
  <2>2. QED
    BY <2>1 DEF Closed, Beyond
<1> HIDE DEF s, X
<1>5. s \in [Cell -> 0 .. FF]
  BY <1>1, <1>2, <1>3 DEF IsTable
<1>6. \A c \in Cell : s[c] # t[c] <=> t[c] = FF /\ s[c] # FF
  BY <1>1, <1>3
<1>7. \A c \in Cell : \A d \in Orbit(c) : s[d] = s[c]
  BY <1>2, <1>3, <1>4, Orbits DEF IsTable, Closed
<1>8. \A c \in Cell : s[c] <= m + 1 \/ s[c] = FF
  BY <1>1, <1>3 DEF Exact
<1>9. ASSUME NEW c \in Cell, NEW n \in 0 .. m
      PROVE  s[c] <= n <=> c \in Within[seeds][n]
  <2>1. s[c] <= n <=> t[c] <= n
    BY <1>1, <1>3
  <2>2. QED
    BY <2>1 DEF Exact
<1>10. ASSUME NEW c \in Cell
       PROVE  s[c] <= m + 1 <=> c \in Within[seeds][m + 1]
  <2> DEFINE W == Within[seeds][m]
  <2>1. W \in SUBSET Cell
    BY <1>1, WithinGrows
  <2>2. \A d \in Cell : d \in W <=> t[d] <= m
    BY DEF Exact
  <2>3. c \in Within[seeds][m + 1] <=>
          c \in W \/ \E d \in W, k \in Move : c \in Orbit(Neighbor(d, k))
    <3>1. m + 1 \in 1 .. N /\ (m + 1) - 1 = m
      BY <1>1
    <3>2. Within[seeds][m + 1] = Wider(W)
      BY <3>1, WithinSteps
    <3> HIDE DEF W
    <3>3. QED
      BY <2>1, <3>2, OneMove
  <2> HIDE DEF W
  <2>4. s[c] <= m + 1 <=> t[c] <= m \/ (t[c] = FF /\ c \in X)
    BY <1>1, <1>3 DEF Exact
  <2>5. ASSUME t[c] = FF, c \in X
        PROVE  \E d \in W, k \in Move : c \in Orbit(Neighbor(d, k))
    <3>1. PICK d \in Cell, k \in Move : t[d] = m /\ c \in Orbit(Neighbor(d, k))
      BY <2>5 DEF X, Beyond
    <3>2. d \in W
      BY <2>2, <3>1
    <3>3. QED
      BY <3>1, <3>2
  <2>6. ASSUME NEW d \in W, NEW k \in Move, c \in Orbit(Neighbor(d, k)), ~ (t[c] <= m)
        PROVE  t[c] = FF /\ c \in X
    <3>1. t[c] = FF
      BY <2>6 DEF Exact
    <3>2. d \in Cell /\ t[d] <= m /\ t[d] \in 0 .. FF
      BY <2>1, <2>2 DEF IsTable
    <3>3. CASE t[d] = m
      BY <2>6, <3>1, <3>2, <3>3 DEF X, Beyond
    <3>4. CASE t[d] # m
      <4> DEFINE n == t[d] + 1
      <4>1. n \in 1 .. N /\ n - 1 = t[d] /\ n \in 0 .. m /\ t[d] \in 0 .. m
        BY <1>1, <3>2, <3>4
      <4>2. d \in Within[seeds][n - 1] /\ Within[seeds][n - 1] \in SUBSET Cell
        BY <1>1, <3>2, <4>1, WithinGrows DEF Exact
      <4> HIDE DEF n
      <4>3. Within[seeds][n] = Wider(Within[seeds][n - 1])
        BY <4>1, WithinSteps
      <4>4. c \in Within[seeds][n]
        BY <2>6, <4>2, <4>3, OneMove
      <4>5. t[c] <= n
        BY <4>1, <4>4 DEF Exact
      <4>6. QED
        BY <1>1, <2>6, <3>1, <4>1, <4>5
    <3>5. QED
      BY <3>3, <3>4
  <2>7. QED
    BY <2>2, <2>3, <2>4, <2>5, <2>6
<1>11. Exact(s, seeds, m + 1)
  <2>1. \A n \in 0 .. m + 1 : n = m + 1 \/ n \in 0 .. m
    OBVIOUS
  <2>2. QED
    BY <1>7, <1>8, <1>9, <1>10, <2>1 DEF Exact
<1>12. QED
  BY <1>5, <1>6, <1>11 DEF s

-----------------------------------------------------------------------------
(* The pool.                                                               *)

LEMMA InitInvariant == Init => IInv
<1> SUFFICES ASSUME Init
             PROVE  IInv
  OBVIOUS
<1>1. \A w \in Worker : pc[w] = "idle" /\ table[w] = Null
  BY DEF Init
<1>2. memory = << >> /\ free_list = << >> /\ Len(memory) = 0 /\ Len(free_list) = 0
  BY EmptySeq DEF Init
<1>3. Types
  <2>1. memory \in Seq([Cell -> 0 .. FF]) /\ free_list \in Seq(Nat)
    BY <1>2, EmptySeq
  <2>2. pc \in [Worker -> Places]
    BY DEF Init, Places
  <2>3. QED
    BY <2>1, <2>2 DEF Init, Types
<1>4. Mutex /\ Filled
  BY <1>1, TableAssumption DEF Init, Mutex, Filled, IsFilled
<1>5. OneOwner
  BY <1>1 DEF OneOwner, Owns
<1>6. ListSeen /\ ListedOnce /\ NoneLost
  BY <1>1, <1>2 DEF ListSeen, ListedOnce, NoneLost
<1>7. ArenaSuffices
  BY <1>2, TableAssumption, FS_CardinalityType DEF Init, ArenaSuffices
<1>8. QED
  BY <1>3, <1>4, <1>5, <1>6, <1>7 DEF IInv

(* When the free list is empty, every table has an owner other than the    *)
(* worker that has none.                                                   *)
LEMMA RoomLeft ==
  ASSUME IInv, NEW w \in Worker, pc[w] \in {"check", "alloc"}
  PROVE  Len(memory) + 1 <= Cardinality(Worker)
<1> DEFINE others == Worker \ {w}
           f == [k \in 1 .. Len(memory) |-> CHOOSE v \in others : Owns(v) /\ table[v] = k]
<1>1. Len(memory) \in Nat
  BY DEF IInv, Types
<1>2. /\ IsFiniteSet(Worker) /\ Cardinality(Worker) \in Nat
      /\ IsFiniteSet(others) /\ Cardinality(others) = Cardinality(Worker) - 1
  BY TableAssumption, FS_CardinalityType, FS_RemoveElement
<1>3. /\ IsFiniteSet(1 .. Len(memory))
      /\ Cardinality(1 .. Len(memory)) = IF 1 > Len(memory) THEN 0 ELSE Len(memory) - 1 + 1
  BY <1>1, FS_Interval
<1>4. \A k \in 1 .. Len(memory) : \E v \in others : Owns(v) /\ table[v] = k
  <2>1. TAKE k \in 1 .. Len(memory)
  <2>2. Len(free_list) = 0 /\ ~ Owns(w)
    BY EmptySeq DEF IInv, ListSeen, Owns
  <2>3. QED
    BY <2>2 DEF IInv, NoneLost
<1>5. \A k \in 1 .. Len(memory) : f[k] \in others /\ table[f[k]] = k
  BY <1>4
<1>6. f \in [1 .. Len(memory) -> others]
  BY <1>4
<1> HIDE DEF f
<1>7. ~ (Cardinality(others) < Cardinality(1 .. Len(memory)))
  <2>1. SUFFICES ASSUME Cardinality(others) < Cardinality(1 .. Len(memory))
                 PROVE  FALSE
    OBVIOUS
  <2>2. \E j, k \in 1 .. Len(memory) : j # k /\ f[j] = f[k]
    BY <1>2, <1>3, <1>6, <2>1, FS_PigeonHole
  <2>3. QED
    BY <1>5, <2>2
<1>8. QED
  BY <1>1, <1>2, <1>3, <1>7

(* Steps that do not hand a table over.                                    *)
LEMMA SameOwners ==
  ASSUME IInv, UNCHANGED <<free_list, aborted, table>>, Len(memory') = Len(memory),
         \A v \in Worker : /\ Owns(v)' <=> Owns(v)
                           /\ pc[v] = "pop" => pc'[v] = "pop"
  PROVE  OneOwner' /\ ListedOnce' /\ NoneLost' /\ ArenaSuffices'
<1>1. \A v \in Worker : Owns(v)' <=> Owns(v)
  OBVIOUS
<1>2. OneOwner'
  <2> HIDE DEF Owns
  <2>1. QED
    BY <1>1 DEF IInv, OneOwner
<1>3. ListedOnce'
  BY <1>1 DEF IInv, ListedOnce
<1>4. NoneLost'
  BY <1>1 DEF IInv, NoneLost
<1>5. ArenaSuffices'
  BY DEF IInv, ArenaSuffices
<1>6. QED
  BY <1>2, <1>3, <1>4, <1>5

(* A worker's table is no one else's, and stays as it is if the memory of  *)
(* the others is all that changes.                                         *)
LEMMA SameTables ==
  ASSUME IInv, NEW w \in Worker,
         \A v \in Worker \ {w} : /\ pc'[v] = pc[v] /\ seed'[v] = seed[v] /\ table'[v] = table[v]
                                 /\ todo'[v] = todo[v] /\ max_prune'[v] = max_prune[v],
         \A v \in Worker \ {w} : Owns(v) => memory'[table[v]] = memory[table[v]]
  PROVE  /\ OthersFilled(w)'
         /\ /\ pc'[w] \in {"lock", "back", "pop", "check", "alloc", "fill"} => seed'[w] \in SeedSets
            /\ pc'[w] \notin {"depth", "search"}
            => Filled'
<1>1. ASSUME NEW v \in Worker \ {w}, pc[v] \in {"depth", "search"}
      PROVE  /\ Exact(memory'[table'[v]], seed'[v], max_prune'[v])
             /\ memory'[table'[v]] = memory[table[v]]
  <2>1. Exact(memory[table[v]], seed[v], max_prune[v])
    BY <1>1 DEF IInv, Filled, IsFilled
  <2>2. memory'[table'[v]] = memory[table[v]]
    BY <1>1 DEF Owns
  <2>3. QED
    BY <2>1, <2>2
<1>2. OthersFilled(w)'
  BY <1>1 DEF IInv, Filled, OthersFilled, IsFilled
<1>3. QED
  BY <1>2 DEF Filled, OthersFilled, IsFilled

LEMMA GenerateInvariant ==
  ASSUME IInv, NEW w \in Worker, NEW cubes \in SeedSets, Generate(w, cubes)
  PROVE  IInv'
<1>1. PICK b \in {"lock", "fill"} :
        /\ pc' = [pc EXCEPT ![w] = b]
        /\ b = "lock" <=> table[w] = Null
  BY DEF Generate
<1>2. /\ pc[w] \in {"idle", "search"} /\ seed' = [seed EXCEPT ![w] = cubes]
      /\ UNCHANGED <<memory, free_list, mtx, aborted, table, todo, max_prune>>
  BY DEF Generate, pool
<1>3. /\ pc'[w] = b /\ seed'[w] = cubes
      /\ \A v \in Worker \ {w} : pc'[v] = pc[v] /\ seed'[v] = seed[v]
  BY <1>1, <1>2 DEF IInv, Types
<1>4. Owns(w) <=> b = "fill"
  <2>1. Owns(w) => table[w] # Null
    BY TableAssumption DEF IInv, OneOwner
  <2>2. ~ Owns(w) => table[w] = Null
    BY DEF IInv, OneOwner
  <2>3. QED
    BY <1>1, <2>1, <2>2
<1>5. Types'
  <2>1. pc' \in [Worker -> Places]
    BY <1>1 DEF IInv, Types, Places
  <2>2. seed' \in [Worker -> SUBSET Cell]
    BY <1>2, TableAssumption DEF IInv, Types
  <2>3. QED
    BY <1>2, <2>1, <2>2 DEF IInv, Types
<1>6. Mutex'
  BY <1>1, <1>2, <1>3 DEF IInv, Mutex
<1>7. \A v \in Worker : (Owns(v)' <=> Owns(v)) /\ (pc[v] = "pop" => pc'[v] = "pop")
  BY <1>2, <1>3, <1>4 DEF Owns
<1>8. ListSeen'
  BY <1>1, <1>2, <1>3 DEF IInv, ListSeen
<1>9. Filled'
  BY <1>1, <1>2, <1>3, SameTables
<1>10. QED
  BY <1>2, <1>5, <1>6, <1>7, <1>8, <1>9, SameOwners DEF IInv

LEMMA LockPoolInvariant ==
  ASSUME IInv, NEW w \in Worker, LockPool(w)
  PROVE  IInv'
<1>1. PICK b \in {"check", "back"} :
        /\ pc' = [pc EXCEPT ![w] = b]
        /\ b = "check" <=> free_list = << >>
  BY DEF LockPool, Go
<1>2. /\ pc[w] = "lock" /\ mtx = Nobody /\ mtx' = w
      /\ UNCHANGED <<memory, free_list, aborted, seed, table, todo, max_prune>>
  BY DEF LockPool, Go
<1>3. pc'[w] = b /\ \A v \in Worker \ {w} : pc'[v] = pc[v]
  BY <1>1 DEF IInv, Types
<1>4. Types'
  <2>1. pc' \in [Worker -> Places]
    BY <1>1 DEF IInv, Types, Places
  <2>2. QED
    BY <1>2, <2>1 DEF IInv, Types
<1>5. Mutex'
  <2>1. \A v \in Worker : pc[v] \notin {"back", "pop", "check", "alloc", "push"}
    BY <1>2, TableAssumption DEF IInv, Mutex
  <2>2. QED
    BY <1>2, <1>3, <2>1 DEF Mutex
<1>6. \A v \in Worker : (Owns(v)' <=> Owns(v)) /\ (pc[v] = "pop" => pc'[v] = "pop")
  BY <1>2, <1>3 DEF Owns
<1>7. ListSeen'
  BY <1>1, <1>2, <1>3 DEF IInv, ListSeen
<1>8. Filled'
  <2>1. seed[w] \in SeedSets
    BY <1>2 DEF IInv, Filled, IsFilled
  <2>2. QED
    BY <1>1, <1>2, <1>3, <2>1, SameTables
<1>9. QED
  BY <1>2, <1>4, <1>5, <1>6, <1>7, <1>8, SameOwners DEF IInv

LEMMA BackInvariant ==
  ASSUME IInv, NEW w \in Worker, Back(w)
  PROVE  IInv'
<1> DEFINE n == Len(free_list)
           k == free_list[n]
<1>1. /\ pc[w] = "back" /\ mtx = w /\ ~ Owns(w) /\ free_list # << >>
      /\ pc' = [pc EXCEPT ![w] = "pop"]
      /\ table' = [table EXCEPT ![w] = k]
      /\ UNCHANGED <<memory, free_list, mtx, aborted, seed, todo, max_prune>>
  BY DEF Back, Go, pool, IInv, Mutex, ListSeen, Owns
<1>2. n \in 1 .. n /\ k \in 1 .. Len(memory)
  <2>1. n \in Nat \ {0}
    BY <1>1, EmptySeq DEF IInv, Types
  <2>2. QED
    BY <2>1 DEF IInv, ListedOnce
<1>3. /\ pc'[w] = "pop" /\ table'[w] = k /\ Owns(w)'
      /\ \A v \in Worker \ {w} : pc'[v] = pc[v] /\ table'[v] = table[v] /\ (Owns(v)' <=> Owns(v))
  BY <1>1 DEF IInv, Types, Owns
<1>4. \A v \in Worker : pc[v] # "pop"
  BY <1>1 DEF IInv, Mutex
<1>5. \A v \in Worker, i \in 1 .. n : Owns(v) => table[v] # free_list[i]
  BY <1>4 DEF IInv, ListedOnce
<1>6. Types'
  <2>1. pc' \in [Worker -> Places]
    BY <1>1 DEF IInv, Types, Places
  <2>2. table' \in [Worker -> Nat \union {Null}]
    <3>1. k \in Nat
      BY <1>2
    <3> HIDE DEF k
    <3>2. QED
      BY <1>1, <3>1 DEF IInv, Types
  <2>3. QED
    BY <1>1, <2>1, <2>2 DEF IInv, Types
<1>7. Mutex'
  BY <1>1, <1>3 DEF IInv, Mutex
<1>8. OneOwner'
  <2>1. \A v \in Worker \ {w} : Owns(v) => table[v] # k
    BY <1>2, <1>5
  <2>2. ASSUME NEW v \in Worker \ {w}
        PROVE  /\ Owns(v) => table[v] \in 1 .. Len(memory)
               /\ ~ Owns(v) => table[v] = Null
               /\ table[v] # k
               /\ \A u \in Worker : Owns(u) /\ table[u] = table[v] => u = v
    BY <1>2, <2>1, TableAssumption DEF IInv, OneOwner
  <2> HIDE DEF k, n, Owns
  <2>3. QED
    BY <1>1, <1>2, <1>3, <2>1, <2>2 DEF OneOwner
<1>9. ListSeen'
  BY <1>1, <1>3, <1>4 DEF IInv, ListSeen, Mutex
<1>10. ListedOnce'
  <2>1. \A i \in 1 .. n : free_list[i] = k => i = n
    BY <1>2 DEF IInv, ListedOnce
  <2> HIDE DEF Owns
  <2>2. QED
    BY <1>1, <1>3, <1>5, <2>1 DEF IInv, ListedOnce
<1>11. NoneLost'
  <2> HIDE DEF Owns
  <2>1. QED
    BY <1>1, <1>3 DEF IInv, NoneLost
<1>12. Filled'
  <2>1. seed[w] \in SeedSets
    BY <1>1 DEF IInv, Filled, IsFilled
  <2>2. QED
    BY <1>1, <1>3, <2>1, SameTables
<1>13. ArenaSuffices'
  BY <1>1 DEF IInv, ArenaSuffices
<1>14. QED
  BY <1>6, <1>7, <1>8, <1>9, <1>10, <1>11, <1>12, <1>13 DEF IInv

LEMMA PopInvariant ==
  ASSUME IInv, NEW w \in Worker, Pop(w)
  PROVE  IInv'
<1> DEFINE n == Len(free_list)
<1>1. /\ pc[w] = "pop" /\ mtx = w /\ mtx' = Nobody /\ free_list # << >>
      /\ pc' = [pc EXCEPT ![w] = "fill"]
      /\ free_list' = SubSeq(free_list, 1, n - 1)
      /\ UNCHANGED <<memory, aborted, seed, table, todo, max_prune>>
  BY DEF Pop, Go, Popped, IInv, Mutex, ListSeen
<1>2. n \in Nat \ {0} /\ free_list \in Seq(Nat)
  BY <1>1, EmptySeq DEF IInv, Types
<1>3. /\ free_list' \in Seq(Nat) /\ Len(free_list') = n - 1
      /\ \A i \in 1 .. n - 1 : free_list'[i] = free_list[i]
  <2>1. \A i \in 1 .. n - 1 : free_list[i] \in Nat
    BY <1>2
  <2>2. /\ SubSeq(free_list, 1, n - 1) \in Seq(Nat)
        /\ Len(SubSeq(free_list, 1, n - 1)) = IF 1 <= n - 1 THEN n - 1 - 1 + 1 ELSE 0
        /\ \A i \in 1 .. n - 1 - 1 + 1 : SubSeq(free_list, 1, n - 1)[i] = free_list[1 + i - 1]
    BY <1>2, <2>1, SubSeqProperties
  <2> HIDE DEF n
  <2>3. QED
    BY <1>1, <1>2, <2>2
<1>4. /\ pc'[w] = "fill" /\ \A v \in Worker \ {w} : pc'[v] = pc[v]
      /\ \A v \in Worker : Owns(v)' <=> Owns(v)
      /\ Owns(w) /\ table[w] = free_list[n]
  BY <1>1 DEF IInv, Types, Owns, ListSeen
<1>5. \A v \in Worker \ {w} : pc[v] \notin {"back", "pop", "check", "alloc", "push"}
  BY <1>1 DEF IInv, Mutex
<1>6. Types'
  <2>1. pc' \in [Worker -> Places]
    BY <1>1 DEF IInv, Types, Places
  <2>2. QED
    BY <1>1, <1>3, <2>1 DEF IInv, Types
<1>7. Mutex'
  BY <1>1, <1>4, <1>5, TableAssumption DEF Mutex
<1>8. OneOwner'
  <2> HIDE DEF Owns
  <2>1. QED
    BY <1>1, <1>4 DEF IInv, OneOwner
<1>9. ListSeen'
  BY <1>4, <1>5 DEF ListSeen
<1>10. ListedOnce'
  <2>1. \A i \in 1 .. n - 1 : i \in 1 .. n /\ n \in 1 .. n /\ i # n
    BY <1>2
  <2>2. ASSUME NEW i \in 1 .. n - 1, NEW v \in Worker, Owns(v), table[v] = free_list[i]
        PROVE  FALSE
    <3>1. i = n
      BY <2>1, <2>2 DEF IInv, ListedOnce
    <3>2. QED
      BY <2>1, <3>1
  <2> HIDE DEF n, Owns
  <2>3. QED
    BY <1>1, <1>3, <1>4, <2>1, <2>2 DEF IInv, ListedOnce, n
<1>11. NoneLost'
  <2>1. ASSUME NEW k \in 1 .. Len(memory), NEW i \in 1 .. n, free_list[i] = k
        PROVE  (\E j \in 1 .. n - 1 : free_list'[j] = k) \/ \E v \in Worker : Owns(v) /\ table[v] = k
    <3>1. CASE i = n
      BY <1>4, <2>1, <3>1
    <3>2. CASE i # n
      <4>1. i \in 1 .. n - 1
        BY <1>2, <3>2
      <4>2. QED
        BY <1>3, <2>1, <4>1
    <3>3. QED
      BY <3>1, <3>2
  <2> HIDE DEF Owns
  <2>2. QED
    BY <1>1, <1>3, <1>4, <2>1 DEF IInv, NoneLost
<1>12. Filled'
  <2>1. seed[w] \in SeedSets
    BY <1>1 DEF IInv, Filled, IsFilled
  <2>2. QED
    BY <1>1, <1>4, <2>1, SameTables
<1>13. ArenaSuffices'
  BY <1>1 DEF IInv, ArenaSuffices
<1>14. QED
  BY <1>6, <1>7, <1>8, <1>9, <1>10, <1>11, <1>12, <1>13 DEF IInv

(* The arena has room, so the program goes on.                             *)
LEMMA CheckSpaceInvariant ==
  ASSUME IInv, NEW w \in Worker, CheckSpace(w)
  PROVE  IInv'
<1>1. /\ pc[w] = "check"
      /\ UNCHANGED <<memory, free_list, mtx, seed, table, todo, max_prune>>
  BY DEF CheckSpace, Go
<1>2. ~ (Len(memory) + 1 > Capacity)
  <2>1. Len(memory) + 1 <= Cardinality(Worker)
    BY <1>1, RoomLeft
  <2>2. Len(memory) \in Nat /\ Cardinality(Worker) \in Nat /\ Capacity \in Nat
        /\ Capacity >= Cardinality(Worker)
    BY TableAssumption, FS_CardinalityType DEF IInv, Types
  <2>3. QED
    BY <2>1, <2>2
<1>3. pc' = [pc EXCEPT ![w] = "alloc"] /\ aborted' = FALSE
  BY <1>2 DEF CheckSpace, Go, IInv, Types
<1>4. pc'[w] = "alloc" /\ \A v \in Worker \ {w} : pc'[v] = pc[v]
  BY <1>3 DEF IInv, Types
<1>5. Types'
  <2>1. pc' \in [Worker -> Places]
    BY <1>3 DEF IInv, Types, Places
  <2>2. QED
    BY <1>1, <1>3, <2>1 DEF IInv, Types
<1>6. Mutex'
  BY <1>1, <1>4 DEF IInv, Mutex
<1>7. \A v \in Worker : (Owns(v)' <=> Owns(v)) /\ (pc[v] = "pop" => pc'[v] = "pop")
  BY <1>1, <1>4 DEF Owns
<1>8. ListSeen'
  BY <1>1, <1>4 DEF IInv, ListSeen
<1>9. Filled'
  <2>1. seed[w] \in SeedSets
    BY <1>1 DEF IInv, Filled, IsFilled
  <2>2. QED
    BY <1>1, <1>4, <2>1, SameTables
<1>10. UNCHANGED aborted
  BY <1>3 DEF IInv, Types
<1>11. QED
  BY <1>1, <1>5, <1>6, <1>7, <1>8, <1>9, <1>10, SameOwners DEF IInv

LEMMA AllocateInvariant ==
  ASSUME IInv, NEW w \in Worker, Allocate(w)
  PROVE  IInv'
<1> DEFINE n == Len(memory)
           zeros == [c \in Cell |-> 0]
<1>1. /\ pc[w] = "alloc" /\ mtx = w /\ mtx' = Nobody /\ ~ Owns(w)
      /\ pc' = [pc EXCEPT ![w] = "fill"]
      /\ memory' = Append(memory, zeros)
      /\ table' = [table EXCEPT ![w] = n + 1]
      /\ UNCHANGED <<free_list, aborted, seed, todo, max_prune>>
  BY DEF Allocate, Go, IInv, Mutex, Owns
<1>2. free_list = << >> /\ Len(free_list) = 0
  BY <1>1, EmptySeq DEF IInv, ListSeen
<1>3. n \in Nat /\ n + 1 \in Nat /\ n + 1 \notin 1 .. n
  BY DEF IInv, Types
<1>4. /\ memory' \in Seq([Cell -> 0 .. FF]) /\ Len(memory') = n + 1
      /\ \A k \in 1 .. n : memory'[k] = memory[k]
  <2>1. zeros \in [Cell -> 0 .. FF]
    BY DEF FF
  <2> HIDE DEF zeros
  <2>2. QED
    BY <1>1, <2>1, AppendProperties DEF IInv, Types
<1> HIDE DEF n
<1>5. /\ pc'[w] = "fill" /\ table'[w] = n + 1 /\ Owns(w)'
      /\ \A v \in Worker \ {w} : pc'[v] = pc[v] /\ table'[v] = table[v] /\ (Owns(v)' <=> Owns(v))
  BY <1>1 DEF IInv, Types, Owns
<1>6. \A v \in Worker \ {w} : pc[v] \notin {"back", "pop", "check", "alloc", "push"}
  BY <1>1 DEF IInv, Mutex
<1>7. \A v \in Worker \ {w} :
        /\ Owns(v) => table[v] \in 1 .. n
        /\ ~ Owns(v) => table[v] = Null
        /\ \A u \in Worker : Owns(u) /\ table[u] = table[v] => u = v
  BY DEF IInv, OneOwner, n
<1>8. Types'
  <2>1. pc' \in [Worker -> Places]
    BY <1>1 DEF IInv, Types, Places
  <2>2. table' \in [Worker -> Nat \union {Null}]
    BY <1>1, <1>3 DEF IInv, Types
  <2>3. mtx' \in Worker \union {Nobody}
    BY <1>1
  <2>4. QED
    BY <1>1, <1>4, <2>1, <2>2, <2>3 DEF IInv, Types
<1>9. Mutex'
  BY <1>1, <1>5, <1>6, TableAssumption DEF Mutex
<1>10. OneOwner'
  <2>1. \A v \in Worker \ {w} : table[v] # n + 1
    BY <1>3, <1>7, TableAssumption
  <2>2. n + 1 \in 1 .. n + 1 /\ \A k \in 1 .. n : k \in 1 .. n + 1
    BY <1>3
  <2> HIDE DEF Owns
  <2>3. QED
    BY <1>4, <1>5, <1>7, <2>1, <2>2 DEF OneOwner
<1>11. ListSeen'
  BY <1>5, <1>6 DEF ListSeen
<1>12. ListedOnce'
  BY <1>1, <1>2 DEF ListedOnce
<1>13. NoneLost'
  <2>1. \A k \in 1 .. n + 1 : k \in 1 .. n \/ k = n + 1
    BY <1>3
  <2>2. \A k \in 1 .. n : \E v \in Worker : Owns(v) /\ table[v] = k
    BY <1>2 DEF IInv, NoneLost, n
  <2> HIDE DEF Owns
  <2>3. \A k \in 1 .. n : \E v \in Worker : Owns(v)' /\ table'[v] = k
    <3>1. ~ Owns(w)
      BY <1>1
    <3>2. QED
      BY <1>5, <2>2, <3>1
  <2>4. QED
    BY <1>4, <1>5, <2>1, <2>3 DEF NoneLost
<1>14. Filled'
  <2>1. seed[w] \in SeedSets
    BY <1>1 DEF IInv, Filled, IsFilled
  <2>2. QED
    BY <1>1, <1>4, <1>5, <1>7, <2>1, SameTables
<1>15. ArenaSuffices'
  <2>1. n + 1 <= Cardinality(Worker)
    BY <1>1, RoomLeft DEF n
  <2>2. QED
    BY <1>1, <1>4, <2>1 DEF IInv, ArenaSuffices
<1>16. QED
  BY <1>8, <1>9, <1>10, <1>11, <1>12, <1>13, <1>14, <1>15 DEF IInv

LEMMA DestroyInvariant ==
  ASSUME IInv, NEW w \in Worker, Destroy(w)
  PROVE  IInv'
<1>1. /\ pc[w] = "search" /\ mtx = Nobody /\ mtx' = w
      /\ pc' = [pc EXCEPT ![w] = "push"]
      /\ UNCHANGED <<memory, free_list, aborted, seed, table, todo, max_prune>>
  BY DEF Destroy, Go
<1>2. pc'[w] = "push" /\ \A v \in Worker \ {w} : pc'[v] = pc[v]
  BY <1>1 DEF IInv, Types
<1>3. Types'
  <2>1. pc' \in [Worker -> Places]
    BY <1>1 DEF IInv, Types, Places
  <2>2. QED
    BY <1>1, <2>1 DEF IInv, Types
<1>4. Mutex'
  <2>1. \A v \in Worker : pc[v] \notin {"back", "pop", "check", "alloc", "push"}
    BY <1>1, TableAssumption DEF IInv, Mutex
  <2>2. QED
    BY <1>1, <1>2, <2>1 DEF Mutex
<1>5. \A v \in Worker : (Owns(v)' <=> Owns(v)) /\ (pc[v] = "pop" => pc'[v] = "pop")
  BY <1>1, <1>2 DEF Owns
<1>6. ListSeen'
  BY <1>1, <1>2 DEF IInv, ListSeen
<1>7. Filled'
  BY <1>1, <1>2, SameTables
<1>8. QED
  BY <1>1, <1>3, <1>4, <1>5, <1>6, <1>7, SameOwners DEF IInv

LEMMA PushInvariant ==
  ASSUME IInv, NEW w \in Worker, Push(w)
  PROVE  IInv'
<1> DEFINE n == Len(free_list)
           k == table[w]
<1>1. /\ pc[w] = "push" /\ mtx = w /\ mtx' = Nobody /\ Owns(w)
      /\ pc' = [pc EXCEPT ![w] = "idle"]
      /\ free_list' = Append(free_list, k)
      /\ table' = [table EXCEPT ![w] = Null]
      /\ seed' = [seed EXCEPT ![w] = {}]
      /\ max_prune' = [max_prune EXCEPT ![w] = 0]
      /\ UNCHANGED <<memory, aborted, todo>>
  BY DEF Push, Go, GivenBack, IInv, Mutex, Owns
<1>2. k \in 1 .. Len(memory) /\ k \in Nat /\ n \in Nat
  BY <1>1 DEF IInv, OneOwner, Types
<1>3. /\ free_list' \in Seq(Nat) /\ Len(free_list') = n + 1
      /\ \A i \in 1 .. n : free_list'[i] = free_list[i]
      /\ free_list'[n + 1] = k
  BY <1>1, <1>2, AppendProperties DEF IInv, Types
<1> HIDE DEF n, k
<1>4. /\ pc'[w] = "idle" /\ table'[w] = Null /\ ~ Owns(w)'
      /\ \A v \in Worker \ {w} : /\ pc'[v] = pc[v] /\ table'[v] = table[v]
                                 /\ Owns(v)' <=> Owns(v)
                                 /\ seed'[v] = seed[v] /\ max_prune'[v] = max_prune[v]
  BY <1>1 DEF IInv, Types, Owns
<1>5. \A v \in Worker \ {w} : pc[v] \notin {"back", "pop", "check", "alloc", "push"}
  BY <1>1 DEF IInv, Mutex
<1>6. \A v \in Worker, i \in 1 .. n : Owns(v) => table[v] # free_list[i]
  BY <1>1, <1>5 DEF IInv, ListedOnce, n
<1>7. \A v \in Worker \ {w} :
        /\ Owns(v) => table[v] \in 1 .. Len(memory) /\ table[v] # k
        /\ ~ Owns(v) => table[v] = Null
        /\ \A u \in Worker : Owns(u) /\ table[u] = table[v] => u = v
  BY <1>1 DEF IInv, OneOwner, k
<1>8. Types'
  <2>1. pc' \in [Worker -> Places]
    BY <1>1 DEF IInv, Types, Places
  <2>2. table' \in [Worker -> Nat \union {Null}] /\ seed' \in [Worker -> SUBSET Cell]
    BY <1>1 DEF IInv, Types
  <2>3. max_prune' \in [Worker -> Nat]
    BY <1>1 DEF IInv, Types
  <2>4. mtx' \in Worker \union {Nobody}
    BY <1>1
  <2>5. QED
    BY <1>1, <1>3, <2>1, <2>2, <2>3, <2>4 DEF IInv, Types
<1>9. Mutex'
  BY <1>1, <1>4, <1>5, TableAssumption DEF Mutex
<1>10. OneOwner'
  <2>1. \A v \in Worker : Owns(v) => table[v] # Null
    BY TableAssumption DEF IInv, OneOwner
  <2> HIDE DEF Owns
  <2>2. QED
    BY <1>1, <1>4, <1>7, <2>1 DEF OneOwner
<1>11. ListSeen'
  BY <1>4, <1>5 DEF ListSeen
<1>12. ListedOnce'
  <2>1. \A i \in 1 .. n + 1 : i \in 1 .. n \/ i = n + 1
    BY <1>2
  <2>2. \A i, j \in 1 .. n : free_list[i] = free_list[j] => i = j
    BY DEF IInv, ListedOnce, n
  <2>3. \A i \in 1 .. n : free_list[i] \in 1 .. Len(memory) /\ free_list[i] # k
    BY <1>1, <1>6 DEF IInv, ListedOnce, n, k
  <2>4. ASSUME NEW i \in 1 .. n + 1, NEW j \in 1 .. n + 1, free_list'[i] = free_list'[j]
        PROVE  i = j
    BY <1>3, <2>1, <2>2, <2>3, <2>4
  <2>5. ASSUME NEW i \in 1 .. n + 1, NEW v \in Worker, Owns(v)', table'[v] = free_list'[i]
        PROVE  FALSE
    <3>1. v # w /\ Owns(v) /\ table[v] = free_list'[i]
      BY <1>4, <2>5
    <3>2. QED
      BY <1>3, <1>6, <1>7, <2>1, <3>1
  <2>6. \A i \in 1 .. n + 1 : free_list'[i] \in 1 .. Len(memory)
    BY <1>2, <1>3, <2>1, <2>3
  <2> HIDE DEF Owns
  <2>7. QED
    BY <1>1, <1>3, <2>4, <2>5, <2>6 DEF ListedOnce
<1>13. NoneLost'
  <2>1. n + 1 \in 1 .. n + 1 /\ \A i \in 1 .. n : i \in 1 .. n + 1
    BY <1>2
  <2>2. ASSUME NEW j \in 1 .. Len(memory)
        PROVE  \/ \E i \in 1 .. n + 1 : free_list'[i] = j
               \/ \E v \in Worker : Owns(v)' /\ table'[v] = j
    <3>1. CASE \E i \in 1 .. n : free_list[i] = j
      BY <1>3, <2>1, <3>1
    <3>2. CASE \E v \in Worker : Owns(v) /\ table[v] = j
      BY <1>3, <1>4, <2>1, <3>2 DEF k
    <3>3. QED
      BY <3>1, <3>2 DEF IInv, NoneLost, n
  <2> HIDE DEF Owns
  <2>3. QED
    BY <1>1, <1>3, <2>2 DEF NoneLost
<1>14. Filled'
  BY <1>1, <1>4, SameTables
<1>15. ArenaSuffices'
  BY <1>1 DEF IInv, ArenaSuffices
<1>16. QED
  BY <1>8, <1>9, <1>10, <1>11, <1>12, <1>13, <1>14, <1>15 DEF IInv

-----------------------------------------------------------------------------
(* The tables.                                                             *)

(* Only the owner's table changes.                                         *)
LEMMA OwnTable ==
  ASSUME IInv, NEW w \in Worker, Owns(w), NEW t \in [Cell -> 0 .. FF],
         memory' = [memory EXCEPT ![table[w]] = t]
  PROVE  /\ memory' \in Seq([Cell -> 0 .. FF]) /\ Len(memory') = Len(memory)
         /\ memory'[table[w]] = t
         /\ \A v \in Worker \ {w} : Owns(v) => memory'[table[v]] = memory[table[v]]
<1> DEFINE k == table[w]
<1>1. k \in 1 .. Len(memory)
  BY DEF IInv, OneOwner
<1>2. \A v \in Worker \ {w} : Owns(v) => table[v] \in 1 .. Len(memory) /\ table[v] # k
  BY DEF IInv, OneOwner
<1> HIDE DEF k
<1>3. /\ [memory EXCEPT ![k] = t] \in Seq([Cell -> 0 .. FF])
      /\ Len([memory EXCEPT ![k] = t]) = Len(memory)
      /\ \A j \in 1 .. Len(memory) : [memory EXCEPT ![k] = t][j] = IF j = k THEN t ELSE memory[j]
  BY <1>1, ExceptSeq DEF IInv, Types
<1>4. memory' = [memory EXCEPT ![k] = t]
  BY DEF k
<1> HIDE DEF Owns
<1>5. QED
  BY <1>1, <1>2, <1>3, <1>4 DEF k

(* The first cells: as far as the seeds and no move.                       *)
LEMMA NoMove ==
  ASSUME NEW seeds \in SeedSets
  PROVE  LET t == [c \in Cell |-> IF c \in OrbitsOf(seeds) THEN 0 ELSE FF] IN
         /\ t \in [Cell -> 0 .. FF] /\ Exact(t, seeds, 0)
         /\ Cardinality(Empty(t)) \in Nat
         /\ N - Cardinality(OrbitsOf(seeds)) = Cardinality(Empty(t))
<1> DEFINE X == OrbitsOf(seeds)
           t == [c \in Cell |-> IF c \in X THEN 0 ELSE FF]
<1>1. FF = 255 /\ IsFiniteSet(Cell) /\ Cardinality(Cell) = N /\ N \in Nat
  BY Numbers
<1>2. Closed(X) /\ Within[seeds][0] = X
  BY TableAssumption, OrbitsTogether, WithinSteps DEF Closed
<1> HIDE DEF X
<1>3. t \in [Cell -> 0 .. FF]
  BY <1>1
<1>4. \A c \in Cell : \A d \in Orbit(c) : d \in Cell /\ (c \in X <=> d \in X)
  BY <1>2, Orbits DEF Closed
<1>5. Exact(t, seeds, 0)
  BY <1>1, <1>2, <1>4 DEF Exact
<1>6. Empty(t) = Cell \ X
  BY <1>1 DEF Empty
<1>7. Cell \cap X = X
  BY <1>2 DEF Closed
<1>8. /\ IsFiniteSet(Cell \ X)
      /\ Cardinality(Cell \ X) = Cardinality(Cell) - Cardinality(Cell \cap X)
  BY <1>1, FS_Difference
<1>9. Cardinality(Cell \ X) \in Nat
  BY <1>8, FS_CardinalityType
<1>10. QED
  BY <1>1, <1>3, <1>5, <1>6, <1>7, <1>8, <1>9 DEF X

LEMMA FillInvariant ==
  ASSUME IInv, NEW w \in Worker, Fill(w)
  PROVE  IInv'
<1> DEFINE t == [c \in Cell |-> IF c \in OrbitsOf(seed[w]) THEN 0 ELSE FF]
           left == N - Cardinality(OrbitsOf(seed[w]))
<1>1. /\ pc[w] = "fill" /\ Owns(w) /\ seed[w] \in SeedSets
      /\ pc' = [pc EXCEPT ![w] = "depth"]
      /\ memory' = [memory EXCEPT ![table[w]] = t]
      /\ todo' = [todo EXCEPT ![w] = left]
      /\ max_prune' = [max_prune EXCEPT ![w] = 0]
      /\ UNCHANGED <<free_list, mtx, aborted, seed, table>>
  BY DEF Fill, Go, Owns, IInv, Filled, IsFilled
<1>2. /\ t \in [Cell -> 0 .. FF] /\ Exact(t, seed[w], 0)
      /\ left \in Nat /\ left = Cardinality(Empty(t))
  BY <1>1, NoMove
<1> HIDE DEF t, left
<1>3. /\ memory' \in Seq([Cell -> 0 .. FF]) /\ Len(memory') = Len(memory)
      /\ memory'[table[w]] = t
      /\ \A v \in Worker \ {w} : Owns(v) => memory'[table[v]] = memory[table[v]]
  BY <1>1, <1>2, OwnTable
<1>4. /\ pc'[w] = "depth" /\ todo'[w] = left /\ max_prune'[w] = 0
      /\ \A v \in Worker \ {w} : /\ pc'[v] = pc[v] /\ todo'[v] = todo[v]
                                 /\ max_prune'[v] = max_prune[v]
  BY <1>1 DEF IInv, Types
<1>5. Types'
  <2>1. pc' \in [Worker -> Places]
    BY <1>1 DEF IInv, Types, Places
  <2>2. todo' \in [Worker -> Nat]
    BY <1>1, <1>2 DEF IInv, Types
  <2>3. max_prune' \in [Worker -> Nat]
    BY <1>1 DEF IInv, Types
  <2>4. QED
    BY <1>1, <1>3, <2>1, <2>2, <2>3 DEF IInv, Types
<1>6. Mutex'
  BY <1>1, <1>4 DEF IInv, Mutex
<1>7. \A v \in Worker : (Owns(v)' <=> Owns(v)) /\ (pc[v] = "pop" => pc'[v] = "pop")
  BY <1>1, <1>4 DEF Owns
<1>8. ListSeen'
  BY <1>1, <1>4 DEF IInv, ListSeen
<1>9. Filled'
  <2>1. /\ max_prune'[w] \in 0 .. N /\ max_prune'[w] < FF
        /\ Exact(memory'[table'[w]], seed'[w], max_prune'[w])
        /\ todo'[w] = Cardinality(Empty(memory'[table'[w]]))
    BY <1>1, <1>2, <1>3, <1>4, Numbers
  <2>2. OthersFilled(w)'
    BY <1>1, <1>3, <1>4, SameTables
  <2>3. QED
    BY <1>1, <1>4, <2>1, <2>2 DEF Filled, OthersFilled, IsFilled
<1>10. QED
  BY <1>1, <1>3, <1>5, <1>6, <1>7, <1>8, <1>9, SameOwners DEF IInv

(* As long as a cell is empty, some cell is further than this depth.       *)
LEMMA NotYetAll ==
  ASSUME NEW t, NEW seeds \in SeedSets, NEW m \in 0 .. N, Exact(t, seeds, m),
         Cardinality(Empty(t)) # 0
  PROVE  m + 1 <= N /\ m + 1 < FF
<1>1. FF = 255 /\ N \in Nat
  BY Numbers
<1>2. PICK n \in 0 .. N : n < FF /\ Within[seeds][n] = Cell
  BY TableAssumption
<1>3. Empty(t) # {}
  BY FS_EmptySet
<1>4. PICK c \in Cell : t[c] = FF
  BY <1>3 DEF Empty
<1>5. ~ (n <= m)
  <2>1. SUFFICES ASSUME n <= m
                 PROVE  FALSE
    OBVIOUS
  <2>2. n \in 0 .. m /\ c \in Within[seeds][n]
    BY <1>1, <1>2, <2>1
  <2>3. t[c] <= n
    BY <2>2 DEF Exact
  <2>4. QED
    BY <1>1, <1>2, <1>4, <2>3
<1>6. QED
  BY <1>1, <1>2, <1>5

LEMMA GenerateDepthInvariant ==
  ASSUME IInv, NEW w \in Worker, GenerateDepth(w)
  PROVE  IInv'
<1> DEFINE t == memory[table[w]]
           m == max_prune[w]
           reverse == todo[w] < N \div 2
           s == Scan(t, m, reverse)[N]
           changed == {c \in Cell : s[c] # t[c]}
<1>1. /\ pc[w] = "depth" /\ Owns(w) /\ seed[w] \in SeedSets /\ todo[w] # 0
      /\ pc' = [pc EXCEPT ![w] = "depth"]
      /\ memory' = [memory EXCEPT ![table[w]] = s]
      /\ todo' = [todo EXCEPT ![w] = @ - Cardinality(changed)]
      /\ max_prune' = [max_prune EXCEPT ![w] = @ + 1]
      /\ UNCHANGED <<free_list, mtx, aborted, seed, table>>
  BY DEF GenerateDepth, Go, Owns, IInv, Filled, IsFilled
<1>2. /\ m \in 0 .. N /\ m < FF /\ Exact(t, seed[w], m)
      /\ todo[w] = Cardinality(Empty(t))
  BY <1>1 DEF IInv, Filled, IsFilled
<1>3. t \in [Cell -> 0 .. FF]
  BY <1>1 DEF IInv, Types, OneOwner
<1>4. N \in Nat /\ m \in Nat /\ IsFiniteSet(Cell) /\ FF = 255
  BY <1>2, Numbers
<1>5. reverse \in BOOLEAN
  OBVIOUS
<1> HIDE DEF reverse, t, m
<1>6. m + 1 <= N /\ m + 1 < FF
  BY <1>1, <1>2, NotYetAll
<1>7. /\ s \in [Cell -> 0 .. FF] /\ Exact(s, seed[w], m + 1)
      /\ \A c \in Cell : s[c] # t[c] <=> t[c] = FF /\ s[c] # FF
  <2> HIDE DEF s
  <2> DEFINE seeds == seed[w]
  <2>1. seeds \in SeedSets /\ Exact(t, seeds, m)
    BY <1>1, <1>2
  <2> HIDE DEF seeds
  <2>2. \A b \in BOOLEAN :
          /\ Scan(t, m, b)[N] \in [Cell -> 0 .. FF] /\ Exact(Scan(t, m, b)[N], seeds, m + 1)
          /\ \A c \in Cell : Scan(t, m, b)[N][c] # t[c] <=> t[c] = FF /\ Scan(t, m, b)[N][c] # FF
    BY <1>3, <1>4, <1>6, <2>1, NextDepth
  <2>3. QED
    BY <1>5, <2>2, Zenon DEF s, seeds
<1> HIDE DEF s
<1>8. todo[w] - Cardinality(changed) = Cardinality(Empty(s)) /\ Cardinality(Empty(s)) \in Nat
  <2>1. Empty(s) = Empty(t) \ changed /\ Empty(t) \cap changed = changed
    BY <1>7 DEF Empty
  <2>2. IsFiniteSet(Empty(t))
    <3>1. Empty(t) \in SUBSET Cell
      BY DEF Empty
    <3>2. QED
      BY <1>4, <3>1, FS_Subset
  <2> HIDE DEF changed
  <2>3. /\ IsFiniteSet(Empty(t) \ changed)
        /\ Cardinality(Empty(t) \ changed) = Cardinality(Empty(t)) - Cardinality(Empty(t) \cap changed)
    BY <2>2, FS_Difference
  <2>4. Cardinality(Empty(t) \ changed) \in Nat
    BY <2>3, FS_CardinalityType
  <2>5. QED
    BY <1>2, <2>1, <2>3, <2>4
<1> HIDE DEF changed
<1>9. /\ memory' \in Seq([Cell -> 0 .. FF]) /\ Len(memory') = Len(memory)
      /\ memory'[table[w]] = s
      /\ \A v \in Worker \ {w} : Owns(v) => memory'[table[v]] = memory[table[v]]
  BY <1>1, <1>7, OwnTable
<1>10. /\ pc' = pc
       /\ todo'[w] = Cardinality(Empty(s)) /\ max_prune'[w] = m + 1
       /\ \A v \in Worker \ {w} : todo'[v] = todo[v] /\ max_prune'[v] = max_prune[v]
  BY <1>1, <1>8 DEF IInv, Types, m
<1>11. Types'
  <2>1. todo' \in [Worker -> Nat]
    <3>1. todo' = [todo EXCEPT ![w] = Cardinality(Empty(s))]
      BY <1>1, <1>8 DEF IInv, Types
    <3>2. QED
      BY <1>8, <3>1 DEF IInv, Types
  <2>2. max_prune' \in [Worker -> Nat]
    BY <1>1 DEF IInv, Types
  <2>3. QED
    BY <1>1, <1>9, <1>10, <2>1, <2>2 DEF IInv, Types
<1>12. Mutex'
  BY <1>1, <1>10 DEF IInv, Mutex
<1>13. \A v \in Worker : (Owns(v)' <=> Owns(v)) /\ (pc[v] = "pop" => pc'[v] = "pop")
  BY <1>10 DEF Owns
<1>14. ListSeen'
  BY <1>1, <1>10 DEF IInv, ListSeen
<1>15. Filled'
  <2>1. /\ max_prune'[w] \in 0 .. N /\ max_prune'[w] < FF
        /\ Exact(memory'[table'[w]], seed'[w], max_prune'[w])
        /\ todo'[w] = Cardinality(Empty(memory'[table'[w]]))
    BY <1>1, <1>4, <1>6, <1>7, <1>9, <1>10
  <2>2. OthersFilled(w)'
    BY <1>1, <1>9, <1>10, SameTables
  <2>3. QED
    BY <1>1, <1>10, <2>1, <2>2 DEF Filled, OthersFilled, IsFilled
<1>16. QED
  BY <1>1, <1>9, <1>11, <1>12, <1>13, <1>14, <1>15, SameOwners DEF IInv

LEMMA EndGenerateInvariant ==
  ASSUME IInv, NEW w \in Worker, EndGenerate(w)
  PROVE  IInv'
<1>1. /\ pc[w] = "depth" /\ todo[w] = 0
      /\ pc' = [pc EXCEPT ![w] = "search"]
      /\ UNCHANGED <<memory, free_list, mtx, aborted, seed, table, todo, max_prune>>
  BY DEF EndGenerate, Go, pool
<1>2. pc'[w] = "search" /\ \A v \in Worker \ {w} : pc'[v] = pc[v]
  BY <1>1 DEF IInv, Types
<1>3. Types'
  <2>1. pc' \in [Worker -> Places]
    BY <1>1 DEF IInv, Types, Places
  <2>2. QED
    BY <1>1, <2>1 DEF IInv, Types
<1>4. Mutex'
  BY <1>1, <1>2 DEF IInv, Mutex
<1>5. \A v \in Worker : (Owns(v)' <=> Owns(v)) /\ (pc[v] = "pop" => pc'[v] = "pop")
  BY <1>1, <1>2 DEF Owns
<1>6. ListSeen'
  BY <1>1, <1>2 DEF IInv, ListSeen
<1>7. Filled'
  <2>1. OthersFilled(w)'
    BY <1>1, <1>2, SameTables
  <2>2. QED
    BY <1>1, <1>2, <2>1 DEF IInv, Filled, OthersFilled, IsFilled
<1>8. QED
  BY <1>1, <1>3, <1>4, <1>5, <1>6, <1>7, SameOwners DEF IInv

-----------------------------------------------------------------------------

LEMMA StepInvariant == IInv /\ [Next]_vars => IInv'
<1> SUFFICES ASSUME IInv, [Next]_vars
             PROVE  IInv'
  OBVIOUS
<1>1. ASSUME NEW w \in Worker, WorkerStep(w)
      PROVE  IInv'
  <2>1. CASE \E cubes \in SeedSets : Generate(w, cubes)
    BY <2>1, GenerateInvariant
  <2>2. CASE LockPool(w) \/ Back(w) \/ Pop(w)
    BY <2>2, LockPoolInvariant, BackInvariant, PopInvariant
  <2>3. CASE CheckSpace(w) \/ Allocate(w)
    BY <2>3, CheckSpaceInvariant, AllocateInvariant
  <2>4. CASE Fill(w) \/ GenerateDepth(w) \/ EndGenerate(w)
    BY <2>4, FillInvariant, GenerateDepthInvariant, EndGenerateInvariant
  <2>5. CASE Destroy(w) \/ Push(w)
    BY <2>5, DestroyInvariant, PushInvariant
  <2>6. QED
    BY <1>1, <2>1, <2>2, <2>3, <2>4, <2>5 DEF WorkerStep
<1>2. CASE UNCHANGED vars
  <2>1. UNCHANGED <<memory, free_list, mtx, aborted, pc, seed, table, todo, max_prune>>
    BY <1>2 DEF vars, pool
  <2>2. Types' /\ Mutex' /\ ListSeen'
    BY <2>1 DEF IInv, Types, Mutex, ListSeen
  <2>3. OneOwner' /\ ListedOnce' /\ NoneLost' /\ ArenaSuffices'
    <3>1. \A v \in Worker : (Owns(v)' <=> Owns(v)) /\ (pc[v] = "pop" => pc'[v] = "pop")
      BY <2>1 DEF Owns
    <3>2. QED
      BY <2>1, <3>1, SameOwners
  <2>4. Filled'
    BY <2>1 DEF IInv, Filled, IsFilled
  <2>5. QED
    BY <2>2, <2>3, <2>4 DEF IInv
<1>3. QED
  BY <1>1, <1>2 DEF Next

(* The inductive invariant holds in every reachable state.                 *)
THEOREM Invariance == Spec => []IInv
BY InitInvariant, StepInvariant, PTL DEF Spec

(* However many cosets are solved, one table for each worker is enough and *)
(* the arena is never exhausted.                                           *)
THEOREM TablesSuffice == Spec => []ArenaSuffices
<1>1. IInv => ArenaSuffices
  BY DEF IInv
<1>2. QED
  BY <1>1, Invariance, PTL

(* As long as a solver searches, its table prunes exactly the cells that   *)
(* are too far from its own seeds.                                         *)
THEOREM PruningIsExact == Spec => []PruneIsExact
<1>1. IInv => PruneIsExact
  <2> SUFFICES ASSUME IInv, NEW w \in Worker, pc[w] = "search",
                      NEW n \in 0 .. N, NEW c \in Cell
               PROVE  Prune(w, c, n) <=> c \notin Within[seed[w]][n]
    BY DEF PruneIsExact
  <2> DEFINE t == memory[table[w]]
             m == max_prune[w]
             seeds == seed[w]
  <2>1. /\ seeds \in SeedSets /\ m \in 0 .. N /\ Exact(t, seeds, m)
        /\ Cardinality(Empty(t)) = 0
    BY DEF IInv, Filled, IsFilled
  <2>2. t \in [Cell -> 0 .. FF]
    BY DEF IInv, Types, OneOwner, Owns
  <2>3. N \in Nat /\ IsFiniteSet(Cell)
    BY Numbers
  <2>4. Prune(w, c, n) <=> n < m /\ n < t[c]
    BY DEF Prune
  <2> HIDE DEF t, m, seeds
  <2>5. t[c] <= m
    <3>1. Empty(t) \in SUBSET Cell
      BY DEF Empty
    <3>2. Empty(t) = {}
      BY <2>1, <2>3, <3>1, FS_Subset, FS_EmptySet
    <3>3. t[c] # FF
      BY <3>2 DEF Empty
    <3>4. QED
      BY <2>1, <3>3 DEF Exact
  <2>6. CASE n < m
    <3>1. n \in 0 .. m
      BY <2>1, <2>3, <2>6
    <3>2. t[c] <= n <=> c \in Within[seeds][n]
      BY <2>1, <3>1 DEF Exact
    <3>3. QED
      BY <2>2, <2>4, <2>6, <3>2 DEF seeds
  <2>7. CASE ~ (n < m)
    <3>1. m <= n /\ m \in 0 .. m
      BY <2>1, <2>3, <2>7
    <3>2. c \in Within[seeds][m]
      BY <2>1, <2>5, <3>1 DEF Exact
    <3>3. Within[seeds][m] \subseteq Within[seeds][n]
      BY <2>1, <3>1, WithinGrows
    <3>4. QED
      BY <2>4, <2>7, <3>2, <3>3 DEF seeds
  <2>8. QED
    BY <2>6, <2>7
<1>2. QED
  BY <1>1, Invariance, PTL
=============================================================================
