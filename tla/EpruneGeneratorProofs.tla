----------------------- MODULE EpruneGeneratorProofs -----------------------
(***************************************************************************)
(* Proofs about EpruneGenerator.tla, and with it Eperm48.tla, for any      *)
(* number of workers and any puzzle with symmetries: the tables of the     *)
(* edge permutations are right, whatever files earlier runs have left; no  *)
(* cell is counted twice by workers that write each other's rows; and the  *)
(* index tells for every move whether it leads further or nearer.          *)
(***************************************************************************)
EXTENDS EpruneGenerator, FiniteSetTheorems, SequenceTheorems,
        WellFoundedInduction, TLAPS

(* The representatives below p; representative number i; what the tables   *)
(* are to hold.                                                            *)
RepsBelow(p) == {q \in 0 .. p - 1 : IsRep(q)}
Rank(p) == Cardinality(RepsBelow(p))
Ranked == [i \in Rep |-> CHOOSE p \in Perm : IsRep(p) /\ Rank(p) = i]
SelfOf(p) == {s \in Sym \ {0} : Image[s][p] = p}
RowRight(row, p) ==
  \A k \in Move : Image[row[k][1]][Ranked[row[k][2]]] = Moved[p][k]
MoveTables == [Rep -> [Move -> Sym \X Rep]]
MovesRight(t) == \A i \in Rep : RowRight(t[i], Ranked[i])
SelfRight(t) == t = [i \in Rep |-> SelfOf(Ranked[i])]
TablesRight ==
  /\ s2r = Ranked /\ SelfRight(self)
  /\ moves \in MoveTables /\ MovesRight(moves)

(* What an earlier run has saved is right.                                 *)
FilesRight ==
  /\ Has("S2R") => files["S2R"] = Ranked
  /\ Has("Move") => files["Move"] \in MoveTables /\ MovesRight(files["Move"])
  /\ Has("SelfSym") => SelfRight(files["SelfSym"])

-----------------------------------------------------------------------------
(* The phases between barriers: where workers are, and what is true then.  *)
All(places) == pc \in [Worker -> places]
ArrivedAt(places) == arrived \subseteq {w \in Worker : pc[w] \in places}

(* What eprune has not touched yet.                                        *)
Idle ==
  /\ table = << >>
  /\ ep_mutex = [r \in Row |-> Nobody]
  /\ depth = [w \in Worker |-> 0]
  /\ reverse \in [Worker -> BOOLEAN] /\ found \in [Worker -> Nat]
  /\ ep \in [Worker -> Nat] /\ m \in [Worker -> Nat]
  /\ active \in [Worker -> SUBSET Cell] /\ fresh \in [Worker -> SUBSET Cell]

Loading == All({"load"}) /\ arrived = {} /\ Idle

GenTypes ==
  /\ s2r \in [Rep -> Perm] /\ self \in [Rep -> SUBSET Sym]
  /\ moves \in MoveTables
  /\ r2s \in [Perm -> Sym \X Rep]
  /\ rep_base \in [0 .. NWorkers -> Nat] /\ rep_base[0] = 0
  /\ reps \in [Worker -> Seq(Perm)]
  /\ idx \in [Worker -> Nat] /\ next \in [Worker -> Nat \ {0}]
  /\ saved = 0

BlockSize == NPerm \div NWorkers
BlocksCollected == \A w \in Worker : reps[w] = BlockReps(w)
Summed == \A w \in Worker : rep_base[w] = Rank(w * BlockSize)

Collecting ==
  /\ All({"collect", "barrier 1"}) /\ ArrivedAt({"barrier 1"})
  /\ Idle /\ GenTypes
  /\ \A w \in Worker :
       pc[w] = "barrier 1" => /\ reps[w] = BlockReps(w)
                              /\ rep_base[w + 1] = Len(BlockReps(w))

Adding ==
  /\ All({"add", "barrier 2"}) /\ ArrivedAt({"barrier 2"})
  /\ Idle /\ GenTypes /\ BlocksCollected
  /\ pc[0] = "add" => \A w \in Worker : rep_base[w + 1] = Len(BlockReps(w))
  /\ pc[0] = "barrier 2" => Summed

(* How many of its representatives a worker has dealt with in this pass,   *)
(* and where it is.                                                        *)
Dealt(w) == CASE pc[w] \in {"start numbers", "start moves"} -> 0
              [] pc[w] \in {"number", "moves"} -> next[w] - 1
              [] OTHER -> Len(BlockReps(w))
InPass(w) ==
  pc[w] \in {"number", "moves"} =>
    next[w] <= Len(BlockReps(w)) + 1 /\ idx[w] = rep_base[w] + next[w] - 1

Numbered(p) ==
  /\ s2r[Rank(p)] = p /\ self[Rank(p)] = SelfOf(p)
  /\ \A s \in Sym : LET c == r2s[Image[s][p]] IN
                    c[2] = Rank(p) /\ Image[c[1]][p] = Image[s][p]

Numbering ==
  /\ All({"start numbers", "number", "barrier 3"}) /\ ArrivedAt({"barrier 3"})
  /\ Idle /\ GenTypes /\ BlocksCollected /\ Summed
  /\ \A w \in Worker : /\ InPass(w)
                       /\ \A i \in 1 .. Dealt(w) : Numbered(BlockReps(w)[i])

Moving ==
  /\ All({"start moves", "moves", "done"}) /\ arrived = {}
  /\ Idle /\ GenTypes /\ BlocksCollected /\ Summed
  /\ \A p \in Perm : IsRep(p) => Numbered(p)
  /\ \A w \in Worker :
       /\ InPass(w)
       /\ \A i \in 1 .. Dealt(w) :
            RowRight(moves[Rank(BlockReps(w)[i])], BlockReps(w)[i])
  /\ ~ All({"done"})

Usable ==
  /\ All({"done"}) /\ arrived = {} /\ Idle
  /\ TablesRight /\ saved \in 0 .. Len(File)

-----------------------------------------------------------------------------
(* The position of a cell, how far it is, and a table that has all         *)
(* distances up to d.                                                      *)
Pos(c) == <<Ranked[c[1]], c[2]>>
CellDist(c) == Dist[Pos(c)]
Empty == {c \in Cell : table[c] = FF}
Exact(d) == \A c \in Cell : table[c] = IF CellDist(c) <= d THEN CellDist(c) ELSE FF

Tables ==
  /\ TablesRight /\ files = NoFile
  /\ table \in [Cell -> 0 .. FF]
  /\ depth \in [Worker -> Nat] /\ reverse \in [Worker -> BOOLEAN]
  /\ found \in [Worker -> Nat] /\ ep \in [Worker -> Nat] /\ m \in [Worker -> Nat]
  /\ active \in [Worker -> SUBSET Cell] /\ fresh \in [Worker -> SUBSET Cell]
  /\ ep_mutex \in [Row -> Worker \union {Nobody}]

MutexesFree == ep_mutex = [r \in Row |-> Nobody]

Filling ==
  /\ All({"fill", "depth barrier"}) /\ ArrivedAt({"depth barrier"})
  /\ Tables /\ MutexesFree
  /\ depth = [w \in Worker |-> 0] /\ todo = NCells - 1
  /\ \A w \in Worker : pc[w] = "depth barrier" =>
       \A c \in Block(w) : table[c] = IF c = Home THEN 0 ELSE FF

Deciding ==
  /\ All({"decide", "scan barrier", "end of tables"})
  /\ ArrivedAt({"scan barrier", "end of tables"})
  /\ Tables /\ MutexesFree
  /\ \E d \in 0 .. FF - 1 : depth = [w \in Worker |-> d] /\ Exact(d)
  /\ todo = Cardinality(Empty)
  /\ \A w \in Worker :
       /\ pc[w] = "scan barrier" => todo # 0 /\ reverse[w] = (todo < NCells \div 2)
       /\ pc[w] = "end of tables" => todo = 0

(* In the middle of a scan cells of the next depth are being set, the      *)
(* symmetric ones together.                                                *)
Partial(d) ==
  \A c \in Cell :
    /\ CellDist(c) <= d => table[c] = CellDist(c)
    /\ CellDist(c) = d + 1 => table[c] \in {d + 1, FF}
    /\ CellDist(c) > d + 1 => table[c] = FF
    /\ \A e \in Orbit(c) : table[c] = FF => table[e] = FF

(* What the workers have found and not yet subtracted from todo.           *)
Scanners == {w \in Worker : pc[w] \in {"move", "scan", "set", "sum"}}
Counted == UNION {{w} \X (1 .. found[w]) : w \in Scanners}

(* The row that a worker writes, which it has locked or which is its own.  *)
Writing(w) == pc[w] \in {"scan", "set"}
RowOf(w) == IF reverse[w] THEN ep[w] ELSE RawMove(ep[w], m[w])
Locks(rev) ==
  \A r \in Row : IF rev THEN ep_mutex[r] = Nobody
                 ELSE \A w \in Worker : ep_mutex[r] = w <=> Writing(w) /\ RowOf(w) = r

InRow(w, d) ==
  pc[w] \in {"move", "scan", "set"} =>
    /\ EpStart(w) <= ep[w] /\ ep[w] < EpEnd(w)
    /\ Writing(w) => m[w] \in Move
    /\ m[w] <= NMoves
    /\ \A c \in active[w] : c[1] = ep[w] /\ (~ reverse[w] => CellDist(c) = d)
    /\ \A c \in Cell : c[1] = ep[w] /\ table[c] = Want(w) => c \in active[w]

(* A move that has been tried finds nothing any more.                      *)
Tried(c, k, d, rev) ==
  IF rev THEN table[c] = FF => CellDist(Neighbor(c, k)) # d
  ELSE CellDist(c) = d => table[Neighbor(c, k)] # FF
Scanned(w, d) ==
  \A c \in Block(w), k \in Move :
    \/ pc[w] \in {"move", "scan", "set"} /\ c[1] < ep[w]
    \/ pc[w] \in {"move", "scan", "set"} /\ c[1] = ep[w] /\ k < m[w]
    \/ pc[w] \in {"sum", "depth barrier"}
    => Tried(c, k, d, reverse[w])

(* Between Find and Set nobody else sets what was found empty.             *)
FreshEmpty(w, d) ==
  pc[w] = "set" =>
    \E e \in Cell : /\ e[1] = RowOf(w) /\ CellDist(e) = d + 1
                    /\ fresh[w] = Orbit(e)
                    /\ \A c \in Orbit(e) : table[c] = FF

ScanAt(d, rev) ==
  /\ \A w \in Worker : /\ depth[w] = IF pc[w] = "depth barrier" THEN d + 1 ELSE d
                       /\ reverse[w] = rev
                       /\ InRow(w, d) /\ Scanned(w, d) /\ FreshEmpty(w, d)
  /\ Partial(d) /\ Locks(rev)

Scanning ==
  /\ All({"begin", "move", "scan", "set", "sum", "depth barrier"})
  /\ ArrivedAt({"depth barrier"})
  /\ Tables
  /\ \E d \in 0 .. FF - 2, rev \in BOOLEAN : ScanAt(d, rev)
  /\ todo = Cardinality(Empty) + Cardinality(Counted)

Lines(w) == EpStart(w) * STRIPE .. EpEnd(w) * STRIPE - 1
LineRight(l) ==
  index[l] = UNION {Directions(c) : c \in {c \in Cell : LineOf(c) = l}}
Indexing ==
  /\ All({"index", "indexed"}) /\ arrived = {}
  /\ Tables
  /\ \A c \in Cell : table[c] = CellDist(c)
  /\ \A w \in Worker : pc[w] = "indexed" => \A l \in Lines(w) : LineRight(l)

IInv ==
  /\ kills \in Nat
  /\ FilesRight
  /\ \/ Loading \/ Collecting \/ Adding \/ Numbering \/ Moving \/ Usable
     \/ Filling \/ Deciding \/ Scanning \/ Indexing

(* The constants are numbers.                                              *)
LEMMA Numbers ==
  /\ NWorkers \in Nat \ {0} /\ NPerm \in Nat \ {0} /\ NSym \in Nat \ {0}
  /\ NMoves \in Nat /\ NRep \in Nat /\ MaxKills \in Nat
  /\ BlockSize \in Nat /\ 0 \in Worker /\ 0 \in Sym /\ 0 \in Perm
  /\ BlockSize * NWorkers <= NPerm
  /\ \A s \in Sym : SymInv[s] \in Sym
  /\ \A s \in Sym, p \in Perm :
       Image[s][p] \in Perm /\ Image[SymInv[s]][Image[s][p]] = p
<1>1. /\ NWorkers \in Nat \ {0} /\ NPerm \in Nat \ {0} /\ NSym \in Nat \ {0}
      /\ NMoves \in Nat /\ MaxKills \in Nat
      /\ \A s \in Sym : SymInv[s] \in Sym
      /\ \A s \in Sym, p \in Perm :
           Image[s][p] \in Perm /\ Image[SymInv[s]][Image[s][p]] = p
  BY PermAssumption
<1>2. 0 \in Worker /\ 0 \in Sym /\ 0 \in Perm
  BY <1>1 DEF Worker, Sym, Perm
<1>3. NRep \in Nat
  <2>1. IsFiniteSet(0 .. NPerm - 1)
    <3>1. 0 \in Int /\ NPerm - 1 \in Int
      BY <1>1
    <3>2. QED
      BY <3>1, FS_Interval
  <2>2. {p \in Perm : IsRep(p)} \in SUBSET (0 .. NPerm - 1)
    BY DEF Perm
  <2>3. IsFiniteSet({p \in Perm : IsRep(p)})
    BY <2>1, <2>2, FS_Subset
  <2>4. Cardinality({p \in Perm : IsRep(p)}) \in Nat
    BY <2>3, FS_CardinalityType
  <2>5. QED
    BY <2>4, PermAssumption
<1>4. BlockSize \in Nat /\ BlockSize * NWorkers <= NPerm
  BY <1>1 DEF BlockSize
<1>5. QED
  BY <1>1, <1>2, <1>3, <1>4

LEMMA LeastNumber ==
  ASSUME NEW S \in SUBSET Nat, S # {}
  PROVE  \E n \in S : \A i \in S : n <= i
<1> DEFINE R == OpToRel(<, Nat)
<1>1. IsWellFoundedOn(R, Nat)
  BY NatLessThanWellFounded
<1>2. \A n, i \in Nat : <<n, i>> \in R <=> n < i
  BY DEF OpToRel
<1> HIDE DEF R
<1>3. PICK n \in S : \A i \in S : ~ (<<i, n>> \in R)
  BY <1>1, WFMin, Zenon
<1>4. ASSUME NEW i \in S
      PROVE  n <= i
  <2>1. n \in Nat /\ i \in Nat /\ ~ (i < n)
    BY <1>2, <1>3
  <2>2. QED
    BY <2>1
<1>5. QED
  BY <1>4

LEMMA AllNumbers ==
  ASSUME NEW n \in Nat, NEW S, 0 \in S, \A i \in 1 .. n : i - 1 \in S => i \in S
  PROVE  \A i \in 0 .. n : i \in S
<1> DEFINE Missing == {i \in 0 .. n : i \notin S}
<1>1. SUFFICES ASSUME Missing # {}
               PROVE  FALSE
  OBVIOUS
<1>2. Missing \in SUBSET Nat
  OBVIOUS
<1>3. PICK i \in Missing : \A j \in Missing : i <= j
  BY <1>1, <1>2, LeastNumber
<1>4. i \in 1 .. n /\ i \notin S
  BY <1>3
<1>5. i - 1 \in 0 .. n /\ ~ (i <= i - 1)
  BY <1>4
<1>6. i - 1 \in S
  BY <1>3, <1>5
<1>7. QED
  BY <1>4, <1>6

(* A function of the numbers up to n that gives its value at 0, and every  *)
(* other one from the one before, exists.                                  *)
IsIteration(g, V, v, n, F) ==
  /\ g \in [0 .. n -> V] /\ g[0] = v
  /\ \A i \in 1 .. n : g[i] = F[<<g[i - 1], i>>]

LEMMA Iterates ==
  ASSUME NEW V, NEW v, NEW n, NEW F, v \in V, n \in Nat, F \in [V \X (1 .. n) -> V]
  PROVE  \E g : IsIteration(g, V, v, n, F)
<1> DEFINE Iterate(g, k) == g[0] = v /\ \A i \in 1 .. k : g[i] = F[<<g[i - 1], i>>]
           Exists == {k \in 0 .. n : \E g \in [0 .. k -> V] : Iterate(g, k)}
<1>1. 0 \in Exists
  <2> DEFINE g == [i \in 0 .. 0 |-> v]
  <2>1. g \in [0 .. 0 -> V] /\ Iterate(g, 0)
    OBVIOUS
  <2>2. 0 \in 0 .. n
    OBVIOUS
  <2> HIDE DEF g
  <2>3. QED
    BY <2>1, <2>2
<1>2. ASSUME NEW k \in 1 .. n, k - 1 \in Exists
      PROVE  k \in Exists
  <2>1. PICK g \in [0 .. k - 1 -> V] : Iterate(g, k - 1)
    BY <1>2
  <2> DEFINE last == F[<<g[k - 1], k>>]
             h == [i \in 0 .. k |-> IF i = k THEN last ELSE g[i]]
  <2>2. last \in V
    <3>1. <<g[k - 1], k>> \in V \X (1 .. n)
      OBVIOUS
    <3>2. QED
      BY <3>1
  <2>3. h \in [0 .. k -> V]
    BY <2>2
  <2>4. h[k] = last /\ \A i \in 0 .. k - 1 : h[i] = g[i]
    OBVIOUS
  <2> HIDE DEF h
  <2>5. h[0] = v
    BY <2>1, <2>4
  <2>6. ASSUME NEW i \in 1 .. k
        PROVE  h[i] = F[<<h[i - 1], i>>]
    <3>1. i - 1 \in 0 .. k - 1 /\ h[i - 1] = g[i - 1]
      BY <2>4
    <3>2. CASE i = k
      BY <2>4, <3>1, <3>2
    <3>3. CASE i # k
      <4>1. i \in 1 .. k - 1 /\ h[i] = g[i]
        BY <2>4, <3>3
      <4>2. QED
        BY <2>1, <3>1, <4>1
    <3>4. QED
      BY <3>2, <3>3
  <2>7. Iterate(h, k)
    BY <2>5, <2>6
  <2>8. QED
    BY <2>3, <2>7
<1>3. n \in Exists
  <2> HIDE DEF Exists
  <2>1. \A k \in 0 .. n : k \in Exists
    BY <1>1, <1>2, AllNumbers
  <2>2. QED
    BY <2>1
<1>4. QED
  BY <1>3 DEF IsIteration

-----------------------------------------------------------------------------
(* Ranks.                                                                  *)
LEMMA RankStep ==
  ASSUME NEW p \in Nat
  PROVE  /\ Rank(p) \in Nat /\ IsFiniteSet(RepsBelow(p))
         /\ Rank(p + 1) = IF IsRep(p) THEN Rank(p) + 1 ELSE Rank(p)
<1>1. IsFiniteSet(0 .. p - 1)
  BY FS_Interval
<1>2. RepsBelow(p) \in SUBSET (0 .. p - 1)
  BY DEF RepsBelow
<1>3. IsFiniteSet(RepsBelow(p))
  BY <1>1, <1>2, FS_Subset
<1>4. Rank(p) \in Nat
  BY <1>3, FS_CardinalityType DEF Rank
<1>5. CASE IsRep(p)
  <2>1. RepsBelow(p + 1) = RepsBelow(p) \union {p} /\ p \notin RepsBelow(p)
    BY <1>5 DEF RepsBelow
  <2>2. Rank(p + 1) = Rank(p) + 1
    BY <1>3, <2>1, FS_AddElement DEF Rank
  <2>3. QED
    BY <1>3, <1>4, <1>5, <2>2
<1>6. CASE ~ IsRep(p)
  <2>1. RepsBelow(p + 1) = RepsBelow(p)
    BY <1>6 DEF RepsBelow
  <2>2. Rank(p + 1) = Rank(p)
    BY <2>1 DEF Rank
  <2>3. QED
    BY <1>3, <1>4, <1>6, <2>2
<1>7. QED
  BY <1>5, <1>6

LEMMA RankMonotone ==
  ASSUME NEW p \in Nat, NEW q \in Nat
  PROVE  /\ p <= q => Rank(p) <= Rank(q)
         /\ p < q /\ IsRep(p) => Rank(p) < Rank(q)
<1>1. ASSUME NEW i \in Nat, i <= q
      PROVE  Rank(i) <= Rank(q)
  <2>1. RepsBelow(i) \in SUBSET RepsBelow(q)
    BY <1>1 DEF RepsBelow
  <2>2. QED
    BY <2>1, RankStep, FS_Subset DEF Rank
<1>2. ASSUME p < q, IsRep(p)
      PROVE  Rank(p) < Rank(q)
  <2>1. Rank(p + 1) <= Rank(q)
    BY <1>1, <1>2
  <2>2. Rank(p + 1) = Rank(p) + 1 /\ Rank(p) \in Nat /\ Rank(q) \in Nat
    BY <1>2, RankStep
  <2>3. QED
    BY <2>1, <2>2
<1>3. QED
  BY <1>1, <1>2

LEMMA RankEnds == Rank(0) = 0 /\ Rank(NPerm) = NRep
<1>1. RepsBelow(0) = {}
  BY DEF RepsBelow
<1>2. RepsBelow(NPerm) = {p \in Perm : IsRep(p)}
  BY Numbers DEF RepsBelow, Perm
<1>3. QED
  BY <1>1, <1>2, FS_EmptySet, PermAssumption DEF Rank

LEMMA RankOfRep ==
  ASSUME NEW p \in Perm, IsRep(p)
  PROVE  Rank(p) \in Rep /\ Ranked[Rank(p)] = p
<1>1. p \in Nat /\ p < NPerm /\ NPerm \in Nat
  BY Numbers DEF Perm
<1>2. Rank(p) < NRep /\ Rank(p) \in Nat
  BY <1>1, RankMonotone, RankStep, RankEnds
<1>3. Rank(p) \in Rep
  BY <1>2, Numbers DEF Rep
<1>4. ASSUME NEW q \in Perm, IsRep(q), Rank(q) = Rank(p)
      PROVE  q = p
  <2>1. q \in Nat
    BY Numbers DEF Perm
  <2>2. ~ (p < q) /\ ~ (q < p)
    BY <1>1, <1>2, <1>4, <2>1, RankMonotone
  <2>3. QED
    BY <1>1, <2>1, <2>2
<1>5. QED
  BY <1>3, <1>4 DEF Ranked

LEMMA RepOfRank ==
  ASSUME NEW i \in Rep
  PROVE  Ranked[i] \in Perm /\ IsRep(Ranked[i]) /\ Rank(Ranked[i]) = i
<1> DEFINE S == {q \in 0 .. NPerm : Rank(q) > i}
<1>1. i \in Nat /\ i < NRep
  BY Numbers DEF Rep
<1>2. NPerm \in S /\ S \in SUBSET Nat
  BY <1>1, Numbers, RankEnds
<1>3. PICK q \in S : \A r \in S : q <= r
  BY <1>2, LeastNumber
<1>4. q # 0 /\ q \in 0 .. NPerm
  BY <1>1, RankEnds
<1>5. q - 1 \in Perm /\ q - 1 \in Nat /\ q - 1 + 1 = q
  BY <1>4, Numbers DEF Perm
<1>6. ~ (Rank(q - 1) > i)
  BY <1>3, <1>4, Numbers
<1>7. IsRep(q - 1) /\ Rank(q - 1) = i
  BY <1>1, <1>5, <1>6, RankStep
<1>8. \E p \in Perm : IsRep(p) /\ Rank(p) = i
  BY <1>5, <1>7
<1>9. QED
  BY <1>8 DEF Ranked

LEMMA RankedGrows ==
  ASSUME NEW i \in Rep, NEW j \in Rep, i < j
  PROVE  Ranked[i] < Ranked[j]
<1>1. Ranked[i] \in Nat /\ Ranked[j] \in Nat /\ i \in Nat /\ j \in Nat
  BY RepOfRank, Numbers DEF Perm, Rep
<1>2. ~ (Ranked[j] <= Ranked[i])
  BY <1>1, RankMonotone, RepOfRank
<1>3. QED
  BY <1>1, <1>2

LEMMA FirstRep == NRep > 0 /\ 0 \in Rep /\ Ranked[0] = 0 /\ IsRep(0)
<1>1. IsRep(0)
  BY Numbers DEF IsRep, Perm
<1>2. Rank(0) \in Rep /\ Ranked[Rank(0)] = 0
  BY <1>1, Numbers, RankOfRep
<1>3. QED
  BY <1>1, <1>2, RankEnds, Numbers DEF Rep

-----------------------------------------------------------------------------
(* Classes.                                                                *)
LEMMA SmallestIsRep ==
  ASSUME NEW p \in Perm, NEW s \in Sym, \A u \in Sym : Image[s][p] <= Image[u][p]
  PROVE  IsRep(Image[s][p])
<1>1. ASSUME NEW t \in Sym
      PROVE  Image[t][Image[s][p]] >= Image[s][p]
  <2>1. PICK u \in Sym : Image[u][p] = Image[t][Image[s][p]]
    BY PermAssumption
  <2>2. Image[s][p] \in Int /\ Image[u][p] \in Int
    BY Numbers DEF Perm
  <2>3. QED
    BY <2>1, <2>2
<1>2. QED
  BY <1>1 DEF IsRep

LEMMA HasSmallest ==
  ASSUME NEW p \in Perm
  PROVE  \E s \in Sym : \A u \in Sym : Image[s][p] <= Image[u][p]
<1> DEFINE S == {Image[s][p] : s \in Sym}
<1>1. S \in SUBSET Nat /\ S # {}
  BY Numbers DEF Perm
<1>2. PICK q \in S : \A r \in S : q <= r
  BY <1>1, LeastNumber
<1>3. QED
  BY <1>2

LEMMA SameClass ==
  ASSUME NEW p \in Perm, NEW q \in Perm, IsRep(p), IsRep(q),
         NEW s \in Sym, NEW t \in Sym, Image[s][p] = Image[t][q]
  PROVE  p = q
<1>1. p >= q
  <2>1. p = Image[SymInv[s]][Image[t][q]] /\ SymInv[s] \in Sym
    BY Numbers
  <2>2. PICK u \in Sym : Image[u][q] = Image[SymInv[s]][Image[t][q]]
    BY <2>1, PermAssumption
  <2>3. QED
    BY <2>1, <2>2 DEF IsRep
<1>2. q >= p
  <2>1. q = Image[SymInv[t]][Image[s][p]] /\ SymInv[t] \in Sym
    BY Numbers
  <2>2. PICK u \in Sym : Image[u][p] = Image[SymInv[t]][Image[s][p]]
    BY <2>1, PermAssumption
  <2>3. QED
    BY <2>1, <2>2 DEF IsRep
<1>3. QED
  BY <1>1, <1>2, Numbers DEF Perm

(* A permutation is an image of its representative.                        *)
LEMMA ImageOfRep ==
  ASSUME NEW p \in Perm
  PROVE  \E r \in Perm, s \in Sym : IsRep(r) /\ Image[s][r] = p
<1>1. PICK s \in Sym : \A u \in Sym : Image[s][p] <= Image[u][p]
  BY HasSmallest
<1>2. Image[SymInv[s]][Image[s][p]] = p /\ SymInv[s] \in Sym /\ Image[s][p] \in Perm
  BY PermAssumption
<1>3. QED
  BY <1>1, <1>2, SmallestIsRep

-----------------------------------------------------------------------------
(* Blocks of permutations.                                                 *)
LEMMA InBlock ==
  ASSUME NEW w \in Worker
  PROVE  /\ w * BlockSize \in Nat /\ w * BlockSize + BlockSize <= NPerm
         /\ (w + 1) * BlockSize = w * BlockSize + BlockSize
         /\ \A i \in 1 .. BlockSize : w * BlockSize + i - 1 \in Perm
<1>1. w \in Nat /\ w + 1 <= NWorkers /\ NWorkers \in Nat /\ BlockSize \in Nat
      /\ NPerm \in Nat
  BY Numbers DEF Worker
<1>2. w * BlockSize \in Nat /\ (w + 1) * BlockSize = w * BlockSize + BlockSize
  BY <1>1
<1>3. (w + 1) * BlockSize <= BlockSize * NWorkers
  <2>1. \A a, b, c \in Nat : a <= b => a * c <= c * b
    OBVIOUS
  <2>2. w + 1 \in Nat
    BY <1>1
  <2>3. QED
    BY <1>1, <2>1, <2>2
<1>4. BlockSize * NWorkers <= NPerm
  BY Numbers
<1>5. w * BlockSize + BlockSize <= NPerm
  <2>1. BlockSize * NWorkers \in Nat
    BY <1>1
  <2>2. QED
    BY <1>1, <1>2, <1>3, <1>4, <2>1
<1>6. QED
  BY <1>1, <1>2, <1>5 DEF Perm

LEMMA BlockRepsSteps ==
  ASSUME NEW w \in Worker
  PROVE  \E g : /\ BlockReps(w) = g[BlockSize] /\ g[0] = << >>
                /\ \A i \in 1 .. BlockSize :
                     g[i] = IF IsRep(w * BlockSize + i - 1)
                            THEN Append(g[i - 1], w * BlockSize + i - 1)
                            ELSE g[i - 1]
<1> DEFINE block == BlockSize
           Body(g, i) == IF i = 0 THEN << >>
                         ELSE IF IsRep(w * block + i - 1)
                              THEN Append(g[i - 1], w * block + i - 1)
                              ELSE g[i - 1]
           F == [x \in Seq(Perm) \X (1 .. block) |->
                   IF IsRep(w * block + x[2] - 1)
                   THEN Append(x[1], w * block + x[2] - 1) ELSE x[1]]
<1>1. block \in Nat /\ << >> \in Seq(Perm)
  BY Numbers
<1>2. F \in [Seq(Perm) \X (1 .. block) -> Seq(Perm)]
  BY InBlock
<1>3. PICK g : IsIteration(g, Seq(Perm), << >>, block, F)
  <2> HIDE DEF F
  <2>1. QED
    BY <1>1, <1>2, Iterates
<1>4. /\ g \in [0 .. block -> Seq(Perm)] /\ g[0] = << >>
       /\ \A i \in 1 .. block : g[i] = F[<<g[i - 1], i>>]
  BY <1>3 DEF IsIteration
<1>5. ASSUME NEW i \in 0 .. block
      PROVE  g[i] = Body(g, i)
  <2>1. CASE i = 0
    BY <1>4, <2>1
  <2>2. CASE i # 0
    <3>1. i \in 1 .. block /\ i - 1 \in 0 .. block
      BY <1>1, <2>2
    <3>2. <<g[i - 1], i>> \in Seq(Perm) \X (1 .. block)
      BY <1>4, <3>1
    <3>3. QED
      BY <1>4, <2>2, <3>1, <3>2
  <2>3. QED
    BY <2>1, <2>2
<1>6. g = [i \in 0 .. block |-> Body(g, i)]
  <2> HIDE DEF Body
  <2>1. g = [i \in 0 .. block |-> g[i]]
    BY <1>4
  <2>2. QED
    BY <1>5, <2>1
<1> DEFINE c == CHOOSE h : h = [i \in 0 .. block |-> Body(h, i)]
<1>7. c = [i \in 0 .. block |-> Body(c, i)]
  <2> HIDE DEF Body
  <2>1. QED
    BY <1>6
<1>8. BlockReps(w) = c[BlockSize]
  BY DEF BlockReps, BlockSize
<1> HIDE DEF c
<1>9. c[0] = << >>
  BY <1>1, <1>7
<1>10. ASSUME NEW i \in 1 .. block
      PROVE  c[i] = IF IsRep(w * block + i - 1)
                    THEN Append(c[i - 1], w * block + i - 1) ELSE c[i - 1]
  <2>1. i \in 0 .. block /\ i # 0
    BY <1>1
  <2>2. c[i] = Body(c, i)
    <3> HIDE DEF Body
    <3>1. QED
      BY <1>7, <2>1
  <2>3. QED
    BY <2>1, <2>2
<1>11. QED
  BY <1>8, <1>9, <1>10

(* A block has its representatives, in order.                              *)
LEMMA BlockRepsAre ==
  ASSUME NEW w \in Worker
  PROVE  /\ BlockReps(w) \in Seq(Perm)
         /\ Len(BlockReps(w)) = Rank((w + 1) * BlockSize) - Rank(w * BlockSize)
         /\ Len(BlockReps(w)) \in Nat
         /\ \A k \in 1 .. Len(BlockReps(w)) :
              /\ BlockReps(w)[k] \in Perm /\ IsRep(BlockReps(w)[k])
              /\ Rank(BlockReps(w)[k]) = Rank(w * BlockSize) + k - 1
<1> DEFINE a == w * BlockSize
           Good(s, i) ==
             /\ s \in Seq(Perm) /\ Len(s) = Rank(a + i) - Rank(a)
             /\ \A k \in 1 .. Len(s) : /\ s[k] \in Perm /\ IsRep(s[k])
                                       /\ Rank(s[k]) = Rank(a) + k - 1
<1>1. PICK g : /\ BlockReps(w) = g[BlockSize] /\ g[0] = << >>
               /\ \A i \in 1 .. BlockSize :
                    g[i] = IF IsRep(a + i - 1) THEN Append(g[i - 1], a + i - 1)
                           ELSE g[i - 1]
  BY BlockRepsSteps
<1> DEFINE S == {i \in 0 .. BlockSize : Good(g[i], i)}
<1>2. a \in Nat /\ BlockSize \in Nat /\ a + BlockSize = (w + 1) * BlockSize
  BY InBlock, Numbers
<1>3. \A i \in 1 .. BlockSize : a + i - 1 \in Perm /\ a + i - 1 \in Nat
  BY InBlock DEF Perm
<1> HIDE DEF a
<1>4. 0 \in S
  <2>1. Rank(a + 0) = Rank(a) /\ Rank(a) \in Nat
    BY <1>2, RankStep
  <2>2. Good(g[0], 0)
    BY <1>1, <2>1
  <2>3. QED
    BY <1>2, <2>2
<1>5. ASSUME NEW i \in 1 .. BlockSize, i - 1 \in S
      PROVE  i \in S
  <2> DEFINE s == g[i - 1]
             p == a + i - 1
  <2>1. Good(s, i - 1) /\ p \in Perm /\ p \in Nat /\ a + (i - 1) = p /\ a + i = p + 1
    BY <1>2, <1>3, <1>5
  <2>2. Rank(p) \in Nat /\ Rank(a) \in Nat
        /\ Rank(p + 1) = IF IsRep(p) THEN Rank(p) + 1 ELSE Rank(p)
    BY <1>2, <2>1, RankStep
  <2>3. g[i] = IF IsRep(p) THEN Append(s, p) ELSE s
    BY <1>1
  <2> HIDE DEF s, p
  <2>4. CASE IsRep(p)
    <3> DEFINE t == Append(s, p)
    <3>1. s \in Seq(Perm) /\ Len(s) = Rank(p) - Rank(a)
      BY <2>1
    <3>2. t \in Seq(Perm) /\ Len(t) = Len(s) + 1
          /\ t[Len(s) + 1] = p /\ \A k \in 1 .. Len(s) : t[k] = s[k]
      BY <2>1, <3>1
    <3> HIDE DEF t
    <3>3. Len(t) = Rank(a + i) - Rank(a)
      BY <2>1, <2>2, <2>4, <3>1, <3>2
    <3>4. ASSUME NEW k \in 1 .. Len(t)
          PROVE  t[k] \in Perm /\ IsRep(t[k]) /\ Rank(t[k]) = Rank(a) + k - 1
      <4>1. CASE k = Len(s) + 1
        BY <2>1, <2>2, <2>4, <3>1, <3>2, <4>1
      <4>2. CASE k # Len(s) + 1
        <5>1. k \in 1 .. Len(s)
          BY <3>1, <3>2, <4>2, LenProperties
        <5>2. QED
          BY <2>1, <3>2, <5>1
      <4>3. QED
        BY <4>1, <4>2
    <3>5. Good(t, i)
      BY <3>2, <3>3, <3>4
    <3>6. g[i] = t
      BY <2>3, <2>4 DEF t
    <3>7. QED
      BY <3>5, <3>6
  <2>5. CASE ~ IsRep(p)
    <3>1. g[i] = s /\ Rank(a + i) = Rank(p)
      BY <2>1, <2>2, <2>3, <2>5
    <3>2. Good(s, i)
      BY <2>1, <3>1
    <3>3. QED
      BY <3>1, <3>2
  <2>6. QED
    BY <2>4, <2>5
<1>6. Good(BlockReps(w), BlockSize)
  <2> HIDE DEF S
  <2>1. \A i \in 0 .. BlockSize : i \in S
    BY <1>2, <1>4, <1>5, AllNumbers
  <2>2. BlockSize \in S
    BY <1>2, <2>1
  <2>3. QED
    BY <1>1, <2>2 DEF S
<1>7. QED
  BY <1>2, <1>6 DEF a

(* Every representative is in a block.                                     *)
LEMMA Covered ==
  ASSUME NEW p \in Perm, IsRep(p)
  PROVE  \E w \in Worker : \E k \in 1 .. Len(BlockReps(w)) : BlockReps(w)[k] = p
<1>1. p \in Nat /\ NWorkers \in Nat /\ BlockSize \in Nat
  BY Numbers DEF Perm
<1>2. p < BlockSize * NWorkers
  <2>1. ~ (p >= BlockSize * NWorkers)
    BY PermAssumption DEF BlockSize
  <2>2. BlockSize * NWorkers \in Nat
    BY <1>1
  <2>3. QED
    BY <1>1, <2>1, <2>2
<1>3. BlockSize > 0
  BY <1>1, <1>2
<1> DEFINE w == p \div BlockSize
<1>4. w \in Nat /\ w * BlockSize <= p /\ p < w * BlockSize + BlockSize
  BY <1>1, <1>3
<1>5. w < NWorkers
  <2>1. \A a, b, c \in Nat : a >= b => a * c >= c * b
    OBVIOUS
  <2>2. w >= NWorkers => w * BlockSize >= BlockSize * NWorkers
    BY <1>1, <1>4, <2>1
  <2> HIDE DEF w
  <2>3. w * BlockSize \in Nat /\ BlockSize * NWorkers \in Nat
    BY <1>1, <1>4
  <2>4. QED
    BY <1>1, <1>2, <1>4, <2>2, <2>3
<1> HIDE DEF w
<1>6. w \in Worker
  BY <1>1, <1>4, <1>5 DEF Worker
<1>7. /\ w * BlockSize \in Nat /\ (w + 1) * BlockSize = w * BlockSize + BlockSize
  BY <1>6, InBlock
<1>8. Rank(w * BlockSize) <= Rank(p) /\ Rank(p) < Rank((w + 1) * BlockSize)
  BY <1>1, <1>4, <1>7, RankMonotone
<1>9. Rank(w * BlockSize) \in Nat /\ Rank(p) \in Nat /\ Rank((w + 1) * BlockSize) \in Nat
  BY <1>1, <1>7, RankStep
<1> DEFINE k == Rank(p) - Rank(w * BlockSize) + 1
<1>10. k \in 1 .. Len(BlockReps(w))
  BY <1>6, <1>8, <1>9, BlockRepsAre
<1>11. /\ BlockReps(w)[k] \in Perm /\ IsRep(BlockReps(w)[k])
       /\ Rank(BlockReps(w)[k]) = Rank(w * BlockSize) + k - 1
  <2> HIDE DEF k
  <2>1. QED
    BY <1>6, <1>10, BlockRepsAre
<1>12. Rank(BlockReps(w)[k]) = Rank(p)
  BY <1>9, <1>11
<1>13. BlockReps(w)[k] = p
  <2> HIDE DEF k
  <2>1. QED
    BY <1>11, <1>12, RankOfRep
<1> HIDE DEF k
<1>14. QED
  BY <1>6, <1>10, <1>13

-----------------------------------------------------------------------------
(* The sums that worker 0 computes.                                        *)
LEMMA SumSteps ==
  ASSUME rep_base \in [0 .. NWorkers -> Nat], Add(0)
  PROVE  /\ rep_base' \in [0 .. NWorkers -> Nat] /\ rep_base'[0] = rep_base[0]
         /\ \A i \in 1 .. NWorkers : rep_base'[i] = rep_base'[i - 1] + rep_base[i]
<1> DEFINE Body(g, i) == IF i = 0 THEN rep_base[0] ELSE g[i - 1] + rep_base[i]
           F == [x \in Nat \X (1 .. NWorkers) |-> x[1] + rep_base[x[2]]]
           first == rep_base[0]
<1>1. NWorkers \in Nat /\ first \in Nat
  BY Numbers
<1>2. F \in [Nat \X (1 .. NWorkers) -> Nat]
  BY <1>1
<1>3. PICK g : IsIteration(g, Nat, first, NWorkers, F)
  <2> HIDE DEF F
  <2>1. QED
    BY <1>1, <1>2, Iterates
<1>4. /\ g \in [0 .. NWorkers -> Nat] /\ g[0] = first
       /\ \A i \in 1 .. NWorkers : g[i] = F[<<g[i - 1], i>>]
  BY <1>3 DEF IsIteration
<1>5. ASSUME NEW i \in 0 .. NWorkers
      PROVE  g[i] = Body(g, i)
  <2>1. CASE i = 0
    BY <1>4, <2>1
  <2>2. CASE i # 0
    <3>1. i \in 1 .. NWorkers /\ i - 1 \in 0 .. NWorkers
      BY <1>1, <2>2
    <3>2. <<g[i - 1], i>> \in Nat \X (1 .. NWorkers)
      BY <1>4, <3>1
    <3>3. QED
      BY <1>4, <2>2, <3>1, <3>2
  <2>3. QED
    BY <2>1, <2>2
<1>6. g = [i \in 0 .. NWorkers |-> Body(g, i)]
  <2> HIDE DEF Body
  <2>1. g = [i \in 0 .. NWorkers |-> g[i]]
    BY <1>4
  <2>2. QED
    BY <1>5, <2>1
<1> DEFINE c == CHOOSE h : h = [i \in 0 .. NWorkers |-> Body(h, i)]
<1>7. c = [i \in 0 .. NWorkers |-> Body(c, i)]
  <2> HIDE DEF Body
  <2>1. QED
    BY <1>6
<1>8. rep_base' = c
  BY DEF Add
<1> HIDE DEF c
<1>9. c[0] = rep_base[0]
  BY <1>1, <1>7
<1>10. ASSUME NEW i \in 1 .. NWorkers
      PROVE  c[i] = c[i - 1] + rep_base[i]
  <2>1. i \in 0 .. NWorkers /\ i # 0
    BY <1>1
  <2>2. c[i] = Body(c, i)
    <3> HIDE DEF Body
    <3>1. QED
      BY <1>7, <2>1
  <2>3. QED
    BY <2>1, <2>2
<1>11. \A i \in 0 .. NWorkers : c[i] \in Nat
  <2> DEFINE S == {i \in 0 .. NWorkers : c[i] \in Nat}
  <2>1. 0 \in S
    BY <1>1, <1>9
  <2>2. \A i \in 1 .. NWorkers : i - 1 \in S => i \in S
    BY <1>1, <1>10
  <2> HIDE DEF S
  <2>3. \A i \in 0 .. NWorkers : i \in S
    BY <1>1, <2>1, <2>2, AllNumbers
  <2>4. QED
    BY <2>3 DEF S
<1>12. c \in [0 .. NWorkers -> Nat]
  <2> HIDE DEF Body
  <2>1. c = [i \in 0 .. NWorkers |-> c[i]]
    BY <1>7
  <2>2. QED
    BY <1>11, <2>1
<1>13. QED
  BY <1>8, <1>9, <1>10, <1>12

(* They are where the numbers of the blocks start.                         *)
LEMMA SumIsRank ==
  ASSUME rep_base \in [0 .. NWorkers -> Nat], rep_base[0] = 0, Add(0),
         \A w \in Worker : rep_base[w + 1] = Len(BlockReps(w))
  PROVE  \A w \in Worker : rep_base'[w] = Rank(w * BlockSize)
<1> DEFINE b == rep_base'
           S == {i \in 0 .. NWorkers : b[i] = Rank(i * BlockSize)}
<1>1. /\ b \in [0 .. NWorkers -> Nat] /\ b[0] = 0
      /\ \A i \in 1 .. NWorkers : b[i] = b[i - 1] + rep_base[i]
  BY SumSteps
<1>2. NWorkers \in Nat /\ BlockSize \in Nat
  BY Numbers
<1> HIDE DEF b
<1>3. 0 \in S
  <2>1. 0 * BlockSize = 0
    BY <1>2
  <2>2. QED
    BY <1>1, <1>2, <2>1, RankEnds
<1>4. ASSUME NEW i \in 1 .. NWorkers, i - 1 \in S
      PROVE  i \in S
  <2>1. i - 1 \in Worker /\ (i - 1) + 1 = i
    BY <1>2 DEF Worker
  <2>2. rep_base[i] = Rank(i * BlockSize) - Rank((i - 1) * BlockSize)
    BY <2>1, BlockRepsAre
  <2>3. b[i - 1] = Rank((i - 1) * BlockSize)
    BY <1>4
  <2>4. Rank(i * BlockSize) \in Nat /\ Rank((i - 1) * BlockSize) \in Nat
    <3>1. i * BlockSize \in Nat /\ (i - 1) * BlockSize \in Nat
      BY <1>2, <2>1, InBlock, i \in Nat
    <3>2. QED
      BY <3>1, RankStep
  <2>5. b[i] = Rank(i * BlockSize)
    BY <1>1, <2>2, <2>3, <2>4
  <2>6. QED
    BY <2>5
<1> HIDE DEF S
<1>5. \A i \in 0 .. NWorkers : i \in S
  BY <1>2, <1>3, <1>4, AllNumbers
<1>6. QED
  BY <1>2, <1>5 DEF S, b, Worker

-----------------------------------------------------------------------------
(* The binary search.                                                      *)
Halved(x, p) ==
  LET mid == (x[1] + x[2]) \div 2 IN
  IF x[1] >= x[2] THEN x ELSE IF s2r[mid] < p THEN <<mid + 1, x[2]>> ELSE <<x[1], mid>>

LEMMA SearchSteps ==
  ASSUME NEW p
  PROVE  \E g : /\ LowerBound(p) = g[NRep][1] /\ g[0] = <<0, NRep>>
                /\ \A i \in 0 .. NRep : g[i] \in Int \X Int
                /\ \A i \in 1 .. NRep : g[i] = Halved(g[i - 1], p)
<1> DEFINE Body(g, i) ==
             IF i = 0 THEN <<0, NRep>>
             ELSE LET lo == g[i - 1][1]
                      hi == g[i - 1][2]
                      mid == (lo + hi) \div 2 IN
                  IF lo >= hi THEN <<lo, hi>>
                  ELSE IF s2r[mid] < p THEN <<mid + 1, hi>> ELSE <<lo, mid>>
           Pair == Int \X Int
           F == [x \in Pair \X (1 .. NRep) |-> Halved(x[1], p)]
           first == <<0, NRep>>
<1>1. NRep \in Nat /\ first \in Pair
  BY Numbers
<1>2. F \in [Pair \X (1 .. NRep) -> Pair]
  <2>1. \A x \in Pair : Halved(x, p) \in Pair
    BY DEF Halved
  <2> HIDE DEF Pair
  <2>2. QED
    BY <2>1
<1>3. PICK g : IsIteration(g, Pair, first, NRep, F)
  <2> HIDE DEF F
  <2>1. QED
    BY <1>1, <1>2, Iterates
<1>4. /\ g \in [0 .. NRep -> Pair] /\ g[0] = first
       /\ \A i \in 1 .. NRep : g[i] = F[<<g[i - 1], i>>]
  BY <1>3 DEF IsIteration
<1>5. ASSUME NEW i \in 0 .. NRep
      PROVE  g[i] = Body(g, i)
  <2>1. CASE i = 0
    BY <1>4, <2>1
  <2>2. CASE i # 0
    <3>1. i \in 1 .. NRep /\ i - 1 \in 0 .. NRep /\ g[i - 1] \in Pair
      BY <1>1, <1>4, <2>2
    <3>2. <<g[i - 1], i>> \in Pair \X (1 .. NRep)
      BY <1>4, <3>1
    <3>3. g[i] = Halved(g[i - 1], p)
      BY <1>4, <3>1, <3>2
    <3>4. g[i - 1] = <<g[i - 1][1], g[i - 1][2]>>
      BY <3>1
    <3>5. QED
      BY <2>2, <3>3, <3>4 DEF Halved
  <2>3. QED
    BY <2>1, <2>2
<1>6. g = [i \in 0 .. NRep |-> Body(g, i)]
  <2> HIDE DEF Body
  <2>1. g = [i \in 0 .. NRep |-> g[i]]
    BY <1>4
  <2>2. QED
    BY <1>5, <2>1
<1> DEFINE c == CHOOSE h : h = [i \in 0 .. NRep |-> Body(h, i)]
<1>7. c = [i \in 0 .. NRep |-> Body(c, i)]
  <2> HIDE DEF Body
  <2>1. QED
    BY <1>6
<1>8. LowerBound(p) = c[NRep][1]
  BY DEF LowerBound
<1>9. \A i \in 0 .. NRep : c[i] = g[i]
  <2> DEFINE S == {i \in 0 .. NRep : c[i] = g[i]}
  <2> HIDE DEF c
  <2>1. 0 \in S
    <3>1. 0 \in 0 .. NRep
      BY <1>1
    <3>2. c[0] = Body(c, 0) /\ g[0] = Body(g, 0)
      <4> HIDE DEF Body
      <4>1. QED
        BY <1>5, <1>7, <3>1
    <3>3. QED
      BY <3>1, <3>2
  <2>2. ASSUME NEW i \in 1 .. NRep, i - 1 \in S
        PROVE  i \in S
    <3>1. i \in 0 .. NRep /\ i # 0 /\ c[i - 1] = g[i - 1]
      BY <1>1, <2>2
    <3>2. c[i] = Body(c, i) /\ g[i] = Body(g, i)
      <4> HIDE DEF Body
      <4>1. QED
        BY <1>5, <1>7, <3>1
    <3>3. Body(c, i) = Body(g, i)
      BY <3>1
    <3>4. QED
      BY <3>1, <3>2, <3>3
  <2> HIDE DEF S
  <2>3. \A i \in 0 .. NRep : i \in S
    BY <1>1, <2>1, <2>2, AllNumbers
  <2>4. QED
    BY <2>3 DEF S
<1> HIDE DEF c
<1>10. ASSUME NEW i \in 1 .. NRep
      PROVE  g[i] = Halved(g[i - 1], p)
  <2>1. <<g[i - 1], i>> \in Pair \X (1 .. NRep)
    BY <1>1, <1>4
  <2>2. QED
    BY <1>4, <2>1
<1> HIDE DEF Body, F
<1>11. LowerBound(p) = g[NRep][1] /\ \A i \in 0 .. NRep : g[i] \in Int \X Int
  BY <1>1, <1>4, <1>8, <1>9
<1>12. QED
  BY <1>4, <1>10, <1>11

(* It finds the number of a representative.                                *)
LEMMA LowerBoundIsRank ==
  ASSUME s2r = Ranked, NEW p \in Perm, IsRep(p)
  PROVE  LowerBound(p) = Rank(p)
<1>1. PICK g : /\ LowerBound(p) = g[NRep][1] /\ g[0] = <<0, NRep>>
               /\ \A i \in 0 .. NRep : g[i] \in Int \X Int
               /\ \A i \in 1 .. NRep : g[i] = Halved(g[i - 1], p)
  BY SearchSteps
<1> DEFINE r == Rank(p)
           Good(x, i) == /\ 0 <= x[1] /\ x[1] <= r /\ r <= x[2] /\ x[2] <= NRep
                         /\ x[2] - x[1] <= NRep - i
           S == {i \in 0 .. NRep : Good(g[i], i)}
<1>2. NRep \in Nat /\ r \in Rep /\ r \in Nat /\ r < NRep /\ Ranked[r] = p
  BY Numbers, RankOfRep DEF Rep
<1> HIDE DEF r
<1>3. 0 \in S
  BY <1>1, <1>2
<1>4. ASSUME NEW i \in 1 .. NRep, i - 1 \in S
      PROVE  i \in S
  <2> DEFINE lo == g[i - 1][1]
             hi == g[i - 1][2]
             mid == (lo + hi) \div 2
  <2>1. i - 1 \in 0 .. NRep /\ g[i - 1] \in Int \X Int /\ g[i - 1] = <<lo, hi>>
        /\ lo \in Int /\ hi \in Int /\ i \in Int
    BY <1>1, <1>2
  <2>2. /\ 0 <= lo /\ lo <= r /\ r <= hi /\ hi <= NRep
        /\ hi - lo <= NRep - (i - 1)
    BY <1>4
  <2>3. g[i] = IF lo >= hi THEN <<lo, hi>>
               ELSE IF s2r[mid] < p THEN <<mid + 1, hi>> ELSE <<lo, mid>>
    BY <1>1, <2>1 DEF Halved
  <2> HIDE DEF lo, hi
  <2>4. CASE lo >= hi
    BY <1>2, <2>1, <2>2, <2>3, <2>4
  <2>5. CASE lo < hi
    <3>1. mid \in Int /\ lo <= mid /\ mid < hi
      BY <2>1, <2>5
    <3>2. mid \in Rep
      BY <1>2, <2>1, <2>2, <3>1 DEF Rep
    <3> HIDE DEF mid
    <3>3. Ranked[mid] \in Nat /\ p \in Nat
      BY <3>2, RepOfRank, Numbers DEF Perm
    <3>4. CASE s2r[mid] < p
      <4>1. ~ (mid > r) /\ mid # r
        BY <1>2, <3>2, <3>3, <3>4, RankedGrows
      <4>2. g[i] = <<mid + 1, hi>>
        BY <2>1, <2>3, <2>5, <3>4
      <4>3. QED
        BY <1>2, <2>1, <2>2, <3>1, <4>1, <4>2
    <3>5. CASE ~ (s2r[mid] < p)
      <4>1. ~ (mid < r)
        BY <1>2, <3>2, <3>3, <3>5, RankedGrows
      <4>2. g[i] = <<lo, mid>>
        BY <2>1, <2>3, <2>5, <3>5
      <4>3. QED
        BY <1>2, <2>1, <2>2, <3>1, <4>1, <4>2
    <3>6. QED
      BY <3>4, <3>5
  <2>6. QED
    BY <2>1, <2>4, <2>5
<1>5. NRep \in S
  <2> HIDE DEF S
  <2>1. \A i \in 0 .. NRep : i \in S
    BY <1>2, <1>3, <1>4, AllNumbers
  <2>2. QED
    BY <1>2, <2>1
<1>6. g[NRep][1] = r
  <2>1. g[NRep] \in Int \X Int
    BY <1>1, <1>2
  <2>2. QED
    BY <1>2, <1>5, <2>1
<1>7. QED
  BY <1>1, <1>6 DEF r

-----------------------------------------------------------------------------
(* With the right tables every coordinate is real.                         *)
LEMMA RepMoves ==
  ASSUME TablesRight, NEW i \in Rep, NEW k \in Move
  PROVE  /\ moves[i][k] \in Sym \X Rep
         /\ Image[moves[i][k][1]][Ranked[moves[i][k][2]]] = Moved[Ranked[i]][k]
<1>1. moves \in [Rep -> [Move -> Sym \X Rep]]
  BY DEF TablesRight, MoveTables
<1>2. RowRight(moves[i], Ranked[i])
  BY DEF TablesRight, MovesRight
<1>3. QED
  BY <1>1, <1>2 DEF RowRight

LEMMA FromPermIsReal ==
  ASSUME s2r = Ranked, NEW p \in Perm
  PROVE  FromPerm(p)[2] \in Rep /\ Image[FromPerm(p)[1]][s2r[FromPerm(p)[2]]] = p
<1> DEFINE smallest == {t \in Sym : \A u \in Sym : Image[t][p] <= Image[u][p]}
           s == CHOOSE t \in smallest : \A u \in smallest : t <= u
<1>1. smallest # {} /\ smallest \in SUBSET Nat
  BY HasSmallest, Numbers DEF Sym
<1>2. \E t \in smallest : \A u \in smallest : t <= u
  <2> HIDE DEF smallest
  <2>1. QED
    BY <1>1, LeastNumber
<1>3. s \in smallest
  BY <1>2
<1>4. FromPerm(p) = <<SymInv[s], LowerBound(Image[s][p])>>
  BY DEF FromPerm
<1> HIDE DEF s
<1>5. s \in Sym /\ Image[s][p] \in Perm /\ IsRep(Image[s][p])
  BY <1>3, Numbers, SmallestIsRep
<1>6. LowerBound(Image[s][p]) = Rank(Image[s][p])
  BY <1>5, LowerBoundIsRank
<1>7. Rank(Image[s][p]) \in Rep /\ Ranked[Rank(Image[s][p])] = Image[s][p]
  BY <1>5, RankOfRep
<1>8. Image[SymInv[s]][Image[s][p]] = p
  BY <1>5, Numbers
<1>9. QED
  BY <1>4, <1>6, <1>7, <1>8

LEMMA RightIsReal == TablesRight => CoordinatesAreReal
<1>1. SUFFICES ASSUME TablesRight
               PROVE  CoordinatesAreReal
  OBVIOUS
<1>2. s2r = Ranked /\ \A i \in Rep : self[i] = SelfOf(Ranked[i])
  BY <1>1 DEF TablesRight, SelfRight
<1>3. \A p \in Perm : FromPerm(p)[2] \in Rep
                      /\ Image[FromPerm(p)[1]][s2r[FromPerm(p)[2]]] = p
  BY <1>2, FromPermIsReal
<1>4. \A i \in Rep, k \in Move :
        Image[moves[i][k][1]][s2r[moves[i][k][2]]] = Moved[s2r[i]][k]
  BY <1>1, <1>2, RepMoves
<1>5. \A i \in Rep : self[i] = {s \in Sym \ {0} : Image[s][s2r[i]] = s2r[i]}
  BY <1>2 DEF SelfOf
<1>6. QED
  BY <1>3, <1>4, <1>5 DEF CoordinatesAreReal

-----------------------------------------------------------------------------
(* The place of one worker tells the phase.                                *)
LEMMA PhaseOf ==
  ASSUME IInv, NEW w \in Worker
  PROVE  /\ pc[w] = "load" => Loading
         /\ pc[w] \in {"collect", "barrier 1"} => Collecting
         /\ pc[w] \in {"add", "barrier 2"} => Adding
         /\ pc[w] \in {"start numbers", "number", "barrier 3"} => Numbering
         /\ pc[w] \in {"start moves", "moves"} => Moving
         /\ pc[w] = "done" => Moving \/ Usable
         /\ pc[w] = "fill" => Filling
         /\ pc[w] = "depth barrier" => Filling \/ Scanning
         /\ pc[w] \in {"decide", "scan barrier", "end of tables"} => Deciding
         /\ pc[w] \in {"begin", "move", "scan", "set", "sum"} => Scanning
         /\ pc[w] \in {"index", "indexed"} => Indexing
<1>1. /\ Loading => pc[w] = "load"
      /\ Collecting => pc[w] \in {"collect", "barrier 1"}
      /\ Adding => pc[w] \in {"add", "barrier 2"}
      /\ Numbering => pc[w] \in {"start numbers", "number", "barrier 3"}
      /\ Moving => pc[w] \in {"start moves", "moves", "done"}
      /\ Usable => pc[w] = "done"
  BY DEF Loading, Collecting, Adding, Numbering, Moving, Usable, All
<1>2. /\ Filling => pc[w] \in {"fill", "depth barrier"}
      /\ Deciding => pc[w] \in {"decide", "scan barrier", "end of tables"}
      /\ Scanning => pc[w] \in {"begin", "move", "scan", "set", "sum", "depth barrier"}
      /\ Indexing => pc[w] \in {"index", "indexed"}
  BY DEF Filling, Deciding, Scanning, Indexing, All
<1>3. \/ Loading \/ Collecting \/ Adding \/ Numbering \/ Moving \/ Usable
      \/ Filling \/ Deciding \/ Scanning \/ Indexing
  BY DEF IInv
<1>4. QED
  BY <1>1, <1>2, <1>3, ZenonT(60)

LEMMA InitInvariant == Init => IInv
<1>1. SUFFICES ASSUME Init
               PROVE  IInv
  OBVIOUS
<1>2. kills \in Nat /\ FilesRight
  BY <1>1 DEF Init, InitEperm48, FilesRight, Has, NoFile
<1>3. Loading
  BY <1>1 DEF Init, InitEperm48, Loading, Idle, All
<1>4. QED
  BY <1>2, <1>3 DEF IInv

(* As long as eprune has not begun, its variables stay as they are.        *)
LEMMA IdleStays ==
  ASSUME Idle, UNCHANGED eprune
  PROVE  Idle'
BY DEF Idle, eprune

LEMMA FilesStay ==
  ASSUME IInv, UNCHANGED <<files, kills>>
  PROVE  kills' \in Nat /\ FilesRight'
BY DEF IInv, FilesRight, Has, Ranked, MovesRight, SelfRight

LEMMA CellsThere == Home \in Cell /\ Cell # {} /\ NOrient \in Nat /\ 0 \in Orient /\ 0 \in Row
<1>1. 0 \in Orient /\ NOrient \in Nat
  BY OrientAssumption DEF Orient
<1>2. QED
  BY <1>1, FirstRep DEF Cell, Home, Row

(* Loading.                                                                *)
LEMMA LoadInvariant ==
  ASSUME IInv, Load, UNCHANGED eprune
  PROVE  IInv'
<1>1. Loading
  <2>1. pc[0] = "load"
    BY Numbers DEF Load
  <2>2. QED
    BY <2>1, Numbers, PhaseOf
<1>2. kills' \in Nat /\ FilesRight'
  BY FilesStay DEF Load
<1>3. Idle' /\ arrived' = {}
  BY <1>1, IdleStays DEF Loading, Load
<1> DEFINE ok == Has("S2R") /\ Has("Move") /\ Has("SelfSym")
<1>4. CASE ok
  <2>1. pc' = [w \in Worker |-> "done"] /\ saved' = Len(File)
    BY <1>4 DEF Load
  <2>2. s2r' = files["S2R"] /\ moves' = files["Move"] /\ self' = files["SelfSym"]
    BY <1>4 DEF Load
  <2>3. TablesRight'
    BY <1>4, <2>2 DEF IInv, FilesRight, TablesRight, Ranked, MovesRight, SelfRight
  <2>4. Len(File) \in Nat
    BY DEF File
  <2>5. Usable'
    BY <1>3, <2>1, <2>3, <2>4 DEF Usable, All
  <2>6. QED
    BY <1>2, <2>5 DEF IInv
<1>5. CASE ~ ok
  <2>1. pc' = [w \in Worker |-> "collect"] /\ saved' = 0
    BY <1>5 DEF Load
  <2>2. Zero \in Sym \X Rep /\ 0 \in Perm
    BY Numbers, FirstRep DEF Zero
  <2>3. s2r' \in [Rep -> Perm]
    <3>1. s2r' = IF Has("S2R") THEN Ranked ELSE [i \in Rep |-> 0]
      BY DEF Load, IInv, FilesRight
    <3>2. Ranked \in [Rep -> Perm]
      BY RepOfRank DEF Ranked
    <3>3. QED
      BY <2>2, <3>1, <3>2
  <2>4. moves' \in MoveTables
    BY <2>2 DEF Load, IInv, FilesRight, MoveTables
  <2>5. self' \in [Rep -> SUBSET Sym]
    BY <1>5 DEF Load
  <2>6. r2s' \in [Perm -> Sym \X Rep]
    BY <2>2 DEF Load
  <2>7. rep_base' \in [0 .. NWorkers -> Nat] /\ rep_base'[0] = 0
    BY Numbers DEF Load
  <2>8. /\ reps' \in [Worker -> Seq(Perm)]
        /\ idx' \in [Worker -> Nat] /\ next' \in [Worker -> Nat \ {0}]
    BY DEF Load
  <2>9. GenTypes'
    BY <2>1, <2>3, <2>4, <2>5, <2>6, <2>7, <2>8 DEF GenTypes, MoveTables
  <2>10. Collecting'
    BY <1>3, <2>1, <2>9 DEF Collecting, All, ArrivedAt
  <2>11. QED
    BY <1>2, <2>10 DEF IInv
<1>6. QED
  BY <1>4, <1>5

LEMMA CollectInvariant ==
  ASSUME IInv, NEW w \in Worker, Collect(w), UNCHANGED eprune
  PROVE  IInv'
<1>1. Collecting /\ pc[w] = "collect"
  BY PhaseOf DEF Collect
<1>2. kills' \in Nat /\ FilesRight'
  BY FilesStay DEF Collect
<1>3. Idle'
  BY <1>1, IdleStays DEF Collecting
<1>4. /\ pc \in [Worker -> {"collect", "barrier 1"}]
      /\ pc' = [pc EXCEPT ![w] = "barrier 1"]
      /\ reps' = [reps EXCEPT ![w] = BlockReps(w)]
      /\ rep_base' = [rep_base EXCEPT ![w + 1] = Len(BlockReps(w))]
      /\ arrived' = arrived /\ ArrivedAt({"barrier 1"})
  BY <1>1 DEF Collecting, All, Collect
<1>5. w \in Nat /\ w + 1 \in 0 .. NWorkers /\ w + 1 # 0
  BY Numbers DEF Worker
<1>6. GenTypes
  BY <1>1 DEF Collecting
<1>7. GenTypes'
  <2>1. BlockReps(w) \in Seq(Perm) /\ Len(BlockReps(w)) \in Nat
    BY BlockRepsAre
  <2>2. reps' \in [Worker -> Seq(Perm)]
    BY <1>4, <1>6, <2>1 DEF GenTypes
  <2>3. reps' \in [Worker -> Seq(Perm)] /\ rep_base' \in [0 .. NWorkers -> Nat]
        /\ rep_base'[0] = 0
    <3>1. rep_base \in [0 .. NWorkers -> Nat] /\ rep_base[0] = 0
      BY <1>6 DEF GenTypes
    <3>2. rep_base' \in [0 .. NWorkers -> Nat]
      BY <1>4, <2>1, <3>1
    <3>3. rep_base'[0] = 0
      <4>1. 0 \in 0 .. NWorkers /\ 0 # w + 1
        BY <1>5, Numbers
      <4>2. \A i \in 0 .. NWorkers : i # w + 1 => rep_base'[i] = rep_base[i]
        BY <1>4, <3>1
      <4>3. QED
        BY <3>1, <4>1, <4>2
    <3>4. QED
      BY <2>2, <3>2, <3>3
  <2>4. UNCHANGED <<s2r, self, moves, r2s, idx, next, saved>>
    BY DEF Collect, tables
  <2>5. QED
    BY <1>6, <2>3, <2>4 DEF GenTypes, MoveTables
<1>8. pc' \in [Worker -> {"collect", "barrier 1"}] /\ ArrivedAt({"barrier 1"})'
  BY <1>4 DEF ArrivedAt
<1>9. ASSUME NEW v \in Worker, pc'[v] = "barrier 1"
      PROVE  reps'[v] = BlockReps(v) /\ rep_base'[v + 1] = Len(BlockReps(v))
  <2>1. CASE v = w
    BY <1>4, <1>5, <1>6, <2>1 DEF GenTypes
  <2>2. CASE v # w
    <3>1. v \in Nat /\ v + 1 \in 0 .. NWorkers
      BY Numbers DEF Worker
    <3>2. pc[v] = "barrier 1" /\ v + 1 # w + 1 /\ v + 1 \in 0 .. NWorkers
      <4>1. pc[v] = "barrier 1"
        BY <1>4, <1>9, <2>2
      <4>2. v + 1 # w + 1
        BY <1>5, <2>2, <3>1
      <4>3. QED
        BY <3>1, <4>1, <4>2
    <3>3. reps[v] = BlockReps(v) /\ rep_base[v + 1] = Len(BlockReps(v))
      BY <1>1, <3>2 DEF Collecting
    <3>4. QED
      BY <1>4, <1>6, <2>2, <3>2, <3>3 DEF GenTypes
  <2>3. QED
    BY <2>1, <2>2
<1>10. Collecting'
  BY <1>3, <1>7, <1>8, <1>9 DEF Collecting, All
<1>11. QED
  BY <1>2, <1>10 DEF IInv

(* A barrier lets everybody through when the last one arrives.             *)
LEMMA ArriveInvariant ==
  ASSUME IInv, NEW w \in Worker, Arrive(w), UNCHANGED eprune
  PROVE  IInv'
<1>1. kills' \in Nat /\ FilesRight'
  BY FilesStay DEF Arrive
<1>2. /\ pc[w] \in {"barrier 1", "barrier 2", "barrier 3"}
      /\ UNCHANGED <<s2r, moves, self, r2s, rep_base, reps, idx, next, saved>>
      /\ IF arrived \union {w} = Worker
         THEN arrived' = {} /\ pc' = [v \in Worker |-> AfterBarrier(pc[v])]
         ELSE arrived' = arrived \union {w} /\ UNCHANGED pc
  BY DEF Arrive, tables
<1>3. Idle /\ GenTypes
  BY <1>2, PhaseOf DEF Collecting, Adding, Numbering
<1>4. Idle' /\ GenTypes'
  BY <1>2, <1>3, IdleStays DEF GenTypes, MoveTables
<1>5. CASE arrived \union {w} # Worker
  <2>1. UNCHANGED pc /\ arrived' = arrived \union {w}
    BY <1>2, <1>5
  <2>2. CASE pc[w] = "barrier 1"
    <3>1. Collecting
      BY <2>2, PhaseOf
    <3>2. Collecting'
      BY <1>2, <1>4, <2>1, <2>2, <3>1 DEF Collecting, All, ArrivedAt
    <3>3. QED
      BY <1>1, <3>2 DEF IInv
  <2>3. CASE pc[w] = "barrier 2"
    <3>1. Adding
      BY <2>3, PhaseOf
    <3>2. Adding'
      BY <1>2, <1>4, <2>1, <2>3, <3>1 DEF Adding, All, ArrivedAt, BlocksCollected, Summed
    <3>3. QED
      BY <1>1, <3>2 DEF IInv
  <2>4. CASE pc[w] = "barrier 3"
    <3>1. Numbering
      BY <2>4, PhaseOf
    <3>2. /\ All({"start numbers", "number", "barrier 3"})'
          /\ ArrivedAt({"barrier 3"})' /\ BlocksCollected' /\ Summed'
      BY <1>2, <2>1, <2>4, <3>1 DEF Numbering, All, ArrivedAt, BlocksCollected, Summed
    <3>3. ASSUME NEW v \in Worker
          PROVE  InPass(v)' /\ \A i \in 1 .. Dealt(v)' : Numbered(BlockReps(v)[i])'
      <4>1. InPass(v) /\ \A i \in 1 .. Dealt(v) : Numbered(BlockReps(v)[i])
        BY <3>1 DEF Numbering
      <4>2. Dealt(v)' = Dealt(v)
        BY <1>2, <2>1 DEF Dealt
      <4>3. InPass(v)'
        BY <1>2, <2>1, <4>1 DEF InPass
      <4>4. \A i \in 1 .. Dealt(v) : Numbered(BlockReps(v)[i])'
        BY <1>2, <4>1 DEF Numbered
      <4>5. QED
        BY <4>2, <4>3, <4>4
    <3>4. Numbering'
      BY <1>4, <3>2, <3>3 DEF Numbering
    <3>5. QED
      BY <1>1, <3>4 DEF IInv
  <2>5. QED
    BY <1>2, <2>2, <2>3, <2>4
<1>6. CASE arrived \union {w} = Worker
  <2>1. arrived' = {} /\ pc' = [v \in Worker |-> AfterBarrier(pc[v])]
    BY <1>2, <1>6
  <2>2. CASE pc[w] = "barrier 1"
    <3>1. Collecting
      BY <2>2, PhaseOf
    <3>2. \A v \in Worker : pc[v] = "barrier 1"
      BY <1>6, <2>2, <3>1 DEF Collecting, ArrivedAt
    <3>3. pc' = [v \in Worker |-> "add"]
      BY <2>1, <3>2 DEF AfterBarrier
    <3>4. BlocksCollected' /\ \A v \in Worker : rep_base'[v + 1] = Len(BlockReps(v))
      BY <1>2, <3>1, <3>2 DEF Collecting, BlocksCollected
    <3>5. pc'[0] = "add"
      BY <3>3, Numbers
    <3>6. Adding'
      BY <1>4, <2>1, <3>3, <3>4, <3>5 DEF Adding, All, ArrivedAt
    <3>7. QED
      BY <1>1, <3>6 DEF IInv
  <2>3. CASE pc[w] = "barrier 2"
    <3>1. Adding
      BY <2>3, PhaseOf
    <3>2. \A v \in Worker : pc[v] = "barrier 2"
      BY <1>6, <2>3, <3>1 DEF Adding, ArrivedAt
    <3>3. pc' = [v \in Worker |-> "start numbers"]
      BY <2>1, <3>2 DEF AfterBarrier
    <3>4. BlocksCollected' /\ Summed'
      BY <1>2, <3>1, <3>2, Numbers DEF Adding, BlocksCollected, Summed
    <3>5. \A v \in Worker : InPass(v)' /\ Dealt(v)' = 0
      BY <3>3 DEF InPass, Dealt
    <3>6. ASSUME NEW v \in Worker
          PROVE  InPass(v)' /\ \A i \in 1 .. Dealt(v)' : Numbered(BlockReps(v)[i])'
      BY <3>5
    <3>7. /\ All({"start numbers", "number", "barrier 3"})'
          /\ ArrivedAt({"barrier 3"})'
      BY <2>1, <3>3 DEF All, ArrivedAt
    <3>8. Numbering'
      BY <1>4, <3>4, <3>6, <3>7 DEF Numbering
    <3>9. QED
      BY <1>1, <3>8 DEF IInv
  <2>4. CASE pc[w] = "barrier 3"
    <3>1. Numbering
      BY <2>4, PhaseOf
    <3>2. \A v \in Worker : pc[v] = "barrier 3"
      BY <1>6, <2>4, <3>1 DEF Numbering, ArrivedAt
    <3>3. pc' = [v \in Worker |-> "start moves"]
      BY <2>1, <3>2 DEF AfterBarrier
    <3>4. BlocksCollected' /\ Summed'
      BY <1>2, <3>1 DEF Numbering, BlocksCollected, Summed
    <3>5. \A v \in Worker : InPass(v)' /\ Dealt(v)' = 0
      BY <3>3 DEF InPass, Dealt
    <3>6. ASSUME NEW p \in Perm, IsRep(p)
          PROVE  Numbered(p)'
      <4>1. PICK v \in Worker : \E k \in 1 .. Len(BlockReps(v)) : BlockReps(v)[k] = p
        BY <3>6, Covered
      <4>2. Dealt(v) = Len(BlockReps(v))
        BY <3>2 DEF Dealt
      <4>3. Numbered(p)
        BY <3>1, <4>1, <4>2 DEF Numbering
      <4>4. QED
        BY <1>2, <4>3 DEF Numbered
    <3>7. ~ All({"done"})'
      BY <3>3, Numbers DEF All
    <3>8. ASSUME NEW v \in Worker
          PROVE  InPass(v)' /\ \A i \in 1 .. Dealt(v)' :
                   RowRight(moves[Rank(BlockReps(v)[i])], BlockReps(v)[i])'
      BY <3>5
    <3>9. All({"start moves", "moves", "done"})'
      BY <3>3 DEF All
    <3>10. Moving'
      BY <1>4, <2>1, <3>4, <3>6, <3>7, <3>8, <3>9 DEF Moving
    <3>11. QED
      BY <1>1, <3>10 DEF IInv
  <2>5. QED
    BY <1>2, <2>2, <2>3, <2>4
<1>7. QED
  BY <1>5, <1>6

LEMMA AddInvariant ==
  ASSUME IInv, NEW w \in Worker, Add(w), UNCHANGED eprune
  PROVE  IInv'
<1>1. Adding /\ pc[w] = "add"
  BY PhaseOf DEF Add
<1>2. kills' \in Nat /\ FilesRight'
  BY FilesStay DEF Add
<1>3. Idle'
  BY <1>1, IdleStays DEF Adding
<1>4. /\ pc \in [Worker -> {"add", "barrier 2"}] /\ pc' = [pc EXCEPT ![w] = "barrier 2"]
      /\ arrived' = arrived /\ ArrivedAt({"barrier 2"})
      /\ UNCHANGED <<s2r, self, moves, r2s, reps, idx, next, saved>>
  BY <1>1 DEF Adding, All, Add, tables
<1>5. GenTypes /\ BlocksCollected
  BY <1>1 DEF Adding
<1>6. /\ pc' \in [Worker -> {"add", "barrier 2"}]
      /\ ArrivedAt({"barrier 2"})' /\ BlocksCollected'
  BY <1>4, <1>5 DEF ArrivedAt, BlocksCollected
<1>7. CASE w = 0
  <2>1. rep_base \in [0 .. NWorkers -> Nat] /\ rep_base[0] = 0
    BY <1>5 DEF GenTypes
  <2>2. \A v \in Worker : rep_base[v + 1] = Len(BlockReps(v))
    BY <1>1, <1>7 DEF Adding
  <2>3. Add(0)
    BY <1>7
  <2>4. Summed'
    BY <2>1, <2>2, <2>3, SumIsRank DEF Summed
  <2>5. rep_base' \in [0 .. NWorkers -> Nat] /\ rep_base'[0] = 0
    BY <2>1, <2>3, SumSteps
  <2>6. GenTypes'
    BY <1>4, <1>5, <2>5 DEF GenTypes, MoveTables
  <2>7. pc'[0] = "barrier 2"
    BY <1>4, <1>7
  <2>8. Adding'
    BY <1>3, <1>6, <2>4, <2>6, <2>7 DEF Adding, All
  <2>9. QED
    BY <1>2, <2>8 DEF IInv
<1>8. CASE w # 0
  <2>1. rep_base' = rep_base
    BY <1>8, Zenon DEF Add
  <2>2. rep_base' = rep_base /\ pc'[0] = pc[0]
    BY <1>4, <1>8, <2>1, Numbers
  <2>3. GenTypes'
    BY <1>4, <1>5, <2>2 DEF GenTypes, MoveTables
  <2>4. /\ pc'[0] = "add" => \A v \in Worker : rep_base'[v + 1] = Len(BlockReps(v))
        /\ pc'[0] = "barrier 2" => Summed'
    BY <1>1, <2>2 DEF Adding, Summed
  <2>5. Adding'
    BY <1>3, <1>6, <2>3, <2>4 DEF Adding, All
  <2>6. QED
    BY <1>2, <2>5 DEF IInv
<1>9. QED
  BY <1>7, <1>8

LEMMA PassStays ==
  ASSUME NEW v, pc'[v] = pc[v], next'[v] = next[v], idx'[v] = idx[v], rep_base' = rep_base
  PROVE  Dealt(v)' = Dealt(v) /\ (InPass(v) => InPass(v)')
BY DEF Dealt, InPass

LEMMA DealtIs ==
  ASSUME NEW v
  PROVE  /\ pc[v] \in {"start numbers", "start moves"} => Dealt(v) = 0
         /\ pc[v] \in {"number", "moves"} => Dealt(v) = next[v] - 1
         /\ pc[v] \in {"barrier 3", "done"} => Dealt(v) = Len(BlockReps(v))
         /\ pc'[v] \in {"number", "moves"} => Dealt(v)' = next'[v] - 1
         /\ pc'[v] \in {"barrier 3", "done"} => Dealt(v)' = Len(BlockReps(v))
BY DEF Dealt

LEMMA RowStays ==
  ASSUME UNCHANGED moves, NEW i, NEW p
  PROVE  RowRight(moves[i], p) => RowRight(moves[i], p)'
BY DEF RowRight, Ranked

LEMMA GenNumbers ==
  ASSUME GenTypes
  PROVE  /\ idx \in [Worker -> Nat] /\ next \in [Worker -> Nat \ {0}]
         /\ \A w \in Worker : rep_base[w] \in Nat /\ idx[w] \in Nat /\ next[w] \in Nat
<1>1. /\ idx \in [Worker -> Nat] /\ next \in [Worker -> Nat \ {0}]
      /\ rep_base \in [0 .. NWorkers -> Nat]
  BY DEF GenTypes
<1>2. Worker \subseteq 0 .. NWorkers
  BY Numbers DEF Worker
<1>3. QED
  BY <1>1, <1>2

LEMMA NumberedStays ==
  ASSUME UNCHANGED <<s2r, self, r2s>>, NEW p
  PROVE  Numbered(p) => Numbered(p)'
BY DEF Numbered

(* In a pass a worker is at one of its representatives, or at the end.     *)
LEMMA AtRep ==
  ASSUME GenTypes, BlocksCollected, Summed, NEW w \in Worker, InPass(w),
         pc[w] \in {"number", "moves"}
  PROVE  /\ Dealt(w) = next[w] - 1 /\ next[w] \in Nat \ {0}
         /\ Len(reps[w]) = Len(BlockReps(w)) /\ Len(BlockReps(w)) \in Nat
         /\ next[w] <= Len(BlockReps(w)) + 1
         /\ next[w] <= Len(reps[w]) =>
              LET p == reps[w][next[w]] IN
              /\ next[w] \in 1 .. Len(BlockReps(w)) /\ p = BlockReps(w)[next[w]]
              /\ p \in Perm /\ IsRep(p) /\ Rank(p) = idx[w] /\ idx[w] \in Rep
<1>1. reps[w] = BlockReps(w) /\ rep_base[w] = Rank(w * BlockSize)
  BY DEF BlocksCollected, Summed
<1>2. next[w] \in Nat \ {0} /\ Len(BlockReps(w)) \in Nat
  BY BlockRepsAre DEF GenTypes
<1>3. next[w] <= Len(BlockReps(w)) + 1 /\ idx[w] = rep_base[w] + next[w] - 1
  BY DEF InPass
<1>4. Dealt(w) = next[w] - 1
  BY DEF Dealt
<1>5. ASSUME next[w] <= Len(reps[w])
      PROVE  LET p == reps[w][next[w]] IN
             /\ next[w] \in 1 .. Len(BlockReps(w)) /\ p = BlockReps(w)[next[w]]
             /\ p \in Perm /\ IsRep(p) /\ Rank(p) = idx[w] /\ idx[w] \in Rep
  <2> DEFINE p == reps[w][next[w]]
  <2>1. next[w] \in 1 .. Len(BlockReps(w))
    BY <1>1, <1>2, <1>5
  <2>2. p = BlockReps(w)[next[w]] /\ p \in Perm /\ IsRep(p)
        /\ Rank(p) = Rank(w * BlockSize) + next[w] - 1
    BY <1>1, <2>1, BlockRepsAre
  <2>3. Rank(p) = idx[w]
    BY <1>1, <1>3, <2>2
  <2>4. Rank(p) \in Rep
    BY <2>2, RankOfRep
  <2> HIDE DEF p
  <2>5. QED
    BY <2>1, <2>2, <2>3, <2>4 DEF p
<1>6. QED
  BY <1>1, <1>2, <1>3, <1>4, <1>5

LEMMA StartPassInvariant ==
  ASSUME IInv, NEW w \in Worker, StartPass(w), UNCHANGED eprune
  PROVE  IInv'
<1>1. kills' \in Nat /\ FilesRight'
  BY FilesStay DEF StartPass
<1>2. /\ pc[w] \in {"start numbers", "start moves"}
      /\ idx' = [idx EXCEPT ![w] = rep_base[w]]
      /\ next' = [next EXCEPT ![w] = 1]
      /\ pc' = [pc EXCEPT ![w] = IF @ = "start numbers" THEN "number" ELSE "moves"]
      /\ UNCHANGED <<s2r, moves, self, r2s, rep_base, arrived, reps, saved>>
  BY DEF StartPass, tables
<1>3. Idle /\ GenTypes /\ BlocksCollected /\ Summed
  BY <1>2, PhaseOf DEF Numbering, Moving
<1>4. rep_base[w] \in Nat /\ idx \in [Worker -> Nat] /\ next \in [Worker -> Nat \ {0}]
  BY <1>3, GenNumbers
<1>5. Idle' /\ GenTypes' /\ BlocksCollected' /\ Summed'
  <2>1. idx' \in [Worker -> Nat] /\ next' \in [Worker -> Nat \ {0}]
    <3>1. 1 \in Nat \ {0}
      OBVIOUS
    <3>2. QED
      BY <1>2, <1>4, <3>1
  <2>2. QED
    BY <1>2, <1>3, <2>1, IdleStays DEF GenTypes, MoveTables, BlocksCollected, Summed
<1>6. /\ idx'[w] = rep_base'[w] + next'[w] - 1 /\ next'[w] = 1
      /\ next'[w] <= Len(BlockReps(w)) + 1
  <2>1. idx'[w] = rep_base[w] /\ next'[w] = 1
    BY <1>2, <1>4
  <2>2. Len(BlockReps(w)) \in Nat
    BY BlockRepsAre
  <2>3. rep_base'[w] = rep_base[w]
    BY <1>2
  <2>4. QED
    BY <1>4, <2>1, <2>2, <2>3
<1>7. CASE pc[w] = "start numbers"
  <2>1. Numbering
    BY <1>7, PhaseOf
  <2>2. pc \in [Worker -> {"start numbers", "number", "barrier 3"}]
    BY <2>1 DEF Numbering, All
  <2>3. /\ pc' \in [Worker -> {"start numbers", "number", "barrier 3"}]
        /\ pc'[w] = "number" /\ \A v \in Worker \ {w} : pc'[v] = pc[v]
    BY <1>2, <1>7, <2>2
  <2>4. ArrivedAt({"barrier 3"})'
    <3>1. w \notin arrived
      BY <1>7, <2>1 DEF Numbering, ArrivedAt
    <3>2. QED
      BY <1>2, <2>1, <2>3, <3>1 DEF Numbering, ArrivedAt
  <2>5. ASSUME NEW v \in Worker
        PROVE  InPass(v)' /\ \A i \in 1 .. Dealt(v)' : Numbered(BlockReps(v)[i])'
    <3>1. CASE v = w
      <4>1. Dealt(w)' = 0
        <5>1. Dealt(w)' = next'[w] - 1
          BY <2>3, DealtIs
        <5>2. QED
          BY <1>6, <5>1
      <4>2. InPass(w)'
        BY <1>6 DEF InPass
      <4>3. QED
        BY <3>1, <4>1, <4>2
    <3>2. CASE v # w
      <4>1. pc'[v] = pc[v] /\ next'[v] = next[v] /\ idx'[v] = idx[v]
        BY <1>2, <1>3, <2>3, <3>2 DEF GenTypes
      <4>2. InPass(v) /\ \A i \in 1 .. Dealt(v) : Numbered(BlockReps(v)[i])
        BY <2>1 DEF Numbering
      <4>3. InPass(v)' /\ Dealt(v)' = Dealt(v)
        BY <1>2, <4>1, <4>2, PassStays
      <4>4. \A i \in 1 .. Dealt(v) : Numbered(BlockReps(v)[i])'
        BY <1>2, <4>2, NumberedStays
      <4>5. QED
        BY <4>3, <4>4
    <3>3. QED
      BY <3>1, <3>2
  <2>6. Numbering'
    BY <1>5, <2>3, <2>4, <2>5 DEF Numbering, All
  <2>7. QED
    BY <1>1, <2>6 DEF IInv
<1>8. CASE pc[w] = "start moves"
  <2>1. Moving
    BY <1>8, PhaseOf
  <2>2. pc \in [Worker -> {"start moves", "moves", "done"}]
    BY <2>1 DEF Moving, All
  <2>3. /\ pc' \in [Worker -> {"start moves", "moves", "done"}]
        /\ pc'[w] = "moves" /\ \A v \in Worker \ {w} : pc'[v] = pc[v]
    BY <1>2, <1>8, <2>2
  <2>4. ~ All({"done"})' /\ arrived' = {}
    BY <1>2, <2>1, <2>3 DEF All, Moving
  <2>5. ASSUME NEW v \in Worker
        PROVE  InPass(v)' /\ \A i \in 1 .. Dealt(v)' :
                 RowRight(moves[Rank(BlockReps(v)[i])], BlockReps(v)[i])'
    <3>1. CASE v = w
      <4>1. Dealt(w)' = 0
        <5>1. Dealt(w)' = next'[w] - 1
          BY <2>3, DealtIs
        <5>2. QED
          BY <1>6, <5>1
      <4>2. InPass(w)'
        BY <1>6 DEF InPass
      <4>3. QED
        BY <3>1, <4>1, <4>2
    <3>2. CASE v # w
      <4>1. pc'[v] = pc[v] /\ next'[v] = next[v] /\ idx'[v] = idx[v]
        BY <1>2, <1>3, <2>3, <3>2 DEF GenTypes
      <4>2. InPass(v) /\ \A i \in 1 .. Dealt(v) :
              RowRight(moves[Rank(BlockReps(v)[i])], BlockReps(v)[i])
        BY <2>1 DEF Moving
      <4>3. InPass(v)' /\ Dealt(v)' = Dealt(v)
        BY <1>2, <4>1, <4>2, PassStays
      <4>4. \A i \in 1 .. Dealt(v) :
              RowRight(moves[Rank(BlockReps(v)[i])], BlockReps(v)[i])'
        BY <1>2, <4>2, RowStays
      <4>5. QED
        BY <4>3, <4>4
    <3>3. QED
      BY <3>1, <3>2
  <2>6. \A p \in Perm : IsRep(p) => Numbered(p)'
    BY <1>2, <2>1, NumberedStays DEF Moving
  <2>7. Moving'
    BY <1>5, <2>3, <2>4, <2>5, <2>6 DEF Moving, All
  <2>8. QED
    BY <1>1, <2>7 DEF IInv
<1>9. QED
  BY <1>2, <1>7, <1>8

(* The class that a worker numbers is nobody else's.                       *)
LEMMA NumberInvariant ==
  ASSUME IInv, NEW w \in Worker, Number(w), UNCHANGED eprune
  PROVE  IInv'
<1>1. PICK p : p = reps[w][next[w]]
  OBVIOUS
<1> DEFINE own == {s \in Sym \ {0} : Image[s][p] = p}
           To(q) == {s \in Sym \ own : Image[s][p] = q}
           last(q) == CHOOSE s \in To(q) : \A t \in To(q) : t <= s
<1>2. kills' \in Nat /\ FilesRight'
  BY FilesStay DEF Number, OneMore
<1>3. /\ pc[w] = "number" /\ next[w] <= Len(reps[w])
      /\ idx' = [idx EXCEPT ![w] = @ + 1]
      /\ next' = [next EXCEPT ![w] = @ + 1]
      /\ UNCHANGED <<moves, rep_base, arrived, pc, reps, saved>>
      /\ self' = [self EXCEPT ![idx[w]] = own]
      /\ s2r' = [s2r EXCEPT ![idx[w]] = p]
  BY <1>1 DEF Number, OneMore
<1>4. r2s' = [q \in Perm |-> IF To(q) = {} THEN r2s[q] ELSE <<last(q), idx[w]>>]
  BY <1>1 DEF Number
<1>5. Numbering
  BY <1>3, PhaseOf
<1>6. Idle /\ GenTypes /\ BlocksCollected /\ Summed
      /\ pc \in [Worker -> {"start numbers", "number", "barrier 3"}]
  BY <1>5 DEF Numbering, All
<1>7. InPass(w) /\ \A i \in 1 .. Dealt(w) : Numbered(BlockReps(w)[i])
  BY <1>5 DEF Numbering
<1>8. /\ Dealt(w) = next[w] - 1 /\ next[w] \in Nat \ {0}
      /\ Len(BlockReps(w)) \in Nat /\ next[w] \in 1 .. Len(BlockReps(w))
      /\ p = BlockReps(w)[next[w]]
      /\ p \in Perm /\ IsRep(p) /\ Rank(p) = idx[w] /\ idx[w] \in Rep
  BY <1>1, <1>3, <1>6, <1>7, AtRep
<1>9. \A q : To(q) \in SUBSET Sym
  OBVIOUS
<1>10. ASSUME NEW q, To(q) # {}
      PROVE  last(q) \in Sym /\ Image[last(q)][p] = q
  <2> DEFINE down == {NSym - s : s \in To(q)}
  <2>1. down \in SUBSET Nat /\ down # {}
    BY <1>9, <1>10, Numbers DEF Sym
  <2>2. PICK d \in down : \A e \in down : d <= e
    <3> HIDE DEF down
    <3>1. QED
      BY <2>1, LeastNumber
  <2>3. PICK s \in To(q) : d = NSym - s
    BY <2>2
  <2>4. \A t \in To(q) : t <= s
    <3>1. TAKE t \in To(q)
    <3>2. NSym - t \in down /\ t \in Int /\ s \in Int /\ NSym \in Int
      BY <1>9, <2>3, Numbers DEF Sym
    <3> HIDE DEF To, down
    <3>3. QED
      BY <2>2, <2>3, <3>2
  <2>5. last(q) \in To(q)
    <3> HIDE DEF To
    <3>1. QED
      BY <2>3, <2>4
  <2> HIDE DEF last
  <2>6. QED
    BY <2>5
<1> HIDE DEF last
<1>11. r2s' \in [Perm -> Sym \X Rep]
  <2>1. r2s \in [Perm -> Sym \X Rep]
    BY <1>6 DEF GenTypes
  <2> HIDE DEF To
  <2>2. QED
    BY <1>4, <1>8, <1>10, <2>1
<1>12. own \in SUBSET Sym /\ own = SelfOf(p)
  BY DEF SelfOf
<1>13. /\ s2r \in [Rep -> Perm] /\ self \in [Rep -> SUBSET Sym]
       /\ idx \in [Worker -> Nat] /\ next \in [Worker -> Nat \ {0}]
  BY <1>6 DEF GenTypes
<1> HIDE DEF own, To
<1>14. /\ s2r' \in [Rep -> Perm] /\ self' \in [Rep -> SUBSET Sym]
       /\ idx' \in [Worker -> Nat] /\ next' \in [Worker -> Nat \ {0}]
  BY <1>3, <1>8, <1>12, <1>13
<1>15. Idle' /\ GenTypes' /\ BlocksCollected' /\ Summed'
  BY <1>3, <1>6, <1>11, <1>14, IdleStays DEF GenTypes, MoveTables, BlocksCollected, Summed
<1>16. Numbered(p)'
  <2>1. s2r'[Rank(p)] = p /\ self'[Rank(p)] = SelfOf(p)
    BY <1>3, <1>8, <1>12, <1>13
  <2>2. ASSUME NEW s \in Sym
        PROVE  LET c == r2s'[Image[s][p]] IN
               c[2] = Rank(p) /\ Image[c[1]][p] = Image[s][p]
    <3>1. To(Image[s][p]) # {}
      <4>1. CASE s \in own
        <5>1. Image[s][p] = p /\ Image[0][p] = p /\ 0 \in Sym /\ 0 \notin own
          BY <1>8, <4>1, Numbers, PermAssumption DEF own
        <5>2. QED
          BY <5>1 DEF To
      <4>2. CASE s \notin own
        BY <4>2 DEF To
      <4>3. QED
        BY <4>1, <4>2
    <3>2. Image[s][p] \in Perm
      BY <1>8, Numbers
    <3>3. r2s'[Image[s][p]] = <<last(Image[s][p]), idx[w]>>
      BY <1>4, <3>1, <3>2
    <3>4. QED
      BY <1>8, <1>10, <3>1, <3>3
  <2>3. QED
    BY <2>1, <2>2 DEF Numbered
<1>17. ASSUME NEW q \in Perm, IsRep(q), Numbered(q)
       PROVE  Numbered(q)'
  <2>1. CASE q = p
    BY <1>16, <2>1
  <2>2. CASE q # p
    <3>1. Rank(q) \in Rep /\ Rank(q) # idx[w]
      BY <1>8, <1>17, <2>2, RankOfRep
    <3>2. s2r'[Rank(q)] = s2r[Rank(q)] /\ self'[Rank(q)] = self[Rank(q)]
      BY <1>3, <1>13, <3>1
    <3>3. ASSUME NEW s \in Sym
          PROVE  r2s'[Image[s][q]] = r2s[Image[s][q]]
      <4>1. To(Image[s][q]) = {}
        BY <1>8, <1>17, <2>2, SameClass DEF To
      <4>2. Image[s][q] \in Perm
        BY Numbers
      <4>3. QED
        BY <1>4, <4>1, <4>2
    <3>4. QED
      BY <1>17, <3>2, <3>3 DEF Numbered
  <2>3. QED
    BY <2>1, <2>2
<1>18. ASSUME NEW v \in Worker
       PROVE  InPass(v)' /\ \A i \in 1 .. Dealt(v)' : Numbered(BlockReps(v)[i])'
  <2>1. InPass(v) /\ \A i \in 1 .. Dealt(v) : Numbered(BlockReps(v)[i])
    BY <1>5 DEF Numbering
  <2>2. ASSUME NEW i \in 1 .. Dealt(v), Dealt(v) <= Len(BlockReps(v)), Dealt(v) \in Int
        PROVE  Numbered(BlockReps(v)[i])'
    <3>1. i \in 1 .. Len(BlockReps(v))
      BY <2>2, BlockRepsAre
    <3>2. BlockReps(v)[i] \in Perm /\ IsRep(BlockReps(v)[i])
      BY <3>1, BlockRepsAre
    <3>3. QED
      BY <1>17, <2>1, <3>2
  <2>3. CASE v = w
    <3>1. next'[w] = next[w] + 1 /\ idx'[w] = idx[w] + 1
      BY <1>3, <1>13
    <3>2. Dealt(w)' = next[w]
      <4>1. Dealt(w)' = next'[w] - 1
        BY <1>3, DealtIs
      <4>2. QED
        BY <1>8, <3>1, <4>1
    <3>3. InPass(w)'
      <4>1. rep_base[w] \in Nat /\ idx[w] \in Nat
        BY <1>6, GenNumbers
      <4>2. idx[w] = rep_base[w] + next[w] - 1
        BY <1>3, <1>7 DEF InPass
      <4>3. /\ next'[w] <= Len(BlockReps(w)) + 1
            /\ idx'[w] = rep_base'[w] + next'[w] - 1
        <5>1. rep_base'[w] = rep_base[w]
          BY <1>3
        <5>2. QED
          BY <1>8, <3>1, <4>1, <4>2, <5>1
      <4>4. QED
        BY <4>3 DEF InPass
    <3>4. ASSUME NEW i \in 1 .. next[w]
          PROVE  Numbered(BlockReps(w)[i])'
      <4>1. CASE i = next[w]
        BY <1>8, <1>16, <4>1
      <4>2. CASE i # next[w]
        <5>1. i \in 1 .. Dealt(w) /\ Dealt(w) <= Len(BlockReps(w)) /\ Dealt(w) \in Int
          BY <1>8, <4>2
        <5>2. QED
          BY <2>2, <2>3, <5>1
      <4>3. QED
        BY <4>1, <4>2
    <3>5. QED
      BY <2>3, <3>2, <3>3, <3>4
  <2>4. CASE v # w
    <3>1. pc'[v] = pc[v] /\ next'[v] = next[v] /\ idx'[v] = idx[v]
      BY <1>3, <1>13, <2>4
    <3>2. InPass(v)' /\ Dealt(v)' = Dealt(v)
      BY <1>3, <2>1, <3>1, PassStays
    <3>3. Dealt(v) <= Len(BlockReps(v)) /\ Dealt(v) \in Int
      <4>1. next[v] \in Nat /\ Len(BlockReps(v)) \in Nat
        BY <1>13, BlockRepsAre
      <4>2. QED
        <5>1. pc[v] \in {"start numbers", "number", "barrier 3"}
          BY <1>6
        <5>2. CASE pc[v] = "number"
          <6>1. Dealt(v) = next[v] - 1 /\ next[v] <= Len(BlockReps(v)) + 1
            BY <2>1, <5>2, DealtIs DEF InPass
          <6>2. QED
            BY <4>1, <6>1
        <5>3. CASE pc[v] # "number"
          <6>1. Dealt(v) = 0 \/ Dealt(v) = Len(BlockReps(v))
            BY <5>1, <5>3, DealtIs
          <6>2. QED
            BY <4>1, <6>1
        <5>4. QED
          BY <5>2, <5>3
    <3>4. QED
      BY <2>2, <3>2, <3>3
  <2>5. QED
    BY <2>3, <2>4
<1>19. ArrivedAt({"barrier 3"})'
  BY <1>3, <1>5 DEF Numbering, ArrivedAt
<1>20. Numbering'
  BY <1>3, <1>6, <1>15, <1>18, <1>19 DEF Numbering, All
<1>21. QED
  BY <1>2, <1>20 DEF IInv

LEMMA Bounded ==
  /\ \A a, b, c : a \in Nat /\ b \in Nat /\ c = a - 1 /\ a <= b + 1 => c \in Int /\ c <= b
  /\ \A a, b : a \in Nat /\ (b = 0 \/ b = a) => b \in Int /\ b <= a
OBVIOUS

(* How much a worker has dealt with is at most all of its block.           *)
LEMMA DealtBound ==
  ASSUME GenTypes, NEW v \in Worker, InPass(v),
         pc[v] \in {"start numbers", "number", "barrier 3", "start moves", "moves", "done"}
  PROVE  Dealt(v) \in Int /\ Dealt(v) <= Len(BlockReps(v)) /\ Len(BlockReps(v)) \in Nat
<1> DEFINE l == Len(BlockReps(v))
           d == Dealt(v)
           n == next[v]
<1>1. next[v] \in Nat /\ Len(BlockReps(v)) \in Nat
  BY GenNumbers, BlockRepsAre
<1>2. CASE pc[v] \in {"number", "moves"}
  <2>1. d = n - 1 /\ n <= l + 1
    BY <1>2, DealtIs DEF InPass
  <2> HIDE DEF d, n, l
  <2>2. d \in Int /\ d <= l
    BY <1>1, <2>1, Bounded DEF n, l
  <2>3. QED
    BY <1>1, <2>2 DEF d, l
<1>3. CASE pc[v] \notin {"number", "moves"}
  <2>1. d = 0 \/ d = l
    BY <1>3, DealtIs
  <2> HIDE DEF d, l
  <2>2. d \in Int /\ d <= l
    BY <1>1, <2>1, Bounded DEF l
  <2>3. QED
    BY <1>1, <2>2 DEF d, l
<1>4. QED
  BY <1>2, <1>3

LEMMA MoveRowInvariant ==
  ASSUME IInv, NEW w \in Worker, MoveRow(w), UNCHANGED eprune
  PROVE  IInv'
<1>1. PICK p : p = reps[w][next[w]]
  OBVIOUS
<1>2. kills' \in Nat /\ FilesRight'
  BY FilesStay DEF MoveRow, OneMore
<1>3. /\ pc[w] = "moves" /\ next[w] <= Len(reps[w])
      /\ idx' = [idx EXCEPT ![w] = @ + 1]
      /\ next' = [next EXCEPT ![w] = @ + 1]
      /\ UNCHANGED <<s2r, self, r2s, rep_base, arrived, pc, reps, saved>>
      /\ moves' = [moves EXCEPT ![idx[w]] = [k \in Move |-> r2s[Moved[p][k]]]]
  BY <1>1 DEF MoveRow, OneMore
<1>4. Moving
  BY <1>3, PhaseOf
<1>5. Idle /\ GenTypes /\ BlocksCollected /\ Summed
      /\ pc \in [Worker -> {"start moves", "moves", "done"}]
  BY <1>4 DEF Moving, All
<1>6. InPass(w) /\ \A q \in Perm : IsRep(q) => Numbered(q)
  BY <1>4 DEF Moving
<1>7. /\ Dealt(w) = next[w] - 1 /\ next[w] \in Nat \ {0}
      /\ Len(BlockReps(w)) \in Nat /\ next[w] \in 1 .. Len(BlockReps(w))
      /\ p = BlockReps(w)[next[w]]
      /\ p \in Perm /\ IsRep(p) /\ Rank(p) = idx[w] /\ idx[w] \in Rep
  BY <1>1, <1>3, <1>5, <1>6, AtRep
<1>8. idx \in [Worker -> Nat] /\ next \in [Worker -> Nat \ {0}]
      /\ moves \in [Rep -> [Move -> Sym \X Rep]] /\ r2s \in [Perm -> Sym \X Rep]
  BY <1>5, GenNumbers DEF GenTypes, MoveTables
<1> DEFINE row == [k \in Move |-> r2s[Moved[p][k]]]
<1>9. row \in [Move -> Sym \X Rep]
  BY <1>7, <1>8, PermAssumption
<1>10. moves'[Rank(p)] = row /\ \A i \in Rep : i # Rank(p) => moves'[i] = moves[i]
  BY <1>3, <1>7, <1>8
<1>11. ASSUME NEW k \in Move
       PROVE  Image[row[k][1]][Ranked[row[k][2]]] = Moved[p][k]
  <2>1. Moved[p][k] \in Perm
    BY <1>7, PermAssumption
  <2>2. PICK r \in Perm, s \in Sym : IsRep(r) /\ Image[s][r] = Moved[p][k]
    BY <2>1, ImageOfRep
  <2>3. r2s[Moved[p][k]][2] = Rank(r) /\ Image[r2s[Moved[p][k]][1]][r] = Moved[p][k]
    BY <1>6, <2>2 DEF Numbered
  <2>4. Ranked[Rank(r)] = r
    BY <2>2, RankOfRep
  <2>5. QED
    BY <2>3, <2>4
<1>12. moves' \in [Rep -> [Move -> Sym \X Rep]]
  BY <1>3, <1>7, <1>8, <1>9
<1> HIDE DEF row
<1>13. /\ idx' \in [Worker -> Nat] /\ next' \in [Worker -> Nat \ {0}]
       /\ next'[w] = next[w] + 1 /\ idx'[w] = idx[w] + 1
  BY <1>3, <1>8
<1>14. Idle' /\ GenTypes' /\ BlocksCollected' /\ Summed'
  BY <1>3, <1>5, <1>12, <1>13, IdleStays DEF GenTypes, MoveTables, BlocksCollected, Summed
<1>15. RowRight(moves[Rank(p)], p)'
  BY <1>10, <1>11 DEF RowRight, Ranked
<1>16. ASSUME NEW q \in Perm, IsRep(q), RowRight(moves[Rank(q)], q)
       PROVE  RowRight(moves[Rank(q)], q)'
  <2>1. CASE q = p
    BY <1>15, <2>1
  <2>2. CASE q # p
    <3>1. Rank(q) \in Rep /\ Rank(q) # Rank(p)
      BY <1>7, <1>16, <2>2, RankOfRep
    <3>2. moves'[Rank(q)] = moves[Rank(q)]
      BY <1>10, <3>1
    <3>3. QED
      BY <1>16, <3>2 DEF RowRight, Ranked
  <2>3. QED
    BY <2>1, <2>2
<1>17. ASSUME NEW v \in Worker
       PROVE  InPass(v)' /\ \A i \in 1 .. Dealt(v)' :
                RowRight(moves[Rank(BlockReps(v)[i])], BlockReps(v)[i])'
  <2>1. InPass(v) /\ \A i \in 1 .. Dealt(v) :
          RowRight(moves[Rank(BlockReps(v)[i])], BlockReps(v)[i])
    BY <1>4 DEF Moving
  <2>2. Dealt(v) <= Len(BlockReps(v)) /\ Dealt(v) \in Int /\ Len(BlockReps(v)) \in Nat
    BY <1>5, <2>1, DealtBound
  <2>3. ASSUME NEW i \in 1 .. Dealt(v)
        PROVE  RowRight(moves[Rank(BlockReps(v)[i])], BlockReps(v)[i])'
    <3>1. BlockReps(v)[i] \in Perm /\ IsRep(BlockReps(v)[i])
      BY <2>2, BlockRepsAre
    <3>2. QED
      BY <1>16, <2>1, <3>1
  <2>4. CASE v = w
    <3>1. Dealt(w)' = next[w]
      <4>1. Dealt(w)' = next'[w] - 1
        BY <1>3, DealtIs
      <4>2. QED
        BY <1>7, <1>13, <4>1
    <3>2. InPass(w)'
      <4>1. rep_base[w] \in Nat /\ idx[w] \in Nat
        BY <1>5, GenNumbers
      <4>2. idx[w] = rep_base[w] + next[w] - 1
        BY <1>3, <1>6 DEF InPass
      <4>3. /\ next'[w] <= Len(BlockReps(w)) + 1
            /\ idx'[w] = rep_base'[w] + next'[w] - 1
        <5>1. rep_base'[w] = rep_base[w]
          BY <1>3
        <5>2. next'[w] = next[w] + 1 /\ idx'[w] = idx[w] + 1
          BY <1>13
        <5>3. next[w] \in 1 .. Len(BlockReps(w)) /\ Len(BlockReps(w)) \in Nat
          BY <1>7
        <5>4. next'[w] <= Len(BlockReps(w)) + 1
          BY <5>2, <5>3
        <5>5. idx'[w] = rep_base'[w] + next'[w] - 1
          BY <4>1, <4>2, <5>1, <5>2, <5>3
        <5>6. QED
          BY <5>4, <5>5
      <4>4. QED
        BY <4>3 DEF InPass
    <3>3. ASSUME NEW i \in 1 .. next[w]
          PROVE  RowRight(moves[Rank(BlockReps(w)[i])], BlockReps(w)[i])'
      <4>1. CASE i = next[w]
        BY <1>7, <1>15, <4>1
      <4>2. CASE i # next[w]
        <5>1. i \in 1 .. Dealt(w)
          BY <1>7, <4>2
        <5>2. QED
          BY <2>3, <2>4, <5>1
      <4>3. QED
        BY <4>1, <4>2
    <3>4. QED
      BY <2>4, <3>1, <3>2, <3>3
  <2>5. CASE v # w
    <3>1. pc'[v] = pc[v] /\ next'[v] = next[v] /\ idx'[v] = idx[v]
      BY <1>3, <1>8, <2>5
    <3>2. InPass(v)' /\ Dealt(v)' = Dealt(v)
      BY <1>3, <2>1, <3>1, PassStays
    <3>3. QED
      BY <2>3, <3>2
  <2>6. QED
    BY <2>4, <2>5
<1>18. \A q \in Perm : IsRep(q) => Numbered(q)'
  BY <1>3, <1>6, NumberedStays
<1>19. ~ All({"done"})' /\ arrived' = {}
  BY <1>3, <1>4 DEF All, Moving
<1>20. Moving'
  BY <1>3, <1>5, <1>14, <1>17, <1>18, <1>19 DEF Moving, All
<1>21. QED
  BY <1>2, <1>20 DEF IInv

LEMMA EndPassInvariant ==
  ASSUME IInv, NEW w \in Worker, EndPass(w), UNCHANGED eprune
  PROVE  IInv'
<1>1. kills' \in Nat /\ FilesRight'
  BY FilesStay DEF EndPass
<1>2. /\ pc[w] \in {"number", "moves"} /\ next[w] > Len(reps[w])
      /\ pc' = [pc EXCEPT ![w] = IF @ = "number" THEN "barrier 3" ELSE "done"]
      /\ UNCHANGED <<s2r, moves, self, r2s, rep_base, arrived, reps, idx, next, saved>>
  BY DEF EndPass, AfterNumbers, tables
<1>3. Idle /\ GenTypes /\ BlocksCollected /\ Summed /\ InPass(w)
  BY <1>2, PhaseOf DEF Numbering, Moving
<1>4. Idle' /\ GenTypes' /\ BlocksCollected' /\ Summed'
  BY <1>2, <1>3, IdleStays DEF GenTypes, MoveTables, BlocksCollected, Summed
<1>5. Dealt(w) = Len(BlockReps(w))
  <2>1. /\ Dealt(w) = next[w] - 1 /\ next[w] \in Nat
        /\ Len(reps[w]) = Len(BlockReps(w)) /\ Len(BlockReps(w)) \in Nat
        /\ next[w] <= Len(BlockReps(w)) + 1
    BY <1>2, <1>3, AtRep
  <2>2. next[w] > Len(BlockReps(w))
    BY <1>2, <2>1
  <2>3. next[w] = Len(BlockReps(w)) + 1
    BY <2>1, <2>2
  <2>4. QED
    BY <2>1, <2>3
<1>6. CASE pc[w] = "number"
  <2>1. Numbering
    BY <1>6, PhaseOf
  <2>2. pc \in [Worker -> {"start numbers", "number", "barrier 3"}]
    BY <2>1 DEF Numbering, All
  <2>3. /\ pc' \in [Worker -> {"start numbers", "number", "barrier 3"}]
        /\ pc'[w] = "barrier 3" /\ \A v \in Worker \ {w} : pc'[v] = pc[v]
    BY <1>2, <1>6, <2>2
  <2>4. ArrivedAt({"barrier 3"})'
    <3>1. w \notin arrived
      BY <1>6, <2>1 DEF Numbering, ArrivedAt
    <3>2. QED
      BY <1>2, <2>1, <2>3, <3>1 DEF Numbering, ArrivedAt
  <2>5. ASSUME NEW v \in Worker
        PROVE  InPass(v)' /\ \A i \in 1 .. Dealt(v)' : Numbered(BlockReps(v)[i])'
    <3>1. InPass(v) /\ \A i \in 1 .. Dealt(v) : Numbered(BlockReps(v)[i])
      BY <2>1 DEF Numbering
    <3>2. InPass(v)' /\ Dealt(v)' = Dealt(v)
      <4>1. CASE v = w
        <5>1. Dealt(w)' = Len(BlockReps(w))
          BY <2>3, DealtIs
        <5>2. InPass(w)'
          BY <2>3 DEF InPass
        <5>3. QED
          BY <1>5, <4>1, <5>1, <5>2
      <4>2. CASE v # w
        BY <1>2, <2>3, <3>1, <4>2, PassStays
      <4>3. QED
        BY <4>1, <4>2
    <3>3. \A i \in 1 .. Dealt(v) : Numbered(BlockReps(v)[i])'
      BY <1>2, <3>1, NumberedStays
    <3>4. QED
      BY <3>2, <3>3
  <2>6. Numbering'
    BY <1>4, <2>3, <2>4, <2>5 DEF Numbering, All
  <2>7. QED
    BY <1>1, <2>6 DEF IInv
<1>7. CASE pc[w] = "moves"
  <2>1. Moving
    BY <1>7, PhaseOf
  <2>2. pc \in [Worker -> {"start moves", "moves", "done"}]
    BY <2>1 DEF Moving, All
  <2>3. /\ pc' \in [Worker -> {"start moves", "moves", "done"}]
        /\ pc'[w] = "done" /\ \A v \in Worker \ {w} : pc'[v] = pc[v]
    BY <1>2, <1>7, <2>2
  <2>4. arrived' = {}
    BY <1>2, <2>1 DEF Moving
  <2>5. ASSUME NEW v \in Worker
        PROVE  InPass(v)' /\ \A i \in 1 .. Dealt(v)' :
                 RowRight(moves[Rank(BlockReps(v)[i])], BlockReps(v)[i])'
    <3>1. InPass(v) /\ \A i \in 1 .. Dealt(v) :
            RowRight(moves[Rank(BlockReps(v)[i])], BlockReps(v)[i])
      BY <2>1 DEF Moving
    <3>2. InPass(v)' /\ Dealt(v)' = Dealt(v)
      <4>1. CASE v = w
        <5>1. Dealt(w)' = Len(BlockReps(w))
          BY <2>3, DealtIs
        <5>2. InPass(w)'
          BY <2>3 DEF InPass
        <5>3. QED
          BY <1>5, <4>1, <5>1, <5>2
      <4>2. CASE v # w
        BY <1>2, <2>3, <3>1, <4>2, PassStays
      <4>3. QED
        BY <4>1, <4>2
    <3>3. \A i \in 1 .. Dealt(v) :
            RowRight(moves[Rank(BlockReps(v)[i])], BlockReps(v)[i])'
      BY <1>2, <3>1, RowStays
    <3>4. QED
      BY <3>2, <3>3
  <2>6. \A q \in Perm : IsRep(q) => Numbered(q)'
    BY <1>2, <2>1, NumberedStays DEF Moving
  <2>7. CASE ~ All({"done"})'
    <3>1. Moving'
      BY <1>4, <2>3, <2>4, <2>5, <2>6, <2>7 DEF Moving, All
    <3>2. QED
      BY <1>1, <3>1 DEF IInv
  <2>8. CASE All({"done"})'
    <3>1. \A v \in Worker : Dealt(v)' = Len(BlockReps(v))
      BY <2>8, DealtIs DEF All
    <3>2. ASSUME NEW i \in Rep
          PROVE  /\ s2r'[i] = Ranked[i] /\ self'[i] = SelfOf(Ranked[i])
                 /\ RowRight(moves[i], Ranked[i])'
      <4>1. Ranked[i] \in Perm /\ IsRep(Ranked[i]) /\ Rank(Ranked[i]) = i
        BY RepOfRank
      <4>2. Numbered(Ranked[i])
        BY <2>1, <4>1 DEF Moving
      <4>3. s2r'[i] = Ranked[i] /\ self'[i] = SelfOf(Ranked[i])
        BY <1>2, <4>1, <4>2 DEF Numbered
      <4>4. PICK v \in Worker : \E k \in 1 .. Len(BlockReps(v)) : BlockReps(v)[k] = Ranked[i]
        BY <4>1, Covered
      <4>5. PICK k \in 1 .. Len(BlockReps(v)) : BlockReps(v)[k] = Ranked[i]
        BY <4>4
      <4>6. RowRight(moves[Rank(BlockReps(v)[k])], BlockReps(v)[k])'
        BY <2>5, <3>1
      <4>7. RowRight(moves[i], Ranked[i])'
        BY <4>1, <4>5, <4>6 DEF Ranked
      <4>8. QED
        BY <4>3, <4>7
    <3>3. /\ s2r' \in [Rep -> Perm] /\ self' \in [Rep -> SUBSET Sym]
          /\ moves' \in MoveTables /\ saved' = 0
      BY <1>4 DEF GenTypes, MoveTables
    <3>4. s2r' = Ranked
      <4>1. Ranked = [i \in Rep |-> Ranked[i]]
        BY DEF Ranked
      <4>2. s2r' = [i \in Rep |-> s2r'[i]]
        BY <3>3
      <4>3. QED
        BY <3>2, <4>1, <4>2
    <3>5. self' = [i \in Rep |-> SelfOf(Ranked[i])]
      <4>1. self' = [i \in Rep |-> self'[i]]
        BY <3>3
      <4>2. QED
        BY <3>2, <4>1
    <3>6. TablesRight'
      BY <3>2, <3>3, <3>4, <3>5 DEF TablesRight, SelfRight, MovesRight, MoveTables, Ranked
    <3>7. saved' \in 0 .. Len(File)
      BY <3>3 DEF File
    <3>8. Usable'
      BY <1>4, <2>4, <2>8, <3>6, <3>7 DEF Usable
    <3>9. QED
      BY <1>1, <3>8 DEF IInv
  <2>9. QED
    BY <2>7, <2>8
<1>8. QED
  BY <1>2, <1>6, <1>7

LEMMA ReadyUsable ==
  ASSUME IInv, Generated
  PROVE  Usable
<1>1. \A w \in Worker : pc[w] = "done"
  BY DEF Generated
<1>2. Moving \/ Usable
  BY <1>1, Numbers, PhaseOf
<1>3. ~ Moving
  BY <1>1 DEF Moving, All
<1>4. QED
  BY <1>2, <1>3

LEMMA SaveInvariant ==
  ASSUME IInv, Save, UNCHANGED eprune
  PROVE  IInv'
<1>1. Usable
  BY ReadyUsable DEF Save
<1>2. saved \in 0 .. 2 /\ Len(File) = 3 /\ Idle
  BY <1>1 DEF Usable, Save, File
<1>3. /\ UNCHANGED <<s2r, moves, self, arrived, pc, kills>>
      /\ Idle'
  BY <1>2, IdleStays DEF Save, tables
<1>4. TablesRight /\ FilesRight
  BY <1>1 DEF Usable, IInv
<1>5. TablesRight'
  BY <1>3, <1>4 DEF TablesRight, SelfRight, MovesRight, Ranked
<1> DEFINE name == File[saved + 1]
           content == CASE name = "S2R" -> s2r [] name = "Move" -> moves [] OTHER -> self
<1>6. \/ /\ files' = [f \in DOMAIN files \union {name} |->
                        IF f = name THEN content ELSE files[f]]
         /\ saved' = saved + 1
      \/ files' = files /\ saved' = Len(File)
  BY DEF Save
<1>7. saved' \in 0 .. Len(File)
  BY <1>2, <1>6
<1>8. \/ name = "S2R" /\ content = Ranked
      \/ name = "Move" /\ content = moves
      \/ name = "SelfSym" /\ content = self
  <2>1. name = "S2R" \/ name = "Move" \/ name = "SelfSym"
    BY <1>2 DEF File
  <2> HIDE DEF name
  <2>2. QED
    BY <1>4, <2>1 DEF TablesRight
<1>9. /\ moves \in MoveTables /\ MovesRight(moves) /\ SelfRight(self)
  BY <1>4 DEF TablesRight
<1>10. FilesRight'
  <2>1. CASE files' = files
    BY <1>4, <2>1 DEF FilesRight, Has, MovesRight, SelfRight, Ranked
  <2>2. CASE files' = [f \in DOMAIN files \union {name} |->
                         IF f = name THEN content ELSE files[f]]
    <3> HIDE DEF name, content
    <3>1. \A f \in DOMAIN files' :
            IF f = name THEN files'[f] = content ELSE f \in DOMAIN files /\ files'[f] = files[f]
      BY <2>2
    <3>2. "S2R" \in DOMAIN files' => files'["S2R"] = Ranked
      BY <1>4, <1>8, <3>1 DEF FilesRight, Has
    <3>3. "Move" \in DOMAIN files' =>
            files'["Move"] \in MoveTables /\ MovesRight(files'["Move"])
      BY <1>4, <1>8, <1>9, <3>1 DEF FilesRight, Has
    <3>4. "SelfSym" \in DOMAIN files' => SelfRight(files'["SelfSym"])
      BY <1>4, <1>8, <1>9, <3>1 DEF FilesRight, Has
    <3>5. QED
      BY <3>2, <3>3, <3>4 DEF FilesRight, Has, MovesRight, SelfRight, Ranked, MoveTables
  <2>3. QED
    BY <1>6, <2>1, <2>2
<1>11. Usable'
  BY <1>1, <1>3, <1>5, <1>7 DEF Usable, All
<1>12. QED
  BY <1>3, <1>10, <1>11 DEF IInv

LEMMA TableThere == Tables => table # << >>
<1>1. ASSUME table \in [Cell -> 0 .. FF], table = << >>
      PROVE  FALSE
  <2>1. DOMAIN table = Cell
    BY <1>1
  <2>2. DOMAIN << >> = {}
    OBVIOUS
  <2>3. QED
    BY <1>1, <2>1, <2>2, CellsThere
<1>2. QED
  BY <1>1 DEF Tables

LEMMA KillInvariant ==
  ASSUME IInv, KillBeforeReady
  PROVE  IInv'
<1>1. table = << >> /\ Kill /\ UNCHANGED eprune
  BY DEF KillBeforeReady
<1>2. ~ (Filling \/ Deciding \/ Scanning \/ Indexing)
  BY <1>1, TableThere DEF Filling, Deciding, Scanning, Indexing
<1>3. Idle
  BY <1>2 DEF IInv, Loading, Collecting, Adding, Numbering, Moving, Usable
<1>4. Idle'
  BY <1>1, <1>3, IdleStays
<1>5. /\ kills' \in Nat /\ files' = files /\ arrived' = {}
      /\ pc' = [w \in Worker |-> "load"]
  BY <1>1 DEF Kill, IInv
<1>6. FilesRight'
  BY <1>5 DEF IInv, FilesRight, Has, MovesRight, SelfRight, Ranked
<1>7. Loading'
  BY <1>4, <1>5 DEF Loading, All
<1>8. QED
  BY <1>5, <1>6, <1>7 DEF IInv

LEMMA AllocateInvariant ==
  ASSUME IInv, Allocate
  PROVE  IInv'
<1>1. Usable
  BY ReadyUsable DEF Allocate, Ready
<1>2. TablesRight /\ Idle /\ arrived = {}
  BY <1>1 DEF Usable
<1>3. /\ pc' = [w \in Worker |-> "fill"] /\ files' = NoFile /\ kills' = 0
      /\ table' \in {[c \in Cell |-> 0], [c \in Cell |-> 1]} /\ todo' = NCells - 1
      /\ UNCHANGED <<s2r, moves, self, arrived, ep_mutex, depth, reverse, found, ep, m,
                     active, fresh>>
  BY DEF Allocate, tables
<1>4. TablesRight'
  BY <1>2, <1>3 DEF TablesRight, SelfRight, MovesRight, Ranked
<1>5. table' \in [Cell -> 0 .. FF]
  BY <1>3 DEF FF
<1>6. /\ depth' = [w \in Worker |-> 0] /\ MutexesFree'
      /\ ep_mutex' \in [Row -> Worker \union {Nobody}]
      /\ reverse' \in [Worker -> BOOLEAN] /\ found' \in [Worker -> Nat]
      /\ ep' \in [Worker -> Nat] /\ m' \in [Worker -> Nat]
      /\ active' \in [Worker -> SUBSET Cell] /\ fresh' \in [Worker -> SUBSET Cell]
  BY <1>2, <1>3 DEF Idle, MutexesFree
<1>7. Tables'
  BY <1>3, <1>4, <1>5, <1>6 DEF Tables
<1>8. Filling'
  BY <1>2, <1>3, <1>6, <1>7 DEF Filling, All, ArrivedAt
<1>9. FilesRight'
  BY <1>3 DEF FilesRight, Has, NoFile
<1>10. QED
  BY <1>3, <1>8, <1>9 DEF IInv

-----------------------------------------------------------------------------
(* Positions and distances.                                                *)
Far == NPerm * NOrient
Wider(S) == S \union {MovePos(x, k) : x \in S, k \in Move}

LEMMA Positions ==
  /\ Home \in Position /\ Far \in Nat
  /\ \A x \in Position : <<x[1], x[2]>> = x /\ x[1] \in Perm /\ x[2] \in Orient
  /\ \A x \in Position, k \in Move : MovePos(x, k) \in Position
  /\ \A x \in Position, s \in Sym : SymiPos(x, s) \in Position
<1>1. Home \in Position
  BY Numbers, CellsThere DEF Home, Position
<1>2. Far \in Nat
  BY Numbers, CellsThere DEF Far
<1>3. ASSUME NEW x \in Position, NEW k \in Move
      PROVE  MovePos(x, k) \in Position
  <2>1. Moved[x[1]][k] \in Perm
    BY PermAssumption DEF Position
  <2>2. Turned[x[2]][k] \in Orient
    BY OrientAssumption DEF Position
  <2>3. QED
    BY <2>1, <2>2 DEF MovePos, Position
<1>4. ASSUME NEW x \in Position, NEW s \in Sym
      PROVE  SymiPos(x, s) \in Position
  <2>1. Image[SymInv[s]][x[1]] \in Perm
    BY Numbers DEF Position
  <2>2. Symi[x[2]][s] \in Orient
    BY OrientAssumption DEF Position
  <2>3. QED
    BY <2>1, <2>2 DEF SymiPos, Position
<1>5. \A x \in Position : <<x[1], x[2]>> = x /\ x[1] \in Perm /\ x[2] \in Orient
  BY DEF Position
<1>6. QED
  BY <1>1, <1>2, <1>3, <1>4, <1>5

LEMMA WithinSteps ==
  /\ \A n \in 0 .. Far : Within[n] \in SUBSET Position
  /\ DOMAIN Within = 0 .. Far
  /\ Within[0] = {Home}
  /\ \A n \in 1 .. Far : Within[n] = Wider(Within[n - 1])
<1> DEFINE Body(g, n) == IF n = 0 THEN {Home}
                         ELSE g[n - 1] \union {MovePos(x, k) : x \in g[n - 1], k \in Move}
           V == SUBSET Position
           F == [x \in V \X (1 .. Far) |-> Wider(x[1])]
           first == {Home}
<1>1. Far \in Nat /\ first \in V
  BY Positions
<1>2. F \in [V \X (1 .. Far) -> V]
  <2>1. \A S \in V : Wider(S) \in V
    BY Positions DEF Wider
  <2> HIDE DEF V
  <2>2. QED
    BY <2>1
<1>3. PICK g : IsIteration(g, V, first, Far, F)
  <2> HIDE DEF F, first, V
  <2>1. QED
    BY <1>1, <1>2, Iterates
<1>4. /\ g \in [0 .. Far -> V] /\ g[0] = first
      /\ \A i \in 1 .. Far : g[i] = F[<<g[i - 1], i>>]
  BY <1>3 DEF IsIteration
<1>5. ASSUME NEW i \in 1 .. Far
      PROVE  g[i] = Wider(g[i - 1])
  <2>1. <<g[i - 1], i>> \in V \X (1 .. Far)
    BY <1>1, <1>4
  <2>2. QED
    BY <1>4, <2>1
<1>6. ASSUME NEW i \in 0 .. Far
      PROVE  g[i] = Body(g, i)
  <2>1. CASE i = 0
    BY <1>4, <2>1
  <2>2. CASE i # 0
    <3>1. i \in 1 .. Far
      BY <1>1, <2>2
    <3>2. QED
      BY <1>5, <2>2, <3>1 DEF Wider
  <2>3. QED
    BY <2>1, <2>2
<1>7. g = [i \in 0 .. Far |-> Body(g, i)]
  <2> HIDE DEF Body
  <2>1. g = [i \in 0 .. Far |-> g[i]]
    BY <1>4
  <2>2. QED
    BY <1>6, <2>1
<1>8. Within = CHOOSE h : h = [n \in 0 .. Far |-> Body(h, n)]
  BY DEF Within, Far
<1>9. Within = [n \in 0 .. Far |-> Body(Within, n)]
  <2> HIDE DEF Body
  <2>1. QED
    BY <1>7, <1>8
<1> HIDE DEF F
<1>10. ASSUME NEW n \in 0 .. Far
       PROVE  Within[n] = Body(Within, n)
  <2> HIDE DEF Body
  <2>1. QED
    BY <1>9
<1>11. DOMAIN Within = 0 .. Far
  <2> HIDE DEF Body
  <2>1. QED
    BY <1>9
<1>12. Within[0] = {Home}
  <2>1. Within[0] = Body(Within, 0)
    <3> HIDE DEF Body
    <3>1. QED
      BY <1>1, <1>10
  <2>2. Body(Within, 0) = {Home}
    OBVIOUS
  <2> HIDE DEF Body
  <2>3. QED
    BY <2>1, <2>2
<1>13. ASSUME NEW n \in 1 .. Far
       PROVE  Within[n] = Wider(Within[n - 1])
  <2>1. n \in 0 .. Far /\ n # 0
    BY <1>1
  <2>2. Within[n] = Body(Within, n)
    <3> HIDE DEF Body
    <3>1. QED
      BY <1>10, <2>1
  <2>3. Body(Within, n) = Wider(Within[n - 1])
    BY <2>1 DEF Wider
  <2> HIDE DEF Body
  <2>4. QED
    BY <2>2, <2>3
<1>14. \A n \in 0 .. Far : Within[n] \in SUBSET Position
  <2> DEFINE S == {n \in 0 .. Far : Within[n] \in SUBSET Position}
  <2>1. 0 \in S
    BY <1>1, <1>12
  <2>2. ASSUME NEW n \in 1 .. Far, n - 1 \in S
        PROVE  n \in S
    <3>1. Within[n - 1] \in SUBSET Position /\ n \in 0 .. Far
      BY <1>1, <2>2
    <3>2. Wider(Within[n - 1]) \in SUBSET Position
      BY <3>1, Positions DEF Wider
    <3>3. QED
      BY <1>13, <3>1, <3>2
  <2> HIDE DEF S
  <2>3. \A n \in 0 .. Far : n \in S
    BY <1>1, <2>1, <2>2, AllNumbers
  <2>4. QED
    BY <2>3 DEF S
<1>15. QED
  BY <1>11, <1>12, <1>13, <1>14

LEMMA WithinGrows ==
  ASSUME NEW i \in 0 .. Far, NEW j \in 0 .. Far, i <= j
  PROVE  Within[i] \subseteq Within[j]
<1> DEFINE S == {n \in 0 .. Far : i <= n => Within[i] \subseteq Within[n]}
<1>1. Far \in Nat /\ i \in Nat
  BY Positions
<1>2. 0 \in S
  BY <1>1
<1>3. ASSUME NEW n \in 1 .. Far, n - 1 \in S
      PROVE  n \in S
  <2>1. Within[n - 1] \subseteq Within[n] /\ n \in 0 .. Far
    BY <1>1, WithinSteps DEF Wider
  <2>2. i <= n => i <= n - 1 \/ i = n
    BY <1>1
  <2>3. QED
    BY <1>3, <2>1, <2>2
<1> HIDE DEF S
<1>4. \A n \in 0 .. Far : n \in S
  BY <1>1, <1>2, <1>3, AllNumbers
<1>5. QED
  BY <1>4 DEF S

(* The distance is the first number of moves that is enough.               *)
LEMMA DistIs ==
  ASSUME NEW x \in Position
  PROVE  /\ Dist[x] \in 0 .. Far /\ Dist[x] < FF
         /\ \A n \in 0 .. Far : x \in Within[n] <=> Dist[x] <= n
<1>1. PICK e \in 0 .. Far : e < FF /\ Within[e] = Position
  BY WithinSteps, OrientAssumption
<1>2. Far \in Nat
  BY Positions
<1> DEFINE S == {n \in 0 .. Far : x \in Within[n]}
<1>3. e \in S /\ S \in SUBSET Nat
  BY <1>1, <1>2
<1>4. PICK n \in S : \A i \in S : n <= i
  BY <1>3, LeastNumber
<1>5. n = 0 \/ x \notin Within[n - 1]
  <2>1. CASE n # 0
    <3>1. n - 1 \in 0 .. Far /\ ~ (n <= n - 1)
      BY <1>2, <2>1
    <3>2. QED
      BY <1>4, <3>1
  <2>2. QED
    BY <2>1
<1>6. /\ Dist[x] \in 0 .. Far /\ x \in Within[Dist[x]]
      /\ Dist[x] = 0 \/ x \notin Within[Dist[x] - 1]
  <2>1. \E d \in DOMAIN Within : x \in Within[d] /\ (d = 0 \/ x \notin Within[d - 1])
    BY <1>4, <1>5, WithinSteps
  <2>2. QED
    BY <2>1, WithinSteps DEF Dist
<1>7. ASSUME NEW i \in 0 .. Far, x \in Within[i], i < Dist[x]
      PROVE  FALSE
  <2>1. Dist[x] # 0 /\ Dist[x] - 1 \in 0 .. Far /\ i <= Dist[x] - 1
    BY <1>2, <1>6, <1>7
  <2>2. QED
    BY <1>6, <1>7, <2>1, WithinGrows
<1>8. ASSUME NEW i \in 0 .. Far
      PROVE  x \in Within[i] <=> Dist[x] <= i
  <2>1. Dist[x] <= i => x \in Within[i]
    BY <1>6, WithinGrows
  <2>2. x \in Within[i] => Dist[x] <= i
    BY <1>2, <1>6, <1>7
  <2>3. QED
    BY <2>1, <2>2
<1>9. Dist[x] <= e
  BY <1>1, <1>8
<1>10. QED
  BY <1>1, <1>2, <1>6, <1>8, <1>9 DEF FF

LEMMA DistHome == \A x \in Position : Dist[x] = 0 <=> x = Home
<1>1. TAKE x \in Position
<1>2. 0 \in 0 .. Far /\ Dist[x] \in Nat
  BY Positions, DistIs
<1>3. x \in Within[0] <=> Dist[x] <= 0
  BY <1>2, DistIs
<1>4. QED
  BY <1>2, <1>3, WithinSteps

LEMMA DistFurther ==
  ASSUME NEW x \in Position, NEW k \in Move
  PROVE  Dist[MovePos(x, k)] <= Dist[x] + 1
<1>1. MovePos(x, k) \in Position /\ Far \in Nat
  BY Positions
<1>2. Dist[x] \in 0 .. Far /\ Dist[MovePos(x, k)] \in 0 .. Far
  BY <1>1, DistIs
<1>3. CASE Dist[x] + 1 <= Far
  <2> DEFINE n == Dist[x] + 1
  <2>1. n \in 1 .. Far /\ n \in 0 .. Far /\ n - 1 = Dist[x]
    BY <1>1, <1>2, <1>3
  <2>2. x \in Within[Dist[x]]
    BY <1>2, DistIs
  <2>3. Within[n] = Wider(Within[Dist[x]])
    <3> HIDE DEF n
    <3>1. QED
      BY <2>1, WithinSteps
  <2>4. MovePos(x, k) \in Within[n]
    BY <2>2, <2>3 DEF Wider
  <2>5. QED
    BY <1>1, <2>1, <2>4, DistIs
<1>4. QED
  BY <1>1, <1>2, <1>3

(* A move changes the distance by at most one.                             *)
LEMMA DistMove ==
  ASSUME NEW x \in Position, NEW k \in Move
  PROVE  /\ Dist[MovePos(x, k)] <= Dist[x] + 1
         /\ Dist[x] <= Dist[MovePos(x, k)] + 1
<1>1. PICK j \in Move : MovePos(MovePos(x, k), j) = x
  BY GroupAssumption
<1>2. QED
  BY <1>1, DistFurther, Positions

(* From everywhere a move leads nearer.                                    *)
LEMMA DistNearer ==
  ASSUME NEW x \in Position, Dist[x] > 0
  PROVE  \E k \in Move : Dist[MovePos(x, k)] = Dist[x] - 1
<1> DEFINE n == Dist[x]
<1>1. n \in 1 .. Far /\ Far \in Nat /\ n \in 0 .. Far /\ n - 1 \in 0 .. Far
  BY Positions, DistIs
<1>2. x \in Within[n] /\ x \notin Within[n - 1]
  BY <1>1, DistIs
<1>3. Within[n] = Wider(Within[n - 1])
  BY <1>1, WithinSteps
<1>4. PICK y \in Within[n - 1], k \in Move : x = MovePos(y, k)
  BY <1>2, <1>3 DEF Wider
<1>5. y \in Position
  BY <1>1, WithinSteps
<1>6. PICK j \in Move : MovePos(x, j) = y
  BY <1>4, <1>5, GroupAssumption
<1>7. Dist[y] <= n - 1 /\ Dist[y] \in Int /\ n \in Int
  BY <1>1, <1>4, <1>5, DistIs
<1>8. n <= Dist[y] + 1
  BY <1>6, DistMove
<1>9. QED
  BY <1>6, <1>7, <1>8

(* Symmetric positions are equally far.                                    *)
LEMMA DistSymi ==
  ASSUME NEW x \in Position, NEW s \in Sym
  PROVE  Dist[SymiPos(x, s)] = Dist[x]
<1> DEFINE S == {n \in 0 .. Far : \A y \in Within[n], t \in Sym : SymiPos(y, t) \in Within[n]}
<1>1. Far \in Nat
  BY Positions
<1>2. 0 \in S
  BY <1>1, WithinSteps, GroupAssumption
<1>3. ASSUME NEW n \in 1 .. Far, n - 1 \in S
      PROVE  n \in S
  <2>1. Within[n] = Wider(Within[n - 1]) /\ n \in 0 .. Far
        /\ Within[n - 1] \in SUBSET Position
    BY <1>1, WithinSteps
  <2>2. ASSUME NEW y \in Within[n], NEW t \in Sym
        PROVE  SymiPos(y, t) \in Within[n]
    <3>1. CASE y \in Within[n - 1]
      BY <1>3, <2>1, <3>1 DEF Wider
    <3>2. CASE y \notin Within[n - 1]
      <4>1. PICK z \in Within[n - 1], k \in Move : y = MovePos(z, k)
        BY <2>1, <3>2 DEF Wider
      <4>2. z \in Position
        BY <2>1
      <4>3. PICK j \in Move : SymiPos(MovePos(z, k), t) = MovePos(SymiPos(z, t), j)
        BY <4>2, GroupAssumption
      <4>4. SymiPos(z, t) \in Within[n - 1]
        BY <1>3
      <4>5. QED
        BY <2>1, <4>1, <4>3, <4>4 DEF Wider
    <3>3. QED
      BY <3>1, <3>2
  <2>3. QED
    BY <2>1, <2>2
<1>4. \A n \in 0 .. Far, y \in Position, t \in Sym :
        y \in Within[n] => SymiPos(y, t) \in Within[n]
  <2> HIDE DEF S
  <2>1. \A n \in 0 .. Far : n \in S
    BY <1>1, <1>2, <1>3, AllNumbers
  <2>2. QED
    BY <2>1 DEF S
<1>5. ASSUME NEW y \in Position, NEW t \in Sym
      PROVE  Dist[SymiPos(y, t)] <= Dist[y]
  <2>1. SymiPos(y, t) \in Position /\ Dist[y] \in 0 .. Far
    BY Positions, DistIs
  <2>2. y \in Within[Dist[y]]
    BY <1>1, <2>1, DistIs
  <2>3. SymiPos(y, t) \in Within[Dist[y]]
    BY <1>4, <2>1, <2>2
  <2>4. QED
    BY <2>1, <2>3, DistIs
<1>6. PICK t \in Sym : SymiPos(SymiPos(x, s), t) = x
  BY GroupAssumption
<1>7. SymiPos(x, s) \in Position
  BY Positions
<1>8. Dist[x] <= Dist[SymiPos(x, s)] /\ Dist[SymiPos(x, s)] <= Dist[x]
  BY <1>5, <1>6, <1>7
<1>9. Dist[x] \in Int /\ Dist[SymiPos(x, s)] \in Int
  BY <1>7, DistIs
<1>10. QED
  BY <1>8, <1>9

-----------------------------------------------------------------------------
(* Cells, their positions and their neighbors.                             *)
Alike(x, y) == \E s \in Sym : y = SymiPos(x, s)

LEMMA AlikeIs ==
  /\ \A x \in Position : Alike(x, x)
  /\ \A x, y \in Position : Alike(x, y) => Alike(y, x) /\ Dist[x] = Dist[y]
  /\ \A x, y, z \in Position : Alike(x, y) /\ Alike(y, z) => Alike(x, z)
<1>1. \A x \in Position : Alike(x, x)
  BY GroupAssumption, Numbers DEF Alike
<1>2. ASSUME NEW x \in Position, NEW y \in Position, Alike(x, y)
      PROVE  Alike(y, x) /\ Dist[x] = Dist[y]
  <2>1. PICK s \in Sym : y = SymiPos(x, s)
    BY <1>2 DEF Alike
  <2>2. PICK t \in Sym : SymiPos(SymiPos(x, s), t) = x
    BY GroupAssumption
  <2>3. QED
    BY <2>1, <2>2, DistSymi DEF Alike
<1>3. ASSUME NEW x \in Position, NEW y \in Position, NEW z \in Position,
             Alike(x, y), Alike(y, z)
      PROVE  Alike(x, z)
  <2>1. PICK s \in Sym, t \in Sym : y = SymiPos(x, s) /\ z = SymiPos(y, t)
    BY <1>3 DEF Alike
  <2>2. PICK u \in Sym : SymiPos(x, u) = SymiPos(SymiPos(x, s), t)
    BY GroupAssumption
  <2>3. QED
    BY <2>1, <2>2 DEF Alike
<1>4. QED
  BY <1>1, <1>2, <1>3

LEMMA CellIs ==
  ASSUME NEW c \in Cell
  PROVE  /\ c[1] \in Row /\ c[1] \in Rep /\ c[2] \in Orient /\ c = <<c[1], c[2]>>
         /\ Ranked[c[1]] \in Perm /\ IsRep(Ranked[c[1]])
         /\ Pos(c) \in Position /\ Pos(c)[1] = Ranked[c[1]] /\ Pos(c)[2] = c[2]
         /\ CellDist(c) \in Nat /\ CellDist(c) < FF
         /\ CellDist(c) = 0 <=> c = Home
<1>1. c[1] \in Row /\ c[1] \in Rep /\ c[2] \in Orient /\ c = <<c[1], c[2]>>
  BY DEF Cell, Row
<1>2. Ranked[c[1]] \in Perm /\ IsRep(Ranked[c[1]]) /\ Rank(Ranked[c[1]]) = c[1]
  BY <1>1, RepOfRank
<1>3. Pos(c) \in Position /\ Pos(c)[1] = Ranked[c[1]] /\ Pos(c)[2] = c[2]
  BY <1>1, <1>2 DEF Pos, Position
<1>4. CellDist(c) \in Nat /\ CellDist(c) < FF
  BY <1>3, DistIs DEF CellDist
<1>5. CellDist(c) = 0 <=> Pos(c) = Home
  BY <1>3, DistHome DEF CellDist
<1>6. Pos(c) = Home => c = Home
  BY <1>1, <1>2, RankEnds DEF Pos, Home
<1>7. c = Home => Pos(c) = Home
  BY FirstRep DEF Pos, Home
<1>8. QED
  BY <1>1, <1>2, <1>3, <1>4, <1>5, <1>6, <1>7

LEMMA SameRow ==
  ASSUME NEW c \in Cell, NEW e \in Cell, Alike(Pos(c), Pos(e))
  PROVE  c[1] = e[1]
<1>1. PICK s \in Sym : Pos(e) = SymiPos(Pos(c), s)
  BY DEF Alike
<1>2. Ranked[e[1]] = Image[SymInv[s]][Ranked[c[1]]]
  BY <1>1, CellIs DEF SymiPos
<1>3. Ranked[e[1]] = Image[0][Ranked[e[1]]] /\ 0 \in Sym /\ SymInv[s] \in Sym
  BY CellIs, Numbers, PermAssumption
<1>4. Ranked[e[1]] = Ranked[c[1]]
  BY <1>2, <1>3, CellIs, SameClass
<1>5. QED
  BY <1>4, CellIs, RepOfRank

LEMMA NeighborIs ==
  ASSUME TablesRight, NEW c \in Cell, NEW k \in Move
  PROVE  /\ Neighbor(c, k) \in Cell /\ Neighbor(c, k)[1] = RawMove(c[1], k)
         /\ Alike(MovePos(Pos(c), k), Pos(Neighbor(c, k)))
         /\ CellDist(Neighbor(c, k)) = Dist[MovePos(Pos(c), k)]
         /\ \E s \in Sym : Pos(Neighbor(c, k)) = SymiPos(MovePos(Pos(c), k), s)
<1> DEFINE s == moves[c[1]][k][1]
           r == moves[c[1]][k][2]
           o == Turned[c[2]][k]
           p == Ranked[c[1]]
           e == Neighbor(c, k)
<1>1. s \in Sym /\ r \in Rep /\ Image[s][Ranked[r]] = Moved[p][k]
  BY CellIs, RepMoves
<1>2. o \in Orient /\ Symi[o][s] \in Orient
  BY <1>1, CellIs, OrientAssumption
<1>3. e = <<r, Symi[o][s]>>
  BY DEF Neighbor, RawMove
<1>4. e \in Cell /\ e[1] = RawMove(c[1], k)
  BY <1>1, <1>2, <1>3 DEF Cell, Row, RawMove
<1>5. Ranked[r] \in Perm
  BY <1>1, RepOfRank
<1> HIDE DEF s, r, o, p
<1>6. Image[SymInv[s]][Moved[p][k]] = Ranked[r]
  BY <1>1, <1>5, Numbers
<1>7. MovePos(Pos(c), k) = <<Moved[p][k], o>>
  BY CellIs DEF MovePos, p, o
<1>8. Pos(e) = SymiPos(MovePos(Pos(c), k), s)
  BY <1>3, <1>6, <1>7 DEF Pos, SymiPos
<1>9. MovePos(Pos(c), k) \in Position /\ Pos(e) \in Position
  BY <1>4, CellIs, Positions
<1>10. Alike(MovePos(Pos(c), k), Pos(e))
  BY <1>1, <1>8 DEF Alike
<1>11. CellDist(e) = Dist[MovePos(Pos(c), k)]
  BY <1>9, <1>10, AlikeIs DEF CellDist
<1>12. QED
  BY <1>1, <1>4, <1>8, <1>10, <1>11

(* The cells that set_sym sets are the ones of alike positions.            *)
LEMMA OrbitIs ==
  ASSUME TablesRight, NEW c \in Cell
  PROVE  Orbit(c) = {e \in Cell : Alike(Pos(c), Pos(e))}
<1> DEFINE p == Ranked[c[1]]
<1>1. self[c[1]] = SelfOf(p)
  BY CellIs DEF TablesRight, SelfRight
<1>2. Orbit(c) = {c} \union {<<c[1], Symi[c[2]][s]>> : s \in SelfOf(p)}
  BY <1>1 DEF Orbit
<1>3. p \in Perm /\ c[1] \in Row /\ c[2] \in Orient
  BY CellIs
<1>4. ASSUME NEW s \in Sym
      PROVE  Image[s][p] = p <=> Image[SymInv[s]][p] = p
  <2>1. Image[SymInv[s]][Image[s][p]] = p /\ SymInv[s] \in Sym /\ Image[s][p] \in Perm
    BY <1>3, Numbers
  <2>2. /\ Image[SymInv[SymInv[s]]][Image[SymInv[s]][p]] = p
        /\ Image[SymInv[SymInv[s]]][Image[SymInv[s]][Image[s][p]]] = Image[s][p]
    BY <1>3, <2>1, Numbers
  <2>3. QED
    BY <2>1, <2>2
<1>5. ASSUME NEW e \in Orbit(c)
      PROVE  e \in Cell /\ Alike(Pos(c), Pos(e))
  <2>1. CASE e = c
    BY <2>1, CellIs, AlikeIs
  <2>2. CASE e # c
    <3>1. PICK s \in SelfOf(p) : e = <<c[1], Symi[c[2]][s]>>
      BY <1>2, <2>2
    <3>2. s \in Sym /\ Image[SymInv[s]][p] = p
      BY <1>4, <3>1 DEF SelfOf
    <3>3. e \in Cell
      BY <1>3, <3>1, <3>2, OrientAssumption DEF Cell
    <3>4. Pos(e) = SymiPos(Pos(c), s)
      BY <3>1, <3>2 DEF Pos, SymiPos
    <3>5. QED
      BY <3>2, <3>3, <3>4 DEF Alike
  <2>3. QED
    BY <2>1, <2>2
<1>6. ASSUME NEW e \in Cell, Alike(Pos(c), Pos(e))
      PROVE  e \in Orbit(c)
  <2>1. PICK s \in Sym : Pos(e) = SymiPos(Pos(c), s)
    BY <1>6 DEF Alike
  <2>2. e[1] = c[1] /\ e = <<e[1], e[2]>>
    BY <1>6, SameRow, CellIs
  <2>3. Image[SymInv[s]][p] = p /\ e[2] = Symi[c[2]][s]
    BY <2>1, <2>2 DEF Pos, SymiPos
  <2>4. CASE s = 0
    <3>1. Pos(e) = Pos(c)
      BY <2>1, <2>4, CellIs, GroupAssumption
    <3>2. e = c
      BY <2>2, <3>1, CellIs
    <3>3. QED
      BY <1>2, <3>2
  <2>5. CASE s # 0
    <3>1. s \in SelfOf(p)
      BY <1>4, <2>3, <2>5 DEF SelfOf
    <3>2. QED
      BY <1>2, <2>2, <2>3, <3>1
  <2>6. QED
    BY <2>4, <2>5
<1>7. QED
  BY <1>5, <1>6

(* Orbits are classes of cells of one row, equally far.                    *)
LEMMA OrbitsAre ==
  ASSUME TablesRight, NEW c \in Cell
  PROVE  /\ c \in Orbit(c) /\ Orbit(c) \in SUBSET Cell
         /\ \A e \in Orbit(c) : /\ e[1] = c[1] /\ CellDist(e) = CellDist(c)
                                /\ Orbit(e) = Orbit(c)
<1>1. c \in Orbit(c) /\ Orbit(c) \in SUBSET Cell
  BY OrbitIs, CellIs, AlikeIs
<1>2. ASSUME NEW e \in Orbit(c)
      PROVE  e[1] = c[1] /\ CellDist(e) = CellDist(c) /\ Orbit(e) = Orbit(c)
  <2>1. e \in Cell /\ Alike(Pos(c), Pos(e))
    BY OrbitIs
  <2>2. e[1] = c[1]
    BY <2>1, SameRow
  <2>3. CellDist(e) = CellDist(c)
    BY <2>1, CellIs, AlikeIs DEF CellDist
  <2>4. \A x \in Cell : Alike(Pos(c), Pos(x)) <=> Alike(Pos(e), Pos(x))
    BY <2>1, CellIs, AlikeIs
  <2>5. Orbit(e) = Orbit(c)
    BY <2>1, <2>4, OrbitIs
  <2>6. QED
    BY <2>2, <2>3, <2>5
<1>3. QED
  BY <1>1, <1>2

LEMMA NeighborDist ==
  ASSUME TablesRight, NEW c \in Cell, NEW k \in Move
  PROVE  /\ CellDist(Neighbor(c, k)) <= CellDist(c) + 1
         /\ CellDist(c) <= CellDist(Neighbor(c, k)) + 1
BY NeighborIs, DistMove, CellIs DEF CellDist

LEMMA NeighborNearer ==
  ASSUME TablesRight, NEW c \in Cell, CellDist(c) > 0
  PROVE  \E k \in Move : CellDist(Neighbor(c, k)) = CellDist(c) - 1
<1>1. PICK k \in Move : Dist[MovePos(Pos(c), k)] = Dist[Pos(c)] - 1
  BY DistNearer, CellIs DEF CellDist
<1>2. QED
  BY <1>1, NeighborIs DEF CellDist

(* A move leads back to a symmetric cell.                                  *)
LEMMA NeighborBack ==
  ASSUME TablesRight, NEW c \in Cell, NEW k \in Move
  PROVE  \E j \in Move : c \in Orbit(Neighbor(Neighbor(c, k), j))
<1> DEFINE x == Pos(c)
           y == MovePos(x, k)
           e == Neighbor(c, k)
<1>1. x \in Position /\ y \in Position /\ e \in Cell /\ Pos(e) \in Position
  BY CellIs, Positions, NeighborIs
<1>2. PICK s \in Sym : Pos(e) = SymiPos(y, s)
  BY NeighborIs
<1>3. PICK i \in Move : MovePos(y, i) = x
  BY <1>1, GroupAssumption
<1>4. PICK j \in Move : SymiPos(MovePos(y, i), s) = MovePos(SymiPos(y, s), j)
  BY <1>1, GroupAssumption
<1>5. MovePos(Pos(e), j) = SymiPos(x, s)
  BY <1>2, <1>3, <1>4
<1>6. Neighbor(e, j) \in Cell /\ Pos(Neighbor(e, j)) \in Position
      /\ Alike(SymiPos(x, s), Pos(Neighbor(e, j)))
  <2> HIDE DEF x, e
  <2>1. QED
    BY <1>1, <1>5, NeighborIs, CellIs
<1>7. SymiPos(x, s) \in Position /\ Alike(x, SymiPos(x, s))
  BY <1>1, Positions DEF Alike
<1>8. Alike(Pos(Neighbor(e, j)), x)
  BY <1>1, <1>6, <1>7, AlikeIs
<1>9. c \in Orbit(Neighbor(e, j))
  BY <1>6, <1>8, OrbitIs
<1>10. QED
  BY <1>9

-----------------------------------------------------------------------------
(* The workers' rows.                                                      *)
LEMMA BlocksAre ==
  /\ \A w \in Worker : EpStart(w) \in Nat /\ EpEnd(w) \in Nat /\ EpEnd(w) <= NRows
  /\ \A r \in Row : \E w \in Worker : EpStart(w) <= r /\ r < EpEnd(w)
  /\ \A w, v \in Worker : w < v => EpEnd(w) <= EpStart(v)
  /\ EpStart(0) = 0 /\ 0 < EpEnd(0)
<1> DEFINE q == NRows \div NWorkers
           N == NWorkers
<1>1. N \in Nat /\ N > 0 /\ NRows \in Nat /\ N <= NRows
  BY Numbers, OrientAssumption DEF NRows
<1>2. q \in Nat /\ q * N <= NRows /\ q >= 1
  BY <1>1
<1>3. \A w \in Worker : /\ EpStart(w) = q * w
                        /\ EpEnd(w) = IF w = N - 1 THEN NRows ELSE q * w + q
  BY DEF EpStart, EpEnd
<1>4. \A w \in Worker : w \in Nat /\ w <= N - 1
  BY <1>1 DEF Worker
<1>5. \A a, b \in Nat : a <= b => q * a <= q * b
  <2> HIDE DEF q
  <2>1. QED
    BY <1>2
<1>6. \A a \in Nat : q * a \in Nat /\ q * (a + 1) = q * a + q
  <2> HIDE DEF q
  <2>1. QED
    BY <1>2
<1>7. \A r \in Nat : LET w == r \div q IN w \in Nat /\ q * w <= r /\ r < q * w + q
  <2>1. TAKE r \in Nat
  <2> HIDE DEF q
  <2>2. QED
    BY <1>2
<1> HIDE DEF q, N
<1>8. ASSUME NEW w \in Worker
      PROVE  EpStart(w) \in Nat /\ EpEnd(w) \in Nat /\ EpEnd(w) <= NRows
  <2>1. EpStart(w) \in Nat
    BY <1>3, <1>4, <1>6
  <2>2. CASE w = N - 1
    BY <1>1, <1>3, <2>1, <2>2
  <2>3. CASE w # N - 1
    <3>1. w \in Nat /\ w + 1 \in Nat /\ w + 1 <= N
      BY <1>1, <1>4, <2>3
    <3>2. q * (w + 1) <= q * N /\ q * N \in Nat /\ q * w \in Nat
      BY <1>1, <1>5, <1>6, <3>1
    <3>3. EpEnd(w) = q * (w + 1) /\ q * (w + 1) \in Nat
      BY <1>3, <1>6, <2>3, <3>1
    <3>4. QED
      BY <1>1, <1>2, <2>1, <3>2, <3>3
  <2>4. QED
    BY <2>2, <2>3
<1>9. ASSUME NEW w \in Worker, NEW v \in Worker, w < v
      PROVE  EpEnd(w) <= EpStart(v)
  <2>1. w \in Nat /\ v \in Nat /\ w + 1 \in Nat /\ w + 1 <= v /\ w # N - 1
    BY <1>1, <1>4, <1>9
  <2>2. q * (w + 1) <= q * v
    BY <1>5, <2>1
  <2>3. EpEnd(w) = q * (w + 1) /\ EpStart(v) = q * v
    BY <1>3, <1>6, <2>1
  <2>4. QED
    BY <2>2, <2>3
<1>10. ASSUME NEW r \in Row
       PROVE  \E w \in Worker : EpStart(w) <= r /\ r < EpEnd(w)
  <2>1. r \in Nat /\ r < NRows
    BY <1>1 DEF Row, Rep, NRows
  <2> DEFINE i == r \div q
  <2>2. i \in Nat /\ q * i <= r /\ r < q * i + q
    BY <1>7, <2>1
  <2> HIDE DEF i
  <2>3. CASE i < N - 1
    <3>1. i \in Worker /\ i # N - 1
      BY <1>1, <2>2, <2>3 DEF Worker, N
    <3>2. QED
      BY <1>3, <2>2, <3>1
  <2>4. CASE i >= N - 1
    <3>1. N - 1 \in Worker /\ N - 1 \in Nat
      BY <1>1 DEF Worker, N
    <3>2. q * (N - 1) <= q * i /\ q * (N - 1) \in Nat /\ q * i \in Nat
      BY <1>5, <1>6, <2>2, <2>4, <3>1
    <3>3. EpStart(N - 1) = q * (N - 1) /\ EpEnd(N - 1) = NRows
      BY <1>3, <3>1
    <3>4. EpStart(N - 1) <= r /\ r < EpEnd(N - 1)
      BY <2>1, <2>2, <3>2, <3>3
    <3>5. QED
      BY <3>1, <3>4
  <2>5. QED
    BY <1>1, <2>2, <2>3, <2>4
<1>11. EpStart(0) = 0 /\ 0 < EpEnd(0)
  <2>1. 0 \in Worker /\ q * 0 = 0
    BY <1>2, Numbers
  <2>2. QED
    BY <1>1, <1>2, <1>3, <2>1
<1>12. QED
  BY <1>8, <1>9, <1>10, <1>11

LEMMA BlocksPart ==
  /\ \A c \in Cell : \E w \in Worker : c \in Block(w)
  /\ \A w, v \in Worker : \A c : c \in Block(w) /\ c \in Block(v) => w = v
  /\ Home \in Block(0)
<1>1. \A c \in Cell : \E w \in Worker : c \in Block(w)
  BY BlocksAre, CellIs DEF Block
<1>2. ASSUME NEW w \in Worker, NEW v \in Worker, NEW c, c \in Block(w), c \in Block(v), w # v
      PROVE  FALSE
  <2>1. w < v \/ v < w
    BY <1>2, Numbers DEF Worker
  <2>2. c \in Cell /\ c[1] \in Nat
    <3>1. c \in Cell
      BY <1>2 DEF Block
    <3>2. QED
      BY <3>1, CellIs, Numbers DEF Rep
  <2>3. EpStart(w) <= c[1] /\ c[1] < EpEnd(w) /\ EpStart(v) <= c[1] /\ c[1] < EpEnd(v)
    BY <1>2 DEF Block
  <2>4. EpEnd(w) <= EpStart(v) \/ EpEnd(v) <= EpStart(w)
    BY <2>1, BlocksAre
  <2>5. EpEnd(w) \in Nat /\ EpStart(v) \in Nat /\ EpEnd(v) \in Nat /\ EpStart(w) \in Nat
    BY BlocksAre
  <2>6. QED
    BY <2>2, <2>3, <2>4, <2>5
<1>3. Home \in Block(0)
  BY BlocksAre, CellsThere DEF Block, Home
<1>4. QED
  BY <1>1, <1>2, <1>3

LEMMA CellsFinite ==
  /\ IsFiniteSet(Cell) /\ Cardinality(Cell) = NCells /\ NCells \in Nat \ {0}
  /\ \A S \in SUBSET Cell : IsFiniteSet(S) /\ Cardinality(S) \in Nat
<1>1. IsFiniteSet(Row) /\ Cardinality(Row) = NRows
  BY FS_Interval, Numbers, FirstRep DEF Row, Rep, NRows
<1>2. IsFiniteSet(Orient) /\ Cardinality(Orient) = NOrient
  <2>1. NOrient \in Nat /\ NOrient - 1 \in Int /\ ~ (0 > NOrient - 1)
    BY OrientAssumption
  <2>2. QED
    BY <2>1, FS_Interval DEF Orient
<1>3. IsFiniteSet(Cell) /\ Cardinality(Cell) = NCells
  BY <1>1, <1>2, FS_Product DEF Cell, NCells
<1>4. Cardinality(Cell) \in Nat /\ Cardinality(Cell) # 0
  BY <1>3, FS_CardinalityType, FS_EmptySet, CellsThere
<1>5. \A S \in SUBSET Cell : IsFiniteSet(S) /\ Cardinality(S) \in Nat
  BY <1>3, FS_Subset, FS_CardinalityType
<1>6. QED
  BY <1>3, <1>4, <1>5

-----------------------------------------------------------------------------
(* What the workers' steps leave as it is.                                 *)
LEMMA EpruneFrame ==
  ASSUME IInv, UNCHANGED eperm48
  PROVE  /\ kills' \in Nat /\ FilesRight' /\ (TablesRight => TablesRight')
         /\ UNCHANGED <<s2r, moves, self, files>>
<1>1. UNCHANGED <<s2r, moves, self, files, kills>>
  BY DEF eperm48, tables
<1>2. kills' \in Nat /\ FilesRight'
  BY <1>1, FilesStay
<1>3. TablesRight => TablesRight'
  BY <1>1 DEF TablesRight, SelfRight, MovesRight, Ranked
<1>4. QED
  BY <1>1, <1>2, <1>3

LEMMA CellsStay ==
  ASSUME UNCHANGED <<s2r, moves, self>>, NEW c, NEW k
  PROVE  Neighbor(c, k)' = Neighbor(c, k) /\ Orbit(c)' = Orbit(c)
         /\ RawMove(c, k)' = RawMove(c, k)
BY DEF Neighbor, Orbit, RawMove

LEMMA FillInvariant ==
  ASSUME IInv, NEW w \in Worker, Fill(w), UNCHANGED eperm48
  PROVE  IInv'
<1>1. Filling /\ pc[w] = "fill"
  BY PhaseOf DEF Fill
<1>2. /\ table' = [c \in Cell |-> IF w = 0 /\ c = Home THEN 0
                                  ELSE IF c \in Block(w) THEN FF ELSE table[c]]
      /\ pc' = [pc EXCEPT ![w] = "depth barrier"]
      /\ UNCHANGED <<todo, ep_mutex, arrived, index, depth, reverse, found, ep, m,
                     active, fresh>>
  BY DEF Fill
<1>3. kills' \in Nat /\ FilesRight' /\ TablesRight' /\ files' = files
  BY <1>1, EpruneFrame DEF Filling, Tables
<1>4. Tables /\ MutexesFree /\ pc \in [Worker -> {"fill", "depth barrier"}]
  BY <1>1 DEF Filling, All
<1>5. table' \in [Cell -> 0 .. FF]
  <2>1. 0 \in 0 .. FF /\ FF \in 0 .. FF
    BY DEF FF
  <2>2. table \in [Cell -> 0 .. FF]
    BY <1>4 DEF Tables
  <2>3. QED
    BY <1>2, <2>1, <2>2
<1>6. Tables' /\ MutexesFree'
  BY <1>2, <1>3, <1>4, <1>5 DEF Tables, MutexesFree
<1>7. pc' \in [Worker -> {"fill", "depth barrier"}] /\ \A v \in Worker : v # w => pc'[v] = pc[v]
  BY <1>2, <1>4
<1>8. ArrivedAt({"depth barrier"})'
  BY <1>1, <1>2, <1>7 DEF Filling, ArrivedAt
<1>9. ASSUME NEW v \in Worker, pc'[v] = "depth barrier", NEW c \in Block(v)
      PROVE  table'[c] = IF c = Home THEN 0 ELSE FF
  <2>1. c \in Cell
    BY DEF Block
  <2>2. c = Home => v = 0
    BY <1>9, BlocksPart, Numbers
  <2>3. CASE v = w
    BY <1>2, <1>9, <2>1, <2>2, <2>3
  <2>4. CASE v # w
    <3>1. c \notin Block(w)
      BY <1>9, <2>4, BlocksPart
    <3>2. table[c] = IF c = Home THEN 0 ELSE FF
      BY <1>1, <1>7, <1>9, <2>4 DEF Filling
    <3>3. QED
      BY <1>2, <2>1, <3>1, <3>2
  <2>5. QED
    BY <2>3, <2>4
<1>10. Filling'
  BY <1>1, <1>2, <1>6, <1>7, <1>8, <1>9 DEF Filling, All, Block
<1>11. QED
  BY <1>3, <1>10 DEF IInv

LEMMA DecideInvariant ==
  ASSUME IInv, NEW w \in Worker, Decide(w), UNCHANGED eperm48
  PROVE  IInv'
<1>1. Deciding /\ pc[w] = "decide"
  BY PhaseOf DEF Decide
<1>2. /\ pc' = [pc EXCEPT ![w] = IF todo = 0 THEN "end of tables" ELSE "scan barrier"]
      /\ reverse' = [reverse EXCEPT ![w] = todo < NCells \div 2]
      /\ UNCHANGED <<table, todo, ep_mutex, arrived, index, depth, found, ep, m, active, fresh>>
  BY DEF Decide, shared
<1>3. kills' \in Nat /\ FilesRight' /\ TablesRight' /\ files' = files
  BY <1>1, EpruneFrame DEF Deciding, Tables
<1>4. Tables /\ MutexesFree /\ pc \in [Worker -> {"decide", "scan barrier", "end of tables"}]
      /\ reverse \in [Worker -> BOOLEAN]
  BY <1>1 DEF Deciding, All, Tables
<1>5. (todo < NCells \div 2) \in BOOLEAN
  OBVIOUS
<1>6. /\ reverse' \in [Worker -> BOOLEAN] /\ reverse'[w] = (todo < NCells \div 2)
      /\ \A v \in Worker : v # w => reverse'[v] = reverse[v]
  <2> DEFINE b == todo < NCells \div 2
  <2>1. b \in BOOLEAN /\ reverse' = [reverse EXCEPT ![w] = b]
    BY <1>2, <1>5
  <2> HIDE DEF b
  <2>2. /\ reverse' \in [Worker -> BOOLEAN] /\ reverse'[w] = b
        /\ \A v \in Worker : v # w => reverse'[v] = reverse[v]
    BY <1>4, <2>1
  <2>3. QED
    BY <2>2 DEF b
<1>7. Tables' /\ MutexesFree'
  BY <1>2, <1>3, <1>4, <1>6 DEF Tables, MutexesFree
<1>8. /\ pc' \in [Worker -> {"decide", "scan barrier", "end of tables"}]
      /\ pc'[w] = IF todo = 0 THEN "end of tables" ELSE "scan barrier"
      /\ \A v \in Worker : v # w => pc'[v] = pc[v]
  BY <1>2, <1>4
<1>9. ArrivedAt({"scan barrier", "end of tables"})'
  BY <1>1, <1>2, <1>8 DEF Deciding, ArrivedAt
<1>10. ASSUME NEW v \in Worker
       PROVE  /\ pc'[v] = "scan barrier" =>
                   todo' # 0 /\ reverse'[v] = (todo' < NCells \div 2)
              /\ pc'[v] = "end of tables" => todo' = 0
  <2>1. CASE v = w
    BY <1>2, <1>6, <1>8, <2>1
  <2>2. CASE v # w
    BY <1>1, <1>2, <1>6, <1>8, <2>2 DEF Deciding
  <2>3. QED
    BY <2>1, <2>2
<1>11. /\ (\E d \in 0 .. FF - 1 : depth = [v \in Worker |-> d] /\ Exact(d))'
       /\ todo' = Cardinality(Empty)'
  BY <1>1, <1>2 DEF Deciding, Exact, Empty
<1>12. Deciding'
  BY <1>7, <1>8, <1>9, <1>10, <1>11 DEF Deciding, All
<1>13. QED
  BY <1>3, <1>12 DEF IInv

-----------------------------------------------------------------------------
(* What a worker knows in a scan stays true when others only move on.      *)
SameWorker(v) ==
  /\ pc'[v] = pc[v] /\ ep'[v] = ep[v] /\ m'[v] = m[v] /\ active'[v] = active[v]
  /\ fresh'[v] = fresh[v] /\ reverse'[v] = reverse[v] /\ depth'[v] = depth[v]

LEMMA WritingStays ==
  ASSUME UNCHANGED <<s2r, moves, self>>, NEW v, SameWorker(v)
  PROVE  Writing(v)' = Writing(v) /\ RowOf(v)' = RowOf(v)
BY DEF SameWorker, Writing, RowOf, RawMove

LEMMA WorkerStays ==
  ASSUME UNCHANGED <<s2r, moves, self, table>>, NEW v, NEW d, SameWorker(v)
  PROVE  /\ InRow(v, d) => InRow(v, d)'
         /\ Scanned(v, d) => Scanned(v, d)'
         /\ FreshEmpty(v, d) => FreshEmpty(v, d)'
<1>1. Writing(v)' = Writing(v) /\ RowOf(v)' = RowOf(v)
  BY WritingStays
<1>2. Want(v)' = Want(v)
  BY DEF Want, SameWorker
<1>3. InRow(v, d) => InRow(v, d)'
  BY <1>1, <1>2 DEF InRow, SameWorker
<1>4. ASSUME NEW c, NEW k, Tried(c, k, d, reverse[v])
      PROVE  Tried(c, k, d, reverse[v])'
  BY <1>4, CellsStay DEF Tried, SameWorker
<1>5. Scanned(v, d) => Scanned(v, d)'
  <2>1. SUFFICES ASSUME Scanned(v, d), NEW c \in Block(v), NEW k \in Move,
                        \/ pc[v] \in {"move", "scan", "set"} /\ c[1] < ep[v]
                        \/ pc[v] \in {"move", "scan", "set"} /\ c[1] = ep[v] /\ k < m[v]
                        \/ pc[v] \in {"sum", "depth barrier"}
                 PROVE  Tried(c, k, d, reverse[v])'
    BY DEF Scanned, SameWorker, Block, EpStart, EpEnd
  <2>2. Tried(c, k, d, reverse[v])
    BY <2>1 DEF Scanned
  <2>3. QED
    BY <1>4, <2>2
<1>6. FreshEmpty(v, d) => FreshEmpty(v, d)'
  BY <1>1, CellsStay DEF FreshEmpty, SameWorker
<1>7. QED
  BY <1>3, <1>5, <1>6

LEMMA PartialStays ==
  ASSUME UNCHANGED <<s2r, moves, self, table>>, NEW d
  PROVE  (Partial(d) => Partial(d)') /\ Empty' = Empty
BY CellsStay DEF Partial, Empty

(* Every cell is within 254 moves.                                         *)
LEMMA ExactEmpty ==
  ASSUME NEW d \in 0 .. FF - 1, Exact(d), table \in [Cell -> 0 .. FF]
  PROVE  \A c \in Cell : c \in Empty <=> CellDist(c) > d
<1>1. TAKE c \in Cell
<1>2. CellDist(c) \in Nat /\ CellDist(c) < FF /\ d \in Int
  BY CellIs DEF FF
<1>3. table[c] = IF CellDist(c) <= d THEN CellDist(c) ELSE FF
  BY DEF Exact
<1>4. QED
  BY <1>2, <1>3 DEF Empty, FF

(* Filled tables have the solved cell.                                     *)
LEMMA FilledCells ==
  ASSUME \A c \in Cell : table[c] = IF c = Home THEN 0 ELSE FF
  PROVE  Exact(0) /\ Cardinality(Empty) = NCells - 1
<1>1. ASSUME NEW c \in Cell
      PROVE  table[c] = IF CellDist(c) <= 0 THEN CellDist(c) ELSE FF
  <2>1. CellDist(c) \in Nat /\ (CellDist(c) = 0 <=> c = Home)
    BY CellIs
  <2>2. QED
    BY <2>1
<1>2. Exact(0)
  BY <1>1 DEF Exact
<1>3. Empty = Cell \ {Home}
  <2>1. 0 # FF
    BY DEF FF
  <2>2. QED
    BY <2>1 DEF Empty
<1>4. Cardinality(Empty) = NCells - 1
  BY <1>3, CellsFinite, CellsThere, FS_RemoveElement
<1>5. QED
  BY <1>2, <1>4

LEMMA FilledExact ==
  ASSUME Filling, \A w \in Worker : pc[w] = "depth barrier"
  PROVE  Exact(0) /\ todo = Cardinality(Empty)
<1>1. ASSUME NEW c \in Cell
      PROVE  table[c] = IF c = Home THEN 0 ELSE FF
  <2>1. PICK w \in Worker : c \in Block(w)
    BY BlocksPart
  <2>2. QED
    BY <2>1 DEF Filling
<1>2. QED
  BY <1>1, FilledCells DEF Filling

(* The depths of a scan.                                                   *)
LEMMA Depths ==
  /\ \A d \in 0 .. FF - 2 : d \in Nat /\ d + 1 \in Nat /\ d + 1 \in 0 .. FF - 1 /\ d + 1 # d
                            /\ d + 1 # FF /\ d # FF /\ d + 1 \in 0 .. FF
  /\ \A n \in Nat : n + 0 = n
BY DEF FF

LEMMA DepthZero ==
  /\ 0 \in 0 .. FF - 1
  /\ \A d \in 0 .. FF - 1, n \in Nat : n > d /\ n < FF => d \in 0 .. FF - 2
BY DEF FF

(* When all have scanned their rows, the next depth is complete.           *)
LEMMA ScanComplete ==
  ASSUME TablesRight, NEW d \in 0 .. FF - 2, NEW rev \in BOOLEAN, Partial(d),
         \A c \in Cell, k \in Move : Tried(c, k, d, rev)
  PROVE  Exact(d + 1)
<1>1. SUFFICES ASSUME NEW e \in Cell
               PROVE  table[e] = IF CellDist(e) <= d + 1 THEN CellDist(e) ELSE FF
  BY DEF Exact
<1>2. CellDist(e) \in Nat /\ d \in Nat /\ d + 1 # FF
  BY CellIs DEF FF
<1>3. /\ CellDist(e) <= d => table[e] = CellDist(e)
      /\ CellDist(e) = d + 1 => table[e] \in {d + 1, FF}
      /\ CellDist(e) > d + 1 => table[e] = FF
      /\ \A x \in Orbit(e) : table[e] = FF => table[x] = FF
  BY DEF Partial
<1>4. CASE CellDist(e) # d + 1
  BY <1>2, <1>3, <1>4
<1>5. CASE CellDist(e) = d + 1
  <2>1. SUFFICES ASSUME table[e] = FF
                 PROVE  FALSE
    BY <1>2, <1>3, <1>5
  <2>2. PICK k \in Move : CellDist(Neighbor(e, k)) = d
    <3>1. CellDist(e) > 0 /\ CellDist(e) - 1 = d
      BY <1>2, <1>5
    <3>2. QED
      BY <3>1, NeighborNearer
  <2>3. CASE rev
    BY <2>1, <2>2, <2>3 DEF Tried
  <2>4. CASE ~ rev
    <3>1. Neighbor(e, k) \in Cell
      BY NeighborIs
    <3>2. PICK j \in Move : e \in Orbit(Neighbor(Neighbor(e, k), j))
      BY NeighborBack
    <3>3. table[Neighbor(Neighbor(e, k), j)] # FF
      BY <2>2, <2>4, <3>1 DEF Tried
    <3>4. Neighbor(Neighbor(e, k), j) \in Cell
      BY <3>1, NeighborIs
    <3>5. Neighbor(Neighbor(e, k), j) \in Orbit(e)
      BY <3>2, <3>4, OrbitsAre
    <3>6. QED
      BY <1>3, <2>1, <3>3, <3>5
  <2>5. QED
    BY <2>3, <2>4
<1>6. QED
  BY <1>4, <1>5

(* Nobody scans: nothing is counted that is not subtracted from todo.      *)
LEMMA NobodyScans ==
  ASSUME \A w \in Worker : pc[w] \notin {"move", "scan", "set", "sum"}
  PROVE  Counted = {} /\ Cardinality(Counted) = 0
<1>1. Scanners = {}
  BY DEF Scanners
<1>2. Counted = {}
  BY <1>1 DEF Counted
<1>3. QED
  BY <1>2, FS_EmptySet

LEMMA ScanEnds ==
  ASSUME Scanning, \A w \in Worker : pc[w] = "depth barrier"
  PROVE  /\ \E d \in 0 .. FF - 1 : depth = [w \in Worker |-> d] /\ Exact(d)
         /\ MutexesFree /\ todo = Cardinality(Empty)
<1>1. PICK d \in 0 .. FF - 2, rev \in BOOLEAN : ScanAt(d, rev)
  BY DEF Scanning
<1>2. \A w \in Worker : pc[w] = "depth barrier"
  OBVIOUS
<1>3. Tables
  BY DEF Scanning
<1>4. \A c \in Cell, k \in Move : Tried(c, k, d, rev)
  <2>1. TAKE c \in Cell, k \in Move
  <2>2. PICK w \in Worker : c \in Block(w)
    BY BlocksPart
  <2>3. Scanned(w, d) /\ reverse[w] = rev /\ pc[w] = "depth barrier"
    BY <1>1, <1>2 DEF ScanAt
  <2>4. QED
    BY <2>2, <2>3 DEF Scanned
<1>5. Exact(d + 1)
  BY <1>1, <1>3, <1>4, ScanComplete DEF ScanAt, Tables
<1>6. d + 1 \in 0 .. FF - 1
  BY Depths
<1>7. depth = [w \in Worker |-> d + 1]
  <2>1. \A w \in Worker : depth[w] = d + 1
    BY <1>1, <1>2 DEF ScanAt
  <2>2. depth \in [Worker -> Nat]
    BY <1>3 DEF Tables
  <2>3. QED
    BY <2>1, <2>2
<1>8. MutexesFree
  <2>1. ASSUME NEW r \in Row
        PROVE  ep_mutex[r] = Nobody
    <3>1. ep_mutex[r] \in Worker \union {Nobody}
      BY <1>3 DEF Tables
    <3>2. \A w \in Worker : ~ Writing(w)
      BY <1>2 DEF Writing
    <3>3. CASE rev
      BY <1>1, <3>3 DEF ScanAt, Locks
    <3>4. CASE ~ rev
      BY <1>1, <3>1, <3>2, <3>4 DEF ScanAt, Locks
    <3>5. QED
      BY <3>3, <3>4
  <2>2. ep_mutex \in [Row -> Worker \union {Nobody}]
    BY <1>3 DEF Tables
  <2>3. QED
    BY <2>1, <2>2 DEF MutexesFree
<1>9. todo = Cardinality(Empty)
  <2>1. Cardinality(Counted) = 0
    BY <1>2, NobodyScans
  <2>2. Empty \in SUBSET Cell
    BY DEF Empty
  <2>3. Cardinality(Empty) \in Nat
    BY <2>2, CellsFinite
  <2>4. todo = Cardinality(Empty) + Cardinality(Counted)
    BY DEF Scanning
  <2>5. QED
    BY <2>1, <2>3, <2>4, Depths
<1>10. QED
  BY <1>5, <1>6, <1>7, <1>8, <1>9

(* A complete depth is the beginning of the next.                          *)
LEMMA ExactPartial ==
  ASSUME TablesRight, NEW d \in 0 .. FF - 2, Exact(d)
  PROVE  Partial(d)
<1>1. ASSUME NEW c \in Cell
      PROVE  /\ CellDist(c) <= d => table[c] = CellDist(c)
             /\ CellDist(c) = d + 1 => table[c] \in {d + 1, FF}
             /\ CellDist(c) > d + 1 => table[c] = FF
             /\ \A e \in Orbit(c) : table[c] = FF => table[e] = FF
  <2>1. CellDist(c) \in Nat /\ CellDist(c) < FF /\ d \in Nat
    BY CellIs DEF FF
  <2>2. \A e \in Cell : table[e] = IF CellDist(e) <= d THEN CellDist(e) ELSE FF
    BY DEF Exact
  <2>3. ASSUME NEW e \in Orbit(c), table[c] = FF
        PROVE  table[e] = FF
    <3>1. e \in Cell /\ CellDist(e) = CellDist(c)
      BY OrbitsAre
    <3>2. QED
      BY <2>2, <2>3, <3>1
  <2>4. /\ CellDist(c) <= d => table[c] = CellDist(c)
        /\ CellDist(c) > d => table[c] = FF
    BY <2>1, <2>2
  <2>5. QED
    BY <2>1, <2>3, <2>4
<1>2. QED
  BY <1>1 DEF Partial

-----------------------------------------------------------------------------
(* Nothing changes but who has arrived.                                    *)
LEMMA ArriveWaits ==
  ASSUME IInv, NEW w \in Worker, ArriveEprune(w), UNCHANGED eperm48,
         arrived \union {w} # Worker
  PROVE  IInv'
<1>1. /\ pc[w] \in {"depth barrier", "scan barrier", "end of tables"}
      /\ UNCHANGED pc /\ arrived' = arrived \union {w}
      /\ UNCHANGED <<table, todo, ep_mutex, index, depth, reverse, found, ep, m,
                     active, fresh>>
  BY DEF ArriveEprune
<1>2. /\ kills' \in Nat /\ FilesRight' /\ (TablesRight => TablesRight')
      /\ UNCHANGED <<s2r, moves, self, files>>
  BY EpruneFrame
<1>3. Tables => Tables'
  BY <1>1, <1>2 DEF Tables
<1>4. MutexesFree => MutexesFree'
  BY <1>1 DEF MutexesFree
<1>5. CASE Filling
  <2>1. Filling'
    <3>1. pc[w] = "depth barrier"
      BY <1>1, <1>5 DEF Filling, All
    <3>2. All({"fill", "depth barrier"})' /\ ArrivedAt({"depth barrier"})'
      BY <1>1, <1>5, <3>1 DEF Filling, All, ArrivedAt
    <3>3. QED
      BY <1>1, <1>3, <1>4, <1>5, <3>2 DEF Filling, Block, EpStart, EpEnd
  <2>2. QED
    BY <1>2, <2>1 DEF IInv
<1>6. CASE Deciding
  <2>1. Deciding'
    <3>1. pc[w] \in {"scan barrier", "end of tables"}
      BY <1>1, <1>6 DEF Deciding, All
    <3>2. /\ All({"decide", "scan barrier", "end of tables"})'
          /\ ArrivedAt({"scan barrier", "end of tables"})'
      BY <1>1, <1>6, <3>1 DEF Deciding, All, ArrivedAt
    <3>3. QED
      BY <1>1, <1>3, <1>4, <1>6, <3>2 DEF Deciding, Exact, Empty
  <2>2. QED
    BY <1>2, <2>1 DEF IInv
<1>7. CASE Scanning
  <2>1. pc[w] = "depth barrier"
    BY <1>1, <1>7 DEF Scanning, All
  <2>2. /\ All({"begin", "move", "scan", "set", "sum", "depth barrier"})'
        /\ ArrivedAt({"depth barrier"})'
    BY <1>1, <1>7, <2>1 DEF Scanning, All, ArrivedAt
  <2>3. PICK d \in 0 .. FF - 2, rev \in BOOLEAN : ScanAt(d, rev)
    BY <1>7 DEF Scanning
  <2>4. \A v \in Worker : SameWorker(v)
    BY <1>1 DEF SameWorker
  <2>5. ASSUME NEW v \in Worker
        PROVE  /\ depth'[v] = IF pc'[v] = "depth barrier" THEN d + 1 ELSE d
               /\ reverse'[v] = rev
               /\ InRow(v, d)' /\ Scanned(v, d)' /\ FreshEmpty(v, d)'
    <3>1. /\ depth[v] = IF pc[v] = "depth barrier" THEN d + 1 ELSE d
          /\ reverse[v] = rev
          /\ InRow(v, d) /\ Scanned(v, d) /\ FreshEmpty(v, d)
      BY <2>3 DEF ScanAt
    <3>2. SameWorker(v) /\ UNCHANGED <<s2r, moves, self, table>>
      BY <1>1, <1>2, <2>4
    <3>3. InRow(v, d)' /\ Scanned(v, d)' /\ FreshEmpty(v, d)'
      BY <3>1, <3>2, WorkerStays
    <3>4. QED
      BY <1>1, <3>1, <3>3
  <2>6. Partial(d)' /\ Empty' = Empty
    BY <1>1, <1>2, <2>3, PartialStays DEF ScanAt
  <2>7. \A v \in Worker : Writing(v)' = Writing(v) /\ RowOf(v)' = RowOf(v)
    BY <1>1, <1>2, <2>4, WritingStays
  <2>8. Locks(rev)'
    BY <1>1, <2>3, <2>7 DEF ScanAt, Locks
  <2>9. ScanAt(d, rev)'
    BY <2>5, <2>6, <2>8 DEF ScanAt
  <2>10. Counted' = Counted
    BY <1>1 DEF Counted, Scanners
  <2>11. todo' = Cardinality(Empty)' + Cardinality(Counted)'
    BY <1>1, <1>7, <2>6, <2>10 DEF Scanning
  <2>12. Scanning'
    BY <1>3, <1>7, <2>2, <2>9, <2>11 DEF Scanning
  <2>13. QED
    BY <1>2, <2>12 DEF IInv
<1>8. QED
  BY <1>1, <1>5, <1>6, <1>7, PhaseOf

(* The last one to arrive lets all go on.                                  *)
LEMMA ArriveReleases ==
  ASSUME IInv, NEW w \in Worker, ArriveEprune(w), UNCHANGED eperm48,
         arrived \union {w} = Worker
  PROVE  IInv'
<1>1. /\ pc[w] \in {"depth barrier", "scan barrier", "end of tables"}
      /\ arrived' = {}
      /\ pc' = [v \in Worker |-> CASE pc[v] = "depth barrier" -> "decide"
                                   [] pc[v] = "scan barrier" -> "begin"
                                   [] OTHER -> "index"]
      /\ UNCHANGED <<table, todo, ep_mutex, index, depth, reverse, found, ep, m,
                     active, fresh>>
  BY DEF ArriveEprune
<1>2. /\ kills' \in Nat /\ FilesRight' /\ (TablesRight => TablesRight')
      /\ UNCHANGED <<s2r, moves, self, files>>
  BY EpruneFrame
<1>3. Tables => Tables'
  BY <1>1, <1>2 DEF Tables
<1>4. MutexesFree => MutexesFree'
  BY <1>1 DEF MutexesFree
<1>5. \A places : ArrivedAt(places)'
  BY <1>1 DEF ArrivedAt
<1>6. CASE pc[w] = "depth barrier"
  <2>1. /\ \A v \in Worker : pc[v] = "depth barrier"
        /\ Tables /\ MutexesFree /\ todo = Cardinality(Empty)
        /\ \E d \in 0 .. FF - 1 : depth = [v \in Worker |-> d] /\ Exact(d)
    <3>1. CASE Filling
      <4>1. \A v \in Worker : pc[v] = "depth barrier"
        BY <1>6, <3>1 DEF Filling, ArrivedAt
      <4>2. Exact(0) /\ todo = Cardinality(Empty)
        BY <3>1, <4>1, FilledExact
      <4>3. Tables /\ MutexesFree /\ depth = [v \in Worker |-> 0]
        BY <3>1 DEF Filling
      <4>4. 0 \in 0 .. FF - 1
        BY DepthZero
      <4>5. QED
        BY <4>1, <4>2, <4>3, <4>4
    <3>2. CASE Scanning
      <4>1. \A v \in Worker : pc[v] = "depth barrier"
        BY <1>6, <3>2 DEF Scanning, ArrivedAt
      <4>2. QED
        BY <3>2, <4>1, ScanEnds DEF Scanning
    <3>3. QED
      BY <1>6, <3>1, <3>2, PhaseOf
  <2>2. pc' = [v \in Worker |-> "decide"]
    BY <1>1, <2>1
  <2>3. All({"decide", "scan barrier", "end of tables"})'
    BY <2>2 DEF All
  <2>4. /\ (\E d \in 0 .. FF - 1 : depth = [v \in Worker |-> d] /\ Exact(d))'
        /\ todo' = Cardinality(Empty)'
    BY <1>1, <2>1 DEF Exact, Empty
  <2>5. Deciding'
    BY <1>3, <1>4, <1>5, <2>1, <2>2, <2>3, <2>4 DEF Deciding
  <2>6. QED
    BY <1>2, <2>5 DEF IInv
<1>7. CASE pc[w] \in {"scan barrier", "end of tables"}
  <2>1. Deciding
    BY <1>7, PhaseOf
  <2>2. \A v \in Worker : pc[v] \in {"scan barrier", "end of tables"}
    BY <1>1, <1>7, <2>1 DEF Deciding, ArrivedAt
  <2>3. /\ Tables /\ MutexesFree /\ todo = Cardinality(Empty)
        /\ \A v \in Worker :
             /\ pc[v] = "scan barrier" => todo # 0 /\ reverse[v] = (todo < NCells \div 2)
             /\ pc[v] = "end of tables" => todo = 0
    BY <2>1 DEF Deciding
  <2>4. PICK d \in 0 .. FF - 1 : depth = [v \in Worker |-> d] /\ Exact(d)
    BY <2>1 DEF Deciding
  <2>5. table \in [Cell -> 0 .. FF] /\ TablesRight
    BY <2>3 DEF Tables
  <2>6. CASE pc[w] = "scan barrier"
    <3>1. \A v \in Worker : pc[v] = "scan barrier"
      BY <2>2, <2>3, <2>6
    <3>2. pc' = [v \in Worker |-> "begin"]
      BY <1>1, <3>1
    <3>3. PICK rev \in BOOLEAN : \A v \in Worker : reverse[v] = rev
      <4> DEFINE b == todo < NCells \div 2
      <4>1. \A v \in Worker : reverse[v] = b
        BY <2>3, <3>1
      <4>2. b \in BOOLEAN
        OBVIOUS
      <4>3. QED
        BY <4>1, <4>2
    <3>4. d \in 0 .. FF - 2
      <4>1. Empty # {}
        BY <2>3, <2>6, FS_EmptySet
      <4>2. PICK c \in Cell : c \in Empty
        BY <4>1 DEF Empty
      <4>3. CellDist(c) > d
        BY <2>4, <2>5, <4>2, ExactEmpty
      <4>4. CellDist(c) \in Nat /\ CellDist(c) < FF
        BY CellIs
      <4>5. QED
        BY <4>3, <4>4, DepthZero
    <3>5. Partial(d)'
      BY <1>1, <1>2, <2>4, <2>5, <3>4, ExactPartial, PartialStays
    <3>6. \A v \in Worker : InRow(v, d)' /\ Scanned(v, d)' /\ FreshEmpty(v, d)'
      BY <3>2 DEF InRow, Scanned, FreshEmpty, Writing
    <3>7. \A v \in Worker : depth'[v] = d /\ reverse'[v] = rev /\ pc'[v] = "begin"
      BY <1>1, <2>4, <3>2, <3>3
    <3>8. Locks(rev)'
      <4>1. \A r \in Row : ep_mutex'[r] = Nobody
        BY <1>1, <2>3 DEF MutexesFree
      <4>2. \A v \in Worker : ~ Writing(v)' /\ v # Nobody
        BY <3>2, OrientAssumption DEF Writing
      <4>3. QED
        BY <4>1, <4>2 DEF Locks
    <3>9. ScanAt(d, rev)'
      BY <3>5, <3>6, <3>7, <3>8 DEF ScanAt
    <3>10. Cardinality(Counted)' = 0
      <4>1. Scanners' = {}
        BY <3>2 DEF Scanners
      <4>2. Counted' = {}
        BY <4>1 DEF Counted
      <4>3. QED
        BY <4>2, FS_EmptySet
    <3>11. todo' = Cardinality(Empty)' + Cardinality(Counted)'
      <4>1. Empty' = Empty
        BY <1>1 DEF Empty
      <4>2. Cardinality(Empty) \in Nat
        BY CellsFinite DEF Empty
      <4>3. QED
        BY <1>1, <2>3, <3>10, <4>1, <4>2, Depths
    <3>12. All({"begin", "move", "scan", "set", "sum", "depth barrier"})'
      BY <3>2 DEF All
    <3>13. Scanning'
      BY <1>3, <1>5, <2>3, <3>4, <3>9, <3>11, <3>12 DEF Scanning
    <3>14. QED
      BY <1>2, <3>13 DEF IInv
  <2>7. CASE pc[w] = "end of tables"
    <3>1. \A v \in Worker : pc[v] = "end of tables"
      BY <2>2, <2>3, <2>7
    <3>2. pc' = [v \in Worker |-> "index"]
      BY <1>1, <3>1
    <3>3. All({"index", "indexed"})' /\ \A v \in Worker : pc'[v] # "indexed"
      BY <3>2 DEF All
    <3>4. Empty = {}
      <4>1. IsFiniteSet(Empty)
        BY CellsFinite DEF Empty
      <4>2. QED
        BY <2>3, <2>7, <4>1, FS_EmptySet
    <3>5. \A c \in Cell : table[c] = CellDist(c)
      BY <2>4, <3>4 DEF Exact, Empty
    <3>6. Indexing'
      BY <1>1, <1>3, <2>3, <3>3, <3>5 DEF Indexing
    <3>7. QED
      BY <1>2, <3>6 DEF IInv
  <2>8. QED
    BY <1>7, <2>6, <2>7
<1>8. QED
  BY <1>1, <1>6, <1>7

LEMMA ArriveEpruneInvariant ==
  ASSUME IInv, NEW w \in Worker, ArriveEprune(w), UNCHANGED eperm48
  PROVE  IInv'
BY ArriveWaits, ArriveReleases

-----------------------------------------------------------------------------
(* Counting what the workers have found.                                   *)
LEMMA CountedFinite ==
  ASSUME found \in [Worker -> Nat]
  PROVE  IsFiniteSet(Counted) /\ Cardinality(Counted) \in Nat
<1> DEFINE Of(w) == {w} \X (1 .. found[w])
           T == {Of(w) : w \in Scanners}
           f == [w \in Scanners |-> Of(w)]
<1>1. IsFiniteSet(Scanners)
  <2>1. IsFiniteSet(Worker)
    BY Numbers, FS_Interval DEF Worker
  <2>2. QED
    BY <2>1, FS_Subset DEF Scanners
<1>2. f \in Surjection(Scanners, T)
  BY DEF Surjection
<1>3. IsFiniteSet(T)
  BY <1>1, <1>2, FS_Surjection
<1>4. ASSUME NEW S \in T
      PROVE  IsFiniteSet(S)
  <2>1. PICK w \in Worker : S = Of(w)
    BY <1>4 DEF Scanners
  <2>2. 1 \in Int /\ found[w] \in Int
    BY <2>1
  <2>3. IsFiniteSet({w}) /\ IsFiniteSet(1 .. found[w])
    BY <2>2, FS_Singleton, FS_Interval
  <2>4. QED
    BY <2>1, <2>3, FS_Product
<1>5. IsFiniteSet(UNION T)
  BY <1>3, <1>4, FS_UNION
<1>6. QED
  BY <1>5, FS_CardinalityType DEF Counted

(* A pair for each of the numbers a + 1 to b.                              *)
LEMMA PairsCounted ==
  ASSUME NEW w, NEW a \in Nat, NEW b \in Nat, a <= b
  PROVE  LET P == {w} \X (a + 1 .. b) IN IsFiniteSet(P) /\ Cardinality(P) = b - a
<1>1. IsFiniteSet({w}) /\ Cardinality({w}) = 1
  BY FS_Singleton
<1>2. IsFiniteSet(a + 1 .. b) /\ Cardinality(a + 1 .. b) = b - a
  <2>1. a + 1 \in Int /\ b \in Int
    OBVIOUS
  <2>2. IsFiniteSet(a + 1 .. b)
        /\ Cardinality(a + 1 .. b) = IF a + 1 > b THEN 0 ELSE b - (a + 1) + 1
    BY <2>1, FS_Interval
  <2>3. QED
    BY <2>2
<1>3. QED
  <2> DEFINE A == {w}
             B == a + 1 .. b
  <2>1. IsFiniteSet(A) /\ Cardinality(A) = 1 /\ IsFiniteSet(B) /\ Cardinality(B) = b - a
    BY <1>1, <1>2
  <2> HIDE DEF A, B
  <2>2. IsFiniteSet(A \X B) /\ Cardinality(A \X B) = Cardinality(A) * Cardinality(B)
    BY <2>1, FS_Product
  <2>3. IsFiniteSet(A \X B) /\ Cardinality(A \X B) = b - a
    BY <2>1, <2>2
  <2>4. QED
    BY <2>3 DEF A, B

LEMMA CountedStays ==
  ASSUME NEW w \in Worker, found \in [Worker -> Nat],
         pc[w] \in {"move", "scan", "set", "sum"} \/ found'[w] = 0,
         pc[w] \in {"move", "scan", "set", "sum"} => found'[w] = found[w],
         pc'[w] \in {"move", "scan", "set", "sum"},
         \A v \in Worker : v # w => pc'[v] = pc[v] /\ found'[v] = found[v]
  PROVE  Counted' = Counted
<1>1. ASSUME NEW x
      PROVE  x \in Counted' <=> x \in Counted
  <2>1. x \in Counted <=>
          \E v \in Worker : pc[v] \in {"move", "scan", "set", "sum"}
                            /\ x \in {v} \X (1 .. found[v])
    BY DEF Counted, Scanners
  <2>2. x \in Counted' <=>
          \E v \in Worker : pc'[v] \in {"move", "scan", "set", "sum"}
                            /\ x \in {v} \X (1 .. found'[v])
    BY DEF Counted, Scanners
  <2>3. CASE pc[w] \in {"move", "scan", "set", "sum"}
    <3>1. \A v \in Worker : /\ found'[v] = found[v]
                            /\ pc'[v] \in {"move", "scan", "set", "sum"} <=>
                               pc[v] \in {"move", "scan", "set", "sum"}
      BY <2>3
    <3>2. QED
      BY <2>1, <2>2, <3>1
  <2>4. CASE pc[w] \notin {"move", "scan", "set", "sum"}
    <3>1. x \notin {w} \X (1 .. found'[w])
      BY <2>4
    <3>2. QED
      BY <2>1, <2>2, <2>4, <3>1
  <2>5. QED
    BY <2>3, <2>4
<1>2. QED
  BY <1>1

-----------------------------------------------------------------------------
(* A step of one worker in a scan that leaves the table as it is.          *)
LEMMA OthersScan ==
  ASSUME NEW d, NEW rev, ScanAt(d, rev), NEW w \in Worker,
         UNCHANGED <<s2r, moves, self, table>>,
         \A v \in Worker : v # w => SameWorker(v)
  PROVE  /\ \A v \in Worker : v # w =>
              /\ depth'[v] = IF pc'[v] = "depth barrier" THEN d + 1 ELSE d
              /\ reverse'[v] = rev
              /\ InRow(v, d)' /\ Scanned(v, d)' /\ FreshEmpty(v, d)'
         /\ Partial(d)' /\ Empty' = Empty
<1>1. ASSUME NEW v \in Worker, v # w
      PROVE  /\ depth'[v] = IF pc'[v] = "depth barrier" THEN d + 1 ELSE d
             /\ reverse'[v] = rev
             /\ InRow(v, d)' /\ Scanned(v, d)' /\ FreshEmpty(v, d)'
  <2>1. SameWorker(v)
    BY <1>1
  <2>2. /\ depth[v] = IF pc[v] = "depth barrier" THEN d + 1 ELSE d
        /\ reverse[v] = rev
        /\ InRow(v, d) /\ Scanned(v, d) /\ FreshEmpty(v, d)
    BY DEF ScanAt
  <2>3. InRow(v, d)' /\ Scanned(v, d)' /\ FreshEmpty(v, d)'
    BY <2>1, <2>2, WorkerStays
  <2>4. QED
    BY <2>1, <2>2, <2>3 DEF SameWorker
<1>2. Partial(d)' /\ Empty' = Empty
  BY PartialStays DEF ScanAt
<1>3. QED
  BY <1>1, <1>2

LEMMA ScanStep ==
  ASSUME IInv, UNCHANGED eperm48, Tables', NEW w \in Worker,
         NEW d \in 0 .. FF - 2, NEW rev \in BOOLEAN, ScanAt(d, rev),
         pc \in [Worker -> {"begin", "move", "scan", "set", "sum", "depth barrier"}],
         ArrivedAt({"depth barrier"}), pc[w] # "depth barrier",
         UNCHANGED <<table, arrived>>,
         NEW there \in {"begin", "move", "scan", "set", "sum", "depth barrier"},
         pc' = [pc EXCEPT ![w] = there],
         \A v \in Worker : v # w => SameWorker(v),
         depth'[w] = IF there = "depth barrier" THEN d + 1 ELSE d,
         reverse'[w] = rev,
         InRow(w, d)', Scanned(w, d)', FreshEmpty(w, d)', Locks(rev)',
         todo' = Cardinality(Empty) + Cardinality(Counted)'
  PROVE  IInv'
<1>1. /\ kills' \in Nat /\ FilesRight'
      /\ UNCHANGED <<s2r, moves, self, files>>
  BY EpruneFrame
<1>2. /\ pc' \in [Worker -> {"begin", "move", "scan", "set", "sum", "depth barrier"}]
      /\ pc'[w] = there /\ \A v \in Worker : v # w => pc'[v] = pc[v]
  OBVIOUS
<1>3. All({"begin", "move", "scan", "set", "sum", "depth barrier"})'
  BY <1>2 DEF All
<1>4. ArrivedAt({"depth barrier"})'
  BY <1>2 DEF ArrivedAt
<1>5. /\ \A v \in Worker : v # w =>
           /\ depth'[v] = IF pc'[v] = "depth barrier" THEN d + 1 ELSE d
           /\ reverse'[v] = rev
           /\ InRow(v, d)' /\ Scanned(v, d)' /\ FreshEmpty(v, d)'
      /\ Partial(d)' /\ Empty' = Empty
  <2>1. UNCHANGED <<s2r, moves, self, table>> /\ ScanAt(d, rev)
        /\ \A v \in Worker : v # w => SameWorker(v)
    BY <1>1
  <2>2. QED
    BY ONLY <2>1, OthersScan
<1>6. ASSUME NEW v \in Worker
      PROVE  /\ depth'[v] = IF pc'[v] = "depth barrier" THEN d + 1 ELSE d
             /\ reverse'[v] = rev
             /\ InRow(v, d)' /\ Scanned(v, d)' /\ FreshEmpty(v, d)'
  <2>1. CASE v = w
    BY <1>2, <2>1
  <2>2. CASE v # w
    BY <1>5, <2>2
  <2>3. QED
    BY <2>1, <2>2
<1>7. ScanAt(d, rev)'
  BY <1>5, <1>6 DEF ScanAt
<1>8. Scanning'
  BY <1>3, <1>4, <1>5, <1>7 DEF Scanning
<1>9. QED
  BY <1>1, <1>8 DEF IInv

(* In the table, the cells of depth d are those at distance d.             *)
LEMMA AtDepth ==
  ASSUME NEW d \in 0 .. FF - 2, Partial(d), NEW c \in Cell
  PROVE  /\ table[c] = d <=> CellDist(c) = d
         /\ table[c] = FF => CellDist(c) > d
<1>1. CellDist(c) \in Nat /\ CellDist(c) < FF /\ d \in Nat /\ d # FF /\ d + 1 # d
  BY CellIs, Depths
<1>2. /\ CellDist(c) <= d => table[c] = CellDist(c)
      /\ CellDist(c) = d + 1 => table[c] \in {d + 1, FF}
      /\ CellDist(c) > d + 1 => table[c] = FF
  BY DEF Partial
<1> HIDE DEF CellDist, FF
<1>3. QED
  BY <1>1, <1>2

-----------------------------------------------------------------------------
(* What a worker in a scan knows.                                          *)
LEMMA InScan ==
  ASSUME IInv, NEW w \in Worker, pc[w] \in {"begin", "move", "scan", "set", "sum"}
  PROVE  /\ Tables /\ ArrivedAt({"depth barrier"})
         /\ pc \in [Worker -> {"begin", "move", "scan", "set", "sum", "depth barrier"}]
         /\ todo = Cardinality(Empty) + Cardinality(Counted)
         /\ \E d \in 0 .. FF - 2, rev \in BOOLEAN : ScanAt(d, rev)
BY PhaseOf DEF Scanning, All

LEMMA Depth ==
  ASSUME NEW d \in 0 .. FF - 2, NEW rev \in BOOLEAN, ScanAt(d, rev), NEW w \in Worker,
         pc[w] # "depth barrier"
  PROVE  /\ depth[w] = d /\ reverse[w] = rev
         /\ Want(w) = (IF rev THEN FF ELSE d) /\ Seek(w) = (IF rev THEN d ELSE FF)
         /\ InRow(w, d) /\ Scanned(w, d) /\ FreshEmpty(w, d) /\ Partial(d) /\ Locks(rev)
BY DEF ScanAt, Want, Seek

(* The row that a worker has begun.                                        *)
LEMMA RowBegun ==
  ASSUME NEW d \in 0 .. FF - 2, NEW rev \in BOOLEAN, Partial(d), NEW w \in Worker,
         UNCHANGED <<s2r, moves, self, table>>,
         active \in [Worker -> SUBSET Cell], ep \in [Worker -> Nat], m \in [Worker -> Nat],
         pc \in [Worker -> {"begin", "move", "scan", "set", "sum", "depth barrier"}],
         NEW r \in Nat, BeginRow(w, r), EpStart(w) <= r,
         reverse'[w] = rev, depth'[w] = d, reverse[w] = rev, depth[w] = d,
         \A c \in Block(w), k \in Move : c[1] < r => Tried(c, k, d, rev)
  PROVE  /\ active' \in [Worker -> SUBSET Cell] /\ ep' \in [Worker -> Nat]
         /\ m' \in [Worker -> Nat]
         /\ \E there \in {"move", "sum"} : pc' = [pc EXCEPT ![w] = there] /\ pc'[w] = there
         /\ InRow(w, d)' /\ Scanned(w, d)' /\ FreshEmpty(w, d)' /\ ~ Writing(w)'
<1>1. /\ ep'[w] = r /\ ep' \in [Worker -> Nat]
      /\ m'[w] = 0 /\ m' \in [Worker -> Nat]
  BY DEF BeginRow
<1> DEFINE there == IF r < EpEnd(w) THEN "move" ELSE "sum"
<1>2. pc' = [pc EXCEPT ![w] = there] /\ pc'[w] = there /\ there \in {"move", "sum"}
  BY DEF BeginRow
<1>3. ActiveCells(w, r) \in SUBSET Cell
  BY DEF ActiveCells
<1>4. /\ active' \in [Worker -> SUBSET Cell]
      /\ r < EpEnd(w) => active'[w] = ActiveCells(w, r)
  BY <1>3 DEF BeginRow
<1>5. Want(w) = (IF rev THEN FF ELSE d) /\ Want(w)' = (IF rev THEN FF ELSE d)
  BY DEF Want
<1>6. ~ Writing(w)' /\ FreshEmpty(w, d)'
  BY <1>2 DEF Writing, FreshEmpty
<1>7. InRow(w, d)'
  <2>1. SUFFICES ASSUME r < EpEnd(w)
                 PROVE  InRow(w, d)'
    BY <1>2 DEF InRow
  <2>2. active'[w] = {c \in Cell : c[1] = r /\ table[c] = Want(w)}
    BY <1>4, <2>1 DEF ActiveCells
  <2>3. \A c \in active'[w] : c[1] = r /\ (~ rev => CellDist(c) = d)
    BY <1>5, <2>2, AtDepth
  <2>4. \A c \in Cell : c[1] = r /\ table'[c] = Want(w)' => c \in active'[w]
    BY <1>5, <2>2
  <2>5. 0 <= NMoves
    BY ONLY Numbers
  <2>6. QED
    BY <1>1, <1>6, <2>1, <2>3, <2>4, <2>5 DEF InRow, EpStart, EpEnd
<1>8. Scanned(w, d)'
  <2>1. SUFFICES ASSUME NEW c \in Block(w), NEW k \in Move,
                        \/ pc'[w] \in {"move", "scan", "set"} /\ c[1] < ep'[w]
                        \/ pc'[w] \in {"move", "scan", "set"} /\ c[1] = ep'[w] /\ k < m'[w]
                        \/ pc'[w] \in {"sum", "depth barrier"}
                 PROVE  Tried(c, k, d, rev)'
    BY DEF Scanned, Block, EpStart, EpEnd
  <2>2. k \in Move /\ c \in Block(w) /\ r \in Nat
    OBVIOUS
  <2>3. ~ (k < 0) /\ c[1] < EpEnd(w) /\ c[1] \in Nat
    <3>1. c \in Cell /\ c[1] < EpEnd(w)
      BY ONLY <2>2 DEF Block
    <3>2. QED
      BY ONLY <2>2, <3>1, CellIs, Numbers DEF Rep, Move
  <2>4. c[1] < r
    <3>1. c[1] < r \/ there = "sum"
      <4> HIDE DEF there
      <4>1. QED
        BY <1>1, <1>2, <2>1, <2>3
    <3>2. there = "sum" => ~ (r < EpEnd(w))
      OBVIOUS
    <3>3. EpEnd(w) \in Nat
      BY BlocksAre
    <3>4. ~ (r < EpEnd(w)) => c[1] < r
      BY ONLY <2>2, <2>3, <3>3
    <3>5. QED
      BY <3>1, <3>2, <3>4
  <2>5. Tried(c, k, d, rev)
    BY <2>4
  <2>6. QED
    BY <2>5, CellsStay DEF Tried
<1>9. QED
  BY <1>1, <1>2, <1>4, <1>6, <1>7, <1>8

-----------------------------------------------------------------------------
(* Other workers' places are not disturbed, and their rows stay locked.    *)
LEMMA LocksStay ==
  ASSUME NEW rev, Locks(rev), NEW w \in Worker, UNCHANGED <<moves, ep_mutex>>,
         \A v \in Worker : v # w => SameWorker(v),
         Writing(w)' <=> Writing(w), Writing(w) => RowOf(w)' = RowOf(w)
  PROVE  Locks(rev)'
<1>1. ASSUME NEW v \in Worker
      PROVE  (Writing(v)' <=> Writing(v)) /\ (Writing(v) => RowOf(v)' = RowOf(v))
  BY DEF SameWorker, Writing, RowOf, RawMove
<1>2. QED
  BY <1>1 DEF Locks

LEMMA BeginInvariant ==
  ASSUME IInv, NEW w \in Worker, Begin(w), UNCHANGED eperm48
  PROVE  IInv'
<1>1. /\ pc[w] = "begin" /\ BeginRow(w, EpStart(w)) /\ found' = [found EXCEPT ![w] = 0]
      /\ UNCHANGED <<table, todo, ep_mutex, arrived, index, depth, reverse, fresh>>
  BY DEF Begin, shared
<1>2. /\ Tables /\ ArrivedAt({"depth barrier"})
      /\ pc \in [Worker -> {"begin", "move", "scan", "set", "sum", "depth barrier"}]
      /\ todo = Cardinality(Empty) + Cardinality(Counted)
  BY <1>1, InScan
<1>3. PICK d \in 0 .. FF - 2, rev \in BOOLEAN : ScanAt(d, rev)
  BY <1>1, InScan
<1>4. depth[w] = d /\ reverse[w] = rev /\ Partial(d) /\ Locks(rev)
  BY <1>1, <1>3, Depth
<1>5. /\ (TablesRight => TablesRight') /\ UNCHANGED <<s2r, moves, self, files>>
  BY EpruneFrame
<1>6. EpStart(w) \in Nat /\ EpStart(w) <= EpStart(w)
  BY ONLY BlocksAre, w \in Worker
<1>7. ASSUME NEW c \in Block(w)
      PROVE  ~ (c[1] < EpStart(w))
  <2>1. c \in Cell /\ EpStart(w) <= c[1]
    BY DEF Block
  <2>2. QED
    BY ONLY <1>6, <2>1, CellIs, Numbers DEF Rep
<1>8. /\ active' \in [Worker -> SUBSET Cell] /\ ep' \in [Worker -> Nat]
      /\ m' \in [Worker -> Nat]
      /\ \E there \in {"move", "sum"} : pc' = [pc EXCEPT ![w] = there] /\ pc'[w] = there
      /\ InRow(w, d)' /\ Scanned(w, d)' /\ FreshEmpty(w, d)' /\ ~ Writing(w)'
  BY <1>1, <1>2, <1>4, <1>5, <1>6, <1>7, RowBegun DEF Tables
<1>9. PICK there \in {"move", "sum"} : pc' = [pc EXCEPT ![w] = there] /\ pc'[w] = there
  BY <1>8
<1>10. /\ found \in [Worker -> Nat] /\ found' \in [Worker -> Nat] /\ found'[w] = 0
       /\ \A v \in Worker : v # w => found'[v] = found[v]
  BY <1>1, <1>2 DEF Tables
<1>11. Tables'
  BY <1>1, <1>2, <1>5, <1>8, <1>10 DEF Tables
<1>12. \A v \in Worker : v # w => SameWorker(v)
  BY <1>1, <1>2, <1>9 DEF SameWorker, BeginRow, Tables
<1>13. Counted' = Counted
  <2>1. \A v \in Worker : v # w => pc'[v] = pc[v] /\ found'[v] = found[v]
    BY <1>10, <1>12 DEF SameWorker
  <2>2. QED
    BY <1>1, <1>9, <1>10, <2>1, CountedStays
<1>14. Locks(rev)'
  BY <1>1, <1>4, <1>5, <1>8, <1>12, LocksStay DEF Writing
<1>15. QED
  BY <1>1, <1>2, <1>3, <1>4, <1>8, <1>9, <1>11, <1>12, <1>13, <1>14, ScanStep

(* A row is done after all moves, or when it has no active cells.          *)
LEMMA RowDone ==
  ASSUME NEW d \in 0 .. FF - 2, NEW rev \in BOOLEAN, Partial(d), NEW w \in Worker,
         InRow(w, d), Scanned(w, d), pc[w] = "move", m[w] \in Nat, ep[w] \in Nat,
         reverse[w] = rev, Want(w) = (IF rev THEN FF ELSE d),
         m[w] \notin Move \/ active[w] = {},
         NEW c \in Block(w), NEW k \in Move, c[1] < ep[w] + 1
  PROVE  Tried(c, k, d, rev)
<1>1. c \in Cell
  BY DEF Block
<1>2. c[1] < ep[w] \/ c[1] = ep[w]
  <2>1. c[1] < ep[w] + 1 /\ ep[w] \in Nat
    OBVIOUS
  <2>2. c[1] \in Nat
    BY ONLY <1>1, CellIs, Numbers DEF Rep
  <2>3. QED
    BY ONLY <2>1, <2>2
<1>3. CASE c[1] < ep[w]
  BY <1>3 DEF Scanned
<1>4. CASE c[1] = ep[w] /\ m[w] \notin Move
  <2>1. m[w] <= NMoves /\ m[w] \in Nat /\ k \in Move
    BY DEF InRow
  <2>2. k < m[w]
    BY ONLY <1>4, <2>1, Numbers DEF Move
  <2>3. QED
    BY <1>4, <2>2 DEF Scanned
<1>5. CASE c[1] = ep[w] /\ active[w] = {}
  <2>1. table[c] # Want(w)
    BY <1>1, <1>5 DEF InRow
  <2>2. QED
    BY <1>1, <2>1, AtDepth DEF Tried
<1>6. QED
  BY <1>2, <1>3, <1>4, <1>5

LEMMA NextRowInvariant ==
  ASSUME IInv, NEW w \in Worker, NextRow(w), UNCHANGED eperm48
  PROVE  IInv'
<1>1. /\ pc[w] = "move" /\ BeginRow(w, ep[w] + 1) /\ (m[w] \notin Move \/ active[w] = {})
      /\ UNCHANGED <<table, todo, ep_mutex, arrived, index, depth, reverse, found, fresh>>
  BY DEF NextRow, shared
<1>2. /\ Tables /\ ArrivedAt({"depth barrier"})
      /\ pc \in [Worker -> {"begin", "move", "scan", "set", "sum", "depth barrier"}]
      /\ todo = Cardinality(Empty) + Cardinality(Counted)
  BY <1>1, InScan
<1>3. PICK d \in 0 .. FF - 2, rev \in BOOLEAN : ScanAt(d, rev)
  BY <1>1, InScan
<1>4. /\ depth[w] = d /\ reverse[w] = rev /\ Partial(d) /\ Locks(rev)
      /\ Want(w) = (IF rev THEN FF ELSE d) /\ InRow(w, d) /\ Scanned(w, d)
  BY <1>1, <1>3, Depth
<1>5. /\ (TablesRight => TablesRight') /\ UNCHANGED <<s2r, moves, self, files>>
  BY EpruneFrame
<1>6. ep[w] \in Nat /\ m[w] \in Nat
  BY <1>2 DEF Tables
<1>7. ep[w] + 1 \in Nat /\ EpStart(w) <= ep[w] + 1
  <2>1. EpStart(w) <= ep[w] /\ EpStart(w) \in Nat
    BY <1>1, <1>4, BlocksAre DEF InRow
  <2>2. QED
    BY ONLY <1>6, <2>1
<1>8. \A c \in Block(w), k \in Move : c[1] < ep[w] + 1 => Tried(c, k, d, rev)
  BY <1>1, <1>4, <1>6, RowDone
<1>9. /\ active' \in [Worker -> SUBSET Cell] /\ ep' \in [Worker -> Nat]
      /\ m' \in [Worker -> Nat]
      /\ \E there \in {"move", "sum"} : pc' = [pc EXCEPT ![w] = there] /\ pc'[w] = there
      /\ InRow(w, d)' /\ Scanned(w, d)' /\ FreshEmpty(w, d)' /\ ~ Writing(w)'
  BY <1>1, <1>2, <1>4, <1>5, <1>7, <1>8, RowBegun DEF Tables
<1>10. PICK there \in {"move", "sum"} : pc' = [pc EXCEPT ![w] = there] /\ pc'[w] = there
  BY <1>9
<1>11. Tables'
  BY <1>1, <1>2, <1>5, <1>9 DEF Tables
<1>12. \A v \in Worker : v # w => SameWorker(v)
  BY <1>1, <1>2, <1>10 DEF SameWorker, BeginRow, Tables
<1>13. Counted' = Counted
  <2>1. \A v \in Worker : v # w => pc'[v] = pc[v] /\ found'[v] = found[v]
    BY <1>1, <1>12 DEF SameWorker
  <2>2. found \in [Worker -> Nat] /\ found'[w] = found[w]
    BY <1>1, <1>2 DEF Tables
  <2>3. QED
    BY <1>1, <1>10, <2>1, <2>2, CountedStays
<1>14. Locks(rev)'
  BY <1>1, <1>4, <1>5, <1>9, <1>12, LocksStay DEF Writing
<1>15. QED
  BY <1>1, <1>2, <1>3, <1>4, <1>9, <1>10, <1>11, <1>12, <1>13, <1>14, ScanStep

-----------------------------------------------------------------------------
LEMMA LockRowInvariant ==
  ASSUME IInv, NEW w \in Worker, LockRow(w), UNCHANGED eperm48
  PROVE  IInv'
<1>1. /\ pc[w] = "move" /\ m[w] \in Move /\ pc' = [pc EXCEPT ![w] = "scan"]
      /\ IF reverse[w] THEN UNCHANGED ep_mutex ELSE TakeRow(RawMove(ep[w], m[w]), w)
      /\ UNCHANGED <<table, todo, arrived, index, depth, reverse, found, ep, m, active, fresh>>
  BY DEF LockRow
<1>2. /\ Tables /\ ArrivedAt({"depth barrier"})
      /\ pc \in [Worker -> {"begin", "move", "scan", "set", "sum", "depth barrier"}]
      /\ todo = Cardinality(Empty) + Cardinality(Counted)
  BY <1>1, InScan
<1>3. PICK d \in 0 .. FF - 2, rev \in BOOLEAN : ScanAt(d, rev)
  BY <1>1, InScan
<1>4. /\ depth[w] = d /\ reverse[w] = rev /\ Locks(rev)
      /\ InRow(w, d) /\ Scanned(w, d)
  BY <1>1, <1>3, Depth
<1>5. /\ (TablesRight => TablesRight') /\ UNCHANGED <<s2r, moves, self, files>>
  BY EpruneFrame
<1>6. /\ pc'[w] = "scan" /\ \A v \in Worker : v # w => pc'[v] = pc[v]
  BY <1>1, <1>2
<1>7. ep_mutex' \in [Row -> Worker \union {Nobody}]
  BY <1>1, <1>2 DEF TakeRow, Tables
<1>8. Tables'
  BY <1>1, <1>2, <1>5, <1>7 DEF Tables
<1>9. \A v \in Worker : v # w => SameWorker(v)
  BY <1>1, <1>6 DEF SameWorker
<1>10. InRow(w, d)' /\ FreshEmpty(w, d)'
  BY <1>1, <1>4, <1>6 DEF InRow, FreshEmpty, EpStart, EpEnd, Want
<1>11. Scanned(w, d)'
  <2>1. SUFFICES ASSUME NEW c \in Block(w), NEW k \in Move,
                        c[1] < ep[w] \/ (c[1] = ep[w] /\ k < m[w])
                 PROVE  Tried(c, k, d, rev)'
    BY <1>1, <1>4, <1>6 DEF Scanned, Block, EpStart, EpEnd
  <2>2. Tried(c, k, d, rev)
    BY <1>1, <1>4, <2>1 DEF Scanned
  <2>3. QED
    BY <1>1, <1>5, <2>2, CellsStay DEF Tried
<1>12. Locks(rev)'
  <2>1. CASE rev
    BY <1>1, <1>4, <2>1 DEF Locks
  <2>2. CASE ~ rev
    <3> DEFINE row == RawMove(ep[w], m[w])
    <3>1. ep_mutex[row] = Nobody /\ ep_mutex' = [ep_mutex EXCEPT ![row] = w]
      BY <1>1, <1>4, <2>2 DEF TakeRow
    <3>2. \A r \in Row, v \in Worker : ep_mutex[r] = v <=> Writing(v) /\ RowOf(v) = r
      BY <1>4, <2>2 DEF Locks
    <3>3. Writing(w)' /\ RowOf(w)' = row /\ ~ Writing(w)
      BY <1>1, <1>4, <1>5, <1>6, <2>2 DEF Writing, RowOf, RawMove
    <3>4. \A v \in Worker : v # w => Writing(v)' = Writing(v) /\ RowOf(v)' = RowOf(v)
      BY <1>1, <1>5, <1>9, WritingStays
    <3>5. Nobody \notin Worker /\ ep_mutex \in [Row -> Worker \union {Nobody}]
      BY <1>2, OrientAssumption DEF Tables
    <3> HIDE DEF row
    <3>6. ASSUME NEW r \in Row, NEW v \in Worker
          PROVE  ep_mutex'[r] = v <=> Writing(v)' /\ RowOf(v)' = r
      <4>1. ep_mutex'[r] = IF r = row THEN w ELSE ep_mutex[r]
        BY <3>1, <3>5
      <4>2. CASE v = w
        BY <3>2, <3>3, <4>1, <4>2
      <4>3. CASE v # w
        BY <3>1, <3>2, <3>4, <3>5, <4>1, <4>3
      <4>4. QED
        BY <4>2, <4>3
    <3>7. QED
      BY <2>2, <3>6 DEF Locks
  <2>3. QED
    BY <2>1, <2>2
<1>13. Counted' = Counted
  <2>1. found \in [Worker -> Nat] /\ found' = found
    BY <1>1, <1>2 DEF Tables
  <2>2. QED
    BY <1>1, <1>6, <2>1, CountedStays
<1>14. QED
  BY <1>1, <1>2, <1>3, <1>4, <1>8, <1>9, <1>10, <1>11, <1>12, <1>13, ScanStep

(* What leads to a new cell, and to no one any more.                       *)
LEMMA NewCell ==
  ASSUME TablesRight, NEW d \in 0 .. FF - 2, NEW rev \in BOOLEAN, Partial(d),
         NEW w \in Worker, InRow(w, d), pc[w] = "scan", reverse[w] = rev,
         Want(w) = (IF rev THEN FF ELSE d), Seek(w) = (IF rev THEN d ELSE FF),
         active[w] \in SUBSET Cell, NEW c \in New(w)
  PROVE  LET e == IF rev THEN c ELSE Neighbor(c, m[w]) IN
         /\ e \in Cell /\ e[1] = RowOf(w) /\ CellDist(e) = d + 1
         /\ \A x \in Orbit(e) : table[x] = FF
<1> DEFINE n == Neighbor(c, m[w])
<1>1. c \in active[w] /\ c \in Cell /\ table[c] = Want(w) /\ table[n] = Seek(w)
  BY DEF New
<1>2. m[w] \in Move /\ c[1] = ep[w] /\ (~ rev => CellDist(c) = d)
  BY <1>1 DEF InRow, Writing
<1>3. /\ n \in Cell /\ n[1] = RawMove(c[1], m[w])
      /\ CellDist(n) <= CellDist(c) + 1 /\ CellDist(c) <= CellDist(n) + 1
  BY <1>1, <1>2, NeighborIs, NeighborDist
<1>4. CellDist(c) \in Nat /\ CellDist(n) \in Nat /\ d \in Nat
  BY <1>1, <1>3, CellIs, Depths
<1> HIDE DEF n, CellDist
<1>5. CASE rev
  <2>1. table[c] = FF /\ CellDist(c) > d /\ CellDist(n) = d
    BY <1>1, <1>3, <1>5, AtDepth
  <2>2. CellDist(c) = d + 1
    BY ONLY <1>3, <1>4, <2>1
  <2>3. \A x \in Orbit(c) : table[x] = FF
    BY <1>1, <2>1 DEF Partial
  <2>4. c[1] = RowOf(w)
    BY <1>2, <1>5 DEF RowOf
  <2>5. QED
    BY <1>1, <1>5, <2>2, <2>3, <2>4
<1>6. CASE ~ rev
  <2>1. table[n] = FF /\ CellDist(n) > d /\ CellDist(c) = d
    BY <1>1, <1>2, <1>3, <1>6, AtDepth
  <2>2. CellDist(n) = d + 1
    BY ONLY <1>3, <1>4, <2>1
  <2>3. \A x \in Orbit(n) : table[x] = FF
    BY <1>3, <2>1 DEF Partial
  <2>4. n[1] = RowOf(w)
    BY <1>2, <1>3, <1>6 DEF RowOf
  <2>5. QED
    BY <1>3, <1>6, <2>2, <2>3, <2>4 DEF n
<1>7. QED
  BY <1>5, <1>6

LEMMA FindInvariant ==
  ASSUME IInv, NEW w \in Worker, Find(w), UNCHANGED eperm48
  PROVE  IInv'
<1>1. /\ pc[w] = "scan" /\ pc' = [pc EXCEPT ![w] = "set"]
      /\ UNCHANGED <<table, todo, ep_mutex, arrived, index, depth, reverse, found, ep, m, active>>
  BY DEF Find, shared
<1>2. /\ Tables /\ ArrivedAt({"depth barrier"})
      /\ pc \in [Worker -> {"begin", "move", "scan", "set", "sum", "depth barrier"}]
      /\ todo = Cardinality(Empty) + Cardinality(Counted)
  BY <1>1, InScan
<1>3. PICK d \in 0 .. FF - 2, rev \in BOOLEAN : ScanAt(d, rev)
  BY <1>1, InScan
<1>4. /\ depth[w] = d /\ reverse[w] = rev /\ Partial(d) /\ Locks(rev)
      /\ Want(w) = (IF rev THEN FF ELSE d) /\ Seek(w) = (IF rev THEN d ELSE FF)
      /\ InRow(w, d) /\ Scanned(w, d)
  BY <1>1, <1>3, Depth
<1>5. /\ (TablesRight => TablesRight') /\ UNCHANGED <<s2r, moves, self, files>>
  BY EpruneFrame
<1>6. /\ pc'[w] = "set" /\ \A v \in Worker : v # w => pc'[v] = pc[v]
  BY <1>1, <1>2
<1>7. PICK c \in New(w) :
        LET e == IF rev THEN c ELSE Neighbor(c, m[w]) IN
        fresh' = [fresh EXCEPT ![w] = {x \in Orbit(e) : table[x] = FF}]
  BY <1>4 DEF Find
<1> DEFINE e == IF rev THEN c ELSE Neighbor(c, m[w])
<1>8. /\ e \in Cell /\ e[1] = RowOf(w) /\ CellDist(e) = d + 1
      /\ \A x \in Orbit(e) : table[x] = FF
  <2>1. TablesRight /\ active[w] \in SUBSET Cell
    BY <1>2 DEF Tables
  <2>2. QED
    BY <1>1, <1>4, <2>1, NewCell
<1>9. fresh' = [fresh EXCEPT ![w] = Orbit(e)]
  <2>1. {x \in Orbit(e) : table[x] = FF} = Orbit(e)
    BY <1>8
  <2>2. QED
    BY <1>7, <2>1
<1> HIDE DEF e
<1>10. Orbit(e) \in SUBSET Cell
  BY <1>2, <1>8, OrbitsAre DEF Tables
<1>11. fresh' \in [Worker -> SUBSET Cell] /\ fresh'[w] = Orbit(e)
       /\ \A v \in Worker : v # w => fresh'[v] = fresh[v]
  <2>1. fresh \in [Worker -> SUBSET Cell]
    BY <1>2 DEF Tables
  <2>2. QED
    BY <1>9, <1>10, <2>1
<1>12. Tables'
  BY <1>1, <1>2, <1>5, <1>11 DEF Tables
<1>13. \A v \in Worker : v # w => SameWorker(v)
  BY <1>1, <1>6, <1>11 DEF SameWorker
<1>14. Writing(w)' /\ Writing(w) /\ RowOf(w)' = RowOf(w)
  BY <1>1, <1>5, <1>6 DEF Writing, RowOf, RawMove
<1>15. InRow(w, d)'
  BY <1>1, <1>4, <1>6, <1>14 DEF InRow, EpStart, EpEnd, Want
<1>16. Scanned(w, d)'
  <2>1. SUFFICES ASSUME NEW x \in Block(w), NEW k \in Move,
                        x[1] < ep[w] \/ (x[1] = ep[w] /\ k < m[w])
                 PROVE  Tried(x, k, d, rev)'
    BY <1>1, <1>4, <1>6 DEF Scanned, Block, EpStart, EpEnd
  <2>2. Tried(x, k, d, rev)
    BY <1>1, <1>4, <2>1 DEF Scanned
  <2>3. QED
    BY <1>1, <1>5, <2>2, CellsStay DEF Tried
<1>17. FreshEmpty(w, d)'
  <2>1. PICK x : x = e
    OBVIOUS
  <2>2. x \in Cell /\ x[1] = RowOf(w)' /\ CellDist(x) = d + 1 /\ fresh'[w] = Orbit(x)'
        /\ \A y \in Orbit(x)' : table'[y] = FF
    BY <1>1, <1>5, <1>8, <1>11, <1>14, <2>1, CellsStay
  <2>3. QED
    BY <2>2 DEF FreshEmpty
<1>18. Locks(rev)'
  BY <1>1, <1>4, <1>5, <1>13, <1>14, LocksStay
<1>19. Counted' = Counted
  <2>1. found \in [Worker -> Nat] /\ found' = found
    BY <1>1, <1>2 DEF Tables
  <2>2. QED
    BY <1>1, <1>6, <2>1, CountedStays
<1>20. QED
  BY <1>1, <1>2, <1>3, <1>4, <1>12, <1>13, <1>15, <1>16, <1>17, <1>18, <1>19, ScanStep

-----------------------------------------------------------------------------
(* No cell of this row leads to a new cell by this move.                   *)
LEMMA MoveDone ==
  ASSUME TablesRight, NEW d \in 0 .. FF - 2, NEW rev \in BOOLEAN, Partial(d),
         NEW w \in Worker, InRow(w, d), pc[w] = "scan", New(w) = {}, reverse[w] = rev,
         Want(w) = (IF rev THEN FF ELSE d), Seek(w) = (IF rev THEN d ELSE FF),
         NEW c \in Cell, c[1] = ep[w]
  PROVE  Tried(c, m[w], d, rev)
<1> DEFINE n == Neighbor(c, m[w])
<1>1. m[w] \in Move
  BY DEF InRow, Writing
<1>2. n \in Cell
  BY <1>1, NeighborIs
<1>3. table[c] = Want(w) => table[n] # Seek(w)
  BY DEF InRow, New
<1>4. table[c] = d <=> CellDist(c) = d
  BY AtDepth
<1>5. table[n] = d <=> CellDist(n) = d
  BY <1>2, AtDepth
<1>6. QED
  BY <1>3, <1>4, <1>5 DEF Tried

LEMMA NextMoveInvariant ==
  ASSUME IInv, NEW w \in Worker, NextMove(w), UNCHANGED eperm48
  PROVE  IInv'
<1>1. /\ pc[w] = "scan" /\ New(w) = {} /\ pc' = [pc EXCEPT ![w] = "move"]
      /\ ep_mutex' = IF reverse[w] THEN ep_mutex ELSE Released(RawMove(ep[w], m[w]))
      /\ m' = [m EXCEPT ![w] = @ + 1]
      /\ UNCHANGED <<table, todo, arrived, index, depth, reverse, found, ep, active, fresh>>
  BY DEF NextMove
<1>2. /\ Tables /\ ArrivedAt({"depth barrier"})
      /\ pc \in [Worker -> {"begin", "move", "scan", "set", "sum", "depth barrier"}]
      /\ todo = Cardinality(Empty) + Cardinality(Counted)
  BY <1>1, InScan
<1>3. PICK d \in 0 .. FF - 2, rev \in BOOLEAN : ScanAt(d, rev)
  BY <1>1, InScan
<1>4. /\ depth[w] = d /\ reverse[w] = rev /\ Partial(d) /\ Locks(rev)
      /\ Want(w) = (IF rev THEN FF ELSE d) /\ Seek(w) = (IF rev THEN d ELSE FF)
      /\ InRow(w, d) /\ Scanned(w, d)
  BY <1>1, <1>3, Depth
<1>5. /\ (TablesRight => TablesRight') /\ UNCHANGED <<s2r, moves, self, files>>
  BY EpruneFrame
<1>6. /\ pc'[w] = "move" /\ \A v \in Worker : v # w => pc'[v] = pc[v]
  BY <1>1, <1>2
<1>7. m[w] \in Move /\ m \in [Worker -> Nat]
  BY <1>1, <1>2, <1>4 DEF InRow, Writing, Tables
<1>8. m[w] \in Nat /\ m[w] + 1 \in Nat /\ m[w] + 1 <= NMoves
      /\ \A k \in Move : k < m[w] + 1 => k < m[w] \/ k = m[w]
  BY ONLY <1>7, Numbers DEF Move
<1>9. m' \in [Worker -> Nat] /\ m'[w] = m[w] + 1 /\ \A v \in Worker : v # w => m'[v] = m[v]
  BY <1>1, <1>7, <1>8
<1>10. ep_mutex' \in [Row -> Worker \union {Nobody}]
  BY <1>1, <1>2 DEF Released, Tables
<1>11. Tables'
  BY <1>1, <1>2, <1>5, <1>9, <1>10 DEF Tables
<1>12. \A v \in Worker : v # w => SameWorker(v)
  BY <1>1, <1>6, <1>9 DEF SameWorker
<1>13. InRow(w, d)' /\ FreshEmpty(w, d)'
  BY <1>1, <1>4, <1>6, <1>8, <1>9 DEF InRow, FreshEmpty, Writing, EpStart, EpEnd, Want
<1>14. Scanned(w, d)'
  <2>1. SUFFICES ASSUME NEW c \in Block(w), NEW k \in Move,
                        c[1] < ep[w] \/ (c[1] = ep[w] /\ k < m[w] + 1)
                 PROVE  Tried(c, k, d, rev)'
    BY <1>1, <1>4, <1>6, <1>9 DEF Scanned, Block, EpStart, EpEnd
  <2>2. Tried(c, k, d, rev)
    <3>1. CASE c[1] < ep[w] \/ (c[1] = ep[w] /\ k < m[w])
      BY <1>1, <1>4, <3>1 DEF Scanned
    <3>2. CASE c[1] = ep[w] /\ k = m[w]
      <4>1. c \in Cell /\ TablesRight
        BY <1>2 DEF Block, Tables
      <4>2. QED
        BY <1>1, <1>4, <3>2, <4>1, MoveDone
    <3>3. QED
      BY <1>8, <2>1, <3>1, <3>2
  <2>3. QED
    BY <1>1, <1>5, <2>2, CellsStay DEF Tried
<1>15. Locks(rev)'
  <2>1. CASE rev
    BY <1>1, <1>4, <2>1 DEF Locks
  <2>2. CASE ~ rev
    <3> DEFINE row == RawMove(ep[w], m[w])
    <3>1. ep_mutex' = [ep_mutex EXCEPT ![row] = Nobody]
      BY <1>1, <1>4, <2>2 DEF Released
    <3>2. \A r \in Row, v \in Worker : ep_mutex[r] = v <=> Writing(v) /\ RowOf(v) = r
      BY <1>4, <2>2 DEF Locks
    <3>3. Writing(w) /\ RowOf(w) = row /\ ~ Writing(w)'
      BY <1>1, <1>4, <1>6, <2>2 DEF Writing, RowOf
    <3>4. \A v \in Worker : v # w => Writing(v)' = Writing(v) /\ RowOf(v)' = RowOf(v)
      BY <1>1, <1>5, <1>12, WritingStays
    <3>5. Nobody \notin Worker /\ ep_mutex \in [Row -> Worker \union {Nobody}]
      BY <1>2, OrientAssumption DEF Tables
    <3> HIDE DEF row
    <3>6. ASSUME NEW r \in Row, NEW v \in Worker
          PROVE  ep_mutex'[r] = v <=> Writing(v)' /\ RowOf(v)' = r
      <4>1. ep_mutex'[r] = IF r = row THEN Nobody ELSE ep_mutex[r]
        BY <3>1, <3>5
      <4>2. CASE v = w
        BY <3>2, <3>3, <3>5, <4>1, <4>2
      <4>3. CASE v # w
        <5>1. r = row => ~ (Writing(v) /\ RowOf(v) = r)
          BY <3>2, <3>3, <4>3
        <5>2. QED
          BY <3>2, <3>4, <3>5, <4>1, <4>3, <5>1
      <4>4. QED
        BY <4>2, <4>3
    <3>7. QED
      BY <2>2, <3>6 DEF Locks
  <2>3. QED
    BY <2>1, <2>2
<1>16. Counted' = Counted
  <2>1. found \in [Worker -> Nat] /\ found' = found
    BY <1>1, <1>2 DEF Tables
  <2>2. QED
    BY <1>1, <1>6, <2>1, CountedStays
<1>17. QED
  BY <1>1, <1>2, <1>3, <1>4, <1>11, <1>12, <1>13, <1>14, <1>15, <1>16, ScanStep

-----------------------------------------------------------------------------
(* What a worker has counted is taken from todo once.                      *)
LEMMA SumInvariant ==
  ASSUME IInv, NEW w \in Worker, Sum(w), UNCHANGED eperm48
  PROVE  IInv'
<1>1. /\ pc[w] = "sum" /\ pc' = [pc EXCEPT ![w] = "depth barrier"]
      /\ todo' = todo - found[w] /\ depth' = [depth EXCEPT ![w] = @ + 1]
      /\ UNCHANGED <<table, ep_mutex, arrived, index, reverse, found, ep, m, active, fresh>>
  BY DEF Sum
<1>2. /\ Tables /\ ArrivedAt({"depth barrier"})
      /\ pc \in [Worker -> {"begin", "move", "scan", "set", "sum", "depth barrier"}]
      /\ todo = Cardinality(Empty) + Cardinality(Counted)
  BY <1>1, InScan
<1>3. PICK d \in 0 .. FF - 2, rev \in BOOLEAN : ScanAt(d, rev)
  BY <1>1, InScan
<1>4. depth[w] = d /\ reverse[w] = rev /\ Locks(rev) /\ Scanned(w, d)
  BY <1>1, <1>3, Depth
<1>5. /\ (TablesRight => TablesRight') /\ UNCHANGED <<s2r, moves, self, files>>
  BY EpruneFrame
<1>6. /\ pc'[w] = "depth barrier" /\ \A v \in Worker : v # w => pc'[v] = pc[v]
  BY <1>1, <1>2
<1>7. depth \in [Worker -> Nat] /\ d \in Nat /\ d + 1 \in Nat /\ found \in [Worker -> Nat]
  BY <1>2, Depths DEF Tables
<1>8. depth' \in [Worker -> Nat] /\ depth'[w] = d + 1
      /\ \A v \in Worker : v # w => depth'[v] = depth[v]
  BY <1>1, <1>4, <1>7
<1>9. Tables'
  BY <1>1, <1>2, <1>5, <1>8 DEF Tables
<1>10. \A v \in Worker : v # w => SameWorker(v)
  BY <1>1, <1>6, <1>8 DEF SameWorker
<1>11. InRow(w, d)' /\ FreshEmpty(w, d)'
  BY <1>6 DEF InRow, FreshEmpty
<1>12. Scanned(w, d)'
  <2>1. SUFFICES ASSUME NEW c \in Block(w), NEW k \in Move
                 PROVE  Tried(c, k, d, rev)'
    BY <1>1, <1>4, <1>6 DEF Scanned, Block, EpStart, EpEnd
  <2>2. Tried(c, k, d, rev)
    BY <1>1, <1>4 DEF Scanned
  <2>3. QED
    BY <1>1, <1>5, <2>2, CellsStay DEF Tried
<1>13. Locks(rev)'
  <2>1. ~ Writing(w) /\ ~ Writing(w)'
    BY <1>1, <1>6 DEF Writing
  <2>2. QED
    BY <1>1, <1>4, <1>5, <1>10, <2>1, LocksStay
<1>14. todo' = Cardinality(Empty) + Cardinality(Counted)'
  <2> DEFINE P == {w} \X (1 .. found[w])
             n == found[w]
  <2>1. Counted' = Counted \ P /\ P \subseteq Counted
    <3>1. ASSUME NEW x
          PROVE  /\ x \in P => x \in Counted
                 /\ x \in Counted' <=> x \in Counted /\ x \notin P
      <4>1. x \in Counted <=>
              \E v \in Worker : pc[v] \in {"move", "scan", "set", "sum"}
                                /\ x \in {v} \X (1 .. found[v])
        BY DEF Counted, Scanners
      <4>2. x \in Counted' <=>
              \E v \in Worker : pc'[v] \in {"move", "scan", "set", "sum"}
                                /\ x \in {v} \X (1 .. found[v])
        BY <1>1 DEF Counted, Scanners
      <4>3. x \in Counted' <=>
              \E v \in Worker : v # w /\ pc[v] \in {"move", "scan", "set", "sum"}
                                /\ x \in {v} \X (1 .. found[v])
        BY <1>6, <4>2
      <4>4. \A v, u : x \in {v} \X (1 .. found[v]) /\ x \in {u} \X (1 .. found[u]) => v = u
        OBVIOUS
      <4>5. pc[w] \in {"move", "scan", "set", "sum"}
        BY <1>1
      <4>6. QED
        BY <4>1, <4>3, <4>4, <4>5
    <3>2. QED
      BY <3>1
  <2>2. n \in Nat /\ IsFiniteSet(P) /\ Cardinality(P) = n
    <3>1. found[w] \in Nat /\ 0 \in Nat /\ 0 <= found[w]
      BY <1>7, DepthZero
    <3>2. Cardinality({w} \X (0 + 1 .. found[w])) = found[w] - 0
          /\ IsFiniteSet({w} \X (0 + 1 .. found[w]))
      BY ONLY <3>1, PairsCounted
    <3>3. 0 + 1 = 1 /\ found[w] - 0 = found[w]
      BY ONLY <3>1
    <3>4. QED
      BY <3>1, <3>2, <3>3
  <2>3. IsFiniteSet(Counted) /\ Cardinality(Counted) \in Nat
    BY <1>7, CountedFinite
  <2>4. Cardinality(Counted') = Cardinality(Counted) - n
    <3> HIDE DEF P, n
    <3>1. Counted \cap P = P
      BY <2>1
    <3>2. Cardinality(Counted \ P) = Cardinality(Counted) - Cardinality(Counted \cap P)
      BY ONLY <2>3, FS_Difference
    <3>3. QED
      BY <2>1, <2>2, <3>1, <3>2
  <2>5. Cardinality(Empty) \in Nat
    BY CellsFinite DEF Empty
  <2>6. todo = Cardinality(Empty) + Cardinality(Counted) /\ todo' = todo - n
    BY <1>1, <1>2
  <2>7. QED
    BY ONLY <2>2, <2>3, <2>4, <2>5, <2>6
<1>15. QED
  BY <1>1, <1>2, <1>3, <1>4, <1>8, <1>9, <1>10, <1>11, <1>12, <1>13, <1>14, ScanStep

-----------------------------------------------------------------------------
(* Setting empty cells to the next depth changes nothing of what a worker  *)
(* knows of its row.                                                       *)
LEMMA SetKeepsRow ==
  ASSUME TablesRight, NEW d \in 0 .. FF - 2, NEW rev \in BOOLEAN, NEW S,
         UNCHANGED <<s2r, moves, self, depth, reverse, ep, m, active>>,
         \A c \in Cell : table'[c] = IF c \in S THEN d + 1 ELSE table[c],
         \A c \in S : table[c] = FF,
         NEW v \in Worker, pc'[v] = pc[v] \/ (pc[v] = "set" /\ pc'[v] = "scan"),
         depth[v] = (IF pc[v] = "depth barrier" THEN d + 1 ELSE d), reverse[v] = rev,
         InRow(v, d), Scanned(v, d)
  PROVE  InRow(v, d)' /\ Scanned(v, d)'
<1>1. d + 1 # FF /\ d + 1 # d
  BY Depths
<1>2. Writing(v)' <=> Writing(v)
  BY DEF Writing
<1>3. InRow(v, d)'
  <2>1. SUFFICES ASSUME pc'[v] \in {"move", "scan", "set"}
                 PROVE  InRow(v, d)'
    BY DEF InRow
  <2>2. pc[v] \in {"move", "scan", "set"} /\ depth[v] = d
    BY <2>1
  <2>3. Want(v) = (IF rev THEN FF ELSE d) /\ Want(v)' = (IF rev THEN FF ELSE d)
    BY <2>2 DEF Want
  <2>4. ASSUME NEW c \in Cell, table'[c] = Want(v)'
        PROVE  table[c] = Want(v)
    BY <1>1, <2>3, <2>4
  <2>5. QED
    BY <1>2, <2>2, <2>4 DEF InRow, EpStart, EpEnd
<1>4. ASSUME NEW c \in Block(v), NEW k \in Move, Tried(c, k, d, rev)
      PROVE  Tried(c, k, d, rev)'
  <2>1. c \in Cell
    BY DEF Block
  <2>2. Neighbor(c, k) \in Cell
    BY <2>1, NeighborIs
  <2>3. Neighbor(c, k)' = Neighbor(c, k)
    BY CellsStay
  <2>4. table'[c] = FF => table[c] = FF
    BY <1>1, <2>1
  <2>5. table[Neighbor(c, k)] # FF => table'[Neighbor(c, k)] # FF
    BY <1>1, <2>2
  <2>6. QED
    BY <1>4, <2>3, <2>4, <2>5 DEF Tried
<1>5. Scanned(v, d)'
  <2>1. SUFFICES ASSUME NEW c \in Block(v), NEW k \in Move,
                        \/ pc[v] \in {"move", "scan", "set"} /\ c[1] < ep[v]
                        \/ pc[v] \in {"move", "scan", "set"} /\ c[1] = ep[v] /\ k < m[v]
                        \/ pc[v] \in {"sum", "depth barrier"}
                 PROVE  Tried(c, k, d, rev)'
    BY DEF Scanned, Block, EpStart, EpEnd
  <2>2. Tried(c, k, d, rev)
    BY <2>1 DEF Scanned
  <2>3. QED
    BY <1>4, <2>2
<1>6. QED
  BY <1>3, <1>5

(* Workers that write are in different rows.                               *)
LEMMA RowsApart ==
  ASSUME NEW d, NEW rev \in BOOLEAN, Locks(rev), NEW w \in Worker, NEW v \in Worker, v # w,
         Writing(w), Writing(v), reverse[w] = rev, reverse[v] = rev,
         InRow(w, d), InRow(v, d), RowOf(w) \in Row, ep[w] \in Nat, ep[v] \in Nat
  PROVE  RowOf(w) # RowOf(v)
<1>1. CASE ~ rev
  BY <1>1 DEF Locks
<1>2. CASE rev
  <2>1. RowOf(w) = ep[w] /\ RowOf(v) = ep[v]
    BY <1>2 DEF RowOf
  <2>2. /\ EpStart(w) <= ep[w] /\ ep[w] < EpEnd(w)
        /\ EpStart(v) <= ep[v] /\ ep[v] < EpEnd(v)
    BY DEF InRow, Writing
  <2>3. EpEnd(w) <= EpStart(v) \/ EpEnd(v) <= EpStart(w)
    <3>1. w \in Worker /\ v \in Worker /\ w # v
      OBVIOUS
    <3>2. w < v \/ v < w
      BY ONLY <3>1, Numbers DEF Worker
    <3>3. QED
      BY <3>2, BlocksAre
  <2>4. /\ EpStart(w) \in Nat /\ EpEnd(w) \in Nat /\ EpStart(v) \in Nat /\ EpEnd(v) \in Nat
        /\ ep[w] \in Nat /\ ep[v] \in Nat
    BY BlocksAre
  <2>5. ep[w] # ep[v]
    BY ONLY <2>2, <2>3, <2>4
  <2>6. QED
    BY <2>1, <2>5
<1>3. QED
  BY <1>1, <1>2

(* An orbit that is set: the table is as it was in all other orbits.       *)
LEMMA PartialGoesOn ==
  ASSUME TablesRight, NEW d \in 0 .. FF - 2, Partial(d), UNCHANGED <<s2r, moves, self>>,
         NEW e \in Cell, CellDist(e) = d + 1,
         \A c \in Cell : table'[c] = IF c \in Orbit(e) THEN d + 1 ELSE table[c]
  PROVE  Partial(d)'
<1>1. \A c \in Cell : c \in Orbit(e) => CellDist(c) = d + 1 /\ Orbit(c) = Orbit(e)
  BY OrbitsAre
<1>2. d + 1 \in Nat /\ d \in Nat /\ d + 1 # FF /\ ~ (d + 1 <= d) /\ ~ (d + 1 > d + 1)
  BY Depths
<1>3. ASSUME NEW c \in Cell
      PROVE  /\ CellDist(c) <= d => table'[c] = CellDist(c)
             /\ CellDist(c) = d + 1 => table'[c] \in {d + 1, FF}
             /\ CellDist(c) > d + 1 => table'[c] = FF
             /\ \A x \in Orbit(c) : table'[c] = FF => table'[x] = FF
  <2>1. /\ CellDist(c) <= d => table[c] = CellDist(c)
        /\ CellDist(c) = d + 1 => table[c] \in {d + 1, FF}
        /\ CellDist(c) > d + 1 => table[c] = FF
        /\ \A x \in Orbit(c) : table[c] = FF => table[x] = FF
    BY DEF Partial
  <2>2. ASSUME NEW x \in Orbit(c), table'[c] = FF
        PROVE  table'[x] = FF
    <3>1. c \notin Orbit(e) /\ table[c] = FF
      BY <1>2, <2>2
    <3>2. x \in Cell /\ Orbit(x) = Orbit(c) /\ c \in Orbit(c)
      BY OrbitsAre
    <3>3. x \notin Orbit(e)
      BY <1>1, <3>1, <3>2
    <3>4. QED
      BY <2>1, <3>1, <3>2, <3>3
  <2>3. CASE c \in Orbit(e)
    BY <1>1, <1>2, <2>2, <2>3
  <2>4. CASE c \notin Orbit(e)
    BY <2>1, <2>2, <2>4
  <2>5. QED
    BY <2>3, <2>4
<1>4. QED
  BY <1>3, CellsStay DEF Partial

-----------------------------------------------------------------------------
(* What is set is no longer empty, and is counted.                         *)
LEMMA SetCounts ==
  ASSUME NEW w \in Worker, found \in [Worker -> Nat], pc[w] = "set",
         NEW S \in SUBSET Empty, Empty' = Empty \ S,
         found' = [found EXCEPT ![w] = @ + Cardinality(S)],
         pc'[w] = "scan", \A v \in Worker : v # w => pc'[v] = pc[v],
         todo = Cardinality(Empty) + Cardinality(Counted), todo' = todo
  PROVE  /\ found' \in [Worker -> Nat]
         /\ todo' = Cardinality(Empty') + Cardinality(Counted')
<1> DEFINE a == found[w]
           n == Cardinality(S)
           P == {w} \X (a + 1 .. a + n)
<1>1. IsFiniteSet(S) /\ n \in Nat /\ IsFiniteSet(Empty) /\ Cardinality(Empty) \in Nat
  <2>1. S \in SUBSET Cell /\ Empty \in SUBSET Cell
    BY DEF Empty
  <2>2. QED
    BY ONLY <2>1, CellsFinite
<1> HIDE DEF n
<1>2. a \in Nat /\ a + n \in Nat /\ a <= a + n /\ a + n - a = n
  <2>1. a \in Nat
    OBVIOUS
  <2>2. QED
    BY ONLY <1>1, <2>1
<1>3. found' \in [Worker -> Nat] /\ found'[w] = a + n
      /\ \A v \in Worker : v # w => found'[v] = found[v]
  BY <1>2 DEF n
<1> HIDE DEF a
<1>4. IsFiniteSet(P) /\ Cardinality(P) = n
  <2>1. PICK b : b = a + n
    OBVIOUS
  <2>2. b \in Nat /\ a <= b /\ b - a = n
    BY ONLY <1>1, <1>2, <2>1
  <2>3. IsFiniteSet({w} \X (a + 1 .. b)) /\ Cardinality({w} \X (a + 1 .. b)) = b - a
    BY <1>2, <2>2, PairsCounted
  <2>4. QED
    BY <2>1, <2>2, <2>3
<1>5. \A i : i \in 1 .. a + n <=> i \in 1 .. a \/ i \in a + 1 .. a + n
  BY ONLY <1>1, <1>2
<1>6. \A i : ~ (i \in 1 .. a /\ i \in a + 1 .. a + n)
  BY ONLY <1>1, <1>2
<1> DEFINE In(x, v, i) == x \in {v} \X (1 .. i)
<1>7. Counted' = Counted \union P /\ Counted \cap P = {}
  <2>1. ASSUME NEW x
        PROVE  /\ x \in Counted' <=> x \in Counted \/ x \in P
               /\ ~ (x \in Counted /\ x \in P)
    <3>1. x \in Counted <=>
            \E v \in Worker : pc[v] \in {"move", "scan", "set", "sum"} /\ In(x, v, found[v])
      BY DEF Counted, Scanners
    <3>2. x \in Counted' <=>
            \E v \in Worker : pc'[v] \in {"move", "scan", "set", "sum"} /\ In(x, v, found'[v])
      BY DEF Counted, Scanners
    <3>3. /\ pc[w] \in {"move", "scan", "set", "sum"} /\ pc'[w] \in {"move", "scan", "set", "sum"}
          /\ \A v \in Worker : pc'[v] \in {"move", "scan", "set", "sum"} <=>
                               pc[v] \in {"move", "scan", "set", "sum"}
      OBVIOUS
    <3>4. In(x, w, found'[w]) <=> In(x, w, found[w]) \/ x \in P
      BY <1>3, <1>5 DEF a
    <3>5. ~ (In(x, w, found[w]) /\ x \in P)
      BY <1>6 DEF a
    <3>6. \A v : In(x, v, found[v]) /\ x \in P => v = w
      OBVIOUS
    <3> HIDE DEF In, P
    <3>7. x \in Counted' <=> x \in Counted \/ x \in P
      BY <1>3, <3>1, <3>2, <3>3, <3>4
    <3>8. ~ (x \in Counted /\ x \in P)
      BY <3>1, <3>5, <3>6
    <3>9. QED
      BY <3>7, <3>8
  <2>2. QED
    BY <2>1
<1>8. IsFiniteSet(Counted) /\ Cardinality(Counted) \in Nat
  BY CountedFinite
<1>9. Cardinality(Counted') = Cardinality(Counted) + n
  <2> HIDE DEF P
  <2>1. Cardinality(Counted \union P)
          = Cardinality(Counted) + Cardinality(P) - Cardinality(Counted \cap P)
    BY ONLY <1>4, <1>8, FS_Union
  <2>2. Cardinality(Counted \cap P) = 0
    BY <1>7, FS_EmptySet
  <2>3. Cardinality(Counted') = Cardinality(Counted) + n - 0
    BY <1>4, <1>7, <2>1, <2>2
  <2>4. QED
    BY ONLY <1>1, <1>8, <2>3
<1>10. Cardinality(Empty') = Cardinality(Empty) - n
  <2>1. Cardinality(Empty \ S) = Cardinality(Empty) - Cardinality(Empty \cap S)
    BY ONLY <1>1, FS_Difference
  <2>2. Empty \cap S = S /\ S = S
    OBVIOUS
  <2>3. QED
    BY <2>1, <2>2 DEF n
<1>11. todo = Cardinality(Empty) + Cardinality(Counted) /\ todo' = todo
  OBVIOUS
<1>12. todo' = Cardinality(Empty') + Cardinality(Counted')
  BY ONLY <1>1, <1>8, <1>9, <1>10, <1>11
<1>13. QED
  BY <1>3, <1>12

LEMMA SetInvariant ==
  ASSUME IInv, NEW w \in Worker, Set(w), UNCHANGED eperm48
  PROVE  IInv'
<1>1. /\ pc[w] = "set" /\ pc' = [pc EXCEPT ![w] = "scan"]
      /\ table' = [c \in Cell |-> IF c \in fresh[w] THEN depth[w] + 1 ELSE table[c]]
      /\ found' = [found EXCEPT ![w] = @ + Cardinality(fresh[w])]
      /\ fresh' = [fresh EXCEPT ![w] = {}]
      /\ UNCHANGED <<todo, ep_mutex, arrived, index, depth, reverse, ep, m, active>>
  BY DEF Set
<1>2. /\ Tables /\ ArrivedAt({"depth barrier"})
      /\ pc \in [Worker -> {"begin", "move", "scan", "set", "sum", "depth barrier"}]
      /\ todo = Cardinality(Empty) + Cardinality(Counted)
  BY <1>1, InScan
<1>3. PICK d \in 0 .. FF - 2, rev \in BOOLEAN : ScanAt(d, rev)
  BY <1>1, InScan
<1>4. /\ depth[w] = d /\ reverse[w] = rev /\ Partial(d) /\ Locks(rev)
      /\ InRow(w, d) /\ FreshEmpty(w, d)
  BY <1>1, <1>3, Depth
<1>5. /\ kills' \in Nat /\ FilesRight' /\ (TablesRight => TablesRight')
      /\ UNCHANGED <<s2r, moves, self, files>>
  BY EpruneFrame
<1>6. TablesRight
  BY <1>2 DEF Tables
<1>7. PICK e \in Cell : /\ e[1] = RowOf(w) /\ CellDist(e) = d + 1
                        /\ fresh[w] = Orbit(e)
                        /\ \A c \in Orbit(e) : table[c] = FF
  BY <1>1, <1>4 DEF FreshEmpty
<1>8. Orbit(e) \in SUBSET Cell /\ \A c \in Orbit(e) : c[1] = e[1]
  BY <1>6, OrbitsAre
<1>9. \A c \in Cell : table'[c] = IF c \in Orbit(e) THEN d + 1 ELSE table[c]
  BY <1>1, <1>4, <1>7
<1>10. table' \in [Cell -> 0 .. FF]
  <2>1. d + 1 \in 0 .. FF
    BY Depths
  <2>2. table \in [Cell -> 0 .. FF]
    BY <1>2 DEF Tables
  <2>3. QED
    BY <1>1, <1>4, <2>1, <2>2
<1>11. /\ pc'[w] = "scan" /\ \A v \in Worker : v # w => pc'[v] = pc[v]
       /\ pc' \in [Worker -> {"begin", "move", "scan", "set", "sum", "depth barrier"}]
  BY <1>1, <1>2
<1>12. fresh' \in [Worker -> SUBSET Cell] /\ \A v \in Worker : v # w => fresh'[v] = fresh[v]
  BY <1>1, <1>2 DEF Tables
<1>13. Empty' = Empty \ Orbit(e) /\ Orbit(e) \in SUBSET Empty
  <2>1. d + 1 # FF
    BY Depths
  <2>2. QED
    BY <1>7, <1>8, <1>9, <2>1 DEF Empty
<1>14. /\ found' \in [Worker -> Nat]
       /\ todo' = Cardinality(Empty') + Cardinality(Counted')
  <2>1. found \in [Worker -> Nat]
    BY <1>2 DEF Tables
  <2>2. todo' = todo /\ found' = [found EXCEPT ![w] = @ + Cardinality(Orbit(e))]
    BY <1>1, <1>7
  <2>3. QED
    BY <1>1, <1>2, <1>11, <1>13, <2>1, <2>2, SetCounts
<1>15. Tables'
  BY <1>1, <1>2, <1>5, <1>10, <1>12, <1>14 DEF Tables
<1>16. Partial(d)'
  BY <1>4, <1>5, <1>6, <1>7, <1>9, PartialGoesOn
<1>17. ASSUME NEW v \in Worker
       PROVE  /\ depth'[v] = IF pc'[v] = "depth barrier" THEN d + 1 ELSE d
              /\ reverse'[v] = rev
              /\ InRow(v, d)' /\ Scanned(v, d)'
  <2>1. /\ depth[v] = IF pc[v] = "depth barrier" THEN d + 1 ELSE d
        /\ reverse[v] = rev /\ InRow(v, d) /\ Scanned(v, d)
    BY <1>3 DEF ScanAt
  <2>2. pc'[v] = pc[v] \/ (pc[v] = "set" /\ pc'[v] = "scan")
    BY <1>1, <1>11
  <2>3. UNCHANGED <<s2r, moves, self, depth, reverse, ep, m, active>>
    BY <1>1, <1>5
  <2>4. InRow(v, d)' /\ Scanned(v, d)'
    BY <1>6, <1>7, <1>9, <2>1, <2>2, <2>3, SetKeepsRow
  <2>5. QED
    BY <1>1, <2>1, <2>2, <2>4
<1>18. ASSUME NEW v \in Worker
       PROVE  (Writing(v)' <=> Writing(v)) /\ RowOf(v)' = RowOf(v)
  BY <1>1, <1>5, <1>11 DEF Writing, RowOf, RawMove
<1>19. Locks(rev)'
  BY <1>1, <1>4, <1>18 DEF Locks
<1>20. ASSUME NEW v \in Worker
       PROVE  FreshEmpty(v, d)'
  <2>1. SUFFICES ASSUME v # w, pc[v] = "set"
                 PROVE  FreshEmpty(v, d)'
    BY <1>11 DEF FreshEmpty
  <2>2. reverse[v] = rev /\ InRow(v, d) /\ FreshEmpty(v, d)
    BY <1>3 DEF ScanAt
  <2>3. PICK x \in Cell : /\ x[1] = RowOf(v) /\ CellDist(x) = d + 1
                          /\ fresh[v] = Orbit(x)
                          /\ \A c \in Orbit(x) : table[c] = FF
    BY <2>1, <2>2 DEF FreshEmpty
  <2>4. RowOf(w) # RowOf(v)
    <3>1. Writing(w) /\ Writing(v) /\ ep[w] \in Nat /\ ep[v] \in Nat
      BY <1>1, <1>2, <2>1 DEF Writing, Tables
    <3>2. RowOf(w) \in Row
      BY <1>7, CellIs
    <3>3. QED
      BY <1>4, <2>1, <2>2, <3>1, <3>2, RowsApart
  <2>5. ASSUME NEW c \in Orbit(x)
        PROVE  table'[c] = FF
    <3>1. c \in Cell /\ c[1] = x[1]
      BY <1>6, OrbitsAre
    <3>2. c \notin Orbit(e)
      BY <1>7, <1>8, <2>3, <2>4, <3>1
    <3>3. QED
      BY <1>9, <2>3, <3>1, <3>2
  <2>6. fresh'[v] = Orbit(x)' /\ Orbit(x)' = Orbit(x)
    BY <1>5, <1>12, <2>1, <2>3, CellsStay
  <2>7. x[1] = RowOf(v)'
    BY <1>18, <2>3
  <2>8. QED
    BY <2>3, <2>5, <2>6, <2>7 DEF FreshEmpty
<1>21. ScanAt(d, rev)'
  BY <1>16, <1>17, <1>19, <1>20 DEF ScanAt
<1>22. /\ All({"begin", "move", "scan", "set", "sum", "depth barrier"})'
       /\ ArrivedAt({"depth barrier"})'
  BY <1>1, <1>2, <1>11 DEF All, ArrivedAt
<1>23. Scanning'
  BY <1>14, <1>15, <1>21, <1>22 DEF Scanning
<1>24. QED
  BY <1>5, <1>23 DEF IInv

-----------------------------------------------------------------------------
(* The index.                                                              *)
LEMMA Times == \A a, b, s \in Nat : a <= b => a * s <= b * s
OBVIOUS

LEMMA LinesAre ==
  ASSUME NEW w \in Worker
  PROVE  Lines(w) \subseteq Line
<1> DEFINE a == EpStart(w) * STRIPE
           b == EpEnd(w) * STRIPE
           z == NRows * STRIPE
<1>1. EpStart(w) \in Nat /\ EpEnd(w) \in Nat /\ EpEnd(w) <= NRows /\ NRows \in Nat
      /\ STRIPE \in Nat
  BY BlocksAre, Numbers, OrientAssumption DEF NRows
<1>2. a \in Nat /\ b \in Int /\ z \in Int /\ b <= z
  BY <1>1, Times
<1>3. Lines(w) = a .. b - 1 /\ Line = 0 .. z - 1
  BY DEF Lines, Line
<1> HIDE DEF a, b, z
<1>4. QED
  BY <1>2, <1>3

LEMMA BuildIndexInvariant ==
  ASSUME IInv, NEW w \in Worker, BuildIndex(w), UNCHANGED eperm48
  PROVE  IInv'
<1>1. /\ pc[w] = "index" /\ pc' = [pc EXCEPT ![w] = "indexed"]
      /\ index' = [l \in Line |->
                     IF l \notin Lines(w) THEN index[l]
                     ELSE Cleared(l) \union UNION {Directions(c) : c \in {c \in Cell : LineOf(c) = l}}]
      /\ UNCHANGED <<table, todo, ep_mutex, arrived, depth, reverse, found, ep, m, active, fresh>>
  BY DEF BuildIndex, Lines
<1>2. Indexing
  BY <1>1, PhaseOf
<1>3. /\ kills' \in Nat /\ FilesRight' /\ (TablesRight => TablesRight')
      /\ UNCHANGED <<s2r, moves, self, files>>
  BY EpruneFrame
<1>4. Tables /\ pc \in [Worker -> {"index", "indexed"}] /\ arrived = {}
      /\ \A c \in Cell : table[c] = CellDist(c)
  BY <1>2 DEF Indexing, All
<1>5. Tables'
  BY <1>1, <1>3, <1>4 DEF Tables
<1>6. /\ pc' \in [Worker -> {"index", "indexed"}]
      /\ \A v \in Worker : v # w => pc'[v] = pc[v]
  BY <1>1, <1>4
<1>7. \A c : Directions(c)' = Directions(c)
  BY <1>1, <1>3 DEF Directions, Neighbor, RawMove
<1>8. \A l : LineRight(l)' <=>
               index'[l] = UNION {Directions(c) : c \in {c \in Cell : LineOf(c) = l}}
  BY <1>7 DEF LineRight
<1>9. ASSUME NEW v \in Worker, pc'[v] = "indexed", NEW l \in Lines(v)
      PROVE  LineRight(l)'
  <2>1. l \in Line
    BY LinesAre
  <2>2. CASE l \in Lines(w)
    BY <1>1, <1>8, <2>1, <2>2 DEF Cleared
  <2>3. CASE l \notin Lines(w)
    <3>1. v # w
      BY <2>3
    <3>2. index[l] = UNION {Directions(c) : c \in {c \in Cell : LineOf(c) = l}}
      BY <1>2, <1>6, <1>9, <3>1 DEF Indexing, LineRight
    <3>3. QED
      BY <1>1, <1>8, <2>1, <2>3, <3>2
  <2>4. QED
    BY <2>2, <2>3
<1>10. Indexing'
  <2>1. All({"index", "indexed"})' /\ arrived' = {} /\ \A c \in Cell : table'[c] = CellDist(c)
    BY <1>1, <1>4, <1>6 DEF All
  <2>2. \A v \in Worker : pc'[v] = "indexed" => \A l \in Lines(v) : LineRight(l)'
    BY <1>9
  <2>3. QED
    BY <1>5, <2>1, <2>2 DEF Indexing, Lines, EpStart, EpEnd
<1>11. QED
  BY <1>3, <1>10 DEF IInv

-----------------------------------------------------------------------------
LEMMA StutterInvariant ==
  ASSUME IInv, UNCHANGED vars
  PROVE  IInv'
<1>1. UNCHANGED <<table, todo, ep_mutex, index, depth, reverse, found, ep, m, active, fresh,
                  arrived, pc, s2r, moves, self, r2s, rep_base, reps, idx, next, files, saved, kills>>
  BY DEF vars, eprune, eperm48, tables
<1>2. kills' \in Nat /\ FilesRight'
  BY <1>1, FilesStay
<1>3. (Idle => Idle') /\ (GenTypes => GenTypes')
  BY <1>1 DEF Idle, GenTypes, MoveTables
<1>4. \A places : (All(places) => All(places)') /\ (ArrivedAt(places) => ArrivedAt(places)')
  BY <1>1 DEF All, ArrivedAt
<1>5. (BlocksCollected => BlocksCollected') /\ (Summed => Summed')
  BY <1>1 DEF BlocksCollected, Summed
<1>6. \A p : (Numbered(p) => Numbered(p)')
  BY <1>1 DEF Numbered
<1>7. \A v : (InPass(v) => InPass(v)') /\ Dealt(v)' = Dealt(v)
  BY <1>1 DEF InPass, Dealt
<1>8. TablesRight => TablesRight'
  BY <1>1 DEF TablesRight, SelfRight, MovesRight, Ranked
<1>9. (Tables => Tables') /\ (MutexesFree => MutexesFree')
  BY <1>1, <1>8 DEF Tables, MutexesFree
<1>10. Loading => Loading'
  BY <1>1, <1>3, <1>4 DEF Loading
<1>11. Collecting => Collecting'
  BY <1>1, <1>3, <1>4 DEF Collecting
<1>12. Adding => Adding'
  BY <1>1, <1>3, <1>4, <1>5 DEF Adding
<1>13. Numbering => Numbering'
  <2>1. ASSUME Numbering, NEW v \in Worker
        PROVE  InPass(v)' /\ \A i \in 1 .. Dealt(v)' : Numbered(BlockReps(v)[i])'
    BY <1>6, <1>7, <2>1 DEF Numbering
  <2>2. QED
    BY <1>3, <1>4, <1>5, <2>1 DEF Numbering
<1>14. Moving => Moving'
  <2>1. ASSUME Moving, NEW v \in Worker
        PROVE  InPass(v)' /\ \A i \in 1 .. Dealt(v)' :
                 RowRight(moves'[Rank(BlockReps(v)[i])], BlockReps(v)[i])
    BY <1>1, <1>7, <2>1 DEF Moving
  <2>2. Moving => All({"start moves", "moves", "done"})' /\ ~ All({"done"})' /\ arrived' = {}
    BY <1>1, <1>4 DEF Moving, All
  <2>3. QED
    BY <1>3, <1>5, <1>6, <2>1, <2>2 DEF Moving
<1>15. Usable => Usable'
  BY <1>1, <1>3, <1>4, <1>8 DEF Usable
<1>16. Filling => Filling'
  BY <1>1, <1>4, <1>9 DEF Filling
<1>17. Deciding => Deciding'
  BY <1>1, <1>4, <1>9 DEF Deciding, Exact, Empty
<1>18. Scanning => Scanning'
  <2>1. ASSUME Scanning
        PROVE  \E d \in 0 .. FF - 2, rev \in BOOLEAN : ScanAt(d, rev)'
    <3>1. PICK d \in 0 .. FF - 2, rev \in BOOLEAN : ScanAt(d, rev)
      BY <2>1 DEF Scanning
    <3>2. \A v \in Worker : SameWorker(v)
      BY <1>1 DEF SameWorker
    <3>3. ASSUME NEW v \in Worker
          PROVE  /\ depth'[v] = IF pc'[v] = "depth barrier" THEN d + 1 ELSE d
                 /\ reverse'[v] = rev
                 /\ InRow(v, d)' /\ Scanned(v, d)' /\ FreshEmpty(v, d)'
      <4>1. /\ depth[v] = IF pc[v] = "depth barrier" THEN d + 1 ELSE d
            /\ reverse[v] = rev /\ InRow(v, d) /\ Scanned(v, d) /\ FreshEmpty(v, d)
        BY <3>1 DEF ScanAt
      <4>2. InRow(v, d)' /\ Scanned(v, d)' /\ FreshEmpty(v, d)'
        BY <1>1, <3>2, <4>1, WorkerStays
      <4>3. QED
        BY <1>1, <4>1, <4>2
    <3>4. Partial(d)'
      BY <1>1, <3>1, PartialStays DEF ScanAt
    <3>5. Locks(rev)'
      <4>1. \A v \in Worker : Writing(v)' = Writing(v) /\ RowOf(v)' = RowOf(v)
        BY <1>1, <3>2, WritingStays
      <4>2. QED
        BY <1>1, <3>1, <4>1 DEF ScanAt, Locks
    <3>6. ScanAt(d, rev)'
      BY <3>3, <3>4, <3>5 DEF ScanAt
    <3>7. QED
      BY <3>6
  <2>2. Empty' = Empty /\ Counted' = Counted
    BY <1>1 DEF Empty, Counted, Scanners
  <2>3. Scanning => todo' = Cardinality(Empty)' + Cardinality(Counted)'
    BY <1>1, <2>2 DEF Scanning
  <2>4. QED
    BY <1>4, <1>9, <2>1, <2>3 DEF Scanning
<1>19. Indexing => Indexing'
  <2>1. \A c : Directions(c)' = Directions(c)
    BY <1>1 DEF Directions, Neighbor, RawMove
  <2>2. \A l : LineRight(l) => LineRight(l)'
    BY <1>1, <2>1 DEF LineRight
  <2>3. QED
    BY <1>1, <1>4, <1>9, <2>2 DEF Indexing
<1>20. QED
  BY <1>2, <1>10, <1>11, <1>12, <1>13, <1>14, <1>15, <1>16, <1>17, <1>18, <1>19 DEF IInv

LEMMA StepInvariant ==
  ASSUME IInv, Next
  PROVE  IInv'
<1>1. CASE MainStep
  BY <1>1, LoadInvariant, SaveInvariant, AllocateInvariant DEF MainStep
<1>2. CASE KillBeforeReady
  BY <1>2, KillInvariant
<1>3. ASSUME NEW w \in Worker, Eperm48Step(w), UNCHANGED eprune
      PROVE  IInv'
  BY <1>3, CollectInvariant, ArriveInvariant, AddInvariant, StartPassInvariant,
     NumberInvariant, MoveRowInvariant, EndPassInvariant DEF Eperm48Step
<1>4. ASSUME NEW w \in Worker, EpruneStep(w), UNCHANGED eperm48
      PROVE  IInv'
  BY <1>4, FillInvariant, ArriveEpruneInvariant, DecideInvariant, BeginInvariant,
     NextRowInvariant, LockRowInvariant, FindInvariant, SetInvariant, NextMoveInvariant,
     SumInvariant, BuildIndexInvariant DEF EpruneStep
<1>5. QED
  BY <1>1, <1>2, <1>3, <1>4 DEF Next, WorkerStep

(* The inductive invariant holds in every reachable state.                 *)
THEOREM Invariance == Spec => []IInv
BY InitInvariant, StepInvariant, StutterInvariant, PTL DEF Spec

(* Whatever files killed runs have left, the tables that eperm48::init     *)
(* ends with give every permutation and every move back.                   *)
THEOREM CoordinatesReal == Spec => []CoordinatesAreReal
<1>1. IInv => CoordinatesAreReal
  BY ReadyUsable, RightIsReal DEF CoordinatesAreReal, Ready, Usable
<1>2. QED
  BY <1>1, Invariance, PTL

(* Between two depths todo is the number of the empty cells: what several  *)
(* workers found in each other's rows has been counted once.               *)
THEOREM TodoIsEmpty == Spec => []TodoCountsEmpty
<1>1. IInv => TodoCountsEmpty
  <2>1. SUFFICES ASSUME IInv, \A w \in Worker : pc[w] = "decide"
                 PROVE  todo = Cardinality({c \in Cell : table[c] = FF})
    BY DEF TodoCountsEmpty
  <2>2. Deciding
    BY <2>1, Numbers, PhaseOf
  <2>3. QED
    BY <2>2 DEF Deciding, Empty
<1>2. QED
  BY <1>1, Invariance, PTL

-----------------------------------------------------------------------------
(* Every coordinate and move has bits of its own in the index.             *)
LEMMA OwnBits ==
  ASSUME NEW dir, NEW other, NEW i \in 0 .. CL - 1, NEW j \in 0 .. CL - 1,
         NEW k \in Move, NEW l \in Move, Bit(dir, i, k) = Bit(other, j, l)
  PROVE  dir = other /\ i = j /\ k = l
<1>1. CL \in Nat /\ k \in Nat /\ l \in Nat /\ i \in Nat /\ j \in Nat /\ i < CL /\ j < CL
  BY OrientAssumption, Numbers DEF Move
<1>2. CASE k <= 1 /\ l <= 1
  <2>1. <<dir, CL, 2 * i + k>> = <<other, CL, 2 * j + l>>
    BY <1>2 DEF Bit
  <2>2. dir = other /\ 2 * i + k = 2 * j + l
    BY <2>1
  <2>3. i = j /\ k = l
    BY <1>1, <1>2, <2>2
  <2>4. QED
    BY <2>2, <2>3
<1>3. CASE k <= 1 /\ ~ (l <= 1)
  <2>1. <<dir, CL, 2 * i + k>> = <<other, j, l - 2>>
    BY <1>3 DEF Bit
  <2>2. QED
    BY <1>1, <2>1
<1>4. CASE ~ (k <= 1) /\ l <= 1
  <2>1. <<dir, i, k - 2>> = <<other, CL, 2 * j + l>>
    BY <1>4 DEF Bit
  <2>2. QED
    BY <1>1, <2>1
<1>5. CASE ~ (k <= 1) /\ ~ (l <= 1)
  <2>1. <<dir, i, k - 2>> = <<other, j, l - 2>>
    BY <1>5 DEF Bit
  <2>2. dir = other /\ i = j /\ k - 2 = l - 2
    BY <2>1
  <2>3. QED
    BY <1>1, <2>2
<1>6. QED
  BY <1>1, <1>2, <1>3, <1>4, <1>5

(* A coordinate has a place in a line of its row.                          *)
LEMMA Quotient ==
  \A a, n \in Nat, b \in Nat \ {0} :
    /\ a \div b \in Nat /\ a % b \in 0 .. b - 1 /\ a = b * (a \div b) + (a % b)
    /\ a < b * n => a \div b < n
<1>1. TAKE a \in Nat, n \in Nat, b \in Nat \ {0}
<1> DEFINE q == a \div b
           r == a % b
<1>2. q \in Nat /\ r \in 0 .. b - 1 /\ a = b * q + r
  OBVIOUS
<1> HIDE DEF q, r
<1>3. ASSUME a < b * n, ~ (q < n)
      PROVE  FALSE
  <2>1. n * b <= q * b
    BY <1>2, <1>3, Times
  <2>2. n * b = b * n /\ q * b = b * q /\ n * b \in Nat /\ q * b \in Nat
    BY <1>2
  <2>3. QED
    BY <1>2, <1>3, <2>1, <2>2
<1>4. QED
  BY <1>2, <1>3 DEF q, r

LEMMA PlaceIs ==
  ASSUME NEW c \in Cell
  PROVE  /\ c[1] \in Nat /\ c[2] \in Nat /\ STRIPE \in Nat
         /\ c[2] \div CL \in Nat /\ c[2] % CL \in 0 .. CL - 1
         /\ c[2] = CL * (c[2] \div CL) + (c[2] % CL)
         /\ c[2] \div CL < STRIPE
<1>1. c[1] \in Nat /\ c[2] \in Nat /\ c[2] < NOrient
  BY CellIs, Numbers, OrientAssumption DEF Rep, Orient
<1>2. CL \in Nat \ {0} /\ STRIPE \in Nat /\ NOrient \in Nat /\ NOrient <= CL * STRIPE
  BY OrientAssumption
<1>3. CL * STRIPE \in Nat
  BY <1>2
<1>4. c[2] < CL * STRIPE
  BY <1>1, <1>2, <1>3
<1>5. QED
  BY <1>1, <1>2, <1>4, Quotient

LEMMA RowsOfLines ==
  \A a, b, s, i, j \in Nat :
    /\ i < s /\ j < s /\ a * s + i = b * s + j => a = b /\ i = j
    /\ i < s /\ a < b => a * s + i < b * s /\ a * s + i \in Nat
<1>1. ASSUME NEW a \in Nat, NEW b \in Nat, NEW s \in Nat, NEW i \in Nat, i < s, a < b
      PROVE  a * s + i < b * s /\ a * s + i \in Nat /\ b * s \in Nat
  <2>1. a + 1 \in Nat /\ a + 1 <= b
    BY <1>1
  <2>2. (a + 1) * s <= b * s
    BY <2>1, Times
  <2>3. (a + 1) * s = a * s + s /\ a * s \in Nat /\ b * s \in Nat
    OBVIOUS
  <2>4. QED
    BY <1>1, <2>2, <2>3
<1>2. ASSUME NEW a \in Nat, NEW b \in Nat, NEW s \in Nat, NEW i \in Nat, NEW j \in Nat,
             i < s, j < s, a * s + i = b * s + j
      PROVE  a = b /\ i = j
  <2>1. a * s \in Nat /\ b * s \in Nat
    OBVIOUS
  <2>2. ~ (a < b) /\ ~ (b < a)
    BY <1>1, <1>2, <2>1
  <2>3. a = b
    BY <2>2
  <2>4. i = j
    BY <1>2, <2>1, <2>3
  <2>5. QED
    BY <2>3, <2>4
<1>3. QED
  BY <1>1, <1>2

LEMMA CellByPlace ==
  ASSUME NEW c \in Cell, NEW x \in Cell, LineOf(c) = LineOf(x), c[2] % CL = x[2] % CL
  PROVE  c = x
<1>1. c[1] * STRIPE + c[2] \div CL = x[1] * STRIPE + x[2] \div CL
  BY DEF LineOf
<1>2. c[1] = x[1] /\ c[2] \div CL = x[2] \div CL
  <2>1. /\ c[1] \in Nat /\ x[1] \in Nat /\ STRIPE \in Nat
        /\ c[2] \div CL \in Nat /\ c[2] \div CL < STRIPE
        /\ x[2] \div CL \in Nat /\ x[2] \div CL < STRIPE
    BY PlaceIs
  <2>2. PICK a, b, i, j : /\ a = c[1] /\ i = c[2] \div CL
                          /\ b = x[1] /\ j = x[2] \div CL
    OBVIOUS
  <2>3. /\ a \in Nat /\ b \in Nat /\ i \in Nat /\ j \in Nat /\ STRIPE \in Nat
        /\ i < STRIPE /\ j < STRIPE /\ a * STRIPE + i = b * STRIPE + j
    BY <1>1, <2>1, <2>2
  <2>4. a = b /\ i = j
    BY ONLY <2>3, RowsOfLines
  <2>5. QED
    BY <2>2, <2>4
<1>3. c[2] = x[2]
  <2>1. /\ c[2] = CL * (c[2] \div CL) + (c[2] % CL)
        /\ x[2] = CL * (x[2] \div CL) + (x[2] % CL)
    BY PlaceIs
  <2>2. PICK i, r : i = c[2] \div CL /\ r = c[2] % CL
    OBVIOUS
  <2>3. c[2] = CL * i + r /\ x[2] = CL * i + r
    BY <1>2, <2>1, <2>2
  <2>4. QED
    BY <2>3
<1>4. QED
  BY <1>2, <1>3, CellIs

LEMMA LineInBlock ==
  ASSUME NEW w \in Worker, NEW c \in Block(w)
  PROVE  LineOf(c) \in Lines(w)
<1> DEFINE a == EpStart(w) * STRIPE
           b == EpEnd(w) * STRIPE
           l == LineOf(c)
           r == c[1] * STRIPE
           q == c[2] \div CL
<1>1. c \in Cell /\ EpStart(w) <= c[1] /\ c[1] < EpEnd(w)
  BY DEF Block
<1>2. c[1] \in Nat /\ STRIPE \in Nat /\ q \in Nat /\ q < STRIPE
  BY <1>1, PlaceIs
<1>3. EpStart(w) \in Nat /\ EpEnd(w) \in Nat
  BY BlocksAre
<1>4. l = r + q
  BY DEF LineOf
<1> HIDE DEF q
<1>5. r + q < b
  BY <1>1, <1>2, <1>3, RowsOfLines
<1>6. a <= r
  BY <1>1, <1>2, <1>3, Times
<1>7. a \in Nat /\ b \in Nat /\ r \in Nat
  BY <1>2, <1>3
<1>8. Lines(w) = a .. b - 1
  BY DEF Lines
<1> HIDE DEF a, b, l, r
<1>9. l \in a .. b - 1
  BY <1>2, <1>4, <1>5, <1>6, <1>7
<1>10. QED
  BY <1>8, <1>9 DEF l

LEMMA LookupIs ==
  ASSUME NEW c \in Cell, LineRight(LineOf(c))
  PROVE  /\ Lookup("up", c) = {k \in Move : table[c] < table[Neighbor(c, k)]}
         /\ Lookup("down", c) = {k \in Move : table[c] > table[Neighbor(c, k)]}
<1>1. index[LineOf(c)] = UNION {Directions(x) : x \in {x \in Cell : LineOf(x) = LineOf(c)}}
  BY DEF LineRight
<1>2. \A x \in Cell : x[2] % CL \in 0 .. CL - 1
  BY PlaceIs
<1>3. ASSUME NEW dir, NEW k \in Move
      PROVE  Bit(dir, c[2] % CL, k) \in index[LineOf(c)] <=>
               \/ dir = "up" /\ table[c] < table[Neighbor(c, k)]
               \/ dir = "down" /\ table[c] > table[Neighbor(c, k)]
  <2>1. ASSUME Bit(dir, c[2] % CL, k) \in index[LineOf(c)]
        PROVE  \/ dir = "up" /\ table[c] < table[Neighbor(c, k)]
               \/ dir = "down" /\ table[c] > table[Neighbor(c, k)]
    <3>1. PICK x \in Cell : LineOf(x) = LineOf(c) /\ Bit(dir, c[2] % CL, k) \in Directions(x)
      BY <1>1, <2>1
    <3>2. \/ \E j \in Move : /\ table[x] < table[Neighbor(x, j)]
                             /\ Bit(dir, c[2] % CL, k) = Bit("up", x[2] % CL, j)
          \/ \E j \in Move : /\ table[x] > table[Neighbor(x, j)]
                             /\ Bit(dir, c[2] % CL, k) = Bit("down", x[2] % CL, j)
      BY <3>1 DEF Directions
    <3>3. CASE \E j \in Move : /\ table[x] < table[Neighbor(x, j)]
                               /\ Bit(dir, c[2] % CL, k) = Bit("up", x[2] % CL, j)
      <4>1. PICK j \in Move : /\ table[x] < table[Neighbor(x, j)]
                              /\ Bit(dir, c[2] % CL, k) = Bit("up", x[2] % CL, j)
        BY <3>3
      <4>2. x \in Cell /\ LineOf(x) = LineOf(c)
        BY <3>1
      <4>3. Bit(dir, c[2] % CL, k) = Bit("up", x[2] % CL, j)
        BY <4>1
      <4>4. dir = "up" /\ c[2] % CL = x[2] % CL /\ k = j
        BY <1>2, <4>3, OwnBits
      <4>5. x = c
        BY <4>2, <4>4, CellByPlace
      <4>6. QED
        BY <4>1, <4>4, <4>5
    <3>4. CASE \E j \in Move : /\ table[x] > table[Neighbor(x, j)]
                               /\ Bit(dir, c[2] % CL, k) = Bit("down", x[2] % CL, j)
      <4>1. PICK j \in Move : /\ table[x] > table[Neighbor(x, j)]
                              /\ Bit(dir, c[2] % CL, k) = Bit("down", x[2] % CL, j)
        BY <3>4
      <4>2. x \in Cell /\ LineOf(x) = LineOf(c)
        BY <3>1
      <4>3. Bit(dir, c[2] % CL, k) = Bit("down", x[2] % CL, j)
        BY <4>1
      <4>4. dir = "down" /\ c[2] % CL = x[2] % CL /\ k = j
        BY <1>2, <4>3, OwnBits
      <4>5. x = c
        BY <4>2, <4>4, CellByPlace
      <4>6. QED
        BY <4>1, <4>4, <4>5
    <3>5. QED
      BY <3>2, <3>3, <3>4
  <2>2. ASSUME \/ dir = "up" /\ table[c] < table[Neighbor(c, k)]
               \/ dir = "down" /\ table[c] > table[Neighbor(c, k)]
        PROVE  Bit(dir, c[2] % CL, k) \in index[LineOf(c)]
    <3>1. Bit(dir, c[2] % CL, k) \in Directions(c)
      BY <2>2 DEF Directions
    <3>2. QED
      BY <1>1, <3>1
  <2>3. QED
    BY <2>1, <2>2
<1>4. "up" # "down"
  OBVIOUS
<1>5. QED
  BY <1>3, <1>4 DEF Lookup

-----------------------------------------------------------------------------
LEMMA OneApart ==
  /\ \A a, b \in Nat : a <= b + 1 /\ b <= a + 1 =>
       (b < a <=> a = b + 1) /\ (b > a <=> a = b - 1)
  /\ \A n \in Nat : n # 0 => n > 0
OBVIOUS

(* A finished index.                                                       *)
LEMMA IndexLookup ==
  ASSUME Indexing, \A w \in Worker : pc[w] = "indexed", NEW c \in Cell
  PROVE  /\ Lookup("up", c) = {k \in Move : Dist[MovePos(Pos(c), k)] = Dist[Pos(c)] + 1}
         /\ Lookup("down", c) = {k \in Move : Dist[MovePos(Pos(c), k)] = Dist[Pos(c)] - 1}
<1>1. TablesRight /\ \A x \in Cell : table[x] = CellDist(x)
  BY DEF Indexing, Tables
<1>2. LineRight(LineOf(c))
  <2>1. PICK w \in Worker : c \in Block(w)
    BY BlocksPart
  <2>2. LineOf(c) \in Lines(w)
    BY <2>1, LineInBlock
  <2>3. QED
    BY <2>2 DEF Indexing
<1>3. ASSUME NEW k \in Move
      PROVE  /\ table[c] = Dist[Pos(c)] /\ table[Neighbor(c, k)] = Dist[MovePos(Pos(c), k)]
             /\ Dist[Pos(c)] \in Nat /\ Dist[MovePos(Pos(c), k)] \in Nat
             /\ Dist[MovePos(Pos(c), k)] <= Dist[Pos(c)] + 1
             /\ Dist[Pos(c)] <= Dist[MovePos(Pos(c), k)] + 1
  <2>1. Neighbor(c, k) \in Cell /\ CellDist(Neighbor(c, k)) = Dist[MovePos(Pos(c), k)]
    BY <1>1, NeighborIs
  <2>2. CellDist(c) \in Nat /\ CellDist(Neighbor(c, k)) \in Nat /\ Pos(c) \in Position
    BY <2>1, CellIs
  <2>3. QED
    BY <1>1, <2>1, <2>2, DistMove DEF CellDist
<1>4. \A k \in Move : /\ table[c] < table[Neighbor(c, k)]
                           <=> Dist[MovePos(Pos(c), k)] = Dist[Pos(c)] + 1
                      /\ table[c] > table[Neighbor(c, k)]
                           <=> Dist[MovePos(Pos(c), k)] = Dist[Pos(c)] - 1
  BY <1>3, OneApart
<1>5. QED
  BY <1>2, <1>4, LookupIs

(* A round of probe comes nearer by one.                                   *)
LEMMA DescendIs ==
  ASSUME Indexing, \A w \in Worker : pc[w] = "indexed", NEW c \in Cell
  PROVE  /\ Descend(c) \in Cell
         /\ CellDist(Descend(c)) = IF c = Home THEN 0 ELSE CellDist(c) - 1
<1> DEFINE down == Lookup("down", c)
           First(k) == \A j \in down : k <= j
<1>1. TablesRight
  BY DEF Indexing, Tables
<1>2. CASE c = Home
  BY <1>2, CellIs DEF Descend
<1>3. CASE c # Home
  <2>1. CellDist(c) \in Nat /\ CellDist(c) > 0
    <3>1. CellDist(c) \in Nat /\ CellDist(c) # 0
      BY <1>3, CellIs
    <3>2. QED
      BY <3>1, OneApart
  <2>2. down = {k \in Move : CellDist(Neighbor(c, k)) = CellDist(c) - 1}
    BY <1>1, IndexLookup, NeighborIs DEF CellDist
  <2>3. PICK k0 \in Move : CellDist(Neighbor(c, k0)) = CellDist(c) - 1
    BY <1>1, <2>1, NeighborNearer
  <2>4. down # {} /\ down \in SUBSET Nat
    <3>1. Move \subseteq Nat
      BY Numbers DEF Move
    <3>2. QED
      BY <2>2, <2>3, <3>1
  <2>5. \E k \in down : First(k)
    <3> HIDE DEF down
    <3>1. QED
      BY <2>4, LeastNumber
  <2>6. (CHOOSE k \in down : First(k)) \in down
    <3> HIDE DEF down, First
    <3>1. QED
      BY <2>5
  <2>7. PICK k \in down : k = CHOOSE l \in down : First(l)
    BY <2>6
  <2>8. Descend(c) = Neighbor(c, k)
    BY <1>3, <2>4, <2>7 DEF Descend
  <2>9. k \in Move /\ CellDist(Neighbor(c, k)) = CellDist(c) - 1
    BY <2>2
  <2>10. QED
    BY <1>1, <1>3, <2>8, <2>9, NeighborIs
<1>4. QED
  BY <1>2, <1>3

LEMMA ProbeSteps ==
  ASSUME \A x \in Cell : Descend(x) \in Cell, NEW c \in Cell
  PROVE  \E walk \in [0 .. Far -> Cell] :
           /\ walk[0] = c /\ \A n \in 1 .. Far : walk[n] = Descend(walk[n - 1])
           /\ Probe(c) = Cardinality({n \in 0 .. Far : walk[n] # Home})
<1> DEFINE Body(g, n) == IF n = 0 THEN c ELSE Descend(g[n - 1])
           F == [x \in Cell \X (1 .. Far) |-> Descend(x[1])]
           walk == CHOOSE h : h = [n \in 0 .. Far |-> Body(h, n)]
<1>1. Far \in Nat
  BY Positions
<1>2. F \in [Cell \X (1 .. Far) -> Cell]
  OBVIOUS
<1>3. PICK g : IsIteration(g, Cell, c, Far, F)
  <2> HIDE DEF F
  <2>1. QED
    BY <1>1, <1>2, Iterates
<1>4. /\ g \in [0 .. Far -> Cell] /\ g[0] = c
      /\ \A i \in 1 .. Far : g[i] = F[<<g[i - 1], i>>]
  BY <1>3 DEF IsIteration
<1>5. ASSUME NEW i \in 1 .. Far
      PROVE  g[i] = Descend(g[i - 1])
  <2>1. <<g[i - 1], i>> \in Cell \X (1 .. Far)
    BY <1>1, <1>4
  <2>2. QED
    BY <1>4, <2>1
<1>6. ASSUME NEW i \in 0 .. Far
      PROVE  g[i] = Body(g, i)
  <2>1. CASE i = 0
    BY <1>4, <2>1
  <2>2. CASE i # 0
    <3>1. i \in 1 .. Far
      BY <1>1, <2>2
    <3>2. QED
      BY <1>5, <2>2, <3>1
  <2>3. QED
    BY <2>1, <2>2
<1>7. g = [i \in 0 .. Far |-> Body(g, i)]
  <2> HIDE DEF Body
  <2>1. g = [i \in 0 .. Far |-> g[i]]
    BY <1>4
  <2>2. QED
    BY <1>6, <2>1
<1>8. walk = [n \in 0 .. Far |-> Body(walk, n)]
  <2> HIDE DEF Body
  <2>1. QED
    BY <1>7
<1>9. DOMAIN walk = 0 .. Far
  <2> HIDE DEF Body
  <2> PICK h : h = walk
    OBVIOUS
  <2>1. h = [n \in 0 .. Far |-> Body(h, n)]
    BY <1>8
  <2>2. DOMAIN h = 0 .. Far
    BY <2>1
  <2>3. QED
    BY <2>2
<1>10. Probe(c) = Cardinality({n \in DOMAIN walk : walk[n] # Home})
  BY DEF Probe, Far
<1> HIDE DEF walk, F
<1>11. ASSUME NEW n \in 0 .. Far
       PROVE  walk[n] = Body(walk, n)
  <2> HIDE DEF Body
  <2>1. QED
    BY <1>8
<1>12. walk[0] = c /\ \A n \in 1 .. Far : walk[n] = Descend(walk[n - 1])
  BY <1>1, <1>11
<1>13. \A n \in 0 .. Far : walk[n] \in Cell
  <2> DEFINE S == {n \in 0 .. Far : walk[n] \in Cell}
  <2>1. 0 \in S
    BY <1>1, <1>12
  <2>2. ASSUME NEW n \in 1 .. Far, n - 1 \in S
        PROVE  n \in S
    BY <1>1, <1>12, <2>2
  <2> HIDE DEF S
  <2>3. \A n \in 0 .. Far : n \in S
    BY <1>1, <2>1, <2>2, AllNumbers
  <2>4. QED
    BY <2>3 DEF S
<1>14. walk = [n \in 0 .. Far |-> walk[n]]
  <2> HIDE DEF Body
  <2>1. QED
    BY <1>8, <1>9
<1>15. walk \in [0 .. Far -> Cell]
  BY <1>13, <1>14
<1>16. QED
  BY <1>9, <1>10, <1>12, <1>15

(* A walk that comes nearer in every step is home after the distance.      *)
LEMMA WalkCounts ==
  ASSUME NEW c \in Cell, NEW walk \in [0 .. Far -> Cell], walk[0] = c,
         \A n \in 1 .. Far : CellDist(walk[n]) = IF walk[n - 1] = Home THEN 0
                                                 ELSE CellDist(walk[n - 1]) - 1
  PROVE  Cardinality({n \in 0 .. Far : walk[n] # Home}) = CellDist(c)
<1> DEFINE d == CellDist(c)
           Left(n) == IF n < d THEN d - n ELSE 0
           S == {n \in 0 .. Far : CellDist(walk[n]) = Left(n)}
<1>1. Far \in Nat /\ d \in 0 .. Far /\ d \in Nat
  BY Positions, CellIs, DistIs DEF CellDist
<1>2. \A n \in 0 .. Far : /\ CellDist(walk[n]) \in Nat
                          /\ CellDist(walk[n]) = 0 <=> walk[n] = Home
  BY CellIs
<1> HIDE DEF d
<1>3. 0 \in S
  BY <1>1 DEF d
<1>4. ASSUME NEW n \in 1 .. Far, n - 1 \in S
      PROVE  n \in S
  <2>1. n \in 0 .. Far /\ n - 1 \in 0 .. Far /\ n \in Nat
    BY <1>1
  <2>2. CellDist(walk[n - 1]) = Left(n - 1)
    BY <1>4
  <2>3. walk[n - 1] = Home <=> Left(n - 1) = 0
    BY <1>2, <2>1, <2>2
  <2>4. CellDist(walk[n]) = IF Left(n - 1) = 0 THEN 0 ELSE Left(n - 1) - 1
    BY <2>2, <2>3
  <2>5. QED
    BY <1>1, <2>1, <2>4
<1>5. \A n \in 0 .. Far : n \in S
  <2> HIDE DEF S
  <2>1. QED
    BY <1>1, <1>3, <1>4, AllNumbers
<1>6. \A n \in 0 .. Far : walk[n] # Home <=> n < d
  <2>1. TAKE n \in 0 .. Far
  <2>2. CellDist(walk[n]) = Left(n)
    BY <1>5
  <2>3. QED
    BY <1>1, <1>2, <2>2
<1>7. {n \in 0 .. Far : walk[n] # Home} = 0 .. d - 1
  BY <1>1, <1>6
<1>8. Cardinality(0 .. d - 1) = IF 0 > d - 1 THEN 0 ELSE d - 1 - 0 + 1
  <2>1. 0 \in Int /\ d - 1 \in Int
    BY <1>1
  <2>2. QED
    BY <2>1, FS_Interval
<1>9. Cardinality(0 .. d - 1) = d
  BY <1>1, <1>8
<1>10. QED
  BY <1>7, <1>9 DEF d

LEMMA ProbeIs ==
  ASSUME Indexing, \A w \in Worker : pc[w] = "indexed", NEW c \in Cell
  PROVE  Probe(c) = Dist[Pos(c)]
<1>1. PICK walk \in [0 .. Far -> Cell] :
        /\ walk[0] = c /\ \A n \in 1 .. Far : walk[n] = Descend(walk[n - 1])
        /\ Probe(c) = Cardinality({n \in 0 .. Far : walk[n] # Home})
  BY DescendIs, ProbeSteps
<1>2. ASSUME NEW n \in 1 .. Far
      PROVE  n - 1 \in 0 .. Far
  BY ONLY <1>2, Positions
<1>3. ASSUME NEW n \in 1 .. Far
      PROVE  CellDist(walk[n]) = IF walk[n - 1] = Home THEN 0
                                 ELSE CellDist(walk[n - 1]) - 1
  <2>1. walk[n - 1] \in Cell
    BY <1>2
  <2>2. QED
    BY <1>1, <2>1, DescendIs
<1>4. Cardinality({n \in 0 .. Far : walk[n] # Home}) = CellDist(c)
  BY <1>1, <1>3, WalkCounts
<1>5. QED
  BY <1>1, <1>4 DEF CellDist

(* However the workers' scans interleave, and whatever the shared memory   *)
(* held before, the finished index tells for every move of every position  *)
(* whether it leads further or nearer, and probe counts its distance.      *)
THEOREM IndexTellsTruth == Spec => []IndexIsRight
<1>1. IInv => IndexIsRight
  <2>1. SUFFICES ASSUME IInv, \A w \in Worker : pc[w] = "indexed", NEW c \in Cell
                 PROVE  LET x == <<s2r[c[1]], c[2]>> IN
                        /\ Lookup("up", c) = {k \in Move : Dist[MovePos(x, k)] = Dist[x] + 1}
                        /\ Lookup("down", c) = {k \in Move : Dist[MovePos(x, k)] = Dist[x] + (-1)}
                        /\ Probe(c) = Dist[x]
    BY DEF IndexIsRight
  <2>2. Indexing
    BY <2>1, Numbers, PhaseOf
  <2>3. s2r = Ranked
    BY <2>2 DEF Indexing, Tables, TablesRight
  <2>4. <<s2r[c[1]], c[2]>> = Pos(c)
    BY <2>3 DEF Pos
  <2>5. Dist[Pos(c)] - 1 = Dist[Pos(c)] + (-1)
    BY ONLY CellIs, c \in Cell DEF CellDist
  <2>6. QED
    BY <2>1, <2>2, <2>4, <2>5, IndexLookup, ProbeIs
<1>2. QED
  BY <1>1, Invariance, PTL
=============================================================================
