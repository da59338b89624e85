-------------------------- MODULE EpruneGenerator --------------------------
(***************************************************************************)
(* The generation of the edge pruning table, src/src/eprune.cpp.  A table  *)
(* holds the distance of every edge coordinate <<ep, eo>> from the solved  *)
(* one; its rows are the edge permutations up to symmetry.  Workers fill   *)
(* it breadth first, in lock step between barriers, each scanning its own  *)
(* block of rows.  A forward scan expands the cells of the current depth   *)
(* and writes into the rows of other workers, under a mutex per row; when  *)
(* fewer than half of the cells are left, a reverse scan looks from the    *)
(* empty cells for a neighbor of the current depth and writes only its own *)
(* rows.  Then the workers turn the table into the index that tells for    *)
(* every move whether it leads further away or nearer.                     *)
(***************************************************************************)
EXTENDS Eperm48

CONSTANTS
  NOrient,     \* N_EORIENT
  Turned,      \* [Orient -> [Move -> Orient]]: eo.move(m)
  Symi,        \* [Orient -> [Sym -> Orient]]: eo.symi(s)
  CL, STRIPE,  \* coordinates in a line of the index, lines of a row
  Nobody       \* the owner of a free mutex

NRows == NRep
Row == Rep
Orient == 0 .. NOrient - 1
Cell == Row \X Orient
NCells == NRows * NOrient
Home == <<0, 0>>
FF == 255
Line == 0 .. NRows * STRIPE - 1

Position == Perm \X Orient
MovePos(x, k) == <<Moved[x[1]][k], Turned[x[2]][k]>>
SymiPos(x, s) == <<Image[SymInv[s]][x[1]], Symi[x[2]][s]>>

(* The positions within n moves of the solved one, of all edge             *)
(* permutations and turns.                                                 *)
Within[n \in 0 .. NPerm * NOrient] ==
  IF n = 0 THEN {Home}
  ELSE Within[n - 1] \union {MovePos(x, k) : x \in Within[n - 1], k \in Move}
Dist == [x \in Position |->
           CHOOSE n \in DOMAIN Within : x \in Within[n] /\ (n = 0 \/ x \notin Within[n - 1])]

(* The first row is of the first worker.  With fourteen moves the edges    *)
(* are solved from everywhere.                                             *)
ASSUME OrientAssumption ==
  /\ NOrient \in Nat \ {0} /\ CL \in Nat \ {0} /\ STRIPE \in Nat
  /\ NOrient <= CL * STRIPE
  /\ NWorkers <= NRows /\ Nobody \notin Worker
  /\ \A o \in Orient, k \in Move : Turned[o][k] \in Orient
  /\ \A o \in Orient, s \in Sym : Symi[o][s] \in Orient
  /\ \E n \in DOMAIN Within : n < FF /\ Within[n] = Position

(* Moves have inverses.  The symmetries are a group that keeps the solved  *)
(* position, and turn moves into moves.                                    *)
ASSUME GroupAssumption ==
  /\ \A k \in Move : \E j \in Move : \A x \in Position : MovePos(MovePos(x, k), j) = x
  /\ \A s \in Sym : SymiPos(Home, s) = Home
  /\ \A x \in Position : SymiPos(x, 0) = x
  /\ \A s \in Sym : \E t \in Sym : \A x \in Position : SymiPos(SymiPos(x, s), t) = x
  /\ \A s, t \in Sym : \E u \in Sym :
       \A x \in Position : SymiPos(x, u) = SymiPos(SymiPos(x, s), t)
  /\ \A s \in Sym, k \in Move : \E j \in Move :
       \A x \in Position : SymiPos(MovePos(x, k), s) = MovePos(SymiPos(x, s), j)

VARIABLES
  table,      \* [Cell -> 0 .. 255]
  todo,
  ep_mutex,   \* [Row -> Worker or Nobody]
  index,      \* [Line -> the bits that are set]
  depth, reverse, found,   \* each worker
  ep, m, active,               \* where its scan is
  fresh                        \* the cells that set_sym is about to write

shared == <<table, todo, ep_mutex, arrived, index>>
eprune == <<table, todo, ep_mutex, index, depth, reverse, found, ep, m, active, fresh>>
vars == <<eperm48, eprune, arrived, pc>>

(* eperm48::raw_move, and eo.movei(m, s_m).                                *)
RawMove(r, k) == moves[r][k][2]
Neighbor(cell, k) ==
  <<RawMove(cell[1], k), Symi[Turned[cell[2]][k]][moves[cell[1]][k][1]]>>
Orbit(cell) == {cell} \union {<<cell[1], Symi[cell[2]][s]>> : s \in self[cell[1]]}

(* cache_line_t: of the mask of moves of one coordinate the low two bits   *)
(* are in a word, number CL, that all coordinates of the line share.       *)
Bit(dir, sub, k) == IF k <= 1 THEN <<dir, CL, 2 * sub + k>> ELSE <<dir, sub, k - 2>>
AllBits == {Bit(dir, sub, k) : dir \in {"up", "down"}, sub \in 0 .. CL - 1, k \in Move}
LineOf(c) == c[1] * STRIPE + c[2] \div CL
Lookup(dir, c) == {k \in Move : Bit(dir, c[2] % CL, k) \in index[LineOf(c)]}

EpStart(w) == (NRows \div NWorkers) * w
EpEnd(w) == IF w = NWorkers - 1 THEN NRows ELSE EpStart(w) + NRows \div NWorkers
Block(w) == {c \in Cell : EpStart(w) <= c[1] /\ c[1] < EpEnd(w)}

Init ==
  /\ InitEperm48
  /\ table = << >> /\ todo = 0 /\ index = << >>
  /\ ep_mutex = [r \in Row |-> Nobody]
  /\ depth = [w \in Worker |-> 0]
  /\ reverse = [w \in Worker |-> FALSE]
  /\ found = [w \in Worker |-> 0]
  /\ ep = [w \in Worker |-> 0]
  /\ m = [w \in Worker |-> 0]
  /\ active = [w \in Worker |-> {}]
  /\ fresh = [w \in Worker |-> {}]

-----------------------------------------------------------------------------
(* eperm48::init has returned.  A new table has arbitrary contents, of     *)
(* which one is as good as another; the index, in shared memory, has what  *)
(* a failed run has left.  What generate of eperm48 had in its variables,  *)
(* and what the files hold, is never looked at again: it is forgotten.     *)
Allocate ==
  /\ Ready
  /\ table' \in {[c \in Cell |-> 0], [c \in Cell |-> 1]}
  /\ todo' = NCells - 1
  /\ index' \in {[l \in Line |-> bits] : bits \in {{}, AllBits}}
  /\ pc' = [w \in Worker |-> "fill"]
  /\ r2s' = << >> /\ rep_base' = << >> /\ reps' = << >> /\ idx' = << >> /\ next' = << >>
  /\ files' = NoFile /\ kills' = 0
  /\ UNCHANGED <<tables, saved, arrived, ep_mutex, depth, reverse, found, ep, m, active, fresh>>

Fill(w) ==
  /\ pc[w] = "fill"
  /\ table' = [c \in Cell |-> IF w = 0 /\ c = Home THEN 0
                              ELSE IF c \in Block(w) THEN FF ELSE table[c]]
  /\ pc' = [pc EXCEPT ![w] = "depth barrier"]
  /\ UNCHANGED <<todo, ep_mutex, arrived, index, depth, reverse, found, ep, m,
                 active, fresh>>

(* barrier->arrive_and_wait() of the other barrier.                        *)
ArriveEprune(w) ==
  /\ pc[w] \in {"depth barrier", "scan barrier", "end of tables"} /\ w \notin arrived
  /\ IF arrived \union {w} = Worker
     THEN /\ arrived' = {}
          /\ pc' = [v \in Worker |-> CASE pc[v] = "depth barrier" -> "decide"
                                       [] pc[v] = "scan barrier" -> "begin"
                                       [] OTHER -> "index"]
     ELSE arrived' = arrived \union {w} /\ UNCHANGED pc
  /\ UNCHANGED <<table, todo, ep_mutex, index, depth, reverse, found, ep, m,
                 active, fresh>>

(* Between the barriers: leave the loop, or choose the kind of scan.       *)
(* workers.join() of the first parallel is the barrier "end of tables".    *)
Decide(w) ==
  /\ pc[w] = "decide"
  /\ pc' = [pc EXCEPT ![w] = IF todo = 0 THEN "end of tables" ELSE "scan barrier"]
  /\ reverse' = [reverse EXCEPT ![w] = todo < NCells \div 2]
  /\ UNCHANGED <<shared, depth, found, ep, m, active, fresh>>

Want(w) == IF reverse[w] THEN FF ELSE depth[w]
Seek(w) == IF reverse[w] THEN depth[w] ELSE FF
ActiveCells(w, r) == {c \in Cell : c[1] = r /\ table[c] = Want(w)}

(* scan: go to a row and collect its active cells, unless there are none.  *)
BeginRow(w, r) ==
  /\ ep' = [ep EXCEPT ![w] = r]
  /\ m' = [m EXCEPT ![w] = 0]
  /\ active' = [active EXCEPT ![w] = IF r < EpEnd(w) THEN ActiveCells(w, r) ELSE {}]
  /\ pc' = [pc EXCEPT ![w] = IF r < EpEnd(w) THEN "move" ELSE "sum"]

Begin(w) ==
  /\ pc[w] = "begin"
  /\ BeginRow(w, EpStart(w))
  /\ found' = [found EXCEPT ![w] = 0]
  /\ UNCHANGED <<shared, depth, reverse, fresh>>

NextRow(w) ==
  /\ pc[w] = "move"
  /\ m[w] \notin Move \/ active[w] = {}
  /\ BeginRow(w, ep[w] + 1)
  /\ UNCHANGED <<shared, depth, reverse, found, fresh>>

(* Mutant: a forward scan without the mutex of the row.                    *)
BugTakeRow(r, w) == UNCHANGED ep_mutex
TakeRow(r, w) == ep_mutex[r] = Nobody /\ ep_mutex' = [ep_mutex EXCEPT ![r] = w]

(* Only the forward scan locks the row it is going to write.               *)
LockRow(w) ==
  /\ pc[w] = "move"
  /\ m[w] \in Move /\ active[w] # {}
  /\ IF reverse[w] THEN UNCHANGED ep_mutex
     ELSE TakeRow(RawMove(ep[w], m[w]), w)
  /\ pc' = [pc EXCEPT ![w] = "scan"]
  /\ UNCHANGED <<table, todo, arrived, index, depth, reverse, found, ep, m,
                 active, fresh>>

(* The cells of this row and move that lead to a new cell: in a forward    *)
(* scan the neighbor is new, in a reverse scan the cell itself.            *)
New(w) ==
  {c \in active[w] : table[c] = Want(w) /\ table[Neighbor(c, m[w])] = Seek(w)}

(* set_sym finds the cells of the orbit that are still empty ...           *)
Find(w) ==
  /\ pc[w] = "scan"
  /\ \E c \in New(w) :
       LET ec == IF reverse[w] THEN c ELSE Neighbor(c, m[w]) IN
       fresh' = [fresh EXCEPT ![w] = {d \in Orbit(ec) : table[d] = FF}]
  /\ pc' = [pc EXCEPT ![w] = "set"]
  /\ UNCHANGED <<shared, depth, reverse, found, ep, m, active>>

(* ... and writes and counts them.                                         *)
Set(w) ==
  /\ pc[w] = "set"
  /\ table' = [c \in Cell |-> IF c \in fresh[w] THEN depth[w] + 1 ELSE table[c]]
  /\ found' = [found EXCEPT ![w] = @ + Cardinality(fresh[w])]
  /\ fresh' = [fresh EXCEPT ![w] = {}]
  /\ pc' = [pc EXCEPT ![w] = "scan"]
  /\ UNCHANGED <<todo, ep_mutex, arrived, index, depth, reverse, ep, m, active>>

(* Mutant: the row stays locked.                                           *)
BugReleased(r) == ep_mutex
Released(r) == [ep_mutex EXCEPT ![r] = Nobody]

NextMove(w) ==
  /\ pc[w] = "scan" /\ New(w) = {}
  /\ ep_mutex' = IF reverse[w] THEN ep_mutex
                 ELSE Released(RawMove(ep[w], m[w]))
  /\ m' = [m EXCEPT ![w] = @ + 1]
  /\ pc' = [pc EXCEPT ![w] = "move"]
  /\ UNCHANGED <<table, todo, arrived, index, depth, reverse, found, ep, active, fresh>>

(* todo -= found under the mutex, and the next depth.                      *)
Sum(w) ==
  /\ pc[w] = "sum"
  /\ todo' = todo - found[w]
  /\ depth' = [depth EXCEPT ![w] = @ + 1]
  /\ pc' = [pc EXCEPT ![w] = "depth barrier"]
  /\ UNCHANGED <<table, ep_mutex, arrived, index, reverse, found, ep, m, active, fresh>>

(* eprune::generate clears the worker's lines of the index and sets for    *)
(* every move whether the neighbor is further or nearer.                   *)
(* Mutant: what was in the shared memory stays.                            *)
BugCleared(l) == index[l]
Cleared(l) == {}

Directions(c) ==
  {Bit("up", c[2] % CL, k) : k \in {k \in Move : table[c] < table[Neighbor(c, k)]}} \union
  {Bit("down", c[2] % CL, k) : k \in {k \in Move : table[c] > table[Neighbor(c, k)]}}

BuildIndex(w) ==
  LET lines == EpStart(w) * STRIPE .. EpEnd(w) * STRIPE - 1 IN
  /\ pc[w] = "index"
  /\ index' = [l \in Line |->
                 IF l \notin lines THEN index[l]
                 ELSE Cleared(l) \union UNION {Directions(c) : c \in {c \in Cell : LineOf(c) = l}}]
  /\ pc' = [pc EXCEPT ![w] = "indexed"]
  /\ UNCHANGED <<table, todo, ep_mutex, arrived, depth, reverse, found, ep, m,
                 active, fresh>>

EpruneStep(w) ==
  \/ Fill(w) \/ ArriveEprune(w) \/ Decide(w)
  \/ Begin(w) \/ NextRow(w) \/ LockRow(w) \/ Find(w) \/ Set(w) \/ NextMove(w)
  \/ Sum(w) \/ BuildIndex(w)

WorkerStep(w) ==
  \/ Eperm48Step(w) /\ UNCHANGED eprune
  \/ EpruneStep(w) /\ UNCHANGED eperm48
MainStep ==
  \/ (Load \/ Save) /\ UNCHANGED eprune
  \/ Allocate
(* EpruneShm.tla has the kills that come later.                            *)
KillBeforeReady == table = << >> /\ Kill /\ UNCHANGED eprune

Next == MainStep \/ (\E w \in Worker : WorkerStep(w)) \/ KillBeforeReady

Spec == Init /\ [][Next]_vars

(* Threads run, and a thread that waits for a row gets it in the end.      *)
FairSpec == Spec /\ WF_vars(MainStep) /\ \A w \in Worker : SF_vars(WorkerStep(w))

-----------------------------------------------------------------------------
(* Whenever the workers are between two depths, todo is the number of      *)
(* empty cells: no cell is counted by two workers.                         *)
TodoCountsEmpty ==
  (\A w \in Worker : pc[w] = "decide") =>
    todo = Cardinality({c \in Cell : table[c] = FF})

(* eprune::probe goes down to the solved cell and counts the rounds; bound *)
(* of the loop: there are no more positions.                               *)
Descend(c) ==
  LET down == Lookup("down", c) IN
  IF c = Home \/ down = {} THEN c
  ELSE Neighbor(c, CHOOSE k \in down : \A j \in down : k <= j)
Probe(c) ==
  LET walk[n \in 0 .. NPerm * NOrient] == IF n = 0 THEN c ELSE Descend(walk[n - 1]) IN
  Cardinality({n \in DOMAIN walk : walk[n] # Home})

(* A finished index tells the truth about every move of every edge         *)
(* position, whatever was in the shared memory before, and probe finds the *)
(* distance; the search relies on it.                                      *)
IndexIsRight ==
  LET Pos(c) == <<s2r[c[1]], c[2]>>
      Nearer(x, by) == {k \in Move : Dist[MovePos(x, k)] = Dist[x] + by} IN
  (\A w \in Worker : pc[w] = "indexed") =>
    \A c \in Cell : /\ Lookup("up", c) = Nearer(Pos(c), 1)
                    /\ Lookup("down", c) = Nearer(Pos(c), -1)
                    /\ Probe(c) = Dist[Pos(c)]

(* The generation ends: no worker is left at a barrier or waits for a row  *)
(* for ever, and every depth finds new cells.                              *)
GenerationEnds == <>(\A w \in Worker : pc[w] = "indexed")
=============================================================================
