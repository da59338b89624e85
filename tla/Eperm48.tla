------------------------------- MODULE Eperm48 -------------------------------
(***************************************************************************)
(* eperm48::init and generate of src/src/eperm48.cpp: the edge             *)
(* permutations are numbered up to symmetry.  Every worker collects the    *)
(* representatives of its block of permutations, the smallest ones of      *)
(* their classes; between barriers one worker adds up where the numbers of *)
(* each block start; then all write the tables of their representatives,   *)
(* and, after a third barrier, the move table, which needs the classes of  *)
(* all the others.  Three files keep the tables for later runs; the        *)
(* process may be killed after it has replaced some of them.               *)
(***************************************************************************)
EXTENDS Integers, Sequences, FiniteSets

CONSTANTS
  NWorkers,   \* N_WORKERS
  NPerm,      \* N_EPERM
  NRep,       \* N_EPERM48
  NSym,       \* N_SYM48; symmetry 0 is the identity
  Image,      \* [Sym -> [Perm -> Perm]]: c.sym(s).getEdgePerm()
  SymInv,     \* [Sym -> Sym]: sym::inv
  NMoves,     \* N_MOVES
  Moved,      \* [Perm -> [Move -> Perm]]: c.move(m).getEdgePerm()
  MaxKills    \* bound: how often the process is killed

Worker == 0 .. NWorkers - 1
Perm == 0 .. NPerm - 1
Rep == 0 .. NRep - 1
Sym == 0 .. NSym - 1
Move == 0 .. NMoves - 1
File == <<"S2R", "Move", "SelfSym">>

IsRep(p) == \A s \in Sym : Image[s][p] >= p

(* eperm48.h knows the number of classes.  The blocks leave out the last   *)
(* permutations when N_WORKERS does not divide N_EPERM, as no id equals    *)
(* N_WORKERS; they move UR to BR and DR to DB, so that a smaller image     *)
(* moves UR to UF.  The symmetries are a group.                            *)
ASSUME PermAssumption ==
  /\ NWorkers \in Nat \ {0} /\ NPerm \in Nat \ {0} /\ NSym \in Nat \ {0}
  /\ NMoves \in Nat
  /\ \A p \in Perm, k \in Move : Moved[p][k] \in Perm
  /\ \A s \in Sym :
       /\ SymInv[s] \in Sym
       /\ \A p \in Perm : /\ Image[s][p] \in Perm
                           /\ Image[0][p] = p /\ Image[SymInv[s]][Image[s][p]] = p
  /\ \A s, t \in Sym : \E u \in Sym :
       \A p \in Perm : Image[u][p] = Image[t][Image[s][p]]
  /\ NRep = Cardinality({p \in Perm : IsRep(p)})
  /\ \A p \in Perm : p >= (NPerm \div NWorkers) * NWorkers => ~ IsRep(p)
  /\ MaxKills \in Nat

VARIABLES
  s2r, moves, self,   \* the tables, by number of class
  r2s,                \* [Perm -> <<symmetry, number>>]
  rep_base,           \* [0 .. NWorkers -> Nat]
  reps, idx, next,    \* each worker: its representatives, and where it is
  files,              \* the saved tables
  saved,              \* how many files this run has replaced
  kills,
  arrived,            \* workers at the barrier in this phase
  pc

tables == <<s2r, moves, self>>
eperm48 == <<tables, r2s, rep_base, reps, idx, next, files, saved, kills>>

Zero == <<0, 0>>
NoFile == [f \in {} |-> 0]

InitEperm48 ==
  /\ s2r = << >> /\ moves = << >> /\ self = << >> /\ r2s = << >>
  /\ rep_base = << >> /\ reps = << >> /\ idx = << >> /\ next = << >>
  /\ arrived = {}
  /\ pc = [w \in Worker |-> "load"]
  /\ files = NoFile /\ saved = 0 /\ kills = 0

-----------------------------------------------------------------------------
Has(f) == f \in DOMAIN files

(* A process starts with memory of zeros: load && load && load, and the    *)
(* workers are started unless all is there.                                *)
Load ==
  LET ok == Has("S2R") /\ Has("Move") /\ Has("SelfSym") IN
  /\ pc = [w \in Worker |-> "load"]
  /\ s2r' = IF Has("S2R") THEN files["S2R"] ELSE [i \in Rep |-> 0]
  /\ moves' = IF Has("S2R") /\ Has("Move") THEN files["Move"]
              ELSE [i \in Rep |-> [m \in Move |-> Zero]]
  /\ self' = IF ok THEN files["SelfSym"] ELSE [i \in Rep |-> {}]
  /\ r2s' = [p \in Perm |-> Zero]
  /\ rep_base' = [i \in 0 .. NWorkers |-> 0]
  /\ reps' = [w \in Worker |-> << >>]
  /\ idx' = [w \in Worker |-> 0]
  /\ next' = [w \in Worker |-> 1]
  /\ pc' = [w \in Worker |-> IF ok THEN "done" ELSE "collect"]
  /\ saved' = IF ok THEN Len(File) ELSE 0
  /\ UNCHANGED <<arrived, files, kills>>

(* The representatives of the worker's block, in order.                    *)
BlockReps(w) ==
  LET block == NPerm \div NWorkers
      collected[i \in 0 .. block] ==
        IF i = 0 THEN << >>
        ELSE IF IsRep(w * block + i - 1)
             THEN Append(collected[i - 1], w * block + i - 1)
             ELSE collected[i - 1] IN
  collected[block]

Collect(w) ==
  /\ pc[w] = "collect"
  /\ reps' = [reps EXCEPT ![w] = BlockReps(w)]
  /\ rep_base' = [rep_base EXCEPT ![w + 1] = Len(BlockReps(w))]
  /\ pc' = [pc EXCEPT ![w] = "barrier 1"]
  /\ UNCHANGED <<tables, r2s, arrived, idx, next, files, saved, kills>>

AfterBarrier(step) == CASE step = "barrier 1" -> "add"
                        [] step = "barrier 2" -> "start numbers"
                        [] OTHER -> "start moves"

(* barrier.arrive_and_wait(): the last worker to arrive releases all.      *)
Arrive(w) ==
  /\ pc[w] \in {"barrier 1", "barrier 2", "barrier 3"} /\ w \notin arrived
  /\ IF arrived \union {w} = Worker
     THEN arrived' = {} /\ pc' = [v \in Worker |-> AfterBarrier(pc[v])]
     ELSE arrived' = arrived \union {w} /\ UNCHANGED pc
  /\ UNCHANGED <<tables, r2s, rep_base, reps, idx, next, files, saved, kills>>

(* Worker 0 adds up the sizes of the blocks.                               *)
Add(w) ==
  LET sum[i \in 0 .. NWorkers] ==
        IF i = 0 THEN rep_base[0] ELSE sum[i - 1] + rep_base[i] IN
  /\ pc[w] = "add"
  /\ rep_base' = IF w = 0 THEN sum ELSE rep_base
  /\ pc' = [pc EXCEPT ![w] = "barrier 2"]
  /\ UNCHANGED <<tables, r2s, arrived, reps, idx, next, files, saved, kills>>

(* Both passes over the representatives start at the block's number.       *)
StartPass(w) ==
  /\ pc[w] \in {"start numbers", "start moves"}
  /\ idx' = [idx EXCEPT ![w] = rep_base[w]]
  /\ next' = [next EXCEPT ![w] = 1]
  /\ pc' = [pc EXCEPT ![w] = IF @ = "start numbers" THEN "number" ELSE "moves"]
  /\ UNCHANGED <<tables, r2s, rep_base, arrived, reps, files, saved, kills>>

OneMore(w) ==
  /\ next[w] <= Len(reps[w])
  /\ idx' = [idx EXCEPT ![w] = @ + 1]
  /\ next' = [next EXCEPT ![w] = @ + 1]
  /\ UNCHANGED <<rep_base, arrived, pc, reps, files, saved, kills>>

(* One representative: its symmetries, and the class of its images.  The   *)
(* last symmetry that gives an image is the one that is kept.              *)
Number(w) ==
  LET p == reps[w][next[w]]
      own == {s \in Sym \ {0} : Image[s][p] = p}
      To(q) == {s \in Sym \ own : Image[s][p] = q} IN
  /\ pc[w] = "number" /\ OneMore(w)
  /\ self' = [self EXCEPT ![idx[w]] = own]
  /\ s2r' = [s2r EXCEPT ![idx[w]] = p]
  /\ r2s' = [q \in Perm |->
               IF To(q) = {} THEN r2s[q]
               ELSE <<CHOOSE s \in To(q) : \A t \in To(q) : t <= s, idx[w]>>]
  /\ UNCHANGED moves

MoveRow(w) ==
  LET p == reps[w][next[w]] IN
  /\ pc[w] = "moves" /\ OneMore(w)
  /\ moves' = [moves EXCEPT ![idx[w]] = [m \in Move |-> r2s[Moved[p][m]]]]
  /\ UNCHANGED <<s2r, self, r2s>>

(* Mutant: no barrier before the moves.                                    *)
BugAfterNumbers == "start moves"
AfterNumbers == "barrier 3"

EndPass(w) ==
  /\ pc[w] \in {"number", "moves"} /\ next[w] > Len(reps[w])
  /\ pc' = [pc EXCEPT ![w] = IF @ = "number" THEN AfterNumbers ELSE "done"]
  /\ UNCHANGED <<tables, r2s, rep_base, arrived, reps, idx, next, files, saved, kills>>

Generated == \A w \in Worker : pc[w] = "done"

(* save && save && save; every file is written anew and renamed.  When one *)
(* fails the rest is left, and the tables are used all the same.           *)
Save ==
  LET name == File[saved + 1]
      content == CASE name = "S2R" -> s2r [] name = "Move" -> moves [] OTHER -> self IN
  /\ Generated /\ saved < Len(File)
  /\ \/ /\ files' = [f \in DOMAIN files \union {name} |->
                       IF f = name THEN content ELSE files[f]]
        /\ saved' = saved + 1
     \/ files' = files /\ saved' = Len(File)
  /\ UNCHANGED <<tables, r2s, rep_base, arrived, pc, reps, idx, next, kills>>

Ready == Generated /\ saved = Len(File)

Kill ==
  /\ kills < MaxKills /\ ~ Ready
  /\ kills' = kills + 1
  /\ pc' = [w \in Worker |-> "load"]
  /\ arrived' = {}
  /\ UNCHANGED <<tables, r2s, rep_base, reps, idx, next, files, saved>>

Eperm48Step(w) ==
  \/ Collect(w) \/ Arrive(w) \/ Add(w) \/ StartPass(w)
  \/ Number(w) \/ MoveRow(w) \/ EndPass(w)

-----------------------------------------------------------------------------
(* std::lower_bound(s2r, s2r + N_EPERM48, ep), round by round.             *)
LowerBound(p) ==
  LET search[n \in 0 .. NRep] ==
        IF n = 0 THEN <<0, NRep>>
        ELSE LET lo == search[n - 1][1]
                 hi == search[n - 1][2]
                 mid == (lo + hi) \div 2 IN
             IF lo >= hi THEN <<lo, hi>>
             ELSE IF s2r[mid] < p THEN <<mid + 1, hi>> ELSE <<lo, mid>> IN
  search[NRep][1]

(* The constructor from a cube: the smallest image, and its number.        *)
FromPerm(p) ==
  LET smallest == {t \in Sym : \A u \in Sym : Image[t][p] <= Image[u][p]}
      s == CHOOSE t \in smallest : \A u \in smallest : t <= u
  IN <<SymInv[s], LowerBound(Image[s][p])>>

(* A coordinate gives its permutation back, the symmetry applied to the    *)
(* representative (tests/EpermTest.cpp): every one that the constructor    *)
(* makes, and every entry of the move table, also when the tables come     *)
(* from files that several runs have left.                                 *)
CoordinatesAreReal ==
  LET Real(c) == Image[c[1]][s2r[c[2]]] IN
  Ready => /\ \A p \in Perm : FromPerm(p)[2] \in Rep /\ Real(FromPerm(p)) = p
           /\ \A i \in Rep, m \in Move : Real(moves[i][m]) = Moved[s2r[i]][m]
           /\ \A i \in Rep : self[i] = {s \in Sym \ {0} : Image[s][s2r[i]] = s2r[i]}
=============================================================================
