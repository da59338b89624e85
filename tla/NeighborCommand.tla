-------------------------- MODULE NeighborCommand --------------------------
(***************************************************************************)
(* cmd_neighbor of src/src/main.cpp with neighborsolver::solve: a solution *)
(* of a cube, with a move before and its inverse after, solves a neighbor  *)
(* of the cube, usually in another coset.  Workers take the cosets in      *)
(* order; for each one they hold its handle and, one after another, the    *)
(* handles of its neighbor cosets with a larger index, and solve in both   *)
(* directions.  A neighbor is recorded when the sequence has the length    *)
(* proven_min of its coset, so that it is known to be optimal.             *)
(***************************************************************************)
EXTENDS Integers, FiniteSets

CONSTANTS
  Worker,     \* threads
  N,          \* N_EDGE_INVO
  Cube,       \* cubes, one for each symmetry class of involutions
  CosetOf,    \* [Cube -> 0 .. N - 1]
  Dist,       \* [Cube -> Nat]
  Bound,      \* values of proven_min
  Move,       \* moves, with the coset they start from
  From, To,   \* [Move -> 0 .. N - 1], From[m] <= To[m]: idx and ec_m
  There,      \* [Move -> set of <<x, y, n>>]: from the solution of x, wrapped
              \* with the move, a sequence of length n for y of the coset To
  Back,       \* the same for the inverse move, from the coset To
  Unsolved, NoWorker, NoCoset

Coset == 0 .. N - 1

(* Wrapped sequences are sequences of the neighbor, so none is shorter     *)
(* than its optimal length.  A coset that is its own neighbor has the      *)
(* inverse as a move of its own.  With no workers the command would say    *)
(* that it is done.                                                        *)
ASSUME NeighborAssumption ==
  /\ Worker # {}
  /\ N \in Nat /\ CosetOf \in [Cube -> Coset] /\ Dist \in [Cube -> Nat]
  /\ From \in [Move -> Coset] /\ To \in [Move -> Coset]
  /\ There \in [Move -> SUBSET (Cube \X Cube \X Nat)]
  /\ Back \in [Move -> SUBSET (Cube \X Cube \X Nat)]
  /\ \A m \in Move :
       /\ From[m] <= To[m]
       /\ From[m] = To[m] => Back[m] = {}
       /\ \A e \in There[m] :
            CosetOf[e[1]] = From[m] /\ CosetOf[e[2]] = To[m] /\ Dist[e[2]] <= e[3]
       /\ \A e \in Back[m] :
            CosetOf[e[1]] = To[m] /\ CosetOf[e[2]] = From[m] /\ Dist[e[2]] <= e[3]
  /\ Bound \subseteq Nat /\ Unsolved \notin Nat
  /\ NoWorker \notin Worker /\ NoCoset \notin Coset

VARIABLES
  length, proven_min,             \* the database
  phase, terminated, canceled,    \* the process
  ec_idx, progress, outcome,
  mtx,                            \* the owner of the command's mutex
  ec_mutex,                       \* [Coset -> Worker or NoWorker]
  pc, idx, idx_m,                 \* each worker: step, its two cosets,
  moves,                          \* and the moves it has still to try
  before                          \* history: length when the run started

database == <<length, proven_min>>
locks == <<mtx, ec_mutex>>
local == <<pc, idx, idx_m, moves>>
vars == <<database, phase, terminated, canceled, ec_idx, progress, outcome,
          locks, local, before>>

Open(c) == {x \in Cube : CosetOf[x] = c /\ length[x] = Unsolved}

Optimal == INSTANCE OptimalStore

-----------------------------------------------------------------------------
Init ==
  /\ length \in {l \in [Cube -> {Dist[x] : x \in Cube} \union {Unsolved}] :
                   \A x \in Cube : l[x] \in {Unsolved, Dist[x]}}
  /\ proven_min \in {b \in [Coset -> Bound] :
                       \A c \in Coset : \A x \in Open(c) : b[c] <= Dist[x]}
  /\ phase = "off"
  /\ terminated = FALSE /\ canceled = FALSE
  /\ ec_idx = 0 /\ progress = 0 /\ outcome = "none"
  /\ mtx = NoWorker /\ ec_mutex = [c \in Coset |-> NoWorker]
  /\ pc = [w \in Worker |-> "exited"]
  /\ idx = [w \in Worker |-> NoCoset]
  /\ idx_m = [w \in Worker |-> NoCoset]
  /\ moves = [w \in Worker |-> {}]
  /\ before = length

Start ==
  /\ phase = "off"
  /\ phase' = "running"
  /\ terminated' = FALSE /\ canceled' = FALSE
  /\ ec_idx' = 0 /\ progress' = 0 /\ outcome' = "none"
  /\ pc' = [w \in Worker |-> "enter"]
  /\ before' = length
  /\ UNCHANGED <<database, locks, idx, idx_m, moves>>

Signal ==
  /\ phase = "running" /\ ~ terminated
  /\ terminated' = TRUE
  /\ UNCHANGED <<database, phase, canceled, ec_idx, progress, outcome, locks,
                 local, before>>

-----------------------------------------------------------------------------
(* unique_lock lock(mtx), and lock.lock() after the coset.                 *)
LockMtx(w) ==
  /\ pc[w] \in {"enter", "return"}
  /\ mtx = NoWorker
  /\ mtx' = w
  /\ pc' = [pc EXCEPT ![w] = IF @ = "enter" THEN "take" ELSE "count"]
  /\ UNCHANGED <<database, phase, terminated, canceled, ec_idx, progress,
                 outcome, ec_mutex, idx, idx_m, moves, before>>

(* Take the next coset and release the mutex, or leave when none is left.  *)
Take(w) ==
  /\ pc[w] = "take"
  /\ mtx' = NoWorker
  /\ IF ec_idx < N
     THEN /\ ec_idx' = ec_idx + 1
          /\ idx' = [idx EXCEPT ![w] = ec_idx]
          /\ moves' = [moves EXCEPT ![w] = {m \in Move : From[m] = ec_idx}]
          /\ pc' = [pc EXCEPT ![w] = "handle"]
     ELSE /\ pc' = [pc EXCEPT ![w] = "exited"]
          /\ UNCHANGED <<ec_idx, idx, moves>>
  /\ UNCHANGED <<database, phase, terminated, canceled, progress, outcome,
                 ec_mutex, idx_m, before>>

(* tracker::handle(idx)                                                    *)
LockCoset(w) ==
  /\ pc[w] = "handle"
  /\ ec_mutex[idx[w]] = NoWorker
  /\ ec_mutex' = [ec_mutex EXCEPT ![idx[w]] = w]
  /\ pc' = [pc EXCEPT ![w] = "neighbors"]
  /\ UNCHANGED <<database, phase, terminated, canceled, ec_idx, progress,
                 outcome, mtx, idx, idx_m, moves, before>>

(* Mutant: the handle of the coset is taken again for itself.              *)
BugFirst(w, c) == "handle_m"
First(w, c) == IF c = idx[w] THEN "solve" ELSE "handle_m"

(* The next neighbor coset, in the order of the map: the coset itself      *)
(* needs no other handle.                                                  *)
NextNeighbor(w) ==
  /\ pc[w] = "neighbors"
  /\ \/ /\ moves[w] = {}
        /\ pc' = [pc EXCEPT ![w] = "return"]
        /\ UNCHANGED idx_m
     \/ \E m \in moves[w] :
        /\ \A k \in moves[w] : To[m] <= To[k]
        /\ idx_m' = [idx_m EXCEPT ![w] = To[m]]
        /\ pc' = [pc EXCEPT ![w] = First(w, To[m])]
  /\ UNCHANGED <<database, phase, terminated, canceled, ec_idx, progress,
                 outcome, locks, idx, moves, before>>

(* tracker::handle(idx_m)                                                  *)
LockNeighbor(w) ==
  /\ pc[w] = "handle_m"
  /\ ec_mutex[idx_m[w]] = NoWorker
  /\ ec_mutex' = [ec_mutex EXCEPT ![idx_m[w]] = w]
  /\ pc' = [pc EXCEPT ![w] = "solve"]
  /\ UNCHANGED <<database, phase, terminated, canceled, ec_idx, progress,
                 outcome, mtx, idx, idx_m, moves, before>>

(* Mutant: a sequence of any length is recorded.                           *)
BugSolvedAnyLength(l, wraps) ==
  [y \in Cube |->
     LET sizes == {e[3] : e \in {d \in wraps : d[2] = y /\ l[d[1]] # Unsolved}} IN
     IF l[y] = Unsolved /\ sizes # {} THEN CHOOSE n \in sizes : TRUE ELSE l[y]]

(* neighborsolver::solve: wrap every solution of the one coset; a neighbor *)
(* that is unsolved in the other one is recorded if the sequence has the   *)
(* length that is the next one to be proven there.                         *)
Solved(l, wraps) ==
  [y \in Cube |->
     IF l[y] = Unsolved /\ \E x \in Cube :
          l[x] # Unsolved /\ <<x, y, proven_min[CosetOf[y]]>> \in wraps
     THEN proven_min[CosetOf[y]] ELSE l[y]]

(* Mutant: the way back is not tried.                                      *)
BugBoth(l, m) == Solved(l, There[m])
Both(l, m) == Solved(Solved(l, There[m]), Back[m])

(* One move of the pair of cosets: forth, then back with the inverse.      *)
SolveMove(w) ==
  /\ pc[w] = "solve"
  /\ \/ \E m \in moves[w] :
        /\ To[m] = idx_m[w]
        /\ length' = Both(length, m)
        /\ moves' = [moves EXCEPT ![w] = @ \ {m}]
        /\ UNCHANGED <<pc, idx_m, ec_mutex>>
     \/ /\ \A m \in moves[w] : To[m] # idx_m[w]
        /\ pc' = [pc EXCEPT ![w] = "neighbors"]
        /\ idx_m' = [idx_m EXCEPT ![w] = NoCoset]
        /\ ec_mutex' = IF idx_m[w] = idx[w] THEN ec_mutex
                       ELSE [ec_mutex EXCEPT ![idx_m[w]] = NoWorker]
        /\ UNCHANGED <<length, moves>>
  /\ UNCHANGED <<proven_min, phase, terminated, canceled, ec_idx, progress,
                 outcome, mtx, idx, before>>

(* Under the mutex again, still with the handle of the coset: count, look  *)
(* at the signal, and drop the handle at the end of the iteration.         *)
CountCoset(w) ==
  /\ pc[w] = "count"
  /\ progress' = progress + 1
  /\ ec_mutex' = [ec_mutex EXCEPT ![idx[w]] = NoWorker]
  /\ idx' = [idx EXCEPT ![w] = NoCoset]
  /\ IF terminated
     THEN /\ canceled' = TRUE
          /\ mtx' = NoWorker
          /\ pc' = [pc EXCEPT ![w] = "exited"]
     ELSE /\ pc' = [pc EXCEPT ![w] = "take"]
          /\ UNCHANGED <<canceled, mtx>>
  /\ UNCHANGED <<database, phase, terminated, ec_idx, outcome, idx_m, moves, before>>

Join ==
  /\ phase = "running"
  /\ \A w \in Worker : pc[w] = "exited"
  /\ outcome' = IF canceled THEN "received terminate signal" ELSE "done"
  /\ phase' = "off"
  /\ UNCHANGED <<database, terminated, canceled, ec_idx, progress, locks,
                 local, before>>

WorkerStep(w) ==
  \/ LockMtx(w)
  \/ Take(w)
  \/ LockCoset(w)
  \/ NextNeighbor(w)
  \/ LockNeighbor(w)
  \/ SolveMove(w)
  \/ CountCoset(w)

Next == Start \/ Signal \/ Join \/ \E w \in Worker : WorkerStep(w)

Spec == Init /\ [][Next]_vars

(* Threads are scheduled fairly and so are waiters for a mutex: a thread   *)
(* is not passed over forever while others take the same mutex.            *)
FairSpec == /\ Spec
            /\ WF_vars(Join)
            /\ \A w \in Worker : SF_vars(WorkerStep(w))

-----------------------------------------------------------------------------
(* Every neighbor that is recorded gets its optimal length.                *)
ImplementsOptimalStore == Optimal!Spec

(* A run that prints "done" has recorded every neighbor, in either         *)
(* direction, of every solution the database had when the run started.     *)
DoneCoversNeighbors ==
  outcome = "done" =>
    \A m \in Move : \A e \in There[m] \union Back[m] :
      before[e[1]] # Unsolved /\ e[3] = proven_min[CosetOf[e[2]]] =>
        length[e[2]] # Unsolved

(* A run ends: threads that hold one handle and wait for a second one      *)
(* never wait for each other.                                              *)
RunEnds == (phase = "running") ~> (phase = "off")
=============================================================================
