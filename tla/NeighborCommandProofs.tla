----------------------- MODULE NeighborCommandProofs -----------------------
(***************************************************************************)
(* Proofs about NeighborCommand.tla for any number of workers, cosets,     *)
(* cubes and moves: only optimal lengths are recorded, a run that is done  *)
(* has covered every neighbor, and workers never wait for each other in a  *)
(* circle.                                                                 *)
(***************************************************************************)
EXTENDS NeighborCommand, WellFoundedInduction, TLAPS

Types ==
  /\ length \in [Cube -> Nat \union {Unsolved}]
  /\ proven_min \in [Coset -> Bound]
  /\ before \in [Cube -> Nat \union {Unsolved}]
  /\ phase \in {"off", "running"}
  /\ terminated \in BOOLEAN /\ canceled \in BOOLEAN
  /\ ec_idx \in 0 .. N
  /\ outcome \in {"none", "done", "received terminate signal"}
  /\ mtx \in Worker \union {NoWorker}
  /\ ec_mutex \in [Coset -> Worker \union {NoWorker}]
  /\ pc \in [Worker -> {"enter", "take", "handle", "neighbors", "handle_m",
                        "solve", "return", "count", "exited"}]
  /\ idx \in [Worker -> Coset \union {NoCoset}]
  /\ idx_m \in [Worker -> Coset \union {NoCoset}]
  /\ moves \in [Worker -> SUBSET Move]

(* A worker has a coset, and moves that start from it; the second coset is *)
(* never a smaller one.                                                    *)
CosetsInOrder ==
  \A w \in Worker :
    /\ pc[w] \in {"handle", "neighbors", "handle_m", "solve", "return", "count"} =>
         idx[w] \in Coset
    /\ pc[w] \in {"exited", "enter", "take", "return", "count"} => moves[w] = {}
    /\ \A m \in moves[w] : From[m] = idx[w]
    /\ pc[w] = "handle_m" => idx_m[w] \in Coset /\ idx[w] < idx_m[w]
    /\ pc[w] = "solve" => idx_m[w] \in Coset /\ idx[w] <= idx_m[w]

(* The handles of a worker, in the code the lifetimes of two objects.      *)
Holds(w, c) ==
  \/ /\ pc[w] \in {"neighbors", "handle_m", "solve", "return", "count"}
     /\ c = idx[w]
  \/ /\ pc[w] = "solve"
     /\ c = idx_m[w]

Owners ==
  /\ \A w \in Worker : mtx = w <=> pc[w] \in {"take", "count"}
  /\ \A w \in Worker, c \in Coset : ec_mutex[c] = w <=> Holds(w, c)

(* A move that has nothing left to find in the coset of either side.       *)
Covered(m) ==
  \A e \in There[m] \union Back[m] :
    before[e[1]] # Unsolved /\ e[3] = proven_min[CosetOf[e[2]]] =>
      length[e[2]] # Unsolved

(* The moves of a coset that was taken are covered, or a worker still has  *)
(* them; workers leave when all cosets are taken or a signal was reported. *)
MovesCovered ==
  phase = "running" /\ ~ canceled =>
    /\ \A m \in Move :
         From[m] < ec_idx => Covered(m) \/ \E w \in Worker : m \in moves[w]
    /\ \A w \in Worker : pc[w] = "exited" => ec_idx = N

RunState ==
  /\ \A w \in Worker : pc[w] # "exited" => phase = "running"
  /\ phase = "running" => outcome = "none"
  /\ \A x \in Cube : before[x] # Unsolved => length[x] # Unsolved

IInv ==
  /\ Types /\ Optimal!Sound
  /\ CosetsInOrder /\ Owners /\ MovesCovered /\ RunState
  /\ DoneCoversNeighbors

-----------------------------------------------------------------------------
(* A worker that needs a handle, and the coset it needs it for.            *)
Waiting(w) == pc[w] \in {"handle", "handle_m"}
Wanted(w) == IF pc[w] = "handle" THEN idx[w] ELSE idx_m[w]

(* A worker that waits for a handle of another one that waits, too, wants  *)
(* a smaller coset than that one: there is no circle.                      *)
NoCircularWait ==
  \A v, w \in Worker :
    Waiting(v) /\ Waiting(w) /\ ec_mutex[Wanted(v)] = w => Wanted(v) < Wanted(w)

(* What a worker's next step waits for is there.                           *)
CanGo(w) ==
  CASE pc[w] \in {"enter", "return"} -> mtx = NoWorker
    [] pc[w] = "handle" -> ec_mutex[idx[w]] = NoWorker
    [] pc[w] = "handle_m" -> ec_mutex[idx_m[w]] = NoWorker
    [] OTHER -> pc[w] # "exited"

(* As long as a worker is not done, a worker can take a step: the mutex of *)
(* the command and the handles never block everyone.                       *)
NoDeadlock ==
  (\E w \in Worker : pc[w] # "exited") => \E w \in Worker : CanGo(w)

-----------------------------------------------------------------------------
(* What neighborsolver::solve does to the database.                        *)

(* A sequence of the length that is to be proven next is a shortest one:   *)
(* the bound is below the distance, and no sequence is.                    *)
LEMMA SolvedLengths ==
  ASSUME Types, Optimal!Sound,
         NEW l \in [Cube -> Nat \union {Unsolved}],
         \A y \in Cube : l[y] = Unsolved => length[y] = Unsolved,
         NEW wraps \in SUBSET (Cube \X Cube \X Nat),
         \A e \in wraps : Dist[e[2]] <= e[3]
  PROVE  /\ Solved(l, wraps) \in [Cube -> Nat \union {Unsolved}]
         /\ \A y \in Cube : \/ Solved(l, wraps)[y] = l[y]
                            \/ l[y] = Unsolved /\ Solved(l, wraps)[y] = Dist[y]
         /\ \A e \in wraps :
              l[e[1]] # Unsolved /\ e[3] = proven_min[CosetOf[e[2]]] =>
                Solved(l, wraps)[e[2]] # Unsolved
<1>1. \A y \in Cube : /\ CosetOf[y] \in Coset /\ proven_min[CosetOf[y]] \in Nat
                      /\ Dist[y] \in Nat
  BY NeighborAssumption DEF Types
<1>2. ASSUME NEW y \in Cube, NEW x \in Cube, l[y] = Unsolved,
             <<x, y, proven_min[CosetOf[y]]>> \in wraps
      PROVE  proven_min[CosetOf[y]] = Dist[y]
  <2>1. Dist[y] <= proven_min[CosetOf[y]]
    BY <1>2
  <2>2. proven_min[CosetOf[y]] <= Dist[y]
    BY <1>1, <1>2 DEF Optimal!Sound, Optimal!Open
  <2>3. QED
    BY <1>1, <2>1, <2>2
<1>3. \A y \in Cube : \/ Solved(l, wraps)[y] = l[y]
                      \/ l[y] = Unsolved /\ Solved(l, wraps)[y] = Dist[y]
  BY <1>2 DEF Solved
<1>4. Solved(l, wraps) \in [Cube -> Nat \union {Unsolved}]
  BY <1>1 DEF Solved
<1>5. ASSUME NEW e \in wraps, l[e[1]] # Unsolved, e[3] = proven_min[CosetOf[e[2]]]
      PROVE  Solved(l, wraps)[e[2]] # Unsolved
  <2>1. /\ e[1] \in Cube /\ e[2] \in Cube
        /\ <<e[1], e[2], proven_min[CosetOf[e[2]]]>> \in wraps
    BY <1>5
  <2>2. CASE l[e[2]] = Unsolved
    <3>1. Solved(l, wraps)[e[2]] = proven_min[CosetOf[e[2]]]
      BY <1>5, <2>1, <2>2 DEF Solved
    <3>2. QED
      BY <1>1, <2>1, <3>1, NeighborAssumption
  <2>3. CASE l[e[2]] # Unsolved
    BY <2>1, <2>3 DEF Solved
  <2>4. QED
    BY <2>2, <2>3
<1>6. QED
  BY <1>3, <1>4, <1>5

(* A move forth and back.                                                  *)
LEMMA BothLengths ==
  ASSUME Types, Optimal!Sound, NEW m \in Move
  PROVE  /\ Both(length, m) \in [Cube -> Nat \union {Unsolved}]
         /\ \A y \in Cube : \/ Both(length, m)[y] = length[y]
                            \/ length[y] = Unsolved /\ Both(length, m)[y] = Dist[y]
         /\ \A e \in There[m] \union Back[m] :
              length[e[1]] # Unsolved /\ e[3] = proven_min[CosetOf[e[2]]] =>
                Both(length, m)[e[2]] # Unsolved
<1> DEFINE l == Solved(length, There[m])
<1>1. /\ There[m] \in SUBSET (Cube \X Cube \X Nat)
      /\ Back[m] \in SUBSET (Cube \X Cube \X Nat)
      /\ \A e \in There[m] : Dist[e[2]] <= e[3]
      /\ \A e \in Back[m] : Dist[e[2]] <= e[3]
  BY NeighborAssumption
<1>2. \A y \in Cube : Dist[y] # Unsolved
  BY NeighborAssumption
<1>3. /\ l \in [Cube -> Nat \union {Unsolved}]
      /\ \A y \in Cube : l[y] = length[y] \/ (length[y] = Unsolved /\ l[y] = Dist[y])
      /\ \A e \in There[m] :
           length[e[1]] # Unsolved /\ e[3] = proven_min[CosetOf[e[2]]] => l[e[2]] # Unsolved
  BY <1>1, SolvedLengths DEF Types
<1> HIDE DEF l
<1>4. \A y \in Cube : length[y] # Unsolved => l[y] # Unsolved
  BY <1>3
<1>5. /\ Solved(l, Back[m]) \in [Cube -> Nat \union {Unsolved}]
      /\ \A y \in Cube : \/ Solved(l, Back[m])[y] = l[y]
                         \/ l[y] = Unsolved /\ Solved(l, Back[m])[y] = Dist[y]
      /\ \A e \in Back[m] :
           l[e[1]] # Unsolved /\ e[3] = proven_min[CosetOf[e[2]]] =>
             Solved(l, Back[m])[e[2]] # Unsolved
  BY <1>1, <1>3, <1>4, SolvedLengths
<1>6. Both(length, m) = Solved(l, Back[m])
  BY DEF Both, l
<1>7. \A y \in Cube : \/ Both(length, m)[y] = length[y]
                      \/ length[y] = Unsolved /\ Both(length, m)[y] = Dist[y]
  BY <1>3, <1>5, <1>6
<1>8. \A e \in There[m] \union Back[m] : e[1] \in Cube /\ e[2] \in Cube
  BY <1>1
<1>9. ASSUME NEW e \in There[m] \union Back[m], length[e[1]] # Unsolved,
             e[3] = proven_min[CosetOf[e[2]]]
      PROVE  Both(length, m)[e[2]] # Unsolved
  <2>1. CASE e \in There[m]
    <3>1. l[e[2]] # Unsolved
      BY <1>3, <1>9, <2>1
    <3>2. QED
      BY <1>2, <1>5, <1>6, <1>8, <3>1
  <2>2. CASE e \in Back[m]
    BY <1>4, <1>5, <1>6, <1>8, <1>9, <2>2
  <2>3. QED
    BY <2>1, <2>2
<1>10. QED
  BY <1>5, <1>6, <1>7, <1>9

(* Steps of SolveMove, as OptimalStore sees them.                          *)
LEMMA DatabaseStep ==
  ASSUME IInv, [Next]_vars
  PROVE  [Optimal!Next]_database
<1>1. ASSUME NEW w \in Worker, SolveMove(w), length' # length
      PROVE  Optimal!Next
  <2>1. PICK m \in moves[w] : length' = Both(length, m)
    BY <1>1 DEF SolveMove
  <2>2. m \in Move
    BY <2>1 DEF IInv, Types
  <2> DEFINE X == {y \in Cube : length[y] = Unsolved /\ length'[y] # Unsolved}
  <2>3. /\ length' \in [Cube -> Nat \union {Unsolved}]
        /\ \A y \in Cube : \/ length'[y] = length[y]
                           \/ length[y] = Unsolved /\ length'[y] = Dist[y]
    BY <2>1, <2>2, BothLengths DEF IInv
  <2>4. \A y \in Cube : length'[y] = IF y \in X THEN Dist[y] ELSE length[y]
    BY <2>3
  <2>5. length' = [y \in Cube |-> IF y \in X THEN Dist[y] ELSE length[y]]
    BY <2>3, <2>4
  <2>6. Optimal!Solve(X)
    BY <1>1, <2>5 DEF Optimal!Solve, SolveMove
  <2>7. X \in SUBSET Cube
    OBVIOUS
  <2>8. QED
    BY <2>6, <2>7 DEF Optimal!Next
<1>2. ASSUME NEW w \in Worker, SolveMove(w), length' = length
      PROVE  UNCHANGED database
  BY <1>2 DEF SolveMove, database
<1>3. ASSUME NEW w \in Worker,
             \/ LockMtx(w) \/ Take(w) \/ LockCoset(w) \/ NextNeighbor(w)
             \/ LockNeighbor(w) \/ CountCoset(w)
      PROVE  UNCHANGED database
  BY <1>3 DEF LockMtx, Take, LockCoset, NextNeighbor, LockNeighbor, CountCoset
<1>4. CASE Start \/ Signal \/ Join \/ UNCHANGED vars
  BY <1>4 DEF Start, Signal, Join, vars
<1>5. QED
  BY <1>1, <1>2, <1>3, <1>4 DEF Next, WorkerStep

(* OptimalStore keeps the database sound, and what is solved is solved.    *)
LEMMA StoreStep ==
  ASSUME IInv, [Optimal!Next]_database, UNCHANGED proven_min
  PROVE  /\ length' \in [Cube -> Nat \union {Unsolved}]
         /\ Optimal!Sound'
         /\ \A x \in Cube : length[x] # Unsolved => length'[x] # Unsolved
<1>1. CASE UNCHANGED length
  BY <1>1 DEF IInv, Types, Optimal!Sound, Optimal!Open
<1>2. ASSUME NEW X \in SUBSET Cube, Optimal!Solve(X)
      PROVE  /\ length' \in [Cube -> Nat \union {Unsolved}]
             /\ Optimal!Sound'
             /\ \A x \in Cube : length[x] # Unsolved => length'[x] # Unsolved
  <2>1. \A x \in Cube : Dist[x] \in Nat /\ Dist[x] # Unsolved
    BY NeighborAssumption
  <2>2. \A x \in Cube : length'[x] = IF x \in X THEN Dist[x] ELSE length[x]
    BY <1>2 DEF Optimal!Solve
  <2>3. length' \in [Cube -> Nat \union {Unsolved}]
    BY <1>2, <2>1 DEF Optimal!Solve, IInv, Types
  <2>4. Optimal!Sound'
    BY <2>1, <2>2 DEF IInv, Optimal!Sound, Optimal!Open
  <2>5. QED
    BY <2>1, <2>2, <2>3, <2>4
<1>3. QED
  BY <1>1, <1>2 DEF Optimal!Next, Optimal!Raise, database

-----------------------------------------------------------------------------

LEMMA InitInvariant == Init => IInv
<1> SUFFICES ASSUME Init
             PROVE  IInv
  OBVIOUS
<1>1. length \in [Cube -> Nat \union {Unsolved}]
  <2>1. \A x \in Cube : length[x] \in {Unsolved, Dist[x]}
    BY DEF Init
  <2>2. length = [x \in Cube |-> length[x]]
    BY DEF Init
  <2>3. QED
    BY <2>1, <2>2, NeighborAssumption
<1>2. ec_idx \in 0 .. N
  BY NeighborAssumption DEF Init
<1>3. proven_min \in [Coset -> Bound]
  BY DEF Init
<1>4. /\ terminated \in BOOLEAN /\ canceled \in BOOLEAN
      /\ phase \in {"off", "running"}
      /\ outcome \in {"none", "done", "received terminate signal"}
      /\ mtx \in Worker \union {NoWorker}
      /\ ec_mutex \in [Coset -> Worker \union {NoWorker}]
  BY DEF Init
<1>5. /\ pc \in [Worker -> {"enter", "take", "handle", "neighbors", "handle_m",
                            "solve", "return", "count", "exited"}]
      /\ idx \in [Worker -> Coset \union {NoCoset}]
      /\ idx_m \in [Worker -> Coset \union {NoCoset}]
      /\ moves \in [Worker -> SUBSET Move]
      /\ before \in [Cube -> Nat \union {Unsolved}]
  BY <1>1 DEF Init
<1>6. Types
  BY <1>1, <1>2, <1>3, <1>4, <1>5 DEF Types
<1>7. Optimal!Sound
  BY DEF Init, Open, Optimal!Sound, Optimal!Open
<1>8. \A w \in Worker : pc[w] = "exited" /\ moves[w] = {}
  BY DEF Init
<1>9. CosetsInOrder
  BY <1>8 DEF CosetsInOrder
<1>10. Owners
  BY <1>8, NeighborAssumption DEF Init, Owners, Holds
<1>11. MovesCovered /\ RunState /\ DoneCoversNeighbors
  BY <1>8 DEF Init, MovesCovered, RunState, DoneCoversNeighbors
<1>12. QED
  BY <1>6, <1>7, <1>9, <1>10, <1>11 DEF IInv

(* Steps that only move a worker that stays at work, with its mutexes.     *)
LEMMA QuietStep ==
  ASSUME IInv,
         UNCHANGED <<database, phase, canceled, ec_idx, outcome, moves, before>>,
         \A w \in Worker : pc'[w] = "exited" <=> pc[w] = "exited"
  PROVE  /\ Optimal!Sound' /\ MovesCovered' /\ RunState' /\ DoneCoversNeighbors'
<1> USE DEF database
<1>1. Optimal!Sound'
  BY DEF IInv, Optimal!Sound, Optimal!Open
<1>2. MovesCovered'
  <2>1. \A m \in Move : Covered(m)' <=> Covered(m)
    BY DEF Covered
  <2>2. QED
    BY <2>1 DEF IInv, MovesCovered
<1>3. RunState'
  BY DEF IInv, RunState
<1>4. DoneCoversNeighbors'
  BY DEF IInv, DoneCoversNeighbors
<1>5. QED
  BY <1>1, <1>2, <1>3, <1>4

LEMMA StartInvariant ==
  ASSUME IInv, Start
  PROVE  IInv'
<1>1. /\ pc' = [w \in Worker |-> "enter"] /\ phase' = "running"
      /\ terminated' = FALSE /\ canceled' = FALSE
      /\ ec_idx' = 0 /\ outcome' = "none" /\ before' = length
      /\ UNCHANGED <<length, proven_min, mtx, ec_mutex, idx, idx_m, moves>>
  BY DEF Start, database, locks
<1>2. \A w \in Worker : pc[w] = "exited" /\ pc'[w] = "enter" /\ moves[w] = {}
  BY <1>1 DEF Start, IInv, RunState, CosetsInOrder
<1>3. Types'
  <2>1. terminated' \in BOOLEAN /\ canceled' \in BOOLEAN
    BY <1>1
  <2>2. ec_idx' \in 0 .. N
    BY <1>1, NeighborAssumption
  <2>3. pc' \in [Worker -> {"enter", "take", "handle", "neighbors", "handle_m",
                           "solve", "return", "count", "exited"}]
    BY <1>1
  <2>4. QED
    BY <1>1, <2>1, <2>2, <2>3 DEF IInv, Types
<1>4. Optimal!Sound'
  BY <1>1 DEF IInv, Optimal!Sound, Optimal!Open
<1>5. CosetsInOrder'
  BY <1>1, <1>2 DEF CosetsInOrder
<1>6. Owners'
  BY <1>1, <1>2 DEF IInv, Owners, Holds
<1>7. MovesCovered'
  <2>1. \A m \in Move : ~ (From[m] < 0)
    BY NeighborAssumption DEF Coset
  <2>2. QED
    BY <1>1, <1>2, <2>1 DEF MovesCovered
<1>8. RunState' /\ DoneCoversNeighbors'
  BY <1>1 DEF RunState, DoneCoversNeighbors
<1>9. QED
  BY <1>3, <1>4, <1>5, <1>6, <1>7, <1>8 DEF IInv

LEMMA SignalInvariant ==
  ASSUME IInv, Signal
  PROVE  IInv'
<1>1. /\ terminated' = TRUE
      /\ UNCHANGED <<database, phase, canceled, ec_idx, outcome, mtx, ec_mutex,
                     pc, idx, idx_m, moves, before>>
  BY DEF Signal, locks, local
<1>2. Types'
  <2>1. terminated' \in BOOLEAN
    BY <1>1
  <2>2. QED
    BY <1>1, <2>1 DEF IInv, Types, database
<1>3. CosetsInOrder' /\ Owners'
  BY <1>1 DEF IInv, CosetsInOrder, Owners, Holds
<1>4. QED
  BY <1>1, <1>2, <1>3, QuietStep DEF IInv

(* Without a worker, or with one that left early, "done" would be wrong.   *)
LEMMA JoinInvariant ==
  ASSUME IInv, Join
  PROVE  IInv'
<1>1. /\ \A w \in Worker : pc[w] = "exited"
      /\ phase = "running" /\ phase' = "off"
      /\ outcome' = IF canceled THEN "received terminate signal" ELSE "done"
      /\ UNCHANGED <<database, terminated, canceled, ec_idx, mtx, ec_mutex,
                     pc, idx, idx_m, moves, before>>
  BY DEF Join, locks, local
<1>2. Types'
  BY <1>1 DEF IInv, Types, database
<1>3. Optimal!Sound'
  BY <1>1 DEF IInv, Optimal!Sound, Optimal!Open, database
<1>4. CosetsInOrder' /\ Owners'
  BY <1>1 DEF IInv, CosetsInOrder, Owners, Holds
<1>5. MovesCovered' /\ RunState'
  BY <1>1 DEF IInv, MovesCovered, RunState, database
<1>6. DoneCoversNeighbors'
  <2>1. CASE canceled
    <3>1. outcome' # "done"
      BY <1>1, <2>1
    <3>2. QED
      BY <3>1 DEF DoneCoversNeighbors
  <2>2. CASE ~ canceled
    <3>1. ec_idx = N /\ \A w \in Worker : moves[w] = {}
      BY <1>1, <2>2, NeighborAssumption DEF IInv, MovesCovered, CosetsInOrder
    <3>2. \A m \in Move : From[m] < N
      BY NeighborAssumption DEF Coset
    <3>3. \A m \in Move : Covered(m)
      BY <1>1, <2>2, <3>1, <3>2 DEF IInv, MovesCovered
    <3>4. QED
      BY <1>1, <3>3 DEF Covered, DoneCoversNeighbors, database
  <2>3. QED
    BY <2>1, <2>2
<1>7. QED
  BY <1>2, <1>3, <1>4, <1>5, <1>6 DEF IInv

LEMMA LockMtxInvariant ==
  ASSUME IInv, NEW w \in Worker, LockMtx(w)
  PROVE  IInv'
<1>1. PICK b \in {"take", "count"} :
        /\ pc' = [pc EXCEPT ![w] = b]
        /\ b = "take" => pc[w] = "enter"
        /\ b = "count" => pc[w] = "return"
  BY DEF LockMtx, IInv, Types
<1>2. /\ pc[w] \in {"enter", "return"} /\ mtx = NoWorker /\ mtx' = w
      /\ UNCHANGED <<database, phase, terminated, canceled, ec_idx, outcome,
                     ec_mutex, idx, idx_m, moves, before>>
  BY DEF LockMtx
<1>3. pc'[w] = b /\ \A v \in Worker \ {w} : pc'[v] = pc[v]
  BY <1>1 DEF IInv, Types
<1>4. Types'
  <2>1. pc' \in [Worker -> {"enter", "take", "handle", "neighbors", "handle_m",
                           "solve", "return", "count", "exited"}]
    BY <1>1 DEF IInv, Types
  <2>2. QED
    BY <1>2, <2>1 DEF IInv, Types, database
<1>5. CosetsInOrder'
  BY <1>1, <1>2, <1>3 DEF IInv, CosetsInOrder
<1>6. Owners'
  <2>1. \A v \in Worker : pc[v] \notin {"take", "count"}
    BY <1>2, NeighborAssumption DEF IInv, Owners
  <2>2. \A v \in Worker : mtx' = v <=> pc'[v] \in {"take", "count"}
    BY <1>2, <1>3, <2>1
  <2>3. \A v \in Worker, c \in Coset : Holds(v, c)' <=> Holds(v, c)
    BY <1>1, <1>2, <1>3 DEF Holds
  <2>4. QED
    BY <1>2, <2>2, <2>3 DEF IInv, Owners
<1>7. QED
  BY <1>2, <1>3, <1>4, <1>5, <1>6, QuietStep DEF IInv

LEMMA TakeInvariant ==
  ASSUME IInv, NEW w \in Worker, Take(w)
  PROVE  IInv'
<1>1. /\ pc[w] = "take" /\ mtx' = NoWorker /\ mtx = w /\ moves[w] = {}
      /\ phase = "running" /\ outcome = "none"
      /\ UNCHANGED <<database, phase, terminated, canceled, outcome, ec_mutex,
                     idx_m, before>>
  BY DEF Take, IInv, Owners, CosetsInOrder, RunState
<1>2. PICK b \in {"handle", "exited"} : pc' = [pc EXCEPT ![w] = b]
  BY DEF Take
<1>3. pc'[w] = b /\ \A v \in Worker \ {w} : pc'[v] = pc[v]
  BY <1>2 DEF IInv, Types
<1>4. pc' \in [Worker -> {"enter", "take", "handle", "neighbors", "handle_m",
                         "solve", "return", "count", "exited"}]
  BY <1>2 DEF IInv, Types
<1>5. N \in Nat /\ ec_idx \in 0 .. N
  BY NeighborAssumption DEF IInv, Types
<1>6. Optimal!Sound'
  BY <1>1 DEF IInv, Optimal!Sound, Optimal!Open, database
<1>7. RunState'
  BY <1>1, <1>3 DEF IInv, RunState, database
<1>8. DoneCoversNeighbors'
  BY <1>1 DEF DoneCoversNeighbors
<1>9. \A m \in Move : Covered(m)' <=> Covered(m)
  BY <1>1 DEF Covered, database
<1>10. \A v \in Worker : mtx' = v <=> pc'[v] \in {"take", "count"}
  BY <1>1, <1>3, NeighborAssumption DEF IInv, Owners
<1>11. CASE ec_idx < N
  <2>1. /\ ec_idx' = ec_idx + 1
        /\ idx' = [idx EXCEPT ![w] = ec_idx]
        /\ moves' = [moves EXCEPT ![w] = {m \in Move : From[m] = ec_idx}]
        /\ pc'[w] = "handle"
    BY <1>11 DEF Take, IInv, Types
  <2>2. ec_idx \in Coset /\ ec_idx' \in 0 .. N
    BY <1>5, <1>11, <2>1 DEF Coset
  <2>3. /\ idx'[w] = ec_idx
        /\ moves'[w] = {m \in Move : From[m] = ec_idx}
        /\ \A v \in Worker \ {w} : idx'[v] = idx[v] /\ moves'[v] = moves[v]
    BY <2>1 DEF IInv, Types
  <2>4. Types'
    <3>1. idx' \in [Worker -> Coset \union {NoCoset}]
      BY <2>1, <2>2 DEF IInv, Types
    <3>2. moves' \in [Worker -> SUBSET Move]
      BY <2>1 DEF IInv, Types
    <3>3. mtx' \in Worker \union {NoWorker}
      BY <1>1
    <3>4. QED
      BY <1>1, <1>4, <2>2, <3>1, <3>2, <3>3 DEF IInv, Types, database
  <2>5. CosetsInOrder'
    <3>1. ASSUME NEW v \in Worker \ {w}
          PROVE  pc'[v] = pc[v] /\ idx'[v] = idx[v] /\ idx_m'[v] = idx_m[v] /\ moves'[v] = moves[v]
      BY <1>1, <1>3, <2>3
    <3>2. QED
      BY <2>1, <2>2, <2>3, <3>1 DEF IInv, CosetsInOrder
  <2>6. Owners'
    <3>1. \A v \in Worker, c \in Coset : Holds(v, c)' <=> Holds(v, c)
      BY <1>1, <1>3, <2>1, <2>3 DEF Holds
    <3>2. QED
      BY <1>1, <1>10, <3>1 DEF IInv, Owners
  <2>7. MovesCovered'
    <3>1. ASSUME ~ canceled, NEW m \in Move, From[m] < ec_idx'
          PROVE  Covered(m) \/ \E v \in Worker : m \in moves'[v]
      <4>1. CASE From[m] = ec_idx
        BY <2>3, <4>1
      <4>2. CASE From[m] # ec_idx
        <5>1. From[m] \in Int
          BY NeighborAssumption DEF Coset
        <5>2. From[m] < ec_idx
          BY <1>5, <2>1, <3>1, <4>2, <5>1
        <5>3. Covered(m) \/ \E v \in Worker : m \in moves[v]
          BY <1>1, <3>1, <5>2 DEF IInv, MovesCovered
        <5>4. QED
          BY <1>1, <2>3, <5>3
      <4>3. QED
        BY <4>1, <4>2
    <3>2. ~ canceled => \A v \in Worker : pc'[v] # "exited"
      BY <1>1, <1>3, <1>5, <1>11, <2>1 DEF IInv, MovesCovered
    <3>3. QED
      BY <1>1, <1>9, <3>1, <3>2 DEF MovesCovered
  <2>8. QED
    BY <1>6, <1>7, <1>8, <2>4, <2>5, <2>6, <2>7 DEF IInv
<1>12. CASE ~ (ec_idx < N)
  <2>1. pc'[w] = "exited" /\ UNCHANGED <<ec_idx, idx, moves>>
    BY <1>12 DEF Take, IInv, Types
  <2>2. ec_idx = N
    BY <1>5, <1>12
  <2>3. Types'
    <3>1. mtx' \in Worker \union {NoWorker}
      BY <1>1
    <3>2. QED
      BY <1>1, <1>4, <2>1, <3>1 DEF IInv, Types, database
  <2>4. CosetsInOrder'
    BY <1>1, <1>3, <2>1 DEF IInv, CosetsInOrder
  <2>5. Owners'
    <3>1. \A v \in Worker, c \in Coset : Holds(v, c)' <=> Holds(v, c)
      BY <1>1, <1>3, <2>1 DEF Holds
    <3>2. QED
      BY <1>1, <1>10, <3>1 DEF IInv, Owners
  <2>6. MovesCovered'
    BY <1>1, <1>3, <1>9, <2>1, <2>2 DEF IInv, MovesCovered
  <2>7. QED
    BY <1>6, <1>7, <1>8, <2>3, <2>4, <2>5, <2>6 DEF IInv
<1>13. QED
  BY <1>11, <1>12

LEMMA LockCosetInvariant ==
  ASSUME IInv, NEW w \in Worker, LockCoset(w)
  PROVE  IInv'
<1> DEFINE c == idx[w]
<1>1. /\ pc[w] = "handle" /\ ec_mutex[c] = NoWorker /\ c \in Coset
      /\ ec_mutex' = [ec_mutex EXCEPT ![c] = w]
      /\ pc' = [pc EXCEPT ![w] = "neighbors"]
      /\ UNCHANGED <<database, phase, terminated, canceled, ec_idx, outcome,
                     mtx, idx, idx_m, moves, before>>
  BY DEF LockCoset, IInv, CosetsInOrder
<1> HIDE DEF c
<1>2. /\ pc'[w] = "neighbors" /\ \A v \in Worker \ {w} : pc'[v] = pc[v]
      /\ ec_mutex'[c] = w /\ \A d \in Coset \ {c} : ec_mutex'[d] = ec_mutex[d]
  BY <1>1 DEF IInv, Types
<1>3. Types'
  <2>1. pc' \in [Worker -> {"enter", "take", "handle", "neighbors", "handle_m",
                           "solve", "return", "count", "exited"}]
    BY <1>1 DEF IInv, Types
  <2>2. ec_mutex' \in [Coset -> Worker \union {NoWorker}]
    BY <1>1 DEF IInv, Types
  <2>3. QED
    BY <1>1, <2>1, <2>2 DEF IInv, Types, database
<1>4. CosetsInOrder'
  BY <1>1, <1>2 DEF IInv, CosetsInOrder, c
<1>5. Owners'
  <2>1. \A v \in Worker : mtx' = v <=> pc'[v] \in {"take", "count"}
    BY <1>1, <1>2 DEF IInv, Owners
  <2>2. \A v \in Worker \ {w}, d \in Coset : Holds(v, d)' <=> Holds(v, d)
    BY <1>1, <1>2 DEF Holds
  <2>3. \A d \in Coset : Holds(w, d)' <=> d = c
    BY <1>1, <1>2 DEF Holds, c
  <2>4. \A d \in Coset : ~ Holds(w, d)
    BY <1>1 DEF Holds
  <2>5. \A v \in Worker : ~ Holds(v, c)
    BY <1>1, NeighborAssumption DEF IInv, Owners
  <2>6. ASSUME NEW v \in Worker, NEW d \in Coset
        PROVE  ec_mutex'[d] = v <=> Holds(v, d)'
    BY <1>2, <2>2, <2>3, <2>4, <2>5 DEF IInv, Owners
  <2>7. QED
    BY <2>1, <2>6 DEF Owners
<1>6. QED
  BY <1>1, <1>2, <1>3, <1>4, <1>5, QuietStep DEF IInv

LEMMA NextNeighborInvariant ==
  ASSUME IInv, NEW w \in Worker, NextNeighbor(w)
  PROVE  IInv'
<1>1. /\ pc[w] = "neighbors" /\ idx[w] \in Coset
      /\ \A m \in moves[w] : m \in Move /\ From[m] = idx[w]
      /\ UNCHANGED <<database, phase, terminated, canceled, ec_idx, outcome,
                     mtx, ec_mutex, idx, moves, before>>
  BY DEF NextNeighbor, IInv, Types, CosetsInOrder, locks
<1>2. PICK b \in {"return", "solve", "handle_m"}, i \in Coset \union {NoCoset} :
        /\ pc' = [pc EXCEPT ![w] = b]
        /\ idx_m' = [idx_m EXCEPT ![w] = i]
        /\ b = "return" => moves[w] = {}
        /\ b = "solve" => i = idx[w]
        /\ b = "handle_m" => i \in Coset /\ idx[w] < i
  <2>1. CASE moves[w] = {} /\ pc' = [pc EXCEPT ![w] = "return"] /\ UNCHANGED idx_m
    <3>1. idx_m' = [idx_m EXCEPT ![w] = idx_m[w]] /\ idx_m[w] \in Coset \union {NoCoset}
      BY <2>1 DEF IInv, Types
    <3>2. QED
      BY <2>1, <3>1
  <2>2. CASE \E m \in moves[w] :
               /\ \A k \in moves[w] : To[m] <= To[k]
               /\ idx_m' = [idx_m EXCEPT ![w] = To[m]]
               /\ pc' = [pc EXCEPT ![w] = First(w, To[m])]
    <3>1. PICK m \in moves[w] : /\ idx_m' = [idx_m EXCEPT ![w] = To[m]]
                                /\ pc' = [pc EXCEPT ![w] = First(w, To[m])]
      BY <2>2
    <3>2. To[m] \in Coset /\ idx[w] <= To[m]
      BY <1>1, NeighborAssumption
    <3>3. CASE To[m] = idx[w]
      BY <3>1, <3>2, <3>3 DEF First
    <3>4. CASE To[m] # idx[w]
      <4>1. idx[w] < To[m]
        BY <1>1, <3>2, <3>4, NeighborAssumption DEF Coset
      <4>2. QED
        BY <3>1, <3>2, <3>4, <4>1 DEF First
    <3>5. QED
      BY <3>3, <3>4
  <2>3. QED
    BY <2>1, <2>2 DEF NextNeighbor
<1>3. /\ pc'[w] = b /\ idx_m'[w] = i
      /\ \A v \in Worker \ {w} : pc'[v] = pc[v] /\ idx_m'[v] = idx_m[v]
  BY <1>2 DEF IInv, Types
<1>4. Types'
  <2>1. pc' \in [Worker -> {"enter", "take", "handle", "neighbors", "handle_m",
                           "solve", "return", "count", "exited"}]
    BY <1>2 DEF IInv, Types
  <2>2. idx_m' \in [Worker -> Coset \union {NoCoset}]
    BY <1>2 DEF IInv, Types
  <2>3. QED
    BY <1>1, <2>1, <2>2 DEF IInv, Types, database
<1>5. CosetsInOrder'
  <2>1. idx[w] \in Nat /\ idx[w] <= idx[w]
    BY <1>1 DEF Coset
  <2>2. QED
    BY <1>1, <1>2, <1>3, <2>1 DEF IInv, CosetsInOrder
<1>6. Owners'
  <2>1. \A v \in Worker, d \in Coset : Holds(v, d)' <=> Holds(v, d)
    BY <1>1, <1>2, <1>3 DEF Holds
  <2>2. \A v \in Worker : mtx' = v <=> pc'[v] \in {"take", "count"}
    BY <1>1, <1>2, <1>3 DEF IInv, Owners
  <2>3. QED
    BY <1>1, <2>1, <2>2 DEF IInv, Owners
<1>7. QED
  BY <1>1, <1>2, <1>3, <1>4, <1>5, <1>6, QuietStep DEF IInv

LEMMA LockNeighborInvariant ==
  ASSUME IInv, NEW w \in Worker, LockNeighbor(w)
  PROVE  IInv'
<1> DEFINE c == idx_m[w]
<1>1. /\ pc[w] = "handle_m" /\ ec_mutex[c] = NoWorker
      /\ c \in Coset /\ idx[w] \in Coset /\ idx[w] < c
      /\ ec_mutex' = [ec_mutex EXCEPT ![c] = w]
      /\ pc' = [pc EXCEPT ![w] = "solve"]
      /\ UNCHANGED <<database, phase, terminated, canceled, ec_idx, outcome,
                     mtx, idx, idx_m, moves, before>>
  BY DEF LockNeighbor, IInv, CosetsInOrder
<1> HIDE DEF c
<1>2. /\ pc'[w] = "solve" /\ \A v \in Worker \ {w} : pc'[v] = pc[v]
      /\ ec_mutex'[c] = w /\ \A d \in Coset \ {c} : ec_mutex'[d] = ec_mutex[d]
  BY <1>1 DEF IInv, Types
<1>3. Types'
  <2>1. pc' \in [Worker -> {"enter", "take", "handle", "neighbors", "handle_m",
                           "solve", "return", "count", "exited"}]
    BY <1>1 DEF IInv, Types
  <2>2. ec_mutex' \in [Coset -> Worker \union {NoWorker}]
    BY <1>1 DEF IInv, Types
  <2>3. QED
    BY <1>1, <2>1, <2>2 DEF IInv, Types, database
<1>4. CosetsInOrder'
  <2>1. idx[w] <= c
    BY <1>1 DEF Coset
  <2>2. QED
    BY <1>1, <1>2, <2>1 DEF IInv, CosetsInOrder, c
<1>5. Owners'
  <2>1. \A v \in Worker : mtx' = v <=> pc'[v] \in {"take", "count"}
    BY <1>1, <1>2 DEF IInv, Owners
  <2>2. \A v \in Worker \ {w}, d \in Coset : Holds(v, d)' <=> Holds(v, d)
    BY <1>1, <1>2 DEF Holds
  <2>3. \A d \in Coset : Holds(w, d)' <=> d = c \/ Holds(w, d)
    BY <1>1, <1>2 DEF Holds, c
  <2>4. \A v \in Worker : ~ Holds(v, c)
    BY <1>1, NeighborAssumption DEF IInv, Owners
  <2>5. ASSUME NEW v \in Worker, NEW d \in Coset
        PROVE  ec_mutex'[d] = v <=> Holds(v, d)'
    BY <1>2, <2>2, <2>3, <2>4 DEF IInv, Owners
  <2>6. QED
    BY <2>1, <2>5 DEF Owners
<1>6. QED
  BY <1>1, <1>2, <1>3, <1>4, <1>5, QuietStep DEF IInv

(* One move: what it wraps is covered, what was covered stays covered.     *)
LEMMA MoveInvariant ==
  ASSUME IInv, NEW w \in Worker, SolveMove(w), NEW m \in moves[w],
         length' = Both(length, m),
         moves' = [moves EXCEPT ![w] = @ \ {m}],
         UNCHANGED <<pc, idx_m, ec_mutex>>
  PROVE  IInv'
<1>1. /\ pc[w] = "solve" /\ m \in Move /\ phase = "running" /\ outcome = "none"
      /\ UNCHANGED <<proven_min, phase, terminated, canceled, ec_idx, outcome,
                     mtx, idx, before>>
  BY DEF SolveMove, IInv, Types, RunState
<1>2. /\ length' \in [Cube -> Nat \union {Unsolved}] /\ Optimal!Sound'
      /\ \A x \in Cube : length[x] # Unsolved => length'[x] # Unsolved
  <2>1. [Next]_vars
    BY DEF Next, WorkerStep
  <2>2. QED
    BY <1>1, <2>1, DatabaseStep, StoreStep
<1>3. /\ moves'[w] = moves[w] \ {m}
      /\ \A v \in Worker \ {w} : moves'[v] = moves[v]
      /\ moves' \in [Worker -> SUBSET Move]
  BY DEF IInv, Types
<1>4. Types'
  BY <1>1, <1>2, <1>3 DEF IInv, Types
<1>5. CosetsInOrder'
  BY <1>1, <1>3 DEF IInv, CosetsInOrder
<1>6. Owners'
  BY <1>1 DEF IInv, Owners, Holds
<1>7. RunState'
  BY <1>1, <1>2 DEF IInv, RunState
<1>8. DoneCoversNeighbors'
  BY <1>1 DEF DoneCoversNeighbors
<1>9. \A k \in Move : \A e \in There[k] \union Back[k] : e[1] \in Cube /\ e[2] \in Cube
  BY NeighborAssumption
<1>10. ASSUME NEW k \in Move, Covered(k)
       PROVE  Covered(k)'
  BY <1>1, <1>2, <1>9, <1>10 DEF Covered
<1>11. Covered(m)'
  <2>1. ASSUME NEW e \in There[m] \union Back[m], before[e[1]] # Unsolved,
               e[3] = proven_min[CosetOf[e[2]]]
        PROVE  length'[e[2]] # Unsolved
    <3>1. length[e[1]] # Unsolved
      BY <1>1, <1>9, <2>1 DEF IInv, RunState
    <3>2. QED
      BY <1>1, <2>1, <3>1, BothLengths DEF IInv
  <2>2. QED
    BY <1>1, <2>1 DEF Covered
<1>12. MovesCovered'
  <2>1. ASSUME ~ canceled, NEW k \in Move, From[k] < ec_idx
        PROVE  Covered(k)' \/ \E v \in Worker : k \in moves'[v]
    <3>1. Covered(k) \/ \E v \in Worker : k \in moves[v]
      BY <1>1, <2>1 DEF IInv, MovesCovered
    <3>2. QED
      BY <1>3, <1>10, <1>11, <3>1
  <2>2. QED
    BY <1>1, <2>1 DEF IInv, MovesCovered
<1>13. QED
  BY <1>2, <1>4, <1>5, <1>6, <1>7, <1>8, <1>12 DEF IInv

(* The end of a pair of cosets: the handle of the second one is dropped.   *)
LEMMA PairDoneInvariant ==
  ASSUME IInv, NEW w \in Worker, SolveMove(w),
         pc' = [pc EXCEPT ![w] = "neighbors"],
         idx_m' = [idx_m EXCEPT ![w] = NoCoset],
         ec_mutex' = IF idx_m[w] = idx[w] THEN ec_mutex
                     ELSE [ec_mutex EXCEPT ![idx_m[w]] = NoWorker],
         UNCHANGED <<length, moves>>
  PROVE  IInv'
<1> DEFINE c == idx_m[w]
<1>1. /\ pc[w] = "solve" /\ c \in Coset /\ idx[w] \in Coset /\ Holds(w, c)
      /\ UNCHANGED <<proven_min, phase, terminated, canceled, ec_idx, outcome,
                     mtx, idx, before>>
  BY DEF SolveMove, IInv, CosetsInOrder, Holds
<1>2. /\ pc'[w] = "neighbors" /\ idx_m'[w] = NoCoset
      /\ \A v \in Worker \ {w} : pc'[v] = pc[v] /\ idx_m'[v] = idx_m[v]
  BY DEF IInv, Types
<1>3. /\ ec_mutex' \in [Coset -> Worker \union {NoWorker}]
      /\ \A d \in Coset \ {c} : ec_mutex'[d] = ec_mutex[d]
      /\ c # idx[w] => ec_mutex'[c] = NoWorker
      /\ c = idx[w] => ec_mutex'[c] = ec_mutex[c]
  <2>1. CASE c = idx[w]
    BY <2>1 DEF IInv, Types
  <2>2. CASE c # idx[w]
    BY <1>1, <2>2 DEF IInv, Types
  <2>3. QED
    BY <2>1, <2>2
<1>4. Types'
  <2>1. pc' \in [Worker -> {"enter", "take", "handle", "neighbors", "handle_m",
                           "solve", "return", "count", "exited"}]
    BY DEF IInv, Types
  <2>2. idx_m' \in [Worker -> Coset \union {NoCoset}]
    BY DEF IInv, Types
  <2>3. QED
    BY <1>1, <1>3, <2>1, <2>2 DEF IInv, Types
<1>5. CosetsInOrder'
  <2>1. ASSUME NEW v \in Worker \ {w}
        PROVE  pc'[v] = pc[v] /\ idx'[v] = idx[v] /\ idx_m'[v] = idx_m[v] /\ moves'[v] = moves[v]
    BY <1>1, <1>2
  <2>2. QED
    BY <1>1, <1>2, <2>1 DEF IInv, CosetsInOrder
<1>6. Owners'
  <2>1. \A v \in Worker : mtx' = v <=> pc'[v] \in {"take", "count"}
    BY <1>1, <1>2 DEF IInv, Owners
  <2>2. \A v \in Worker \ {w}, d \in Coset : Holds(v, d)' <=> Holds(v, d)
    BY <1>1, <1>2 DEF Holds
  <2>3. \A d \in Coset : Holds(w, d)' <=> d = idx[w]
    BY <1>1, <1>2 DEF Holds
  <2>4. \A d \in Coset : Holds(w, d) <=> d = idx[w] \/ d = c
    BY <1>1 DEF Holds
  <2>5. ec_mutex[c] = w
    BY <1>1 DEF IInv, Owners
  <2> HIDE DEF c
  <2>6. ASSUME NEW v \in Worker, NEW d \in Coset
        PROVE  ec_mutex'[d] = v <=> Holds(v, d)'
    <3>1. CASE d = c /\ c # idx[w]
      <4>1. ec_mutex'[d] # v
        BY <1>3, <3>1, NeighborAssumption
      <4>2. v # w => ~ Holds(v, d)
        BY <2>5, <3>1 DEF IInv, Owners
      <4>3. QED
        BY <2>2, <2>3, <3>1, <4>1, <4>2
    <3>2. CASE ~ (d = c /\ c # idx[w])
      <4>1. ec_mutex'[d] = ec_mutex[d]
        BY <1>3, <3>2
      <4>2. ec_mutex[d] = v <=> Holds(v, d)
        BY DEF IInv, Owners
      <4>3. Holds(v, d)' <=> Holds(v, d)
        BY <2>2, <2>3, <2>4, <3>2
      <4>4. QED
        BY <4>1, <4>2, <4>3
    <3>3. QED
      BY <3>1, <3>2
  <2>7. QED
    BY <2>1, <2>6 DEF Owners
<1>7. UNCHANGED <<database, phase, canceled, ec_idx, outcome, moves, before>>
  BY <1>1 DEF database
<1>8. QED
  BY <1>1, <1>2, <1>4, <1>5, <1>6, <1>7, QuietStep DEF IInv

LEMMA SolveMoveInvariant ==
  ASSUME IInv, NEW w \in Worker, SolveMove(w)
  PROVE  IInv'
BY MoveInvariant, PairDoneInvariant DEF SolveMove

LEMMA CountCosetInvariant ==
  ASSUME IInv, NEW w \in Worker, CountCoset(w)
  PROVE  IInv'
<1> DEFINE c == idx[w]
<1>1. /\ pc[w] = "count" /\ c \in Coset /\ mtx = w /\ ec_mutex[c] = w
      /\ phase = "running" /\ outcome = "none"
      /\ ec_mutex' = [ec_mutex EXCEPT ![c] = NoWorker]
      /\ idx' = [idx EXCEPT ![w] = NoCoset]
      /\ UNCHANGED <<database, phase, terminated, ec_idx, outcome, idx_m, moves, before>>
  BY DEF CountCoset, IInv, CosetsInOrder, Owners, Holds, RunState
<1> HIDE DEF c
<1>2. PICK b \in {"take", "exited"} :
        /\ pc' = [pc EXCEPT ![w] = b]
        /\ b = "exited" => canceled' = TRUE /\ mtx' = NoWorker
        /\ b = "take" => UNCHANGED <<canceled, mtx>>
  BY DEF CountCoset
<1>3. /\ pc'[w] = b /\ idx'[w] = NoCoset
      /\ \A v \in Worker \ {w} : pc'[v] = pc[v] /\ idx'[v] = idx[v]
  BY <1>1, <1>2 DEF IInv, Types
<1>4. /\ ec_mutex' \in [Coset -> Worker \union {NoWorker}]
      /\ ec_mutex'[c] = NoWorker /\ \A d \in Coset \ {c} : ec_mutex'[d] = ec_mutex[d]
  BY <1>1 DEF IInv, Types
<1>5. Types'
  <2>1. canceled' \in BOOLEAN
    BY <1>2 DEF IInv, Types
  <2>2. mtx' \in Worker \union {NoWorker}
    BY <1>2 DEF IInv, Types
  <2>3. pc' \in [Worker -> {"enter", "take", "handle", "neighbors", "handle_m",
                           "solve", "return", "count", "exited"}]
    BY <1>2 DEF IInv, Types
  <2>4. idx' \in [Worker -> Coset \union {NoCoset}]
    BY <1>1 DEF IInv, Types
  <2>5. QED
    BY <1>1, <1>4, <2>1, <2>2, <2>3, <2>4 DEF IInv, Types, database
<1>6. Optimal!Sound'
  BY <1>1 DEF IInv, Optimal!Sound, Optimal!Open, database
<1>7. CosetsInOrder'
  <2>1. ASSUME NEW v \in Worker \ {w}
        PROVE  pc'[v] = pc[v] /\ idx'[v] = idx[v] /\ idx_m'[v] = idx_m[v] /\ moves'[v] = moves[v]
    BY <1>1, <1>3
  <2>2. moves'[w] = {}
    BY <1>1 DEF IInv, CosetsInOrder
  <2>3. QED
    BY <1>3, <2>1, <2>2 DEF IInv, CosetsInOrder
<1>8. Owners'
  <2>1. \A v \in Worker : mtx' = v <=> pc'[v] \in {"take", "count"}
    <3>1. \A v \in Worker \ {w} : pc'[v] \notin {"take", "count"}
      BY <1>1, <1>3 DEF IInv, Owners
    <3>2. QED
      BY <1>1, <1>2, <1>3, <3>1, NeighborAssumption
  <2>2. \A v \in Worker \ {w}, d \in Coset : Holds(v, d)' <=> Holds(v, d)
    BY <1>1, <1>3 DEF Holds
  <2>3. \A d \in Coset : ~ Holds(w, d)'
    BY <1>3 DEF Holds
  <2>4. \A d \in Coset : Holds(w, d) <=> d = c
    BY <1>1 DEF Holds, c
  <2>5. \A v \in Worker \ {w} : ~ Holds(v, c)
    BY <1>1 DEF IInv, Owners
  <2>6. ASSUME NEW v \in Worker, NEW d \in Coset
        PROVE  ec_mutex'[d] = v <=> Holds(v, d)'
    BY <1>4, <2>2, <2>3, <2>4, <2>5, NeighborAssumption DEF IInv, Owners
  <2>7. QED
    BY <2>1, <2>6 DEF Owners
<1>9. MovesCovered'
  <2>1. \A m \in Move : Covered(m)' <=> Covered(m)
    BY <1>1 DEF Covered, database
  <2>2. b = "exited" => canceled'
    BY <1>2
  <2>3. CASE b = "take"
    BY <1>1, <1>2, <1>3, <2>1, <2>3 DEF IInv, MovesCovered
  <2>4. QED
    BY <1>2, <2>2, <2>3 DEF MovesCovered
<1>10. RunState'
  BY <1>1, <1>3 DEF IInv, RunState, database
<1>11. DoneCoversNeighbors'
  BY <1>1 DEF DoneCoversNeighbors
<1>12. QED
  BY <1>5, <1>6, <1>7, <1>8, <1>9, <1>10, <1>11 DEF IInv

-----------------------------------------------------------------------------

LEMMA StepInvariant == IInv /\ [Next]_vars => IInv'
<1> SUFFICES ASSUME IInv, [Next]_vars
             PROVE  IInv'
  OBVIOUS
<1>1. CASE Start \/ Signal \/ Join
  BY <1>1, StartInvariant, SignalInvariant, JoinInvariant
<1>2. ASSUME NEW w \in Worker, WorkerStep(w)
      PROVE  IInv'
  <2>1. CASE LockMtx(w) \/ Take(w) \/ LockCoset(w)
    BY <2>1, LockMtxInvariant, TakeInvariant, LockCosetInvariant
  <2>2. CASE NextNeighbor(w) \/ LockNeighbor(w)
    BY <2>2, NextNeighborInvariant, LockNeighborInvariant
  <2>3. CASE SolveMove(w) \/ CountCoset(w)
    BY <2>3, SolveMoveInvariant, CountCosetInvariant
  <2>4. QED
    BY <1>2, <2>1, <2>2, <2>3 DEF WorkerStep
<1>3. CASE UNCHANGED vars
  <2>1. UNCHANGED <<database, phase, terminated, canceled, ec_idx, outcome, mtx,
                    ec_mutex, pc, idx, idx_m, moves, before>>
    BY <1>3 DEF vars, locks, local
  <2>2. Types'
    BY <2>1 DEF IInv, Types, database
  <2>3. CosetsInOrder' /\ Owners'
    BY <2>1 DEF IInv, CosetsInOrder, Owners, Holds
  <2>4. QED
    BY <2>1, <2>2, <2>3, QuietStep DEF IInv
<1>4. QED
  BY <1>1, <1>2, <1>3 DEF Next

(* The inductive invariant holds in every reachable state.                 *)
THEOREM Invariance == Spec => []IInv
BY InitInvariant, StepInvariant, PTL DEF Spec

(* A run that prints "done" has recorded every neighbor, in either         *)
(* direction, of every solution the database had when the run started.     *)
THEOREM NeighborsCovered == Spec => []DoneCoversNeighbors
<1>1. IInv => DoneCoversNeighbors
  BY DEF IInv
<1>2. QED
  BY <1>1, Invariance, PTL

(* Every neighbor that is recorded gets its optimal length.                *)
THEOREM Refinement == Spec => ImplementsOptimalStore
<1>1. Init => Optimal!Init
  BY InitInvariant DEF IInv, Types, Optimal!Init
<1>2. IInv /\ [Next]_vars => [Optimal!Next]_<<length, proven_min>>
  BY DatabaseStep DEF database
<1>3. QED
  BY <1>1, <1>2, Invariance, PTL DEF Spec, ImplementsOptimalStore, Optimal!Spec

-----------------------------------------------------------------------------
(* Why the run never stops half way.                                       *)

(* A worker that holds a handle and waits is at its second handle.         *)
LEMMA NoCircle == IInv => NoCircularWait
<1> SUFFICES ASSUME IInv, NEW v \in Worker, NEW w \in Worker,
                    Waiting(v), Waiting(w), ec_mutex[Wanted(v)] = w
             PROVE  Wanted(v) < Wanted(w)
  BY DEF NoCircularWait
<1>1. Wanted(v) \in Coset
  BY DEF IInv, CosetsInOrder, Waiting, Wanted
<1>2. Holds(w, Wanted(v))
  BY <1>1 DEF IInv, Owners
<1>3. pc[w] = "handle_m" /\ Wanted(v) = idx[w]
  BY <1>2 DEF Waiting, Holds
<1>4. QED
  BY <1>3 DEF IInv, CosetsInOrder, Wanted

(* A nonempty set of numbers has a least one.                              *)
LEMMA LeastNumber ==
  ASSUME NEW S \in SUBSET Nat, S # {}
  PROVE  \E m \in S : \A n \in S : m <= n
<1> DEFINE R == OpToRel(<, Nat)
<1>1. IsWellFoundedOn(R, Nat)
  BY NatLessThanWellFounded
<1>2. \A m, n \in Nat : <<m, n>> \in R <=> m < n
  BY DEF OpToRel
<1> HIDE DEF R
<1>3. PICK m \in S : \A n \in S : ~ (<<n, m>> \in R)
  BY <1>1, WFMin, Zenon
<1>4. \A n \in S : m <= n
  <2>1. TAKE n \in S
  <2>2. m \in Nat /\ n \in Nat /\ ~ (n < m)
    BY <1>2, <1>3
  <2>3. QED
    BY <2>2
<1>5. QED
  BY <1>4

(* Of the workers that wait for handles, one wants the greatest coset.     *)
LEMMA GreatestWanted ==
  ASSUME IInv, NEW u \in Worker, Waiting(u)
  PROVE  \E v \in Worker : Waiting(v) /\ \A w \in Worker : Waiting(w) => Wanted(w) <= Wanted(v)
<1>1. N \in Nat
  BY NeighborAssumption
<1>2. \A w \in Worker : Waiting(w) => Wanted(w) \in 0 .. N - 1
  BY DEF IInv, CosetsInOrder, Waiting, Wanted, Coset
<1> DEFINE Rest(w) == N - Wanted(w)
           S == {Rest(w) : w \in {x \in Worker : Waiting(x)}}
<1>3. \A w \in Worker : Waiting(w) => Rest(w) \in Nat
  BY <1>1, <1>2
<1>4. S \in SUBSET Nat /\ S # {}
  BY <1>3
<1>5. PICK m \in S : \A n \in S : m <= n
  BY <1>4, LeastNumber
<1>6. PICK v \in Worker : Waiting(v) /\ m = Rest(v)
  BY <1>5
<1>7. ASSUME NEW w \in Worker, Waiting(w)
      PROVE  Wanted(w) <= Wanted(v)
  <2>1. Rest(v) <= Rest(w)
    BY <1>5, <1>6, <1>7
  <2>2. QED
    BY <1>1, <1>2, <1>6, <1>7, <2>1
<1>8. QED
  BY <1>6, <1>7

LEMMA SomeoneGoes == IInv => NoDeadlock
<1> SUFFICES ASSUME IInv, NEW u \in Worker, pc[u] # "exited"
             PROVE  \E w \in Worker : CanGo(w)
  BY DEF NoDeadlock
<1>1. ASSUME NEW w \in Worker, pc[w] \in {"take", "neighbors", "solve", "count"}
      PROVE  CanGo(w)
  BY <1>1 DEF CanGo
<1>2. CASE mtx \in Worker
  <2>1. pc[mtx] \in {"take", "count"}
    BY <1>2 DEF IInv, Owners
  <2>2. QED
    BY <1>1, <1>2, <2>1
<1>3. ASSUME mtx \notin Worker, NEW w \in Worker, pc[w] \in {"enter", "return"}
      PROVE  CanGo(w)
  <2>1. mtx = NoWorker
    BY <1>3 DEF IInv, Types
  <2>2. QED
    BY <1>3, <2>1 DEF CanGo
<1>4. ASSUME \A w \in Worker : Waiting(w) \/ pc[w] = "exited"
      PROVE  \E w \in Worker : CanGo(w)
  <2>1. Waiting(u)
    BY <1>4
  <2>2. PICK v \in Worker : /\ Waiting(v)
                            /\ \A w \in Worker : Waiting(w) => Wanted(w) <= Wanted(v)
    BY <2>1, GreatestWanted
  <2>3. Wanted(v) \in Coset /\ Wanted(v) \in Int
    BY <2>2 DEF IInv, CosetsInOrder, Waiting, Wanted, Coset
  <2>4. ec_mutex[Wanted(v)] \notin Worker
    <3>1. SUFFICES ASSUME NEW w \in Worker, ec_mutex[Wanted(v)] = w
                   PROVE  FALSE
      OBVIOUS
    <3>2. Holds(w, Wanted(v))
      BY <2>3, <3>1 DEF IInv, Owners
    <3>3. Waiting(w)
      BY <1>4, <3>2 DEF Holds
    <3>4. Wanted(v) < Wanted(w)
      BY <2>2, <3>1, <3>3, NoCircle DEF NoCircularWait
    <3>5. Wanted(w) <= Wanted(v) /\ Wanted(w) \in Int
      BY <2>2, <3>3 DEF IInv, CosetsInOrder, Waiting, Wanted, Coset
    <3>6. QED
      BY <2>3, <3>4, <3>5
  <2>5. ec_mutex[Wanted(v)] = NoWorker
    BY <2>3, <2>4 DEF IInv, Types
  <2>6. CanGo(v)
    BY <2>2, <2>5 DEF CanGo, Waiting, Wanted
  <2>7. QED
    BY <2>6
<1>5. ASSUME NEW w \in Worker, ~ (Waiting(w) \/ pc[w] = "exited")
      PROVE  pc[w] \in {"take", "neighbors", "solve", "count", "enter", "return"}
  BY <1>5 DEF IInv, Types, Waiting
<1>6. QED
  BY <1>1, <1>2, <1>3, <1>4, <1>5

(* Handles are taken in one order, so waiting workers form no circle.      *)
THEOREM HandlesInOrder == Spec => []NoCircularWait
BY NoCircle, Invariance, PTL

(* As long as a worker is not done, some worker finds free what it waits   *)
(* for: the safety part of RunEnds.                                        *)
THEOREM NeverBlocked == Spec => []NoDeadlock
BY SomeoneGoes, Invariance, PTL
=============================================================================
