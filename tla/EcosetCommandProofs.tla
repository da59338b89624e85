------------------------ MODULE EcosetCommandProofs ------------------------
(***************************************************************************)
(* Proofs about EcosetCommand.tla for any number of workers, cosets and    *)
(* cubes, any sequences that solve them and any depths: whatever it does   *)
(* to the database OptimalStore allows, and when it says "done" it has     *)
(* searched, and shown, every coset.                                       *)
(***************************************************************************)
EXTENDS EcosetCommand, FiniteSetTheorems, WellFoundedInduction, TLAPS

(* Workers that have a coset, and count in progress only after it.         *)
Holding == {w \in Worker : pc[w] \in {"pass", "finish"}}

Types ==
  /\ phase \in {"off", "running", "stop", "notify", "join"}
  /\ depth \in Depths \union {0}
  /\ terminated \in BOOLEAN /\ canceled \in BOOLEAN /\ done \in BOOLEAN
  /\ progress \in Int
  /\ display \in {"loop", "show", "show last", "go wait", "wait", "returned"}
  /\ ec_idx \in 0 .. N
  /\ outcome \in {"none", "done", "received terminate signal"}
  /\ pc \in [Worker -> {"start", "pass", "finish", "exited"}]
  /\ idx \in [Worker -> Coset \union {NoCoset}]
  /\ search_depth \in [Worker -> Nat]

DatabaseTypes ==
  /\ length \in [Cube -> Nat \union {Unsolved}]
  /\ proven_min \in [Coset -> Bound]

(* Workers only run in a run, and leave for good when all cosets are taken *)
(* or one has seen the signal.                                             *)
WorkersRun ==
  /\ \A w \in Worker : pc[w] # "exited" => phase = "running"
  /\ phase # "off" /\ ~ canceled =>
       \A w \in Worker : pc[w] = "exited" => ec_idx = N
  /\ canceled => terminated

(* A worker has a coset that has been taken; a pass is for the bound of    *)
(* its coset: nobody else raises it.                                       *)
PassBound ==
  /\ \A w \in Holding : idx[w] \in Coset /\ idx[w] < ec_idx
  /\ \A v, w \in Holding : idx[v] = idx[w] => v = w
  /\ \A w \in Worker : pc[w] = "pass" => search_depth[w] = proven_min[idx[w]]

(* A coset that was taken has no work left, but for those in a pass and    *)
(* those whose worker is about to report the signal that ended its pass.   *)
TakenDone ==
  phase # "off" /\ ~ canceled =>
    \A c \in Coset : c < ec_idx /\ NeedsWork(c) =>
      \E w \in Holding : idx[w] = c /\ (pc[w] = "finish" => terminated)

(* Every coset that was taken is counted, or in the hands of one worker.   *)
ProgressCounts ==
  phase # "off" => progress + Cardinality(Holding) = ec_idx

(* The status thread returns only after stop(), with the last count.       *)
DisplayFollows ==
  /\ phase = "off" => display = "returned"
  /\ phase \in {"running", "stop"} =>
       ~ done /\ display \notin {"show last", "returned"}
  /\ phase \in {"notify", "join"} =>
       done /\ (display \in {"show last", "returned"} => shown = progress)

(* What a run says, it says at its end.                                    *)
OutcomeLast ==
  /\ phase # "off" => outcome = "none"
  /\ DoneMeansSearched
  /\ LastShown

IInv ==
  /\ Types /\ DatabaseTypes /\ Optimal!Sound
  /\ WorkersRun /\ PassBound /\ TakenDone /\ ProgressCounts
  /\ DisplayFollows /\ OutcomeLast

-----------------------------------------------------------------------------
(* The CHOOSEs of EcosetCommand.                                           *)

LEMMA LeastNumber ==
  ASSUME NEW S \in SUBSET Nat, S # {}
  PROVE  \E m \in S : \A n \in S : m <= n
<1> DEFINE R == OpToRel(<, Nat)
<1>1. IsWellFoundedOn(R, Nat)
  BY NatLessThanWellFounded
<1>2. \A m, n \in Nat : <<m, n>> \in R <=> m < n
  BY DEF OpToRel
<1> HIDE DEF R
<1>3. PICK m \in S : \A n \in S : ~ (<<n, m>> \in R)
  BY <1>1, WFMin, Zenon
<1>4. \A n \in S : m <= n
  <2>1. TAKE n \in S
  <2>2. m \in Nat /\ n \in Nat /\ ~ (n < m)
    BY <1>2, <1>3
  <2>3. QED
    BY <2>2
<1>5. QED
  BY <1>4

(* The greatest number of a finite set has the fewest above it.            *)
LEMMA GreatestNumber ==
  ASSUME NEW S \in SUBSET Nat, S # {}, IsFiniteSet(S)
  PROVE  \E m \in S : \A n \in S : n <= m
<1> DEFINE Above(m) == {n \in S : m < n}
           Counts == {Cardinality(Above(m)) : m \in S}
<1>1. \A m \in S : IsFiniteSet(Above(m)) /\ Cardinality(Above(m)) \in Nat
  BY FS_Subset, FS_CardinalityType
<1>2. PICK m \in S : \A n \in S : Cardinality(Above(m)) <= Cardinality(Above(n))
  <2>1. Counts \in SUBSET Nat /\ Counts # {}
    BY <1>1
  <2>2. PICK k \in Counts : \A l \in Counts : k <= l
    BY <2>1, LeastNumber
  <2>3. QED
    BY <2>2
<1>3. ASSUME NEW n \in S, m < n
      PROVE  FALSE
  <2>1. \A j, k \in S : k \in Above(j) <=> j < k
    OBVIOUS
  <2>2. \A j \in S : j \in Nat /\ Above(j) \subseteq S
    OBVIOUS
  <2> HIDE DEF Above
  <2>4. n \in Above(m) /\ n \notin Above(n)
    BY <1>3, <2>1, <2>2
  <2>5. \A k \in S : k \in Above(n) => k \in Above(m)
    BY <1>3, <2>1, <2>2
  <2>3. /\ Cardinality(Above(n)) <= Cardinality(Above(m))
        /\ Cardinality(Above(m)) # Cardinality(Above(n))
    BY <1>1, <2>2, <2>4, <2>5, FS_Subset
  <2>6. QED
    BY <1>1, <1>2, <2>3
<1>4. \A n \in S : n <= m
  <2>1. TAKE n \in S
  <2>2. m \in Nat /\ n \in Nat /\ ~ (m < n)
    BY <1>3
  <2>3. QED
    BY <2>2
<1>5. QED
  BY <1>4

(* The distance is the least length there is.                              *)
LEMMA DistIsLeast ==
  ASSUME NEW x \in Cube
  PROVE  Dist[x] \in Lengths[x] /\ Dist[x] \in Nat /\ \A e \in Lengths[x] : Dist[x] <= e
<1>1. Lengths[x] \in SUBSET Nat /\ Lengths[x] # {}
  BY EcosetAssumption
<1>2. \E d \in Lengths[x] : \A e \in Lengths[x] : d <= e
  BY <1>1, LeastNumber
<1>3. Dist[x] = CHOOSE d \in Lengths[x] : \A e \in Lengths[x] : d <= e
  BY DEF Dist
<1>4. Dist[x] \in Lengths[x] /\ \A e \in Lengths[x] : Dist[x] <= e
  BY <1>2, <1>3
<1>5. QED
  BY <1>1, <1>4

(* A pass at a depth that the command allows raises the bound to a value   *)
(* of Bound.                                                               *)
LEMMA BoundReached ==
  /\ Bound \subseteq Nat
  /\ \A d \in Depths, n \in Nat : n <= d => n + 1 \in Bound
<1> DEFINE top == CHOOSE d \in Depths : \A e \in Depths : e <= d
<1>1. \E d \in Depths : \A e \in Depths : e <= d
  BY EcosetAssumption, GreatestNumber
<1>2. top \in Depths /\ \A e \in Depths : e <= top
  BY <1>1
<1>3. Bound = 0 .. top + 1
  BY DEF Bound
<1> HIDE DEF top
<1>4. top \in Nat /\ \A d \in Depths : d \in Nat
  BY <1>2, EcosetAssumption
<1>5. ASSUME NEW d \in Depths, NEW n \in Nat, n <= d
      PROVE  n + 1 \in Bound
  <2>1. d \in Nat /\ d <= top
    BY <1>2, <1>4
  <2>2. QED
    BY <1>3, <1>4, <1>5, <2>1
<1>6. QED
  BY <1>3, <1>4, <1>5

(* The loop over the cosets takes the next one that needs work.            *)
LEMMA NextCoset ==
  ASSUME NEW S \in SUBSET Coset, S # {}
  PROVE  LET c == CHOOSE c \in S : \A d \in S : c <= d IN
         c \in S /\ \A d \in S : c <= d
<1>1. S \in SUBSET Nat
  BY EcosetAssumption DEF Coset
<1>2. \E c \in S : \A d \in S : c <= d
  BY <1>1, LeastNumber
<1>3. QED
  BY <1>2

-----------------------------------------------------------------------------
(* What a step does to the database.                                       *)

LEMMA InitDatabase == Init => DatabaseTypes /\ Optimal!Init
<1> SUFFICES ASSUME Init
             PROVE  DatabaseTypes /\ Optimal!Init
  OBVIOUS
<1>1. \A x \in Cube : length[x] \in {Unsolved, Dist[x]}
  BY DEF Init
<1>2. length \in [Cube -> Nat \union {Unsolved}]
  <2>1. length = [x \in Cube |-> length[x]]
    BY DEF Init
  <2>2. QED
    BY <1>1, <2>1, DistIsLeast
<1>3. proven_min \in [Coset -> Bound]
  BY DEF Init
<1>4. Optimal!Sound
  BY DEF Init, Optimal!Sound, Optimal!Open, Open
<1>5. QED
  BY <1>2, <1>3, <1>4 DEF DatabaseTypes, Optimal!Init

(* A cube that a pass finds has no shorter sequence: the cubes open in its *)
(* coset are as far as the pass.                                           *)
LEMMA CandidateSolves ==
  ASSUME IInv, NEW w \in Worker, NEW x \in Cube, Candidate(w, x)
  PROVE  Optimal!Solve({x})
<1>1. /\ pc[w] = "pass" /\ x \in Open(idx[w]) /\ search_depth[w] \in Lengths[x]
      /\ length' = [length EXCEPT ![x] = search_depth[w]]
      /\ UNCHANGED proven_min
  BY DEF Candidate
<1>2. idx[w] \in Coset /\ search_depth[w] = proven_min[idx[w]] /\ search_depth[w] \in Nat
  BY <1>1 DEF IInv, PassBound, Holding, Types
<1>3. search_depth[w] <= Dist[x]
  BY <1>1, <1>2 DEF IInv, Optimal!Sound, Optimal!Open, Open
<1>4. search_depth[w] = Dist[x]
  BY <1>1, <1>2, <1>3, DistIsLeast
<1>5. length[x] = Unsolved
  BY <1>1 DEF Open
<1>6. length' = [y \in Cube |-> IF y \in {x} THEN Dist[y] ELSE length[y]]
  BY <1>1, <1>4 DEF IInv, DatabaseTypes
<1>7. QED
  BY <1>1, <1>5, <1>6 DEF Optimal!Solve

(* A pass that has come to its end has left no cube at its depth.          *)
LEMMA EndPassRaises ==
  ASSUME IInv, NEW w \in Worker, EndPass(w)
  PROVE  /\ idx[w] \in Coset /\ search_depth[w] + 1 \in Bound
         /\ proven_min' = [proven_min EXCEPT ![idx[w]] = search_depth[w] + 1]
         /\ Optimal!Raise(idx[w], search_depth[w] + 1)
<1> DEFINE c == idx[w]
           d == search_depth[w]
<1>1. /\ pc[w] = "pass" /\ d <= depth
      /\ \A x \in Open(c) : d \notin Lengths[x]
      /\ proven_min' = [proven_min EXCEPT ![c] = IF @ < d + 1 THEN d + 1 ELSE @]
      /\ UNCHANGED length
  BY DEF EndPass
<1>2. c \in Coset /\ d = proven_min[c] /\ d \in Nat
  BY <1>1 DEF IInv, PassBound, Holding, Types
<1>3. d + 1 \in Bound
  <2>1. CASE depth \in Depths
    BY <1>1, <1>2, <2>1, BoundReached
  <2>2. CASE depth = 0
    <3>1. PICK e \in Depths : e \in Nat
      BY EcosetAssumption
    <3>2. d <= e
      BY <1>1, <1>2, <2>2, <3>1
    <3>3. QED
      BY <1>2, <3>1, <3>2, BoundReached
  <2>3. QED
    BY <2>1, <2>2 DEF IInv, Types
<1>4. ASSUME NEW x \in Open(c)
      PROVE  d + 1 <= Dist[x]
  <2>1. x \in Cube /\ CosetOf[x] = c /\ length[x] = Unsolved
    BY DEF Open
  <2>2. d <= Dist[x]
    BY <1>2, <2>1 DEF IInv, Optimal!Sound, Optimal!Open
  <2>3. d # Dist[x] /\ Dist[x] \in Nat
    BY <1>1, <2>1, DistIsLeast
  <2>4. QED
    BY <1>2, <2>2, <2>3
<1>5. proven_min' = [proven_min EXCEPT ![c] = d + 1] /\ proven_min[c] < d + 1
  <2>1. proven_min[c] < d + 1
    BY <1>2
  <2>2. QED
    BY <1>1, <2>1, Zenon
<1>6. Optimal!Raise(c, d + 1)
  BY <1>1, <1>4, <1>5 DEF Optimal!Raise, Optimal!Open, Open
<1>7. QED
  BY <1>2, <1>3, <1>5, <1>6

LEMMA DatabaseStep ==
  ASSUME IInv, [Next]_vars
  PROVE  [Optimal!Next]_database
<1>1. ASSUME NEW w \in Worker, NEW x \in Cube, Candidate(w, x)
      PROVE  Optimal!Next
  <2>1. Optimal!Solve({x}) /\ {x} \in SUBSET Cube
    BY <1>1, CandidateSolves
  <2>2. QED
    BY <2>1 DEF Optimal!Next
<1>2. ASSUME NEW w \in Worker, EndPass(w)
      PROVE  Optimal!Next
  BY <1>2, EndPassRaises DEF Optimal!Next
<1>3. ASSUME NEW w \in Worker, Abandon(w)
      PROVE  UNCHANGED database
  BY <1>3 DEF Abandon, CutShort, database
<1>4. ASSUME NEW w \in Worker, Begin(w) \/ EndSolve(w) \/ Finish(w)
      PROVE  UNCHANGED database
  BY <1>4 DEF Begin, EndSolve, Finish
<1>5. ASSUME NEW d \in Depths, Start(d)
      PROVE  UNCHANGED database
  BY <1>5 DEF Start
<1>6. CASE Signal \/ Kill \/ Join \/ ShowProgress \/ UNCHANGED vars
  BY <1>6 DEF Signal, Kill, Join, Stop, ShowProgress, vars
<1>7. QED
  BY <1>1, <1>2, <1>3, <1>4, <1>5, <1>6 DEF Next, WorkerStep

(* OptimalStore keeps the database sound.                                  *)
LEMMA StoreStep ==
  ASSUME DatabaseTypes, Optimal!Sound, [Optimal!Next]_database
  PROVE  DatabaseTypes' /\ Optimal!Sound'
<1>1. CASE UNCHANGED database
  BY <1>1 DEF database, DatabaseTypes, Optimal!Sound, Optimal!Open
<1>2. ASSUME NEW X \in SUBSET Cube, Optimal!Solve(X)
      PROVE  DatabaseTypes' /\ Optimal!Sound'
  <2>1. \A x \in Cube : length'[x] = IF x \in X THEN Dist[x] ELSE length[x]
    BY <1>2 DEF Optimal!Solve
  <2>2. length' \in [Cube -> Nat \union {Unsolved}]
    BY <1>2, DistIsLeast DEF Optimal!Solve, DatabaseTypes
  <2>3. \A x \in Cube : length'[x] = Unsolved => length[x] = Unsolved
    BY <2>1, DistIsLeast, EcosetAssumption
  <2>4. Optimal!Sound'
    BY <1>2, <2>1, <2>3 DEF Optimal!Sound, Optimal!Open, Optimal!Solve
  <2>5. QED
    BY <1>2, <2>2, <2>4 DEF DatabaseTypes, Optimal!Solve
<1>3. ASSUME NEW c \in Coset, NEW b \in Bound, Optimal!Raise(c, b)
      PROVE  DatabaseTypes' /\ Optimal!Sound'
  <2>1. proven_min' = [proven_min EXCEPT ![c] = b] /\ length' = length
    BY <1>3 DEF Optimal!Raise
  <2>2. DatabaseTypes'
    BY <2>1 DEF DatabaseTypes
  <2>3. Optimal!Sound'
    BY <1>3, <2>1 DEF Optimal!Sound, Optimal!Open, Optimal!Raise, DatabaseTypes
  <2>4. QED
    BY <2>2, <2>3
<1>4. QED
  BY <1>1, <1>2, <1>3 DEF Optimal!Next

(* Work that is done stays done.                                           *)
LEMMA WorkShrinks ==
  ASSUME DatabaseTypes, [Optimal!Next]_database, depth' = depth,
         depth \in Nat, NEW c \in Coset, NeedsWork(c)'
  PROVE  NeedsWork(c)
<1>1. \A b \in Coset : /\ proven_min[b] \in Nat /\ proven_min'[b] \in Nat
                        /\ proven_min'[b] >= proven_min[b]
  <2>1. proven_min \in [Coset -> Nat]
    BY BoundReached DEF DatabaseTypes
  <2>2. ASSUME NEW a \in Coset, NEW e \in Bound, Optimal!Raise(a, e)
        PROVE  \A b \in Coset : proven_min'[b] \in Nat /\ proven_min'[b] >= proven_min[b]
    <3>1. proven_min' = [proven_min EXCEPT ![a] = e] /\ proven_min[a] < e /\ e \in Nat
      BY <2>2, BoundReached DEF Optimal!Raise
    <3>2. QED
      BY <2>1, <3>1
  <2>3. CASE UNCHANGED proven_min
    BY <2>1, <2>3
  <2>4. QED
    BY <2>1, <2>2, <2>3 DEF Optimal!Next, Optimal!Solve, database
<1>2. \A x \in Cube : length'[x] = Unsolved => length[x] = Unsolved
  <2>1. ASSUME NEW X \in SUBSET Cube, Optimal!Solve(X)
        PROVE  \A x \in Cube : length'[x] = Unsolved => length[x] = Unsolved
    BY <2>1, DistIsLeast, EcosetAssumption DEF Optimal!Solve
  <2>2. CASE UNCHANGED length
    BY <2>2
  <2>3. QED
    BY <2>1, <2>2 DEF Optimal!Next, Optimal!Raise, database
<1>3. Open(c)' \subseteq Open(c)
  BY <1>2 DEF Open
<1>4. proven_min'[c] <= depth => proven_min[c] <= depth
  BY <1>1
<1>5. QED
  BY <1>3, <1>4 DEF NeedsWork

-----------------------------------------------------------------------------
(* Each action keeps the invariant; the database is dealt with above.      *)

Control == /\ Types /\ WorkersRun /\ PassBound /\ TakenDone /\ ProgressCounts
           /\ DisplayFollows /\ OutcomeLast

LEMMA Numbers ==
  ASSUME IInv
  PROVE  /\ N \in Nat /\ depth \in Nat /\ progress \in Int
         /\ ec_idx \in Nat /\ ec_idx <= N
<1>1. depth \in Depths \/ depth = 0
  BY DEF IInv, Types
<1>2. \A d \in Depths : d \in Nat
  BY EcosetAssumption
<1>3. ec_idx \in 0 .. N /\ progress \in Int
  BY DEF IInv, Types
<1>4. N \in Nat
  BY EcosetAssumption
<1>5. ec_idx \in Nat /\ ec_idx <= N
  BY <1>3, <1>4
<1>6. depth \in Nat
  BY <1>1, <1>2
<1>7. QED
  BY <1>3, <1>4, <1>5, <1>6

LEMMA CountHolding ==
  /\ IsFiniteSet(Holding) /\ Cardinality(Holding) \in Nat
  /\ Holding = {} => Cardinality(Holding) = 0
<1>1. Holding \in SUBSET Worker
  BY DEF Holding
<1>2. QED
  BY <1>1, EcosetAssumption, FS_Subset, FS_CardinalityType, FS_EmptySet

LEMMA InitControl == Init => Control
<1> SUFFICES ASSUME Init
             PROVE  Control
  OBVIOUS
<1> USE DEF Init, InitStatus
<1>1. Types
  <2>1. 0 \in 0 .. N
    BY EcosetAssumption
  <2>2. pc \in [Worker -> {"start", "pass", "finish", "exited"}]
    OBVIOUS
  <2>3. idx \in [Worker -> Coset \union {NoCoset}]
    OBVIOUS
  <2>4. search_depth \in [Worker -> Nat]
    OBVIOUS
  <2>5. terminated \in BOOLEAN /\ canceled \in BOOLEAN /\ done \in BOOLEAN
    OBVIOUS
  <2>6. QED
    BY <2>1, <2>2, <2>3, <2>4, <2>5 DEF Types
<1>2. WorkersRun
  BY DEF WorkersRun
<1>3. PassBound
  BY DEF PassBound, Holding
<1>4. TakenDone
  BY DEF TakenDone
<1>5. ProgressCounts
  BY DEF ProgressCounts
<1>6. DisplayFollows
  BY DEF DisplayFollows
<1>7. OutcomeLast
  BY DEF OutcomeLast, DoneMeansSearched, LastShown
<1>8. QED
  BY <1>1, <1>2, <1>3, <1>4, <1>5, <1>6, <1>7 DEF Control

LEMMA StartControl ==
  ASSUME IInv, NEW d \in Depths, Start(d)
  PROVE  Control'
<1> USE DEF Start, StartStatus
<1>1. Types'
  <2>1. 0 \in 0 .. N
    BY EcosetAssumption
  <2>2. pc' \in [Worker -> {"start", "pass", "finish", "exited"}]
    OBVIOUS
  <2>3. terminated' \in BOOLEAN /\ canceled' \in BOOLEAN /\ done' \in BOOLEAN
    OBVIOUS
  <2>4. idx' \in [Worker -> Coset \union {NoCoset}] /\ search_depth' \in [Worker -> Nat]
    BY DEF IInv, Types
  <2>5. depth' \in Depths \union {0} /\ progress' \in Int
    OBVIOUS
  <2>6. /\ phase' \in {"off", "running", "stop", "notify", "join"}
        /\ display' \in {"loop", "show", "show last", "go wait", "wait", "returned"}
        /\ outcome' \in {"none", "done", "received terminate signal"}
    OBVIOUS
  <2>7. ec_idx' \in 0 .. N
    BY <2>1
  <2>8. QED
    BY <2>2, <2>3, <2>4, <2>5, <2>6, <2>7 DEF Types
<1>2. WorkersRun'
  BY DEF WorkersRun
<1>3. Holding' = {}
  BY DEF Holding
<1>4. PassBound'
  BY <1>3 DEF PassBound
<1>5. TakenDone'
  BY EcosetAssumption DEF TakenDone, Coset
<1>6. ProgressCounts'
  BY <1>3, FS_EmptySet DEF ProgressCounts
<1>7. DisplayFollows'
  BY DEF DisplayFollows
<1>8. OutcomeLast'
  BY DEF OutcomeLast, DoneMeansSearched, LastShown
<1>9. QED
  BY <1>1, <1>2, <1>4, <1>5, <1>6, <1>7, <1>8 DEF Control

LEMMA KillControl ==
  ASSUME IInv, Kill
  PROVE  Control'
<1> USE DEF Kill
<1>1. Types'
  BY EcosetAssumption DEF IInv, Types
<1>2. WorkersRun'
  BY DEF IInv, WorkersRun
<1>3. PassBound'
  BY DEF PassBound, Holding
<1>4. TakenDone' /\ ProgressCounts' /\ DisplayFollows'
  BY DEF TakenDone, ProgressCounts, DisplayFollows
<1>5. OutcomeLast'
  BY DEF IInv, OutcomeLast, DoneMeansSearched, LastShown
<1>6. QED
  BY <1>1, <1>2, <1>3, <1>4, <1>5 DEF Control

LEMMA SignalControl ==
  ASSUME IInv, Signal
  PROVE  Control'
<1> USE DEF Signal, status
<1>1. Types'
  BY DEF IInv, Types
<1>2. WorkersRun'
  BY DEF IInv, WorkersRun
<1>3. Holding' = Holding /\ database' = database /\ depth' = depth
  BY DEF Holding
<1>4. PassBound'
  BY <1>3 DEF IInv, PassBound, database
<1>5. TakenDone'
  BY <1>3 DEF IInv, TakenDone, NeedsWork, Open, database
<1>6. ProgressCounts'
  BY <1>3 DEF IInv, ProgressCounts
<1>7. DisplayFollows'
  BY DEF IInv, DisplayFollows
<1>8. OutcomeLast'
  BY DEF IInv, OutcomeLast, DoneMeansSearched, LastShown
<1>9. QED
  BY <1>1, <1>2, <1>4, <1>5, <1>6, <1>7, <1>8 DEF Control

LEMMA DisplayControl ==
  ASSUME IInv, ShowProgress
  PROVE  Control'
<1> USE DEF ShowProgress, process, database
<1>1. UNCHANGED <<progress, done>>
  BY DEF DisplayStep, Loop, Show, Wait, Timeout
<1>2. Types'
  BY DEF IInv, Types, DisplayStep, Loop, Show, Wait, Timeout
<1>3. Holding' = Holding
  BY DEF Holding
<1>4. WorkersRun' /\ PassBound' /\ TakenDone' /\ ProgressCounts'
  BY <1>1, <1>3 DEF IInv, WorkersRun, PassBound, TakenDone, ProgressCounts,
                    NeedsWork, Open
<1>5. DisplayFollows'
  <2>1. CASE Loop
    BY <2>1 DEF IInv, DisplayFollows, Loop
  <2>2. CASE Show
    <3>1. CASE display = "show last"
      BY <2>2, <3>1 DEF IInv, Types, DisplayFollows, Show
    <3>2. CASE display = "show" /\ done
      BY <2>2, <3>2 DEF IInv, Types, DisplayFollows, Show
    <3>3. CASE display = "show" /\ ~ done
      BY <2>2, <3>3 DEF IInv, Types, DisplayFollows, Show
    <3>4. QED
      BY <2>2, <3>1, <3>2, <3>3 DEF Show
  <2>3. CASE Wait
    BY <2>3 DEF IInv, DisplayFollows, Wait
  <2>5. CASE Timeout
    BY <2>5 DEF IInv, DisplayFollows, Timeout
  <2>4. QED
    BY <2>1, <2>2, <2>3, <2>5 DEF DisplayStep
<1>6. OutcomeLast'
  <2>1. CASE phase = "off"
    BY <2>1 DEF IInv, DisplayFollows, DisplayStep, Loop, Show, Wait, Timeout
  <2>2. CASE phase # "off"
    BY <2>2 DEF IInv, OutcomeLast, DoneMeansSearched, LastShown
  <2>3. QED
    BY <2>1, <2>2
<1>7. QED
  BY <1>2, <1>4, <1>5, <1>6 DEF Control

(* Steps of one worker leave the other workers alone, the outcome open and *)
(* the status thread where it is.                                          *)
LEMMA StepOfWorker ==
  ASSUME IInv, NEW w \in Worker, pc[w] # "exited",
         phase' = phase, outcome' = outcome, done' = done, display' = display,
         shown' = shown
  PROVE  phase = "running" /\ DisplayFollows' /\ OutcomeLast'
<1>1. phase = "running"
  BY DEF IInv, WorkersRun
<1>2. DisplayFollows'
  BY <1>1 DEF IInv, DisplayFollows
<1>3. outcome' = "none"
  BY <1>1 DEF IInv, OutcomeLast
<1>4. OutcomeLast'
  BY <1>1, <1>3 DEF OutcomeLast, DoneMeansSearched, LastShown
<1>5. QED
  BY <1>1, <1>2, <1>4

LEMMA CandidateControl ==
  ASSUME IInv, NEW w \in Worker, NEW x \in Cube, Candidate(w, x)
  PROVE  Control'
<1> USE DEF Candidate, process, status
<1>1. Types'
  BY DEF IInv, Types
<1>2. Holding' = Holding
  BY DEF Holding
<1>3. WorkersRun' /\ PassBound' /\ ProgressCounts'
  BY <1>2 DEF IInv, WorkersRun, PassBound, ProgressCounts
<1>4. DisplayFollows' /\ OutcomeLast'
  BY StepOfWorker
<1>5. depth \in Nat /\ [Optimal!Next]_database
  <2>1. Next
    BY DEF Next, WorkerStep
  <2>2. QED
    BY <2>1, DatabaseStep, Numbers
<1>6. \A c \in Coset : NeedsWork(c)' => NeedsWork(c)
  BY <1>5, WorkShrinks DEF IInv
<1>7. TakenDone'
  BY <1>2, <1>6 DEF IInv, TakenDone
<1>8. QED
  BY <1>1, <1>3, <1>4, <1>7 DEF Control

LEMMA EndPassControl ==
  ASSUME IInv, NEW w \in Worker, EndPass(w)
  PROVE  Control'
<1>1. /\ pc[w] = "pass" /\ w \in Holding /\ idx[w] \in Coset /\ search_depth[w] \in Nat
      /\ search_depth' = [search_depth EXCEPT ![w] = search_depth[w] + 1]
      /\ pc' = [pc EXCEPT ![w] = IF Open(idx[w]) = {} THEN "finish" ELSE "pass"]
      /\ UNCHANGED <<length, process, status, idx>>
  BY EndPassRaises DEF EndPass, Holding, IInv, Types
<1>2. proven_min' = [proven_min EXCEPT ![idx[w]] = search_depth[w] + 1]
  BY EndPassRaises
<1> USE DEF process, status
<1>3. Types'
  <2>1. search_depth' \in [Worker -> Nat]
    <3>1. search_depth[w] + 1 \in Nat
      BY <1>1
    <3>2. search_depth \in [Worker -> Nat]
      BY DEF IInv, Types
    <3>3. QED
      BY <1>1, <3>1, <3>2, Zenon
  <2>2. pc' \in [Worker -> {"start", "pass", "finish", "exited"}]
    BY <1>1 DEF IInv, Types
  <2>3. QED
    BY <1>1, <2>1, <2>2 DEF IInv, Types
<1>4. Holding' = Holding
  BY <1>1 DEF Holding, IInv, Types
<1>5. DisplayFollows' /\ OutcomeLast'
  BY <1>1, StepOfWorker
<1>6. WorkersRun'
  <2>1. \A v \in Worker : pc'[v] = "exited" <=> pc[v] = "exited"
    BY <1>1 DEF IInv, Types
  <2>2. QED
    BY <1>1, <2>1 DEF IInv, WorkersRun
<1>7. ProgressCounts'
  BY <1>1, <1>4 DEF IInv, ProgressCounts
<1>8. PassBound'
  <2>1. /\ \A v \in Holding : idx'[v] \in Coset /\ idx'[v] < ec_idx'
        /\ \A v, u \in Holding : idx'[v] = idx'[u] => v = u
    BY <1>1 DEF IInv, PassBound
  <2>2. ASSUME NEW v \in Worker, pc'[v] = "pass"
        PROVE  search_depth'[v] = proven_min'[idx'[v]]
    <3>1. CASE v = w
      BY <1>1, <1>2, <3>1 DEF IInv, Types, DatabaseTypes
    <3>2. CASE v # w
      <4>1. pc[v] = "pass" /\ v \in Holding /\ search_depth'[v] = search_depth[v]
        BY <1>1, <2>2, <3>2 DEF Holding, IInv, Types
      <4>2. idx[v] # idx[w] /\ search_depth[v] = proven_min[idx[v]] /\ idx[v] \in Coset
        BY <1>1, <3>2, <4>1 DEF IInv, PassBound
      <4>3. QED
        BY <1>1, <1>2, <4>1, <4>2 DEF IInv, DatabaseTypes
    <3>3. QED
      BY <3>1, <3>2
  <2>3. QED
    BY <1>4, <2>1, <2>2 DEF PassBound
<1>9. TakenDone'
  <2>1. depth \in Nat /\ [Optimal!Next]_database
    <3>1. Next
      BY DEF Next, WorkerStep
    <3>2. QED
      BY <3>1, DatabaseStep, Numbers
  <2>2. ASSUME phase # "off", ~ canceled, NEW c \in Coset, c < ec_idx, NeedsWork(c)'
        PROVE  \E v \in Holding : idx[v] = c /\ (pc'[v] = "finish" => terminated)
    <3>1. NeedsWork(c)
      BY <1>1, <2>1, <2>2, WorkShrinks DEF IInv
    <3>2. PICK v \in Holding : idx[v] = c /\ (pc[v] = "finish" => terminated)
      BY <2>2, <3>1 DEF IInv, TakenDone
    <3>3. CASE v = w
      <4>1. Open(c) # {}
        BY <3>1 DEF NeedsWork
      <4>2. pc'[w] = "pass"
        BY <1>1, <3>2, <3>3, <4>1 DEF IInv, Types
      <4>3. QED
        BY <3>2, <3>3, <4>2
    <3>4. CASE v # w
      <4>1. pc'[v] = pc[v]
        BY <1>1, <3>4 DEF Holding, IInv, Types
      <4>2. QED
        BY <3>2, <4>1
    <3>5. QED
      BY <3>3, <3>4
  <2>3. QED
    BY <1>1, <1>4, <2>2 DEF TakenDone
<1>10. QED
  BY <1>3, <1>5, <1>6, <1>7, <1>8, <1>9 DEF Control

(* Leaving a pass, when its depth is beyond the command's or on a signal.  *)
LEMMA LeavePassControl ==
  ASSUME IInv, NEW w \in Worker, Abandon(w) \/ EndSolve(w)
  PROVE  Control'
<1>1. /\ pc[w] = "pass" /\ w \in Holding /\ idx[w] \in Coset
      /\ pc' = [pc EXCEPT ![w] = "finish"]
      /\ UNCHANGED <<database, process, status, idx, search_depth>>
      /\ search_depth[w] > depth \/ terminated
  BY DEF Abandon, EndSolve, CutShort, database, Holding, IInv, PassBound
<1> USE DEF process, status, database
<1>2. Types'
  BY <1>1 DEF IInv, Types
<1>3. Holding' = Holding
  BY <1>1 DEF Holding, IInv, Types
<1>4. DisplayFollows' /\ OutcomeLast'
  BY <1>1, StepOfWorker
<1>5. WorkersRun'
  <2>1. \A v \in Worker : pc'[v] = "exited" <=> pc[v] = "exited"
    BY <1>1 DEF IInv, Types
  <2>2. QED
    BY <1>1, <2>1 DEF IInv, WorkersRun
<1>6. ProgressCounts'
  BY <1>1, <1>3 DEF IInv, ProgressCounts
<1>7. PassBound'
  <2>1. \A v \in Worker : pc'[v] = "pass" => pc[v] = "pass"
    BY <1>1 DEF IInv, Types
  <2>2. QED
    BY <1>1, <1>3, <2>1 DEF IInv, PassBound
<1>8. TakenDone'
  <2>1. ASSUME phase # "off", ~ canceled, NEW c \in Coset, c < ec_idx, NeedsWork(c)
        PROVE  \E v \in Holding : idx[v] = c /\ (pc'[v] = "finish" => terminated)
    <3>1. PICK v \in Holding : idx[v] = c /\ (pc[v] = "finish" => terminated)
      BY <2>1 DEF IInv, TakenDone
    <3>2. CASE v = w
      <4>1. search_depth[w] = proven_min[c] /\ proven_min[c] <= depth
        BY <1>1, <2>1, <3>1, <3>2 DEF IInv, PassBound, NeedsWork
      <4>2. depth \in Nat /\ search_depth[w] \in Nat
        BY Numbers DEF IInv, Types
      <4>3. terminated
        BY <1>1, <4>1, <4>2
      <4>4. QED
        BY <3>1, <4>3
    <3>3. CASE v # w
      <4>1. pc'[v] = pc[v]
        BY <1>1, <3>3 DEF Holding, IInv, Types
      <4>2. QED
        BY <3>1, <4>1
    <3>4. QED
      BY <3>2, <3>3
  <2>2. \A c \in Coset : NeedsWork(c)' <=> NeedsWork(c)
    BY <1>1 DEF NeedsWork, Open
  <2>3. QED
    BY <1>1, <1>3, <2>1, <2>2 DEF TakenDone
<1>9. QED
  BY <1>2, <1>4, <1>5, <1>6, <1>7, <1>8 DEF Control

(* Taking the next coset: the worker counts the one it had, if it had one, *)
(* and those it skips.                                                     *)
LEMMA TakeNextControl ==
  ASSUME IInv, NEW w \in Worker, NEW finished \in {0, 1},
         \/ finished = 0 /\ pc[w] = "start"
         \/ finished = 1 /\ pc[w] = "finish" /\ ~ terminated,
         TakeNext(w, finished),
         UNCHANGED <<database, phase, depth, terminated, canceled, outcome,
                     done, display, shown>>
  PROVE  Control'
<1> DEFINE left == {c \in Coset : c >= ec_idx /\ NeedsWork(c)}
           next == CHOOSE c \in left : \A d \in left : c <= d
<1>1. PICK b \in {"pass", "exited"}, c \in Coset \union {NoCoset}, d \in Nat, j \in 0 .. N :
        /\ pc' = [pc EXCEPT ![w] = b]
        /\ idx' = [idx EXCEPT ![w] = c]
        /\ search_depth' = [search_depth EXCEPT ![w] = d]
        /\ ec_idx' = j /\ ec_idx <= j
        /\ b = "pass" => /\ c \in Coset /\ d = proven_min[c] /\ j = c + 1 /\ ec_idx <= c
                         /\ progress' = progress + (finished + (c - ec_idx))
        /\ b = "exited" => /\ j = N
                           /\ progress' = progress + (finished + (N - ec_idx))
        /\ \A e \in Coset : ec_idx <= e /\ e < j /\ NeedsWork(e) => b = "pass" /\ e = c
  <2>1. Coset \subseteq Nat /\ NoCoset \notin Coset /\ \A c \in Coset : c < N
    BY EcosetAssumption DEF Coset
  <2>2. CASE left = {}
    <3>1. /\ pc' = [pc EXCEPT ![w] = "exited"]
          /\ idx' = [idx EXCEPT ![w] = NoCoset]
          /\ search_depth' = [search_depth EXCEPT ![w] = 0]
          /\ ec_idx' = N /\ progress' = progress + (finished + (N - ec_idx))
      BY <2>2 DEF TakeNext, Increment, Skipped
    <3>2. \A e \in Coset : ec_idx <= e => ~ NeedsWork(e)
      BY <2>1, <2>2, Numbers
    <3>3. N \in 0 .. N /\ ec_idx <= N
      BY Numbers
    <3>4. QED
      BY <3>1, <3>2, <3>3
  <2>3. CASE left # {}
    <3>1. next \in left /\ \A e \in left : next <= e
      BY <2>3, NextCoset
    <3>2. /\ pc' = [pc EXCEPT ![w] = "pass"]
          /\ idx' = [idx EXCEPT ![w] = next]
          /\ search_depth' = [search_depth EXCEPT ![w] = proven_min[next]]
          /\ ec_idx' = next + 1 /\ progress' = progress + (finished + (next - ec_idx))
      BY <2>3 DEF TakeNext, Increment, Skipped
    <3>3. next \in Coset /\ ec_idx <= next /\ proven_min[next] \in Nat
      BY <3>1, BoundReached, Numbers, <2>1 DEF IInv, DatabaseTypes
    <3>4. ASSUME NEW e \in Coset, ec_idx <= e, e < next + 1, NeedsWork(e)
          PROVE  e = next
      <4>1. e \in left
        BY <3>4, <2>1, Numbers
      <4> HIDE DEF next, left
      <4>2. next <= e /\ e \in Nat /\ next \in Nat
        BY <2>1, <3>1, <3>3, <4>1
      <4>3. QED
        BY <3>4, <4>2
    <3> HIDE DEF next, left
    <3>5. next + 1 \in 0 .. N /\ ec_idx <= next + 1
      <4>1. next \in Nat /\ next < N
        BY <2>1, <3>3
      <4>2. QED
        BY <3>3, <4>1, Numbers
    <3>6. QED
      BY <3>2, <3>3, <3>4, <3>5
  <2>4. QED
    BY <2>2, <2>3
<1>2. /\ w \in Holding <=> finished = 1
      /\ \A v \in Holding : v # w => idx[v] < ec_idx
      /\ pc[w] # "exited"
  BY DEF Holding, IInv, PassBound
<1>3. /\ pc'[w] = b /\ idx'[w] = c /\ search_depth'[w] = d
      /\ \A v \in Worker \ {w} : /\ pc'[v] = pc[v] /\ idx'[v] = idx[v]
                                 /\ search_depth'[v] = search_depth[v]
  BY <1>1 DEF IInv, Types
<1>4. Holding' = IF b = "pass" THEN Holding \union {w} ELSE Holding \ {w}
  BY <1>3 DEF Holding
<1>5. c \in Coset => c \in Nat /\ c < N
  BY EcosetAssumption DEF Coset
<1>6. Types'
  <2>1. progress' \in Int
    BY <1>1, <1>5, EcosetAssumption, Numbers
  <2>2. /\ pc' \in [Worker -> {"start", "pass", "finish", "exited"}]
        /\ idx' \in [Worker -> Coset \union {NoCoset}]
        /\ search_depth' \in [Worker -> Nat]
    BY <1>1 DEF IInv, Types
  <2>3. QED
    BY <1>1, <2>1, <2>2 DEF IInv, Types
<1>7. WorkersRun'
  <2>1. phase = "running"
    BY <1>2 DEF IInv, WorkersRun
  <2>2. ASSUME ~ canceled, NEW v \in Worker, pc'[v] = "exited"
        PROVE  ec_idx' = N
    <3>1. CASE v = w
      BY <1>1, <1>3, <2>2, <3>1
    <3>2. CASE v # w
      <4>1. ec_idx = N
        BY <1>3, <2>1, <2>2, <3>2 DEF IInv, WorkersRun
      <4>2. QED
        BY <1>1, <4>1, EcosetAssumption
    <3>3. QED
      BY <3>1, <3>2
  <2>3. QED
    BY <2>1, <2>2 DEF IInv, WorkersRun
<1>8. PassBound'
  <2>1. ASSUME NEW v \in Holding', v # w
        PROVE  /\ v \in Holding /\ idx'[v] = idx[v] /\ idx[v] \in Coset
               /\ idx[v] < ec_idx /\ idx[v] < j
               /\ c \in Coset /\ b = "pass" => idx[v] # c
    <3>1. v \in Holding /\ v \in Worker /\ idx'[v] = idx[v]
      BY <1>3, <1>4, <2>1 DEF Holding
    <3>2. idx[v] \in Coset /\ idx[v] < ec_idx
      BY <3>1 DEF IInv, PassBound
    <3>3. idx[v] \in Nat
      BY <3>2, EcosetAssumption DEF Coset
    <3>4. QED
      BY <1>1, <1>5, <3>1, <3>2, <3>3, Numbers
  <2>2. w \in Holding' => b = "pass" /\ c \in Coset /\ c < j
    BY <1>1, <1>4, <1>5
  <2>3. \A v \in Holding' : idx'[v] \in Coset /\ idx'[v] < ec_idx'
    BY <1>1, <1>3, <2>1, <2>2
  <2>4. \A u, v \in Holding' : idx'[u] = idx'[v] => u = v
    BY <1>3, <2>1, <2>2 DEF IInv, PassBound
  <2>5. \A v \in Worker : pc'[v] = "pass" => search_depth'[v] = proven_min'[idx'[v]]
    BY <1>1, <1>3 DEF IInv, PassBound, database
  <2>6. QED
    BY <2>3, <2>4, <2>5 DEF PassBound
<1>9. TakenDone'
  <2>1. ASSUME phase # "off", ~ canceled, NEW e \in Coset, e < j, NeedsWork(e)
        PROVE  \E v \in Holding' : idx'[v] = e /\ (pc'[v] = "finish" => terminated)
    <3>1. e \in Nat
      BY EcosetAssumption DEF Coset
    <3>2. CASE ec_idx <= e
      BY <1>1, <1>3, <1>4, <2>1, <3>2
    <3>3. CASE e < ec_idx
      <4>1. PICK v \in Holding : idx[v] = e /\ (pc[v] = "finish" => terminated)
        BY <2>1, <3>3 DEF IInv, TakenDone
      <4>2. v # w
        BY <4>1, <1>2
      <4>3. v \in Holding' /\ pc'[v] = pc[v] /\ idx'[v] = idx[v]
        BY <1>3, <1>4, <4>2 DEF Holding
      <4>4. QED
        BY <4>1, <4>3
    <3>4. QED
      BY <3>1, <3>2, <3>3, Numbers
  <2>2. \A e \in Coset : NeedsWork(e)' <=> NeedsWork(e)
    BY DEF NeedsWork, Open, database
  <2>3. QED
    BY <1>1, <2>1, <2>2 DEF TakenDone
<1>10. ProgressCounts'
  <2>1. Cardinality(Holding') =
          Cardinality(Holding) - finished + (IF b = "pass" THEN 1 ELSE 0)
    <3>1. CASE b = "pass"
      <4>1. Cardinality(Holding \union {w}) =
              IF w \in Holding THEN Cardinality(Holding) ELSE Cardinality(Holding) + 1
        BY CountHolding, FS_AddElement
      <4>2. QED
        BY <1>2, <1>4, <3>1, <4>1, CountHolding
    <3>2. CASE b = "exited"
      <4>1. Cardinality(Holding \ {w}) =
              IF w \in Holding THEN Cardinality(Holding) - 1 ELSE Cardinality(Holding)
        BY CountHolding, FS_RemoveElement
      <4>2. QED
        BY <1>2, <1>4, <3>2, <4>1, CountHolding
    <3>3. QED
      BY <3>1, <3>2
  <2>2. phase # "off"
    BY <1>2 DEF IInv, WorkersRun
  <2>3. progress + Cardinality(Holding) = ec_idx /\ Cardinality(Holding) \in Nat
    BY <2>2, CountHolding DEF IInv, ProgressCounts
  <2>4. CASE b = "pass"
    BY <1>1, <1>5, <2>1, <2>3, <2>4, Numbers DEF ProgressCounts
  <2>5. CASE b = "exited"
    BY <1>1, <2>1, <2>3, <2>5, Numbers DEF ProgressCounts
  <2>6. QED
    BY <2>4, <2>5
<1>11. DisplayFollows' /\ OutcomeLast'
  BY <1>2, StepOfWorker
<1>12. QED
  BY <1>6, <1>7, <1>8, <1>9, <1>10, <1>11 DEF Control

LEMMA BeginControl ==
  ASSUME IInv, NEW w \in Worker, Begin(w)
  PROVE  Control'
BY TakeNextControl DEF Begin

(* A worker that has seen the signal counts its coset and reports.         *)
LEMMA FinishControl ==
  ASSUME IInv, NEW w \in Worker, Finish(w)
  PROVE  Control'
<1>1. CASE ~ terminated
  <2>1. /\ pc[w] = "finish" /\ TakeNext(w, 1)
        /\ UNCHANGED <<database, phase, depth, terminated, canceled, outcome,
                       done, display, shown>>
    BY <1>1 DEF Finish
  <2>2. QED
    BY <1>1, <2>1, TakeNextControl
<1>2. CASE terminated
  <2>1. /\ pc[w] = "finish" /\ w \in Holding /\ progress' = progress + 1 /\ canceled' = TRUE
        /\ pc' = [pc EXCEPT ![w] = "exited"]
        /\ idx' = [idx EXCEPT ![w] = NoCoset]
        /\ search_depth' = [search_depth EXCEPT ![w] = 0]
        /\ UNCHANGED <<database, phase, depth, terminated, ec_idx, outcome, done,
                       display, shown>>
    BY <1>2 DEF Finish, Increment, Report, Holding
  <2>2. Holding' = Holding \ {w}
    BY <2>1 DEF Holding, IInv, Types
  <2>3. Types'
    <3>1. canceled' \in BOOLEAN
      BY <2>1
    <3>2. progress' \in Int
      BY <2>1, Numbers
    <3>3. /\ pc' \in [Worker -> {"start", "pass", "finish", "exited"}]
          /\ idx' \in [Worker -> Coset \union {NoCoset}]
          /\ search_depth' \in [Worker -> Nat]
      BY <2>1 DEF IInv, Types
    <3>4. QED
      BY <2>1, <3>1, <3>2, <3>3 DEF IInv, Types
  <2>4. WorkersRun'
    BY <1>2, <2>1 DEF IInv, Types, WorkersRun
  <2>5. PassBound'
    <3>1. \A v \in Worker \ {w} : /\ pc'[v] = pc[v] /\ idx'[v] = idx[v]
                                  /\ search_depth'[v] = search_depth[v]
      BY <2>1 DEF IInv, Types
    <3>2. pc'[w] = "exited"
      BY <2>1 DEF IInv, Types
    <3>3. QED
      BY <2>1, <2>2, <3>1, <3>2 DEF IInv, PassBound, Holding, database
  <2>6. TakenDone'
    BY <2>1 DEF TakenDone
  <2>7. ProgressCounts'
    <3>1. Cardinality(Holding') = Cardinality(Holding) - 1
      BY <2>1, <2>2, CountHolding, FS_RemoveElement
    <3>2. QED
      BY <2>1, <3>1, CountHolding, Numbers DEF IInv, ProgressCounts
  <2>8. DisplayFollows' /\ OutcomeLast'
    BY <2>1, StepOfWorker
  <2>9. QED
    BY <2>3, <2>4, <2>5, <2>6, <2>7, <2>8 DEF Control
<1>3. QED
  BY <1>1, <1>2

(* The end of a run.  A worker is there, and has left because no coset was *)
(* left or a signal was reported.                                          *)
LEMMA JoinControl ==
  ASSUME IInv, Join
  PROVE  Control'
<1>1. /\ UNCHANGED <<database, depth, terminated, canceled, progress, shown, ec_idx,
                     pc, idx, search_depth>>
      /\ phase # "off" /\ phase' # "running"
      /\ \A w \in Worker : pc[w] = "exited"
  BY DEF Join, Stop, status, SetDone, Notify, IInv, WorkersRun
<1>2. Holding = {} /\ Holding' = {}
  BY <1>1 DEF Holding
<1>3. Types'
  BY DEF IInv, Types, Join, Stop, status, SetDone, Notify
<1>4. WorkersRun'
  BY <1>1 DEF IInv, WorkersRun
<1>5. PassBound'
  BY <1>1, <1>2 DEF PassBound
<1>6. TakenDone'
  BY <1>1, <1>2 DEF IInv, TakenDone, NeedsWork, Open, database
<1>7. ProgressCounts'
  BY <1>1, <1>2 DEF IInv, ProgressCounts
<1>8. DisplayFollows'
  <2>1. CASE phase = "running"
    <3>1. done' = done /\ display' = display /\ phase' = "stop"
      BY <2>1 DEF Join, Stop, status
    <3>2. ~ done /\ display \notin {"show last", "returned"}
      BY <2>1 DEF IInv, DisplayFollows
    <3>3. QED
      BY <3>1, <3>2 DEF DisplayFollows
  <2>2. CASE phase = "stop"
    <3>1. done' /\ display' = display /\ phase' = "notify"
      BY <2>2 DEF Join, Stop, SetDone
    <3>2. display \notin {"show last", "returned"}
      BY <2>2 DEF IInv, DisplayFollows
    <3>3. QED
      BY <3>1, <3>2 DEF DisplayFollows
  <2>3. CASE phase = "notify"
    <3>1. /\ done' = done /\ progress' = progress /\ shown' = shown /\ phase' = "join"
          /\ display' = display \/ display' = "loop"
      BY <2>3 DEF Join, Stop, Notify
    <3>2. done /\ (display \in {"show last", "returned"} => shown = progress)
      BY <2>3 DEF IInv, DisplayFollows
    <3>3. QED
      BY <3>1, <3>2 DEF DisplayFollows
  <2>4. CASE phase = "join"
    BY <2>4 DEF IInv, DisplayFollows, Join, Stop, status
  <2>5. QED
    BY <1>1, <2>1, <2>2, <2>3, <2>4 DEF IInv, Types
<1>9. OutcomeLast'
  <2>1. CASE phase' # "off"
    BY <1>1, <2>1 DEF IInv, OutcomeLast, DoneMeansSearched, LastShown, Join, Stop
  <2>2. CASE phase' = "off"
    <3>1. /\ phase = "join" /\ display = "returned"
          /\ outcome' = IF canceled THEN "received terminate signal" ELSE "done"
      BY <2>2 DEF Join, Stop
    <3>2. SUFFICES ASSUME ~ canceled
                   PROVE  OutcomeLast'
      BY <2>2, <3>1 DEF OutcomeLast, DoneMeansSearched, LastShown
    <3>3. ec_idx = N
      BY <1>1, <3>1, <3>2, EcosetAssumption DEF IInv, WorkersRun
    <3>4. \A c \in Coset : ~ NeedsWork(c)
      <4>1. \A c \in Coset : c < N
        BY EcosetAssumption DEF Coset
      <4>2. QED
        BY <1>1, <1>2, <3>2, <3>3, <4>1 DEF IInv, TakenDone
    <3>5. \A c \in Coset : Open(c) = {} \/ proven_min[c] > depth
      <4>1. \A c \in Coset : proven_min[c] \in Nat
        BY BoundReached DEF IInv, DatabaseTypes
      <4>2. QED
        BY <3>4, <4>1, Numbers DEF NeedsWork
    <3>6. DoneMeansSearched'
      BY <1>1, <3>5 DEF DoneMeansSearched, Open, database
    <3>7. progress = N /\ shown = progress
      <4>1. progress + 0 = N
        BY <1>1, <1>2, <3>3, CountHolding DEF IInv, ProgressCounts
      <4>2. progress = N
        BY <4>1, Numbers
      <4>3. shown = progress
        BY <3>1 DEF IInv, DisplayFollows
      <4>4. QED
        BY <4>2, <4>3
    <3>8. LastShown'
      BY <1>1, <3>7 DEF LastShown
    <3>9. QED
      BY <2>2, <3>6, <3>8 DEF OutcomeLast
  <2>3. QED
    BY <2>1, <2>2
<1>10. QED
  BY <1>3, <1>4, <1>5, <1>6, <1>7, <1>8, <1>9 DEF Control

-----------------------------------------------------------------------------

LEMMA InitInvariant == Init => IInv
<1> SUFFICES ASSUME Init
             PROVE  IInv
  OBVIOUS
<1>1. DatabaseTypes /\ Optimal!Sound
  BY InitDatabase DEF Optimal!Init
<1>2. QED
  BY <1>1, InitControl DEF IInv, Control

LEMMA StepInvariant == IInv /\ [Next]_vars => IInv'
<1> SUFFICES ASSUME IInv, [Next]_vars
             PROVE  Control'
  BY DatabaseStep, StoreStep DEF IInv, Control
<1>1. ASSUME NEW d \in Depths, Start(d)
      PROVE  Control'
  BY <1>1, StartControl
<1>2. CASE Signal
  BY <1>2, SignalControl
<1>3. CASE Kill
  BY <1>3, KillControl
<1>4. ASSUME NEW w \in Worker, WorkerStep(w)
      PROVE  Control'
  <2>1. ASSUME NEW x \in Cube, Candidate(w, x)
        PROVE  Control'
    BY <2>1, CandidateControl
  <2>2. CASE Begin(w)
    BY <2>2, BeginControl
  <2>3. CASE EndPass(w)
    BY <2>3, EndPassControl
  <2>4. CASE Abandon(w) \/ EndSolve(w)
    BY <2>4, LeavePassControl
  <2>5. CASE Finish(w)
    BY <2>5, FinishControl
  <2>6. QED
    BY <1>4, <2>1, <2>2, <2>3, <2>4, <2>5 DEF WorkerStep
<1>5. CASE Join
  BY <1>5, JoinControl
<1>6. CASE ShowProgress
  BY <1>6, DisplayControl
<1>7. CASE UNCHANGED vars
  <2>1. UNCHANGED <<length, proven_min, phase, depth, terminated, canceled, ec_idx, outcome,
                    progress, done, display, shown, pc, idx, search_depth>>
    BY <1>7 DEF vars, database, process, status
  <2>2. Types' /\ WorkersRun' /\ ProgressCounts' /\ DisplayFollows' /\ OutcomeLast'
    BY <2>1 DEF IInv, Types, WorkersRun, ProgressCounts, Holding, DisplayFollows,
                OutcomeLast, DoneMeansSearched, LastShown, Open
  <2>3. PassBound' /\ TakenDone'
    BY <2>1 DEF IInv, PassBound, TakenDone, Holding, NeedsWork, Open
  <2>4. QED
    BY <2>2, <2>3 DEF Control
<1>8. QED
  BY <1>1, <1>2, <1>3, <1>4, <1>5, <1>6, <1>7 DEF Next

(* The inductive invariant holds in every reachable state.                 *)
THEOREM Invariance == Spec => []IInv
BY InitInvariant, StepInvariant, PTL DEF Spec

(* The database stays sound in every state of every run, and after a kill: *)
(* a recorded length is the distance of its cube and no bound is beyond an *)
(* unsolved cube.                                                          *)
THEOREM DatabaseSound == Spec => []Optimal!Sound
<1>1. IInv => Optimal!Sound
  BY DEF IInv
<1>2. QED
  BY <1>1, Invariance, PTL

(* A run that prints "done" has left no coset with a cube to find up to    *)
(* its depth.                                                              *)
THEOREM DoneSearchedAll == Spec => []DoneMeansSearched
<1>1. IInv => DoneMeansSearched
  BY DEF IInv, OutcomeLast
<1>2. QED
  BY <1>1, Invariance, PTL

(* A run that was not canceled has counted every coset once and has shown  *)
(* the last count.                                                         *)
THEOREM LastCountShown == Spec => []LastShown
<1>1. IInv => LastShown
  BY DEF IInv, OutcomeLast
<1>2. QED
  BY <1>1, Invariance, PTL

(* Every change of the database is one that OptimalStore allows: cubes get *)
(* their distance as their length, and a bound is raised to what the pass  *)
(* has shown.                                                              *)
THEOREM Refinement == Spec => ImplementsOptimalStore
<1>1. Init => Optimal!Init
  BY InitDatabase
<1>2. IInv /\ [Next]_vars => [Optimal!Next]_database
  BY DatabaseStep
<1>3. QED
  BY <1>1, <1>2, Invariance, PTL DEF Spec, ImplementsOptimalStore, Optimal!Spec, database
=============================================================================
