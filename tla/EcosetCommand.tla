--------------------------- MODULE EcosetCommand ---------------------------
(***************************************************************************)
(* The edge coset solver command, cmd_ecoset of src/src/main.cpp with the  *)
(* passes of ecsolver_impl::solve: workers take the cosets in order, and   *)
(* search each one depth by depth from its proven_min.  A signal makes the *)
(* workers give up their passes; the process may also be killed; a later   *)
(* run, for the same or another depth, resumes from the database.          *)
(*                                                                         *)
(* The search itself is abstracted to what it reaches: a pass at depth d   *)
(* finds the unsolved cubes that have a move sequence of length d, in any  *)
(* order.  handle::solution is one step here; Tracker.tla has its parts.   *)
(***************************************************************************)
EXTENDS StatusThread, FiniteSets

CONSTANTS
  Worker,     \* threads, N_WORKERS of them
  N,          \* N_EDGE_INVO, the number of cosets
  Cube,       \* cubes, one for each symmetry class of involutions
  CosetOf,    \* [Cube -> 0 .. N - 1]
  Lengths,    \* [Cube -> SUBSET Nat]: lengths of the sequences that solve it
  Depths,     \* arguments of the command: 15 and 18 in the code
  SeedDepth,  \* SAFE_DEDUPE_DEPTH: passes up to it only walk the seeds
  Unsolved,   \* the length of a cube that no slot solves
  NoCoset     \* the coset of a worker that has none

Coset == 0 .. N - 1
Dist == [x \in Cube |-> CHOOSE d \in Lengths[x] : \A e \in Lengths[x] : d <= e]

(* Bounds that a pass can reach, and those a new database starts with.     *)
Bound == 0 .. (CHOOSE d \in Depths : \A e \in Depths : e <= d) + 1

(* hardware_concurrency() counts at least one processor: with no workers   *)
(* the command would say that it is done.                                  *)
ASSUME EcosetAssumption ==
  /\ N \in Nat
  /\ IsFiniteSet(Worker) /\ Worker # {}
  /\ CosetOf \in [Cube -> Coset]
  /\ Lengths \in [Cube -> (SUBSET Nat) \ {{}}]
  /\ Depths \subseteq Nat /\ IsFiniteSet(Depths) /\ Depths # {}
  /\ SeedDepth \in Nat
  /\ Unsolved \notin Nat /\ NoCoset \notin Coset

VARIABLES
  \* the database
  length,        \* [Cube -> Nat or Unsolved]
  proven_min,    \* [Coset -> Bound]
  \* the process
  phase,         \* "off", "running", or a step of status::stop
  depth,         \* the argument
  terminated,    \* interrupt::terminated_
  canceled,
  ec_idx,        \* the next coset
  outcome,       \* what the last run printed
  \* each worker
  pc,            \* "start", "pass", "finish" or "exited"
  idx,           \* the coset of its handle
  search_depth

database == <<length, proven_min>>
process == <<phase, depth, terminated, canceled, ec_idx, outcome>>
vars == <<database, process, status, pc, idx, search_depth>>

Open(c) == {x \in Cube : CosetOf[x] = c /\ length[x] = Unsolved}

Optimal == INSTANCE OptimalStore

-----------------------------------------------------------------------------
(* The database may be any that earlier commands have left.                *)
Init ==
  /\ length \in {l \in [Cube -> UNION {Lengths[x] : x \in Cube} \union {Unsolved}] :
                   \A x \in Cube : l[x] \in {Unsolved, Dist[x]}}
  /\ proven_min \in {b \in [Coset -> Bound] :
                       \A c \in Coset : \A x \in Open(c) : b[c] <= Dist[x]}
  /\ phase = "off"
  /\ depth = 0
  /\ terminated = FALSE /\ canceled = FALSE
  /\ InitStatus
  /\ ec_idx = 0
  /\ outcome = "none"
  /\ pc = [w \in Worker |-> "exited"]
  /\ idx = [w \in Worker |-> NoCoset]
  /\ search_depth = [w \in Worker |-> 0]

(* The command starts: it opens and locks the database and starts the      *)
(* workers.                                                                *)
Start(d) ==
  /\ phase = "off"
  /\ phase' = "running"
  /\ depth' = d
  /\ terminated' = FALSE /\ canceled' = FALSE
  /\ StartStatus
  /\ ec_idx' = 0
  /\ outcome' = "none"
  /\ pc' = [w \in Worker |-> "start"]
  /\ UNCHANGED <<database, idx, search_depth>>

(* A signal handler sets terminated_.                                      *)
Signal ==
  /\ phase = "running" /\ ~ terminated
  /\ terminated' = TRUE
  /\ UNCHANGED <<database, phase, depth, canceled, ec_idx, outcome, status,
                 pc, idx, search_depth>>

(* The process is killed; the mapped file keeps what was stored.           *)
Kill ==
  /\ phase # "off"
  /\ phase' = "off"
  /\ display' = "returned"
  /\ pc' = [w \in Worker |-> "exited"]
  /\ idx' = [w \in Worker |-> NoCoset]
  /\ search_depth' = [w \in Worker |-> 0]
  /\ UNCHANGED <<database, depth, terminated, canceled, ec_idx, outcome,
                 progress, done, shown>>

-----------------------------------------------------------------------------
(* A coset that the loop does not skip.                                    *)
NeedsWork(c) == proven_min[c] <= depth /\ Open(c) # {}

(* Mutant: skipped cosets are not counted.                                 *)
BugSkipped(n) == 0
Skipped(n) == n

(* The loop under the mutex: skip the cosets that need no work, counting   *)
(* them as done, and take the next one, or leave when there is none.       *)
TakeNext(w, finished) ==
  LET left == {c \in Coset : c >= ec_idx /\ NeedsWork(c)}
      c == CHOOSE c \in left : \A d \in left : c <= d IN
  IF left = {}
  THEN /\ ec_idx' = N
       /\ Increment(finished + Skipped(N - ec_idx))
       /\ pc' = [pc EXCEPT ![w] = "exited"]
       /\ idx' = [idx EXCEPT ![w] = NoCoset]
       /\ search_depth' = [search_depth EXCEPT ![w] = 0]
  ELSE /\ ec_idx' = c + 1
       /\ Increment(finished + Skipped(c - ec_idx))
       /\ pc' = [pc EXCEPT ![w] = "pass"]
       /\ idx' = [idx EXCEPT ![w] = c]
       /\ search_depth' = [search_depth EXCEPT ![w] = proven_min[c]]

Begin(w) ==
  /\ pc[w] = "start"
  /\ TakeNext(w, 0)
  /\ UNCHANGED <<database, phase, depth, terminated, canceled, outcome,
                 done, display, shown>>

(* candidate: an unsolved involution at the end of a sequence of the       *)
(* current length is recorded.                                             *)
Candidate(w, x) ==
  /\ pc[w] = "pass" /\ search_depth[w] <= depth
  /\ x \in Open(idx[w])
  /\ search_depth[w] \in Lengths[x]
  /\ length' = [length EXCEPT ![x] = search_depth[w]]
  /\ UNCHANGED <<proven_min, process, status, pc, idx, search_depth>>

(* The pass has tried every sequence of its length, or recording the last  *)
(* cube has ended it: update_proven_min, and the next depth.               *)
EndPass(w) ==
  LET c == idx[w] IN
  /\ pc[w] = "pass" /\ search_depth[w] <= depth
  /\ \A x \in Open(c) : search_depth[w] \notin Lengths[x]
  /\ proven_min' = [proven_min EXCEPT
                      ![c] = IF @ < search_depth[w] + 1 THEN search_depth[w] + 1 ELSE @]
  /\ search_depth' = [search_depth EXCEPT ![w] = @ + 1]
  /\ pc' = [pc EXCEPT ![w] = IF Open(c) = {} THEN "finish" ELSE "pass"]
  /\ UNCHANGED <<length, process, status, idx>>

(* Mutant: update_proven_min also after a pass that was cut short.         *)
BugCutShort(w) == [proven_min EXCEPT ![idx[w]] = search_depth[w] + 1]
CutShort(w) == proven_min

(* The pass was cut short: solve returns without update_proven_min.  Only  *)
(* a pass that searches below the seeds looks at the signal.               *)
Abandon(w) ==
  /\ pc[w] = "pass" /\ search_depth[w] <= depth
  /\ search_depth[w] > SeedDepth
  /\ terminated
  /\ proven_min' = CutShort(w)
  /\ pc' = [pc EXCEPT ![w] = "finish"]
  /\ UNCHANGED <<length, process, status, idx, search_depth>>

(* The depth of the command is reached.                                    *)
EndSolve(w) ==
  /\ pc[w] = "pass" /\ search_depth[w] > depth
  /\ pc' = [pc EXCEPT ![w] = "finish"]
  /\ UNCHANGED <<database, process, status, idx, search_depth>>

(* Mutant: the signal is not reported.                                     *)
BugReport == canceled
Report == TRUE

(* Back under the mutex: count the coset and look at the signal before     *)
(* taking another one.                                                     *)
Finish(w) ==
  /\ pc[w] = "finish"
  /\ IF terminated
     THEN /\ Increment(1)
          /\ canceled' = Report
          /\ pc' = [pc EXCEPT ![w] = "exited"]
          /\ idx' = [idx EXCEPT ![w] = NoCoset]
          /\ search_depth' = [search_depth EXCEPT ![w] = 0]
          /\ UNCHANGED ec_idx
     ELSE TakeNext(w, 1) /\ UNCHANGED canceled
  /\ UNCHANGED <<database, phase, depth, terminated, outcome, done, display, shown>>

(* All workers are joined, and progress.stop() joins the status thread;    *)
(* the command prints how it ended, and exits.                             *)
Stop(from, to) ==
  /\ phase = from
  /\ phase' = to
  /\ UNCHANGED <<database, depth, terminated, canceled, ec_idx, pc, idx, search_depth>>

Join ==
  \/ /\ Stop("running", "stop") /\ UNCHANGED <<outcome, status>>
     /\ \A w \in Worker : pc[w] = "exited"
  \/ Stop("stop", "notify") /\ SetDone /\ UNCHANGED outcome
  \/ Stop("notify", "join") /\ Notify /\ UNCHANGED outcome
  \/ /\ Stop("join", "off") /\ UNCHANGED status
     /\ display = "returned"
     /\ outcome' = IF canceled THEN "received terminate signal" ELSE "done"

ShowProgress == DisplayStep /\ UNCHANGED <<database, process, pc, idx, search_depth>>

WorkerStep(w) ==
  \/ Begin(w)
  \/ \E x \in Cube : Candidate(w, x)
  \/ EndPass(w)
  \/ Abandon(w)
  \/ EndSolve(w)
  \/ Finish(w)

Next ==
  \/ \E d \in Depths : Start(d)
  \/ Signal
  \/ Kill
  \/ \E w \in Worker : WorkerStep(w)
  \/ Join
  \/ ShowProgress

Spec == Init /\ [][Next]_vars

(* The operating system runs every thread; nothing makes anybody start,    *)
(* signal or kill the command.                                             *)
FairSpec ==
  /\ Spec
  /\ \A w \in Worker : SF_vars(WorkerStep(w))
  /\ WF_vars(Join)
  /\ WF_vars(ShowProgress)

-----------------------------------------------------------------------------
(* Only optimal lengths are recorded, and proven_min stays a lower bound   *)
(* for the unsolved cubes: every change of the database, across signals,   *)
(* kills and later runs, is one that OptimalStore allows.                  *)
ImplementsOptimalStore == Optimal!Spec

(* A run that prints "done" has left no coset with a cube to find up to    *)
(* its depth; a signal that cut a pass short is always reported.           *)
DoneMeansSearched ==
  outcome = "done" =>
    \A c \in Coset : Open(c) = {} \/ proven_min[c] > depth

(* A run that was not canceled has shown, at the end, that all cosets are  *)
(* done: each was skipped or searched exactly once, and the last count is  *)
(* displayed before the thread returns.                                    *)
LastShown == outcome = "done" => progress = N /\ shown = progress

(* A run comes to its end, with and without a signal.                      *)
RunEnds == (phase = "running") ~> (phase = "off")
=============================================================================
