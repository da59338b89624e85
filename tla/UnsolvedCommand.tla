-------------------------- MODULE UnsolvedCommand --------------------------
(***************************************************************************)
(* cmd_unsolved of src/src/main.cpp: workers take the cosets in order and  *)
(* compute what is to be printed in parallel; each waits on the condition  *)
(* variable of its coset until the cosets before it are printed, prints,   *)
(* and wakes the worker of the next coset.  One coset is taken by one      *)
(* worker, so the handle in get_unsolved is never waited for.              *)
(***************************************************************************)
EXTENDS Integers, Sequences, FiniteSets

CONSTANTS
  Worker,     \* threads
  N,          \* N_EDGE_INVO
  Corner,     \* corner states, integers: the order of the code's cubes
  Orbit,      \* [0 .. N - 1 -> [Corner -> SUBSET Corner]]: images under self_sym
  CornerSets, \* the possible sets of unsolved corner states of a database,
              \* a set of functions [0 .. N - 1 -> SUBSET Corner]
  NoWorker, NoCoset

Coset == 0 .. N - 1

ASSUME UnsolvedAssumption ==
  /\ N \in Nat /\ Corner \subseteq Int /\ IsFiniteSet(Corner)
  /\ CornerSets \subseteq [Coset -> SUBSET Corner]
  /\ \A f \in CornerSets : \A c \in Coset : \A x \in f[c] :
       x \in Orbit[c][x] /\ Orbit[c][x] \subseteq f[c]
  /\ \A c \in Coset : \A x, y \in Corner : y \in Orbit[c][x] => Orbit[c][y] = Orbit[c][x]
  /\ NoWorker \notin Worker /\ NoCoset \notin Coset

VARIABLES
  corner_set,   \* [Coset -> SUBSET Corner]: the unsolved corner states
  ec_idx, output_idx,
  printed,      \* what went to standard output
  mtx,
  pc, idx, buf, \* each worker
  exited        \* workers.join() has returned

vars == <<corner_set, ec_idx, output_idx, printed, mtx, pc, idx, buf, exited>>

-----------------------------------------------------------------------------
(* Mutant: every corner state of an orbit is printed.                      *)
BugAllOfOrbit(c) == corner_set[c]

(* get_unsolved: nothing when n_solved = n_cubes, else of the unsolved     *)
(* corner states those that no symmetry of the edges makes smaller.        *)
GetUnsolved(c) ==
  IF corner_set[c] = {} THEN {}
  ELSE {x \in corner_set[c] : \A y \in Orbit[c][x] : ~ y < x}

Init ==
  /\ corner_set \in CornerSets
  /\ ec_idx = 0 /\ output_idx = 0
  /\ printed = << >>
  /\ mtx = NoWorker
  /\ pc = [w \in Worker |-> "enter"]
  /\ idx = [w \in Worker |-> NoCoset]
  /\ buf = [w \in Worker |-> {}]
  /\ exited = FALSE

(* unique_lock lock(mtx); lock.lock(); a waiter that was woken up.         *)
LockMtx(w) ==
  /\ pc[w] \in {"enter", "return", "woken"}
  /\ mtx = NoWorker
  /\ mtx' = w
  /\ pc' = [pc EXCEPT ![w] = IF @ = "enter" THEN "take" ELSE "turn"]
  /\ UNCHANGED <<corner_set, ec_idx, output_idx, printed, idx, buf, exited>>

Take(w) ==
  /\ pc[w] = "take"
  /\ mtx' = NoWorker
  /\ IF ec_idx < N
     THEN /\ idx' = [idx EXCEPT ![w] = ec_idx]
          /\ ec_idx' = ec_idx + 1
          /\ pc' = [pc EXCEPT ![w] = "compute"]
     ELSE /\ pc' = [pc EXCEPT ![w] = "exited"]
          /\ UNCHANGED <<ec_idx, idx>>
  /\ UNCHANGED <<corner_set, output_idx, printed, buf, exited>>

Compute(w) ==
  /\ pc[w] = "compute"
  /\ buf' = [buf EXCEPT ![w] = GetUnsolved(idx[w])]
  /\ pc' = [pc EXCEPT ![w] = "return"]
  /\ UNCHANGED <<corner_set, ec_idx, output_idx, printed, mtx, idx, exited>>

(* The workers in wait() of ec_cv[i].                                      *)
Waiters(i) == {v \in Worker : pc[v] = "wait" /\ idx[v] = i}

(* ec_cv[idx].wait: the predicate is looked at before waiting and whenever *)
(* the worker wakes up; waiting gives the mutex back.                      *)
Wait(w) ==
  /\ pc[w] = "turn" /\ output_idx # idx[w]
  /\ mtx' = NoWorker
  /\ pc' = [pc EXCEPT ![w] = "wait"]
  /\ UNCHANGED <<corner_set, ec_idx, output_idx, printed, idx, buf, exited>>

(* Mutant: notify the coset that was just printed.                         *)
BugNotified(next) == Waiters(next - 1)
Notified(next) == IF next < N THEN Waiters(next) ELSE {}

(* It is the worker's turn: print, and ec_cv[output_idx].notify_one(),     *)
(* which wakes one waiter if there is any.  The worker goes on with the    *)
(* mutex.                                                                  *)
Output(w) ==
  /\ pc[w] = "turn" /\ output_idx = idx[w]
  /\ printed' = Append(printed, buf[w])
  /\ output_idx' = output_idx + 1
  /\ buf' = [buf EXCEPT ![w] = {}]
  /\ idx' = [idx EXCEPT ![w] = NoCoset]
  /\ IF Notified(output_idx') # {}
     THEN \E v \in Notified(output_idx') :
            pc' = [pc EXCEPT ![w] = "take", ![v] = "woken"]
     ELSE pc' = [pc EXCEPT ![w] = "take"]
  /\ UNCHANGED <<corner_set, ec_idx, mtx, exited>>

(* wait() may return without a notification.                               *)
SpuriousWakeup(w) ==
  /\ pc[w] = "wait"
  /\ pc' = [pc EXCEPT ![w] = "woken"]
  /\ UNCHANGED <<corner_set, ec_idx, output_idx, printed, mtx, idx, buf, exited>>

Join ==
  /\ ~ exited /\ \A w \in Worker : pc[w] = "exited"
  /\ exited' = TRUE
  /\ UNCHANGED <<corner_set, ec_idx, output_idx, printed, mtx, pc, idx, buf>>

WorkerStep(w) ==
  LockMtx(w) \/ Take(w) \/ Compute(w) \/ Wait(w) \/ Output(w)

Next == Join \/ \E w \in Worker : WorkerStep(w) \/ SpuriousWakeup(w)

Spec == Init /\ [][Next]_vars

(* Threads run, and a thread that waits for the mutex gets it in the end;  *)
(* spurious wakeups need never happen.                                     *)
FairSpec == Spec /\ WF_vars(Join) /\ \A w \in Worker : SF_vars(WorkerStep(w))

-----------------------------------------------------------------------------
(* Every cube of a coset is to be printed once: one corner state of each   *)
(* orbit, the smallest.                                                    *)
CubesOf ==
  [c \in Coset |->
     {x \in corner_set[c] : \A y \in corner_set[c] : y \in Orbit[c][x] => x <= y}]

Out == INSTANCE OrderedOutput WITH unsolved <- CubesOf

(* The cosets are printed in order and without gaps, however long each one *)
(* takes, each with the cubes of its own unsolved orbits, and the last one *)
(* is printed in the end: no worker waits for a wakeup that was given      *)
(* before it waited.                                                       *)
ImplementsOrderedOutput == Out!Spec

(* The command ends.                                                       *)
CommandEnds == <> exited
=============================================================================
