------------------------------ MODULE Tracker ------------------------------
(***************************************************************************)
(* The involution database of src/src/tracker.{h,cpp}: the file invo.dat   *)
(* that every command maps into memory, the per-process cache of unsolved  *)
(* corner states, the per-coset mutexes and the advisory file lock.        *)
(*                                                                         *)
(* The file outlives the processes.  A process opens it, takes the file    *)
(* lock if its command writes, runs threads that hold one tracker::handle  *)
(* at a time, and ends at any moment: the kernel keeps what was stored in  *)
(* the mapping and drops the rest.  handle::solution is four steps, with   *)
(* the stores into the file in the order of the code, so a process can end *)
(* between two of them.                                                    *)
(*                                                                         *)
(* A corner state stands for its corner_hash, which is one-to-one on the   *)
(* corner states of involutions.  A move sequence is a model value with    *)
(* the corner state it reaches and its length.                             *)
(***************************************************************************)
EXTENDS Integers, FiniteSets

CONSTANTS
  Process,      \* processes that map the file
  Worker,       \* threads of all processes
  ProcessOf,    \* [Worker -> Process]
  Coset,        \* rows of the header table, one per edge coset
  Corner,       \* corner states
  CornerInit,   \* [Coset -> SUBSET Corner]: corner_init[h.parity]
  Orbit,        \* [Coset -> [Corner -> SUBSET Corner]]: images under selfsym()
  Offset,       \* [Coset -> Nat]: header::offset
  NCubes,       \* [Coset -> Nat]: header::n_cubes
  Prune,        \* [Coset -> Nat]: header::prune, eprune::probe of the edges
  SlotCount,    \* N_INVO, the number of slots in the file
  Moves,        \* move sequences callers pass to handle::solution
  CornerOf,     \* [Moves -> Corner]: the corner state a sequence reaches
  SizeOf,       \* [Moves -> Nat]: number of moves of the canonical sequence
  Recode,       \* [Moves -> Moves]: what a slot gives back for a sequence
  MaxDepth,     \* MAX_DEPTH
  PassDepths,   \* the depths update_proven_min is called with
  Empty,        \* a zeroed slot
  NoWorker,     \* the owner of a free mutex
  NoCoset       \* the coset of a thread without a handle

Slot == 0 .. SlotCount - 1

(* The cubes of a coset fall into orbits of the symmetries that fix its    *)
(* edges; two corner states of one orbit have the same orbit.              *)
ASSUME OrbitAssumption ==
  /\ CornerInit \in [Coset -> SUBSET Corner]
  /\ Orbit \in [Coset -> [Corner -> SUBSET Corner]]
  /\ \A c \in Coset : \A x \in CornerInit[c] :
       /\ x \in Orbit[c][x]
       /\ Orbit[c][x] \subseteq CornerInit[c]
       /\ \A y \in Orbit[c][x] : Orbit[c][y] = Orbit[c][x]

(* The header table gives every coset one slot per orbit, and the slots of *)
(* different cosets do not overlap.                                        *)
ASSUME LayoutAssumption ==
  /\ IsFiniteSet(Corner)
  /\ SlotCount \in Nat
  /\ Offset \in [Coset -> Nat]
  /\ NCubes \in [Coset -> Nat]
  /\ \A c \in Coset :
       /\ NCubes[c] = Cardinality({Orbit[c][x] : x \in CornerInit[c]})
       /\ Offset[c] + NCubes[c] <= SlotCount
  /\ \A c, d \in Coset :
       c # d => \/ Offset[c] + NCubes[c] <= Offset[d]
                \/ Offset[d] + NCubes[d] <= Offset[c]

(* A slot gives back a sequence for the same corner state and of the same  *)
(* length (SolutionCodec.tla says for which sequences).                    *)
ASSUME MovesAssumption ==
  /\ MaxDepth \in Nat
  /\ Prune \in [Coset -> 0 .. MaxDepth]
  /\ PassDepths \subseteq 1 .. MaxDepth + 1
  /\ CornerOf \in [Moves -> Corner]
  /\ SizeOf \in [Moves -> 0 .. MaxDepth]
  /\ Recode \in [Moves -> Moves]
  /\ \A m \in Moves : /\ CornerOf[Recode[m]] = CornerOf[m]
                      /\ SizeOf[Recode[m]] = SizeOf[m]

ASSUME ProcessAssumption ==
  /\ ProcessOf \in [Worker -> Process]
  /\ NoWorker \notin Worker
  /\ Empty \notin Moves
  /\ NoCoset \notin Coset

VARIABLES
  \* the file
  sol,            \* [Slot -> Moves or Empty]: the solution slots
  n_solved,       \* [Coset -> Nat]
  n_length,       \* [Coset -> [0 .. MaxDepth -> Nat]]
  proven_min,     \* [Coset -> Nat]
  \* each process
  mode,           \* how far it is in opening the file, and for what
  corner_sets,    \* [Process -> [Coset -> SUBSET Corner]]
  is_initialized, \* [Process -> [Coset -> BOOLEAN]]
  ec_mutex,       \* [Process -> [Coset -> Worker or NoWorker]]
  \* each thread
  pc,             \* the step of its handle
  idx,            \* the coset of its handle
  todo,           \* handle::todo
  count,          \* n_solved as get_solutions read it
  arg             \* the sequence handle::solution is storing

file == <<sol, n_solved, n_length, proven_min>>
cache == <<corner_sets, is_initialized>>
thread == <<pc, idx, todo, count, arg>>
vars == <<file, mode, cache, ec_mutex, thread>>

-----------------------------------------------------------------------------
Solution(c, i) == sol[Offset[c] + i]
OrbitOf(c, m) == Orbit[c][CornerOf[m]]

(* Mutant: the last slot is not decoded.                                   *)
BugCornerSet(c, n) ==
  {x \in CornerInit[c] :
     \A i \in 0 .. n - 2 : x \notin OrbitOf(c, Solution(c, i))}

(* What get_corner_set computes from the first n slots of a coset.         *)
CornerSet(c, n) ==
  {x \in CornerInit[c] :
     \A i \in 0 .. n - 1 : x \notin OrbitOf(c, Solution(c, i))}

(* The database that create has made; no process has opened it.            *)
Init ==
  /\ sol = [i \in Slot |-> Empty]
  /\ n_solved = [c \in Coset |-> 0]
  /\ n_length = [c \in Coset |-> [d \in 0 .. MaxDepth |-> 0]]
  /\ proven_min = Prune
  /\ mode = [p \in Process |-> "off"]
  /\ corner_sets = [p \in Process |-> [c \in Coset |-> {}]]
  /\ is_initialized = [p \in Process |-> [c \in Coset |-> FALSE]]
  /\ ec_mutex = [p \in Process |-> [c \in Coset |-> NoWorker]]
  /\ pc = [w \in Worker |-> "idle"]
  /\ idx = [w \in Worker |-> NoCoset]
  /\ todo = [w \in Worker |-> 0]
  /\ count = [w \in Worker |-> 0]
  /\ arg = [w \in Worker |-> Empty]

-----------------------------------------------------------------------------
(* A command starts: tracker::init and tracker::open.                      *)
Open(p) ==
  /\ mode[p] = "off"
  /\ mode' = [mode EXCEPT ![p] = "open"]
  /\ UNCHANGED <<file, cache, ec_mutex, thread>>

(* Mutant: the lock is shared, or not taken.                               *)
BugLockFree == TRUE
LockFree == \A q \in Process : mode[q] # "writer"

(* tracker::lock: ecoset, neighbor and ingest take the file lock.          *)
Lock(p) ==
  /\ mode[p] = "open"
  /\ LockFree
  /\ mode' = [mode EXCEPT ![p] = "writer"]
  /\ UNCHANGED <<file, cache, ec_mutex, thread>>

(* tracker::lock does not wait: it aborts when another process holds the   *)
(* lock.                                                                   *)
LockFails(p) ==
  /\ mode[p] = "open"
  /\ ~ LockFree
  /\ mode' = [mode EXCEPT ![p] = "off"]
  /\ UNCHANGED <<file, cache, ec_mutex, thread>>

(* countall goes on without the lock.                                      *)
ReadOnly(p) ==
  /\ mode[p] = "open"
  /\ mode' = [mode EXCEPT ![p] = "reader"]
  /\ UNCHANGED <<file, cache, ec_mutex, thread>>

(* A process ends.  The file keeps what was stored, the kernel drops the   *)
(* file lock, and the memory of the process is gone: its command is done,  *)
(* or it is killed, whatever its threads are doing.                        *)
Exit(p) ==
  LET mine == {w \in Worker : ProcessOf[w] = p} IN
  /\ mode[p] \in {"reader", "writer"}
  /\ mode' = [mode EXCEPT ![p] = "off"]
  /\ corner_sets' = [corner_sets EXCEPT ![p] = [c \in Coset |-> {}]]
  /\ is_initialized' = [is_initialized EXCEPT ![p] = [c \in Coset |-> FALSE]]
  /\ ec_mutex' = [ec_mutex EXCEPT ![p] = [c \in Coset |-> NoWorker]]
  /\ pc' = [w \in Worker |-> IF w \in mine THEN "idle" ELSE pc[w]]
  /\ idx' = [w \in Worker |-> IF w \in mine THEN NoCoset ELSE idx[w]]
  /\ todo' = [w \in Worker |-> IF w \in mine THEN 0 ELSE todo[w]]
  /\ count' = [w \in Worker |-> IF w \in mine THEN 0 ELSE count[w]]
  /\ arg' = [w \in Worker |-> IF w \in mine THEN Empty ELSE arg[w]]
  /\ UNCHANGED file

-----------------------------------------------------------------------------
(* Mutant: handles are taken before the file lock.                         *)
BugStarted == {"open", "reader", "writer"}
Started == {"reader", "writer"}

(* handle::handle: take the mutex of the coset; get_corner_set finds the   *)
(* cached set, or starts get_solutions.                                    *)
AcquireHandle(w, c) ==
  LET p == ProcessOf[w] IN
  /\ mode[p] \in Started
  /\ pc[w] = "idle"
  /\ ec_mutex[p][c] = NoWorker
  /\ ec_mutex' = [ec_mutex EXCEPT ![p][c] = w]
  /\ idx' = [idx EXCEPT ![w] = c]
  /\ \/ /\ is_initialized[p][c]
        /\ todo' = [todo EXCEPT ![w] = Cardinality(corner_sets[p][c])]
        /\ pc' = [pc EXCEPT ![w] = "held"]
        /\ UNCHANGED count
     \/ /\ ~ is_initialized[p][c]
        /\ count' = [count EXCEPT ![w] = n_solved[c]]
        /\ pc' = [pc EXCEPT ![w] = "decode"]
        /\ UNCHANGED todo
  /\ UNCHANGED <<file, mode, cache, arg>>

(* get_solutions decodes as many slots as it counted; get_corner_set       *)
(* removes their orbits and marks the set initialized.                     *)
BuildCornerSet(w) ==
  LET p == ProcessOf[w]
      c == idx[w]
      set == CornerSet(c, count[w]) IN
  /\ pc[w] = "decode"
  /\ corner_sets' = [corner_sets EXCEPT ![p][c] = set]
  /\ is_initialized' = [is_initialized EXCEPT ![p][c] = TRUE]
  /\ todo' = [todo EXCEPT ![w] = Cardinality(set)]
  /\ count' = [count EXCEPT ![w] = 0]
  /\ pc' = [pc EXCEPT ![w] = "held"]
  /\ UNCHANGED <<file, mode, ec_mutex, idx, arg>>

(* handle::~handle.                                                        *)
ReleaseHandle(w) ==
  /\ pc[w] = "held"
  /\ ec_mutex' = [ec_mutex EXCEPT ![ProcessOf[w]][idx[w]] = NoWorker]
  /\ pc' = [pc EXCEPT ![w] = "idle"]
  /\ idx' = [idx EXCEPT ![w] = NoCoset]
  /\ todo' = [todo EXCEPT ![w] = 0]
  /\ UNCHANGED <<file, mode, cache, count, arg>>

(* Mutant: todo goes down by one.                                          *)
BugErased(set, orbit) == 1
Erased(set, orbit) == Cardinality(set \cap orbit)

(* Mutant: the slot is not stored.                                         *)
BugFirstStore == "count"
FirstStore == "slot"

(* handle::solution returns false, and changes nothing, when the corner    *)
(* state is solved.  Otherwise it first takes the orbit out of the cached  *)
(* set and out of todo.  Callers pass involutions of the coset only.       *)
MarkSolved(w, m) ==
  LET p == ProcessOf[w]
      c == idx[w]
      set == corner_sets[p][c] IN
  /\ pc[w] = "held"
  /\ mode[p] = "writer"
  /\ CornerOf[m] \in CornerInit[c]
  /\ CornerOf[m] \in set
  /\ corner_sets' = [corner_sets EXCEPT ![p][c] = set \ OrbitOf(c, m)]
  /\ todo' = [todo EXCEPT ![w] = @ - Erased(set, OrbitOf(c, m))]
  /\ arg' = [arg EXCEPT ![w] = m]
  /\ pc' = [pc EXCEPT ![w] = FirstStore]
  /\ UNCHANGED <<file, mode, is_initialized, ec_mutex, idx, count>>

(* Mutant: the slot before.                                                *)
BugNextSlot(c) == Offset[c] + n_solved[c] - 1
NextSlot(c) == Offset[c] + n_solved[c]

(* sol[h->offset + h->n_solved] = seq                                      *)
WriteSlot(w) ==
  LET c == idx[w] IN
  /\ pc[w] = "slot"
  /\ sol' = [sol EXCEPT ![NextSlot(c)] = Recode[arg[w]]]
  /\ pc' = [pc EXCEPT ![w] = "count"]
  /\ UNCHANGED <<n_solved, n_length, proven_min, mode, cache, ec_mutex,
                 idx, todo, count, arg>>

(* h->n_solved++                                                           *)
CountSolved(w) ==
  /\ pc[w] = "count"
  /\ n_solved' = [n_solved EXCEPT ![idx[w]] = @ + 1]
  /\ pc' = [pc EXCEPT ![w] = "length"]
  /\ UNCHANGED <<sol, n_length, proven_min, mode, cache, ec_mutex,
                 idx, todo, count, arg>>

(* h->n_length[seq.size()]++                                               *)
CountLength(w) ==
  /\ pc[w] = "length"
  /\ n_length' = [n_length EXCEPT ![idx[w]][SizeOf[arg[w]]] = @ + 1]
  /\ arg' = [arg EXCEPT ![w] = Empty]
  /\ pc' = [pc EXCEPT ![w] = "held"]
  /\ UNCHANGED <<sol, n_solved, proven_min, mode, cache, ec_mutex,
                 idx, todo, count>>

(* handle::update_proven_min, which the coset solver calls after a pass.   *)
UpdateProvenMin(w, depth) ==
  LET c == idx[w] IN
  /\ pc[w] = "held"
  /\ mode[ProcessOf[w]] = "writer"
  /\ proven_min[c] < depth
  /\ proven_min' = [proven_min EXCEPT ![c] = depth]
  /\ UNCHANGED <<sol, n_solved, n_length, mode, cache, ec_mutex, thread>>

ProcessStep(p) ==
  Open(p) \/ Lock(p) \/ LockFails(p) \/ ReadOnly(p) \/ Exit(p)

WorkerStep(w) ==
  \/ \E c \in Coset : AcquireHandle(w, c)
  \/ BuildCornerSet(w)
  \/ ReleaseHandle(w)
  \/ \E m \in Moves : MarkSolved(w, m)
  \/ WriteSlot(w)
  \/ CountSolved(w)
  \/ CountLength(w)
  \/ \E depth \in PassDepths : UpdateProvenMin(w, depth)

Next == \/ \E p \in Process : ProcessStep(p)
        \/ \E w \in Worker : WorkerStep(w)

Spec == Init /\ [][Next]_vars

-----------------------------------------------------------------------------
TypeOK ==
  /\ sol \in [Slot -> Moves \union {Empty}]
  /\ n_solved \in [Coset -> Nat]
  /\ n_length \in [Coset -> [0 .. MaxDepth -> Nat]]
  /\ proven_min \in [Coset -> 0 .. MaxDepth + 1]
  /\ mode \in [Process -> {"off", "open", "reader", "writer"}]
  /\ corner_sets \in [Process -> [Coset -> SUBSET Corner]]
  /\ is_initialized \in [Process -> [Coset -> BOOLEAN]]
  /\ ec_mutex \in [Process -> [Coset -> Worker \union {NoWorker}]]
  /\ pc \in [Worker -> {"idle", "decode", "held", "slot", "count", "length"}]
  /\ idx \in [Worker -> Coset \union {NoCoset}]
  /\ todo \in [Worker -> Int]
  /\ count \in [Worker -> Nat]
  /\ arg \in [Worker -> Moves \union {Empty}]

(* The slots in use of a coset are its own: handle::solution never writes  *)
(* past the n_cubes slots reserved for the coset, into the next one's.     *)
SolvedBounded == \A c \in Coset : n_solved[c] <= NCubes[c]

(* No orbit is solved by two slots, whatever threads, processes and ends   *)
(* of processes came between the two calls.                                *)
NoOrbitTwice ==
  \A c \in Coset : \A i, j \in 0 .. n_solved[c] - 1 :
    OrbitOf(c, Solution(c, i)) = OrbitOf(c, Solution(c, j)) => i = j

(* Every slot below n_solved holds a whole solution of its own coset.      *)
SlotsWhole ==
  \A c \in Coset : \A i \in 0 .. n_solved[c] - 1 :
    /\ Solution(c, i) \in Moves
    /\ CornerOf[Solution(c, i)] \in CornerInit[c]

(* What get_corner_set would compute now, less the orbit that the owner of *)
(* the mutex is storing.                                                   *)
ExpectedSet(p, c) ==
  LET w == ec_mutex[p][c] IN
  IF w \in Worker /\ pc[w] \in {"slot", "count"}
  THEN CornerSet(c, n_solved[c]) \ OrbitOf(c, arg[w])
  ELSE CornerSet(c, n_solved[c])

(* An initialized corner set of a process that may write agrees with the   *)
(* file, whatever other processes wrote before it took the file lock.      *)
CacheCoherent ==
  \A p \in Process, c \in Coset :
    mode[p] = "writer" /\ is_initialized[p][c] =>
      corner_sets[p][c] = ExpectedSet(p, c)

(* todo is the number of corner states left in the set: rebuild_cpr of the *)
(* coset solver aborts when it is not.                                     *)
TodoExact ==
  \A w \in Worker :
    pc[w] \notin {"idle", "decode"} =>
      todo[w] = Cardinality(corner_sets[ProcessOf[w]][idx[w]])

(* A coset has nothing left to do exactly when all its orbits have a slot. *)
FinishedAgree ==
  \A w \in Worker :
    pc[w] = "held" /\ mode[ProcessOf[w]] = "writer" =>
      (todo[w] = 0 <=> n_solved[idx[w]] = NCubes[idx[w]])

(* The solver stops at todo = 0 and the command skips a coset at n_solved  *)
(* = n_cubes, two counts that are kept apart: one in memory, by the corner *)
(* states an orbit still had in the set, one in the file, by slots.        *)
TodoAgrees == TodoExact /\ FinishedAgree

SolvedWithLength(c, d) ==
  Cardinality({i \in 0 .. n_solved[c] - 1 : SizeOf[Solution(c, i)] = d})

(* The counts by length never claim more solutions than there are.         *)
LengthNeverOverCounts ==
  \A c \in Coset, d \in 0 .. MaxDepth : n_length[c][d] <= SolvedWithLength(c, d)

(* What a header says is in the file, also for a process that reads it     *)
(* without the lock, and after kills between the stores of                 *)
(* handle::solution: whole solutions in the slots below n_solved, and no   *)
(* fewer of a length than n_length counts.                                 *)
HeadersTrue == SlotsWhole /\ LengthNeverOverCounts

-----------------------------------------------------------------------------
(* The store a command sees, whatever process it runs in.                  *)
Recorded == [c \in Coset |-> [i \in 1 .. n_solved[c] |-> Solution(c, i - 1)]]

Store == INSTANCE SolutionStore WITH recorded <- Recorded, OrbitOf <- OrbitOf

(* The file implements the abstract store: solutions are only appended,    *)
(* each for an orbit that no entry solves, and survive every process.      *)
ImplementsStore == Store!Spec
=============================================================================
