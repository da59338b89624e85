--------------------------- MODULE TrackerProofs ---------------------------
(***************************************************************************)
(* Proofs about Tracker.tla for any number of processes, threads, cosets,  *)
(* corner states and sequences.  The inductive invariant adds to the       *)
(* properties of Tracker who holds which mutex, what a handle knows at     *)
(* each step, and that one process at a time may write.                    *)
(***************************************************************************)
EXTENDS Tracker, FiniteSetTheorems, FunctionTheorems, SequenceTheorems, TLAPS

USE DEF Slot, LockFree, Started, Erased, FirstStore, NextSlot

(* At most one process holds the file lock.                                *)
OneWriter ==
  \A p, q \in Process : mode[p] = "writer" /\ mode[q] = "writer" => p = q

(* A thread past handle::handle owns the mutex of its coset, and only such *)
(* threads own mutexes.                                                    *)
MutexOwners ==
  /\ \A w \in Worker :
       pc[w] # "idle" =>
         /\ idx[w] \in Coset
         /\ mode[ProcessOf[w]] \in {"reader", "writer"}
         /\ ec_mutex[ProcessOf[w]][idx[w]] = w
  /\ \A p \in Process, c \in Coset :
       ec_mutex[p][c] # NoWorker =>
         LET w == ec_mutex[p][c] IN
         ProcessOf[w] = p /\ idx[w] = c /\ pc[w] # "idle"

(* A process that has not passed open and lock has built no corner set.    *)
FreshProcess ==
  \A p \in Process, c \in Coset :
    mode[p] \in {"off", "open"} => ~ is_initialized[p][c]

(* What get_solutions counted is still there to decode, and is all there   *)
(* is when this process writes.                                            *)
Decoding ==
  \A w \in Worker :
    pc[w] = "decode" =>
      /\ count[w] <= n_solved[idx[w]]
      /\ mode[ProcessOf[w]] = "writer" => count[w] = n_solved[idx[w]]

(* A handle in use has an initialized corner set.                          *)
HandleReady ==
  \A w \in Worker :
    pc[w] \in {"held", "slot", "count", "length"} =>
      is_initialized[ProcessOf[w]][idx[w]]

(* A thread inside handle::solution is in the process that writes, and up  *)
(* to n_solved++ no slot in use solves the orbit it stores.                *)
Storing ==
  \A w \in Worker :
    pc[w] \in {"slot", "count", "length"} =>
      /\ mode[ProcessOf[w]] = "writer"
      /\ arg[w] \in Moves
      /\ CornerOf[arg[w]] \in CornerInit[idx[w]]
      /\ pc[w] \in {"slot", "count"} =>
           \A i \in 0 .. n_solved[idx[w]] - 1 :
             OrbitOf(idx[w], Solution(idx[w], i)) # OrbitOf(idx[w], arg[w])
      /\ pc[w] = "count" =>
           Solution(idx[w], n_solved[idx[w]]) = Recode[arg[w]]

IInv ==
  /\ TypeOK
  /\ OneWriter
  /\ MutexOwners
  /\ FreshProcess
  /\ Decoding
  /\ HandleReady
  /\ Storing
  /\ SolvedBounded
  /\ NoOrbitTwice
  /\ SlotsWhole
  /\ CacheCoherent
  /\ TodoExact

-----------------------------------------------------------------------------
(* A coset has finitely many orbits, and n_cubes counts them.              *)
LEMMA CosetOrbits ==
  ASSUME NEW c \in Coset
  PROVE  /\ IsFiniteSet({Orbit[c][x] : x \in CornerInit[c]})
         /\ NCubes[c] = Cardinality({Orbit[c][x] : x \in CornerInit[c]})
<1> DEFINE Orbits == {Orbit[c][x] : x \in CornerInit[c]}
<1>1. IsFiniteSet(SUBSET Corner)
  BY LayoutAssumption, FS_SUBSET
<1>2. Orbits \in SUBSET (SUBSET Corner)
  BY OrbitAssumption
<1> HIDE DEF Orbits
<1>3. IsFiniteSet(Orbits)
  BY <1>1, <1>2, FS_Subset
<1> QED
  BY <1>3, LayoutAssumption DEF Orbits

(* An involution whose orbit no slot in use solves leaves a slot free: the *)
(* slots in use solve different orbits of the coset, and the coset has as  *)
(* many slots as orbits.                                                   *)
LEMMA FreeSlot ==
  ASSUME TypeOK, NoOrbitTwice, SlotsWhole,
         NEW c \in Coset, NEW m \in Moves,
         CornerOf[m] \in CornerInit[c],
         \A i \in 0 .. n_solved[c] - 1 : OrbitOf(c, Solution(c, i)) # OrbitOf(c, m)
  PROVE  n_solved[c] < NCubes[c]
<1> DEFINE n == n_solved[c]
           Orbits == {Orbit[c][x] : x \in CornerInit[c]}
           T == Orbits \ {OrbitOf(c, m)}
           f == [i \in 0 .. n - 1 |-> OrbitOf(c, Solution(c, i))]
<1>1. n \in Nat
  BY DEF TypeOK
<1>2. IsFiniteSet(Orbits) /\ NCubes[c] = Cardinality(Orbits)
  BY CosetOrbits
<1>3. OrbitOf(c, m) \in Orbits
  BY DEF OrbitOf
<1>4. f \in Injection(0 .. n - 1, T)
  <2>1. f \in [0 .. n - 1 -> T]
    BY DEF SlotsWhole, OrbitOf
  <2>2. \A i, j \in 0 .. n - 1 : f[i] = f[j] => i = j
    BY DEF NoOrbitTwice
  <2> HIDE DEF f, T
  <2> QED
    BY <2>1, <2>2, Fun_IsInj
<1> HIDE DEF Orbits, f
<1>5. IsFiniteSet(T) /\ Cardinality(T) = Cardinality(Orbits) - 1
  BY <1>2, <1>3, FS_RemoveElement
<1>6. Cardinality(0 .. n - 1) <= Cardinality(T)
  <2> HIDE DEF T
  <2> QED
    BY <1>4, <1>5, FS_Injection
<1>7. Cardinality(0 .. n - 1) = n
  <2> HIDE DEF n
  <2> QED
    BY <1>1, FS_Interval
<1>8. Cardinality(Orbits) \in Nat
  BY <1>2, FS_CardinalityType
<1> QED
  BY <1>1, <1>2, <1>5, <1>6, <1>7, <1>8

(* A corner set is a finite set of corner states.                          *)
LEMMA CornerSetType ==
  ASSUME NEW S \in SUBSET Corner
  PROVE  IsFiniteSet(S) /\ Cardinality(S) \in Nat
BY LayoutAssumption, FS_Subset, FS_CardinalityType

(* A corner set computed from the file changes only with the file.         *)
LEMMA SameCornerSet ==
  ASSUME UNCHANGED sol
  PROVE  \A d \in Coset, n \in Nat : CornerSet(d, n)' = CornerSet(d, n)
BY DEF CornerSet, Solution, OrbitOf

(* What a cache is compared with changes only with the file and with the   *)
(* owner of the mutex.                                                     *)
LEMMA SameExpectedSet ==
  ASSUME NEW q \in Process, NEW d \in Coset,
         CornerSet(d, n_solved[d])' = CornerSet(d, n_solved[d]),
         ec_mutex'[q][d] = ec_mutex[q][d],
         ec_mutex[q][d] \in Worker =>
           /\ pc'[ec_mutex[q][d]] = pc[ec_mutex[q][d]]
           /\ arg'[ec_mutex[q][d]] = arg[ec_mutex[q][d]]
  PROVE  ExpectedSet(q, d)' = ExpectedSet(q, d)
BY DEF ExpectedSet, OrbitOf

(* Two handles of one process are on different cosets.                     *)
LEMMA OneHandlePerCoset ==
  ASSUME MutexOwners, NEW v \in Worker, NEW w \in Worker,
         pc[v] # "idle", pc[w] # "idle",
         ProcessOf[v] = ProcessOf[w], idx[v] = idx[w]
  PROVE  v = w
BY DEF MutexOwners

(* Two threads inside handle::solution are on different cosets: they are   *)
(* in the one process that writes.                                         *)
LEMMA OneWriterPerCoset ==
  ASSUME OneWriter, MutexOwners, NEW v \in Worker, NEW w \in Worker,
         pc[v] # "idle", pc[w] # "idle", v # w,
         mode[ProcessOf[v]] = "writer", mode[ProcessOf[w]] = "writer"
  PROVE  idx[v] # idx[w]
BY ProcessAssumption, OneHandlePerCoset DEF OneWriter

(* A new file, with no process, satisfies the invariant.                   *)
LEMMA InitInvariant == Init => IInv
<1> SUFFICES ASSUME Init PROVE IInv
  OBVIOUS
<1> USE DEF Init
<1>1. TypeOK
  BY MovesAssumption DEF TypeOK
<1>2. SolvedBounded
  BY LayoutAssumption DEF SolvedBounded
<1>3. OneWriter /\ MutexOwners /\ FreshProcess /\ Decoding /\ HandleReady /\ Storing
  BY ProcessAssumption
     DEF OneWriter, MutexOwners, FreshProcess, Decoding, HandleReady, Storing
<1>4. NoOrbitTwice /\ SlotsWhole /\ CacheCoherent /\ TodoExact
  BY DEF NoOrbitTwice, SlotsWhole, CacheCoherent, TodoExact
<1> QED
  BY <1>1, <1>2, <1>3, <1>4 DEF IInv

-----------------------------------------------------------------------------
(* Opening the file, with or without the lock, and failing to lock it.     *)
LEMMA OpenKeepsInvariant ==
  ASSUME IInv, NEW p \in Process, Open(p) \/ Lock(p) \/ LockFails(p) \/ ReadOnly(p)
  PROVE  IInv'
<1> USE ProcessAssumption DEF IInv
<1>1. mode[p] \in {"off", "open"} /\ UNCHANGED <<file, cache, ec_mutex, thread>>
  BY DEF Open, Lock, LockFails, ReadOnly
<1>2. PICK s \in {"off", "open", "reader", "writer"} :
        /\ mode' = [mode EXCEPT ![p] = s]
        /\ s = "writer" => \A q \in Process : mode[q] # "writer"
  BY DEF Open, Lock, LockFails, ReadOnly
<1> HIDE DEF IInv
<1>3. TypeOK'
  BY <1>1, <1>2 DEF IInv, TypeOK, file, cache, thread
<1>4. OneWriter'
  BY <1>1, <1>2 DEF IInv, OneWriter, TypeOK
<1>5. \A w \in Worker : pc[w] # "idle" => mode'[ProcessOf[w]] = mode[ProcessOf[w]]
  <2> SUFFICES ASSUME NEW w \in Worker, pc[w] # "idle"
               PROVE  mode'[ProcessOf[w]] = mode[ProcessOf[w]]
    OBVIOUS
  <2>1. mode[ProcessOf[w]] \in {"reader", "writer"}
    BY DEF IInv, MutexOwners
  <2>2. ProcessOf[w] # p
    BY <1>1, <2>1
  <2>3. mode \in [Process -> {"off", "open", "reader", "writer"}]
    BY DEF IInv, TypeOK
  <2> QED
    BY <1>2, <2>2, <2>3
<1>6. MutexOwners' /\ Decoding' /\ HandleReady'
  BY <1>1, <1>5 DEF IInv, MutexOwners, Decoding, HandleReady, file, cache, thread
<1>7. Storing'
  BY <1>1, <1>5 DEF IInv, Storing, Solution, OrbitOf, file, thread
<1>8. SolvedBounded' /\ NoOrbitTwice' /\ SlotsWhole' /\ TodoExact'
  BY <1>1 DEF IInv, SolvedBounded, NoOrbitTwice, SlotsWhole, TodoExact, Solution,
              OrbitOf, file, cache, thread
<1>9. FreshProcess'
  BY <1>1, <1>2 DEF IInv, FreshProcess, cache, TypeOK
<1>10. CacheCoherent'
  <2> SUFFICES ASSUME NEW q \in Process, NEW c \in Coset,
                      mode'[q] = "writer", is_initialized[q][c]
               PROVE  corner_sets[q][c] = ExpectedSet(q, c)
    <3>1. \A d \in Coset, n \in Nat : CornerSet(d, n)' = CornerSet(d, n)
      BY <1>1 DEF CornerSet, Solution, OrbitOf, file
    <3>2. \A r \in Process, d \in Coset : ExpectedSet(r, d)' = ExpectedSet(r, d)
      BY <1>1, <3>1 DEF IInv, TypeOK, ExpectedSet, OrbitOf, file, cache, thread
    <3> QED
      BY <1>1, <3>2 DEF CacheCoherent, cache
  <2>1. q # p
    BY <1>1 DEF IInv, FreshProcess
  <2>2. mode[q] = "writer"
    BY <1>2, <2>1 DEF IInv, TypeOK
  <2> QED
    BY <2>2 DEF IInv, CacheCoherent
<1> QED
  BY <1>3, <1>4, <1>6, <1>7, <1>8, <1>9, <1>10 DEF IInv

(* The end of a process: its threads are gone and it starts afresh.        *)
LEMMA ExitKeepsInvariant ==
  ASSUME IInv, NEW p \in Process, Exit(p)
  PROVE  IInv'
<1> DEFINE mine == {w \in Worker : ProcessOf[w] = p}
<1> USE ProcessAssumption
<1>1. UNCHANGED <<sol, n_solved, n_length, proven_min>>
  BY DEF Exit, file
<1>2. TypeOK'
  BY <1>1 DEF IInv, TypeOK, Exit
<1>3. /\ mode'[p] = "off"
      /\ \A q \in Process \ {p} : mode'[q] = mode[q]
      /\ \A d \in Coset : ~ is_initialized'[p][d] /\ ec_mutex'[p][d] = NoWorker
      /\ \A q \in Process \ {p}, d \in Coset :
           /\ is_initialized'[q][d] = is_initialized[q][d]
           /\ corner_sets'[q][d] = corner_sets[q][d]
           /\ ec_mutex'[q][d] = ec_mutex[q][d]
  BY DEF IInv, TypeOK, Exit
<1>4. /\ \A w \in mine : pc'[w] = "idle"
      /\ \A w \in Worker \ mine :
           /\ pc'[w] = pc[w]
           /\ idx'[w] = idx[w]
           /\ todo'[w] = todo[w]
           /\ count'[w] = count[w]
           /\ arg'[w] = arg[w]
  BY DEF Exit
<1>5. \A w \in Worker \ mine : ProcessOf[w] \in Process \ {p}
  OBVIOUS
<1> HIDE DEF mine
<1>6. OneWriter'
  BY <1>3 DEF IInv, OneWriter
<1>7. MutexOwners'
  <2>1. ASSUME NEW w \in Worker, pc'[w] # "idle"
        PROVE  /\ idx'[w] \in Coset
               /\ mode'[ProcessOf[w]] \in {"reader", "writer"}
               /\ ec_mutex'[ProcessOf[w]][idx'[w]] = w
    BY <1>3, <1>4, <1>5, <2>1 DEF IInv, MutexOwners
  <2>2. ASSUME NEW q \in Process, NEW d \in Coset, ec_mutex'[q][d] # NoWorker
        PROVE  LET w == ec_mutex'[q][d] IN
               ProcessOf[w] = q /\ idx'[w] = d /\ pc'[w] # "idle"
    <3>1. q # p /\ ec_mutex[q][d] # NoWorker /\ ec_mutex'[q][d] = ec_mutex[q][d]
      BY <1>3, <2>2
    <3>2. ec_mutex[q][d] \in Worker \ mine
      BY <3>1 DEF IInv, TypeOK, MutexOwners, mine
    <3> QED
      BY <1>4, <3>1, <3>2 DEF IInv, MutexOwners
  <2> QED
    BY <2>1, <2>2 DEF MutexOwners
<1>8. FreshProcess'
  BY <1>3 DEF IInv, FreshProcess
<1>9. Decoding'
  BY <1>1, <1>3, <1>4, <1>5 DEF IInv, Decoding
<1>10. HandleReady' /\ TodoExact'
  <2> SUFFICES ASSUME NEW w \in Worker \ mine, pc[w] # "idle"
               PROVE  /\ is_initialized'[ProcessOf[w]][idx[w]] = is_initialized[ProcessOf[w]][idx[w]]
                      /\ corner_sets'[ProcessOf[w]][idx[w]] = corner_sets[ProcessOf[w]][idx[w]]
    BY <1>4 DEF IInv, HandleReady, TodoExact
  <2> QED
    BY <1>3, <1>5 DEF IInv, MutexOwners
<1>11. Storing'
  BY <1>1, <1>3, <1>4, <1>5 DEF IInv, Storing, Solution, OrbitOf
<1>12. SolvedBounded' /\ NoOrbitTwice' /\ SlotsWhole'
  BY <1>1 DEF IInv, SolvedBounded, NoOrbitTwice, SlotsWhole, Solution, OrbitOf
<1>13. CacheCoherent'
  <2>1. \A d \in Coset, n \in Nat : CornerSet(d, n)' = CornerSet(d, n)
    BY <1>1 DEF CornerSet, Solution, OrbitOf
  <2> SUFFICES ASSUME NEW q \in Process, NEW d \in Coset,
                      mode'[q] = "writer", is_initialized'[q][d]
               PROVE  corner_sets'[q][d] = ExpectedSet(q, d)'
    BY DEF CacheCoherent
  <2>2. q # p /\ mode[q] = "writer" /\ is_initialized[q][d]
    BY <1>3
  <2>3. ec_mutex'[q][d] = ec_mutex[q][d] /\ corner_sets'[q][d] = corner_sets[q][d]
    BY <1>3, <2>2
  <2>4. ec_mutex[q][d] \in Worker => ec_mutex[q][d] \in Worker \ mine
    BY <2>2 DEF IInv, TypeOK, MutexOwners, mine
  <2>5. ExpectedSet(q, d)' = ExpectedSet(q, d)
    <3>1. CornerSet(d, n_solved[d])' = CornerSet(d, n_solved[d])
      BY <1>1, <2>1 DEF IInv, TypeOK
    <3>2. ec_mutex[q][d] \in Worker =>
            /\ pc'[ec_mutex[q][d]] = pc[ec_mutex[q][d]]
            /\ arg'[ec_mutex[q][d]] = arg[ec_mutex[q][d]]
      BY <1>4, <2>4
    <3> QED
      BY <2>3, <3>1, <3>2 DEF ExpectedSet, OrbitOf
  <2> QED
    BY <2>2, <2>3, <2>5 DEF IInv, CacheCoherent
<1> QED
  BY <1>2, <1>6, <1>7, <1>8, <1>9, <1>10, <1>11, <1>12, <1>13 DEF IInv

(* handle::handle takes a free mutex; it changes no set and no file.       *)
LEMMA AcquireKeepsInvariant ==
  ASSUME IInv, NEW w \in Worker, NEW c \in Coset, AcquireHandle(w, c)
  PROVE  IInv'
<1> DEFINE p == ProcessOf[w]
<1> USE ProcessAssumption
<1>1. UNCHANGED <<sol, n_solved, n_length, proven_min, mode, corner_sets,
                  is_initialized, arg>>
  BY DEF AcquireHandle, file, cache
<1>2. /\ p \in Process
      /\ pc[w] = "idle"
      /\ mode[p] \in {"reader", "writer"}
      /\ ec_mutex[p][c] = NoWorker
  BY DEF AcquireHandle
<1>3. TypeOK'
  <2>1. IsFiniteSet(corner_sets[p][c]) /\ Cardinality(corner_sets[p][c]) \in Nat
    BY <1>2, CornerSetType DEF IInv, TypeOK
  <2>2. ec_mutex' \in [Process -> [Coset -> Worker \union {NoWorker}]]
    BY <1>2 DEF IInv, TypeOK, AcquireHandle
  <2>3. /\ pc' \in [Worker -> {"idle", "decode", "held", "slot", "count", "length"}]
        /\ idx' \in [Worker -> Coset \union {NoCoset}]
    BY DEF IInv, TypeOK, AcquireHandle
  <2>4. n_solved[c] \in Nat
    BY DEF IInv, TypeOK
  <2>5. /\ \/ todo' = todo
           \/ todo' = [todo EXCEPT ![w] = Cardinality(corner_sets[p][c])]
        /\ \/ count' = count
           \/ count' = [count EXCEPT ![w] = n_solved[c]]
    BY DEF AcquireHandle
  <2>6. todo \in [Worker -> Int] /\ count \in [Worker -> Nat]
    BY DEF IInv, TypeOK
  <2>7. todo' \in [Worker -> Int] /\ count' \in [Worker -> Nat]
    <3> HIDE DEF p
    <3> QED
      BY <2>1, <2>4, <2>5, <2>6
  <2> QED
    BY <1>1, <2>2, <2>3, <2>7 DEF IInv, TypeOK
<1>4. /\ pc'[w] \in {"held", "decode"} /\ idx'[w] = c
      /\ pc'[w] = "held" => /\ is_initialized[p][c]
                            /\ todo'[w] = Cardinality(corner_sets[p][c])
      /\ pc'[w] = "decode" => count'[w] = n_solved[c]
      /\ \A v \in Worker \ {w} : /\ pc'[v] = pc[v]
                                  /\ idx'[v] = idx[v]
                                  /\ todo'[v] = todo[v]
                                  /\ count'[v] = count[v]
  BY DEF AcquireHandle, IInv, TypeOK
<1>5. /\ ec_mutex'[p][c] = w
      /\ \A q \in Process, d \in Coset :
           <<q, d>> # <<p, c>> => ec_mutex'[q][d] = ec_mutex[q][d]
  BY <1>2 DEF AcquireHandle, IInv, TypeOK
<1> HIDE DEF p
<1>6. OneWriter' /\ FreshProcess' /\ SolvedBounded'
  BY <1>1 DEF IInv, OneWriter, FreshProcess, SolvedBounded
<1>7. NoOrbitTwice' /\ SlotsWhole'
  BY <1>1 DEF IInv, NoOrbitTwice, SlotsWhole, Solution, OrbitOf
<1>8. MutexOwners'
  <2>1. ASSUME NEW v \in Worker, pc'[v] # "idle"
        PROVE  /\ idx'[v] \in Coset
               /\ mode'[ProcessOf[v]] \in {"reader", "writer"}
               /\ ec_mutex'[ProcessOf[v]][idx'[v]] = v
    <3>1. CASE v = w
      BY <1>1, <1>2, <1>4, <1>5, <3>1 DEF p
    <3>2. CASE v # w
      BY <1>1, <1>2, <1>4, <1>5, <2>1, <3>2 DEF IInv, MutexOwners
    <3> QED
      BY <3>1, <3>2
  <2>2. ASSUME NEW q \in Process, NEW d \in Coset, ec_mutex'[q][d] # NoWorker
        PROVE  LET v == ec_mutex'[q][d] IN
               ProcessOf[v] = q /\ idx'[v] = d /\ pc'[v] # "idle"
    <3>1. CASE <<q, d>> = <<p, c>>
      BY <1>4, <1>5, <3>1 DEF p
    <3>2. CASE <<q, d>> # <<p, c>>
      <4>1. ec_mutex'[q][d] = ec_mutex[q][d]
        BY <1>5, <3>2
      <4>2. ec_mutex[q][d] \in Worker \ {w}
        BY <1>2, <2>2, <4>1 DEF IInv, TypeOK, MutexOwners
      <4> QED
        BY <1>4, <2>2, <4>1, <4>2 DEF IInv, MutexOwners
    <3> QED
      BY <3>1, <3>2
  <2> QED
    BY <2>1, <2>2 DEF MutexOwners
<1>9. Decoding'
  <2>1. n_solved[c] \in Nat
    BY DEF IInv, TypeOK
  <2> QED
    BY <1>1, <1>2, <1>4, <2>1 DEF IInv, Decoding
<1>10. HandleReady'
  BY <1>1, <1>4 DEF IInv, HandleReady, p
<1>11. Storing'
  BY <1>1, <1>4 DEF IInv, Storing, Solution, OrbitOf
<1>12. TodoExact'
  BY <1>1, <1>4 DEF IInv, TodoExact, p
<1>13. CacheCoherent'
  <2> SUFFICES ASSUME NEW q \in Process, NEW d \in Coset,
                      mode[q] = "writer", is_initialized[q][d]
               PROVE  corner_sets[q][d] = ExpectedSet(q, d)'
    BY <1>1 DEF CacheCoherent
  <2>1. CornerSet(d, n_solved[d])' = CornerSet(d, n_solved[d])
    BY <1>1, SameCornerSet DEF IInv, TypeOK
  <2>2. ExpectedSet(q, d)' = ExpectedSet(q, d)
    <3>1. CASE <<q, d>> = <<p, c>>
      <4>1. ExpectedSet(p, c)' = CornerSet(c, n_solved[c])'
        BY <1>4, <1>5 DEF ExpectedSet
      <4>2. ExpectedSet(p, c) = CornerSet(c, n_solved[c])
        BY <1>2 DEF ExpectedSet
      <4> QED
        BY <2>1, <3>1, <4>1, <4>2
    <3>2. CASE <<q, d>> # <<p, c>>
      <4>1. ec_mutex'[q][d] = ec_mutex[q][d]
        BY <1>5, <3>2
      <4>2. ec_mutex[q][d] \in Worker => ec_mutex[q][d] \in Worker \ {w}
        BY <1>2 DEF IInv, MutexOwners
      <4> QED
        BY <1>1, <1>4, <2>1, <4>1, <4>2, SameExpectedSet
    <3> QED
      BY <3>1, <3>2
  <2> QED
    BY <2>2 DEF IInv, CacheCoherent
<1> QED
  BY <1>3, <1>6, <1>7, <1>8, <1>9, <1>10, <1>11, <1>12, <1>13 DEF IInv

(* The end of get_corner_set: the set is what the file says now, if this   *)
(* process writes, since only the owner of the mutex could store more.     *)
LEMMA BuildKeepsInvariant ==
  ASSUME IInv, NEW w \in Worker, BuildCornerSet(w)
  PROVE  IInv'
<1> DEFINE p == ProcessOf[w]
           c == idx[w]
           set == CornerSet(c, count[w])
<1> USE ProcessAssumption
<1>1. UNCHANGED <<sol, n_solved, n_length, proven_min, mode, ec_mutex, idx, arg>>
  BY DEF BuildCornerSet, file
<1>2. pc[w] = "decode" /\ p \in Process /\ c \in Coset /\ ec_mutex[p][c] = w
  BY DEF BuildCornerSet, IInv, MutexOwners
<1>3. /\ set \in SUBSET Corner
      /\ Cardinality(set) \in Nat
  <2>1. set \in SUBSET Corner
    BY <1>2, OrbitAssumption DEF CornerSet
  <2> QED
    BY <2>1, CornerSetType
<1>4. /\ pc'[w] = "held"
      /\ todo'[w] = Cardinality(set)
      /\ count'[w] = 0
      /\ \A v \in Worker \ {w} : /\ pc'[v] = pc[v]
                                  /\ todo'[v] = todo[v]
                                  /\ count'[v] = count[v]
  BY DEF BuildCornerSet, IInv, TypeOK
<1>5. /\ corner_sets'[p][c] = set
      /\ is_initialized'[p][c]
      /\ \A q \in Process, d \in Coset :
           <<q, d>> # <<p, c>> => /\ corner_sets'[q][d] = corner_sets[q][d]
                                  /\ is_initialized'[q][d] = is_initialized[q][d]
  BY <1>2 DEF BuildCornerSet, IInv, TypeOK
<1>6. TypeOK'
  <2>1. corner_sets' \in [Process -> [Coset -> SUBSET Corner]]
    BY <1>2, <1>3 DEF IInv, TypeOK, BuildCornerSet
  <2>2. is_initialized' \in [Process -> [Coset -> BOOLEAN]]
    BY <1>2 DEF IInv, TypeOK, BuildCornerSet
  <2>3. pc' \in [Worker -> {"idle", "decode", "held", "slot", "count", "length"}]
    BY DEF IInv, TypeOK, BuildCornerSet
  <2>4. todo' \in [Worker -> Int] /\ count' \in [Worker -> Nat]
    BY <1>3 DEF IInv, TypeOK, BuildCornerSet
  <2> QED
    BY <1>1, <2>1, <2>2, <2>3, <2>4 DEF IInv, TypeOK
<1> HIDE DEF p, c, set
<1>7. OneWriter' /\ SolvedBounded'
  BY <1>1 DEF IInv, OneWriter, SolvedBounded
<1>8. NoOrbitTwice' /\ SlotsWhole'
  BY <1>1 DEF IInv, NoOrbitTwice, SlotsWhole, Solution, OrbitOf
<1>9. MutexOwners'
  BY <1>1, <1>2, <1>4 DEF IInv, TypeOK, MutexOwners
<1>10. FreshProcess'
  BY <1>1, <1>2, <1>5 DEF IInv, FreshProcess, MutexOwners, p, c
<1>11. Decoding'
  BY <1>1, <1>4 DEF IInv, Decoding
<1>12. Storing'
  BY <1>1, <1>4 DEF IInv, Storing, Solution, OrbitOf
<1>13. ASSUME NEW v \in Worker, v # w, pc[v] # "idle"
       PROVE  /\ is_initialized'[ProcessOf[v]][idx[v]] = is_initialized[ProcessOf[v]][idx[v]]
              /\ corner_sets'[ProcessOf[v]][idx[v]] = corner_sets[ProcessOf[v]][idx[v]]
  <2>1. <<ProcessOf[v], idx[v]>> # <<p, c>> /\ idx[v] \in Coset
    BY <1>2, <1>13 DEF IInv, MutexOwners
  <2> QED
    BY <1>5, <2>1
<1>14. HandleReady'
  BY <1>1, <1>4, <1>5, <1>13 DEF IInv, HandleReady, p, c
<1>15. TodoExact'
  BY <1>1, <1>4, <1>5, <1>13 DEF IInv, TodoExact, p, c
<1>16. CacheCoherent'
  <2> SUFFICES ASSUME NEW q \in Process, NEW d \in Coset,
                      mode[q] = "writer", is_initialized'[q][d]
               PROVE  corner_sets'[q][d] = ExpectedSet(q, d)'
    BY <1>1 DEF CacheCoherent
  <2>1. CornerSet(d, n_solved[d])' = CornerSet(d, n_solved[d])
    BY <1>1, SameCornerSet DEF IInv, TypeOK
  <2>2. CASE <<q, d>> = <<p, c>>
    <3>1. ec_mutex'[q][d] = w
      BY <1>1, <1>2, <2>2
    <3>2. ExpectedSet(q, d)' = CornerSet(d, n_solved[d])'
      BY <1>4, <3>1 DEF ExpectedSet
    <3>3. count[w] = n_solved[d]
      BY <1>2, <2>2 DEF IInv, Decoding, p, c
    <3>4. corner_sets'[q][d] = CornerSet(d, count[w])
      BY <1>5, <2>2 DEF set, c
    <3> QED
      BY <2>1, <3>2, <3>3, <3>4
  <2>3. CASE <<q, d>> # <<p, c>>
    <3>1. ec_mutex[q][d] \in Worker => ec_mutex[q][d] \in Worker \ {w}
      BY <2>3 DEF IInv, MutexOwners, p, c
    <3>2. ExpectedSet(q, d)' = ExpectedSet(q, d)
      BY <1>1, <1>4, <2>1, <3>1, SameExpectedSet
    <3> QED
      BY <1>5, <2>3, <3>2 DEF IInv, CacheCoherent
  <2> QED
    BY <2>2, <2>3
<1> QED
  BY <1>6, <1>7, <1>8, <1>9, <1>10, <1>11, <1>12, <1>14, <1>15, <1>16 DEF IInv

(* handle::~handle.                                                        *)
LEMMA ReleaseKeepsInvariant ==
  ASSUME IInv, NEW w \in Worker, ReleaseHandle(w)
  PROVE  IInv'
<1> DEFINE p == ProcessOf[w]
           c == idx[w]
<1> USE ProcessAssumption
<1>1. UNCHANGED <<sol, n_solved, n_length, proven_min, mode, corner_sets,
                  is_initialized, count, arg>>
  BY DEF ReleaseHandle, file, cache
<1>2. pc[w] = "held" /\ p \in Process /\ c \in Coset /\ ec_mutex[p][c] = w
  BY DEF ReleaseHandle, IInv, MutexOwners
<1>3. /\ ec_mutex'[p][c] = NoWorker
      /\ \A q \in Process, d \in Coset :
           <<q, d>> # <<p, c>> => ec_mutex'[q][d] = ec_mutex[q][d]
  BY <1>2 DEF ReleaseHandle, IInv, TypeOK
<1>4. /\ pc'[w] = "idle"
      /\ \A v \in Worker \ {w} : /\ pc'[v] = pc[v]
                                  /\ idx'[v] = idx[v]
                                  /\ todo'[v] = todo[v]
  BY DEF ReleaseHandle, IInv, TypeOK
<1>5. TypeOK'
  <2>1. ec_mutex' \in [Process -> [Coset -> Worker \union {NoWorker}]]
    BY <1>2 DEF IInv, TypeOK, ReleaseHandle
  <2>2. /\ pc' \in [Worker -> {"idle", "decode", "held", "slot", "count", "length"}]
        /\ idx' \in [Worker -> Coset \union {NoCoset}]
        /\ todo' \in [Worker -> Int]
    BY DEF IInv, TypeOK, ReleaseHandle
  <2> QED
    BY <1>1, <2>1, <2>2 DEF IInv, TypeOK
<1> HIDE DEF p, c
<1>6. OneWriter' /\ SolvedBounded' /\ FreshProcess'
  BY <1>1 DEF IInv, OneWriter, SolvedBounded, FreshProcess
<1>7. NoOrbitTwice' /\ SlotsWhole'
  BY <1>1 DEF IInv, NoOrbitTwice, SlotsWhole, Solution, OrbitOf
<1>8. MutexOwners'
  <2>1. ASSUME NEW v \in Worker, pc'[v] # "idle"
        PROVE  /\ idx'[v] \in Coset
               /\ mode'[ProcessOf[v]] \in {"reader", "writer"}
               /\ ec_mutex'[ProcessOf[v]][idx'[v]] = v
    <3>1. v # w /\ pc[v] # "idle" /\ idx'[v] = idx[v]
      BY <1>4, <2>1
    <3>2. <<ProcessOf[v], idx[v]>> # <<p, c>>
      BY <1>2, <3>1 DEF IInv, MutexOwners
    <3> QED
      BY <1>1, <1>3, <3>1, <3>2 DEF IInv, MutexOwners
  <2>2. ASSUME NEW q \in Process, NEW d \in Coset, ec_mutex'[q][d] # NoWorker
        PROVE  LET v == ec_mutex'[q][d] IN
               ProcessOf[v] = q /\ idx'[v] = d /\ pc'[v] # "idle"
    <3>1. <<q, d>> # <<p, c>> /\ ec_mutex'[q][d] = ec_mutex[q][d]
      BY <1>3, <2>2
    <3>2. ec_mutex[q][d] \in Worker \ {w}
      BY <2>2, <3>1 DEF IInv, TypeOK, MutexOwners, p, c
    <3> QED
      BY <1>4, <2>2, <3>1, <3>2 DEF IInv, MutexOwners
  <2> QED
    BY <2>1, <2>2 DEF MutexOwners
<1>9. Decoding' /\ HandleReady' /\ TodoExact'
  BY <1>1, <1>4 DEF IInv, Decoding, HandleReady, TodoExact
<1>10. Storing'
  BY <1>1, <1>4 DEF IInv, Storing, Solution, OrbitOf
<1>11. CacheCoherent'
  <2> SUFFICES ASSUME NEW q \in Process, NEW d \in Coset,
                      mode[q] = "writer", is_initialized[q][d]
               PROVE  corner_sets[q][d] = ExpectedSet(q, d)'
    BY <1>1 DEF CacheCoherent
  <2>1. CornerSet(d, n_solved[d])' = CornerSet(d, n_solved[d])
    BY <1>1, SameCornerSet DEF IInv, TypeOK
  <2>2. ExpectedSet(q, d)' = ExpectedSet(q, d)
    <3>1. CASE <<q, d>> = <<p, c>>
      BY <1>2, <1>3, <2>1, <3>1 DEF ExpectedSet
    <3>2. CASE <<q, d>> # <<p, c>>
      <4>1. ec_mutex[q][d] \in Worker => ec_mutex[q][d] \in Worker \ {w}
        BY <3>2 DEF IInv, MutexOwners, p, c
      <4> QED
        BY <1>1, <1>3, <1>4, <2>1, <3>2, <4>1, SameExpectedSet
    <3> QED
      BY <3>1, <3>2
  <2> QED
    BY <2>2 DEF IInv, CacheCoherent
<1> QED
  BY <1>5, <1>6, <1>7, <1>8, <1>9, <1>10, <1>11 DEF IInv

(* handle::update_proven_min touches one header field.                     *)
LEMMA UpdateKeepsInvariant ==
  ASSUME IInv, NEW w \in Worker, NEW depth \in PassDepths, UpdateProvenMin(w, depth)
  PROVE  IInv'
<1>1. UNCHANGED <<sol, n_solved, n_length, mode, corner_sets, is_initialized,
                  ec_mutex, pc, idx, todo, count, arg>>
  BY DEF UpdateProvenMin, cache, thread
<1>2. TypeOK'
  <2>1. depth \in 0 .. MaxDepth + 1
    BY MovesAssumption
  <2>2. proven_min' \in [Coset -> 0 .. MaxDepth + 1]
    BY <2>1 DEF IInv, TypeOK, UpdateProvenMin
  <2> QED
    BY <1>1, <2>2 DEF IInv, TypeOK
<1>3. OneWriter' /\ SolvedBounded' /\ FreshProcess' /\ MutexOwners'
  BY <1>1 DEF IInv, OneWriter, SolvedBounded, FreshProcess, MutexOwners
<1>4. NoOrbitTwice' /\ SlotsWhole'
  BY <1>1 DEF IInv, NoOrbitTwice, SlotsWhole, Solution, OrbitOf
<1>5. Decoding' /\ HandleReady' /\ TodoExact'
  BY <1>1 DEF IInv, Decoding, HandleReady, TodoExact
<1>6. Storing'
  BY <1>1 DEF IInv, Storing, Solution, OrbitOf
<1>7. CacheCoherent'
  <2>1. ASSUME NEW q \in Process, NEW d \in Coset
        PROVE  ExpectedSet(q, d)' = ExpectedSet(q, d)
    <3>1. CornerSet(d, n_solved[d])' = CornerSet(d, n_solved[d])
      BY <1>1, SameCornerSet DEF IInv, TypeOK
    <3> QED
      BY <1>1, <3>1, SameExpectedSet
  <2> QED
    BY <1>1, <2>1 DEF IInv, CacheCoherent
<1> QED
  BY <1>2, <1>3, <1>4, <1>5, <1>6, <1>7 DEF IInv

-----------------------------------------------------------------------------
(* handle::solution takes the orbit out of the cached set first.           *)
LEMMA MarkKeepsInvariant ==
  ASSUME IInv, NEW w \in Worker, NEW m \in Moves, MarkSolved(w, m)
  PROVE  IInv'
<1> DEFINE p == ProcessOf[w]
           c == idx[w]
           set == corner_sets[p][c]
<1> USE ProcessAssumption
<1>1. UNCHANGED <<sol, n_solved, n_length, proven_min, mode, is_initialized,
                  ec_mutex, idx, count>>
  BY DEF MarkSolved, file
<1>2. /\ pc[w] = "held" /\ p \in Process /\ c \in Coset
      /\ ec_mutex[p][c] = w /\ mode[p] = "writer"
      /\ is_initialized[p][c]
      /\ CornerOf[m] \in CornerInit[c] /\ CornerOf[m] \in set
  BY DEF MarkSolved, IInv, MutexOwners, HandleReady
<1>3. /\ pc'[w] = "slot" /\ arg'[w] = m
      /\ todo'[w] = todo[w] - Cardinality(set \cap OrbitOf(c, m))
      /\ \A v \in Worker \ {w} : /\ pc'[v] = pc[v]
                                  /\ arg'[v] = arg[v]
                                  /\ todo'[v] = todo[v]
  BY DEF MarkSolved, IInv, TypeOK
<1>4. /\ corner_sets'[p][c] = set \ OrbitOf(c, m)
      /\ \A q \in Process, d \in Coset :
           <<q, d>> # <<p, c>> => corner_sets'[q][d] = corner_sets[q][d]
  BY <1>2 DEF MarkSolved, IInv, TypeOK
<1>5. set \in SUBSET Corner
  BY <1>2 DEF IInv, TypeOK
<1>6. /\ Cardinality(set \cap OrbitOf(c, m)) \in Nat
      /\ Cardinality(set \ OrbitOf(c, m)) = Cardinality(set) - Cardinality(set \cap OrbitOf(c, m))
  <2> HIDE DEF set
  <2>1. set \cap OrbitOf(c, m) \in SUBSET Corner
    BY <1>5
  <2>2. IsFiniteSet(set)
    BY <1>5, CornerSetType
  <2> QED
    BY <2>1, <2>2, CornerSetType, FS_Difference
<1>7. TypeOK'
  <2>1. set \ OrbitOf(c, m) \in SUBSET Corner
    BY <1>5
  <2>2. corner_sets' \in [Process -> [Coset -> SUBSET Corner]]
    BY <1>2, <2>1 DEF IInv, TypeOK, MarkSolved
  <2>3. todo' \in [Worker -> Int]
    BY <1>6 DEF IInv, TypeOK, MarkSolved
  <2>4. /\ pc' \in [Worker -> {"idle", "decode", "held", "slot", "count", "length"}]
        /\ arg' \in [Worker -> Moves \union {Empty}]
    BY DEF IInv, TypeOK, MarkSolved
  <2> QED
    BY <1>1, <2>2, <2>3, <2>4 DEF IInv, TypeOK
<1>8. set = CornerSet(c, n_solved[c])
  BY <1>2 DEF IInv, CacheCoherent, ExpectedSet
<1>9. \A i \in 0 .. n_solved[c] - 1 : OrbitOf(c, Solution(c, i)) # OrbitOf(c, m)
  BY <1>2, <1>8, OrbitAssumption DEF CornerSet, OrbitOf
<1> HIDE DEF p, c, set
<1>10. OneWriter' /\ SolvedBounded' /\ FreshProcess'
  BY <1>1 DEF IInv, OneWriter, SolvedBounded, FreshProcess
<1>11. NoOrbitTwice' /\ SlotsWhole'
  BY <1>1 DEF IInv, NoOrbitTwice, SlotsWhole, Solution, OrbitOf
<1>12. MutexOwners'
  BY <1>1, <1>2, <1>3 DEF IInv, TypeOK, MutexOwners
<1>13. Decoding' /\ HandleReady'
  BY <1>1, <1>2, <1>3 DEF IInv, Decoding, HandleReady, p, c
<1>14. Storing'
  <2> SUFFICES ASSUME NEW v \in Worker, pc'[v] \in {"slot", "count", "length"}
               PROVE  /\ mode[ProcessOf[v]] = "writer"
                      /\ arg'[v] \in Moves
                      /\ CornerOf[arg'[v]] \in CornerInit[idx[v]]
                      /\ pc'[v] \in {"slot", "count"} =>
                           \A i \in 0 .. n_solved[idx[v]] - 1 :
                             OrbitOf(idx[v], Solution(idx[v], i)) # OrbitOf(idx[v], arg'[v])
                      /\ pc'[v] = "count" =>
                           Solution(idx[v], n_solved[idx[v]]) = Recode[arg'[v]]
    BY <1>1 DEF Storing, Solution, OrbitOf
  <2>1. CASE v = w
    BY <1>2, <1>3, <1>9, <2>1 DEF p, c
  <2>2. CASE v # w
    BY <1>3, <2>2 DEF IInv, Storing
  <2> QED
    BY <2>1, <2>2
<1>15. TodoExact'
  <2> SUFFICES ASSUME NEW v \in Worker, pc'[v] \notin {"idle", "decode"}
               PROVE  todo'[v] = Cardinality(corner_sets'[ProcessOf[v]][idx[v]])
    BY <1>1 DEF TodoExact
  <2>1. CASE v = w
    BY <1>2, <1>3, <1>4, <1>6, <2>1 DEF IInv, TodoExact, p, c, set
  <2>2. CASE v # w
    <3>1. <<ProcessOf[v], idx[v]>> # <<p, c>> /\ idx[v] \in Coset /\ pc'[v] = pc[v]
      BY <1>2, <1>3, <2>2 DEF IInv, MutexOwners
    <3> QED
      BY <1>3, <1>4, <2>2, <3>1 DEF IInv, TodoExact
  <2> QED
    BY <2>1, <2>2
<1>16. CacheCoherent'
  <2> SUFFICES ASSUME NEW q \in Process, NEW d \in Coset,
                      mode[q] = "writer", is_initialized[q][d]
               PROVE  corner_sets'[q][d] = ExpectedSet(q, d)'
    BY <1>1 DEF CacheCoherent
  <2>1. CornerSet(d, n_solved[d])' = CornerSet(d, n_solved[d])
    BY <1>1, SameCornerSet DEF IInv, TypeOK
  <2>2. CASE <<q, d>> = <<p, c>>
    <3>1. ec_mutex'[q][d] = w
      BY <1>1, <1>2, <2>2
    <3>2. ExpectedSet(q, d)' = CornerSet(d, n_solved[d])' \ OrbitOf(d, m)
      BY <1>3, <3>1 DEF ExpectedSet, OrbitOf
    <3>3. corner_sets'[q][d] = CornerSet(d, n_solved[d]) \ OrbitOf(d, m)
      BY <1>4, <1>8, <2>2
    <3> QED
      BY <2>1, <3>2, <3>3
  <2>3. CASE <<q, d>> # <<p, c>>
    <3>1. ec_mutex[q][d] \in Worker => ec_mutex[q][d] \in Worker \ {w}
      BY <2>3 DEF IInv, MutexOwners, p, c
    <3>2. ExpectedSet(q, d)' = ExpectedSet(q, d)
      BY <1>1, <1>3, <2>1, <3>1, SameExpectedSet
    <3> QED
      BY <1>4, <2>3, <3>2 DEF IInv, CacheCoherent
  <2> QED
    BY <2>2, <2>3
<1> QED
  BY <1>7, <1>10, <1>11, <1>12, <1>13, <1>14, <1>15, <1>16 DEF IInv

(* What a thread about to store knows: its coset has a free slot.          *)
LEMMA StoringHasSlot ==
  ASSUME IInv, NEW v \in Worker, pc[v] \in {"slot", "count"}
  PROVE  /\ idx[v] \in Coset
         /\ n_solved[idx[v]] \in Nat
         /\ n_solved[idx[v]] < NCubes[idx[v]]
<1>1. idx[v] \in Coset
  BY DEF IInv, MutexOwners
<1>2. n_solved[idx[v]] < NCubes[idx[v]]
  BY <1>1, FreeSlot DEF IInv, Storing
<1> QED
  BY <1>1, <1>2 DEF IInv, TypeOK

(* The stored slot is the first free one of the coset: no slot in use, and *)
(* no slot another thread has just stored, changes.                        *)
LEMMA WriteSlotFrame ==
  ASSUME IInv, NEW w \in Worker, WriteSlot(w)
  PROVE  /\ Solution(idx[w], n_solved[idx[w]])' = Recode[arg[w]]
         /\ \A d \in Coset : \A i \in 0 .. n_solved[d] - 1 :
              Solution(d, i)' = Solution(d, i)
         /\ \A v \in Worker \ {w} : pc[v] = "count" =>
              Solution(idx[v], n_solved[idx[v]])' = Solution(idx[v], n_solved[idx[v]])
<1> DEFINE c == idx[w]
           k == Offset[c] + n_solved[c]
<1>1. /\ pc[w] = "slot" /\ c \in Coset
      /\ n_solved[c] \in Nat /\ n_solved[c] < NCubes[c]
  BY StoringHasSlot DEF WriteSlot
<1> HIDE DEF c
<1>2. k \in Slot
  <2>1. Offset[c] \in Nat /\ NCubes[c] \in Nat /\ Offset[c] + NCubes[c] <= SlotCount
    BY <1>1, LayoutAssumption
  <2>2. SlotCount \in Nat
    BY LayoutAssumption
  <2> QED
    BY <1>1, <2>1, <2>2
<1>3. sol' = [sol EXCEPT ![k] = Recode[arg[w]]] /\ UNCHANGED <<idx, n_solved>>
  BY DEF WriteSlot, c
<1>4. sol'[k] = Recode[arg[w]] /\ \A j \in Slot \ {k} : sol'[j] = sol[j]
  BY <1>2, <1>3 DEF IInv, TypeOK
<1>5. ASSUME NEW d \in Coset, NEW i \in 0 .. NCubes[d] - 1, d # c \/ i # n_solved[c]
      PROVE  Offset[d] + i \in Slot \ {k}
  <2>1. /\ Offset[c] \in Nat /\ NCubes[c] \in Nat
        /\ Offset[d] \in Nat /\ NCubes[d] \in Nat
        /\ Offset[d] + NCubes[d] <= SlotCount
        /\ d # c => \/ Offset[c] + NCubes[c] <= Offset[d]
                    \/ Offset[d] + NCubes[d] <= Offset[c]
    BY <1>1, LayoutAssumption
  <2>2. SlotCount \in Nat
    BY LayoutAssumption
  <2>3. Offset[d] + i \in Slot
    BY <2>1, <2>2
  <2>4. CASE d # c
    BY <1>1, <2>1, <2>3, <2>4
  <2>5. CASE d = c
    BY <1>1, <1>5, <2>1, <2>3, <2>5
  <2> QED
    BY <2>4, <2>5
<1>6. ASSUME NEW d \in Coset, NEW i \in 0 .. n_solved[d] - 1
      PROVE  Solution(d, i)' = Solution(d, i)
  <2>1. i \in 0 .. NCubes[d] - 1 /\ (d # c \/ i # n_solved[c])
    BY LayoutAssumption DEF IInv, TypeOK, SolvedBounded
  <2> HIDE DEF k
  <2> QED
    BY <1>4, <1>5, <2>1 DEF Solution
<1>7. ASSUME NEW v \in Worker \ {w}, pc[v] = "count"
      PROVE  Solution(idx[v], n_solved[idx[v]])' = Solution(idx[v], n_solved[idx[v]])
  <2>1. /\ idx[v] \in Coset
        /\ n_solved[idx[v]] \in Nat
        /\ n_solved[idx[v]] < NCubes[idx[v]]
    BY <1>7, StoringHasSlot
  <2>2. idx[v] # c
    BY <1>1, <1>7, OneWriterPerCoset DEF IInv, Storing, c
  <2>3. n_solved[idx[v]] \in 0 .. NCubes[idx[v]] - 1
    BY <2>1, LayoutAssumption
  <2>4. Offset[idx[v]] + n_solved[idx[v]] \in Slot \ {k}
    BY <1>5, <2>1, <2>2, <2>3
  <2> HIDE DEF k
  <2> QED
    BY <1>3, <1>4, <2>4 DEF Solution
<1>8. Solution(idx[w], n_solved[idx[w]])' = Recode[arg[w]]
  BY <1>3, <1>4 DEF Solution, c
<1> QED
  BY <1>6, <1>7, <1>8

(* Storing the slot changes no slot in use and no set: n_solved does not   *)
(* cover the new slot yet.                                                 *)
LEMMA WriteSlotKeepsInvariant ==
  ASSUME IInv, NEW w \in Worker, WriteSlot(w)
  PROVE  IInv'
<1> USE ProcessAssumption
<1>1. UNCHANGED <<n_solved, n_length, proven_min, mode, corner_sets,
                  is_initialized, ec_mutex, idx, todo, count, arg>>
  BY DEF WriteSlot, cache
<1>2. /\ pc[w] = "slot" /\ pc'[w] = "count"
      /\ \A v \in Worker \ {w} : pc'[v] = pc[v]
  BY DEF WriteSlot, IInv, TypeOK
<1>3. /\ Solution(idx[w], n_solved[idx[w]])' = Recode[arg[w]]
      /\ \A d \in Coset : \A i \in 0 .. n_solved[d] - 1 :
           Solution(d, i)' = Solution(d, i)
      /\ \A v \in Worker \ {w} : pc[v] = "count" =>
           Solution(idx[v], n_solved[idx[v]])' = Solution(idx[v], n_solved[idx[v]])
  BY WriteSlotFrame
<1>4. \A d \in Coset, m \in Moves : OrbitOf(d, m)' = OrbitOf(d, m)
  BY DEF OrbitOf
<1>5. TypeOK'
  <2>1. arg[w] \in Moves
    BY <1>2 DEF IInv, Storing
  <2>2. sol' \in [Slot -> Moves \union {Empty}]
    BY <2>1, MovesAssumption DEF IInv, TypeOK, WriteSlot
  <2>3. pc' \in [Worker -> {"idle", "decode", "held", "slot", "count", "length"}]
    BY DEF IInv, TypeOK, WriteSlot
  <2> QED
    BY <1>1, <2>2, <2>3 DEF IInv, TypeOK
<1>6. OneWriter' /\ SolvedBounded' /\ FreshProcess'
  BY <1>1 DEF IInv, OneWriter, SolvedBounded, FreshProcess
<1>7. SlotsWhole'
  BY <1>1, <1>3 DEF IInv, SlotsWhole
<1>8. NoOrbitTwice'
  BY <1>1, <1>3 DEF IInv, NoOrbitTwice, OrbitOf
<1>9. MutexOwners'
  BY <1>1, <1>2 DEF IInv, TypeOK, MutexOwners
<1>10. Decoding' /\ HandleReady' /\ TodoExact'
  BY <1>1, <1>2 DEF IInv, Decoding, HandleReady, TodoExact
<1>11. Storing'
  <2> SUFFICES ASSUME NEW v \in Worker, pc'[v] \in {"slot", "count", "length"}
               PROVE  /\ mode[ProcessOf[v]] = "writer"
                      /\ arg[v] \in Moves
                      /\ CornerOf[arg[v]] \in CornerInit[idx[v]]
                      /\ pc'[v] \in {"slot", "count"} =>
                           \A i \in 0 .. n_solved[idx[v]] - 1 :
                             OrbitOf(idx[v], Solution(idx[v], i)') # OrbitOf(idx[v], arg[v])
                      /\ pc'[v] = "count" =>
                           Solution(idx[v], n_solved[idx[v]])' = Recode[arg[v]]
    BY <1>1 DEF Storing, Solution, OrbitOf
  <2>1. pc[v] \in {"slot", "count", "length"} /\ idx[v] \in Coset
    BY <1>2 DEF IInv, MutexOwners
  <2>2. pc'[v] \in {"slot", "count"} => pc[v] \in {"slot", "count"}
    BY <1>2
  <2>3. pc'[v] = "count" => Solution(idx[v], n_solved[idx[v]])' = Recode[arg[v]]
    BY <1>2, <1>3 DEF IInv, Storing
  <2>4. \A i \in 0 .. n_solved[idx[v]] - 1 :
          Solution(idx[v], i)' = Solution(idx[v], i)
    BY <1>1, <1>3, <2>1
  <2>5. pc'[v] \in {"slot", "count"} =>
           \A i \in 0 .. n_solved[idx[v]] - 1 :
             OrbitOf(idx[v], Solution(idx[v], i)') # OrbitOf(idx[v], arg[v])
    BY <2>2, <2>4 DEF IInv, Storing
  <2> QED
    BY <2>1, <2>3, <2>5 DEF IInv, Storing
<1>12. CacheCoherent'
  <2> SUFFICES ASSUME NEW q \in Process, NEW d \in Coset,
                      mode[q] = "writer", is_initialized[q][d]
               PROVE  corner_sets[q][d] = ExpectedSet(q, d)'
    BY <1>1 DEF CacheCoherent
  <2>1. CornerSet(d, n_solved[d])' = CornerSet(d, n_solved[d])
    BY <1>1, <1>3 DEF CornerSet, OrbitOf
  <2>2. ExpectedSet(q, d)' = ExpectedSet(q, d)
    BY <1>1, <1>2, <2>1 DEF ExpectedSet, OrbitOf
  <2> QED
    BY <2>2 DEF IInv, CacheCoherent
<1> QED
  BY <1>5, <1>6, <1>7, <1>8, <1>9, <1>10, <1>11, <1>12 DEF IInv

(* n_solved++ makes the slot one in use: it solves the orbit that the      *)
(* cached set already lacks.                                               *)
LEMMA CountKeepsInvariant ==
  ASSUME IInv, NEW w \in Worker, CountSolved(w)
  PROVE  IInv'
<1> DEFINE p == ProcessOf[w]
           c == idx[w]
           n == n_solved[c]
<1> USE ProcessAssumption
<1>1. UNCHANGED <<sol, n_length, proven_min, mode, corner_sets, is_initialized,
                  ec_mutex, idx, todo, count, arg>>
  BY DEF CountSolved, cache
<1>2. /\ pc[w] = "count" /\ pc'[w] = "length"
      /\ \A v \in Worker \ {w} : pc'[v] = pc[v]
  BY DEF CountSolved, IInv, TypeOK
<1>3. /\ p \in Process /\ c \in Coset /\ mode[p] = "writer" /\ ec_mutex[p][c] = w
      /\ n \in Nat /\ n < NCubes[c]
  BY <1>2, StoringHasSlot DEF IInv, Storing, MutexOwners
<1>4. /\ n_solved'[c] = n + 1
      /\ \A d \in Coset \ {c} : n_solved'[d] = n_solved[d]
  BY <1>3 DEF CountSolved, IInv, TypeOK
<1>5. /\ arg[w] \in Moves /\ CornerOf[arg[w]] \in CornerInit[c]
      /\ Solution(c, n) = Recode[arg[w]]
      /\ \A i \in 0 .. n - 1 : OrbitOf(c, Solution(c, i)) # OrbitOf(c, arg[w])
  BY <1>2 DEF IInv, Storing
<1>6. /\ Solution(c, n) \in Moves
      /\ CornerOf[Solution(c, n)] \in CornerInit[c]
      /\ OrbitOf(c, Solution(c, n)) = OrbitOf(c, arg[w])
  BY <1>5, MovesAssumption DEF OrbitOf
<1> HIDE DEF p, c, n
<1>7. \A d \in Coset, i \in Nat : Solution(d, i)' = Solution(d, i)
  BY <1>1 DEF Solution
<1>8. TypeOK'
  <2>1. n_solved' \in [Coset -> Nat]
    BY <1>3 DEF IInv, TypeOK, CountSolved, c, n
  <2>2. pc' \in [Worker -> {"idle", "decode", "held", "slot", "count", "length"}]
    BY DEF IInv, TypeOK, CountSolved
  <2> QED
    BY <1>1, <2>1, <2>2 DEF IInv, TypeOK
<1>9. OneWriter' /\ FreshProcess'
  BY <1>1 DEF IInv, OneWriter, FreshProcess
<1>10. MutexOwners'
  BY <1>1, <1>2 DEF IInv, TypeOK, MutexOwners
<1>11. SolvedBounded'
  <2> SUFFICES ASSUME NEW d \in Coset PROVE n_solved'[d] <= NCubes[d]
    BY DEF SolvedBounded
  <2>1. CASE d = c
    <3>1. NCubes[c] \in Nat
      BY <1>3, LayoutAssumption
    <3> QED
      BY <1>3, <1>4, <2>1, <3>1
  <2>2. CASE d # c
    BY <1>4, <2>2 DEF IInv, SolvedBounded
  <2> QED
    BY <2>1, <2>2
<1>12. SlotsWhole'
  <2> SUFFICES ASSUME NEW d \in Coset, NEW i \in 0 .. n_solved'[d] - 1
               PROVE  Solution(d, i) \in Moves /\ CornerOf[Solution(d, i)] \in CornerInit[d]
    BY <1>1 DEF SlotsWhole, Solution
  <2>1. CASE d = c
    BY <1>3, <1>4, <1>6, <2>1 DEF IInv, SlotsWhole, n
  <2>2. CASE d # c
    BY <1>4, <2>2 DEF IInv, SlotsWhole
  <2> QED
    BY <2>1, <2>2
<1>13. NoOrbitTwice'
  <2> SUFFICES ASSUME NEW d \in Coset,
                      NEW i \in 0 .. n_solved'[d] - 1, NEW j \in 0 .. n_solved'[d] - 1,
                      OrbitOf(d, Solution(d, i)) = OrbitOf(d, Solution(d, j))
               PROVE  i = j
    BY <1>1 DEF NoOrbitTwice, Solution, OrbitOf
  <2>1. CASE d = c
    BY <1>3, <1>4, <1>5, <1>6, <2>1 DEF IInv, NoOrbitTwice, n
  <2>2. CASE d # c
    BY <1>4, <2>2 DEF IInv, NoOrbitTwice
  <2> QED
    BY <2>1, <2>2
<1>14. ASSUME NEW v \in Worker \ {w}, pc[v] # "idle", mode[ProcessOf[v]] = "writer"
       PROVE  n_solved'[idx[v]] = n_solved[idx[v]] /\ idx[v] \in Coset
  BY <1>2, <1>3, <1>4, <1>14, OneWriterPerCoset DEF IInv, MutexOwners, p, c
<1>15. Decoding'
  <2> SUFFICES ASSUME NEW v \in Worker \ {w}, pc[v] = "decode"
               PROVE  /\ count[v] <= n_solved'[idx[v]]
                      /\ mode[ProcessOf[v]] = "writer" => count[v] = n_solved'[idx[v]]
    BY <1>1, <1>2 DEF Decoding
  <2>1. idx[v] \in Coset /\ count[v] \in Nat /\ count[v] <= n_solved[idx[v]]
    BY DEF IInv, TypeOK, MutexOwners, Decoding
  <2>2. count[v] <= n_solved'[idx[v]]
    BY <1>3, <1>4, <2>1 DEF n
  <2>3. mode[ProcessOf[v]] = "writer" => count[v] = n_solved'[idx[v]]
    BY <1>14 DEF IInv, Decoding
  <2> QED
    BY <2>2, <2>3
<1>16. HandleReady' /\ TodoExact'
  BY <1>1, <1>2 DEF IInv, HandleReady, TodoExact
<1>17. Storing'
  <2> SUFFICES ASSUME NEW v \in Worker, pc'[v] \in {"slot", "count", "length"}
               PROVE  /\ mode[ProcessOf[v]] = "writer"
                      /\ arg[v] \in Moves
                      /\ CornerOf[arg[v]] \in CornerInit[idx[v]]
                      /\ pc'[v] \in {"slot", "count"} =>
                           \A i \in 0 .. n_solved'[idx[v]] - 1 :
                             OrbitOf(idx[v], Solution(idx[v], i)) # OrbitOf(idx[v], arg[v])
                      /\ pc'[v] = "count" =>
                           Solution(idx[v], n_solved'[idx[v]]) = Recode[arg[v]]
    BY <1>1 DEF Storing, Solution, OrbitOf
  <2>1. CASE v = w
    BY <1>2, <1>3, <1>5, <2>1 DEF p, c
  <2>2. CASE v # w
    <3>1. pc'[v] = pc[v] /\ mode[ProcessOf[v]] = "writer"
      BY <1>2, <2>2 DEF IInv, Storing
    <3>2. n_solved'[idx[v]] = n_solved[idx[v]]
      BY <1>14, <2>2, <3>1
    <3> QED
      BY <3>1, <3>2 DEF IInv, Storing
  <2> QED
    BY <2>1, <2>2
<1>18. CacheCoherent'
  <2> SUFFICES ASSUME NEW q \in Process, NEW d \in Coset,
                      mode[q] = "writer", is_initialized[q][d]
               PROVE  corner_sets[q][d] = ExpectedSet(q, d)'
    BY <1>1 DEF CacheCoherent
  <2>1. q = p
    BY <1>3 DEF IInv, OneWriter
  <2>2. CASE d = c
    <3>1. corner_sets[q][d] = CornerSet(c, n) \ OrbitOf(c, arg[w])
      BY <1>2, <1>3, <2>1, <2>2 DEF IInv, CacheCoherent, ExpectedSet, n
    <3>2. ec_mutex'[q][d] = w
      BY <1>1, <1>3, <2>1, <2>2
    <3>3. ExpectedSet(q, d)' = CornerSet(d, n_solved[d])'
      BY <1>2, <3>2 DEF ExpectedSet
    <3>4. CornerSet(d, n_solved[d])' = CornerSet(c, n + 1)
      BY <1>1, <1>3, <1>4, <2>2, SameCornerSet
    <3>5. CornerSet(c, n + 1) = CornerSet(c, n) \ OrbitOf(c, arg[w])
      BY <1>3, <1>6 DEF CornerSet
    <3> QED
      BY <3>1, <3>3, <3>4, <3>5
  <2>3. CASE d # c
    <3>1. CornerSet(d, n_solved[d])' = CornerSet(d, n_solved[d])
      BY <1>1, <1>4, <2>3, SameCornerSet DEF IInv, TypeOK
    <3>2. ec_mutex[q][d] \in Worker => ec_mutex[q][d] \in Worker \ {w}
      BY <2>3 DEF IInv, MutexOwners, c
    <3>3. ExpectedSet(q, d)' = ExpectedSet(q, d)
      BY <1>1, <1>2, <3>1, <3>2, SameExpectedSet
    <3> QED
      BY <3>3 DEF IInv, CacheCoherent
  <2> QED
    BY <2>2, <2>3
<1> QED
  BY <1>8, <1>9, <1>10, <1>11, <1>12, <1>13, <1>15, <1>16, <1>17, <1>18 DEF IInv

(* Counting one more solution keeps the type of n_length.                  *)
LEMMA IncrementType ==
  ASSUME NEW D, NEW f \in [D -> Nat], NEW s \in D
  PROVE  [f EXCEPT ![s] = @ + 1] \in [D -> Nat]
OBVIOUS

(* n_length[seq.size()]++ ends handle::solution.                           *)
LEMMA LengthKeepsInvariant ==
  ASSUME IInv, NEW w \in Worker, CountLength(w)
  PROVE  IInv'
<1> USE ProcessAssumption
<1>1. UNCHANGED <<sol, n_solved, proven_min, mode, corner_sets, is_initialized,
                  ec_mutex, idx, todo, count>>
  BY DEF CountLength, cache
<1>2. /\ pc[w] = "length" /\ pc'[w] = "held"
      /\ \A v \in Worker \ {w} : pc'[v] = pc[v] /\ arg'[v] = arg[v]
  BY DEF CountLength, IInv, TypeOK
<1>3. TypeOK'
  <2>1. idx[w] \in Coset /\ arg[w] \in Moves
    BY <1>2 DEF IInv, MutexOwners, Storing
  <2>2. SizeOf[arg[w]] \in 0 .. MaxDepth
    BY <2>1, MovesAssumption
  <2>3. n_length' \in [Coset -> [0 .. MaxDepth -> Nat]]
    <3> DEFINE row == [n_length[idx[w]] EXCEPT ![SizeOf[arg[w]]] = @ + 1]
    <3>1. row \in [0 .. MaxDepth -> Nat]
      <4>1. n_length[idx[w]] \in [0 .. MaxDepth -> Nat]
        BY <2>1 DEF IInv, TypeOK
      <4> QED
        BY <2>2, <4>1, IncrementType
    <3>2. n_length' = [n_length EXCEPT ![idx[w]] = row]
      BY DEF CountLength
    <3> HIDE DEF row
    <3> QED
      BY <2>1, <3>1, <3>2 DEF IInv, TypeOK
  <2>4. /\ pc' \in [Worker -> {"idle", "decode", "held", "slot", "count", "length"}]
        /\ arg' \in [Worker -> Moves \union {Empty}]
    BY DEF IInv, TypeOK, CountLength
  <2> QED
    BY <1>1, <2>3, <2>4 DEF IInv, TypeOK
<1>4. OneWriter' /\ SolvedBounded' /\ FreshProcess'
  BY <1>1 DEF IInv, OneWriter, SolvedBounded, FreshProcess
<1>5. NoOrbitTwice' /\ SlotsWhole'
  BY <1>1 DEF IInv, NoOrbitTwice, SlotsWhole, Solution, OrbitOf
<1>6. MutexOwners'
  BY <1>1, <1>2 DEF IInv, TypeOK, MutexOwners
<1>7. Decoding' /\ HandleReady' /\ TodoExact'
  BY <1>1, <1>2 DEF IInv, Decoding, HandleReady, TodoExact
<1>8. Storing'
  BY <1>1, <1>2 DEF IInv, Storing, Solution, OrbitOf
<1>9. CacheCoherent'
  <2> SUFFICES ASSUME NEW q \in Process, NEW d \in Coset,
                      mode[q] = "writer", is_initialized[q][d]
               PROVE  corner_sets[q][d] = ExpectedSet(q, d)'
    BY <1>1 DEF CacheCoherent
  <2>1. CornerSet(d, n_solved[d])' = CornerSet(d, n_solved[d])
    BY <1>1, SameCornerSet DEF IInv, TypeOK
  <2>2. ExpectedSet(q, d)' = ExpectedSet(q, d)
    BY <1>1, <1>2, <2>1 DEF ExpectedSet, OrbitOf
  <2> QED
    BY <2>2 DEF IInv, CacheCoherent
<1> QED
  BY <1>3, <1>4, <1>5, <1>6, <1>7, <1>8, <1>9 DEF IInv

-----------------------------------------------------------------------------
(* Every step of every process and thread preserves the invariant.         *)
LEMMA StepInvariant == IInv /\ [Next]_vars => IInv'
<1> SUFFICES ASSUME IInv, [Next]_vars PROVE IInv'
  OBVIOUS
<1>1. CASE \E p \in Process : ProcessStep(p)
  BY <1>1, OpenKeepsInvariant, ExitKeepsInvariant DEF ProcessStep
<1>2. CASE \E w \in Worker : WorkerStep(w)
  <2> PICK w \in Worker : WorkerStep(w)
    BY <1>2
  <2>1. CASE \E c \in Coset : AcquireHandle(w, c)
    BY <2>1, AcquireKeepsInvariant
  <2>2. CASE BuildCornerSet(w)
    BY <2>2, BuildKeepsInvariant
  <2>3. CASE ReleaseHandle(w)
    BY <2>3, ReleaseKeepsInvariant
  <2>4. CASE \E m \in Moves : MarkSolved(w, m)
    BY <2>4, MarkKeepsInvariant
  <2>5. CASE WriteSlot(w)
    BY <2>5, WriteSlotKeepsInvariant
  <2>6. CASE CountSolved(w)
    BY <2>6, CountKeepsInvariant
  <2>7. CASE CountLength(w)
    BY <2>7, LengthKeepsInvariant
  <2>8. CASE \E depth \in PassDepths : UpdateProvenMin(w, depth)
    BY <2>8, UpdateKeepsInvariant
  <2> QED
    BY <2>1, <2>2, <2>3, <2>4, <2>5, <2>6, <2>7, <2>8 DEF WorkerStep
<1>3. CASE UNCHANGED vars
  <2>1. UNCHANGED <<sol, n_solved, n_length, proven_min, mode, corner_sets,
                    is_initialized, ec_mutex, pc, idx, todo, count, arg>>
    BY <1>3 DEF vars, file, cache, thread
  <2>2. TypeOK' /\ OneWriter' /\ SolvedBounded' /\ FreshProcess' /\ MutexOwners'
    BY <2>1 DEF IInv, TypeOK, OneWriter, SolvedBounded, FreshProcess, MutexOwners
  <2>3. NoOrbitTwice' /\ SlotsWhole' /\ Storing'
    BY <2>1 DEF IInv, NoOrbitTwice, SlotsWhole, Storing, Solution, OrbitOf
  <2>4. Decoding' /\ HandleReady' /\ TodoExact'
    BY <2>1 DEF IInv, Decoding, HandleReady, TodoExact
  <2>5. CacheCoherent'
    <3>1. ASSUME NEW q \in Process, NEW d \in Coset
          PROVE  ExpectedSet(q, d)' = ExpectedSet(q, d)
      <4>1. CornerSet(d, n_solved[d])' = CornerSet(d, n_solved[d])
        BY <2>1, SameCornerSet DEF IInv, TypeOK
      <4> QED
        BY <2>1, <4>1, SameExpectedSet
    <3> QED
      BY <2>1, <3>1 DEF IInv, CacheCoherent
  <2> QED
    BY <2>2, <2>3, <2>4, <2>5 DEF IInv
<1> QED
  BY <1>1, <1>2, <1>3 DEF Next

(* The inductive invariant of the database: what the theorems below follow *)
(* from.                                                                   *)
THEOREM Invariance == Spec => []IInv
BY InitInvariant, StepInvariant, PTL DEF Spec

(* Every variable of the database keeps its type; in particular what       *)
(* handle::solution adds to n_length stays within MAX_DEPTH.               *)
THEOREM TypeCorrect == Spec => []TypeOK
BY Invariance, PTL DEF IInv

(* handle::solution never writes past the slots of its coset, so it never  *)
(* overwrites a solution of the next coset.                                *)
THEOREM SlotsStayInCoset == Spec => []SolvedBounded
BY Invariance, PTL DEF IInv

(* No orbit is stored twice, in whatever order threads and processes call  *)
(* handle::solution and wherever processes are killed.                     *)
THEOREM OrbitsStoredOnce == Spec => []NoOrbitTwice
BY Invariance, PTL DEF IInv

(* The cached corner sets of the process that writes agree with the file.  *)
THEOREM CachesCoherent == Spec => []CacheCoherent
BY Invariance, PTL DEF IInv

-----------------------------------------------------------------------------
(* The slots in use solve different orbits, so there are as many as orbits *)
(* exactly when they solve them all.                                       *)
LEMMA FullCoset ==
  ASSUME TypeOK, NoOrbitTwice, SlotsWhole, NEW c \in Coset
  PROVE  CornerSet(c, n_solved[c]) = {} <=> n_solved[c] = NCubes[c]
<1> DEFINE n == n_solved[c]
           Orbits == {Orbit[c][x] : x \in CornerInit[c]}
           f == [i \in 0 .. n - 1 |-> OrbitOf(c, Solution(c, i))]
<1>1. n \in Nat
  BY DEF TypeOK
<1>2. IsFiniteSet(Orbits) /\ NCubes[c] = Cardinality(Orbits)
  BY CosetOrbits
<1>3. f \in Injection(0 .. n - 1, Orbits)
  <2>1. f \in [0 .. n - 1 -> Orbits]
    BY DEF SlotsWhole, OrbitOf
  <2>2. \A i, j \in 0 .. n - 1 : f[i] = f[j] => i = j
    BY DEF NoOrbitTwice
  <2> HIDE DEF f, Orbits
  <2> QED
    BY <2>1, <2>2, Fun_IsInj
<1>4. n = NCubes[c] <=> f \in Surjection(0 .. n - 1, Orbits)
  <2>1. Cardinality(0 .. n - 1) = n
    <3> HIDE DEF n
    <3> QED
      BY <1>1, FS_Interval
  <2> HIDE DEF n, f, Orbits
  <2> QED
    BY <1>2, <1>3, <2>1, FS_Injection
<1>5. f \in Surjection(0 .. n - 1, Orbits) <=> \A o \in Orbits : \E i \in 0 .. n - 1 : f[i] = o
  <2> HIDE DEF n, f, Orbits
  <2> QED
    BY <1>3 DEF Injection, Surjection
<1>6. ASSUME NEW x \in CornerInit[c], NEW i \in 0 .. n - 1
      PROVE  x \in OrbitOf(c, Solution(c, i)) <=> f[i] = Orbit[c][x]
  BY <1>6, OrbitAssumption DEF SlotsWhole, OrbitOf
<1>7. CornerSet(c, n) = {} <=> \A x \in CornerInit[c] : \E i \in 0 .. n - 1 : f[i] = Orbit[c][x]
  <2> HIDE DEF n, f
  <2> QED
    BY <1>6 DEF CornerSet
<1> QED
  BY <1>4, <1>5, <1>7

(* The set of a thread that holds a handle and may write is what the file  *)
(* says, so it is empty when the slots of the coset are full.              *)
LEMMA InvariantFinishes == IInv => FinishedAgree
<1> SUFFICES ASSUME IInv, NEW w \in Worker, pc[w] = "held", mode[ProcessOf[w]] = "writer"
             PROVE  todo[w] = 0 <=> n_solved[idx[w]] = NCubes[idx[w]]
  BY DEF FinishedAgree
<1> DEFINE p == ProcessOf[w]
           c == idx[w]
<1>1. p \in Process /\ c \in Coset /\ ec_mutex[p][c] = w /\ is_initialized[p][c]
  BY ProcessAssumption DEF IInv, MutexOwners, HandleReady
<1>2. corner_sets[p][c] = CornerSet(c, n_solved[c])
  BY <1>1 DEF IInv, CacheCoherent, ExpectedSet
<1>3. IsFiniteSet(corner_sets[p][c])
  BY <1>1, CornerSetType DEF IInv, TypeOK
<1>4. todo[w] = Cardinality(corner_sets[p][c])
  BY DEF IInv, TodoExact
<1>5. todo[w] = 0 <=> CornerSet(c, n_solved[c]) = {}
  BY <1>2, <1>3, <1>4, FS_EmptySet
<1> QED
  BY <1>1, <1>5, FullCoset DEF IInv

(* todo always counts the corner states left, so that rebuild_cpr never    *)
(* aborts, and is zero exactly when the coset has used all its slots: the  *)
(* solver and the command agree on which cosets are finished.              *)
THEOREM TodoCounts == Spec => []TodoAgrees
BY Invariance, InvariantFinishes, PTL DEF IInv, TodoAgrees

-----------------------------------------------------------------------------
(* The counts by length.  Between n_solved++ and n_length++ a thread has a *)
(* solution of its length that is not counted.                             *)
CountPending ==
  \A w \in Worker :
    pc[w] = "length" =>
      n_length[idx[w]][SizeOf[arg[w]]] < SolvedWithLength(idx[w], SizeOf[arg[w]])

LengthsCounted == LengthNeverOverCounts /\ CountPending

(* The number of solutions of a length.                                    *)
LEMMA LengthNat ==
  ASSUME IInv, NEW d \in Coset, NEW j \in 0 .. MaxDepth
  PROVE  SolvedWithLength(d, j) \in Nat /\ n_length[d][j] \in Nat
<1>1. n_solved[d] \in Nat
  BY DEF IInv, TypeOK
<1>2. IsFiniteSet(0 .. n_solved[d] - 1)
  BY <1>1, FS_Interval
<1> QED
  BY <1>2, FS_Subset, FS_CardinalityType DEF SolvedWithLength, IInv, TypeOK

(* The number of solutions of a length changes only with the slots in use. *)
LEMMA SameLengths ==
  ASSUME IInv, NEW d \in Coset, n_solved'[d] = n_solved[d],
         \A i \in 0 .. n_solved[d] - 1 : Solution(d, i)' = Solution(d, i)
  PROVE  \A k \in 0 .. MaxDepth : SolvedWithLength(d, k)' = SolvedWithLength(d, k)
<1> SUFFICES ASSUME NEW k \in 0 .. MaxDepth
             PROVE  SolvedWithLength(d, k)' = SolvedWithLength(d, k)
  OBVIOUS
<1>1. {i \in 0 .. n_solved[d] - 1 : SizeOf[Solution(d, i)] = k}'
        = {i \in 0 .. n_solved[d] - 1 : SizeOf[Solution(d, i)] = k}
  OBVIOUS
<1> QED
  BY <1>1 DEF SolvedWithLength

(* A step that leaves the slots in use and n_length alone, and by which no *)
(* thread comes to n_length++, keeps the counts.                           *)
LEMMA LengthsKept ==
  ASSUME IInv, LengthsCounted, UNCHANGED <<n_solved, n_length>>,
         \A d \in Coset : \A i \in 0 .. n_solved[d] - 1 : Solution(d, i)' = Solution(d, i),
         \A w \in Worker : pc'[w] = "length" =>
           pc[w] = "length" /\ idx'[w] = idx[w] /\ arg'[w] = arg[w]
  PROVE  LengthsCounted'
<1>1. \A d \in Coset, k \in 0 .. MaxDepth : SolvedWithLength(d, k)' = SolvedWithLength(d, k)
  BY SameLengths
<1>2. LengthNeverOverCounts'
  BY <1>1 DEF LengthsCounted, LengthNeverOverCounts
<1>3. CountPending'
  <2> SUFFICES ASSUME NEW w \in Worker, pc'[w] = "length"
               PROVE  n_length[idx[w]][SizeOf[arg[w]]] < SolvedWithLength(idx[w], SizeOf[arg[w]])'
    BY DEF CountPending, SolvedWithLength
  <2>1. idx[w] \in Coset /\ SizeOf[arg[w]] \in 0 .. MaxDepth
    BY MovesAssumption DEF IInv, MutexOwners, Storing
  <2> QED
    BY <1>1, <2>1 DEF LengthsCounted, CountPending
<1> QED
  BY <1>2, <1>3 DEF LengthsCounted

(* n_solved++ brings one more solution of the length of the thread.        *)
LEMMA CountKeepsLengths ==
  ASSUME IInv, LengthsCounted, NEW w \in Worker, CountSolved(w)
  PROVE  LengthsCounted'
<1> USE ProcessAssumption
<1>1. UNCHANGED <<sol, n_length, mode, idx, arg>>
  BY DEF CountSolved
<1>2. /\ pc[w] = "count" /\ pc'[w] = "length"
      /\ \A v \in Worker \ {w} : pc'[v] = pc[v]
  BY DEF CountSolved, IInv, TypeOK
<1>3. PICK c \in Coset, n \in Nat, k \in 0 .. MaxDepth :
        c = idx[w] /\ n = n_solved[c] /\ k = SizeOf[arg[w]]
  <2>1. idx[w] \in Coset /\ SizeOf[arg[w]] \in 0 .. MaxDepth
    BY <1>2, MovesAssumption DEF IInv, MutexOwners, Storing
  <2>2. n_solved[idx[w]] \in Nat
    BY <2>1 DEF IInv, TypeOK
  <2> QED
    BY <2>1, <2>2
<1> DEFINE Slots(m, j) == {i \in 0 .. m - 1 : SizeOf[Solution(c, i)] = j}
<1>4. n_solved'[c] = n + 1 /\ \A d \in Coset \ {c} : n_solved'[d] = n_solved[d]
  BY <1>3 DEF CountSolved, IInv, TypeOK
<1>5. SizeOf[Solution(c, n)] = k
  BY <1>2, <1>3, MovesAssumption DEF IInv, Storing
<1>6. \A d \in Coset \ {c}, j \in 0 .. MaxDepth : SolvedWithLength(d, j)' = SolvedWithLength(d, j)
  BY <1>1, <1>4, SameLengths DEF Solution
<1>7. ASSUME NEW j \in 0 .. MaxDepth
      PROVE  SolvedWithLength(c, j)' = SolvedWithLength(c, j) + (IF j = k THEN 1 ELSE 0)
  <2>1. IsFiniteSet(Slots(n, j)) /\ Cardinality(Slots(n, j)) \in Nat
    <3>1. IsFiniteSet(0 .. n - 1)
      BY FS_Interval
    <3> QED
      BY <3>1, FS_Subset, FS_CardinalityType
  <2>2. Slots(n + 1, j) = IF j = k THEN Slots(n, j) \union {n} ELSE Slots(n, j)
    BY <1>3, <1>5
  <2>3. n \notin Slots(n, j)
    BY <1>3
  <2>4. SolvedWithLength(c, j) = Cardinality(Slots(n, j))
    BY <1>3 DEF SolvedWithLength
  <2>5. SolvedWithLength(c, j)' = Cardinality(Slots(n + 1, j))
    BY <1>1, <1>4 DEF SolvedWithLength, Solution
  <2> HIDE DEF Slots
  <2>6. CASE j = k
    BY <2>1, <2>2, <2>3, <2>4, <2>5, <2>6, FS_AddElement
  <2>7. CASE j # k
    BY <2>1, <2>2, <2>4, <2>5, <2>7
  <2> QED
    BY <2>6, <2>7
<1> HIDE DEF Slots
<1>8. LengthNeverOverCounts'
  <2> SUFFICES ASSUME NEW d \in Coset, NEW j \in 0 .. MaxDepth
               PROVE  n_length[d][j] <= SolvedWithLength(d, j)'
    BY <1>1 DEF LengthNeverOverCounts
  <2>1. /\ n_length[d][j] <= SolvedWithLength(d, j)
        /\ n_length[d][j] \in Nat
        /\ SolvedWithLength(d, j) \in Nat
    BY LengthNat DEF LengthsCounted, LengthNeverOverCounts
  <2>2. CASE d = c
    BY <1>7, <2>1, <2>2
  <2>3. CASE d # c
    BY <1>6, <2>1, <2>3
  <2> QED
    BY <2>2, <2>3
<1>9. CountPending'
  <2> SUFFICES ASSUME NEW v \in Worker, pc'[v] = "length"
               PROVE  n_length[idx[v]][SizeOf[arg[v]]]
                        < SolvedWithLength(idx[v], SizeOf[arg[v]])'
    BY <1>1 DEF CountPending
  <2>1. CASE v = w
    <3>1. /\ n_length[c][k] <= SolvedWithLength(c, k)
          /\ n_length[c][k] \in Nat
          /\ SolvedWithLength(c, k) \in Nat
      BY LengthNat DEF LengthsCounted, LengthNeverOverCounts
    <3>2. n_length[c][k] < SolvedWithLength(c, k)'
      BY <1>7, <3>1
    <3> QED
      BY <1>1, <1>3, <2>1, <3>2
  <2>2. CASE v # w
    <3>1. pc[v] = "length"
      BY <1>2, <2>2
    <3>2. PICK d \in Coset, j \in 0 .. MaxDepth : d = idx[v] /\ j = SizeOf[arg[v]]
      BY <3>1, MovesAssumption DEF IInv, MutexOwners, Storing
    <3>3. d # c
      BY <1>2, <1>3, <2>2, <3>1, <3>2, OneWriterPerCoset DEF IInv, Storing
    <3>4. n_length[d][j] < SolvedWithLength(d, j)
      BY <3>1, <3>2 DEF LengthsCounted, CountPending
    <3> QED
      BY <1>1, <1>6, <3>2, <3>3, <3>4
  <2> QED
    BY <2>1, <2>2
<1> QED
  BY <1>8, <1>9 DEF LengthsCounted

(* n_length++ counts the solution that the thread had not counted.         *)
LEMMA LengthKeepsLengths ==
  ASSUME IInv, LengthsCounted, NEW w \in Worker, CountLength(w)
  PROVE  LengthsCounted'
<1> USE ProcessAssumption
<1>1. UNCHANGED <<sol, n_solved, mode, idx>>
  BY DEF CountLength
<1>2. /\ pc[w] = "length" /\ pc'[w] = "held"
      /\ \A v \in Worker \ {w} : pc'[v] = pc[v] /\ arg'[v] = arg[v]
  BY DEF CountLength, IInv, TypeOK
<1>3. PICK c \in Coset, k \in 0 .. MaxDepth : c = idx[w] /\ k = SizeOf[arg[w]]
  BY <1>2, MovesAssumption DEF IInv, MutexOwners, Storing
<1>4. n_length \in [Coset -> [0 .. MaxDepth -> Nat]]
  BY DEF IInv, TypeOK
<1>5. n_length' = [n_length EXCEPT ![c][k] = @ + 1]
  BY <1>3 DEF CountLength
<1>6. \A d \in Coset, j \in 0 .. MaxDepth : SolvedWithLength(d, j)' = SolvedWithLength(d, j)
  BY <1>1, SameLengths DEF Solution
<1>7. n_length[c][k] < SolvedWithLength(c, k) /\ SolvedWithLength(c, k) \in Nat
  BY <1>2, <1>3, LengthNat DEF LengthsCounted, CountPending
<1>8. /\ n_length'[c][k] = n_length[c][k] + 1
      /\ \A d \in Coset, j \in 0 .. MaxDepth :
           d # c \/ j # k => n_length'[d][j] = n_length[d][j]
  BY <1>3, <1>4, <1>5
<1>9. LengthNeverOverCounts'
  <2> SUFFICES ASSUME NEW d \in Coset, NEW j \in 0 .. MaxDepth
               PROVE  n_length'[d][j] <= SolvedWithLength(d, j)'
    BY DEF LengthNeverOverCounts
  <2>1. CASE d = c /\ j = k
    <3>1. n_length[c][k] \in Nat
      BY <1>4
    <3>2. n_length'[c][k] <= SolvedWithLength(c, k)
      BY <1>7, <1>8, <3>1
    <3> QED
      BY <1>6, <2>1, <3>2
  <2>2. CASE d # c \/ j # k
    BY <1>6, <1>8, <2>2 DEF LengthsCounted, LengthNeverOverCounts
  <2> QED
    BY <2>1, <2>2
<1>10. CountPending'
  <2> SUFFICES ASSUME NEW v \in Worker, pc'[v] = "length"
               PROVE  (n_length[idx[v]][SizeOf[arg[v]]]
                         < SolvedWithLength(idx[v], SizeOf[arg[v]]))'
    BY DEF CountPending
  <2>1. v # w /\ pc[v] = "length" /\ arg'[v] = arg[v]
    BY <1>2
  <2>2. PICK d \in Coset, j \in 0 .. MaxDepth : d = idx[v] /\ j = SizeOf[arg[v]]
    BY <2>1, MovesAssumption DEF IInv, MutexOwners, Storing
  <2>3. d # c
    BY <1>2, <1>3, <2>1, <2>2, OneWriterPerCoset DEF IInv, Storing
  <2>4. n_length[d][j] < SolvedWithLength(d, j)
    BY <2>1, <2>2 DEF LengthsCounted, CountPending
  <2> QED
    BY <1>1, <1>6, <1>8, <2>1, <2>2, <2>3, <2>4
<1> QED
  BY <1>9, <1>10 DEF LengthsCounted

(* The counts by length in a new file and after every step.                *)
LEMMA InitLengths == Init => LengthsCounted
<1> SUFFICES ASSUME Init PROVE LengthsCounted
  OBVIOUS
<1>1. \A d \in Coset, j \in 0 .. MaxDepth : SolvedWithLength(d, j) = 0
  <2> SUFFICES ASSUME NEW d \in Coset, NEW j \in 0 .. MaxDepth
               PROVE  SolvedWithLength(d, j) = 0
    OBVIOUS
  <2>1. {i \in 0 .. n_solved[d] - 1 : SizeOf[Solution(d, i)] = j} = {}
    BY DEF Init
  <2> QED
    BY <2>1, FS_EmptySet DEF SolvedWithLength
<1> QED
  BY <1>1 DEF Init, LengthsCounted, LengthNeverOverCounts, CountPending

LEMMA StepLengths == IInv /\ LengthsCounted /\ [Next]_vars => LengthsCounted'
<1> SUFFICES ASSUME IInv, LengthsCounted, [Next]_vars PROVE LengthsCounted'
  OBVIOUS
<1> USE ProcessAssumption
<1>1. CASE \E p \in Process : ProcessStep(p)
  <2>1. UNCHANGED file
    BY <1>1 DEF ProcessStep, Open, Lock, LockFails, ReadOnly, Exit
  <2>2. \A w \in Worker : pc'[w] = "length" =>
          pc[w] = "length" /\ idx'[w] = idx[w] /\ arg'[w] = arg[w]
    <3> PICK p \in Process : ProcessStep(p)
      BY <1>1
    <3>1. CASE Exit(p)
      <4> SUFFICES ASSUME NEW w \in Worker, pc'[w] = "length"
                   PROVE  pc[w] = "length" /\ idx'[w] = idx[w] /\ arg'[w] = arg[w]
        OBVIOUS
      <4>1. ProcessOf[w] # p
        BY <3>1 DEF Exit
      <4> QED
        BY <3>1, <4>1 DEF Exit
    <3>2. CASE ~ Exit(p)
      BY <3>2 DEF ProcessStep, Open, Lock, LockFails, ReadOnly, thread
    <3> QED
      BY <3>1, <3>2
  <2> QED
    BY <2>1, <2>2, LengthsKept DEF file, Solution
<1>2. CASE \E w \in Worker : WorkerStep(w)
  <2> PICK w \in Worker : WorkerStep(w)
    BY <1>2
  <2>1. CASE WriteSlot(w)
    <3>1. UNCHANGED <<n_solved, n_length, idx, arg>> /\ pc' = [pc EXCEPT ![w] = "count"]
      BY <2>1 DEF WriteSlot
    <3>2. \A v \in Worker : pc'[v] = "length" => pc[v] = "length"
      BY <3>1 DEF IInv, TypeOK
    <3> QED
      BY <2>1, <3>1, <3>2, WriteSlotFrame, LengthsKept
  <2>2. CASE CountSolved(w)
    BY <2>2, CountKeepsLengths
  <2>3. CASE CountLength(w)
    BY <2>3, LengthKeepsLengths
  <2>4. CASE ~ WriteSlot(w) /\ ~ CountSolved(w) /\ ~ CountLength(w)
    <3>1. UNCHANGED <<sol, n_solved, n_length>>
      BY <2>4 DEF WorkerStep, AcquireHandle, BuildCornerSet, ReleaseHandle, MarkSolved,
                  UpdateProvenMin, file
    <3>2. \A v \in Worker : pc'[v] = "length" =>
            pc[v] = "length" /\ idx'[v] = idx[v] /\ arg'[v] = arg[v]
      <4>1. pc \in [Worker -> {"idle", "decode", "held", "slot", "count", "length"}]
            /\ idx \in [Worker -> Coset \union {NoCoset}]
            /\ arg \in [Worker -> Moves \union {Empty}]
        BY DEF IInv, TypeOK
      <4>2. CASE \E c \in Coset : AcquireHandle(w, c)
        BY <4>1, <4>2 DEF AcquireHandle
      <4>3. CASE BuildCornerSet(w)
        BY <4>1, <4>3 DEF BuildCornerSet
      <4>4. CASE ReleaseHandle(w)
        BY <4>1, <4>4 DEF ReleaseHandle
      <4>5. CASE \E m \in Moves : MarkSolved(w, m)
        BY <4>1, <4>5 DEF MarkSolved
      <4>6. CASE \E depth \in PassDepths : UpdateProvenMin(w, depth)
        BY <4>6 DEF UpdateProvenMin, thread
      <4> QED
        BY <2>4, <4>2, <4>3, <4>4, <4>5, <4>6 DEF WorkerStep
    <3> QED
      BY <3>1, <3>2, LengthsKept DEF Solution
  <2> QED
    BY <2>1, <2>2, <2>3, <2>4
<1>3. CASE UNCHANGED vars
  BY <1>3, LengthsKept DEF vars, file, thread, Solution
<1> QED
  BY <1>1, <1>2, <1>3 DEF Next

(* What the headers say is in the file, for the writer and for readers     *)
(* without the lock, and also when processes were killed between the       *)
(* stores of handle::solution.                                             *)
THEOREM ReadersFindWhole == Spec => []HeadersTrue
<1>1. Spec => []LengthsCounted
  BY InitLengths, StepLengths, Invariance, PTL DEF Spec
<1> QED
  BY <1>1, Invariance, PTL DEF IInv, LengthsCounted, HeadersTrue

-----------------------------------------------------------------------------
(* Refinement: n_solved++ is the abstract Record, every other step of a    *)
(* thread or a process leaves the abstract store alone.                    *)

(* The list of the slots in use, as the abstract store sees it, has the    *)
(* type of the store.                                                      *)
LEMMA RecordedType ==
  ASSUME IInv
  PROVE  \A d \in Coset : /\ Recorded[d] \in Seq(Moves)
                          /\ Len(Recorded[d]) = n_solved[d]
                          /\ DOMAIN Recorded[d] = 1 .. n_solved[d]
<1> SUFFICES ASSUME NEW d \in Coset
             PROVE  /\ Recorded[d] \in Seq(Moves)
                    /\ Len(Recorded[d]) = n_solved[d]
                    /\ DOMAIN Recorded[d] = 1 .. n_solved[d]
  OBVIOUS
<1>1. n_solved[d] \in Nat
  BY DEF IInv, TypeOK
<1>2. Recorded[d] = [i \in 1 .. n_solved[d] |-> Solution(d, i - 1)]
  BY DEF Recorded
<1>3. \A i \in 1 .. n_solved[d] : Solution(d, i - 1) \in Moves
  BY <1>1 DEF IInv, SlotsWhole
<1>4. Recorded[d] \in [1 .. n_solved[d] -> Moves]
  BY <1>2, <1>3
<1>5. Recorded[d] \in Seq(Moves)
  BY <1>1, <1>4, SeqDef
<1> QED
  BY <1>1, <1>4, <1>5, LenProperties

(* A new file is an empty store.                                           *)
LEMMA InitRefines == Init => Store!Init
<1> SUFFICES ASSUME Init PROVE Recorded = [c \in Coset |-> << >>]
  BY DEF Store!Init
<1>1. \A c \in Coset : n_solved[c] = 0
  BY DEF Init
<1>2. \A c \in Coset : [i \in 1 .. n_solved[c] |-> Solution(c, i - 1)] = << >>
  BY <1>1
<1> QED
  BY <1>2 DEF Recorded

(* The store looks the same when the slots in use are the same.            *)
LEMMA SameRecorded ==
  ASSUME IInv, UNCHANGED n_solved,
         \A d \in Coset : \A i \in 0 .. n_solved[d] - 1 : Solution(d, i)' = Solution(d, i)
  PROVE  Recorded' = Recorded
<1>1. ASSUME NEW d \in Coset
      PROVE  [i \in 1 .. n_solved[d] |-> Solution(d, i - 1)]'
               = [i \in 1 .. n_solved[d] |-> Solution(d, i - 1)]
  <2>1. n_solved[d] \in Nat
    BY DEF IInv, TypeOK
  <2>2. \A i \in 1 .. n_solved[d] : Solution(d, i - 1)' = Solution(d, i - 1)
    BY <2>1
  <2> QED
    BY <2>2
<1> QED
  BY <1>1 DEF Recorded

(* n_solved++ appends one solution, of an orbit that no slot solves.       *)
LEMMA CountRefines ==
  ASSUME IInv, NEW w \in Worker, CountSolved(w)
  PROVE  Store!Next
<1> DEFINE c == idx[w]
           n == n_solved[c]
           m == Solution(c, n)
<1>1. /\ pc[w] = "count" /\ c \in Coset /\ n \in Nat
      /\ m = Recode[arg[w]] /\ arg[w] \in Moves
      /\ \A i \in 0 .. n - 1 : OrbitOf(c, Solution(c, i)) # OrbitOf(c, arg[w])
  BY StoringHasSlot DEF CountSolved, IInv, Storing
<1>2. m \in Moves /\ OrbitOf(c, m) = OrbitOf(c, arg[w])
  BY <1>1, MovesAssumption DEF OrbitOf
<1>3. UNCHANGED <<sol, idx>> /\ n_solved' = [n_solved EXCEPT ![c] = n + 1]
  BY DEF CountSolved
<1> HIDE DEF c, n, m
<1>4. Store!Lacks(c, m)
  BY <1>1, <1>2, RecordedType DEF Store!Lacks, Recorded, n
<1>5. Recorded' = [Recorded EXCEPT ![c] = Append(@, m)]
  <2>1. ASSUME NEW d \in Coset
        PROVE  Recorded'[d] = [Recorded EXCEPT ![c] = Append(@, m)][d]
    <3>1. CASE d = c
      <4>1. Recorded'[c] = [i \in 1 .. n + 1 |-> Solution(c, i - 1)]
        BY <1>1, <1>3 DEF Recorded, Solution, IInv, TypeOK
      <4>2. Recorded[c] \in Seq(Moves) /\ Len(Recorded[c]) = n
        BY <1>1, RecordedType DEF n
      <4>3. /\ Append(Recorded[c], m) \in Seq(Moves)
            /\ Len(Append(Recorded[c], m)) = n + 1
            /\ \A i \in 1 .. n : Append(Recorded[c], m)[i] = Recorded[c][i]
            /\ Append(Recorded[c], m)[n + 1] = m
        BY <1>2, <4>2, AppendProperties
      <4>4. Append(Recorded[c], m) \in [1 .. n + 1 -> Moves]
        BY <4>3, LenProperties
      <4>5. \A i \in 1 .. n + 1 : Append(Recorded[c], m)[i] = Solution(c, i - 1)
        <5>1. \A i \in 1 .. n : Recorded[c][i] = Solution(c, i - 1)
          BY <1>1 DEF Recorded, n
        <5>2. m = Solution(c, (n + 1) - 1)
          BY <1>1 DEF m
        <5> QED
          BY <1>1, <4>3, <5>1, <5>2
      <4>6. Append(Recorded[c], m) = [i \in 1 .. n + 1 |-> Solution(c, i - 1)]
        BY <4>4, <4>5
      <4> QED
        BY <1>1, <3>1, <4>1, <4>6 DEF Recorded
    <3>2. CASE d # c
      <4>1. n_solved'[d] = n_solved[d]
        BY <1>3, <3>2 DEF IInv, TypeOK
      <4> QED
        BY <1>3, <3>2, <4>1 DEF Recorded, Solution
    <3> QED
      BY <3>1, <3>2
  <2>2. Recorded' = [d \in Coset |-> Recorded'[d]]
    BY DEF Recorded
  <2> QED
    BY <2>1, <2>2 DEF Recorded
<1> QED
  BY <1>1, <1>2, <1>4, <1>5 DEF Store!Next, Store!Record

(* Every step of the program is a step of the store or leaves it alone.    *)
LEMMA StepRefines == IInv /\ [Next]_vars => [Store!Next]_Recorded
<1> SUFFICES ASSUME IInv, [Next]_vars PROVE Store!Next \/ UNCHANGED Recorded
  OBVIOUS
<1>1. CASE UNCHANGED <<sol, n_solved>>
  BY <1>1, SameRecorded DEF Solution
<1>2. CASE \E p \in Process : ProcessStep(p)
  BY <1>1, <1>2 DEF ProcessStep, Open, Lock, LockFails, ReadOnly, Exit, file
<1>3. CASE \E w \in Worker : WorkerStep(w)
  <2> PICK w \in Worker : WorkerStep(w)
    BY <1>3
  <2>1. CASE WriteSlot(w)
    <3>1. UNCHANGED n_solved
      BY <2>1 DEF WriteSlot
    <3> QED
      BY <2>1, <3>1, WriteSlotFrame, SameRecorded
  <2>2. CASE CountSolved(w)
    BY <2>2, CountRefines
  <2>3. CASE ~ WriteSlot(w) /\ ~ CountSolved(w)
    BY <1>1, <2>3 DEF WorkerStep, AcquireHandle, BuildCornerSet, ReleaseHandle,
                      MarkSolved, CountLength, UpdateProvenMin, file
  <2> QED
    BY <2>1, <2>2, <2>3
<1>4. CASE UNCHANGED vars
  BY <1>1, <1>4 DEF vars, file
<1> QED
  BY <1>2, <1>3, <1>4 DEF Next

(* The file implements the append-only store of SolutionStore.tla.         *)
THEOREM Refinement == Spec => ImplementsStore
<1>1. Spec => Store!Init /\ [][Store!Next]_Recorded
  BY InitRefines, StepRefines, Invariance, PTL DEF Spec
<1> QED
  BY <1>1 DEF ImplementsStore, Store!Spec
=============================================================================
