# A verification development for the involution solver

TLA+ models of the program in `src/`, model checked with TLC, and proofs about
the database, the commands that write it, the search and its tables, checked
with TLAPS.  Source references are to files under
`src/src/` unless they say otherwise.

The program finds a shortest move sequence for every cube position that is its
own inverse.  It works coset by coset: an *edge coset* is the set of involutions
with one given arrangement of the edges, up to symmetry; there are 336,004.
Each coset has a header (`n_cubes`, `n_solved`, `n_length`, `prune`,
`proven_min`) and as many solution slots as it has involutions up to the
symmetries that fix its edges.  Headers and slots are one file, `invo.dat`,
mapped into memory by every command.  A run of the solver takes weeks, is
stopped by signals and kills, and is resumed; the results are believed because
of what the file says.  So the question this project asks first is: **can the
file ever say something that is not so?**

## 1. Inventory

| Component | State | Operations | Interaction |
|---|---|---|---|
| database, `tracker.{h,cpp}` | the mapped file; per process: the sets of unsolved corners with a flag each, a mutex for each coset; a file lock | `open`, `lock`, `handle`, `is_unsolved`, `solution`, `update_proven_min`, `get_corner_set`, `get_solutions` | every command; threads of one process by the mutexes, processes by the file and `flock` |
| `tracker::create`, `tables.h` | `invo.dat` and two temporary names | write, rename, resize, rename | the commands find the file or do not |
| solution slot and `moveseq` | eleven bytes; a vector of moves | encode, decode, `canonical`, `parse`, `to_string` | everything that is recorded or read passes here |
| coset solver, `ecsolver.cpp` | seeds, recursion, corner table, `terminated_` | `find_seeds`, `solve`, `search`, `candidate`, `rebuild_cpr` | one handle; `eprune` and `cprune` for pruning |
| `ecoset15`, `ecoset18`, `main.cpp` | next coset, progress, canceled | worker loop, signals | workers share a mutex, the headers and the signal flag |
| `neighbor`, `neighborsolver.cpp` | the same | worker loop, two handles, `solve` both ways | workers wait for each other's handles |
| `ingest [optimal]` | standard input | worker loop | workers share the input mutex and the handles |
| `unsolved` | next coset, next to print, a condition variable for each coset | worker loop | workers wake each other |
| edge pruning table, `eprune.cpp` | table, mutex for each row, count, then the index | parallel breadth first search, then index | workers, barriers, row mutexes |
| its shared memory, `alloc.cpp` | a segment with a magic number behind it | `init`, `generate`, `free` | processes |
| corner pruning table, `cprune.cpp` | table, `max_prune` | `generate`, `prune` | one solver |
| its memory, `cprune.cpp`, `alloc.cpp` | free list, arena | constructor, destructor, `huge` | workers of one process |
| edge permutations, `eperm48.cpp` | three tables, three files | parallel generation, load, save, `move_ex` | workers, barriers; later runs by the files |
| progress display, `status.cpp` | count, done, a thread | `increment`, `stop` | workers, main thread |
| cubes and symmetries, `cube`, `avx2_cube`, `sym` | tables made once | compose, invert, compare, rank, unrank, `sym` | all of the above |
| coordinates, `ecoord`, `ccoord`, `cperm16`, `orient` | tables made once | from and to a cube, `move`, self symmetries | solver, pruning tables |
| `involution.cpp`, `corner_hash.cpp` | lists, counts, constants | enumeration, `cube_count`, hash | `tracker` |

What is hard in this code:

* **Kills.** The file is written in place while it is used, one store after
  another, without a log.  What a kill leaves must be a database that a later
  run may believe, in `handle::solution`, in `update_proven_min` and in `create`.
* **Caches.** Each process builds the set of unsolved corners of a coset once
  and keeps it by hand; the file and the set, the count of the set, and
  `n_solved` say the same in three ways.
* **Proven bounds.** `proven_min` is what makes the results optimal: the next
  run starts there, `neighbor` and `ingest` accept a sequence *because* its
  length is `proven_min`.  A bound raised by a pass that was cut short is a wrong
  result that nothing would ever show.
* **Pruning.** The search drops nodes by an edge distance that it updates by
  masks instead of looking it up, by a corner table that is out of date, by the
  order of commuting moves and by symmetry of the first moves, all at once.
* **Threads.** Handles taken in two orders could deadlock; condition variables
  could lose a wakeup; the generators write rows of each other, and number
  their classes between barriers.
* **Counting.** The layout of the file rests on a count of orbits by their
  symmetries and on a hash without collisions: facts about the real cube that no
  small puzzle can stand for.

What makes each component correct is stated as properties of the modules below;
`PROJECT.json` lists the hazards with their lines.

## 2. Plan

1. `SolutionStore`, `Tracker`, `TrackerProofs`: the database, which all else
   rests on.  *Done.*
2. `OptimalStore` and the commands that write, `EcosetCommand`,
   `NeighborCommand`, `IngestCommand`.  *Done, proved.*
3. `ECSolver`: what one pass of one coset finds, which `EcosetCommand` takes for
   granted.  *Done, proved.*
4. `Moveseq`, `SolutionCodec`.  *Done, model checked.*
5. `EpruneGenerator`, `EpruneShm`, `CpruneTable`: what `ECSolver` takes for
   granted.  *Done, proved.*
6. `OrderedOutput`, `UnsolvedCommand`, `CreateDatabase`.  *Done, proved.*
7. `Cube`, `Coordinates`, `Involutions`, `CubeWalk`: the real cube, for what
   depends on its constants.  *Done, model checked.*
8. `Eperm48`, which `EpruneGenerator` continues; the memory of the corner tables
   in `CpruneTable`; `StatusThread` in `EcosetCommand`.  *Done, proved with the
   modules they are in.*

What is not proved concerns single values, of the codec and of the real cube, or
is liveness (section 5).

How the modules fit together:

    SolutionStore  <== Tracker                 what the file promises
         ^
         +---------- IngestCommand ==+
     StatusThread <- EcosetCommand ==+==> OptimalStore     what a database may say
                     NeighborCommand +
                          |
        a pass finds what ECSolver finds, and raises the bound when it may
                          |
        ECSolver: edge masks <- EpruneGenerator <- Eperm48;  EpruneShm;
                  corner distances <- CpruneTable;  slots <- SolutionCodec
    OrderedOutput  <== UnsolvedCommand

    MCCube = CubeWalk (SolutionCodec, Coordinates) + Involutions (Coordinates);
    Coordinates extends Cube

`A ==> B` and `B <== A` are refinements that TLC checks (`INSTANCE ... WITH`, the
abstract specification as a PROPERTY); all are also proved, but for the liveness
of the last one.  The other lines are assumptions of one module that another one
justifies: where a command does `handle::solution` in one step, `Tracker` has
its four; where `Tracker` has `Recode`, a slot that gives back a sequence of the
same length for the same cube, `SolutionCodec` says for which sequences that is
so; where `ECSolver` takes true distances, the generators say that the tables
hold these; where they and `Tracker` take classes, orbits and their number as
parameters, `Coordinates` and `Involutions` say that the real cube has them.

## 3. The modules

Definitions that begin with `Bug` are mutants: the same step with a plausible
mistake.  No specification uses them; they show that each property can fail.
Each `Bug` stands before the definition it mutates.

### Tracker, SolutionStore (the database)

State: the file (`sol`, `n_solved`, `n_length`, `proven_min`), for each process
how far it is in opening it (`mode`), its cache (`corner_sets`,
`is_initialized`), its mutexes (`ec_mutex`), for each thread the step of its
handle (`pc`), its coset, `todo`, the count that `get_solutions` read and the
sequence it is storing.

| Action | Code |
|---|---|
| `Open`, `Lock`, `LockFails`, `ReadOnly` | `tracker::init`, `open`; `lock`, which aborts if another process holds it; commands that go on without it |
| `AcquireHandle` | `handle::handle`: the mutex, and the lookup in the cache |
| `BuildCornerSet` | `get_solutions` decodes as many slots as it counted, `get_corner_set` takes their orbits out |
| `MarkSolved`, `WriteSlot`, `CountSolved`, `CountLength` | the four stores of `handle::solution`, in the order of the code |
| `UpdateProvenMin` | `handle::update_proven_min` |
| `ReleaseHandle` | `handle::~handle` |
| `Exit` | the end of a process, in the middle of anything: the file keeps what was stored, the lock and the memory are gone |

The corner set is built in two steps, because a process without the file lock
counts the slots and decodes them while another process records.
`SolutionStore` is the abstract database: for each coset a list that only
grows, without two entries for one orbit.

### OptimalStore and the writing commands

`OptimalStore` knows cubes with their distances: a cube may get a length once,
only its distance, and `proven_min` may rise only to a value that no unsolved
cube is below.

* `EcosetCommand`: `Start`, `Signal`, `Kill`, and for each worker `Begin`,
  `Candidate`, `EndPass`, `Abandon`, `EndSolve`, `Finish`.  What lies between two
  runs is the database only.  The loop that skips finished cosets reads headers
  that other workers hold; `TakeNext` reads them at the moment of the step.
  A pass finds the cubes that have a sequence of its length (`Lengths` has more
  than the shortest, since a pass at depth `d` meets longer sequences, too).
* `StatusThread`, part of it: the display thread (`Loop`, `Show`, `Wait`,
  `Timeout`), `Increment` by the workers, and `status::stop` in two steps
  (`SetDone`, `Notify`), which do not take the mutex, and a join.
* `NeighborCommand`: `Take`, `LockCoset`, `NextNeighbor`, `LockNeighbor`,
  `SolveMove`, `CountCoset`; which wrapped sequence solves which cube is a
  parameter (`There`, `Back`), and so are the moves between cosets.
* `IngestCommand`: `Loop`, `LockMtx`, `ReadLine`, `Parse`, `LockCoset`, `Check`,
  `Record`.  A line has a length before and after `canonical`, because the code
  compares the one and records the other.

### ECSolver

One thread and one handle, the recursion as a stack of frames: `NextSeed`,
`Enter` (the masks of a node), `NextMove`, `Candidate`, `Back`, `EndSearch`,
`EndPass`, and `Signal` at any time.  The puzzle is a parameter: `EMove`, `CMove`
and `Times` are the products, `Face` the axes of the moves, `ESym`, `CSym`, `MSym`
the symmetries.  `find_seeds` is built from its loops: `Sprout` is one turn of the
inner one, `Sprouts` both for one depth, `SeedLevels` all depths.  A node carries
the edge distance that the code updates by masks (`NextPrune`); masks are in the
frame of the symmetry representative, as in the code, and are turned back by
`RealMove`.  `Candidate` contains the test that the corner state is an
involution, `handle::solution` and the rebuilding of the corner table when the
count falls below the threshold.  Depths at which the corner table is used
(`TooFar`) follow `cprune::prune`.

### Moveseq, SolutionCodec

Pure functions, with the fields of the loops as records that are folded over
the sequence.  Bytes are modulo 256, half bytes are shifted, the mask of the
parser and the order of the letters are those of the code.

The behaviors of `SolutionCodec` build up sequences; `CubeWalk` turns a cube along
with them.

### Cube, Coordinates, CubeWalk

The real cube, with the constants of the code.  A register, which has a byte for
each place with the cubie in its low half and the turn in its high half, is a
record of four sequences.  `Compose` (with its mirror), `Invert` (the chain of
products), `Less` (bytes from the last corner down), `Rank` and `Unrank`, the
turns by number with the reciprocals and shifts of the code, `Syms` and `Moves`
as they are built up from four cubes; `SymProduct`, `SymInverse` and `SymMovei` as
`sym::init` finds them.  `Coordinates` has `ecoord` and `ccoord` in one, by `kind`:
the class with its symmetry and the turns in its frame.  A number of a class is
its smallest permutation here, which the tables list in that order; with it the
tables of half a billion permutations become operators.  `RawToSym` has the
difference that matters: of several symmetries `eperm48` keeps the last one and
`cperm16` the first.

`CubeWalk` adds moves to a sequence and moves the coordinates along
(`Turn`), as the search does; its properties compare these with the cube, and say
what `neighborsolver` makes of the sequence.

### Involutions

What is made when the program starts: `BeginEdges`, `VisitEdges` (64 turns a
step, to keep the number of steps down) and `EndEdges` are `expand_ep` for one
permutation after another; `GenCorners`, `CountSymmetries`, `InitTracker`.  The
lists of the two parities have nothing to do with each other, so a behavior makes
one of them.  The products of `corner_hash`, of up to 56 bits, are computed modulo
2^31 - 1 bit by bit, because TLC's integers have 32.

### Eperm48, EpruneGenerator, EpruneShm, CpruneTable

* `Eperm48`: `Load`, and when a file is missing, each worker's `Collect`, three
  barriers (`Arrive`), `Add` for worker 0, `Number` and `MoveRow` for each
  representative, then `Save` of one file after another, which may fail, and `Kill`
  at any time before it is ready.  `EpruneGenerator` extends it and goes on from
  its tables.

* `EpruneGenerator`: each worker's `Fill`, two barriers at each depth
  (`ArriveEprune`, `Decide`), `Begin`, `NextRow`, `LockRow`, `Find` and `Set` for a row under its
  mutex, `NextMove`, `Sum`; then `BuildIndex`, with the bits where `set_up` and
  `set_down` put them (`Bit`); `Lookup` and `Probe` read them.  The state of a
  row is read in `Find` and written in `Set`, so two workers without the mutex
  would count a cell twice.
* `EpruneShm`: `Attach`, `CheckMagic`, `Clear`, `WriteBlock`, `SetMagic`, `Exit`
  (also by a kill), `Free`.
* `CpruneTable`: for each worker `Generate`, `LockPool`, then `Back` and `Pop`, or
  `CheckSpace` and `Allocate`; `Fill`, `GenerateDepth`, `EndGenerate`; `Destroy` and
  `Push`; and the operator `Prune`.  A depth is one step, `Scan`, which looks from
  the cells of the last depth or from the empty cells, as `reverse` says; `Within`
  is what a table is compared with.  A table is not shared while it is used; the list and
  the arena are.

### UnsolvedCommand, OrderedOutput, CreateDatabase

* `UnsolvedCommand`: `Take`, `Compute`, `Wait`, `Output`, `SpuriousWakeup`, a
  condition variable as the set of its waiters.  `OrderedOutput` prints coset
  after coset.
* `CreateDatabase`: names and inodes, so that a process writes on into a file
  that has been renamed; `Exists`, `OpenStream`, `Write`, `RenameHeader`,
  `Resize`, `Install`, `Kill`, `Use`.

## 4. The runs

States are distinct states.  Every run finishes within minutes.

| Run | Instance and bounds | States | Shows |
|---|---|---|---|
| `tracker` | a process with two threads and a process with one; two cosets with 2 and 1 slots, one orbit of two corners; three sequences; any number of kills and restarts | 372,032 | `SolvedBounded`, `NoOrbitTwice`, `HeadersTrue`, `CacheCoherent`, `TodoAgrees`: no slot is overwritten, half written below `n_solved` or in the wrong coset; no orbit twice; caches, `todo`, `n_solved` and `n_length` agree; the file implements `SolutionStore` |
| `ecsolver` | 360 cubes up to 9 moves away, all edge arrangements that are involutions, every database, bounds 0, 2 and 5 to start from, depths 6 and 9 | 27,446 | `OptimalLengths`, `BoundIsProven`, `NodesExact`, `SolveEnds`: what is recorded is optimal, the bound is justified, the distance that is carried along is the true one, the search ends |
| `ecoset` | two workers and the display, three cosets, depths 1 and 3, signals, kills, later runs | 248,117 | the database implements `OptimalStore`; `DoneMeansSearched`; `LastShown`: each coset is counted once and the last count is shown; `RunEnds`, also when `stop` notifies before the display waits |
| `neighbor` | two workers, three cosets, moves that join each two of them and one with itself, every sound database, a signal | 160,940 | no deadlock (`RunEnds`), both directions of every pair (`DoneCoversNeighbors`), only optimal lengths |
| `ingest` | two workers, four inputs of up to four lines, both arguments, bounds 1 and 2, a signal | 56,972 | `LinesCountOnce`: one slot for two lines of one cube, no line that was read is lost; only optimal lengths |
| `unsolved` | three workers, four cosets, three databases, spurious wakeups | 5,157 | output in order, without gaps or repetitions, and to the end |
| `codec` | the real cube: up to three moves of eight (`Grow`), from nothing, U1 R2, and seventeen moves; neighbors under three symmetries (`Wrappings`), a mirror among them; both parities of the lists, edge permutations of four places (`EdgePlaces`), all 21,820 corners, of which those with at most two swaps (`CornerSwaps`) are counted for edges with the turns 0, 1 and 2047 (`CountedTurns`) | 1,938 | canonical form keeps the cube and is unique, a slot gives a reduced sequence back, text is read back; numbers give the cube back, coordinates follow it, neighbors lead there and back; edges are listed once, the hash is perfect, cosets are counted right |
| `codec_redundant` | up to six moves, no face twice in a row | violated | finding, see below |
| `eprune` | three workers, seven edge permutations in four classes, twelve cells, distances up to 5, two kills, failed saves, two contents of old memory | 11,374 | `CoordinatesAreReal` whatever files earlier runs left; cells are counted once, the index is right and `probe` finds the distance, generation ends |
| `eprune_shm` | two `ecoset`, one `create`, four segments, three blocks, two kills, `free` at any time | 501,468 | whoever uses the index has all of it |
| `cprune_table` | two workers, nine cells, seven sets of seeds, an arena of three tables, any number of cosets | 160,312 | a table in use prunes exactly what is too far; one table for each worker is enough |
| `create` | one `create`, killed up to twice | 2,999 | `invo.dat` is whole whenever it exists, and is made at last |

Why the bounds are enough: cosets interact only by the place of their slots
and by workers that hold two handles, for which two and three cosets show every
case (the own coset, a smaller and a larger neighbor, a cycle of three).  Two
threads show every race for a mutex; a third one matters where threads wake each
other or pass barriers at different speeds, and there are three in these runs.
A second process matters for the file lock, the stale cache and the reader; a
third one would only do what the second does.  The depth of a pass matters by
being below, at or beyond a distance.  The puzzles of `ecsolver`, `eprune` and
`cprune_table` are groups with a symmetry that fixes some states and not others,
with moves that commute, and with moves that keep the distance, since those are
the cases that the code treats differently; in `ecsolver` the seeds are of three
moves, as in the code, and up to six moves lie below them.  In `codec` a run of
moves of one axis has up to three moves, which cancel, merge and commute, and a
sequence of twenty moves fills a slot.  The walks need no long sequences: what
goes wrong in a product of permutations or a frame shows after one or two moves
from a cube of no symmetry, the one of seventeen moves.  The lists are not scaled
down in the corners, as a hash is perfect only for all of them.  The edges of four
places have all kinds of swaps and turns; only the number of permutations is
smaller.  The counts take some of the corners, which are closed under symmetry, so
that the lemma must hold for them as well.  The sets of seeds of `cprune_table`
are single cells in each row, sets with and without symmetry and all but one.
`max_prune` grows with every depth: that TLC reaches the end of the state graph shows that
the loop ends for every set of seeds that is not empty.

In `tracker` the two threads of the first process are interchangeable, which
`SYMMETRY` uses; all properties of the run are invariants or step properties, for
which that is sound.

Deadlock is checked in `tracker`, `ecoset`, `neighbor`, `eprune_shm` and
`cprune_table`, where a next run or coset is always possible; the other systems stop when their work is done,
and what must have happened before is a liveness property.

### Fairness

* `EcosetCommand`: weak fairness of the join and of the display thread, whose wait
  has a time limit.
* `EcosetCommand`, `NeighborCommand`, `UnsolvedCommand`, `EpruneGenerator`:
  strong fairness of each worker, because workers wait for mutexes, and a thread
  that waits gets the mutex some time, though others take it in between.  That is
  what the kernel's scheduler and the futex queue give in practice; the C++
  standard promises no more than progress of somebody.
* `ECSolver`: the thread runs.
* `CreateDatabase`: the process runs, and a user who has no database tries again;
  kills are bounded (`MaxKills`).
* Nothing ever makes a user start a command, a signal come or a process be killed.
* `Tracker`, `IngestCommand`, `EpruneShm`, `CubeWalk`, `Involutions`, `CpruneTable`:
  no fairness, safety only.

### Finding: a slot may lose a redundant sequence (`codec_redundant`)

`tracker::solution` stores a move as one of fifteen, leaving out the face before
(`tracker.cpp:165`).  It relies on `canonical` (`moveseq.cpp:40-68`) to leave no
face twice in a row.  When all the moves of an axis cancel, `canonical` writes
nothing for them, and the moves before and after, of another axis, stay
unmerged: R1 U1 D1 U3 D3 R1 becomes R1 R1.  The slot then gives back something
else.  `tests/TrackerTest.cpp:34` says for random moves, of which only the same
face twice in a row is excluded, that the slot gives back the canonical
sequence.  No solver produces such a sequence, since none of optimal length has
a run that cancels; a redundant line given to `ingest` may.
`SlotGivesBack` is the same statement for reduced sequences, which hold.

## 5. The proofs

Every theorem is for any values of the constants that the named assumptions
allow; the instances of the runs are some of them, and TLC evaluates the
assumptions there.  Each component has one inductive invariant, `IInv` (in
`ProcessProofs`, `CreateInv`, `ShmInv` and `PrintInv`), one lemma for each action,
which has one step for each conjunct that the action can disturb, and then the
theorems.

### The database

`TrackerProofs` proves, for any number of processes, threads, cosets, corners,
orbits, slots and sequences:

| Theorem | States |
|---|---|
| `Invariance` | `IInv`, the inductive invariant |
| `TypeCorrect` | `TypeOK` |
| `SlotsStayInCoset` | `SolvedBounded` |
| `OrbitsStoredOnce` | `NoOrbitTwice` |
| `ReadersFindWhole` | `HeadersTrue`: whole slots, and counts by length that never claim more |
| `CachesCoherent` | `CacheCoherent` |
| `TodoCounts` | `TodoAgrees`: `todo` is exact, and zero just when the slots are used up |
| `Refinement` | `Tracker` implements `SolutionStore` |

The assumptions are those of `Tracker`, which TLC evaluates in the run `tracker`:
orbits are classes and lie within their coset (`OrbitAssumption`); a coset has as
many slots as orbits, and the slots of two cosets do not overlap
(`LayoutAssumption`, what `create` computes and the counting lemma of
`cube_count` says); a slot gives back a sequence with the same corners and length
(`MovesAssumption`, see `SolutionCodec`); the special values are no workers,
cosets or sequences (`ProcessAssumption`).

The argument.  No property above is inductive alone, and they need each other:

* That an orbit is recorded once (`NoOrbitTwice`) rests on the cache of the
  process that records, so on `CacheCoherent`.
* The cache stays right because nobody else records meanwhile: one process has
  the lock (`OneWriter`), one thread of it the mutex (`MutexOwners`), and what was
  built was built after the lock was taken: `FreshProcess` says that a process
  has no corner set before, and `Decoding` that the count it decodes by is still
  `n_solved` if it is the writer, and not beyond it if it is a reader.
  `HandleReady` says that a handle in use has a corner set.
* Between `MarkSolved` and `CountSolved` cache and file differ by one orbit; this
  is the difference `ExpectedSet` allows, and `Storing` says what the thread then
  knows: it is in the writer, and no slot in use solves its orbit.
* That the slot it writes is one of its coset (`SolvedBounded`) is `FreeSlot`: the
  slots in use map one-to-one to orbits of the coset (`NoOrbitTwice`,
  `SlotsWhole`), none of them the orbit being stored, so there are fewer than
  orbits, and the coset has as many slots as orbits.
* `LayoutAssumption` then gives that slots in use of other cosets are not touched,
  which is `SlotsWhole` and also the main step of the refinement: `CountSolved`
  is `Record` of the abstract store, every other step is a stutter.
* `todo` is the number of corners left by `CacheCoherent`; that it is zero exactly
  when `n_solved` is `n_cubes` needs a count in both directions (`InvariantFinishes`):
  the slots in use map one-to-one to orbits, and a set of `n_cubes` of them is all.
* The counts by length (`HeadersTrue`) are kept by `LengthsCounted`: but for the
  thread between `CountSolved` and `CountLength` (`CountPending`) there are at least
  as many slots of each length as `n_length` says (`StepLengths`).
* A process that ends takes its cache with it, so `CacheCoherent` asks nothing of
  it; what it left above `n_solved` is in no property, and is overwritten.

### The search

`ECSolverProofs`, for any puzzle, coset, depth and bound to begin with, and any
sound contents of the database:

| Theorem | States |
|---|---|
| `Invariance` | `IInv` |
| `LengthsOptimal` | `OptimalLengths` |
| `BoundProven` | `BoundIsProven` |
| `NodesAreExact` | `NodesExact` |

That no recorded length is too small is easy.  That none is too large, and that the
bound may be raised after a pass, means that four ways of pruning together never
cut off the last shortest sequence of a cube, which is `Complete`: each unsolved
cube at the depth of the pass is still *ahead*, of a seed or of a call of
`search`, where cubes that a symmetry of the coset takes into each other count as
one.

* `Near` says that so many moves lead from one state to another, and `Alive` that no
  shorter path does and that no shortest one begins with a move that the order of
  the axes leaves out.  `AliveMove`: of the first moves of the shortest paths, the
  least one of its kind is not left out, and the state behind it is alive again.
* `SeedsComplete`: at every depth some seed is alive for the cube or for one
  that a symmetry takes it to.  `find_seeds` drops a state when a symmetric one was
  seen, but also states by their last axis; it is complete because the *first*
  seed, in the order of the loops, that is on the way is alive (`FirstSeedAlive`).
  The orbits in `seen` are those of seeds (`SeenSeeds`), and a seed of a smaller
  depth is not on the way as well, or there would be a shorter one (`SeenReaches`).
* `MasksExact`: the mask of a node has exactly the moves after which the edges can be
  solved in what is left, though it is looked up for another frame (`RealMoves`) and
  the distance is never looked up but at the seeds (`Calls`, the strengthening of
  `NodesExact`).
* `NotTurnedBack`: the corner table is older than the set of unsolved corners, but
  contains it (`Open \subseteq cpr` in `Records`), so it only prunes less.
* `Recorded`: a candidate takes the cube it solves, with all its symmetric cubes,
  out of `Open`, and its length is the distance, because `BoundIsProven` says that
  it is not smaller.  `PassProves`: at the end of a pass nothing is ahead, so by
  `Complete` the bound may be raised.
* A signal leaves calls that end early; `Whole` says that a pass cut short never
  reaches the place where the bound is raised.

The assumptions (`ParameterAssumption`, `MoveAssumption`, `SymAssumption`,
`InvolutionAssumption`) are what every cube of this kind has: a move changes
distances by one at most, each cube can be moved nearer to the solved one, moves
of one face are together one move or none, moves of opposite faces commute, moves
are numbered by face, symmetries are a group that permutes the moves, fixes the
solved cube and keeps edge distances, involutions are their own inverses, and the hash of an involution is
its own.  No distance is assumed beyond that, and nothing about the seeds.

### The commands

`EcosetCommandProofs`, `NeighborCommandProofs` and `IngestCommandProofs`, for any
workers, cosets, cubes, sequences, moves and inputs:

| Theorem | States |
|---|---|
| `DatabaseSound` (ecoset) | `Optimal!Sound`: recorded lengths are distances, no unsolved cube is below the bound of its coset |
| `DoneSearchedAll` (ecoset) | `DoneMeansSearched` |
| `LastCountShown` (ecoset) | `LastShown` |
| `NeighborsCovered` (neighbor) | `DoneCoversNeighbors` |
| `HandlesInOrder` (neighbor) | workers that wait for handles never wait in a circle |
| `NeverBlocked` (neighbor) | as long as a worker has not ended, one can take its step |
| `LinesCounted` (ingest) | `LinesCountOnce` |
| `Refinement` (each) | the command implements `OptimalStore` |

`Optimal!Sound` is inductive only with what a worker knows between two steps:

* ecoset: the length a worker searches is the bound of its coset, because no two
  workers have one coset (`PassBound`).  `TakenDone` is what "done" rests on: a coset
  that was taken and has work left is in the hands of a worker, or the worker
  that gave it up is about to report the signal, after which the run does not say
  "done".  `ProgressCounts` (count plus cosets in work is the number of those
  taken) and `DisplayFollows` (the display returns only with the last count, though
  `stop` sets `done` and notifies without the mutex) give `LastShown`.
* neighbor: `Owners` says which handles a worker has at which step, `CosetsInOrder` that
  the second coset is never smaller than the first.  `HandlesInOrder` follows: a worker
  that waits for the handle of another waiting one wants a smaller coset than that
  one.  `NeverBlocked` is the safety part of `RunEnds`: of the workers that wait,
  the one that wants the largest coset finds it free, or its owner can go.
  `MovesCovered`: each move of a coset that was taken is tried both ways or still
  with a worker.  It holds although a sequence is wrapped only when its length is
  the bound, because the bounds do not change in a run.
* ingest: `Checked` says that what the worker found out before it records is still
  so, because it has had the handle since; `LinesDone` that a line that was read has
  its solution or a holder; `SlotsOnce` that slots are for different cubes.  For
  `ingest optimal`, `InputOptimal` is what the user says of the input.

Their assumptions are those of the modules: cubes lie in cosets, sequences are
not shorter than the distance, special values are none of the real ones, and
there is a worker (see section 6).

### The corner table

`CpruneTableProofs`, for any workers, cosets, puzzle and seeds, and for anything a
reused table held before:

| Theorem | States |
|---|---|
| `TablesSuffice` | `ArenaSuffices`: one table for each worker is enough, so `aborted` is never set |
| `PruningIsExact` | `PruneIsExact`: a table in use drops exactly the cells that no seed is near to |

`OneOwner`, `ListedOnce` and `NoneLost` say that the tables are divided among the workers
and the free list; since a worker has one at most, a worker that finds the list
empty leaves one table of the arena unused, by counting (`Mutex` and `ListSeen`:
what it has seen of the list is still so).  `Filled` says that after each depth a
table has the distances up to that depth (`Exact`) and `todo` the number of empty
cells.  The step to the next depth is shown for forward and backward scans, one cell
after another, in a table that changes during the scan; a backward scan finds the
same cells because moves have inverses.  `TableAssumption` says that, and that every
cell is within fewer than 255 moves of the seeds, without which `generate` would
count past a byte.

### The edge table and its index

`EpruneGeneratorProofs`, for any workers, any edge permutations and turns with a
group of symmetries, any files and memory that earlier runs have left, and any
kills while the coordinates are made:

| Theorem | States |
|---|---|
| `Invariance` | `IInv` |
| `CoordinatesReal` | `CoordinatesAreReal`: `eperm48` and its move table give every permutation back |
| `TodoIsEmpty` | `TodoCountsEmpty`: between two depths `todo` is the number of empty cells |
| `IndexTellsTruth` | `IndexIsRight`: the bits say which moves lead further and which nearer, and `probe` counts the distance |

The barriers cut a run into phases, and `IInv` is a disjunction of them: `Loading`,
`Collecting`, `Adding`, `Numbering`, `Moving`, `Usable`, then `Filling`, `Deciding`,
`Scanning`, `Indexing`.  Each one says at which places the workers are, who has
arrived, and what is true there; the step of the last worker to arrive turns what
each worker has done for its block into what is true of all.

* The coordinates.  A class has the number of representatives below its own,
  `Rank`.  The blocks' lists of representatives, put one behind the other, are
  those of all permutations in order, which is what the sums of worker 0 say
  (`Summed`), so that worker w writes exactly the numbers of its block.  Behind the
  third barrier every permutation has its class in `r2s` (`Numbered`), which the
  move table needs of all the others (`RowRight`).  A file that is there is right
  (`FilesRight`), as all runs number the classes alike; files of different runs fit
  together.  The constructor's binary search, a list of bounds that shrink, ends at
  the rank.
* A depth.  In `ScanAt`, a table in the middle of a scan has all distances up to d, and
  of those of d + 1 some, whole orbits at a time (`Partial`).  `Locks` says that the row a
  worker of a forward scan writes is locked by it and by no other, while in a
  backward scan it writes its own rows.  So what `Find` has found empty is empty in
  `Set` (`FreshEmpty`), and a cell is counted by one worker: `todo` is the number of
  empty cells and of those `Counted` that have not been subtracted.  `Tried` says of
  each move what the scan that passed it leaves: forward, no neighbor of a cell
  at d is empty; backward, no empty cell has that neighbor at d.  It is kept while
  others write.  When all scans have ended, `Scanned` for all blocks is `Exact` at
  d + 1.
* That the search stops before a distance would be 255, the mark of an empty
  cell, is the last part of `OrientAssumption`; that `todo` is zero exactly when no
  cell is empty is `TodoIsEmpty`.
* The index.  A line has the bits of its own coordinates and no others
  (`LineRight`, `OwnBits`), though the low bits of all of them share a word.  The
  neighbor of a cell in the table is the moved position up to symmetry, which has
  the same distance, and distances of neighbors differ by one at most; so a table
  entry that is larger or smaller is larger or smaller by one, and each round of
  `probe` comes one nearer.

`GroupAssumption` says that moves have inverses and that symmetries are a group, fix
the solved position and turn moves into moves; `PermAssumption` the same of the
permutations alone, and that no representative is in the rest that the
blocks leave out.

### The shared index, the making of the database, the printing

`ProcessProofs`, three small components:

| Theorem | States |
|---|---|
| `IndexIsWhole` | `UsersSeeFull`, for any processes, segments, blocks and kills |
| `DatabaseInPlace` | `DatabaseWhole`, for any inodes, kills and attempts, under `OneCreate` |

`IndexIsWhole` rests on `MagicTrue`: a segment with the magic number is full.  It
is inductive because the process that fills a segment is the only one that does
not use one yet (`OneBusy`, from the file lock and the assumption in `Begin` about
`create`), has seen no magic number, and has left to its threads exactly the
blocks that may be wrong (`Filling`).  `DatabaseInPlace` follows the inode through
its names: `OneName` says that two names never share one, so that truncating the
temporary file cannot reach the database, and `Stages` what is done of the file at
each step of `create`.  `OneCreate`, one process at a time, is a hypothesis and not
a convenience: a second `create` truncates the file that the first one moves into
place.

For `unsolved`, with any workers, cosets and databases, under `UnsolvedAssumption`:

| Theorem | States |
|---|---|
| `PrintingGoesOn` | as long as a worker has not ended, some worker can take a step other than waking up by chance |
| `PrintsInOrder` | the safety part of `ImplementsOrderedOutput`: the refinement without its fairness |

`HeldByOne` and `HeldBySome` say that each coset that was taken and not printed is
one worker's, so the one whose turn it is is somewhere, and `NoLostWakeup` that it
does not sleep: it looks at `output_idx` under the mutex before it waits, and who
changes `output_idx` wakes it.  That it is woken by `notify_one` of its own condition
variable rests on `HeldByOne`.  `Filled` says that it prints what it has computed.

### Recursion

The loops of `find_seeds` and of the scans, the cubes along a sequence and the
distances `Within` are recursive functions.  That such a function exists, and so
is equal to its body, is shown for one length of its domain after another, and so
is what holds along it: by `AllNumbers`, since a set of numbers that is not
everything has a least one missing (`LeastNumber`, from the library's fact that the
order of the numbers is well-founded).  No induction rule over a formula is needed.

### Only model checked

* Liveness (`SolveEnds`, `RunEnds`, `GenerationEnds` and the others), which is beyond the prover
  here.
* `Moveseq` and `SolutionCodec`: they use bit operations of a module the prover cannot
  load, and fold over sequences of any length.
* `Cube`, `Coordinates`, `CubeWalk`, `Involutions`: about constants of the real cube, which
  TLC evaluates.

## 6. What the models assume, and what is left out

* A kill ends a process; the machine does not lose power, so stores to the mapped
  file are kept in their order.  After a crash of the kernel the file may be
  anything; the code does not call `msync` either.
* There is a worker.  The number of threads is `hardware_concurrency()`
  (`thread.h:10`), which may be zero where the platform does not know; the commands
  would then say "done" without any work.
* `terminated_` is a plain `bool` that a handler writes; each access is one step.
* One `create` at a time.  `create` looks for the database first and replaces it
  by a rename much later (`tracker.cpp:42,81`), without a lock: of two at once the
  second would replace the first one's file, which `CreateDatabase` shows when
  `Process` has two members.
* `EpruneShm`: nobody starts `create` while another process fills the segment, nor
  `ecoset` while `create` does.  `create` does not take the file lock, and both
  would fill the same segment.
* `handle::solution` is called with involutions of the handle's coset, which all
  its callers make sure of.
* Hash values of corner involutions are distinct in `Tracker` and `ECSolver`, which
  `HashIsPerfect` checks for all of them; `ECSolver` lets the hash of another
  corner state be that of an involution.
* Nothing is said of how `ingest` ends: a worker waits in `getline` with the mutex,
  and how a stream treats a read that a signal interrupts is in the C++ library.
* The sizes that `huge` rounds up and its pages are left out: in `CpruneTable` the
  arena counts in tables.

* `EpruneGenerator`: there are no more workers than rows, of which the code has
  millions; with more, the first row would be of the last worker and the solved
  cell would be cleared or not as the threads run.  The rounds of `probe` and of the
  binary search are bounded by the number of positions and classes, which is
  more than they need.

Not modelled: the text of a cube (`cube::to_sing`) and the other formats of
output; `symRep16` and `symRep48`, which nothing calls; the sums that `count`
and `status::show_counts` print, which add up `n_length`; `main`, which picks a
command; the layout of bytes in a vector register (the models have one number
for each byte, and no carry crosses bytes in the code); the order in which
classes are numbered on the real cube, which `Eperm48` checks on a small one;
threads that cannot be started.  `PROJECT.json` gives the reason for each.
