--------------------------- MODULE IngestCommand ---------------------------
(***************************************************************************)
(* cmd_ingest of src/src/main.cpp: workers read lines from standard input, *)
(* one at a time under a mutex, and record the sequences that solve a cube *)
(* of the database: any of them with `ingest optimal`, where the user      *)
(* vouches for the lengths, else those whose length is the proven_min of   *)
(* their coset.  is_unsolved and handle::solution are two steps under the  *)
(* handle of the coset.                                                    *)
(***************************************************************************)
EXTENDS Integers, Sequences, FiniteSets

CONSTANTS
  Worker,     \* threads
  Coset,      \* edge cosets
  Cube,       \* cubes, one for each symmetry class of involutions
  CosetOf,    \* [Cube -> Coset]
  Dist,       \* [Cube -> Nat]: length of the shortest sequence
  Bound,      \* values of proven_min
  Line,       \* lines of input
  CubeOf,     \* [Line -> Cube or NoCube]: NoCube for a sequence that is no
              \* involution or whose edges are no key of ec_lookup
  RawSize,    \* [Line -> Nat]: moves.size() after parsing
  Size,       \* [Line -> Nat]: size of moves.canonical()
  Inputs,     \* what standard input may hold, a set of sequences of lines
  NoCube, NoLine, NoWorker, Unsolved

(* A canonical sequence solves its cube, so it is no shorter than the      *)
(* optimal one, and no longer than the line it comes from.  With no        *)
(* workers the command would say that it is done.                          *)
ASSUME IngestAssumption ==
  /\ Worker # {}
  /\ CosetOf \in [Cube -> Coset] /\ Dist \in [Cube -> Nat]
  /\ CubeOf \in [Line -> Cube \union {NoCube}]
  /\ RawSize \in [Line -> Nat] /\ Size \in [Line -> Nat]
  /\ \A l \in Line : Size[l] <= RawSize[l]
  /\ \A l \in Line : CubeOf[l] # NoCube => Dist[CubeOf[l]] <= Size[l]
  /\ Inputs \subseteq Seq(Line)
  /\ Bound \subseteq Nat /\ Unsolved \notin Nat
  /\ NoCube \notin Cube /\ NoLine \notin Line /\ NoWorker \notin Worker

VARIABLES
  recorded,    \* [Coset -> Seq(Line)]: the slots filled by this run
  length,      \* [Cube -> Nat or Unsolved]
  proven_min,  \* [Coset -> Bound]
  optimal,     \* the argument of the command
  input,       \* what is left of standard input
  terminated,
  outcome,
  mtx,         \* the owner of the input mutex
  ec_mutex,    \* [Coset -> Worker or NoWorker]
  pc, line,    \* each worker
  consumed     \* history: lines read

database == <<recorded, length, proven_min>>
vars == <<database, optimal, input, terminated, outcome, mtx, ec_mutex, pc,
          line, consumed>>

Open(c) == {x \in Cube : CosetOf[x] = c /\ length[x] = Unsolved}
LineCoset(l) == CosetOf[CubeOf[l]]

Optimal == INSTANCE OptimalStore

-----------------------------------------------------------------------------
(* The database may be any that earlier commands have left.  A user that   *)
(* asks for `ingest optimal` has optimal sequences.                        *)
Init ==
  /\ recorded = [c \in Coset |-> << >>]
  /\ length \in {l \in [Cube -> {Dist[x] : x \in Cube} \union {Unsolved}] :
                   \A x \in Cube : l[x] \in {Unsolved, Dist[x]}}
  /\ proven_min \in {b \in [Coset -> Bound] :
                       \A c \in Coset : \A x \in Open(c) : b[c] <= Dist[x]}
  /\ optimal \in BOOLEAN
  /\ input \in Inputs
  /\ optimal => \A i \in DOMAIN input :
       CubeOf[input[i]] # NoCube => Size[input[i]] = Dist[CubeOf[input[i]]]
  /\ terminated = FALSE
  /\ outcome = "none"
  /\ mtx = NoWorker
  /\ ec_mutex = [c \in Coset |-> NoWorker]
  /\ pc = [w \in Worker |-> "loop"]
  /\ line = [w \in Worker |-> NoLine]
  /\ consumed = {}

Signal ==
  /\ outcome = "none" /\ ~ terminated
  /\ terminated' = TRUE
  /\ UNCHANGED <<database, optimal, input, outcome, mtx, ec_mutex, pc, line,
                 consumed>>

(* while (!interrupt::terminated())                                        *)
Loop(w) ==
  /\ pc[w] = "loop"
  /\ pc' = [pc EXCEPT ![w] = IF terminated THEN "exited" ELSE "lock"]
  /\ UNCHANGED <<database, optimal, input, terminated, outcome, mtx, ec_mutex,
                 line, consumed>>

LockMtx(w) ==
  /\ pc[w] = "lock"
  /\ mtx = NoWorker
  /\ mtx' = w
  /\ pc' = [pc EXCEPT ![w] = "read"]
  /\ UNCHANGED <<database, optimal, input, terminated, outcome, ec_mutex,
                 line, consumed>>

(* getline, and mtx.unlock(): the end of the input ends the worker.        *)
ReadLine(w) ==
  /\ pc[w] = "read"
  /\ mtx' = NoWorker
  /\ \/ /\ input = << >>
        /\ pc' = [pc EXCEPT ![w] = "exited"]
        /\ UNCHANGED <<input, line, consumed>>
     \/ /\ input # << >>
        /\ line' = [line EXCEPT ![w] = Head(input)]
        /\ input' = Tail(input)
        /\ consumed' = consumed \union {Head(input)}
        /\ pc' = [pc EXCEPT ![w] = "line"]
  /\ UNCHANGED <<database, optimal, terminated, outcome, ec_mutex>>

(* parse, c * c and ec_lookup: skip a line that has no cube.               *)
Parse(w) ==
  /\ pc[w] = "line"
  /\ IF CubeOf[line[w]] = NoCube
     THEN /\ pc' = [pc EXCEPT ![w] = "loop"]
          /\ line' = [line EXCEPT ![w] = NoLine]
     ELSE /\ pc' = [pc EXCEPT ![w] = "handle"]
          /\ UNCHANGED line
  /\ UNCHANGED <<database, optimal, input, terminated, outcome, mtx, ec_mutex,
                 consumed>>

(* Mutant: no mutex for the coset.                                         *)
BugFree(c) == TRUE
Free(c) == ec_mutex[c] = NoWorker

(* tracker::handle(idx)                                                    *)
LockCoset(w) ==
  /\ pc[w] = "handle"
  /\ Free(LineCoset(line[w]))
  /\ ec_mutex' = [ec_mutex EXCEPT ![LineCoset(line[w])] = w]
  /\ pc' = [pc EXCEPT ![w] = "check"]
  /\ UNCHANGED <<database, optimal, input, terminated, outcome, mtx, line,
                 consumed>>

(* The handle is released at the end of the iteration.                     *)
Release(w) ==
  /\ ec_mutex' = [ec_mutex EXCEPT ![LineCoset(line[w])] = NoWorker]
  /\ line' = [line EXCEPT ![w] = NoLine]
  /\ pc' = [pc EXCEPT ![w] = "loop"]

(* Mutant: longer sequences count as proven.                               *)
BugProvenAtLeast(l) == optimal \/ RawSize[l] >= proven_min[LineCoset(l)]

Proven(l) == optimal \/ RawSize[l] = proven_min[LineCoset(l)]

Check(w) ==
  /\ pc[w] = "check"
  /\ IF Proven(line[w]) /\ length[CubeOf[line[w]]] = Unsolved
     THEN pc' = [pc EXCEPT ![w] = "record"] /\ UNCHANGED <<ec_mutex, line>>
     ELSE Release(w)
  /\ UNCHANGED <<database, optimal, input, terminated, outcome, mtx, consumed>>

(* handle.solution(moves.canonical())                                      *)
Record(w) ==
  LET l == line[w] IN
  /\ pc[w] = "record"
  /\ recorded' = [recorded EXCEPT ![LineCoset(l)] = Append(@, l)]
  /\ length' = [length EXCEPT ![CubeOf[l]] = Size[l]]
  /\ Release(w)
  /\ UNCHANGED <<proven_min, optimal, input, terminated, outcome, mtx,
                 consumed>>

Join ==
  /\ outcome = "none"
  /\ \A w \in Worker : pc[w] = "exited"
  /\ outcome' = IF terminated THEN "received terminate signal" ELSE "done"
  /\ UNCHANGED <<database, optimal, input, terminated, mtx, ec_mutex, pc,
                 line, consumed>>

WorkerStep(w) ==
  \/ Loop(w)
  \/ LockMtx(w)
  \/ ReadLine(w)
  \/ Parse(w)
  \/ LockCoset(w)
  \/ Check(w)
  \/ Record(w)

Next == Signal \/ Join \/ \E w \in Worker : WorkerStep(w)

Spec == Init /\ [][Next]_vars

-----------------------------------------------------------------------------
(* Only optimal lengths get into the database: without `optimal` because   *)
(* no shorter sequence can exist below proven_min.                         *)
ImplementsOptimalStore == Optimal!Spec

(* Every line counts once: at the end of the run, signal or not, the cube *)
(* of every line that was read and has a proven length has a solution, and *)
(* one slot only, though two workers may hold lines for it.  "done" is     *)
(* printed only when all of the input has been read.                       *)
LinesCountOnce ==
  /\ outcome # "none" =>
       \A l \in consumed :
         CubeOf[l] # NoCube /\ Proven(l) => length[CubeOf[l]] # Unsolved
  /\ outcome = "done" => input = << >>
  /\ \A c \in Coset : \A i, j \in DOMAIN recorded[c] :
       CubeOf[recorded[c][i]] = CubeOf[recorded[c][j]] => i = j
=============================================================================
