------------------------------ MODULE EpruneShm ------------------------------
(***************************************************************************)
(* The edge pruning index in shared memory: eprune::init, generate and     *)
(* free of src/src/eprune.cpp with alloc::shared of alloc.cpp.  The first  *)
(* command that needs the index makes the segment and fills it, the later  *)
(* ones find a magic number behind it and use it.  A command may be killed *)
(* while it fills; `free` may remove the segment at any time, which leaves *)
(* it to the processes that have attached it.                              *)
(*                                                                         *)
(* ecoset holds the file lock of the database when it comes here.  create  *)
(* does not take the lock; its user does not start it while another        *)
(* process fills the segment, nor ecoset while create does: they would not *)
(* see each other (README.md).                                             *)
(***************************************************************************)
EXTENDS Integers, FiniteSets

CONSTANTS
  Ecoset,    \* processes that run ecoset
  Create,    \* processes that run create
  Segment,   \* shared memory segments
  Block,     \* the blocks of the index, one for each thread of generate
  NoSegment,
  MaxKilled  \* bound: how often a process is killed

Command == Ecoset \union Create

(* Enough segments for the key and for those that were freed in use.       *)
ASSUME ShmAssumption ==
  /\ IsFiniteSet(Command) /\ IsFiniteSet(Segment) /\ Ecoset \cap Create = {}
  /\ Cardinality(Segment) > Cardinality(Command)
  /\ NoSegment \notin Segment /\ MaxKilled \in Nat

VARIABLES
  key,       \* the segment that SHM_KEY names, or NoSegment
  magic,     \* [Segment -> BOOLEAN]: the number behind the index is MAGIC
  right,     \* [Segment -> SUBSET Block]: the blocks with the right contents
  index,     \* [Command -> Segment or NoSegment]: what it has attached
  flock,     \* the processes that hold the file lock
  filling,   \* [Command -> SUBSET Block]: its threads have still to write
  at, killed

shm == <<key, magic, right, index, flock, filling, at, killed>>

InitShm ==
  /\ key = NoSegment
  /\ magic = [s \in Segment |-> FALSE]
  /\ right = [s \in Segment |-> {}]
  /\ index = [p \in Command |-> NoSegment]
  /\ flock = {}
  /\ filling = [p \in Command |-> {}]
  /\ at = [p \in Command |-> "off"]
  /\ killed = 0

-----------------------------------------------------------------------------
Running == {p \in Command : at[p] # "off"}
Step(p, from, to) == at[p] = from /\ at' = [at EXCEPT ![p] = to]

(* tracker::lock aborts when another ecoset has the file.                  *)
Begin(p) ==
  /\ p \in Create \/ Running \cap Create # {} =>
       \A q \in Running : at[q] = "use"
  /\ p \in Ecoset => flock = {}
  /\ Step(p, "off", "attach")
  /\ flock' = IF p \in Ecoset THEN {p} ELSE flock
  /\ UNCHANGED <<key, magic, right, index, filling, killed>>

(* shmget with IPC_CREAT finds the segment or makes one, which is zero.    *)
Attach(p) ==
  /\ Step(p, "attach", "check")
  /\ \E s \in Segment :
       /\ IF key # NoSegment THEN s = key ELSE \A q \in Command : index[q] # s
       /\ key' = s
       /\ index' = [index EXCEPT ![p] = s]
       /\ magic' = [magic EXCEPT ![s] = key # NoSegment /\ @]
       /\ right' = [right EXCEPT ![s] = IF key # NoSegment THEN @ ELSE {}]
  /\ UNCHANGED <<flock, filling, killed>>

(* Mutant: the magic number is written first.                              *)
BugMagicFirst(p) ==
  /\ Step(p, "check", IF magic[index[p]] THEN "use" ELSE "generate")
  /\ filling' = [filling EXCEPT ![p] = IF magic[index[p]] THEN {} ELSE Block]
  /\ magic' = [magic EXCEPT ![index[p]] = TRUE]
  /\ UNCHANGED <<key, right, index, flock, killed>>

CheckMagic(p) ==
  /\ Step(p, "check", IF magic[index[p]] THEN "use" ELSE "generate")
  /\ filling' = [filling EXCEPT ![p] = IF magic[index[p]] THEN {} ELSE Block]
  /\ UNCHANGED <<key, magic, right, index, flock, killed>>

(* A thread clears its block, whatever it held ...                         *)
Clear(p, b) ==
  /\ at[p] = "generate" /\ b \in filling[p] /\ b \in right[index[p]]
  /\ right' = [right EXCEPT ![index[p]] = @ \ {b}]
  /\ UNCHANGED <<key, magic, index, flock, filling, at, killed>>

(* ... and sets the bits of all its moves.                                 *)
WriteBlock(p, b) ==
  /\ at[p] = "generate" /\ b \in filling[p] /\ b \notin right[index[p]]
  /\ right' = [right EXCEPT ![index[p]] = @ \union {b}]
  /\ filling' = [filling EXCEPT ![p] = @ \ {b}]
  /\ UNCHANGED <<key, magic, index, flock, at, killed>>

(* The threads are joined: magic = MAGIC.                                  *)
SetMagic(p) ==
  /\ filling[p] = {}
  /\ Step(p, "generate", "use")
  /\ magic' = [magic EXCEPT ![index[p]] = TRUE]
  /\ UNCHANGED <<key, right, index, flock, filling, killed>>

(* The process ends, or is killed: the kernel detaches the segment and     *)
(* drops the file lock.                                                    *)
Exit(p) ==
  /\ at[p] # "off"
  /\ IF at[p] = "use" THEN UNCHANGED killed
     ELSE killed < MaxKilled /\ killed' = killed + 1
  /\ at' = [at EXCEPT ![p] = "off"]
  /\ index' = [index EXCEPT ![p] = NoSegment]
  /\ flock' = flock \ {p}
  /\ filling' = [filling EXCEPT ![p] = {}]
  /\ UNCHANGED <<key, magic, right>>

(* The command `free`: IPC_RMID, after which the key names nothing.        *)
Free ==
  /\ key # NoSegment
  /\ key' = NoSegment
  /\ UNCHANGED <<magic, right, index, flock, filling, at, killed>>

NextShm ==
  \/ Free
  \/ \E p \in Command :
       \/ Begin(p) \/ Attach(p) \/ CheckMagic(p) \/ SetMagic(p) \/ Exit(p)
       \/ \E b \in Block : Clear(p, b) \/ WriteBlock(p, b)

SpecShm == InitShm /\ [][NextShm]_shm

-----------------------------------------------------------------------------
(* Whoever uses the index has all of it, and keeps it: wherever another    *)
(* process was killed while it filled the segment, and although `free` may *)
(* remove the segment, now or before.                                      *)
UsersSeeFull ==
  \A p \in Command : at[p] = "use" => right[index[p]] = Block
=============================================================================
