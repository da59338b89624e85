---------------------------- MODULE ProcessProofs ----------------------------
(***************************************************************************)
(* Proofs about three components of their own: the database that `create`  *)
(* puts in place (CreateDatabase.tla), the index in shared memory          *)
(* (EpruneShm.tla), and the command `unsolved` (UnsolvedCommand.tla).  For *)
(* any numbers of processes, threads, kills and cosets.                    *)
(***************************************************************************)
EXTENDS CreateDatabase, EpruneShm, Sequences, TLAPS

(* What UnsolvedCommand.tla has of its own; `thread` is its pc.            *)
CONSTANTS Worker, N, Corner, Orbit, CornerSets, NoWorker, NoCoset
VARIABLES corner_set, ec_idx, output_idx, printed, mtx, thread, idx, buf, exited

Unsolved == INSTANCE UnsolvedCommand WITH pc <- thread

-----------------------------------------------------------------------------
(* The database: whole when it is in place, proved for one process of      *)
(* `create` at a time and any number of new attempts.  With two at a time  *)
(* it is false: one truncates the temporary file that the other moves.     *)
OneCreate == \A p, q \in Process : p = q

(* What every variable is.                                                 *)
DiskTypes ==
  /\ file \in [Name -> Inode \union {NoInode}]
  /\ header \in [Inode -> BOOLEAN] /\ full \in [Inode -> BOOLEAN]
  /\ solutions \in [Inode -> Nat]

ProcessTypes ==
  /\ fd \in [Process -> Inode \union {NoInode}]
  /\ pc \in [Process -> {"off", "exists", "open", "write", "rename", "resize",
                         "install"}]
  /\ kills \in Nat

(* A move leaves no second name: two names are never of one inode.         *)
OneName == \A m, n \in Name : file[m] = file[n] /\ file[m] # NoInode => m = n

(* What is done of the temporary files, for the process that runs.         *)
Stages ==
  \A p \in Process :
    /\ pc[p] \in {"write", "rename"} =>
         fd[p] \in Inode /\ fd[p] = file["invo.dat.tmp.tmp"]
    /\ pc[p] = "rename" => header[fd[p]]
    /\ pc[p] \in {"resize", "install"} =>
         file["invo.dat.tmp"] \in Inode /\ header[file["invo.dat.tmp"]]
    /\ pc[p] = "install" => full[file["invo.dat.tmp"]]

CreateInv == DiskTypes /\ ProcessTypes /\ OneName /\ Stages /\ DatabaseWhole

-----------------------------------------------------------------------------
LEMMA CreateInit == Init => CreateInv
<1> SUFFICES ASSUME Init PROVE CreateInv
  OBVIOUS
<1>1. \A n \in Name : file[n] = NoInode
  BY DEF Init
<1>2. \A p \in Process : pc[p] = "off"
  BY DEF Init
<1>3. DiskTypes /\ ProcessTypes
  BY DEF Init, DiskTypes, ProcessTypes
<1>4. OneName /\ DatabaseWhole
  BY <1>1 DEF OneName, DatabaseWhole, Name
<1>5. Stages
  BY <1>2 DEF Stages
<1> QED  BY <1>3, <1>4, <1>5 DEF CreateInv

(* A step that leaves the disk and the stream needs only the place it goes *)
(* to: "off", "exists" and "open" promise nothing.                         *)
LEMMA CreateQuiet ==
  ASSUME CreateInv, UNCHANGED disk, NEW p \in Process,
         NEW place \in {"off", "exists", "open"},
         pc' = [pc EXCEPT ![p] = place],
         fd' \in [Process -> Inode \union {NoInode}],
         \A q \in Process \ {p} : fd'[q] = fd[q],
         kills' \in Nat
  PROVE  CreateInv'
<1> USE DEF CreateInv, disk
<1>1. DiskTypes' /\ OneName' /\ DatabaseWhole'
  BY DEF DiskTypes, OneName, DatabaseWhole
<1>2. ProcessTypes'
  BY DEF ProcessTypes
<1>3. Stages'
  BY DEF Stages, ProcessTypes
<1> QED  BY <1>1, <1>2, <1>3

(* The stream gets the inode of its name or one that nothing refers to, so *)
(* it never truncates the database.                                        *)
LEMMA CreateOpen ==
  ASSUME OneCreate, CreateInv, NEW p \in Process, OpenStream(p)
  PROVE  CreateInv'
<1> USE DEF CreateInv
<1> DEFINE used == {file[n] : n \in Name} \union {fd[q] : q \in Process}
<1>1. PICK i \in Opened(file["invo.dat.tmp.tmp"], used) :
        /\ file' = [file EXCEPT !["invo.dat.tmp.tmp"] = i]
        /\ header' = [header EXCEPT ![i] = FALSE]
        /\ full' = [full EXCEPT ![i] = FALSE]
        /\ solutions' = [solutions EXCEPT ![i] = 0]
        /\ fd' = [fd EXCEPT ![p] = i]
  BY DEF OpenStream
<1>2. pc' = [pc EXCEPT ![p] = "write"] /\ UNCHANGED kills
  BY DEF OpenStream, Go
<1>3. /\ i \in Inode
      /\ \A n \in Name \ {"invo.dat.tmp.tmp"} : file[n] # i
  BY <1>1, InodeAssumption DEF Opened, OneName, DiskTypes, Name
<1>4. DiskTypes'
  BY <1>1, <1>3 DEF DiskTypes
<1>5. ProcessTypes'
  BY <1>1, <1>2, <1>3 DEF ProcessTypes
<1>6. OneName' /\ DatabaseWhole'
  BY <1>1, <1>3 DEF OneName, DatabaseWhole, DiskTypes, Name
<1>7. \A q \in Process : pc'[q] = "write" /\ fd'[q] = i
  BY <1>1, <1>2 DEF OneCreate, ProcessTypes
<1>8. file'["invo.dat.tmp.tmp"] = i
  BY <1>1 DEF DiskTypes, Name
<1>9. Stages'
  BY <1>3, <1>7, <1>8 DEF Stages
<1> QED  BY <1>4, <1>5, <1>6, <1>9

LEMMA CreateWrite ==
  ASSUME OneCreate, CreateInv, NEW p \in Process, Write(p)
  PROVE  CreateInv'
<1> USE DEF CreateInv
<1>1. /\ pc[p] = "write" /\ pc' = [pc EXCEPT ![p] = "rename"]
      /\ header' = [header EXCEPT ![fd[p]] = TRUE]
      /\ UNCHANGED <<file, full, solutions, fd, kills>>
  BY DEF Write, Go
<1>2. fd[p] \in Inode /\ fd[p] = file["invo.dat.tmp.tmp"]
  BY <1>1 DEF Stages
<1>3. DiskTypes' /\ ProcessTypes' /\ OneName'
  BY <1>1 DEF DiskTypes, ProcessTypes, OneName
<1>4. DatabaseWhole'
  BY <1>1 DEF DatabaseWhole, DiskTypes, Name
<1>5. \A q \in Process : pc'[q] = "rename" /\ q = p
  BY <1>1 DEF OneCreate, ProcessTypes
<1>6. Stages'
  BY <1>1, <1>2, <1>5 DEF Stages, DiskTypes
<1> QED  BY <1>3, <1>4, <1>6

(* The headers move with the inode.                                        *)
LEMMA CreateRename ==
  ASSUME OneCreate, CreateInv, NEW p \in Process, RenameHeader(p)
  PROVE  CreateInv'
<1> USE DEF CreateInv
<1> DEFINE i == file["invo.dat.tmp.tmp"]
<1>1. /\ pc[p] = "rename" /\ fd' = [fd EXCEPT ![p] = NoInode]
      /\ UNCHANGED <<header, full, solutions, kills>>
  BY DEF RenameHeader, Go
<1>2. i \in Inode /\ i # NoInode /\ header[i]
  BY <1>1, InodeAssumption DEF Stages
<1>3. /\ pc' = [pc EXCEPT ![p] = "resize"]
      /\ file' = [file EXCEPT !["invo.dat.tmp"] = i, !["invo.dat.tmp.tmp"] = NoInode]
  BY <1>2 DEF RenameHeader, Go, Move
<1>4. DiskTypes' /\ ProcessTypes'
  BY <1>1, <1>2, <1>3 DEF DiskTypes, ProcessTypes
<1>5. /\ file'["invo.dat.tmp"] = i
      /\ file'["invo.dat.tmp.tmp"] = NoInode
      /\ file'["invo.dat"] = file["invo.dat"]
  BY <1>3 DEF DiskTypes, Name
<1>6. OneName' /\ DatabaseWhole'
  BY <1>1, <1>5 DEF OneName, DatabaseWhole, Name
<1>7. \A q \in Process : pc'[q] = "resize"
  BY <1>3 DEF OneCreate, ProcessTypes
<1>8. Stages'
  BY <1>1, <1>2, <1>5, <1>7 DEF Stages
<1> QED  BY <1>4, <1>6, <1>8

LEMMA CreateResize ==
  ASSUME OneCreate, CreateInv, NEW p \in Process, Resize(p)
  PROVE  CreateInv'
<1> USE DEF CreateInv
<1> DEFINE i == file["invo.dat.tmp"]
<1>1. pc[p] = "resize" /\ UNCHANGED <<file, header, solutions, fd, kills>>
  BY DEF Resize, Go
<1>2. i \in Inode /\ i # NoInode /\ header[i]
  BY <1>1, InodeAssumption DEF Stages
<1>3. pc' = [pc EXCEPT ![p] = "install"] /\ full' = [full EXCEPT ![i] = TRUE]
  BY <1>2 DEF Resize, Go
<1>4. DiskTypes' /\ ProcessTypes' /\ OneName'
  BY <1>1, <1>3 DEF DiskTypes, ProcessTypes, OneName
<1>5. DatabaseWhole'
  BY <1>1, <1>3 DEF DatabaseWhole, DiskTypes, Name
<1>6. \A q \in Process : pc'[q] = "install"
  BY <1>3 DEF OneCreate, ProcessTypes
<1>7. Stages'
  BY <1>1, <1>2, <1>3, <1>6 DEF Stages, DiskTypes
<1> QED  BY <1>4, <1>5, <1>7

(* What takes its place has its headers and its size.                      *)
LEMMA CreateInstall ==
  ASSUME OneCreate, CreateInv, NEW p \in Process, Install(p)
  PROVE  CreateInv'
<1> USE DEF CreateInv
<1> DEFINE i == file["invo.dat.tmp"]
<1>1. /\ pc[p] = "install" /\ pc' = [pc EXCEPT ![p] = "off"]
      /\ UNCHANGED <<header, full, solutions, fd, kills>>
  BY DEF Install, Go
<1>2. i \in Inode /\ i # NoInode /\ header[i] /\ full[i]
  BY <1>1, InodeAssumption DEF Stages
<1>3. file' = [file EXCEPT !["invo.dat"] = i, !["invo.dat.tmp"] = NoInode]
  BY <1>2 DEF Install, Move
<1>4. DiskTypes' /\ ProcessTypes'
  BY <1>1, <1>2, <1>3 DEF DiskTypes, ProcessTypes
<1>5. /\ file'["invo.dat"] = i
      /\ file'["invo.dat.tmp"] = NoInode
      /\ file'["invo.dat.tmp.tmp"] = file["invo.dat.tmp.tmp"]
  BY <1>3 DEF DiskTypes, Name
<1>6. OneName' /\ DatabaseWhole'
  BY <1>1, <1>2, <1>5 DEF OneName, DatabaseWhole, Name
<1>7. \A q \in Process : pc'[q] = "off"
  BY <1>1 DEF OneCreate, ProcessTypes
<1>8. Stages'
  BY <1>7 DEF Stages
<1> QED  BY <1>4, <1>6, <1>8

LEMMA CreateUse == CreateInv /\ Use => CreateInv'
<1> SUFFICES ASSUME CreateInv, Use PROVE CreateInv'
  OBVIOUS
<1> USE DEF CreateInv
<1>1. /\ UNCHANGED <<file, header, full, fd, pc, kills>>
      /\ solutions' = [solutions EXCEPT ![file["invo.dat"]] = @ + 1]
  BY DEF Use
<1>2. file["invo.dat"] \in Inode /\ solutions[file["invo.dat"]] + 1 \in Nat
  BY DEF Use, DiskTypes, Name
<1>3. DiskTypes' /\ ProcessTypes'
  BY <1>1, <1>2 DEF DiskTypes, ProcessTypes
<1>4. OneName' /\ Stages' /\ DatabaseWhole'
  BY <1>1 DEF OneName, Stages, DatabaseWhole
<1> QED  BY <1>3, <1>4

LEMMA CreateStutter == CreateInv /\ UNCHANGED vars => CreateInv'
BY DEF vars, disk, CreateInv, DiskTypes, ProcessTypes, OneName, Stages, DatabaseWhole

LEMMA CreateNext == OneCreate /\ CreateInv /\ [Next]_vars => CreateInv'
<1> SUFFICES ASSUME OneCreate, CreateInv, Next PROVE CreateInv'
  BY CreateStutter
<1>1. CASE Use
  BY <1>1, CreateUse
<1>2. ASSUME NEW p \in Process, Start(p) \/ Exists(p) \/ Kill(p)
      PROVE  CreateInv'
  <2>1. /\ UNCHANGED disk
        /\ \E place \in {"off", "exists", "open"} : pc' = [pc EXCEPT ![p] = place]
    BY <1>2 DEF Start, Exists, Kill, Go
  <2>2. /\ fd' \in [Process -> Inode \union {NoInode}]
        /\ \A q \in Process \ {p} : fd'[q] = fd[q]
        /\ kills' \in Nat
    BY <1>2 DEF Start, Exists, Kill, CreateInv, ProcessTypes
  <2> QED  BY <2>1, <2>2, CreateQuiet
<1>3. ASSUME NEW p \in Process, CreateStep(p), ~ Exists(p)
      PROVE  CreateInv'
  BY <1>3, CreateOpen, CreateWrite, CreateRename, CreateResize, CreateInstall
     DEF CreateStep
<1> QED  BY <1>1, <1>2, <1>3 DEF Next, CreateStep

-----------------------------------------------------------------------------
(* DatabaseWhole always holds: whatever is at the database's place has all *)
(* headers and its full size, however often `create` is killed on the way, *)
(* as long as one `create` runs at a time.                                 *)
THEOREM DatabaseInPlace == OneCreate => (Spec => []DatabaseWhole)
<1> SUFFICES ASSUME OneCreate PROVE Spec => []DatabaseWhole
  OBVIOUS
<1>1. CreateInv /\ [Next]_vars => CreateInv'
  BY CreateNext
<1>2. CreateInv => DatabaseWhole
  BY DEF CreateInv
<1> QED  BY CreateInit, <1>1, <1>2, PTL DEF Spec

-----------------------------------------------------------------------------
(* The shared index: whoever uses it has all of it, for any number of      *)
(* processes, segments and blocks and any number of calls of `free`.       *)

(* What every variable is.                                                 *)
ShmTypes ==
  /\ key \in Segment \union {NoSegment}
  /\ magic \in [Segment -> BOOLEAN]
  /\ right \in [Segment -> SUBSET Block]
  /\ index \in [Command -> Segment \union {NoSegment}]
  /\ flock \subseteq Command
  /\ filling \in [Command -> SUBSET Block]
  /\ at \in [Command -> {"off", "attach", "check", "generate", "use"}]
  /\ killed \in Nat

Attached ==
  \A p \in Command : at[p] \in {"check", "generate", "use"} => index[p] \in Segment

(* Every ecoset that runs holds the file lock, and of all that run at most *)
(* one does not use the index yet.                                         *)
LockHeld == \A p \in Ecoset : at[p] # "off" => p \in flock

Busy(p) == at[p] \in {"attach", "check", "generate"}
OneBusy == \A p, q \in Command : Busy(p) /\ Busy(q) => p = q

(* The magic number tells the truth, users have seen it, and who fills a   *)
(* segment has not.                                                        *)
MagicTrue == \A s \in Segment : magic[s] => right[s] = Block
UsersSawMagic == \A p \in Command : at[p] = "use" => magic[index[p]]
Filling ==
  \A p \in Command : at[p] = "generate" =>
    /\ ~ magic[index[p]]
    /\ Block \ filling[p] \subseteq right[index[p]]

ShmInv ==
  /\ ShmTypes /\ Attached
  /\ LockHeld /\ OneBusy
  /\ MagicTrue /\ UsersSawMagic /\ Filling

-----------------------------------------------------------------------------
LEMMA ShmInitHolds == InitShm => ShmInv
<1> SUFFICES ASSUME InitShm PROVE ShmInv
  OBVIOUS
<1>1. \A p \in Command : at[p] = "off"
  BY DEF InitShm
<1>2. \A s \in Segment : ~ magic[s]
  BY DEF InitShm
<1>3. ShmTypes
  BY DEF InitShm, ShmTypes
<1>4. Attached /\ OneBusy /\ UsersSawMagic /\ Filling
  BY <1>1 DEF Attached, OneBusy, Busy, UsersSawMagic, Filling
<1>5. LockHeld
  BY <1>1 DEF LockHeld, Command
<1>6. MagicTrue
  BY <1>2 DEF MagicTrue
<1> QED  BY <1>3, <1>4, <1>5, <1>6 DEF ShmInv

LEMMA ShmStutter == ShmInv /\ UNCHANGED shm => ShmInv'
BY DEF shm, ShmInv, ShmTypes, Attached, LockHeld, OneBusy, Busy, MagicTrue,
   UsersSawMagic, Filling

(* A process starts when nobody is busy: without another create, because   *)
(* the lock is free and so no ecoset runs.                                 *)
LEMMA ShmBegin ==
  ASSUME ShmInv, NEW p \in Command, Begin(p)
  PROVE  ShmInv'
<1> USE DEF ShmInv
<1>1. \A q \in Command : ~ Busy(q)
  <2>1. CASE p \in Create \/ Running \cap Create # {}
    BY <2>1 DEF Begin, Running, Busy, ShmTypes
  <2>2. CASE ~ (p \in Create \/ Running \cap Create # {})
    <3>1. flock = {} /\ Running \cap Create = {}
      BY <2>2 DEF Begin, Command
    <3>2. \A q \in Command : at[q] = "off"
      BY <3>1 DEF LockHeld, Running, Command
    <3> QED  BY <3>2 DEF Busy
  <2> QED  BY <2>1, <2>2
<1>2. /\ at[p] = "off" /\ at' = [at EXCEPT ![p] = "attach"]
      /\ flock' = IF p \in Ecoset THEN {p} ELSE flock
      /\ p \in Ecoset => flock = {}
      /\ UNCHANGED <<key, magic, right, index, filling, killed>>
  BY DEF Begin, Step
<1>3. ShmTypes' /\ Attached'
  BY <1>2 DEF ShmTypes, Attached, Command
<1>4. LockHeld'
  BY <1>2 DEF LockHeld, ShmTypes, Command
<1>5. OneBusy'
  BY <1>1, <1>2 DEF OneBusy, Busy, ShmTypes
<1>6. MagicTrue' /\ UsersSawMagic' /\ Filling'
  BY <1>2 DEF MagicTrue, UsersSawMagic, Filling, ShmTypes
<1> QED  BY <1>3, <1>4, <1>5, <1>6

(* A segment that is made anew is nobody's.                                *)
LEMMA ShmAttach ==
  ASSUME ShmInv, NEW p \in Command, Attach(p)
  PROVE  ShmInv'
<1> USE DEF ShmInv
<1>1. PICK s \in Segment :
        /\ IF key # NoSegment THEN s = key ELSE \A q \in Command : index[q] # s
        /\ key' = s
        /\ index' = [index EXCEPT ![p] = s]
        /\ magic' = [magic EXCEPT ![s] = key # NoSegment /\ @]
        /\ right' = [right EXCEPT ![s] = IF key # NoSegment THEN @ ELSE {}]
  BY DEF Attach
<1>2. /\ at[p] = "attach" /\ at' = [at EXCEPT ![p] = "check"]
      /\ UNCHANGED <<flock, filling, killed>>
  BY DEF Attach, Step
<1>3. ShmTypes'
  BY <1>1, <1>2 DEF ShmTypes
<1>4. Attached' /\ LockHeld' /\ OneBusy'
  BY <1>1, <1>2 DEF Attached, LockHeld, OneBusy, Busy, ShmTypes, Command
<1>5. MagicTrue'
  BY <1>1 DEF MagicTrue, ShmTypes
<1>6. ASSUME NEW q \in Command, at[q] \in {"generate", "use"}
      PROVE  index'[q] = index[q] /\ magic'[index[q]] = magic[index[q]]
                                  /\ right'[index[q]] = right[index[q]]
  BY <1>1, <1>2, <1>6 DEF Attached, ShmTypes
<1>7. UsersSawMagic' /\ Filling'
  BY <1>2, <1>6 DEF UsersSawMagic, Filling, ShmTypes
<1> QED  BY <1>3, <1>4, <1>5, <1>7

LEMMA ShmCheckMagic ==
  ASSUME ShmInv, NEW p \in Command, CheckMagic(p)
  PROVE  ShmInv'
<1> USE DEF ShmInv
<1>1. /\ at[p] = "check"
      /\ at' = [at EXCEPT ![p] = IF magic[index[p]] THEN "use" ELSE "generate"]
      /\ filling' = [filling EXCEPT ![p] = IF magic[index[p]] THEN {} ELSE Block]
      /\ UNCHANGED <<key, magic, right, index, flock, killed>>
  BY DEF CheckMagic, Step
<1>2. ShmTypes'
  BY <1>1 DEF ShmTypes
<1>3. Attached' /\ LockHeld' /\ OneBusy' /\ MagicTrue'
  BY <1>1
     DEF Attached, LockHeld, OneBusy, Busy, MagicTrue, ShmTypes, Command
<1>4. UsersSawMagic' /\ Filling'
  BY <1>1 DEF UsersSawMagic, Filling, ShmTypes
<1> QED  BY <1>2, <1>3, <1>4

(* Who fills is alone in its segment but for those who do not use it.      *)
LEMMA ShmFill ==
  ASSUME ShmInv, NEW p \in Command, NEW b \in Block,
         Clear(p, b) \/ WriteBlock(p, b)
  PROVE  ShmInv'
<1> USE DEF ShmInv
<1>1. /\ at[p] = "generate" /\ b \in filling[p]
      /\ UNCHANGED <<key, magic, index, flock, at, killed>>
  BY DEF Clear, WriteBlock
<1>2. index[p] \in Segment /\ ~ magic[index[p]]
  BY <1>1 DEF Attached, Filling
<1>3. ShmTypes'
  BY <1>1, <1>2 DEF ShmTypes, Clear, WriteBlock
<1>4. Attached' /\ LockHeld' /\ OneBusy' /\ UsersSawMagic'
  BY <1>1 DEF Attached, LockHeld, OneBusy, Busy, UsersSawMagic
<1>5. MagicTrue'
  BY <1>1, <1>2 DEF MagicTrue, Clear, WriteBlock, ShmTypes
<1>6. Filling'
  <2> SUFFICES ASSUME NEW q \in Command, at[q] = "generate"
               PROVE  Block \ filling'[q] \subseteq right'[index[q]]
    BY <1>1 DEF Filling
  <2>1. q = p
    BY <1>1 DEF OneBusy, Busy
  <2>2. Block \ filling[p] \subseteq right[index[p]]
    BY <1>1 DEF Filling
  <2>3. CASE Clear(p, b)
    BY <1>1, <1>2, <2>1, <2>2, <2>3 DEF Clear, ShmTypes
  <2>4. CASE WriteBlock(p, b)
    BY <1>1, <1>2, <2>1, <2>2, <2>4 DEF WriteBlock, ShmTypes
  <2> QED  BY <2>3, <2>4
<1> QED  BY <1>3, <1>4, <1>5, <1>6

LEMMA ShmSetMagic ==
  ASSUME ShmInv, NEW p \in Command, SetMagic(p)
  PROVE  ShmInv'
<1> USE DEF ShmInv
<1>1. /\ filling[p] = {}
      /\ at[p] = "generate" /\ at' = [at EXCEPT ![p] = "use"]
      /\ magic' = [magic EXCEPT ![index[p]] = TRUE]
      /\ UNCHANGED <<key, right, index, flock, filling, killed>>
  BY DEF SetMagic, Step
<1>2. index[p] \in Segment /\ right[index[p]] = Block
  BY <1>1 DEF Attached, Filling, ShmTypes
<1>3. ShmTypes' /\ Attached' /\ LockHeld' /\ OneBusy'
  BY <1>1 DEF ShmTypes, Attached, LockHeld, OneBusy, Busy, Command
<1>4. MagicTrue' /\ UsersSawMagic'
  BY <1>1, <1>2 DEF MagicTrue, UsersSawMagic, Attached, ShmTypes
<1>5. Filling'
  BY <1>1 DEF Filling, OneBusy, Busy, ShmTypes
<1> QED  BY <1>3, <1>4, <1>5

(* A process that is killed leaves its segment as it is.                   *)
LEMMA ShmLeave ==
  ASSUME ShmInv, Free \/ \E p \in Command : Exit(p)
  PROVE  ShmInv'
<1> USE DEF ShmInv
<1>1. CASE Free
  BY <1>1 DEF Free, ShmTypes, Attached, LockHeld, OneBusy, Busy, MagicTrue,
     UsersSawMagic, Filling
<1>2. ASSUME NEW p \in Command, Exit(p)
      PROVE  ShmInv'
  <2>1. ShmTypes'
    BY <1>2 DEF Exit, ShmTypes
  <2>2. Attached' /\ LockHeld' /\ OneBusy'
    BY <1>2 DEF Exit, Attached, LockHeld, OneBusy, Busy, ShmTypes, Command
  <2>3. MagicTrue' /\ UsersSawMagic' /\ Filling'
    BY <1>2 DEF Exit, MagicTrue, UsersSawMagic, Filling, ShmTypes
  <2> QED  BY <2>1, <2>2, <2>3
<1> QED  BY <1>1, <1>2

-----------------------------------------------------------------------------
(* UsersSeeFull always holds: eprune::init returns only with a whole       *)
(* index, for any number of ecosets, creates, kills and calls of free.     *)
THEOREM IndexIsWhole == SpecShm => []UsersSeeFull
<1>1. ShmInv /\ [NextShm]_shm => ShmInv'
  BY ShmStutter, ShmBegin, ShmAttach, ShmCheckMagic, ShmFill, ShmSetMagic, ShmLeave
     DEF NextShm
<1>2. ShmInv => UsersSeeFull
  BY DEF ShmInv, Attached, MagicTrue, UsersSawMagic, UsersSeeFull
<1> QED  BY ShmInitHolds, <1>1, <1>2, PTL DEF SpecShm

-----------------------------------------------------------------------------
(* The command `unsolved`: it never stops before it has printed all, and   *)
(* prints in order.                                                        *)

(* Where a worker may be.                                                  *)
Places ==
  {"enter", "take", "compute", "return", "turn", "wait", "woken", "exited"}

(* What every variable is.                                                 *)
PrintTypes ==
  /\ corner_set \in CornerSets /\ mtx \in Worker \union {NoWorker}
  /\ ec_idx \in 0 .. N /\ output_idx \in 0 .. ec_idx
  /\ printed \in Seq(SUBSET Corner) /\ Len(printed) = output_idx
  /\ thread \in [Worker -> Places]
  /\ idx \in [Worker -> Unsolved!Coset \union {NoCoset}]
  /\ buf \in [Worker -> SUBSET Corner]

(* A worker has a coset from taking it until it has printed it.            *)
HasCoset(w) == thread[w] \in {"compute", "return", "wait", "woken", "turn"}
Held ==
  \A w \in Worker : /\ HasCoset(w) => idx[w] \in output_idx .. ec_idx - 1
                    /\ ~ HasCoset(w) => idx[w] = NoCoset

(* Every coset that is taken and not printed is one worker's.              *)
HeldByOne == \A v, w \in Worker : idx[v] = idx[w] /\ idx[v] # NoCoset => v = w
HeldBySome == \A c \in output_idx .. ec_idx - 1 : \E w \in Worker : idx[w] = c

MutexHeld == \A w \in Worker : mtx = w <=> thread[w] \in {"take", "turn"}

Filled ==
  \A w \in Worker : thread[w] \in {"return", "wait", "woken", "turn"} =>
    buf[w] = Unsolved!GetUnsolved(idx[w])

(* Nobody sleeps when it is its turn.                                      *)
NoLostWakeup == \A w \in Worker : thread[w] = "wait" => idx[w] # output_idx

PrintInv ==
  /\ PrintTypes /\ Held /\ HeldByOne /\ HeldBySome
  /\ MutexHeld /\ Filled /\ NoLostWakeup

(* Some worker can go on: it computes, or the mutex is its own or free.    *)
NeverStuck ==
  (\E w \in Worker : thread[w] # "exited") =>
    \E w \in Worker : /\ thread[w] \notin {"exited", "wait"}
                      /\ mtx \in {w, NoWorker} \/ thread[w] = "compute"

-----------------------------------------------------------------------------
LEMMA CosetsAre ==
  ASSUME Unsolved!UnsolvedAssumption
  PROVE  /\ N \in Nat /\ NoCoset \notin Unsolved!Coset /\ NoWorker \notin Worker
         /\ \A n \in 0 .. N :
              n \in Nat /\ \A k \in 0 .. n : k \in Nat /\ k .. n - 1 \subseteq Unsolved!Coset
BY DEF Unsolved!UnsolvedAssumption, Unsolved!Coset

USE DEF Places

LEMMA PrintInit ==
  ASSUME Unsolved!UnsolvedAssumption, Unsolved!Init
  PROVE  PrintInv
<1>1. \A w \in Worker : thread[w] = "enter" /\ idx[w] = NoCoset
  BY DEF Unsolved!Init
<1>2. PrintTypes
  <2>1. 0 \in 0 .. N /\ 0 \in 0 .. 0
    BY CosetsAre
  <2>2. QED
    BY <2>1 DEF Unsolved!Init, PrintTypes
<1>3. Held /\ HeldByOne /\ Filled /\ NoLostWakeup
  BY <1>1 DEF Held, HasCoset, HeldByOne, Filled, NoLostWakeup
<1>4. HeldBySome
  <2>1. 0 .. 0 - 1 = {}
    OBVIOUS
  <2>2. QED
    BY <2>1 DEF Unsolved!Init, HeldBySome
<1>5. MutexHeld
  BY <1>1, CosetsAre DEF Unsolved!Init, MutexHeld
<1>6. QED
  BY <1>2, <1>3, <1>4, <1>5 DEF PrintInv

(* What a step leaves that neither takes a coset nor prints one.           *)
LEMMA PrintQuiet ==
  ASSUME PrintInv, UNCHANGED <<corner_set, ec_idx, output_idx, printed, idx>>,
         thread' \in [Worker -> Places],
         buf' \in [Worker -> SUBSET Corner], mtx' \in Worker \union {NoWorker},
         \A v \in Worker : HasCoset(v)' <=> HasCoset(v)
  PROVE  PrintTypes' /\ Held' /\ HeldByOne' /\ HeldBySome'
<1>1. PrintTypes'
  BY DEF PrintInv, PrintTypes
<1>2. Held'
  BY DEF PrintInv, Held
<1>3. HeldByOne' /\ HeldBySome'
  BY DEF PrintInv, HeldByOne, HeldBySome
<1>4. QED
  BY <1>1, <1>2, <1>3

LEMMA LockMtxInvariant ==
  ASSUME Unsolved!UnsolvedAssumption,
         PrintInv, NEW w \in Worker, Unsolved!LockMtx(w)
  PROVE  PrintInv'
<1>1. /\ mtx = NoWorker /\ mtx' = w
      /\ thread' = [thread EXCEPT ![w] = IF @ = "enter" THEN "take" ELSE "turn"]
      /\ thread[w] \in {"enter", "return", "woken"}
      /\ UNCHANGED <<corner_set, ec_idx, output_idx, printed, idx, buf>>
  BY DEF Unsolved!LockMtx
<1>2. /\ thread \in [Worker -> Places]
      /\ buf \in [Worker -> SUBSET Corner]
  BY DEF PrintInv, PrintTypes
<1>3. /\ thread'[w] = IF thread[w] = "enter" THEN "take" ELSE "turn"
      /\ \A v \in Worker \ {w} : thread'[v] = thread[v]
  BY <1>1, <1>2
<1>4. PrintTypes' /\ Held' /\ HeldByOne' /\ HeldBySome'
  <2>1. \A v \in Worker : HasCoset(v)' <=> HasCoset(v)
    BY <1>1, <1>3 DEF HasCoset
  <2>2. thread' \in [Worker -> Places]
    BY <1>1, <1>2
  <2>3. QED
    BY <1>1, <1>2, <2>1, <2>2, PrintQuiet
<1>5. MutexHeld'
  <2>1. \A v \in Worker : thread[v] \notin {"take", "turn"}
    BY <1>1, CosetsAre DEF PrintInv, MutexHeld
  <2>2. QED
    BY <1>1, <1>3, <2>1 DEF MutexHeld
<1>6. Filled' /\ NoLostWakeup'
  <2>1. \A v \in Worker : Unsolved!GetUnsolved(idx[v])' = Unsolved!GetUnsolved(idx[v])
    BY <1>1 DEF Unsolved!GetUnsolved
  <2>2. Filled /\ NoLostWakeup
    BY DEF PrintInv
  <2>3. QED
    BY <1>1, <1>3, <2>1, <2>2 DEF Filled, NoLostWakeup
<1>7. QED
  BY <1>4, <1>5, <1>6 DEF PrintInv

LEMMA ComputeInvariant ==
  ASSUME Unsolved!UnsolvedAssumption,
         PrintInv, NEW w \in Worker, Unsolved!Compute(w)
  PROVE  PrintInv'
<1>1. /\ thread[w] = "compute" /\ thread' = [thread EXCEPT ![w] = "return"]
      /\ buf' = [buf EXCEPT ![w] = Unsolved!GetUnsolved(idx[w])]
      /\ UNCHANGED <<corner_set, ec_idx, output_idx, printed, mtx, idx>>
  BY DEF Unsolved!Compute
<1>2. /\ thread \in [Worker -> Places]
      /\ buf \in [Worker -> SUBSET Corner] /\ idx[w] \in Unsolved!Coset
      /\ corner_set \in CornerSets /\ mtx \in Worker \union {NoWorker}
  <2>1. idx[w] \in output_idx .. ec_idx - 1 /\ ec_idx \in 0 .. N /\ output_idx \in 0 .. ec_idx
    BY <1>1 DEF PrintInv, PrintTypes, Held, HasCoset
  <2>2. idx[w] \in Unsolved!Coset
    BY <2>1, CosetsAre
  <2>3. QED
    BY <2>2 DEF PrintInv, PrintTypes
<1>3. Unsolved!GetUnsolved(idx[w]) \in SUBSET Corner
  BY <1>2 DEF Unsolved!UnsolvedAssumption, Unsolved!GetUnsolved
<1>4. /\ thread'[w] = "return" /\ \A v \in Worker \ {w} : thread'[v] = thread[v]
      /\ buf'[w] = Unsolved!GetUnsolved(idx[w]) /\ \A v \in Worker \ {w} : buf'[v] = buf[v]
  BY <1>1, <1>2
<1>5. PrintTypes' /\ Held' /\ HeldByOne' /\ HeldBySome'
  <2>1. \A v \in Worker : HasCoset(v)' <=> HasCoset(v)
    BY <1>1, <1>4 DEF HasCoset
  <2>2. thread' \in [Worker -> Places]
    BY <1>1, <1>2
  <2>3. buf' \in [Worker -> SUBSET Corner]
    BY <1>1, <1>2, <1>3
  <2>4. QED
    BY <1>1, <1>2, <2>1, <2>2, <2>3, PrintQuiet
<1>6. MutexHeld' /\ NoLostWakeup'
  BY <1>1, <1>4 DEF PrintInv, MutexHeld, NoLostWakeup
<1>7. Filled'
  <2>1. \A v \in Worker : Unsolved!GetUnsolved(idx[v])' = Unsolved!GetUnsolved(idx[v])
    BY <1>1 DEF Unsolved!GetUnsolved
  <2>2. \A v \in Worker : thread[v] \in {"return", "wait", "woken", "turn"} =>
          buf[v] = Unsolved!GetUnsolved(idx[v])
    BY DEF PrintInv, Filled
  <2>3. QED
    BY <1>1, <1>4, <2>1, <2>2 DEF Filled
<1>8. QED
  BY <1>5, <1>6, <1>7 DEF PrintInv

(* A worker waits only when it is not its turn.                            *)
LEMMA WaitInvariant ==
  ASSUME Unsolved!UnsolvedAssumption,
         PrintInv, NEW w \in Worker, Unsolved!Wait(w) \/ Unsolved!SpuriousWakeup(w)
  PROVE  PrintInv'
<1>1. /\ \/ /\ thread[w] = "turn" /\ output_idx # idx[w] /\ mtx' = NoWorker
            /\ thread' = [thread EXCEPT ![w] = "wait"]
         \/ thread[w] = "wait" /\ mtx' = mtx /\ thread' = [thread EXCEPT ![w] = "woken"]
      /\ UNCHANGED <<corner_set, ec_idx, output_idx, printed, idx, buf>>
  BY DEF Unsolved!Wait, Unsolved!SpuriousWakeup
<1>2. /\ thread \in [Worker -> Places]
      /\ buf \in [Worker -> SUBSET Corner] /\ mtx \in Worker \union {NoWorker}
  BY DEF PrintInv, PrintTypes
<1>3. /\ \/ thread[w] = "turn" /\ output_idx # idx[w] /\ mtx' = NoWorker /\ thread'[w] = "wait"
         \/ thread[w] = "wait" /\ mtx' = mtx /\ thread'[w] = "woken"
      /\ \A v \in Worker \ {w} : thread'[v] = thread[v]
  BY <1>1, <1>2
<1>4. PrintTypes' /\ Held' /\ HeldByOne' /\ HeldBySome'
  <2>1. \A v \in Worker : HasCoset(v)' <=> HasCoset(v)
    BY <1>3 DEF HasCoset
  <2>2. thread' \in [Worker -> Places]
    BY <1>1, <1>2
  <2>3. QED
    BY <1>1, <1>2, <2>1, <2>2, PrintQuiet
<1>5. MutexHeld'
  <2>1. \A v \in Worker : mtx = v <=> thread[v] \in {"take", "turn"}
    BY DEF PrintInv, MutexHeld
  <2>2. QED
    BY <1>3, <2>1, CosetsAre DEF MutexHeld
<1>6. Filled' /\ NoLostWakeup'
  <2>1. \A v \in Worker : Unsolved!GetUnsolved(idx[v])' = Unsolved!GetUnsolved(idx[v])
    BY <1>1 DEF Unsolved!GetUnsolved
  <2>2. Filled /\ NoLostWakeup
    BY DEF PrintInv
  <2>3. QED
    BY <1>1, <1>3, <2>1, <2>2 DEF Filled, NoLostWakeup
<1>7. QED
  BY <1>4, <1>5, <1>6 DEF PrintInv

LEMMA OneMoreTaken ==
  ASSUME NEW k \in Nat, NEW a \in 0 .. k, NEW b \in a .. k, b < k
  PROVE  /\ b + 1 \in 0 .. k /\ a \in 0 .. b + 1
         /\ a .. (b + 1) - 1 = (a .. b - 1) \union {b}
         /\ b \notin a .. b - 1 /\ b \in Nat
OBVIOUS

LEMMA OneLessHeld ==
  ASSUME NEW b \in Nat, NEW a \in 0 .. b, a \in a .. b - 1
  PROVE  /\ a + 1 \in 0 .. b /\ a \in Nat
         /\ (a + 1) .. b - 1 = (a .. b - 1) \ {a}
OBVIOUS

(* The next coset goes to the worker, or there is none left.               *)
LEMMA TakeInvariant ==
  ASSUME Unsolved!UnsolvedAssumption,
         PrintInv, NEW w \in Worker, Unsolved!Take(w)
  PROVE  PrintInv'
<1>1. /\ thread[w] = "take" /\ mtx' = NoWorker
      /\ UNCHANGED <<corner_set, output_idx, printed, buf>>
  BY DEF Unsolved!Take
<1>2. /\ PrintTypes /\ Held /\ HeldByOne /\ HeldBySome
      /\ MutexHeld /\ Filled /\ NoLostWakeup
  BY DEF PrintInv
<1>3. idx[w] = NoCoset
  BY <1>1, <1>2 DEF Held, HasCoset
<1>4. \A v \in Worker : Unsolved!GetUnsolved(idx[v])' = Unsolved!GetUnsolved(idx'[v])
  BY <1>1 DEF Unsolved!GetUnsolved
<1>5. CASE ec_idx < N
  <2>1. idx' = [idx EXCEPT ![w] = ec_idx] /\ ec_idx' = ec_idx + 1
        /\ thread' = [thread EXCEPT ![w] = "compute"]
    BY <1>5 DEF Unsolved!Take
  <2>2. /\ idx'[w] = ec_idx /\ thread'[w] = "compute"
        /\ \A v \in Worker \ {w} : idx'[v] = idx[v] /\ thread'[v] = thread[v]
    BY <1>2, <2>1 DEF PrintTypes
  <2>3. /\ ec_idx + 1 \in 0 .. N /\ output_idx \in 0 .. ec_idx + 1
        /\ output_idx .. (ec_idx + 1) - 1 = (output_idx .. ec_idx - 1) \union {ec_idx}
        /\ ec_idx \notin output_idx .. ec_idx - 1 /\ ec_idx \in Unsolved!Coset
    <3>1. N \in Nat /\ ec_idx \in 0 .. N /\ output_idx \in 0 .. ec_idx
      BY <1>2, CosetsAre DEF PrintTypes
    <3>2. output_idx \in 0 .. N /\ ec_idx \in output_idx .. N /\ ec_idx \in 0 .. N - 1
      BY ONLY <1>5, <3>1
    <3>3. QED
      BY <1>5, <3>1, <3>2, OneMoreTaken DEF Unsolved!Coset
  <2>4. PrintTypes'
    BY <1>1, <1>2, <2>1, <2>3 DEF PrintTypes
  <2>5. Held'
    BY <1>1, <1>2, <2>1, <2>2, <2>3 DEF Held, HasCoset
  <2>6. HeldByOne'
    <3>1. \A v \in Worker : idx[v] # ec_idx
      BY <1>2, <2>3, CosetsAre DEF Held
    <3>2. QED
      BY <1>2, <2>2, <3>1 DEF HeldByOne
  <2>7. HeldBySome'
    <3>1. \A v \in Worker : idx[v] \in output_idx .. ec_idx - 1 => v # w
      BY <1>1, <1>2, <1>3, <2>3, CosetsAre DEF PrintTypes
    <3>2. QED
      BY <1>1, <1>2, <2>1, <2>2, <2>3, <3>1 DEF HeldBySome
  <2>8. MutexHeld' /\ NoLostWakeup' /\ Filled'
    BY <1>1, <1>2, <1>4, <2>2, CosetsAre DEF MutexHeld, NoLostWakeup, Filled
  <2>9. QED
    BY <2>4, <2>5, <2>6, <2>7, <2>8 DEF PrintInv
<1>6. CASE ~ (ec_idx < N)
  <2>1. thread' = [thread EXCEPT ![w] = "exited"] /\ UNCHANGED <<ec_idx, idx>>
    BY <1>6 DEF Unsolved!Take
  <2>2. thread'[w] = "exited" /\ \A v \in Worker \ {w} : thread'[v] = thread[v]
    BY <1>2, <2>1 DEF PrintTypes
  <2>3. thread' \in [Worker -> Places]
    BY <1>2, <2>1 DEF PrintTypes
  <2>4. \A v \in Worker : HasCoset(v)' <=> HasCoset(v)
    BY <1>1, <2>2 DEF HasCoset
  <2>5. buf' \in [Worker -> SUBSET Corner]
    BY <1>1, <1>2 DEF PrintTypes
  <2>6. PrintTypes' /\ Held' /\ HeldByOne' /\ HeldBySome'
    BY <1>1, <2>1, <2>3, <2>4, <2>5, PrintQuiet
  <2>7. MutexHeld' /\ NoLostWakeup' /\ Filled'
    BY <1>1, <1>2, <1>4, <2>1, <2>2, CosetsAre DEF MutexHeld, NoLostWakeup, Filled
  <2>8. QED
    BY <2>6, <2>7 DEF PrintInv
<1>7. QED
  BY <1>5, <1>6

(* The turn goes on, and who waits for it is woken.                        *)
LEMMA OutputInvariant ==
  ASSUME Unsolved!UnsolvedAssumption,
         PrintInv, NEW w \in Worker, Unsolved!Output(w)
  PROVE  PrintInv'
<1>1. /\ thread[w] = "turn" /\ output_idx = idx[w]
      /\ printed' = Append(printed, buf[w])
      /\ output_idx' = output_idx + 1
      /\ buf' = [buf EXCEPT ![w] = {}]
      /\ idx' = [idx EXCEPT ![w] = NoCoset]
      /\ UNCHANGED <<corner_set, ec_idx, mtx>>
  BY DEF Unsolved!Output
<1>2. /\ PrintTypes /\ Held /\ HeldByOne /\ HeldBySome
      /\ MutexHeld /\ Filled /\ NoLostWakeup
  BY DEF PrintInv
<1>3. PICK woken \in SUBSET Unsolved!Waiters(output_idx + 1) :
        /\ thread' = [v \in Worker |-> IF v = w THEN "take"
                                   ELSE IF v \in woken THEN "woken" ELSE thread[v]]
        /\ woken = {} => Unsolved!Notified(output_idx + 1) = {}
  <2>1. CASE Unsolved!Notified(output_idx + 1) # {}
    <3>1. PICK v \in Unsolved!Notified(output_idx + 1) :
            thread' = [thread EXCEPT ![w] = "take", ![v] = "woken"]
      BY <1>1, <2>1 DEF Unsolved!Output
    <3>2. v \in Unsolved!Waiters(output_idx + 1) /\ v # w
      BY <1>1, <3>1 DEF Unsolved!Notified, Unsolved!Waiters
    <3>3. thread' = [u \in Worker |-> IF u = w THEN "take"
                                  ELSE IF u \in {v} THEN "woken" ELSE thread[u]]
      BY <1>2, <3>1, <3>2 DEF PrintTypes
    <3>4. {v} \in SUBSET Unsolved!Waiters(output_idx + 1) /\ {v} # {}
      BY <3>2
    <3>5. QED
      BY <3>3, <3>4
  <2>2. CASE Unsolved!Notified(output_idx + 1) = {}
    <3>1. thread' = [thread EXCEPT ![w] = "take"]
      BY <1>1, <2>2 DEF Unsolved!Output
    <3>2. thread' = [u \in Worker |-> IF u = w THEN "take"
                                  ELSE IF u \in {} THEN "woken" ELSE thread[u]]
      BY <1>2, <3>1 DEF PrintTypes
    <3>3. QED
      BY <2>2, <3>2
  <2>3. QED
    BY <2>1, <2>2
<1>4. \A v \in woken : v \in Worker /\ thread[v] = "wait" /\ idx[v] = output_idx + 1
  BY <1>3 DEF Unsolved!Waiters
<1>5. /\ thread'[w] = "take" /\ idx'[w] = NoCoset
      /\ \A v \in Worker \ {w} : /\ idx'[v] = idx[v] /\ buf'[v] = buf[v]
                                 /\ thread'[v] = IF v \in woken THEN "woken" ELSE thread[v]
  BY <1>1, <1>2, <1>3 DEF PrintTypes
<1>6. /\ output_idx \in output_idx .. ec_idx - 1
      /\ output_idx + 1 \in 0 .. ec_idx
      /\ (output_idx + 1) .. ec_idx - 1 = (output_idx .. ec_idx - 1) \ {output_idx}
      /\ output_idx \in Unsolved!Coset
  <2>1. output_idx \in output_idx .. ec_idx - 1
    BY <1>1, <1>2 DEF Held, HasCoset
  <2>2. ec_idx \in 0 .. N /\ ec_idx \in Nat /\ output_idx \in 0 .. ec_idx
    BY <1>2, CosetsAre DEF PrintTypes
  <2>3. output_idx \in Unsolved!Coset
    BY <2>1, <2>2, CosetsAre
  <2>4. QED
    BY <2>1, <2>2, <2>3, OneLessHeld
<1>7. PrintTypes'
  <2>1. printed' \in Seq(SUBSET Corner) /\ Len(printed') = Len(printed) + 1
    <3>1. printed \in Seq(SUBSET Corner) /\ buf[w] \in SUBSET Corner
      BY <1>2 DEF PrintTypes
    <3>2. QED
      BY <1>1, <3>1
  <2>2. Len(printed') = output_idx'
    BY <1>1, <1>2, <2>1 DEF PrintTypes
  <2>3. /\ idx' \in [Worker -> Unsolved!Coset \union {NoCoset}]
        /\ buf' \in [Worker -> SUBSET Corner]
    BY <1>1, <1>2 DEF PrintTypes
  <2>4. thread' \in [Worker -> Places]
    BY <1>2, <1>3 DEF PrintTypes
  <2>5. QED
    BY <1>1, <1>2, <1>6, <2>1, <2>2, <2>3, <2>4 DEF PrintTypes
<1>8. \A v \in Worker \ {w} : idx[v] # output_idx
  BY <1>1, <1>2, <1>6, CosetsAre DEF HeldByOne
<1>9. \A v \in Worker \ {w} : HasCoset(v)' <=> HasCoset(v)
  BY <1>4, <1>5 DEF HasCoset
<1>10. Held'
  BY <1>1, <1>2, <1>5, <1>6, <1>8, <1>9 DEF Held, HasCoset
<1>11. HeldByOne'
  BY <1>2, <1>5 DEF HeldByOne
<1>12. HeldBySome'
  BY <1>1, <1>2, <1>5, <1>6 DEF HeldBySome
<1>13. MutexHeld'
  BY <1>1, <1>2, <1>4, <1>5 DEF MutexHeld
<1>14. Filled'
  <2>1. \A v \in Worker : Unsolved!GetUnsolved(idx[v])' = Unsolved!GetUnsolved(idx'[v])
    BY <1>1 DEF Unsolved!GetUnsolved
  <2>2. QED
    BY <1>2, <1>4, <1>5, <2>1 DEF Filled
<1>15. NoLostWakeup'
  <2> SUFFICES ASSUME NEW v \in Worker, thread'[v] = "wait", idx'[v] = output_idx + 1
               PROVE  FALSE
    BY <1>1 DEF NoLostWakeup
  <2>1. v # w /\ v \notin woken /\ thread[v] = "wait" /\ idx[v] = output_idx + 1
    BY <1>5
  <2>2. v \in Unsolved!Waiters(output_idx + 1)
    BY <2>1 DEF Unsolved!Waiters
  <2>3. idx[v] \in Unsolved!Coset
    BY <1>2, <2>1, CosetsAre DEF Held, HasCoset, PrintTypes
  <2>4. output_idx + 1 < N
    BY <2>1, <2>3, CosetsAre DEF Unsolved!Coset
  <2>5. Unsolved!Notified(output_idx + 1) # {}
    BY <2>2, <2>4 DEF Unsolved!Notified
  <2>6. PICK u \in woken : u \in Worker /\ idx[u] = output_idx + 1
    BY <1>3, <1>4, <2>5
  <2>7. u = v
    BY <1>2, <2>1, <2>3, <2>6, CosetsAre DEF HeldByOne
  <2>8. QED
    BY <2>1, <2>6, <2>7
<1>16. QED
  BY <1>7, <1>10, <1>11, <1>12, <1>13, <1>14, <1>15 DEF PrintInv

LEMMA PrintNext ==
  ASSUME Unsolved!UnsolvedAssumption, PrintInv, [Unsolved!Next]_(Unsolved!vars)
  PROVE  PrintInv'
<1>1. CASE Unsolved!Join \/ UNCHANGED Unsolved!vars
  <2>1. UNCHANGED <<corner_set, ec_idx, output_idx, printed, mtx, thread, idx, buf>>
    BY <1>1 DEF Unsolved!Join, Unsolved!vars
  <2>2. PrintTypes' /\ Held' /\ HeldByOne' /\ HeldBySome' /\ MutexHeld' /\ NoLostWakeup'
    BY <2>1 DEF PrintInv, PrintTypes, Held, HasCoset, HeldByOne, HeldBySome, MutexHeld,
       NoLostWakeup
  <2>3. \A v \in Worker : Unsolved!GetUnsolved(idx[v])' = Unsolved!GetUnsolved(idx[v])
    BY <2>1 DEF Unsolved!GetUnsolved
  <2>4. Filled'
    BY <2>1, <2>3 DEF PrintInv, Filled
  <2>5. QED
    BY <2>2, <2>4 DEF PrintInv
<1>2. ASSUME NEW w \in Worker, Unsolved!WorkerStep(w) \/ Unsolved!SpuriousWakeup(w)
      PROVE  PrintInv'
  BY <1>2, LockMtxInvariant, TakeInvariant, ComputeInvariant, WaitInvariant,
     OutputInvariant DEF Unsolved!WorkerStep
<1>3. QED
  BY <1>1, <1>2 DEF Unsolved!Next

-----------------------------------------------------------------------------
(* As long as a worker has not ended, some worker can go on: none waits    *)
(* for a notification that was given before it waited.                     *)
THEOREM PrintingGoesOn == Unsolved!UnsolvedAssumption => (Unsolved!Spec => []NeverStuck)
<1> SUFFICES ASSUME Unsolved!UnsolvedAssumption PROVE Unsolved!Spec => []NeverStuck
  OBVIOUS
<1>1. ASSUME PrintInv PROVE NeverStuck
  <2> SUFFICES ASSUME NEW w \in Worker, thread[w] # "exited"
               PROVE  \E v \in Worker : /\ thread[v] \notin {"exited", "wait"}
                                        /\ mtx \in {v, NoWorker} \/ thread[v] = "compute"
    BY DEF NeverStuck
  <2>1. PICK v \in Worker : thread[v] \notin {"exited", "wait"}
    <3>1. CASE thread[w] # "wait"
      BY <3>1
    <3>2. CASE thread[w] = "wait"
      <4>1. /\ idx[w] \in output_idx .. ec_idx - 1
            /\ ec_idx \in 0 .. N /\ output_idx \in 0 .. ec_idx
        BY <1>1, <3>2 DEF PrintInv, PrintTypes, Held, HasCoset
      <4>2. output_idx \in output_idx .. ec_idx - 1 /\ output_idx \in Unsolved!Coset
        <5>1. N \in Nat
          BY CosetsAre
        <5>2. output_idx \in output_idx .. ec_idx - 1
          BY ONLY <4>1, <5>1
        <5>3. QED
          BY <4>1, <5>2, CosetsAre
      <4>3. PICK v \in Worker : idx[v] = output_idx
        BY <1>1, <4>2 DEF PrintInv, HeldBySome
      <4>4. HasCoset(v)
        BY <1>1, <4>2, <4>3, CosetsAre DEF PrintInv, Held
      <4>5. thread[v] # "wait"
        BY <1>1, <4>3 DEF PrintInv, NoLostWakeup
      <4>6. QED
        BY <4>4, <4>5 DEF HasCoset
    <3>3. QED
      BY <3>1, <3>2
  <2>2. CASE \E u \in Worker : mtx = u
    BY <1>1, <2>2 DEF PrintInv, MutexHeld
  <2>3. CASE ~ \E u \in Worker : mtx = u
    BY <1>1, <2>1, <2>3 DEF PrintInv, PrintTypes
  <2>4. QED
    BY <2>2, <2>3
<1>2. QED
  BY <1>1, PrintInit, PrintNext, PTL DEF Unsolved!Spec

(* The smallest corner state of an orbit is the one that no symmetry makes *)
(* smaller, as a database has all unsolved states of an orbit or none.     *)
LEMMA SmallestOfOrbit ==
  ASSUME Unsolved!UnsolvedAssumption,
         corner_set \in CornerSets, NEW c \in Unsolved!Coset
  PROVE  Unsolved!GetUnsolved(c) = Unsolved!CubesOf[c]
<1>1. /\ corner_set[c] \in SUBSET Corner /\ Corner \subseteq Int
      /\ \A x \in corner_set[c] : Orbit[c][x] \subseteq corner_set[c]
  BY DEF Unsolved!UnsolvedAssumption
<1>2. \A x, y \in corner_set[c] : ~ y < x <=> x <= y
  <2>1. \A x, y \in Int : ~ y < x <=> x <= y
    OBVIOUS
  <2>2. QED
    BY <1>1, <2>1
<1>3. ASSUME NEW x \in corner_set[c]
      PROVE  (\A y \in Orbit[c][x] : ~ y < x) <=>
               \A y \in corner_set[c] : y \in Orbit[c][x] => x <= y
  BY <1>1, <1>2
<1>4. Unsolved!CubesOf[c] = {x \in corner_set[c] :
                      \A y \in corner_set[c] : y \in Orbit[c][x] => x <= y}
  BY DEF Unsolved!CubesOf
<1>5. QED
  BY <1>3, <1>4 DEF Unsolved!GetUnsolved

(* The command prints as OrderedOutput does: each coset once, in the order *)
(* of the indices, with the cubes of its own unsolved orbits, however the  *)
(* workers are scheduled and whoever is woken without a notification.      *)
THEOREM PrintsInOrder ==
  Unsolved!UnsolvedAssumption =>
    (Unsolved!Spec => /\ Unsolved!Out!Init
                      /\ [][Unsolved!Out!PrintNext]_(Unsolved!Out!vars))
<1> SUFFICES ASSUME Unsolved!UnsolvedAssumption
             PROVE  Unsolved!Spec => /\ Unsolved!Out!Init
                                     /\ [][Unsolved!Out!PrintNext]_(Unsolved!Out!vars)
  OBVIOUS
<1>1. Unsolved!Init => Unsolved!Out!Init
  BY DEF Unsolved!Init, Unsolved!Out!Init
<1>2. ASSUME PrintInv, [Unsolved!Next]_(Unsolved!vars)
      PROVE  [Unsolved!Out!PrintNext]_(Unsolved!Out!vars)
  <2>1. UNCHANGED corner_set
    BY <1>2 DEF Unsolved!Next, Unsolved!WorkerStep, Unsolved!LockMtx,
       Unsolved!Take, Unsolved!Compute, Unsolved!Wait, Unsolved!Output,
       Unsolved!SpuriousWakeup,
       Unsolved!Join, Unsolved!vars
  <2>2. UNCHANGED Unsolved!CubesOf
    BY <2>1 DEF Unsolved!CubesOf
  <2>3. ASSUME NEW w \in Worker, Unsolved!Output(w)
        PROVE  Unsolved!Out!PrintNext
    <3>1. /\ thread[w] = "turn" /\ output_idx = idx[w]
          /\ printed' = Append(printed, buf[w])
      BY <2>3 DEF Unsolved!Output
    <3>2. /\ output_idx \in output_idx .. ec_idx - 1 /\ ec_idx \in 0 .. N
          /\ output_idx \in 0 .. ec_idx
      BY <1>2, <3>1 DEF PrintInv, PrintTypes, Held, HasCoset
    <3>3. output_idx \in Unsolved!Coset /\ output_idx < N
      BY <3>2, CosetsAre DEF Unsolved!Coset
    <3>4. buf[w] = Unsolved!GetUnsolved(output_idx)
      BY <1>2, <3>1 DEF PrintInv, Filled
    <3>5. buf[w] = Unsolved!CubesOf[output_idx]
      BY <1>2, <3>3, <3>4, SmallestOfOrbit DEF PrintInv, PrintTypes
    <3>6. Len(printed) = output_idx
      BY <1>2 DEF PrintInv, PrintTypes
    <3>7. QED
      BY <2>2, <3>1, <3>3, <3>5, <3>6 DEF Unsolved!Out!PrintNext
  <2>4. CASE UNCHANGED printed
    BY <2>2, <2>4 DEF Unsolved!Out!vars
  <2>5. (\E w \in Worker : Unsolved!Output(w)) \/ UNCHANGED printed
    BY <1>2 DEF Unsolved!Next, Unsolved!WorkerStep, Unsolved!LockMtx,
       Unsolved!Take, Unsolved!Compute, Unsolved!Wait, Unsolved!SpuriousWakeup,
       Unsolved!Join, Unsolved!vars
  <2>6. QED
    BY <2>3, <2>4, <2>5
<1>3. QED
  BY <1>1, <1>2, PrintInit, PrintNext, PTL DEF Unsolved!Spec
=============================================================================
