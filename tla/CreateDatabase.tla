--------------------------- MODULE CreateDatabase ---------------------------
(***************************************************************************)
(* tracker::create of src/src/tracker.cpp with tables::save: the new       *)
(* database is written to a temporary file, moved to a second temporary    *)
(* name, extended by the solution slots and moved to its place.  The       *)
(* process may be killed between any two steps, and started again; a       *)
(* database that is in place gets solutions by other commands.  Names      *)
(* refer to inodes, and a process keeps its file open whatever happens to  *)
(* the name.                                                               *)
(***************************************************************************)
EXTENDS Integers, FiniteSets

CONSTANTS
  Process,      \* processes that run `create`
  Inode,        \* file contents on the disk
  NoInode,
  MaxKills,     \* bound: how often a process is killed
  MaxSolutions  \* bound: how many solutions commands record

(* Enough inodes for all names and open files.                             *)
ASSUME InodeAssumption ==
  /\ NoInode \notin Inode /\ IsFiniteSet(Inode) /\ IsFiniteSet(Process)
  /\ Cardinality(Inode) > 3 + Cardinality(Process)
  /\ MaxKills \in Nat /\ MaxSolutions \in Nat

Name == {"invo.dat", "invo.dat.tmp", "invo.dat.tmp.tmp"}

VARIABLES
  file,        \* [Name -> Inode or NoInode]
  header,      \* [Inode -> BOOLEAN]: all headers are written
  full,        \* [Inode -> BOOLEAN]: the file has its full size
  solutions,   \* [Inode -> Nat]: solutions that commands have recorded
  fd,          \* [Process -> Inode or NoInode]: the stream of tables::save
  pc,
  kills

disk == <<file, header, full, solutions>>
vars == <<disk, fd, pc, kills>>

Init ==
  /\ file = [n \in Name |-> NoInode]
  /\ header = [i \in Inode |-> FALSE] /\ full = [i \in Inode |-> FALSE]
  /\ solutions = [i \in Inode |-> 0]
  /\ fd = [p \in Process |-> NoInode]
  /\ pc = [p \in Process |-> "off"]
  /\ kills = 0

-----------------------------------------------------------------------------
Go(p, from, to) == pc[p] = from /\ pc' = [pc EXCEPT ![p] = to]

Move(old, new) == file' = [file EXCEPT ![new] = file[old], ![old] = NoInode]

Start(p) ==
  /\ Go(p, "off", "exists")
  /\ UNCHANGED <<disk, fd, kills>>

(* "Involution database already exists!"                                   *)
Exists(p) ==
  /\ Go(p, "exists", IF file["invo.dat"] # NoInode THEN "off" ELSE "open")
  /\ UNCHANGED <<disk, fd, kills>>

(* Mutant: a temporary file that was left is an error (std::ios::noreplace)*)
BugOpened(tmp, used) == IF tmp # NoInode THEN {} ELSE Inode \ used
Opened(tmp, used) == IF tmp # NoInode THEN {tmp} ELSE Inode \ used

(* The stream truncates the file, or creates it.                           *)
OpenStream(p) ==
  LET tmp == file["invo.dat.tmp.tmp"]
      used == {file[n] : n \in Name} \union {fd[q] : q \in Process} IN
  /\ Go(p, "open", "write")
  /\ \E i \in Opened(tmp, used) :
       /\ file' = [file EXCEPT !["invo.dat.tmp.tmp"] = i]
       /\ header' = [header EXCEPT ![i] = FALSE]
       /\ full' = [full EXCEPT ![i] = FALSE]
       /\ solutions' = [solutions EXCEPT ![i] = 0]
       /\ fd' = [fd EXCEPT ![p] = i]
  /\ UNCHANGED kills

Write(p) ==
  /\ Go(p, "write", "rename")
  /\ header' = [header EXCEPT ![fd[p]] = TRUE]
  /\ UNCHANGED <<file, full, solutions, fd, kills>>

(* Mutant: the file takes its place before it is resized.                  *)
BugSaveInPlace(p) ==
  /\ fd' = [fd EXCEPT ![p] = NoInode]
  /\ Go(p, "rename", "off")
  /\ IF file["invo.dat.tmp.tmp"] = NoInode THEN UNCHANGED file
     ELSE Move("invo.dat.tmp.tmp", "invo.dat")
  /\ UNCHANGED <<header, full, solutions, kills>>

(* rename(tmp, path) of tables::save; without it the process aborts.       *)
RenameHeader(p) ==
  /\ fd' = [fd EXCEPT ![p] = NoInode]
  /\ IF file["invo.dat.tmp.tmp"] = NoInode
     THEN Go(p, "rename", "off") /\ UNCHANGED file
     ELSE Go(p, "rename", "resize") /\ Move("invo.dat.tmp.tmp", "invo.dat.tmp")
  /\ UNCHANGED <<header, full, solutions, kills>>

(* resize_file throws when there is no such file.                          *)
Resize(p) ==
  LET i == file["invo.dat.tmp"] IN
  /\ IF i = NoInode
     THEN Go(p, "resize", "off") /\ UNCHANGED full
     ELSE Go(p, "resize", "install") /\ full' = [full EXCEPT ![i] = TRUE]
  /\ UNCHANGED <<file, header, solutions, fd, kills>>

Install(p) ==
  /\ Go(p, "install", "off")
  /\ IF file["invo.dat.tmp"] = NoInode THEN UNCHANGED file
     ELSE Move("invo.dat.tmp", "invo.dat")
  /\ UNCHANGED <<header, full, solutions, fd, kills>>

(* A killed process leaves its files as they are.  The disk may also be    *)
(* full at any step, with the same effect.                                 *)
Kill(p) ==
  /\ pc[p] # "off" /\ kills < MaxKills
  /\ kills' = kills + 1
  /\ pc' = [pc EXCEPT ![p] = "off"]
  /\ fd' = [fd EXCEPT ![p] = NoInode]
  /\ UNCHANGED disk

(* A command opens the database and records a solution.                    *)
Use ==
  LET i == file["invo.dat"] IN
  /\ i # NoInode
  /\ solutions[i] < MaxSolutions
  /\ solutions' = [solutions EXCEPT ![i] = @ + 1]
  /\ UNCHANGED <<file, header, full, fd, pc, kills>>

CreateStep(p) ==
  \/ Exists(p) \/ OpenStream(p) \/ Write(p) \/ RenameHeader(p)
  \/ Resize(p) \/ Install(p)

Next == Use \/ \E p \in Process : Start(p) \/ CreateStep(p) \/ Kill(p)

Spec == Init /\ [][Next]_vars

(* A process that runs goes on; a user who has no database tries again.    *)
FairSpec == /\ Spec
            /\ \A p \in Process : /\ WF_vars(CreateStep(p))
                                  /\ WF_vars(file["invo.dat"] = NoInode /\ Start(p))

-----------------------------------------------------------------------------
(* There is no half-made database: a file in place has its headers and its *)
(* full size, wherever earlier attempts were killed.                       *)
DatabaseWhole ==
  LET i == file["invo.dat"] IN i # NoInode => header[i] /\ full[i]

(* What a killed process leaves does not keep the next one from creating   *)
(* the database.                                                           *)
CreatedAtLast == <>[](file["invo.dat"] # NoInode)
=============================================================================
