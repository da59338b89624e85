------------------------ MODULE IngestCommandProofs ------------------------
(***************************************************************************)
(* Proofs about IngestCommand.tla for any number of workers, any cosets    *)
(* and cubes, and any input: only optimal lengths are recorded, and every  *)
(* line counts once, whoever reads it and whenever the signal comes.       *)
(***************************************************************************)
EXTENDS IngestCommand, SequenceTheorems, TLAPS

(* Workers that have a line, with a cube of the database, with its handle. *)
HasLine(w) == pc[w] \in {"line", "handle", "check", "record"}
HasCube(w) == pc[w] \in {"handle", "check", "record"}
HasHandle(w) == pc[w] \in {"check", "record"}

IsOptimal(l) == CubeOf[l] # NoCube => Size[l] = Dist[CubeOf[l]]

Types ==
  /\ recorded \in [Coset -> Seq(Line)]
  /\ length \in [Cube -> Nat \union {Unsolved}]
  /\ proven_min \in [Coset -> Bound]
  /\ input \in Seq(Line)
  /\ outcome \in {"none", "done", "received terminate signal"}
  /\ ec_mutex \in [Coset -> Worker \union {NoWorker}]
  /\ pc \in [Worker -> {"loop", "lock", "read", "line", "handle", "check",
                        "record", "exited"}]
  /\ line \in [Worker -> Line \union {NoLine}]
  /\ consumed \in SUBSET Line

(* A worker has a line that was read, a line past Parse has a cube, and    *)
(* a worker past LockCoset owns the mutex of the coset.                    *)
LinesHeld ==
  \A w \in Worker :
    /\ HasLine(w) => line[w] \in consumed
    /\ HasCube(w) => CubeOf[line[w]] \in Cube
    /\ HasHandle(w) => ec_mutex[LineCoset(line[w])] = w

(* What Check has found out is still true when the line is recorded.       *)
Checked ==
  \A w \in Worker :
    pc[w] = "record" =>
      Proven(line[w]) /\ length[CubeOf[line[w]]] = Unsolved

(* A line that was read has its solution, or a worker still has the line.  *)
LinesDone ==
  \A l \in consumed :
    CubeOf[l] # NoCube /\ Proven(l) =>
      \/ length[CubeOf[l]] # Unsolved
      \/ \E w \in Worker : HasLine(w) /\ line[w] = l

(* What the user of `ingest optimal` vouches for.                          *)
InputOptimal ==
  optimal => /\ \A l \in consumed : IsOptimal(l)
             /\ \A i \in DOMAIN input : IsOptimal(input[i])

(* The slots of a coset are for solved cubes of its own, each once.        *)
SlotsOnce ==
  \A c \in Coset :
    /\ \A i \in DOMAIN recorded[c] :
         LET x == CubeOf[recorded[c][i]] IN
         x \in Cube /\ CosetOf[x] = c /\ length[x] # Unsolved
    /\ \A i, j \in DOMAIN recorded[c] :
         CubeOf[recorded[c][i]] = CubeOf[recorded[c][j]] => i = j

(* Why a worker, and then the command, ends.                               *)
Ends ==
  /\ \A w \in Worker : pc[w] = "exited" => terminated \/ input = << >>
  /\ outcome # "none" => \A w \in Worker : pc[w] = "exited"
  /\ outcome = "done" => input = << >>

IInv ==
  /\ Types /\ Optimal!Sound
  /\ LinesHeld /\ Checked /\ LinesDone /\ InputOptimal /\ SlotsOnce /\ Ends

-----------------------------------------------------------------------------

LEMMA InitInvariant == Init => IInv
<1> SUFFICES ASSUME Init
             PROVE  IInv
  OBVIOUS
<1>1. Types
  <2>1. length \in [Cube -> Nat \union {Unsolved}]
    <3>1. \A x \in Cube : length[x] \in {Unsolved, Dist[x]}
      BY DEF Init
    <3>2. length = [x \in Cube |-> length[x]]
      BY DEF Init
    <3>3. QED
      BY <3>1, <3>2, IngestAssumption
  <2>2. input \in Seq(Line)
    BY IngestAssumption DEF Init
  <2>3. proven_min \in [Coset -> Bound]
    BY DEF Init
  <2>4. recorded \in [Coset -> Seq(Line)]
    <3>1. << >> \in Seq(Line)
      BY EmptySeq
    <3>2. QED
      BY <3>1 DEF Init
  <2>5. /\ outcome \in {"none", "done", "received terminate signal"}
        /\ ec_mutex \in [Coset -> Worker \union {NoWorker}]
        /\ line \in [Worker -> Line \union {NoLine}]
        /\ consumed \in SUBSET Line
    BY DEF Init
  <2>6. pc \in [Worker -> {"loop", "lock", "read", "line", "handle", "check",
                           "record", "exited"}]
    BY DEF Init
  <2>7. QED
    BY <2>1, <2>2, <2>3, <2>4, <2>5, <2>6 DEF Types
<1>2. Optimal!Sound
  BY DEF Init, Open, Optimal!Sound, Optimal!Open
<1>3. \A w \in Worker : pc[w] = "loop"
  BY DEF Init
<1>4. LinesHeld /\ Checked
  BY <1>3 DEF LinesHeld, Checked, HasLine, HasCube, HasHandle
<1>5. LinesDone
  BY DEF Init, LinesDone
<1>6. InputOptimal
  BY DEF Init, InputOptimal, IsOptimal
<1>7. SlotsOnce
  BY DEF Init, SlotsOnce
<1>8. Ends
  BY <1>3 DEF Init, Ends
<1>9. QED
  BY <1>1, <1>2, <1>4, <1>5, <1>6, <1>7, <1>8 DEF IInv

(* Steps of a worker without a line that leave all but pc, mtx and the     *)
(* outcome alone.                                                          *)
LEMMA QuietStep ==
  ASSUME IInv,
         UNCHANGED <<database, optimal, input, ec_mutex, line, consumed>>,
         \A v \in Worker : HasLine(v)' \/ HasLine(v) => pc'[v] = pc[v]
  PROVE  /\ Optimal!Sound' /\ LinesHeld' /\ Checked' /\ LinesDone'
         /\ InputOptimal' /\ SlotsOnce'
<1> USE DEF database, HasLine, HasCube, HasHandle, LineCoset
<1>1. Optimal!Sound'
  BY DEF IInv, Optimal!Sound, Optimal!Open
<1>2. LinesHeld'
  BY DEF IInv, LinesHeld
<1>3. Checked'
  BY DEF IInv, Checked, Proven
<1>4. LinesDone'
  <2>1. \A l \in consumed : Proven(l)' <=> Proven(l)
    BY DEF Proven
  <2>2. \A v \in Worker : HasLine(v) => HasLine(v)'
    OBVIOUS
  <2> HIDE DEF HasLine
  <2>3. QED
    BY <2>1, <2>2 DEF IInv, LinesDone
<1>5. InputOptimal'
  BY DEF IInv, InputOptimal, IsOptimal
<1>6. SlotsOnce'
  BY DEF IInv, SlotsOnce
<1>7. QED
  BY <1>1, <1>2, <1>3, <1>4, <1>5, <1>6

LEMMA SignalInvariant ==
  ASSUME IInv, Signal
  PROVE  IInv'
<1>1. Types'
  BY DEF Signal, IInv, Types, database
<1>2. Ends'
  BY DEF Signal, IInv, Ends
<1>3. QED
  BY <1>1, <1>2, QuietStep DEF Signal, IInv

LEMMA JoinInvariant ==
  ASSUME IInv, Join
  PROVE  IInv'
<1>1. outcome' = IF terminated THEN "received terminate signal" ELSE "done"
  BY DEF Join
<1>2. Types'
  BY <1>1 DEF Join, IInv, Types, database
<1>3. Ends'
  <2>1. /\ \A w \in Worker : pc'[w] = "exited" /\ pc[w] = "exited"
        /\ UNCHANGED <<terminated, input>>
    BY DEF Join
  <2>2. ~ terminated => input = << >>
    BY <2>1, IngestAssumption DEF IInv, Ends
  <2>3. outcome' = "done" => input' = << >>
    BY <1>1, <2>1, <2>2
  <2>4. QED
    BY <2>1, <2>3 DEF IInv, Ends
<1>4. QED
  BY <1>2, <1>3, QuietStep DEF Join, IInv

LEMMA LoopInvariant ==
  ASSUME IInv, NEW w \in Worker, Loop(w)
  PROVE  IInv'
<1>1. /\ pc[w] = "loop"
      /\ pc' = [pc EXCEPT ![w] = IF terminated THEN "exited" ELSE "lock"]
      /\ UNCHANGED <<database, optimal, input, terminated, outcome, ec_mutex, line,
                     consumed>>
  BY DEF Loop
<1>2. Types'
  BY <1>1 DEF IInv, Types, database
<1>3. Ends'
  BY <1>1 DEF IInv, Types, Ends
<1>4. \A v \in Worker : HasLine(v)' \/ HasLine(v) => pc'[v] = pc[v]
  BY <1>1 DEF HasLine, IInv, Types
<1>5. QED
  BY <1>1, <1>2, <1>3, <1>4, QuietStep DEF IInv

LEMMA LockMtxInvariant ==
  ASSUME IInv, NEW w \in Worker, LockMtx(w)
  PROVE  IInv'
<1>1. /\ pc[w] = "lock" /\ pc' = [pc EXCEPT ![w] = "read"]
      /\ UNCHANGED <<database, optimal, input, terminated, outcome, ec_mutex, line,
                     consumed>>
  BY DEF LockMtx
<1>2. Types'
  BY <1>1 DEF IInv, Types, database
<1>3. Ends'
  BY <1>1 DEF IInv, Types, Ends
<1>4. \A v \in Worker : HasLine(v)' \/ HasLine(v) => pc'[v] = pc[v]
  BY <1>1 DEF HasLine, IInv, Types
<1>5. QED
  BY <1>1, <1>2, <1>3, <1>4, QuietStep DEF IInv

LEMMA ReadLineInvariant ==
  ASSUME IInv, NEW w \in Worker, ReadLine(w)
  PROVE  IInv'
<1>1. CASE input = << >>
  <2>1. /\ pc[w] = "read" /\ pc' = [pc EXCEPT ![w] = "exited"]
        /\ UNCHANGED <<database, optimal, input, terminated, outcome, ec_mutex, line,
                       consumed>>
    BY <1>1 DEF ReadLine
  <2>2. Types'
    BY <2>1 DEF IInv, Types, database
  <2>3. Ends'
    BY <1>1, <2>1 DEF IInv, Types, Ends
  <2>4. \A v \in Worker : HasLine(v)' \/ HasLine(v) => pc'[v] = pc[v]
    BY <2>1 DEF HasLine, IInv, Types
  <2>5. QED
    BY <2>1, <2>2, <2>3, <2>4, QuietStep DEF IInv
<1>2. CASE input # << >>
  <2> DEFINE l == Head(input)
  <2>1. /\ pc[w] = "read" /\ pc' = [pc EXCEPT ![w] = "line"]
        /\ line' = [line EXCEPT ![w] = l]
        /\ input' = Tail(input) /\ consumed' = consumed \union {l}
        /\ UNCHANGED <<database, optimal, terminated, outcome, ec_mutex>>
    BY <1>2 DEF ReadLine
  <2>2. l \in Line /\ l = input[1] /\ 1 \in DOMAIN input /\ Tail(input) \in Seq(Line)
        /\ \A i \in DOMAIN Tail(input) : i + 1 \in DOMAIN input /\ Tail(input)[i] = input[i + 1]
    <3>1. input \in Seq(Line)
      BY DEF IInv, Types
    <3>2. l \in Line /\ Tail(input) \in Seq(Line) /\ Len(Tail(input)) = Len(input) - 1
          /\ \A i \in 1 .. Len(Tail(input)) : Tail(input)[i] = input[i + 1]
      BY <1>2, <3>1, HeadTailProperties
    <3>3. /\ l = input[1]
          /\ DOMAIN input = 1 .. Len(input) /\ Len(input) \in Nat
          /\ DOMAIN Tail(input) = 1 .. Len(Tail(input)) /\ Len(Tail(input)) \in Nat
      BY <3>1, <3>2
    <3> HIDE DEF l
    <3>4. QED
      BY <3>1, <3>2, <3>3
  <2> HIDE DEF l
  <2>3. /\ pc'[w] = "line" /\ line'[w] = l
        /\ \A v \in Worker \ {w} : pc'[v] = pc[v] /\ line'[v] = line[v]
    BY <2>1 DEF IInv, Types
  <2>4. Types'
    <3>1. pc' \in [Worker -> {"loop", "lock", "read", "line", "handle", "check",
                              "record", "exited"}]
      BY <2>1 DEF IInv, Types
    <3>2. line' \in [Worker -> Line \union {NoLine}] /\ consumed' \in SUBSET Line
      BY <2>1, <2>2 DEF IInv, Types
    <3>3. QED
      BY <2>1, <2>2, <3>1, <3>2 DEF IInv, Types, database
  <2>5. Optimal!Sound'
    BY <2>1 DEF IInv, Optimal!Sound, Optimal!Open, database
  <2>6. LinesHeld'
    BY <2>1, <2>3 DEF IInv, LinesHeld, HasLine, HasCube, HasHandle, LineCoset
  <2>7. Checked'
    BY <2>1, <2>3 DEF IInv, Checked, Proven, LineCoset, database
  <2>8. LinesDone'
    <3>1. \A k \in Line : Proven(k)' <=> Proven(k)
      BY <2>1 DEF Proven, database
    <3>2. \A v \in Worker : HasLine(v) => HasLine(v)' /\ line'[v] = line[v]
      BY <2>1, <2>3 DEF HasLine
    <3>3. HasLine(w)' /\ line'[w] = l
      BY <2>3 DEF HasLine
    <3>4. QED
      BY <2>1, <3>1, <3>2, <3>3 DEF IInv, Types, LinesDone, database
  <2>9. InputOptimal'
    BY <2>1, <2>2 DEF IInv, InputOptimal, IsOptimal
  <2>10. SlotsOnce'
    BY <2>1 DEF IInv, SlotsOnce, database
  <2>11. Ends'
    BY <1>2, <2>1, <2>3 DEF IInv, Types, Ends
  <2>12. QED
    BY <2>4, <2>5, <2>6, <2>7, <2>8, <2>9, <2>10, <2>11 DEF IInv
<1>3. QED
  BY <1>1, <1>2

LEMMA ParseInvariant ==
  ASSUME IInv, NEW w \in Worker, Parse(w)
  PROVE  IInv'
<1>1. /\ pc[w] = "line" /\ line[w] \in consumed /\ line[w] \in Line
      /\ UNCHANGED <<database, optimal, input, terminated, outcome, ec_mutex, consumed>>
  BY DEF Parse, IInv, Types, LinesHeld, HasLine
<1>2. CubeOf[line[w]] \in Cube \/ CubeOf[line[w]] = NoCube
  BY <1>1, IngestAssumption
<1>3. PICK b \in {"loop", "handle"}, k \in Line \union {NoLine} :
        /\ pc' = [pc EXCEPT ![w] = b]
        /\ line' = [line EXCEPT ![w] = k]
        /\ b = "handle" => k = line[w] /\ CubeOf[k] # NoCube
        /\ b = "loop" => CubeOf[line[w]] = NoCube
  <2>1. CASE CubeOf[line[w]] = NoCube
    BY <2>1 DEF Parse
  <2>2. CASE CubeOf[line[w]] # NoCube
    <3>1. line' = [line EXCEPT ![w] = line[w]]
      BY <2>2 DEF Parse, IInv, Types
    <3>2. QED
      BY <1>1, <2>2, <3>1 DEF Parse
  <2>3. QED
    BY <2>1, <2>2
<1>4. /\ pc'[w] = b /\ line'[w] = k
      /\ \A v \in Worker \ {w} : pc'[v] = pc[v] /\ line'[v] = line[v]
  BY <1>3 DEF IInv, Types
<1>5. Types'
  <2>1. pc' \in [Worker -> {"loop", "lock", "read", "line", "handle", "check",
                            "record", "exited"}]
    BY <1>3 DEF IInv, Types
  <2>2. line' \in [Worker -> Line \union {NoLine}]
    BY <1>3 DEF IInv, Types
  <2>3. QED
    BY <1>1, <2>1, <2>2 DEF IInv, Types, database
<1>6. Optimal!Sound'
  BY <1>1 DEF IInv, Optimal!Sound, Optimal!Open, database
<1>7. LinesHeld'
  BY <1>1, <1>2, <1>3, <1>4 DEF IInv, LinesHeld, HasLine, HasCube, HasHandle, LineCoset
<1>8. Checked'
  BY <1>1, <1>4 DEF IInv, Checked, Proven, LineCoset, database
<1>9. LinesDone'
  <2>1. \A l \in Line : Proven(l)' <=> Proven(l)
    BY <1>1 DEF Proven, database
  <2>2. ASSUME NEW l \in consumed, CubeOf[l] # NoCube, Proven(l), length[CubeOf[l]] = Unsolved
        PROVE  \E v \in Worker : HasLine(v)' /\ line'[v] = l
    <3>1. PICK v \in Worker : HasLine(v) /\ line[v] = l
      BY <2>2 DEF IInv, LinesDone
    <3>2. HasLine(v)' /\ line'[v] = l
      BY <1>3, <1>4, <2>2, <3>1 DEF HasLine
    <3>3. QED
      BY <3>2
  <2>3. QED
    BY <1>1, <2>1, <2>2 DEF IInv, Types, LinesDone, database
<1>10. InputOptimal'
  BY <1>1 DEF IInv, InputOptimal, IsOptimal
<1>11. SlotsOnce'
  BY <1>1 DEF IInv, SlotsOnce, database
<1>12. Ends'
  BY <1>1, <1>3, <1>4 DEF IInv, Ends
<1>13. QED
  BY <1>5, <1>6, <1>7, <1>8, <1>9, <1>10, <1>11, <1>12 DEF IInv

LEMMA LockCosetInvariant ==
  ASSUME IInv, NEW w \in Worker, LockCoset(w)
  PROVE  IInv'
<1> DEFINE c == LineCoset(line[w])
<1>1. /\ pc[w] = "handle" /\ ec_mutex[c] = NoWorker
      /\ pc' = [pc EXCEPT ![w] = "check"]
      /\ ec_mutex' = [ec_mutex EXCEPT ![c] = w]
      /\ UNCHANGED <<database, optimal, input, terminated, outcome, line, consumed>>
  BY DEF LockCoset, Free
<1>2. line[w] \in consumed /\ CubeOf[line[w]] \in Cube /\ c \in Coset
  BY <1>1, IngestAssumption DEF IInv, LinesHeld, HasLine, HasCube, LineCoset
<1> HIDE DEF c
<1>3. /\ pc'[w] = "check" /\ \A v \in Worker \ {w} : pc'[v] = pc[v]
      /\ ec_mutex'[c] = w /\ \A d \in Coset \ {c} : ec_mutex'[d] = ec_mutex[d]
  BY <1>1, <1>2 DEF IInv, Types
<1>4. Types'
  <2>1. pc' \in [Worker -> {"loop", "lock", "read", "line", "handle", "check",
                            "record", "exited"}]
    BY <1>1 DEF IInv, Types
  <2>2. ec_mutex' \in [Coset -> Worker \union {NoWorker}]
    BY <1>1 DEF IInv, Types
  <2>3. QED
    BY <1>1, <2>1, <2>2 DEF IInv, Types, database
<1>5. Optimal!Sound'
  BY <1>1 DEF IInv, Optimal!Sound, Optimal!Open, database
<1>6. LinesHeld'
  <2>1. ASSUME NEW v \in Worker, v # w, HasHandle(v)
        PROVE  ec_mutex'[LineCoset(line[v])] = v
    <3>1. ec_mutex[LineCoset(line[v])] = v /\ CubeOf[line[v]] \in Cube
      BY <2>1 DEF IInv, LinesHeld, HasHandle, HasCube
    <3>2. LineCoset(line[v]) \in Coset
      BY <3>1, IngestAssumption DEF LineCoset
    <3>3. LineCoset(line[v]) # c
      BY <1>1, <3>1, IngestAssumption
    <3>4. QED
      BY <1>3, <3>1, <3>2, <3>3
  <2>2. \A v \in Worker : LineCoset(line'[v]) = LineCoset(line[v])
    BY <1>1
  <2>3. ASSUME NEW v \in Worker
        PROVE  /\ HasLine(v)' => line'[v] \in consumed'
               /\ HasCube(v)' => CubeOf[line'[v]] \in Cube
    BY <1>1, <1>2, <1>3 DEF IInv, LinesHeld, HasLine, HasCube
  <2>4. ASSUME NEW v \in Worker, HasHandle(v)'
        PROVE  ec_mutex'[LineCoset(line'[v])] = v
    <3>1. CASE v = w
      BY <1>3, <2>2, <3>1 DEF c
    <3>2. CASE v # w
      BY <1>3, <2>1, <2>2, <2>4, <3>2 DEF HasHandle
    <3>3. QED
      BY <3>1, <3>2
  <2>5. QED
    BY <2>3, <2>4 DEF LinesHeld, LineCoset
<1>7. Checked'
  BY <1>1, <1>3 DEF IInv, Checked, Proven, LineCoset, database
<1>8. LinesDone'
  <2>1. \A l \in Line : Proven(l)' <=> Proven(l)
    BY <1>1 DEF Proven, database
  <2>2. \A v \in Worker : HasLine(v) => HasLine(v)' /\ line'[v] = line[v]
    BY <1>1, <1>3 DEF HasLine
  <2> HIDE DEF HasLine
  <2>3. QED
    BY <1>1, <2>1, <2>2 DEF IInv, Types, LinesDone, database
<1>9. InputOptimal'
  BY <1>1 DEF IInv, InputOptimal, IsOptimal
<1>10. SlotsOnce'
  BY <1>1 DEF IInv, SlotsOnce, database
<1>11. Ends'
  BY <1>1, <1>3 DEF IInv, Ends
<1>12. QED
  BY <1>4, <1>5, <1>6, <1>7, <1>8, <1>9, <1>10, <1>11 DEF IInv

(* Giving the handle back, which Check and Record end with: the mutex of   *)
(* the coset is free again, the other workers keep theirs.                 *)
LEMMA ReleaseStep ==
  ASSUME IInv, NEW w \in Worker, HasHandle(w), Release(w), consumed' = consumed
  PROVE  /\ pc' \in [Worker -> {"loop", "lock", "read", "line", "handle", "check",
                                "record", "exited"}]
         /\ line' \in [Worker -> Line \union {NoLine}]
         /\ ec_mutex' \in [Coset -> Worker \union {NoWorker}]
         /\ pc'[w] = "loop" /\ line[w] \in consumed /\ CubeOf[line[w]] \in Cube
         /\ \A v \in Worker \ {w} : pc'[v] = pc[v] /\ line'[v] = line[v]
         /\ \A v \in Worker \ {w} :
              HasHandle(v) => LineCoset(line[v]) # LineCoset(line[w])
         /\ LinesHeld'
<1> DEFINE c == LineCoset(line[w])
<1>1. /\ ec_mutex' = [ec_mutex EXCEPT ![c] = NoWorker]
      /\ line' = [line EXCEPT ![w] = NoLine]
      /\ pc' = [pc EXCEPT ![w] = "loop"]
  BY DEF Release
<1>2. line[w] \in consumed /\ CubeOf[line[w]] \in Cube /\ c \in Coset /\ ec_mutex[c] = w
  BY IngestAssumption DEF IInv, LinesHeld, HasLine, HasCube, HasHandle, LineCoset
<1> HIDE DEF c
<1>3. /\ pc' \in [Worker -> {"loop", "lock", "read", "line", "handle", "check",
                             "record", "exited"}]
      /\ pc'[w] = "loop" /\ \A v \in Worker \ {w} : pc'[v] = pc[v]
  BY <1>1 DEF IInv, Types
<1>4. /\ line' \in [Worker -> Line \union {NoLine}]
      /\ \A v \in Worker \ {w} : line'[v] = line[v]
  BY <1>1 DEF IInv, Types
<1>5. /\ ec_mutex' \in [Coset -> Worker \union {NoWorker}]
      /\ \A d \in Coset \ {c} : ec_mutex'[d] = ec_mutex[d]
  BY <1>1 DEF IInv, Types
<1>6. ASSUME NEW v \in Worker \ {w}, HasHandle(v)
      PROVE  LineCoset(line[v]) # c /\ ec_mutex'[LineCoset(line[v])] = v
  <2>1. ec_mutex[LineCoset(line[v])] = v /\ CubeOf[line[v]] \in Cube
    BY <1>6 DEF IInv, LinesHeld, HasHandle, HasCube
  <2>2. LineCoset(line[v]) \in Coset
    BY <2>1, IngestAssumption DEF LineCoset
  <2>3. QED
    BY <1>2, <1>5, <2>1, <2>2
<1>7. LinesHeld'
  <2>1. ASSUME NEW v \in Worker
        PROVE  /\ HasLine(v)' => line'[v] \in consumed'
               /\ HasCube(v)' => CubeOf[line'[v]] \in Cube
    BY <1>3, <1>4 DEF IInv, LinesHeld, HasLine, HasCube
  <2>2. ASSUME NEW v \in Worker, HasHandle(v)'
        PROVE  v # w /\ ec_mutex'[LineCoset(line'[v])] = v
    <3>1. v # w /\ HasHandle(v)
      BY <1>3, <2>2 DEF HasHandle
    <3>2. QED
      BY <1>4, <1>6, <3>1
  <2>3. QED
    BY <2>1, <2>2 DEF LinesHeld, LineCoset
<1>8. QED
  BY <1>2, <1>3, <1>4, <1>5, <1>6, <1>7 DEF c

LEMMA CheckInvariant ==
  ASSUME IInv, NEW w \in Worker, Check(w)
  PROVE  IInv'
<1>1. /\ pc[w] = "check" /\ HasHandle(w) /\ line[w] \in consumed
      /\ UNCHANGED <<database, optimal, input, terminated, outcome, consumed>>
  BY DEF Check, HasHandle, HasLine, IInv, LinesHeld
<1>2. Optimal!Sound' /\ InputOptimal' /\ SlotsOnce'
  BY <1>1 DEF IInv, Optimal!Sound, Optimal!Open, InputOptimal, IsOptimal, SlotsOnce,
              database
<1>3. \A l \in Line : Proven(l)' <=> Proven(l)
  BY <1>1 DEF Proven, LineCoset, database
<1>4. CASE Proven(line[w]) /\ length[CubeOf[line[w]]] = Unsolved
  <2>1. pc' = [pc EXCEPT ![w] = "record"] /\ UNCHANGED <<ec_mutex, line>>
    BY <1>4 DEF Check
  <2>2. pc'[w] = "record" /\ \A v \in Worker \ {w} : pc'[v] = pc[v]
    BY <2>1 DEF IInv, Types
  <2>3. Types'
    <3>1. pc' \in [Worker -> {"loop", "lock", "read", "line", "handle", "check",
                              "record", "exited"}]
      BY <2>1 DEF IInv, Types
    <3>2. QED
      BY <1>1, <2>1, <3>1 DEF IInv, Types, database
  <2>4. LinesHeld'
    BY <1>1, <2>1, <2>2 DEF IInv, LinesHeld, HasLine, HasCube, HasHandle, LineCoset
  <2>5. Checked'
    BY <1>1, <1>4, <2>1, <2>2 DEF IInv, Checked, Proven, LineCoset, database
  <2>6. LinesDone'
    <3>1. \A v \in Worker : HasLine(v) => HasLine(v)' /\ line'[v] = line[v]
      BY <2>1, <2>2 DEF HasLine
    <3> HIDE DEF HasLine
    <3>2. QED
      BY <1>1, <1>3, <3>1 DEF IInv, Types, LinesDone, database
  <2>7. Ends'
    BY <1>1, <2>2 DEF IInv, Ends
  <2>8. QED
    BY <1>2, <2>3, <2>4, <2>5, <2>6, <2>7 DEF IInv
<1>5. CASE ~ (Proven(line[w]) /\ length[CubeOf[line[w]]] = Unsolved)
  <2>1. Release(w)
    BY <1>5 DEF Check
  <2>2. /\ pc' \in [Worker -> {"loop", "lock", "read", "line", "handle", "check",
                               "record", "exited"}]
        /\ line' \in [Worker -> Line \union {NoLine}]
        /\ ec_mutex' \in [Coset -> Worker \union {NoWorker}]
        /\ pc'[w] = "loop"
        /\ \A v \in Worker \ {w} : pc'[v] = pc[v] /\ line'[v] = line[v]
        /\ LinesHeld'
    BY <1>1, <2>1, ReleaseStep
  <2>3. Types'
    BY <1>1, <2>2 DEF IInv, Types, database
  <2>4. Checked'
    BY <1>1, <2>2 DEF IInv, Checked, Proven, LineCoset, database
  <2>5. LinesDone'
    <3>1. ASSUME NEW l \in consumed, CubeOf[l] # NoCube, Proven(l),
                 length[CubeOf[l]] = Unsolved
          PROVE  \E v \in Worker : HasLine(v)' /\ line'[v] = l
      <4>1. PICK v \in Worker : HasLine(v) /\ line[v] = l
        BY <3>1 DEF IInv, LinesDone
      <4>2. v # w
        BY <1>5, <3>1, <4>1
      <4>3. HasLine(v)' /\ line'[v] = l
        BY <2>2, <4>1, <4>2 DEF HasLine
      <4>4. QED
        BY <4>3
    <3>2. QED
      BY <1>1, <1>3, <3>1 DEF IInv, Types, LinesDone, database
  <2>6. Ends'
    BY <1>1, <2>2 DEF IInv, Ends
  <2>7. QED
    BY <1>2, <2>2, <2>3, <2>4, <2>5, <2>6 DEF IInv
<1>6. QED
  BY <1>4, <1>5

(* A line that Check has let pass has the length of a shortest sequence.   *)
LEMMA RecordSolves ==
  ASSUME IInv, NEW w \in Worker, Record(w)
  PROVE  /\ CubeOf[line[w]] \in Cube
         /\ Size[line[w]] = Dist[CubeOf[line[w]]]
         /\ length' = [length EXCEPT ![CubeOf[line[w]]] = Size[line[w]]]
         /\ Optimal!Solve({CubeOf[line[w]]})
<1> DEFINE l == line[w]
           x == CubeOf[l]
<1>1. /\ pc[w] = "record" /\ length' = [length EXCEPT ![x] = Size[l]]
      /\ UNCHANGED proven_min
  BY DEF Record
<1>2. l \in consumed /\ l \in Line /\ x \in Cube
  BY <1>1 DEF IInv, Types, LinesHeld, HasLine, HasCube
<1>3. Proven(l) /\ length[x] = Unsolved
  BY <1>1 DEF IInv, Checked
<1>4. /\ x # NoCube /\ CosetOf[x] \in Coset
      /\ Size[l] \in Nat /\ RawSize[l] \in Nat /\ Dist[x] \in Nat
      /\ Size[l] <= RawSize[l] /\ Dist[x] <= Size[l]
  BY <1>2, IngestAssumption
<1>5. Size[l] = Dist[x]
  <2>1. CASE optimal
    BY <1>2, <1>4, <2>1 DEF IInv, InputOptimal, IsOptimal
  <2>2. CASE ~ optimal
    <3>1. RawSize[l] = proven_min[CosetOf[x]]
      BY <1>3, <2>2 DEF Proven, LineCoset
    <3>2. proven_min[CosetOf[x]] <= Dist[x]
      BY <1>2, <1>3, <1>4 DEF IInv, Optimal!Sound, Optimal!Open
    <3> HIDE DEF x, l
    <3>3. QED
      BY <1>4, <3>1, <3>2
  <2>3. QED
    BY <2>1, <2>2
<1>6. length' = [y \in Cube |-> IF y \in {x} THEN Dist[y] ELSE length[y]]
  BY <1>1, <1>5 DEF IInv, Types
<1>7. QED
  BY <1>1, <1>2, <1>3, <1>5, <1>6 DEF Optimal!Solve

LEMMA RecordInvariant ==
  ASSUME IInv, NEW w \in Worker, Record(w)
  PROVE  IInv'
<1> DEFINE l == line[w]
           x == CubeOf[l]
           c == LineCoset(l)
<1>1. /\ pc[w] = "record" /\ HasHandle(w) /\ Release(w)
      /\ recorded' = [recorded EXCEPT ![c] = Append(recorded[c], l)]
      /\ UNCHANGED <<proven_min, optimal, input, terminated, outcome, consumed>>
  BY DEF Record, HasHandle
<1>2. /\ x \in Cube /\ c \in Coset /\ c = CosetOf[x] /\ l \in consumed /\ l \in Line
      /\ Dist[x] \in Nat
      /\ length' = [length EXCEPT ![x] = Dist[x]]
  BY <1>1, RecordSolves, IngestAssumption
     DEF LineCoset, IInv, Types, LinesHeld, HasLine
<1>3. Proven(l) /\ length[x] = Unsolved
  BY <1>1 DEF IInv, Checked
<1>4. /\ pc' \in [Worker -> {"loop", "lock", "read", "line", "handle", "check",
                             "record", "exited"}]
      /\ line' \in [Worker -> Line \union {NoLine}]
      /\ ec_mutex' \in [Coset -> Worker \union {NoWorker}]
      /\ pc'[w] = "loop"
      /\ \A v \in Worker \ {w} : pc'[v] = pc[v] /\ line'[v] = line[v]
      /\ \A v \in Worker \ {w} : HasHandle(v) => LineCoset(line[v]) # c
      /\ LinesHeld'
  BY <1>1, ReleaseStep
<1> HIDE DEF l, x, c
<1>5. /\ length'[x] # Unsolved
      /\ \A y \in Cube \ {x} : length'[y] = length[y]
      /\ length' \in [Cube -> Nat \union {Unsolved}]
  BY <1>2, IngestAssumption DEF IInv, Types
<1>6. /\ recorded[c] \in Seq(Line) /\ recorded' \in [Coset -> Seq(Line)]
      /\ recorded'[c] = Append(recorded[c], l)
      /\ \A d \in Coset \ {c} : recorded'[d] = recorded[d]
  <2>1. recorded[c] \in Seq(Line)
    BY <1>2 DEF IInv, Types
  <2>2. Append(recorded[c], l) \in Seq(Line)
    BY <1>2, <2>1, AppendProperties
  <2>3. QED
    BY <1>1, <1>2, <2>1, <2>2 DEF IInv, Types
<1>7. Types'
  BY <1>1, <1>4, <1>5, <1>6 DEF IInv, Types
<1>8. Optimal!Sound'
  BY <1>1, <1>2, <1>5 DEF IInv, Types, Optimal!Sound, Optimal!Open
<1>9. \A k \in Line : Proven(k)' <=> Proven(k)
  BY <1>1 DEF Proven, LineCoset
<1>10. Checked'
  <2>1. ASSUME NEW v \in Worker, pc'[v] = "record"
        PROVE  /\ optimal' \/ RawSize[line'[v]] = proven_min'[CosetOf[CubeOf[line'[v]]]]
               /\ length'[CubeOf[line'[v]]] = Unsolved
    <3>1. v # w /\ pc[v] = "record" /\ line'[v] = line[v]
      BY <1>4, <2>1
    <3>2. /\ Proven(line[v]) /\ length[CubeOf[line[v]]] = Unsolved
          /\ line[v] \in Line /\ CubeOf[line[v]] \in Cube
      BY <3>1 DEF IInv, Types, Checked, LinesHeld, HasLine, HasCube
    <3>3. CubeOf[line[v]] # x
      BY <1>2, <1>4, <3>1 DEF HasHandle, LineCoset
    <3>4. length'[CubeOf[line[v]]] = Unsolved
      BY <1>5, <3>2, <3>3
    <3>5. QED
      BY <1>1, <3>1, <3>2, <3>4 DEF Proven, LineCoset
  <2>2. QED
    BY <2>1 DEF Checked, Proven, LineCoset
<1>11. LinesDone'
  <2>1. ASSUME NEW k \in consumed, CubeOf[k] # NoCube, Proven(k),
               length'[CubeOf[k]] = Unsolved
        PROVE  \E v \in Worker : HasLine(v)' /\ line'[v] = k
    <3>1. CubeOf[k] \in Cube
      <4>1. k \in Line
        BY DEF IInv, Types
      <4>2. QED
        BY <2>1, <4>1, IngestAssumption
    <3>2. CubeOf[k] # x /\ length[CubeOf[k]] = Unsolved
      BY <1>5, <2>1, <3>1
    <3>3. PICK v \in Worker : HasLine(v) /\ line[v] = k
      BY <2>1, <3>2 DEF IInv, LinesDone
    <3>4. v # w
      BY <3>2, <3>3 DEF x, l
    <3>5. HasLine(v)' /\ line'[v] = k
      BY <1>4, <3>3, <3>4 DEF HasLine
    <3>6. QED
      BY <3>5
  <2>2. QED
    BY <1>1, <1>9, <2>1 DEF IInv, Types, LinesDone
<1>12. InputOptimal'
  BY <1>1 DEF IInv, InputOptimal, IsOptimal
<1>13. SlotsOnce'
  <2>1. ASSUME NEW d \in Coset \ {c}
        PROVE  /\ \A i \in DOMAIN recorded'[d] :
                    LET y == CubeOf[recorded'[d][i]] IN
                    y \in Cube /\ CosetOf[y] = d /\ length'[y] # Unsolved
               /\ \A i, j \in DOMAIN recorded'[d] :
                    CubeOf[recorded'[d][i]] = CubeOf[recorded'[d][j]] => i = j
    <3>1. \A y \in Cube : length[y] # Unsolved => length'[y] # Unsolved
      BY <1>5
    <3>2. d \in Coset /\ recorded'[d] = recorded[d]
      BY <1>6
    <3>3. QED
      BY <3>1, <3>2 DEF IInv, SlotsOnce
  <2> DEFINE s == recorded[c]
             t == recorded'[c]
  <2>2. /\ s \in Seq(Line) /\ t = Append(s, l)
        /\ DOMAIN t = 1 .. Len(s) + 1 /\ Len(s) \in Nat
        /\ t[Len(s) + 1] = l /\ \A i \in 1 .. Len(s) : t[i] = s[i]
    BY <1>2, <1>6
  <2>3. /\ \A i \in 1 .. Len(s) :
             CubeOf[s[i]] \in Cube /\ CosetOf[CubeOf[s[i]]] = c /\ length[CubeOf[s[i]]] # Unsolved
        /\ \A i, j \in 1 .. Len(s) : CubeOf[s[i]] = CubeOf[s[j]] => i = j
    BY <1>2, <2>2 DEF IInv, SlotsOnce
  <2> HIDE DEF s, t
  <2>4. \A i \in 1 .. Len(s) : CubeOf[s[i]] # x
    BY <1>3, <2>3
  <2>5. \A i \in DOMAIN t : i = Len(s) + 1 \/ i \in 1 .. Len(s)
    BY <2>2
  <2>6. ASSUME NEW i \in DOMAIN t
        PROVE  CubeOf[t[i]] \in Cube /\ CosetOf[CubeOf[t[i]]] = c /\ length'[CubeOf[t[i]]] # Unsolved
    <3>1. CASE i = Len(s) + 1
      BY <1>2, <1>5, <2>2, <3>1 DEF x
    <3>2. CASE i \in 1 .. Len(s)
      BY <1>5, <2>2, <2>3, <2>4, <3>2
    <3>3. QED
      BY <2>5, <3>1, <3>2
  <2>7. ASSUME NEW i \in DOMAIN t, NEW j \in DOMAIN t, CubeOf[t[i]] = CubeOf[t[j]]
        PROVE  i = j
    <3>1. \A k \in 1 .. Len(s) : CubeOf[t[k]] # CubeOf[t[Len(s) + 1]]
      BY <2>2, <2>4 DEF x
    <3>2. QED
      BY <2>2, <2>3, <2>5, <2>7, <3>1
  <2>8. QED
    BY <2>1, <2>6, <2>7 DEF SlotsOnce, t
<1>14. Ends'
  BY <1>1, <1>4 DEF IInv, Ends
<1>15. QED
  BY <1>4, <1>7, <1>8, <1>10, <1>11, <1>12, <1>13, <1>14 DEF IInv

-----------------------------------------------------------------------------

LEMMA StepInvariant == IInv /\ [Next]_vars => IInv'
<1> SUFFICES ASSUME IInv, [Next]_vars
             PROVE  IInv'
  OBVIOUS
<1>1. CASE Signal \/ Join
  BY <1>1, SignalInvariant, JoinInvariant
<1>2. ASSUME NEW w \in Worker, WorkerStep(w)
      PROVE  IInv'
  <2>1. CASE Loop(w) \/ LockMtx(w) \/ ReadLine(w)
    BY <2>1, LoopInvariant, LockMtxInvariant, ReadLineInvariant
  <2>2. CASE Parse(w) \/ LockCoset(w)
    BY <2>2, ParseInvariant, LockCosetInvariant
  <2>3. CASE Check(w) \/ Record(w)
    BY <2>3, CheckInvariant, RecordInvariant
  <2>4. QED
    BY <1>2, <2>1, <2>2, <2>3 DEF WorkerStep
<1>3. CASE UNCHANGED vars
  <2>1. UNCHANGED <<database, optimal, input, terminated, outcome, ec_mutex, pc, line,
                    consumed>>
    BY <1>3 DEF vars
  <2>2. Types' /\ Ends'
    BY <2>1 DEF IInv, Types, Ends, database
  <2>3. QED
    BY <2>1, <2>2, QuietStep DEF IInv
<1>4. QED
  BY <1>1, <1>2, <1>3 DEF Next

(* The inductive invariant holds in every reachable state.                 *)
THEOREM Invariance == Spec => []IInv
BY InitInvariant, StepInvariant, PTL DEF Spec

(* Every line that was read and has a proven length has got its solution   *)
(* when the run ends, and only one slot, and "done" means that all of the  *)
(* input was read.                                                         *)
THEOREM LinesCounted == Spec => []LinesCountOnce
<1>1. IInv => LinesCountOnce
  <2> SUFFICES ASSUME IInv
               PROVE  LinesCountOnce
    OBVIOUS
  <2>1. outcome # "none" => \A w \in Worker : ~ HasLine(w)
    BY DEF IInv, Ends, HasLine
  <2>2. outcome # "none" => \A l \in consumed :
          CubeOf[l] # NoCube /\ Proven(l) => length[CubeOf[l]] # Unsolved
    BY <2>1 DEF IInv, LinesDone
  <2>3. QED
    BY <2>2 DEF IInv, Ends, SlotsOnce, LinesCountOnce
<1>2. QED
  BY <1>1, Invariance, PTL

(* Only optimal lengths get into the database, with or without `optimal`.  *)
THEOREM Refinement == Spec => ImplementsOptimalStore
<1>1. Init => Optimal!Init
  BY InitInvariant DEF IInv, Types, Optimal!Init
<1>2. IInv /\ [Next]_vars => [Optimal!Next]_<<length, proven_min>>
  <2> SUFFICES ASSUME IInv, [Next]_vars
               PROVE  [Optimal!Next]_<<length, proven_min>>
    OBVIOUS
  <2>1. ASSUME NEW w \in Worker, Record(w)
        PROVE  Optimal!Next
    <3>1. Optimal!Solve({CubeOf[line[w]]}) /\ {CubeOf[line[w]]} \in SUBSET Cube
      BY <2>1, RecordSolves
    <3>2. QED
      BY <3>1 DEF Optimal!Next
  <2>2. ASSUME NEW w \in Worker, WorkerStep(w), ~ Record(w)
        PROVE  UNCHANGED <<length, proven_min>>
    BY <2>2 DEF WorkerStep, Loop, LockMtx, ReadLine, Parse, LockCoset, Check, database
  <2>3. CASE Signal \/ Join \/ UNCHANGED vars
    BY <2>3 DEF Signal, Join, vars, database
  <2>4. QED
    BY <2>1, <2>2, <2>3 DEF Next
<1>3. QED
  BY <1>1, <1>2, Invariance, PTL DEF Spec, ImplementsOptimalStore, Optimal!Spec
=============================================================================
