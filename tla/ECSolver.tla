------------------------------ MODULE ECSolver ------------------------------
(***************************************************************************)
(* ecsolver_impl of src/src/ecsolver.cpp: the search of one edge coset by  *)
(* one thread that holds the coset's handle.  A pass looks for all the     *)
(* sequences of search_depth moves that take the start cube, the coset's   *)
(* edges with solved corners, to a cube with solved edges; the corners are *)
(* then those of an involution with these edges.  A pass starts from seeds,*)
(* the first moves up to symmetry, and goes on depth first with three ways *)
(* of pruning: the edge distance kept up to date by the up and down masks, *)
(* the corner distance from the unsolved corners of some time ago, and the *)
(* order of moves of opposite faces.  A signal can make it give up.        *)
(*                                                                         *)
(* The puzzle is a parameter: states of edges and of corners with their    *)
(* moves and symmetries.  handle::solution is one step (Tracker.tla has    *)
(* its parts), the edge masks come from the true distances (that they do   *)
(* is EpruneGenerator.tla) and so does cprune::prune (CpruneTable.tla).    *)
(***************************************************************************)
EXTENDS Integers, FiniteSets, Sequences

CONSTANTS
  NMoves,      \* N_MOVES
  Face,        \* [Move -> 0 .. 5], the axis of a move: axis + 3 is opposite
  Edge, Corner, \* states of the edges and of the corners
  Home,        \* <<solved edges, solved corners>>
  EMove, CMove, \* [Edge -> [Move -> Edge]], [Corner -> [Move -> Corner]]
  Times,       \* [Corner -> [Corner -> Corner]], the product of corners
  Sym,         \* symmetries
  ESym, CSym, MSym, \* what they do: [Sym -> [Edge -> Edge]] and so on
  RepOf,       \* [Edge -> Edge]: the representative that the tables hold
  EDist,       \* [Edge -> Nat]: moves to solved edges
  CDist,       \* [Corner -> [Corner -> Nat]]: moves between corners
  Dist,        \* [reachable <<edges, corners>> -> Nat]: moves to Home
  Involution,  \* corners that are involutions
  Hash,        \* [Corner -> Involution], corner_hash
  Starts,      \* representatives of edges that are involutions
  SeedDepth,   \* SAFE_DEDUPE_DEPTH
  MaxDepths,   \* arguments of solve
  FirstBounds, \* values of proven_min to begin with
  Unsolved     \* the length of a cube that no slot solves

Move == 0 .. NMoves - 1
State == Edge \X Corner   \* also those that no moves lead to
Cube == DOMAIN Dist
MoveCube(x, m) == <<EMove[x[1]][m], CMove[x[2]][m]>>
SymCube(s, x) == <<ESym[s][x[1]], CSym[s][x[2]]>>

(* The cubes that the first moves of a sequence lead to.                   *)
Played(x, mv) ==
  LET played[i \in 0 .. Len(mv)] ==
        IF i = 0 THEN x ELSE MoveCube(played[i - 1], mv[i]) IN
  played
Play(x, mv) == Played(x, mv)[Len(mv)]

SelfSym(e) == {s \in Sym : ESym[s][e] = e}
StartCube(e) == <<e, Home[2]>>
CornersOf(e) == {c \in Involution : <<e, c>> \in Cube}
OrbitOf(e, c) == {CSym[s][c] : s \in SelfSym(e)}

(* Mutant: the other one of two opposite faces comes first.                *)
BugRepeatsOpposite(m, last_axis) ==
  Face[m] = last_axis \/ Face[m] = last_axis + 3

(* axis == last_axis || axis + 3 == last_axis                              *)
Repeats(m, last_axis) == Face[m] = last_axis \/ Face[m] + 3 = last_axis

ASSUME ParameterAssumption ==
  /\ NMoves \in Nat \ {0}
  /\ \A m, n \in Move : Face[m] \in Nat /\ (m <= n => Face[m] <= Face[n])
  /\ Home \in Cube /\ Cube \subseteq State
  /\ Starts \subseteq Edge /\ Involution \subseteq Corner
  /\ SeedDepth \in Nat /\ MaxDepths \subseteq Nat /\ FirstBounds \subseteq Nat
  /\ Unsolved \notin Nat

(* A move changes a distance by one at most, and each cube can be moved    *)
(* nearer to Home.  Moves of one face are together one move or none, and   *)
(* those of opposite faces commute.                                        *)
ASSUME MoveAssumption ==
  /\ \A e \in Edge :
       /\ EDist[e] \in Nat /\ (EDist[e] = 0 <=> e = Home[1])
       /\ \A m \in Move : /\ EMove[e][m] \in Edge
                          /\ EDist[EMove[e][m]] - EDist[e] \in -1 .. 1
  /\ \A c, d \in Corner :
       /\ CDist[c][d] \in Nat /\ CDist[c][c] = 0
       /\ \A m \in Move : /\ CMove[c][m] \in Corner
                          /\ CDist[c][d] <= CDist[CMove[c][m]][d] + 1
  /\ \A x \in Cube :
       /\ Dist[x] \in Nat /\ (Dist[x] = 0 <=> x = Home)
       /\ \A m \in Move : /\ MoveCube(x, m) \in Cube
                          /\ Dist[x] <= Dist[MoveCube(x, m)] + 1
       /\ x # Home => \E m \in Move : Dist[MoveCube(x, m)] < Dist[x]
  /\ \A x \in State, m, n \in Move :
       /\ Face[m] = Face[n] =>
            MoveCube(MoveCube(x, m), n) \in {x} \union {MoveCube(x, k) : k \in Move}
       /\ Face[m] + 3 = Face[n] =>
            MoveCube(MoveCube(x, m), n) = MoveCube(MoveCube(x, n), m)

(* The symmetries are a group that fixes Home, keeps the distances and     *)
(* permutes the moves.                                                     *)
ASSUME SymAssumption ==
  /\ \A s \in Sym : /\ {MSym[s][m] : m \in Move} = Move
                    /\ SymCube(s, Home) = Home
                    /\ \A x \in State : SymCube(s, x) \in State
  /\ \A s \in Sym, m \in Move :
       /\ \A e \in Edge : ESym[s][EMove[e][m]] = EMove[ESym[s][e]][MSym[s][m]]
       /\ \A c \in Corner : CSym[s][CMove[c][m]] = CMove[CSym[s][c]][MSym[s][m]]
  /\ \E s \in Sym : \A x \in State : SymCube(s, x) = x
  /\ \A s \in Sym : \E t \in Sym : \A x \in State : SymCube(t, SymCube(s, x)) = x
  /\ \A s, t \in Sym : \E u \in Sym :
       \A x \in State : SymCube(u, x) = SymCube(t, SymCube(s, x))
  /\ \A e \in Edge : /\ RepOf[e] \in Edge
                     /\ \E s \in Sym : ESym[s][RepOf[e]] = e
                     /\ \A s \in Sym : EDist[ESym[s][e]] = EDist[e]

(* Moves are products from the right, and involutions their own inverses.  *)
ASSUME InvolutionAssumption ==
  /\ \A c \in Involution :
       /\ Times[c][Home[2]] = c /\ Times[c][c] = Home[2]
       /\ \A d \in Corner : /\ Times[c][d] \in Corner
                            /\ \A m \in Move : Times[c][CMove[d][m]] = CMove[Times[c][d]][m]
  /\ \A c \in Involution : Hash[c] = c
  /\ \A c \in Corner : Hash[c] \in Involution

-----------------------------------------------------------------------------
(* std::set<cube> seen holds one cube of each orbit of self_sym: sym_rep   *)
(* is modelled by the orbit itself.                                        *)
SymRep(e, x) == {SymCube(s, x) : s \in SelfSym(e)}

Sprout(e, st, seed, m) ==
  LET x == MoveCube(seed.x, m) IN
  IF Repeats(m, seed.last_axis) \/ SymRep(e, x) \in st.seen THEN st
  ELSE [seen |-> st.seen \union {SymRep(e, x)},
        seeds |-> Append(st.seeds, [x |-> x, last_axis |-> Face[m],
                                    moves |-> Append(seed.moves, m)])]

(* The seeds of the next depth, after the first rounds of the two loops    *)
(* over the seeds of a depth and over the moves.                           *)
Sprouts(e, st) ==
  LET sprouts[i \in 0 .. Len(st.seeds) * NMoves] ==
        IF i = 0 THEN [seen |-> st.seen, seeds |-> << >>]
        ELSE Sprout(e, sprouts[i - 1],
                    st.seeds[(i - 1) \div NMoves + 1], (i - 1) % NMoves) IN
  sprouts

(* find_seeds(c): the seeds of each depth, in the order of the search.     *)
FirstSeeds(e) ==
  [seen |-> {SymRep(e, StartCube(e))},
   seeds |-> <<[x |-> StartCube(e), last_axis |-> -1, moves |-> << >>]>>]
SeedLevels(e) ==
  LET level[k \in 0 .. SeedDepth] ==
        IF k = 0 THEN FirstSeeds(e)
        ELSE Sprouts(e, level[k - 1])[Len(level[k - 1].seeds) * NMoves] IN
  level
FindSeeds(e) == [k \in 0 .. SeedDepth |-> SeedLevels(e)[k].seeds]

(* eprune::lookup: the masks of the representative, in its own frame; a    *)
(* move of the mask is turned into one of the edges by their symmetry.     *)
Frame(e) == CHOOSE s \in Sym : ESym[s][RepOf[e]] = e
Up(e) == {m \in Move : EDist[EMove[RepOf[e]][m]] > EDist[RepOf[e]]}
Down(e) == {m \in Move : EDist[EMove[RepOf[e]][m]] < EDist[RepOf[e]]}
RealMove(e, m) == MSym[Frame(e)][m]

VARIABLES
  ec0,          \* the edges of the coset
  seeds,        \* [0 .. SeedDepth -> sequences of seeds]
  max_depth,    \* the argument
  terminated,   \* interrupt::terminated_
  length,       \* [CornersOf(ec0) -> Nat or Unsolved], what is recorded
  proven_min,   \* in the header
  cpr,          \* the corners that cpr was generated from
  threshold,
  search_depth,
  seed_idx,     \* the seeds of the pass that are done
  stack,        \* the calls of search, each with its arguments and its mask
  moves,
  pc            \* "pass", "enter", "loop", "back", "done" or "canceled"

handle == <<ec0, length, proven_min>>
fixed == <<ec0, seeds, max_depth>>
impl == <<cpr, threshold, search_depth, seed_idx, stack, moves>>
vars == <<handle, seeds, max_depth, terminated, impl, pc>>

Open == {c \in DOMAIN length : length[c] = Unsolved}
Top == stack[Len(stack)]
Pop == SubSeq(stack, 1, Len(stack) - 1)
WithMask(mask) == [stack EXCEPT ![Len(stack)].mask = mask]
SeedsNow == seeds[IF search_depth < SeedDepth THEN search_depth ELSE SeedDepth]

-----------------------------------------------------------------------------
(* The coset has unsolved cubes, see cmd_ecoset; its bound and lengths are *)
(* right.  The constructor and the start of solve.                         *)
Init ==
  /\ ec0 \in Starts
  /\ \E X \in SUBSET CornersOf(ec0) :
       /\ \A c \in X : OrbitOf(ec0, c) \subseteq X
       /\ length = [c \in CornersOf(ec0) |-> IF c \in X THEN Unsolved ELSE Dist[<<ec0, c>>]]
       /\ X # {}
  /\ proven_min \in FirstBounds
  /\ \A c \in Open : proven_min <= Dist[<<ec0, c>>]
  /\ seeds = FindSeeds(ec0)
  /\ max_depth \in MaxDepths /\ proven_min <= max_depth
  /\ terminated = FALSE
  /\ cpr = Open /\ threshold = Cardinality(Open) \div 2
  /\ search_depth = proven_min
  /\ seed_idx = 0 /\ stack = << >> /\ moves = << >>
  /\ pc = "pass"

Signal ==
  /\ ~ terminated /\ pc \notin {"done", "canceled"}
  /\ terminated' = TRUE
  /\ UNCHANGED <<handle, seeds, max_depth, impl, pc>>

(* candidate(cc): a corner that hashes to an unsolved one and is an        *)
(* involution; handle::solution takes its cube from the moves and records  *)
(* it with its orbit; then the pruning table may be made again.            *)
Candidate(cc, mv) ==
  LET c == Play(Home, mv)[2]
      open == Open \ OrbitOf(ec0, c) IN
  IF Hash[cc] \notin Open \/ cc \notin Involution
  THEN UNCHANGED <<length, cpr, threshold>>
  ELSE /\ length' = [d \in DOMAIN length |->
                       IF d \in Open \ open THEN Len(mv) ELSE length[d]]
       /\ IF open # {} /\ Cardinality(open) <= threshold
          THEN cpr' = open /\ threshold' = Cardinality(open) \div 2
          ELSE UNCHANGED <<cpr, threshold>>

(* One seed: skipped when the edges are too far, tested, or searched.      *)
NextSeed ==
  /\ pc = "pass" /\ seed_idx < Len(SeedsNow)
  /\ LET seed == SeedsNow[seed_idx + 1]
         remaining == search_depth - Len(seed.moves)
         prune == EDist[seed.x[1]] IN
     /\ seed_idx' = seed_idx + 1
     /\ \/ /\ remaining < prune
           /\ UNCHANGED <<length, cpr, threshold, stack, moves, pc>>
        \/ /\ remaining >= prune /\ remaining = 0
           /\ moves' = seed.moves
           /\ Candidate(seed.x[2], seed.moves)
           /\ UNCHANGED <<stack, pc>>
        \/ /\ remaining >= prune /\ remaining > 0
           /\ moves' = seed.moves
           /\ stack' = <<[ec |-> seed.x[1], cc |-> seed.x[2], depth |-> remaining,
                          prune |-> prune, last_axis |-> seed.last_axis, mask |-> {}]>>
           /\ pc' = "enter"
           /\ UNCHANGED <<length, cpr, threshold>>
  /\ UNCHANGED <<fixed, proven_min, terminated, search_depth>>

(* Mutant: the next pass is for the same depth.                            *)
BugDeeper == search_depth
Deeper == search_depth + 1

(* The pass is over; another one follows as long as a cube is unsolved.    *)
EndPass ==
  /\ pc = "pass" /\ seed_idx = Len(SeedsNow)
  /\ proven_min' = IF proven_min < search_depth + 1 THEN search_depth + 1 ELSE proven_min
  /\ search_depth' = Deeper
  /\ seed_idx' = 0
  /\ pc' = IF Open # {} /\ search_depth' <= max_depth THEN "pass" ELSE "done"
  /\ UNCHANGED <<fixed, length, terminated, cpr, threshold, stack, moves>>

(* Mutant: the corners are compared with one move less than there is.      *)
BugTooFar(cc, depth) ==
  \A d \in cpr, s \in Sym : CDist[CSym[s][cc]][d] >= depth

(* cpr.prune(cc, depth)                                                    *)
TooFar(cc, depth) == \A d \in cpr, s \in Sym : CDist[CSym[s][cc]][d] > depth

(* The moves that can still lead to solved edges: left is what depth is    *)
(* after this move.                                                        *)
Mask(e, prune, left) ==
  IF left = 0 THEN IF prune # 0 THEN Down(e) ELSE Move \ Up(e)
  ELSE IF prune < left THEN Move
  ELSE IF prune = left THEN Move \ Up(e)
  ELSE Down(e)

(* A call of search begins.                                                *)
Enter ==
  /\ pc = "enter"
  /\ IF TooFar(Top.cc, Top.depth)
     THEN /\ stack' = Pop
          /\ pc' = "back"
          /\ UNCHANGED moves
     ELSE /\ stack' = [stack EXCEPT
                         ![Len(stack)].depth = Top.depth - 1,
                         ![Len(stack)].mask = Mask(Top.ec, Top.prune, Top.depth - 1)]
          /\ moves' = Append(moves, 0)
          /\ pc' = "loop"
  /\ UNCHANGED <<handle, seeds, max_depth, terminated, cpr, threshold, search_depth, seed_idx>>

(* Mutant: the masks are read with the real move.                          *)
BugNextPrune(e, prune, m) ==
  LET n == RealMove(e, m) IN
  prune + (IF n \in Up(e) THEN 1 ELSE 0) - (IF n \in Down(e) THEN 1 ELSE 0)

(* prune after a move of the mask.                                         *)
NextPrune(e, prune, m) ==
  prune + (IF m \in Up(e) THEN 1 ELSE 0) - (IF m \in Down(e) THEN 1 ELSE 0)

(* The lowest move of the mask.                                            *)
NextMove ==
  /\ pc = "loop" /\ Top.mask # {}
  /\ LET bit == CHOOSE m \in Top.mask : \A n \in Top.mask : m <= n
         m == RealMove(Top.ec, bit)
         rest == WithMask(Top.mask \ {bit})
         with_m == [moves EXCEPT ![Len(moves)] = m] IN
     \/ /\ Repeats(m, Top.last_axis)
        /\ stack' = rest
        /\ UNCHANGED <<length, cpr, threshold, moves, pc>>
     \/ /\ ~ Repeats(m, Top.last_axis) /\ Top.depth = 0
        /\ moves' = with_m
        /\ Candidate(CMove[Top.cc][m], with_m)
        /\ stack' = IF \A c \in DOMAIN length : length'[c] # Unsolved
                    THEN WithMask({}) ELSE rest
        /\ UNCHANGED pc
     \/ /\ ~ Repeats(m, Top.last_axis) /\ Top.depth > 0
        /\ moves' = with_m
        /\ stack' = Append(rest,
             [ec |-> EMove[Top.ec][m], cc |-> CMove[Top.cc][m], depth |-> Top.depth,
              prune |-> NextPrune(Top.ec, Top.prune, bit), last_axis |-> Face[m],
              mask |-> {}])
        /\ pc' = "enter"
        /\ UNCHANGED <<length, cpr, threshold>>
  /\ UNCHANGED <<fixed, proven_min, terminated, search_depth, seed_idx>>

(* The loop of the moves is over.                                          *)
EndSearch ==
  /\ pc = "loop" /\ Top.mask = {}
  /\ stack' = Pop
  /\ moves' = SubSeq(moves, 1, Len(moves) - 1)
  /\ pc' = "back"
  /\ UNCHANGED <<handle, seeds, max_depth, terminated, cpr, threshold, search_depth, seed_idx>>

(* A call of search has returned: to solve, which gives up after a signal, *)
(* or to its caller, which then returns too.                               *)
Back ==
  /\ pc = "back"
  /\ IF stack = << >>
     THEN pc' = (IF terminated THEN "canceled" ELSE "pass") /\ UNCHANGED stack
     ELSE /\ pc' = "loop"
          /\ stack' = IF Open = {} \/ terminated THEN WithMask({}) ELSE stack
  /\ UNCHANGED <<handle, seeds, max_depth, terminated, cpr, threshold, search_depth, seed_idx,
                 moves>>

Step == NextSeed \/ EndPass \/ Enter \/ NextMove \/ EndSearch \/ Back
Next == Signal \/ Step

Spec == Init /\ [][Next]_vars

(* The thread runs.                                                        *)
FairSpec == Spec /\ WF_vars(Step)

-----------------------------------------------------------------------------
(* What is recorded is optimal: a pass finds every sequence of its length  *)
(* that solves a cube still unsolved, though it leaves out the sequences   *)
(* with a symmetric seed, with opposite faces in the other order, and all  *)
(* below a node whose edges or corners look too far.                       *)
OptimalLengths == \A c \in DOMAIN length : length[c] \in {Unsolved, Dist[<<ec0, c>>]}

(* handle.update_proven_min(search_depth + 1) is justified: the cubes that *)
(* are still unsolved have no sequence of search_depth moves, also when a  *)
(* signal has cut a pass short or the last cube was found in the middle.   *)
BoundIsProven == \A c \in Open : proven_min <= Dist[<<ec0, c>>]

(* Every node of the search is the cube that its moves lead to, its prune, *)
(* kept with the masks of the representative, is the distance of its edges,*)
(* and these can be solved in the moves that are left.  So a candidate has *)
(* solved edges though nothing tests it.                                   *)
NodesExact ==
  \A i \in DOMAIN stack :
    LET node == stack[i]
        entered == ~ (i = Len(stack) /\ pc = "enter")
        left == IF entered THEN node.depth + 1 ELSE node.depth IN
    /\ <<node.ec, node.cc>> = Played(StartCube(ec0), moves)[search_depth - left]
    /\ node.prune = EDist[node.ec]
    /\ node.prune <= left

(* A solver ends, with or without a signal.                                *)
SolveEnds == <>(pc \in {"done", "canceled"})
=============================================================================
