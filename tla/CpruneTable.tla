---------------------------- MODULE CpruneTable ----------------------------
(***************************************************************************)
(* The corner pruning tables, cprune of src/src/cprune.cpp with the memory *)
(* of alloc::huge.  Every worker builds one solver after another; a solver *)
(* fills a table with the distance of every corner coordinate from the     *)
(* nearest of its seeds, the unsolved corner states of an edge coset, and  *)
(* again when few seeds are left.  The table comes from a free list under  *)
(* a static mutex, or, when the list is empty, from an arena that never    *)
(* takes memory back and aborts the program when it is exhausted.          *)
(***************************************************************************)
EXTENDS Integers, Sequences, FiniteSets

CONSTANTS
  NRows,      \* N_CPERM16
  NOrient,    \* N_CORIENT
  Move,       \* the moves
  RawMove,    \* [0 .. NRows - 1 -> [Move -> 0 .. NRows - 1]]
  OrientMove, \* [0 .. NRows - 1 -> [Move -> [0 .. NOrient - 1 -> 0 .. NOrient - 1]]]
  SelfSym,    \* [0 .. NRows - 1 -> [0 .. NOrient - 1 -> SUBSET (0 .. NOrient - 1)]]
  SeedSets,   \* the sets of seeds, sets of cells
  Worker,     \* threads
  Capacity,   \* tables that the arena has room for
  Null, Nobody

N == NRows * NOrient
Cell == 0 .. N - 1
Row(c) == c \div NOrient
At(row, o) == row * NOrient + o
FF == 255

Neighbor(c, k) == At(RawMove[Row(c)][k], OrientMove[Row(c)][k][c % NOrient])
Orbit(c) == {c} \union {At(Row(c), o) : o \in SelfSym[Row(c)][c % NOrient]}
OrbitsOf(X) == UNION {Orbit(c) : c \in X}

(* The cells within n moves of the seeds; the moves go from a seed, as in  *)
(* the table, and every orbit counts as a whole.                           *)
Wider(near) == near \union OrbitsOf({Neighbor(c, k) : c \in near, k \in Move})
Within ==
  [seeds \in SeedSets |->
     LET within[n \in 0 .. N] ==
           IF n = 0 THEN OrbitsOf(seeds) ELSE Wider(within[n - 1]) IN
     within]

(* A move has an inverse, up to the symmetries of a cell.  Some seed is    *)
(* within fewer moves of every cell than a byte counts: with twenty moves  *)
(* every cube is solved.  Three gigabytes hold hundreds of six megabyte    *)
(* tables.                                                                 *)
ASSUME TableAssumption ==
  /\ NRows \in Nat \ {0} /\ NOrient \in Nat \ {0}
  /\ \A c \in Cell :
       /\ Orbit(c) \subseteq Cell /\ \A d \in Orbit(c) : Orbit(d) = Orbit(c)
       /\ \A k \in Move : /\ Neighbor(c, k) \in Cell
                          /\ \E j \in Move : Neighbor(Neighbor(c, k), j) \in Orbit(c)
  /\ SeedSets \subseteq SUBSET Cell
  /\ \A seeds \in SeedSets : \E n \in 0 .. N : n < FF /\ Within[seeds][n] = Cell
  /\ IsFiniteSet(Worker)
  /\ Capacity \in Nat /\ Capacity >= Cardinality(Worker)
  /\ Null \notin Nat /\ Nobody \notin Worker

VARIABLES
  memory,     \* the arena: a sequence of tables [Cell -> 0 .. 255]
  free_list,  \* a sequence of indices of memory
  mtx,        \* cprune::mtx
  aborted,
  pc, seed, table, todo, max_prune  \* each worker, with its solver's cprune

pool == <<memory, free_list, mtx, aborted>>
vars == <<pool, pc, seed, table, todo, max_prune>>

Init ==
  /\ memory = << >> /\ free_list = << >>
  /\ mtx = Nobody
  /\ aborted = FALSE
  /\ pc = [w \in Worker |-> "idle"]
  /\ seed = [w \in Worker |-> {}]
  /\ table = [w \in Worker |-> Null]
  /\ todo = [w \in Worker |-> 0]
  /\ max_prune = [w \in Worker |-> 0]

Go(w, from, to) == pc[w] = from /\ pc' = [pc EXCEPT ![w] = to]

-----------------------------------------------------------------------------
(* A new solver, or rebuild_cpr of one that has its table already.         *)
Generate(w, cubes) ==
  /\ pc[w] \in {"idle", "search"}
  /\ pc' = [pc EXCEPT ![w] = IF table[w] = Null THEN "lock" ELSE "fill"]
  /\ seed' = [seed EXCEPT ![w] = cubes]
  /\ UNCHANGED <<pool, table, todo, max_prune>>

LockPool(w) ==
  /\ mtx = Nobody /\ mtx' = w
  /\ Go(w, "lock", IF free_list = << >> THEN "check" ELSE "back")
  /\ UNCHANGED <<memory, free_list, aborted, seed, table, todo, max_prune>>

(* table = free_list.back(), then pop_back() and unlock.                   *)
Back(w) ==
  /\ Go(w, "back", "pop")
  /\ table' = [table EXCEPT ![w] = free_list[Len(free_list)]]
  /\ UNCHANGED <<pool, seed, todo, max_prune>>

(* Mutant: pop_back() is missing.                                          *)
BugPopped(list) == list
Popped(list) == SubSeq(list, 1, Len(list) - 1)

Pop(w) ==
  /\ Go(w, "pop", "fill")
  /\ free_list' = Popped(free_list)
  /\ mtx' = Nobody
  /\ UNCHANGED <<memory, aborted, seed, table, todo, max_prune>>

(* huge_impl looks at the space before it takes its own mutex ...          *)
CheckSpace(w) ==
  LET full == Len(memory) + 1 > Capacity IN
  /\ Go(w, "check", IF full THEN "dead" ELSE "alloc")
  /\ aborted' = (aborted \/ full)
  /\ UNCHANGED <<memory, free_list, mtx, seed, table, todo, max_prune>>

(* ... and takes memory, of zeros; generate unlocks.                       *)
Allocate(w) ==
  /\ Go(w, "alloc", "fill")
  /\ memory' = Append(memory, [c \in Cell |-> 0])
  /\ table' = [table EXCEPT ![w] = Len(memory) + 1]
  /\ mtx' = Nobody
  /\ UNCHANGED <<free_list, aborted, seed, todo, max_prune>>

(* std::fill, and the orbits of the seeds get distance 0.                  *)
Fill(w) ==
  /\ Go(w, "fill", "depth")
  /\ memory' = [memory EXCEPT ![table[w]] =
                  [c \in Cell |-> IF c \in OrbitsOf(seed[w]) THEN 0 ELSE FF]]
  /\ todo' = [todo EXCEPT ![w] = N - Cardinality(OrbitsOf(seed[w]))]
  /\ max_prune' = [max_prune EXCEPT ![w] = 0]
  /\ UNCHANGED <<free_list, mtx, aborted, seed, table>>

(* generate_depth: cell by cell, forward from the cells of this depth, or  *)
(* backward from the empty cells to themselves.                            *)
ScanCell(t, c, depth, reverse) ==
  LET want == IF reverse THEN FF ELSE depth
      neighbor == IF reverse THEN depth ELSE FF
      near == {k \in Move : t[Neighbor(c, k)] = neighbor}
      new == IF t[c] # want \/ near = {} THEN {}
             ELSE IF reverse THEN Orbit(c)
             ELSE OrbitsOf({Neighbor(c, k) : k \in near}) IN
  [d \in Cell |-> IF d \in new /\ t[d] = FF THEN depth + 1 ELSE t[d]]

(* The table after the first cells.                                        *)
Scan(t, depth, reverse) ==
  LET scan[i \in 0 .. N] ==
        IF i = 0 THEN t ELSE ScanCell(scan[i - 1], i - 1, depth, reverse) IN
  scan

GenerateDepth(w) ==
  LET t == memory[table[w]]
      new == Scan(t, max_prune[w], todo[w] < N \div 2)[N] IN
  /\ todo[w] # 0
  /\ Go(w, "depth", "depth")
  /\ memory' = [memory EXCEPT ![table[w]] = new]
  /\ todo' = [todo EXCEPT ![w] = @ - Cardinality({c \in Cell : new[c] # t[c]})]
  /\ max_prune' = [max_prune EXCEPT ![w] = @ + 1]
  /\ UNCHANGED <<free_list, mtx, aborted, seed, table>>

EndGenerate(w) ==
  /\ todo[w] = 0
  /\ Go(w, "depth", "search")
  /\ UNCHANGED <<pool, seed, table, todo, max_prune>>

(* ~cprune, when the coset is done: lock, then push_back and unlock.       *)
Destroy(w) ==
  /\ mtx = Nobody /\ mtx' = w
  /\ Go(w, "search", "push")
  /\ UNCHANGED <<memory, free_list, aborted, seed, table, todo, max_prune>>

(* Mutant: the table is not given back.                                    *)
BugGivenBack(t) == free_list
GivenBack(t) == Append(free_list, t)

Push(w) ==
  /\ Go(w, "push", "idle")
  /\ free_list' = GivenBack(table[w])
  /\ table' = [table EXCEPT ![w] = Null]
  /\ seed' = [seed EXCEPT ![w] = {}]
  /\ max_prune' = [max_prune EXCEPT ![w] = 0]
  /\ mtx' = Nobody
  /\ UNCHANGED <<memory, aborted, todo>>

WorkerStep(w) ==
  \/ \E cubes \in SeedSets : Generate(w, cubes)
  \/ LockPool(w) \/ Back(w) \/ Pop(w) \/ CheckSpace(w) \/ Allocate(w)
  \/ Fill(w) \/ GenerateDepth(w) \/ EndGenerate(w)
  \/ Destroy(w) \/ Push(w)

Next == ~ aborted /\ \E w \in Worker : WorkerStep(w)

Spec == Init /\ [][Next]_vars

-----------------------------------------------------------------------------
(* cprune::prune(cc, depth): no seed can be reached in depth moves.        *)
Prune(w, c, depth) == depth < max_prune[w] /\ depth < memory[table[w]][c]

(* As long as a solver searches, its table prunes exactly the cells that   *)
(* are too far from its own seeds, whatever the table was used for before  *)
(* and the other workers do: the search loses no solution.                 *)
PruneIsExact ==
  \A w \in Worker : pc[w] = "search" =>
    \A n \in 0 .. N : LET near == Within[seed[w]][n] IN
      \A c \in Cell : Prune(w, c, n) <=> c \notin near

(* However many cosets are solved, the tables are used again: one for each *)
(* worker is enough and the arena is never exhausted.                      *)
ArenaSuffices == Len(memory) <= Cardinality(Worker) /\ ~ aborted
=============================================================================
