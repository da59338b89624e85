------------------------------ MODULE Moveseq ------------------------------
(***************************************************************************)
(* Move sequences, src/src/moveseq.cpp and move.h.  A move is a number     *)
(* below 18: three powers of each of the faces U, R, F, D, L and B.  The   *)
(* faces f and f + 3 turn around the same axis and commute.                *)
(***************************************************************************)
EXTENDS Integers, Sequences, SequencesExt

Move == 0 .. 17
Face(m) == m \div 3
Axis(m) == (m \div 3) % 3
Quarters(m) == (m % 3) + 1

-----------------------------------------------------------------------------
(* Mutants: the second pole is lost; the second pole comes first.          *)
BugFlushOnePole(st) ==
  LET power == st.power[0] % 4 IN
  IF power = 0 THEN [st EXCEPT !.power = [pole \in 0 .. 1 |-> 0]]
  ELSE [st EXCEPT !.canon[st.tail] = st.last_axis * 3 + power - 1,
                  !.tail = @ + 1, !.power = [pole \in 0 .. 1 |-> 0]]

BugFlushPolesSwapped(st) ==
  LET Put(s, pole) ==
        IF s.power[pole] % 4 = 0 THEN s
        ELSE [s EXCEPT !.canon[s.tail] = s.last_axis * 3 + pole * 9
                                         + (s.power[pole] % 4) - 1,
                       !.tail = @ + 1]
  IN [Put(Put(st, 1), 0) EXCEPT !.power = [pole \in 0 .. 1 |-> 0]]

(* moveseq::canonical works in place: it reads position i of canon and     *)
(* writes what a run of moves of one axis comes to at tail.                *)
Flush(st) ==
  LET Put(s, pole) ==
        IF s.power[pole] % 4 = 0 THEN s
        ELSE [s EXCEPT !.canon[s.tail] = s.last_axis * 3 + pole * 9
                                         + (s.power[pole] % 4) - 1,
                       !.tail = @ + 1]
  IN [Put(Put(st, 0), 1) EXCEPT !.power = [pole \in 0 .. 1 |-> 0]]

Read(st, i) ==
  LET m == st.canon[i]
      t == IF Axis(m) # st.last_axis
           THEN [Flush(st) EXCEPT !.last_axis = Axis(m)] ELSE st
      pole == IF m >= 9 THEN 1 ELSE 0
  IN [t EXCEPT !.power[pole] = (@ + Quarters(m)) % 256]

(* A move of another axis at the end makes the last run come out.          *)
Canonical(seq) ==
  IF seq = << >> THEN << >>
  ELSE LET canon == Append(seq, Last(seq) + 3)
           start == [canon |-> canon, tail |-> 1, last_axis |-> 0,
                     power |-> [pole \in 0 .. 1 |-> 0]]
           end == FoldLeft(Read, start, [i \in DOMAIN canon |-> i])
       IN SubSeq(end.canon, 1, end.tail - 1)

-----------------------------------------------------------------------------
(* Characters that moveseq::parse knows, and what it makes of them.        *)
FaceOf == [ch \in {"U", "u"} |-> 0] @@ [ch \in {"R", "r"} |-> 3]
       @@ [ch \in {"F", "f"} |-> 6] @@ [ch \in {"D", "d"} |-> 9]
       @@ [ch \in {"L", "l"} |-> 12] @@ [ch \in {"B", "b"} |-> 15]
(* Mutant: the prime is not known.                                         *)
BugPowerNoPrime(ch) == CASE ch = "3" -> 2 [] ch = "2" -> 1 [] OTHER -> 0

PowerOf(ch) == CASE ch \in {"3", "'"} -> 2
                 [] ch = "2" -> 1
                 [] OTHER -> 0

(* A face waits for its power; another face, or the end, makes it a        *)
(* quarter turn, and so does any other character.                          *)
ParseChar(st, ch) ==
  CASE ch \in DOMAIN FaceOf ->
         [moves |-> IF st.face = -1 THEN st.moves ELSE Append(st.moves, st.face),
          face |-> FaceOf[ch]]
    [] ch \notin DOMAIN FaceOf /\ st.face # -1 ->
         [moves |-> Append(st.moves, st.face + PowerOf(ch)), face |-> -1]
    [] OTHER -> st

Parse(s) ==
  LET end == FoldLeft(ParseChar, [moves |-> << >>, face |-> -1], s) IN
  IF end.face = -1 THEN end.moves ELSE Append(end.moves, end.face)

MovesToString(seq) ==
  LET face == <<"U", "R", "F", "D", "L", "B">>
      power == <<"1", "2", "3">> IN
  FlattenSeq([i \in DOMAIN seq |->
                <<face[Face(seq[i]) + 1], power[Quarters(seq[i])]>>])
=============================================================================
