--------------------------- MODULE SolutionCodec ---------------------------
(***************************************************************************)
(* The eleven bytes of a solution slot, tracker::solution of tracker.cpp:  *)
(* an info byte with the length, and a move in every half byte.  As no     *)
(* face follows itself in a canonical sequence, a move is one of fifteen   *)
(* after the first one, whose lowest bit goes into the info byte.          *)
(*                                                                         *)
(* The behaviors build up move sequences; the properties say what          *)
(* canonical, the codec and the text form do with each.                    *)
(***************************************************************************)
EXTENDS Moveseq, FiniteSets, Bitwise

CONSTANTS
  MaxDepth,   \* MAX_DEPTH
  Alphabet,   \* the moves that sequences are built of
  Starts,     \* the sequences to start from
  Grow        \* how many moves are added at most

ASSUME CodecAssumption ==
  MaxDepth \in Nat /\ Alphabet \subseteq Move /\ Starts \subseteq Seq(Move)
  /\ Grow \in Nat

VARIABLES seq, room
vars == <<seq, room>>

Init == seq \in Starts /\ room = Grow

Extend(m) == /\ room > 0
             /\ seq' = Append(seq, m)
             /\ room' = room - 1

Next == \E m \in Alphabet : Extend(m)

Spec == Init /\ [][Next]_vars

-----------------------------------------------------------------------------
Slots == 0 .. 9

(* Mutant: the face of the move before is not left out.                    *)
BugHalfByteAllFaces(s, i) ==
  LET code == IF i = 0 THEN s[i + 1] \div 2 ELSE s[i + 1] IN
  IF i % 2 = 0 THEN (code * 16) % 256 ELSE code % 256

(* A half byte of the slot: move i of canonical sequence s, shifted into   *)
(* its place as a byte.                                                    *)
HalfByte(s, i) ==
  LET m == s[i + 1]
      code == CASE i = 0 -> m \div 2
                [] i > 0 /\ s[i] < m -> m - 3
                [] OTHER -> m
  IN IF i % 2 = 0 THEN (code * 16) % 256 ELSE code

(* The constructor aborts for more than MAX_DEPTH moves.                   *)
Encodes(moves) == Len(moves) <= MaxDepth

Encode(moves) ==
  LET s == Canonical(moves) IN
  [info |-> 128 + Len(s) + (IF s = << >> THEN 0 ELSE 64 * (s[1] % 2)),
   moves |-> [b \in Slots |->
     FoldLeft(LAMBDA byte, i : byte | HalfByte(s, i), 0,
              SelectSeq(<<2 * b, 2 * b + 1>>, LAMBDA i : i < Len(s)))]]

(* operator moveseq: a code not below the face before it skips that face.  *)
DecodeMove(slot, out, i) ==
  LET byte == slot.moves[i \div 2]
      half == IF i % 2 = 0 THEN byte \div 16 ELSE byte % 16
      m == IF i = 0 THEN ((slot.info \div 64) % 2) + 2 * half ELSE half
  IN Append(out, IF i > 0 /\ Face(out[i]) <= Face(m) THEN m + 3 ELSE m)

Decode(slot) ==
  FoldLeft(LAMBDA out, i : DecodeMove(slot, out, i), << >>,
           [i \in 1 .. slot.info % 32 |-> i - 1])

-----------------------------------------------------------------------------
(* The product of the moves, in the group where only moves of one axis     *)
(* commute: runs of one axis with the quarter turns of both poles, none    *)
(* of them empty and no two of one axis side by side.                      *)
Multiply(runs, m) ==
  LET turn == [pole \in 0 .. 1 |-> IF pole = m \div 9 THEN Quarters(m) ELSE 0]
      same == runs # << >> /\ Last(runs).axis = Axis(m)
      sum == [pole \in 0 .. 1 |-> (Last(runs).turns[pole] + turn[pole]) % 4]
  IN CASE same /\ sum = [pole \in 0 .. 1 |-> 0] -> Front(runs)
       [] same /\ sum # [pole \in 0 .. 1 |-> 0] ->
            Append(Front(runs), [axis |-> Axis(m), turns |-> sum])
       [] OTHER -> Append(runs, [axis |-> Axis(m), turns |-> turn])

Product(moves) == FoldLeft(Multiply, << >>, moves)

(* No run of moves of one axis turns nothing, as in every sequence of      *)
(* optimal length: the product has as many runs as the sequence.           *)
Reduced(moves) ==
  Len(Product(moves)) =
    Cardinality({i \in DOMAIN moves : i = 1 \/ Axis(moves[i - 1]) # Axis(moves[i])})

(* Reduced sequences for one product, which differ in the order of         *)
(* opposite faces only, have one canonical form: the product written out,  *)
(* U before D, R before L, F before B.                                     *)
CanonicalIsUnique ==
  Reduced(seq) =>
    Canonical(seq) =
      FlattenSeq([i \in DOMAIN Product(seq) |->
        LET run == Product(seq)[i] IN
        FlattenSeq([p \in 1 .. 2 |->
          IF run.turns[p - 1] = 0 THEN << >>
          ELSE <<run.axis * 3 + (p - 1) * 9 + run.turns[p - 1] - 1>>])])

(* A slot gives a reduced sequence back in canonical form, up to the       *)
(* twenty moves that fill it.                                              *)
SlotGivesBack ==
  Reduced(seq) /\ Encodes(seq) => Decode(Encode(seq)) = Canonical(seq)

(* What tests/TrackerTest.cpp says of any moves of which no two in a row   *)
(* turn one face.                                                          *)
SlotGivesBackAnyMoves ==
  (\A i \in 1 .. Len(seq) - 1 : Face(seq[i]) # Face(seq[i + 1])) /\ Encodes(seq) =>
    Decode(Encode(seq)) = Canonical(seq)

(* The text form is read back, and so is the usual notation with a prime   *)
(* and nothing for a quarter turn, with spaces or without.                 *)
UsualNotation(moves) ==
  FlattenSeq([i \in DOMAIN moves |->
    LET text == MovesToString(<<moves[i]>>) IN
    CASE text[2] = "1" -> <<text[1], " ">>
      [] text[2] = "2" -> text \o <<" ">>
      [] OTHER -> <<text[1], "'", " ">>])

ParseReadsBack ==
  /\ Parse(MovesToString(seq)) = seq
  /\ Parse(UsualNotation(seq)) = seq
  /\ Parse(SelectSeq(UsualNotation(seq), LAMBDA ch : ch # " ")) = seq
=============================================================================
