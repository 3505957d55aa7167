------------------------------- MODULE SeqNum -------------------------------
(***************************************************************************)
(* Arithmetic on RTP sequence numbers (uint16_t in the code).  The modulus *)
(* is 2 * Half: 65536 in the program, a few units in the models.  Written  *)
(* without the modulus operator, so that the provers only meet linear      *)
(* arithmetic.                                                             *)
(***************************************************************************)
EXTENDS Integers

CONSTANT Half      \* half of the sequence space: 32768 in the code

ASSUME HalfAssumption == Half \in Nat \ {0}

SeqSpace == 2 * Half

SeqNo == 0 .. SeqSpace - 1

(* uint16_t arithmetic: s + 1 and s - 1. *)
Succ(s) == IF s = SeqSpace - 1 THEN 0 ELSE s + 1

Pred(s) == IF s = 0 THEN SeqSpace - 1 ELSE s - 1

(* (uint16_t)(value - prev): how far value is ahead of prev on the circle. *)
AheadOf(prev, value) ==
  IF value >= prev THEN value - prev ELSE value - prev + SeqSpace

(* (int16_t)(value - prev): positive when value is newer than prev. *)
SeqDistance(prev, value) ==
  LET u == AheadOf(prev, value) IN IF u < Half THEN u ELSE u - SeqSpace

SeqRangeClosed(first, last) ==
  {s \in SeqNo : AheadOf(first, s) <= AheadOf(first, last)}

SeqRangeOpen(first, last) ==
  {s \in SeqNo : AheadOf(first, s) \in 1 .. AheadOf(first, last) - 1}

(* first, first + 1, ... up to but not including last, as the loops         *)
(* "for (s = first; s != last; ++s)" run.                                   *)
SeqRange(first, last) ==
  {s \in SeqNo : AheadOf(first, s) < AheadOf(first, last)}

=============================================================================
