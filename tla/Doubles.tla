------------------------------ MODULE Doubles -----------------------------
(***************************************************************************)
(* Ids as the database compares them.  The columns hold strings, and the   *)
(* statements of the control classes write ids without quotes, so MySQL    *)
(* converts both sides to doubles: with the 60 bits that ids have today, a *)
(* double is a multiple of 128.                                            *)
(***************************************************************************)
EXTENDS Integers

CONSTANTS
  MilliSize,   \* 2^22: the ids of a millisecond
  Ulp          \* 128: distance of neighbouring doubles

Milli(v) == v \div MilliSize

\* The nearest double, ties to even.
AsDouble(v) ==
  LET q == v \div Ulp
      r == v % Ulp
  IN IF 2 * r < Ulp \/ (2 * r = Ulp /\ q % 2 = 0) THEN q ELSE q + 1

\* "id = v" in a statement.
SameNumber(v, w) == AsDouble(v) = AsDouble(w)
===========================================================================
