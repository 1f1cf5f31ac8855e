------------------------------- MODULE Int32 --------------------------------
(***************************************************************************)
(* Signed machine integers, Half of them negative (2^31 in the program,    *)
(* fewer in the checks), with the wrap-around both CIL and WebAssembly     *)
(* prescribe.                                                              *)
(***************************************************************************)
EXTENDS Integers

CONSTANT Half
ASSUME HalfAssumption == Half \in Nat \ {0}

MinInt == -Half
MaxInt == Half - 1
Ints   == MinInt .. MaxInt

Wrap(x) == ((x + Half) % (2 * Half)) - Half

(* Rounds towards zero; the remainder has the sign of the dividend.        *)
Abs(x) == IF x < 0 THEN -x ELSE x
Remainder(a, b) == IF a < 0 THEN -(Abs(a) % Abs(b)) ELSE a % Abs(b)

FromBool(b) == IF b THEN 1 ELSE 0
=============================================================================
