---------------------------- MODULE SerialNumbers ----------------------------
(***************************************************************************)
(* Serial-number arithmetic of pgm/include/impl/sn.h.  A PGM sequence      *)
(* number is a uint32_t: it wraps at SqnMod = 2 * SignBit, and two numbers *)
(* are compared by the sign bit of their difference, so "less than" is     *)
(* only an order between numbers less than SignBit apart.  The code has    *)
(* SignBit = 2^31 (PGM_UINT32_SIGN_BIT); the runs use a few bits, so that  *)
(* wrapping is part of every behaviour.                                    *)
(*                                                                         *)
(* Wrapping addition and subtraction are written with one correction by    *)
(* SqnMod instead of "%": operands are already sequence numbers, and the   *)
(* proofs stay within linear arithmetic.                                   *)
(***************************************************************************)
EXTENDS Integers

CONSTANT SignBit            \* PGM_UINT32_SIGN_BIT

ASSUME SignBitAssumption == SignBit \in Nat /\ SignBit > 2

SqnMod == 2 * SignBit

Sqn == 0 .. (SqnMod - 1)

\* Mutant: the sum is computed in a wider type and does not wrap.
PlusWithoutWrap(s, t) == s + t

\* uint32_t s + t and s - t, s and t in Sqn
Plus(s, t)  == IF s + t < SqnMod THEN s + t ELSE s + t - SqnMod

Minus(s, t) == IF s >= t THEN s - t ELSE s - t + SqnMod

\* pgm_uint32_lt, _lte, _gt, _gte
Lt(s, t)  == Minus(s, t) >= SignBit

Lte(s, t) == s = t \/ Minus(s, t) >= SignBit

Gt(s, t)  == Minus(t, s) >= SignBit

Gte(s, t) == s = t \/ Minus(t, s) >= SignBit

\* The bound of the "jumps too far" sanity checks, (UINT32_MAX / 2) - 1.
FarJump == SignBit - 2

=============================================================================
