----------------------------- MODULE WrappingU32 -----------------------------
(***************************************************************************)
(* The u32 arithmetic of PTCP sequence numbers (rust-engine/src/ptcp.rs).  *)
(* Byte counters wrap at 2^32; the engine compares them with               *)
(* sequence_after, the sign of a wrapping difference.  The width is a      *)
(* parameter, so that TLC can wrap a counter within a few bytes and the    *)
(* proofs hold for every even modulus.                                     *)
(***************************************************************************)
EXTENDS Integers

CONSTANT HalfRange    \* 2^31 in the code: half of the counter's range

ASSUME HalfRangeAssumption == HalfRange \in Nat \ {0}

Modulus == 2 * HalfRange

U32 == 0 .. Modulus - 1

\* Mutant: a plain addition.
WrapAddNoWrap(a, b) == a + b

\* u32::wrapping_add and u32::wrapping_sub for two operands in U32.
WrapAdd(a, b) == IF a + b < Modulus THEN a + b ELSE a + b - Modulus
WrapSub(a, b) == IF a >= b THEN a - b ELSE a - b + Modulus

\* Mutants: the difference taken as unsigned; a plain comparison.
SequenceAfterUnsigned(value, reference) == WrapSub(value, reference) > 0
SequenceAfterPlain(value, reference) == value > reference

\* (value.wrapping_sub(reference) as i32) > 0
SequenceAfter(value, reference) ==
  WrapSub(value, reference) \in 1 .. HalfRange - 1

\* A cumulative acknowledgement covers everything that ends at or before it.
Covers(ack, end) == end = ack \/ SequenceAfter(ack, end)
=============================================================================
