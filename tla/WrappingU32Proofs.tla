-------------------------- MODULE WrappingU32Proofs --------------------------
(* Facts about wrapping counters, for every even modulus. *)
EXTENDS WrappingU32, TLAPS

\* Wrapping addition and subtraction stay within the counter's range.
THEOREM WrapClosed ==
  ASSUME NEW a \in U32, NEW b \in U32
  PROVE  WrapAdd(a, b) \in U32 /\ WrapSub(a, b) \in U32
BY HalfRangeAssumption DEF U32, Modulus, WrapAdd, WrapSub

\* Subtraction undoes addition: the distance of two counters is found again
\* across the wraparound.
THEOREM WrapInverse ==
  ASSUME NEW a \in U32, NEW b \in U32
  PROVE  WrapSub(WrapAdd(a, b), a) = b /\ WrapAdd(a, WrapSub(b, a)) = b
BY HalfRangeAssumption DEF U32, Modulus, WrapAdd, WrapSub

\* sequence_after finds the later of two positions that lie less than half of
\* the range apart, wherever the counter wraps.
THEOREM AfterIsLater ==
  ASSUME NEW a \in U32, NEW distance \in 0 .. HalfRange - 1
  PROVE  /\ SequenceAfter(WrapAdd(a, distance), a) <=> distance > 0
         /\ ~SequenceAfter(a, WrapAdd(a, distance))
BY HalfRangeAssumption DEF U32, Modulus, WrapAdd, WrapSub, SequenceAfter

\* No two positions are each after the other: recv() never takes a packet for
\* both stale and ahead.
THEOREM AfterIsAsymmetric ==
  ASSUME NEW a \in U32, NEW b \in U32
  PROVE  ~(SequenceAfter(a, b) /\ SequenceAfter(b, a))
BY HalfRangeAssumption DEF U32, Modulus, WrapSub, SequenceAfter

\* The order of three positions within half of the range is transitive, so the
\* nearest pending packet after recv is well defined.
THEOREM AfterIsTransitive ==
  ASSUME NEW a \in U32, NEW d \in 1 .. HalfRange - 1, NEW e \in 1 .. HalfRange - 1,
         d + e < HalfRange
  PROVE  SequenceAfter(WrapAdd(WrapAdd(a, d), e), a)
BY HalfRangeAssumption DEF U32, Modulus, WrapAdd, WrapSub, SequenceAfter

\* A cumulative acknowledgement covers what ends at it or before it, and
\* nothing that ends after it, within half of the range.
THEOREM AckCoversPrefix ==
  ASSUME NEW end \in U32, NEW distance \in 0 .. HalfRange - 1
  PROVE  /\ Covers(WrapAdd(end, distance), end)
         /\ distance > 0 => ~Covers(end, WrapAdd(end, distance))
BY HalfRangeAssumption DEF U32, Modulus, WrapAdd, WrapSub, SequenceAfter, Covers
=============================================================================
