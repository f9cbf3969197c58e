----------------------------- MODULE MCHandshake -----------------------------
(* Short loops for model checking Handshake. *)
EXTENDS Handshake

\* Each loop makes two rounds, those over a list of answers three: enough for
\* a first, a repeated and a last round.
ShortLoops ==
  [l \in Loops |-> IF l \in {"channel", "reads", "punch"} THEN 3 ELSE 2]
=============================================================================
