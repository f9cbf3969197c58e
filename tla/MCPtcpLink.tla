----------------------------- MODULE MCPtcpLink -----------------------------
(* Small streams for model checking PtcpLink. *)
EXTENDS PtcpLink

\* Five packets of one or two bytes: with HalfRange = 8 the fourth crosses the
\* counter's wraparound.
WrapOffset5 == <<11, 12, 14, 15, 17, 18>>

\* A camera that sends nothing of its own: the run about the sending half.
NoPacket == <<0>>

\* Three control packets of the same size.
EqualOffset3 == <<0, 1, 2, 3>>
=============================================================================
