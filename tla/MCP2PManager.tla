---------------------------- MODULE MCP2PManager ----------------------------
(* Small sets of threads and slots for model checking P2PManager. *)
EXTENDS P2PManager, TLC

Symmetry ==
  Permutations(Workers) \cup Permutations(RtspProcs) \cup Permutations(OnvifProcs)
=============================================================================
