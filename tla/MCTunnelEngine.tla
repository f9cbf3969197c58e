--------------------------- MODULE MCTunnelEngine ---------------------------
(* Small sets of connections and realms for model checking TunnelEngine. *)
EXTENDS TunnelEngine, TLC

\* Connections to the same listener with the same kind of response, and realms.
Symmetry == Permutations(RtspClients) \cup Permutations(Framed) \cup Permutations(Realms)
=============================================================================
