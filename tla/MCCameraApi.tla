----------------------------- MODULE MCCameraApi -----------------------------
(* Two requests at a time on two cameras for model checking CameraApi. *)
EXTENDS CameraApi, TLC

Symmetry == Permutations(Clients) \cup Permutations(Logins)
=============================================================================
