----------------------------- MODULE MCContainer -----------------------------
(* The container on a small instance. *)
EXTENDS Container, TLC

Symmetry == Permutations(Controllers)
=============================================================================
