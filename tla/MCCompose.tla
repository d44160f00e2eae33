------------------------------ MODULE MCCompose ------------------------------
(* The compose flow on a small instance. *)
EXTENDS Compose, TLC

Symmetry == Permutations(Screens)
=============================================================================
