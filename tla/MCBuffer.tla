------------------------------ MODULE MCBuffer -------------------------------
(* An instance of Buffer for TLC. *)
EXTENDS Buffer, TLC

\* Views are alike.
ViewSymmetry == Permutations(ViewIds)
=============================================================================
