-------------------------- MODULE MCPasswordResets --------------------------
(* Small instances of PasswordResets for TLC. *)
EXTENDS PasswordResets, TLC

Symmetry == Permutations(Links) \cup Permutations(Requests)
=============================================================================
