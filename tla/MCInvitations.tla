--------------------------- MODULE MCInvitations ----------------------------
(* Small instances of Invitations for TLC. *)
EXTENDS Invitations, TLC

Symmetry == Permutations(Invites) \cup Permutations(Requests)
=============================================================================
