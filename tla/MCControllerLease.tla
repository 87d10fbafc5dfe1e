-------------------------- MODULE MCControllerLease -------------------------
(* Small instances of ControllerLease for TLC.                             *)
EXTENDS ControllerLease, TLC

Symmetry == Permutations(Client) \cup Permutations(Doctor)
=============================================================================
