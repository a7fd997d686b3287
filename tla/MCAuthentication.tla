-------------------------- MODULE MCAuthentication --------------------------
(***************************************************************************)
(* Small instances of Authentication for TLC.                              *)
(***************************************************************************)
EXTENDS Authentication, TLC

Symmetry == Permutations(Sessions)
=============================================================================
