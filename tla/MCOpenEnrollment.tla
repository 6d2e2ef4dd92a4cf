-------------------------- MODULE MCOpenEnrollment --------------------------
(* Small instances of OpenEnrollment.                                      *)
EXTENDS OpenEnrollment, TLC

Symmetry == Permutations(Invitations) \cup Permutations(Requests)
=============================================================================
