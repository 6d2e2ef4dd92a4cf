------------------------- MODULE MCEventMembership -------------------------
(* TLC instance of EventMembership: rows and requests are interchangeable. *)
EXTENDS EventMembership, TLC

Symmetry == Permutations(Invites) \cup Permutations(Requests)
=============================================================================
