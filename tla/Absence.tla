------------------------------ MODULE Absence ------------------------------
(***************************************************************************)
(* The value the components share for what is not there.                   *)
(***************************************************************************)

CONSTANT None       \* no row, no lock holder, no request, no goroutine
=============================================================================
