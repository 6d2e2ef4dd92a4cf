----------------------------- MODULE MCReminders -----------------------------
(* Small instances of Reminders.                                           *)
EXTENDS Reminders, TLC

Symmetry == Permutations(Workers) \cup Permutations(Editors)
=============================================================================
