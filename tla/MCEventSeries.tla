--------------------------- MODULE MCEventSeries ---------------------------
(***************************************************************************)
(* The series for TLC: its rows and requests (EventSeries), or the dates   *)
(* of its occurrences (Recurrence).  They share no state: each behaviour   *)
(* is one of the two at work, and the states are the union of theirs.      *)
(* Requests are interchangeable, jobs too.                                 *)
(***************************************************************************)
EXTENDS EventSeries, Recurrence, TLC

VARIABLE part         \* the one at work

vars == <<part, seriesVars, datesVars>>

Init ==
    /\ part \in {"rows", "dates"}
    /\ SeriesInit /\ DatesInit
    /\ part = "rows" => rule = "weekly" /\ dates = <<[y |-> 2024, m |-> 1, d |-> 1]>>

Next ==
    \/ part = "rows" /\ SeriesNext /\ UNCHANGED <<part, datesVars>>
    \/ part = "dates" /\ DatesNext /\ UNCHANGED <<part, seriesVars>>

Spec == Init /\ [][Next]_vars

Symmetry == Permutations(Callers) \cup Permutations(Jobs)

\* Around a leap year and a year's end, on the days that months do not all have.
SomeStarts ==
    {t \in [y : {2023, 2024}, m : 1..12, d : {1, 28, 29, 30, 31}] : t.d <= MonthLength(t.y, t.m)}
=============================================================================
