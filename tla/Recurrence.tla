----------------------------- MODULE Recurrence -----------------------------
(***************************************************************************)
(* The dates of the occurrences of a series (event/series_service.go):     *)
(* calculateNextOccurrence on the calendar, and the loops that call it,    *)
(* generateInitialOccurrences from the start date and GenerateOccurrences, *)
(* which tops the window up from the last upcoming occurrence.  How many   *)
(* occurrences a run adds, and runs that overlap, are EventSeries.  The    *)
(* time of day is left out: every step keeps it.  So are occurrences that  *)
(* an organizer moved to another date.                                     *)
(***************************************************************************)
EXTENDS Integers, Sequences

CONSTANTS Starts,    \* the dates a series may start from
          MaxDates   \* bound: dates of a series

VARIABLES
    rule,         \* recurrence_rule
    dates,        \* the dates so far, the one that the series starts from first
    originalDay,  \* the day of the month that the run at work goes by
    resumed       \* history: the dates that the first run made and later runs kept,
                  \* 0 while it is at work

datesVars == <<rule, dates, originalDay, resumed>>

\* The Gregorian calendar, as package time has it.
Leap(y) == y % 4 = 0 /\ (y % 100 # 0 \/ y % 400 = 0)
MonthLength(y, m) == CASE m = 2 -> IF Leap(y) THEN 29 ELSE 28
                       [] m \in {4, 6, 9, 11} -> 30
                       [] OTHER -> 31

\* The dates there are.
Calendar == {t \in [y : Nat, m : 1..12, d : 1..31] : t.d <= MonthLength(t.y, t.m)}

ASSUME RecurrenceAssumption == Starts \subseteq Calendar /\ MaxDates \in Nat

\* time.Date: a day past the month's end falls in the next month.
Normal(y, m, d) ==
    LET over == d - MonthLength(y, m) IN
    IF over <= 0 THEN [y |-> y, m |-> m, d |-> d]
    ELSE [y |-> IF m = 12 THEN y + 1 ELSE y, m |-> (m % 12) + 1, d |-> over]

NextMonth(from) == [y |-> IF from.m = 12 THEN from.y + 1 ELSE from.y, m |-> (from.m % 12) + 1]

\* Mutant: the day of the month is not clamped.
calculateNextUnclamped(from, by, day) ==
    LET n == NextMonth(from) IN
    CASE by = "weekly"   -> Normal(from.y, from.m, from.d + 7)
      [] by = "biweekly" -> Normal(from.y, from.m, from.d + 14)
      [] by = "monthly"  -> Normal(n.y, n.m, day)

calculateNextOccurrence(from, by, day) ==
    LET n == NextMonth(from)
        lastDay == MonthLength(n.y, n.m)
    IN  CASE by = "weekly"   -> Normal(from.y, from.m, from.d + 7)
          [] by = "biweekly" -> Normal(from.y, from.m, from.d + 14)
          [] by = "monthly"  ->
                [y |-> n.y, m |-> n.m,
                 d |-> IF day > lastDay THEN lastDay ELSE day]

\* A series starts from the date of its first occurrence
\* (generateInitialOccurrences) or, when that was not created, from the clock of
\* the run that finds no occurrence.
DatesInit ==
    /\ rule \in {"weekly", "biweekly", "monthly"}
    /\ \E start \in Starts : dates = <<start>> /\ originalDay = start.d
    /\ resumed = 0

\* The body of both loops.
CreateOccurrence ==
    /\ Len(dates) < MaxDates
    /\ dates' = Append(dates, calculateNextOccurrence(dates[Len(dates)], rule, originalDay))
    /\ UNCHANGED <<rule, originalDay, resumed>>

\* GenerateOccurrences up to its loop, once the run before has ended, by its limits
\* or an error.  It continues from the last upcoming occurrence: those that were
\* cancelled after it are generated again.
GenerateOccurrences ==
    /\ \E n \in 1..Len(dates) :
          /\ dates' = SubSeq(dates, 1, n)
          /\ originalDay' = dates[n].d
          /\ resumed' = IF resumed = 0 \/ n < resumed THEN n ELSE resumed
    /\ UNCHANGED rule

DatesNext == CreateOccurrence \/ GenerateOccurrences

DatesSpec == DatesInit /\ [][DatesNext]_datesVars

----------------------------------------------------------------------------
\* Days since the first of March of the year 0 (the reference for weeks).
DayNumber(t) ==
    LET y == IF t.m > 2 THEN t.y ELSE t.y - 1
        m == (t.m + 9) % 12
    IN  365 * y + y \div 4 - y \div 100 + y \div 400 + (153 * m + 2) \div 5 + t.d

Months(t) == 12 * t.y + t.m

\* The day of the start, cut to the length of the i-th date's month.
Cut(i) ==
    LET length == MonthLength(dates[i].y, dates[i].m)
    IN  IF dates[1].d < length THEN dates[1].d ELSE length

\* However the runs of the job split the work, calculateNextOccurrence skips and
\* doubles no date.  Weeks are seven and fourteen days apart, a monthly series has
\* one date in every month.  Its day is the start's, cut to the month's length, in
\* the first run, and always when the start is no later than the 28th.  A later
\* day may be cut and stay cut, since a run takes its day from the last
\* occurrence, but it never exceeds the start's and never falls below the 28th.
OccurrencesFollowTheRule ==
    \A i \in 2..Len(dates) :
        /\ rule = "weekly" => DayNumber(dates[i]) = DayNumber(dates[i - 1]) + 7
        /\ rule = "biweekly" => DayNumber(dates[i]) = DayNumber(dates[i - 1]) + 14
        /\ rule = "monthly" =>
              /\ Months(dates[i]) = Months(dates[i - 1]) + 1
              /\ dates[i].d <= Cut(i)
              /\ resumed = 0 \/ i <= resumed \/ dates[1].d <= 28 => dates[i].d = Cut(i)
              /\ dates[1].d > 28 => dates[i].d >= 28
=============================================================================
