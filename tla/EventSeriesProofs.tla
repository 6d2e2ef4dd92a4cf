------------------------- MODULE EventSeriesProofs --------------------------
(***************************************************************************)
(* The rolling window of a series, the lifecycle of its events and what a  *)
(* stop means, for any number of organizers and server processes, any      *)
(* window, limits and retention.                                           *)
(***************************************************************************)
EXTENDS EventSeries, FiniteSetTheorems, TLAPS

\* A finite set of numbers has a least and a greatest one: a smallest subset
\* without them would lack them without one of its elements, too.
LEMMA Extremes ==
    ASSUME NEW S \in SUBSET Nat, IsFiniteSet(S), S # {}
    PROVE  /\ \E x \in S : \A y \in S : x <= y
           /\ \E x \in S : \A y \in S : x >= y
<1> DEFINE Ends(X) == /\ \E x \in X : \A y \in X : x <= y
                      /\ \E x \in X : \A y \in X : x >= y
           T == {X \in FiniteSubsetsOf(S) : X # {} /\ ~Ends(X)}
<1>1. T = {}
  <2> SUFFICES ASSUME T # {} PROVE FALSE
    OBVIOUS
  <2>1. T \subseteq FiniteSubsetsOf(S)
    OBVIOUS
  <2>2. PICK X \in T : \A Y \in T : ~(<<Y, X>> \in StrictSubsetOrdering(S))
    <3> HIDE DEF T
    <3> QED
      BY <2>1, FS_StrictSubsetOrderingWellFounded, WFMin
  <2>3. X \in SUBSET S /\ IsFiniteSet(X) /\ X # {} /\ ~Ends(X)
    BY DEF FiniteSubsetsOf
  <2>4. PICK x \in X : TRUE
    BY <2>3, Zenon
  <2> DEFINE Y == X \ {x}
  <2>5. Y \in SUBSET S /\ IsFiniteSet(Y)
    BY <2>3, FS_RemoveElement
  <2>6. <<Y, X>> \in StrictSubsetOrdering(S)
    BY <2>3, <2>4, <2>5, Zenon DEF StrictSubsetOrdering
  <2>7. Y \in FiniteSubsetsOf(S) /\ Y \notin T
    BY <2>2, <2>5, <2>6, Zenon DEF FiniteSubsetsOf
  <2>8. Y = {} \/ Ends(Y)
    BY <2>7
  <2>9. X \subseteq Nat /\ x \in Nat
    BY <2>3, <2>4
  <2>10. CASE Y = {}
    <3>1. X = {x}
      BY <2>4, <2>10
    <3> QED
      BY <2>3, <2>9, <3>1
  <2>11. CASE Ends(Y)
    <3>1. PICK a \in Y : \A y \in Y : a <= y
      BY <2>11
    <3>2. PICK b \in Y : \A y \in Y : b >= y
      BY <2>11
    <3>3. \E z \in X : \A y \in X : z <= y
      BY <2>4, <2>9, <3>1
    <3>4. \E z \in X : \A y \in X : z >= y
      BY <2>4, <2>9, <3>2
    <3> QED
      BY <2>3, <3>3, <3>4, Zenon
  <2> QED
    BY <2>8, <2>10, <2>11
<1>2. S \in FiniteSubsetsOf(S)
  BY DEF FiniteSubsetsOf
<1> QED
  BY <1>1, <1>2, Zenon

Gen == [step : {"idle", "list", "count", "insert"}, series : SeriesRow \cup {None},
        date : Nat, needed : Nat, total : Nat]

Lists == UNION {[S -> EventRow] : S \in SUBSET Events}

Call == [step : {"idle", "event", "series", "list", "each", "cancel"},
         op : EventOps \cup {"stop", None}, event : Events \cup {None}, copy : EventRow \cup {None},
         series : SeriesRow \cup {None}, todo : Lists \cup {None}]

SeriesTypes ==
    /\ now \in Nat
    /\ series \in SeriesRow \cup {None}
    /\ row \in [Events -> EventRow \cup {None}]
    /\ call \in [Callers -> Call]
    /\ gen \in [Callers \cup Jobs -> Gen]
    /\ disturbed \in BOOLEAN /\ raced \in BOOLEAN

\* A generator at work knows how many occurrences there is room for, as long as
\* it is the only one that does.
Room(p) ==
    gen[p].step \in {"count", "insert"} =>
        /\ gen[p].needed >= 1
        /\ ~disturbed =>
              /\ Cardinality(Future) + gen[p].needed <= Window
              /\ \A q \in (Callers \cup Jobs) \ {p} : gen[q].step \notin {"count", "insert"}

\* What a request has read: a status the operation may start from, the list of a
\* loop that is not yet over, a published copy on the way to Cancel.
Seen(q) ==
    /\ q.step = "event" =>
          q.op \in EventOps /\ q.event \in Events /\ q.copy \in EventRow /\ Allowed(q.op, q.copy.status)
    /\ q.step \in {"series", "list"} => q.series \in SeriesRow
    /\ q.step \in {"each", "cancel"} => q.todo \in Lists /\ DOMAIN q.todo # {}
    /\ q.step = "cancel" => q.event \in Events /\ q.copy \in EventRow /\ q.copy.status = "published"
    /\ Exists => /\ q.step \in {"event", "cancel"} => q.copy.linked
                 /\ q.step \in {"each", "cancel"} => \A e \in DOMAIN q.todo : q.todo[e].linked

\* Nothing of a series that was stopped in peace is active, and a copy that is
\* not was read after the stop.
Stopped ==
    ~raced =>
        /\ \A r \in Callers : call[r].step = "series" /\ call[r].series.status # "active" => ~Active
        /\ Exists /\ ~Active => /\ \A r \in Callers : call[r].step = "series" => call[r].series.status # "active"
                               /\ \A p \in Callers \cup Jobs : gen[p].step = "idle"

SeriesInv ==
    /\ SeriesTypes
    /\ \A p \in Callers \cup Jobs : Room(p)
    /\ WindowKept
    /\ \A r \in Callers : Seen(call[r])
    /\ Stopped
    /\ series = None => /\ \A p \in Callers \cup Jobs : gen[p].step = "idle"
                        /\ \A r \in Callers : call[r].step = "idle"
                        /\ Rows = {}
    /\ Exists => \A e \in Rows : row[e].linked

\* Rows and the like are finite.
LEMMA RowsFinite ==
    ASSUME NEW S \in SUBSET Events
    PROVE  IsFiniteSet(S) /\ Cardinality(S) \in Nat
<1>1. MaxEvents \in Nat
  BY SeriesAssumption
<1>2. IsFiniteSet(Events)
  BY <1>1, FS_Interval DEF Events
<1> QED
  BY <1>2, FS_Subset, FS_CardinalityType

\* Nobody at work, no series, no event.
LEMMA SeriesStarts == SeriesInit => SeriesInv
<1> SUFFICES ASSUME SeriesInit PROVE SeriesInv
  OBVIOUS
<1>1. NoCall \in Call /\ NoCall.step = "idle" /\ Asleep \in Gen /\ Asleep.step = "idle"
  BY DEF NoCall, Call, Asleep, Gen
<1>2. SeriesTypes
  BY <1>1, Zenon DEF SeriesInit, SeriesTypes
<1>3. Rows = {} /\ Future = {}
  BY DEF SeriesInit, Rows, Future
<1>4. WindowKept
  BY <1>3, FS_EmptySet, SeriesAssumption DEF WindowKept
<1>5. (\A p \in Callers \cup Jobs : gen[p].step = "idle") /\ \A r \in Callers : call[r].step = "idle"
  BY <1>1 DEF SeriesInit
<1>6. ~Exists
  BY DEF SeriesInit, Exists
<1> QED
  BY <1>2, <1>3, <1>4, <1>5, <1>6 DEF SeriesInv, Room, Seen, Stopped

\* The upcoming occurrences that are left leave as much room.
LEMMA FewerUpcoming ==
    ASSUME SeriesInv, gen' = gen, disturbed => disturbed', ~disturbed' => Future' \subseteq Future
    PROVE  WindowKept' /\ \A p \in Callers \cup Jobs : Room(p)'
<1>1. Future \in SUBSET Events /\ Window \in Nat
  BY SeriesAssumption DEF Future, Rows
<1>2. ~disturbed' => /\ Cardinality(Future') \in Nat /\ Cardinality(Future) \in Nat
                     /\ Cardinality(Future') <= Cardinality(Future)
  <2> SUFFICES ASSUME ~disturbed' PROVE Cardinality(Future') \in Nat /\ Cardinality(Future) \in Nat
                                        /\ Cardinality(Future') <= Cardinality(Future)
    OBVIOUS
  <2>1. Future' \subseteq Future
    OBVIOUS
  <2> QED
    BY <1>1, <2>1, RowsFinite, FS_Subset
<1>3. WindowKept'
  BY <1>1, <1>2 DEF SeriesInv, WindowKept
<1>4. ASSUME NEW p \in Callers \cup Jobs PROVE Room(p)'
  <2>1. Room(p) /\ gen[p].needed \in Nat
    BY DEF SeriesInv, SeriesTypes, Gen
  <2> QED
    BY <1>1, <1>2, <2>1 DEF Room
<1> QED
  BY <1>3, <1>4

\* The UPDATE of a row: what becomes upcoming by it is recorded.
LEMMA WriteHolds ==
    ASSUME SeriesInv, NEW e \in Events, NEW new \in EventRow, Exists => new.linked, Write(e, new),
           UNCHANGED <<now, series>>
    PROVE  /\ row' \in [Events -> EventRow \cup {None}] /\ disturbed' \in BOOLEAN
           /\ disturbed => disturbed'
           /\ ~disturbed' => Future' \subseteq Future
           /\ Rows' = Rows
           /\ Exists => \A f \in Rows : row'[f].linked
<1>1. CASE row[e] = None \/ (new.linked /\ ~Exists)
  BY <1>1 DEF Write, SeriesInv, SeriesTypes, Future, Rows, Upcoming
<1>2. CASE ~(row[e] = None \/ (new.linked /\ ~Exists))
  <2>1. /\ row' = [row EXCEPT ![e] = new] /\ row[e] # None
        /\ disturbed' = (disturbed \/ (Upcoming(new) /\ ~Upcoming(row[e])))
    BY <1>2 DEF Write
  <2>2. /\ row' \in [Events -> EventRow \cup {None}] /\ row'[e] = new
        /\ \A f \in Events \ {e} : row'[f] = row[f]
    BY <2>1 DEF SeriesInv, SeriesTypes
  <2>3. new # None
    BY SeriesAssumption
  <2>4. Rows' = Rows
    BY <2>1, <2>2, <2>3 DEF Rows
  <2>5. \A x : Upcoming(x)' = Upcoming(x)
    BY DEF Upcoming
  <2>6. ~disturbed' => Future' \subseteq Future
    BY <2>1, <2>2, <2>4, <2>5, Zenon DEF Future, Rows, Upcoming
  <2> QED
    BY <2>1, <2>2, <2>4, <2>6 DEF SeriesInv, SeriesTypes, Rows
<1> QED
  BY <1>1, <1>2

\* A request moves on; it may write a row.
LEMMA CallMoves ==
    ASSUME SeriesInv, NEW r \in Callers, NEW q \in Call, Seen(q), call' = [call EXCEPT ![r] = q],
           q.step = "series" => q.series = series, series # None,
           UNCHANGED <<now, series, gen, raced>>,
           \/ UNCHANGED <<row, disturbed>>
           \/ \E e \in Events, new \in EventRow : Write(e, new) /\ (Exists => new.linked)
    PROVE  SeriesInv' /\ Rows' = Rows
<1>1. call' \in [Callers -> Call] /\ call'[r] = q /\ \A o \in Callers \ {r} : call'[o] = call[o]
  BY Zenon DEF SeriesInv, SeriesTypes
<1>2. /\ row' \in [Events -> EventRow \cup {None}] /\ disturbed' \in BOOLEAN
      /\ disturbed => disturbed'
      /\ ~disturbed' => Future' \subseteq Future
      /\ Rows' = Rows
      /\ Exists => \A f \in Rows : row'[f].linked
  <2>1. CASE UNCHANGED <<row, disturbed>>
    BY <2>1, Zenon DEF SeriesInv, SeriesTypes, Future, Rows, Upcoming
  <2>2. CASE \E e \in Events, new \in EventRow : Write(e, new) /\ (Exists => new.linked)
    BY <2>2, WriteHolds
  <2> QED
    BY <2>1, <2>2
<1>3. SeriesTypes'
  BY <1>1, <1>2 DEF SeriesInv, SeriesTypes
<1>4. Exists' = Exists /\ Active' = Active
  BY Zenon DEF Exists, Active
<1>5. ASSUME NEW o \in Callers PROVE Seen(call[o])'
  <2>1. CASE o = r
    BY <1>1, <1>4, <2>1, Zenon DEF Seen
  <2>2. CASE o # r
    BY <1>1, <1>4, <2>2, Zenon DEF Seen, SeriesInv
  <2> QED
    BY <2>1, <2>2
<1>6. Stopped'
  BY <1>1, <1>4, Zenon DEF Stopped, SeriesInv, Active, Exists
<1>7. WindowKept' /\ \A p \in Callers \cup Jobs : Room(p)'
  BY <1>2, FewerUpcoming
<1> QED
  BY <1>2, <1>3, <1>4, <1>5, <1>6, <1>7, Zenon DEF SeriesInv

\* A generator moves on or starts, with the series or after it; it inserts
\* nothing.
LEMMA GenMoves ==
    ASSUME SeriesInv, NEW p \in Callers \cup Jobs, NEW g \in Gen, gen' = [gen EXCEPT ![p] = g],
           UNCHANGED <<now, row, call, raced>>, series' \in SeriesRow, series' = series \/ series = None,
           disturbed' \in BOOLEAN, disturbed => disturbed',
           g.step # "idle" => Active' \/ (gen[p].step # "idle" /\ series' = series),
           g.step \in {"count", "insert"} =>
              /\ g.needed >= 1
              /\ ~disturbed' =>
                    /\ Cardinality(Future) + g.needed <= Window
                    /\ \A q \in (Callers \cup Jobs) \ {p} : gen[q].step \notin {"count", "insert"}
    PROVE  SeriesInv'
<1>1. /\ gen' \in [Callers \cup Jobs -> Gen] /\ gen'[p] = g
      /\ \A o \in (Callers \cup Jobs) \ {p} : gen'[o] = gen[o]
  BY DEF SeriesInv, SeriesTypes
<1>2. SeriesTypes'
  BY <1>1 DEF SeriesInv, SeriesTypes
<1>3. Future' = Future /\ Rows' = Rows
  BY DEF Future, Rows, Upcoming
<1>4. WindowKept'
  BY <1>3 DEF SeriesInv, WindowKept
<1>5. ASSUME NEW o \in Callers \cup Jobs PROVE Room(o)'
  <2>1. Room(o)
    BY DEF SeriesInv
  <2>2. CASE o = p
    BY <1>1, <1>3, <2>2 DEF Room
  <2>3. CASE o # p
    BY <1>1, <1>3, <2>1, <2>3 DEF Room
  <2> QED
    BY <2>2, <2>3
<1>6. series' # None
  BY SeriesAssumption
<1>7. CASE series' = series
  <2>1. Exists' = Exists /\ Active' = Active
    BY <1>7, Zenon DEF Exists, Active
  <2>2. \A r \in Callers : Seen(call[r])'
    BY <2>1, Zenon DEF Seen, SeriesInv
  <2>3. Stopped'
    BY <1>1, <2>1, Zenon DEF Stopped, SeriesInv
  <2> QED
    BY <1>2, <1>3, <1>4, <1>5, <1>6, <2>1, <2>2, <2>3, Zenon DEF SeriesInv
<1>8. CASE series = None
  <2>1. (\A r \in Callers : call[r].step = "idle") /\ Rows = {} /\ \A o \in Callers \cup Jobs : gen[o].step = "idle"
    BY <1>8, Zenon DEF SeriesInv
  <2>2. \A r \in Callers : Seen(call[r])'
    BY <2>1, Zenon DEF Seen
  <2>3. Stopped'
    BY <1>1, <1>6, <1>8, <2>1 DEF Stopped
  <2> QED
    BY <1>2, <1>3, <1>4, <1>5, <1>6, <2>1, <2>2, <2>3, Zenon DEF SeriesInv
<1> QED
  BY <1>7, <1>8

\* A generator at work, or one that starts, has a series.
LEMMA AtWorkHolds ==
    ASSUME SeriesInv, NEW p \in Callers \cup Jobs, gen[p].step # "idle"
    PROVE  series \in SeriesRow /\ gen[p] \in Gen
BY DEF SeriesInv, SeriesTypes

\* CreateSeries: nothing is upcoming and no generator at work.
LEMMA CreateSeriesKeeps ==
    ASSUME SeriesInv, NEW r \in Callers, NEW limit \in Limits, NEW d \in {now, now + 1}, CreateSeries(r, limit, d)
    PROVE  SeriesInv'
<1> DEFINE new == [status |-> "active", limit |-> limit]
           g == [step |-> "insert", series |-> new, date |-> d, needed |-> Window, total |-> 0]
<1>1. series = None /\ series' = new /\ gen' = [gen EXCEPT ![r] = g] /\ UNCHANGED <<now, row, call, raced, disturbed>>
  BY Zenon DEF CreateSeries
<1>2. new \in SeriesRow /\ new.status = "active" /\ new # None
  BY SeriesAssumption DEF SeriesRow
<1> HIDE DEF new
<1>3. d \in Nat /\ Window \in Nat /\ Window >= 1
  BY SeriesAssumption DEF SeriesInv, SeriesTypes
<1>4. g \in Gen /\ g.step = "insert" /\ g.needed = Window
  BY <1>2, <1>3 DEF Gen
<1> HIDE DEF g
<1>5. Active'
  BY <1>1, <1>2 DEF Active, Exists
<1>6. (\A o \in Callers \cup Jobs : gen[o].step = "idle") /\ Future = {}
  BY <1>1, Zenon DEF SeriesInv, Future
<1>7. Cardinality(Future) + g.needed <= Window
  BY <1>3, <1>4, <1>6, FS_EmptySet
<1> QED
  BY <1>1, <1>2, <1>3, <1>4, <1>5, <1>6, <1>7, GenMoves, Zenon DEF SeriesInv, SeriesTypes

\* GenerateOccurrences reads an active series.
LEMMA GenerateReadKeeps ==
    ASSUME SeriesInv, NEW j \in Callers \cup Jobs, GenerateRead(j)
    PROVE  SeriesInv'
<1> DEFINE g == [gen[j] EXCEPT !.step = "list", !.series = series]
<1>1. /\ Active /\ series \in SeriesRow /\ gen[j] \in Gen
      /\ gen' = [gen EXCEPT ![j] = g] /\ UNCHANGED <<now, series, row, call, raced, disturbed>>
  BY Zenon DEF GenerateRead, Active, Exists, SeriesInv, SeriesTypes
<1>2. g \in Gen /\ g.step = "list"
  BY <1>1, Zenon DEF Gen
<1> HIDE DEF g
<1>3. Active'
  BY <1>1 DEF Active, Exists
<1> QED
  BY <1>1, <1>2, <1>3, GenMoves, Zenon DEF SeriesInv, SeriesTypes

\* It asks for what the window lacks.
LEMMA GenerateListKeeps ==
    ASSUME SeriesInv, NEW j \in Callers \cup Jobs, GenerateList(j)
    PROVE  SeriesInv'
<1>1. /\ gen[j].step = "list" /\ series \in SeriesRow /\ gen[j] \in Gen
      /\ UNCHANGED <<now, series, row, call, raced>>
  BY AtWorkHolds, Zenon DEF GenerateList, SeriesInv, SeriesTypes
<1>2. CASE Cardinality(Future) >= Window
  <2>1. Asleep \in Gen /\ Asleep.step = "idle"
    BY Zenon DEF Asleep, Gen
  <2>2. gen' = [gen EXCEPT ![j] = Asleep] /\ UNCHANGED disturbed
    BY <1>2 DEF GenerateList
  <2> HIDE DEF Asleep
  <2> QED
    BY <1>1, <2>1, <2>2, GenMoves, Zenon DEF SeriesInv, SeriesTypes
<1>3. CASE ~(Cardinality(Future) >= Window)
  <2> DEFINE last == IF Future # {} THEN LastDate(Future) ELSE IF Linked # {} THEN LastDate(Linked) ELSE now
             lack == Window - Cardinality(Future)
             next == last + 1
             g == [gen[j] EXCEPT !.step = "count", !.date = next, !.needed = lack]
  <2>1. /\ gen' = [gen EXCEPT ![j] = g]
        /\ disturbed' = (disturbed \/ \E p \in DOMAIN gen \ {j} : gen[p] # Asleep)
    BY <1>1, <1>3, Zenon DEF GenerateList, SeriesInv, SeriesTypes
  <2>2. last \in Nat
    <3>1. ASSUME NEW S \in SUBSET Rows, S # {} PROVE LastDate(S) \in Nat
      <4> DEFINE D == {row[e].date : e \in S}
      <4>1. D \in SUBSET Nat
        BY DEF Rows, SeriesInv, SeriesTypes, EventRow
      <4>2. IsFiniteSet(D)
        <5>1. [e \in S |-> row[e].date] \in Surjection(S, D)
          BY Zenon DEF Surjection
        <5>2. IsFiniteSet(S)
          BY RowsFinite DEF Rows
        <5> QED
          BY <5>1, <5>2, FS_Surjection
      <4>3. D # {}
        BY <3>1, Zenon
      <4> HIDE DEF D
      <4>4. \E x \in D : \A y \in D : x >= y
        BY <4>1, <4>2, <4>3, Extremes
      <4>5. Max(D) \in D
        BY <4>4 DEF Max
      <4> QED
        BY <4>1, <4>5, SMTT(30) DEF LastDate, D
    <3>2. Future \in SUBSET Rows /\ Linked \in SUBSET Rows /\ now \in Nat
      BY DEF Future, Linked, SeriesInv, SeriesTypes
    <3> QED
      BY <3>1, <3>2
  <2> HIDE DEF last
  <2>8. next \in Nat
    BY <2>2
  <2> HIDE DEF next
  <2>3. Cardinality(Future) \in Nat /\ Window \in Nat
    BY RowsFinite, SeriesAssumption DEF Future, Rows
  <2>4. lack \in Nat /\ lack >= 1 /\ Cardinality(Future) + lack <= Window
    BY <1>3, <2>3
  <2> HIDE DEF lack
  <2>5. g \in Gen /\ g.step = "count" /\ g.needed = lack
    BY <1>1, <2>4, <2>8, Zenon DEF Gen
  <2> HIDE DEF g
  <2>6. disturbed' \in BOOLEAN /\ (disturbed => disturbed')
    BY <2>1 DEF SeriesInv, SeriesTypes
  <2>7. ~disturbed' => \A q \in (Callers \cup Jobs) \ {j} : gen[q].step \notin {"count", "insert"}
    <3>1. DOMAIN gen = Callers \cup Jobs /\ Asleep.step = "idle"
      BY Zenon DEF SeriesInv, SeriesTypes, Asleep
    <3> HIDE DEF Asleep
    <3> QED
      BY <2>1, <3>1, Zenon
  <2> QED
    BY <1>1, <2>1, <2>4, <2>5, <2>6, <2>7, GenMoves, Zenon
<1> QED
  BY <1>2, <1>3

\* It counts all the events of the series.
LEMMA GenerateCountKeeps ==
    ASSUME SeriesInv, NEW j \in Callers \cup Jobs, GenerateCount(j)
    PROVE  SeriesInv'
<1> DEFINE n == Cardinality(Linked)
           g == [gen[j] EXCEPT !.step = "insert", !.total = n]
<1>1. /\ gen[j].step = "count" /\ series \in SeriesRow /\ gen[j] \in Gen /\ gen' = [gen EXCEPT ![j] = g]
      /\ UNCHANGED <<now, series, row, call, raced, disturbed>> /\ disturbed \in BOOLEAN
  BY AtWorkHolds, Zenon DEF GenerateCount, SeriesInv, SeriesTypes
<1>2. n \in Nat
  BY RowsFinite DEF Linked, Rows
<1> HIDE DEF n
<1>3. g \in Gen /\ g.step = "insert" /\ g.needed = gen[j].needed
  BY <1>1, <1>2, Zenon DEF Gen
<1> HIDE DEF g
<1>4. Room(j)
  BY Zenon DEF SeriesInv
<1> QED
  BY <1>1, <1>3, <1>4, GenMoves, Zenon DEF Room

\* The loop ends.
LEMMA GenerateStops ==
    ASSUME SeriesInv, NEW p \in Callers \cup Jobs, GenerateEnd(p) \/ AbandonCreate(p)
    PROVE  SeriesInv'
<1>1. Asleep \in Gen /\ Asleep.step = "idle"
  BY DEF Asleep, Gen
<1> HIDE DEF Asleep
<1>2. /\ gen[p].step = "insert" /\ series \in SeriesRow /\ gen' = [gen EXCEPT ![p] = Asleep]
      /\ UNCHANGED <<now, series, row, call, raced, disturbed>> /\ disturbed \in BOOLEAN
  BY AtWorkHolds, Zenon DEF GenerateEnd, AbandonCreate, SeriesInv, SeriesTypes
<1> QED
  BY <1>1, <1>2, GenMoves, Zenon

\* The row of an insert is free.
LEMMA FreeRowHolds ==
    ASSUME SeriesInv, RowLeft
    PROVE  FreeRow \in Events \ Rows
<1> DEFINE S == Events \ Rows
<1>1. Rows \in SUBSET Events /\ S \in SUBSET Events /\ S \in SUBSET Nat /\ MaxEvents \in Nat
  BY SeriesAssumption DEF Rows, Events
<1>2. S # {}
  <2> SUFFICES ASSUME S = {} PROVE FALSE
    OBVIOUS
  <2>1. Rows = Events
    BY <1>1
  <2>2. Cardinality(Events) = MaxEvents
    BY <1>1, FS_Interval DEF Events
  <2> QED
    BY <1>1, <2>1, <2>2 DEF RowLeft
<1>3. IsFiniteSet(S)
  BY <1>1, RowsFinite
<1> HIDE DEF S
<1>4. \E x \in S : \A y \in S : x <= y
  BY <1>1, <1>2, <1>3, Extremes
<1>5. Min(S) \in S
  BY <1>4 DEF Min
<1> QED
  BY <1>5 DEF FreeRow, S

\* One occurrence more takes one place of the window.
LEMMA GenerateInsertKeeps ==
    ASSUME SeriesInv, NEW p \in Callers \cup Jobs, GenerateInsert(p)
    PROVE  SeriesInv' /\ Rows' = Rows \cup {FreeRow} /\ (\A e \in Rows : row'[e] = row[e]) /\ FreeRow \notin Rows
<1> DEFINE f == FreeRow
           new == Occurrence(p)
           g == IF gen[p].needed = 1 THEN Asleep
                ELSE [gen[p] EXCEPT !.date = @ + 1, !.needed = @ - 1, !.total = @ + 1]
<1>1. /\ gen[p].step = "insert" /\ gen[p] \in Gen /\ series \in SeriesRow /\ Exists /\ RowLeft
      /\ row' = [row EXCEPT ![f] = new]
      /\ gen' = [gen EXCEPT ![p] = g]
      /\ UNCHANGED <<now, series, call, disturbed, raced>>
  <2>1. gen[p].step = "insert" /\ ~LoopEnds(p) /\ RowLeft /\ UNCHANGED <<now, series, call, disturbed, raced>>
    BY DEF GenerateInsert
  <2>2. row' = [row EXCEPT ![f] = new] /\ gen' = [gen EXCEPT ![p] = g]
    BY DEF GenerateInsert
  <2>3. gen[p] \in Gen /\ series \in SeriesRow /\ Exists
    BY <2>1, AtWorkHolds, Zenon DEF LoopEnds
  <2> HIDE DEF f, new, g
  <2> QED
    BY <2>1, <2>2, <2>3, Zenon
<1>2. f \in Events /\ f \notin Rows /\ row[f] = None
  BY <1>1, FreeRowHolds DEF Rows
<1>3. new \in EventRow /\ new.linked
  BY <1>1 DEF Occurrence, Gen, EventRow, Statuses
<1>4. new # None
  BY <1>3, SeriesAssumption
<1>5. gen[p].needed \in Nat /\ gen[p].needed >= 1
  BY <1>1 DEF SeriesInv, Room, Gen
<1>6. /\ g \in Gen /\ g.step \in {"idle", "insert"}
      /\ g.step = "insert" => g.needed = gen[p].needed - 1 /\ g.needed >= 1
  <2>1. CASE gen[p].needed = 1
    BY <2>1 DEF Asleep, Gen
  <2>2. CASE gen[p].needed # 1
    <3> DEFINE a == gen[p].date + 1
               b == gen[p].needed - 1
               c == gen[p].total + 1
               h == [gen[p] EXCEPT !.date = a, !.needed = b, !.total = c]
    <3>1. a \in Nat /\ b \in Nat /\ c \in Nat /\ b >= 1
      BY <1>1, <1>5, <2>2 DEF Gen
    <3>2. g = h
      BY <1>1, <2>2 DEF Gen
    <3> HIDE DEF a, b, c, g
    <3>3. h \in Gen /\ h.step = "insert" /\ h.needed = b
      BY <1>1, <3>1, Zenon DEF Gen
    <3> QED
      BY <3>1, <3>2, <3>3 DEF b
  <2> QED
    BY <2>1, <2>2
<1> HIDE DEF f, new, g
<1>7. /\ row' \in [Events -> EventRow \cup {None}] /\ row'[f] = new
      /\ \A e \in Events \ {f} : row'[e] = row[e]
  BY <1>1, <1>2, <1>3, Zenon DEF SeriesInv, SeriesTypes
<1>8. /\ gen' \in [Callers \cup Jobs -> Gen] /\ gen'[p] = g
      /\ \A o \in (Callers \cup Jobs) \ {p} : gen'[o] = gen[o]
  BY <1>1, <1>6, Zenon DEF SeriesInv, SeriesTypes
<1>9. Rows' = Rows \cup {f} /\ \A e \in Rows : row'[e] = row[e]
  BY <1>2, <1>4, <1>7, Zenon DEF Rows
<1>10. Future' \subseteq Future \cup {f}
  <2>1. \A x : Upcoming(x)' = Upcoming(x)
    BY <1>1, Zenon DEF Upcoming
  <2> QED
    BY <1>9, <2>1, Zenon DEF Future
<1>11. SeriesTypes'
  BY <1>1, <1>7, <1>8, Zenon DEF SeriesInv, SeriesTypes
<1>12. /\ Cardinality(Future') \in Nat /\ Cardinality(Future) \in Nat /\ Window \in Nat
       /\ Cardinality(Future') <= Cardinality(Future) + 1
  <2>1. Future \in SUBSET Events /\ Future \cup {f} \in SUBSET Events /\ Future' \in SUBSET Events
    BY <1>2, <1>10, Zenon DEF Future, Rows
  <2>2. /\ IsFiniteSet(Future) /\ Cardinality(Future) \in Nat /\ Cardinality(Future') \in Nat
        /\ IsFiniteSet(Future \cup {f}) /\ Cardinality(Future \cup {f}) \in Nat
    BY <2>1, RowsFinite
  <2>3. Cardinality(Future') <= Cardinality(Future \cup {f}) /\ Cardinality(Future \cup {f}) <= Cardinality(Future) + 1
    BY <1>10, <2>2, FS_Subset, FS_AddElement
  <2> QED
    BY <2>2, <2>3, SeriesAssumption
<1>13. ~disturbed => Cardinality(Future) + gen[p].needed <= Window
                     /\ \A q \in (Callers \cup Jobs) \ {p} : gen[q].step \notin {"count", "insert"}
  BY <1>1, Zenon DEF SeriesInv, Room
<1>14. WindowKept'
  BY <1>1, <1>5, <1>12, <1>13 DEF WindowKept
<1>15. ASSUME NEW o \in Callers \cup Jobs PROVE Room(o)'
  <2>1. CASE o = p
    BY <1>1, <1>5, <1>6, <1>8, <1>12, <1>13, <2>1 DEF Room
  <2>2. CASE o # p
    BY <1>1, <1>6, <1>8, <1>13, <2>2, Zenon DEF Room, SeriesInv
  <2> QED
    BY <2>1, <2>2, Zenon
<1>16. Exists' = Exists /\ Active' = Active /\ series # None
  BY <1>1, SeriesAssumption, Zenon DEF Exists, Active
<1>17. (\A r \in Callers : Seen(call[r])') /\ Stopped'
  BY <1>1, <1>8, <1>16, Zenon DEF Seen, Stopped, SeriesInv
<1>18. \A e \in Rows' : row'[e].linked
  BY <1>1, <1>3, <1>7, <1>9, Zenon DEF SeriesInv
<1> QED
  BY <1>1, <1>2, <1>9, <1>11, <1>14, <1>15, <1>16, <1>17, <1>18, Zenon DEF SeriesInv, f

\* The loop over a list is at one of its occurrences, and goes on without it.
LEMMA CurrentHolds ==
    ASSUME NEW q \in Call, q.todo \in Lists, DOMAIN q.todo # {}
    PROVE  /\ Current(q) \in DOMAIN q.todo /\ DOMAIN q.todo \subseteq Events
           /\ \A e \in DOMAIN q.todo : q.todo[e] \in EventRow
<1> DEFINE T == DOMAIN q.todo
           D == {q.todo[e].date : e \in T}
<1>1. PICK S \in SUBSET Events : q.todo \in [S -> EventRow]
  BY Zenon DEF Lists
<1>2. T = S /\ T # {} /\ \A e \in T : q.todo[e] \in EventRow
  BY <1>1
<1>3. D \in SUBSET Nat /\ D # {}
  BY <1>2 DEF EventRow
<1>4. IsFiniteSet(D)
  <2>1. [e \in T |-> q.todo[e].date] \in Surjection(T, D)
    BY Zenon DEF Surjection
  <2>2. IsFiniteSet(T)
    BY <1>2, RowsFinite
  <2> QED
    BY <2>1, <2>2, FS_Surjection
<1>5. \E x \in D : \A y \in D : x <= y
  <2> HIDE DEF D
  <2> QED
    BY <1>3, <1>4, Extremes
<1>6. \E e \in T : \A f \in T : q.todo[e].date <= q.todo[f].date
  BY <1>5, Zenon
<1>7. Current(q) \in T
  BY <1>6, Zenon DEF Current
<1> QED
  BY <1>1, <1>2, <1>7, Zenon

\* The request after an occurrence: over, or at the next one.
LEMMA RestHolds ==
    ASSUME NEW q \in Call, q.todo \in Lists, DOMAIN q.todo # {}, q.step \in {"each", "cancel"},
           Exists => \A e \in DOMAIN q.todo : q.todo[e].linked
    PROVE  /\ Rest(q) \in Call /\ Seen(Rest(q)) /\ Rest(q) # q /\ Rest(q).step \in {"idle", "each"}
           /\ Rest(q).op \in {None, q.op}
<1> DEFINE left == DOMAIN q.todo \ {Current(q)}
           t == [e \in left |-> q.todo[e]]
           w == [q EXCEPT !.step = "each", !.todo = t, !.event = None, !.copy = None]
<1>1. /\ Current(q) \in DOMAIN q.todo /\ DOMAIN q.todo \subseteq Events
      /\ \A e \in DOMAIN q.todo : q.todo[e] \in EventRow
  BY CurrentHolds
<1>2. CASE left = {}
  <2>1. Rest(q) = NoCall
    BY <1>2 DEF Rest
  <2>2. NoCall \in Call /\ NoCall.step = "idle" /\ NoCall.op = None
    BY Zenon DEF NoCall, Call
  <2> HIDE DEF NoCall
  <2> QED
    BY <2>1, <2>2, Zenon DEF Seen
<1>3. CASE left # {}
  <2>1. t \in Lists /\ DOMAIN t = left /\ \A e \in left : t[e] = q.todo[e]
    <3>1. left \in SUBSET Events /\ t \in [left -> EventRow]
      BY <1>1
    <3> HIDE DEF t, left
    <3>2. t \in Lists
      BY <3>1, Zenon DEF Lists
    <3> QED
      BY <3>2, Zenon DEF t
  <2>2. Rest(q) = w
    BY <1>3 DEF Rest
  <2> HIDE DEF t
  <2>3. w \in Call /\ w.step = "each" /\ w.todo = t /\ w.op = q.op
    BY <2>1, Zenon DEF Call
  <2> HIDE DEF w
  <2>4. t # q.todo
    BY <1>1, <2>1
  <2>5. Seen(w)
    <3>1. w.todo \in Lists /\ DOMAIN w.todo # {} /\ (Exists => \A e \in DOMAIN w.todo : w.todo[e].linked)
      BY <1>3, <2>1, <2>3
    <3> QED
      BY <2>3, <3>1, Zenon DEF Seen
  <2> QED
    BY <2>2, <2>3, <2>4, <2>5
<1> QED
  BY <1>2, <1>3, Zenon

\* A request reads an event or the series.
LEMMA EventReadKeeps ==
    ASSUME SeriesInv, NEW r \in Callers, NEW e \in Events, NEW op \in EventOps, EventRead(r, e, op)
    PROVE  SeriesInv'
<1> DEFINE c == row[e]
           q == [NoCall EXCEPT !.step = "event", !.op = op, !.event = e, !.copy = c]
<1>1. /\ e \in Rows /\ Allowed(op, c.status) /\ call' = [call EXCEPT ![r] = q]
      /\ UNCHANGED <<now, series, row, gen, disturbed, raced>>
  BY DEF EventRead, StartCall
<1>2. c \in EventRow /\ (Exists => c.linked) /\ series # None
  BY <1>1 DEF SeriesInv, SeriesTypes, Rows
<1> HIDE DEF c
<1>3. q \in Call /\ q.step = "event" /\ q.op = op /\ q.event = e /\ q.copy = c
  BY <1>2, Zenon DEF NoCall, Call
<1> HIDE DEF q
<1>4. Seen(q)
  BY <1>1, <1>2, <1>3, Zenon DEF Seen
<1> QED
  BY <1>1, <1>2, <1>3, <1>4, CallMoves, Zenon

\* UpdateSeries and StopSeries hold a copy of the row as it is.
LEMMA SeriesReadKeeps ==
    ASSUME SeriesInv, NEW r \in Callers, NEW op \in {"update", "stop"}, SeriesRead(r, op)
    PROVE  SeriesInv'
<1> DEFINE q == [NoCall EXCEPT !.step = "series", !.op = op, !.series = series]
<1>1. /\ Exists /\ call' = [call EXCEPT ![r] = q] /\ series \in SeriesRow
      /\ UNCHANGED <<now, series, row, gen, disturbed, raced>>
  BY DEF SeriesRead, StartCall, Exists, SeriesInv, SeriesTypes
<1>2. q \in Call /\ q.step = "series" /\ q.series = series
  BY <1>1, Zenon DEF NoCall, Call, EventOps
<1> HIDE DEF q
<1>3. Seen(q) /\ series # None
  BY <1>1, <1>2, Zenon DEF Seen, Exists
<1> QED
  BY <1>1, <1>2, <1>3, CallMoves, Zenon

\* A request at work has a series.
LEMMA CallHolds ==
    ASSUME SeriesInv, NEW r \in Callers, call[r].step # "idle"
    PROVE  series # None /\ series \in SeriesRow /\ call[r] \in Call /\ Seen(call[r])
BY DEF SeriesInv, SeriesTypes

\* The row a single-event operation writes.
LEMMA ChangedHolds ==
    ASSUME NEW op \in EventOps, NEW c \in EventRow, NEW d \in Nat
    PROVE  /\ Changed(op, c, d) \in EventRow /\ Changed(op, c, d).linked = c.linked
           /\ Allowed(op, c.status) /\ Changed(op, c, d).status # c.status
                => <<c.status, Changed(op, c, d).status>> \in Moves
<1>1. CASE op = "update"
  <2>1. Changed(op, c, d) = [c EXCEPT !.date = d]
    BY <1>1 DEF Changed
  <2> QED
    BY <2>1 DEF EventRow
<1>2. CASE op = "publish"
  <2>1. Changed(op, c, d) = [c EXCEPT !.status = "published"]
    BY <1>2 DEF Changed
  <2> QED
    BY <1>2, <2>1 DEF EventRow, Statuses, Moves, Allowed
<1>3. CASE op = "cancel"
  <2>1. Changed(op, c, d) = [c EXCEPT !.status = "cancelled"]
    BY <1>3 DEF Changed
  <2> QED
    BY <1>3, <2>1 DEF EventRow, Statuses, Moves, Allowed
<1>4. CASE op = "reopen"
  <2>1. Changed(op, c, d) = [c EXCEPT !.status = "draft"]
    BY <1>4 DEF Changed
  <2> QED
    BY <1>4, <2>1 DEF EventRow, Statuses, Moves, Allowed
<1>5. CASE op = "delete"
  <2>1. Changed(op, c, d) = [c EXCEPT !.status = "archived"]
    BY <1>5 DEF Changed
  <2> QED
    BY <1>5, <2>1 DEF EventRow, Statuses, Moves
<1> QED
  BY <1>1, <1>2, <1>3, <1>4, <1>5, Zenon DEF EventOps

\* The UPDATE of a single event, and of one occurrence of a series.
LEMMA EventWriteKeeps ==
    ASSUME SeriesInv, NEW r \in Callers, NEW delay \in 0..1, NEW notify \in BOOLEAN,
           EventWrite(r, call[r].copy.date + delay, notify)
    PROVE  SeriesInv' /\ Rows' = Rows
<1> DEFINE q == call[r]
           d == q.copy.date + delay
           new == Changed(q.op, q.copy, d)
<1>1. /\ q.step = "event" /\ Write(q.event, new) /\ call' = [call EXCEPT ![r] = NoCall]
      /\ UNCHANGED <<now, series, gen, raced>>
  BY Zenon DEF EventWrite
<1>2. /\ series # None /\ q.op \in EventOps /\ q.event \in Events /\ q.copy \in EventRow
      /\ Exists => q.copy.linked
  BY <1>1, CallHolds, Zenon DEF Seen
<1>3. d \in Nat
  BY <1>2 DEF EventRow
<1> HIDE DEF d
<1>4. new \in EventRow /\ (Exists => new.linked)
  BY <1>2, <1>3, ChangedHolds, Zenon
<1> HIDE DEF new
<1>5. NoCall \in Call /\ NoCall.step = "idle"
  BY Zenon DEF NoCall, Call
<1>6. Seen(NoCall)
  BY <1>5, Zenon DEF Seen
<1> QED
  BY <1>1, <1>2, <1>4, <1>5, <1>6, CallMoves, Zenon

\* The copy of the series is written back.  A stop that nobody raced leaves no
\* active copy behind, and what is written after it is not active.
LEMMA SeriesWriteKeeps ==
    ASSUME SeriesInv, NEW r \in Callers, NEW limit \in Limits, SeriesWrite(r, limit)
    PROVE  SeriesInv' /\ (~raced /\ Exists /\ ~Active => series'.status # "active")
<1> DEFINE q == call[r]
           new == IF q.op = "stop" THEN [q.series EXCEPT !.status = "stopped"]
                  ELSE [q.series EXCEPT !.limit = limit]
           w == [q EXCEPT !.step = "list", !.series = new]
<1>1. /\ q.step = "series" /\ series' = (IF Exists THEN new ELSE series)
      /\ call' = [call EXCEPT ![r] = w]
      /\ raced' = (raced \/ (q.op = "stop" /\ SawActive(r)))
      /\ UNCHANGED <<now, row, gen, disturbed>>
  BY Zenon DEF SeriesWrite
<1>2. q \in Call /\ Seen(q) /\ series \in SeriesRow /\ q.series \in SeriesRow
  BY <1>1, CallHolds DEF Seen
<1>3. /\ new \in SeriesRow /\ (q.op = "stop" => new.status = "stopped")
      /\ q.op # "stop" => new.status = q.series.status
  <2>1. limit \in Nat
    BY SeriesAssumption
  <2> QED
    BY <1>2, <2>1 DEF SeriesRow
<1> HIDE DEF new
<1>4. w \in Call /\ w.step = "list" /\ w.series = new
  BY <1>2, <1>3, Zenon DEF Call
<1> HIDE DEF w
<1>5. /\ call' \in [Callers -> Call] /\ call'[r] = w /\ \A o \in Callers \ {r} : call'[o] = call[o]
  BY <1>1, <1>4, Zenon DEF SeriesInv, SeriesTypes
<1>6. series' \in SeriesRow /\ series' # None /\ (Exists' => Exists)
  <2>1. series' \in SeriesRow
    BY <1>1, <1>2, <1>3, Zenon
  <2>2. series' # None
    BY <2>1, SeriesAssumption, Zenon
  <2>3. Exists' => Exists
    BY <1>1, Zenon DEF Exists
  <2> QED
    BY <2>1, <2>2, <2>3
<1>7. raced' \in BOOLEAN
  BY <1>1, Zenon DEF SeriesInv, SeriesTypes
<1>8. SeriesTypes'
  BY <1>1, <1>5, <1>6, <1>7, Zenon DEF SeriesInv, SeriesTypes
<1>9. Future' = Future /\ Rows' = Rows
  BY <1>1, Zenon DEF Future, Rows, Upcoming
<1>10. WindowKept' /\ \A p \in Callers \cup Jobs : Room(p)'
  BY <1>1, <1>9, FewerUpcoming, Zenon
<1>11. ASSUME NEW o \in Callers PROVE Seen(call[o])'
  <2>1. CASE o = r
    BY <1>3, <1>4, <1>5, <2>1, Zenon DEF Seen
  <2>2. CASE o # r
    <3>1. Seen(call[o]) /\ call'[o] = call[o]
      BY <1>5, <2>2, Zenon DEF SeriesInv
    <3> QED
      BY <1>6, <3>1, Zenon DEF Seen
  <2> QED
    BY <2>1, <2>2
<1>12. ~raced /\ Exists /\ ~Active => q.series.status # "active"
  BY <1>1, Zenon DEF SeriesInv, Stopped
<1>13. Stopped'
  <2> SUFFICES ASSUME ~raced' PROVE
        /\ \A o \in Callers : call'[o].step = "series" /\ call'[o].series.status # "active" => ~Active'
        /\ Exists' /\ ~Active' => /\ \A o \in Callers : call'[o].step = "series" => call'[o].series.status # "active"
                                  /\ \A p \in Callers \cup Jobs : gen'[p].step = "idle"
    BY Zenon DEF Stopped
  <2>1. ~raced /\ (q.op = "stop" => ~SawActive(r))
    BY <1>1, Zenon
  <2>2. CASE ~Exists
    <3>1. ~Exists' /\ ~Active'
      BY <1>6, <2>2 DEF Active
    <3> QED
      BY <3>1, Zenon
  <2>3. CASE Exists /\ q.op = "stop"
    <3>1. ~Active'
      BY <1>1, <1>3, <2>3, Zenon DEF Active
    <3>2. \A o \in Callers : call'[o].step = "series" => call'[o].series.status # "active"
      BY <1>4, <1>5, <2>1, <2>3, Zenon DEF SawActive
    <3>3. DOMAIN gen = Callers \cup Jobs
      BY Zenon DEF SeriesInv, SeriesTypes
    <3>4. \A p \in Callers \cup Jobs : gen'[p].step = "idle"
      BY <1>1, <2>1, <2>3, <3>3, Zenon DEF SawActive
    <3> QED
      BY <3>1, <3>2, <3>4, Zenon
  <2>4. CASE Exists /\ q.op # "stop"
    <3>1. series' = new /\ new.status = q.series.status
      BY <1>1, <1>3, <2>4, Zenon
    <3>2. CASE q.series.status = "active"
      <4>1. Active
        BY <1>12, <2>1, <2>4, <3>2, Zenon
      <4>2. Active'
        BY <1>6, <3>1, <3>2, Zenon DEF Active, Exists
      <4>3. \A o \in Callers : call[o].step = "series" => call[o].series.status = "active"
        BY <2>1, <4>1, Zenon DEF SeriesInv, Stopped
      <4> QED
        BY <1>4, <1>5, <4>2, <4>3, Zenon
    <3>3. CASE q.series.status # "active"
      <4>1. ~Active
        BY <1>1, <2>1, <3>3, Zenon DEF SeriesInv, Stopped
      <4>2. ~Active'
        BY <3>1, <3>3, Zenon DEF Active
      <4> QED
        BY <1>1, <1>4, <1>5, <2>1, <2>4, <4>1, <4>2, Zenon DEF SeriesInv, Stopped
    <3> QED
      BY <3>2, <3>3, Zenon
  <2> QED
    BY <2>2, <2>3, <2>4, Zenon
<1>14. Exists' => \A e \in Rows' : row'[e].linked
  BY <1>1, <1>6, <1>9, Zenon DEF SeriesInv
<1>15. SeriesInv'
  BY <1>6, <1>8, <1>10, <1>11, <1>13, <1>14, Zenon DEF SeriesInv
<1>16. ~raced /\ Exists /\ ~Active => series'.status # "active"
  BY <1>1, <1>3, <1>12, Zenon
<1> QED
  BY <1>15, <1>16

\* The list of a loop holds a copy of every upcoming occurrence.
LEMMA SeriesListKeeps ==
    ASSUME SeriesInv, NEW r \in Callers, SeriesList(r)
    PROVE  SeriesInv'
<1> DEFINE q == call[r]
           t == [e \in Future |-> row[e]]
           w == [q EXCEPT !.step = "each", !.todo = t]
           n == IF Future = {} THEN NoCall ELSE w
<1>1. q.step = "list" /\ call' = [call EXCEPT ![r] = n] /\ UNCHANGED <<now, series, row, gen, disturbed, raced>>
  BY DEF SeriesList
<1>2. q \in Call /\ series # None
  BY <1>1, CallHolds
<1>3. t \in Lists /\ DOMAIN t = Future /\ \A e \in Future : t[e] = row[e]
  <2>1. Future \in SUBSET Events /\ t \in [Future -> EventRow]
    BY DEF Future, Rows, SeriesInv, SeriesTypes
  <2> HIDE DEF t
  <2>2. t \in Lists
    BY <2>1 DEF Lists
  <2> QED
    BY <2>2 DEF t
<1> HIDE DEF t
<1>4. w \in Call /\ w.step = "each" /\ w.todo = t
  BY <1>2, <1>3, Zenon DEF Call
<1> HIDE DEF w
<1>5. NoCall \in Call /\ NoCall.step = "idle"
  BY Zenon DEF NoCall, Call
<1>6. Exists => \A e \in Future : t[e].linked
  BY <1>3, Zenon DEF SeriesInv, Future
<1>7. n \in Call /\ Seen(n) /\ n.step # "series"
  <2>1. CASE Future = {}
    BY <1>5, <2>1, Zenon DEF Seen
  <2>2. CASE Future # {}
    BY <1>3, <1>4, <1>6, <2>2, Zenon DEF Seen
  <2> QED
    BY <2>1, <2>2
<1> HIDE DEF n
<1> QED
  BY <1>1, <1>2, <1>7, CallMoves, Zenon

\* The loop is over a list of copies.
LEMMA LoopHolds ==
    ASSUME SeriesInv, NEW r \in Callers, call[r].step \in {"each", "cancel"}
    PROVE  /\ series # None /\ call[r] \in Call
           /\ Current(call[r]) \in Events /\ call[r].todo[Current(call[r])] \in EventRow
           /\ Exists => call[r].todo[Current(call[r])].linked
           /\ Rest(call[r]) \in Call /\ Seen(Rest(call[r])) /\ Rest(call[r]) # call[r]
           /\ Rest(call[r]).step # "series"
<1> DEFINE q == call[r]
<1>1. series # None /\ q \in Call /\ Seen(q)
  BY CallHolds, Zenon
<1>2. /\ q.todo \in Lists /\ DOMAIN q.todo # {} /\ q.step \in {"each", "cancel"}
      /\ Exists => \A e \in DOMAIN q.todo : q.todo[e].linked
  BY <1>1, Zenon DEF Seen
<1> HIDE DEF q
<1>3. /\ Current(q) \in DOMAIN q.todo /\ DOMAIN q.todo \subseteq Events
      /\ \A e \in DOMAIN q.todo : q.todo[e] \in EventRow
  BY <1>1, <1>2, CurrentHolds, Zenon
<1>4. Rest(q) \in Call /\ Seen(Rest(q)) /\ Rest(q) # q /\ Rest(q).step \in {"idle", "each"}
  BY <1>1, <1>2, RestHolds, Zenon
<1> QED
  BY <1>1, <1>2, <1>3, <1>4, Zenon DEF q

\* updateFutureOccurrences writes back one copy.
LEMMA UpdateOccurrenceKeeps ==
    ASSUME SeriesInv, NEW r \in Callers, UpdateOccurrence(r)
    PROVE  SeriesInv' /\ Rows' = Rows
<1> DEFINE q == call[r]
           e == Current(q)
           n == Rest(q)
<1>1. /\ q.step = "each" /\ Write(e, q.todo[e]) /\ call' = [call EXCEPT ![r] = n]
      /\ UNCHANGED <<now, series, gen, raced>>
  BY Zenon DEF UpdateOccurrence
<1>2. /\ series # None /\ e \in Events /\ q.todo[e] \in EventRow /\ (Exists => q.todo[e].linked)
      /\ n \in Call /\ Seen(n) /\ n.step # "series"
  BY <1>1, LoopHolds, Zenon
<1> HIDE DEF n, e
<1> QED
  BY <1>1, <1>2, CallMoves, Zenon

\* The row as a stop writes it.
LEMMA CancelledHolds ==
    ASSUME NEW c \in EventRow
    PROVE  /\ [c EXCEPT !.status = "cancelled"] \in EventRow
           /\ [c EXCEPT !.status = "cancelled"].linked = c.linked
           /\ [c EXCEPT !.status = "cancelled"].status = "cancelled"
BY DEF EventRow, Statuses

\* StopSeries cancels a draft or reads a published occurrence again.
LEMMA StopOccurrenceKeeps ==
    ASSUME SeriesInv, NEW r \in Callers, StopOccurrence(r)
    PROVE  SeriesInv' /\ Rows' = Rows
<1> DEFINE q == call[r]
           e == Current(q)
           n == Rest(q)
           new == [q.todo[e] EXCEPT !.status = "cancelled"]
           c == row[e]
           w == [q EXCEPT !.step = "cancel", !.event = e, !.copy = c]
<1>1. q.step = "each" /\ UNCHANGED <<now, series, gen, raced>>
  BY DEF StopOccurrence
<1>2. /\ series # None /\ e \in Events /\ q.todo[e] \in EventRow /\ (Exists => q.todo[e].linked)
      /\ n \in Call /\ Seen(n) /\ n.step # "series"
  BY <1>1, LoopHolds, Zenon
<1>3. CASE q.todo[e].status = "draft"
  <2>1. Write(e, new) /\ call' = [call EXCEPT ![r] = n]
    BY <1>3, Zenon DEF StopOccurrence
  <2>2. new \in EventRow /\ (Exists => new.linked)
    BY <1>2, CancelledHolds
  <2> HIDE DEF n, e, new
  <2> QED
    BY <1>1, <1>2, <2>1, <2>2, CallMoves, Zenon
<1>4. CASE q.todo[e].status # "draft" /\ e \in Rows /\ c.status = "published"
  <2>1. UNCHANGED <<row, disturbed>> /\ call' = [call EXCEPT ![r] = w]
    BY <1>4, Zenon DEF StopOccurrence
  <2>2. c \in EventRow /\ (Exists => c.linked)
    BY <1>4, Zenon DEF SeriesInv, SeriesTypes, Rows
  <2>3. q \in Call /\ Seen(q)
    BY <1>1, CallHolds, Zenon
  <2>4. q.todo \in Lists /\ DOMAIN q.todo # {} /\ (Exists => \A f \in DOMAIN q.todo : q.todo[f].linked)
    BY <1>1, <2>3, Zenon DEF Seen
  <2> HIDE DEF n, e, c
  <2>5. w \in Call /\ w.step = "cancel" /\ w.event = e /\ w.copy = c /\ w.todo = q.todo
    BY <1>2, <2>2, <2>3, Zenon DEF Call
  <2> HIDE DEF w
  <2>6. Seen(w)
    BY <1>2, <1>4, <2>2, <2>4, <2>5, Zenon DEF Seen
  <2> QED
    BY <1>1, <1>2, <2>1, <2>5, <2>6, CallMoves, Zenon
<1>5. CASE q.todo[e].status # "draft" /\ ~(e \in Rows /\ c.status = "published")
  <2>1. UNCHANGED <<row, disturbed>> /\ call' = [call EXCEPT ![r] = n]
    BY <1>5 DEF StopOccurrence
  <2> HIDE DEF n, e
  <2> QED
    BY <1>1, <1>2, <2>1, CallMoves, Zenon
<1> QED
  BY <1>3, <1>4, <1>5, Zenon

\* Cancel writes the row it has read as published.
LEMMA StopCancelKeeps ==
    ASSUME SeriesInv, NEW r \in Callers, StopCancel(r)
    PROVE  SeriesInv' /\ Rows' = Rows
<1> DEFINE q == call[r]
           n == Rest(q)
           new == [q.copy EXCEPT !.status = "cancelled"]
<1>1. /\ q.step = "cancel" /\ Write(q.event, new) /\ call' = [call EXCEPT ![r] = n]
      /\ UNCHANGED <<now, series, gen, raced>>
  BY DEF StopCancel
<1>2. series # None /\ n \in Call /\ Seen(n) /\ n.step # "series"
  BY <1>1, LoopHolds
<1>3. q.event \in Events /\ q.copy \in EventRow /\ (Exists => q.copy.linked)
  BY <1>1, CallHolds DEF Seen
<1>4. new \in EventRow /\ (Exists => new.linked)
  BY <1>3, CancelledHolds
<1> HIDE DEF n, new
<1> QED
  BY <1>1, <1>2, <1>3, <1>4, CallMoves, Zenon

\* The clock, the retention job's list and a stuttering step.
LEMMA TimePasses ==
    ASSUME SeriesInv, now' = now \/ now' = now + 1, UNCHANGED <<series, row, call, gen, disturbed, raced>>
    PROVE  SeriesInv' /\ Rows' = Rows
<1>1. Rows' = Rows /\ Exists' = Exists /\ Active' = Active
  BY Zenon DEF Rows, Exists, Active
<1>2. Future' \subseteq Future
  <2> SUFFICES ASSUME NEW e \in Future' PROVE e \in Future
    OBVIOUS
  <2>1. /\ e \in Rows /\ row[e].linked /\ row[e].date > now'
        /\ row[e].status \notin {"cancelled", "archived"}
    BY <1>1 DEF Future, Upcoming
  <2>2. row[e].date \in Nat /\ now \in Nat
    BY <2>1, Zenon DEF SeriesInv, SeriesTypes, Rows, EventRow
  <2>3. row[e].date > now
    BY <2>1, <2>2
  <2> QED
    BY <2>1, <2>3, Zenon DEF Future, Upcoming
<1>3. WindowKept' /\ \A p \in Callers \cup Jobs : Room(p)'
  BY <1>2, FewerUpcoming
<1>4. SeriesTypes'
  BY DEF SeriesInv, SeriesTypes
<1>5. (\A r \in Callers : Seen(call[r])') /\ Stopped'
  BY <1>1, Zenon DEF SeriesInv, Seen, Stopped
<1> QED
  BY <1>1, <1>3, <1>4, <1>5, Zenon DEF SeriesInv

\* DeleteSeries unlinks every row, so that nothing is upcoming any more.
LEMMA DeleteSeriesKeeps ==
    ASSUME SeriesInv, DeleteSeries
    PROVE  SeriesInv' /\ Linked' = {} /\ series'.status = "deleted"
           /\ \A e \in Events : row[e] # None => row'[e] # None /\ row'[e].status = row[e].status
<1> DEFINE gone == [series EXCEPT !.status = "deleted"]
<1>1. /\ series \in SeriesRow /\ series' = gone /\ UNCHANGED <<now, call, gen, disturbed, raced>>
      /\ row' = [e \in Events |-> IF e \in Linked THEN [row[e] EXCEPT !.linked = FALSE] ELSE row[e]]
  BY Zenon DEF DeleteSeries, Exists, SeriesInv, SeriesTypes
<1>2. gone \in SeriesRow /\ gone.status = "deleted"
  BY <1>1 DEF SeriesRow
<1> HIDE DEF gone
<1>3. series' # None /\ ~Exists' /\ ~Active'
  BY <1>1, <1>2, SeriesAssumption DEF Exists, Active
<1>4. ASSUME NEW e \in Events
      PROVE  /\ row'[e] \in EventRow \cup {None} /\ (row[e] = None => row'[e] = None)
             /\ row[e] # None => /\ row'[e] \in EventRow /\ row'[e] # None /\ ~row'[e].linked
                                 /\ row'[e].status = row[e].status
  <2>1. row[e] \in EventRow \cup {None} /\ row'[e] = (IF e \in Linked THEN [row[e] EXCEPT !.linked = FALSE] ELSE row[e])
    BY <1>1 DEF SeriesInv, SeriesTypes
  <2>2. CASE row[e] = None
    BY <2>1, <2>2 DEF Linked, Rows
  <2>3. CASE row[e] # None /\ row[e].linked
    <3> DEFINE new == [row[e] EXCEPT !.linked = FALSE]
    <3>1. row'[e] = new
      BY <2>1, <2>3 DEF Linked, Rows
    <3>2. new \in EventRow /\ ~new.linked /\ new.status = row[e].status
      BY <2>1, <2>3, Zenon DEF EventRow
    <3>3. new # None
      BY <3>2, SeriesAssumption, Zenon
    <3> QED
      BY <2>3, <3>1, <3>2, <3>3
  <2>4. CASE row[e] # None /\ ~row[e].linked
    <3>1. row'[e] = row[e]
      BY <2>1, <2>4 DEF Linked
    <3> QED
      BY <2>1, <2>4, <3>1, Zenon
  <2> QED
    BY <2>2, <2>3, <2>4, Zenon
<1>5. Linked' = {} /\ Future' = {}
  BY <1>4, Zenon DEF Linked, Future, Rows, Upcoming
<1>6. row' \in [Events -> EventRow \cup {None}]
  BY <1>1, <1>4
<1>7. SeriesTypes'
  BY <1>1, <1>2, <1>6 DEF SeriesInv, SeriesTypes
<1>8. WindowKept' /\ \A p \in Callers \cup Jobs : Room(p)'
  BY <1>1, <1>5, FewerUpcoming
<1>9. (\A r \in Callers : Seen(call[r])') /\ Stopped'
  BY <1>1, <1>3, Zenon DEF SeriesInv, Seen, Stopped
<1> QED
  BY <1>1, <1>2, <1>3, <1>4, <1>5, <1>7, <1>8, <1>9 DEF SeriesInv

\* The retention job takes rows away.
LEMMA ExpiredDeleteKeeps ==
    ASSUME SeriesInv, NEW j \in Jobs, ExpiredDelete(j)
    PROVE  SeriesInv' /\ Rows' \subseteq Rows /\ \A e \in Events : row'[e] \in {row[e], None}
<1>1. /\ \A e \in Events : row'[e] \in {row[e], None}
      /\ UNCHANGED <<now, series, call, gen, disturbed, raced>>
      /\ row' = [e \in Events |-> IF e \in expired[j] THEN None ELSE row[e]]
  BY Zenon DEF ExpiredDelete
<1>2. row' \in [Events -> EventRow \cup {None}]
  BY <1>1, Zenon DEF SeriesInv, SeriesTypes
<1>3. Rows' \subseteq Rows /\ \A e \in Rows' : row'[e] = row[e]
  BY <1>1, Zenon DEF Rows
<1>4. Future' \subseteq Future
  BY <1>1, <1>3, Zenon DEF Future, Upcoming
<1>5. SeriesTypes'
  BY <1>1, <1>2, Zenon DEF SeriesInv, SeriesTypes
<1>6. WindowKept' /\ \A p \in Callers \cup Jobs : Room(p)'
  BY <1>1, <1>4, FewerUpcoming, Zenon
<1>7. Exists' = Exists /\ Active' = Active
  BY <1>1, Zenon DEF Exists, Active
<1>8. (\A r \in Callers : Seen(call[r])') /\ Stopped'
  BY <1>1, <1>7, Zenon DEF SeriesInv, Seen, Stopped
<1> QED
  BY <1>1, <1>3, <1>5, <1>6, <1>7, <1>8, Zenon DEF SeriesInv

\* What LifecycleKept, StopIsFinal and StopNotifies say of one step.
LifecycleStep ==
    \A e \in Events :
        row[e] # None /\ row'[e] # None /\ row[e].status # row'[e].status
        => <<row[e].status, row'[e].status>> \in Moves \/ StaleWriter(e)
StopStep ==
    ~raced /\ Exists /\ ~Active => ~(series'.status = "active") /\ Linked' \subseteq Linked
NoticeStep ==
    \A r \in Callers, e \in Events :
        /\ call[r].op = "stop" /\ call'[r] # call[r]
        /\ e \in Rows /\ row[e].status = "published"
        /\ row'[e] # None /\ row'[e].status = "cancelled"
        => e \in notified' \/ StaleWriter(e)

\* A step after which every row that is left has its status.
LEMMA StatusesKept ==
    ASSUME \A e \in Events : row[e] # None => row'[e] = None \/ row'[e].status = row[e].status
    PROVE  LifecycleStep /\ NoticeStep
BY Zenon DEF LifecycleStep, NoticeStep, Rows

\* While the series exists every row is linked, so that a step that adds no row
\* links none.
LEMMA NoRowMore ==
    ASSUME SeriesInv, ~raced /\ Exists /\ ~Active => series'.status # "active" /\ Rows' \subseteq Rows
    PROVE  StopStep
BY Zenon DEF StopStep, Linked, SeriesInv

\* A step that leaves the series alone and adds no row.
LEMMA SeriesSame ==
    ASSUME SeriesInv, series' = series, Rows' \subseteq Rows
    PROVE  StopStep
BY NoRowMore DEF Active

\* The write of a row, made from the copy c: where c still is the row, its
\* status moves as the new one says.
LEMMA WriteLawful ==
    ASSUME SeriesInv, NEW r \in Callers, NEW e \in Events, NEW c \in EventRow, NEW new \in EventRow, NEW n,
           Write(e, new), call' = [call EXCEPT ![r] = n],
           c # row[e] => StaleWriter(e),
           new.status # c.status => <<c.status, new.status>> \in Moves,
           call[r].op = "stop" /\ c.status = "published" /\ new.status = "cancelled" => e \in notified'
    PROVE  LifecycleStep /\ NoticeStep
<1>1. row' = row \/ row' = [row EXCEPT ![e] = new]
  BY Zenon DEF Write
<1>2. row \in [Events -> EventRow \cup {None}] /\ DOMAIN call = Callers
  BY Zenon DEF SeriesInv, SeriesTypes
<1>3. (\A f \in Events \ {e} : row'[f] = row[f]) /\ row'[e] \in {row[e], new}
  BY <1>1, <1>2
<1>4. \A o \in Callers : call'[o] # call[o] => o = r
  BY <1>2
<1>5. LifecycleStep
  BY <1>3, Zenon DEF LifecycleStep
<1>6. NoticeStep
  BY <1>3, <1>4, Zenon DEF NoticeStep
<1> QED
  BY <1>5, <1>6, Zenon

\* Update, Publish, Cancel, Reopen and Delete were allowed from the status of
\* their copy.
LEMMA EventWriteLawful ==
    ASSUME SeriesInv, NEW r \in Callers, NEW delay \in 0..1, NEW notify \in BOOLEAN,
           EventWrite(r, call[r].copy.date + delay, notify)
    PROVE  LifecycleStep /\ NoticeStep
<1> DEFINE q == call[r]
           d == q.copy.date + delay
           new == Changed(q.op, q.copy, d)
<1>1. q.step = "event" /\ Write(q.event, new) /\ call' = [call EXCEPT ![r] = NoCall]
  BY Zenon DEF EventWrite
<1>2. q.op \in EventOps /\ q.event \in Events /\ q.copy \in EventRow /\ Allowed(q.op, q.copy.status)
  BY <1>1, CallHolds, Zenon DEF Seen
<1>3. d \in Nat
  BY <1>2 DEF EventRow
<1> HIDE DEF d
<1>4. new \in EventRow /\ (new.status # q.copy.status => <<q.copy.status, new.status>> \in Moves)
  BY <1>2, <1>3, ChangedHolds, Zenon
<1> HIDE DEF new
<1>5. call'[r] # call[r]
  <2>1. NoCall.step = "idle" /\ call'[r] = NoCall
    BY <1>1, Zenon DEF NoCall, SeriesInv, SeriesTypes
  <2> QED
    BY <1>1, <2>1, Zenon
<1>6. q.copy # row[q.event] => StaleWriter(q.event)
  BY <1>5, Zenon DEF StaleWriter
<1>7. q.op # "stop"
  BY <1>2, Zenon DEF EventOps
<1> QED
  BY <1>1, <1>2, <1>4, <1>6, <1>7, WriteLawful, Zenon

\* A loop that goes on is a request that moves.
LEMMA LoopMoves ==
    ASSUME SeriesInv, NEW r \in Callers, call[r].step \in {"each", "cancel"}, call' = [call EXCEPT ![r] = Rest(call[r])]
    PROVE  call'[r] # call[r]
<1>1. Rest(call[r]) # call[r]
  BY LoopHolds, Zenon
<1>2. call'[r] = Rest(call[r])
  BY Zenon DEF SeriesInv, SeriesTypes
<1> QED
  BY <1>1, <1>2, Zenon

\* updateFutureOccurrences leaves the status of its copy.
LEMMA UpdateOccurrenceLawful ==
    ASSUME SeriesInv, NEW r \in Callers, UpdateOccurrence(r)
    PROVE  LifecycleStep /\ NoticeStep
<1> DEFINE q == call[r]
           e == Current(q)
           n == Rest(q)
<1>1. q.step = "each" /\ q.op = "update" /\ Write(e, q.todo[e]) /\ call' = [call EXCEPT ![r] = n]
  BY Zenon DEF UpdateOccurrence
<1>2. e \in Events /\ q.todo[e] \in EventRow
  BY <1>1, LoopHolds, Zenon
<1>3. call'[r] # call[r]
  BY <1>1, LoopMoves, Zenon
<1>4. q.todo[e] # row[e] => StaleWriter(e)
  BY <1>1, <1>3, Zenon DEF StaleWriter
<1> HIDE DEF n, e
<1> QED
  BY <1>1, <1>2, <1>4, WriteLawful, Zenon

\* A stop cancels a draft by its copy; where the row is published by now the
\* copy is stale.
LEMMA StopOccurrenceLawful ==
    ASSUME SeriesInv, NEW r \in Callers, StopOccurrence(r)
    PROVE  LifecycleStep /\ NoticeStep
<1> DEFINE q == call[r]
           e == Current(q)
           n == Rest(q)
           c == q.todo[e]
           new == [c EXCEPT !.status = "cancelled"]
<1>1. q.step = "each"
  BY DEF StopOccurrence
<1>2. CASE c.status # "draft"
  <2>1. row' = row
    BY <1>2 DEF StopOccurrence
  <2> QED
    BY <2>1, StatusesKept
<1>3. CASE c.status = "draft"
  <2>1. Write(e, new) /\ call' = [call EXCEPT ![r] = n]
    BY <1>3, Zenon DEF StopOccurrence
  <2>2. e \in Events /\ c \in EventRow
    BY <1>1, LoopHolds, Zenon
  <2>3. new \in EventRow /\ new.status = "cancelled"
    BY <2>2, CancelledHolds
  <2>4. call'[r] # call[r]
    BY <1>1, <2>1, LoopMoves, Zenon
  <2>5. c # row[e] => StaleWriter(e)
    BY <1>1, <2>4, Zenon DEF StaleWriter
  <2>6. <<c.status, new.status>> \in Moves
    BY <1>3, <2>3 DEF Moves
  <2> HIDE DEF n, e, c, new
  <2> QED
    BY <1>3, <2>1, <2>2, <2>3, <2>5, <2>6, WriteLawful, Zenon
<1> QED
  BY <1>2, <1>3, Zenon

\* What is cancelled as published is announced.
LEMMA StopCancelLawful ==
    ASSUME SeriesInv, NEW r \in Callers, StopCancel(r)
    PROVE  LifecycleStep /\ NoticeStep
<1> DEFINE q == call[r]
           n == Rest(q)
           c == q.copy
           new == [c EXCEPT !.status = "cancelled"]
<1>1. /\ q.step = "cancel" /\ Write(q.event, new) /\ call' = [call EXCEPT ![r] = n]
      /\ q.event \in notified'
  BY Zenon DEF StopCancel
<1>2. q.event \in Events /\ c \in EventRow /\ c.status = "published"
  BY <1>1, CallHolds DEF Seen
<1>3. new \in EventRow /\ new.status = "cancelled"
  BY <1>2, CancelledHolds
<1>4. call'[r] # call[r]
  BY <1>1, LoopMoves, Zenon
<1>5. c # row[q.event] => StaleWriter(q.event)
  BY <1>4, Zenon DEF StaleWriter
<1>6. <<c.status, new.status>> \in Moves
  BY <1>2, <1>3 DEF Moves
<1> HIDE DEF n, c, new
<1> QED
  BY <1>1, <1>2, <1>3, <1>5, <1>6, WriteLawful, Zenon

\* Every step, action by action.
LEMMA SeriesStep ==
    ASSUME SeriesInv, [SeriesNext]_seriesVars
    PROVE  SeriesInv' /\ LifecycleStep /\ StopStep /\ NoticeStep
<1> DEFINE Kept == SeriesInv' /\ LifecycleStep /\ StopStep /\ NoticeStep
<1>1. CASE Tick \/ (\E j \in Jobs : ExpiredFind(j)) \/ UNCHANGED seriesVars
  <2>1. (now' = now \/ now' = now + 1) /\ UNCHANGED <<series, row, call, gen, disturbed, raced>>
    BY <1>1, Zenon DEF Tick, ExpiredFind, seriesVars
  <2> QED
    BY <2>1, TimePasses, StatusesKept, SeriesSame
<1>2. CASE DeleteSeries
  <2>1. /\ SeriesInv' /\ Linked' = {} /\ series'.status = "deleted"
        /\ \A e \in Events : row[e] # None => row'[e] # None /\ row'[e].status = row[e].status
    BY <1>2, DeleteSeriesKeeps, Zenon
  <2> QED
    BY <2>1, StatusesKept, Zenon DEF StopStep
<1>3. ASSUME NEW j \in Jobs, ExpiredDelete(j) PROVE Kept
  <2>1. SeriesInv' /\ Rows' \subseteq Rows /\ \A e \in Events : row'[e] \in {row[e], None}
    BY <1>3, ExpiredDeleteKeeps, Zenon
  <2>2. series' = series
    BY <1>3 DEF ExpiredDelete
  <2> QED
    BY <2>1, <2>2, StatusesKept, SeriesSame, Zenon
<1>4. ASSUME NEW p \in Callers \cup Jobs, GenerateInsert(p) PROVE Kept
  <2>1. SeriesInv' /\ \A e \in Rows : row'[e] = row[e]
    BY <1>4, GenerateInsertKeeps, Zenon
  <2>2. gen[p].step # "idle"
    BY <1>4 DEF GenerateInsert
  <2>3. StopStep
    BY <2>2, Zenon DEF StopStep, SeriesInv, Stopped
  <2> QED
    BY <2>1, <2>3, StatusesKept DEF Rows
<1>5. ASSUME NEW p \in Callers \cup Jobs,
             GenerateRead(p) \/ GenerateList(p) \/ GenerateCount(p) \/ GenerateEnd(p) \/ AbandonCreate(p)
      PROVE  Kept
  <2>1. SeriesInv'
    BY <1>5, GenerateReadKeeps, GenerateListKeeps, GenerateCountKeeps, GenerateStops, Zenon
  <2>2. UNCHANGED <<series, row>>
    BY <1>5, Zenon DEF GenerateRead, GenerateList, GenerateCount, GenerateEnd, AbandonCreate
  <2>3. Rows' \subseteq Rows
    BY <2>2 DEF Rows
  <2> QED
    BY <2>1, <2>2, <2>3, StatusesKept, SeriesSame, SMTT(30)
<1>6. ASSUME NEW r \in Callers, OnEvent(r) PROVE Kept
  <2>1. ASSUME NEW e \in Events, NEW op \in EventOps, EventRead(r, e, op) PROVE Kept
    <3>1. SeriesInv' /\ UNCHANGED <<series, row>>
      BY <2>1, EventReadKeeps, Zenon DEF EventRead
    <3>2. Rows' \subseteq Rows
      BY <3>1 DEF Rows
    <3> QED
      BY <3>1, <3>2, StatusesKept, SeriesSame, Zenon
  <2>2. ASSUME NEW delay \in 0..1, NEW notify \in BOOLEAN, EventWrite(r, call[r].copy.date + delay, notify)
        PROVE  Kept
    <3>1. SeriesInv' /\ Rows' = Rows /\ LifecycleStep /\ NoticeStep
      BY <2>2, EventWriteKeeps, EventWriteLawful, Zenon
    <3>2. series' = series
      BY <2>2, Zenon DEF EventWrite
    <3> QED
      BY <3>1, <3>2, SeriesSame
  <2> QED
    BY <1>6, <2>1, <2>2, Zenon DEF OnEvent
<1>7. ASSUME NEW r \in Callers, NEW limit \in Limits, NEW d \in {now, now + 1}, CreateSeries(r, limit, d)
      PROVE  Kept
  <2>1. SeriesInv' /\ row' = row /\ series = None
    BY <1>7, CreateSeriesKeeps, Zenon DEF CreateSeries
  <2>2. StopStep
    BY <2>1 DEF StopStep, Exists
  <2> QED
    BY <2>1, <2>2, StatusesKept
<1>8. ASSUME NEW r \in Callers, NEW limit \in Limits, SeriesWrite(r, limit) PROVE Kept
  <2>1. SeriesInv' /\ (~raced /\ Exists /\ ~Active => series'.status # "active") /\ row' = row
    BY <1>8, SeriesWriteKeeps, Zenon DEF SeriesWrite
  <2>2. Rows' \subseteq Rows
    BY <2>1, Zenon DEF Rows
  <2> QED
    BY <2>1, <2>2, StatusesKept, NoRowMore
<1>9. ASSUME NEW r \in Callers, (\E op \in {"update", "stop"} : SeriesRead(r, op)) \/ SeriesList(r) PROVE Kept
  <2>1. SeriesInv' /\ UNCHANGED <<series, row>>
    BY <1>9, SeriesReadKeeps, SeriesListKeeps, Zenon DEF SeriesRead, SeriesList
  <2>2. Rows' \subseteq Rows
    BY <2>1, Zenon DEF Rows
  <2> QED
    BY <2>1, <2>2, StatusesKept, SeriesSame
<1>10. ASSUME NEW r \in Callers, UpdateOccurrence(r) \/ StopOccurrence(r) \/ StopCancel(r) PROVE Kept
  <2>1. SeriesInv' /\ Rows' = Rows
    BY <1>10, UpdateOccurrenceKeeps, StopOccurrenceKeeps, StopCancelKeeps, Zenon
  <2>2. LifecycleStep /\ NoticeStep
    BY <1>10, UpdateOccurrenceLawful, StopOccurrenceLawful, StopCancelLawful, Zenon
  <2>3. series' = series
    BY <1>10, Zenon DEF UpdateOccurrence, StopOccurrence, StopCancel
  <2> QED
    BY <2>1, <2>2, <2>3, SeriesSame, SMTT(30)
<1> SUFFICES Kept
  OBVIOUS
<1> HIDE DEF Kept
<1>11. ASSUME NEW r \in Callers, OnSeries(r) PROVE Kept
  BY <1>4, <1>5, <1>7, <1>8, <1>9, <1>10, <1>11, Zenon DEF OnSeries
<1>12. ASSUME NEW j \in Jobs, Job(j) PROVE Kept
  BY <1>4, <1>5, <1>12, Zenon DEF Job
<1>13. CASE Tick \/ (\E j \in Jobs : ExpiredFind(j)) \/ UNCHANGED seriesVars
  BY <1>1, <1>13, Zenon DEF Kept
<1>14. CASE DeleteSeries
  BY <1>2, <1>14, Zenon DEF Kept
<1>15. CASE SeriesNext
  <2>1. ASSUME NEW r \in Callers, OnEvent(r) \/ OnSeries(r) PROVE Kept
    BY <1>6, <1>11, <2>1, Zenon
  <2>2. ASSUME NEW j \in Jobs, Job(j) \/ ExpiredFind(j) \/ ExpiredDelete(j) PROVE Kept
    BY <1>3, <1>12, <1>13, <2>2, Zenon
  <2>3. CASE Tick
    BY <1>13, <2>3, Zenon
  <2> QED
    BY <1>14, <1>15, <2>1, <2>2, <2>3, Zenon DEF SeriesNext
<1> QED
  BY <1>13, <1>15

\* There are never more than Window upcoming occurrences, for every window,
\* limit, number of organizers and of server processes, unless two generators
\* overlapped or a write brought an occurrence back (GenerateOccurrences).
THEOREM WindowKeptHolds == SeriesSpec => []WindowKept
<1>1. SeriesInv /\ [SeriesNext]_seriesVars => SeriesInv'
  BY SeriesStep, Zenon
<1>2. SeriesInv => WindowKept
  BY Zenon DEF SeriesInv
<1> QED
  BY SeriesStarts, <1>1, <1>2, PTL DEF SeriesSpec

\* The status of an event moves only as Publish, Cancel, Reopen, Delete and
\* StopSeries say, unless the copy of the writer was stale.
THEOREM LifecycleKeptHolds == SeriesSpec => LifecycleKept
<1>1. SeriesInv /\ [SeriesNext]_seriesVars => SeriesInv' /\ [LifecycleStep]_seriesVars
  BY SeriesStep
<1>2. SeriesSpec => [][LifecycleStep]_seriesVars
  BY SeriesStarts, <1>1, PTL DEF SeriesSpec
<1> QED
  BY <1>2 DEF LifecycleKept, LifecycleStep

\* After a stop that no other caller raced, no step makes the series active or
\* links a row to it.
THEOREM StopIsFinalHolds == SeriesSpec => StopIsFinal
<1>1. SeriesInv /\ [SeriesNext]_seriesVars => SeriesInv' /\ [StopStep]_seriesVars
  BY SeriesStep
<1>2. SeriesSpec => [][StopStep]_seriesVars
  BY SeriesStarts, <1>1, PTL DEF SeriesSpec
<1> QED
  BY <1>2, Zenon DEF StopIsFinal, StopStep

\* StopSeries cancels no published occurrence without the notice of Cancel,
\* unless its list is older than the publication.
THEOREM StopNotifiesHolds == SeriesSpec => StopNotifies
<1>1. SeriesInv /\ [SeriesNext]_seriesVars => SeriesInv' /\ [NoticeStep]_seriesVars
  BY SeriesStep
<1>2. SeriesSpec => [][NoticeStep]_seriesVars
  BY SeriesStarts, <1>1, PTL DEF SeriesSpec
<1> QED
  BY <1>2, Zenon DEF StopNotifies, NoticeStep
=============================================================================
