---------------------------- MODULE EventSeries ----------------------------
(***************************************************************************)
(* Events and one event series (internal/event service.go, store.go,       *)
(* series_service.go, series_store.go), the hourly series generator        *)
(* (internal/scheduler series_job.go) and the retention job (cleanup.go).  *)
(*                                                                         *)
(* None of these operations is a transaction: each reads a row, changes    *)
(* the copy and writes the whole row back by its id.  An action is one     *)
(* statement; what a caller read stays in its copy.                        *)
(*                                                                         *)
(* Dates count recurrence periods.  Left out: the template fields copied   *)
(* to occurrences and their editing, which no guard looks at (no operation *)
(* sets series_override); events outside the series; who may manage an     *)
(* event (EventMembership); what is copied to an occurrence on creation.   *)
(***************************************************************************)
EXTENDS Absence, Naturals, FiniteSetsExt

CONSTANTS Callers,      \* organizers' requests in flight
          Jobs,         \* server processes, each with its hourly jobs
          Window,       \* occurrences kept upcoming, 4 in the code
          Limits,       \* values of max_occurrences
          RecurrenceEnd,\* recurrence_end
          Retention,    \* retention_days, in periods
          MaxEvents,    \* bound: events rows
          MaxTime,      \* bound: the clock
          MaxEdits      \* bound: requests that are started

Events == 1..MaxEvents
Statuses == {"draft", "published", "cancelled", "archived"}

\* An events row and an event_series row; linked stands for series_id.
EventRow == [date : Nat, status : Statuses, linked : BOOLEAN]
SeriesRow == [status : {"active", "stopped", "deleted"}, limit : Nat]

ASSUME SeriesAssumption ==
    /\ {Window, RecurrenceEnd, Retention, MaxEvents, MaxTime, MaxEdits} \subseteq Nat
    /\ Window > 0 /\ Limits \subseteq Nat
    /\ Callers \cap Jobs = {}
    /\ None \notin Events \cup EventRow \cup SeriesRow

EventOps == {"update", "publish", "cancel", "reopen", "delete"}

VARIABLES
    now,      \* the clock
    series,   \* the event_series row
    row,      \* events
    call,     \* requests in flight
    gen,      \* a generator at work, of a job or of a request that creates
    expired,  \* ids the retention job of a process is about to delete
    edits,    \* requests started so far
    notified, \* events whose households were sent the cancellation
    disturbed,\* history: a generator overlapped another, or a write brought an
              \* occurrence back among the upcoming ones
    raced     \* history: the series was stopped under a caller that saw it active

seriesVars == <<now, series, row, call, gen, expired, edits, notified, disturbed, raced>>

NoCall == [step |-> "idle", op |-> None, event |-> None, copy |-> None,
           series |-> None, todo |-> None]
Asleep == [step |-> "idle", series |-> None, date |-> 0, needed |-> 0, total |-> 0]

Rows == {e \in Events : row[e] # None}
Linked == {e \in Rows : row[e].linked}
\* FindFutureBySeriesID
Upcoming(x) == x.linked /\ x.date > now /\ x.status \notin {"cancelled", "archived"}
Future == {e \in Rows : Upcoming(row[e])}
LastDate(S) == Max({row[e].date : e \in S})
Exists == series # None /\ series.status # "deleted"
Active == Exists /\ series.status = "active"

\* Bound: rows are left for every insert under way.
RowLeft == MaxEvents > Cardinality(Rows)
FreeRow == Min(Events \ Rows)

SeriesInit ==
    /\ now = 0
    /\ series = None
    /\ row = [e \in Events |-> None]
    /\ call = [r \in Callers |-> NoCall]
    /\ gen = [p \in Callers \cup Jobs |-> Asleep]
    /\ expired = [j \in Jobs |-> {}]
    /\ edits = 0
    /\ notified = {}
    /\ disturbed = FALSE
    /\ raced = FALSE

Tick ==
    /\ now < MaxTime
    /\ now' = now + 1
    /\ UNCHANGED <<series, row, call, gen, expired, edits, notified, disturbed, raced>>

-----------------------------------------------------------------------------
(* Generating occurrences.                                                 *)

\* CreateSeries inserts the row; the request then generates the first
\* occurrences from the start date on.
CreateSeries(r, limit, d) ==
    /\ call[r] = NoCall /\ gen[r] = Asleep
    /\ edits < MaxEdits /\ edits' = edits + 1
    /\ series = None
    /\ series' = [status |-> "active", limit |-> limit]
    /\ gen' = [gen EXCEPT ![r] = [step |-> "insert", series |-> series', date |-> d,
                                  needed |-> Window, total |-> 0]]
    /\ UNCHANGED <<now, row, call, expired, notified, disturbed, raced>>

\* Mutant: the status of the series is not looked at.
GenerateReadAny(j) ==
    /\ gen[j] = Asleep
    /\ Exists
    /\ gen' = [gen EXCEPT ![j].step = "list", ![j].series = series]
    /\ UNCHANGED <<now, series, row, call, expired, edits, notified, disturbed, raced>>

\* GenerateOccurrences reads the series,
GenerateRead(j) ==
    /\ gen[j] = Asleep
    /\ Active
    /\ gen' = [gen EXCEPT ![j].step = "list", ![j].series = series]
    /\ UNCHANGED <<now, series, row, call, expired, edits, notified, disturbed, raced>>

\* Mutant: the upcoming ones are not subtracted.
GenerateListFull(j) ==
    LET last == IF Future # {} THEN LastDate(Future)
                ELSE IF Linked # {} THEN LastDate(Linked) ELSE now IN
    /\ gen[j].step = "list"
    /\ IF Cardinality(Future) >= Window
       THEN gen' = [gen EXCEPT ![j] = Asleep] /\ UNCHANGED disturbed
       ELSE /\ gen' = [gen EXCEPT ![j].step = "count", ![j].date = last + 1,
                                  ![j].needed = Window]
            /\ disturbed' = (disturbed \/ \E p \in DOMAIN gen \ {j} : gen[p] # Asleep)
    /\ UNCHANGED <<now, series, row, call, expired, edits, notified, raced>>

\* its upcoming occurrences, or all of them when none is upcoming,
GenerateList(j) ==
    LET last == IF Future # {} THEN LastDate(Future)
                ELSE IF Linked # {} THEN LastDate(Linked) ELSE now IN
    /\ gen[j].step = "list"
    /\ IF Cardinality(Future) >= Window
       THEN gen' = [gen EXCEPT ![j] = Asleep] /\ UNCHANGED disturbed
       ELSE /\ gen' = [gen EXCEPT ![j].step = "count", ![j].date = last + 1,
                                  ![j].needed = Window - Cardinality(Future)]
            /\ disturbed' = (disturbed \/ \E p \in DOMAIN gen \ {j} : gen[p] # Asleep)
    /\ UNCHANGED <<now, series, row, call, expired, edits, notified, raced>>

\* the number of its events,
GenerateCount(j) ==
    /\ gen[j].step = "count"
    /\ gen' = [gen EXCEPT ![j].step = "insert", ![j].total = Cardinality(Linked)]
    /\ UNCHANGED <<now, series, row, call, expired, edits, notified, disturbed, raced>>

\* The loop ends at max_occurrences, at recurrence_end, or when the foreign
\* key fails because the series was deleted.
LoopEnds(p) ==
    \/ gen[p].total >= gen[p].series.limit
    \/ gen[p].date > RecurrenceEnd
    \/ ~Exists

\* buildOccurrenceFromSeries
Occurrence(p) ==
    [date |-> gen[p].date, status |-> "published", linked |-> TRUE]

\* and inserts one occurrence after the other.
GenerateInsert(p) ==
    LET g == gen[p] IN
    /\ g.step = "insert" /\ ~LoopEnds(p)
    /\ RowLeft
    /\ row' = [row EXCEPT ![FreeRow] = Occurrence(p)]
    /\ gen' = [gen EXCEPT ![p] = IF g.needed = 1 THEN Asleep
                                 ELSE [g EXCEPT !.date = @ + 1, !.needed = @ - 1, !.total = @ + 1]]
    /\ UNCHANGED <<now, series, call, expired, edits, notified, disturbed, raced>>

GenerateEnd(p) ==
    /\ gen[p].step = "insert" /\ LoopEnds(p)
    /\ gen' = [gen EXCEPT ![p] = Asleep]
    /\ UNCHANGED <<now, series, row, call, expired, edits, notified, disturbed, raced>>

\* The client of CreateSeries goes away: its context ends the loop.
AbandonCreate(r) ==
    /\ gen[r].step = "insert"
    /\ gen' = [gen EXCEPT ![r] = Asleep]
    /\ UNCHANGED <<now, series, row, call, expired, edits, notified, disturbed, raced>>

-----------------------------------------------------------------------------
(* Requests on a single event.                                             *)

StartCall(r, state) ==
    /\ call[r] = NoCall /\ gen[r] = Asleep
    /\ edits < MaxEdits /\ edits' = edits + 1
    /\ call' = [call EXCEPT ![r] = state]

\* Store.Update: the whole row, if it is still there; the foreign key refuses
\* a copy that names a deleted series.  An occurrence that becomes upcoming
\* by it is one that no generator accounts for.
Write(e, new) ==
    IF row[e] = None \/ (new.linked /\ ~Exists)
    THEN UNCHANGED <<row, disturbed>>
    ELSE /\ row' = [row EXCEPT ![e] = new]
         /\ disturbed' = (disturbed \/ (Upcoming(new) /\ ~Upcoming(row[e])))

\* Mutant: an event is reopened from any status.
AllowedReopen(op, status) ==
    CASE op = "publish" -> status = "draft"
      [] op = "cancel"  -> status = "published"
      [] OTHER -> TRUE

\* Publish, Cancel and Reopen refuse an event in another status.
Allowed(op, status) ==
    CASE op = "publish" -> status = "draft"
      [] op = "cancel"  -> status = "published"
      [] op = "reopen"  -> status = "cancelled"
      [] OTHER -> TRUE

EventRead(r, e, op) ==
    /\ e \in Rows
    /\ Allowed(op, row[e].status)
    /\ StartCall(r, [NoCall EXCEPT !.step = "event", !.op = op, !.event = e, !.copy = row[e]])
    /\ UNCHANGED <<now, series, row, gen, expired, notified, disturbed, raced>>

\* The row as the operation leaves it; d is the date an update asks for.
Changed(op, copy, d) ==
    CASE op = "update"  -> [copy EXCEPT !.date = d]
      [] op = "publish" -> [copy EXCEPT !.status = "published"]
      [] op = "cancel"  -> [copy EXCEPT !.status = "cancelled"]
      [] op = "reopen"  -> [copy EXCEPT !.status = "draft"]
      [] op = "delete"  -> [copy EXCEPT !.status = "archived"]

\* The UPDATE; Cancel then sends the notices if it was asked to.
EventWrite(r, d, notify) ==
    LET q == call[r] IN
    /\ q.step = "event"
    /\ Write(q.event, Changed(q.op, q.copy, d))
    /\ notified' = IF q.op = "cancel" /\ notify THEN notified \cup {q.event} ELSE notified
    /\ call' = [call EXCEPT ![r] = NoCall]
    /\ UNCHANGED <<now, series, gen, expired, edits, raced>>

-----------------------------------------------------------------------------
(* Requests on the series.                                                 *)

\* UpdateSeries and StopSeries read the row,
SeriesRead(r, op) ==
    /\ Exists
    /\ StartCall(r, [NoCall EXCEPT !.step = "series", !.op = op, !.series = series])
    /\ UNCHANGED <<now, series, row, gen, expired, notified, disturbed, raced>>

\* Callers other than r that hold a copy of the series that is active.
SawActive(r) ==
    \/ \E q \in Callers \ {r} : call[q].step = "series" /\ call[q].series.status = "active"
    \/ \E p \in DOMAIN gen : gen[p].step # "idle"

\* write all of it back,
SeriesWrite(r, limit) ==
    LET q == call[r]
        new == IF q.op = "stop" THEN [q.series EXCEPT !.status = "stopped"]
               ELSE [q.series EXCEPT !.limit = limit] IN
    /\ q.step = "series"
    /\ series' = IF Exists THEN new ELSE series
    /\ call' = [call EXCEPT ![r].step = "list", ![r].series = new]
    /\ raced' = (raced \/ (q.op = "stop" /\ SawActive(r)))
    /\ UNCHANGED <<now, row, gen, expired, edits, notified, disturbed>>

\* list the upcoming occurrences, copies included,
SeriesList(r) ==
    LET q == call[r] IN
    /\ q.step = "list"
    /\ call' = [call EXCEPT ![r] =
                      IF Future = {} THEN NoCall
                      ELSE [q EXCEPT !.step = "each", !.todo = [e \in Future |-> row[e]]]]
    /\ UNCHANGED <<now, series, row, gen, expired, edits, notified, disturbed, raced>>

\* The occurrence the loop is at, and the request after it.
Current(q) == CHOOSE e \in DOMAIN q.todo : \A f \in DOMAIN q.todo : q.todo[e].date <= q.todo[f].date
Rest(q) ==
    LET left == DOMAIN q.todo \ {Current(q)} IN
    IF left = {} THEN NoCall ELSE [q EXCEPT !.step = "each", !.todo = [e \in left |-> q.todo[e]],
                                            !.event = None, !.copy = None]

\* and write each of them back: updateFutureOccurrences.  No operation sets
\* series_override, so that no occurrence is skipped.
UpdateOccurrence(r) ==
    LET q == call[r]
        e == Current(q) IN
    /\ q.step = "each" /\ q.op = "update"
    /\ Write(e, q.todo[e])
    /\ call' = [call EXCEPT ![r] = Rest(q)]
    /\ UNCHANGED <<now, series, gen, expired, edits, notified, raced>>

\* Mutant: every occurrence is cancelled by the write of its copy.
StopOccurrenceDirect(r) ==
    LET q == call[r]
        e == Current(q) IN
    /\ q.step = "each" /\ q.op = "stop"
    /\ Write(e, [q.todo[e] EXCEPT !.status = "cancelled"])
    /\ call' = [call EXCEPT ![r] = Rest(q)]
    /\ UNCHANGED <<now, series, gen, expired, edits, notified, raced>>

\* StopSeries: an occurrence listed as a draft is cancelled by the write of
\* its copy; one listed as published goes through Cancel, which reads it again.
StopOccurrence(r) ==
    LET q == call[r]
        e == Current(q) IN
    /\ q.step = "each" /\ q.op = "stop"
    /\ IF q.todo[e].status = "draft"
       THEN /\ Write(e, [q.todo[e] EXCEPT !.status = "cancelled"])
            /\ call' = [call EXCEPT ![r] = Rest(q)]
       ELSE /\ call' = [call EXCEPT ![r] =
                              IF e \in Rows /\ row[e].status = "published"
                              THEN [q EXCEPT !.step = "cancel", !.event = e, !.copy = row[e]]
                              ELSE Rest(q)]
            /\ UNCHANGED <<row, disturbed>>
    /\ UNCHANGED <<now, series, gen, expired, edits, notified, raced>>

StopCancel(r) ==
    LET q == call[r] IN
    /\ q.step = "cancel"
    /\ Write(q.event, [q.copy EXCEPT !.status = "cancelled"])
    /\ notified' = notified \cup {q.event}
    /\ call' = [call EXCEPT ![r] = Rest(q)]
    /\ UNCHANGED <<now, series, gen, expired, edits, raced>>

\* DeleteSeries: ON DELETE SET NULL unlinks the occurrences.
DeleteSeries ==
    /\ Exists
    /\ edits < MaxEdits /\ edits' = edits + 1
    /\ series' = [series EXCEPT !.status = "deleted"]
    /\ row' = [e \in Events |-> IF e \in Linked THEN [row[e] EXCEPT !.linked = FALSE] ELSE row[e]]
    /\ UNCHANGED <<now, call, gen, expired, notified, disturbed, raced>>

-----------------------------------------------------------------------------
(* Retention.                                                              *)

\* deleteExpired lists the ids of the events past their retention,
ExpiredFind(j) ==
    LET found == {e \in Rows : row[e].date + Retention < now /\ row[e].status # "archived"} IN
    /\ expired[j] = {} /\ found # {}
    /\ expired' = [expired EXCEPT ![j] = found]
    /\ UNCHANGED <<now, series, row, call, gen, edits, notified, disturbed, raced>>

\* and deletes by id alone.
ExpiredDelete(j) ==
    /\ expired[j] # {}
    /\ row' = [e \in Events |-> IF e \in expired[j] THEN None ELSE row[e]]
    /\ notified' = notified \ expired[j]
    /\ expired' = [expired EXCEPT ![j] = {}]
    /\ UNCHANGED <<now, series, call, gen, edits, disturbed, raced>>

-----------------------------------------------------------------------------
Job(j) == GenerateRead(j) \/ GenerateList(j) \/ GenerateCount(j)
          \/ GenerateInsert(j) \/ GenerateEnd(j)

OnEvent(r) ==
    \/ \E e \in Events, op \in EventOps : EventRead(r, e, op)
    \/ \E delay \in 0..1, notify \in BOOLEAN : EventWrite(r, call[r].copy.date + delay, notify)

OnSeries(r) ==
    \/ \E limit \in Limits, d \in {now, now + 1} : CreateSeries(r, limit, d)
    \/ GenerateInsert(r) \/ GenerateEnd(r) \/ AbandonCreate(r)
    \/ \E op \in {"update", "stop"} : SeriesRead(r, op)
    \/ \E limit \in Limits : SeriesWrite(r, limit)
    \/ SeriesList(r)
    \/ UpdateOccurrence(r)
    \/ StopOccurrence(r)
    \/ StopCancel(r)

SeriesNext ==
    \/ Tick
    \/ DeleteSeries
    \/ \E r \in Callers : OnEvent(r) \/ OnSeries(r)
    \/ \E j \in Jobs : Job(j) \/ ExpiredFind(j) \/ ExpiredDelete(j)

SeriesSpec == SeriesInit /\ [][SeriesNext]_seriesVars

-----------------------------------------------------------------------------
(* Properties.                                                             *)

\* "GenerateOccurrences maintains a rolling window of 4 upcoming occurrences":
\* there are never more, through creation, ticks, stops, updates, deletions and
\* retention, unless two generators counted before either had finished or an
\* occurrence was reopened, moved or written back among the upcoming ones.
WindowKept == ~disturbed => Cardinality(Future) <= Window

\* The lifecycle of an event: a status moves only as Publish, Cancel, Reopen,
\* Delete and StopSeries say, unless the writer's copy was no longer the row.
\* So an archived event comes back only by a write that missed the deletion.
Moves == {<<"draft", "published">>, <<"published", "cancelled">>, <<"cancelled", "draft">>,
          <<"draft", "cancelled">>} \cup {<<s, "archived">> : s \in Statuses}
StaleWriter(e) ==
    \E r \in Callers :
        /\ call'[r] # call[r]
        /\ \/ call[r].event = e /\ call[r].copy # row[e]
           \/ call[r].step = "each" /\ Current(call[r]) = e /\ call[r].todo[e] # row[e]
LifecycleKept ==
    [][\A e \in Events :
          row[e] # None /\ row'[e] # None /\ row[e].status # row'[e].status
          => <<row[e].status, row'[e].status>> \in Moves \/ StaleWriter(e)]_seriesVars

\* StopSeries, where no other caller had read the series as active: nothing
\* makes it active again and no occurrence is created any more.
StopIsFinal ==
    [][~raced /\ Exists /\ ~Active =>
          ~(series'.status = "active") /\ Linked' \subseteq Linked]_seriesVars

\* "Use the event service Cancel for published events so the onCancel callback
\* fires": a stop cancels no published occurrence without a notice, unless it
\* listed it before it was published.
StopNotifies ==
    [][\A r \in Callers, e \in Events :
          /\ call[r].op = "stop" /\ call'[r] # call[r]
          /\ e \in Rows /\ row[e].status = "published"
          /\ row'[e] # None /\ row'[e].status = "cancelled"
          => e \in notified' \/ StaleWriter(e)]_seriesVars
=============================================================================
