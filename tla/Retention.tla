----------------------------- MODULE Retention -----------------------------
(***************************************************************************)
(* The clean-up job (scheduler/cleanup.go): it warns the owner of an event *)
(* whose retention ends soon, and deletes events whose retention is over.  *)
(*                                                                         *)
(* The job runs every hour while the process does.  Which events it has    *)
(* warned about is known in memory only.  Warning, finding the expired     *)
(* events and deleting them are separate statements, between which         *)
(* organizers edit and archive events.                                     *)
(***************************************************************************)
EXTENDS Absence, Integers

CONSTANTS
    RetainedEvents,
    Window,         \* warningThreshold, in hours
    MaxHour         \* bound: hours, and the end of a retention

VARIABLES
    hour,
    expires,        \* event_date + retention_days
    standing,       \* of an event: live, archived, deleted
    up,             \* the process runs
    ran,            \* the hour of the last run of the job
    warned,         \* warnedEvents
    job,            \* a run past its warnings: pc and the ids it found expired
    told,           \* history: events whose owner was warned of their present date
    moved,          \* history: events whose date or retention was edited
    missed          \* history: events due a warning that was not sent

retention == <<hour, expires, standing, up, ran, warned, job, told, moved, missed>>

RetentionInit ==
    /\ hour = 0 /\ ran = -1 /\ up = TRUE
    /\ expires \in [RetainedEvents -> 1..MaxHour]
    /\ standing = [e \in RetainedEvents |-> "live"]
    /\ warned = {} /\ job = None
    /\ told = {} /\ moved = {} /\ missed = {}

\* Within seven days of the end, but not past it.
Expiring(e) == standing[e] = "live" /\ expires[e] - hour > 0 /\ expires[e] - hour <= Window

\* Mutant: the deletion starts where the warning should.
ExpiredEarly(e) == standing[e] = "live" /\ hour > expires[e] - Window

\* now.After(expiresAt).
Expired(e) == standing[e] = "live" /\ hour > expires[e]

\* warnExpiring.  A failed query is logged and the run goes on to delete; a
\* warning that cannot be sent is logged and counts as given.  An event once
\* warned about is not warned about again, whatever its date is by then.
warnExpiring ==
    /\ up /\ job = None /\ ran < hour
    /\ LET warn == {e \in RetainedEvents : Expiring(e)} \ warned IN
       \/ \E sent \in SUBSET warn :
             /\ warned' = warned \cup warn
             /\ told' = told \cup sent
             /\ missed' = missed \cup (warn \ sent)
       \/ /\ missed' = missed \cup warn
          /\ UNCHANGED <<warned, told>>
    /\ job' = [pc |-> "find", ids |-> {}]
    /\ ran' = hour
    /\ UNCHANGED <<hour, expires, standing, up, moved>>

\* The SELECT of deleteExpired.
FindExpired ==
    /\ job # None /\ job.pc = "find"
    /\ job' = [pc |-> "delete", ids |-> {e \in RetainedEvents : Expired(e)}]
    /\ UNCHANGED <<hour, expires, standing, up, ran, warned, told, moved, missed>>

\* The transaction of deleteExpired: by id, whatever the row says by now.  A
\* DELETE that fails is skipped; a failed commit leaves all to the next run.
deleteExpired ==
    /\ job # None /\ job.pc = "delete"
    /\ \E gone \in SUBSET job.ids :
          standing' = [e \in RetainedEvents |-> IF e \in gone THEN "deleted" ELSE standing[e]]
    /\ job' = None
    /\ UNCHANGED <<hour, expires, up, ran, warned, told, moved, missed>>

\* The ticker of the scheduler: an hour passes once its run is through.
HourPasses ==
    /\ hour < MaxHour
    /\ up => ran = hour /\ job = None
    /\ hour' = hour + 1
    /\ missed' = IF up THEN missed ELSE missed \cup {e \in RetainedEvents : Expiring(e)}
    /\ UNCHANGED <<expires, standing, up, ran, warned, job, told, moved>>

\* An organizer changes the date or the retention of an event.
Edit(e, x) ==
    /\ standing[e] = "live" /\ x # expires[e]
    /\ expires' = [expires EXCEPT ![e] = x]
    /\ told' = told \ {e}
    /\ moved' = moved \cup {e}
    /\ UNCHANGED <<hour, standing, up, ran, warned, job, missed>>

\* event.Service.Delete.
Archive(e) ==
    /\ standing[e] = "live"
    /\ standing' = [standing EXCEPT ![e] = "archived"]
    /\ UNCHANGED <<hour, expires, up, ran, warned, job, told, moved, missed>>

\* The process stops; what was warned about is forgotten.
StopProcess ==
    /\ up
    /\ up' = FALSE /\ warned' = {} /\ job' = None
    /\ UNCHANGED <<hour, expires, standing, ran, told, moved, missed>>

\* The process starts, and its jobs run at once.
StartProcess ==
    /\ ~up
    /\ up' = TRUE /\ ran' = -1
    /\ UNCHANGED <<hour, expires, standing, warned, job, told, moved, missed>>

RetentionNext ==
    \/ warnExpiring \/ FindExpired \/ deleteExpired
    \/ HourPasses
    \/ \E e \in RetainedEvents : Archive(e) \/ \E x \in 1..MaxHour : Edit(e, x)
    \/ StopProcess \/ StartProcess

RetentionSpec == RetentionInit /\ [][RetentionNext]_retention

----------------------------------------------------------------------------
\* No event is deleted before its retention is over, nor without a warning to
\* its owner that names the date it is deleted for, unless its date was edited
\* (an event is warned about once and deleted by id) or the warning could not be
\* given: no process ran in its last days, or the query or the mail failed.
Announced ==
    \A e \in RetainedEvents : standing[e] # "deleted" /\ standing'[e] = "deleted" =>
        \/ e \in moved \cup missed
        \/ hour > expires[e] /\ e \in told

\* Every step of the clean-up job and of organizers is such a step.
NoUnannouncedDeletion == [][Announced]_retention
=============================================================================
