------------------------------ MODULE Reminders ------------------------------
(***************************************************************************)
(* Reminders: the organizer schedules, edits and cancels them              *)
(* (internal/scheduler/handler.go), the scheduler's reminder job of each   *)
(* server process looks for due ones, claims and broadcasts them           *)
(* (reminder.go, reminder_store.go).                                       *)
(*                                                                         *)
(* Every store call is one SQL statement and one step.  The job works      *)
(* through the rows that FindDue returned; handleUpdate reads the row,     *)
(* checks its status and writes the whole row back, status included.       *)
(*                                                                         *)
(* The target group and the message are left out; each reminder belongs to *)
(* an event of its own.                                                    *)
(***************************************************************************)
EXTENDS Absence, Naturals

CONSTANTS Reminders,   \* reminder rows that can come to exist
          Workers,     \* server processes, each with one reminder job
          Editors,     \* PUT requests in flight
          MaxTime,     \* bound: the clock
          MaxEdits,    \* bound: edits written
          MaxCrashes   \* bound: processes that stop

Statuses == {"scheduled", "processing", "sent", "failed", "cancelled"}
Row == [status : Statuses, at : Nat]
Copy == [id : Reminders, at : Nat]

ASSUME RemindersAssumption ==
    /\ None \notin Row
    /\ None \notin Copy
    /\ None \notin Reminders
    /\ MaxTime \in Nat
    /\ MaxEdits \in Nat
    /\ MaxCrashes \in Nat

VARIABLES
    row,      \* the reminders table
    deleted,  \* reminders that went with their event
    now,      \* the clock
    due,      \* rows of the last FindDue that a job has still to process
    sending,  \* the reminder a job has claimed and is broadcasting
    form,     \* the row an edit has read
    edits,    \* number of edits written
    sends,    \* history: broadcasts started, by reminder
    revived,  \* history: edits written over a row no longer scheduled
    lost,     \* history: reminders whose outcome was never written
    crashes   \* number of processes that stopped

reminderVars == <<row, deleted, now, due, sending, form, edits, sends, revived, lost, crashes>>

Stored(r) == row[r] # None
Scheduled(r) == Stored(r) /\ row[r].status = "scheduled"

RemindersInit ==
    /\ row = [r \in Reminders |-> None]
    /\ deleted = {}
    /\ now = 0
    /\ due = [w \in Workers |-> {}]
    /\ sending = [w \in Workers |-> None]
    /\ form = [e \in Editors |-> None]
    /\ edits = 0
    /\ sends = [r \in Reminders |-> 0]
    /\ revived = [r \in Reminders |-> 0]
    /\ lost = {}
    /\ crashes = 0

-----------------------------------------------------------------------------
(* The organizer.                                                          *)

\* handleCreate, and the default reminders of a published event.
Create(r, at) ==
    /\ ~Stored(r) /\ r \notin deleted
    /\ at >= now
    /\ row' = [row EXCEPT ![r] = [status |-> "scheduled", at |-> at]]
    /\ UNCHANGED <<deleted, now, due, sending, form, edits, sends, revived, lost, crashes>>

\* handleUpdate up to its check "only scheduled reminders can be updated".
EditRead(e, r) ==
    /\ form[e] = None
    /\ Scheduled(r)
    /\ form' = [form EXCEPT ![e] = [id |-> r, at |-> row[r].at]]
    /\ UNCHANGED <<row, deleted, now, due, sending, edits, sends, revived, lost, crashes>>

\* A new time must not be in the past; a time left out of the request stays.
NewTime(e, at) == at = form[e].at \/ at >= now

\* Update: the whole row is written, whatever its status has become.
EditWrite(e, at) ==
    LET r == form[e].id IN
    /\ form[e] # None
    /\ NewTime(e, at)
    /\ edits < MaxEdits
    /\ edits' = edits + 1
    /\ form' = [form EXCEPT ![e] = None]
    /\ IF Stored(r)
       THEN /\ row' = [row EXCEPT ![r] = [status |-> "scheduled", at |-> at]]
            /\ revived' = [revived EXCEPT ![r] = IF Scheduled(r) THEN @ ELSE @ + 1]
       ELSE UNCHANGED <<row, revived>>
    /\ UNCHANGED <<deleted, now, due, sending, sends, lost, crashes>>

\* The request ends without a write: a bad field or a failed statement.
EditReject(e) ==
    /\ form[e] # None
    /\ form' = [form EXCEPT ![e] = None]
    /\ UNCHANGED <<row, deleted, now, due, sending, edits, sends, revived, lost, crashes>>

\* Cancel: a conditional UPDATE.
Cancel(r) ==
    /\ Scheduled(r)
    /\ row' = [row EXCEPT ![r].status = "cancelled"]
    /\ UNCHANGED <<deleted, now, due, sending, form, edits, sends, revived, lost, crashes>>

\* The event is deleted and its reminders with it (ON DELETE CASCADE).
DeleteEvent(r) ==
    /\ Stored(r)
    /\ row' = [row EXCEPT ![r] = None]
    /\ deleted' = deleted \cup {r}
    /\ UNCHANGED <<now, due, sending, form, edits, sends, revived, lost, crashes>>

-----------------------------------------------------------------------------
(* The reminder job.                                                       *)

AtRest(w) == due[w] = {} /\ sending[w] = None

DueRows == {r \in Reminders : Scheduled(r) /\ row[r].at <= now}

\* Mutant: a reminder is due only at its very time.
FindDueExactly(w) ==
    /\ AtRest(w)
    /\ due' = [due EXCEPT ![w] = {[id |-> r, at |-> row[r].at] :
                                  r \in {q \in DueRows : row[q].at = now}}]
    /\ UNCHANGED <<row, deleted, now, sending, form, edits, sends, revived, lost, crashes>>

\* Mutant: reminders are fetched a tick ahead.
FindDueAhead(w) ==
    /\ AtRest(w)
    /\ due' = [due EXCEPT ![w] = {[id |-> r, at |-> row[r].at] :
                                  r \in {q \in Reminders : Scheduled(q) /\ row[q].at <= now + 1}}]
    /\ UNCHANGED <<row, deleted, now, sending, form, edits, sends, revived, lost, crashes>>

FindDue(w) ==
    /\ AtRest(w)
    /\ due' = [due EXCEPT ![w] = {[id |-> r, at |-> row[r].at] : r \in DueRows}]
    /\ UNCHANGED <<row, deleted, now, sending, form, edits, sends, revived, lost, crashes>>

\* FindDue returns the rows ordered by remind_at.
First(w, d) == d \in due[w] /\ \A o \in due[w] : d.at <= o.at

\* Mutant: the claim does not test the status.
ClaimUnconditional(w, d) ==
    /\ sending[w] = None
    /\ First(w, d)
    /\ Stored(d.id)
    /\ due' = [due EXCEPT ![w] = @ \ {d}]
    /\ row' = [row EXCEPT ![d.id].status = "processing"]
    /\ sending' = [sending EXCEPT ![w] = d.id]
    /\ sends' = [sends EXCEPT ![d.id] = @ + 1]
    /\ UNCHANGED <<deleted, now, form, edits, revived, lost, crashes>>

\* ClaimForProcessing: a conditional UPDATE; the broadcast starts with the row
\* that FindDue had read.
Claim(w, d) ==
    /\ sending[w] = None
    /\ First(w, d)
    /\ Scheduled(d.id)
    /\ due' = [due EXCEPT ![w] = @ \ {d}]
    /\ row' = [row EXCEPT ![d.id].status = "processing"]
    /\ sending' = [sending EXCEPT ![w] = d.id]
    /\ sends' = [sends EXCEPT ![d.id] = @ + 1]
    /\ UNCHANGED <<deleted, now, form, edits, revived, lost, crashes>>

\* Another job, a cancellation or a deletion was first.
Skip(w, d) ==
    /\ sending[w] = None
    /\ First(w, d)
    /\ ~Scheduled(d.id)
    /\ due' = [due EXCEPT ![w] = @ \ {d}]
    /\ UNCHANGED <<row, deleted, now, sending, form, edits, sends, revived, lost, crashes>>

\* Mutant: a failed broadcast leaves the status as it is.
CompleteSentOnly(w, status) ==
    LET r == sending[w] IN
    /\ r # None
    /\ sending' = [sending EXCEPT ![w] = None]
    /\ row' = IF Stored(r) /\ status = "sent" THEN [row EXCEPT ![r].status = status] ELSE row
    /\ UNCHANGED <<deleted, now, due, form, edits, sends, revived, lost, crashes>>

\* The broadcast ends and SetStatus writes its outcome, whatever the status
\* has become.
Complete(w, status) ==
    LET r == sending[w] IN
    /\ r # None
    /\ sending' = [sending EXCEPT ![w] = None]
    /\ row' = IF Stored(r) THEN [row EXCEPT ![r].status = status] ELSE row
    /\ UNCHANGED <<deleted, now, due, form, edits, sends, revived, lost, crashes>>

\* The broadcast ends and SetStatus fails; processReminder ignores that or
\* returns an error that Run logs.
StatusUnwritten(w) ==
    /\ sending[w] # None
    /\ sending' = [sending EXCEPT ![w] = None]
    /\ lost' = lost \cup {sending[w]}
    /\ UNCHANGED <<row, deleted, now, due, form, edits, sends, revived, crashes>>

\* The process stops and starts again, in a crash or in an orderly stop (the
\* cancelled context fails both the broadcast and SetStatus).  What it had
\* read is gone and a claimed reminder stays claimed.
Crash(w) ==
    /\ crashes < MaxCrashes
    /\ crashes' = crashes + 1
    /\ due' = [due EXCEPT ![w] = {}]
    /\ sending' = [sending EXCEPT ![w] = None]
    /\ lost' = lost \cup ({sending[w]} \ {None})
    /\ UNCHANGED <<row, deleted, now, form, edits, sends, revived>>

Tick ==
    /\ now < MaxTime
    /\ now' = now + 1
    /\ UNCHANGED <<row, deleted, due, sending, form, edits, sends, revived, lost, crashes>>

-----------------------------------------------------------------------------
Work(w) ==
    \/ FindDue(w)
    \/ \E d \in due[w] : Claim(w, d) \/ Skip(w, d)
    \/ \E status \in {"sent", "failed"} : Complete(w, status)
    \/ StatusUnwritten(w)

RemindersNext ==
    \/ \E r \in Reminders :
           \/ \E at \in 0 .. MaxTime : Create(r, at)
           \/ \E e \in Editors : EditRead(e, r)
           \/ Cancel(r)
           \/ DeleteEvent(r)
    \/ \E e \in Editors : EditReject(e) \/ \E at \in 0 .. MaxTime : EditWrite(e, at)
    \/ \E w \in Workers : Work(w) \/ Crash(w)
    \/ Tick

RemindersSpec == RemindersInit /\ [][RemindersNext]_reminderVars

\* runJob calls the job on every tick of its 30 second ticker and the job runs
\* its list to the end.
FairSpec == RemindersSpec /\ \A w \in Workers : WF_reminderVars(Work(w))

-----------------------------------------------------------------------------
(* Properties.                                                             *)

\* ClaimForProcessing works "to prevent duplicate sends": however many jobs and
\* edits interleave, a reminder is broadcast at most once more often than an
\* edit was written over a row that had left the status 'scheduled'; without
\* such an edit at most once.
SendsAccounted ==
    \A r \in Reminders :
        sends[r] <= revived[r] + (IF Scheduled(r) \/ (~Stored(r) /\ r \notin deleted)
                                  THEN 0 ELSE 1)

\* A reminder is left in 'processing' only while a job broadcasts it or after
\* its process has stopped or the write of its outcome has failed: no path
\* through processReminder, no concurrent edit, cancellation or second job
\* leaves one behind.
NoneLeftBehind ==
    \A r \in Reminders : Stored(r) /\ row[r].status = "processing" =>
        r \in lost \/ \E w \in Workers : sending[w] = r

\* The claim tests the status alone, and the broadcast is of the copy FindDue
\* read: a reminder goes out before its time only if an edit has postponed it
\* since that read.
ClaimsInTime ==
    \A w \in Workers :
        LET r == sending'[w] IN
        sending[w] = None /\ r # None =>
            row[r].at <= now \/ [id |-> r, at |-> row[r].at] \notin due[w]

\* Every step of every job claims in time.
NoEarlySend == [][ClaimsInTime]_reminderVars

\* A due reminder does not stay due: it is claimed, cancelled, postponed or
\* deleted.
DueIsProcessed ==
    \A r \in Reminders : r \in DueRows ~> r \notin DueRows

\* "Reminder claims use one atomic conditional update so ordinary concurrent
\* workers do not double-send" (docs/gate-3-production-readiness.md:74).
NoDoubleSend == \A r \in Reminders : sends[r] <= 1
=============================================================================
