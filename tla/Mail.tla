-------------------------------- MODULE Mail --------------------------------
(***************************************************************************)
(* Messages to one recipient: notification.Service.Send, its log, and the  *)
(* unsubscribe links of the suppression package.                           *)
(*                                                                         *)
(* Each send is a goroutine whose steps are one database statement or one  *)
(* call of the provider.  The context is the caller's (a request, the      *)
(* reminder job, the thirty seconds of a recovery) and may be cancelled.   *)
(* An error of the provider says nothing of whether it took the message:   *)
(* the answer may be what was lost.  Spellings that normalizeEmail         *)
(* identifies are one recipient.                                           *)
(*                                                                         *)
(* The server also installs a mail to a new co-host, but handleAddCoHost   *)
(* returns before it: the sponsor installed beside it always answers.      *)
(***************************************************************************)
EXTENDS Absence, Integers, FiniteSets

CONSTANTS
    Sends,          \* calls of Send, also the ids of their rows in notification_log
    MailEvents,
    Clients,        \* requests to unsubscribe that run at the same time
    maxSendAttempts

\* The senders of SetEmailSender and SetSMSSender.
Kinds == {"email", "text"}

VARIABLES
    send,           \* the goroutine: kind, event, pc, attempt, cancelled
    log,            \* notification_log: status and delivery_status
    token,          \* unsubscribe_tokens: the event a token in a mail is for
    suppressed,     \* email_suppressions of the recipient: events
    client,         \* a request to unsubscribe: event and pc
    received,       \* history: sends whose message reached the recipient
    confirmed,      \* history: events the recipient was told they unsubscribed from
    past,           \* history, per event: sends past the gate when it was suppressed
    blind,          \* history: sends whose lookup of the suppression failed
    unwritten       \* history: sends that a fault or their cancelled context kept from writing

mail == <<send, log, token, suppressed, client, received, confirmed, past, blind, unwritten>>

Points == {"gate", "gate in Send", "footer", "log", "attempt", "log sent", "log failed",
           "suppressed", "skipped", "sent", "failed", "stopped"}

Goroutine == [kind : Kinds, event : MailEvents, pc : Points, attempt : Nat, cancelled : BOOLEAN]

LogRow == [status : {"pending", "sent", "failed"}, delivery : {"unknown", "delivered", "opened"}]

ASSUME MailAssumption == None \notin Goroutine \cup LogRow

Running(s, pc) == send[s] # None /\ send[s].pc = pc

Over(s) == send[s] # None /\ send[s].pc \in {"suppressed", "skipped", "sent", "failed", "stopped"}

Email(s) == send[s].kind = "email"

\* The goroutine with its pc moved on; at the end its locals are gone.
To(s, pc) ==
    IF pc \in {"suppressed", "skipped", "sent", "failed", "stopped"}
    THEN [send[s] EXCEPT !.pc = pc, !.attempt = 1, !.cancelled = FALSE]
    ELSE [send[s] EXCEPT !.pc = pc]

MailInit ==
    /\ send = [s \in Sends |-> None]
    /\ log = [s \in Sends |-> None]
    /\ token = [s \in Sends |-> None]
    /\ client = [c \in Clients |-> None]
    /\ suppressed = {} /\ received = {} /\ confirmed = {} /\ blind = {} /\ unwritten = {}
    /\ past = [e \in MailEvents |-> {}]

----------------------------------------------------------------------------
(* Send *)

BeginSend(s, kind, e) ==
    /\ send[s] = None
    /\ send' = [send EXCEPT ![s] = [kind |-> kind, event |-> e, attempt |-> 1, cancelled |-> FALSE,
            pc |-> IF kind = "email" THEN "gate" ELSE "log"]]
    /\ UNCHANGED <<log, token, suppressed, client, received, confirmed, past, blind, unwritten>>

\* The caller gives up, or its time is over.
CancelContext(s) ==
    /\ send[s] # None /\ ~Over(s) /\ ~send[s].cancelled
    /\ send' = [send EXCEPT ![s].cancelled = TRUE]
    /\ UNCHANGED <<log, token, suppressed, client, received, confirmed, past, blind, unwritten>>

\* Mutant: the lookup compares the event the wrong way.
IsSuppressedOther(e) == suppressed \ {e} # {}

\* Store.IsSuppressed.
IsSuppressed(e) == e \in suppressed

\* Service.IsSuppressed: a failed lookup lets the message pass.
Gate(s, next, stop) ==
    \/ /\ ~send[s].cancelled
       /\ send' = [send EXCEPT ![s] = To(s, IF IsSuppressed(send[s].event) THEN stop ELSE next)]
       /\ UNCHANGED blind
    \/ /\ send' = [send EXCEPT ![s].pc = next]
       /\ blind' = blind \cup {s}

\* The email sender of invitations asks first and reports ErrDeliverySuppressed.
GateOfInvitation(s) ==
    /\ Running(s, "gate")
    /\ Gate(s, "gate in Send", "suppressed")
    /\ UNCHANGED <<log, token, suppressed, client, received, confirmed, past, unwritten>>

\* isSuppressedEmail: Send asks again and skips silently.
isSuppressedEmail(s) ==
    /\ Running(s, "gate in Send")
    /\ Gate(s, "footer", "skipped")
    /\ UNCHANGED <<log, token, suppressed, client, received, confirmed, past, unwritten>>

\* applyUnsubscribeFooter, CreateToken: without a token the mail goes out
\* without a link.
applyUnsubscribeFooter(s) ==
    /\ Running(s, "footer")
    /\ \/ ~send[s].cancelled /\ token' = [token EXCEPT ![s] = send[s].event]
       \/ UNCHANGED token
    /\ send' = [send EXCEPT ![s].pc = "log"]
    /\ UNCHANGED <<log, suppressed, client, received, confirmed, past, blind, unwritten>>

\* insertLog: a failure is logged and the message is sent all the same.
insertLog(s) ==
    /\ Running(s, "log")
    /\ \/ /\ ~send[s].cancelled
          /\ log' = [log EXCEPT ![s] = [status |-> "pending", delivery |-> "unknown"]]
          /\ UNCHANGED unwritten
       \/ /\ unwritten' = unwritten \cup {s}
          /\ UNCHANGED log
    /\ send' = [send EXCEPT ![s].pc = "attempt"]
    /\ UNCHANGED <<token, suppressed, client, received, confirmed, past, blind>>

\* One round of the loop: provider.Send, and on an error the wait.
Attempt(s) ==
    /\ Running(s, "attempt")
    /\ \/ /\ ~send[s].cancelled
          /\ send' = [send EXCEPT ![s].pc = "log sent"]
          /\ received' = received \cup {s}
       \/ /\ received' \in {received, received \cup {s}}
          /\ send' = [send EXCEPT
                ![s].pc = IF send[s].attempt < maxSendAttempts /\ ~send[s].cancelled THEN "attempt" ELSE "log failed",
                ![s].attempt = IF @ < maxSendAttempts /\ ~send[s].cancelled THEN @ + 1 ELSE @]
    /\ UNCHANGED <<log, token, suppressed, client, confirmed, past, blind, unwritten>>

\* Mutant: the outcome of the last attempt is not looked at.
updateLogSent(s, outcome) ==
    \/ /\ ~send[s].cancelled
       /\ log' = IF log[s] = None THEN log ELSE [log EXCEPT ![s].status = "sent"]
       /\ UNCHANGED unwritten
    \/ /\ unwritten' = unwritten \cup {s}
       /\ UNCHANGED log

\* updateLog: no row, no effect; an error is logged only.
updateLog(s, outcome) ==
    \/ /\ ~send[s].cancelled
       /\ log' = IF log[s] = None THEN log ELSE [log EXCEPT ![s].status = outcome]
       /\ UNCHANGED unwritten
    \/ /\ unwritten' = unwritten \cup {s}
       /\ UNCHANGED log

Finish(s, outcome) ==
    /\ Running(s, IF outcome = "sent" THEN "log sent" ELSE "log failed")
    /\ updateLog(s, outcome)
    /\ send' = [send EXCEPT ![s] = To(s, outcome)]
    /\ UNCHANGED <<token, suppressed, client, received, confirmed, past, blind>>

\* The process stops: no send is resumed.
StopSends ==
    /\ \E s \in Sends : send[s] # None /\ ~Over(s)
    /\ send' = [s \in Sends |-> IF send[s] = None \/ Over(s) THEN send[s] ELSE To(s, "stopped")]
    /\ client' = [c \in Clients |-> None]
    /\ UNCHANGED <<log, token, suppressed, received, confirmed, past, blind, unwritten>>

----------------------------------------------------------------------------
(* The recipient *)

\* handleTrackOpen, RecordOpen: the pixel may be fetched before the row says
\* that the mail was sent.
RecordOpen(s) ==
    /\ s \in received /\ Email(s)
    /\ log[s] # None /\ log[s].delivery \in {"unknown", "delivered"}
    /\ log' = [log EXCEPT ![s].delivery = "opened"]
    /\ UNCHANGED <<send, token, suppressed, client, received, confirmed, past, blind, unwritten>>

\* VerifyUnsubscribeToken with the link of a received mail; links never expire.
VerifyUnsubscribeToken(c, s) ==
    /\ client[c] = None
    /\ s \in received /\ token[s] # None
    /\ client' = [client EXCEPT ![c] = [event |-> token[s], pc |-> "exists"]]
    /\ UNCHANGED <<send, log, token, suppressed, received, confirmed, past, blind, unwritten>>

Answer(c) ==
    /\ confirmed' = confirmed \cup {client[c].event}
    /\ client' = [client EXCEPT ![c] = None]

\* existsExact, the first statement of Suppress.
existsExact(c) ==
    /\ client[c] # None /\ client[c].pc = "exists"
    /\ IF client[c].event \in suppressed
       THEN Answer(c)
       ELSE client' = [client EXCEPT ![c].pc = "insert"] /\ UNCHANGED confirmed
    /\ UNCHANGED <<send, log, token, suppressed, received, past, blind, unwritten>>

\* The insert of Suppress.  It fails on the unique index when another request
\* was faster, and any failure is a success if the row is there on a second look.
Suppress(c) ==
    /\ client[c] # None /\ client[c].pc = "insert"
    /\ LET e == client[c].event IN
       \/ /\ Answer(c)
          /\ suppressed' = suppressed \cup {e}
          /\ past' = IF e \in suppressed THEN past ELSE
                [past EXCEPT ![e] = {s \in Sends : send[s] # None /\ send[s].event = e
                        /\ send[s].pc \notin {"gate", "gate in Send"}}]
       \/ /\ e \notin suppressed
          /\ client' = [client EXCEPT ![c] = None]
          /\ UNCHANGED <<suppressed, confirmed, past>>
    /\ UNCHANGED <<send, log, token, received, blind, unwritten>>

----------------------------------------------------------------------------
\* GetEmailStats: the counts of the rows of an event's mails.
GetEmailStats(e) ==
    LET rows == {s \in Sends : log[s] # None /\ send[s].event = e /\ Email(s)} IN
    [totalSent |-> Cardinality({s \in rows : log[s].status = "sent"}),
     failed |-> Cardinality({s \in rows : log[s].status = "failed"}),
     pending |-> Cardinality({s \in rows : log[s].status = "pending"}),
     opened |-> Cardinality({s \in rows : log[s].delivery = "opened"})]

Sending(s) ==
    \/ \E kind \in Kinds, e \in MailEvents : BeginSend(s, kind, e)
    \/ CancelContext(s)
    \/ GateOfInvitation(s) \/ isSuppressedEmail(s)
    \/ applyUnsubscribeFooter(s) \/ insertLog(s)
    \/ Attempt(s)
    \/ \E outcome \in {"sent", "failed"} : Finish(s, outcome)
    \/ RecordOpen(s)

handleUnsubscribe(c) ==
    \/ \E s \in Sends : VerifyUnsubscribeToken(c, s)
    \/ existsExact(c)
    \/ Suppress(c)

MailNext ==
    \/ \E s \in Sends : Sending(s)
    \/ \E c \in Clients : handleUnsubscribe(c)
    \/ StopSends

MailSpec == MailInit /\ [][MailNext]_mail

----------------------------------------------------------------------------
(* Properties *)

\* A Send that returned and whose writes reached the database.
Ended(s) == send[s] # None /\ send[s].pc \in {"sent", "failed"} /\ s \notin unwritten

Logged(s) == log[s] # None /\ log[s].status = send[s].pc

\* Once the recipient has been told that they unsubscribed from an event, its
\* mail reaches them only from a Send that was past isSuppressedEmail when the
\* row was inserted (its retries included) or whose lookup failed; it stays so
\* whatever other requests to unsubscribe run at the same time.
NoMailAfterUnsubscribe ==
    /\ confirmed \subseteq suppressed
    /\ \A e \in confirmed, s \in received :
        send[s].event = e /\ Email(s) => s \in past[e] \cup blind

\* A Send that returned left a row that says how it ended, unless a fault or its
\* cancelled context kept it from writing, and the statistics never count more
\* mails as sent or opened than reached their recipient.
LogTellsTheOutcome ==
    /\ \A s \in Sends : Ended(s) => Logged(s)
    /\ \A e \in MailEvents :
        LET mails == Cardinality({s \in received : send[s].event = e /\ Email(s)}) IN
        GetEmailStats(e).totalSent <= mails /\ GetEmailStats(e).opened <= mails
=============================================================================
