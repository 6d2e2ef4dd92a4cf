---------------------------- MODULE GuestProofs ----------------------------
(***************************************************************************)
(* What a guest is sent and what a guest answers: the mail of an event, up *)
(* to the unsubscription (Mail), for any number of sends, events and       *)
(* clients; its reminders (Reminders), for any number of reminders, edits  *)
(* and server processes; and the response of a household                   *)
(* (HouseholdResponse), for any number of guests, questions and pages.     *)
(***************************************************************************)
EXTENDS Mail, Reminders, HouseholdResponse, FiniteSetTheorems, TLAPS

----------------------------------------------------------------------------
(* Mail *)

MailTypes ==
    /\ send \in [Sends -> Goroutine \cup {None}]
    /\ log \in [Sends -> LogRow \cup {None}]
    /\ token \in [Sends -> MailEvents \cup {None}]
    /\ client \in [Clients -> [event : MailEvents, pc : {"exists", "insert"}] \cup {None}]
    /\ suppressed \subseteq MailEvents /\ received \subseteq Sends
    /\ past \in [MailEvents -> SUBSET Sends]
    /\ IsFiniteSet(received)

Gates == {"gate", "gate in Send"}

\* NoMailAfterUnsubscribe is not inductive: a mail of a suppressed event that was
\* neither past the gate nor let through by a failed lookup must also be before
\* the gate still, or stopped for good.
Late(s) ==
    /\ send[s].event \in suppressed /\ Email(s)
    /\ s \notin past[send[s].event] \cup blind

Withheld(s) ==
    send[s] # None =>
        /\ s \in received => send[s].pc \notin Gates
        /\ Late(s) => send[s].pc \in Gates \cup {"suppressed", "skipped", "stopped"} /\ s \notin received

\* LogTellsTheOutcome is not inductive: a row is pending while its send is under
\* way, and says sent or opened only of what was received.
Recorded(s) ==
    /\ send[s] = None => s \notin received /\ log[s] = None
    /\ send[s] # None /\ s \notin unwritten =>
        /\ send[s].pc \in {"attempt", "log sent", "log failed"} => log[s] # None /\ log[s].status = "pending"
        /\ send[s].pc \in {"sent", "failed"} => log[s] # None /\ log[s].status = send[s].pc
    /\ send[s] # None /\ send[s].pc = "log sent" => s \in received
    /\ log[s] # None /\ (log[s].status = "sent" \/ log[s].delivery = "opened") => s \in received

MailInv ==
    /\ MailTypes
    /\ confirmed \subseteq suppressed
    /\ \A s \in Sends : Withheld(s) /\ Recorded(s)

\* Nothing was sent.
LEMMA MailStarts == MailInit => MailInv
BY FS_EmptySet, Zenon DEF MailInit, MailInv, MailTypes, Withheld, Recorded

\* A step of one send.
LEMMA OneSend ==
    ASSUME MailInv, NEW s \in Sends, NEW w \in Goroutine, send' = [send EXCEPT ![s] = w],
           NEW entry \in LogRow \cup {None}, log' = [log EXCEPT ![s] = entry],
           token' \in [Sends -> MailEvents \cup {None}],
           received' \in {received, received \cup {s}},
           blind' \in {blind, blind \cup {s}}, unwritten' \in {unwritten, unwritten \cup {s}},
           UNCHANGED <<suppressed, client, confirmed, past>>,
           Withheld(s)', Recorded(s)'
    PROVE  MailInv'
<1>1. IsFiniteSet(received') /\ received' \subseteq Sends
  BY FS_AddElement DEF MailInv, MailTypes
<1>2. MailTypes'
  BY <1>1, Zenon DEF MailInv, MailTypes
<1>3. ASSUME NEW t \in Sends \ {s} PROVE Withheld(t)' /\ Recorded(t)'
  <2>1. send'[t] = send[t] /\ log'[t] = log[t]
    BY Zenon DEF MailInv, MailTypes
  <2>2. t \in received' <=> t \in received
    OBVIOUS
  <2>3. t \in blind' <=> t \in blind
    OBVIOUS
  <2>4. t \in unwritten' <=> t \in unwritten
    OBVIOUS
  <2>5. Withheld(t) /\ Recorded(t)
    BY DEF MailInv
  <2>6. Withheld(t)'
    <3>1. Late(t)' = Late(t)
      BY <2>1, <2>3 DEF Late, Email
    <3> QED
      BY <2>1, <2>2, <2>5, <3>1, Zenon DEF Withheld
  <2>7. Recorded(t)'
    BY <2>1, <2>2, <2>4, <2>5, Zenon DEF Recorded
  <2> QED
    BY <2>6, <2>7
<1> QED
  BY <1>2, <1>3 DEF MailInv

\* What the row of a send and its goroutine are, written as an update.
LEMMA Same ==
    ASSUME MailInv, NEW s \in Sends
    PROVE  /\ send[s] \in Goroutine \cup {None} /\ send = [send EXCEPT ![s] = send[s]]
           /\ log[s] \in LogRow \cup {None} /\ log = [log EXCEPT ![s] = log[s]]
BY Zenon DEF MailInv, MailTypes

\* Where a goroutine goes, it keeps its kind and its event.
LEMMA ToType ==
    ASSUME MailInv, NEW s \in Sends, send[s] # None,
           NEW pc \in Points
    PROVE  /\ To(s, pc) \in Goroutine /\ To(s, pc) # None
           /\ To(s, pc).pc = pc /\ To(s, pc).kind = send[s].kind /\ To(s, pc).event = send[s].event
<1>1. send[s] \in Goroutine
  BY Zenon DEF MailInv, MailTypes
<1>2. CASE To(s, pc) = [send[s] EXCEPT !.pc = pc]
  BY <1>1, <1>2, MailAssumption DEF Goroutine
<1>3. CASE To(s, pc) = [send[s] EXCEPT !.pc = pc, !.attempt = 1, !.cancelled = FALSE]
  <2> DEFINE u == [send[s] EXCEPT !.pc = pc]
             v == [u EXCEPT !.attempt = 1]
             w == [v EXCEPT !.cancelled = FALSE]
  <2>1. u \in Goroutine /\ u.pc = pc /\ u.kind = send[s].kind /\ u.event = send[s].event
    BY <1>1, Zenon DEF Goroutine
  <2>2. To(s, pc) = w
    BY <1>3
  <2> HIDE DEF u
  <2>3. v \in Goroutine /\ v.pc = pc /\ v.kind = send[s].kind /\ v.event = send[s].event
    BY <2>1 DEF Goroutine
  <2> HIDE DEF v
  <2>4. w \in Goroutine /\ w.pc = pc /\ w.kind = send[s].kind /\ w.event = send[s].event
    BY <2>3, Zenon DEF Goroutine
  <2> HIDE DEF w
  <2> QED
    BY <2>2, <2>4, MailAssumption, Zenon
<1> QED
  BY <1>2, <1>3 DEF To

\* A send starts at the gate, or as a text past it.
LEMMA BeginSendKeeps ==
    ASSUME MailInv, NEW s \in Sends, NEW kind \in Kinds, NEW e \in MailEvents, BeginSend(s, kind, e)
    PROVE  MailInv'
<1> DEFINE pc == IF kind = "email" THEN "gate" ELSE "log"
           w == [kind |-> kind, event |-> e, attempt |-> 1, cancelled |-> FALSE, pc |-> pc]
<1>1. send[s] = None /\ send' = [send EXCEPT ![s] = w]
      /\ UNCHANGED <<log, token, suppressed, client, received, confirmed, past, blind, unwritten>>
  BY Zenon DEF BeginSend
<1>2. w \in Goroutine /\ w # None /\ w.kind = kind /\ w.pc = pc
  <2>1. pc \in Points
    BY DEF Points
  <2> HIDE DEF pc
  <2>2. w \in Goroutine
    BY <2>1 DEF Goroutine
  <2>3. w.kind = kind /\ w.pc = pc
    OBVIOUS
  <2> HIDE DEF w
  <2> QED
    BY <2>2, <2>3, MailAssumption
<1> HIDE DEF w
<1>3. send'[s] = w /\ log'[s] = log[s] /\ s \notin received /\ log[s] = None
  BY <1>1, Zenon DEF MailInv, MailTypes, Recorded
<1>4. Withheld(s)'
  BY <1>1, <1>2, <1>3, Zenon DEF Withheld, Late, Email, Gates
<1>5. Recorded(s)'
  BY <1>1, <1>2, <1>3, Zenon DEF Recorded, Kinds
<1> QED
  BY <1>1, <1>2, <1>4, <1>5, Same, OneSend, Zenon DEF MailInv, MailTypes

\* A goroutine that moves on without touching the recipient or the log.
LEMMA MoveKeeps ==
    ASSUME MailInv, NEW s \in Sends, send[s] # None, NEW w \in Goroutine, send' = [send EXCEPT ![s] = w],
           w # None, w.kind = send[s].kind, w.event = send[s].event,
           UNCHANGED <<log, suppressed, client, received, confirmed, past, unwritten>>,
           token' \in [Sends -> MailEvents \cup {None}],
           blind' \in {blind, blind \cup {s}},
           \/ w.pc = send[s].pc
           \/ /\ send[s].pc \in Gates
              /\ w.pc \in Gates \cup {"suppressed", "skipped"}
           \/ /\ send[s].pc \in Gates
              /\ w.pc = "footer"
              /\ s \in blind' \/ send[s].event \notin suppressed
           \/ send[s].pc = "footer" /\ w.pc = "log"
    PROVE  MailInv'
<1>1. send'[s] = w /\ log'[s] = log[s]
  BY Zenon DEF MailInv, MailTypes
<1>2. Withheld(s) /\ Recorded(s)
  BY Zenon DEF MailInv
<1>3. Late(s)' => Late(s)
  BY <1>1 DEF Late, Email
<1>4. s \in blind' \/ send[s].event \notin suppressed => ~Late(s)'
  BY <1>1 DEF Late
<1>5. Withheld(s)'
  BY <1>1, <1>2, <1>3, <1>4, Zenon DEF Withheld, Gates
<1>6. Recorded(s)'
  BY <1>1, <1>2, Zenon DEF Recorded, Gates
<1> QED
  BY <1>5, <1>6, Same, OneSend, Zenon

\* A cancelled context changes nothing that was sent or logged.
LEMMA CancelContextKeeps ==
    ASSUME MailInv, NEW s \in Sends, CancelContext(s)
    PROVE  MailInv'
<1> DEFINE w == [send[s] EXCEPT !.cancelled = TRUE]
<1>1. send[s] \in Goroutine /\ send[s] # None
  BY Zenon DEF CancelContext, MailInv, MailTypes
<1>2. w \in Goroutine /\ w # None /\ w.pc = send[s].pc /\ w.kind = send[s].kind /\ w.event = send[s].event
  BY <1>1, MailAssumption, Zenon DEF Goroutine, Points
<1>3. send' = [send EXCEPT ![s] = w]
  BY DEF CancelContext
<1> HIDE DEF w
<1> QED
  BY <1>1, <1>2, <1>3, MoveKeeps, Zenon DEF CancelContext, MailInv, MailTypes

\* The gate lets a mail of a suppressed event through only if its lookup failed.
LEMMA GateKeeps ==
    ASSUME MailInv, NEW s \in Sends, GateOfInvitation(s) \/ isSuppressedEmail(s)
    PROVE  MailInv'
<1>1. /\ send[s] # None /\ send[s] \in Goroutine
      /\ UNCHANGED <<log, token, suppressed, client, received, confirmed, past, unwritten>>
  BY Zenon DEF GateOfInvitation, isSuppressedEmail, Running, MailInv, MailTypes
<1>2. PICK next, stop : /\ Gate(s, next, stop)
                        /\ \/ send[s].pc = "gate" /\ next = "gate in Send" /\ stop = "suppressed"
                           \/ send[s].pc = "gate in Send" /\ next = "footer" /\ stop = "skipped"
  BY Zenon DEF GateOfInvitation, isSuppressedEmail, Running
<1>3. CASE send' = [send EXCEPT ![s] = To(s, IF IsSuppressed(send[s].event) THEN stop ELSE next)] /\ blind' = blind
  <2> DEFINE pc == IF IsSuppressed(send[s].event) THEN stop ELSE next
  <2>1. /\ pc \in {"gate in Send", "suppressed", "footer", "skipped"}
        /\ pc = "footer" => send[s].event \notin suppressed
    BY <1>2, Zenon DEF IsSuppressed
  <2>2. send' = [send EXCEPT ![s] = To(s, pc)]
    BY <1>3
  <2> HIDE DEF pc
  <2>3. To(s, pc) \in Goroutine /\ To(s, pc) # None /\ To(s, pc).pc = pc
        /\ To(s, pc).kind = send[s].kind /\ To(s, pc).event = send[s].event
    <3>1. pc \in Points
      BY <2>1, Zenon DEF Points
    <3> QED
      BY <1>1, <3>1, ToType, Zenon
  <2>4. \/ send[s].pc \in Gates /\ To(s, pc).pc \in Gates \cup {"suppressed", "skipped"}
        \/ send[s].pc \in Gates /\ To(s, pc).pc = "footer" /\ send[s].event \notin suppressed
    BY <1>2, <2>1, <2>3, Zenon DEF Gates
  <2> QED
    BY <1>1, <1>3, <2>2, <2>3, <2>4, MoveKeeps, Zenon DEF MailInv, MailTypes
<1>4. CASE send' = [send EXCEPT ![s].pc = next] /\ blind' = blind \cup {s}
  <2> DEFINE w == [send[s] EXCEPT !.pc = next]
  <2>1. w \in Goroutine /\ w # None /\ w.pc = next /\ w.kind = send[s].kind /\ w.event = send[s].event
    BY <1>1, <1>2, MailAssumption, Zenon DEF Goroutine, Points
  <2>2. send' = [send EXCEPT ![s] = w]
    BY <1>4, Zenon
  <2> HIDE DEF w
  <2> QED
    BY <1>1, <1>2, <1>4, <2>1, <2>2, MoveKeeps, Zenon DEF Gates, MailInv, MailTypes
<1> QED
  BY <1>2, <1>3, <1>4, Zenon DEF Gate

\* The link for a mail is for the event of the mail.
LEMMA FooterKeeps ==
    ASSUME MailInv, NEW s \in Sends, applyUnsubscribeFooter(s)
    PROVE  MailInv'
<1> DEFINE w == [send[s] EXCEPT !.pc = "log"]
<1>1. send[s] \in Goroutine /\ send[s] # None /\ send[s].pc = "footer"
  BY Zenon DEF applyUnsubscribeFooter, Running, MailInv, MailTypes
<1>2. w \in Goroutine /\ w # None /\ w.pc = "log" /\ w.kind = send[s].kind /\ w.event = send[s].event
  BY <1>1, MailAssumption, Zenon DEF Goroutine, Points
<1>3. send' = [send EXCEPT ![s] = w]
  BY DEF applyUnsubscribeFooter
<1>4. token' \in [Sends -> MailEvents \cup {None}]
  BY <1>1 DEF applyUnsubscribeFooter, MailInv, MailTypes, Goroutine
<1> HIDE DEF w
<1> QED
  BY <1>1, <1>2, <1>3, <1>4, MoveKeeps, Zenon DEF applyUnsubscribeFooter

\* A row is pending from its insert on, or the insert failed.
LEMMA InsertLogKeeps ==
    ASSUME MailInv, NEW s \in Sends, insertLog(s)
    PROVE  MailInv'
<1> DEFINE w == [send[s] EXCEPT !.pc = "attempt"]
           pending == [status |-> "pending", delivery |-> "unknown"]
<1>1. send[s] \in Goroutine /\ send[s] # None /\ send[s].pc = "log" /\ Withheld(s) /\ Recorded(s)
  BY Zenon DEF insertLog, Running, MailInv, MailTypes
<1>2. w \in Goroutine /\ w # None /\ w.pc = "attempt" /\ w.kind = send[s].kind /\ w.event = send[s].event
  BY <1>1, MailAssumption, Zenon DEF Goroutine, Points
<1>3. pending \in LogRow /\ pending # None /\ pending.status = "pending" /\ pending.delivery = "unknown"
  BY MailAssumption DEF LogRow
<1>4. PICK entry \in {log[s], pending} :
        /\ log' = [log EXCEPT ![s] = entry]
        /\ \/ entry = pending /\ unwritten' = unwritten
           \/ entry = log[s] /\ unwritten' = unwritten \cup {s}
  BY Same DEF insertLog
<1>5. send' = [send EXCEPT ![s] = w] /\ UNCHANGED <<token, suppressed, client, received, confirmed, past, blind>>
  BY DEF insertLog
<1> HIDE DEF w, pending
<1>6. send'[s] = w /\ log'[s] = entry /\ entry \in LogRow \cup {None}
  BY <1>3, <1>4, <1>5, Zenon DEF MailInv, MailTypes
<1>7. Withheld(s)'
  <2>1. Late(s)' => Late(s)
    BY <1>2, <1>5, <1>6 DEF Late, Email
  <2> QED
    BY <1>1, <1>2, <1>5, <1>6, <2>1, Zenon DEF Withheld, Gates
<1>8. Recorded(s)'
  BY <1>1, <1>2, <1>3, <1>4, <1>5, <1>6, Zenon DEF Recorded
<1> QED
  BY <1>2, <1>4, <1>5, <1>6, <1>7, <1>8, OneSend, Zenon DEF MailInv, MailTypes

\* An attempt reaches the recipient or not; one that succeeds does.
LEMMA AttemptKeeps ==
    ASSUME MailInv, NEW s \in Sends, Attempt(s)
    PROVE  MailInv'
<1>1. send[s] \in Goroutine /\ send[s] # None /\ send[s].pc = "attempt" /\ Withheld(s) /\ Recorded(s)
  BY Zenon DEF Attempt, Running, MailInv, MailTypes
<1>2. UNCHANGED <<log, token, suppressed, client, confirmed, past, blind, unwritten>>
      /\ received' \in {received, received \cup {s}}
  BY Zenon DEF Attempt
<1>3. PICK w \in Goroutine :
        /\ send' = [send EXCEPT ![s] = w]
        /\ w.pc \in {"attempt", "log sent", "log failed"}
        /\ w.pc = "log sent" => s \in received'
        /\ w.kind = send[s].kind /\ w.event = send[s].event
  <2>1. CASE send' = [send EXCEPT ![s].pc = "log sent"] /\ received' = received \cup {s}
    <3> DEFINE w == [send[s] EXCEPT !.pc = "log sent"]
    <3>1. w \in Goroutine /\ w.pc = "log sent" /\ w.kind = send[s].kind /\ w.event = send[s].event
      BY <1>1, Zenon DEF Goroutine, Points
    <3> QED
      BY <2>1, <3>1, Zenon
  <2>2. CASE send' = [send EXCEPT
                ![s].pc = IF send[s].attempt < maxSendAttempts /\ ~send[s].cancelled THEN "attempt" ELSE "log failed",
                ![s].attempt = IF @ < maxSendAttempts /\ ~send[s].cancelled THEN @ + 1 ELSE @]
    <3> DEFINE again == send[s].attempt < maxSendAttempts /\ ~send[s].cancelled
               pc == IF again THEN "attempt" ELSE "log failed"
               n == IF again THEN send[s].attempt + 1 ELSE send[s].attempt
               w == [send[s] EXCEPT !.pc = pc, !.attempt = n]
    <3>1. send' = [send EXCEPT ![s] = w]
      BY <2>2, Zenon DEF MailInv, MailTypes
    <3>2. pc \in {"attempt", "log failed"} /\ n \in Nat
      <4>1. send[s].attempt \in Nat
        BY <1>1, Zenon DEF Goroutine
      <4> HIDE DEF again
      <4> QED
        BY <4>1
    <3> HIDE DEF pc, n
    <3>3. w \in Goroutine /\ w.pc = pc /\ w.kind = send[s].kind /\ w.event = send[s].event
      BY <1>1, <3>2, Zenon DEF Goroutine, Points
    <3> QED
      BY <3>1, <3>2, <3>3, Zenon
  <2> QED
    BY <2>1, <2>2, Zenon DEF Attempt
<1>4. send'[s] = w /\ log'[s] = log[s] /\ w # None
  BY <1>2, <1>3, MailAssumption, Zenon DEF MailInv, MailTypes
<1>5. Withheld(s)'
  <2>1. Late(s)' => Late(s)
    <3>1. UNCHANGED <<suppressed, past, blind>> /\ send'[s].event = send[s].event /\ send'[s].kind = send[s].kind
      BY <1>2, <1>3, <1>4, Zenon
    <3> QED
      BY <3>1, Zenon DEF Late, Email
  <2> QED
    BY <1>1, <1>2, <1>3, <1>4, <2>1, Zenon DEF Withheld, Gates
<1>6. Recorded(s)'
  BY <1>1, <1>2, <1>3, <1>4, Zenon DEF Recorded
<1> QED
  BY <1>2, <1>3, <1>5, <1>6, Same, OneSend, Zenon DEF MailInv, MailTypes

\* The row says how the send ended, or the write failed.
LEMMA FinishKeeps ==
    ASSUME MailInv, NEW s \in Sends, NEW outcome \in {"sent", "failed"}, Finish(s, outcome)
    PROVE  MailInv'
<1>1. /\ send[s] \in Goroutine /\ send[s] # None /\ Withheld(s) /\ Recorded(s)
      /\ send[s].pc = IF outcome = "sent" THEN "log sent" ELSE "log failed"
  BY Zenon DEF Finish, Running, MailInv, MailTypes
<1> DEFINE w == To(s, outcome)
<1>2. w \in Goroutine /\ w # None /\ w.pc = outcome /\ w.kind = send[s].kind /\ w.event = send[s].event
  <2>1. outcome \in Points
    BY Zenon DEF Points
  <2> QED
    BY <1>1, <2>1, ToType, Zenon
<1>3. send' = [send EXCEPT ![s] = w] /\ UNCHANGED <<token, suppressed, client, received, confirmed, past, blind>>
  BY Zenon DEF Finish
<1> HIDE DEF w
<1>4. PICK entry \in LogRow \cup {None} :
        /\ log' = [log EXCEPT ![s] = entry]
        /\ \/ entry = log[s] /\ unwritten' = unwritten \cup {s}
           \/ entry = log[s] /\ log[s] = None /\ unwritten' = unwritten
           \/ /\ entry # None /\ log[s] # None /\ entry.status = outcome /\ entry.delivery = log[s].delivery
              /\ unwritten' = unwritten
  <2>1. CASE log' = log /\ (unwritten' = unwritten \cup {s} \/ (log[s] = None /\ unwritten' = unwritten))
    BY <2>1, Same, Zenon
  <2>2. CASE log[s] # None /\ log' = [log EXCEPT ![s].status = outcome] /\ unwritten' = unwritten
    <3> DEFINE entry == [log[s] EXCEPT !.status = outcome]
    <3>1. entry \in LogRow /\ entry # None /\ entry.status = outcome /\ entry.delivery = log[s].delivery
      BY <2>2, Same, MailAssumption DEF LogRow
    <3> QED
      BY <2>2, <3>1, Zenon
  <2> QED
    BY <2>1, <2>2, Zenon DEF Finish, updateLog
<1>5. send'[s] = w /\ log'[s] = entry
  BY <1>3, <1>4, Zenon DEF MailInv, MailTypes
<1>6. Withheld(s)'
  <2>1. Late(s)' => Late(s)
    <3>1. UNCHANGED <<suppressed, past, blind>> /\ send'[s].event = send[s].event /\ send'[s].kind = send[s].kind
      BY <1>2, <1>3, <1>5, Zenon
    <3> QED
      BY <3>1, Zenon DEF Late, Email
  <2> QED
    BY <1>1, <1>2, <1>3, <1>5, <2>1, Zenon DEF Withheld, Gates
<1>7. Recorded(s)'
  BY <1>1, <1>2, <1>3, <1>4, <1>5, Zenon DEF Recorded
<1> QED
  BY <1>2, <1>3, <1>4, <1>6, <1>7, OneSend, Zenon DEF MailInv, MailTypes

\* A process that stops delivers nothing more.
LEMMA StopSendsKeeps == MailInv /\ StopSends => MailInv'
<1> SUFFICES ASSUME MailInv, StopSends PROVE MailInv'
  OBVIOUS
<1>1. UNCHANGED <<log, token, suppressed, received, confirmed, past, blind, unwritten>>
      /\ client' = [c \in Clients |-> None]
      /\ send' = [s \in Sends |-> IF send[s] = None \/ Over(s) THEN send[s] ELSE To(s, "stopped")]
  BY DEF StopSends
<1>2. ASSUME NEW s \in Sends
      PROVE  /\ send'[s] \in Goroutine \cup {None}
             /\ Withheld(s)' /\ Recorded(s)'
  <2>1. Withheld(s) /\ Recorded(s) /\ send[s] \in Goroutine \cup {None}
    BY Zenon DEF MailInv, MailTypes
  <2>2. CASE send'[s] = send[s]
    <3>1. Late(s)' = Late(s)
      BY <1>1, <2>2, Zenon DEF Late, Email
    <3> QED
      BY <1>1, <2>1, <2>2, <3>1, Zenon DEF Withheld, Recorded
  <2>3. CASE send[s] # None /\ send'[s] = To(s, "stopped")
    <3>1. /\ send'[s] \in Goroutine /\ send'[s] # None /\ send'[s].pc = "stopped"
          /\ send'[s].kind = send[s].kind /\ send'[s].event = send[s].event
      <4>1. "stopped" \in Points
        BY DEF Points
      <4> QED
        BY <2>3, <4>1, ToType
    <3>2. Late(s)' = Late(s)
      BY <1>1, <3>1, Zenon DEF Late, Email
    <3>3. Withheld(s)'
      BY <1>1, <2>1, <2>3, <3>1, <3>2, Zenon DEF Withheld, Gates
    <3>4. Recorded(s)'
      BY <1>1, <2>1, <2>3, <3>1, Zenon DEF Recorded
    <3> QED
      BY <3>1, <3>3, <3>4, Zenon
  <2> QED
    BY <1>1, <2>2, <2>3
<1>3. MailTypes'
  BY <1>1, <1>2, Zenon DEF MailInv, MailTypes
<1> QED
  BY <1>1, <1>2, <1>3, Zenon DEF MailInv

\* A fetched pixel marks the row of what was received.
LEMMA RecordOpenKeeps ==
    ASSUME MailInv, NEW s \in Sends, RecordOpen(s)
    PROVE  MailInv'
<1> DEFINE entry == [log[s] EXCEPT !.delivery = "opened"]
<1>1. /\ s \in received /\ log[s] \in LogRow /\ log[s] # None /\ Withheld(s) /\ Recorded(s)
      /\ UNCHANGED <<send, token, suppressed, client, received, confirmed, past, blind, unwritten>>
  BY Zenon DEF RecordOpen, MailInv, MailTypes
<1>2. entry \in LogRow /\ entry # None /\ entry.status = log[s].status
  BY <1>1, MailAssumption DEF LogRow
<1>3. log' = [log EXCEPT ![s] = entry]
  BY DEF RecordOpen
<1> HIDE DEF entry
<1>4. log'[s] = entry
  BY <1>3, Zenon DEF MailInv, MailTypes
<1>5. send[s] # None
  BY <1>1, Zenon DEF Recorded
<1>6. Withheld(s)'
  BY <1>1, Zenon DEF Withheld, Late, Email
<1>7. Recorded(s)'
  BY <1>1, <1>2, <1>4, <1>5, Zenon DEF Recorded
<1> QED
  BY <1>1, <1>2, <1>3, <1>5, <1>6, <1>7, Same, OneSend, Zenon DEF MailInv, MailTypes

\* A request to unsubscribe that has not written yet.
LEMMA ClientKeeps ==
    ASSUME MailInv, UNCHANGED <<send, log, token, suppressed, received, past, blind, unwritten>>,
           client' \in [Clients -> [event : MailEvents, pc : {"exists", "insert"}] \cup {None}],
           confirmed' \subseteq suppressed
    PROVE  MailInv'
<1>1. \A s \in Sends : (Withheld(s) /\ Recorded(s))' = (Withheld(s) /\ Recorded(s))
  BY DEF Withheld, Recorded, Late, Email
<1> QED
  BY <1>1, Zenon DEF MailInv, MailTypes

\* The first request to insert the row remembers what is past the gate: all that
\* was received is.
LEMMA SuppressKeeps ==
    ASSUME MailInv, NEW c \in Clients, Suppress(c)
    PROVE  MailInv'
<1> DEFINE e == client[c].event
<1>1. e \in MailEvents /\ UNCHANGED <<send, log, token, received, blind, unwritten>>
  BY Zenon DEF Suppress, MailInv, MailTypes
<1>2. CASE UNCHANGED <<suppressed, confirmed, past>> /\ client' = [client EXCEPT ![c] = None]
  BY <1>1, <1>2, ClientKeeps, Zenon DEF MailInv, MailTypes
<1>3. CASE Answer(c) /\ suppressed' = suppressed \cup {e} /\ e \in suppressed /\ past' = past
  <2>1. suppressed' = suppressed
    BY <1>3, Zenon
  <2> QED
    BY <1>1, <1>3, <2>1, ClientKeeps, Zenon DEF Answer, MailInv, MailTypes
<1>4. CASE /\ Answer(c) /\ suppressed' = suppressed \cup {e} /\ e \notin suppressed
           /\ past' = [past EXCEPT ![e] = {s \in Sends : send[s] # None /\ send[s].event = e
                        /\ send[s].pc \notin {"gate", "gate in Send"}}]
  <2>1. MailTypes'
    BY <1>1, <1>4, Zenon DEF Answer, MailInv, MailTypes
  <2>2. confirmed' \subseteq suppressed'
    BY <1>4, Zenon DEF Answer, MailInv
  <2>3. ASSUME NEW s \in Sends PROVE Withheld(s)' /\ Recorded(s)'
    <3>1. Withheld(s) /\ Recorded(s)
      BY Zenon DEF MailInv
    <3>2. Recorded(s)'
      BY <1>1, <3>1, Zenon DEF Recorded
    <3>3. ASSUME send[s] # None, send[s].event = e, s \notin past'[e] PROVE send[s].pc \in Gates
      <4>1. past'[e] = {t \in Sends : send[t] # None /\ send[t].event = e
                        /\ send[t].pc \notin {"gate", "gate in Send"}}
        BY <1>1, <1>4, Zenon DEF MailInv, MailTypes
      <4> QED
        BY <3>3, <4>1, Zenon DEF Gates
    <3>4. CASE send[s] # None /\ send[s].event = e
      <4>1. Late(s)' => s \notin past'[e]
        BY <1>1, <3>4, Zenon DEF Late
      <4> HIDE DEF e
      <4> QED
        BY <1>1, <3>1, <3>2, <3>3, <3>4, <4>1, Zenon DEF Withheld
    <3>5. CASE send[s] # None /\ send[s].event # e
      <4>1. send[s].event \in MailEvents
        BY <3>5, Zenon DEF MailInv, MailTypes, Goroutine
      <4>2. Late(s)' = Late(s)
        BY <1>1, <1>4, <3>5, <4>1, Zenon DEF Late, Email, MailInv, MailTypes
      <4> QED
        BY <1>1, <3>1, <3>2, <4>2, Zenon DEF Withheld
    <3> QED
      BY <1>1, <3>2, <3>4, <3>5, Zenon DEF Withheld
  <2> QED
    BY <2>1, <2>2, <2>3 DEF MailInv
<1> QED
  BY <1>2, <1>3, <1>4, Zenon DEF Suppress

\* Every step of a send or of a client keeps the invariant of the mail.
LEMMA MailStep == MailInv /\ [MailNext]_mail => MailInv'
<1> SUFFICES ASSUME MailInv, [MailNext]_mail PROVE MailInv'
  BY Zenon
<1>1. ASSUME NEW s \in Sends, Sending(s) PROVE MailInv'
  BY <1>1, BeginSendKeeps, CancelContextKeeps, GateKeeps, FooterKeeps, InsertLogKeeps, AttemptKeeps,
     FinishKeeps, RecordOpenKeeps, Zenon DEF Sending
<1>2. ASSUME NEW c \in Clients, handleUnsubscribe(c) PROVE MailInv'
  <2>1. ASSUME NEW s \in Sends, VerifyUnsubscribeToken(c, s) PROVE MailInv'
    <3>1. token[s] \in MailEvents
      BY <2>1, Zenon DEF VerifyUnsubscribeToken, MailInv, MailTypes
    <3> QED
      BY <2>1, <3>1, ClientKeeps, Zenon DEF VerifyUnsubscribeToken, MailInv, MailTypes
  <2>2. CASE existsExact(c)
    <3>1. client[c] \in [event : MailEvents, pc : {"exists", "insert"}]
      BY <2>2, Zenon DEF existsExact, MailInv, MailTypes
    <3>2. client' \in [Clients -> [event : MailEvents, pc : {"exists", "insert"}] \cup {None}]
      BY <2>2, <3>1 DEF existsExact, Answer, MailInv, MailTypes
    <3> QED
      BY <2>2, <3>2, ClientKeeps DEF existsExact, Answer, MailInv
  <2> QED
    BY <1>2, <2>1, <2>2, SuppressKeeps, Zenon DEF handleUnsubscribe
<1>3. CASE UNCHANGED mail
  BY <1>3, ClientKeeps, Zenon DEF mail, MailInv, MailTypes
<1> QED
  BY <1>1, <1>2, <1>3, StopSendsKeeps, Zenon DEF MailNext

\* Once the recipient was told that they unsubscribed, no mail of the event
\* reaches them but from a Send that was past the gate or whose lookup failed.
THEOREM NoMailAfterUnsubscribeHolds == MailSpec => []NoMailAfterUnsubscribe
<1>1. MailInv => NoMailAfterUnsubscribe
  <2> SUFFICES ASSUME MailInv, NEW e \in confirmed, NEW s \in received, send[s].event = e, Email(s)
               PROVE  s \in past[e] \cup blind
    BY Zenon DEF NoMailAfterUnsubscribe, MailInv
  <2>1. s \in Sends /\ e \in suppressed /\ send[s] # None
    BY Zenon DEF MailInv, MailTypes, Recorded
  <2> QED
    BY <2>1, Zenon DEF MailInv, Withheld, Late
<1> QED
  BY <1>1, MailStarts, MailStep, PTL DEF MailSpec

\* The row of a Send that returned says how it ended, and the statistics count no
\* mail as sent or opened that was not received.
THEOREM LogTellsTheOutcomeHolds == MailSpec => []LogTellsTheOutcome
<1>1. MailInv => LogTellsTheOutcome
  <2> SUFFICES ASSUME MailInv PROVE LogTellsTheOutcome
    OBVIOUS
  <2>1. ASSUME NEW s \in Sends, Ended(s) PROVE Logged(s)
    BY <2>1, Zenon DEF MailInv, Recorded, Ended, Logged
  <2>2. ASSUME NEW e \in MailEvents
        PROVE  LET mails == Cardinality({s \in received : send[s].event = e /\ Email(s)}) IN
               GetEmailStats(e).totalSent <= mails /\ GetEmailStats(e).opened <= mails
    <3> DEFINE rows == {s \in Sends : log[s] # None /\ send[s].event = e /\ Email(s)}
               sent == {s \in rows : log[s].status = "sent"}
               opened == {s \in rows : log[s].delivery = "opened"}
               mails == {s \in received : send[s].event = e /\ Email(s)}
    <3>1. sent \subseteq mails /\ opened \subseteq mails
      BY Zenon DEF MailInv, Recorded
    <3>2. IsFiniteSet(mails)
      BY FS_Subset, Zenon DEF MailInv, MailTypes
    <3>3. GetEmailStats(e).totalSent = Cardinality(sent) /\ GetEmailStats(e).opened = Cardinality(opened)
      BY Zenon DEF GetEmailStats
    <3> HIDE DEF sent, opened, mails, rows
    <3>4. Cardinality(sent) <= Cardinality(mails) /\ Cardinality(opened) <= Cardinality(mails)
      BY <3>1, <3>2, FS_Subset
    <3> QED
      BY <3>3, <3>4 DEF mails
  <2> QED
    BY <2>1, <2>2, Zenon DEF LogTellsTheOutcome
<1> QED
  BY <1>1, MailStarts, MailStep, PTL DEF MailSpec

----------------------------------------------------------------------------
(* Reminders *)

\* What the variables hold.
RemindersType ==
    /\ row \in [Reminders -> Row \cup {None}]
    /\ now \in Nat
    /\ due \in [Workers -> SUBSET Copy]
    /\ sending \in [Workers -> Reminders \cup {None}]
    /\ form \in [Editors -> Copy \cup {None}]
    /\ sends \in [Reminders -> Nat]
    /\ revived \in [Reminders -> Nat]

\* A row is in a job's list only after its time: NoEarlySend rests on it.
DueIsPast == \A w \in Workers : \A d \in due[w] : d.at <= now

RemindersInv == RemindersType /\ DueIsPast /\ SendsAccounted /\ NoneLeftBehind

\* A row has a status and a time, and None is neither a row nor a copy.
LEMMA Rows ==
    ASSUME RemindersType, NEW r \in Reminders, Stored(r)
    PROVE  row[r] \in Row /\ row[r].status \in Statuses /\ row[r].at \in Nat
BY Zenon DEF RemindersType, Stored, Row

\* The table with the status of one row changed.
LEMMA StatusChanged ==
    ASSUME RemindersType, NEW r \in Reminders, Stored(r), NEW outcome \in Statuses,
           row' = [row EXCEPT ![r].status = outcome]
    PROVE  /\ row' \in [Reminders -> Row \cup {None}]
           /\ row'[r] # None /\ row'[r].status = outcome
           /\ \A q \in Reminders \ {r} : row'[q] = row[q]
<1>1. row[r] \in Row
  BY Rows
<1>2. [row[r] EXCEPT !.status = outcome] \in Row
  BY <1>1 DEF Row
<1> QED
  BY <1>2, RemindersAssumption, Zenon DEF RemindersType, Row

\* The table with one row written as a whole.
LEMMA RowWritten ==
    ASSUME RemindersType, NEW r \in Reminders, NEW at \in Nat,
           row' = [row EXCEPT ![r] = [status |-> "scheduled", at |-> at]]
    PROVE  /\ row' \in [Reminders -> Row \cup {None}]
           /\ row'[r] # None /\ row'[r].status = "scheduled"
           /\ \A q \in Reminders \ {r} : row'[q] = row[q]
<1>1. [status |-> "scheduled", at |-> at] \in Row
  BY Zenon DEF Row, Statuses
<1> QED
  BY <1>1, RemindersAssumption, Zenon DEF RemindersType

\* Steps of the organizer.
LEMMA CreateKeeps ==
    ASSUME RemindersInv, NEW r \in Reminders, NEW at \in 0..MaxTime, Create(r, at)
    PROVE  RemindersInv'
<1> USE DEF RemindersInv
<1>1. at \in Nat
  BY RemindersAssumption
<1>2. /\ row' \in [Reminders -> Row \cup {None}]
      /\ row'[r] # None /\ row'[r].status = "scheduled"
      /\ \A q \in Reminders \ {r} : row'[q] = row[q]
  BY <1>1, RowWritten, Zenon DEF Create
<1>3. RemindersType' /\ DueIsPast'
  BY <1>2, Zenon DEF Create, RemindersType, DueIsPast
<1>4. SendsAccounted'
  BY <1>2, Zenon DEF Create, SendsAccounted, Scheduled, Stored, RemindersType
<1>5. NoneLeftBehind'
  BY <1>2, Zenon DEF Create, NoneLeftBehind, Stored
<1> QED
  BY <1>3, <1>4, <1>5

\* handleUpdate reads a scheduled row.
LEMMA EditReadKeeps ==
    ASSUME RemindersInv, NEW e \in Editors, NEW r \in Reminders, EditRead(e, r)
    PROVE  RemindersInv'
<1> USE DEF RemindersInv
<1>1. row[r].at \in Nat
  BY Rows, Zenon DEF EditRead, Scheduled
<1>2. RemindersType'
  BY <1>1, Zenon DEF EditRead, RemindersType, Copy
<1>3. DueIsPast' /\ SendsAccounted' /\ NoneLeftBehind'
  BY Zenon DEF EditRead, DueIsPast, SendsAccounted, NoneLeftBehind, Scheduled, Stored
<1> QED
  BY <1>2, <1>3

\* handleUpdate writes the row back, over whatever it has become.
LEMMA EditWriteKeeps ==
    ASSUME RemindersInv, NEW e \in Editors, NEW at \in 0..MaxTime, EditWrite(e, at)
    PROVE  RemindersInv'
<1> USE DEF RemindersInv
<1>0. PICK r \in Reminders : r = form[e].id
  BY Zenon DEF EditWrite, RemindersType, Copy
<1>1. at \in Nat /\ r \in Reminders
  BY RemindersAssumption
<1>2. CASE ~Stored(r)
  BY <1>0, <1>2, Zenon DEF EditWrite, RemindersType, DueIsPast, SendsAccounted, NoneLeftBehind, Scheduled, Stored
<1>3. CASE Stored(r)
  <2>1. /\ row' = [row EXCEPT ![r] = [status |-> "scheduled", at |-> at]]
        /\ revived' = [revived EXCEPT ![r] = IF Scheduled(r) THEN @ ELSE @ + 1]
        /\ form' = [form EXCEPT ![e] = None]
        /\ UNCHANGED <<deleted, now, due, sending, sends, lost, crashes>>
    BY <1>0, <1>3, Zenon DEF EditWrite
  <2>2. /\ row' \in [Reminders -> Row \cup {None}]
        /\ row'[r] # None /\ row'[r].status = "scheduled"
        /\ \A q \in Reminders \ {r} : row'[q] = row[q]
    BY <1>1, <2>1, RowWritten, Zenon
  <2>a. revived \in [Reminders -> Nat] /\ form \in [Editors -> Copy \cup {None}]
    BY Zenon DEF RemindersType
  <2>b. /\ revived' \in [Reminders -> Nat]
        /\ revived'[r] = IF Scheduled(r) THEN revived[r] ELSE revived[r] + 1
        /\ \A q \in Reminders \ {r} : revived'[q] = revived[q]
    BY <1>1, <2>1, <2>a
  <2>c. form' \in [Editors -> Copy \cup {None}]
    BY <2>1, <2>a, Zenon
  <2>3. RemindersType' /\ DueIsPast'
    BY <2>1, <2>2, <2>b, <2>c, Zenon DEF RemindersType, DueIsPast
  <2>4. SendsAccounted'
    <3>a. sends[r] <= revived[r] + (IF Scheduled(r) THEN 0 ELSE 1)
      BY <1>1, <1>3, Zenon DEF SendsAccounted
    <3>b. sends[r] \in Nat /\ revived[r] \in Nat
      BY <1>1, Zenon DEF RemindersType
    <3>c. sends' = sends
      BY <2>1, Zenon
    <3>1. sends'[r] <= revived'[r]
      <4> HIDE DEF RemindersInv
      <4> QED
        BY <2>b, <3>a, <3>b, <3>c, SMTT(30)
    <3>2. Scheduled(r)'
      BY <2>2, Zenon DEF Scheduled, Stored
    <3>3. ASSUME NEW q \in Reminders \ {r}
          PROVE  /\ sends'[q] = sends[q] /\ revived'[q] = revived[q]
                 /\ Scheduled(q)' = Scheduled(q) /\ Stored(q)' = Stored(q)
      BY <2>1, <2>2, <2>b, Zenon DEF Scheduled, Stored
    <3>4. deleted' = deleted /\ revived'[r] \in Nat
      BY <1>1, <2>1, <2>b, Zenon
    <3> DEFINE Spent(q) == IF Scheduled(q) \/ (~Stored(q) /\ q \notin deleted) THEN 0 ELSE 1
    <3>5. Spent(r)' = 0
      BY <3>2, Zenon
    <3>6. \A q \in Reminders \ {r} : Spent(q)' = Spent(q)
      BY <3>3, <3>4, Zenon
    <3>7. \A q \in Reminders : sends[q] <= revived[q] + Spent(q)
      BY Zenon DEF SendsAccounted
    <3> HIDE DEF Spent, RemindersInv
    <3>8. \A q \in Reminders : sends'[q] <= revived'[q] + Spent(q)'
      <4>1. sends'[r] <= revived'[r] + Spent(r)'
        <5> HIDE DEF RemindersInv
        <5>1. revived'[r] + 0 = revived'[r]
          BY <3>4
        <5> QED
          BY <3>1, <3>5, <5>1, Zenon
      <4>2. \A q \in Reminders \ {r} : sends'[q] <= revived'[q] + Spent(q)'
        BY <3>3, <3>6, <3>7, Zenon
      <4> QED
        BY <4>1, <4>2, Zenon
    <3> QED
      BY <3>8, Zenon DEF SendsAccounted, Spent
  <2>5. NoneLeftBehind'
    BY <1>1, <2>1, <2>2, Zenon DEF NoneLeftBehind, Stored
  <2> QED
    BY <2>3, <2>4, <2>5, Zenon
<1> QED
  BY <1>2, <1>3

\* handleUpdate refuses.
LEMMA EditRejectKeeps ==
    ASSUME RemindersInv, NEW e \in Editors, EditReject(e)
    PROVE  RemindersInv'
BY Zenon DEF RemindersInv, EditReject, RemindersType, DueIsPast, SendsAccounted, NoneLeftBehind,
       Scheduled, Stored

\* handleCancel: what is cancelled is no longer scheduled.
LEMMA CancelKeeps ==
    ASSUME RemindersInv, NEW r \in Reminders, Cancel(r)
    PROVE  RemindersInv'
<1> USE DEF RemindersInv
<1>1. /\ row' \in [Reminders -> Row \cup {None}]
      /\ row'[r] # None /\ row'[r].status = "cancelled"
      /\ \A q \in Reminders \ {r} : row'[q] = row[q]
  BY StatusChanged, Zenon DEF Cancel, Scheduled, Statuses
<1>2. RemindersType' /\ DueIsPast'
  BY <1>1 DEF Cancel, RemindersType, DueIsPast
<1>3. SendsAccounted'
  BY <1>1 DEF Cancel, SendsAccounted, Scheduled, Stored, RemindersType
<1>4. NoneLeftBehind'
  BY <1>1 DEF Cancel, NoneLeftBehind, Stored
<1> QED
  BY <1>2, <1>3, <1>4

\* The reminders go with their event.
LEMMA DeleteEventKeeps ==
    ASSUME RemindersInv, NEW r \in Reminders, DeleteEvent(r)
    PROVE  RemindersInv'
<1> USE DEF RemindersInv
<1>1. row'[r] = None /\ \A q \in Reminders \ {r} : row'[q] = row[q]
  BY Zenon DEF DeleteEvent, RemindersType
<1>2. RemindersType' /\ DueIsPast'
  BY Zenon DEF DeleteEvent, RemindersType, DueIsPast
<1>3. SendsAccounted'
  BY <1>1 DEF DeleteEvent, SendsAccounted, Scheduled, Stored, RemindersType
<1>4. NoneLeftBehind'
  BY <1>1, Zenon DEF DeleteEvent, NoneLeftBehind, Stored
<1> QED
  BY <1>2, <1>3, <1>4, SMTT(30)

\* Steps of the reminder job.
LEMMA FindDueKeeps ==
    ASSUME RemindersInv, NEW w \in Workers, FindDue(w)
    PROVE  RemindersInv'
<1> USE DEF RemindersInv
<1> DEFINE found == {[id |-> r, at |-> row[r].at] : r \in DueRows}
<1>1. found \subseteq Copy /\ \A d \in found : d.at <= now
  BY Rows DEF DueRows, Scheduled, Copy
<1>2. /\ due' = [due EXCEPT ![w] = found]
      /\ UNCHANGED <<row, deleted, now, sending, form, edits, sends, revived, lost, crashes>>
  BY Zenon DEF FindDue
<1>3. RemindersType' /\ DueIsPast'
  BY <1>1, <1>2, Zenon DEF RemindersType, DueIsPast
<1>4. SendsAccounted' /\ NoneLeftBehind'
  BY <1>2, Zenon DEF SendsAccounted, NoneLeftBehind, Scheduled, Stored
<1> QED
  BY <1>3, <1>4

\* ClaimForProcessing: one job gets the row, which leaves the status scheduled.
LEMMA ClaimKeeps ==
    ASSUME RemindersInv, NEW w \in Workers, NEW d \in due[w], Claim(w, d)
    PROVE  RemindersInv'
<1> USE DEF RemindersInv
<1>1. d \in Copy /\ d.id \in Reminders
  BY DEF RemindersType, Copy
<1>2. /\ row' \in [Reminders -> Row \cup {None}]
      /\ row'[d.id] # None /\ row'[d.id].status = "processing"
      /\ \A q \in Reminders \ {d.id} : row'[q] = row[q]
  BY <1>1, StatusChanged, Zenon DEF Claim, Scheduled, Statuses
<1>3. RemindersType' /\ DueIsPast'
  BY <1>1, <1>2, SMTT(30) DEF Claim, RemindersType, DueIsPast
<1>4. SendsAccounted'
  BY <1>1, <1>2 DEF Claim, SendsAccounted, Scheduled, Stored, RemindersType
<1>5. NoneLeftBehind'
  <2> SUFFICES ASSUME NEW r \in Reminders, Stored(r)', row'[r].status = "processing"
               PROVE  r \in lost' \/ \E v \in Workers : sending'[v] = r
    BY Zenon DEF NoneLeftBehind
  <2>1. sending[w] = None /\ sending' = [sending EXCEPT ![w] = d.id] /\ lost' = lost
    BY DEF Claim
  <2>2. CASE r = d.id
    BY <2>1, <2>2, Zenon DEF RemindersType
  <2>3. CASE r # d.id
    <3>1. r \in lost \/ \E v \in Workers : sending[v] = r
      BY <1>2, <2>3, Zenon DEF NoneLeftBehind, Stored
    <3> QED
      BY <2>1, <3>1, RemindersAssumption, Zenon DEF RemindersType
  <2> QED
    BY <2>2, <2>3, Zenon
<1> QED
  BY <1>3, <1>4, <1>5, Zenon

\* A row that another job or an edit has claimed or cancelled is passed over.
LEMMA SkipKeeps ==
    ASSUME RemindersInv, NEW w \in Workers, NEW d \in due[w], Skip(w, d)
    PROVE  RemindersInv'
BY Zenon DEF RemindersInv, Skip, RemindersType, DueIsPast, SendsAccounted, NoneLeftBehind,
       Scheduled, Stored

\* SetStatus writes the outcome.
LEMMA CompleteKeeps ==
    ASSUME RemindersInv, NEW w \in Workers, NEW outcome \in {"sent", "failed"},
           Complete(w, outcome)
    PROVE  RemindersInv'
<1> USE DEF RemindersInv
<1> DEFINE r == sending[w]
<1>1. /\ r \in Reminders
      /\ sending' = [sending EXCEPT ![w] = None]
      /\ UNCHANGED <<deleted, now, due, form, edits, sends, revived, lost, crashes>>
  BY DEF Complete, RemindersType
<1>2. CASE ~Stored(r)
  <2>1. row' = row
    BY <1>2 DEF Complete
  <2>2. NoneLeftBehind'
    BY <1>1, <1>2, <2>1, Zenon DEF NoneLeftBehind, Stored, RemindersType
  <2> QED
    BY <1>1, <2>1, <2>2, Zenon DEF RemindersType, DueIsPast, SendsAccounted, Scheduled, Stored
<1>3. CASE Stored(r)
  <2>1. row' = [row EXCEPT ![r].status = outcome]
    BY <1>3 DEF Complete
  <2>2. /\ row' \in [Reminders -> Row \cup {None}]
        /\ row'[r] # None /\ row'[r].status = outcome
        /\ \A q \in Reminders \ {r} : row'[q] = row[q]
    BY <1>1, <1>3, <2>1, StatusChanged, Zenon DEF Statuses
  <2>3. RemindersType' /\ DueIsPast'
    BY <1>1, <2>2, Zenon DEF RemindersType, DueIsPast
  <2>4. SendsAccounted'
    BY <1>1, <1>3, <2>2 DEF SendsAccounted, Scheduled, Stored, RemindersType
  <2>5. NoneLeftBehind'
    BY <1>1, <2>2, Zenon DEF NoneLeftBehind, Stored, RemindersType
  <2> QED
    BY <2>3, <2>4, <2>5, Zenon
<1> QED
  BY <1>2, <1>3, Zenon

\* The outcome that cannot be written is recorded as lost.
LEMMA StatusUnwrittenKeeps ==
    ASSUME RemindersInv, NEW w \in Workers, StatusUnwritten(w)
    PROVE  RemindersInv'
BY Zenon DEF RemindersInv, StatusUnwritten, RemindersType, DueIsPast, SendsAccounted,
       NoneLeftBehind, Scheduled, Stored

\* A process that stops loses what it was sending.
LEMMA CrashKeeps ==
    ASSUME RemindersInv, NEW w \in Workers, Crash(w)
    PROVE  RemindersInv'
<1> USE DEF RemindersInv
<1>1. RemindersType' /\ DueIsPast' /\ SendsAccounted'
  BY Zenon DEF Crash, RemindersType, DueIsPast, SendsAccounted, Scheduled, Stored
<1>2. NoneLeftBehind'
  BY RemindersAssumption, Zenon DEF Crash, NoneLeftBehind, Stored, RemindersType
<1> QED
  BY <1>1, <1>2

\* Time passes.
LEMMA TickKeeps ==
    ASSUME RemindersInv, Tick
    PROVE  RemindersInv'
<1>1. RemindersType' /\ DueIsPast'
  BY DEF RemindersInv, Tick, RemindersType, DueIsPast, Copy
<1> QED
  BY <1>1, Zenon DEF RemindersInv, Tick, SendsAccounted, NoneLeftBehind, Scheduled, Stored

\* No reminder exists at the start.
LEMMA RemindersStart == RemindersInit => RemindersInv
BY RemindersAssumption
   DEF RemindersInit, RemindersInv, RemindersType, DueIsPast, SendsAccounted, NoneLeftBehind, Stored,
       Scheduled

\* Every step of organizer, jobs and clock keeps the invariant.
LEMMA RemindersStep == RemindersInv /\ [RemindersNext]_reminderVars => RemindersInv'
<1> SUFFICES ASSUME RemindersInv, [RemindersNext]_reminderVars PROVE RemindersInv'
  OBVIOUS
<1>1. ASSUME NEW r \in Reminders, NEW at \in 0..MaxTime, Create(r, at) PROVE RemindersInv'
  BY <1>1, CreateKeeps
<1>2. ASSUME NEW r \in Reminders, NEW e \in Editors, EditRead(e, r) PROVE RemindersInv'
  BY <1>2, EditReadKeeps
<1>3. ASSUME NEW r \in Reminders, Cancel(r) PROVE RemindersInv'
  BY <1>3, CancelKeeps
<1>4. ASSUME NEW r \in Reminders, DeleteEvent(r) PROVE RemindersInv'
  BY <1>4, DeleteEventKeeps, SMTT(30)
<1>5. ASSUME NEW e \in Editors, EditReject(e) PROVE RemindersInv'
  BY <1>5, EditRejectKeeps, SMTT(30)
<1>6. ASSUME NEW e \in Editors, NEW at \in 0..MaxTime, EditWrite(e, at) PROVE RemindersInv'
  BY <1>6, EditWriteKeeps, SMTT(30)
<1>7. ASSUME NEW w \in Workers, Work(w) PROVE RemindersInv'
  BY <1>7, FindDueKeeps, ClaimKeeps, SkipKeeps, CompleteKeeps, StatusUnwrittenKeeps, Zenon DEF Work
<1>8. ASSUME NEW w \in Workers, Crash(w) PROVE RemindersInv'
  BY <1>8, CrashKeeps, SMTT(30)
<1>9. CASE Tick
  BY <1>9, TickKeeps
<1>10. CASE UNCHANGED reminderVars
  BY <1>10, Zenon DEF reminderVars, RemindersInv, RemindersType, DueIsPast, SendsAccounted, NoneLeftBehind,
               Scheduled, Stored
<1> QED
  BY <1>1, <1>2, <1>3, <1>4, <1>5, <1>6, <1>7, <1>8, <1>9, <1>10, Zenon DEF RemindersNext

\* However many jobs, edits and stops interleave, a reminder is broadcast at most
\* once more often than an edit was written over a row that was no longer
\* scheduled (ClaimForProcessing).
THEOREM SendsAccountedHolds == RemindersSpec => []SendsAccounted
<1>1. RemindersInv => SendsAccounted
  BY DEF RemindersInv
<1> QED
  BY <1>1, RemindersStart, RemindersStep, PTL DEF RemindersSpec

\* A reminder stays in processing only while a job broadcasts it or after a stop
\* or a failed write (processReminder).
THEOREM NoneLeftBehindHolds == RemindersSpec => []NoneLeftBehind
<1>1. RemindersInv => NoneLeftBehind
  BY Zenon DEF RemindersInv
<1> QED
  BY <1>1, RemindersStart, RemindersStep, PTL DEF RemindersSpec

\* A claim starts a broadcast before the time of its row only if the row was
\* postponed after FindDue read it.
THEOREM NoEarlySendHolds == RemindersSpec => NoEarlySend
<1>1. RemindersInv /\ [RemindersNext]_reminderVars => [ClaimsInTime]_reminderVars
  <2> SUFFICES ASSUME RemindersInv PROVE ClaimsInTime
    OBVIOUS
  <2> QED
    BY Zenon DEF RemindersInv, DueIsPast, ClaimsInTime
<1> QED
  BY <1>1, RemindersStart, RemindersStep, PTL DEF RemindersSpec, NoEarlySend

----------------------------------------------------------------------------
(* The household's response *)

PageRecord ==
    [step : {"load", "guests", "questions", "answers", "open"}, version : Nat,
     allowance : Nat, assigned : SUBSET Guests, additional : SUBSET Guests,
     attending : SUBSET Guests, invitationQuestions : SUBSET Questions,
     guestQuestions : SUBSET Questions, invAnswers : Answers,
     guestAnswers : [Guests -> Answers]]

HouseholdTypes ==
    /\ version \in Nat /\ allowance \in Nat
    /\ assigned \subseteq Guests /\ additional \subseteq Guests /\ attending \subseteq Guests
    /\ invAnswers \in Answers /\ guestAnswers \in [Guests -> Answers]
    /\ page \in [Pages -> PageRecord]

\* CurrentPageIsExact is not inductive: a page must not be ahead of the household
\* either, or the next response would make it current; and what is removed was
\* once a guest, of one origin only, or the organizer's edit and the form could
\* each reach the guests of the other.
HouseholdInv ==
    /\ HouseholdTypes
    /\ assigned \cap additional = {}
    /\ removed \subseteq assigned \cup additional
    /\ \A c \in Pages : page[c].step # "load" => page[c].version <= version
    /\ CurrentPageIsExact

\* A page that is not loaded yet.
LEMMA BlankTyped == Blank \in PageRecord
BY Zenon DEF Blank, PageRecord, Unanswered, NoAnswers, Answers

\* A household is created without response and with no page open on it.
LEMMA HouseholdStarts == Init => HouseholdInv
<1> SUFFICES ASSUME Init PROVE HouseholdInv
  BY Zenon
<1>1. page \in [Pages -> PageRecord]
  BY BlankTyped DEF Init
<1>2. \A c \in Pages : page[c].step = "load"
  BY Zenon DEF Init, Blank
<1>3. invAnswers \in Answers /\ guestAnswers \in [Guests -> Answers]
  BY DEF Init, Unanswered, NoAnswers, Answers
<1>4. allowance \in Nat /\ version \in Nat
  BY HouseholdAssumption DEF Init
<1> QED
  BY <1>1, <1>2, <1>3, <1>4, Zenon DEF Init, HouseholdInv, HouseholdTypes, CurrentPageIsExact

\* What CurrentPageIsExact and the version say of one page.
Exact(c) ==
    page[c].step # "load" =>
        /\ page[c].version <= version
        /\ page[c].version = version =>
            /\ GuestsLoaded(c) =>
                  /\ page[c].additional = Active(additional)
                  /\ \A g \in page[c].assigned \ removed :
                         g \in page[c].attending <=> g \in attending
            /\ AnswersLoaded(c) =>
                  /\ page[c].invAnswers = invAnswers
                  /\ \A g \in page[c].assigned \cup page[c].additional :
                         g \notin removed => page[c].guestAnswers[g] = guestAnswers[g]

LEMMA ExactPages ==
    /\ HouseholdInv => \A c \in Pages : Exact(c)
    /\ (\A c \in Pages : Exact(c)) =>
          CurrentPageIsExact /\ \A c \in Pages : page[c].step # "load" => page[c].version <= version
BY Zenon DEF HouseholdInv, CurrentPageIsExact, GuestsLoaded, AnswersLoaded, Exact

\* A read of one page changes nothing else.
LEMMA PageRead ==
    ASSUME HouseholdInv, NEW c \in Pages, NEW p \in PageRecord,
           page' = [page EXCEPT ![c] = p],
           UNCHANGED <<allowance, household>>, Exact(c)'
    PROVE  HouseholdInv'
<1>1. \A d \in Pages : Exact(d)'
  <2> SUFFICES ASSUME NEW d \in Pages, d # c PROVE Exact(d)'
    BY Zenon
  <2>1. Exact(d) /\ page'[d] = page[d]
    BY ExactPages, Zenon DEF HouseholdInv, HouseholdTypes
  <2> QED
    BY <2>1, Zenon DEF Exact, GuestsLoaded, AnswersLoaded, household, Active
<1>2. HouseholdTypes'
  BY Zenon DEF HouseholdInv, HouseholdTypes, household
<1> QED
  BY <1>1, <1>2, ExactPages, Zenon DEF HouseholdInv, household, CurrentPageIsExact, GuestsLoaded, AnswersLoaded, Exact

\* The version is read before everything else.
LEMMA LoadVersionKeeps ==
    ASSUME HouseholdInv, NEW c \in Pages, LoadVersion(c)
    PROVE  HouseholdInv'
<1> DEFINE p == [Blank EXCEPT !.step = "guests", !.version = version, !.allowance = allowance]
<1>1. page' = [page EXCEPT ![c] = p] /\ UNCHANGED <<allowance, household>>
  BY Zenon DEF LoadVersion
<1>2. p \in PageRecord /\ p.step = "guests" /\ p.version = version
  BY BlankTyped, Zenon DEF PageRecord, HouseholdInv, HouseholdTypes
<1> HIDE DEF p
<1>3. page'[c] = p /\ version' = version
  BY <1>1, Zenon DEF HouseholdInv, HouseholdTypes, household
<1>4. Exact(c)'
  BY <1>2, <1>3 DEF Exact, GuestsLoaded, AnswersLoaded, HouseholdInv, HouseholdTypes
<1>5. PICK q \in PageRecord : q = p
  BY <1>2, Zenon
<1> QED
  BY <1>1, <1>4, <1>5, PageRead, Zenon

\* listGuests: as long as the version is current, so are the guests.
LEMMA LoadGuestsKeeps ==
    ASSUME HouseholdInv, NEW c \in Pages, LoadGuests(c)
    PROVE  HouseholdInv'
<1> PICK p \in PageRecord : p = page[c]
  BY Zenon DEF HouseholdInv, HouseholdTypes
<1> PICK q : q = [p EXCEPT !.step = "questions", !.assigned = Active(assigned),
                           !.additional = Active(additional), !.attending = Active(attending)]
  OBVIOUS
<1>1. page' = [page EXCEPT ![c] = q] /\ UNCHANGED <<allowance, household>>
  BY DEF LoadGuests
<1>2. /\ q \in PageRecord /\ q.step = "questions" /\ q.version = p.version
      /\ q.assigned = Active(assigned) /\ q.additional = Active(additional)
      /\ q.attending = Active(attending)
  BY Zenon DEF PageRecord, HouseholdInv, HouseholdTypes, Active
<1>3. page'[c] = q /\ p.version <= version
  BY <1>1 DEF HouseholdInv, HouseholdTypes, LoadGuests
<1>4. Exact(c)'
  BY <1>1, <1>2, <1>3, Zenon DEF Exact, GuestsLoaded, AnswersLoaded, Active, household
<1> QED
  BY <1>1, <1>2, <1>4, PageRead, Zenon

\* listQuestions does not look at the household.
LEMMA LoadQuestionsKeeps ==
    ASSUME HouseholdInv, NEW c \in Pages, LoadQuestions(c)
    PROVE  HouseholdInv'
<1> PICK p \in PageRecord : p = page[c]
  BY DEF HouseholdInv, HouseholdTypes
<1> PICK q : q = [p EXCEPT !.step = "answers", !.invitationQuestions = LiveIn("invitation"),
                           !.guestQuestions = LiveIn("guest")]
  OBVIOUS
<1>1. page' = [page EXCEPT ![c] = q] /\ UNCHANGED <<allowance, household>>
  BY DEF LoadQuestions
<1>2. /\ q \in PageRecord /\ q.step = "answers" /\ q.version = p.version
      /\ q.assigned = p.assigned /\ q.additional = p.additional /\ q.attending = p.attending
  BY Zenon DEF PageRecord, LiveIn, Live
<1>3. page'[c] = q /\ Exact(c) /\ p.step = "questions"
  BY <1>1, ExactPages DEF HouseholdInv, HouseholdTypes, LoadQuestions
<1>4. Exact(c)'
  BY <1>1, <1>2, <1>3, Zenon DEF Exact, GuestsLoaded, AnswersLoaded, Active, household
<1> QED
  BY <1>1, <1>2, <1>4, PageRead, Zenon

\* listAnswers: as long as the version is current, so are the answers.
LEMMA LoadAnswersKeeps ==
    ASSUME HouseholdInv, NEW c \in Pages, LoadAnswers(c)
    PROVE  HouseholdInv'
<1> PICK p \in PageRecord : p = page[c]
  BY SMTT(30) DEF HouseholdInv, HouseholdTypes
<1> PICK told : told = [g \in Guests |-> IF g \in removed THEN Unanswered ELSE guestAnswers[g]]
  BY Zenon
<1> PICK q : q = [p EXCEPT !.step = "open", !.invAnswers = invAnswers, !.guestAnswers = told]
  BY Zenon
<1>1. page' = [page EXCEPT ![c] = q] /\ UNCHANGED <<allowance, household>>
  BY DEF LoadAnswers
<1>2. /\ told \in [Guests -> Answers]
      /\ \A g \in Guests : g \notin removed => told[g] = guestAnswers[g]
  BY DEF HouseholdInv, HouseholdTypes, Unanswered, Answers
<1>3. /\ q \in PageRecord /\ q.step = "open" /\ q.version = p.version
      /\ q.assigned = p.assigned /\ q.additional = p.additional /\ q.attending = p.attending
      /\ q.invAnswers = invAnswers /\ q.guestAnswers = told
      /\ q.assigned \cup q.additional \subseteq Guests
  BY <1>2, Zenon DEF PageRecord, HouseholdInv, HouseholdTypes
<1>4. page'[c] = q /\ Exact(c) /\ p.step = "answers"
  BY <1>1, ExactPages, Zenon DEF HouseholdInv, HouseholdTypes, LoadAnswers
<1>5. Exact(c)'
  BY <1>1, <1>2, <1>3, <1>4, SMTT(30) DEF Exact, GuestsLoaded, AnswersLoaded, Active, household
<1> QED
  BY <1>1, <1>3, <1>5, PageRead, Zenon

\* Reload and the answers 409.
LEMMA PageCleared ==
    ASSUME HouseholdInv, NEW c \in Pages, Reload(c) \/ Conflict(c)
    PROVE  HouseholdInv'
<1>1. page' = [page EXCEPT ![c] = Blank] /\ UNCHANGED <<allowance, household>>
  BY Zenon DEF Reload, Conflict
<1>2. page'[c].step = "load"
  BY <1>1, Zenon DEF HouseholdInv, HouseholdTypes, Blank
<1>3. Exact(c)'
  BY <1>2, Zenon DEF Exact
<1> QED
  BY <1>1, <1>3, BlankTyped, PageRead, Zenon

\* A response that is saved: what the form may hold, and that validation let it
\* through.
Saved(c, keep, new, yes, answered, told) ==
    LET f == Form(c, keep, new, yes, answered, told) IN
    /\ page[c].step = "open" /\ f.version = version
    /\ keep \in SUBSET page[c].additional /\ new \in SUBSET Fresh
    /\ yes \in SUBSET (page[c].assigned \cup keep \cup new)
    /\ answered \in Answers /\ told \in [Guests -> Answers]
    /\ ~TooMany(f) /\ ~UnknownGuest(f) /\ ~AnswerMissing(f)
    /\ Save(c, f)

\* Submit leaves everything alone, clears the page or saves.
LEMMA SubmitOutcomes ==
    ASSUME NEW c \in Pages, Submit(c)
    PROVE  \/ UNCHANGED vars
           \/ Conflict(c)
           \/ \E keep, new, yes, answered, told : Saved(c, keep, new, yes, answered, told)
<1>1. PICK keep \in SUBSET page[c].additional, new \in SUBSET Fresh :
          \E yes \in SUBSET (page[c].assigned \cup keep \cup new),
             answered \in Edits(page[c].invAnswers, page[c].invitationQuestions),
             told \in GuestEdits(c) :
                 SubmitResponse(c, Form(c, keep, new, yes, answered, told))
  BY Zenon DEF Submit
<1>2. PICK yes \in SUBSET (page[c].assigned \cup keep \cup new),
           answered \in Edits(page[c].invAnswers, page[c].invitationQuestions),
           told \in GuestEdits(c) :
               SubmitResponse(c, Form(c, keep, new, yes, answered, told))
  BY <1>1, Zenon
<1>3. answered \in Answers /\ told \in [Guests -> Answers]
  BY Zenon DEF Edits, GuestEdits
<1> DEFINE f == Form(c, keep, new, yes, answered, told)
<1>4. SubmitResponse(c, f)
  BY <1>2, Zenon
<1>5. page[c].step = "open"
  BY Zenon DEF Submit
<1> HIDE DEF f
<1>6. \/ UNCHANGED vars
      \/ Conflict(c)
      \/ ~TooMany(f) /\ f.version = version /\ ~Refused(f) /\ Save(c, f)
  BY <1>4, Zenon DEF SubmitResponse
<1> QED
  BY <1>3, <1>5, <1>6, Zenon DEF Saved, Refused, f

\* What a saved response makes of the household: the guests of the form become
\* the active ones, and nobody else is touched.
SavedAs(c, keep, new, yes, answered, told) ==
    /\ version' = version + 1 /\ UNCHANGED <<allowance, assigned, question>>
    /\ page' = [page EXCEPT ![c] = Blank]
    /\ keep \subseteq Active(additional) /\ new \subseteq Fresh
    /\ additional' = additional \cup new
    /\ removed' = removed \cup (Active(additional) \ keep)
    /\ Active(assigned)' = Active(assigned) /\ Active(additional)' = keep \cup new
    /\ yes \subseteq Active(assigned) \cup keep \cup new
    /\ page[c].assigned \subseteq Active(assigned)
    /\ attending' = (attending \ (page[c].assigned \cup keep)) \cup yes
    /\ invAnswers' = answered
    /\ guestAnswers' = [g \in Guests |->
           IF g \in Active(assigned) \cup keep \cup new THEN told[g] ELSE guestAnswers[g]]

\* Save does that with a form that passed SubmitResponse's checks.
LEMMA SaveEffect ==
    ASSUME HouseholdInv, NEW c \in Pages, NEW keep, NEW new, NEW yes, NEW answered, NEW told,
           Saved(c, keep, new, yes, answered, told)
    PROVE  SavedAs(c, keep, new, yes, answered, told)
<1> DEFINE f == Form(c, keep, new, yes, answered, told)
<1>1. /\ f.assigned = page[c].assigned /\ f.keep = keep /\ f.new = new
      /\ f.attending = yes /\ f.invAnswers = answered /\ f.guestAnswers = told
  BY Zenon DEF Form
<1>2. /\ Save(c, f) /\ ~UnknownGuest(f) /\ new \subseteq Fresh
      /\ yes \subseteq page[c].assigned \cup keep \cup new
  BY Zenon DEF Saved
<1> HIDE DEF f
<1>3. page[c].assigned \subseteq Active(assigned) /\ keep \subseteq Active(additional)
  BY <1>1, <1>2, Zenon DEF UnknownGuest
<1>4. GuestsAfter(f) = Active(assigned) \cup keep \cup new
  BY <1>1, Zenon DEF GuestsAfter
<1>5. /\ version' = version + 1 /\ UNCHANGED <<allowance, assigned, question>>
      /\ page' = [page EXCEPT ![c] = Blank]
      /\ additional' = additional \cup new
      /\ removed' = removed \cup (Active(additional) \ keep)
      /\ attending' = (attending \ (page[c].assigned \cup keep)) \cup yes
      /\ invAnswers' = answered
  BY <1>1, <1>2, Zenon DEF Save, AttendingAfter
<1>6. guestAnswers' = [g \in Guests |->
          IF g \in Active(assigned) \cup keep \cup new THEN told[g] ELSE guestAnswers[g]]
  BY <1>1, <1>2, <1>4, Zenon DEF Save
<1>7. Active(assigned)' = Active(assigned) /\ Active(additional)' = keep \cup new
  BY <1>2, <1>3, <1>5, Zenon DEF HouseholdInv, Active, Fresh
<1>8. yes \subseteq Active(assigned) \cup keep \cup new
  BY <1>2, <1>3, Zenon
<1> QED
  BY <1>2, <1>3, <1>5, <1>6, <1>7, <1>8, Zenon DEF SavedAs

\* A saved response leaves every other page behind the current version.
LEMMA SaveKeeps ==
    ASSUME HouseholdInv, NEW c \in Pages, NEW keep, NEW new, NEW yes, NEW answered, NEW told,
           Saved(c, keep, new, yes, answered, told)
    PROVE  HouseholdInv'
<1>0. SavedAs(c, keep, new, yes, answered, told)
  BY SaveEffect, Zenon
<1>1. /\ version' = version + 1 /\ allowance' = allowance
      /\ page' = [page EXCEPT ![c] = Blank]
  BY <1>0, Zenon DEF SavedAs
<1>2. /\ keep \subseteq Active(additional) /\ new \subseteq Fresh
      /\ assigned' = assigned /\ additional' = additional \cup new
      /\ removed' = removed \cup (Active(additional) \ keep)
      /\ yes \subseteq Active(assigned) \cup keep \cup new
      /\ attending' = (attending \ (page[c].assigned \cup keep)) \cup yes
  BY <1>0, Zenon DEF SavedAs
<1>3. assigned' \subseteq Guests /\ additional' \subseteq Guests /\ attending' \subseteq Guests
  BY <1>2, Zenon DEF HouseholdInv, HouseholdTypes, Active, Fresh
<1>4. assigned' \cap additional' = {} /\ removed' \subseteq assigned' \cup additional'
  BY <1>2, Zenon DEF HouseholdInv, Active, Fresh
<1>5. invAnswers' \in Answers
  BY <1>0, Zenon DEF Saved, SavedAs
<1>6. guestAnswers' \in [Guests -> Answers]
  <2>1. guestAnswers' = [g \in Guests |->
            IF g \in Active(assigned) \cup keep \cup new THEN told[g] ELSE guestAnswers[g]]
    BY <1>0, Zenon DEF SavedAs
  <2>2. told \in [Guests -> Answers] /\ guestAnswers \in [Guests -> Answers]
    BY Zenon DEF Saved, HouseholdInv, HouseholdTypes
  <2> QED
    BY <2>1, <2>2, Zenon
<1>7. version' \in Nat /\ page' \in [Pages -> PageRecord] /\ allowance' \in Nat
  BY <1>1, BlankTyped DEF HouseholdInv, HouseholdTypes
<1>8. \A d \in Pages : page'[d].step # "load" => page'[d].version <= version
  BY <1>1, Zenon DEF HouseholdInv, HouseholdTypes, Blank
<1>9. \A d \in Pages : Exact(d)'
  <2> SUFFICES ASSUME NEW d \in Pages, page'[d].step # "load"
               PROVE  page'[d].version <= version' /\ page'[d].version # version'
    BY Zenon DEF Exact
  <2>1. page'[d].version \in Nat
    BY <1>7, Zenon DEF PageRecord
  <2> QED
    BY <1>1, <1>8, <2>1, SMTT(30) DEF HouseholdInv, HouseholdTypes
<1>10. HouseholdTypes'
  BY <1>3, <1>5, <1>6, <1>7, Zenon DEF HouseholdTypes
<1> QED
  BY <1>4, <1>9, <1>10, Zenon DEF HouseholdInv, Exact, CurrentPageIsExact, GuestsLoaded, AnswersLoaded

\* UpdateInvitation reaches assigned guests only, whom a page that is current
\* shows as they are unless they were removed.
LEMMA UpdateInvitationKeeps ==
    ASSUME HouseholdInv, UpdateInvitation
    PROVE  HouseholdInv'
<1>1. PICK keep \in SUBSET Active(assigned), new \in SUBSET Fresh, n \in 0 .. MaxAllowance :
          /\ assigned' = assigned \cup new
          /\ removed' = removed \cup (Active(assigned) \ keep)
          /\ allowance' = n
  BY Zenon DEF UpdateInvitation
<1>2. UNCHANGED <<version, additional, attending, invAnswers, guestAnswers, page>>
  BY Zenon DEF UpdateInvitation
<1>3. HouseholdTypes'
  BY <1>1, <1>2, HouseholdAssumption, SMTT(30) DEF HouseholdInv, HouseholdTypes, Fresh
<1>4. assigned' \cap additional' = {} /\ removed' \subseteq assigned' \cup additional'
  BY <1>1, <1>2, Zenon DEF HouseholdInv, Active, Fresh
<1>5. removed \subseteq removed' /\ Active(additional)' = Active(additional)
  BY <1>1, <1>2, Zenon DEF HouseholdInv, Active
<1>6. \A c \in Pages : Exact(c)'
  BY <1>2, <1>5, ExactPages, Zenon DEF Exact, GuestsLoaded, AnswersLoaded
<1> QED
  BY <1>3, <1>4, <1>6, Zenon DEF HouseholdInv, Exact, CurrentPageIsExact, GuestsLoaded, AnswersLoaded

\* Revocation and the event's questions leave the household alone.
LEMMA HouseholdStutters ==
    ASSUME HouseholdInv, UNCHANGED <<allowance, household, page>>
    PROVE  HouseholdInv'
<1>1. \A c \in Pages : Exact(c)'
  BY ExactPages, Zenon DEF Exact, GuestsLoaded, AnswersLoaded, Active, household
<1> QED
  BY <1>1, Zenon DEF HouseholdInv, HouseholdTypes, household, Exact, CurrentPageIsExact,
              GuestsLoaded, AnswersLoaded

\* Every step of Next preserves HouseholdInv.
LEMMA HouseholdSteps == HouseholdInv /\ [Next]_vars => HouseholdInv'
<1> SUFFICES ASSUME HouseholdInv, [Next]_vars PROVE HouseholdInv'
  BY SMTT(30)
<1>1. ASSUME NEW c \in Pages, LoadVersion(c) \/ LoadGuests(c) \/ LoadQuestions(c)
                              \/ LoadAnswers(c) \/ Reload(c)
      PROVE  HouseholdInv'
  BY <1>1, LoadVersionKeeps, LoadGuestsKeeps, LoadQuestionsKeeps, LoadAnswersKeeps,
     PageCleared, Zenon
<1>2. ASSUME NEW c \in Pages, Submit(c)
      PROVE  HouseholdInv'
  <2>1. CASE UNCHANGED vars
    BY <2>1, HouseholdStutters, Zenon DEF vars
  <2>2. CASE Conflict(c)
    BY <2>2, PageCleared, Zenon
  <2>3. CASE \E keep, new, yes, answered, told : Saved(c, keep, new, yes, answered, told)
    BY <2>3, SaveKeeps, Zenon
  <2> QED
    BY <1>2, <2>1, <2>2, <2>3, SubmitOutcomes, Zenon
<1>3. CASE UpdateInvitation
  BY <1>3, UpdateInvitationKeeps, SMTT(30)
<1>4. CASE Revoke \/ \E q \in Questions : SaveQuestion(q) \/ DeleteQuestion(q)
  BY <1>4, HouseholdStutters, Zenon DEF Revoke, SaveQuestion, DeleteQuestion
<1>5. CASE UNCHANGED vars
  BY <1>5, HouseholdStutters, Zenon DEF vars
<1> QED
  BY <1>1, <1>2, <1>3, <1>4, <1>5, Zenon DEF Next

\* HouseholdInv is an invariant of every household, for any number of guests,
\* questions and pages.
THEOREM HouseholdInvariant == Spec => []HouseholdInv
BY HouseholdStarts, HouseholdSteps, PTL DEF Spec

\* CurrentPageIsExact: the statements of LoadHousehold see different states, yet
\* a page whose version is current shows the response on record.
THEOREM CurrentPageIsExactHolds == Spec => []CurrentPageIsExact
<1>1. HouseholdInv => CurrentPageIsExact
  BY Zenon DEF HouseholdInv
<1> QED
  BY <1>1, HouseholdInvariant, PTL

\* The steps that do not save a response: removed guests stay removed, and the
\* response on record stays as it is.
LEMMA ResponseKept ==
    ASSUME [Next]_vars
    PROVE  \/ /\ removed \subseteq removed'
              /\ UNCHANGED <<version, attending, guestAnswers>>
           \/ \E c \in Pages : \E keep, new, yes, answered, told :
                  Saved(c, keep, new, yes, answered, told)
<1> DEFINE Kept == removed \subseteq removed' /\ UNCHANGED <<version, attending, guestAnswers>>
           SomeSaved == \E c \in Pages : \E keep, new, yes, answered, told :
                            Saved(c, keep, new, yes, answered, told)
<1> SUFFICES Kept \/ SomeSaved
  BY Zenon
<1>0. ASSUME UNCHANGED household PROVE Kept
  BY <1>0 DEF household
<1>1. ASSUME NEW c \in Pages, LoadVersion(c) \/ LoadGuests(c) \/ LoadQuestions(c)
                              \/ LoadAnswers(c) \/ Reload(c) \/ Conflict(c)
      PROVE  UNCHANGED household
  BY <1>1, Zenon DEF LoadVersion, LoadGuests, LoadQuestions, LoadAnswers, Reload, Conflict
<1>2. ASSUME NEW c \in Pages, Submit(c)
      PROVE  UNCHANGED vars \/ Conflict(c) \/ SomeSaved
  BY <1>2, SubmitOutcomes, Zenon
<1>3. ASSUME UpdateInvitation PROVE Kept
  BY <1>3, Zenon DEF UpdateInvitation
<1>4. ASSUME Revoke \/ \E q \in Questions : SaveQuestion(q) \/ DeleteQuestion(q)
      PROVE  UNCHANGED household
  BY <1>4, Zenon DEF Revoke, SaveQuestion, DeleteQuestion
<1>5. ASSUME UNCHANGED vars PROVE UNCHANGED household
  BY <1>5, Zenon DEF vars
<1> HIDE DEF Kept, SomeSaved
<1> QED
  BY <1>0, <1>1, <1>2, <1>3, <1>4, <1>5, Zenon DEF Next

\* HistoryKept: a guest who is removed, by the form or by the organizer, keeps
\* the attendance and the answers last given.
THEOREM HistoryKeptHolds == Spec => HistoryKept
<1> DEFINE A == /\ removed \subseteq removed'
                /\ \A g \in removed' :
                      /\ g \in attending' <=> g \in attending
                      /\ guestAnswers'[g] = guestAnswers[g]
<1>1. ASSUME HouseholdInv, [Next]_vars PROVE A
  <2>1. CASE removed \subseteq removed' /\ UNCHANGED <<version, attending, guestAnswers>>
    BY <2>1, Zenon
  <2>2. ASSUME NEW c \in Pages, NEW keep, NEW new, NEW yes, NEW answered, NEW told,
               Saved(c, keep, new, yes, answered, told)
        PROVE  A
    <3>0. SavedAs(c, keep, new, yes, answered, told)
      BY <1>1, <2>2, SaveEffect, Zenon
    <3>1. /\ keep \subseteq Active(additional) /\ new \subseteq Fresh
          /\ removed' = removed \cup (Active(additional) \ keep)
          /\ yes \subseteq Active(assigned) \cup keep \cup new
          /\ page[c].assigned \subseteq Active(assigned)
          /\ attending' = (attending \ (page[c].assigned \cup keep)) \cup yes
          /\ guestAnswers' = [g \in Guests |->
                 IF g \in Active(assigned) \cup keep \cup new THEN told[g] ELSE guestAnswers[g]]
      BY <3>0, Zenon DEF SavedAs
    <3>2. /\ assigned \cap additional = {} /\ removed \subseteq assigned \cup additional
          /\ assigned \cup additional \subseteq Guests
      BY <1>1, Zenon DEF HouseholdInv, HouseholdTypes
    <3>3. \A g \in removed' : g \in Guests /\ g \notin Active(assigned) \cup keep \cup new
      BY <3>1, <3>2, Zenon DEF Active, Fresh
    <3> QED
      BY <3>1, <3>3, Zenon
  <2> HIDE DEF A
  <2> QED
    BY <1>1, <2>1, <2>2, ResponseKept, Zenon
<1>2. HistoryKept <=> [][A]_vars
  BY Zenon DEF HistoryKept
<1> HIDE DEF A
<1> QED
  BY <1>1, <1>2, HouseholdInvariant, PTL DEF Spec

\* SavedResponseIsComplete: the guests on record after a response are those of
\* the form with those it did not mention, and validation looked at all of them.
THEOREM SavedResponseIsCompleteHolds == Spec => SavedResponseIsComplete
<1> DEFINE A == version' # version =>
               /\ Cardinality(Active(additional)') <= allowance
               /\ Required("invitation") \subseteq Given(invAnswers')
               /\ \A g \in (Active(assigned) \cup Active(additional))' \cap attending' :
                      Required("guest") \subseteq Given(guestAnswers'[g])
<1>1. ASSUME HouseholdInv, [Next]_vars PROVE A
  <2>1. CASE UNCHANGED version
    BY <2>1, Zenon
  <2>2. ASSUME NEW c \in Pages, NEW keep, NEW new, NEW yes, NEW answered, NEW told,
               Saved(c, keep, new, yes, answered, told)
        PROVE  A
    <3>0. SavedAs(c, keep, new, yes, answered, told)
      BY <1>1, <2>2, SaveEffect, Zenon
    <3> DEFINE f == Form(c, keep, new, yes, answered, told)
    <3>1. /\ f.assigned = page[c].assigned /\ f.keep = keep /\ f.new = new
          /\ f.attending = yes /\ f.invAnswers = answered /\ f.guestAnswers = told
      BY Zenon DEF Form
    <3>2. ~TooMany(f) /\ ~AnswerMissing(f)
      BY <2>2, Zenon DEF Saved
    <3> HIDE DEF f
    <3>3. /\ keep \subseteq Active(additional) /\ new \subseteq Fresh
          /\ Active(assigned)' = Active(assigned) /\ Active(additional)' = keep \cup new
          /\ attending' = (attending \ (page[c].assigned \cup keep)) \cup yes
          /\ invAnswers' = answered
          /\ guestAnswers' = [g \in Guests |->
                 IF g \in Active(assigned) \cup keep \cup new THEN told[g] ELSE guestAnswers[g]]
      BY <3>0, Zenon DEF SavedAs
    <3>4. Active(assigned) \cup keep \cup new \subseteq Guests
      BY <1>1, <3>3, Zenon DEF HouseholdInv, HouseholdTypes, Active, Fresh
    <3>5. Cardinality(Active(additional)') <= allowance
      <4>1. Cardinality(keep \cup new) \in Nat
        BY <3>4, HouseholdAssumption, FS_Subset, FS_CardinalityType, Zenon
      <4>2. ~(Cardinality(keep \cup new) > allowance) /\ allowance \in Nat
        BY <1>1, <3>1, <3>2, Zenon DEF TooMany, HouseholdInv, HouseholdTypes
      <4> QED
        BY <3>3, <4>1, <4>2, SMTT(30)
    <3>6. Required("invitation") \subseteq Given(invAnswers')
      BY <3>1, <3>2, <3>3, Zenon DEF AnswerMissing
    <3>7. ASSUME NEW g \in (Active(assigned) \cup Active(additional))' \cap attending'
          PROVE  Required("guest") \subseteq Given(guestAnswers'[g])
      <4>1. g \in Active(assigned) \cup keep \cup new /\ g \in attending'
        BY <3>3, Zenon
      <4>2. g \in GuestsAfter(f) \cap AttendingAfter(f)
        BY <3>1, <3>3, <4>1, Zenon DEF GuestsAfter, AttendingAfter
      <4>3. guestAnswers'[g] = told[g]
        BY <3>3, <3>4, <4>1, Zenon
      <4> QED
        BY <3>1, <3>2, <4>2, <4>3, Zenon DEF AnswerMissing
    <3> QED
      BY <3>5, <3>6, <3>7, Zenon
  <2> HIDE DEF A
  <2> QED
    BY <1>1, <2>1, <2>2, ResponseKept, Zenon
<1>2. SavedResponseIsComplete <=> [][A]_vars
  BY Zenon DEF SavedResponseIsComplete
<1> HIDE DEF A
<1> QED
  BY <1>1, <1>2, HouseholdInvariant, PTL DEF Spec
=============================================================================
