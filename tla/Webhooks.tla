------------------------------ MODULE Webhooks ------------------------------
(***************************************************************************)
(* The outgoing webhooks of one event (internal/webhook).                  *)
(*                                                                         *)
(* Organizers create, change, rotate, test and delete webhooks by requests *)
(* whose database statements interleave: no transaction spans them.        *)
(* Publishing and cancelling the event start a dispatcher goroutine that   *)
(* copies the enabled webhooks, inserts a delivery row for each and starts *)
(* one goroutine per delivery.  A delivery goroutine works on its copy of  *)
(* the webhook, posts up to maxRetries times and writes its row once, at   *)
(* the end.  Nothing resumes any of this after the process stops.          *)
(*                                                                         *)
(* A webhook row is the secret, the subscribed types and the enabled flag; *)
(* the URL and the description are changed and copied exactly like the     *)
(* types and are left out.  Secrets are numbered in the order generated.   *)
(***************************************************************************)
EXTENDS Absence, Integers, FiniteSets, Sequences

CONSTANTS
    Hooks,          \* identifiers of webhooks, each used once
    Deliveries,     \* identifiers of deliveries, each used once
    Organizers,     \* concurrent organizer requests
    Subscriptions,  \* bound: the sets of event types organizers choose
    Gone,           \* a row that was deleted
    MaxHooks,       \* maxWebhooksPerEvent
    MaxSecrets,     \* bound: secrets ever generated
    MaxCrashes      \* bound: process stops

maxRetries == 3

ValidEventTypes == {"event.published", "event.cancelled"}

Hook == [secret : 1..MaxSecrets, types : Subscriptions, enabled : BOOLEAN]

Delivery == [hook : Hooks, attempt : 0..maxRetries, outcome : {"pending", "delivered", "failed"}]

ASSUME WebhooksAssumption ==
    /\ MaxHooks \in Nat /\ MaxSecrets \in Nat
    /\ None # Gone
    /\ {None, Gone} \cap (Hook \cup Delivery) = {}

VARIABLES
    status,         \* of the event: draft, published, cancelled
    hook,           \* webhooks table
    delivery,       \* webhook_deliveries table: hook, attempt and outcome
    order,          \* what a request has read and will write
    dispatch,       \* per type: the goroutine started by onPublish, onCancel
    worker,         \* the goroutine delivering a row
    secrets,        \* number of secrets generated
    newest,         \* history: the last secret an organizer was given
    overlapped,     \* history: hooks written over a row changed since it was read
    raced,          \* history: a webhook was inserted while another request was to insert
    answers,        \* history: answers the endpoint gave to a delivery, in order
    lost,           \* history: deliveries cut off by a stop or a failed write
    crashes

webhooks == <<status, hook, delivery, order, dispatch, worker, secrets, newest,
              overlapped, raced, answers, lost, crashes>>

organizing == <<order, secrets, newest, overlapped, raced>>

delivering == <<delivery, worker, answers, lost>>

HookRows == {h \in Hooks : hook[h] \in Hook}

Idle(r) == order[r] = None

WebhooksInit ==
    /\ status = "draft"
    /\ hook = [h \in Hooks |-> None]
    /\ delivery = [d \in Deliveries |-> None]
    /\ order = [r \in Organizers |-> None]
    /\ dispatch = [t \in ValidEventTypes |-> None]
    /\ worker = [d \in Deliveries |-> None]
    /\ secrets = 0 /\ newest = [h \in Hooks |-> 0] /\ overlapped = {} /\ raced = FALSE
    /\ answers = [d \in Deliveries |-> <<>>] /\ lost = {} /\ crashes = 0

----------------------------------------------------------------------------
(* Requests of organizers *)

\* generateSecret.
generateSecret == secrets + 1

\* Store.CountByEvent.
CountByEvent == Cardinality(HookRows)

\* Mutant: the limit is compared with > instead of >=.
CreateCheckLate(r) ==
    /\ Idle(r)
    /\ CountByEvent <= MaxHooks
    /\ order' = [order EXCEPT ![r] = [op |-> "insert", hook |-> None, copy |-> None]]
    /\ UNCHANGED <<status, hook, dispatch, secrets, newest, overlapped, raced, delivering, crashes>>

\* CreateWebhook up to the limit: the count is one statement, the insert another.
CreateCheck(r) ==
    /\ Idle(r)
    /\ CountByEvent < MaxHooks
    /\ order' = [order EXCEPT ![r] = [op |-> "insert", hook |-> None, copy |-> None]]
    /\ UNCHANGED <<status, hook, dispatch, secrets, newest, overlapped, raced, delivering, crashes>>

\* The rest of CreateWebhook: a new secret, a new enabled row.
CreateInsert(r, types) ==
    /\ order[r] # None /\ order[r].op = "insert"
    /\ secrets < MaxSecrets
    /\ \E h \in Hooks :
        /\ hook[h] = None
        /\ hook' = [hook EXCEPT ![h] = [secret |-> generateSecret, types |-> types, enabled |-> TRUE]]
        /\ newest' = [newest EXCEPT ![h] = generateSecret]
    /\ secrets' = generateSecret
    /\ raced' = (raced \/ \E q \in Organizers \ {r} : ~Idle(q) /\ order[q].op = "insert")
    /\ order' = [order EXCEPT ![r] = None]
    /\ UNCHANGED <<status, dispatch, overlapped, delivering, crashes>>

\* UpdateWebhook, RotateSecret and SendTest start with FindByID.
FindByID(r, op, h) ==
    /\ Idle(r)
    /\ h \in HookRows
    /\ order' = [order EXCEPT ![r] = [op |-> op, hook |-> h, copy |-> hook[h]]]
    /\ UNCHANGED <<status, hook, dispatch, secrets, newest, overlapped, raced, delivering, crashes>>

\* Store.UpdateWebhook: the whole row, the secret included; no row, no effect.
WriteHook(r, row) ==
    LET h == order[r].hook IN
    /\ hook' = IF h \in HookRows THEN [hook EXCEPT ![h] = row] ELSE hook
    /\ overlapped' = IF h \in HookRows /\ hook[h] # order[r].copy THEN overlapped \cup {h} ELSE overlapped
    /\ order' = [order EXCEPT ![r] = None]

\* UpdateWebhook: the patched copy is written back.
UpdateWebhook(r, types, enabled) ==
    /\ order[r] # None /\ order[r].op = "update"
    /\ WriteHook(r, [order[r].copy EXCEPT !.types = types, !.enabled = enabled])
    /\ UNCHANGED <<status, dispatch, secrets, newest, raced, delivering, crashes>>

\* Mutant: the new secret is returned but the row keeps the old one.
RotateSecretUnsaved(r) ==
    /\ order[r] # None /\ order[r].op = "rotate"
    /\ secrets < MaxSecrets
    /\ WriteHook(r, order[r].copy)
    /\ secrets' = generateSecret
    /\ newest' = [newest EXCEPT ![order[r].hook] = generateSecret]
    /\ UNCHANGED <<status, dispatch, raced, delivering, crashes>>

\* RotateSecret: a new secret in the copy, written back and shown once.
RotateSecret(r) ==
    /\ order[r] # None /\ order[r].op = "rotate"
    /\ secrets < MaxSecrets
    /\ WriteHook(r, [order[r].copy EXCEPT !.secret = generateSecret])
    /\ secrets' = generateSecret
    /\ newest' = [newest EXCEPT ![order[r].hook] = generateSecret]
    /\ UNCHANGED <<status, dispatch, raced, delivering, crashes>>

\* DeleteWebhook: the deliveries go with the row (ON DELETE CASCADE), the
\* goroutines that work on copies do not.
DeleteWebhook(h) ==
    /\ h \in HookRows
    /\ hook' = [hook EXCEPT ![h] = Gone]
    /\ delivery' = [d \in Deliveries |->
            IF delivery[d] \notin {None, Gone} /\ delivery[d].hook = h THEN Gone ELSE delivery[d]]
    /\ UNCHANGED <<status, dispatch, worker, answers, lost, organizing, crashes>>

\* Store.CreateDelivery and the goroutine that owns the row: the insert fails
\* when the webhook is gone (foreign key) and then nothing is delivered.
CreateDelivery(h, test) ==
    IF h \in HookRows
    THEN \E d \in Deliveries :
            /\ delivery[d] = None
            /\ delivery' = [delivery EXCEPT ![d] = [hook |-> h, attempt |-> 0, outcome |-> "pending"]]
            /\ worker' = [worker EXCEPT ![d] = [attempt |-> 1,
                    verdict |-> "none", cancellable |-> test, cancelled |-> FALSE]]
    ELSE UNCHANGED <<delivery, worker>>

\* SendTest delivers in the request, whose context the client may cancel.
SendTest(r) ==
    /\ order[r] # None /\ order[r].op = "test"
    /\ CreateDelivery(order[r].hook, TRUE)
    /\ order' = [order EXCEPT ![r] = None]
    /\ UNCHANGED <<status, hook, dispatch, secrets, newest, overlapped, raced, answers, lost, crashes>>

\* The organizer leaves while a test is being delivered.
CancelTest(d) ==
    /\ worker[d] # None /\ worker[d].cancellable /\ ~worker[d].cancelled
    /\ worker' = [worker EXCEPT ![d].cancelled = TRUE]
    /\ UNCHANGED <<status, hook, dispatch, delivery, answers, lost, organizing, crashes>>

----------------------------------------------------------------------------
(* The event and the dispatcher *)

\* go Dispatch(...): the goroutine has not read anything yet.
StartDispatch(t) == dispatch' = [dispatch EXCEPT ![t] = [pc |-> "find", todo |-> {}]]

\* Publish and its callback (bound: one dispatch per type at a time).
Publish ==
    /\ status = "draft" /\ dispatch["event.published"] = None
    /\ status' = "published"
    /\ StartDispatch("event.published")
    /\ UNCHANGED <<hook, organizing, delivering, crashes>>

\* Cancel: the callback runs only when the organizer asks to notify.
Cancel(notifyInvitees) ==
    /\ status = "published" /\ dispatch["event.cancelled"] = None
    /\ status' = "cancelled"
    /\ IF notifyInvitees THEN StartDispatch("event.cancelled") ELSE UNCHANGED dispatch
    /\ UNCHANGED <<hook, organizing, delivering, crashes>>

\* Reopen.
Reopen ==
    /\ status = "cancelled"
    /\ status' = "draft"
    /\ UNCHANGED <<hook, dispatch, organizing, delivering, crashes>>

\* FindEnabledByEventAndType.
FindEnabled(t) == {h \in HookRows : hook[h].enabled /\ t \in hook[h].types}

DispatchFind(t) ==
    /\ dispatch[t] # None /\ dispatch[t].pc = "find"
    /\ dispatch' = [dispatch EXCEPT ![t] = IF FindEnabled(t) = {} THEN None
            ELSE [pc |-> "loop", todo |-> FindEnabled(t)]]
    /\ UNCHANGED <<status, hook, organizing, delivering, crashes>>

\* One round of the loop of Dispatch.
DispatchOne(t) ==
    /\ dispatch[t] # None /\ dispatch[t].pc = "loop"
    /\ \E h \in dispatch[t].todo :
        /\ CreateDelivery(h, FALSE)
        /\ dispatch' = [dispatch EXCEPT ![t] = IF dispatch[t].todo = {h} THEN None
                ELSE [pc |-> "loop", todo |-> dispatch[t].todo \ {h}]]
    /\ UNCHANGED <<status, hook, answers, lost, organizing, crashes>>

----------------------------------------------------------------------------
(* Delivery goroutines *)

\* Mutant: a client error is retried like a server error.
VerdictRetryAll(attempt, answer) ==
    CASE answer = "2xx" -> "delivered"
      [] OTHER -> IF attempt = maxRetries THEN "failed" ELSE "none"

\* How deliver judges an answer.
Verdict(attempt, answer) ==
    CASE answer = "2xx" -> "delivered"
      [] answer = "4xx" -> "failed"
      [] OTHER -> IF attempt = maxRetries THEN "failed" ELSE "none"

\* One POST of deliver: a 2xx or 4xx answer ends it, any other answer and a
\* transport error (the answer may be lost after the endpoint acted) retry.
Post(d) ==
    /\ worker[d] # None /\ worker[d].verdict = "none"
    /\ \E answer \in IF worker[d].cancelled THEN {"other"} ELSE {"2xx", "4xx", "other"} :
        LET verdict == Verdict(worker[d].attempt, answer) IN
        /\ answers' = [answers EXCEPT ![d] = Append(@, answer)]
        /\ worker' = [worker EXCEPT ![d].verdict = verdict,
                ![d].attempt = IF verdict = "none" THEN @ + 1 ELSE @]
    /\ UNCHANGED <<status, hook, dispatch, delivery, lost, organizing, crashes>>

\* A cancelled request ends the wait before a retry; its context then also
\* fails the UpdateDelivery, so the row stays as it was created.
AbortBackoff(d) ==
    /\ worker[d] # None /\ worker[d].verdict = "none"
    /\ worker[d].cancelled /\ worker[d].attempt > 1
    /\ worker' = [worker EXCEPT ![d] = None]
    /\ lost' = lost \cup {d}
    /\ UNCHANGED <<status, hook, dispatch, delivery, answers, organizing, crashes>>

\* Mutant: the row is written only after a successful delivery.
UpdateDeliverySent(d) ==
    /\ worker[d] # None /\ worker[d].verdict # "none"
    /\ delivery' = IF delivery[d] # Gone /\ worker[d].verdict = "delivered"
                   THEN [delivery EXCEPT ![d].outcome = "delivered"] ELSE delivery
    /\ worker' = [worker EXCEPT ![d] = None]
    /\ UNCHANGED <<status, hook, dispatch, answers, lost, organizing, crashes>>

\* UpdateDelivery at the end of deliver; its error is logged at most, and it
\* fails for certain when the request was cancelled.
UpdateDelivery(d) ==
    /\ worker[d] # None /\ worker[d].verdict # "none"
    /\ \/ /\ ~worker[d].cancelled
          /\ delivery' = IF delivery[d] = Gone THEN delivery ELSE
                [delivery EXCEPT ![d].outcome = worker[d].verdict, ![d].attempt = worker[d].attempt]
          /\ UNCHANGED lost
       \/ /\ lost' = lost \cup {d}
          /\ UNCHANGED delivery
    /\ worker' = [worker EXCEPT ![d] = None]
    /\ UNCHANGED <<status, hook, dispatch, answers, organizing, crashes>>

\* The process stops: every request and goroutine ends where it is.
StopDeliveries ==
    /\ crashes < MaxCrashes
    /\ crashes' = crashes + 1
    /\ order' = [r \in Organizers |-> None]
    /\ dispatch' = [t \in ValidEventTypes |-> None]
    /\ worker' = [d \in Deliveries |-> None]
    /\ lost' = lost \cup {d \in Deliveries : worker[d] # None}
    /\ UNCHANGED <<status, hook, delivery, secrets, newest, overlapped, raced, answers>>

----------------------------------------------------------------------------
Manage(r) ==
    \/ CreateCheck(r)
    \/ \E types \in Subscriptions : CreateInsert(r, types)
    \/ \E op \in {"update", "rotate", "test"}, h \in Hooks : FindByID(r, op, h)
    \/ \E types \in Subscriptions, enabled \in BOOLEAN : UpdateWebhook(r, types, enabled)
    \/ RotateSecret(r)
    \/ SendTest(r)

Dispatch(t) == DispatchFind(t) \/ DispatchOne(t)

Deliver(d) == Post(d) \/ AbortBackoff(d) \/ UpdateDelivery(d)

WebhooksNext ==
    \/ \E r \in Organizers : Manage(r)
    \/ \E h \in Hooks : DeleteWebhook(h)
    \/ \E d \in Deliveries : CancelTest(d)
    \/ Publish \/ (\E notify \in BOOLEAN : Cancel(notify)) \/ Reopen
    \/ \E t \in ValidEventTypes : Dispatch(t)
    \/ \E d \in Deliveries : Deliver(d)
    \/ StopDeliveries

WebhooksSpec == WebhooksInit /\ [][WebhooksNext]_webhooks

\* Goroutines run while the process does: posts end by the client's timeout
\* of ten seconds, back-offs by their timers.
FairSpec == WebhooksSpec /\ \A d \in Deliveries : WF_webhooks(Deliver(d))

----------------------------------------------------------------------------
(* Properties *)

Settled(d) == delivery[d] \notin {None, Gone} /\ delivery[d].outcome # "pending"

\* CreateWebhook counts and inserts by two statements: an event has more than
\* maxWebhooksPerEvent webhooks only if two creations overlapped.
HookLimit == CountByEvent <= MaxHooks \/ raced

\* The secret an organizer was given last by CreateWebhook or RotateSecret is
\* the one that signs, unless a request wrote back a row that had been changed
\* since it read it (UpdateWebhook restores the older secret that way).
RotatedSecretKept ==
    \A h \in HookRows : hook[h].secret = newest[h] \/ h \in overlapped

\* deliver posts at most three times, never after a 2xx or 4xx answer, and a
\* row it settled says delivered exactly if the last answer was 2xx.
OutcomeFollowsAnswers ==
    \A d \in Deliveries :
        /\ Len(answers[d]) <= maxRetries
        /\ \A i \in 1..Len(answers[d]) - 1 : answers[d][i] = "other"
        /\ Settled(d) => (delivery[d].outcome = "delivered") = (answers[d][Len(answers[d])] = "2xx")

\* Every delivery row is settled in the end, unless the webhook is deleted or
\* the delivery is cut off by a stop, a cancelled test or a failed write:
\* nothing ever resumes those, their rows stay pending.
DeliverySettles ==
    \A d \in Deliveries : delivery[d] # None ~>
        \/ d \in lost
        \/ delivery[d] = Gone
        \/ Settled(d)
=============================================================================
