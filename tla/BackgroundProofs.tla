-------------------------- MODULE BackgroundProofs --------------------------
(***************************************************************************)
(* What the server does on its own: it delivers the webhooks of an event   *)
(* (Webhooks), for any number of webhooks, requests and deliveries, and    *)
(* deletes events that were announced to expire (Retention), for any number *)
(* of events and any length of the warning period, as long as there is one: *)
(* the job runs every hour, so a period of an hour is enough.  It also     *)
(* dates the occurrences of a series (Recurrence), from any start.         *)
(***************************************************************************)
EXTENDS Webhooks, Retention, Recurrence, FiniteSetTheorems, TLAPS

----------------------------------------------------------------------------
(* Webhooks: the limit and the secrets *)

\* What a request has read and will write.
Order ==
    [op : {"insert"}, hook : {None}, copy : {None}]
        \cup [op : {"update", "rotate", "test"}, hook : Hooks, copy : Hook]

\* Rows, requests and secrets have their types: a row is written from a copy
\* that was read as a row.
HookTypes ==
    /\ hook \in [Hooks -> Hook \cup {None, Gone}]
    /\ order \in [Organizers -> Order \cup {None}]
    /\ secrets \in Nat
    /\ newest \in [Hooks -> Nat]

Inserting(r) == order[r] # None /\ order[r].op = "insert"

\* HookLimit is not inductive: a request that counted must still find room
\* when it inserts.
RoomKept ==
    /\ IsFiniteSet(HookRows)
    /\ ~raced => CountByEvent <= MaxHooks
    /\ ~raced => \A r \in Organizers : Inserting(r) => CountByEvent < MaxHooks

WebhooksInv == HookTypes /\ RoomKept /\ RotatedSecretKept

\* No webhook, no request.
LEMMA WebhooksStart == WebhooksInit => WebhooksInv
<1> SUFFICES ASSUME WebhooksInit PROVE WebhooksInv
  OBVIOUS
<1>1. HookRows = {}
  BY WebhooksAssumption DEF WebhooksInit, HookRows
<1>2. CountByEvent = 0
  BY <1>1, FS_EmptySet DEF CountByEvent
<1> QED
  BY <1>1, <1>2, FS_EmptySet, WebhooksAssumption
     DEF WebhooksInit, WebhooksInv, HookTypes, RoomKept, RotatedSecretKept, Inserting

\* Fewer rows leave no less room.
LEMMA FewerRows ==
    ASSUME RoomKept, HookRows' \subseteq HookRows, raced' = raced,
           \A r \in Organizers : Inserting(r)' => Inserting(r) \/ CountByEvent < MaxHooks
    PROVE  RoomKept'
<1>1. IsFiniteSet(HookRows')
  BY FS_Subset DEF RoomKept
<1>2. CountByEvent' <= CountByEvent /\ CountByEvent' \in Nat /\ CountByEvent \in Nat
  BY <1>1, FS_Subset, FS_CardinalityType DEF RoomKept, CountByEvent
<1> QED
  BY <1>1, <1>2, WebhooksAssumption DEF RoomKept

\* The count finds room, and the request is to insert.
LEMMA CreateCheckKeeps ==
    ASSUME WebhooksInv, NEW r \in Organizers, CreateCheck(r)
    PROVE  WebhooksInv'
<1>1. hook' = hook /\ raced' = raced /\ CountByEvent < MaxHooks
  BY DEF CreateCheck
<1>2. HookRows' = HookRows
  BY <1>1 DEF HookRows
<1>3. HookTypes'
  BY DEF CreateCheck, WebhooksInv, HookTypes, Order
<1>4. RoomKept'
  BY <1>1, <1>2, FewerRows DEF WebhooksInv
<1>5. RotatedSecretKept'
  BY <1>1, <1>2 DEF CreateCheck, WebhooksInv, RotatedSecretKept
<1> QED
  BY <1>3, <1>4, <1>5 DEF WebhooksInv

\* The insert takes the room the count found, unless another request is to
\* take it too.
LEMMA CreateInsertKeeps ==
    ASSUME WebhooksInv, NEW r \in Organizers, NEW types \in Subscriptions, CreateInsert(r, types)
    PROVE  WebhooksInv'
<1>1. PICK h \in Hooks :
        /\ hook[h] = None
        /\ hook' = [hook EXCEPT ![h] = [secret |-> generateSecret, types |-> types, enabled |-> TRUE]]
        /\ newest' = [newest EXCEPT ![h] = generateSecret]
  BY Zenon DEF CreateInsert
<1> DEFINE row == [secret |-> generateSecret, types |-> types, enabled |-> TRUE]
<1>2. row \in Hook /\ generateSecret \in Nat
  BY WebhooksAssumption DEF CreateInsert, WebhooksInv, HookTypes, Hook, generateSecret
<1> HIDE DEF row
<1>3. HookTypes'
  BY <1>1, <1>2 DEF CreateInsert, WebhooksInv, HookTypes, generateSecret, row
<1>4. HookRows' = HookRows \cup {h}
  BY <1>1, <1>2 DEF WebhooksInv, HookTypes, HookRows, row
<1>5. h \notin HookRows
  BY <1>1, WebhooksAssumption DEF HookRows
<1>6. RoomKept'
  <2>1. IsFiniteSet(HookRows) /\ CountByEvent \in Nat
    BY FS_CardinalityType DEF WebhooksInv, RoomKept, CountByEvent
  <2>2. IsFiniteSet(HookRows') /\ CountByEvent' = CountByEvent + 1
    BY <1>4, <1>5, <2>1, FS_AddElement DEF CountByEvent
  <2>3. Inserting(r)
    BY DEF CreateInsert, Inserting
  <2>4. ASSUME ~raced'
        PROVE  ~raced /\ \A q \in Organizers : ~Inserting(q)'
    <3>1. ~raced /\ \A q \in Organizers \ {r} : ~Inserting(q)
      BY <2>4, Zenon DEF CreateInsert, Inserting, Idle
    <3>2. order' = [order EXCEPT ![r] = None]
      BY DEF CreateInsert
    <3> QED
      BY <3>1, <3>2 DEF WebhooksInv, HookTypes, Inserting
  <2> QED
    BY <2>1, <2>2, <2>3, <2>4, WebhooksAssumption DEF WebhooksInv, RoomKept
<1>7. RotatedSecretKept'
  <2>1. overlapped' = overlapped
    BY DEF CreateInsert
  <2>2. hook'[h].secret = newest'[h]
    BY <1>1, <1>2 DEF WebhooksInv, HookTypes
  <2>3. \A k \in HookRows : hook'[k] = hook[k] /\ newest'[k] = newest[k]
    BY <1>1, <1>5 DEF WebhooksInv, HookTypes, HookRows
  <2> QED
    BY <1>4, <2>1, <2>2, <2>3 DEF WebhooksInv, RotatedSecretKept
<1> QED
  BY <1>3, <1>6, <1>7 DEF WebhooksInv

\* What a request copies is a row.
LEMMA FindByIDKeeps ==
    ASSUME WebhooksInv, NEW r \in Organizers, NEW op \in {"update", "rotate", "test"}, NEW h \in Hooks,
           FindByID(r, op, h)
    PROVE  WebhooksInv'
<1>1. hook' = hook /\ raced' = raced
  BY DEF FindByID
<1>2. HookRows' = HookRows
  BY <1>1 DEF HookRows
<1> DEFINE o == [op |-> op, hook |-> h, copy |-> hook[h]]
<1>3. o \in Order /\ order' = [order EXCEPT ![r] = o] /\ o.op # "insert"
  BY DEF FindByID, HookRows, Order
<1> HIDE DEF o
<1>4. HookTypes'
  BY <1>3 DEF FindByID, WebhooksInv, HookTypes
<1>5. RoomKept'
  <2>1. \A q \in Organizers : Inserting(q)' => Inserting(q)
    BY <1>3 DEF WebhooksInv, HookTypes, Inserting
  <2> QED
    BY <1>1, <1>2, <2>1, FewerRows DEF WebhooksInv
<1>6. RotatedSecretKept'
  BY <1>1, <1>2 DEF FindByID, WebhooksInv, RotatedSecretKept
<1> QED
  BY <1>4, <1>5, <1>6 DEF WebhooksInv

\* A request that read a row writes a row back: no row is added, and the room
\* is as it was.
LEMMA WriteHookKeeps ==
    ASSUME WebhooksInv, NEW r \in Organizers, order[r] # None, order[r].op # "insert",
           NEW row \in Hook, WriteHook(r, row), raced' = raced
    PROVE  /\ order[r].hook \in Hooks /\ order[r].copy \in Hook
           /\ hook' \in [Hooks -> Hook \cup {None, Gone}]
           /\ order' \in [Organizers -> Order \cup {None}]
           /\ HookRows' = HookRows
           /\ \A h \in HookRows : hook'[h] = IF h = order[r].hook THEN row ELSE hook[h]
           /\ \A h \in HookRows : h = order[r].hook /\ hook[h] # order[r].copy => h \in overlapped'
           /\ overlapped \subseteq overlapped'
           /\ RoomKept'
<1>1. order[r].hook \in Hooks /\ order[r].copy \in Hook
  BY DEF WebhooksInv, HookTypes, Order
<1>2. hook' \in [Hooks -> Hook \cup {None, Gone}]
  BY <1>1 DEF WriteHook, WebhooksInv, HookTypes
<1>3. order' = [order EXCEPT ![r] = None]
  BY DEF WriteHook
<1>4. \A h \in Hooks : hook'[h] = IF h = order[r].hook /\ h \in HookRows THEN row ELSE hook[h]
  BY <1>1 DEF WriteHook, WebhooksInv, HookTypes
<1>5. HookRows' = HookRows
  BY <1>4 DEF HookRows
<1>6. order' \in [Organizers -> Order \cup {None}]
  BY <1>3 DEF WebhooksInv, HookTypes
<1>7. \A q \in Organizers : Inserting(q)' => Inserting(q)
  BY <1>3 DEF WebhooksInv, HookTypes, Inserting
<1>8. RoomKept'
  BY <1>5, <1>7, FewerRows DEF WebhooksInv
<1> QED
  BY <1>1, <1>2, <1>4, <1>5, <1>6, <1>8, Zenon DEF WriteHook, HookRows

\* The patched copy has the secret of the row it was read from, or the row was
\* changed since.
LEMMA UpdateWebhookKeeps ==
    ASSUME WebhooksInv, NEW r \in Organizers, NEW types \in Subscriptions, NEW enabled \in BOOLEAN,
           UpdateWebhook(r, types, enabled)
    PROVE  WebhooksInv'
<1> DEFINE row == [order[r].copy EXCEPT !.types = types, !.enabled = enabled]
<1>1. order[r] # None /\ order[r].op # "insert" /\ WriteHook(r, row) /\ raced' = raced
      /\ secrets' = secrets /\ newest' = newest
  BY DEF UpdateWebhook
<1>2. row \in Hook /\ row.secret = order[r].copy.secret
  BY <1>1, Zenon DEF UpdateWebhook, WebhooksInv, HookTypes, Order, Hook
<1> HIDE DEF row
<1>3. HookTypes' /\ RoomKept'
  BY <1>1, <1>2, WriteHookKeeps DEF WebhooksInv, HookTypes
<1>4. RotatedSecretKept'
  <2>1. ASSUME NEW h \in HookRows PROVE hook'[h].secret = newest'[h] \/ h \in overlapped'
    BY <1>1, <1>2, <2>1, WriteHookKeeps DEF WebhooksInv, RotatedSecretKept
  <2> QED
    BY <1>1, <1>2, <2>1, WriteHookKeeps, Zenon DEF RotatedSecretKept
<1> QED
  BY <1>3, <1>4 DEF WebhooksInv

\* The row gets the secret that is shown.
LEMMA RotateSecretKeeps ==
    ASSUME WebhooksInv, NEW r \in Organizers, RotateSecret(r)
    PROVE  WebhooksInv'
<1> DEFINE row == [order[r].copy EXCEPT !.secret = generateSecret]
<1>1. order[r] # None /\ order[r].op # "insert" /\ WriteHook(r, row) /\ raced' = raced
      /\ secrets' = generateSecret /\ newest' = [newest EXCEPT ![order[r].hook] = generateSecret]
  BY DEF RotateSecret
<1>2. row \in Hook /\ row.secret = generateSecret /\ generateSecret \in Nat
  BY <1>1, WebhooksAssumption DEF RotateSecret, WebhooksInv, HookTypes, Order, Hook, generateSecret
<1> HIDE DEF row
<1>3. order[r].hook \in Hooks
  BY <1>1, <1>2, WriteHookKeeps
<1>4. HookTypes' /\ RoomKept'
  BY <1>1, <1>2, <1>3, WriteHookKeeps, Zenon DEF WebhooksInv, HookTypes
<1>5. RotatedSecretKept'
  <2>1. ASSUME NEW h \in HookRows PROVE hook'[h].secret = newest'[h] \/ h \in overlapped'
    <3>1. newest'[h] = IF h = order[r].hook THEN generateSecret ELSE newest[h]
      BY <1>1, <1>3 DEF WebhooksInv, HookTypes, HookRows
    <3> QED
      BY <1>1, <1>2, <3>1, WriteHookKeeps DEF WebhooksInv, RotatedSecretKept
  <2> QED
    BY <1>1, <1>2, <2>1, WriteHookKeeps, Zenon DEF RotatedSecretKept
<1> QED
  BY <1>4, <1>5 DEF WebhooksInv

\* A deletion makes room.
LEMMA DeleteWebhookKeeps ==
    ASSUME WebhooksInv, NEW h \in Hooks, DeleteWebhook(h)
    PROVE  WebhooksInv'
<1>1. hook' = [hook EXCEPT ![h] = Gone] /\ UNCHANGED <<order, secrets, newest, overlapped, raced>>
  BY DEF DeleteWebhook, organizing
<1>2. HookRows' \subseteq HookRows /\ \A k \in HookRows' : hook'[k] = hook[k]
  BY <1>1, WebhooksAssumption DEF WebhooksInv, HookTypes, HookRows
<1>3. HookTypes'
  BY <1>1 DEF WebhooksInv, HookTypes
<1>4. RoomKept'
  BY <1>1, <1>2, FewerRows DEF WebhooksInv, Inserting
<1>5. RotatedSecretKept'
  BY <1>1, <1>2 DEF WebhooksInv, RotatedSecretKept
<1> QED
  BY <1>3, <1>4, <1>5, SMTT(30) DEF WebhooksInv

\* A step that leaves the rows and the secrets, and at most ends requests.
LEMMA OthersKeep ==
    ASSUME WebhooksInv, UNCHANGED <<hook, secrets, newest, overlapped, raced>>,
           order' \in [Organizers -> Order \cup {None}],
           \A r \in Organizers : order'[r] \in {order[r], None}
    PROVE  WebhooksInv'
<1>1. HookRows' = HookRows
  BY DEF HookRows
<1>2. \A r \in Organizers : Inserting(r)' => Inserting(r)
  BY DEF Inserting
<1>3. RoomKept'
  BY <1>1, <1>2, FewerRows DEF WebhooksInv
<1> QED
  BY <1>1, <1>3 DEF WebhooksInv, HookTypes, RotatedSecretKept

\* Every step keeps the rows, the room and the secrets.
LEMMA WebhooksStep == WebhooksInv /\ [WebhooksNext]_webhooks => WebhooksInv'
<1> SUFFICES ASSUME WebhooksInv, [WebhooksNext]_webhooks PROVE WebhooksInv'
  OBVIOUS
<1>1. ASSUME NEW r \in Organizers, Manage(r) PROVE WebhooksInv'
  <2>1. CASE SendTest(r)
    <3>1. UNCHANGED <<hook, secrets, newest, overlapped, raced>> /\ order' = [order EXCEPT ![r] = None]
      BY <2>1, Zenon DEF SendTest
    <3> QED
      BY <3>1, OthersKeep, Zenon DEF WebhooksInv, HookTypes
  <2> QED
    BY <1>1, <2>1, CreateCheckKeeps, CreateInsertKeeps, FindByIDKeeps, UpdateWebhookKeeps,
       RotateSecretKeeps DEF Manage
<1>2. CASE \E h \in Hooks : DeleteWebhook(h)
  BY <1>2, DeleteWebhookKeeps
<1>3. CASE \/ \E d \in Deliveries : CancelTest(d) \/ Deliver(d)
           \/ Publish \/ (\E notify \in BOOLEAN : Cancel(notify)) \/ Reopen
           \/ \E t \in ValidEventTypes : Dispatch(t)
           \/ UNCHANGED webhooks
  <2>1. UNCHANGED <<hook, order, secrets, newest, overlapped, raced>>
    BY <1>3, Zenon DEF CancelTest, Deliver, Post, AbortBackoff, UpdateDelivery, Publish, Cancel, Reopen,
       Dispatch, DispatchFind, DispatchOne, organizing, webhooks
  <2> QED
    BY <2>1, OthersKeep DEF WebhooksInv, HookTypes
<1>4. CASE StopDeliveries
  <2>1. UNCHANGED <<hook, secrets, newest, overlapped, raced>> /\ order' = [r \in Organizers |-> None]
    BY <1>4 DEF StopDeliveries
  <2> QED
    BY <2>1, OthersKeep
<1> QED
  BY <1>1, <1>2, <1>3, <1>4 DEF WebhooksNext

\* However creations, changes and deletions interleave, an event has more than
\* maxWebhooksPerEvent webhooks only if two creations overlapped (CreateWebhook).
THEOREM HookLimitHolds == WebhooksSpec => []HookLimit
<1>1. WebhooksInv => HookLimit
  BY DEF WebhooksInv, RoomKept, HookLimit
<1> QED
  BY <1>1, WebhooksStart, WebhooksStep, PTL DEF WebhooksSpec

\* The secret shown last signs, unless UpdateWebhook or RotateSecret wrote back a
\* row that had been changed since they read it.
THEOREM RotatedSecretKeptHolds == WebhooksSpec => []RotatedSecretKept
<1>1. WebhooksInv => RotatedSecretKept
  BY DEF WebhooksInv
<1> QED
  BY <1>1, WebhooksStart, WebhooksStep, PTL DEF WebhooksSpec

----------------------------------------------------------------------------
(* Webhooks: deliveries *)

Worker ==
    [attempt : 1..maxRetries, verdict : {"none", "delivered", "failed"},
     cancellable : BOOLEAN, cancelled : BOOLEAN]

DeliveryTypes ==
    /\ delivery \in [Deliveries -> Delivery \cup {None, Gone}]
    /\ worker \in [Deliveries -> Worker \cup {None}]
    /\ answers \in [Deliveries -> Seq({"2xx", "4xx", "other"})]
    /\ dispatch \in [ValidEventTypes -> [pc : {"find", "loop"}, todo : SUBSET Hooks] \cup {None}]
    /\ order \in [Organizers -> Order \cup {None}]

\* All answers up to the n-th ask for another attempt.
Retried(d, n) == \A i \in 1..n : answers[d][i] = "other"

\* OutcomeFollowsAnswers is not inductive: a goroutine knows by its attempt how
\* many answers there were, all but the last asked for a retry, its verdict is
\* that of the last, and the row is settled only once it is through.
Posted(d) ==
    LET n == Len(answers[d]) IN
    /\ delivery[d] = None => n = 0 /\ worker[d] = None
    /\ worker[d] # None =>
        /\ n = IF worker[d].verdict = "none" THEN worker[d].attempt - 1 ELSE worker[d].attempt
        /\ worker[d].verdict = "none" => Retried(d, n)
        /\ worker[d].verdict # "none" =>
            (worker[d].verdict = "delivered") = (answers[d][n] = "2xx")
        /\ ~Settled(d)
    /\ n <= maxRetries
    /\ Retried(d, n - 1)
    /\ Settled(d) => (delivery[d].outcome = "delivered") = (answers[d][n] = "2xx")

DeliveryInv == DeliveryTypes /\ \A d \in Deliveries : Posted(d)

\* No row, no goroutine.
LEMMA DeliveriesStart == WebhooksInit => DeliveryInv
<1> SUFFICES ASSUME WebhooksInit PROVE DeliveryInv
  BY SMTT(30)
<1>1. DeliveryTypes
  BY DEF WebhooksInit, DeliveryTypes
<1>2. ASSUME NEW d \in Deliveries PROVE Posted(d)
  BY <1>2 DEF WebhooksInit, Posted, Retried, Settled, maxRetries
<1> QED
  BY <1>1, <1>2 DEF DeliveryInv

\* A row and the goroutine that owns it: nothing was posted yet.
LEMMA CreateDeliveryKeeps ==
    ASSUME DeliveryInv, NEW h \in Hooks, NEW test \in BOOLEAN, CreateDelivery(h, test), answers' = answers
    PROVE  /\ delivery' \in [Deliveries -> Delivery \cup {None, Gone}]
           /\ worker' \in [Deliveries -> Worker \cup {None}]
           /\ \A d \in Deliveries : Posted(d)'
<1>1. CASE UNCHANGED <<delivery, worker>>
  BY <1>1, Zenon DEF DeliveryInv, DeliveryTypes, Posted, Retried, Settled
<1>2. CASE h \in HookRows
  <2> DEFINE row == [hook |-> h, attempt |-> 0, outcome |-> "pending"]
             goroutine == [attempt |-> 1, verdict |-> "none", cancellable |-> test, cancelled |-> FALSE]
  <2>1. PICK d \in Deliveries :
            /\ delivery[d] = None
            /\ delivery' = [delivery EXCEPT ![d] = row]
            /\ worker' = [worker EXCEPT ![d] = goroutine]
    BY <1>2, Zenon DEF CreateDelivery
  <2>2. row \in Delivery /\ row.outcome = "pending" /\ row \notin {None, Gone}
    BY WebhooksAssumption DEF Delivery, maxRetries
  <2>3. goroutine \in Worker /\ goroutine.attempt = 1 /\ goroutine.verdict = "none"
    BY DEF Worker, maxRetries
  <2> HIDE DEF row, goroutine
  <2>4. /\ delivery' \in [Deliveries -> Delivery \cup {None, Gone}]
        /\ worker' \in [Deliveries -> Worker \cup {None}]
        /\ delivery'[d] = row /\ worker'[d] = goroutine
        /\ \A c \in Deliveries \ {d} : delivery'[c] = delivery[c] /\ worker'[c] = worker[c]
    BY <2>1, <2>2, <2>3, Zenon DEF DeliveryInv, DeliveryTypes
  <2>5. Posted(d)'
    <3>1. Len(answers[d]) = 0
      BY <2>1, Zenon DEF DeliveryInv, Posted
    <3> QED
      BY <2>2, <2>3, <2>4, <3>1 DEF Posted, Retried, Settled, maxRetries
  <2>6. ASSUME NEW c \in Deliveries \ {d} PROVE Posted(c)'
    BY <2>4, <2>6 DEF DeliveryInv, Posted, Retried, Settled
  <2> QED
    BY <2>4, <2>5, <2>6, Zenon
<1> QED
  BY <1>1, <1>2, Zenon DEF CreateDelivery

\* A deletion takes the rows of the webhook with it; what its goroutines have
\* posted stays posted.
LEMMA DeleteKeepsPosted ==
    ASSUME DeliveryInv, NEW h \in Hooks, DeleteWebhook(h)
    PROVE  DeliveryInv'
<1>1. UNCHANGED <<dispatch, worker, answers, order>>
  BY DEF DeleteWebhook, organizing
<1>2. \A d \in Deliveries : delivery'[d] = delivery[d] \/ (delivery[d] # None /\ delivery'[d] = Gone)
  BY DEF DeleteWebhook
<1>3. delivery' \in [Deliveries -> Delivery \cup {None, Gone}]
  BY DEF DeleteWebhook, DeliveryInv, DeliveryTypes
<1>4. ASSUME NEW d \in Deliveries PROVE Posted(d)'
  <2>1. Posted(d)
    BY DEF DeliveryInv
  <2> QED
    BY <1>1, <1>2, <2>1, WebhooksAssumption, Zenon DEF Posted, Retried, Settled
<1> QED
  BY <1>1, <1>3, <1>4 DEF DeliveryInv, DeliveryTypes

\* The client leaves: the next post fails, nothing posted changes.
LEMMA CancelTestKeeps ==
    ASSUME DeliveryInv, NEW d \in Deliveries, CancelTest(d)
    PROVE  DeliveryInv'
<1>1. UNCHANGED <<dispatch, delivery, answers, order>>
  BY DEF CancelTest, organizing
<1>2. worker[d] \in Worker /\ worker' = [worker EXCEPT ![d] = [worker[d] EXCEPT !.cancelled = TRUE]]
  BY DEF CancelTest, DeliveryInv, DeliveryTypes
<1> DEFINE w == [worker[d] EXCEPT !.cancelled = TRUE]
<1>3. w \in Worker /\ w.attempt = worker[d].attempt /\ w.verdict = worker[d].verdict
  BY <1>2, Zenon DEF Worker
<1> HIDE DEF w
<1>4. worker' \in [Deliveries -> Worker \cup {None}] /\ worker'[d] = w
      /\ \A c \in Deliveries \ {d} : worker'[c] = worker[c]
  BY <1>2, <1>3, SMTT(30) DEF DeliveryInv, DeliveryTypes, w
<1>5. ASSUME NEW c \in Deliveries PROVE Posted(c)'
  <2>1. Posted(c)
    BY DEF DeliveryInv
  <2>2. worker[d] # None
    BY DEF CancelTest
  <2> QED
    BY <1>1, <1>3, <1>4, <2>1, <2>2 DEF Posted, Retried, Settled
<1> QED
  BY <1>1, <1>4, <1>5 DEF DeliveryInv, DeliveryTypes

\* One more answer: the last, or one that asks for another attempt.
LEMMA PostKeeps ==
    ASSUME DeliveryInv, NEW d \in Deliveries, Post(d)
    PROVE  DeliveryInv'
<1>1. UNCHANGED <<dispatch, delivery, order>> /\ worker[d] # None /\ worker[d].verdict = "none"
  BY DEF Post, organizing
<1>2. PICK answer \in {"2xx", "4xx", "other"} :
        LET verdict == Verdict(worker[d].attempt, answer) IN
        /\ answers' = [answers EXCEPT ![d] = Append(@, answer)]
        /\ worker' = [worker EXCEPT ![d].verdict = verdict,
                ![d].attempt = IF verdict = "none" THEN @ + 1 ELSE @]
  BY Zenon DEF Post
<1> DEFINE verdict == Verdict(worker[d].attempt, answer)
           n == Len(answers[d])
           attempt == IF verdict = "none" THEN worker[d].attempt + 1 ELSE worker[d].attempt
           w == [worker[d] EXCEPT !.verdict = verdict, !.attempt = attempt]
<1>3. worker[d] \in Worker /\ worker[d].attempt \in 1..maxRetries
  BY <1>1, Zenon DEF DeliveryInv, DeliveryTypes, Worker
<1>4. /\ verdict \in {"none", "delivered", "failed"}
      /\ verdict = "none" => answer = "other" /\ worker[d].attempt < maxRetries
      /\ verdict # "none" => (verdict = "delivered") = (answer = "2xx")
  BY <1>3 DEF Verdict, maxRetries
<1>5. worker' = [worker EXCEPT ![d] = w]
  BY <1>2, <1>3, Zenon DEF DeliveryInv, DeliveryTypes
<1> HIDE DEF verdict
<1>6. w \in Worker /\ w.verdict = verdict /\ w.attempt = attempt
  <2>1. attempt \in 1..maxRetries
    BY <1>3, <1>4 DEF maxRetries
  <2> HIDE DEF attempt
  <2> QED
    BY <1>3, <1>4, <2>1, Zenon DEF Worker
<1> HIDE DEF w
<1>7. /\ answers' \in [Deliveries -> Seq({"2xx", "4xx", "other"})]
      /\ answers'[d] = Append(answers[d], answer)
      /\ \A c \in Deliveries \ {d} : answers'[c] = answers[c]
  BY <1>2 DEF DeliveryInv, DeliveryTypes
<1>8. /\ worker' \in [Deliveries -> Worker \cup {None}] /\ worker'[d] = w
      /\ \A c \in Deliveries \ {d} : worker'[c] = worker[c]
  BY <1>5, <1>6, Zenon DEF DeliveryInv, DeliveryTypes
<1>9. /\ n \in Nat /\ Len(answers'[d]) = n + 1 /\ answers'[d][n + 1] = answer
      /\ \A i \in 1..n : answers'[d][i] = answers[d][i]
  BY <1>7 DEF DeliveryInv, DeliveryTypes
<1>10. n = worker[d].attempt - 1 /\ Retried(d, n) /\ ~Settled(d) /\ delivery[d] # None
  BY <1>1, Zenon DEF DeliveryInv, Posted
<1>11. Posted(d)'
  <2>1. \A i \in 1..n : answers'[d][i] = "other"
    BY <1>9, <1>10, Zenon DEF Retried
  <2>2. verdict = "none" => \A i \in 1..n + 1 : answers'[d][i] = "other"
    BY <1>4, <1>9, <2>1
  <2>3. n + 1 <= maxRetries /\ (n + 1) - 1 = n
    BY <1>3, <1>9, <1>10 DEF maxRetries
  <2>4. ~Settled(d)' /\ delivery'[d] # None
    BY <1>1, <1>10, Zenon DEF Settled
  <2>5. n + 1 = IF verdict = "none" THEN w.attempt - 1 ELSE w.attempt
    BY <1>3, <1>6, <1>9, <1>10 DEF maxRetries
  <2>6. Len(answers'[d]) = n + 1
    BY <1>9, SMTT(30)
  <2> HIDE DEF n
  <2> QED
    BY <1>4, <1>6, <1>8, <1>9, <2>1, <2>2, <2>3, <2>4, <2>5, <2>6, Zenon DEF Posted, Retried
<1>12. ASSUME NEW c \in Deliveries \ {d} PROVE Posted(c)'
  BY <1>1, <1>7, <1>8, <1>12, SMTT(30) DEF DeliveryInv, Posted, Retried, Settled
<1> QED
  BY <1>1, <1>7, <1>8, <1>11, <1>12, Zenon DEF DeliveryInv, DeliveryTypes

\* A goroutine ends: its row is as it was, or says what the last answer was.
LEMMA EndKeeps ==
    ASSUME DeliveryInv, NEW d \in Deliveries, AbortBackoff(d) \/ UpdateDelivery(d)
    PROVE  DeliveryInv'
<1>1. UNCHANGED <<dispatch, answers, order>> /\ worker[d] # None /\ worker' = [worker EXCEPT ![d] = None]
  BY DEF AbortBackoff, UpdateDelivery, organizing
<1>2. /\ worker' \in [Deliveries -> Worker \cup {None}] /\ worker'[d] = None
      /\ \A c \in Deliveries \ {d} : worker'[c] = worker[c]
  BY <1>1 DEF DeliveryInv, DeliveryTypes
<1>3. Posted(d) /\ delivery[d] # None
  BY <1>1, Zenon DEF DeliveryInv, Posted
<1>4. CASE delivery' = delivery
  <2>1. ASSUME NEW c \in Deliveries PROVE Posted(c)'
    <3>1. Posted(c)
      BY DEF DeliveryInv
    <3> QED
      BY <1>1, <1>2, <1>4, <3>1, Zenon DEF Posted, Retried, Settled
  <2> QED
    BY <1>1, <1>2, <1>4, <2>1, Zenon DEF DeliveryInv, DeliveryTypes
<1>5. CASE /\ worker[d].verdict # "none" /\ delivery[d] # Gone
           /\ delivery' = [delivery EXCEPT ![d].outcome = worker[d].verdict, ![d].attempt = worker[d].attempt]
  <2> DEFINE row == [delivery[d] EXCEPT !.outcome = worker[d].verdict, !.attempt = worker[d].attempt]
  <2>1. delivery[d] \in Delivery /\ worker[d] \in Worker
    BY <1>1, <1>3, <1>5 DEF DeliveryInv, DeliveryTypes
  <2>2. row \in Delivery /\ row.outcome = worker[d].verdict
    <3>1. worker[d].verdict \in {"delivered", "failed"} /\ worker[d].attempt \in 0..maxRetries
      BY <1>5, <2>1 DEF Worker, maxRetries
    <3> QED
      BY <2>1, <3>1, Zenon DEF Delivery
  <2>3. delivery' = [delivery EXCEPT ![d] = row]
    BY <1>5, <2>1, Zenon DEF DeliveryInv, DeliveryTypes
  <2> HIDE DEF row
  <2>4. /\ delivery' \in [Deliveries -> Delivery \cup {None, Gone}] /\ delivery'[d] = row
        /\ \A c \in Deliveries \ {d} : delivery'[c] = delivery[c]
    BY <2>2, <2>3, Zenon DEF DeliveryInv, DeliveryTypes
  <2>5. Posted(d)'
    <3>1. row \notin {None, Gone}
      BY <2>2, WebhooksAssumption, Zenon
    <3>2. (row.outcome = "delivered") = (answers'[d][Len(answers'[d])] = "2xx")
      BY <1>1, <1>3, <1>5, <2>2 DEF Posted
    <3>3. Len(answers'[d]) <= maxRetries /\ Retried(d, Len(answers[d]) - 1)'
      BY <1>1, <1>3, Zenon DEF Posted, Retried
    <3> QED
      BY <1>1, <1>2, <2>4, <3>1, <3>2, <3>3, Zenon DEF Posted, Settled
  <2>6. ASSUME NEW c \in Deliveries \ {d} PROVE Posted(c)'
    <3>1. Posted(c)
      BY DEF DeliveryInv
    <3>2. delivery'[c] = delivery[c] /\ worker'[c] = worker[c] /\ answers' = answers
      BY <1>1, <1>2, <2>4, <2>6
    <3> QED
      BY <3>1, <3>2, Zenon DEF Posted, Retried, Settled
  <2> QED
    BY <1>1, <1>2, <2>4, <2>5, <2>6, Zenon DEF DeliveryInv, DeliveryTypes
<1> QED
  BY <1>4, <1>5 DEF AbortBackoff, UpdateDelivery

\* The process stops: goroutines end, rows and answers stay.
LEMMA StopDeliveriesKeeps == DeliveryInv /\ StopDeliveries => DeliveryInv'
<1> SUFFICES ASSUME DeliveryInv, StopDeliveries PROVE DeliveryInv'
  OBVIOUS
<1>1. DeliveryTypes' /\ UNCHANGED <<delivery, answers>> /\ \A d \in Deliveries : worker'[d] = None
  BY DEF StopDeliveries, DeliveryInv, DeliveryTypes
<1>2. ASSUME NEW d \in Deliveries PROVE Posted(d)'
  <2>1. Posted(d)
    BY DEF DeliveryInv
  <2> QED
    BY <1>1, <2>1, Zenon DEF Posted, Retried, Settled
<1> QED
  BY <1>1, <1>2 DEF DeliveryInv

\* A step that neither posts nor changes rows or goroutines of deliveries.
LEMMA DeliveriesUntouched ==
    ASSUME DeliveryInv, UNCHANGED <<delivery, worker, answers>>,
           dispatch' \in [ValidEventTypes -> [pc : {"find", "loop"}, todo : SUBSET Hooks] \cup {None}],
           order' \in [Organizers -> Order \cup {None}]
    PROVE  DeliveryInv'
BY Zenon DEF DeliveryInv, DeliveryTypes, Posted, Retried, Settled

\* Every step keeps what is known of the posts.
LEMMA DeliveryStep == DeliveryInv /\ [WebhooksNext]_webhooks => DeliveryInv'
<1> SUFFICES ASSUME DeliveryInv, [WebhooksNext]_webhooks PROVE DeliveryInv'
  BY SMTT(30)
<1>1. ASSUME NEW r \in Organizers, Manage(r) PROVE DeliveryInv'
  <2>1. CASE SendTest(r)
    <3>1. order[r].hook \in Hooks /\ order' = [order EXCEPT ![r] = None] /\ UNCHANGED <<dispatch, answers>>
          /\ CreateDelivery(order[r].hook, TRUE)
      BY <2>1, Zenon DEF SendTest, DeliveryInv, DeliveryTypes, Order
    <3> QED
      BY <3>1, CreateDeliveryKeeps, Zenon DEF DeliveryInv, DeliveryTypes
  <2>2. ASSUME NEW o, order' = [order EXCEPT ![r] = o], UNCHANGED <<delivery, worker, answers, dispatch>>,
               o \in Order \cup {None}
        PROVE  DeliveryInv'
    BY <2>2, DeliveriesUntouched, Zenon DEF DeliveryInv, DeliveryTypes
  <2>3. CASE CreateCheck(r)
    BY <2>2, <2>3, Zenon DEF CreateCheck, delivering, Order
  <2>4. ASSUME NEW types \in Subscriptions, CreateInsert(r, types) PROVE DeliveryInv'
    BY <2>2, <2>4, Zenon DEF CreateInsert, delivering
  <2>5. ASSUME NEW op \in {"update", "rotate", "test"}, NEW h \in Hooks, FindByID(r, op, h)
        PROVE  DeliveryInv'
    BY <2>2, <2>5, Zenon DEF FindByID, HookRows, delivering, Order
  <2>6. ASSUME NEW types \in Subscriptions, NEW enabled \in BOOLEAN, UpdateWebhook(r, types, enabled)
        PROVE  DeliveryInv'
    BY <2>2, <2>6, Zenon DEF UpdateWebhook, WriteHook, delivering
  <2>7. CASE RotateSecret(r)
    BY <2>2, <2>7, Zenon DEF RotateSecret, WriteHook, delivering
  <2> QED
    BY <1>1, <2>1, <2>3, <2>4, <2>5, <2>6, <2>7 DEF Manage
<1>2. ASSUME NEW t \in ValidEventTypes, Dispatch(t) PROVE DeliveryInv'
  <2>1. CASE DispatchFind(t)
    <3>1. FindEnabled(t) \subseteq Hooks
      BY DEF FindEnabled, HookRows
    <3> QED
      BY <2>1, <3>1, DeliveriesUntouched, Zenon DEF DispatchFind, organizing, delivering, DeliveryInv, DeliveryTypes
  <2>2. CASE DispatchOne(t)
    <3>1. PICK h \in dispatch[t].todo :
            /\ CreateDelivery(h, FALSE)
            /\ dispatch' = [dispatch EXCEPT ![t] = IF dispatch[t].todo = {h} THEN None
                    ELSE [pc |-> "loop", todo |-> dispatch[t].todo \ {h}]]
      BY <2>2, Zenon DEF DispatchOne
    <3>2. dispatch[t] \in [pc : {"find", "loop"}, todo : SUBSET Hooks]
      BY <2>2, Zenon DEF DispatchOne, DeliveryInv, DeliveryTypes
    <3>3. dispatch' \in [ValidEventTypes -> [pc : {"find", "loop"}, todo : SUBSET Hooks] \cup {None}]
      BY <3>1, <3>2, Zenon DEF DeliveryInv, DeliveryTypes
    <3>4. h \in Hooks /\ UNCHANGED <<answers, order>>
      BY <2>2, <3>1, <3>2, Zenon DEF DispatchOne, organizing
    <3> QED
      BY <3>1, <3>3, <3>4, CreateDeliveryKeeps, Zenon DEF DeliveryInv, DeliveryTypes
  <2> QED
    BY <1>2, <2>1, <2>2 DEF Dispatch
<1>3. CASE Publish \/ (\E notify \in BOOLEAN : Cancel(notify)) \/ Reopen \/ UNCHANGED webhooks
  <2>1. UNCHANGED <<delivery, worker, answers, order>>
    BY <1>3, Zenon DEF Publish, Cancel, Reopen, webhooks, delivering, organizing
  <2>2. dispatch' = dispatch \/ \E t \in ValidEventTypes : StartDispatch(t)
    BY <1>3, Zenon DEF Publish, Cancel, Reopen, webhooks, ValidEventTypes
  <2>3. dispatch' \in [ValidEventTypes -> [pc : {"find", "loop"}, todo : SUBSET Hooks] \cup {None}]
    BY <2>2 DEF StartDispatch, DeliveryInv, DeliveryTypes
  <2> QED
    BY <2>1, <2>3, DeliveriesUntouched, Zenon DEF DeliveryInv, DeliveryTypes
<1> QED
  BY <1>1, <1>2, <1>3, DeleteKeepsPosted, CancelTestKeeps, PostKeeps, EndKeeps, StopDeliveriesKeeps
     DEF WebhooksNext, Deliver

\* deliver posts at most three times and never after a final answer, and the row
\* it settles says what the last answer was.
THEOREM OutcomeFollowsAnswersHolds == WebhooksSpec => []OutcomeFollowsAnswers
<1>1. DeliveryInv => OutcomeFollowsAnswers
  BY Zenon DEF DeliveryInv, Posted, Retried, OutcomeFollowsAnswers
<1> QED
  BY <1>1, DeliveriesStart, DeliveryStep, PTL DEF WebhooksSpec

----------------------------------------------------------------------------
(* Retention *)

\* The owner was warned of the date of the event, or there is a reason not to.
Noted(e) == e \in told \cup missed \cup moved

RetentionType ==
    /\ hour \in Nat
    /\ ran \in Int /\ ran <= hour
    /\ expires \in [RetainedEvents -> Int]
    /\ standing \in [RetainedEvents -> {"live", "archived", "deleted"}]
    /\ up \in BOOLEAN
    /\ job # None => job.pc \in {"find", "delete"} /\ job.ids \subseteq RetainedEvents

\* Why a deletion is announced.  An event the job remembers is noted; once the
\* job has run in an hour, so is every event that expires soon; hence so is
\* every event that is past its end, which was about to expire an hour before;
\* and what the job has found expired is past its end unless it was moved.
RetentionInv ==
    /\ RetentionType
    /\ \A e \in warned : Noted(e)
    /\ ran = hour => \A e \in RetainedEvents : Expiring(e) => Noted(e)
    /\ \A e \in RetainedEvents : standing[e] = "live" /\ expires[e] <= hour => Noted(e)
    /\ job # None => \A e \in job.ids : Noted(e) /\ (e \in moved \/ expires[e] < hour)

\* An event starts with its end ahead.
LEMMA RetentionStarts == RetentionInit => RetentionInv
BY DEF RetentionInit, RetentionInv, RetentionType

\* The run of an hour notes every event that expires soon.
LEMMA WarnKeeps == RetentionInv /\ warnExpiring => RetentionInv'
<1> SUFFICES ASSUME RetentionInv, warnExpiring PROVE RetentionInv'
  BY SMTT(30)
<1> DEFINE warn == {e \in RetainedEvents : Expiring(e)} \ warned
<1>1. /\ warned \subseteq warned' /\ warned' \subseteq warned \cup warn
      /\ told \subseteq told' /\ missed \subseteq missed' /\ moved' = moved
      /\ \A e \in warn : e \in told' \cup missed'
  BY Zenon DEF warnExpiring
<1>2. /\ job' = [pc |-> "find", ids |-> {}] /\ ran' = hour
      /\ UNCHANGED <<hour, expires, standing, up, moved>>
  BY Zenon DEF warnExpiring
<1>3. \A e \in RetainedEvents : Expiring(e)' = Expiring(e)
  BY <1>2, Zenon DEF Expiring
<1>4. \A e : Noted(e) => Noted(e)'
  BY <1>1 DEF Noted
<1>5. \A e \in warn : Noted(e)'
  BY <1>1 DEF Noted
<1>6. RetentionType'
  BY <1>2 DEF RetentionInv, RetentionType
<1> QED
  BY <1>1, <1>2, <1>3, <1>4, <1>5, <1>6, Zenon DEF RetentionInv

\* What is found expired is past its end.
LEMMA FindKeeps == RetentionInv /\ FindExpired => RetentionInv'
<1> SUFFICES ASSUME RetentionInv, FindExpired PROVE RetentionInv'
  BY SMTT(30)
<1>1. /\ job' = [pc |-> "delete", ids |-> {e \in RetainedEvents : Expired(e)}]
      /\ UNCHANGED <<hour, expires, standing, up, ran, warned, told, moved, missed>>
  BY DEF FindExpired
<1>2. \A e \in RetainedEvents : (Expiring(e)' = Expiring(e)) /\ (Noted(e)' = Noted(e))
  BY <1>1, Zenon DEF Expiring, Noted
<1>3. \A e \in warned : Noted(e)'
  BY <1>1, Zenon DEF Noted, RetentionInv
<1>4. \A e \in job'.ids : Noted(e)' /\ expires[e] < hour
  <2>1. hour \in Nat /\ expires \in [RetainedEvents -> Int]
    BY Zenon DEF RetentionInv, RetentionType
  <2> SUFFICES ASSUME NEW e \in RetainedEvents, Expired(e)
               PROVE  Noted(e)' /\ expires[e] < hour
    BY <1>1
  <2>2. standing[e] = "live" /\ expires[e] < hour /\ expires[e] <= hour
    BY <2>1 DEF Expired
  <2> QED
    BY <1>2, <2>2, Zenon DEF RetentionInv
<1>5. RetentionType'
  BY <1>1, Zenon DEF RetentionInv, RetentionType
<1>6. ran' = hour' => \A e \in RetainedEvents : Expiring(e)' => Noted(e)'
  BY <1>1, <1>2, Zenon DEF RetentionInv
<1>7. \A e \in RetainedEvents : standing'[e] = "live" /\ expires'[e] <= hour' => Noted(e)'
  BY <1>1, <1>2, Zenon DEF RetentionInv
<1>8. \A e \in warned' : Noted(e)'
  BY <1>1, <1>3, Zenon
<1>9. \A e \in job'.ids : Noted(e)' /\ (e \in moved' \/ expires'[e] < hour')
  BY <1>1, <1>4, Zenon
<1> QED
  BY <1>5, <1>6, <1>7, <1>8, <1>9, Zenon DEF RetentionInv

\* Deletion and archiving take events away.
LEMMA DeleteKeeps == RetentionInv /\ deleteExpired => RetentionInv'
<1> SUFFICES ASSUME RetentionInv, deleteExpired PROVE RetentionInv'
  BY SMTT(30)
<1>1. /\ job' = None
      /\ \E gone \in SUBSET job.ids :
            standing' = [e \in RetainedEvents |-> IF e \in gone THEN "deleted" ELSE standing[e]]
      /\ UNCHANGED <<hour, expires, up, ran, warned, told, moved, missed>>
  BY DEF deleteExpired
<1>2. /\ standing' \in [RetainedEvents -> {"live", "archived", "deleted"}]
      /\ \A e \in RetainedEvents : standing'[e] = "live" => standing[e] = "live"
  BY <1>1, Zenon DEF RetentionInv, RetentionType
<1>3. \A e : Noted(e)' = Noted(e)
  BY <1>1 DEF Noted
<1>4. \A e \in RetainedEvents : Expiring(e)' => Expiring(e)
  BY <1>1, <1>2, Zenon DEF Expiring
<1> QED
  BY <1>1, <1>2, <1>3, <1>4, Zenon DEF RetentionInv, RetentionType

\* An archived event is out of the reach of the job.
LEMMA ArchiveKeeps ==
    ASSUME RetentionInv, NEW e \in RetainedEvents, Archive(e)
    PROVE  RetentionInv'
<1>1. /\ standing' = [standing EXCEPT ![e] = "archived"]
      /\ UNCHANGED <<hour, expires, up, ran, warned, job, told, moved, missed>>
  BY DEF Archive
<1>2. /\ standing' \in [RetainedEvents -> {"live", "archived", "deleted"}]
      /\ \A f \in RetainedEvents : standing'[f] = "live" => standing[f] = "live"
  BY <1>1, Zenon DEF RetentionInv, RetentionType
<1>3. \A f : Noted(f)' = Noted(f)
  BY <1>1 DEF Noted
<1>4. \A f \in RetainedEvents : Expiring(f)' => Expiring(f)
  BY <1>1, <1>2 DEF Expiring
<1> QED
  BY <1>1, <1>2, <1>3, <1>4, Zenon DEF RetentionInv, RetentionType

\* An edited event is noted as moved.
LEMMA EditKeeps ==
    ASSUME RetentionInv, NEW e \in RetainedEvents, NEW x \in 1..MaxHour, Edit(e, x)
    PROVE  RetentionInv'
<1>1. /\ expires' = [expires EXCEPT ![e] = x]
      /\ told' = told \ {e} /\ moved' = moved \cup {e}
      /\ UNCHANGED <<hour, standing, up, ran, warned, job, missed>>
  BY Zenon DEF Edit
<1>2. /\ expires' \in [RetainedEvents -> Int]
      /\ \A f \in RetainedEvents \ {e} : expires'[f] = expires[f]
  BY <1>1 DEF RetentionInv, RetentionType
<1>3. Noted(e)' /\ \A f : Noted(f) => Noted(f)'
  BY <1>1 DEF Noted
<1>4. \A f \in RetainedEvents \ {e} : Expiring(f)' = Expiring(f)
  BY <1>1, <1>2, Zenon DEF Expiring
<1>5. job' # None => \A f \in job'.ids : Noted(f)' /\ (f \in moved' \/ expires'[f] < hour')
  BY <1>1, <1>2, <1>3, Zenon DEF RetentionInv, RetentionType
<1> QED
  BY <1>1, <1>2, <1>3, <1>4, <1>5, Zenon DEF RetentionInv, RetentionType

\* An hour passes: what is now at its end was about to expire, and either the
\* job has run or no process did.
LEMMA TickKeeps ==
    ASSUME Window \in Nat \ {0}, RetentionInv, HourPasses
    PROVE  RetentionInv'
<1>1. /\ hour' = hour + 1 /\ (up => ran = hour /\ job = None)
      /\ missed' = IF up THEN missed ELSE missed \cup {e \in RetainedEvents : Expiring(e)}
      /\ UNCHANGED <<expires, standing, up, ran, warned, job, told, moved>>
  BY Zenon DEF HourPasses
<1>2. \A e : Noted(e) => Noted(e)'
  BY <1>1 DEF Noted
<1>3. ASSUME NEW e \in RetainedEvents, Expiring(e) PROVE Noted(e)'
  <2>1. CASE up
    BY <1>1, <1>2, <1>3, <2>1, Zenon DEF RetentionInv
  <2>2. CASE ~up
    BY <1>1, <1>3, <2>2, Zenon DEF Noted
  <2> QED
    BY <2>1, <2>2
<1>4. ASSUME NEW e \in RetainedEvents, standing'[e] = "live", expires'[e] <= hour' PROVE Noted(e)'
  <2>1. hour \in Nat /\ expires[e] \in Int /\ Window \in Nat /\ Window >= 1
    BY DEF RetentionInv, RetentionType
  <2>2. CASE expires[e] <= hour
    BY <1>1, <1>2, <1>4, <2>2, Zenon DEF RetentionInv
  <2>3. CASE expires[e] = hour + 1
    BY <1>1, <1>3, <1>4, <2>1, <2>3, SMTT(30) DEF Expiring
  <2> QED
    BY <1>1, <1>4, <2>1, <2>2, <2>3, SMTT(30)
<1>5. ran' # hour'
  BY <1>1, SMTT(30) DEF RetentionInv, RetentionType
<1>6. job' # None => \A e \in job'.ids : Noted(e)' /\ (e \in moved' \/ expires'[e] < hour')
  BY <1>1, <1>2, SMTT(30) DEF RetentionInv, RetentionType
<1>7. RetentionType' /\ \A e \in warned' : Noted(e)'
  BY <1>1, <1>2 DEF RetentionInv, RetentionType
<1> QED
  BY <1>4, <1>5, <1>6, <1>7, Zenon DEF RetentionInv

\* A stop forgets who was warned, and a start runs the job anew.
LEMMA StopStartKeeps == RetentionInv /\ (StopProcess \/ StartProcess) => RetentionInv'
<1> SUFFICES ASSUME RetentionInv, StopProcess \/ StartProcess PROVE RetentionInv'
  OBVIOUS
<1>0. up' \in BOOLEAN
  BY Zenon DEF StopProcess, StartProcess
<1>1. /\ UNCHANGED <<hour, expires, standing, told, moved, missed>>
      /\ warned' \subseteq warned
      /\ job' = None \/ job' = job
      /\ ran' = ran \/ ran' = -1
  BY DEF StopProcess, StartProcess
<1>2. \A e : Noted(e)' = Noted(e)
  BY <1>1 DEF Noted
<1>3. \A e \in RetainedEvents : Expiring(e)' = Expiring(e)
  BY <1>1, Zenon DEF Expiring
<1>4. hour \in Nat /\ ran \in Int /\ ran <= hour
  BY Zenon DEF RetentionInv, RetentionType
<1>5. /\ hour' \in Nat /\ ran' \in Int /\ ran' <= hour'
      /\ ran' = hour' => ran = hour
  BY <1>1, <1>4
<1>6. RetentionType'
  BY <1>0, <1>1, <1>5, Zenon DEF RetentionInv, RetentionType
<1>7. \A e \in warned' : Noted(e)'
  BY <1>1, <1>2, Zenon DEF RetentionInv
<1>8. ran' = hour' => \A e \in RetainedEvents : Expiring(e)' => Noted(e)'
  BY <1>2, <1>3, <1>5, Zenon DEF RetentionInv
<1>9. \A e \in RetainedEvents : standing'[e] = "live" /\ expires'[e] <= hour' => Noted(e)'
  BY <1>1, <1>2, Zenon DEF RetentionInv
<1>10. job' # None => \A e \in job'.ids : Noted(e)' /\ (e \in moved' \/ expires'[e] < hour')
  BY <1>1, <1>2, Zenon DEF RetentionInv
<1> QED
  BY <1>6, <1>7, <1>8, <1>9, <1>10, Zenon DEF RetentionInv

\* Every step keeps the reasons a deletion is announced for.
LEMMA RetentionStep ==
    ASSUME Window \in Nat \ {0}
    PROVE  RetentionInv /\ [RetentionNext]_retention => RetentionInv'
<1> SUFFICES ASSUME RetentionInv, [RetentionNext]_retention PROVE RetentionInv'
  BY Zenon
<1>1. CASE warnExpiring \/ FindExpired \/ deleteExpired
  BY <1>1, WarnKeeps, FindKeeps, DeleteKeeps
<1>2. CASE HourPasses
  BY <1>2, TickKeeps
<1>3. ASSUME NEW e \in RetainedEvents, Archive(e) PROVE RetentionInv'
  BY <1>3, ArchiveKeeps
<1>4. ASSUME NEW e \in RetainedEvents, NEW x \in 1..MaxHour, Edit(e, x) PROVE RetentionInv'
  BY <1>4, EditKeeps
<1>5. CASE StopProcess \/ StartProcess
  BY <1>5, StopStartKeeps
<1>6. CASE UNCHANGED retention
  <2>1. \A e : Noted(e)' = Noted(e)
    BY <1>6, Zenon DEF retention, Noted
  <2>2. \A e \in RetainedEvents : Expiring(e)' = Expiring(e)
    BY <1>6, Zenon DEF retention, Expiring
  <2> QED
    BY <1>6, <2>1, <2>2, Zenon DEF retention, RetentionInv, RetentionType
<1> QED
  BY <1>1, <1>2, <1>3, <1>4, <1>5, <1>6, Zenon DEF RetentionNext

\* However runs, stops and edits interleave, the clean-up deletes no event before
\* its end and none without a warning that names it, but for the exceptions that
\* Announced lists.
THEOREM Announcement ==
    ASSUME Window \in Nat \ {0}
    PROVE  RetentionSpec => NoUnannouncedDeletion
<1>1. RetentionInv /\ [RetentionNext]_retention => [Announced]_retention
  <2> SUFFICES ASSUME RetentionInv, RetentionNext PROVE Announced
    OBVIOUS
  <2>1. CASE deleteExpired
    BY <2>1, Zenon DEF deleteExpired, Announced, RetentionInv, RetentionType, Noted
  <2>2. CASE ~deleteExpired
    <3>1. \A e \in RetainedEvents : standing'[e] = "deleted" => standing[e] = "deleted"
      BY <2>2, Zenon DEF RetentionNext, warnExpiring, FindExpired, HourPasses, Archive, Edit, StopProcess, StartProcess,
                  RetentionInv, RetentionType
    <3> QED
      BY <3>1 DEF Announced
  <2> QED
    BY <2>1, <2>2
<1>2. RetentionInv /\ [RetentionNext]_retention => RetentionInv'
  BY RetentionStep
<1> QED
  BY <1>1, <1>2, RetentionStarts, PTL DEF RetentionSpec, NoUnannouncedDeletion

----------------------------------------------------------------------------
(* The dates of the occurrences: what one step of calculateNextOccurrence     *)
(* does on the calendar, and that the runs keep to it.                        *)

\* The days up to the first of March of year y, and up to the first of a month.
Elapsed(y) == 365 * y + y \div 4 - y \div 100 + y \div 400

Before(y, m) == Elapsed(IF m > 2 THEN y ELSE y - 1) + (153 * ((m + 9) % 12) + 2) \div 5

\* The cases of MonthLength.
LEMMA MonthLengths ==
    ASSUME NEW y, NEW m
    PROVE  /\ m = 2 /\ m \notin {4, 6, 9, 11} => MonthLength(y, m) = IF Leap(y) THEN 29 ELSE 28
           /\ m # 2 /\ m \in {4, 6, 9, 11} => MonthLength(y, m) = 30
           /\ m # 2 /\ m \notin {4, 6, 9, 11} => MonthLength(y, m) = 31
<1>1. CASE m = 2 /\ m \notin {4, 6, 9, 11}
  BY <1>1, Zenon DEF MonthLength
<1>2. CASE m # 2 /\ m \in {4, 6, 9, 11}
  BY <1>2, Zenon DEF MonthLength
<1>3. CASE m # 2 /\ m \notin {4, 6, 9, 11}
  BY <1>3, Zenon DEF MonthLength
<1> QED
  BY <1>1, <1>2, <1>3, Zenon

LEMMA MonthLengthType ==
    ASSUME NEW y, NEW m \in 1..12
    PROVE  MonthLength(y, m) \in 28..31
<1> QED
  BY MonthLengths

\* A year later, and a leap day.
LEMMA Years ==
    ASSUME NEW y \in Nat
    PROVE  /\ Elapsed(y) \in Int /\ Elapsed(y - 1) \in Int
           /\ Elapsed(y) = Elapsed(y - 1) + (IF Leap(y) THEN 366 ELSE 365)
<1>1. y \div 4 = ((y - 1) \div 4) + (IF y % 4 = 0 THEN 1 ELSE 0)
  OBVIOUS
<1>2. y \div 100 = ((y - 1) \div 100) + (IF y % 100 = 0 THEN 1 ELSE 0)
  OBVIOUS
<1>3. y \div 400 = ((y - 1) \div 400) + (IF y % 400 = 0 THEN 1 ELSE 0)
  OBVIOUS
<1>4. (y % 100 = 0 => y % 4 = 0) /\ (y % 400 = 0 => y % 100 = 0)
  BY SMTT(30)
<1> QED
  BY <1>1, <1>2, <1>3, <1>4 DEF Elapsed, Leap

\* DayNumber counts the days up to the month and those in it.
LEMMA DayNumbers ==
    ASSUME NEW y \in Nat, NEW m \in 1..12, NEW d \in Nat
    PROVE  DayNumber([y |-> y, m |-> m, d |-> d]) = Before(y, m) + d
BY SMTT(30) DEF DayNumber, Before, Elapsed

\* The months follow one another.
LEMMA MonthFollows ==
    ASSUME NEW y \in Nat, NEW m \in 1..12
    PROVE  /\ Before(y, m) \in Int
           /\ Before(IF m = 12 THEN y + 1 ELSE y, (m % 12) + 1) = Before(y, m) + MonthLength(y, m)
<1>1. /\ Elapsed(y) \in Int /\ Elapsed(y - 1) \in Int
      /\ Elapsed(y) = Elapsed(y - 1) + (IF Leap(y) THEN 366 ELSE 365)
  BY Years
<1>2. y + 1 - 1 = y
  OBVIOUS
<1> HIDE DEF Elapsed
<1>3. CASE m = 1
  BY <1>1, <1>3, MonthLengths, SMTT(30) DEF Before
<1>4. CASE m = 2
  BY <1>1, <1>4, MonthLengths, SMTT(30) DEF Before
<1>5. CASE m \in 3..7
  BY <1>1, <1>5, MonthLengths, SMTT(30) DEF Before
<1>6. CASE m \in 8..11
  BY <1>1, <1>6, MonthLengths, SMTT(30) DEF Before
<1>7. CASE m = 12
  BY <1>1, <1>2, <1>7, MonthLengths DEF Before
<1> QED
  BY <1>3, <1>4, <1>5, <1>6, <1>7, SMTT(30)

\* What a date of the calendar is.
LEMMA CalendarDates ==
    ASSUME NEW t \in Calendar
    PROVE  /\ t.y \in Nat /\ t.m \in 1..12 /\ t.d \in 1..31
           /\ t = [y |-> t.y, m |-> t.m, d |-> t.d]
           /\ t.d <= MonthLength(t.y, t.m)
           /\ DayNumber(t) = Before(t.y, t.m) + t.d
<1>1. /\ t.y \in Nat /\ t.m \in 1..12 /\ t.d \in 1..31
      /\ t = [y |-> t.y, m |-> t.m, d |-> t.d]
      /\ t.d <= MonthLength(t.y, t.m)
  BY DEF Calendar
<1>2. t.d \in Nat
  BY <1>1
<1> QED
  BY <1>1, <1>2, DayNumbers, Zenon

\* Some days later.
LEMMA NormalHolds ==
    ASSUME NEW t \in Calendar, NEW k \in 1..28
    PROVE  /\ Normal(t.y, t.m, t.d + k) \in Calendar
           /\ DayNumber(Normal(t.y, t.m, t.d + k)) = DayNumber(t) + k
<1> DEFINE l == MonthLength(t.y, t.m)
           over == (t.d + k) - l
           y2 == IF t.m = 12 THEN t.y + 1 ELSE t.y
           m2 == (t.m % 12) + 1
<1>1. /\ t.y \in Nat /\ t.m \in 1..12 /\ t.d \in 1..31 /\ t.d <= l
      /\ DayNumber(t) = Before(t.y, t.m) + t.d
  BY CalendarDates
<1>2. l \in 28..31
  BY <1>1, MonthLengthType
<1>3. Before(t.y, t.m) \in Int /\ Before(y2, m2) = Before(t.y, t.m) + l
  BY <1>1, MonthFollows, SMTT(30)
<1> HIDE DEF l
<1>4. CASE over <= 0
  <2>1. Normal(t.y, t.m, t.d + k) = [y |-> t.y, m |-> t.m, d |-> t.d + k]
    BY <1>4, Zenon DEF Normal, l
  <2>2. t.d + k \in Nat /\ t.d + k \in 1..31 /\ t.d + k <= l
    BY <1>1, <1>2, <1>4, SMTT(30)
  <2>3. [y |-> t.y, m |-> t.m, d |-> t.d + k] \in Calendar
    BY <1>1, <2>2, SMTT(30) DEF Calendar, l
  <2>4. DayNumber([y |-> t.y, m |-> t.m, d |-> t.d + k]) = Before(t.y, t.m) + (t.d + k)
    BY <1>1, <2>2, DayNumbers, SMTT(30)
  <2> QED
    BY <1>1, <1>3, <2>1, <2>3, <2>4
<1>5. CASE ~(over <= 0)
  <2>1. Normal(t.y, t.m, t.d + k) = [y |-> y2, m |-> m2, d |-> over]
    BY <1>5, Zenon DEF Normal, l
  <2>2. y2 \in Nat /\ m2 \in 1..12 /\ over \in Nat /\ over \in 1..28
    BY <1>1, <1>2, <1>5
  <2>3. MonthLength(y2, m2) \in 28..31
    BY <2>2, MonthLengthType
  <2> HIDE DEF y2, m2
  <2>4. over <= MonthLength(y2, m2) /\ over \in 1..31
    BY <2>2, <2>3, SMTT(30)
  <2>5. [y |-> y2, m |-> m2, d |-> over] \in Calendar
    BY <2>2, <2>4, SMTT(30) DEF Calendar
  <2>6. DayNumber([y |-> y2, m |-> m2, d |-> over]) = Before(y2, m2) + over
    BY <2>2, DayNumbers
  <2>7. Before(y2, m2) + over = DayNumber(t) + k
    BY <1>1, <1>2, <1>3
  <2> QED
    BY <2>1, <2>5, <2>6, <2>7, Zenon
<1> QED
  BY <1>4, <1>5, Zenon

\* A day of the month, cut to the length of the month of t.
Clamped(d, t) ==
    LET length == MonthLength(t.y, t.m) IN IF d < length THEN d ELSE length

\* One step of a series.
LEMMA WeeklyStep ==
    ASSUME NEW t \in Calendar, NEW o
    PROVE  /\ calculateNextOccurrence(t, "weekly", o) \in Calendar
           /\ DayNumber(calculateNextOccurrence(t, "weekly", o)) = DayNumber(t) + 7
           /\ calculateNextOccurrence(t, "biweekly", o) \in Calendar
           /\ DayNumber(calculateNextOccurrence(t, "biweekly", o)) = DayNumber(t) + 14
<1>1. /\ calculateNextOccurrence(t, "weekly", o) = Normal(t.y, t.m, t.d + 7)
      /\ calculateNextOccurrence(t, "biweekly", o) = Normal(t.y, t.m, t.d + 14)
  BY Zenon DEF calculateNextOccurrence
<1>2. 7 \in 1..28 /\ 14 \in 1..28
  OBVIOUS
<1> QED
  BY <1>1, <1>2, NormalHolds, Zenon

\* The next month, on the day asked for or its last.
LEMMA MonthlyStep ==
    ASSUME NEW t \in Calendar, NEW o \in 1..31
    PROVE  LET next == calculateNextOccurrence(t, "monthly", o) IN
           next \in Calendar /\ Months(next) = Months(t) + 1 /\ next.d = Clamped(o, next)
<1> DEFINE y2 == IF t.m = 12 THEN t.y + 1 ELSE t.y
           m2 == (t.m % 12) + 1
           l == MonthLength(y2, m2)
           d2 == IF o > l THEN l ELSE o
           next == [y |-> y2, m |-> m2, d |-> d2]
<1>1. calculateNextOccurrence(t, "monthly", o) = next
  <2>1. NextMonth(t).y = y2 /\ NextMonth(t).m = m2
    BY DEF NextMonth
  <2> QED
    BY <2>1, Zenon DEF calculateNextOccurrence
<1>2. t.y \in Nat /\ t.m \in 1..12
  BY CalendarDates
<1>3. y2 \in Nat /\ m2 \in 1..12 /\ 12 * y2 + m2 = 12 * t.y + t.m + 1
  BY <1>2
<1>4. l \in 28..31
  BY <1>3, MonthLengthType
<1> HIDE DEF y2, m2
<1>5. next.y = y2 /\ next.m = m2 /\ next.d = d2
  OBVIOUS
<1>6. d2 \in 1..31 /\ d2 <= l /\ d2 = IF o < l THEN o ELSE l
  BY <1>4, SMTT(30)
<1>7. next \in Calendar
  BY <1>3, <1>6, SMTT(30) DEF Calendar
<1>8. Months(next) = Months(t) + 1
  BY <1>3, <1>5 DEF Months
<1>9. next.d = Clamped(o, next)
  BY <1>5, <1>6, Zenon DEF Clamped
<1> QED
  BY <1>1, <1>7, <1>8, <1>9, Zenon

LEMMA ClampedType ==
    ASSUME NEW t \in Calendar, NEW d \in 1..31
    PROVE  /\ t.d \in 1..31 /\ Clamped(t.d, t) = t.d
           /\ Clamped(d, t) \in 1..31 /\ Clamped(d, t) <= d
           /\ d >= 28 => Clamped(d, t) >= 28
           /\ \A e \in 1..31 : e <= d => Clamped(e, t) <= Clamped(d, t)
           /\ d <= 28 => Clamped(d, t) = d
<1>1. t.y \in Nat /\ t.m \in 1..12 /\ t.d \in 1..31 /\ t.d <= MonthLength(t.y, t.m)
  BY CalendarDates
<1>2. MonthLength(t.y, t.m) \in 28..31
  BY <1>1, MonthLengthType
<1> QED
  BY <1>1, <1>2 DEF Clamped

\* What OccurrencesFollowTheRule says of one date t after p, the i-th, when the
\* series started on the day d.
Follows(by, d, kept, p, t, i) ==
    /\ by = "weekly" => DayNumber(t) = DayNumber(p) + 7
    /\ by = "biweekly" => DayNumber(t) = DayNumber(p) + 14
    /\ by = "monthly" =>
          /\ Months(t) = Months(p) + 1
          /\ t.d <= Clamped(d, t)
          /\ kept = 0 \/ i <= kept \/ d <= 28 => t.d = Clamped(d, t)
          /\ d > 28 => t.d >= 28

\* The property, date by date.
LEMMA RuleFollowed ==
    OccurrencesFollowTheRule
        <=> \A i \in 2..Len(dates) :
                Follows(rule, dates[1].d, resumed, dates[i - 1], dates[i], i)
BY Zenon DEF OccurrencesFollowTheRule, Follows, Cut, Clamped

\* The day a monthly series goes by is the start's, or one that was cut.
DayKept(d, day, kept) ==
    /\ day <= d
    /\ kept = 0 \/ d <= 28 => day = d
    /\ d > 28 => day >= 28

DatesInv ==
    /\ rule \in {"weekly", "biweekly", "monthly"}
    /\ dates \in Seq(Calendar) /\ Len(dates) >= 1
    /\ originalDay \in 1..31 /\ resumed \in 0..Len(dates)
    /\ rule = "monthly" => DayKept(dates[1].d, originalDay, resumed)
    /\ OccurrencesFollowTheRule

\* Sequences: their elements, one more of them, the first n.
LEMMA SequenceOf ==
    ASSUME NEW S, NEW s \in Seq(S)
    PROVE  Len(s) \in Nat /\ \A i \in 1..Len(s) : s[i] \in S
OBVIOUS

LEMMA SequenceWith ==
    ASSUME NEW S, NEW s \in Seq(S), NEW x \in S
    PROVE  /\ Append(s, x) \in Seq(S) /\ Len(Append(s, x)) = Len(s) + 1
           /\ \A i \in 1..Len(s) : Append(s, x)[i] = s[i]
           /\ Append(s, x)[Len(s) + 1] = x
OBVIOUS

LEMMA SequenceUpTo ==
    ASSUME NEW S, NEW s \in Seq(S), NEW n \in 1..Len(s)
    PROVE  /\ SubSeq(s, 1, n) \in Seq(S) /\ Len(SubSeq(s, 1, n)) = n
           /\ \A i \in 1..n : SubSeq(s, 1, n)[i] = s[i]
OBVIOUS

LEMMA DatesStart == DatesInit => DatesInv
<1> SUFFICES ASSUME DatesInit PROVE DatesInv
  BY SMTT(30)
<1>1. PICK start \in Starts : dates = <<start>> /\ originalDay = start.d
  BY Zenon DEF DatesInit
<1>2. rule \in {"weekly", "biweekly", "monthly"} /\ resumed = 0
  BY Zenon DEF DatesInit
<1>3. start \in Calendar
  BY RecurrenceAssumption, Zenon
<1>4. start.d \in 1..31
  BY <1>3, CalendarDates, Zenon
<1>5. dates \in Seq(Calendar) /\ Len(dates) = 1 /\ dates[1] = start
  BY <1>1, <1>3
<1>6. OccurrencesFollowTheRule
  BY <1>5, RuleFollowed
<1>7. DayKept(dates[1].d, originalDay, resumed)
  BY <1>1, <1>4, <1>5 DEF DayKept
<1> QED
  BY <1>1, <1>2, <1>4, <1>5, <1>6, <1>7 DEF DatesInv

\* The next date follows the rule.
LEMMA NextFollows ==
    ASSUME NEW by \in {"weekly", "biweekly", "monthly"}, NEW p \in Calendar,
           NEW d \in 1..31, NEW day \in 1..31, NEW kept \in Nat, NEW i \in Nat, kept < i,
           by = "monthly" => DayKept(d, day, kept)
    PROVE  /\ calculateNextOccurrence(p, by, day) \in Calendar
           /\ Follows(by, d, kept, p, calculateNextOccurrence(p, by, day), i)
<1>1. CASE by = "weekly"
  BY <1>1, WeeklyStep, Zenon DEF Follows
<1>2. CASE by = "biweekly"
  BY <1>2, WeeklyStep, Zenon DEF Follows
<1>3. CASE by = "monthly"
  <2> DEFINE t == calculateNextOccurrence(p, "monthly", day)
  <2>1. t \in Calendar /\ Months(t) = Months(p) + 1 /\ t.d = Clamped(day, t)
    BY MonthlyStep, Zenon
  <2> HIDE DEF t
  <2>2. DayKept(d, day, kept)
    BY <1>3, SMTT(30)
  <2>3. /\ Clamped(day, t) \in 1..31 /\ Clamped(d, t) \in 1..31
        /\ day >= 28 => Clamped(day, t) >= 28
        /\ day <= d => Clamped(day, t) <= Clamped(d, t)
    BY <2>1, ClampedType
  <2>4. ~(i <= kept)
    OBVIOUS
  <2>5. t.d <= Clamped(d, t)
    BY <2>1, <2>2, <2>3, Zenon DEF DayKept
  <2>6. kept = 0 \/ i <= kept \/ d <= 28 => t.d = Clamped(d, t)
    BY <2>1, <2>2, <2>4, Zenon DEF DayKept
  <2>7. d > 28 => t.d >= 28
    BY <2>1, <2>2, <2>3, Zenon DEF DayKept
  <2>8. Follows("monthly", d, kept, p, t, i)
    BY <2>1, <2>5, <2>6, <2>7, Zenon DEF Follows
  <2> QED
    BY <1>3, <2>1, <2>8, Zenon DEF t
<1> QED
  BY <1>1, <1>2, <1>3, Zenon

\* A run that resumes from a date of the series goes by a day that is kept.
LEMMA ResumedDay ==
    ASSUME NEW d \in 1..31, NEW t \in Calendar, NEW p, NEW kept \in Nat, NEW i \in Nat,
           Follows("monthly", d, kept, p, t, i), NEW new \in Nat \ {0}
    PROVE  DayKept(d, t.d, new)
<1>1. /\ t.d <= Clamped(d, t) /\ (d <= 28 => t.d = Clamped(d, t)) /\ (d > 28 => t.d >= 28)
  BY Zenon DEF Follows
<1>2. /\ t.d \in 1..31 /\ Clamped(d, t) \in 1..31 /\ Clamped(d, t) <= d
      /\ d <= 28 => Clamped(d, t) = d
  BY ClampedType
<1> QED
  BY <1>1, <1>2 DEF DayKept

LEMMA CreateOccurrenceKeeps ==
    ASSUME DatesInv, CreateOccurrence
    PROVE  DatesInv'
<1> DEFINE l == Len(dates)
           next == calculateNextOccurrence(dates[l], rule, originalDay)
<1>1. /\ rule \in {"weekly", "biweekly", "monthly"}
      /\ dates \in Seq(Calendar) /\ l >= 1
      /\ originalDay \in 1..31 /\ resumed \in 0..l
      /\ rule = "monthly" => DayKept(dates[1].d, originalDay, resumed)
  BY Zenon DEF DatesInv
<1>2. \A i \in 2..l : Follows(rule, dates[1].d, resumed, dates[i - 1], dates[i], i)
  BY RuleFollowed, Zenon DEF DatesInv
<1>3. /\ dates' = Append(dates, next)
      /\ rule' = rule /\ originalDay' = originalDay /\ resumed' = resumed
  BY Zenon DEF CreateOccurrence
<1>4. l \in Nat /\ 1 \in 1..l /\ l \in 1..l
  BY <1>1, SequenceOf
<1>5. dates[1] \in Calendar /\ dates[l] \in Calendar
  BY <1>1, <1>4, SequenceOf, Zenon
<1>6. dates[1].d \in 1..31
  BY <1>5, CalendarDates, Zenon
<1>7. resumed \in Nat /\ l + 1 \in Nat /\ resumed < l + 1 /\ resumed \in 0..(l + 1)
  BY <1>1, <1>4
<1>8. next \in Calendar /\ Follows(rule, dates[1].d, resumed, dates[l], next, l + 1)
  BY <1>1, <1>5, <1>6, <1>7, NextFollows, Zenon
<1> HIDE DEF next
<1>9. /\ dates' \in Seq(Calendar) /\ Len(dates') = l + 1
      /\ \A i \in 1..l : dates'[i] = dates[i]
      /\ dates'[l + 1] = next
  BY <1>1, <1>3, <1>8, SequenceWith, SMTT(30)
<1> HIDE DEF l
<1>10. ASSUME NEW i \in 2..(l + 1)
       PROVE  Follows(rule, dates[1].d, resumed, dates'[i - 1], dates'[i], i)
  <2>1. CASE i = l + 1
    <3>1. i - 1 = l
      BY <1>4, <2>1
    <3>2. dates'[i - 1] = dates[l] /\ dates'[i] = next
      BY <1>4, <1>9, <2>1, <3>1
    <3> QED
      BY <1>8, <2>1, <3>2
  <2>2. CASE i # l + 1
    <3>1. i \in 2..l /\ i \in 1..l /\ i - 1 \in 1..l
      BY <1>4, <2>2
    <3> QED
      BY <1>2, <1>9, <3>1, Zenon
  <2> QED
    BY <2>1, <2>2, Zenon
<1>11. dates'[1] = dates[1]
  BY <1>4, <1>9, Zenon
<1>12. OccurrencesFollowTheRule'
  <2>1. \A i \in 2..Len(dates') :
          Follows(rule', dates'[1].d, resumed', dates'[i - 1], dates'[i], i)
    BY <1>3, <1>9, <1>10, <1>11, Zenon
  <2> QED
    BY <2>1, Zenon DEF OccurrencesFollowTheRule, Follows, Cut, Clamped
<1>13. Len(dates') >= 1
  BY <1>4, <1>9
<1> QED
  BY <1>1, <1>3, <1>7, <1>9, <1>11, <1>12, <1>13, Zenon DEF DatesInv

LEMMA GenerateOccurrencesKeeps ==
    ASSUME DatesInv, GenerateOccurrences
    PROVE  DatesInv'
<1> DEFINE l == Len(dates)
<1>1. /\ rule \in {"weekly", "biweekly", "monthly"}
      /\ dates \in Seq(Calendar) /\ l >= 1
      /\ originalDay \in 1..31 /\ resumed \in 0..l
  BY Zenon DEF DatesInv
<1>2. \A i \in 2..l : Follows(rule, dates[1].d, resumed, dates[i - 1], dates[i], i)
  BY RuleFollowed, Zenon DEF DatesInv
<1>3. PICK n \in 1..l :
        /\ dates' = SubSeq(dates, 1, n) /\ originalDay' = dates[n].d
        /\ resumed' = IF resumed = 0 \/ n < resumed THEN n ELSE resumed
  BY Zenon DEF GenerateOccurrences
<1>4. rule' = rule
  BY Zenon DEF GenerateOccurrences
<1>5. l \in Nat
  BY <1>1, SequenceOf, Zenon
<1>6. \A i \in 1..l : dates[i] \in Calendar
  BY <1>1, SequenceOf, Zenon
<1> HIDE DEF l
<1>7. n \in Nat /\ n >= 1 /\ 1 \in 1..l /\ 1 \in 1..n /\ 1..n \subseteq 1..l
  BY <1>5
<1>8. /\ dates' \in Seq(Calendar) /\ Len(dates') = n
      /\ \A i \in 1..n : dates'[i] = dates[i]
  BY <1>1, <1>3, SequenceUpTo, Zenon DEF l
<1>9. dates[1].d \in 1..31 /\ dates[n].d \in 1..31
  BY <1>3, <1>6, <1>7, CalendarDates, Zenon
<1>10. /\ resumed' \in 0..n /\ resumed' \in Nat \ {0}
       /\ \A i \in Nat : i <= resumed' => resumed = 0 \/ i <= resumed
  BY <1>1, <1>3, <1>5, <1>7
<1>11. ASSUME NEW i \in 2..n
       PROVE  Follows(rule, dates[1].d, resumed', dates[i - 1], dates[i], i)
  <2>1. i \in 2..l /\ i \in Nat
    BY <1>5, <1>7
  <2>2. Follows(rule, dates[1].d, resumed, dates[i - 1], dates[i], i)
    BY <1>2, <2>1, Zenon
  <2>3. resumed' = 0 \/ i <= resumed' => resumed = 0 \/ i <= resumed
    BY <1>10, <2>1, Zenon
  <2> QED
    BY <2>2, <2>3, Zenon DEF Follows
<1>12. OccurrencesFollowTheRule'
  <2>1. ASSUME NEW i \in 2..Len(dates')
        PROVE  Follows(rule', dates'[1].d, resumed', dates'[i - 1], dates'[i], i)
    <3>1. i \in 2..n /\ i \in 1..n /\ i - 1 \in 1..n
      BY <1>7, <1>8
    <3>2. dates'[1] = dates[1] /\ dates'[i - 1] = dates[i - 1] /\ dates'[i] = dates[i]
      BY <1>7, <1>8, <3>1, Zenon
    <3> QED
      BY <1>4, <1>11, <3>1, <3>2, Zenon
  <2> QED
    BY <2>1, Zenon DEF OccurrencesFollowTheRule, Follows, Cut, Clamped
<1>13. ASSUME rule = "monthly" PROVE DayKept(dates[1].d, dates[n].d, resumed')
  <2>1. CASE n = 1
    BY <1>9, <2>1, SMTT(30) DEF DayKept
  <2>2. CASE n # 1
    <3>1. n \in 2..l /\ n \in Nat
      BY <1>5, <1>7, <2>2
    <3>2. Follows("monthly", dates[1].d, resumed, dates[n - 1], dates[n], n)
      BY <1>2, <1>13, <3>1
    <3>3. resumed \in Nat
      BY <1>1, <1>5
    <3> QED
      BY <1>6, <1>9, <1>10, <3>1, <3>2, <3>3, ResumedDay, SMTT(30)
  <2> QED
    BY <2>1, <2>2, Zenon
<1>14. dates'[1] = dates[1]
  BY <1>7, <1>8, Zenon
<1> QED
  BY <1>1, <1>3, <1>4, <1>7, <1>8, <1>9, <1>10, <1>12, <1>13, <1>14, Zenon DEF DatesInv

\* From every date, and however the runs of the job split the work, the dates
\* that generateInitialOccurrences and GenerateOccurrences create follow the rule
\* of the series on the calendar, in its common and its leap years.
THEOREM OccurrencesFollowTheRuleHolds == DatesSpec => []OccurrencesFollowTheRule
<1>1. DatesInv /\ [DatesNext]_datesVars => DatesInv'
  <2> SUFFICES ASSUME DatesInv, [DatesNext]_datesVars PROVE DatesInv'
    BY SMTT(30)
  <2>1. CASE CreateOccurrence
    BY <2>1, CreateOccurrenceKeeps, Zenon
  <2>2. CASE GenerateOccurrences
    BY <2>2, GenerateOccurrencesKeeps, Zenon
  <2>3. CASE UNCHANGED datesVars
    BY <2>3, Zenon DEF datesVars, DatesInv, OccurrencesFollowTheRule, Cut
  <2> QED
    BY <2>1, <2>2, <2>3, Zenon DEF DatesNext
<1>2. DatesInv => OccurrencesFollowTheRule
  BY Zenon DEF DatesInv
<1> QED
  BY <1>1, <1>2, DatesStart, PTL DEF DatesSpec
=============================================================================
