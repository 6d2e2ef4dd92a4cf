----------------------------- MODULE MCServices -----------------------------
(***************************************************************************)
(* The services around invitations and events, for TLC: webhooks, mail,    *)
(* cards with their backups, retention, recovery requests, the rate        *)
(* limiter and the import of guests.  They share no state, so that nothing *)
(* one does depends on how far another is: each behaviour below is one     *)
(* service at work while the others rest, and the states are the union of  *)
(* theirs, not the product.                                                *)
(***************************************************************************)
EXTENDS Webhooks, Mail, Backup, Retention, Recovery, RateLimiter, GuestImport

CONSTANTS e1, e2, h1, h2, d1, r1, r2, p1, p2, c1, c2

VARIABLE service        \* the one at work

vars == <<service, webhooks, mail, storage, retention, recovery, limiter, import>>

Init ==
    /\ service \in {"webhooks", "mail", "storage", "retention", "recovery", "limiter", "import"}
    /\ WebhooksInit /\ MailInit /\ StorageInit /\ RetentionInit /\ RecoveryInit
    /\ LimiterInit /\ ImportInit
    /\ service # "retention" => expires[e1] = 1

Next ==
    \/ service = "webhooks" /\ WebhooksNext
       /\ UNCHANGED <<service, mail, storage, retention, recovery, limiter, import>>
    \/ service = "mail" /\ MailNext
       /\ UNCHANGED <<service, webhooks, storage, retention, recovery, limiter, import>>
    \/ service = "storage" /\ StorageNext
       /\ UNCHANGED <<service, webhooks, mail, retention, recovery, limiter, import>>
    \/ service = "retention" /\ RetentionNext
       /\ UNCHANGED <<service, webhooks, mail, storage, recovery, limiter, import>>
    \/ service = "recovery" /\ RecoveryNext
       /\ UNCHANGED <<service, webhooks, mail, storage, retention, limiter, import>>
    \/ service = "limiter" /\ LimiterNext
       /\ UNCHANGED <<service, webhooks, mail, storage, retention, recovery, import>>
    \/ service = "import" /\ ImportNext
       /\ UNCHANGED <<service, webhooks, mail, storage, retention, recovery, limiter>>

\* Goroutines run while the process does: posts end by the client's timeout
\* of ten seconds, back-offs by their timers.
Spec == Init /\ [][Next]_vars /\ WF_vars(service = "webhooks" /\ Deliver(d1)
                                        /\ UNCHANGED <<service, mail, storage, retention, recovery, limiter, import>>)

----------------------------------------------------------------------------
(* Bounds.  Requests, clients, restores and webhooks are interchangeable: a   *)
(* second one is there only with the first.                                   *)

\* Requests overlap while the event is a draft; beside a dispatcher or a
\* delivery only deletions go on.  The process stops once there is a delivery
\* to cut off.  No step of a delivery leaves this bound, so it cuts off none of
\* the fair behaviours.
WebhooksBound ==
    /\ status # "draft" \/ delivery[d1] # None =>
          overlapped = {} /\ ~raced /\ \A r \in {r1, r2} : Idle(r)
    /\ crashes > 0 => delivery[d1] # None
    /\ order[r1] = None => order[r2] = None
    /\ hook[h1] = None => hook[h2] = None

\* One send at a time, beside one client, or two clients.  The second send
\* starts once the first has brought a link to unsubscribe with, without a fault.
MailBound ==
    LET sending == Cardinality({s \in {1, 2} : send[s] # None /\ ~Over(s)})
        clients == Cardinality({c \in {c1, c2} : client[c] # None})
    IN  /\ sending <= 1 /\ sending + clients <= 2
        /\ client[c1] = None => client[c2] = None
        /\ send[2] # None => 1 \in received \ (blind \cup unwritten) /\ token[1] # None

\* Requests overlap on one event without a backup; a backup runs beside one
\* request, a restore beside none; a second event is copied from the first and
\* edited by one request at a time.  Nothing is said of what follows a restore that
\* was cut off.
StorageBound ==
    LET busy == Cardinality({r \in {r1, r2} : request[r] # None}) IN
    /\ life[e2] # "new" => busy <= 1 /\ backup = None /\ bundle = None
    /\ backup # None => busy <= 1
    /\ bundle # None => busy = 0
    /\ request[r1] = None => request[r2] = None
    /\ restore[p1] = None => restore[p2] = None
    /\ ~cut

RecoveryBound ==
    /\ Len(attempts) <= 3
    /\ search[r1] = None => search[r2] = None

Bound == WebhooksBound /\ MailBound /\ StorageBound /\ RecoveryBound

\* What may be in a file: rows of three households, one of them with a second
\* profile, rows with a field that is blank or not valid, records that are no rows.
SomeRecords ==
    LET Row(k, p, g) == [shape |-> "row", key |-> k, profile |-> p, guest |-> g] IN
    {Row(k, "a", g) : k \in {"k1", "k2", "k3"}, g \in {"g1", "g2"}}
    \cup {Row("k1", "b", "g1"), Row("k1", "invalid", "g1"), Row("k2", "a", ""), Row("", "a", "g1")}
    \cup {[Row("k1", "a", "g1") EXCEPT !.shape = x] : x \in {"malformed", "short"}}
=============================================================================
