-------------------------- MODULE InvitationAccess --------------------------
(***************************************************************************)
(* Who may act for a household: private links, invitation sessions,        *)
(* recovery tokens, rotation and revocation (internal/invitation).         *)
(*                                                                         *)
(* A private link is the signed pair (access_id, token_version).  It is    *)
(* exchanged for a session that remembers the version it was issued under; *)
(* rotation advances the version, revocation closes the invitation.        *)
(*                                                                         *)
(* A request runs as the handler does, one database statement or one       *)
(* committed transaction at a time, so two requests interleave the way     *)
(* they can on PostgreSQL (READ COMMITTED, row locks).  SQLite runs with   *)
(* one connection and allows a subset of these behaviours.  Wall-clock     *)
(* expiry is the environment step that makes "expires_at > now" false.     *)
(***************************************************************************)
EXTENDS Naturals, FiniteSets

CONSTANTS Invitations,  \* invitation rows that can come to exist
          Sessions,     \* invitation_sessions rows that can come to exist
          Tokens,       \* invitation_recovery_tokens rows that can come to exist
          Requests,     \* request handlers running at the same time
          None,         \* no row, no request
          MaxVersion,   \* bound: token_version
          MaxResponse   \* bound: rsvp_responses.version

\* "via" is a history field: the recovery token that minted the session, if any.
SessionRow == [inv : Invitations, issued : Nat, via : Tokens \cup {None}]

ASSUME AccessAssumption ==
    /\ None \notin Invitations \cup Tokens \cup Requests \cup SessionRow
    /\ MaxVersion \in Nat
    /\ MaxResponse \in Nat

VARIABLES
    tokenVersion,    \* invitations.token_version, 0 while there is no row
    revoked,         \* invitations whose revoked_at is set
    response,        \* rsvp_responses.version, 0 while there is no row
    links,           \* private links handed out: <<invitation, version>>
    session,         \* invitation_sessions rows (their immutable columns)
    sessionRevoked,  \* sessions whose revoked_at is set
    recovery,        \* invitation_recovery_tokens: the token's invitation
    consumed,        \* recovery tokens whose consumed_at is set
    expired,         \* sessions and tokens whose expires_at has passed
    lock,            \* holder of the row lock on an invitation
    request          \* local state of each running request

rows == <<tokenVersion, revoked, response, links, session, sessionRevoked,
          recovery, consumed>>
vars == <<rows, expired, lock, request>>

Links == Invitations \X Nat

Steps == {"idle", "send", "exchange", "rotate", "rotated", "revoke",
          "recovery", "recover", "submit"}

RequestState == [step : Steps, inv : Invitations \cup {None}, version : Nat,
                 token : Tokens \cup {None}, seen : SUBSET Sessions,
                 outbox : SUBSET Links, matches : SUBSET Invitations]

Idle == [step |-> "idle", inv |-> None, version |-> 0, token |-> None,
         seen |-> {}, outbox |-> {}, matches |-> {}]

-----------------------------------------------------------------------------
(* What the queries see.                                                   *)

Exists(i) == tokenVersion[i] > 0
Live(i) == Exists(i) /\ i \notin revoked
HasRow(s) == session[s] # None

\* Mutant: the lookup trusts revoked_at alone.
UsableIgnoringVersion(s) ==
    /\ HasRow(s)
    /\ s \notin expired
    /\ s \notin sessionRevoked
    /\ session[s].inv \notin revoked

\* InvitationForSession: the WHERE clause of the session lookup.
Usable(s) ==
    /\ HasRow(s)
    /\ s \notin expired
    /\ s \notin sessionRevoked
    /\ session[s].inv \notin revoked
    /\ session[s].issued = tokenVersion[session[s].inv]

\* The sessions the second UPDATE of Rotate and Revoke marks.
OpenSessions(i) ==
    {s \in Sessions \ sessionRevoked : HasRow(s) /\ session[s].inv = i}

\* The WHERE clause of the recovery lookup.
Redeemable(t) ==
    /\ recovery[t] # None
    /\ t \notin consumed
    /\ t \notin expired
    /\ recovery[t] \notin revoked

Start(r, state) ==
    /\ request[r] = Idle
    /\ request' = [request EXCEPT ![r] = state]

Finish(r) == request' = [request EXCEPT ![r] = Idle]

-----------------------------------------------------------------------------
Init ==
    /\ tokenVersion = [i \in Invitations |-> 0]
    /\ revoked = {}
    /\ response = [i \in Invitations |-> 0]
    /\ links = {}
    /\ session = [s \in Sessions |-> None]
    /\ sessionRevoked = {}
    /\ recovery = [t \in Tokens |-> None]
    /\ consumed = {}
    /\ expired = {}
    /\ lock = [i \in Invitations |-> None]
    /\ request = [r \in Requests |-> Idle]

-----------------------------------------------------------------------------
(* Creating a household and handing out its link.                          *)

\* CreatePrivate and Import: invitation and response in one transaction; the
\* link is part of the answer.
CreatePrivate(i) ==
    /\ ~Exists(i)
    /\ tokenVersion' = [tokenVersion EXCEPT ![i] = 1]
    /\ response' = [response EXCEPT ![i] = 1]
    /\ links' = links \cup {<<i, 1>>}
    /\ UNCHANGED <<revoked, session, sessionRevoked, recovery, consumed,
                   expired, lock, request>>

\* EnrollOpen: the household and its first session in one transaction (the
\* capacity check is in module OpenEnrollment).
EnrollOpen(i, s) ==
    /\ ~Exists(i)
    /\ ~HasRow(s)
    /\ tokenVersion' = [tokenVersion EXCEPT ![i] = 1]
    /\ response' = [response EXCEPT ![i] = 1]
    /\ session' = [session EXCEPT ![s] = [inv |-> i, issued |-> 1, via |-> None]]
    /\ UNCHANGED <<revoked, links, sessionRevoked, recovery, consumed,
                   expired, lock, request>>

\* Deliver: reads the row, then builds the link from what it read.
DeliverRead(r, i) ==
    /\ Live(i)
    /\ Start(r, [Idle EXCEPT !.step = "send", !.outbox = {<<i, tokenVersion[i]>>}])
    /\ UNCHANGED <<rows, expired, lock>>

\* BroadcastDetailed: one query for all targets, a subset of the live
\* invitations (recipient group, contact and delivery method filter it).
BroadcastRead(r) ==
    /\ \E S \in SUBSET {i \in Invitations : Live(i)} :
           Start(r, [Idle EXCEPT !.step = "send",
                                 !.outbox = {<<i, tokenVersion[i]>> : i \in S}])
    /\ UNCHANGED <<rows, expired, lock>>

\* One e-mail or SMS leaves; a failed one is counted and the loop goes on.
SendLink(r) ==
    /\ request[r].step = "send"
    /\ \/ \E l \in request[r].outbox :
              /\ links' \in {links, links \cup {l}}
              /\ request' = [request EXCEPT ![r].outbox = @ \ {l}]
       \/ /\ request[r].outbox = {}
          /\ Finish(r)
          /\ UNCHANGED links
    /\ UNCHANGED <<tokenVersion, revoked, response, session, sessionRevoked,
                   recovery, consumed, expired, lock>>

-----------------------------------------------------------------------------
(* Exchanging a link: the invitation is read first, the session inserted   *)
(* by a second statement that checks nothing again.                        *)

ExchangeRead(r) ==
    /\ \E l \in links :
           /\ Live(l[1])
           /\ tokenVersion[l[1]] = l[2]
           /\ Start(r, [Idle EXCEPT !.step = "exchange", !.inv = l[1],
                                    !.version = l[2]])
    /\ UNCHANGED <<rows, expired, lock>>

CreateSession(r, s) ==
    /\ request[r].step = "exchange"
    /\ ~HasRow(s)
    /\ session' = [session EXCEPT
           ![s] = [inv |-> request[r].inv, issued |-> request[r].version,
                   via |-> None]]
    /\ Finish(r)
    /\ UNCHANGED <<tokenVersion, revoked, response, links, sessionRevoked,
                   recovery, consumed, expired, lock>>

-----------------------------------------------------------------------------
(* Rotation and revocation: the UPDATE of the invitation takes its row     *)
(* lock, the UPDATE of the sessions marks those it can see, and the commit *)
(* publishes both.                                                         *)

RotateBegin(r, i) ==
    /\ lock[i] = None
    /\ Live(i)
    /\ tokenVersion[i] < MaxVersion
    /\ Start(r, [Idle EXCEPT !.step = "rotate", !.inv = i, !.seen = OpenSessions(i)])
    /\ lock' = [lock EXCEPT ![i] = r]
    /\ UNCHANGED <<rows, expired>>

RotateCommit(r) ==
    LET i == request[r].inv IN
    /\ request[r].step = "rotate"
    /\ tokenVersion' = [tokenVersion EXCEPT ![i] = @ + 1]
    /\ sessionRevoked' = sessionRevoked \cup request[r].seen
    /\ lock' = [lock EXCEPT ![i] = None]
    /\ request' = [request EXCEPT ![r] = [Idle EXCEPT !.step = "rotated", !.inv = i]]
    /\ UNCHANGED <<revoked, response, links, session, recovery, consumed, expired>>

\* Mutant: the answer adds one to a version that was already advanced.
RotateReplyAhead(r) ==
    /\ request[r].step = "rotated"
    /\ links' = links \cup {<<request[r].inv, tokenVersion[request[r].inv] + 1>>}
    /\ Finish(r)
    /\ UNCHANGED <<tokenVersion, revoked, response, session, sessionRevoked,
                   recovery, consumed, expired, lock>>

\* The answer is built from the row as it is when read again after the commit.
RotateReply(r) ==
    /\ request[r].step = "rotated"
    /\ links' = links \cup {<<request[r].inv, tokenVersion[request[r].inv]>>}
    /\ Finish(r)
    /\ UNCHANGED <<tokenVersion, revoked, response, session, sessionRevoked,
                   recovery, consumed, expired, lock>>

RevokeBegin(r, i) ==
    /\ lock[i] = None
    /\ Live(i)
    /\ Start(r, [Idle EXCEPT !.step = "revoke", !.inv = i, !.seen = OpenSessions(i)])
    /\ lock' = [lock EXCEPT ![i] = r]
    /\ UNCHANGED <<rows, expired>>

\* Mutant: the transaction is neither committed nor rolled back.
RevokeLeavesLock(r) ==
    /\ request[r].step = "revoke"
    /\ revoked' = revoked \cup {request[r].inv}
    /\ sessionRevoked' = sessionRevoked \cup request[r].seen
    /\ Finish(r)
    /\ UNCHANGED <<tokenVersion, response, links, session, recovery, consumed,
                   expired, lock>>

RevokeCommit(r) ==
    LET i == request[r].inv IN
    /\ request[r].step = "revoke"
    /\ revoked' = revoked \cup {i}
    /\ sessionRevoked' = sessionRevoked \cup request[r].seen
    /\ lock' = [lock EXCEPT ![i] = None]
    /\ Finish(r)
    /\ UNCHANGED <<tokenVersion, response, links, session, recovery, consumed,
                   expired>>

-----------------------------------------------------------------------------
(* Recovery: tokens are mailed for every invitation with the contact and   *)
(* exchanged for a session at the version the invitation has by then.      *)

\* FindRecoveryMatches, once the budget allows it.
RecoveryFind(r) ==
    /\ \E S \in SUBSET {i \in Invitations : Live(i)} :
           /\ S # {}
           /\ Start(r, [Idle EXCEPT !.step = "recovery", !.matches = S])
    /\ UNCHANGED <<rows, expired, lock>>

\* One turn of the loop: the token is inserted and mailed.  A failed mail ends
\* the whole request and leaves the remaining matches without a token.
RecoveryIssue(r, t) ==
    /\ request[r].step = "recovery"
    /\ recovery[t] = None
    /\ \E i \in request[r].matches :
           /\ recovery' = [recovery EXCEPT ![t] = i]
           /\ \/ /\ request[r].matches # {i}
                 /\ request' = [request EXCEPT ![r].matches = @ \ {i}]
              \/ Finish(r)
    /\ UNCHANGED <<tokenVersion, revoked, response, links, session,
                   sessionRevoked, consumed, expired, lock>>

\* The SELECT of ConsumeRecoveryAndCreateSession.
RecoverSelect(r, t) ==
    /\ Redeemable(t)
    /\ Start(r, [Idle EXCEPT !.step = "recover", !.inv = recovery[t],
                             !.version = tokenVersion[recovery[t]], !.token = t])
    /\ UNCHANGED <<rows, expired, lock>>

\* Mutant: the UPDATE that consumes the token is not conditional.
RecoverCommitUnchecked(r, s) ==
    /\ request[r].step = "recover"
    /\ ~HasRow(s)
    /\ consumed' = consumed \cup {request[r].token}
    /\ session' = [session EXCEPT
           ![s] = [inv |-> request[r].inv, issued |-> request[r].version,
                   via |-> request[r].token]]
    /\ Finish(r)
    /\ UNCHANGED <<tokenVersion, revoked, response, links, sessionRevoked,
                   recovery, expired, lock>>

\* Its conditional UPDATE, the INSERT of the session and the commit.
RecoverCommit(r, s) ==
    /\ request[r].step = "recover"
    /\ request[r].token \notin consumed \cup expired
    /\ ~HasRow(s)
    /\ consumed' = consumed \cup {request[r].token}
    /\ session' = [session EXCEPT
           ![s] = [inv |-> request[r].inv, issued |-> request[r].version,
                   via |-> request[r].token]]
    /\ Finish(r)
    /\ UNCHANGED <<tokenVersion, revoked, response, links, sessionRevoked,
                   recovery, expired, lock>>

\* The conditional UPDATE found no row: rollback, ErrInvalidCapability.
RecoverReject(r) ==
    /\ request[r].step = "recover"
    /\ request[r].token \in consumed \cup expired
    /\ Finish(r)
    /\ UNCHANGED <<rows, expired, lock>>

-----------------------------------------------------------------------------
(* Submitting a response: the session is checked by one statement, the     *)
(* response written by a later transaction that locks the invitation.      *)

SubmitCheck(r, s) ==
    /\ Usable(s)
    /\ \E v \in 1 .. response[session[s].inv] :
           Start(r, [Idle EXCEPT !.step = "submit", !.inv = session[s].inv,
                                 !.version = v])
    /\ UNCHANGED <<rows, expired, lock>>

\* Mutant: the transaction relies on the session check made before it.
SubmitCommitUnlocked(r) ==
    /\ request[r].step = "submit"
    /\ response[request[r].inv] = request[r].version
    /\ response[request[r].inv] < MaxResponse
    /\ response' = [response EXCEPT ![request[r].inv] = @ + 1]
    /\ Finish(r)
    /\ UNCHANGED <<tokenVersion, revoked, links, session, sessionRevoked,
                   recovery, consumed, expired, lock>>

\* Mutant: a submission renews the sessions of its household.
SubmitCommitRenews(r) ==
    LET i == request[r].inv IN
    /\ request[r].step = "submit"
    /\ lock[i] = None
    /\ i \notin revoked
    /\ response[i] = request[r].version
    /\ response[i] < MaxResponse
    /\ response' = [response EXCEPT ![i] = @ + 1]
    /\ expired' = {s \in expired \cap Sessions : session[s].inv # i}
    /\ Finish(r)
    /\ UNCHANGED <<tokenVersion, revoked, links, session, sessionRevoked,
                   recovery, consumed, lock>>

SubmitCommit(r) ==
    LET i == request[r].inv IN
    /\ request[r].step = "submit"
    /\ lock[i] = None
    /\ i \notin revoked
    /\ response[i] = request[r].version
    /\ response[i] < MaxResponse
    /\ response' = [response EXCEPT ![i] = @ + 1]
    /\ Finish(r)
    /\ UNCHANGED <<tokenVersion, revoked, links, session, sessionRevoked,
                   recovery, consumed, expired, lock>>

\* ErrNotFound after a revocation, ErrConflict on a stale version, or an
\* answer or allowance error: the transaction rolls back.
SubmitReject(r) ==
    /\ request[r].step = "submit"
    /\ lock[request[r].inv] = None
    /\ Finish(r)
    /\ UNCHANGED <<rows, expired, lock>>

-----------------------------------------------------------------------------
(* The environment.                                                        *)

\* A row's expires_at passes.
Expire(x) ==
    /\ \/ x \in Sessions /\ HasRow(x)
       \/ x \in Tokens /\ recovery[x] # None
    /\ x \notin expired
    /\ expired' = expired \cup {x}
    /\ UNCHANGED <<rows, lock, request>>

\* The client disconnects or the process stops: an open transaction rolls
\* back and its lock is released; what was committed stays.
Abort(r) ==
    /\ request[r] # Idle
    /\ lock' = [i \in Invitations |-> IF lock[i] = r THEN None ELSE lock[i]]
    /\ Finish(r)
    /\ UNCHANGED <<rows, expired>>

-----------------------------------------------------------------------------
Begin(r) ==
    \/ \E i \in Invitations : DeliverRead(r, i) \/ RotateBegin(r, i) \/ RevokeBegin(r, i)
    \/ \E s \in Sessions : SubmitCheck(r, s)
    \/ \E t \in Tokens : RecoverSelect(r, t)
    \/ BroadcastRead(r)
    \/ ExchangeRead(r)
    \/ RecoveryFind(r)

Continue(r) ==
    \/ \E s \in Sessions : CreateSession(r, s) \/ RecoverCommit(r, s)
    \/ \E t \in Tokens : RecoveryIssue(r, t)
    \/ SendLink(r)
    \/ RotateCommit(r)
    \/ RotateReply(r)
    \/ RevokeCommit(r)
    \/ RecoverReject(r)
    \/ SubmitCommit(r)
    \/ SubmitReject(r)

Next ==
    \/ \E i \in Invitations : CreatePrivate(i)
    \/ \E i \in Invitations, s \in Sessions : EnrollOpen(i, s)
    \/ \E r \in Requests : Begin(r) \/ Continue(r) \/ Abort(r)
    \/ \E x \in Sessions \cup Tokens : Expire(x)

Spec == Init /\ [][Next]_vars

\* Only what the server itself guarantees: a transaction that holds a lock
\* goes on to its commit, and a submission that waits for the lock gets it in
\* its turn (PostgreSQL queues the waiters; SQLite has one connection).
FairSpec ==
    /\ Spec
    /\ \A r \in Requests :
           /\ WF_vars(RotateCommit(r) \/ RevokeCommit(r))
           /\ SF_vars(SubmitCommit(r) \/ SubmitReject(r))

-----------------------------------------------------------------------------
(* Properties.                                                             *)

\* Every row and every request has the columns and the local state its code
\* gives it.
TypeOK ==
    /\ tokenVersion \in [Invitations -> Nat]
    /\ revoked \subseteq Invitations
    /\ response \in [Invitations -> Nat]
    /\ links \subseteq Links
    /\ session \in [Sessions -> SessionRow \cup {None}]
    /\ sessionRevoked \subseteq Sessions
    /\ recovery \in [Tokens -> Invitations \cup {None}]
    /\ consumed \subseteq Tokens
    /\ expired \subseteq Sessions \cup Tokens
    /\ lock \in [Invitations -> Requests \cup {None}]
    /\ request \in [Requests -> RequestState]

\* What a request has read stays with it until it writes: the steps that need
\* an invitation have one, and a recovery exchange holds the invitation its
\* token was issued for.
RequestOK ==
    \A r \in Requests :
        /\ request[r].step \in {"exchange", "rotate", "rotated", "revoke",
                                "recover", "submit"} => request[r].inv \in Invitations
        /\ request[r].step = "recover" =>
               /\ request[r].token \in Tokens
               /\ recovery[request[r].token] = request[r].inv

Reached(i, v) == 1 <= v /\ v <= tokenVersion[i]

\* Nothing carries a version its invitation has not reached: not a link, not a
\* session, not a request between its read and its write; and recovery,
\* rotation and revocation only ever concern invitations that exist.  The equality test
\* of the session lookup is safe only because of this: a later rotation can
\* never make a session valid.
NoFutureCredential ==
    /\ \A l \in links : Reached(l[1], l[2])
    /\ \A s \in Sessions : HasRow(s) => Reached(session[s].inv, session[s].issued)
    /\ \A t \in Tokens : recovery[t] # None => Exists(recovery[t])
    /\ \A i \in revoked : Exists(i)
    /\ \A r \in Requests :
           /\ request[r].step \in {"exchange", "recover"} =>
                  Reached(request[r].inv, request[r].version)
           /\ \A l \in request[r].outbox : Reached(l[1], l[2])
           /\ \A i \in request[r].matches : Exists(i)
           /\ request[r].step \in {"rotated", "revoke"} => Exists(request[r].inv)

\* Rotate, Revoke and expiry are final: whatever requests were in flight, no
\* session the lookup once refused is ever accepted again.
DeadStaysDead ==
    [][\A s \in Sessions : HasRow(s) /\ ~Usable(s) => ~Usable(s)']_vars

\* At the moment a rotation commits no session of the invitation is accepted,
\* those included that an exchange inserted after the rotation had marked the
\* sessions it could see.
RotationCutsOff ==
    [][\A i \in Invitations :
           Exists(i) /\ tokenVersion'[i] # tokenVersion[i] =>
               \A s \in Sessions : Usable(s)' => session'[s].inv # i]_vars

\* "Replays cannot mint a second session even under concurrent requests"
\* (ConsumeRecoveryAndCreateSession): a consumed recovery token has minted
\* exactly one session, for the invitation it was mailed for, and any other
\* token none.
RecoveryMintsOne ==
    \A t \in Tokens :
        /\ t \in consumed =>
               \E s \in Sessions : /\ HasRow(s)
                                   /\ session[s].via = t
                                   /\ session[s].inv = recovery[t]
        /\ \A s1, s2 \in Sessions :
               /\ HasRow(s1) /\ HasRow(s2)
               /\ session[s1].via = t /\ session[s2].via = t
               => t \in consumed /\ s1 = s2

\* A session is checked by SubmitForSession before the transaction that
\* writes; a revocation between the two still keeps the response unwritten.
NoResponseAfterRevoke ==
    [][\A i \in revoked : response'[i] = response[i] /\ i \in revoked']_vars

\* The promise to households: module HouseholdAccess, with the sessions the
\* lookup accepts as the open ones and the other rows as the closed ones.
Access == INSTANCE HouseholdAccess WITH
    open <- [i \in Invitations |-> {s \in Sessions : Usable(s) /\ session[s].inv = i}],
    closed <- {s \in Sessions : HasRow(s) /\ ~Usable(s)}

\* Versions, marked sessions, recovery tokens and interleaved requests
\* implement that promise; in particular rotating or revoking one household
\* ends all of its sessions and none of another household.
ImplementsHouseholdAccess == Access!Spec

\* A submission does not wait for ever behind rotations and revocations.
SubmissionAnswered ==
    \A r \in Requests : request[r].step = "submit" ~> request[r].step # "submit"
=============================================================================
