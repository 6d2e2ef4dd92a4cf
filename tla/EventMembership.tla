-------------------------- MODULE EventMembership --------------------------
(***************************************************************************)
(* The memberships of one event: sponsoring a co-host (InviteEventCohost   *)
(* and AcceptInvite in internal/useradmin), removing one (handleRemoveCo-  *)
(* Host in internal/event), the administrator's AddSelf and Transfer-      *)
(* Ownership (internal/eventadmin) and account deletion                    *)
(* (DeleteOrganizerCascade in internal/auth).                              *)
(*                                                                         *)
(* PostgreSQL at READ COMMITTED: transactions are split where another one  *)
(* can commit between two statements; LockEventTx and beginAuthorized take *)
(* the row lock of the event first.  Status and role changes of accounts   *)
(* are in Accounts; here a user is invited, active or deleted.             *)
(***************************************************************************)
EXTENDS Absence, Naturals, FiniteSets

CONSTANTS Users,       \* users rows that can come to exist
          Owner,       \* the user that creates the event
          Admins,      \* users with instance_role 'admin'
          Invites,     \* account_invites rows that name the event
          Requests,    \* requests in flight
          MaxCoHosts   \* MAX_COHOSTS_PER_EVENT

\* An account_invites row; live until its expires_at.
Invitation == [user : Users, by : Users, state : {"pending", "revoked", "accepted"}, live : BOOLEAN]

ASSUME MembershipAssumption ==
    /\ Owner \in Users /\ Admins \subseteq Users
    /\ IsFiniteSet(Users) /\ IsFiniteSet(Invites)
    /\ MaxCoHosts \in Nat
    /\ None \notin Users \cup Invites \cup Requests \cup Invitation

VARIABLES
    status,   \* users.status; "none" before the row exists
    role,     \* event_memberships.role of each user
    granted,  \* their granted_by_user_id
    exists,   \* the events row
    invite,   \* account_invites
    held,     \* the row lock of the event
    claimed,  \* row locks of invitations
    request,  \* requests in flight
    beyond    \* history: the co-hosts whose place no limit was checked for

vars == <<status, role, granted, exists, invite, held, claimed, request, beyond>>

Idle == [step |-> "idle", actor |-> None, user |-> None, invite |-> None,
         invited |-> FALSE, owns |-> FALSE, rows |-> {}, heir |-> None]

Owners == {u \in Users : role[u] = "owner"}
CoHosts == {u \in Users : role[u] = "cohost"}
HasRow(i) == invite[i] # None
Pending(i) == HasRow(i) /\ invite[i].state = "pending"
PendingOf(u) == {i \in Invites : Pending(i) /\ invite[i].user = u}

\* CountCohostCommitmentsTx
Commitments == Cardinality(CoHosts) + Cardinality({i \in Invites : Pending(i) /\ invite[i].live})

Start(r, state) == request[r] = Idle /\ request' = [request EXCEPT ![r] = state]
Finish(r) == request' = [request EXCEPT ![r] = Idle]
Release(r) ==
    /\ held' = IF held = r THEN None ELSE held
    /\ claimed' = [i \in Invites |-> IF claimed[i] = r THEN None ELSE claimed[i]]

\* createEvent inserts the event and its owner in one transaction.
Init ==
    /\ status = [u \in Users |-> IF u \in Admins \cup {Owner} THEN "active" ELSE "none"]
    /\ role = [u \in Users |-> IF u = Owner THEN "owner" ELSE "none"]
    /\ granted = [u \in Users |-> IF u = Owner THEN Owner ELSE None]
    /\ exists = TRUE
    /\ invite = [i \in Invites |-> None]
    /\ held = None
    /\ claimed = [i \in Invites |-> None]
    /\ request = [r \in Requests |-> Idle]
    /\ beyond = {}

-----------------------------------------------------------------------------
(* InviteEventCohost.                                                      *)

\* It locks the event and reads the owner and the target.  Bound: a row is left
\* for the invitation.
SponsorBegin(r, a, u) ==
    /\ \E i \in Invites : ~HasRow(i)
    /\ exists /\ held = None
    /\ status[a] = "active" /\ role[a] = "owner"
    /\ status[u] \in {"none", "invited", "active"}
    /\ Start(r, [Idle EXCEPT !.step = "revoke", !.actor = a, !.user = u,
                             !.invited = (status[u] = "invited")])
    /\ held' = r
    /\ UNCHANGED <<status, role, granted, exists, invite, claimed, beyond>>

\* RevokePendingInvitesTx waits for the row locks of the invitations of an
\* invited target.
SponsorRevoke(r) ==
    LET q == request[r]
        revoked == IF q.invited THEN PendingOf(q.user) ELSE {} IN
    /\ q.step = "revoke"
    /\ \A i \in revoked : claimed[i] = None
    /\ claimed' = [i \in Invites |-> IF i \in revoked THEN r ELSE claimed[i]]
    /\ request' = [request EXCEPT ![r].step = "count"]
    /\ UNCHANGED <<status, role, granted, exists, invite, held, beyond>>

\* The commitments as the transaction sees them: without what it revoked.
CommitmentsBut(r) ==
    Commitments - Cardinality({i \in Invites : claimed[i] = r /\ invite[i].live})

AfterRevocation(r) ==
    [i \in Invites |-> IF claimed[i] = r THEN [invite[i] EXCEPT !.state = "revoked"]
                                         ELSE invite[i]]

\* An active target becomes a co-host; any other gets an invitation, a new user
\* its row.
SponsorInsert(r, i) ==
    LET q == request[r] IN
    IF status[q.user] = "active" /\ ~q.invited
    THEN /\ role[q.user] = "none"
         /\ role' = [role EXCEPT ![q.user] = "cohost"]
         /\ granted' = [granted EXCEPT ![q.user] = q.actor]
         /\ UNCHANGED <<status, invite>>
    ELSE /\ status[q.user] # "deleted" /\ ~HasRow(i)
         /\ invite' = [AfterRevocation(r) EXCEPT
                          ![i] = [user |-> q.user, by |-> q.actor, state |-> "pending", live |-> TRUE]]
         /\ status' = IF status[q.user] = "none" THEN [status EXCEPT ![q.user] = "invited"]
                      ELSE status
         /\ UNCHANGED <<role, granted>>

\* Mutant: pending invitations are not counted.
SponsorCommitCohostsOnly(r, i) ==
    /\ request[r].step = "count"
    /\ Cardinality(CoHosts) < MaxCoHosts
    /\ SponsorInsert(r, i)
    /\ Release(r) /\ Finish(r)
    /\ UNCHANGED <<exists, beyond>>

\* Below the limit the membership or the invitation is inserted.
SponsorCommit(r, i) ==
    /\ request[r].step = "count"
    /\ CommitmentsBut(r) < MaxCoHosts
    /\ SponsorInsert(r, i)
    /\ Release(r) /\ Finish(r)
    /\ UNCHANGED <<exists, beyond>>

-----------------------------------------------------------------------------
(* AcceptInvite.  Its time is taken once, at the start: an invitation that *)
(* expires later is still consumed.                                        *)

AcceptFind(r, i) ==
    /\ Pending(i) /\ invite[i].live
    /\ Start(r, [Idle EXCEPT !.step = "accept", !.user = invite[i].user, !.invite = i])
    /\ UNCHANGED <<status, role, granted, exists, invite, held, claimed, beyond>>

\* ConsumeInviteTx and ActivateInvitedUserTx,
AcceptConsume(r) ==
    LET q == request[r] IN
    /\ q.step = "accept"
    /\ claimed[q.invite] = None
    /\ Pending(q.invite)
    /\ status[q.user] = "invited"
    /\ claimed' = [claimed EXCEPT ![q.invite] = r]
    /\ request' = [request EXCEPT ![r].step = "join"]
    /\ UNCHANGED <<status, role, granted, exists, invite, held, beyond>>

\* then the lock of the event and the membership, and the commit.  What
\* expired after the start was no longer a commitment to other requests.
AcceptCommit(r) ==
    LET q == request[r] IN
    /\ q.step = "join"
    /\ exists /\ held = None
    /\ status[q.user] = "invited" /\ role[q.user] = "none"
    /\ status' = [status EXCEPT ![q.user] = "active"]
    /\ role' = [role EXCEPT ![q.user] = "cohost"]
    /\ granted' = [granted EXCEPT ![q.user] = invite[q.invite].by]
    /\ invite' = [invite EXCEPT ![q.invite].state = "accepted"]
    /\ beyond' = IF invite[q.invite].live THEN beyond ELSE beyond \cup {q.user}
    /\ Release(r) /\ Finish(r)
    /\ UNCHANGED exists

\* An invitation passes its expires_at.
Expire(i) ==
    /\ Pending(i) /\ invite[i].live
    /\ invite' = [invite EXCEPT ![i].live = FALSE]
    /\ UNCHANGED <<status, role, granted, exists, held, claimed, request, beyond>>

-----------------------------------------------------------------------------
(* handleRemoveCoHost.                                                     *)

\* The row is found and the caller is the owner or the co-host themself;
RemoveFind(r, a, u) ==
    /\ status[a] = "active"
    /\ role[u] = "cohost"
    /\ role[a] = "owner" \/ a = u
    /\ Start(r, [Idle EXCEPT !.step = "remove", !.user = u])
    /\ UNCHANGED <<status, role, granted, exists, invite, held, claimed, beyond>>

\* The membership row of u is locked by a transfer or a deletion in flight.
RowLocked(u) ==
    \E o \in Requests :
        \/ request[o].step = "transfer" /\ (request[o].user = u \/ role[u] = "owner")
        \/ request[o].step = "forget" /\ u \in request[o].rows

\* Mutant: the DELETE does not name the role.
RemoveDeleteAny(r) ==
    LET u == request[r].user IN
    /\ request[r].step = "remove"
    /\ ~RowLocked(u)
    /\ role' = [role EXCEPT ![u] = "none"]
    /\ granted' = [granted EXCEPT ![u] = None]
    /\ beyond' = beyond \ {u}
    /\ Finish(r)
    /\ UNCHANGED <<status, exists, invite, held, claimed>>

\* the DELETE names the role as well as the id, and waits for whoever has
\* changed the row.
RemoveDelete(r) ==
    LET u == request[r].user
        left == IF role[u] = "cohost" THEN {u} ELSE {} IN
    /\ request[r].step = "remove"
    /\ ~RowLocked(u)
    /\ role' = [v \in Users |-> IF v \in left THEN "none" ELSE role[v]]
    /\ granted' = [v \in Users |-> IF v \in left THEN None ELSE granted[v]]
    /\ beyond' = beyond \ left
    /\ Finish(r)
    /\ UNCHANGED <<status, exists, invite, held, claimed>>

-----------------------------------------------------------------------------
(* Administrators.                                                         *)

\* AddSelf, under the lock of the event; no limit is looked at.
AddSelf(a) ==
    /\ exists /\ held = None
    /\ a \in Admins /\ status[a] = "active" /\ role[a] = "none"
    /\ role' = [role EXCEPT ![a] = "cohost"]
    /\ granted' = [granted EXCEPT ![a] = a]
    /\ beyond' = beyond \cup {a}
    /\ UNCHANGED <<status, exists, invite, held, claimed, request>>

\* TransferOwnership locks the event, reads the new owner and the old one and
\* updates their membership rows, or inserts the new one's;
TransferBegin(r, a, u) ==
    /\ exists /\ held = None
    /\ a \in Admins /\ status[a] = "active"
    /\ status[u] = "active" /\ role[u] # "owner" /\ Owners # {}
    /\ \A v \in Owners \cup {u} : ~RowLocked(v)
    /\ Start(r, [Idle EXCEPT !.step = "transfer", !.actor = a, !.user = u])
    /\ held' = r
    /\ UNCHANGED <<status, role, granted, exists, invite, claimed, beyond>>

\* all of it becomes visible with the commit.
TransferCommit(r) ==
    LET q == request[r] IN
    /\ q.step = "transfer"
    /\ role' = [v \in Users |-> IF v = q.user THEN "owner"
                                ELSE IF v \in Owners THEN "cohost" ELSE role[v]]
    /\ granted' = [v \in Users |-> IF v \in Owners \cup {q.user} THEN q.actor ELSE granted[v]]
    /\ beyond' = IF q.user \in CoHosts \ beyond THEN beyond ELSE (beyond \ {q.user}) \cup Owners
    /\ Release(r) /\ Finish(r)
    /\ UNCHANGED <<status, exists, invite>>

-----------------------------------------------------------------------------
(* DeleteOrganizerCascade.                                                 *)

\* The statement that deletes the events of the user sees who owns the event
\* as it starts,
DeleteBegin(r, u) ==
    /\ status[u] = "active"
    /\ Start(r, [Idle EXCEPT !.step = IF exists /\ role[u] = "owner" THEN "delete" ELSE "grants",
                             !.user = u])
    /\ UNCHANGED <<status, role, granted, exists, invite, held, claimed, beyond>>

\* waits for the lock of the event and deletes it, its owner of that moment
\* whoever it is;
DeleteOwned(r) ==
    /\ request[r].step = "delete"
    /\ held = None
    /\ held' = r
    /\ request' = [request EXCEPT ![r].step = "grants", ![r].owns = exists]
    /\ UNCHANGED <<status, role, granted, exists, invite, claimed, beyond>>

\* memberships of others that the user granted.
GrantedBy(u) == {v \in Users \ {u} : granted[v] = u}

\* The next statement attributes them to the owner of the event,
DeleteGrants(r) ==
    LET q == request[r]
        rows == IF q.owns THEN {} ELSE GrantedBy(q.user) IN
    /\ q.step = "grants"
    /\ \A v \in rows : ~RowLocked(v)
    /\ \E heir \in IF rows = {} THEN {None} ELSE Owners :
          request' = [request EXCEPT ![r].step = "forget", ![r].rows = rows, ![r].heir = heir]
    /\ UNCHANGED <<status, role, granted, exists, invite, held, claimed, beyond>>

\* The rows that go with the user: their invitations and, when the event was
\* theirs, those of the event.
GoneInvites(q) ==
    {i \in Invites : HasRow(i) /\ (q.owns \/ q.user \in {invite[i].user, invite[i].by})}

\* the foreign key granted_by_user_id refuses the deletion of the user,
StillNamed(q) == ~q.owns /\ (q.heir = q.user \/ GrantedBy(q.user) \ q.rows # {})

\* and the last ones delete the invitations and the user, whose membership goes
\* by ON DELETE CASCADE, and commit.
DeleteCommit(r) ==
    LET q == request[r] IN
    /\ q.step = "forget" /\ status[q.user] # "deleted"
    /\ \A o \in Requests : request[o].step = "transfer" => q.user \notin Owners \cup {request[o].user, request[o].actor}
    /\ \A i \in GoneInvites(q) : claimed[i] = None
    /\ ~StillNamed(q)
    /\ status' = [status EXCEPT ![q.user] = "deleted"]
    /\ role' = [v \in Users |-> IF q.owns \/ v = q.user THEN "none" ELSE role[v]]
    /\ granted' = [v \in Users |-> IF role'[v] = "none" THEN None
                                   ELSE IF v \in q.rows THEN q.heir ELSE granted[v]]
    /\ exists' = (exists /\ ~q.owns)
    /\ invite' = [i \in Invites |-> IF i \in GoneInvites(q) THEN None ELSE invite[i]]
    /\ beyond' = {v \in beyond : role'[v] # "none"}
    /\ Release(r) /\ Finish(r)

-----------------------------------------------------------------------------
(* Requests that end without a commit.                                     *)

\* A statement that the rest depends on finds no row, the limit is reached, or
\* a unique index or a foreign key refuses the insert.
Fails(r) ==
    LET q == request[r] IN
    CASE q.step = "count" ->
            \/ CommitmentsBut(r) >= MaxCoHosts
            \/ status[q.user] = "deleted" \/ status[q.actor] = "deleted"
            \/ status[q.user] = "active" /\ ~q.invited /\ role[q.user] # "none"
      [] q.step = "accept" -> claimed[q.invite] = None
                              /\ (~Pending(q.invite) \/ status[q.user] # "invited")
      [] q.step = "join" -> held = None /\ (~exists \/ role[q.user] # "none")
      [] q.step = "grants" -> ~q.owns /\ GrantedBy(q.user) # {} /\ Owners = {}
      [] q.step = "forget" -> status[q.user] = "deleted" \/ StillNamed(q)
      [] OTHER -> FALSE

\* Mutant: deadlocks are not resolved.
DeadlockedNever(r) == FALSE

\* Sponsoring locks the event and then the invitations of the target,
\* accepting locks the invitation and then the event; deleting the owner locks
\* the event and then the invitations.
Deadlocked(r) ==
    \E o \in Requests \ {r} :
        \E s \in {<<r, o>>, <<o, r>>} :
            /\ request[s[1]].step = "join" /\ held = s[2]
            /\ claimed[request[s[1]].invite] = s[1]
            /\ \/ request[s[2]].step = "revoke" /\ request[s[2]].invited
                  /\ request[s[2]].user = request[s[1]].user
               \/ request[s[2]].step = "forget" /\ request[s[2]].owns

Rollback(r) ==
    /\ Fails(r) \/ Deadlocked(r)
    /\ Release(r) /\ Finish(r)
    /\ UNCHANGED <<status, role, granted, exists, invite, beyond>>

-----------------------------------------------------------------------------
Begin(r) ==
    \/ \E a, u \in Users : SponsorBegin(r, a, u) \/ RemoveFind(r, a, u) \/ TransferBegin(r, a, u)
    \/ \E i \in Invites : AcceptFind(r, i)
    \/ \E u \in Users : DeleteBegin(r, u)

Continue(r) ==
    \/ SponsorRevoke(r)
    \/ \E i \in Invites : SponsorCommit(r, i)
    \/ AcceptConsume(r)
    \/ AcceptCommit(r)
    \/ RemoveDelete(r)
    \/ TransferCommit(r)
    \/ DeleteOwned(r)
    \/ DeleteGrants(r)
    \/ DeleteCommit(r)
    \/ Rollback(r)

Next ==
    \/ \E r \in Requests : Begin(r) \/ Continue(r)
    \/ \E a \in Users : AddSelf(a)
    \/ \E i \in Invites : Expire(i)

Spec == Init /\ [][Next]_vars

-----------------------------------------------------------------------------
(* Properties.                                                             *)

\* MAX_COHOSTS_PER_EVENT bounds co-hosts and live invitations together, however
\* sponsoring, accepting and expiring interleave; what exceeds it came by a
\* way that checks no limit: an administrator, a transfer, or an invitation
\* that expired while its acceptance waited for the event.
CommitmentsBounded == Commitments <= MaxCoHosts + Cardinality(beyond)

\* The event keeps its owner through removals, transfers and acceptances: only
\* the deletion of an account takes the owner of an event that remains.
OwnerKept ==
    [][exists' /\ Owners # {} => \/ Cardinality(Owners') = 1
                                 \/ \E u \in Users : status'[u] = "deleted" /\ status[u] # "deleted"]_vars

\* Requests never all wait for each other: the opposite lock orders of
\* sponsoring and accepting are resolved.
NeverStuck ==
    (\E r \in Requests : request[r] # Idle) => \E r \in Requests : ENABLED Continue(r)
=============================================================================
