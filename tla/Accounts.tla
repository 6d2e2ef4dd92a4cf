------------------------------ MODULE Accounts ------------------------------
(***************************************************************************)
(* Organizer accounts: bootstrap, sign-up and magic-link login             *)
(* (internal/auth, internal/instanceconfig), account invitations, status   *)
(* and role changes (internal/useradmin), emergency promotion              *)
(* (internal/admincli) and account deletion (DeleteOrganizerCascade).      *)
(*                                                                         *)
(* Transactions run on PostgreSQL at READ COMMITTED: each statement sees   *)
(* what was committed before it, an UPDATE waits for the row lock and      *)
(* keeps it until the commit.  A transaction is split where another one    *)
(* can commit between two of its statements; what it wrote becomes visible *)
(* with its last step.  SQLite, with its single connection, runs every     *)
(* transaction as one step, which is one of the interleavings here.        *)
(*                                                                         *)
(* A user is signed in while at least one sessions row is theirs; the end  *)
(* of a session that is not the last one is no step.                       *)
(*                                                                         *)
(* Left out: names, the audit log, e-mail delivery, the event that a       *)
(* sponsored invitation belongs to.  Every request was authenticated       *)
(* before; the steps below read the actor again where the code does.       *)
(***************************************************************************)
EXTENDS Naturals, FiniteSets

CONSTANTS Users,      \* users rows that can come to exist
          Links,      \* magic_links rows
          Invites,    \* account_invites rows
          Requests,   \* requests in flight
          Instance,   \* the singleton instances row
          None        \* no row, no lock holder

LinkRow == [user : Users, used : BOOLEAN]
InviteStates == {"pending", "accepted", "revoked", "expired"}
InviteRow == [user : Users, by : Users, state : InviteStates]
Changes == {"disable", "enable", "promote", "demote"}

Lockable == Users \cup Links \cup Invites \cup {Instance}

ASSUME AccountsAssumption ==
    /\ IsFiniteSet(Users)
    /\ None \notin Users \cup Links \cup Invites \cup Requests \cup {Instance}
    /\ None \notin LinkRow \cup InviteRow
    /\ Instance \notin Users \cup Links \cup Invites
    /\ Users \cap (Links \cup Invites) = {}
    /\ Links \cap Invites = {}

VARIABLES
    setup,        \* instances.setup_completed_at is set
    status,       \* users.status; "none" before the row exists
    admin,        \* users with instance_role 'admin'
    activated,    \* users whose activated_at is set
    signedIn,     \* users with at least one row in sessions
    link,         \* magic_links
    invite,       \* account_invites
    lock,         \* row locks
    request,      \* requests in flight
    adminDeleted  \* history: an active administrator deleted their account

users == <<status, admin, activated>>
vars == <<setup, users, signedIn, link, invite, lock, request, adminDeleted>>

Idle == [step |-> "idle", user |-> None, actor |-> None, link |-> None,
         invite |-> None, change |-> None, fresh |-> FALSE]

Exists(u) == status[u] \notin {"none", "deleted"}
Active(u) == status[u] = "active"
ActiveAdmins == {u \in admin : Active(u)}
HasRow(i) == invite[i] # None
Pending(i) == HasRow(i) /\ invite[i].state = "pending"
PendingOf(u) == {i \in Invites : Pending(i) /\ invite[i].user = u}
Free(x) == lock[x] = None

Start(r, state) == request[r] = Idle /\ request' = [request EXCEPT ![r] = state]
Finish(r) == request' = [request EXCEPT ![r] = Idle]

\* The end of a transaction releases its row locks.
Release(r) == lock' = [x \in Lockable |-> IF lock[x] = r THEN None ELSE lock[x]]

Init ==
    /\ setup = FALSE
    /\ status = [u \in Users |-> "none"]
    /\ admin = {}
    /\ activated = {}
    /\ signedIn = {}
    /\ link = [l \in Links |-> None]
    /\ invite = [i \in Invites |-> None]
    /\ lock = [x \in Lockable |-> None]
    /\ request = [r \in Requests |-> Idle]
    /\ adminDeleted = FALSE

-----------------------------------------------------------------------------
(* Administrators from outside: first-run setup and the command line.      *)

\* Bootstrap: claims the instance row, then creates or promotes the user and
\* opens a session.
Bootstrap(u) ==
    /\ ~setup /\ ActiveAdmins = {}
    /\ Free(Instance) /\ Free(u)
    /\ status[u] # "deleted"
    /\ setup' = TRUE
    /\ status' = [status EXCEPT ![u] = "active"]
    /\ admin' = admin \cup {u}
    /\ activated' = activated \cup {u}
    /\ signedIn' = signedIn \cup {u}
    /\ UNCHANGED <<link, invite, lock, request, adminDeleted>>

\* PromoteAdmin: any existing user, whatever its status.
PromoteAdmin(u) ==
    /\ Free(Instance) /\ Free(u)
    /\ Exists(u)
    /\ status' = [status EXCEPT ![u] = "active"]
    /\ admin' = admin \cup {u}
    /\ activated' = activated \cup {u}
    /\ UNCHANGED <<setup, signedIn, link, invite, lock, request, adminDeleted>>

-----------------------------------------------------------------------------
(* Magic links.                                                            *)

\* Bound: a row is left for every request that is to insert one.
RowLeft(rows, steps) ==
    Cardinality(rows) > Cardinality({q \in Requests : request[q].step \in steps})

\* Identifiers are new: a row is never taken for one that a request remembers.
Unheld(x) == \A q \in Requests : x \notin {request[q].link, request[q].invite}

\* RequestMagicLink finds an active user, or creates one where sign-ups are
\* allowed.
RequestMagicLink(r, u) ==
    /\ RowLeft({l \in Links : link[l] = None}, {"link"})
    /\ status[u] \in {"none", "active"}
    /\ Start(r, [Idle EXCEPT !.step = "link", !.user = u])
    /\ status' = [status EXCEPT ![u] = "active"]
    /\ activated' = activated \cup {u}
    /\ UNCHANGED <<setup, admin, signedIn, link, invite, lock, adminDeleted>>

\* CreateMagicLink does not look at the user again, except for its foreign key.
CreateMagicLink(r, l) ==
    /\ request[r].step = "link"
    /\ link[l] = None /\ Unheld(l)
    /\ Exists(request[r].user)
    /\ link' = [link EXCEPT ![l] = [user |-> request[r].user, used |-> FALSE]]
    /\ Finish(r)
    /\ UNCHANGED <<setup, users, signedIn, invite, lock, adminDeleted>>

\* VerifyMagicLink, the read before its transaction.
VerifyFind(r, l) ==
    /\ link[l] # None /\ ~link[l].used
    /\ Start(r, [Idle EXCEPT !.step = "login", !.user = link[l].user, !.link = l])
    /\ UNCHANGED <<setup, users, signedIn, link, invite, lock, adminDeleted>>

\* The transaction: an active user, the conditional UPDATE of the link and the
\* INSERT of the session, both still invisible.
VerifyConsume(r) ==
    LET l == request[r].link IN
    /\ request[r].step = "login"
    /\ Active(request[r].user)
    /\ Free(l)
    /\ link[l] # None /\ ~link[l].used
    /\ lock' = [lock EXCEPT ![l] = r]
    /\ request' = [request EXCEPT ![r].step = "touch"]
    /\ UNCHANGED <<setup, users, signedIn, link, invite, adminDeleted>>

\* Mutant: TouchLastLogin does not test the status.
VerifyCommitAnyStatus(r) ==
    LET q == request[r] IN
    /\ q.step = "touch"
    /\ Free(q.user)
    /\ Exists(q.user)
    /\ signedIn' = signedIn \cup {q.user}
    /\ link' = [link EXCEPT ![q.link].used = TRUE]
    /\ Release(r) /\ Finish(r)
    /\ UNCHANGED <<setup, users, invite, adminDeleted>>

\* TouchLastLogin, an UPDATE of the user if still active, and the commit.
VerifyCommit(r) ==
    LET q == request[r] IN
    /\ q.step = "touch"
    /\ Free(q.user)
    /\ Active(q.user)
    /\ signedIn' = signedIn \cup {q.user}
    /\ link' = [link EXCEPT ![q.link].used = TRUE]
    /\ Release(r) /\ Finish(r)
    /\ UNCHANGED <<setup, users, invite, adminDeleted>>

\* The last session of the user ends: Logout, or the clean-up of an expired
\* one in ValidateSession.
DeleteSession(u) ==
    /\ u \in signedIn
    /\ signedIn' = signedIn \ {u}
    /\ UNCHANGED <<setup, users, link, invite, lock, request, adminDeleted>>

\* A link passes its expiry; DeleteExpiredMagicLinks may remove it.
ExpireLink(l) ==
    /\ link[l] # None /\ Free(l)
    /\ link' = [link EXCEPT ![l] = None]
    /\ UNCHANGED <<setup, users, signedIn, invite, lock, request, adminDeleted>>

-----------------------------------------------------------------------------
(* Account invitations.                                                    *)

\* InviteUser reads the actor and the target; a new target is created invited.
InviteRead(r, a, u) ==
    /\ a \in ActiveAdmins
    /\ RowLeft({i \in Invites : ~HasRow(i)}, {"invite", "insert"})
    /\ status[u] \in {"none", "invited"}
    /\ Start(r, [Idle EXCEPT !.step = "invite", !.user = u, !.actor = a,
                             !.fresh = (status[u] = "none")])
    /\ UNCHANGED <<setup, users, signedIn, link, invite, lock, adminDeleted>>

Revoked(S) == [i \in Invites |-> IF i \in S THEN [invite[i] EXCEPT !.state = "revoked"]
                                            ELSE invite[i]]

\* RevokePendingInvitesTx marks, and locks, the invitations it can see.
InviteRevoke(r) ==
    LET u == request[r].user IN
    /\ request[r].step = "invite"
    /\ \A j \in PendingOf(u) : Free(j)
    /\ lock' = [x \in Lockable |-> IF x \in PendingOf(u) THEN r ELSE lock[x]]
    /\ request' = [request EXCEPT ![r].step = "insert"]
    /\ UNCHANGED <<setup, users, signedIn, link, invite, adminDeleted>>

\* The new invitation is inserted and all is committed; the row of a new user
\* fails if its e-mail has been taken.
InviteCommit(r, i) ==
    LET q == request[r] IN
    /\ q.step = "insert"
    /\ ~HasRow(i) /\ Unheld(i)
    /\ IF q.fresh THEN status[q.user] = "none" ELSE Exists(q.user)
    /\ Exists(q.actor)
    /\ status' = IF q.fresh THEN [status EXCEPT ![q.user] = "invited"] ELSE status
    /\ invite' = [Revoked({j \in Invites : lock[j] = r}) EXCEPT
                     ![i] = [user |-> q.user, by |-> q.actor, state |-> "pending"]]
    /\ Release(r) /\ Finish(r)
    /\ UNCHANGED <<setup, admin, activated, signedIn, link, adminDeleted>>

\* AcceptInvite: the invitation is looked up,
AcceptFind(r, i) ==
    /\ Pending(i)
    /\ Start(r, [Idle EXCEPT !.step = "accept", !.user = invite[i].user, !.invite = i])
    /\ UNCHANGED <<setup, users, signedIn, link, invite, lock, adminDeleted>>

\* consumed by a conditional UPDATE,
AcceptConsume(r) ==
    LET i == request[r].invite IN
    /\ request[r].step = "accept"
    /\ Free(i)
    /\ Pending(i)
    /\ lock' = [lock EXCEPT ![i] = r]
    /\ request' = [request EXCEPT ![r].step = "activate"]
    /\ UNCHANGED <<setup, users, signedIn, link, invite, adminDeleted>>

\* Mutant: any user that is not active yet is activated.
AcceptCommitAnyStatus(r) ==
    LET q == request[r] IN
    /\ q.step = "activate"
    /\ Free(q.user)
    /\ Exists(q.user)
    /\ status' = [status EXCEPT ![q.user] = "active"]
    /\ activated' = activated \cup {q.user}
    /\ invite' = [invite EXCEPT ![q.invite].state = "accepted"]
    /\ signedIn' = signedIn \cup {q.user}
    /\ Release(r) /\ Finish(r)
    /\ UNCHANGED <<setup, admin, link, adminDeleted>>

\* the user, if still invited, activated, and the session opened.
AcceptCommit(r) ==
    LET q == request[r] IN
    /\ q.step = "activate"
    /\ Free(q.user)
    /\ status[q.user] = "invited"
    /\ status' = [status EXCEPT ![q.user] = "active"]
    /\ activated' = activated \cup {q.user}
    /\ invite' = [invite EXCEPT ![q.invite].state = "accepted"]
    /\ signedIn' = signedIn \cup {q.user}
    /\ Release(r) /\ Finish(r)
    /\ UNCHANGED <<setup, admin, link, adminDeleted>>

\* RevokeInvite, by an active administrator.
RevokeInvite(i) ==
    /\ ActiveAdmins # {}
    /\ Pending(i) /\ Free(i)
    /\ invite' = Revoked({i})
    /\ UNCHANGED <<setup, users, signedIn, link, lock, request, adminDeleted>>

ExpireInvite(i) ==
    /\ Pending(i) /\ Free(i)
    /\ invite' = [invite EXCEPT ![i].state = "expired"]
    /\ UNCHANGED <<setup, users, signedIn, link, lock, request, adminDeleted>>

-----------------------------------------------------------------------------
(* Status and role changes.                                                *)

\* ErrInvalidTransition and ErrLastAdmin.
Refused(c, u) ==
    \/ c = "enable" /\ status[u] = "invited"
    \/ c \in {"disable", "demote"} /\ u \in ActiveAdmins
       /\ Cardinality(ActiveAdmins) <= 1

NoChange(c, u) ==
    CASE c = "disable" -> status[u] = "disabled"
      [] c = "enable"  -> status[u] = "active"
      [] c = "promote" -> u \in admin
      [] c = "demote"  -> u \notin admin

\* Mutant: the instance row is not locked.
ChangeBeginUnlocked(r, a, u, c) ==
    /\ a \in ActiveAdmins
    /\ Exists(u)
    /\ ~NoChange(c, u) /\ ~Refused(c, u)
    /\ Start(r, [Idle EXCEPT !.step = "change", !.user = u, !.actor = a, !.change = c])
    /\ UNCHANGED <<setup, users, signedIn, link, invite, lock, adminDeleted>>

\* changeUser takes the instance row, reads actor, target and the number of
\* active administrators and decides.
ChangeBegin(r, a, u, c) ==
    /\ Free(Instance)
    /\ a \in ActiveAdmins
    /\ Exists(u)
    /\ ~NoChange(c, u) /\ ~Refused(c, u)
    /\ Start(r, [Idle EXCEPT !.step = "change", !.user = u, !.actor = a, !.change = c])
    /\ lock' = [lock EXCEPT ![Instance] = r]
    /\ UNCHANGED <<setup, users, signedIn, link, invite, adminDeleted>>

\* UpdateRoleTx, or UpdateStatusTx to 'active'.
ChangeCommit(r) ==
    LET q == request[r] IN
    /\ q.step = "change" /\ q.change # "disable"
    /\ Free(q.user) /\ Exists(q.user)
    /\ status' = IF q.change = "enable" THEN [status EXCEPT ![q.user] = "active"] ELSE status
    /\ admin' = CASE q.change = "promote" -> admin \cup {q.user}
                  [] q.change = "demote"  -> admin \ {q.user}
                  [] OTHER -> admin
    /\ Release(r) /\ Finish(r)
    /\ UNCHANGED <<setup, activated, signedIn, link, invite, adminDeleted>>

\* UpdateStatusTx to 'disabled': the UPDATE of the user,
DisableUpdate(r) ==
    LET q == request[r] IN
    /\ q.step = "change" /\ q.change = "disable"
    /\ Free(q.user) /\ Exists(q.user)
    /\ lock' = [lock EXCEPT ![q.user] = r]
    /\ request' = [request EXCEPT ![r].step = "revoke"]
    /\ UNCHANGED <<setup, users, signedIn, link, invite, adminDeleted>>

\* its sessions deleted, its pending invitations revoked (each row lock
\* awaited), the commit.
DisableCommit(r) ==
    LET q == request[r] IN
    /\ q.step = "revoke"
    /\ \A i \in PendingOf(q.user) : Free(i)
    /\ status' = [status EXCEPT ![q.user] = "disabled"]
    /\ signedIn' = signedIn \ {q.user}
    /\ invite' = Revoked(PendingOf(q.user))
    /\ Release(r) /\ Finish(r)
    /\ UNCHANGED <<setup, admin, activated, link, adminDeleted>>

-----------------------------------------------------------------------------
(* Account deletion.                                                       *)

\* ValidateSession accepts a session of an active user; the deletion itself
\* does not look at the status again.
DeleteBegin(r, u) ==
    /\ u \in signedIn /\ Active(u)
    /\ Start(r, [Idle EXCEPT !.step = "delete", !.user = u])
    /\ UNCHANGED <<setup, users, signedIn, link, invite, lock, adminDeleted>>

\* DeleteOrganizerCascade: neither the instance row nor the number of
\* administrators is looked at.  A row that another transaction adds for the
\* user in the meantime fails the deletion, so that it is one step.
DeleteCommit(r) ==
    LET u == request[r].user
        issued == {i \in Invites : HasRow(i) /\ u \in {invite[i].user, invite[i].by}}
        owned == {l \in Links : link[l] # None /\ link[l].user = u} IN
    /\ request[r].step = "delete"
    /\ Free(u) /\ Exists(u)
    /\ \A x \in issued \cup owned : Free(x)
    /\ status' = [status EXCEPT ![u] = "deleted"]
    /\ admin' = admin \ {u}
    /\ activated' = activated \ {u}
    /\ signedIn' = signedIn \ {u}
    /\ link' = [l \in Links |-> IF l \in owned THEN None ELSE link[l]]
    /\ invite' = [i \in Invites |-> IF i \in issued THEN None ELSE invite[i]]
    /\ adminDeleted' = (adminDeleted \/ u \in ActiveAdmins)
    /\ Finish(r)
    /\ UNCHANGED <<setup, lock>>

-----------------------------------------------------------------------------
(* Requests that end without a commit.                                     *)

\* A conditional UPDATE or a read that the next statement depends on fails.
Fails(r) ==
    LET q == request[r] IN
    CASE q.step = "link" -> ~Exists(q.user)
      [] q.step = "login" -> \/ ~Active(q.user)
                             \/ Free(q.link) /\ (link[q.link] # None => link[q.link].used)
      [] q.step = "touch" -> Free(q.user) /\ ~Active(q.user)
      [] q.step = "insert" -> \/ ~Exists(q.actor)
                              \/ q.fresh /\ status[q.user] # "none"
                              \/ ~q.fresh /\ ~Exists(q.user)
      [] q.step = "accept" -> Free(q.invite) /\ ~Pending(q.invite)
      [] q.step = "activate" -> Free(q.user) /\ status[q.user] # "invited"
      [] q.step = "change" -> ~Exists(q.user)
      [] q.step = "delete" -> ~Exists(q.user)
      [] OTHER -> FALSE

\* Mutant: deadlocks are not resolved.
DeadlockedNever(r) == FALSE

\* AcceptInvite locks the invitation and then the user, disabling a user locks
\* them the other way round: the database aborts one of the two.
Deadlocked(r) ==
    \E o \in Requests :
        \/ /\ request[r].step = "activate" /\ lock[request[r].user] = o
           /\ request[o].step = "revoke"
           /\ \E i \in PendingOf(request[o].user) : lock[i] = r
        \/ /\ request[r].step = "revoke"
           /\ request[o].step = "activate" /\ lock[request[o].user] = r
           /\ \E i \in PendingOf(request[r].user) : lock[i] = o

\* The transaction rolls back.
Rollback(r) ==
    /\ Fails(r) \/ Deadlocked(r)
    /\ Release(r) /\ Finish(r)
    /\ UNCHANGED <<setup, users, signedIn, link, invite, adminDeleted>>

-----------------------------------------------------------------------------
Continue(r) ==
    \/ \E l \in Links : CreateMagicLink(r, l)
    \/ VerifyConsume(r)
    \/ VerifyCommit(r)
    \/ \E i \in Invites : InviteCommit(r, i)
    \/ InviteRevoke(r)
    \/ AcceptConsume(r)
    \/ AcceptCommit(r)
    \/ ChangeCommit(r)
    \/ DisableUpdate(r)
    \/ DisableCommit(r)
    \/ DeleteCommit(r)
    \/ Rollback(r)

Begin(r) ==
    \/ \E u \in Users : RequestMagicLink(r, u)
    \/ \E l \in Links : VerifyFind(r, l)
    \/ \E a, u \in Users : InviteRead(r, a, u)
    \/ \E i \in Invites : AcceptFind(r, i)
    \/ \E a, u \in Users, c \in Changes : ChangeBegin(r, a, u, c)
    \/ \E u \in Users : DeleteBegin(r, u)

Next ==
    \/ \E u \in Users : Bootstrap(u) \/ PromoteAdmin(u) \/ DeleteSession(u)
    \/ \E l \in Links : ExpireLink(l)
    \/ \E i \in Invites : RevokeInvite(i) \/ ExpireInvite(i)
    \/ \E r \in Requests : Begin(r) \/ Continue(r)

Spec == Init /\ [][Next]_vars

-----------------------------------------------------------------------------
(* Properties.                                                             *)

\* "User disablement revokes active sessions" (docs/gate-1-foundation.md:86),
\* also when a login or an acceptance runs at the same time: no sessions row
\* ever belongs to a user that is not active.
SessionsOfActiveUsers == \A u \in signedIn : Active(u)

\* ActivateInvitedUserTx: "an account-invitation capability cannot be reused
\* after another concurrent acceptance wins", even when two invitations of one
\* user are live: a user has accepted at most one.
AcceptedOnce ==
    \A i, j \in Invites :
        /\ HasRow(i) /\ HasRow(j) /\ invite[i].user = invite[j].user
        /\ invite[i].state = "accepted" /\ invite[j].state = "accepted"
        => i = j

AdminKept == ActiveAdmins # {} /\ ~adminDeleted' => ActiveAdmins' # {}

\* LockAdminMutationTx: concurrent status and role changes never leave the
\* instance without an active administrator, as long as no administrator has
\* deleted their own account.
AdminRemains == [][AdminKept]_vars

\* The row locks of login, acceptance, invitation, status change and deletion
\* never leave the requests in flight all waiting for each other.
NeverStuck ==
    (\E r \in Requests : request[r].step # "idle") => \E r \in Requests : ENABLED Continue(r)

\* "two concurrent requests cannot remove the last active administrator"
\* (docs/gate-1-foundation.md:86): a status or role change never takes the
\* last one, whatever ran beside it.
ChangeLeavesAdmin ==
    [][ActiveAdmins # {} /\ (\A u \in Users : status'[u] = "deleted" => status[u] = "deleted")
           => ActiveAdmins' # {}]_vars

\* "Invited users must consume their account invitation"
\* (internal/auth/service.go:81): an active user was activated.
ActiveWasActivated == \A u \in Users : Active(u) => u \in activated
=============================================================================
