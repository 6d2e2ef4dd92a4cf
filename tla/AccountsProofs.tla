--------------------------- MODULE AccountsProofs ---------------------------
(***************************************************************************)
(* The safety properties of Accounts, for any number of users, links,      *)
(* invitations and concurrent requests: only active users have sessions,   *)
(* a user accepts once, and status and role changes leave an active        *)
(* administrator.                                                          *)
(***************************************************************************)
EXTENDS Accounts, FiniteSetTheorems, TLAPS

----------------------------------------------------------------------------
(* The inductive invariant, what each of its parts depends on, and the steps
   that no request takes or that write nothing but locks *)

Steps == {"idle", "link", "login", "touch", "invite", "insert", "accept", "activate",
          "change", "revoke", "delete"}
RequestRow == [step : Steps, user : Users \cup {None}, actor : Users \cup {None},
               link : Links \cup {None}, invite : Invites \cup {None},
               change : Changes \cup {None}, fresh : BOOLEAN]

\* What the tables, the locks and the requests hold.
AccountsType ==
    /\ status \in [Users -> {"none", "invited", "active", "disabled", "deleted"}]
    /\ admin \subseteq Users
    /\ signedIn \subseteq Users
    /\ link \in [Links -> LinkRow \cup {None}]
    /\ invite \in [Invites -> InviteRow \cup {None}]
    /\ lock \in [Lockable -> Requests \cup {None}]
    /\ request \in [Requests -> RequestRow]
    /\ adminDeleted \in BOOLEAN

\* What a request has in hand at its step.
InHand(q) ==
    /\ q.step # "idle" => q.user \in Users
    /\ q.step \in {"invite", "insert"} => q.actor \in Users
    /\ q.step \in {"login", "touch"} => q.link \in Links
    /\ q.step \in {"accept", "activate"} => q.invite \in Invites
    /\ q.step \in {"change", "revoke"} => q.change \in Changes
    /\ q.step = "revoke" => q.change = "disable"

RequestsInHand == \A r \in Requests : InHand(request[r])

\* A status or role change holds the instance row, a login the link that it
\* consumed; an acceptance is of an invitation of its user, and one that
\* consumed it holds it, still pending.
LocksHeldBy(r) ==
    LET q == request[r] IN
    /\ q.step \in {"change", "revoke"} => lock[Instance] = r
    /\ q.step = "touch" => lock[q.link] = r /\ link[q.link] # None
    /\ q.step \in {"accept", "activate"} /\ HasRow(q.invite) => invite[q.invite].user = q.user
    /\ q.step = "activate" => lock[q.invite] = r /\ Pending(q.invite)

LocksHeld == \A r \in Requests : LocksHeldBy(r)

\* A locked invitation is pending until the lock is released.
LockedPending == \A i \in Invites : ~Free(i) => Pending(i)

\* A change that takes an administrator away has seen another one.
AnotherAdminFor(r) ==
    LET q == request[r] IN
    q.step \in {"change", "revoke"} /\ q.change \in {"disable", "demote"} =>
        adminDeleted \/ \E v \in ActiveAdmins : v # q.user

AnotherAdmin == \A r \in Requests : AnotherAdminFor(r)

\* A user that accepted is not invited any more, and never will be again.
AcceptedSettled ==
    \A i \in Invites : HasRow(i) /\ invite[i].state = "accepted" =>
        status[invite[i].user] \notin {"none", "invited"}

AccountsInv ==
    /\ AccountsType
    /\ RequestsInHand
    /\ LocksHeld
    /\ LockedPending
    /\ AnotherAdmin
    /\ AcceptedSettled
    /\ AcceptedOnce
    /\ SessionsOfActiveUsers

-----------------------------------------------------------------------------
(* Steps of a request.                                                     *)

\* A request that has not begun, or is over, holds nothing.
LEMMA IdleRow == Idle \in RequestRow /\ InHand(Idle) /\ Idle.step = "idle"
BY DEF Idle, RequestRow, InHand, Steps

\* A request starts or ends.
LEMMA Replaced ==
    ASSUME AccountsType, RequestsInHand, NEW r \in Requests,
           NEW q \in RequestRow, InHand(q), request' = [request EXCEPT ![r] = q]
    PROVE  /\ request' \in [Requests -> RequestRow]
           /\ RequestsInHand'
           /\ request'[r] = q
           /\ \A o \in Requests \ {r} : request'[o] = request[o]
BY DEF AccountsType, RequestsInHand

\* A request takes its next step with what it has in hand.
LEMMA Advanced ==
    ASSUME AccountsType, NEW r \in Requests, NEW step \in Steps,
           request' = [request EXCEPT ![r].step = step]
    PROVE  /\ request' \in [Requests -> RequestRow]
           /\ request'[r].step = step
           /\ request'[r].user = request[r].user
           /\ request'[r].actor = request[r].actor
           /\ request'[r].link = request[r].link
           /\ request'[r].invite = request[r].invite
           /\ request'[r].change = request[r].change
           /\ \A o \in Requests \ {r} : request'[o] = request[o]
<1>1. request[r] \in RequestRow
  BY DEF AccountsType
<1>2. [request[r] EXCEPT !.step = step] \in RequestRow
  BY <1>1 DEF RequestRow
<1>3. request' = [request EXCEPT ![r] = [request[r] EXCEPT !.step = step]]
  OBVIOUS
<1>4. request'[r] = [request[r] EXCEPT !.step = step]
  BY <1>3 DEF AccountsType
<1> QED
  BY <1>1, <1>2, <1>3, <1>4 DEF AccountsType, RequestRow

\* The end of a transaction releases its locks and no others.
LEMMA Released ==
    ASSUME AccountsType, NEW r \in Requests, Release(r)
    PROVE  /\ lock' \in [Lockable -> Requests \cup {None}]
           /\ \A x \in Lockable, o \in Requests \ {r} : lock[x] = o => lock'[x] = o
BY DEF AccountsType, Release

\* The instance row is locked like any other.
LEMMA InstanceLockable ==
    /\ Instance \in Lockable
    /\ \A x \in Users \cup Links \cup Invites : x \in Lockable /\ x # Instance
    /\ \A r \in Requests : r # None
    /\ None \notin InviteRow /\ None \notin LinkRow
BY AccountsAssumption DEF Lockable

-----------------------------------------------------------------------------
(* What the parts of the invariant depend on.                              *)

\* The locks: the requests of M, which move, have what their new steps need; the
\* others keep theirs and their invitations.
LEMMA LocksFrame ==
    ASSUME AccountsInv, NEW M \in SUBSET Requests,
           \A o \in Requests \ M : request'[o] = request[o],
           \A o \in M : LocksHeldBy(o)',
           \A x \in Lockable, o \in Requests \ M : lock[x] = o => lock'[x] = o,
           \A i \in Invites : HasRow(i)' =>
               IF HasRow(i) THEN invite'[i].user = invite[i].user ELSE Unheld(i),
           \A i \in Invites, o \in Requests \ M :
               lock[i] = o /\ Pending(i) => Pending(i)',
           \A l \in Links, o \in Requests \ M :
               lock[l] = o /\ link[l] # None => link'[l] # None
    PROVE  LocksHeld'
<1> DEFINE Holds(q, o) ==
        /\ q.step \in {"change", "revoke"} => lock'[Instance] = o
        /\ q.step = "touch" => lock'[q.link] = o /\ link'[q.link] # None
        /\ q.step \in {"accept", "activate"} /\ invite'[q.invite] # None =>
              invite'[q.invite].user = q.user
        /\ q.step = "activate" =>
              /\ lock'[q.invite] = o
              /\ invite'[q.invite] # None /\ invite'[q.invite].state = "pending"
<1>1. \A o \in M : Holds(request'[o], o)
  BY DEF LocksHeldBy, HasRow, Pending
<1>2. ASSUME NEW o \in Requests \ M PROVE Holds(request[o], o)
  <2>1. InHand(request[o])
    BY DEF AccountsInv, RequestsInHand
  <2>2. request[o].step \in {"change", "revoke"} => lock'[Instance] = o
    BY InstanceLockable DEF AccountsInv, LocksHeld, LocksHeldBy
  <2>3. ASSUME request[o].step \in {"accept", "activate"}, invite'[request[o].invite] # None
        PROVE  invite'[request[o].invite].user = request[o].user
    <3>1. request[o].invite \in Invites
      BY <2>1, <2>3, Zenon DEF InHand
    <3>2. HasRow(request[o].invite)
      BY <2>3, <3>1 DEF HasRow, Unheld
    <3> QED
      BY <2>3, <3>1, <3>2 DEF AccountsInv, LocksHeld, LocksHeldBy, HasRow
  <2>4. ASSUME request[o].step = "activate"
        PROVE  /\ lock'[request[o].invite] = o
               /\ invite'[request[o].invite] # None
               /\ invite'[request[o].invite].state = "pending"
    <3>1. request[o].invite \in Invites /\ request[o].invite \in Lockable
      BY <2>1, <2>4, InstanceLockable DEF InHand
    <3>2. lock[request[o].invite] = o /\ Pending(request[o].invite)
      BY <2>4, Zenon DEF AccountsInv, LocksHeld, LocksHeldBy
    <3> QED
      BY <3>1, <3>2 DEF Pending, HasRow
  <2>5. request[o].step = "touch" => lock'[request[o].link] = o /\ link'[request[o].link] # None
    BY <2>1, InstanceLockable, SMTT(30) DEF InHand, AccountsInv, LocksHeld, LocksHeldBy
  <2> QED
    BY <2>2, <2>3, <2>4, <2>5, Zenon
<1>3. \A o \in Requests : Holds(request'[o], o)
  BY <1>1, <1>2
<1> QED
  BY <1>3, Zenon DEF LocksHeld, LocksHeldBy, HasRow, Pending

\* The administrators: none is lost.
LEMMA AdminFrame ==
    ASSUME AccountsInv, NEW M \in SUBSET Requests,
           \A o \in Requests \ M : request'[o] = request[o],
           \A o \in M : AnotherAdminFor(o)',
           ActiveAdmins \subseteq ActiveAdmins', adminDeleted => adminDeleted'
    PROVE  AnotherAdmin'
BY DEF AccountsInv, AnotherAdmin, AnotherAdminFor

\* The acceptances: none is added, and nobody becomes invited who had left that
\* status behind.
LEMMA AcceptedFrame ==
    ASSUME AccountsInv, AccountsType',
           \A i \in Invites : HasRow(i)' /\ invite'[i].state = "accepted" =>
               HasRow(i) /\ invite[i].state = "accepted" /\ invite'[i].user = invite[i].user,
           \A u \in Users : status[u] \notin {"none", "invited"} =>
               status'[u] \notin {"none", "invited"}
    PROVE  AcceptedSettled' /\ AcceptedOnce'
<1>1. AcceptedOnce'
  BY DEF AccountsInv, AcceptedOnce, HasRow
<1>2. \A i \in Invites : HasRow(i) => invite[i].user \in Users
  BY DEF AccountsInv, AccountsType, HasRow, InviteRow
<1>3. AcceptedSettled'
  BY <1>2 DEF AccountsInv, AcceptedSettled, HasRow
<1> QED
  BY <1>1, <1>3

\* Nobody loses the status active or the role of an administrator.
LEMMA AdminsGrow ==
    ASSUME admin \subseteq admin', \A u \in admin : Active(u) => status'[u] = "active"
    PROVE  ActiveAdmins \subseteq ActiveAdmins'
BY DEF ActiveAdmins, Active

\* Invitations that all keep their rows, and lose a pending state only unlocked.
LEMMA InvitesKept ==
    ASSUME AccountsType, invite' = invite
    PROVE  /\ \A i \in Invites : HasRow(i)' =>
                  IF HasRow(i) THEN invite'[i].user = invite[i].user ELSE Unheld(i)
           /\ \A i \in Invites : Pending(i) => Pending(i)'
           /\ \A i \in Invites : HasRow(i)' /\ invite'[i].state = "accepted" =>
                 HasRow(i) /\ invite[i].state = "accepted" /\ invite'[i].user = invite[i].user
BY DEF HasRow, Pending

\* The same when the invitations of S, which nobody has locked, end.
LEMMA InvitesEnd ==
    ASSUME AccountsType, NEW S \in SUBSET Invites, NEW state \in {"revoked", "expired"},
           \A i \in S : Pending(i),
           invite' = [i \in Invites |-> IF i \in S THEN [invite[i] EXCEPT !.state = state]
                                                  ELSE invite[i]]
    PROVE  /\ invite' \in [Invites -> InviteRow \cup {None}]
           /\ \A i \in Invites : HasRow(i)' => HasRow(i) /\ invite'[i].user = invite[i].user
           /\ \A i \in Invites \ S : Pending(i) => Pending(i)'
           /\ \A i \in Invites : HasRow(i)' /\ invite'[i].state = "accepted" =>
                 HasRow(i) /\ invite[i].state = "accepted" /\ invite'[i].user = invite[i].user
<1>1. ASSUME NEW i \in S
      PROVE  /\ invite'[i] \in InviteRow /\ invite'[i].user = invite[i].user
             /\ invite'[i].state = state /\ HasRow(i)
  <2>1. invite[i] \in InviteRow /\ HasRow(i)
    BY DEF AccountsType, Pending, HasRow
  <2> QED
    BY <2>1 DEF InviteRow, InviteStates
<1>2. \A i \in Invites \ S : invite'[i] = invite[i]
  OBVIOUS
<1>3. invite' \in [Invites -> InviteRow \cup {None}]
  BY <1>1, <1>2, Zenon DEF AccountsType
<1> QED
  BY <1>1, <1>2, <1>3 DEF HasRow, Pending

-----------------------------------------------------------------------------
(* The actions.                                                            *)

LinksStay(r) ==
    \A l \in Links : lock[l] \in Requests \ {r} /\ link[l] # None => link'[l] # None

\* What leaves links and invitations as they are, or ends some that only r may
\* have locked.
Benign(r) ==
    /\ \A i \in Invites : HasRow(i)' =>
          IF HasRow(i) THEN invite'[i].user = invite[i].user ELSE Unheld(i)
    /\ \A i \in Invites : lock[i] \in Requests \ {r} /\ Pending(i) => Pending(i)'
    /\ LinksStay(r)

NoneAccepted ==
    \A i \in Invites : HasRow(i)' /\ invite'[i].state = "accepted" =>
        HasRow(i) /\ invite[i].state = "accepted" /\ invite'[i].user = invite[i].user

\* What takes nobody's status or role away that the invariant rests on.
Harmless ==
    /\ ActiveAdmins \subseteq ActiveAdmins'
    /\ adminDeleted => adminDeleted'
    /\ \A u \in Users : status[u] \notin {"none", "invited"} =>
          status'[u] \notin {"none", "invited"}

\* A step of no request.
LEMMA QuietFrame ==
    ASSUME AccountsInv, AccountsType', UNCHANGED <<lock, request>>,
           Benign(None), NoneAccepted, Harmless, SessionsOfActiveUsers'
    PROVE  AccountsInv' /\ AdminKept
<1>1. RequestsInHand'
  BY Zenon DEF AccountsInv, RequestsInHand, InHand
<1>2. /\ \A i \in Invites, o \in Requests \ {} : lock[i] = o /\ Pending(i) => Pending(i)'
      /\ \A l \in Links, o \in Requests \ {} : lock[l] = o /\ link[l] # None => link'[l] # None
      /\ {} \in SUBSET Requests
  BY InstanceLockable DEF Benign, LinksStay
<1>3. LocksHeld'
  BY <1>2, LocksFrame, Zenon DEF Benign
<1>4. AnotherAdmin'
  BY <1>2, AdminFrame, Zenon DEF Harmless
<1>5. AcceptedSettled' /\ AcceptedOnce'
  BY AcceptedFrame DEF NoneAccepted, Harmless
<1>6. LockedPending'
  <2>1. \A i \in Invites : i \in Lockable
    BY InstanceLockable
  <2> QED
    BY <2>1, InstanceLockable DEF Benign, AccountsInv, AccountsType, LockedPending, Free
<1>7. AdminKept
  BY DEF Harmless, AdminKept
<1> QED
  BY <1>1, <1>3, <1>4, <1>5, <1>6, <1>7 DEF AccountsInv

\* The locks, after a step of one request.
LEMMA StepLocks ==
    ASSUME AccountsInv, NEW r \in Requests,
           \A o \in Requests \ {r} : request'[o] = request[o],
           LocksHeldBy(r)',
           \A x \in Lockable, o \in Requests \ {r} : lock[x] = o => lock'[x] = o,
           Benign(r)
    PROVE  LocksHeld'
<1>1. /\ {r} \in SUBSET Requests
      /\ \A o \in {r} : LocksHeldBy(o)'
      /\ \A i \in Invites, o \in Requests \ {r} : lock[i] = o /\ Pending(i) => Pending(i)'
      /\ \A l \in Links, o \in Requests \ {r} : lock[l] = o /\ link[l] # None => link'[l] # None
  BY Zenon DEF Benign, LinksStay
<1> QED
  BY <1>1, LocksFrame, Zenon DEF Benign

\* The administrators, after a step of one request.
LEMMA StepAdmins ==
    ASSUME AccountsInv, NEW r \in Requests,
           \A o \in Requests \ {r} : request'[o] = request[o],
           AnotherAdminFor(r)', Harmless
    PROVE  AnotherAdmin'
<1>1. {r} \in SUBSET Requests /\ \A o \in {r} : AnotherAdminFor(o)'
  BY Zenon
<1> QED
  BY <1>1, AdminFrame, Zenon DEF Harmless

\* A step of one request that takes nothing away.
LEMMA StepFrame ==
    ASSUME AccountsInv, AccountsType', RequestsInHand', NEW r \in Requests,
           \A o \in Requests \ {r} : request'[o] = request[o],
           LocksHeldBy(r)', AnotherAdminFor(r)', LockedPending',
           \A x \in Lockable, o \in Requests \ {r} : lock[x] = o => lock'[x] = o,
           Benign(r), NoneAccepted, Harmless, SessionsOfActiveUsers'
    PROVE  AccountsInv' /\ AdminKept
<1>2. LocksHeld'
  BY StepLocks, Zenon
<1>3. AnotherAdmin'
  BY StepAdmins, Zenon
<1>4. AcceptedSettled' /\ AcceptedOnce'
  BY AcceptedFrame DEF NoneAccepted, Harmless
<1>5. AdminKept
  BY DEF Harmless, AdminKept
<1> QED
  BY <1>2, <1>3, <1>4, <1>5 DEF AccountsInv

\* A step that needs no lock.
LEMMA NeedsNone ==
    ASSUME NEW r \in Requests,
           request'[r].step \notin {"change", "revoke", "accept", "activate", "touch"}
    PROVE  LocksHeldBy(r)' /\ AnotherAdminFor(r)'
BY DEF LocksHeldBy, AnotherAdminFor

\* Nothing happens to invitations.
LEMMA BenignKept ==
    ASSUME AccountsType, invite' = invite, NEW r, LinksStay(r) PROVE Benign(r) /\ NoneAccepted
BY InvitesKept DEF Benign, NoneAccepted

\* Setup and promotion make administrators.
LEMMA BootstrapKeeps ==
    ASSUME AccountsInv, NEW u \in Users, Bootstrap(u) \/ PromoteAdmin(u)
    PROVE  AccountsInv' /\ AdminKept
<1>1. /\ status' = [status EXCEPT ![u] = "active"] /\ admin' = admin \cup {u}
      /\ signedIn' \in {signedIn, signedIn \cup {u}}
      /\ UNCHANGED <<link, invite, lock, request, adminDeleted>>
  BY Zenon DEF Bootstrap, PromoteAdmin
<1>2. AccountsType'
  BY <1>1 DEF AccountsInv, AccountsType
<1>3. Benign(None) /\ NoneAccepted
  BY <1>1, BenignKept DEF AccountsInv, LinksStay
<1>4. Harmless
  BY <1>1, Zenon DEF AccountsInv, AccountsType, Harmless, ActiveAdmins, Active
<1>5. SessionsOfActiveUsers'
  BY <1>1, Zenon DEF AccountsInv, AccountsType, SessionsOfActiveUsers, Active
<1> QED
  BY <1>1, <1>2, <1>3, <1>4, <1>5, QuietFrame, SMTT(30)

\* A session ends, a link expires.
LEMMA ExpiryKeeps ==
    ASSUME AccountsInv,
           (\E u \in Users : DeleteSession(u)) \/ (\E l \in Links : ExpireLink(l))
    PROVE  AccountsInv' /\ AdminKept
<1>1. /\ signedIn' \subseteq signedIn
      /\ link' = link \/ \E l \in Links : Free(l) /\ link' = [link EXCEPT ![l] = None]
      /\ UNCHANGED <<status, admin, invite, lock, request, adminDeleted>>
  BY Zenon DEF DeleteSession, ExpireLink, users
<1>2. AccountsType'
  BY <1>1 DEF AccountsInv, AccountsType
<1>3. Benign(None) /\ NoneAccepted
  <2>1. LinksStay(None)
    BY <1>1, InstanceLockable, Zenon DEF AccountsInv, AccountsType, LinksStay, Free
  <2> QED
    BY <1>1, <2>1, BenignKept DEF AccountsInv
<1>4. Harmless /\ SessionsOfActiveUsers'
  BY <1>1 DEF AccountsInv, Harmless, ActiveAdmins, Active, SessionsOfActiveUsers
<1> QED
  BY <1>1, <1>2, <1>3, <1>4, QuietFrame, SMTT(30)

\* An invitation that nobody has locked is revoked or expires.
LEMMA EndInviteKeeps ==
    ASSUME AccountsInv, NEW i \in Invites, RevokeInvite(i) \/ ExpireInvite(i)
    PROVE  AccountsInv' /\ AdminKept
<1>1. /\ Pending(i) /\ Free(i)
      /\ UNCHANGED <<status, admin, signedIn, link, lock, request, adminDeleted>>
  BY Zenon DEF RevokeInvite, ExpireInvite, users
<1>2. \E state \in {"revoked", "expired"} :
         invite' = [j \in Invites |-> IF j \in {i} THEN [invite[j] EXCEPT !.state = state]
                                                  ELSE invite[j]]
  BY DEF RevokeInvite, ExpireInvite, Revoked, AccountsInv, AccountsType
<1>3. /\ invite' \in [Invites -> InviteRow \cup {None}]
      /\ \A j \in Invites : HasRow(j)' => HasRow(j) /\ invite'[j].user = invite[j].user
      /\ \A j \in Invites \ {i} : Pending(j) => Pending(j)'
      /\ \A j \in Invites : HasRow(j)' /\ invite'[j].state = "accepted" =>
            HasRow(j) /\ invite[j].state = "accepted" /\ invite'[j].user = invite[j].user
  <2>1. {i} \in SUBSET Invites /\ \A j \in {i} : Pending(j)
    BY <1>1, Zenon
  <2> QED
    BY <1>2, <2>1, InvitesEnd, Zenon DEF AccountsInv
<1>4. Benign(None) /\ NoneAccepted
  BY <1>1, <1>3, InstanceLockable, Zenon DEF Benign, LinksStay, NoneAccepted, Free
<1>5. AccountsType'
  BY <1>1, <1>3, Zenon DEF AccountsInv, AccountsType
<1>6. Harmless /\ SessionsOfActiveUsers'
  BY <1>1, Zenon DEF AccountsInv, Harmless, ActiveAdmins, Active, SessionsOfActiveUsers
<1> QED
  BY <1>1, <1>4, <1>5, <1>6, QuietFrame

\* A step of one request that writes nothing but its locks.
LEMMA HoldFrame ==
    ASSUME AccountsInv, NEW r \in Requests,
           UNCHANGED <<status, admin, signedIn, link, invite, adminDeleted>>,
           request' \in [Requests -> RequestRow], RequestsInHand',
           \A o \in Requests \ {r} : request'[o] = request[o],
           lock' \in [Lockable -> Requests \cup {None}],
           \A x \in Lockable, o \in Requests \ {r} : lock[x] = o => lock'[x] = o,
           LocksHeldBy(r)', AnotherAdminFor(r)', LockedPending'
    PROVE  AccountsInv' /\ AdminKept
<1>1. AccountsType'
  BY Zenon DEF AccountsInv, AccountsType
<1>2. Benign(r) /\ NoneAccepted
  BY BenignKept, Zenon DEF AccountsInv, LinksStay
<1>3. Harmless /\ SessionsOfActiveUsers'
  BY Zenon DEF AccountsInv, Harmless, ActiveAdmins, Active, SessionsOfActiveUsers
<1> QED
  BY <1>1, <1>2, <1>3, StepFrame, Zenon

\* Locked invitations, when no invitation changes and none is locked.
LEMMA PendingKept ==
    ASSUME AccountsInv, invite' = invite, \A i \in Invites : lock'[i] \in {None, lock[i]}
    PROVE  LockedPending'
BY DEF AccountsInv, LockedPending, Pending, HasRow, Free

\* A login, an invitation or a deletion starts.
LEMMA StartKeeps ==
    ASSUME AccountsInv, NEW r \in Requests,
           \/ \E l \in Links : VerifyFind(r, l)
           \/ \E a, u \in Users : InviteRead(r, a, u)
           \/ \E u \in Users : DeleteBegin(r, u)
    PROVE  AccountsInv' /\ AdminKept
<1>1. UNCHANGED <<status, admin, signedIn, link, invite, lock, adminDeleted>>
  BY Zenon DEF VerifyFind, InviteRead, DeleteBegin, users
<1>2. PICK q \in RequestRow : /\ InHand(q) /\ request' = [request EXCEPT ![r] = q]
                             /\ q.step \in {"login", "invite", "delete"}
  <2>1. CASE \E l \in Links : VerifyFind(r, l)
    <3>1. PICK l \in Links : VerifyFind(r, l)
      BY <2>1, Zenon
    <3>2. link[l] \in LinkRow
      BY <3>1, Zenon DEF AccountsInv, AccountsType, VerifyFind
    <3> DEFINE q == [Idle EXCEPT !.step = "login", !.user = link[l].user, !.link = l]
    <3>3. q \in RequestRow /\ InHand(q) /\ q.step = "login"
      BY <3>2, Zenon DEF Idle, RequestRow, InHand, Steps, LinkRow
    <3> QED
      BY <3>1, <3>3, Zenon DEF VerifyFind, Start
  <2>2. CASE \E a, u \in Users : InviteRead(r, a, u)
    <3>1. PICK a \in Users, u \in Users : InviteRead(r, a, u)
      BY <2>2, Zenon
    <3> DEFINE q == [Idle EXCEPT !.step = "invite", !.user = u, !.actor = a,
                                 !.fresh = (status[u] = "none")]
    <3>2. q \in RequestRow /\ InHand(q) /\ q.step = "invite"
      BY Zenon DEF Idle, RequestRow, InHand, Steps
    <3> QED
      BY <3>1, <3>2, Zenon DEF InviteRead, Start
  <2>3. CASE \E u \in Users : DeleteBegin(r, u)
    <3>1. PICK u \in Users : DeleteBegin(r, u)
      BY <2>3, Zenon
    <3> DEFINE q == [Idle EXCEPT !.step = "delete", !.user = u]
    <3>2. q \in RequestRow /\ InHand(q) /\ q.step = "delete"
      BY Zenon DEF Idle, RequestRow, InHand, Steps
    <3> QED
      BY <3>1, <3>2, Zenon DEF DeleteBegin, Start
  <2> QED
    BY <2>1, <2>2, <2>3, Zenon
<1>3. /\ request' \in [Requests -> RequestRow] /\ RequestsInHand' /\ request'[r] = q
      /\ \A o \in Requests \ {r} : request'[o] = request[o]
  BY <1>2, Replaced, Zenon DEF AccountsInv
<1>4. LocksHeldBy(r)' /\ AnotherAdminFor(r)'
  BY <1>2, <1>3, NeedsNone
<1>5. LockedPending'
  BY <1>1, PendingKept
<1>6. lock' \in [Lockable -> Requests \cup {None}]
  BY <1>1 DEF AccountsInv, AccountsType
<1> QED
  BY <1>1, <1>3, <1>4, <1>5, <1>6, HoldFrame, Zenon

\* An acceptance looks its invitation up.
LEMMA AcceptFindKeeps ==
    ASSUME AccountsInv, NEW r \in Requests, NEW i \in Invites, AcceptFind(r, i)
    PROVE  AccountsInv' /\ AdminKept
<1> DEFINE q == [Idle EXCEPT !.step = "accept", !.user = invite[i].user, !.invite = i]
<1>1. /\ UNCHANGED <<status, admin, signedIn, link, invite, lock, adminDeleted>>
      /\ request' = [request EXCEPT ![r] = q]
  BY Zenon DEF AcceptFind, users, Start
<1>2. invite[i] \in InviteRow
  BY DEF AccountsInv, AccountsType, AcceptFind, Pending, HasRow
<1>3. /\ q \in RequestRow /\ InHand(q) /\ q.step = "accept"
      /\ q.invite = i /\ q.user = invite[i].user
  BY <1>2, Zenon DEF Idle, RequestRow, InHand, Steps, InviteRow
<1> HIDE DEF q
<1>4. /\ request' \in [Requests -> RequestRow] /\ RequestsInHand' /\ request'[r] = q
      /\ \A o \in Requests \ {r} : request'[o] = request[o]
  BY <1>1, <1>3, Replaced, Zenon DEF AccountsInv
<1>5. LocksHeldBy(r)' /\ AnotherAdminFor(r)'
  BY <1>1, <1>3, <1>4, Zenon DEF LocksHeldBy, AnotherAdminFor, HasRow
<1>6. LockedPending'
  BY <1>1, PendingKept
<1>7. lock' \in [Lockable -> Requests \cup {None}]
  BY <1>1 DEF AccountsInv, AccountsType
<1> QED
  BY <1>1, <1>4, <1>5, <1>6, <1>7, HoldFrame, SMTT(30)

\* A login locks its link.
LEMMA VerifyConsumeKeeps ==
    ASSUME AccountsInv, NEW r \in Requests, VerifyConsume(r)
    PROVE  AccountsInv' /\ AdminKept
<1>1. /\ request[r].step = "login" /\ Free(request[r].link) /\ link[request[r].link] # None
      /\ lock' = [lock EXCEPT ![request[r].link] = r]
      /\ request' = [request EXCEPT ![r].step = "touch"]
      /\ UNCHANGED <<status, admin, signedIn, link, invite, adminDeleted>>
  BY Zenon DEF VerifyConsume, users
<1>2. "touch" \in Steps
  BY DEF Steps
<1>3. /\ request' \in [Requests -> RequestRow] /\ request'[r].step = "touch"
      /\ request'[r].user = request[r].user /\ request'[r].link = request[r].link
      /\ \A o \in Requests \ {r} : request'[o] = request[o]
  BY <1>1, <1>2, Advanced, Zenon DEF AccountsInv
<1>4. InHand(request[r])
  BY DEF AccountsInv, RequestsInHand
<1>5. RequestsInHand'
  BY <1>1, <1>3, <1>4 DEF AccountsInv, RequestsInHand, InHand
<1>6. request[r].link \in Links /\ request[r].link \in Lockable /\ request[r].link \notin Invites
  BY <1>1, <1>4, AccountsAssumption, Zenon DEF InHand, Lockable
<1>7. /\ lock' \in [Lockable -> Requests \cup {None}]
      /\ \A x \in Lockable, o \in Requests \ {r} : lock[x] = o => lock'[x] = o
      /\ \A i \in Invites : lock'[i] = lock[i]
      /\ lock'[request[r].link] = r
  BY <1>1, <1>6, InstanceLockable, Zenon DEF AccountsInv, AccountsType, Free
<1>8. LocksHeldBy(r)' /\ AnotherAdminFor(r)'
  BY <1>1, <1>3, <1>7, Zenon DEF LocksHeldBy, AnotherAdminFor
<1>9. LockedPending'
  BY <1>1, <1>7, PendingKept
<1> QED
  BY <1>1, <1>3, <1>5, <1>7, <1>8, <1>9, HoldFrame, SMTT(30)

\* An invitation locks the pending ones of its user.
LEMMA InviteRevokeKeeps ==
    ASSUME AccountsInv, NEW r \in Requests, InviteRevoke(r)
    PROVE  AccountsInv' /\ AdminKept
<1> DEFINE S == PendingOf(request[r].user)
<1>1. /\ request[r].step = "invite" /\ \A j \in S : Free(j)
      /\ lock' = [x \in Lockable |-> IF x \in S THEN r ELSE lock[x]]
      /\ request' = [request EXCEPT ![r].step = "insert"]
      /\ UNCHANGED <<status, admin, signedIn, link, invite, adminDeleted>>
  BY Zenon DEF InviteRevoke, users
<1>2. S \subseteq Invites /\ \A j \in S : Pending(j)
  BY DEF PendingOf
<1> HIDE DEF S
<1>3. /\ request' \in [Requests -> RequestRow] /\ request'[r].step = "insert"
      /\ request'[r].user = request[r].user /\ request'[r].actor = request[r].actor
      /\ \A o \in Requests \ {r} : request'[o] = request[o]
  <2>1. "insert" \in Steps
    BY DEF Steps
  <2> QED
    BY <1>1, <2>1, Advanced, Zenon DEF AccountsInv
<1>4. RequestsInHand'
  BY <1>1, <1>3 DEF AccountsInv, RequestsInHand, InHand
<1>5. /\ lock' \in [Lockable -> Requests \cup {None}]
      /\ \A x \in Lockable, o \in Requests \ {r} : lock[x] = o => lock'[x] = o
  BY <1>1, InstanceLockable DEF AccountsInv, AccountsType, Free
<1>6. LocksHeldBy(r)' /\ AnotherAdminFor(r)'
  BY <1>3, NeedsNone
<1>7. LockedPending'
  <2>1. \A i \in Invites : lock'[i] = IF i \in S THEN r ELSE lock[i]
    BY <1>1, InstanceLockable
  <2> QED
    BY <1>1, <1>2, <2>1, Zenon DEF AccountsInv, LockedPending, Free, Pending, HasRow
<1> QED
  BY <1>1, <1>3, <1>4, <1>5, <1>6, <1>7, HoldFrame, SMTT(30)

\* An acceptance locks its invitation.
LEMMA AcceptConsumeKeeps ==
    ASSUME AccountsInv, NEW r \in Requests, AcceptConsume(r)
    PROVE  AccountsInv' /\ AdminKept
<1> DEFINE i == request[r].invite
<1>1. /\ request[r].step = "accept" /\ Free(i) /\ Pending(i)
      /\ lock' = [lock EXCEPT ![i] = r]
      /\ request' = [request EXCEPT ![r].step = "activate"]
      /\ UNCHANGED <<status, admin, signedIn, link, invite, adminDeleted>>
  BY Zenon DEF AcceptConsume, users
<1>2. /\ request' \in [Requests -> RequestRow] /\ request'[r].step = "activate"
      /\ request'[r].user = request[r].user /\ request'[r].invite = i
      /\ \A o \in Requests \ {r} : request'[o] = request[o]
  <2>1. "activate" \in Steps
    BY Zenon DEF Steps
  <2> QED
    BY <1>1, <2>1, Advanced, Zenon DEF AccountsInv
<1>3. InHand(request[r]) /\ LocksHeldBy(r)
  BY DEF AccountsInv, RequestsInHand, LocksHeld
<1>4. i \in Invites /\ i \in Lockable
  BY <1>1, <1>3, InstanceLockable, SMTT(30) DEF InHand
<1>5. invite[i].user = request[r].user
  BY <1>1, <1>3, SMTT(30) DEF LocksHeldBy, Pending
<1> HIDE DEF i
<1>6. RequestsInHand'
  BY <1>1, <1>2, <1>3, <1>4, SMTT(30) DEF AccountsInv, RequestsInHand, InHand
<1>7. /\ lock' \in [Lockable -> Requests \cup {None}] /\ lock'[i] = r
      /\ \A x \in Lockable, o \in Requests \ {r} : lock[x] = o => lock'[x] = o
      /\ \A j \in Lockable : j # i => lock'[j] = lock[j]
  BY <1>1, <1>4, InstanceLockable, SMTT(30) DEF AccountsInv, AccountsType, Free
<1>8. LocksHeldBy(r)' /\ AnotherAdminFor(r)'
  BY <1>1, <1>2, <1>5, <1>7, SMTT(30) DEF LocksHeldBy, AnotherAdminFor, Pending, HasRow
<1>9. LockedPending'
  BY <1>1, <1>7, InstanceLockable, Zenon DEF AccountsInv, LockedPending, Free, Pending, HasRow
<1> QED
  BY <1>1, <1>2, <1>6, <1>7, <1>8, <1>9, HoldFrame, Zenon

\* A change of an administrator that is not refused leaves another one.
LEMMA NotTheLast ==
    ASSUME AccountsInv, NEW a \in ActiveAdmins, NEW u \in Users,
           NEW c \in {"disable", "demote"}, ~Refused(c, u)
    PROVE  \E v \in ActiveAdmins : v # u
<1>1. CASE u \notin ActiveAdmins
  BY <1>1
<1>2. CASE u \in ActiveAdmins
  <2>1. SUFFICES ASSUME \A v \in ActiveAdmins : v = u PROVE FALSE
    OBVIOUS
  <2>2. ActiveAdmins = {u}
    BY <1>2, <2>1
  <2>3. Cardinality(ActiveAdmins) = 1
    BY <2>2, FS_Singleton, Zenon
  <2> QED
    BY <1>2, <2>3 DEF Refused
<1> QED
  BY <1>1, <1>2

\* A status or role change locks the instance row and decides.
LEMMA ChangeBeginKeeps ==
    ASSUME AccountsInv, NEW r \in Requests, NEW a \in Users, NEW u \in Users,
           NEW c \in Changes, ChangeBegin(r, a, u, c)
    PROVE  AccountsInv' /\ AdminKept
<1> DEFINE q == [Idle EXCEPT !.step = "change", !.user = u, !.actor = a, !.change = c]
<1>1. /\ Free(Instance) /\ a \in ActiveAdmins /\ ~Refused(c, u)
      /\ lock' = [lock EXCEPT ![Instance] = r]
      /\ request' = [request EXCEPT ![r] = q]
      /\ UNCHANGED <<status, admin, signedIn, link, invite, adminDeleted>>
  BY Zenon DEF ChangeBegin, users, Start
<1>2. /\ q \in RequestRow /\ InHand(q) /\ q.step = "change" /\ q.user = u /\ q.change = c
  BY Zenon DEF Idle, RequestRow, InHand, Steps
<1> HIDE DEF q
<1>3. /\ request' \in [Requests -> RequestRow] /\ RequestsInHand' /\ request'[r] = q
      /\ \A o \in Requests \ {r} : request'[o] = request[o]
  BY <1>1, <1>2, Replaced, Zenon DEF AccountsInv
<1>4. /\ lock' \in [Lockable -> Requests \cup {None}] /\ lock'[Instance] = r
      /\ \A x \in Lockable, o \in Requests \ {r} : lock[x] = o => lock'[x] = o
      /\ \A i \in Invites : lock'[i] = lock[i]
  BY <1>1, InstanceLockable, Zenon DEF AccountsInv, AccountsType, Free
<1>5. LocksHeldBy(r)'
  BY <1>2, <1>3, <1>4, Zenon DEF LocksHeldBy
<1>6. AnotherAdminFor(r)'
  <2>1. c \in {"disable", "demote"} => \E v \in ActiveAdmins : v # u
    BY <1>1, NotTheLast, Zenon
  <2>2. ActiveAdmins' = ActiveAdmins
    BY <1>1, Zenon DEF ActiveAdmins, Active
  <2> QED
    BY <1>2, <1>3, <2>1, <2>2, Zenon DEF AnotherAdminFor
<1>7. LockedPending'
  BY <1>1, <1>4, PendingKept, Zenon
<1> QED
  BY <1>1, <1>3, <1>4, <1>5, <1>6, <1>7, HoldFrame, Zenon

\* Disabling a user locks their row.
LEMMA DisableUpdateKeeps ==
    ASSUME AccountsInv, NEW r \in Requests, DisableUpdate(r)
    PROVE  AccountsInv' /\ AdminKept
<1> DEFINE u == request[r].user
<1>1. /\ request[r].step = "change" /\ request[r].change = "disable" /\ Free(u)
      /\ lock' = [lock EXCEPT ![u] = r]
      /\ request' = [request EXCEPT ![r].step = "revoke"]
      /\ UNCHANGED <<status, admin, signedIn, link, invite, adminDeleted>>
  BY Zenon DEF DisableUpdate, users
<1>2. /\ request' \in [Requests -> RequestRow] /\ request'[r].step = "revoke"
      /\ request'[r].user = u /\ request'[r].change = request[r].change
      /\ \A o \in Requests \ {r} : request'[o] = request[o]
  <2>1. "revoke" \in Steps
    BY Zenon DEF Steps
  <2> QED
    BY <1>1, <2>1, Advanced, Zenon DEF AccountsInv
<1>3. InHand(request[r]) /\ LocksHeldBy(r) /\ AnotherAdminFor(r)
  BY DEF AccountsInv, RequestsInHand, LocksHeld, AnotherAdmin
<1>4. u \in Users /\ u \in Lockable /\ u # Instance /\ u \notin Invites
  BY <1>1, <1>3, InstanceLockable, AccountsAssumption, SMTT(30) DEF InHand
<1>5. RequestsInHand'
  BY <1>1, <1>2, <1>3, Zenon DEF AccountsInv, RequestsInHand, InHand
<1> HIDE DEF u
<1>6. /\ lock' \in [Lockable -> Requests \cup {None}] /\ lock'[Instance] = lock[Instance]
      /\ \A x \in Lockable, o \in Requests \ {r} : lock[x] = o => lock'[x] = o
      /\ \A i \in Invites : lock'[i] = lock[i]
  BY <1>1, <1>4, InstanceLockable, Zenon DEF AccountsInv, AccountsType, Free
<1>7. LocksHeldBy(r)'
  BY <1>1, <1>2, <1>3, <1>6, Zenon DEF LocksHeldBy
<1>8. AnotherAdminFor(r)'
  <2>1. ActiveAdmins' = ActiveAdmins
    BY <1>1 DEF ActiveAdmins, Active
  <2> QED
    BY <1>1, <1>2, <1>3, <2>1 DEF AnotherAdminFor, u
<1>9. LockedPending'
  BY <1>1, <1>6, PendingKept
<1> QED
  BY <1>1, <1>2, <1>5, <1>6, <1>7, <1>8, <1>9, HoldFrame, Zenon

----------------------------------------------------------------------------
(* The steps that commit *)

\* A request that ends, and what it releases.
LEMMA Ended ==
    ASSUME AccountsInv, NEW r \in Requests, Finish(r)
    PROVE  /\ request' \in [Requests -> RequestRow] /\ RequestsInHand'
           /\ \A o \in Requests \ {r} : request'[o] = request[o]
           /\ request'[r].step = "idle"
           /\ LocksHeldBy(r)' /\ AnotherAdminFor(r)'
<1>1. /\ request' \in [Requests -> RequestRow] /\ RequestsInHand' /\ request'[r] = Idle
      /\ \A o \in Requests \ {r} : request'[o] = request[o]
  BY IdleRow, Replaced, Zenon DEF AccountsInv, Finish
<1>2. LocksHeldBy(r)' /\ AnotherAdminFor(r)'
  BY <1>1, IdleRow, NeedsNone, Zenon
<1> QED
  BY <1>1, <1>2, IdleRow, Zenon

\* Release gives back the invitations the request holds, and no others.
LEMMA ReleasedInvites ==
    ASSUME NEW r \in Requests, Release(r)
    PROVE  \A i \in Invites : lock'[i] = IF lock[i] = r THEN None ELSE lock[i]
BY InstanceLockable, Zenon DEF Release

\* A rollback.
LEMMA RollbackKeeps ==
    ASSUME AccountsInv, NEW r \in Requests, Rollback(r)
    PROVE  AccountsInv' /\ AdminKept
<1>1. /\ Release(r) /\ Finish(r)
      /\ UNCHANGED <<status, admin, signedIn, link, invite, adminDeleted>>
  BY Zenon DEF Rollback, users
<1>2. /\ lock' \in [Lockable -> Requests \cup {None}]
      /\ \A x \in Lockable, o \in Requests \ {r} : lock[x] = o => lock'[x] = o
  BY <1>1, Released DEF AccountsInv
<1>3. LockedPending'
  BY <1>1, ReleasedInvites, PendingKept, Zenon
<1> QED
  BY <1>1, <1>2, <1>3, Ended, HoldFrame, Zenon

\* A sign-up or a request for a link of an active user.
LEMMA RequestMagicLinkKeeps ==
    ASSUME AccountsInv, NEW r \in Requests, NEW u \in Users, RequestMagicLink(r, u)
    PROVE  AccountsInv' /\ AdminKept
<1> DEFINE q == [Idle EXCEPT !.step = "link", !.user = u]
<1>1. /\ status[u] \in {"none", "active"} /\ status' = [status EXCEPT ![u] = "active"]
      /\ request' = [request EXCEPT ![r] = q]
      /\ UNCHANGED <<admin, signedIn, link, invite, lock, adminDeleted>>
  BY Zenon DEF RequestMagicLink, Start
<1>2. q \in RequestRow /\ InHand(q) /\ q.step = "link"
  BY Zenon DEF Idle, RequestRow, InHand, Steps
<1> HIDE DEF q
<1>3. /\ request' \in [Requests -> RequestRow] /\ RequestsInHand' /\ request'[r] = q
      /\ \A o \in Requests \ {r} : request'[o] = request[o]
  BY <1>1, <1>2, Replaced, Zenon DEF AccountsInv
<1>4. LocksHeldBy(r)' /\ AnotherAdminFor(r)'
  BY <1>2, <1>3, NeedsNone, Zenon
<1>5. Benign(r) /\ NoneAccepted /\ LockedPending'
  BY <1>1, BenignKept, PendingKept, Zenon DEF AccountsInv, LinksStay
<1>6. AccountsType'
  BY <1>1, <1>3, Zenon DEF AccountsInv, AccountsType
<1>7. Harmless /\ SessionsOfActiveUsers'
  BY <1>1 DEF AccountsInv, AccountsType, Harmless, ActiveAdmins, Active, SessionsOfActiveUsers
<1> QED
  BY <1>1, <1>3, <1>4, <1>5, <1>6, <1>7, StepFrame, Zenon

\* The link is inserted.
LEMMA CreateMagicLinkKeeps ==
    ASSUME AccountsInv, NEW r \in Requests, NEW l \in Links, CreateMagicLink(r, l)
    PROVE  AccountsInv' /\ AdminKept
<1>1. /\ request[r].step = "link" /\ Finish(r)
      /\ link' = [link EXCEPT ![l] = [user |-> request[r].user, used |-> FALSE]]
      /\ UNCHANGED <<status, admin, signedIn, invite, lock, adminDeleted>>
  BY Zenon DEF CreateMagicLink, users
<1>2. request[r].user \in Users
  BY <1>1, Zenon DEF AccountsInv, RequestsInHand, InHand
<1>3. Benign(r) /\ NoneAccepted /\ LockedPending'
  <2>1. LinksStay(r)
    <3> DEFINE row == [user |-> request[r].user, used |-> FALSE]
    <3>1. row \in LinkRow /\ link' = [link EXCEPT ![l] = row]
      BY <1>1, <1>2, Zenon DEF LinkRow
    <3> HIDE DEF row
    <3>2. row # None
      BY <3>1, InstanceLockable
    <3> QED
      BY <3>1, <3>2, Zenon DEF AccountsInv, AccountsType, LinksStay
  <2> QED
    BY <1>1, <2>1, BenignKept, PendingKept, Zenon DEF AccountsInv
<1>4. AccountsType'
  BY <1>1, <1>2, Ended, Zenon DEF AccountsInv, AccountsType, LinkRow
<1>5. Harmless /\ SessionsOfActiveUsers'
  BY <1>1, Zenon DEF AccountsInv, Harmless, ActiveAdmins, Active, SessionsOfActiveUsers
<1> QED
  BY <1>1, <1>3, <1>4, <1>5, Ended, StepFrame, Zenon

\* A login commits, for a user that is still active.
LEMMA VerifyCommitKeeps ==
    ASSUME AccountsInv, NEW r \in Requests, VerifyCommit(r)
    PROVE  AccountsInv' /\ AdminKept
<1> DEFINE q == request[r]
<1>1. /\ q.step = "touch" /\ Active(q.user) /\ Finish(r) /\ Release(r)
      /\ signedIn' = signedIn \cup {q.user}
      /\ link' = [link EXCEPT ![q.link].used = TRUE]
      /\ UNCHANGED <<status, admin, invite, adminDeleted>>
  BY Zenon DEF VerifyCommit, users
<1>2. q.user \in Users /\ q.link \in Links /\ link[q.link] \in LinkRow
  BY <1>1 DEF AccountsInv, AccountsType, RequestsInHand, InHand, LocksHeld, LocksHeldBy
<1>3. /\ lock' \in [Lockable -> Requests \cup {None}]
      /\ \A x \in Lockable, o \in Requests \ {r} : lock[x] = o => lock'[x] = o
  BY <1>1, Released DEF AccountsInv
<1>4. link' = [link EXCEPT ![q.link] = [link[q.link] EXCEPT !.used = TRUE]]
      /\ [link[q.link] EXCEPT !.used = TRUE] \in LinkRow
  BY <1>1, <1>2, Zenon DEF LinkRow
<1>5. AccountsType' /\ LinksStay(r)
  <2> DEFINE row == [link[q.link] EXCEPT !.used = TRUE]
  <2>1. row \in LinkRow /\ row # None /\ link' = [link EXCEPT ![q.link] = row]
    BY <1>4, InstanceLockable, Zenon
  <2> HIDE DEF row
  <2>2. link' \in [Links -> LinkRow \cup {None}] /\ LinksStay(r)
    BY <1>2, <2>1, Zenon DEF AccountsInv, AccountsType, LinksStay
  <2>3. signedIn' \subseteq Users
    BY <1>1, <1>2 DEF AccountsInv, AccountsType
  <2> QED
    BY <1>1, <1>3, <2>2, <2>3, Ended, Zenon DEF AccountsInv, AccountsType
<1>7. Benign(r) /\ NoneAccepted /\ LockedPending'
  BY <1>1, <1>5, BenignKept, ReleasedInvites, PendingKept, Zenon DEF AccountsInv
<1>6. Harmless /\ SessionsOfActiveUsers'
  BY <1>1, SMTT(30) DEF AccountsInv, Harmless, ActiveAdmins, Active, SessionsOfActiveUsers
<1> QED
  BY <1>1, <1>3, <1>5, <1>6, <1>7, Ended, StepFrame, SMTT(30)

\* A new invitation is committed, with the end of those that it locked.
LEMMA InviteCommitKeeps ==
    ASSUME AccountsInv, NEW r \in Requests, NEW i \in Invites, InviteCommit(r, i)
    PROVE  AccountsInv' /\ AdminKept
<1> DEFINE q == request[r]
           S == {j \in Invites : lock[j] = r}
           row == [user |-> q.user, by |-> q.actor, state |-> "pending"]
           ended == [j \in Invites |-> IF j \in S THEN [invite[j] EXCEPT !.state = "revoked"]
                                                 ELSE invite[j]]
<1>1. /\ q.step = "insert" /\ ~HasRow(i) /\ Unheld(i) /\ Finish(r) /\ Release(r)
      /\ IF q.fresh THEN status[q.user] = "none" ELSE TRUE
      /\ status' = IF q.fresh THEN [status EXCEPT ![q.user] = "invited"] ELSE status
      /\ invite' = [ended EXCEPT ![i] = row]
      /\ UNCHANGED <<admin, signedIn, link, adminDeleted>>
  BY Zenon DEF InviteCommit, Revoked
<1>20. /\ request' \in [Requests -> RequestRow] /\ RequestsInHand'
       /\ \A o \in Requests \ {r} : request'[o] = request[o]
       /\ LocksHeldBy(r)' /\ AnotherAdminFor(r)'
  BY <1>1, Ended
<1>2. q.user \in Users /\ q.actor \in Users
  BY <1>1, Zenon DEF AccountsInv, RequestsInHand, InHand
<1>3. row \in InviteRow /\ row.user = q.user /\ row.state = "pending"
  BY <1>2, Zenon DEF InviteRow, InviteStates
<1>4. row # None
  BY <1>3, InstanceLockable, Zenon
<1>5. \A j \in S : Pending(j)
  BY InstanceLockable, Zenon DEF AccountsInv, LockedPending, Free
<1>6. \A j \in Invites : invite[j] # None => invite[j] \in InviteRow
  BY DEF AccountsInv, AccountsType
<1>7. \A j \in S : /\ ended[j] \in InviteRow /\ ended[j].user = invite[j].user
                  /\ ended[j].state = "revoked"
  BY <1>5, <1>6 DEF Pending, HasRow, InviteRow, InviteStates
<1>8. /\ ended \in [Invites -> InviteRow \cup {None}]
      /\ \A j \in Invites : ended[j] # None => invite[j] # None /\ ended[j].user = invite[j].user
      /\ \A j \in Invites \ S : ended[j] = invite[j]
  BY <1>5, <1>6, <1>7 DEF Pending, HasRow
<1>10. i \notin S
  BY <1>1, <1>5, Zenon DEF Pending
<1> HIDE DEF row, ended, q
<1>9. /\ invite' \in [Invites -> InviteRow \cup {None}] /\ invite'[i] = row
      /\ \A j \in Invites \ {i} : invite'[j] = ended[j]
  BY <1>1, <1>3, <1>8, Zenon
<1>11. Benign(r)
  <2>1. \A j \in Invites : invite'[j] # None =>
           IF invite[j] # None THEN invite'[j].user = invite[j].user ELSE Unheld(j)
    BY <1>1, <1>8, <1>9, Zenon DEF HasRow
  <2>2. \A j \in Invites : lock[j] \in Requests \ {r} /\ Pending(j) => Pending(j)'
    BY <1>1, <1>8, <1>9, Zenon DEF Pending, HasRow
  <2>3. LinksStay(r)
    BY <1>1, Zenon DEF LinksStay
  <2> QED
    BY <2>1, <2>2, <2>3, Zenon DEF Benign, HasRow
<1>12. NoneAccepted
  BY <1>3, <1>7, <1>8, <1>9 DEF NoneAccepted, HasRow
<1>13. LockedPending'
  <2>1. ASSUME NEW j \in Invites, lock'[j] # None PROVE Pending(j)'
    <3>1. lock[j] # r /\ lock[j] # None
      BY <1>1, <2>1, ReleasedInvites, Zenon
    <3>2. Pending(j) /\ j \notin S /\ j # i
      BY <1>1, <3>1, Zenon DEF AccountsInv, LockedPending, Free, Pending
    <3> QED
      BY <1>8, <1>9, <3>2, Zenon DEF Pending, HasRow
  <2> QED
    BY <2>1, Zenon DEF LockedPending, Free
<1>14. /\ lock' \in [Lockable -> Requests \cup {None}]
       /\ \A x \in Lockable, o \in Requests \ {r} : lock[x] = o => lock'[x] = o
  BY <1>1, Released, SMTT(30) DEF AccountsInv
<1>15. /\ status' \in [Users -> {"none", "invited", "active", "disabled", "deleted"}]
       /\ \A u \in Users : status[u] # "none" => status'[u] = status[u]
  BY <1>1, <1>2, Zenon DEF AccountsInv, AccountsType
<1>16. AccountsType'
  BY <1>1, <1>9, <1>14, <1>15, <1>20, Zenon DEF AccountsInv, AccountsType
<1>17. Harmless
  BY <1>1, <1>15, Zenon DEF AccountsInv, AccountsType, Harmless, ActiveAdmins, Active
<1>18. SessionsOfActiveUsers'
  BY <1>1, <1>15, Zenon DEF AccountsInv, AccountsType, Active, SessionsOfActiveUsers
<1> QED
  BY <1>11, <1>12, <1>13, <1>14, <1>16, <1>17, <1>18, <1>20, StepFrame, Zenon

\* An acceptance commits: the user was invited, so had accepted nothing before.
LEMMA AcceptCommitKeeps ==
    ASSUME AccountsInv, NEW r \in Requests, AcceptCommit(r)
    PROVE  AccountsInv' /\ AdminKept
<1> DEFINE q == request[r]
           i == q.invite
           row == [invite[i] EXCEPT !.state = "accepted"]
<1>1. /\ q.step = "activate" /\ status[q.user] = "invited" /\ Finish(r) /\ Release(r)
      /\ status' = [status EXCEPT ![q.user] = "active"]
      /\ invite' = [invite EXCEPT ![i] = row]
      /\ signedIn' = signedIn \cup {q.user}
      /\ UNCHANGED <<admin, link, adminDeleted>>
  BY Zenon DEF AcceptCommit
<1>20. /\ request' \in [Requests -> RequestRow] /\ RequestsInHand'
       /\ \A o \in Requests \ {r} : request'[o] = request[o]
       /\ LocksHeldBy(r)' /\ AnotherAdminFor(r)'
  BY <1>1, Ended
<1>2. q.user \in Users /\ i \in Invites /\ LocksHeldBy(r)
  BY <1>1, Zenon DEF AccountsInv, RequestsInHand, InHand, LocksHeld
<1>3. lock[i] = r /\ Pending(i) /\ invite[i].user = q.user /\ invite[i] \in InviteRow
  BY <1>1, <1>2, Zenon DEF LocksHeldBy, Pending, HasRow, AccountsInv, AccountsType
<1>4. row \in InviteRow /\ row.user = q.user
  BY <1>3, SMTT(30) DEF InviteRow, InviteStates
<1> HIDE DEF row, i, q
<1>5. /\ invite' \in [Invites -> InviteRow \cup {None}] /\ invite'[i] = row
      /\ \A j \in Invites \ {i} : invite'[j] = invite[j]
  BY <1>1, <1>2, <1>4, Zenon DEF AccountsInv, AccountsType
<1>6. Benign(r)
  <2>1. \A j \in Invites : invite'[j] # None =>
           IF invite[j] # None THEN invite'[j].user = invite[j].user ELSE Unheld(j)
    BY <1>3, <1>4, <1>5, SMTT(30) DEF Pending, HasRow
  <2>2. \A j \in Invites : lock[j] \in Requests \ {r} /\ Pending(j) => Pending(j)'
    BY <1>3, <1>5, Zenon DEF Pending, HasRow
  <2> QED
    BY <1>1, <2>1, <2>2, ZenonT(30) DEF Benign, LinksStay, HasRow
<1>7. LockedPending'
  <2>1. ASSUME NEW j \in Invites, lock'[j] # None PROVE Pending(j)'
    <3>1. lock[j] # r /\ lock[j] # None
      BY <1>1, <2>1, ReleasedInvites, Zenon
    <3>2. Pending(j) /\ j # i
      BY <1>3, <3>1, Zenon DEF AccountsInv, LockedPending, Free
    <3> QED
      BY <1>5, <3>2, Zenon DEF Pending, HasRow
  <2> QED
    BY <2>1, Zenon DEF LockedPending, Free
<1>8. /\ lock' \in [Lockable -> Requests \cup {None}]
      /\ \A x \in Lockable, o \in Requests \ {r} : lock[x] = o => lock'[x] = o
  BY <1>1, Released, Zenon DEF AccountsInv
<1>9. AccountsType'
  BY <1>1, <1>2, <1>5, <1>8, <1>20, Zenon DEF AccountsInv, AccountsType
<1>10. Harmless /\ SessionsOfActiveUsers'
  BY <1>1, <1>2, Zenon DEF AccountsInv, AccountsType, Harmless, ActiveAdmins, Active,
                    SessionsOfActiveUsers
<1>11. \A j \in Invites \ {i} :
          invite[j] # None /\ invite[j].state = "accepted" =>
             invite[j].user \in Users /\ status[invite[j].user] \notin {"none", "invited"}
  BY Zenon DEF AccountsInv, AccountsType, AcceptedSettled, HasRow, InviteRow
<1>12. AcceptedSettled'
  <2>1. \A j \in Invites : invite'[j] # None /\ invite'[j].state = "accepted" =>
           status'[invite'[j].user] \notin {"none", "invited"}
    BY <1>1, <1>2, <1>4, <1>5, <1>11, Zenon DEF AccountsInv, AccountsType
  <2> QED
    BY <2>1, SMTT(30) DEF AcceptedSettled, HasRow
<1>13. AcceptedOnce'
  <2>1. \A j \in Invites \ {i} :
           invite'[j] # None /\ invite'[j].state = "accepted" => invite'[j].user # q.user
    BY <1>1, <1>5, <1>11, Zenon
  <2>2. \A j, k \in Invites \ {i} :
           /\ invite'[j] # None /\ invite'[k] # None /\ invite'[j].user = invite'[k].user
           /\ invite'[j].state = "accepted" /\ invite'[k].state = "accepted"
           => j = k
    BY <1>5, Zenon DEF AccountsInv, AcceptedOnce, HasRow
  <2> QED
    BY <1>4, <1>5, <2>1, <2>2 DEF AcceptedOnce, HasRow
<1>14. AnotherAdmin'
  BY <1>1, <1>10, <1>20, StepAdmins, SMTT(30)
<1>15. LocksHeld'
  BY <1>1, <1>6, <1>8, <1>20, StepLocks, Zenon
<1>16. AdminKept
  BY <1>10, Zenon DEF Harmless, AdminKept
<1> QED
  BY <1>1, <1>7, <1>9, <1>10, <1>12, <1>13, <1>14, <1>15, <1>16, <1>20, Zenon DEF AccountsInv

\* A status or role change holds the instance row: no other one is under way.
LEMMA OneChange ==
    ASSUME AccountsInv, NEW r \in Requests, request[r].step \in {"change", "revoke"}, Finish(r)
    PROVE  AnotherAdmin'
<1>1. \A o \in Requests \ {r} : request[o].step \notin {"change", "revoke"}
  BY Zenon DEF AccountsInv, LocksHeld, LocksHeldBy
<1>2. \A o \in Requests : request'[o].step \notin {"change", "revoke"}
  BY <1>1, Ended, SMTT(30)
<1> QED
  BY <1>2, Zenon DEF AnotherAdmin, AnotherAdminFor

\* A role change, or the enabling of a user, commits.
LEMMA ChangeCommitKeeps ==
    ASSUME AccountsInv, NEW r \in Requests, ChangeCommit(r)
    PROVE  AccountsInv' /\ AdminKept
<1> DEFINE q == request[r]
<1>1. /\ q.step = "change" /\ Finish(r) /\ Release(r)
      /\ status' \in {status, [status EXCEPT ![q.user] = "active"]}
      /\ admin' \in {admin \cup {q.user}, admin \ {q.user}, admin}
      /\ admin' = admin \ {q.user} => q.change = "demote" \/ admin' = admin
      /\ UNCHANGED <<signedIn, link, invite, adminDeleted>>
  BY Zenon DEF ChangeCommit
<1>20. /\ request' \in [Requests -> RequestRow] /\ RequestsInHand'
       /\ \A o \in Requests \ {r} : request'[o] = request[o]
       /\ LocksHeldBy(r)' /\ AnotherAdminFor(r)'
  BY <1>1, Ended, Zenon
<1>2. q.user \in Users /\ AnotherAdminFor(r)
  BY <1>1, SMTT(30) DEF AccountsInv, RequestsInHand, InHand, AnotherAdmin
<1>3. /\ lock' \in [Lockable -> Requests \cup {None}]
      /\ \A x \in Lockable, o \in Requests \ {r} : lock[x] = o => lock'[x] = o
  BY <1>1, Released, Zenon DEF AccountsInv
<1>4. Benign(r) /\ NoneAccepted /\ LockedPending'
  BY <1>1, BenignKept, ReleasedInvites, PendingKept, Zenon DEF AccountsInv, LinksStay
<1>5. AccountsType'
  BY <1>1, <1>2, <1>3, <1>20, SMTT(30) DEF AccountsInv, AccountsType
<1>6. AnotherAdmin'
  BY <1>1, OneChange, SMTT(30)
<1>7. LocksHeld'
  BY <1>1, <1>3, <1>4, <1>20, StepLocks, Zenon
<1>8. /\ \A u \in Users : status[u] \notin {"none", "invited"} => status'[u] \notin {"none", "invited"}
      /\ \A u \in Users : Active(u) => Active(u)'
  <2>1. \A u \in Users : status'[u] \in {status[u], "active"}
    BY <1>1, <1>2, SMTT(30) DEF AccountsInv, AccountsType
  <2> QED
    BY <2>1, Zenon DEF Active
<1>9. AcceptedSettled' /\ AcceptedOnce'
  BY <1>4, <1>5, <1>8, AcceptedFrame, Zenon DEF NoneAccepted
<1>10. SessionsOfActiveUsers'
  BY <1>1, <1>8, SMTT(30) DEF AccountsInv, AccountsType, SessionsOfActiveUsers
<1>11. AdminKept
  <2>1. CASE admin' = admin \ {q.user} /\ admin' # admin
    <3>1. adminDeleted \/ \E v \in ActiveAdmins : v # q.user
      BY <1>1, <1>2, <2>1, SMTT(30) DEF AnotherAdminFor
    <3>2. \A v \in ActiveAdmins : v # q.user => v \in admin' /\ Active(v)'
      BY <1>8, <2>1, Zenon DEF ActiveAdmins, AccountsInv, AccountsType
    <3> QED
      BY <1>1, <3>1, <3>2, Zenon DEF AdminKept, ActiveAdmins
  <2>2. CASE admin \subseteq admin'
    BY <1>8, <2>2, Zenon DEF AdminKept, ActiveAdmins, AccountsInv, AccountsType
  <2> QED
    BY <1>1, <2>1, <2>2, Zenon
<1> QED
  BY <1>1, <1>4, <1>5, <1>6, <1>7, <1>9, <1>10, <1>11, <1>20, Zenon DEF AccountsInv

\* The disabling of a user commits, with the end of their sessions and pending
\* invitations.
LEMMA DisableCommitKeeps ==
    ASSUME AccountsInv, NEW r \in Requests, DisableCommit(r)
    PROVE  AccountsInv' /\ AdminKept
<1> DEFINE q == request[r]
           S == PendingOf(q.user)
<1>1. /\ q.step = "revoke" /\ Finish(r) /\ Release(r)
      /\ \A i \in S : Free(i)
      /\ status' = [status EXCEPT ![q.user] = "disabled"]
      /\ signedIn' = signedIn \ {q.user}
      /\ invite' = [i \in Invites |-> IF i \in S THEN [invite[i] EXCEPT !.state = "revoked"]
                                               ELSE invite[i]]
      /\ UNCHANGED <<admin, link, adminDeleted>>
  BY Zenon DEF DisableCommit, Revoked
<1>20. /\ request' \in [Requests -> RequestRow] /\ RequestsInHand'
       /\ \A o \in Requests \ {r} : request'[o] = request[o]
       /\ LocksHeldBy(r)' /\ AnotherAdminFor(r)'
  BY <1>1, Ended
<1>2. q.user \in Users /\ AnotherAdminFor(r) /\ q.change = "disable"
  BY <1>1 DEF AccountsInv, RequestsInHand, InHand, AnotherAdmin
<1>3. S \in SUBSET Invites /\ \A i \in S : Pending(i)
  BY Zenon DEF PendingOf
<1> HIDE DEF S
<1>4. /\ invite' \in [Invites -> InviteRow \cup {None}]
      /\ \A i \in Invites : HasRow(i)' => HasRow(i) /\ invite'[i].user = invite[i].user
      /\ \A i \in Invites \ S : Pending(i) => Pending(i)'
      /\ \A i \in Invites : HasRow(i)' /\ invite'[i].state = "accepted" =>
            HasRow(i) /\ invite[i].state = "accepted" /\ invite'[i].user = invite[i].user
  <2>1. invite' = [i \in Invites |-> IF i \in S THEN [invite[i] EXCEPT !.state = "revoked"]
                                                 ELSE invite[i]]
    BY <1>1, Zenon
  <2>2. "revoked" \in {"revoked", "expired"}
    OBVIOUS
  <2>3. AccountsType
    BY DEF AccountsInv
  <2> QED
    BY <1>3, <2>1, <2>2, <2>3, InvitesEnd, Zenon
<1>5. Benign(r) /\ NoneAccepted
  BY <1>1, <1>4, InstanceLockable DEF Benign, LinksStay, NoneAccepted, Free
<1>6. LockedPending'
  <2>1. ASSUME NEW j \in Invites, lock'[j] # None PROVE Pending(j)'
    <3>1. lock[j] # None
      BY <1>1, <2>1, ReleasedInvites, Zenon
    <3>2. Pending(j) /\ j \notin S
      BY <1>1, <3>1 DEF AccountsInv, LockedPending, Free
    <3> QED
      BY <1>4, <3>2, Zenon
  <2> QED
    BY <2>1 DEF LockedPending, Free
<1>7. /\ lock' \in [Lockable -> Requests \cup {None}]
      /\ \A x \in Lockable, o \in Requests \ {r} : lock[x] = o => lock'[x] = o
  BY <1>1, Released DEF AccountsInv
<1>8. AccountsType'
  BY <1>1, <1>2, <1>4, <1>7, <1>20, Zenon DEF AccountsInv, AccountsType
<1>9. AnotherAdmin'
  BY <1>1, OneChange, Zenon
<1>10. LocksHeld'
  BY <1>1, <1>5, <1>7, <1>20, StepLocks
<1>11. /\ \A u \in Users : status[u] \notin {"none", "invited"} => status'[u] \notin {"none", "invited"}
       /\ \A u \in Users \ {q.user} : Active(u) => Active(u)'
  BY <1>1, <1>2, Zenon DEF AccountsInv, AccountsType, Active
<1>12. AcceptedSettled' /\ AcceptedOnce'
  BY <1>5, <1>8, <1>11, AcceptedFrame, Zenon DEF NoneAccepted
<1>13. SessionsOfActiveUsers'
  BY <1>1, <1>11, Zenon DEF AccountsInv, AccountsType, SessionsOfActiveUsers
<1>14. AdminKept
  BY <1>1, <1>2, <1>11, SMTT(30) DEF AdminKept, AnotherAdminFor, ActiveAdmins, AccountsInv, AccountsType
<1> QED
  BY <1>1, <1>6, <1>8, <1>9, <1>10, <1>12, <1>13, <1>14, <1>20, SMTT(30) DEF AccountsInv

\* The deletion of an account commits, with the end of its rows.
LEMMA DeleteCommitKeeps ==
    ASSUME AccountsInv, NEW r \in Requests, DeleteCommit(r)
    PROVE  AccountsInv' /\ AdminKept
<1> DEFINE u == request[r].user
           issued == {i \in Invites : HasRow(i) /\ u \in {invite[i].user, invite[i].by}}
           owned == {l \in Links : link[l] # None /\ link[l].user = u}
<1>1. /\ request[r].step = "delete" /\ Finish(r)
      /\ \A x \in issued \cup owned : Free(x)
      /\ status' = [status EXCEPT ![u] = "deleted"]
      /\ admin' = admin \ {u}
      /\ signedIn' = signedIn \ {u}
      /\ link' = [l \in Links |-> IF l \in owned THEN None ELSE link[l]]
      /\ invite' = [i \in Invites |-> IF i \in issued THEN None ELSE invite[i]]
      /\ adminDeleted' = (adminDeleted \/ u \in ActiveAdmins)
      /\ lock' = lock
  BY SMTT(30) DEF DeleteCommit
<1>20. /\ request' \in [Requests -> RequestRow] /\ RequestsInHand'
       /\ \A o \in Requests \ {r} : request'[o] = request[o]
       /\ LocksHeldBy(r)' /\ AnotherAdminFor(r)'
  BY <1>1, Ended, Zenon
<1>2. u \in Users
  BY <1>1, Zenon DEF AccountsInv, RequestsInHand, InHand
<1> HIDE DEF u, issued, owned
<1>3. /\ link' \in [Links -> LinkRow \cup {None}] /\ invite' \in [Invites -> InviteRow \cup {None}]
      /\ \A l \in Links : ~Free(l) => link'[l] = link[l]
      /\ \A i \in Invites : ~Free(i) => invite'[i] = invite[i]
      /\ \A i \in Invites : invite'[i] # None => invite'[i] = invite[i]
  BY <1>1, SMTT(30) DEF AccountsInv, AccountsType
<1>4. Benign(r)
  <2>1. LinksStay(r)
    BY <1>3, InstanceLockable, Zenon DEF LinksStay, Free
  <2>2. \A i \in Invites : lock[i] \in Requests \ {r} /\ Pending(i) => Pending(i)'
    BY <1>3, InstanceLockable, Zenon DEF Pending, HasRow, Free
  <2>3. \A i \in Invites : invite'[i] # None => invite[i] # None /\ invite'[i].user = invite[i].user
    BY <1>3, Zenon
  <2> QED
    BY <2>1, <2>2, <2>3, Zenon DEF Benign, HasRow
<1>5. NoneAccepted
  BY <1>3, Zenon DEF NoneAccepted, HasRow
<1>6. LockedPending'
  BY <1>1, <1>3, Zenon DEF AccountsInv, LockedPending, Free, Pending, HasRow
<1>7. AccountsType'
  BY <1>1, <1>2, <1>3, <1>20, Zenon DEF AccountsInv, AccountsType
<1>8. /\ \A v \in Users : status[v] \notin {"none", "invited"} => status'[v] \notin {"none", "invited"}
      /\ \A v \in Users \ {u} : Active(v) => Active(v)'
  BY <1>1, <1>2, Zenon DEF AccountsInv, AccountsType, Active
<1>9. adminDeleted' \/ Harmless
  <2>1. u \notin ActiveAdmins => ActiveAdmins \subseteq ActiveAdmins'
    BY <1>1, <1>8, Zenon DEF ActiveAdmins, AccountsInv, AccountsType
  <2>2. adminDeleted' <=> adminDeleted \/ u \in ActiveAdmins
    BY <1>1, Zenon
  <2> QED
    BY <1>8, <2>1, <2>2, Zenon DEF Harmless
<1>10. AnotherAdmin'
  <2>1. CASE adminDeleted'
    BY <2>1, Zenon DEF AnotherAdmin, AnotherAdminFor
  <2>2. CASE Harmless
    BY <1>20, <2>2, StepAdmins, SMTT(30)
  <2> QED
    BY <1>9, <2>1, <2>2
<1>11. LocksHeld'
  BY <1>1, <1>4, <1>20, StepLocks, SMTT(30)
<1>12. AcceptedSettled' /\ AcceptedOnce'
  BY <1>5, <1>7, <1>8, AcceptedFrame, Zenon DEF NoneAccepted
<1>13. SessionsOfActiveUsers'
  BY <1>1, <1>8, SMTT(30) DEF AccountsInv, AccountsType, SessionsOfActiveUsers
<1>14. AdminKept
  BY <1>9, Zenon DEF AdminKept, Harmless
<1> QED
  BY <1>1, <1>6, <1>7, <1>10, <1>11, <1>12, <1>13, <1>14, <1>20, SMTT(30) DEF AccountsInv

-----------------------------------------------------------------------------
(* The invariant and the theorems.                                         *)

\* No account, no request, no lock.
LEMMA InitHolds == Init => AccountsInv
<1> SUFFICES ASSUME Init PROVE AccountsInv
  BY Zenon
<1>1. AccountsType
  <2>1. request \in [Requests -> RequestRow]
    BY IdleRow, Zenon DEF Init
  <2>2. adminDeleted \in BOOLEAN
    BY Zenon DEF Init
  <2>3. status \in [Users -> {"none", "invited", "active", "disabled", "deleted"}]
    BY DEF Init
  <2>4. /\ link \in [Links -> LinkRow \cup {None}] /\ invite \in [Invites -> InviteRow \cup {None}]
        /\ lock \in [Lockable -> Requests \cup {None}] /\ admin = {} /\ signedIn = {}
    BY DEF Init
  <2> QED
    BY <2>1, <2>2, <2>3, <2>4 DEF AccountsType
<1>2. \A r \in Requests : request[r] = Idle
  BY DEF Init
<1>3. RequestsInHand
  BY <1>2, IdleRow DEF RequestsInHand
<1>4. LocksHeld /\ AnotherAdmin
  BY <1>2, IdleRow, Zenon DEF LocksHeld, LocksHeldBy, AnotherAdmin, AnotherAdminFor
<1>5. \A i \in Invites : ~HasRow(i) /\ Free(i)
  BY InstanceLockable, Zenon DEF Init, HasRow, Free
<1>6. LockedPending /\ AcceptedSettled /\ AcceptedOnce
  BY <1>5, Zenon DEF LockedPending, AcceptedSettled, AcceptedOnce
<1>7. SessionsOfActiveUsers
  BY DEF Init, SessionsOfActiveUsers
<1> QED
  BY <1>1, <1>3, <1>4, <1>6, <1>7, SMTT(30) DEF AccountsInv

\* Every step keeps the invariant and the last administrator.
LEMMA NextHolds == AccountsInv /\ [Next]_vars => AccountsInv' /\ (AdminKept \/ UNCHANGED vars)
<1> SUFFICES ASSUME AccountsInv, [Next]_vars PROVE AccountsInv' /\ (AdminKept \/ UNCHANGED vars)
  BY Zenon
<1>1. CASE UNCHANGED vars
  <2>1. UNCHANGED <<status, admin, signedIn, link, invite, lock, request, adminDeleted>>
    BY <1>1, Zenon DEF vars, users
  <2>2. AccountsType'
    BY <2>1, Zenon DEF AccountsInv, AccountsType
  <2>3. Benign(None) /\ NoneAccepted
    BY <2>1, BenignKept DEF AccountsInv, LinksStay
  <2>4. Harmless /\ SessionsOfActiveUsers'
    BY <2>1 DEF AccountsInv, Harmless, ActiveAdmins, Active, SessionsOfActiveUsers
  <2> QED
    BY <1>1, <2>1, <2>2, <2>3, <2>4, QuietFrame, SMTT(30)
<1>2. CASE \E u \in Users : Bootstrap(u) \/ PromoteAdmin(u) \/ DeleteSession(u)
  BY <1>2, BootstrapKeeps, ExpiryKeeps
<1>3. CASE \E l \in Links : ExpireLink(l)
  BY <1>3, ExpiryKeeps
<1>4. CASE \E i \in Invites : RevokeInvite(i) \/ ExpireInvite(i)
  BY <1>4, EndInviteKeeps
<1>5. ASSUME NEW r \in Requests, Begin(r) PROVE AccountsInv' /\ AdminKept
  BY <1>5, RequestMagicLinkKeeps, StartKeeps, AcceptFindKeeps, ChangeBeginKeeps, Zenon DEF Begin
<1>6. ASSUME NEW r \in Requests, Continue(r) PROVE AccountsInv' /\ AdminKept
  BY <1>6, CreateMagicLinkKeeps, VerifyConsumeKeeps, VerifyCommitKeeps, InviteCommitKeeps,
     InviteRevokeKeeps, AcceptConsumeKeeps, AcceptCommitKeeps, ChangeCommitKeeps,
     DisableUpdateKeeps, DisableCommitKeeps, DeleteCommitKeeps, RollbackKeeps, SMTT(30) DEF Continue
<1> QED
  BY <1>1, <1>2, <1>3, <1>4, <1>5, <1>6, SMTT(30) DEF Next

\* No session ever belongs to a user that is not active, whatever logins,
\* acceptances, status changes and deletions run at the same time.
THEOREM SessionsOfActiveUsersHolds == Spec => []SessionsOfActiveUsers
<1>1. AccountsInv => SessionsOfActiveUsers
  BY DEF AccountsInv
<1>2. AccountsInv /\ [Next]_vars => AccountsInv'
  BY NextHolds
<1> QED
  BY <1>1, <1>2, InitHolds, PTL DEF Spec

\* However many invitations of a user are live and however their acceptances
\* interleave, at most one is accepted.
THEOREM AcceptedOnceHolds == Spec => []AcceptedOnce
<1>1. AccountsInv => AcceptedOnce
  BY DEF AccountsInv
<1>2. AccountsInv /\ [Next]_vars => AccountsInv'
  BY NextHolds, SMTT(30)
<1> QED
  BY <1>1, <1>2, InitHolds, PTL DEF Spec

\* The lock on the instance row keeps an active administrator, for any number
\* of concurrent status and role changes, as long as no active administrator
\* has deleted their account.
THEOREM AdminRemainsHolds == Spec => AdminRemains
<1>1. AccountsInv /\ [Next]_vars => AccountsInv'
  BY NextHolds, SMTT(30)
<1>2. AccountsInv /\ [Next]_vars => [AdminKept]_vars
  BY NextHolds
<1> QED
  BY <1>1, <1>2, InitHolds, PTL DEF Spec, AdminRemains

=============================================================================
