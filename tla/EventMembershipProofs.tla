----------------------- MODULE EventMembershipProofs ------------------------
(***************************************************************************)
(* Who runs an event, for any number of users, invites and requests.       *)
(***************************************************************************)
EXTENDS EventMembership, FiniteSetTheorems, TLAPS

Request ==
    [step : {"idle", "revoke", "count", "accept", "join", "remove", "transfer", "delete", "grants", "forget"},
     actor : Users \cup {None}, user : Users \cup {None}, invite : Invites \cup {None},
     invited : BOOLEAN, owns : BOOLEAN, rows : SUBSET Users, heir : Users \cup {None}]

MembershipTypes ==
    /\ status \in [Users -> {"none", "invited", "active", "deleted"}]
    /\ role \in [Users -> {"none", "cohost", "owner"}]
    /\ invite \in [Invites -> Invitation \cup {None}]
    /\ held \in Requests \cup {None}
    /\ claimed \in [Invites -> Requests \cup {None}]
    /\ request \in [Requests -> Request]
    /\ exists \in BOOLEAN

Live == {i \in Invites : Pending(i) /\ invite[i].live}

\* What a request in flight can rely on: a claimed invitation stays pending until
\* whoever claimed it commits, and a transfer holds the lock of the event.
Reliance(r) ==
    LET q == request[r] IN
    /\ \A i \in Invites : claimed[i] = r => q.step = "join" \/ (q.step = "count" /\ q.invited)
    /\ q.step \in {"accept", "join"} => q.invite \in Invites
    /\ q.step \in {"revoke", "count", "accept", "join", "remove", "transfer", "delete", "grants", "forget"}
          => q.user \in Users
    /\ q.step \in {"revoke", "count"} => q.actor \in Users
    /\ q.step = "join" => claimed[q.invite] = r
    /\ q.step = "transfer" => held = r /\ role[q.user] # "owner"

\* CommitmentsBounded is not inductive: the limit bounds the co-hosts a limit was
\* checked for and the live invitations, and an event has one owner at most.
MembershipInv ==
    /\ MembershipTypes
    /\ \A r \in Requests : Reliance(r)
    /\ \A i \in Invites : claimed[i] # None => Pending(i)
    /\ \A u, v \in Owners : u = v
    /\ beyond \subseteq CoHosts
    /\ Cardinality(CoHosts \ beyond) + Cardinality(Live) <= MaxCoHosts

\* Sets of users and of invitations are finite.
LEMMA FiniteRows ==
    /\ \A S \in SUBSET Users : IsFiniteSet(S) /\ Cardinality(S) \in Nat
    /\ \A S \in SUBSET Invites : IsFiniteSet(S) /\ Cardinality(S) \in Nat
BY MembershipAssumption, FS_Subset, FS_CardinalityType

\* The co-hosts with a place of their own and the live invitations only shrink.
LEMMA FewerPlaces ==
    ASSUME NEW A \in SUBSET Users, NEW B \in SUBSET Invites, NEW C, NEW D,
           C \subseteq A, D \subseteq B, Cardinality(A) + Cardinality(B) <= MaxCoHosts
    PROVE  Cardinality(C) + Cardinality(D) <= MaxCoHosts
<1>1. /\ IsFiniteSet(A) /\ Cardinality(A) \in Nat /\ IsFiniteSet(B) /\ Cardinality(B) \in Nat
      /\ Cardinality(C) \in Nat /\ Cardinality(D) \in Nat
  <2>1. C \in SUBSET Users /\ D \in SUBSET Invites
    OBVIOUS
  <2> QED
    BY <2>1, FiniteRows
<1>2. Cardinality(C) <= Cardinality(A) /\ Cardinality(D) <= Cardinality(B)
  BY <1>1, FS_Subset
<1> QED
  BY <1>1, <1>2, MembershipAssumption

\* The rest of the state, once owners, claims and places are accounted for.
LEMMA MembershipStarts == Init => MembershipInv
<1> SUFFICES ASSUME Init PROVE MembershipInv
  OBVIOUS
<1>1. MembershipTypes
  <2>1. Idle \in Request
    BY DEF Idle, Request
  <2> QED
    BY <2>1, MembershipAssumption DEF Init, MembershipTypes
<1>2. CoHosts = {} /\ Live = {} /\ Owners = {Owner}
  BY MembershipAssumption DEF Init, CoHosts, Live, Owners, Pending, HasRow
<1>3. Cardinality(CoHosts \ beyond) + Cardinality(Live) <= MaxCoHosts
  <2>1. CoHosts \ beyond = {}
    BY <1>2
  <2> QED
    BY <1>2, <2>1, FS_EmptySet, MembershipAssumption
<1>4. \A r \in Requests : request[r].step = "idle"
  BY DEF Init, Idle
<1>5. \A i \in Invites : claimed[i] = None
  BY DEF Init
<1>6. \A r \in Requests : Reliance(r)
  BY <1>4, <1>5, MembershipAssumption DEF Reliance
<1> QED
  BY <1>1, <1>2, <1>3, <1>5, <1>6 DEF Init, MembershipInv

\* A request that is idle takes its first step and claims nothing.
LEMMA BeginsKeeps ==
    ASSUME MembershipInv, NEW r \in Requests, NEW q \in Request, request[r] = Idle,
           request' = [request EXCEPT ![r] = q],
           UNCHANGED <<status, role, invite, claimed, beyond, exists>>,
           held' = held \/ (held = None /\ held' = r),
           q.step \in {"revoke", "accept", "remove", "transfer", "delete", "grants"},
           q.user \in Users, q.step = "revoke" => q.actor \in Users,
           q.step = "accept" => q.invite \in Invites,
           q.step = "transfer" => held' = r /\ role[q.user] # "owner"
    PROVE  MembershipInv'
<1>1. /\ request' \in [Requests -> Request] /\ request'[r] = q
      /\ \A o \in Requests \ {r} : request'[o] = request[o]
  BY DEF MembershipInv, MembershipTypes
<1>2. MembershipTypes'
  BY <1>1 DEF MembershipInv, MembershipTypes
<1>3. request[r].step = "idle"
  BY DEF Idle
<1>4. ASSUME NEW o \in Requests PROVE Reliance(o)'
  <2>1. Reliance(o) /\ Reliance(r)
    BY DEF MembershipInv
  <2>2. CASE o = r
    BY <1>1, <1>3, <2>1, <2>2 DEF Reliance
  <2>3. CASE o # r
    BY <1>1, <2>1, <2>3, MembershipAssumption DEF Reliance
  <2> QED
    BY <2>2, <2>3
<1>5. Live' = Live /\ CoHosts' = CoHosts /\ Owners' = Owners /\ \A i \in Invites : Pending(i)' = Pending(i)
  BY DEF Live, CoHosts, Owners, Pending, HasRow
<1> QED
  BY <1>2, <1>4, <1>5 DEF MembershipInv

\* The steps that start a request.
LEMMA BeginKeeps ==
    ASSUME MembershipInv, NEW r \in Requests, Begin(r)
    PROVE  MembershipInv'
<1>1. ASSUME NEW a \in Users, NEW u \in Users, SponsorBegin(r, a, u) PROVE MembershipInv'
  <2> DEFINE c == (status[u] = "invited")
             q == [Idle EXCEPT !.step = "revoke", !.actor = a, !.user = u, !.invited = c]
  <2>1. /\ request[r] = Idle /\ request' = [request EXCEPT ![r] = q] /\ held = None /\ held' = r
        /\ UNCHANGED <<status, role, invite, claimed, beyond, exists>>
    BY <1>1 DEF SponsorBegin, Start
  <2>2. c \in BOOLEAN
    OBVIOUS
  <2> HIDE DEF c
  <2>3. q \in Request /\ q.step = "revoke" /\ q.user = u /\ q.actor = a
    BY <2>2, Zenon DEF Idle, Request
  <2> HIDE DEF q
  <2> QED
    BY <2>1, <2>3, BeginsKeeps, Zenon
<1>2. ASSUME NEW a \in Users, NEW u \in Users, RemoveFind(r, a, u) PROVE MembershipInv'
  <2> DEFINE q == [Idle EXCEPT !.step = "remove", !.user = u]
  <2>1. /\ request[r] = Idle /\ request' = [request EXCEPT ![r] = q]
        /\ UNCHANGED <<status, role, invite, claimed, beyond, exists, held>>
    BY <1>2 DEF RemoveFind, Start
  <2>2. q \in Request /\ q.step = "remove" /\ q.user = u
    BY Zenon DEF Idle, Request
  <2> HIDE DEF q
  <2> QED
    BY <2>1, <2>2, BeginsKeeps, Zenon
<1>3. ASSUME NEW a \in Users, NEW u \in Users, TransferBegin(r, a, u) PROVE MembershipInv'
  <2> DEFINE q == [Idle EXCEPT !.step = "transfer", !.actor = a, !.user = u]
  <2>1. /\ request[r] = Idle /\ request' = [request EXCEPT ![r] = q] /\ held = None /\ held' = r
        /\ UNCHANGED <<status, role, invite, claimed, beyond, exists>> /\ role[u] # "owner"
    BY <1>3 DEF TransferBegin, Start
  <2>2. q \in Request /\ q.step = "transfer" /\ q.user = u
    BY Zenon DEF Idle, Request
  <2> HIDE DEF q
  <2> QED
    BY <2>1, <2>2, BeginsKeeps, Zenon
<1>4. ASSUME NEW i \in Invites, AcceptFind(r, i) PROVE MembershipInv'
  <2> DEFINE u == invite[i].user
             q == [Idle EXCEPT !.step = "accept", !.user = u, !.invite = i]
  <2>1. /\ request[r] = Idle /\ request' = [request EXCEPT ![r] = q] /\ Pending(i)
        /\ UNCHANGED <<status, role, invite, claimed, beyond, exists, held>>
    BY <1>4 DEF AcceptFind, Start
  <2>2. u \in Users
    BY <2>1 DEF Pending, HasRow, Invitation, MembershipInv, MembershipTypes
  <2> HIDE DEF u
  <2>3. q \in Request /\ q.step = "accept" /\ q.user = u /\ q.invite = i
    BY <2>2, Zenon DEF Idle, Request
  <2> HIDE DEF q
  <2> QED
    BY <2>1, <2>2, <2>3, BeginsKeeps, Zenon
<1>5. ASSUME NEW u \in Users, DeleteBegin(r, u) PROVE MembershipInv'
  <2> DEFINE w == IF exists /\ role[u] = "owner" THEN "delete" ELSE "grants"
             q == [Idle EXCEPT !.step = w, !.user = u]
  <2>1. /\ request[r] = Idle /\ request' = [request EXCEPT ![r] = q]
        /\ UNCHANGED <<status, role, invite, claimed, beyond, exists, held>>
    BY <1>5 DEF DeleteBegin, Start
  <2>2. w \in {"delete", "grants"}
    OBVIOUS
  <2> HIDE DEF w
  <2>3. q \in Request /\ q.step = w /\ q.user = u
    BY <2>2, Zenon DEF Idle, Request
  <2> HIDE DEF q
  <2> QED
    BY <2>1, <2>2, <2>3, BeginsKeeps, Zenon
<1> QED
  BY <1>1, <1>2, <1>3, <1>4, <1>5 DEF Begin

\* Whoever releases keeps no lock and takes none from others.
LEMMA ReleaseHolds ==
    ASSUME MembershipInv, NEW r \in Requests, Release(r)
    PROVE  /\ held' = held \/ (held = r /\ held' = None)
           /\ claimed' \in [Invites -> Requests \cup {None}]
           /\ \A i \in Invites : claimed'[i] # r /\ (claimed'[i] = claimed[i] \/ (claimed[i] = r /\ claimed'[i] = None))
BY MembershipAssumption DEF Release, MembershipInv, MembershipTypes

\* A request ends, with a commit or without.
LEMMA EndsKeeps ==
    ASSUME MembershipInv, NEW r \in Requests, Finish(r),
           held' = held \/ (held = r /\ held' = None),
           claimed' \in [Invites -> Requests \cup {None}],
           \A i \in Invites : claimed'[i] # r /\ (claimed'[i] = claimed[i] \/ (claimed[i] = r /\ claimed'[i] = None)),
           exists' \in BOOLEAN,
           status' \in [Users -> {"none", "invited", "active", "deleted"}],
           role' \in [Users -> {"none", "cohost", "owner"}],
           invite' \in [Invites -> Invitation \cup {None}],
           \A i \in Invites : Pending(i) /\ claimed[i] \notin {None, r} => Pending(i)',
           Owners' \subseteq Owners \/ held = r,
           \A u, v \in Owners' : u = v,
           beyond' \subseteq CoHosts',
           Cardinality(CoHosts' \ beyond') + Cardinality(Live') <= MaxCoHosts
    PROVE  MembershipInv'
<1>1. Idle \in Request /\ Idle.step = "idle"
  BY DEF Idle, Request
<1>2. /\ request' \in [Requests -> Request] /\ request'[r] = Idle
      /\ \A o \in Requests \ {r} : request'[o] = request[o]
  BY <1>1 DEF Finish, MembershipInv, MembershipTypes
<1>3. MembershipTypes'
  BY <1>2 DEF MembershipInv, MembershipTypes
<1>4. \A i \in Invites : claimed'[i] # None => Pending(i)'
  BY DEF MembershipInv
<1>5. ASSUME NEW o \in Requests PROVE Reliance(o)'
  <2>1. Reliance(o)
    BY DEF MembershipInv
  <2>2. CASE o = r
    BY <1>1, <1>2, <2>2 DEF Reliance
  <2>3. CASE o # r
    <3>1. request'[o] = request[o] /\ \A i \in Invites : claimed'[i] = o <=> claimed[i] = o
      BY <1>2, <2>3, MembershipAssumption, Zenon
    <3>2. request[o].step = "transfer" => held' = o /\ role'[request[o].user] # "owner"
      <4> SUFFICES ASSUME request[o].step = "transfer" PROVE held' = o /\ role'[request[o].user] # "owner"
        BY Zenon
      <4>1. held = o /\ role[request[o].user] # "owner" /\ request[o].user \in Users
        BY <2>1 DEF Reliance
      <4> QED
        BY <2>3, <4>1 DEF Owners
    <3> QED
      BY <2>1, <3>1, <3>2, Zenon DEF Reliance
  <2> QED
    BY <2>2, <2>3
<1> QED
  BY <1>3, <1>4, <1>5 DEF MembershipInv

\* A request goes on; it may take the lock of the event or claim invitations
\* that are pending.
LEMMA GoesOn ==
    ASSUME MembershipInv, NEW r \in Requests, NEW q \in Request,
           request' = [request EXCEPT ![r] = q],
           UNCHANGED <<status, role, invite, beyond, exists>>,
           held' = held \/ (held = None /\ held' = r),
           claimed' \in [Invites -> Requests \cup {None}],
           \A i \in Invites : claimed'[i] = claimed[i] \/ (claimed[i] = None /\ claimed'[i] = r /\ Pending(i)),
           \A i \in Invites : claimed'[i] = r => q.step = "join" \/ (q.step = "count" /\ q.invited),
           q.step \in {"count", "join", "grants", "forget"},
           q.user \in Users, q.step = "count" => q.actor \in Users,
           q.step = "join" => q.invite \in Invites /\ claimed'[q.invite] = r
    PROVE  MembershipInv'
<1>1. /\ request' \in [Requests -> Request] /\ request'[r] = q
      /\ \A o \in Requests \ {r} : request'[o] = request[o]
  BY Zenon DEF MembershipInv, MembershipTypes
<1>2. MembershipTypes'
  BY <1>1, Zenon DEF MembershipInv, MembershipTypes
<1>3. ASSUME NEW o \in Requests PROVE Reliance(o)'
  <2>1. Reliance(o)
    BY DEF MembershipInv
  <2>2. CASE o = r
    BY <1>1, <2>2 DEF Reliance
  <2>3. CASE o # r
    <3>1. request'[o] = request[o] /\ \A i \in Invites : claimed'[i] = o <=> claimed[i] = o
      BY <1>1, <2>3, MembershipAssumption
    <3>2. held = o => held' = o
      BY MembershipAssumption
    <3> QED
      BY <2>1, <3>1, <3>2, Zenon DEF Reliance
  <2> QED
    BY <2>2, <2>3
<1>4. Live' = Live /\ CoHosts' = CoHosts /\ Owners' = Owners /\ \A i \in Invites : Pending(i)' = Pending(i)
  BY DEF Live, CoHosts, Owners, Pending, HasRow
<1>5. \A i \in Invites : claimed'[i] # None => Pending(i)'
  BY <1>4 DEF MembershipInv
<1> QED
  BY <1>2, <1>3, <1>4, <1>5 DEF MembershipInv

\* The steps between the first and the last.
LEMMA MiddleKeeps ==
    ASSUME MembershipInv, NEW r \in Requests,
           SponsorRevoke(r) \/ AcceptConsume(r) \/ DeleteOwned(r) \/ DeleteGrants(r)
    PROVE  MembershipInv'
<1>1. Reliance(r) /\ request[r] \in Request
  BY DEF MembershipInv, MembershipTypes
<1>2. CASE SponsorRevoke(r)
  <2> DEFINE revoked == IF request[r].invited THEN PendingOf(request[r].user) ELSE {}
             q == [request[r] EXCEPT !.step = "count"]
  <2>1. /\ request[r].step = "revoke" /\ request' = [request EXCEPT ![r] = q]
        /\ \A i \in revoked : claimed[i] = None
        /\ claimed' = [i \in Invites |-> IF i \in revoked THEN r ELSE claimed[i]]
        /\ UNCHANGED <<status, role, invite, beyond, exists, held>>
    BY <1>2, Zenon DEF SponsorRevoke
  <2>2. /\ \A i \in revoked : Pending(i) /\ request[r].invited
        /\ revoked \subseteq Invites
    BY DEF PendingOf
  <2>3. q \in Request /\ q.step = "count" /\ q.user \in Users /\ q.actor \in Users /\ q.invited = request[r].invited
    BY <1>1, <2>1 DEF Request, Reliance
  <2> HIDE DEF q, revoked
  <2>4. \A i \in Invites : claimed[i] # r
    BY <1>1, <2>1, Zenon DEF Reliance
  <2>5. claimed' \in [Invites -> Requests \cup {None}]
    BY <2>1 DEF MembershipInv, MembershipTypes
  <2>6. \A i \in Invites : claimed'[i] = claimed[i] \/ (claimed[i] = None /\ claimed'[i] = r /\ Pending(i))
    BY <2>1, <2>2, Zenon
  <2>7. \A i \in Invites : claimed'[i] = r => q.invited
    BY <2>1, <2>2, <2>3, <2>4, Zenon
  <2> QED
    BY <2>1, <2>3, <2>5, <2>6, <2>7, GoesOn, Zenon
<1>3. CASE AcceptConsume(r)
  <2> DEFINE q == [request[r] EXCEPT !.step = "join"]
             i == request[r].invite
  <2>1. /\ request[r].step = "accept" /\ request' = [request EXCEPT ![r] = q]
        /\ claimed[i] = None /\ Pending(i) /\ claimed' = [claimed EXCEPT ![i] = r]
        /\ UNCHANGED <<status, role, invite, beyond, exists, held>>
    BY <1>3, Zenon DEF AcceptConsume
  <2>2. q \in Request /\ q.step = "join" /\ q.user \in Users /\ q.invite = i /\ i \in Invites
    BY <1>1, <2>1 DEF Request, Reliance
  <2> HIDE DEF q, i
  <2>3. claimed' \in [Invites -> Requests \cup {None}] /\ claimed'[i] = r
        /\ \A j \in Invites \ {i} : claimed'[j] = claimed[j]
    BY <2>1, <2>2 DEF MembershipInv, MembershipTypes
  <2>4. \A j \in Invites : claimed'[j] = claimed[j] \/ (claimed[j] = None /\ claimed'[j] = r /\ Pending(j))
    BY <2>1, <2>3
  <2>5. claimed' \in [Invites -> Requests \cup {None}] /\ claimed'[q.invite] = r /\ q.invite \in Invites
    BY <2>2, <2>3, Zenon
  <2> QED
    BY <2>1, <2>2, <2>4, <2>5, GoesOn, Zenon
<1>4. CASE DeleteOwned(r)
  <2> DEFINE q == [request[r] EXCEPT !.step = "grants", !.owns = exists]
  <2>1. /\ request[r].step = "delete" /\ request' = [request EXCEPT ![r] = q]
        /\ held = None /\ held' = r /\ UNCHANGED <<status, role, invite, beyond, exists, claimed>>
    BY <1>4, Zenon DEF DeleteOwned, MembershipInv, MembershipTypes
  <2>2. q \in Request /\ q.step = "grants" /\ q.user \in Users
    BY <1>1, <2>1, Zenon DEF Request, Reliance, MembershipInv, MembershipTypes
  <2> HIDE DEF q
  <2>3. \A i \in Invites : claimed[i] # r
    BY <1>1, <2>1 DEF Reliance
  <2>4. claimed' \in [Invites -> Requests \cup {None}]
    BY <2>1 DEF MembershipInv, MembershipTypes
  <2> QED
    BY <2>1, <2>2, <2>3, <2>4, GoesOn, Zenon
<1>5. CASE DeleteGrants(r)
  <2> DEFINE rows == IF request[r].owns THEN {} ELSE GrantedBy(request[r].user)
  <2>1. PICK heir \in IF rows = {} THEN {None} ELSE Owners :
            request' = [request EXCEPT ![r].step = "forget", ![r].rows = rows, ![r].heir = heir]
    BY <1>5, Zenon DEF DeleteGrants
  <2> DEFINE q == [request[r] EXCEPT !.step = "forget", !.rows = rows, !.heir = heir]
  <2>2. rows \in SUBSET Users /\ heir \in Users \cup {None}
    BY DEF GrantedBy, Owners
  <2>3. /\ request[r].step = "grants" /\ request' = [request EXCEPT ![r] = q]
        /\ UNCHANGED <<status, role, invite, beyond, exists, claimed, held>>
    BY <1>5, <2>1, Zenon DEF DeleteGrants, MembershipInv, MembershipTypes
  <2> HIDE DEF rows
  <2>4. q \in Request /\ q.step = "forget" /\ q.user \in Users
    BY <1>1, <2>2, <2>3, Zenon DEF Request, Reliance
  <2> HIDE DEF q
  <2>5. \A i \in Invites : claimed[i] # r
    BY <1>1, <2>3, Zenon DEF Reliance
  <2>6. claimed' \in [Invites -> Requests \cup {None}]
    BY <2>3 DEF MembershipInv, MembershipTypes
  <2> QED
    BY <2>3, <2>4, <2>5, <2>6, GoesOn, Zenon
<1> QED
  BY <1>2, <1>3, <1>4, <1>5

\* What is left of a finite set.
LEMMA Without ==
    ASSUME NEW B, NEW K \in SUBSET B, IsFiniteSet(B)
    PROVE  Cardinality(B \ K) = Cardinality(B) - Cardinality(K)
<1>1. B \cap K = K
  OBVIOUS
<1>2. Cardinality(B \ K) = Cardinality(B) - Cardinality(B \cap K)
  BY FS_Difference
<1> QED
  BY <1>1, <1>2, Zenon

\* One user more with a place of their own.
LEMMA PlaceTaken ==
    ASSUME NEW A \in SUBSET Users, NEW B \in SUBSET Invites, NEW C, NEW D, NEW u \in Users, NEW K \in SUBSET B,
           C \subseteq A \cup {u}, D \subseteq B \ K, Cardinality(A) + Cardinality(B) - Cardinality(K) < MaxCoHosts
    PROVE  Cardinality(C) + Cardinality(D) <= MaxCoHosts
<1>1. A \cup {u} \in SUBSET Users /\ C \in SUBSET Users /\ D \in SUBSET Invites /\ B \ K \in SUBSET Invites /\ K \in SUBSET Invites
  OBVIOUS
<1>2. /\ IsFiniteSet(A) /\ Cardinality(A) \in Nat /\ IsFiniteSet(B) /\ Cardinality(B) \in Nat
      /\ Cardinality(C) \in Nat /\ Cardinality(D) \in Nat /\ Cardinality(K) \in Nat
      /\ IsFiniteSet(A \cup {u}) /\ Cardinality(A \cup {u}) \in Nat
      /\ IsFiniteSet(B \ K) /\ Cardinality(B \ K) \in Nat
  BY <1>1, FiniteRows
<1>3. Cardinality(C) <= Cardinality(A \cup {u}) /\ Cardinality(D) <= Cardinality(B \ K)
  BY <1>2, FS_Subset
<1>4. Cardinality(A \cup {u}) <= Cardinality(A) + 1
  BY <1>2, FS_AddElement
<1>5. Cardinality(B \ K) = Cardinality(B) - Cardinality(K)
  BY <1>2, Without
<1> QED
  BY <1>2, <1>3, <1>4, <1>5, MembershipAssumption

\* One invitation more, in place of some that are revoked.
LEMMA InvitationMade ==
    ASSUME NEW A \in SUBSET Users, NEW B \in SUBSET Invites, NEW K \in SUBSET B, NEW D, NEW i \in Invites,
           D \subseteq (B \ K) \cup {i}, Cardinality(A) + Cardinality(B) - Cardinality(K) < MaxCoHosts
    PROVE  Cardinality(A) + Cardinality(D) <= MaxCoHosts
<1>1. (B \ K) \cup {i} \in SUBSET Invites /\ D \in SUBSET Invites /\ B \ K \in SUBSET Invites /\ K \in SUBSET Invites
  OBVIOUS
<1>2. /\ Cardinality(A) \in Nat /\ IsFiniteSet(B) /\ Cardinality(B) \in Nat
      /\ Cardinality(D) \in Nat /\ Cardinality(K) \in Nat
      /\ IsFiniteSet(B \ K) /\ Cardinality(B \ K) \in Nat
      /\ IsFiniteSet((B \ K) \cup {i}) /\ Cardinality((B \ K) \cup {i}) \in Nat
  BY <1>1, FiniteRows
<1>3. Cardinality(D) <= Cardinality((B \ K) \cup {i})
  BY <1>2, FS_Subset
<1>4. Cardinality((B \ K) \cup {i}) <= Cardinality(B \ K) + 1
  BY <1>2, FS_AddElement
<1>5. Cardinality(B \ K) = Cardinality(B) - Cardinality(K)
  BY <1>2, Without
<1> QED
  BY <1>2, <1>3, <1>4, <1>5, MembershipAssumption

\* The limit counts all co-hosts, so it bounds those with a place of their own.
LEMMA CountHolds ==
    ASSUME MembershipInv, NEW r \in Requests, CommitmentsBut(r) < MaxCoHosts
    PROVE  LET K == {i \in Live : claimed[i] = r} IN
           Cardinality(CoHosts \ beyond) + Cardinality(Live) - Cardinality(K) < MaxCoHosts
<1> DEFINE K == {i \in Live : claimed[i] = r}
           N == CoHosts \ beyond
<1>1. /\ Cardinality(CoHosts) \in Nat /\ Cardinality(N) \in Nat /\ Cardinality(Live) \in Nat /\ Cardinality(K) \in Nat
      /\ Cardinality(N) <= Cardinality(CoHosts)
  <2>1. CoHosts \in SUBSET Users /\ N \in SUBSET Users /\ Live \in SUBSET Invites /\ K \in SUBSET Invites /\ N \subseteq CoHosts
    BY DEF CoHosts, Live
  <2> HIDE DEF N, K
  <2> QED
    BY <2>1, FiniteRows, FS_Subset
<1>2. {i \in Invites : claimed[i] = r /\ invite[i].live} = K
  BY MembershipAssumption DEF Live, MembershipInv
<1>3. Cardinality(CoHosts) + Cardinality(Live) - Cardinality(K) < MaxCoHosts
  <2>1. Commitments = Cardinality(CoHosts) + Cardinality(Live)
    BY DEF Commitments, Live
  <2> HIDE DEF K
  <2>2. CommitmentsBut(r) = Commitments - Cardinality(K)
    BY <1>2, Zenon DEF CommitmentsBut
  <2>3. Commitments - Cardinality(K) < MaxCoHosts
    BY <2>2
  <2> QED
    BY <1>1, <2>1, <2>3
<1> HIDE DEF N, K
<1>4. Cardinality(N) + Cardinality(Live) - Cardinality(K) < MaxCoHosts
  BY <1>1, <1>3, MembershipAssumption
<1> QED
  BY <1>4 DEF N, K

\* Below the limit there is room for what a sponsor adds.
LEMMA SponsorCommitKeeps ==
    ASSUME MembershipInv, NEW r \in Requests, NEW i \in Invites, SponsorCommit(r, i)
    PROVE  MembershipInv'
<1> DEFINE q == request[r]
           K == {j \in Live : claimed[j] = r}
           N == CoHosts \ beyond
<1>1. /\ q.step = "count" /\ q.user \in Users /\ q.actor \in Users
      /\ \A j \in Invites : claimed[j] = r => q.invited
      /\ Release(r) /\ Finish(r) /\ UNCHANGED <<exists, beyond>> /\ exists \in BOOLEAN
  BY Zenon DEF SponsorCommit, MembershipInv, MembershipTypes, Reliance
<1>2. Cardinality(N) + Cardinality(Live) - Cardinality(K) < MaxCoHosts
  BY CountHolds, Zenon DEF SponsorCommit
<1>3. N \in SUBSET Users /\ Live \in SUBSET Invites /\ K \in SUBSET Live
  BY DEF CoHosts, Live
<1>4. CASE status[q.user] = "active" /\ ~q.invited
  <2>1. /\ role[q.user] = "none" /\ role' = [role EXCEPT ![q.user] = "cohost"]
        /\ UNCHANGED <<status, invite>>
    BY <1>4, Zenon DEF SponsorCommit, SponsorInsert
  <2>2. role' \in [Users -> {"none", "cohost", "owner"}] /\ role'[q.user] = "cohost"
        /\ \A v \in Users \ {q.user} : role'[v] = role[v]
    BY <1>1, <2>1, Zenon DEF MembershipInv, MembershipTypes
  <2>3. Owners' = Owners /\ CoHosts' = CoHosts \cup {q.user}
    BY <1>1, <2>1, <2>2 DEF Owners, CoHosts
  <2>4. Live' = Live /\ \A j \in Invites : Pending(j)' = Pending(j)
    BY <2>1, Zenon DEF Live, Pending, HasRow
  <2>5. K = {}
    BY <1>1, <1>3, <1>4, Zenon DEF Live
  <2>6. Cardinality(CoHosts' \ beyond') + Cardinality(Live') <= MaxCoHosts
    <3>1. CoHosts' \ beyond' \subseteq N \cup {q.user} /\ Live' \subseteq Live \ K
      BY <1>1, <2>3, <2>4, <2>5, Zenon
    <3> HIDE DEF N, K, q
    <3> QED
      BY <1>1, <1>2, <1>3, <3>1, PlaceTaken
  <2>7. /\ beyond' \subseteq CoHosts' /\ \A u, v \in Owners' : u = v
        /\ status' \in [Users -> {"none", "invited", "active", "deleted"}]
        /\ invite' \in [Invites -> Invitation \cup {None}]
    BY <1>1, <2>1, <2>3, Zenon DEF MembershipInv, MembershipTypes
  <2> HIDE DEF N, K, q
  <2> QED
    BY <1>1, <2>2, <2>3, <2>4, <2>6, <2>7, ReleaseHolds, EndsKeeps, Zenon
<1>5. CASE ~(status[q.user] = "active" /\ ~q.invited)
  <2> DEFINE new == [user |-> q.user, by |-> q.actor, state |-> "pending", live |-> TRUE]
  <2>1. /\ ~HasRow(i) /\ invite' = [AfterRevocation(r) EXCEPT ![i] = new]
        /\ status' = IF status[q.user] = "none" THEN [status EXCEPT ![q.user] = "invited"] ELSE status
        /\ UNCHANGED role
    BY <1>5, Zenon DEF SponsorCommit, SponsorInsert
  <2>2. new \in Invitation
    BY <1>1, Zenon DEF Invitation
  <2> HIDE DEF new
  <2>3. /\ invite'[i] = new
        /\ \A j \in Invites \ {i} : claimed[j] # r => invite'[j] = invite[j]
        /\ \A j \in Invites \ {i} : claimed[j] = r => invite'[j] = [invite[j] EXCEPT !.state = "revoked"]
        /\ DOMAIN invite' = Invites
    BY <2>1 DEF AfterRevocation
  <2>4. \A j \in Invites : claimed[j] = r => Pending(j) /\ invite[j] \in Invitation
    BY MembershipAssumption DEF MembershipInv, MembershipTypes, Pending, HasRow
  <2>5. \A j \in Invites \ {i} : claimed[j] = r => invite'[j] \in Invitation /\ invite'[j].state = "revoked"
    BY <2>3, <2>4 DEF Invitation
  <2>6. invite' \in [Invites -> Invitation \cup {None}]
    <3>1. \A j \in Invites : invite'[j] \in Invitation \cup {None}
      BY <2>2, <2>3, <2>5 DEF MembershipInv, MembershipTypes
    <3>2. invite' = [j \in Invites |-> invite'[j]]
      BY <2>1, <2>3, Zenon DEF AfterRevocation
    <3> QED
      BY <3>1, <3>2
  <2>7. Live' \subseteq (Live \ K) \cup {i}
    <3> SUFFICES ASSUME NEW j \in Live', j # i PROVE j \in Live /\ claimed[j] # r
      OBVIOUS
    <3>1. j \in Invites /\ Pending(j)' /\ invite'[j].live
      BY DEF Live
    <3>2. claimed[j] # r
      BY <2>5, <3>1 DEF Pending
    <3> QED
      BY <2>3, <3>1, <3>2 DEF Live, Pending, HasRow
  <2>8. \A j \in Invites : Pending(j) /\ claimed[j] \notin {None, r} => Pending(j)'
    <3> SUFFICES ASSUME NEW j \in Invites, Pending(j), claimed[j] \notin {None, r} PROVE Pending(j)'
      BY SMTT(30)
    <3>1. j # i
      BY <2>1 DEF Pending
    <3> QED
      BY <2>3, <3>1 DEF Pending, HasRow
  <2>9. Owners' = Owners /\ CoHosts' = CoHosts /\ role' \in [Users -> {"none", "cohost", "owner"}]
    BY <2>1, Zenon DEF Owners, CoHosts, MembershipInv, MembershipTypes
  <2>10. Cardinality(CoHosts' \ beyond') + Cardinality(Live') <= MaxCoHosts
    <3>1. CoHosts' \ beyond' = N
      BY <1>1, <2>9, Zenon
    <3> HIDE DEF N, K, q
    <3> QED
      BY <1>2, <1>3, <2>7, <3>1, InvitationMade, Zenon
  <2>11. /\ beyond' \subseteq CoHosts' /\ \A u, v \in Owners' : u = v
         /\ status' \in [Users -> {"none", "invited", "active", "deleted"}]
    BY <1>1, <2>1, <2>9, Zenon DEF MembershipInv, MembershipTypes
  <2> HIDE DEF N, K, q
  <2> QED
    BY <1>1, <2>6, <2>8, <2>9, <2>10, <2>11, ReleaseHolds, EndsKeeps, Zenon
<1> QED
  BY <1>4, <1>5, Zenon

\* An acceptance takes the place of its invitation; one that expired is beyond.
LEMMA AcceptCommitKeeps ==
    ASSUME MembershipInv, NEW r \in Requests, AcceptCommit(r)
    PROVE  MembershipInv'
<1> DEFINE u == request[r].user
           i == request[r].invite
           N == CoHosts \ beyond
<1>1. /\ u \in Users /\ i \in Invites /\ claimed[i] = r /\ Pending(i) /\ invite[i] \in Invitation
      /\ role[u] = "none" /\ role' = [role EXCEPT ![u] = "cohost"]
      /\ status' = [status EXCEPT ![u] = "active"]
      /\ invite' = [invite EXCEPT ![i].state = "accepted"]
      /\ beyond' = IF invite[i].live THEN beyond ELSE beyond \cup {u}
      /\ Release(r) /\ Finish(r) /\ UNCHANGED exists /\ exists \in BOOLEAN
  BY MembershipAssumption DEF AcceptCommit, MembershipInv, MembershipTypes, Reliance, Pending, HasRow
<1> HIDE DEF u, i
<1>2. role' \in [Users -> {"none", "cohost", "owner"}] /\ role'[u] = "cohost"
      /\ \A v \in Users \ {u} : role'[v] = role[v]
  BY <1>1 DEF MembershipInv, MembershipTypes
<1>3. Owners' = Owners /\ CoHosts' = CoHosts \cup {u} /\ u \notin CoHosts
  BY <1>1, <1>2 DEF Owners, CoHosts
<1> DEFINE new == [invite[i] EXCEPT !.state = "accepted"]
<1>4. invite' = [invite EXCEPT ![i] = new] /\ new \in Invitation /\ new.state = "accepted"
  BY <1>1 DEF Invitation, MembershipInv, MembershipTypes
<1> HIDE DEF new
<1>5. /\ invite' \in [Invites -> Invitation \cup {None}] /\ invite'[i] = new
      /\ \A j \in Invites \ {i} : invite'[j] = invite[j]
  BY <1>1, <1>4 DEF MembershipInv, MembershipTypes
<1>6. Live' = Live \ {i} /\ (invite[i].live => i \in Live)
  BY <1>1, <1>4, <1>5 DEF Live, Pending, HasRow
<1>7. \A j \in Invites : Pending(j) /\ claimed[j] \notin {None, r} => Pending(j)'
  BY <1>1, <1>5 DEF Pending, HasRow
<1>8. N \in SUBSET Users /\ Live \in SUBSET Invites /\ Cardinality(N) + Cardinality(Live) <= MaxCoHosts
  BY DEF CoHosts, Live, MembershipInv
<1>9. Cardinality(CoHosts' \ beyond') + Cardinality(Live') <= MaxCoHosts
  <2>1. CASE invite[i].live
    <3>1. CoHosts' \ beyond' \subseteq N \cup {u} /\ Live' \subseteq Live \ {i} /\ {i} \in SUBSET Live
      BY <1>1, <1>3, <1>6, <2>1
    <3>2. Cardinality(N) + Cardinality(Live) - Cardinality({i}) < MaxCoHosts
      <4>1. Cardinality({i}) = 1
        BY FS_Singleton, Zenon
      <4>2. Cardinality(N) \in Nat /\ Cardinality(Live) \in Nat
        BY <1>8, FiniteRows
      <4> HIDE DEF N
      <4> QED
        BY <1>8, <4>1, <4>2, MembershipAssumption
    <3> HIDE DEF N
    <3> QED
      BY <1>1, <1>8, <3>1, <3>2, PlaceTaken
  <2>2. CASE ~invite[i].live
    <3>1. CoHosts' \ beyond' \subseteq N /\ Live' \subseteq Live
      BY <1>1, <1>3, <1>6, <2>2
    <3> HIDE DEF N
    <3> QED
      BY <1>8, <3>1, FewerPlaces
  <2> QED
    BY <2>1, <2>2
<1>10. /\ beyond' \subseteq CoHosts' /\ \A v, w \in Owners' : v = w
       /\ status' \in [Users -> {"none", "invited", "active", "deleted"}]
  BY <1>1, <1>3 DEF MembershipInv, MembershipTypes
<1> QED
  BY <1>1, <1>2, <1>3, <1>5, <1>7, <1>9, <1>10, ReleaseHolds, EndsKeeps, SMTT(30)

\* A removal takes a co-host, never the owner.
LEMMA RemoveDeleteKeeps ==
    ASSUME MembershipInv, NEW r \in Requests, RemoveDelete(r)
    PROVE  MembershipInv' /\ Owners' = Owners
<1> DEFINE u == request[r].user
           left == IF role[u] = "cohost" THEN {u} ELSE {}
<1>1. /\ request[r].step = "remove" /\ u \in Users
      /\ role' = [v \in Users |-> IF v \in left THEN "none" ELSE role[v]]
      /\ beyond' = beyond \ left /\ Finish(r)
      /\ UNCHANGED <<status, exists, invite, held, claimed>>
  BY Zenon DEF RemoveDelete, MembershipInv, Reliance
<1>2. left \subseteq CoHosts
  BY <1>1, Zenon DEF CoHosts
<1> HIDE DEF left, u
<1>3. role' \in [Users -> {"none", "cohost", "owner"}]
  BY <1>1 DEF MembershipInv, MembershipTypes
<1>4. Owners' = Owners /\ CoHosts' = CoHosts \ left
  BY <1>1, <1>2 DEF Owners, CoHosts
<1>5. Live' = Live /\ \A j \in Invites : Pending(j)' = Pending(j)
  BY <1>1, Zenon DEF Live, Pending, HasRow
<1>6. Cardinality(CoHosts' \ beyond') + Cardinality(Live') <= MaxCoHosts
  <2>1. CoHosts \ beyond \in SUBSET Users /\ Live \in SUBSET Invites
    BY DEF CoHosts, Live
  <2>2. CoHosts' \ beyond' \subseteq CoHosts \ beyond /\ Live' \subseteq Live
    BY <1>1, <1>4, <1>5, Zenon
  <2> QED
    BY <2>1, <2>2, FewerPlaces DEF MembershipInv
<1>7. \A i \in Invites : claimed[i] # r
  BY <1>1, Zenon DEF MembershipInv, Reliance
<1>8. /\ beyond' \subseteq CoHosts' /\ \A v, w \in Owners' : v = w
      /\ status' \in [Users -> {"none", "invited", "active", "deleted"}]
      /\ invite' \in [Invites -> Invitation \cup {None}] /\ exists' \in BOOLEAN
      /\ claimed' \in [Invites -> Requests \cup {None}]
  BY <1>1, <1>4, Zenon DEF MembershipInv, MembershipTypes
<1> QED
  BY <1>1, <1>3, <1>4, <1>5, <1>6, <1>7, <1>8, EndsKeeps, Zenon

\* A transfer changes places: the old owner takes that of the new one or is
\* beyond.
LEMMA TransferCommitKeeps ==
    ASSUME MembershipInv, NEW r \in Requests, TransferCommit(r)
    PROVE  MembershipInv' /\ Owners' = {request[r].user}
<1> DEFINE u == request[r].user
           N == CoHosts \ beyond
<1>1. /\ u \in Users /\ held = r /\ role[u] # "owner"
      /\ role' = [v \in Users |-> IF v = u THEN "owner" ELSE IF v \in Owners THEN "cohost" ELSE role[v]]
      /\ beyond' = IF u \in N THEN beyond ELSE (beyond \ {u}) \cup Owners
      /\ Release(r) /\ Finish(r) /\ UNCHANGED <<status, exists, invite>>
  BY Zenon DEF TransferCommit, MembershipInv, Reliance
<1> HIDE DEF u
<1>2. role' \in [Users -> {"none", "cohost", "owner"}]
  BY <1>1 DEF MembershipInv, MembershipTypes
<1>3. Owners' = {u} /\ CoHosts' = (CoHosts \ {u}) \cup Owners /\ u \notin Owners
  BY <1>1 DEF Owners, CoHosts
<1>4. Live' = Live /\ \A j \in Invites : Pending(j)' = Pending(j)
  BY <1>1 DEF Live, Pending, HasRow
<1>5. N \in SUBSET Users /\ Live \in SUBSET Invites /\ Cardinality(N) + Cardinality(Live) <= MaxCoHosts
  BY SMTT(30) DEF CoHosts, Live, MembershipInv
<1>6. Cardinality(CoHosts' \ beyond') + Cardinality(Live') <= MaxCoHosts
  <2>1. CASE u \in N /\ Owners # {}
    <3>1. PICK o \in Owners : Owners = {o}
      BY <2>1, Zenon DEF MembershipInv
    <3>2. CoHosts' \ beyond' \subseteq (N \ {u}) \cup {o} /\ Live' \subseteq Live \ {} /\ {} \in SUBSET Live
      BY <1>1, <1>3, <1>4, <2>1, <3>1
    <3>3. o \in Users /\ N \ {u} \in SUBSET Users
      BY <1>5, Zenon DEF Owners
    <3>4. Cardinality(N \ {u}) + Cardinality(Live) - Cardinality({}) < MaxCoHosts
      <4>1. IsFiniteSet(N) /\ Cardinality(N) \in Nat /\ Cardinality(Live) \in Nat
        BY <1>5, FiniteRows, Zenon
      <4> HIDE DEF N
      <4>2. Cardinality(N \ {u}) = Cardinality(N) - 1
        BY <2>1, <4>1, FS_RemoveElement, Zenon
      <4>3. Cardinality({}) = 0
        BY FS_EmptySet
      <4> QED
        BY <1>5, <4>1, <4>2, <4>3, MembershipAssumption
    <3> HIDE DEF N
    <3> QED
      BY <1>5, <3>2, <3>3, <3>4, PlaceTaken, Zenon
  <2>2. CASE ~(u \in N /\ Owners # {})
    <3>1. CoHosts' \ beyond' \subseteq N /\ Live' \subseteq Live
      BY <1>1, <1>3, <1>4, <2>2
    <3> HIDE DEF N
    <3> QED
      BY <1>5, <3>1, FewerPlaces, SMTT(30)
  <2> QED
    BY <2>1, <2>2
<1>7. beyond' \subseteq CoHosts'
  BY <1>1, <1>3, Zenon DEF MembershipInv
<1>8. /\ \A v, w \in Owners' : v = w
      /\ status' \in [Users -> {"none", "invited", "active", "deleted"}]
      /\ invite' \in [Invites -> Invitation \cup {None}] /\ exists' \in BOOLEAN
  BY <1>1, <1>3, Zenon DEF MembershipInv, MembershipTypes
<1>9. MembershipInv'
  BY <1>1, <1>2, <1>4, <1>6, <1>7, <1>8, ReleaseHolds, EndsKeeps, Zenon
<1> QED
  BY <1>3, <1>9 DEF u

\* A deletion takes the memberships of a user, or of everybody with the event.
LEMMA DeleteCommitKeeps ==
    ASSUME MembershipInv, NEW r \in Requests, DeleteCommit(r)
    PROVE  MembershipInv' /\ \E u \in Users : status'[u] = "deleted" /\ status[u] # "deleted"
<1> DEFINE q == request[r]
<1>1. /\ q.step = "forget" /\ q.user \in Users /\ status[q.user] # "deleted"
      /\ \A i \in GoneInvites(q) : claimed[i] = None
      /\ status' = [status EXCEPT ![q.user] = "deleted"]
      /\ role' = [v \in Users |-> IF q.owns \/ v = q.user THEN "none" ELSE role[v]]
      /\ exists' = (exists /\ ~q.owns)
      /\ invite' = [i \in Invites |-> IF i \in GoneInvites(q) THEN None ELSE invite[i]]
      /\ beyond' = {v \in beyond : role'[v] # "none"}
      /\ Release(r) /\ Finish(r)
  BY Zenon DEF DeleteCommit, MembershipInv, Reliance
<1> HIDE DEF q
<1>2. /\ role' \in [Users -> {"none", "cohost", "owner"}]
      /\ \A v \in Users : role'[v] # "none" => role'[v] = role[v]
  BY <1>1, Zenon DEF MembershipInv, MembershipTypes
<1>3. /\ status' \in [Users -> {"none", "invited", "active", "deleted"}]
      /\ status'[q.user] = "deleted"
  BY <1>1, Zenon DEF MembershipInv, MembershipTypes
<1>4. invite' \in [Invites -> Invitation \cup {None}] /\ exists' \in BOOLEAN
  BY <1>1, Zenon DEF MembershipInv, MembershipTypes
<1>5. Owners' \subseteq Owners /\ CoHosts' \ beyond' \subseteq CoHosts \ beyond /\ beyond' \subseteq CoHosts'
  BY <1>1, <1>2, Zenon DEF Owners, CoHosts, MembershipInv, MembershipTypes
<1>6. Live' \subseteq Live
  BY <1>1, Zenon DEF Live, Pending, HasRow
<1>7. \A i \in Invites : Pending(i) /\ claimed[i] \notin {None, r} => Pending(i)'
  BY <1>1, Zenon DEF Pending, HasRow
<1>8. Cardinality(CoHosts' \ beyond') + Cardinality(Live') <= MaxCoHosts
  <2>1. CoHosts \ beyond \in SUBSET Users /\ Live \in SUBSET Invites
    BY SMTT(30) DEF CoHosts, Live
  <2> QED
    BY <1>5, <1>6, <2>1, FewerPlaces DEF MembershipInv
<1>9. \A u, v \in Owners' : u = v
  BY <1>5, SMTT(30) DEF MembershipInv
<1>10. MembershipInv'
  BY <1>1, <1>2, <1>3, <1>4, <1>5, <1>7, <1>8, <1>9, ReleaseHolds, EndsKeeps, SMTT(30)
<1> QED
  BY <1>1, <1>3, <1>10, Zenon

\* A request that fails changes nothing but the locks.
LEMMA RollbackKeeps ==
    ASSUME MembershipInv, NEW r \in Requests, Rollback(r)
    PROVE  MembershipInv'
<1>1. Release(r) /\ Finish(r) /\ UNCHANGED <<status, role, exists, invite, beyond>>
  BY Zenon DEF Rollback
<1>2. Live' = Live /\ CoHosts' = CoHosts /\ Owners' = Owners /\ \A i \in Invites : Pending(i)' = Pending(i)
  BY <1>1 DEF Live, CoHosts, Owners, Pending, HasRow
<1>3. /\ status' \in [Users -> {"none", "invited", "active", "deleted"}]
      /\ role' \in [Users -> {"none", "cohost", "owner"}]
      /\ invite' \in [Invites -> Invitation \cup {None}] /\ exists' \in BOOLEAN
      /\ beyond' \subseteq CoHosts' /\ \A u, v \in Owners' : u = v
      /\ Cardinality(CoHosts' \ beyond') + Cardinality(Live') <= MaxCoHosts
  BY <1>1, <1>2, Zenon DEF MembershipInv, MembershipTypes
<1> QED
  BY <1>1, <1>2, <1>3, ReleaseHolds, EndsKeeps, Zenon

\* A step outside the requests: an administrator joins, an invitation expires.
LEMMA OutsideKeeps ==
    ASSUME MembershipInv, UNCHANGED <<status, exists, held, claimed, request>>,
           role' \in [Users -> {"none", "cohost", "owner"}],
           invite' \in [Invites -> Invitation \cup {None}],
           \A i \in Invites : Pending(i) => Pending(i)',
           Owners' = Owners, beyond' \subseteq CoHosts',
           CoHosts' \ beyond' \subseteq CoHosts \ beyond, Live' \subseteq Live
    PROVE  MembershipInv'
<1>1. ASSUME NEW o \in Requests PROVE Reliance(o)'
  <2>1. Reliance(o)
    BY Zenon DEF MembershipInv
  <2>2. \A u \in Users : role'[u] = "owner" => role[u] = "owner"
    BY DEF Owners
  <2> QED
    BY <2>1, <2>2, Zenon DEF Reliance
<1>2. MembershipTypes'
  BY Zenon DEF MembershipInv, MembershipTypes
<1>3. Cardinality(CoHosts' \ beyond') + Cardinality(Live') <= MaxCoHosts
  <2>1. CoHosts \ beyond \in SUBSET Users /\ Live \in SUBSET Invites
    BY Zenon DEF CoHosts, Live
  <2> QED
    BY <2>1, FewerPlaces DEF MembershipInv
<1> QED
  BY <1>1, <1>2, <1>3, Zenon DEF MembershipInv

\* AddSelf takes a seat beyond the limit, which is recorded.
LEMMA AddSelfKeeps ==
    ASSUME MembershipInv, NEW a \in Users, AddSelf(a)
    PROVE  MembershipInv' /\ Owners' = Owners
<1>1. /\ role[a] = "none" /\ role' = [role EXCEPT ![a] = "cohost"] /\ beyond' = beyond \cup {a}
      /\ UNCHANGED <<status, exists, invite, held, claimed, request>>
  BY Zenon DEF AddSelf
<1>2. role' \in [Users -> {"none", "cohost", "owner"}] /\ role'[a] = "cohost"
      /\ \A v \in Users \ {a} : role'[v] = role[v]
  BY <1>1, Zenon DEF MembershipInv, MembershipTypes
<1>3. Owners' = Owners /\ CoHosts' = CoHosts \cup {a}
  BY <1>1, <1>2 DEF Owners, CoHosts
<1>4. Live' = Live /\ \A i \in Invites : Pending(i)' = Pending(i)
  BY <1>1, Zenon DEF Live, Pending, HasRow
<1>5. invite' \in [Invites -> Invitation \cup {None}] /\ beyond \subseteq CoHosts
  BY <1>1 DEF MembershipInv, MembershipTypes
<1> QED
  BY <1>1, <1>2, <1>3, <1>4, <1>5, OutsideKeeps

\* An invite runs out.
LEMMA ExpireKeeps ==
    ASSUME MembershipInv, NEW i \in Invites, Expire(i)
    PROVE  MembershipInv'
<1> DEFINE new == [invite[i] EXCEPT !.live = FALSE]
<1>1. /\ Pending(i) /\ invite' = [invite EXCEPT ![i] = new]
      /\ UNCHANGED <<status, role, exists, held, claimed, request, beyond>>
      /\ invite[i] \in Invitation /\ invite[i].state = "pending"
  BY Zenon DEF Expire, Pending, HasRow, MembershipInv, MembershipTypes
<1>2. new \in Invitation /\ new.state = "pending" /\ ~new.live
  BY <1>1, Zenon DEF Invitation
<1> HIDE DEF new
<1>3. /\ invite' \in [Invites -> Invitation \cup {None}] /\ invite'[i] = new
      /\ \A j \in Invites \ {i} : invite'[j] = invite[j]
  BY <1>1, <1>2, Zenon DEF MembershipInv, MembershipTypes
<1>4. new # None
  BY <1>2, MembershipAssumption
<1>5. Live' \subseteq Live /\ \A j \in Invites : Pending(j) => Pending(j)'
  BY <1>2, <1>3, <1>4, Zenon DEF Live, Pending, HasRow
<1>6. CoHosts' = CoHosts /\ Owners' = Owners
  BY <1>1, Zenon DEF CoHosts, Owners
<1>7. role' \in [Users -> {"none", "cohost", "owner"}] /\ beyond' \subseteq CoHosts'
  BY <1>1, <1>6, Zenon DEF MembershipInv, MembershipTypes
<1> QED
  BY <1>1, <1>3, <1>5, <1>6, <1>7, OutsideKeeps, Zenon

\* Every step keeps the invariant.
LEMMA MembershipStep == MembershipInv /\ [Next]_vars => MembershipInv'
<1> SUFFICES ASSUME MembershipInv, [Next]_vars PROVE MembershipInv'
  BY Zenon
<1>1. ASSUME NEW r \in Requests, Continue(r) PROVE MembershipInv'
  BY <1>1, MiddleKeeps, SponsorCommitKeeps, AcceptCommitKeeps, RemoveDeleteKeeps, TransferCommitKeeps,
     DeleteCommitKeeps, RollbackKeeps, Zenon DEF Continue
<1>2. CASE UNCHANGED vars
  <2>1. Live' = Live /\ CoHosts' = CoHosts /\ Owners' = Owners /\ \A i \in Invites : Pending(i)' = Pending(i)
    BY <1>2, Zenon DEF vars, Live, CoHosts, Owners, Pending, HasRow
  <2> QED
    BY <1>2, <2>1, OutsideKeeps, Zenon DEF vars, MembershipInv, MembershipTypes
<1> QED
  BY <1>1, <1>2, BeginKeeps, AddSelfKeeps, ExpireKeeps DEF Next

\* However sponsoring, accepting, expiring, removing, transferring and deleting
\* interleave, and for any limit and any number of users, invitations and
\* requests: co-hosts and live invitations exceed MAX_COHOSTS_PER_EVENT by no
\* more than what came by a way that checks no limit.
THEOREM CommitmentsBoundedHolds == Spec => []CommitmentsBounded
<1>1. MembershipInv => CommitmentsBounded
  <2> SUFFICES ASSUME MembershipInv PROVE CommitmentsBounded
    OBVIOUS
  <2> DEFINE N == CoHosts \ beyond
  <2>1. N \in SUBSET Users /\ beyond \in SUBSET Users /\ Live \in SUBSET Invites /\ CoHosts \in SUBSET Users
        /\ beyond \in SUBSET CoHosts
    BY Zenon DEF CoHosts, Live, MembershipInv
  <2>2. /\ Cardinality(N) \in Nat /\ Cardinality(beyond) \in Nat /\ Cardinality(Live) \in Nat
        /\ IsFiniteSet(CoHosts) /\ Cardinality(CoHosts) \in Nat
    BY <2>1, FiniteRows
  <2>3. Cardinality(N) = Cardinality(CoHosts) - Cardinality(beyond)
    BY <2>1, <2>2, Without
  <2>4. Cardinality(N) + Cardinality(Live) <= MaxCoHosts
    BY DEF MembershipInv
  <2>5. Commitments = Cardinality(CoHosts) + Cardinality(Live)
    BY DEF Commitments, Live
  <2> HIDE DEF N
  <2> QED
    BY <2>2, <2>3, <2>4, <2>5, MembershipAssumption, SMTT(30) DEF CommitmentsBounded
<1> QED
  BY <1>1, MembershipStarts, MembershipStep, PTL DEF Spec

\* Only the deletion of an account takes the owner of an event that remains;
\* a removal, a transfer, an acceptance or an administrator leaves exactly one.
THEOREM OwnerKeptHolds == Spec => OwnerKept
<1> DEFINE Kept == exists' /\ Owners # {} => \/ Cardinality(Owners') = 1
                                             \/ \E u \in Users : status'[u] = "deleted" /\ status[u] # "deleted"
<1>1. MembershipInv /\ [Next]_vars => [Kept]_vars
  <2> SUFFICES ASSUME MembershipInv, Next, Owners # {},
                      ~\E u \in Users : status'[u] = "deleted" /\ status[u] # "deleted"
               PROVE  Cardinality(Owners') = 1
    BY Zenon
  <2>1. PICK o \in Owners : Owners = {o}
    BY DEF MembershipInv
  <2>2. Owners' = Owners \/ \E r \in Requests : Owners' = {request[r].user}
    <3>1. ASSUME role' = role PROVE Owners' = Owners
      BY <3>1, Zenon DEF Owners
    <3>2. ASSUME NEW r \in Requests, NEW i \in Invites, SponsorCommit(r, i) PROVE Owners' = Owners
      <4>1. role' = role \/ \E u \in Users : role[u] = "none" /\ role' = [role EXCEPT ![u] = "cohost"]
        BY <3>2, Zenon DEF SponsorCommit, SponsorInsert, MembershipInv, Reliance
      <4> QED
        BY <4>1, Zenon DEF Owners, MembershipInv, MembershipTypes
    <3>3. ASSUME NEW r \in Requests, AcceptCommit(r) PROVE Owners' = Owners
      BY <3>3 DEF AcceptCommit, Owners, MembershipInv, MembershipTypes
    <3>4. ASSUME NEW r \in Requests, Begin(r) PROVE role' = role
      BY <3>4, Zenon DEF Begin, SponsorBegin, RemoveFind, TransferBegin, AcceptFind, DeleteBegin
    <3>5. ASSUME NEW r \in Requests,
                 SponsorRevoke(r) \/ AcceptConsume(r) \/ DeleteOwned(r) \/ DeleteGrants(r) \/ Rollback(r)
          PROVE  role' = role
      BY <3>5, Zenon DEF SponsorRevoke, AcceptConsume, DeleteOwned, DeleteGrants, Rollback
    <3>6. ASSUME NEW i \in Invites, Expire(i) PROVE role' = role
      BY <3>6, Zenon DEF Expire
    <3>7. ASSUME NEW a \in Users, AddSelf(a) PROVE Owners' = Owners
      BY <3>7, AddSelfKeeps, Zenon
    <3>8. ASSUME NEW r \in Requests, Continue(r)
          PROVE  Owners' = Owners \/ Owners' = {request[r].user}
      <4>1. CASE RemoveDelete(r)
        BY <4>1, RemoveDeleteKeeps, Zenon
      <4>2. CASE TransferCommit(r)
        BY <4>2, TransferCommitKeeps, Zenon
      <4>3. ~DeleteCommit(r)
        BY DeleteCommitKeeps, Zenon
      <4> QED
        BY <3>1, <3>2, <3>3, <3>5, <3>8, <4>1, <4>2, <4>3, Zenon DEF Continue
    <3> QED
      BY <3>1, <3>4, <3>6, <3>7, <3>8, Zenon DEF Next
  <2> QED
    BY <2>1, <2>2, FS_Singleton, Zenon
<1> QED
  BY <1>1, MembershipStarts, MembershipStep, PTL DEF Spec, OwnerKept

=============================================================================
