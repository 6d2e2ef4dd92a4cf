----------------------- MODULE InvitationAccessProofs -----------------------
(***************************************************************************)
(* Proofs about InvitationAccess, for any number of invitations, sessions, *)
(* tokens and concurrent requests and for any bounds, and about the import *)
(* that creates invitations (GuestImport), for files of any length.        *)
(***************************************************************************)
EXTENDS InvitationAccess, GuestImport, FiniteSetTheorems, TLAPS

\* A request that does nothing has well-formed local state.
LEMMA IdleOK == Idle \in RequestState /\ Idle.step = "idle"
  BY DEF Idle, RequestState, Steps

\* The columns of rows and the local state of requests are well formed from
\* the start.
LEMMA TypeInit == Init => TypeOK /\ RequestOK
  BY AccessAssumption DEF Init, TypeOK, RequestOK, Idle, RequestState, Steps

\* Every statement of every handler keeps them well formed.
LEMMA TypeStep == TypeOK /\ RequestOK /\ [Next]_vars => TypeOK' /\ RequestOK'
<1> SUFFICES ASSUME TypeOK, RequestOK, [Next]_vars
             PROVE  TypeOK' /\ RequestOK'
  OBVIOUS
<1> USE AccessAssumption
<1>1. ASSUME NEW i \in Invitations, CreatePrivate(i)
      PROVE  TypeOK' /\ RequestOK'
  BY <1>1 DEF CreatePrivate, TypeOK, RequestOK, Links
<1>2. ASSUME NEW i \in Invitations, NEW s \in Sessions, EnrollOpen(i, s)
      PROVE  TypeOK' /\ RequestOK'
  BY <1>2 DEF EnrollOpen, TypeOK, RequestOK, SessionRow
<1>3. ASSUME NEW r \in Requests, NEW i \in Invitations, DeliverRead(r, i)
      PROVE  TypeOK' /\ RequestOK'
  <2> DEFINE new == [Idle EXCEPT !.step = "send", !.outbox = {<<i, tokenVersion[i]>>}]
  <2>1. {<<i, tokenVersion[i]>>} \in SUBSET Links
    BY DEF TypeOK, Links
  <2>2. new \in RequestState /\ new.step = "send"
    BY <2>1, Zenon DEF Idle, RequestState, Steps
  <2> QED
    BY <1>3, <2>2 DEF DeliverRead, Start, TypeOK, RequestOK, rows
<1>4. ASSUME NEW r \in Requests, BroadcastRead(r)
      PROVE  TypeOK' /\ RequestOK'
  <2>1. PICK S \in SUBSET {i \in Invitations : Live(i)} :
             Start(r, [Idle EXCEPT !.step = "send",
                                   !.outbox = {<<i, tokenVersion[i]>> : i \in S}])
    BY <1>4, Zenon DEF BroadcastRead
  <2> DEFINE new == [Idle EXCEPT !.step = "send",
                                 !.outbox = {<<i, tokenVersion[i]>> : i \in S}]
  <2>2. {<<i, tokenVersion[i]>> : i \in S} \in SUBSET Links
    BY DEF TypeOK, Links
  <2>3. new \in RequestState /\ new.step = "send"
    BY <2>2, Zenon DEF Idle, RequestState, Steps
  <2> QED
    BY <1>4, <2>1, <2>3 DEF BroadcastRead, Start, TypeOK, RequestOK, rows
<1>5. ASSUME NEW r \in Requests, SendLink(r)
      PROVE  TypeOK' /\ RequestOK'
  <2>1. CASE \E l \in request[r].outbox :
               /\ links' \in {links, links \cup {l}}
               /\ request' = [request EXCEPT ![r].outbox = @ \ {l}]
    <3>1. PICK l \in request[r].outbox :
               /\ links' \in {links, links \cup {l}}
               /\ request' = [request EXCEPT ![r].outbox = @ \ {l}]
      BY <2>1, Zenon
    <3>2. l \in Links
      BY DEF TypeOK, RequestState
    <3>3. request' \in [Requests -> RequestState]
      <4>1. request[r] \in RequestState /\ request[r].outbox \ {l} \in SUBSET Links
        BY DEF TypeOK, RequestState
      <4>2. [request[r] EXCEPT !.outbox = @ \ {l}] \in RequestState
        BY <4>1 DEF RequestState
      <4> QED
        BY <3>1, <4>2 DEF TypeOK
    <3>4. \A q \in Requests : /\ request'[q].step = request[q].step
                              /\ request'[q].inv = request[q].inv
                              /\ request'[q].token = request[q].token
      BY <3>1 DEF TypeOK, RequestState
    <3> QED
      BY <1>5, <3>1, <3>2, <3>3, <3>4 DEF SendLink, TypeOK, RequestOK
  <2>2. CASE Finish(r) /\ UNCHANGED links
    BY <1>5, <2>2, IdleOK DEF SendLink, Finish, TypeOK, RequestOK
  <2> QED
    BY <1>5, <2>1, <2>2 DEF SendLink
<1>6. ASSUME NEW r \in Requests, ExchangeRead(r)
      PROVE  TypeOK' /\ RequestOK'
  <2>1. PICK l \in links :
             Start(r, [Idle EXCEPT !.step = "exchange", !.inv = l[1], !.version = l[2]])
    BY <1>6, Zenon DEF ExchangeRead
  <2> DEFINE new == [Idle EXCEPT !.step = "exchange", !.inv = l[1], !.version = l[2]]
  <2>2. l[1] \in Invitations /\ l[2] \in Nat
    BY DEF TypeOK, Links
  <2>3. new \in RequestState /\ new.step = "exchange" /\ new.inv \in Invitations
    BY <2>2, Zenon DEF Idle, RequestState, Steps
  <2> QED
    BY <1>6, <2>1, <2>3, Zenon DEF ExchangeRead, Start, TypeOK, RequestOK, rows
<1>7. ASSUME NEW r \in Requests, NEW s \in Sessions, CreateSession(r, s)
      PROVE  TypeOK' /\ RequestOK'
  BY <1>7 DEF CreateSession, Finish, Idle, TypeOK, RequestOK, RequestState, Steps, SessionRow
<1>8. ASSUME NEW r \in Requests, NEW i \in Invitations, RotateBegin(r, i)
      PROVE  TypeOK' /\ RequestOK'
  BY ZenonT(60), <1>8 DEF RotateBegin, OpenSessions, Start, Idle, TypeOK, RequestOK, rows, RequestState, Steps
<1>9. ASSUME NEW r \in Requests, RotateCommit(r)
      PROVE  TypeOK' /\ RequestOK'
  <2> DEFINE new == [Idle EXCEPT !.step = "rotated", !.inv = request[r].inv]
  <2>1. request[r].inv \in Invitations /\ request[r].seen \subseteq Sessions
    BY <1>9 DEF RotateCommit, TypeOK, RequestOK, RequestState
  <2>2. new \in RequestState /\ new.step = "rotated" /\ new.inv \in Invitations
    BY <2>1, Zenon DEF Idle, RequestState, Steps
  <2> QED
    BY <1>9, <2>1, <2>2 DEF RotateCommit, TypeOK, RequestOK
<1>10. ASSUME NEW r \in Requests, RotateReply(r)
       PROVE  TypeOK' /\ RequestOK'
  BY <1>10 DEF RotateReply, Finish, Idle, TypeOK, RequestOK, RequestState, Steps, Links
<1>11. ASSUME NEW r \in Requests, NEW i \in Invitations, RevokeBegin(r, i)
       PROVE  TypeOK' /\ RequestOK'
  BY ZenonT(60), <1>11 DEF RevokeBegin, OpenSessions, Start, Idle, TypeOK, RequestOK, rows, RequestState, Steps
<1>12. ASSUME NEW r \in Requests, RevokeCommit(r)
       PROVE  TypeOK' /\ RequestOK'
  BY <1>12 DEF RevokeCommit, Finish, Idle, TypeOK, RequestOK, RequestState, Steps
<1>13. ASSUME NEW r \in Requests, RecoveryFind(r)
       PROVE  TypeOK' /\ RequestOK'
  <2>1. PICK S \in SUBSET Invitations :
             Start(r, [Idle EXCEPT !.step = "recovery", !.matches = S])
    BY <1>13, Zenon DEF RecoveryFind
  <2> DEFINE new == [Idle EXCEPT !.step = "recovery", !.matches = S]
  <2>2. new \in RequestState /\ new.step = "recovery"
    BY Zenon DEF Idle, RequestState, Steps
  <2> QED
    BY <1>13, <2>1, <2>2 DEF RecoveryFind, Start, TypeOK, RequestOK, rows
<1>14. ASSUME NEW r \in Requests, NEW t \in Tokens, RecoveryIssue(r, t)
       PROVE  TypeOK' /\ RequestOK'
  <2>1. PICK i \in request[r].matches :
             /\ recovery' = [recovery EXCEPT ![t] = i]
             /\ \/ request' = [request EXCEPT ![r].matches = @ \ {i}]
                \/ Finish(r)
    BY <1>14, Zenon DEF RecoveryIssue
  <2>2. i \in Invitations
    BY DEF TypeOK, RequestState
  <2>3. request' \in [Requests -> RequestState]
    <3>1. CASE request' = [request EXCEPT ![r].matches = @ \ {i}]
      BY SMTT(60), <3>1 DEF TypeOK, RequestState
    <3>2. CASE Finish(r)
      BY <3>2, IdleOK DEF Finish, TypeOK
    <3> QED
      BY <2>1, <3>1, <3>2
  <2>4. \A q \in Requests : request'[q].step \in {"idle", "recovery"}
                           \/ request'[q] = request[q]
    BY <1>14, <2>1, IdleOK DEF RecoveryIssue, Finish, TypeOK, RequestState
  <2>5. \A u \in Tokens : recovery[u] # None => recovery'[u] = recovery[u]
    BY <1>14, <2>1 DEF RecoveryIssue, TypeOK
  <2> QED
    BY <1>14, <2>1, <2>2, <2>3, <2>4, <2>5 DEF RecoveryIssue, TypeOK, RequestOK
<1>15. ASSUME NEW r \in Requests, NEW t \in Tokens, RecoverSelect(r, t)
       PROVE  TypeOK' /\ RequestOK'
  BY ZenonT(60), <1>15 DEF RecoverSelect, Redeemable, Start, Idle, TypeOK, RequestOK, rows, RequestState, Steps
<1>16. ASSUME NEW r \in Requests, NEW s \in Sessions, RecoverCommit(r, s)
       PROVE  TypeOK' /\ RequestOK'
  BY <1>16 DEF RecoverCommit, Finish, Idle, TypeOK, RequestOK, RequestState, Steps, SessionRow
<1>17. ASSUME NEW r \in Requests, RecoverReject(r) \/ SubmitReject(r)
       PROVE  TypeOK' /\ RequestOK'
  BY <1>17 DEF RecoverReject, SubmitReject, Finish, Idle, TypeOK, RequestOK, rows, RequestState, Steps
<1>18. ASSUME NEW r \in Requests, NEW s \in Sessions, SubmitCheck(r, s)
       PROVE  TypeOK' /\ RequestOK'
  <2>1. session[s].inv \in Invitations
    BY <1>18 DEF SubmitCheck, Usable, HasRow, TypeOK, SessionRow
  <2>2. PICK v \in 1 .. response[session[s].inv] :
             Start(r, [Idle EXCEPT !.step = "submit", !.inv = session[s].inv, !.version = v])
    BY <1>18, Zenon DEF SubmitCheck
  <2> DEFINE new == [Idle EXCEPT !.step = "submit", !.inv = session[s].inv, !.version = v]
  <2>3. v \in Nat
    BY <2>1 DEF TypeOK
  <2>4. new \in RequestState /\ new.step = "submit" /\ new.inv \in Invitations
    BY <2>1, <2>3, Zenon DEF Idle, RequestState, Steps
  <2> QED
    BY <1>18, <2>2, <2>4 DEF SubmitCheck, Start, TypeOK, RequestOK, rows
<1>19. ASSUME NEW r \in Requests, SubmitCommit(r)
       PROVE  TypeOK' /\ RequestOK'
  BY <1>19 DEF SubmitCommit, Finish, Idle, TypeOK, RequestOK, RequestState, Steps
<1>20. ASSUME NEW x \in Sessions \cup Tokens, Expire(x)
       PROVE  TypeOK' /\ RequestOK'
  BY <1>20 DEF Expire, TypeOK, RequestOK, rows
<1>21. ASSUME NEW r \in Requests, Abort(r)
       PROVE  TypeOK' /\ RequestOK'
  BY <1>21, Zenon DEF Abort, Finish, Idle, TypeOK, RequestOK, rows, RequestState, Steps
<1>22. CASE UNCHANGED vars
  BY <1>22 DEF vars, rows, TypeOK, RequestOK
<1> QED
  BY <1>1, <1>2, <1>3, <1>4, <1>5, <1>6, <1>7, <1>8, <1>9, <1>10, <1>11, <1>12, <1>13,
     <1>14, <1>15, <1>16, <1>17, <1>18, <1>19, <1>20, <1>21, <1>22 DEF Next, Begin, Continue

\* The type invariant of the access model (TypeOK) holds in every behaviour.
THEOREM TypeCorrect == Spec => [](TypeOK /\ RequestOK)
  BY TypeInit, TypeStep, PTL DEF Spec

-----------------------------------------------------------------------------
\* token_version never decreases and a session row, once inserted, keeps its
\* columns: the two facts about the tables the other proofs rest on.
LEMMA RowsMonotone ==
    ASSUME TypeOK, RequestOK, [Next]_vars
    PROVE  /\ \A i \in Invitations : tokenVersion[i] <= tokenVersion'[i]
           /\ \A s \in Sessions : HasRow(s) => session'[s] = session[s]
<1>1. ASSUME NEW i \in Invitations, CreatePrivate(i) \/ \E s \in Sessions : EnrollOpen(i, s)
      PROVE  /\ \A j \in Invitations : tokenVersion[j] <= tokenVersion'[j]
             /\ \A s \in Sessions : HasRow(s) => session'[s] = session[s]
  BY <1>1 DEF CreatePrivate, EnrollOpen, Exists, HasRow, TypeOK
<1>2. ASSUME NEW r \in Requests, NEW s \in Sessions, CreateSession(r, s) \/ RecoverCommit(r, s)
      PROVE  /\ \A j \in Invitations : tokenVersion[j] <= tokenVersion'[j]
             /\ \A u \in Sessions : HasRow(u) => session'[u] = session[u]
  BY <1>2 DEF CreateSession, RecoverCommit, HasRow, TypeOK
<1>3. ASSUME NEW r \in Requests, RotateCommit(r)
      PROVE  /\ \A j \in Invitations : tokenVersion[j] <= tokenVersion'[j]
             /\ \A u \in Sessions : HasRow(u) => session'[u] = session[u]
  BY <1>3 DEF RotateCommit, TypeOK
<1>4. CASE UNCHANGED <<tokenVersion, session>>
  BY <1>4 DEF TypeOK
<1>5. ASSUME NEW r \in Requests,
             \/ Begin(r) \/ Abort(r)
             \/ \E t \in Tokens : RecoveryIssue(r, t)
             \/ SendLink(r) \/ RotateReply(r) \/ RevokeCommit(r) \/ RecoverReject(r)
             \/ SubmitCommit(r) \/ SubmitReject(r)
      PROVE  UNCHANGED <<tokenVersion, session>>
  BY <1>5, Zenon DEF Begin, DeliverRead, RotateBegin, RevokeBegin, SubmitCheck, RecoverSelect,
              BroadcastRead, ExchangeRead, RecoveryFind, Abort, RecoveryIssue, SendLink,
              RotateReply, RevokeCommit, RecoverReject, SubmitCommit, SubmitReject, rows
<1>6. ASSUME NEW x \in Sessions \cup Tokens, Expire(x)
      PROVE  UNCHANGED <<tokenVersion, session>>
  BY <1>6 DEF Expire, rows
<1>7. CASE UNCHANGED vars
  BY <1>7, <1>4 DEF vars, rows
<1> QED
  BY <1>1, <1>2, <1>3, <1>4, <1>5, <1>6, <1>7 DEF Next, Continue

\* A request only changes its own local state.
LEMMA OthersKeepState ==
    ASSUME TypeOK, NEW q \in Requests, NEW r \in Requests, r # q,
           Begin(r) \/ Continue(r) \/ Abort(r)
    PROVE  request'[q] = request[q]
  BY Zenon DEF Begin, Continue, Abort, DeliverRead, BroadcastRead, SendLink, ExchangeRead,
         CreateSession, RotateBegin, RotateCommit, RotateReply, RevokeBegin, RevokeCommit,
         RecoveryFind, RecoveryIssue, RecoverSelect, RecoverCommit, RecoverReject,
         SubmitCheck, SubmitCommit, SubmitReject, Start, Finish, TypeOK

\* No step hands out, stores or remembers a version beyond the current one.
LEMMA NoFutureStep ==
    ASSUME TypeOK, RequestOK, NoFutureCredential, [Next]_vars
    PROVE  NoFutureCredential'
<1> USE AccessAssumption
<1> DEFINE R(i, v) == 1 <= v /\ v <= tokenVersion'[i]
<1>0. /\ TypeOK' /\ RequestOK'
      /\ \A i \in Invitations : tokenVersion[i] <= tokenVersion'[i]
      /\ \A s \in Sessions : HasRow(s) => session'[s] = session[s]
  BY TypeStep, RowsMonotone
<1>1. \A l \in links' : R(l[1], l[2])
  <2>1. \A l \in links : R(l[1], l[2])
    BY <1>0 DEF NoFutureCredential, TypeOK, Links, Reached
  <2>2. ASSUME NEW i \in Invitations, CreatePrivate(i)
        PROVE  \A l \in links' : R(l[1], l[2])
    BY <2>1, <2>2 DEF CreatePrivate, TypeOK
  <2>3. ASSUME NEW r \in Requests, SendLink(r)
        PROVE  \A l \in links' : R(l[1], l[2])
    BY <2>1, <2>3 DEF SendLink, NoFutureCredential, Reached
  <2>4. ASSUME NEW r \in Requests, RotateReply(r)
        PROVE  \A l \in links' : R(l[1], l[2])
    BY <2>1, <2>4 DEF RotateReply, TypeOK, RequestOK, NoFutureCredential, Exists
  <2>5. CASE UNCHANGED links
    BY <2>1, <2>5
  <2> QED
    BY ZenonT(60), <2>2, <2>3, <2>4, <2>5
       DEF Next, Begin, Continue, EnrollOpen, DeliverRead, RotateBegin, RevokeBegin,
           SubmitCheck, RecoverSelect, BroadcastRead, ExchangeRead, RecoveryFind,
           CreateSession, RecoverCommit, RecoveryIssue, RotateCommit, RevokeCommit,
           RecoverReject, SubmitCommit, SubmitReject, Abort, Expire, rows, vars
<1>2. ASSUME NEW s \in Sessions, HasRow(s)'
      PROVE  R(session'[s].inv, session'[s].issued)
  <2>1. CASE HasRow(s)
    BY <1>0, <2>1 DEF NoFutureCredential, TypeOK, HasRow, SessionRow, Reached
  <2>2. CASE ~HasRow(s)
    <3>1. ASSUME NEW i \in Invitations, NEW u \in Sessions, EnrollOpen(i, u)
          PROVE  R(session'[s].inv, session'[s].issued)
      BY <1>2, <2>2, <3>1 DEF EnrollOpen, HasRow, TypeOK
    <3>2. ASSUME NEW r \in Requests, NEW u \in Sessions, CreateSession(r, u) \/ RecoverCommit(r, u)
          PROVE  R(session'[s].inv, session'[s].issued)
      BY SMTT(60), <1>2, <2>2, <3>2 DEF CreateSession, RecoverCommit, HasRow, TypeOK, NoFutureCredential,
                                      Reached
    <3>3. CASE UNCHANGED session
      BY <1>2, <2>2, <3>3 DEF HasRow
    <3> QED
      BY ZenonT(60), <3>1, <3>2, <3>3
         DEF Next, Begin, Continue, CreatePrivate, DeliverRead, RotateBegin, RevokeBegin,
             SubmitCheck, RecoverSelect, BroadcastRead, ExchangeRead, RecoveryFind,
             RecoveryIssue, SendLink, RotateCommit, RotateReply, RevokeCommit,
             RecoverReject, SubmitCommit, SubmitReject, Abort, Expire, rows, vars
  <2> QED
    BY <2>1, <2>2
<1>3. ASSUME NEW q \in Requests
      PROVE  /\ request'[q].step \in {"exchange", "recover"} =>
                    R(request'[q].inv, request'[q].version)
             /\ \A l \in request'[q].outbox : R(l[1], l[2])
             /\ \A i \in request'[q].matches : tokenVersion'[i] > 0
             /\ request'[q].step \in {"rotated", "revoke"} =>
                    tokenVersion'[request'[q].inv] > 0
  <2> DEFINE Fine(x) == /\ x.step \in {"exchange", "recover"} => R(x.inv, x.version)
                        /\ \A l \in x.outbox : R(l[1], l[2])
                        /\ \A i \in x.matches : tokenVersion'[i] > 0
                        /\ x.step \in {"rotated", "revoke"} => tokenVersion'[x.inv] > 0
  <2>1. Fine(request[q])
    <3>1. \A l \in request[q].outbox : l \in Links
      BY DEF TypeOK, RequestState
    <3>2. request[q].step \in {"exchange", "recover"} => request[q].inv \in Invitations
      BY DEF RequestOK
    <3>3. request[q].version \in Nat
      BY DEF TypeOK, RequestState
    <3>4. /\ request[q].matches \subseteq Invitations
          /\ request[q].step \in {"rotated", "revoke"} => request[q].inv \in Invitations
      BY DEF TypeOK, RequestState, RequestOK
    <3> QED
      BY <1>0, <3>1, <3>2, <3>3, <3>4 DEF NoFutureCredential, TypeOK, Links, Reached, Exists
  <2>2. Fine(Idle)
    BY DEF Idle
  <2>3. CASE request'[q] = request[q] \/ request'[q] = Idle
    BY <2>1, <2>2, <2>3
  <2>4. ASSUME NEW i \in Invitations, DeliverRead(q, i)
        PROVE  Fine(request'[q])
    BY <2>4 DEF DeliverRead, Live, Exists, Start, Idle, rows, TypeOK
  <2>5. ASSUME BroadcastRead(q)
        PROVE  Fine(request'[q])
    BY <2>5 DEF BroadcastRead, Live, Exists, Start, Idle, rows, TypeOK
  <2>6. ASSUME SendLink(q)
        PROVE  Fine(request'[q])
    <3>1. CASE Finish(q)
      BY <2>2, <3>1 DEF Finish, TypeOK
    <3>2. CASE \E l \in request[q].outbox : request' = [request EXCEPT ![q].outbox = @ \ {l}]
      BY <2>1, <3>2 DEF TypeOK, RequestState
    <3> QED
      BY <2>6, <3>1, <3>2 DEF SendLink
  <2>7. ASSUME ExchangeRead(q)
        PROVE  Fine(request'[q])
    <3>1. PICK l \in links :
               /\ tokenVersion[l[1]] = l[2]
               /\ Start(q, [Idle EXCEPT !.step = "exchange", !.inv = l[1], !.version = l[2]])
      BY <2>7, Zenon DEF ExchangeRead
    <3>2. Reached(l[1], l[2]) /\ tokenVersion' = tokenVersion
      BY <2>7 DEF ExchangeRead, rows, NoFutureCredential
    <3>3. /\ request'[q].version = l[2] /\ request'[q].inv = l[1]
          /\ request'[q].step = "exchange"
          /\ request'[q].outbox = {} /\ request'[q].matches = {}
      BY <3>1 DEF Start, Idle, TypeOK
    <3> QED
      BY <3>1, <3>2, <3>3 DEF Reached
  <2>8. ASSUME NEW i \in Invitations, RotateBegin(q, i) \/ RevokeBegin(q, i)
        PROVE  Fine(request'[q])
    <3>1. PICK st \in {"rotate", "revoke"} :
               Start(q, [Idle EXCEPT !.step = st, !.inv = i, !.seen = OpenSessions(i)])
      BY <2>8 DEF RotateBegin, RevokeBegin
    <3>2. /\ request'[q].step = st /\ request'[q].inv = i
          /\ request'[q].outbox = {} /\ request'[q].matches = {}
      BY <3>1 DEF Start, Idle, TypeOK
    <3>3. tokenVersion'[i] > 0
      BY <2>8 DEF RotateBegin, RevokeBegin, Live, Exists, rows
    <3> QED
      BY <3>2, <3>3
  <2>9. ASSUME RotateCommit(q)
        PROVE  Fine(request'[q])
    BY <2>9 DEF RotateCommit, Idle, TypeOK, RequestOK
  <2>10. ASSUME RecoveryFind(q)
         PROVE  Fine(request'[q])
    BY <2>10 DEF RecoveryFind, Live, Exists, Start, Idle, rows, TypeOK
  <2>11. ASSUME NEW t \in Tokens, RecoveryIssue(q, t)
         PROVE  Fine(request'[q])
    <3>1. CASE Finish(q)
      BY <2>2, <3>1 DEF Finish, TypeOK
    <3>2. CASE \E i \in request[q].matches : request' = [request EXCEPT ![q].matches = @ \ {i}]
      BY <2>1, <3>2 DEF TypeOK, RequestState
    <3> QED
      BY <2>11, <3>1, <3>2 DEF RecoveryIssue
  <2>12. ASSUME NEW t \in Tokens, RecoverSelect(q, t)
         PROVE  Fine(request'[q])
    <3>1. tokenVersion[recovery[t]] \in Nat /\ tokenVersion[recovery[t]] > 0
      BY <2>12 DEF RecoverSelect, Redeemable, TypeOK, NoFutureCredential, Exists
    <3> QED
      BY <2>12, <3>1 DEF RecoverSelect, Start, Idle, rows, TypeOK
  <2>13. ASSUME NEW s \in Sessions, SubmitCheck(q, s)
         PROVE  Fine(request'[q])
    BY <2>13 DEF SubmitCheck, Start, Idle, TypeOK
  <2>14. ASSUME \/ Abort(q)
                \/ \E s \in Sessions : CreateSession(q, s) \/ RecoverCommit(q, s)
                \/ RotateReply(q) \/ RevokeCommit(q) \/ RecoverReject(q)
                \/ SubmitCommit(q) \/ SubmitReject(q)
         PROVE  request'[q] = Idle
    BY <2>14, Zenon DEF Abort, CreateSession, RecoverCommit, RotateReply, RevokeCommit,
                 RecoverReject, SubmitCommit, SubmitReject, Finish, TypeOK
  <2>15. ASSUME NEW r \in Requests, r # q, Begin(r) \/ Continue(r) \/ Abort(r)
         PROVE  request'[q] = request[q]
    BY <2>15, OthersKeepState
  <2>16. ASSUME \/ UNCHANGED vars
                \/ \E i \in Invitations : CreatePrivate(i)
                \/ \E i \in Invitations, s \in Sessions : EnrollOpen(i, s)
                \/ \E x \in Sessions \cup Tokens : Expire(x)
         PROVE  request'[q] = request[q]
    BY <2>16 DEF vars, CreatePrivate, EnrollOpen, Expire
  <2>17. Fine(request'[q])
    BY <2>3, <2>4, <2>5, <2>6, <2>7, <2>8, <2>9, <2>10, <2>11, <2>12, <2>13, <2>14,
       <2>15, <2>16, Zenon DEF Next, Begin, Continue
  <2> QED
    BY <2>17
<1>4. ASSUME NEW t \in Tokens, recovery'[t] # None
      PROVE  tokenVersion'[recovery'[t]] > 0
  <2>1. CASE recovery'[t] = recovery[t]
    BY SMTT(60), <1>0, <1>4, <2>1 DEF NoFutureCredential, Exists, TypeOK
  <2>2. ASSUME NEW r \in Requests, NEW u \in Tokens, RecoveryIssue(r, u)
        PROVE  tokenVersion'[recovery'[t]] > 0
    <3>1. PICK i \in request[r].matches : recovery' = [recovery EXCEPT ![u] = i]
      BY <2>2, Zenon DEF RecoveryIssue
    <3>2. tokenVersion[i] > 0 /\ tokenVersion' = tokenVersion
      BY <2>2 DEF NoFutureCredential, Exists, RecoveryIssue
    <3>3. CASE t = u
      BY <3>1, <3>2, <3>3 DEF TypeOK
    <3>4. CASE t # u
      BY <2>1, <3>1, <3>4 DEF TypeOK
    <3> QED
      BY <3>3, <3>4
  <2> QED
    BY ZenonT(60), <2>1, <2>2
       DEF Next, Begin, Continue, CreatePrivate, EnrollOpen, DeliverRead, RotateBegin,
           RevokeBegin, SubmitCheck, RecoverSelect, BroadcastRead, ExchangeRead, RecoveryFind,
           CreateSession, RecoverCommit, SendLink, RotateCommit, RotateReply, RevokeCommit,
           RecoverReject, SubmitCommit, SubmitReject, Abort, Expire, rows, vars
<1>5. ASSUME NEW i \in revoked'
      PROVE  tokenVersion'[i] > 0
  <2>1. CASE i \in revoked
    BY SMTT(60), <1>0, <2>1 DEF NoFutureCredential, Exists, TypeOK
  <2>2. ASSUME NEW r \in Requests, RevokeCommit(r)
        PROVE  tokenVersion'[i] > 0
    BY <1>5, <2>1, <2>2 DEF RevokeCommit, NoFutureCredential, Exists
  <2> QED
    BY ZenonT(60), <1>5, <2>1, <2>2
       DEF Next, Begin, Continue, CreatePrivate, EnrollOpen, DeliverRead, RotateBegin,
           RevokeBegin, SubmitCheck, RecoverSelect, BroadcastRead, ExchangeRead, RecoveryFind,
           RecoveryIssue, CreateSession, RecoverCommit, SendLink, RotateCommit, RotateReply,
           RecoverReject, SubmitCommit, SubmitReject, Abort, Expire, rows, vars
<1> QED
  BY <1>1, <1>2, <1>3, <1>4, <1>5 DEF NoFutureCredential, Reached, Exists, HasRow

\* No link, session or request ever carries a version its invitation has not
\* reached (NoFutureCredential): rotation cannot revive a session.
THEOREM NoFutureCredentialHolds == Spec => []NoFutureCredential
<1>1. Init => NoFutureCredential
  BY AccessAssumption DEF Init, NoFutureCredential, Idle, HasRow, Reached, Exists
<1>2. TypeOK /\ RequestOK /\ NoFutureCredential /\ [Next]_vars => NoFutureCredential'
  BY NoFutureStep
<1> QED
  BY <1>1, <1>2, TypeCorrect, PTL DEF Spec

-----------------------------------------------------------------------------
\* revoked_at, consumed_at and a passed expires_at are never undone.
LEMMA MarksMonotone ==
    ASSUME [Next]_vars
    PROVE  /\ revoked \subseteq revoked'
           /\ sessionRevoked \subseteq sessionRevoked'
           /\ expired \subseteq expired'
           /\ consumed \subseteq consumed'
  BY ZenonT(60) DEF Next, Begin, Continue, CreatePrivate, EnrollOpen, DeliverRead, BroadcastRead,
         SendLink, ExchangeRead, CreateSession, RotateBegin, RotateCommit, RotateReply,
         RevokeBegin, RevokeCommit, RecoveryFind, RecoveryIssue, RecoverSelect,
         RecoverCommit, RecoverReject, SubmitCheck, SubmitCommit, SubmitReject, Expire,
         Abort, rows, vars

\* One step of DeadStaysDead.
LEMMA DeadStep ==
    ASSUME TypeOK, RequestOK, NoFutureCredential, [Next]_vars,
           NEW s \in Sessions, HasRow(s), ~Usable(s)
    PROVE  ~Usable(s)'
<1>1. /\ session'[s] = session[s]
      /\ session[s].inv \in Invitations
      /\ session[s].issued \in Nat
  BY RowsMonotone, Zenon DEF TypeOK, HasRow, SessionRow
<1>2. /\ session[s].issued <= tokenVersion[session[s].inv]
      /\ tokenVersion[session[s].inv] <= tokenVersion'[session[s].inv]
  BY <1>1, RowsMonotone, Zenon DEF NoFutureCredential, Reached
<1>3. tokenVersion[session[s].inv] \in Nat /\ tokenVersion'[session[s].inv] \in Nat
  BY <1>1, TypeStep, Zenon DEF TypeOK
<1> QED
  BY SMTT(60), <1>1, <1>2, <1>3, MarksMonotone DEF Usable, HasRow

\* Once the session lookup refuses a session it refuses it for ever
\* (DeadStaysDead), however requests interleave with rotations.
THEOREM DeadStaysDeadHolds == Spec => DeadStaysDead
<1>1. TypeOK /\ RequestOK /\ NoFutureCredential /\ [Next]_vars =>
          [\A s \in Sessions : HasRow(s) /\ ~Usable(s) => ~Usable(s)']_vars
  BY DeadStep
<1> QED
  BY <1>1, TypeCorrect, NoFutureCredentialHolds, PTL DEF Spec, DeadStaysDead

\* A step that advances the version of an existing invitation is the commit of
\* a rotation, which inserts no session.
LEMMA OnlyRotationAdvances ==
    ASSUME TypeOK, [Next]_vars, NEW i \in Invitations, Exists(i),
           tokenVersion'[i] # tokenVersion[i]
    PROVE  session' = session
<1>1. ASSUME NEW j \in Invitations, CreatePrivate(j) \/ \E s \in Sessions : EnrollOpen(j, s)
      PROVE  FALSE
  BY <1>1, Zenon DEF CreatePrivate, EnrollOpen, Exists, TypeOK
<1>2. ASSUME NEW r \in Requests, RotateCommit(r)
      PROVE  session' = session
  BY <1>2 DEF RotateCommit
<1> QED
  BY ZenonT(60), <1>1, <1>2
     DEF Next, Begin, Continue, DeliverRead, BroadcastRead, SendLink, ExchangeRead,
         CreateSession, RotateBegin, RotateReply, RevokeBegin, RevokeCommit, RecoveryFind,
         RecoveryIssue, RecoverSelect, RecoverCommit, RecoverReject, SubmitCheck,
         SubmitCommit, SubmitReject, Expire, Abort, rows, vars

\* One step of RotationCutsOff.
LEMMA CutOffStep ==
    ASSUME TypeOK, RequestOK, NoFutureCredential, [Next]_vars,
           NEW i \in Invitations, Exists(i), tokenVersion'[i] # tokenVersion[i],
           NEW s \in Sessions, Usable(s)'
    PROVE  session'[s].inv # i
<1>1. session' = session /\ tokenVersion[i] <= tokenVersion'[i]
  BY OnlyRotationAdvances, RowsMonotone
<1>2. HasRow(s)
  BY <1>1 DEF Usable, HasRow
<1>3. tokenVersion[i] \in Nat /\ tokenVersion'[i] \in Nat
  BY TypeStep DEF TypeOK
<1>4. session[s].inv = i => session[s].issued <= tokenVersion[i] /\ session[s].issued \in Nat
  BY <1>2 DEF NoFutureCredential, Reached, TypeOK, HasRow, SessionRow
<1>5. session[s].issued = tokenVersion'[session[s].inv]
  BY <1>1 DEF Usable
<1> QED
  BY <1>1, <1>3, <1>4, <1>5

\* When a rotation commits, no session of the household is left usable
\* (RotationCutsOff), not even one inserted while the rotation was running.
THEOREM RotationCutsOffHolds == Spec => RotationCutsOff
<1>1. TypeOK /\ RequestOK /\ NoFutureCredential /\ [Next]_vars =>
          [\A i \in Invitations :
               Exists(i) /\ tokenVersion'[i] # tokenVersion[i] =>
                   \A s \in Sessions : Usable(s)' => session'[s].inv # i]_vars
  BY CutOffStep
<1> QED
  BY <1>1, TypeCorrect, NoFutureCredentialHolds, PTL DEF Spec, RotationCutsOff

\* A revoked invitation stays revoked and its response is never written
\* (NoResponseAfterRevoke), although the session was checked beforehand.
THEOREM NoResponseAfterRevokeHolds == Spec => NoResponseAfterRevoke
<1>1. TypeOK /\ RequestOK /\ NoFutureCredential /\ [Next]_vars =>
          [\A i \in revoked : response'[i] = response[i] /\ i \in revoked']_vars
  <2> SUFFICES ASSUME TypeOK, RequestOK, NoFutureCredential, [Next]_vars, NEW i \in revoked
               PROVE  response'[i] = response[i] /\ i \in revoked'
    OBVIOUS
  <2>1. i \in revoked'
    BY MarksMonotone
  <2>2. ASSUME NEW j \in Invitations, CreatePrivate(j) \/ \E s \in Sessions : EnrollOpen(j, s)
        PROVE  response'[i] = response[i]
    BY <2>2 DEF CreatePrivate, EnrollOpen, NoFutureCredential, TypeOK
  <2>3. ASSUME NEW r \in Requests, SubmitCommit(r)
        PROVE  response'[i] = response[i]
    BY <2>3 DEF SubmitCommit, TypeOK
  <2>4. CASE UNCHANGED response
    BY <2>1, <2>4
  <2>5. \/ \E j \in Invitations : CreatePrivate(j) \/ \E s \in Sessions : EnrollOpen(j, s)
        \/ \E r \in Requests : SubmitCommit(r)
        \/ UNCHANGED response
    BY ZenonT(60) DEF Next, Begin, Continue, DeliverRead, BroadcastRead, SendLink, ExchangeRead,
           CreateSession, RotateBegin, RotateCommit, RotateReply, RevokeBegin, RevokeCommit,
           RecoveryFind, RecoveryIssue, RecoverSelect, RecoverCommit, RecoverReject,
           SubmitCheck, SubmitReject, Expire, Abort, rows, vars
  <2> QED
    BY <2>1, <2>2, <2>3, <2>4, <2>5
<1> QED
  BY <1>1, TypeCorrect, NoFutureCredentialHolds, PTL DEF Spec, NoResponseAfterRevoke

-----------------------------------------------------------------------------
\* One step of RecoveryMintsOne: the conditional UPDATE and the INSERT of the
\* session are one transaction, and no other step touches either.
LEMMA RecoveryStep ==
    ASSUME TypeOK, RequestOK, RecoveryMintsOne, [Next]_vars
    PROVE  RecoveryMintsOne'
<1> USE AccessAssumption
<1>1. ASSUME NEW r \in Requests, NEW u \in Sessions, RecoverCommit(r, u)
      PROVE  RecoveryMintsOne'
  <2> DEFINE tok == request[r].token
  <2>1. /\ tok \in Tokens /\ tok \notin consumed
        /\ recovery[tok] = request[r].inv /\ recovery' = recovery
        /\ consumed' = consumed \cup {tok}
        /\ ~HasRow(u)
    BY <1>1, Zenon DEF RecoverCommit, RequestOK
  <2> DEFINE row == [inv |-> request[r].inv, issued |-> request[r].version, via |-> tok]
  <2>2. row \in SessionRow /\ row # None
    <3>1. request[r].inv \in Invitations
      BY <1>1, Zenon DEF RecoverCommit, RequestOK
    <3>2. request[r].version \in Nat
      BY DEF TypeOK, RequestState
    <3> QED
      BY <2>1, <3>1, <3>2 DEF SessionRow
  <2>3. /\ session'[u] # None /\ session'[u].via = tok /\ session'[u].inv = recovery[tok]
        /\ \A s \in Sessions \ {u} : session'[s] = session[s]
    BY <1>1, <2>1, <2>2, Zenon DEF RecoverCommit, TypeOK
  <2>4. \A s \in Sessions : HasRow(s) => session[s].via # tok
    BY <2>1, Zenon DEF RecoveryMintsOne
  <2> QED
    BY SMTT(60), <2>1, <2>3, <2>4 DEF RecoveryMintsOne, HasRow
<1>2. ASSUME NEW u \in Sessions, NEW row \in SessionRow, row.via = None, ~HasRow(u),
             session' = [session EXCEPT ![u] = row], UNCHANGED <<consumed, recovery>>
      PROVE  RecoveryMintsOne'
  BY <1>2 DEF RecoveryMintsOne, HasRow, TypeOK
<1>3. ASSUME NEW i \in Invitations, NEW u \in Sessions, EnrollOpen(i, u)
      PROVE  RecoveryMintsOne'
  <2>1. [inv |-> i, issued |-> 1, via |-> None] \in SessionRow
    BY DEF SessionRow
  <2> QED
    BY <1>2, <1>3, <2>1, Zenon DEF EnrollOpen
<1>4. ASSUME NEW r \in Requests, NEW u \in Sessions, CreateSession(r, u)
      PROVE  RecoveryMintsOne'
  <2>1. [inv |-> request[r].inv, issued |-> request[r].version, via |-> None] \in SessionRow
    BY <1>4, SMTT(30) DEF CreateSession, SessionRow, TypeOK, RequestOK, RequestState
  <2> QED
    BY <1>2, <1>4, <2>1, Zenon DEF CreateSession
<1>5. ASSUME NEW r \in Requests, NEW t \in Tokens, RecoveryIssue(r, t)
      PROVE  RecoveryMintsOne'
  <2>1. UNCHANGED <<consumed, session>> /\ \A v \in Tokens : v # t => recovery'[v] = recovery[v]
    BY <1>5 DEF RecoveryIssue, TypeOK
  <2>2. t \notin consumed
    BY <1>5 DEF RecoveryIssue, RecoveryMintsOne, HasRow, TypeOK, SessionRow
  <2> QED
    BY <2>1, <2>2 DEF RecoveryMintsOne, HasRow
<1>6. CASE UNCHANGED <<session, consumed, recovery>>
  BY <1>6 DEF RecoveryMintsOne, HasRow
<1>7. \/ UNCHANGED <<session, consumed, recovery>>
      \/ \E i \in Invitations, s \in Sessions : EnrollOpen(i, s)
      \/ \E r \in Requests, s \in Sessions : CreateSession(r, s) \/ RecoverCommit(r, s)
      \/ \E r \in Requests, t \in Tokens : RecoveryIssue(r, t)
  BY ZenonT(60) DEF Next, Begin, Continue, CreatePrivate, DeliverRead, BroadcastRead, SendLink,
         ExchangeRead, RotateBegin, RotateCommit, RotateReply, RevokeBegin, RevokeCommit,
         RecoveryFind, RecoverSelect, RecoverReject, SubmitCheck, SubmitCommit, SubmitReject,
         Expire, Abort, rows, vars
<1> QED
  BY <1>1, <1>3, <1>4, <1>5, <1>6, <1>7

\* A consumed recovery token has minted exactly one session, for its own
\* invitation, and an unconsumed one none (RecoveryMintsOne), whatever number
\* of requests replay it at the same time.
THEOREM RecoveryMintsOneHolds == Spec => []RecoveryMintsOne
<1>1. Init => RecoveryMintsOne
  BY DEF Init, RecoveryMintsOne, HasRow
<1>2. TypeOK /\ RequestOK /\ RecoveryMintsOne /\ [Next]_vars => RecoveryMintsOne'
  BY RecoveryStep, SMTT(30)
<1> QED
  BY <1>1, <1>2, TypeCorrect, PTL DEF Spec

-----------------------------------------------------------------------------
(* InvitationAccess implements HouseholdAccess.                            *)

\* The sessions a running rotation or revocation has marked are sessions of
\* the invitation it is about.
MarksOwnSessions ==
    \A r \in Requests :
        request[r].step \in {"rotate", "revoke"} =>
            \A s \in request[r].seen : HasRow(s) /\ session[s].inv = request[r].inv

\* One step of MarksOwnSessions: marked rows keep their columns.
LEMMA MarksStep ==
    ASSUME TypeOK, RequestOK, MarksOwnSessions, [Next]_vars
    PROVE  MarksOwnSessions'
<1> USE AccessAssumption
<1> SUFFICES ASSUME NEW q \in Requests, request'[q].step \in {"rotate", "revoke"},
                    NEW s \in request'[q].seen
             PROVE  session'[s] # None /\ session'[s].inv = request'[q].inv
  BY DEF MarksOwnSessions, HasRow
<1>1. s \in Sessions
  BY TypeStep DEF TypeOK, RequestState
<1>2. HasRow(s) => session'[s] = session[s]
  BY <1>1, RowsMonotone
<1>3. CASE request'[q] = request[q]
  BY <1>2, <1>3, Zenon DEF MarksOwnSessions, HasRow
<1>4. ASSUME NEW i \in Invitations, RotateBegin(q, i) \/ RevokeBegin(q, i)
      PROVE  session'[s] # None /\ session'[s].inv = request'[q].inv
  <2>1. PICK st \in {"rotate", "revoke"} :
             Start(q, [Idle EXCEPT !.step = st, !.inv = i, !.seen = OpenSessions(i)])
    BY <1>4 DEF RotateBegin, RevokeBegin
  <2>2. request'[q].seen = OpenSessions(i) /\ request'[q].inv = i
    BY <2>1 DEF Start, Idle, TypeOK
  <2> QED
    BY <1>2, <2>2 DEF OpenSessions, HasRow
<1>5. ASSUME \/ \E i \in Invitations : DeliverRead(q, i)
             \/ \E u \in Sessions : SubmitCheck(q, u) \/ CreateSession(q, u) \/ RecoverCommit(q, u)
             \/ \E t \in Tokens : RecoverSelect(q, t)
             \/ BroadcastRead(q) \/ ExchangeRead(q) \/ RecoveryFind(q) \/ Abort(q)
             \/ RotateCommit(q) \/ RotateReply(q) \/ RevokeCommit(q) \/ RecoverReject(q)
             \/ SubmitCommit(q) \/ SubmitReject(q)
      PROVE  request'[q].step \notin {"rotate", "revoke"}
  <2>1. ASSUME \/ \E u \in Sessions : CreateSession(q, u) \/ RecoverCommit(q, u)
               \/ Abort(q) \/ RotateReply(q) \/ RevokeCommit(q) \/ RecoverReject(q)
               \/ SubmitCommit(q) \/ SubmitReject(q)
        PROVE  request'[q].step \notin {"rotate", "revoke"}
    <3>1. Finish(q)
      BY <2>1, Zenon DEF CreateSession, RecoverCommit, Abort, RotateReply, RevokeCommit,
                  RecoverReject, SubmitCommit, SubmitReject
    <3>2. request'[q] = Idle
      BY <3>1 DEF Finish, TypeOK
    <3> QED
      BY <3>2, IdleOK
  <2>2. ASSUME \/ \E i \in Invitations : DeliverRead(q, i)
               \/ \E u \in Sessions : SubmitCheck(q, u)
               \/ \E t \in Tokens : RecoverSelect(q, t)
        PROVE  request'[q].step \notin {"rotate", "revoke"}
    <3>1. ASSUME NEW i \in Invitations, DeliverRead(q, i)
          PROVE  request'[q].step = "send"
      BY <3>1 DEF DeliverRead, Start, Idle, TypeOK
    <3>2. ASSUME NEW u \in Sessions, SubmitCheck(q, u)
          PROVE  request'[q].step = "submit"
      BY <3>2 DEF SubmitCheck, Start, Idle, TypeOK
    <3>3. ASSUME NEW t \in Tokens, RecoverSelect(q, t)
          PROVE  request'[q].step = "recover"
      BY <3>3 DEF RecoverSelect, Start, Idle, TypeOK
    <3> QED
      BY <2>2, <3>1, <3>2, <3>3
  <2>3. ASSUME BroadcastRead(q) \/ ExchangeRead(q) \/ RecoveryFind(q)
        PROVE  request'[q].step \notin {"rotate", "revoke"}
    <3>1. CASE BroadcastRead(q)
      BY <3>1 DEF BroadcastRead, Start, Idle, TypeOK
    <3>2. CASE ExchangeRead(q)
      BY <3>2 DEF ExchangeRead, Start, Idle, TypeOK
    <3>3. CASE RecoveryFind(q)
      BY <3>3 DEF RecoveryFind, Start, Idle, TypeOK
    <3> QED
      BY <2>3, <3>1, <3>2, <3>3
  <2>4. ASSUME RotateCommit(q)
        PROVE  request'[q].step \notin {"rotate", "revoke"}
    BY <2>4 DEF RotateCommit, Idle, TypeOK
  <2> QED
    BY <1>5, <2>1, <2>2, <2>3, <2>4, Zenon
<1>6. ASSUME SendLink(q) \/ \E t \in Tokens : RecoveryIssue(q, t)
      PROVE  request'[q].step \notin {"rotate", "revoke"}
  BY SMTT(60), <1>6 DEF SendLink, RecoveryIssue, Finish, Idle, TypeOK, RequestState
<1>7. ASSUME NEW r \in Requests, r # q, Begin(r) \/ Continue(r) \/ Abort(r)
      PROVE  request'[q] = request[q]
  BY <1>7, OthersKeepState
<1>8. ASSUME \/ UNCHANGED vars
             \/ \E i \in Invitations : CreatePrivate(i)
             \/ \E i \in Invitations, u \in Sessions : EnrollOpen(i, u)
             \/ \E x \in Sessions \cup Tokens : Expire(x)
      PROVE  request'[q] = request[q]
  BY <1>8, Zenon DEF vars, CreatePrivate, EnrollOpen, Expire
<1> QED
  BY <1>3, <1>4, <1>5, <1>6, <1>7, <1>8, Zenon DEF Next, Begin, Continue

\* MarksOwnSessions holds in every behaviour.
LEMMA MarksOwnSessionsHolds == Spec => []MarksOwnSessions
<1>1. Init => MarksOwnSessions
  BY DEF Init, MarksOwnSessions, Idle
<1>2. TypeOK /\ RequestOK /\ MarksOwnSessions /\ [Next]_vars => MarksOwnSessions'
  BY MarksStep, SMTT(30)
<1> QED
  BY <1>1, <1>2, TypeCorrect, PTL DEF Spec

\* A step that changes no session and what is accepted maps to a stutter.
LEMMA MapsToStutter ==
    ASSUME session' = session, \A s \in Sessions : Usable(s)' <=> Usable(s)
    PROVE  UNCHANGED Access!vars
  BY DEF Access!vars, HasRow

\* The session lookup finds existing rows only.
LEMMA UsableHasRow == \A s \in Sessions : Usable(s) => HasRow(s)
  BY Zenon DEF Usable

\* A step that ends exactly the sessions of one household maps to CutOff.
LEMMA MapsToCutOff ==
    ASSUME NEW i \in Invitations, session' = session,
           \A s \in Sessions : Usable(s)' <=> Usable(s) /\ session[s].inv # i
    PROVE  Access!CutOff(i)
<1> DEFINE Open(j) == {s \in Sessions : Usable(s) /\ session[s].inv = j}
           Closed == {s \in Sessions : HasRow(s) /\ ~Usable(s)}
<1>1. Closed' = Closed \cup Open(i)
  BY UsableHasRow DEF HasRow
<1>2. \A j \in Invitations : Open(j)' = IF j = i THEN {} ELSE Open(j)
  OBVIOUS
<1>3. [j \in Invitations |-> Open(j)]' = [[j \in Invitations |-> Open(j)] EXCEPT ![i] = {}]
  BY <1>2, Zenon
<1> QED
  BY <1>1, <1>3 DEF Access!CutOff

\* A step that ends one session maps to Lapse, or to a stutter if the session
\* was not accepted before.
LEMMA MapsToLapse ==
    ASSUME TypeOK, NEW x, session' = session,
           \A s \in Sessions : Usable(s)' <=> Usable(s) /\ s # x
    PROVE  [Access!Next]_(Access!vars)
<1>1. CASE x \in Sessions /\ Usable(x)
  <2>1. PICK i \in Invitations : session[x].inv = i
    BY <1>1, UsableHasRow DEF HasRow, TypeOK, SessionRow
  <2> DEFINE Open(j) == {s \in Sessions : Usable(s) /\ session[s].inv = j}
             Closed == {s \in Sessions : HasRow(s) /\ ~Usable(s)}
  <2>2. Closed' = Closed \cup {x}
    BY <1>1, UsableHasRow DEF HasRow
  <2>3. \A j \in Invitations : Open(j)' = IF j = i THEN Open(j) \ {x} ELSE Open(j)
    BY <2>1
  <2>4. [j \in Invitations |-> Open(j)]' = [[j \in Invitations |-> Open(j)] EXCEPT ![i] = @ \ {x}]
    BY ZenonT(60), <2>3
  <2>5. x \in Open(i)
    BY <1>1, <2>1
  <2>6. Access!Lapse(i, x)
    BY <2>2, <2>4, <2>5 DEF Access!Lapse
  <2> QED
    BY <1>1, <2>6 DEF Access!Next
<1>2. CASE ~(x \in Sessions /\ Usable(x))
  <2>1. \A s \in Sessions : Usable(s)' <=> Usable(s)
    BY <1>2
  <2> QED
    BY <2>1, MapsToStutter
<1> QED
  BY <1>1, <1>2

\* Inserting one session maps to Admit or, when it is refused from the start,
\* to AdmitTooLate.
LEMMA MapsToAdmit ==
    ASSUME TypeOK, TypeOK', NEW u \in Sessions, ~HasRow(u), HasRow(u)',
           \A s \in Sessions \ {u} : session'[s] = session[s] /\ (Usable(s)' <=> Usable(s))
    PROVE  Access!Next
<1> DEFINE Open(j) == {s \in Sessions : Usable(s) /\ session[s].inv = j}
           Closed == {s \in Sessions : HasRow(s) /\ ~Usable(s)}
<1>0. ~Usable(u)
  BY UsableHasRow
<1>1. Access!Fresh(u)
  BY <1>0 DEF Access!Fresh
<1>2. CASE Usable(u)'
  <2>1. PICK i \in Invitations : session'[u].inv = i
    BY Zenon DEF TypeOK, HasRow, SessionRow
  <2>2. Closed' = Closed
    BY <1>2 DEF HasRow
  <2>3. \A j \in Invitations : Open(j)' = IF j = i THEN Open(j) \cup {u} ELSE Open(j)
    BY <1>0, <1>2, <2>1
  <2>4. [j \in Invitations |-> Open(j)]' = [[j \in Invitations |-> Open(j)] EXCEPT ![i] = @ \cup {u}]
    BY <2>3, Zenon
  <2>5. Access!Admit(i, u)
    BY <1>1, <2>2, <2>4, Zenon DEF Access!Admit
  <2> QED
    BY <2>5 DEF Access!Next
<1>3. CASE ~Usable(u)'
  <2>1. Closed' = Closed \cup {u}
    BY <1>3 DEF HasRow
  <2>2. \A j \in Invitations : Open(j)' = Open(j)
    BY <1>0, <1>3
  <2>3. [j \in Invitations |-> Open(j)]' = [j \in Invitations |-> Open(j)]
    BY <2>2
  <2>4. Access!AdmitTooLate(u)
    BY <1>1, <2>1, <2>3, Zenon DEF Access!AdmitTooLate
  <2> QED
    BY <2>4 DEF Access!Next
<1> QED
  BY <1>2, <1>3

\* Every step of every handler is a step of HouseholdAccess or a stutter.
LEMMA RefinementStep ==
    ASSUME TypeOK, RequestOK, NoFutureCredential, MarksOwnSessions, [Next]_vars
    PROVE  [Access!Next]_(Access!vars)
<1> USE AccessAssumption
<1>0. /\ TypeOK'
      /\ \A s \in Sessions : HasRow(s) =>
             /\ session[s].inv \in Invitations
             /\ session[s].issued \in Nat
             /\ 1 <= session[s].issued
             /\ session[s].issued <= tokenVersion[session[s].inv]
  BY TypeStep, Zenon DEF NoFutureCredential, Reached, TypeOK, HasRow, SessionRow
<1>1. ASSUME NEW i \in Invitations, CreatePrivate(i)
      PROVE  UNCHANGED Access!vars
  <2>0. tokenVersion[i] = 0
    BY <1>1 DEF CreatePrivate, Exists, TypeOK
  <2>1. \A s \in Sessions : HasRow(s) => session[s].inv # i
    BY <1>0, <2>0
  <2>2. \A s \in Sessions : Usable(s)' <=> Usable(s)
    <3>1. /\ UNCHANGED <<session, revoked, expired, sessionRevoked>>
          /\ \A j \in Invitations : j # i => tokenVersion'[j] = tokenVersion[j]
      BY <1>1 DEF CreatePrivate, TypeOK
    <3> QED
      BY <1>0, <2>1, <3>1, Zenon DEF Usable, HasRow
  <2> QED
    BY <1>1, <2>2, MapsToStutter DEF CreatePrivate
<1>2. ASSUME NEW i \in Invitations, NEW u \in Sessions, EnrollOpen(i, u)
      PROVE  Access!Next
  <2>0. tokenVersion[i] = 0
    BY <1>2 DEF EnrollOpen, Exists, TypeOK
  <2>1. \A s \in Sessions : HasRow(s) => session[s].inv # i
    BY <1>0, <2>0
  <2>2. [inv |-> i, issued |-> 1, via |-> None] \in SessionRow
    BY DEF SessionRow
  <2>3. ~HasRow(u) /\ HasRow(u)'
    BY <1>2, <2>2, Zenon DEF EnrollOpen, HasRow, TypeOK
  <2>4. \A s \in Sessions \ {u} : session'[s] = session[s] /\ (Usable(s)' <=> Usable(s))
    <3>1. /\ UNCHANGED <<revoked, expired, sessionRevoked>>
          /\ \A j \in Invitations : j # i => tokenVersion'[j] = tokenVersion[j]
          /\ \A s \in Sessions \ {u} : session'[s] = session[s]
      BY <1>2, Zenon DEF EnrollOpen, TypeOK
    <3> QED
      BY <1>0, <2>1, <3>1, Zenon DEF Usable, HasRow
  <2> QED
    BY <1>0, <2>3, <2>4, MapsToAdmit, Zenon
<1>3. ASSUME NEW r \in Requests, NEW u \in Sessions, CreateSession(r, u) \/ RecoverCommit(r, u)
      PROVE  Access!Next
  <2>1. PICK row \in SessionRow : session' = [session EXCEPT ![u] = row]
    BY <1>3, Zenon DEF CreateSession, RecoverCommit, SessionRow, TypeOK, RequestOK, RequestState
  <2>2. ~HasRow(u) /\ HasRow(u)'
    BY <1>3, <2>1, Zenon DEF CreateSession, RecoverCommit, HasRow, TypeOK
  <2>3. \A s \in Sessions \ {u} : session'[s] = session[s] /\ (Usable(s)' <=> Usable(s))
    BY <1>3, <2>1, Zenon DEF CreateSession, RecoverCommit, Usable, HasRow, TypeOK
  <2> QED
    BY <1>0, <2>2, <2>3, MapsToAdmit, Zenon
<1>4. ASSUME NEW r \in Requests, RotateCommit(r)
      PROVE  Access!Next
  <2>1. PICK i \in Invitations : request[r].inv = i
    BY <1>4 DEF RotateCommit, RequestOK
  <2>2. \A s \in request[r].seen : session[s].inv = i
    BY <1>4, <2>1 DEF RotateCommit, MarksOwnSessions
  <2>3. /\ session' = session /\ revoked' = revoked /\ expired' = expired
        /\ sessionRevoked' = sessionRevoked \cup request[r].seen
        /\ \A j \in Invitations : tokenVersion'[j] = IF j = i THEN tokenVersion[i] + 1
                                                            ELSE tokenVersion[j]
    BY <1>4, <2>1 DEF RotateCommit, TypeOK
  <2>4. ASSUME NEW s \in Sessions
        PROVE  Usable(s)' <=> Usable(s) /\ session[s].inv # i
    <3>1. CASE HasRow(s) /\ session[s].inv = i
      <4>1. session[s].issued # tokenVersion'[i]
        <5>1. tokenVersion[i] \in Nat /\ tokenVersion'[i] = tokenVersion[i] + 1
          BY <2>3, Zenon DEF TypeOK
        <5>2. session[s].issued \in Nat /\ session[s].issued <= tokenVersion[i]
          BY <1>0, <3>1, Zenon
        <5> QED
          BY <5>1, <5>2
      <4> QED
        BY <2>3, <3>1, <4>1, Zenon DEF Usable
    <3>2. CASE HasRow(s) /\ session[s].inv # i
      BY <1>0, <2>2, <2>3, <3>2, Zenon DEF Usable, HasRow
    <3>3. CASE ~HasRow(s)
      BY <2>3, <3>3, Zenon DEF Usable, HasRow
    <3> QED
      BY <3>1, <3>2, <3>3
  <2>5. Access!CutOff(i)
    BY <2>3, <2>4, MapsToCutOff
  <2> QED
    BY <2>5 DEF Access!Next
<1>5. ASSUME NEW r \in Requests, RevokeCommit(r)
      PROVE  Access!Next
  <2>1. PICK i \in Invitations : request[r].inv = i
    BY <1>5, Zenon DEF RevokeCommit, RequestOK
  <2>2. \A s \in request[r].seen : session[s].inv = i
    BY <1>5, <2>1, Zenon DEF RevokeCommit, MarksOwnSessions
  <2>3. /\ session' = session /\ revoked' = revoked \cup {i} /\ expired' = expired
        /\ sessionRevoked' = sessionRevoked \cup request[r].seen
        /\ tokenVersion' = tokenVersion
    BY <1>5, <2>1 DEF RevokeCommit
  <2>4. \A s \in Sessions : Usable(s)' <=> Usable(s) /\ session[s].inv # i
    BY <2>2, <2>3, Zenon DEF Usable, HasRow
  <2>5. Access!CutOff(i)
    BY <2>3, <2>4, MapsToCutOff, Zenon
  <2> QED
    BY <2>5, SMTT(30) DEF Access!Next
<1>6. ASSUME NEW x \in Sessions \cup Tokens, Expire(x)
      PROVE  [Access!Next]_(Access!vars)
  <2>1. \A s \in Sessions : Usable(s)' <=> Usable(s) /\ s # x
    BY <1>6, Zenon DEF Expire, rows, Usable, HasRow
  <2> QED
    BY <1>6, <2>1, MapsToLapse, Zenon DEF Expire, rows
<1>7. CASE UNCHANGED <<tokenVersion, revoked, session, sessionRevoked, expired>>
  <2>1. \A s \in Sessions : Usable(s)' <=> Usable(s)
    BY <1>7, Zenon DEF Usable, HasRow
  <2> QED
    BY <1>7, <2>1, MapsToStutter
<1>8. \/ UNCHANGED <<tokenVersion, revoked, session, sessionRevoked, expired>>
      \/ \E i \in Invitations : CreatePrivate(i)
      \/ \E i \in Invitations, s \in Sessions : EnrollOpen(i, s)
      \/ \E r \in Requests, s \in Sessions : CreateSession(r, s) \/ RecoverCommit(r, s)
      \/ \E r \in Requests : RotateCommit(r) \/ RevokeCommit(r)
      \/ \E x \in Sessions \cup Tokens : Expire(x)
  <2>1. ASSUME NEW r \in Requests, Begin(r) \/ Abort(r)
        PROVE  UNCHANGED <<tokenVersion, revoked, session, sessionRevoked, expired>>
    BY <2>1, Zenon DEF Begin, DeliverRead, BroadcastRead, ExchangeRead, RotateBegin, RevokeBegin,
                RecoveryFind, RecoverSelect, SubmitCheck, Abort, rows
  <2>2. ASSUME NEW r \in Requests, \/ \E t \in Tokens : RecoveryIssue(r, t)
                                   \/ SendLink(r) \/ RotateReply(r) \/ RecoverReject(r)
                                   \/ SubmitCommit(r) \/ SubmitReject(r)
        PROVE  UNCHANGED <<tokenVersion, revoked, session, sessionRevoked, expired>>
    BY <2>2 DEF RecoveryIssue, SendLink, RotateReply, RecoverReject, SubmitCommit,
                SubmitReject, rows
  <2>3. UNCHANGED vars => UNCHANGED <<tokenVersion, revoked, session, sessionRevoked, expired>>
    BY DEF vars, rows
  <2> QED
    BY <2>1, <2>2, <2>3, Zenon DEF Next, Continue
<1> QED
  BY <1>1, <1>2, <1>3, <1>4, <1>5, <1>6, <1>7, <1>8

\* InvitationAccess implements HouseholdAccess (ImplementsHouseholdAccess): the
\* versions, marks, tokens and interleaved requests of the code keep the promise
\* that sessions open once, end for good, and are cut off per household.
THEOREM Refinement == Spec => ImplementsHouseholdAccess
<1>1. Init => Access!Init
  BY DEF Init, Access!Init, Usable, HasRow
<1>2. TypeOK /\ RequestOK /\ NoFutureCredential /\ MarksOwnSessions /\ [Next]_vars =>
          [Access!Next]_(Access!vars)
  BY RefinementStep
<1> QED
  BY <1>1, <1>2, TypeCorrect, NoFutureCredentialHolds, MarksOwnSessionsHolds, PTL
     DEF Spec, ImplementsHouseholdAccess, Access!Spec

----------------------------------------------------------------------------
(* The import of households *)

\* A household of the preview.
ImportHousehold == [key : STRING, profile : STRING, guests : Seq(STRING)]

\* The keys of the rows of a file f, the rows with a key, and those of them up to
\* row k.
Keys(f) == {f[k].key : k \in 1..Len(f)}
RowsOf(f, key) == {k \in 1..Len(f) : f[k].key = key}
UpTo(f, k) == {j \in 1..k : f[j].key = f[k].key}

\* WellFormed, of a file f.
GoodFile(f) ==
    /\ Len(f) <= MaxImportRows
    /\ \A k \in 1..Len(f) : f[k].shape = "row" /\ validateImportRow(f[k])
    /\ Cardinality(Keys(f)) <= MaxImportHouseholds
    /\ \A k \in 1..Len(f) :
          /\ Cardinality(RowsOf(f, f[k].key)) <= MaxHouseholdGuests
          /\ \A m \in RowsOf(f, f[k].key) : f[m].profile = f[k].profile

\* ImportHousehold h holds the guest of row k, at its place.
Holds(f, h, k) ==
    /\ h.key = f[k].key /\ h.profile = f[k].profile
    /\ Cardinality(UpTo(f, k)) \in 1..Len(h.guests)
    /\ h.guests[Cardinality(UpTo(f, k))] = f[k].guest

\* A household that stands for the rows of its key.
Complete(f, h) ==
    /\ h.key # "" /\ h.profile # "invalid"
    /\ Len(h.guests) = Cardinality(RowsOf(f, h.key))
    /\ Len(h.guests) \in 1..MaxHouseholdGuests
    /\ \A g \in 1..Len(h.guests) : h.guests[g] # ""

\* The households hs are what a good file f says.
Grouped(f, hs) ==
    /\ hs \in Seq(ImportHousehold)
    /\ \A i, j \in 1..Len(hs) : hs[i].key = hs[j].key => i = j
    /\ \A i \in 1..Len(hs) : Complete(f, hs[i])
    /\ \A k \in 1..Len(f) : \E i \in 1..Len(hs) : Holds(f, hs[i], k)
    /\ Len(hs) = Cardinality(Keys(f)) /\ Len(hs) <= MaxImportHouseholds
    /\ IsFiniteSet(Assigned(hs)) /\ Cardinality(Assigned(hs)) = Len(f)

\* A file with one record more.
Longer(f, x, g) ==
    /\ g \in Seq(Records) /\ Len(g) = Len(f) + 1
    /\ \A k \in 1..Len(f) : g[k] = f[k]
    /\ g[Len(f) + 1] = x

\* The limits of an import.
LEMMA ImportLimits ==
    /\ MaxImportRows \in Nat /\ MaxImportHouseholds \in Nat /\ MaxHouseholdGuests \in Nat
    /\ MaxHouseholdGuests >= 1
BY ImportAssumption

\* The fields of a record.
LEMMA RecordFields ==
    ASSUME NEW x \in Records
    PROVE  /\ x.key \in STRING /\ x.profile \in STRING /\ x.guest \in STRING
           /\ x.shape \in {"row", "malformed", "short"}
BY ImportAssumption

\* An element of a sequence.
LEMMA ElementOf ==
    ASSUME NEW S, NEW s \in Seq(S), NEW i \in 1..Len(s)
    PROVE  s[i] \in S /\ Len(s) \in Nat
OBVIOUS

\* The rows of a file.
LEMMA RowsFound ==
    ASSUME NEW f \in Seq(Records)
    PROVE  /\ Len(f) \in Nat /\ \A k \in 1..Len(f) : f[k] \in Records
           /\ \A key : IsFiniteSet(RowsOf(f, key)) /\ Cardinality(RowsOf(f, key)) \in Nat
           /\ \A k \in 1..Len(f) : IsFiniteSet(UpTo(f, k)) /\ Cardinality(UpTo(f, k)) \in Nat
<1>1. Len(f) \in Nat /\ \A k \in 1..Len(f) : f[k] \in Records
  OBVIOUS
<1>2. IsFiniteSet(1..Len(f))
  BY <1>1, FS_Interval
<1>3. ASSUME NEW key PROVE IsFiniteSet(RowsOf(f, key))
  <2>1. RowsOf(f, key) \in SUBSET (1..Len(f))
    BY Zenon DEF RowsOf
  <2> QED
    BY <1>2, <2>1, FS_Subset, Zenon
<1>4. ASSUME NEW k \in 1..Len(f) PROVE IsFiniteSet(UpTo(f, k))
  <2>1. UpTo(f, k) \in SUBSET (1..Len(f))
    BY <1>1 DEF UpTo
  <2> QED
    BY <1>2, <2>1, FS_Subset, Zenon
<1> QED
  BY <1>1, <1>3, <1>4, FS_CardinalityType, Zenon

\* What one record more changes.
LEMMA RecordMore ==
    ASSUME NEW f \in Seq(Records), NEW x \in Records, NEW g, Longer(f, x, g)
    PROVE  /\ Keys(g) = Keys(f) \cup {x.key}
           /\ RowsOf(g, x.key) = RowsOf(f, x.key) \cup {Len(f) + 1}
           /\ Cardinality(RowsOf(g, x.key)) = Cardinality(RowsOf(f, x.key)) + 1
           /\ \A key : key # x.key => RowsOf(g, key) = RowsOf(f, key)
           /\ \A k \in 1..Len(f) : UpTo(g, k) = UpTo(f, k)
           /\ UpTo(g, Len(f) + 1) = RowsOf(g, x.key)
<1> DEFINE n == Len(f)
<1>1. /\ n \in Nat /\ Len(g) = n + 1
      /\ \A k \in 1..n : g[k] = f[k]
      /\ g[n + 1] = x
  BY RowsFound, Zenon DEF Longer
<1> HIDE DEF n
<1>2. 1..(n + 1) = (1..n) \cup {n + 1} /\ n + 1 \notin 1..n /\ \A k \in 1..n : 1..k \subseteq 1..n
  BY <1>1
<1>3. Keys(g) = Keys(f) \cup {x.key}
  <2>1. {g[k].key : k \in 1..(n + 1)} = {f[k].key : k \in 1..n} \cup {x.key}
    BY <1>1, <1>2
  <2> QED
    BY <1>1, <2>1, Zenon DEF Keys, n
<1>4. RowsOf(g, x.key) = RowsOf(f, x.key) \cup {n + 1}
  <2>1. {k \in 1..(n + 1) : g[k].key = x.key} = {k \in 1..n : f[k].key = x.key} \cup {n + 1}
    BY <1>1, <1>2
  <2> QED
    BY <1>1, <2>1, Zenon DEF RowsOf, n
<1>5. Cardinality(RowsOf(g, x.key)) = Cardinality(RowsOf(f, x.key)) + 1
  <2>1. n + 1 \notin RowsOf(f, x.key)
    BY <1>2, Zenon DEF RowsOf, n
  <2> QED
    BY <1>4, <2>1, RowsFound, FS_AddElement, Zenon
<1>6. ASSUME NEW key, key # x.key PROVE RowsOf(g, key) = RowsOf(f, key)
  <2>1. {k \in 1..(n + 1) : g[k].key = key} = {k \in 1..n : f[k].key = key}
    BY <1>1, <1>2, <1>6, SMTT(30)
  <2> QED
    BY <1>1, <2>1, Zenon DEF RowsOf, n
<1>7. ASSUME NEW k \in 1..n PROVE UpTo(g, k) = UpTo(f, k)
  <2>1. \A j \in 1..k : g[j] = f[j]
    BY <1>1, <1>2, Zenon
  <2>2. g[k] = f[k]
    BY <1>1, Zenon
  <2> QED
    BY <2>1, <2>2 DEF UpTo
<1>8. UpTo(g, n + 1) = RowsOf(g, x.key)
  BY <1>1, Zenon DEF UpTo, RowsOf
<1> QED
  BY <1>3, <1>4, <1>5, <1>6, <1>7, <1>8, Zenon DEF n

\* A file is no better than what was read before.
LEMMA PrefixGood ==
    ASSUME NEW f \in Seq(Records), NEW x \in Records, NEW g, Longer(f, x, g),
           IsFiniteSet(Keys(f)), GoodFile(g)
    PROVE  GoodFile(f)
<1> DEFINE n == Len(f)
<1>1. /\ n \in Nat /\ Len(g) = n + 1 /\ g \in Seq(Records)
      /\ \A k \in 1..n : g[k] = f[k]
  BY RowsFound, Zenon DEF Longer
<1> HIDE DEF n
<1>2. 1..n \subseteq 1..(n + 1)
  BY <1>1
<1>3. /\ n + 1 <= MaxImportRows
      /\ \A k \in 1..(n + 1) : g[k].shape = "row" /\ validateImportRow(g[k])
      /\ Cardinality(Keys(g)) <= MaxImportHouseholds
      /\ \A k \in 1..(n + 1) :
            /\ Cardinality(RowsOf(g, g[k].key)) <= MaxHouseholdGuests
            /\ \A m \in RowsOf(g, g[k].key) : g[m].profile = g[k].profile
  BY <1>1, Zenon DEF GoodFile
<1>4. MaxImportRows \in Nat /\ MaxImportHouseholds \in Nat /\ MaxHouseholdGuests \in Nat
  BY ImportLimits, Zenon
<1>5. n <= MaxImportRows
  BY <1>1, <1>3, <1>4, SMTT(30)
<1>6. Cardinality(Keys(f)) <= MaxImportHouseholds
  <2>0. Keys(g) = Keys(f) \cup {x.key}
    BY RecordMore
  <2>1. Keys(f) \subseteq Keys(g) /\ IsFiniteSet(Keys(g))
    BY <2>0, FS_AddElement, Zenon
  <2>2. Cardinality(Keys(f)) <= Cardinality(Keys(g))
    BY <2>1, FS_Subset, Zenon
  <2>3. Cardinality(Keys(f)) \in Nat /\ Cardinality(Keys(g)) \in Nat
    BY <2>1, FS_CardinalityType, Zenon
  <2> QED
    BY <1>3, <1>4, <2>2, <2>3, SMTT(30)
<1>7. ASSUME NEW k \in 1..n
      PROVE  /\ Cardinality(RowsOf(f, f[k].key)) <= MaxHouseholdGuests
             /\ \A m \in RowsOf(f, f[k].key) : f[m].profile = f[k].profile
  <2>1. k \in 1..(n + 1) /\ g[k] = f[k]
    BY <1>1, <1>2, Zenon
  <2>2. RowsOf(f, f[k].key) \subseteq RowsOf(g, f[k].key) /\ RowsOf(f, f[k].key) \subseteq 1..n
    BY <1>1, <1>2, Zenon DEF RowsOf, n
  <2>3. IsFiniteSet(RowsOf(g, f[k].key)) /\ Cardinality(RowsOf(g, f[k].key)) \in Nat
    BY <1>1, RowsFound, Zenon
  <2>4. Cardinality(RowsOf(f, f[k].key)) <= Cardinality(RowsOf(g, f[k].key))
    BY <2>2, <2>3, FS_Subset, Zenon
  <2>5. Cardinality(RowsOf(f, f[k].key)) \in Nat
    BY RowsFound, Zenon
  <2>6. Cardinality(RowsOf(g, f[k].key)) <= MaxHouseholdGuests
    BY <1>3, <2>1, Zenon
  <2>7. Cardinality(RowsOf(f, f[k].key)) <= MaxHouseholdGuests
    BY <1>4, <2>3, <2>4, <2>5, <2>6, SMTT(30)
  <2>8. \A m \in RowsOf(f, f[k].key) : f[m].profile = f[k].profile
    BY <1>1, <1>3, <2>1, <2>2, Zenon
  <2> QED
    BY <2>7, <2>8, Zenon
<1>8. \A k \in 1..n : f[k].shape = "row" /\ validateImportRow(f[k])
  BY <1>1, <1>2, <1>3, Zenon
<1> QED
  BY <1>5, <1>6, <1>7, <1>8, Zenon DEF GoodFile, n

\* The guests of households that got one more, the c-th of household i.
LEMMA OneGuestMore ==
    ASSUME NEW hs \in Seq(ImportHousehold), NEW hs2 \in Seq(ImportHousehold), NEW i \in 1..Len(hs2),
           NEW c \in Nat \ {0}, Len(hs2[i].guests) = c,
           1..Len(hs2) = (1..Len(hs)) \cup {i},
           \A j \in 1..Len(hs) : j # i => hs2[j] = hs[j],
           i \in 1..Len(hs) => Len(hs[i].guests) = c - 1,
           i \notin 1..Len(hs) => c = 1,
           IsFiniteSet(Assigned(hs))
    PROVE  /\ IsFiniteSet(Assigned(hs2))
           /\ Cardinality(Assigned(hs2)) = Cardinality(Assigned(hs)) + 1
<1>1. ASSUME NEW j, NEW p, NEW s
      PROVE  <<j, p>> \in Assigned(s) <=> j \in 1..Len(s) /\ p \in 1..Len(s[j].guests)
  BY DEF Assigned
<1>2. ASSUME NEW s, NEW q \in Assigned(s) PROVE \E j, p : q = <<j, p>>
  BY DEF Assigned
<1>3. <<i, c>> \notin Assigned(hs)
  <2>1. i \in 1..Len(hs) => c \notin 1..Len(hs[i].guests)
    OBVIOUS
  <2> QED
    BY <1>1, <2>1, Zenon
<1>4. ASSUME NEW j, NEW p
      PROVE  <<j, p>> \in Assigned(hs2) <=> <<j, p>> \in Assigned(hs) \/ <<j, p>> = <<i, c>>
  <2>1. CASE j = i
    <3>1. /\ i \in 1..Len(hs) => (p \in 1..c <=> p \in 1..Len(hs[i].guests) \/ p = c)
          /\ i \notin 1..Len(hs) => (p \in 1..c <=> p = c)
      BY SMTT(30)
    <3>2. <<j, p>> \in Assigned(hs2) <=> p \in 1..c
      BY <1>1, <2>1, Zenon
    <3>3. <<j, p>> \in Assigned(hs) <=> i \in 1..Len(hs) /\ p \in 1..Len(hs[i].guests)
      BY <1>1, <2>1, Zenon
    <3>4. <<j, p>> = <<i, c>> <=> p = c
      BY <2>1, Zenon
    <3> QED
      BY <3>1, <3>2, <3>3, <3>4, Zenon
  <2>2. CASE j # i
    <3>1. j \in 1..Len(hs2) <=> j \in 1..Len(hs)
      BY <2>2, Zenon
    <3>2. j \in 1..Len(hs) => hs2[j] = hs[j]
      BY <2>2, Zenon
    <3>3. <<j, p>> # <<i, c>>
      BY <2>2, Zenon
    <3> QED
      BY <1>1, <3>1, <3>2, <3>3, Zenon
  <2> QED
    BY <2>1, <2>2, Zenon
<1>5. Assigned(hs2) = Assigned(hs) \cup {<<i, c>>}
  <2>1. ASSUME NEW q \in Assigned(hs2) PROVE q \in Assigned(hs) \cup {<<i, c>>}
    <3>1. PICK j, p : q = <<j, p>>
      BY <1>2, Zenon
    <3>2. <<j, p>> \in Assigned(hs2)
      BY <3>1, Zenon
    <3>3. <<j, p>> \in Assigned(hs) \/ <<j, p>> = <<i, c>>
      BY <1>4, <3>2, Zenon
    <3> QED
      BY <3>1, <3>3, Zenon
  <2>2. ASSUME NEW q \in Assigned(hs) PROVE q \in Assigned(hs2)
    <3>1. PICK j, p : q = <<j, p>>
      BY <1>2, Zenon
    <3>2. <<j, p>> \in Assigned(hs)
      BY <3>1, Zenon
    <3>3. <<j, p>> \in Assigned(hs2)
      BY <1>4, <3>2, Zenon
    <3> QED
      BY <3>1, <3>3, Zenon
  <2>3. <<i, c>> \in Assigned(hs2)
    BY <1>4, Zenon
  <2> QED
    BY <2>1, <2>2, <2>3, Zenon
<1>6. /\ IsFiniteSet(Assigned(hs) \cup {<<i, c>>})
      /\ Cardinality(Assigned(hs) \cup {<<i, c>>}) = Cardinality(Assigned(hs)) + 1
  BY <1>3, FS_AddElement, Zenon
<1> QED
  BY <1>5, <1>6, Zenon

\* A row that is not valid, or one too many.
LEMMA BadRow ==
    ASSUME NEW f \in Seq(Records), NEW x \in Records, NEW g, Longer(f, x, g),
           x.shape # "row" \/ ~validateImportRow(x) \/ Len(f) + 1 > MaxImportRows
    PROVE  ~GoodFile(g)
<1>1. Len(f) \in Nat /\ Len(g) = Len(f) + 1 /\ g[Len(f) + 1] = x
  BY RowsFound, Zenon DEF Longer
<1>2. Len(f) + 1 \in 1..Len(g)
  BY <1>1
<1>3. MaxImportRows \in Nat
  BY ImportLimits, Zenon
<1>4. Len(f) + 1 > MaxImportRows => ~(Len(g) <= MaxImportRows)
  BY <1>1, <1>3, SMTT(30)
<1> QED
  BY <1>1, <1>2, <1>4, Zenon DEF GoodFile

\* A row whose key is new.
LEMMA NewKey ==
    ASSUME NEW f \in Seq(Records), NEW x \in Records, NEW g, Longer(f, x, g),
           IsFiniteSet(Keys(f)), NEW hs, Grouped(f, hs),
           \A i \in 1..Len(hs) : hs[i].key # x.key
    PROVE  /\ x.key \notin Keys(f) /\ Cardinality(Keys(g)) = Len(hs) + 1
           /\ RowsOf(f, x.key) = {} /\ Cardinality(RowsOf(g, x.key)) = 1
<1>1. /\ \A k \in 1..Len(f) : \E i \in 1..Len(hs) : hs[i].key = f[k].key
      /\ Len(hs) = Cardinality(Keys(f))
  BY Zenon DEF Grouped, Holds
<1>2. \A k \in 1..Len(f) : f[k].key # x.key
  BY <1>1, Zenon
<1>3. x.key \notin Keys(f) /\ RowsOf(f, x.key) = {}
  BY <1>2, Zenon DEF Keys, RowsOf
<1>4. Keys(g) = Keys(f) \cup {x.key}
  BY RecordMore
<1>5. Cardinality(Keys(g)) = Len(hs) + 1
  BY <1>1, <1>3, <1>4, FS_AddElement, ZenonT(30)
<1>6. Cardinality(RowsOf(g, x.key)) = Cardinality(RowsOf(f, x.key)) + 1
  BY RecordMore
<1>7. Cardinality(RowsOf(f, x.key)) = 0
  BY <1>3, FS_EmptySet, Zenon
<1> QED
  BY <1>3, <1>5, <1>6, <1>7, SMTT(30)

\* The row of an existing household: the rows of its key are there, and have its
\* profile.
LEMMA OldKey ==
    ASSUME NEW f \in Seq(Records), NEW hs, Grouped(f, hs), NEW i \in 1..Len(hs)
    PROVE  /\ RowsOf(f, hs[i].key) # {} /\ hs[i].key \in Keys(f)
           /\ \A k \in RowsOf(f, hs[i].key) : f[k].profile = hs[i].profile
<1>1. /\ Len(hs[i].guests) = Cardinality(RowsOf(f, hs[i].key))
      /\ Len(hs[i].guests) \in 1..MaxHouseholdGuests
  BY Zenon DEF Grouped, Complete
<1>2. Cardinality(RowsOf(f, hs[i].key)) # 0
  <2>1. Len(hs[i].guests) # 0
    BY <1>1, ImportAssumption
  <2> QED
    BY <1>1, <2>1, Zenon
<1>3. RowsOf(f, hs[i].key) # {}
  BY <1>2, FS_EmptySet, Zenon
<1>4. ASSUME NEW k \in RowsOf(f, hs[i].key) PROVE f[k].profile = hs[i].profile
  <2>1. k \in 1..Len(f) /\ f[k].key = hs[i].key
    BY Zenon DEF RowsOf
  <2>2. PICK j \in 1..Len(hs) : hs[j].key = f[k].key /\ hs[j].profile = f[k].profile
    BY <2>1, Zenon DEF Grouped, Holds
  <2>3. j = i
    BY <2>1, <2>2, Zenon DEF Grouped
  <2> QED
    BY <2>2, <2>3, Zenon
<1>5. hs[i].key \in Keys(f)
  BY <1>3, Zenon DEF RowsOf, Keys
<1> QED
  BY <1>3, <1>4, <1>5, Zenon

\* A valid row that fits in keeps a file good.
LEMMA GoodRow ==
    ASSUME NEW f \in Seq(Records), NEW x \in Records, NEW g, Longer(f, x, g), GoodFile(f),
           x.shape = "row", validateImportRow(x), Len(f) + 1 <= MaxImportRows,
           Cardinality(Keys(g)) <= MaxImportHouseholds,
           Cardinality(RowsOf(g, x.key)) <= MaxHouseholdGuests,
           \A k \in RowsOf(f, x.key) : f[k].profile = x.profile
    PROVE  GoodFile(g)
<1> DEFINE n == Len(f)
<1>1. /\ n \in Nat /\ Len(g) = n + 1
      /\ \A k \in 1..n : g[k] = f[k]
      /\ g[n + 1] = x
  BY RowsFound, ZenonT(30) DEF Longer
<1>2. /\ RowsOf(g, x.key) = RowsOf(f, x.key) \cup {n + 1}
      /\ \A key : key # x.key => RowsOf(g, key) = RowsOf(f, key)
  BY RecordMore, SMTT(30)
<1>3. \A key : RowsOf(f, key) \subseteq 1..n
  BY Zenon DEF RowsOf
<1>4. /\ \A k \in 1..n : f[k].shape = "row" /\ validateImportRow(f[k])
      /\ \A k \in 1..n :
            /\ Cardinality(RowsOf(f, f[k].key)) <= MaxHouseholdGuests
            /\ \A m \in RowsOf(f, f[k].key) : f[m].profile = f[k].profile
  BY Zenon DEF GoodFile
<1>5. Len(g) <= MaxImportRows
  BY <1>1, Zenon
<1> HIDE DEF n
<1>6. 1..(n + 1) = (1..n) \cup {n + 1}
  BY <1>1
<1>7. \A k \in 1..(n + 1) : g[k].shape = "row" /\ validateImportRow(g[k])
  BY <1>1, <1>4, <1>6, Zenon
<1>8. ASSUME NEW k \in 1..(n + 1)
      PROVE  /\ Cardinality(RowsOf(g, g[k].key)) <= MaxHouseholdGuests
             /\ \A m \in RowsOf(g, g[k].key) : g[m].profile = g[k].profile
  <2>1. CASE g[k].key = x.key
    <3>1. ASSUME NEW m \in RowsOf(g, x.key) PROVE g[m].profile = x.profile
      <4>1. CASE m = n + 1
        BY <1>1, <4>1, Zenon
      <4>2. CASE m \in RowsOf(f, x.key)
        BY <1>1, <1>3, <4>2, Zenon
      <4> QED
        BY <1>2, <4>1, <4>2, Zenon
    <3>2. g[k].profile = x.profile
      <4>1. CASE k = n + 1
        BY <1>1, <4>1, Zenon
      <4>2. CASE k \in 1..n
        <5>1. k \in RowsOf(f, x.key)
          BY <1>1, <2>1, <4>2, Zenon DEF RowsOf, n
        <5> QED
          BY <1>1, <4>2, <5>1, Zenon
      <4> QED
        BY <1>6, <4>1, <4>2, Zenon
    <3> QED
      BY <2>1, <3>1, <3>2, Zenon
  <2>2. CASE g[k].key # x.key
    <3>1. k \in 1..n
      BY <1>1, <1>6, <2>2, Zenon
    <3>2. g[k] = f[k] /\ RowsOf(g, g[k].key) = RowsOf(f, f[k].key)
      BY <1>1, <1>2, <2>2, <3>1, Zenon
    <3> QED
      BY <1>1, <1>3, <1>4, <3>1, <3>2, ZenonT(30)
  <2> QED
    BY <2>1, <2>2, Zenon
<1> QED
  BY <1>1, <1>5, <1>7, <1>8, Zenon DEF GoodFile

\* Other households stand for the same rows as before.
LEMMA OthersKept ==
    ASSUME NEW f \in Seq(Records), NEW x \in Records, NEW g, Longer(f, x, g), NEW h
    PROVE  /\ h.key # x.key /\ Complete(f, h) => Complete(g, h)
           /\ \A k \in 1..Len(f) : Holds(f, h, k) => Holds(g, h, k)
<1>1. /\ h.key # x.key => RowsOf(g, h.key) = RowsOf(f, h.key)
      /\ \A k \in 1..Len(f) : UpTo(g, k) = UpTo(f, k)
  BY RecordMore
<1>2. \A k \in 1..Len(f) : g[k] = f[k]
  BY Zenon DEF Longer
<1> QED
  BY <1>1, <1>2, ZenonT(30) DEF Complete, Holds

\* A household more than there may be.
LEMMA OneTooMany ==
    ASSUME NEW f \in Seq(Records), NEW x \in Records, NEW g, Longer(f, x, g),
           IsFiniteSet(Keys(f)), NEW hs, Grouped(f, hs),
           \A i \in 1..Len(hs) : hs[i].key # x.key,
           Len(hs) >= MaxImportHouseholds
    PROVE  ~GoodFile(g)
<1>1. Cardinality(Keys(g)) = Len(hs) + 1
  BY NewKey, SMTT(30)
<1>2. Len(hs) \in Nat
  <2>1. hs \in Seq(ImportHousehold)
    BY Zenon DEF Grouped
  <2> QED
    BY <2>1
<1>3. MaxImportHouseholds \in Nat
  BY ImportLimits, Zenon
<1>4. ~(Cardinality(Keys(g)) <= MaxImportHouseholds)
  BY <1>1, <1>2, <1>3
<1> QED
  BY <1>4, ZenonT(30) DEF GoodFile

\* A household that starts.
LEMMA HouseholdStarts ==
    ASSUME NEW f \in Seq(Records), NEW x \in Records, NEW g, Longer(f, x, g),
           IsFiniteSet(Keys(f)), NEW hs, Grouped(f, hs), GoodFile(f),
           x.shape = "row", validateImportRow(x), Len(f) + 1 <= MaxImportRows,
           \A i \in 1..Len(hs) : hs[i].key # x.key,
           ~(Len(hs) >= MaxImportHouseholds),
           NEW h, h = [key |-> x.key, profile |-> x.profile, guests |-> <<x.guest>>]
    PROVE  GoodFile(g) /\ Grouped(g, Append(hs, h))
<1> DEFINE l == Len(hs)
           hs2 == Append(hs, h)
<1>1. /\ hs \in Seq(ImportHousehold)
      /\ \A i, j \in 1..l : hs[i].key = hs[j].key => i = j
      /\ \A i \in 1..l : Complete(f, hs[i])
      /\ \A k \in 1..Len(f) : \E i \in 1..l : Holds(f, hs[i], k)
      /\ IsFiniteSet(Assigned(hs)) /\ Cardinality(Assigned(hs)) = Len(f)
  BY Zenon DEF Grouped
<1>2. /\ x.key \notin Keys(f) /\ Cardinality(Keys(g)) = l + 1
      /\ RowsOf(f, x.key) = {} /\ Cardinality(RowsOf(g, x.key)) = 1
  BY NewKey, Zenon
<1>3. /\ x.key \in STRING /\ x.profile \in STRING /\ x.guest \in STRING
  BY RecordFields, Zenon
<1>4. /\ MaxImportHouseholds \in Nat /\ MaxHouseholdGuests \in Nat /\ MaxHouseholdGuests >= 1
  BY ImportLimits, Zenon
<1>5. /\ h \in ImportHousehold /\ h.key = x.key /\ h.profile = x.profile
      /\ Len(h.guests) = 1 /\ h.guests[1] = x.guest
  BY <1>3, SMTT(30) DEF ImportHousehold
<1>6. /\ l \in Nat /\ hs2 \in Seq(ImportHousehold) /\ Len(hs2) = l + 1
      /\ \A i \in 1..l : hs2[i] = hs[i]
      /\ hs2[l + 1] = h
  BY <1>1, <1>5, SMTT(30)
<1>7. l + 1 <= MaxImportHouseholds
  BY <1>4, <1>6
<1> HIDE DEF hs2
<1>8. GoodFile(g)
  <2>1. Cardinality(Keys(g)) <= MaxImportHouseholds
    BY <1>2, <1>7, ZenonT(30)
  <2>2. Cardinality(RowsOf(g, x.key)) <= MaxHouseholdGuests
    BY <1>2, <1>4
  <2> QED
    BY <1>2, <2>1, <2>2, GoodRow, Zenon
<1>9. \A i \in 1..l : hs[i].key # x.key
  BY ZenonT(30)
<1> HIDE DEF l
<1>10. 1..(l + 1) = (1..l) \cup {l + 1} /\ l + 1 \in 1..(l + 1) /\ l + 1 \notin 1..l
  BY <1>6
<1>11. ASSUME NEW i \in 1..(l + 1), NEW j \in 1..(l + 1), hs2[i].key = hs2[j].key PROVE i = j
  <2>1. ASSUME NEW k \in 1..l PROVE hs2[k].key = hs[k].key /\ hs2[k].key # hs2[l + 1].key
    BY <1>5, <1>6, <1>9, Zenon
  <2>2. CASE i \in 1..l /\ j \in 1..l
    BY <1>1, <1>11, <2>1, <2>2, Zenon
  <2>3. CASE i \in 1..l /\ j = l + 1
    BY <1>11, <2>1, <2>3, Zenon
  <2>4. CASE i = l + 1 /\ j \in 1..l
    BY <1>11, <2>1, <2>4, Zenon
  <2> QED
    BY <1>10, <2>2, <2>3, <2>4, Zenon
<1>12. Complete(g, h)
  <2>1. 1 \in 1..MaxHouseholdGuests /\ \A i \in 1..1 : i = 1
    BY <1>4
  <2> QED
    BY <1>2, <1>5, <2>1, ZenonT(30) DEF Complete, validateImportRow
<1>13. \A i \in 1..(l + 1) : Complete(g, hs2[i])
  <2>1. ASSUME NEW i \in 1..l PROVE Complete(g, hs[i])
    <3>1. hs[i].key # x.key /\ Complete(f, hs[i])
      BY <1>1, <1>9, Zenon
    <3> QED
      BY <3>1, OthersKept, Zenon
  <2> QED
    BY <1>6, <1>10, <1>12, <2>1, Zenon
<1>14. /\ Len(f) \in Nat /\ Len(g) = Len(f) + 1 /\ g[Len(f) + 1] = x
  BY RowsFound, Zenon DEF Longer
<1>15. Holds(g, h, Len(f) + 1)
  <2>1. UpTo(g, Len(f) + 1) = RowsOf(g, x.key)
    BY RecordMore, SMTT(30)
  <2>2. Cardinality(UpTo(g, Len(f) + 1)) = 1 /\ 1 \in 1..1
    BY <1>2, <2>1, SMTT(30)
  <2> QED
    BY <1>5, <1>14, <2>2, ZenonT(30) DEF Holds
<1>16. ASSUME NEW k \in 1..Len(g) PROVE \E i \in 1..(l + 1) : Holds(g, hs2[i], k)
  <2>1. CASE k = Len(f) + 1
    BY <1>6, <1>10, <1>15, <2>1, Zenon
  <2>2. CASE k # Len(f) + 1
    <3>1. k \in 1..Len(f)
      BY <1>14, <2>2
    <3>2. PICK i \in 1..l : Holds(f, hs[i], k)
      BY <1>1, <3>1, Zenon
    <3>3. Holds(g, hs2[i], k)
      BY <1>6, <3>1, <3>2, OthersKept, Zenon
    <3> QED
      BY <1>10, <3>3, ZenonT(30)
  <2> QED
    BY <2>1, <2>2, Zenon
<1>17. /\ IsFiniteSet(Assigned(hs2)) /\ Cardinality(Assigned(hs2)) = Cardinality(Assigned(hs)) + 1
  <2>1. 1 \in Nat \ {0}
    OBVIOUS
  <2>2. \A j \in 1..l : j # l + 1 => hs2[j] = hs[j]
    BY <1>6, Zenon
  <2>3. /\ l + 1 \in 1..Len(hs2) /\ Len(hs2[l + 1].guests) = 1
        /\ 1..Len(hs2) = (1..Len(hs)) \cup {l + 1}
        /\ l + 1 \notin 1..Len(hs)
        /\ \A j \in 1..Len(hs) : j # l + 1 => hs2[j] = hs[j]
    BY <1>5, <1>6, <1>10, <2>2, Zenon DEF l
  <2> QED
    BY <1>1, <1>6, <2>1, <2>3, OneGuestMore, ZenonT(30)
<1>18. Grouped(g, hs2)
  BY <1>1, <1>2, <1>6, <1>7, <1>11, <1>13, <1>14, <1>16, <1>17, ZenonT(30) DEF Grouped
<1> QED
  BY <1>8, <1>18, Zenon DEF hs2

\* A row that conflicts with its household, or one guest too many.
LEMMA NoRoom ==
    ASSUME NEW f \in Seq(Records), NEW x \in Records, NEW g, Longer(f, x, g),
           NEW hs, Grouped(f, hs), NEW i \in 1..Len(hs), hs[i].key = x.key,
           hs[i].profile # x.profile \/ Len(hs[i].guests) >= MaxHouseholdGuests
    PROVE  ~GoodFile(g)
<1> DEFINE n == Len(f)
<1>1. /\ n \in Nat /\ Len(g) = n + 1
      /\ \A k \in 1..n : g[k] = f[k]
      /\ g[n + 1] = x
  BY RowsFound, Zenon DEF Longer
<1>2. n + 1 \in 1..(n + 1)
  BY <1>1, SMTT(30)
<1>3. /\ RowsOf(g, x.key) = RowsOf(f, x.key) \cup {n + 1}
      /\ Cardinality(RowsOf(g, x.key)) = Cardinality(RowsOf(f, x.key)) + 1
  BY RecordMore
<1>4. CASE hs[i].profile # x.profile
  <2>0. RowsOf(f, hs[i].key) # {} /\ \A k \in RowsOf(f, hs[i].key) : f[k].profile = hs[i].profile
    BY OldKey
  <2>1. PICK k \in RowsOf(f, x.key) : f[k].profile = hs[i].profile
    BY <2>0, Zenon
  <2>2. k \in 1..n
    BY Zenon DEF RowsOf
  <2>3. k \in RowsOf(g, x.key) /\ g[k].profile # x.profile
    BY <1>1, <1>3, <1>4, <2>1, <2>2, Zenon
  <2> QED
    BY <1>1, <1>2, <2>3, ZenonT(30) DEF GoodFile
<1>5. CASE Len(hs[i].guests) >= MaxHouseholdGuests
  <2>1. Len(hs[i].guests) = Cardinality(RowsOf(f, x.key))
    BY ZenonT(30) DEF Grouped, Complete
  <2>2. Cardinality(RowsOf(f, x.key)) \in Nat /\ MaxHouseholdGuests \in Nat
    BY RowsFound, ImportLimits, Zenon
  <2>3. ~(Cardinality(RowsOf(g, x.key)) <= MaxHouseholdGuests)
    BY <1>3, <1>5, <2>1, <2>2, SMTT(30)
  <2> QED
    BY <1>1, <1>2, <2>3, Zenon DEF GoodFile
<1> QED
  BY <1>4, <1>5, Zenon

\* A guest who joins their household.
LEMMA GuestJoins ==
    ASSUME NEW f \in Seq(Records), NEW x \in Records, NEW g, Longer(f, x, g),
           IsFiniteSet(Keys(f)), NEW hs, Grouped(f, hs), GoodFile(f),
           x.shape = "row", validateImportRow(x), Len(f) + 1 <= MaxImportRows,
           NEW i \in 1..Len(hs), hs[i].key = x.key, hs[i].profile = x.profile,
           ~(Len(hs[i].guests) >= MaxHouseholdGuests)
    PROVE  GoodFile(g) /\ Grouped(g, [hs EXCEPT ![i].guests = Append(@, x.guest)])
<1> DEFINE l == Len(hs)
           h == [hs[i] EXCEPT !.guests = Append(@, x.guest)]
           hs2 == [hs EXCEPT ![i].guests = Append(@, x.guest)]
           c == Len(hs[i].guests)
<1>1. /\ hs \in Seq(ImportHousehold)
      /\ \A a, b \in 1..l : hs[a].key = hs[b].key => a = b
      /\ \A a \in 1..l : Complete(f, hs[a])
      /\ \A k \in 1..Len(f) : \E a \in 1..l : Holds(f, hs[a], k)
      /\ l = Cardinality(Keys(f)) /\ l <= MaxImportHouseholds
      /\ IsFiniteSet(Assigned(hs)) /\ Cardinality(Assigned(hs)) = Len(f)
  BY Zenon DEF Grouped
<1>2. x.guest \in STRING
  BY RecordFields, Zenon
<1>3. hs[i] \in ImportHousehold /\ l \in Nat
  BY <1>1, ElementOf, Zenon
<1>4. hs[i].guests \in Seq(STRING)
  BY <1>3 DEF ImportHousehold
<1>5. /\ h \in ImportHousehold /\ h.key = x.key /\ h.profile = x.profile
      /\ h.guests = Append(hs[i].guests, x.guest)
  <2> DEFINE y == hs[i]
             s == Append(y.guests, x.guest)
  <2>1. s \in Seq(STRING)
    BY <1>2, <1>4
  <2>2. h = [y EXCEPT !.guests = s]
    BY Zenon
  <2>3. y \in ImportHousehold /\ y.key = x.key /\ y.profile = x.profile
    BY <1>3, Zenon
  <2> HIDE DEF y, s, h
  <2>4. h \in ImportHousehold /\ h.key = y.key /\ h.profile = y.profile /\ h.guests = s
    BY <2>1, <2>2, <2>3, Zenon DEF ImportHousehold
  <2> QED
    BY <2>3, <2>4, ZenonT(30) DEF s, y
<1>6. /\ c \in Nat /\ Len(h.guests) = c + 1
      /\ \A p \in 1..c : h.guests[p] = hs[i].guests[p]
      /\ h.guests[c + 1] = x.guest
  BY <1>2, <1>4, <1>5
<1>7. /\ hs2 \in Seq(ImportHousehold) /\ Len(hs2) = l
      /\ \A a \in 1..l : a # i => hs2[a] = hs[a]
      /\ hs2[i] = h
  <2>1. hs2 = [hs EXCEPT ![i] = h]
    BY ZenonT(30)
  <2> HIDE DEF h, hs2
  <2> QED
    BY <1>1, <1>5, <2>1
<1> HIDE DEF h, hs2, c
<1>8. /\ MaxHouseholdGuests \in Nat /\ c + 1 <= MaxHouseholdGuests
      /\ c + 1 \in 1..MaxHouseholdGuests /\ c + 1 \in 1..(c + 1)
      /\ 1..(c + 1) = (1..c) \cup {c + 1}
  <2>1. MaxHouseholdGuests \in Nat
    BY ImportLimits, Zenon
  <2>2. ~(c >= MaxHouseholdGuests)
    BY Zenon DEF c
  <2> QED
    BY <1>6, <2>1, <2>2, SMTT(30)
<1>9. c = Cardinality(RowsOf(f, x.key)) /\ Cardinality(RowsOf(g, x.key)) = c + 1
  <2>1. c = Cardinality(RowsOf(f, x.key))
    BY <1>1, ZenonT(30) DEF Complete, c
  <2>2. Cardinality(RowsOf(g, x.key)) = Cardinality(RowsOf(f, x.key)) + 1
    BY RecordMore
  <2> QED
    BY <2>1, <2>2, Zenon
<1>10. Keys(g) = Keys(f)
  <2>1. Keys(g) = Keys(f) \cup {x.key}
    BY RecordMore
  <2>2. x.key \in Keys(f)
    BY OldKey, Zenon
  <2> QED
    BY <2>1, <2>2, ZenonT(30)
<1>11. GoodFile(g)
  <2>0. \A k \in RowsOf(f, hs[i].key) : f[k].profile = hs[i].profile
    BY OldKey
  <2>1. \A k \in RowsOf(f, x.key) : f[k].profile = x.profile
    BY <2>0, Zenon
  <2>2. Cardinality(Keys(g)) <= MaxImportHouseholds
    BY <1>1, <1>10, Zenon
  <2>3. Cardinality(RowsOf(g, x.key)) <= MaxHouseholdGuests
    BY <1>8, <1>9, Zenon
  <2> QED
    BY <2>1, <2>2, <2>3, GoodRow, ZenonT(30)
<1>12. \A a \in 1..l : a # i => hs[a].key # x.key
  BY <1>1, Zenon
<1>13. \A a, b \in 1..l : hs2[a].key = hs2[b].key => a = b
  <2>1. \A a \in 1..l : hs2[a].key = hs[a].key
    BY <1>5, <1>7, Zenon
  <2> QED
    BY <1>1, <2>1, Zenon
<1>14. Complete(g, h)
  <2>1. Complete(f, hs[i])
    BY <1>1, Zenon
  <2>2. ASSUME NEW p \in 1..(c + 1) PROVE h.guests[p] # ""
    <3>1. x.guest # ""
      BY Zenon DEF validateImportRow
    <3>2. \A q \in 1..c : hs[i].guests[q] # ""
      BY <2>1, Zenon DEF Complete, c
    <3> QED
      BY <1>6, <1>8, <3>1, <3>2, Zenon
  <2>3. x.key # "" /\ x.profile # "invalid"
    BY Zenon DEF validateImportRow
  <2> QED
    BY <1>5, <1>6, <1>8, <1>9, <2>2, <2>3, ZenonT(30) DEF Complete
<1>15. ASSUME NEW a \in 1..l PROVE Complete(g, hs2[a])
  <2>1. CASE a = i
    BY <1>7, <1>14, <2>1, Zenon
  <2>2. CASE a # i
    <3>1. hs2[a] = hs[a] /\ hs[a].key # x.key /\ Complete(f, hs[a])
      BY <1>1, <1>7, <1>12, <2>2, ZenonT(30)
    <3>2. Complete(g, hs[a])
      BY <3>1, OthersKept, Zenon
    <3> QED
      BY <3>1, <3>2, Zenon
  <2> QED
    BY <2>1, <2>2, Zenon
<1>16. /\ Len(f) \in Nat /\ Len(g) = Len(f) + 1 /\ g[Len(f) + 1] = x
  BY RowsFound, Zenon DEF Longer
<1>17. Holds(g, h, Len(f) + 1)
  <2>1. UpTo(g, Len(f) + 1) = RowsOf(g, x.key)
    BY RecordMore
  <2>2. Cardinality(UpTo(g, Len(f) + 1)) = c + 1
    BY <1>9, <2>1, Zenon
  <2> QED
    BY <1>5, <1>6, <1>8, <1>16, <2>2, ZenonT(30) DEF Holds
<1>18. ASSUME NEW k \in 1..Len(f), Holds(g, hs[i], k) PROVE Holds(g, h, k)
  <2> DEFINE p == Cardinality(UpTo(g, k))
  <2>1. /\ x.key = g[k].key /\ x.profile = g[k].profile
        /\ p \in 1..c /\ hs[i].guests[p] = g[k].guest
    BY <1>18, Zenon DEF Holds, c
  <2> HIDE DEF p
  <2>2. p \in 1..Len(h.guests) /\ h.guests[p] = g[k].guest
    BY <1>6, <1>8, <2>1, Zenon
  <2> QED
    BY <1>5, <2>1, <2>2, Zenon DEF Holds, p
<1>19. ASSUME NEW k \in 1..Len(g) PROVE \E a \in 1..l : Holds(g, hs2[a], k)
  <2>1. CASE k = Len(f) + 1
    BY <1>7, <1>17, <2>1, Zenon
  <2>2. CASE k # Len(f) + 1
    <3>1. k \in 1..Len(f)
      BY <1>16, <2>2
    <3>2. PICK a \in 1..l : Holds(f, hs[a], k)
      BY <1>1, <3>1, Zenon
    <3>3. Holds(g, hs[a], k)
      BY <3>1, <3>2, OthersKept, Zenon
    <3>4. CASE a = i
      BY <1>7, <1>18, <3>1, <3>3, <3>4, ZenonT(30)
    <3>5. CASE a # i
      BY <1>7, <3>3, <3>5, Zenon
    <3> QED
      BY <3>4, <3>5, ZenonT(30)
  <2> QED
    BY <2>1, <2>2, Zenon
<1>20. /\ IsFiniteSet(Assigned(hs2)) /\ Cardinality(Assigned(hs2)) = Cardinality(Assigned(hs)) + 1
  <2>1. /\ c + 1 \in Nat \ {0} /\ Len(hs[i].guests) = (c + 1) - 1
    BY <1>6, SMTT(30) DEF c
  <2>2. 1..Len(hs2) = (1..Len(hs)) \cup {i} /\ i \in 1..Len(hs2) /\ Len(hs2[i].guests) = c + 1
    BY <1>6, <1>7, Zenon
  <2>3. \A j \in 1..Len(hs) : j # i => hs2[j] = hs[j]
    BY <1>7, Zenon
  <2> QED
    BY <1>1, <1>7, <2>1, <2>2, <2>3, OneGuestMore, ZenonT(30)
<1>21. Grouped(g, hs2)
  BY <1>1, <1>7, <1>10, <1>13, <1>15, <1>16, <1>19, <1>20, ZenonT(30) DEF Grouped
<1> QED
  BY <1>11, <1>21, Zenon DEF hs2

\* What the preview knows of what it has read: while nothing is wrong, the file
\* is a good one and the households hold all of it; once something is, no record
\* to come makes the file good again.
ImportInv ==
    /\ file \in Seq(Records)
    /\ preview \in [households : Seq(ImportHousehold), clean : BOOLEAN, reading : BOOLEAN]
    /\ IsFiniteSet(Keys(file))
    /\ preview.clean => GoodFile(file) /\ Grouped(file, preview.households)
    /\ ~preview.clean => ~GoodFile(file)

\* Nothing is read yet.
LEMMA ImportStarts == ImportInit => ImportInv
<1> SUFFICES ASSUME ImportInit PROVE ImportInv
  BY SMTT(30)
<1>1. /\ file = <<>> /\ preview.households = <<>> /\ preview.clean = TRUE
      /\ preview \in [households : Seq(ImportHousehold), clean : BOOLEAN, reading : BOOLEAN]
  BY DEF ImportInit, emptyImportPreview
<1>2. file \in Seq(Records) /\ Len(file) = 0 /\ 1..Len(file) = {}
  BY <1>1
<1>3. Keys(file) = {}
  BY <1>2, Zenon DEF Keys
<1>4. IsFiniteSet({}) /\ Cardinality({}) = 0
  BY FS_EmptySet, Zenon
<1>5. 0 <= MaxImportRows /\ 0 <= MaxImportHouseholds
  BY ImportAssumption
<1>6. GoodFile(file)
  BY <1>2, <1>3, <1>4, <1>5, Zenon DEF GoodFile
<1>7. <<>> \in Seq(ImportHousehold) /\ Len(<<>>) = 0 /\ 1..Len(<<>>) = {}
  OBVIOUS
<1>8. Assigned(<<>>) = {}
  BY <1>7, Zenon DEF Assigned
<1>9. Grouped(file, <<>>)
  BY <1>2, <1>3, <1>4, <1>5, <1>7, <1>8, Zenon DEF Grouped
<1> QED
  BY <1>1, <1>2, <1>3, <1>4, <1>6, <1>9, Zenon DEF ImportInv

\* What AddRow makes of the preview of a good file.
LEMMA RowAdded ==
    ASSUME ImportInv, preview.clean, NEW x \in Records, NEW g, Longer(file, x, g),
           x.shape = "row", validateImportRow(x), Len(file) + 1 <= MaxImportRows
    PROVE  /\ AddRow(x).clean \in BOOLEAN
           /\ AddRow(x).clean => GoodFile(g) /\ Grouped(g, AddRow(x).households)
           /\ ~AddRow(x).clean => ~GoodFile(g)
<1> DEFINE hs == preview.households
           at == {i \in 1..Len(hs) : hs[i].key = x.key}
           h == [key |-> x.key, profile |-> x.profile, guests |-> <<x.guest>>]
           i == CHOOSE j \in at : TRUE
           hs2 == [hs EXCEPT ![i].guests = Append(@, x.guest)]
<1>1. /\ file \in Seq(Records) /\ IsFiniteSet(Keys(file))
      /\ GoodFile(file) /\ Grouped(file, hs) /\ hs \in Seq(ImportHousehold)
      /\ preview \in [households : Seq(ImportHousehold), clean : BOOLEAN, reading : BOOLEAN]
  BY DEF ImportInv
<1>2. Wrong.clean = FALSE
  BY <1>1 DEF Wrong
<1>3. CASE at = {}
  <2>0. \A j \in 1..Len(hs) : hs[j].key # x.key
    BY <1>3, Zenon
  <2>1. CASE Len(hs) >= MaxImportHouseholds
    <3>1. AddRow(x) = Wrong
      BY <1>3, <2>1, ZenonT(30) DEF AddRow
    <3>2. ~GoodFile(g)
      BY <1>1, <2>0, <2>1, OneTooMany, SMTT(30)
    <3> QED
      BY <1>2, <3>1, <3>2, Zenon
  <2>2. CASE ~(Len(hs) >= MaxImportHouseholds)
    <3>1. AddRow(x) = [preview EXCEPT !.households = Append(@, h)]
      BY <1>3, <2>2, Zenon DEF AddRow
    <3>2. AddRow(x).clean = preview.clean /\ AddRow(x).households = Append(hs, h)
      BY <1>1, <3>1, ZenonT(30)
    <3> HIDE DEF hs
    <3>3. GoodFile(g) /\ Grouped(g, Append(hs, h))
      BY <1>1, <2>0, <2>2, HouseholdStarts, SMTT(30)
    <3> QED
      BY <1>1, <3>2, <3>3, Zenon
  <2> QED
    BY <2>1, <2>2, Zenon
<1>4. CASE at # {}
  <2>1. i \in 1..Len(hs) /\ hs[i].key = x.key
    BY <1>4, Zenon
  <2>2. CASE hs[i].profile # x.profile \/ Len(hs[i].guests) >= MaxHouseholdGuests
    <3>1. AddRow(x) = Wrong
      BY <1>4, <2>2, ZenonT(30) DEF AddRow
    <3> HIDE DEF hs, i
    <3>2. ~GoodFile(g)
      BY <1>1, <2>1, <2>2, NoRoom, SMTT(30)
    <3> QED
      BY <1>2, <3>1, <3>2, ZenonT(30)
  <2>3. CASE ~(hs[i].profile # x.profile \/ Len(hs[i].guests) >= MaxHouseholdGuests)
    <3>1. AddRow(x) = [preview EXCEPT !.households[i].guests = Append(@, x.guest)]
      BY <1>4, <2>3, Zenon DEF AddRow
    <3>2. [preview EXCEPT !.households[i].guests = Append(@, x.guest)]
              = [preview EXCEPT !.households = hs2]
      BY ZenonT(30)
    <3> HIDE DEF hs2
    <3>3. AddRow(x).clean = preview.clean /\ AddRow(x).households = hs2
      BY <1>1, <3>1, <3>2, Zenon
    <3> HIDE DEF hs, i
    <3>4. GoodFile(g) /\ Grouped(g, [hs EXCEPT ![i].guests = Append(@, x.guest)])
      BY <1>1, <2>1, <2>3, GuestJoins, Zenon
    <3> QED
      BY <1>1, <3>3, <3>4, Zenon DEF hs2
  <2> QED
    BY <2>2, <2>3, Zenon
<1> QED
  BY <1>3, <1>4, ZenonT(30)

\* AddRow keeps the preview's type, and what was wrong stays wrong.
LEMMA RowTyped ==
    ASSUME preview \in [households : Seq(ImportHousehold), clean : BOOLEAN, reading : BOOLEAN],
           NEW x \in Records
    PROVE  /\ AddRow(x) \in [households : Seq(ImportHousehold), clean : BOOLEAN, reading : BOOLEAN]
           /\ Wrong \in [households : Seq(ImportHousehold), clean : BOOLEAN, reading : BOOLEAN]
           /\ Wrong.clean = FALSE
           /\ ~preview.clean => ~AddRow(x).clean
<1> DEFINE T == [households : Seq(ImportHousehold), clean : BOOLEAN, reading : BOOLEAN]
           hs == preview.households
           at == {i \in 1..Len(hs) : hs[i].key = x.key}
           h == [key |-> x.key, profile |-> x.profile, guests |-> <<x.guest>>]
           i == CHOOSE j \in at : TRUE
           y == [hs[i] EXCEPT !.guests = Append(@, x.guest)]
<1>1. x.key \in STRING /\ x.profile \in STRING /\ x.guest \in STRING
  BY RecordFields, Zenon
<1>2. Wrong \in T /\ Wrong.clean = FALSE
  BY Zenon DEF Wrong
<1>3. hs \in Seq(ImportHousehold)
  OBVIOUS
<1>4. h \in ImportHousehold
  BY <1>1 DEF ImportHousehold
<1>5. Append(hs, h) \in Seq(ImportHousehold)
  <2> HIDE DEF hs, h
  <2> QED
    BY <1>3, <1>4
<1>6. ASSUME NEW s \in Seq(ImportHousehold)
      PROVE  [preview EXCEPT !.households = s] \in T
             /\ [preview EXCEPT !.households = s].clean = preview.clean
  OBVIOUS
<1>7. CASE at = {}
  <2>1. AddRow(x) = Wrong \/ AddRow(x) = [preview EXCEPT !.households = Append(hs, h)]
    BY <1>7, Zenon DEF AddRow
  <2> HIDE DEF hs, h
  <2> QED
    BY <1>2, <1>5, <1>6, <2>1, Zenon
<1>8. CASE at # {}
  <2>1. i \in 1..Len(hs)
    BY <1>8, Zenon
  <2>2. AddRow(x) = Wrong \/ AddRow(x) = [preview EXCEPT !.households = [hs EXCEPT ![i] = y]]
    BY <1>8, Zenon DEF AddRow
  <2>3. hs[i] \in ImportHousehold
    <3> HIDE DEF hs, i
    <3> QED
      BY <1>3, <2>1
  <2>4. y \in ImportHousehold
    <3> DEFINE z == hs[i]
    <3>1. y = [z EXCEPT !.guests = Append(z.guests, x.guest)]
      BY Zenon
    <3>2. z \in ImportHousehold
      BY <2>3, Zenon
    <3> HIDE DEF z, y
    <3>3. z.guests \in Seq(STRING)
      BY <3>2 DEF ImportHousehold
    <3>4. Append(z.guests, x.guest) \in Seq(STRING)
      BY <1>1, <3>3
    <3> QED
      BY <3>1, <3>2, <3>4, Zenon DEF ImportHousehold
  <2> HIDE DEF hs, i, y
  <2>5. [hs EXCEPT ![i] = y] \in Seq(ImportHousehold)
    BY <1>3, <2>1, <2>4, SMTT(30)
  <2> QED
    BY <1>2, <1>6, <2>2, <2>5, Zenon
<1> QED
  BY <1>2, <1>7, <1>8, Zenon

\* A turn of the loop.
LEMMA ReadRecordKeeps ==
    ASSUME ImportInv, NEW x \in Records, ReadRecord(x)
    PROVE  ImportInv'
<1> DEFINE T == [households : Seq(ImportHousehold), clean : BOOLEAN, reading : BOOLEAN]
<1>1. /\ file \in Seq(Records) /\ preview \in T /\ IsFiniteSet(Keys(file))
      /\ preview.clean => GoodFile(file) /\ Grouped(file, preview.households)
      /\ ~preview.clean => ~GoodFile(file)
  BY Zenon DEF ImportInv
<1>2. /\ file' = Append(file, x)
      /\ preview' = IF x.shape = "malformed" \/ Len(file) + 1 > MaxImportRows
                    THEN [Wrong EXCEPT !.reading = FALSE]
                    ELSE IF x.shape = "short" \/ ~validateImportRow(x)
                         THEN Wrong
                         ELSE AddRow(x)
  BY Zenon DEF ReadRecord
<1>3. Longer(file, x, file') /\ Len(file) \in Nat
  BY <1>1, <1>2 DEF Longer
<1>4. file' \in Seq(Records)
  BY <1>3, Zenon DEF Longer
<1>5. IsFiniteSet(Keys(file'))
  <2>1. Keys(file') = Keys(file) \cup {x.key}
    BY <1>1, <1>3, RecordMore, SMTT(30)
  <2>2. IsFiniteSet(Keys(file) \cup {x.key})
    BY <1>1, FS_AddElement, Zenon
  <2> QED
    BY <2>1, <2>2, SMTT(30)
<1>6. /\ AddRow(x) \in T /\ Wrong \in T /\ Wrong.clean = FALSE
      /\ ~preview.clean => ~AddRow(x).clean
  BY <1>1, RowTyped, Zenon
<1>7. [Wrong EXCEPT !.reading = FALSE] \in T /\ [Wrong EXCEPT !.reading = FALSE].clean = FALSE
  <2> HIDE DEF ImportInv
  <2> QED
    BY <1>6, Zenon
<1>8. CASE x.shape # "row" \/ ~validateImportRow(x) \/ Len(file) + 1 > MaxImportRows
  <2>1. ~GoodFile(file')
    BY <1>1, <1>3, <1>8, BadRow, SMTT(30)
  <2>2. x.shape \in {"row", "malformed", "short"}
    BY RecordFields, Zenon
  <2>3. preview' \in T /\ preview'.clean = FALSE
    BY <1>2, <1>6, <1>7, <1>8, <2>2, Zenon
  <2> QED
    BY <1>4, <1>5, <2>1, <2>3, Zenon DEF ImportInv
<1>9. CASE x.shape = "row" /\ validateImportRow(x) /\ ~(Len(file) + 1 > MaxImportRows)
  <2>1. preview' = AddRow(x)
    BY <1>2, <1>9, SMTT(30)
  <2>2. Len(file) + 1 <= MaxImportRows
    BY <1>3, <1>9, ImportAssumption, SMTT(30)
  <2>3. CASE preview.clean
    <3>1. /\ AddRow(x).clean => GoodFile(file') /\ Grouped(file', AddRow(x).households)
          /\ ~AddRow(x).clean => ~GoodFile(file')
      BY <1>3, <1>9, <2>2, <2>3, RowAdded, SMTT(30)
    <3> QED
      BY <1>4, <1>5, <1>6, <2>1, <3>1, ZenonT(30) DEF ImportInv
  <2>4. CASE ~preview.clean
    <3>1. ~GoodFile(file')
      BY <1>1, <1>3, <2>4, PrefixGood, SMTT(30)
    <3> QED
      BY <1>4, <1>5, <1>6, <2>1, <2>4, <3>1, ZenonT(30) DEF ImportInv
  <2> QED
    BY <2>3, <2>4, Zenon
<1> QED
  BY <1>8, <1>9, Zenon

\* A clean preview is one that the commit takes.
LEMMA GroupedCommits ==
    ASSUME ImportInv
    PROVE  CleanPreviewCommits
<1> DEFINE hs == preview.households
<1>1. /\ file \in Seq(Records) /\ preview.clean \in BOOLEAN
      /\ preview.clean => GoodFile(file) /\ Grouped(file, hs)
      /\ ~preview.clean => ~GoodFile(file)
  BY DEF ImportInv
<1>2. \A n \in 1..Len(file) : Alike(n, Len(file)) = RowsOf(file, file[n].key)
                              /\ Alike(n, n) = UpTo(file, n)
  BY Zenon DEF Alike, RowsOf, UpTo
<1>3. WellFormed <=> GoodFile(file)
  BY <1>2, Zenon DEF WellFormed, GoodFile, Keys
<1>4. ASSUME preview.clean, file # <<>>
      PROVE  /\ validateImportCommit(hs)
             /\ Cardinality(Assigned(hs)) = Len(file)
             /\ \A n \in 1..Len(file) : \E i \in 1..Len(hs) : Holds(file, hs[i], n)
  <2>1. /\ \A i, j \in 1..Len(hs) : hs[i].key = hs[j].key => i = j
        /\ \A i \in 1..Len(hs) : Complete(file, hs[i])
        /\ \A k \in 1..Len(file) : \E i \in 1..Len(hs) : Holds(file, hs[i], k)
        /\ Len(hs) <= MaxImportHouseholds
        /\ Cardinality(Assigned(hs)) = Len(file)
    BY <1>1, <1>4, Zenon DEF Grouped
  <2>2. Len(file) <= MaxImportRows
    BY <1>1, <1>4, Zenon DEF GoodFile
  <2>3. 1 \in 1..Len(file)
    BY <1>1, <1>4
  <2>4. 1..Len(<<>>) = {}
    OBVIOUS
  <2>5. hs # <<>>
    BY <2>1, <2>3, <2>4, Zenon
  <2> QED
    BY <2>1, <2>2, <2>5, Zenon DEF validateImportCommit, Complete
<1>5. ASSUME NEW n \in 1..Len(file), NEW i, Holds(file, hs[i], n)
      PROVE  /\ hs[i].key = file[n].key /\ hs[i].profile = file[n].profile
             /\ Cardinality(Alike(n, n)) \in 1..Len(hs[i].guests)
             /\ hs[i].guests[Cardinality(Alike(n, n))] = file[n].guest
  BY <1>2, <1>5, Zenon DEF Holds
<1> QED
  BY <1>1, <1>3, <1>4, <1>5, Zenon DEF CleanPreviewCommits

\* The preview of every file, of any length and against any limits, is clean
\* exactly when the file is well formed, and the households of a clean preview
\* are accepted by the commit and hold every guest once, in the order of the
\* file (PreviewImportCSV, validateImportCommit).
THEOREM CleanPreviewCommitsHolds == ImportSpec => []CleanPreviewCommits
<1>1. ImportInv /\ [ImportNext]_import => ImportInv'
  <2> SUFFICES ASSUME ImportInv, [ImportNext]_import PROVE ImportInv'
    OBVIOUS
  <2>1. CASE ImportNext
    BY <2>1, ReadRecordKeeps, Zenon DEF ImportNext
  <2>2. CASE UNCHANGED import
    <3>1. file' = file /\ preview' = preview
      BY <2>2, Zenon DEF import
    <3> QED
      BY <3>1 DEF ImportInv
  <2> QED
    BY <2>1, <2>2, Zenon
<1> QED
  BY <1>1, ImportStarts, GroupedCommits, PTL DEF ImportSpec
=============================================================================
