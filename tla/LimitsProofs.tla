---------------------------- MODULE LimitsProofs ----------------------------
(***************************************************************************)
(* How much gets in from outside: enrollments through the public link      *)
(* (OpenEnrollment), requests of an address (RateLimiter) and recovery     *)
(* mails (Recovery), for any number of households, addresses and requests  *)
(* in flight and any limits and windows.                                   *)
(***************************************************************************)
EXTENDS OpenEnrollment, RateLimiter, Recovery, FiniteSetTheorems, TLAPS

----------------------------------------------------------------------------
(* Open enrollment *)

RequestRow == [step : {"idle", "enroll", "insert"}, version : Nat, party : Nat, since : Nat]

\* AdmittedByCurrentLink is not inductive: an enrollment past its checks holds
\* the lock of the row, which keeps the settings as it has seen them, and is the
\* only one there.
EnrollmentInv ==
    /\ now \in Nat /\ version \in Nat
    /\ request \in [Requests -> RequestRow]
    /\ \A r \in Requests : request[r].step = "insert" =>
          lock = r /\ request[r].version = version /\ settings.enabled

\* Nobody enrolls at the start.
LEMMA EnrollmentStarts == Init => EnrollmentInv
BY DEF Init, EnrollmentInv, RequestRow, Idle

\* A request that comes to its end, or starts over.
LEMMA RequestReplaced ==
    ASSUME EnrollmentInv, NEW r \in Requests, NEW q \in RequestRow,
           request' = [request EXCEPT ![r] = q]
    PROVE  /\ request' \in [Requests -> RequestRow]
           /\ request'[r] = q
           /\ \A o \in Requests \ {r} : request'[o] = request[o]
BY DEF EnrollmentInv

\* Configuring and rotating wait for the lock, so that nobody is past the checks.
LEMMA NobodyPast == EnrollmentInv /\ lock = None => \A r \in Requests : request[r].step # "insert"
BY OpenEnrollmentAssumption DEF EnrollmentInv

\* The steps of an enrollment.
LEMMA EnrollKeeps ==
    ASSUME EnrollmentInv, NEW r \in Requests, Enroll(r)
    PROVE  EnrollmentInv'
<1>1. CASE EnrollCheck(r)
  <2>1. \A o \in Requests : request[o].step # "insert"
    BY <1>1, NobodyPast DEF EnrollCheck
  <2>2. /\ request[r] \in RequestRow
        /\ request[r].version = version /\ settings.enabled
    BY <1>1 DEF EnrollCheck, Enrollable, EnrollmentInv
  <2>3. [request[r] EXCEPT !.step = "insert"] \in RequestRow
    BY <2>2 DEF RequestRow
  <2>4. /\ request' = [request EXCEPT ![r] = [request[r] EXCEPT !.step = "insert"]]
        /\ lock' = r
        /\ UNCHANGED <<now, version, settings>>
    BY <1>1 DEF EnrollCheck
  <2>5. /\ request' \in [Requests -> RequestRow]
        /\ request'[r] = [request[r] EXCEPT !.step = "insert"]
        /\ \A o \in Requests \ {r} : request'[o] = request[o]
    BY <2>3, <2>4, RequestReplaced, Zenon
  <2>6. request'[r].version = request[r].version
    BY <2>2, <2>5 DEF RequestRow
  <2> QED
    BY <2>1, <2>2, <2>4, <2>5, <2>6 DEF EnrollmentInv
<1>2. ASSUME NEW i \in Invitations, EnrollCommit(r, i) PROVE EnrollmentInv'
  <2>1. Idle \in RequestRow /\ request' = [request EXCEPT ![r] = Idle]
    BY <1>2 DEF EnrollCommit, Idle, RequestRow
  <2> QED
    BY <1>2, <2>1, RequestReplaced DEF EnrollCommit, EnrollmentInv, Idle
<1>3. CASE EnrollReject(r)
  <2>1. Idle \in RequestRow /\ request' = [request EXCEPT ![r] = Idle]
    BY <1>3 DEF EnrollReject, Idle, RequestRow
  <2>2. \A o \in Requests \ {r} : request[o].step # "insert"
    BY <1>3, NobodyPast DEF EnrollReject, EnrollmentInv
  <2> QED
    BY <1>3, <2>1, <2>2, RequestReplaced DEF EnrollReject, EnrollmentInv, Idle
<1> QED
  BY <1>1, <1>2, <1>3 DEF Enroll

\* EnrollOpen validates the link before its transaction.
LEMMA EnrollReadKeeps ==
    ASSUME EnrollmentInv, NEW r \in Requests, NEW n \in 1..MaxParty, EnrollRead(r, n)
    PROVE  EnrollmentInv'
<1> DEFINE q == [step |-> "enroll", version |-> version, party |-> n, since |-> now]
<1>1. q \in RequestRow
  BY OpenEnrollmentAssumption DEF RequestRow, EnrollmentInv
<1>2. request' = [request EXCEPT ![r] = q] /\ UNCHANGED <<now, version, settings, lock>>
  BY DEF EnrollRead
<1> QED
  BY <1>1, <1>2, RequestReplaced DEF EnrollmentInv

\* Every step of Next preserves EnrollmentInv.
LEMMA EnrollmentSteps == EnrollmentInv /\ [Next]_vars => EnrollmentInv'
<1> SUFFICES ASSUME EnrollmentInv, [Next]_vars PROVE EnrollmentInv'
  OBVIOUS
<1>1. ASSUME NEW s \in Settings, ConfigureOpen(s) PROVE EnrollmentInv'
  BY <1>1, NobodyPast DEF ConfigureOpen, EnrollmentInv
<1>2. CASE RotateOpen
  BY <1>2, NobodyPast DEF RotateOpen, EnrollmentInv
<1>3. ASSUME NEW r \in Requests, Enroll(r) PROVE EnrollmentInv'
  BY <1>3, EnrollKeeps
<1>4. ASSUME NEW r \in Requests, NEW n \in 1..MaxParty, EnrollRead(r, n) PROVE EnrollmentInv'
  BY <1>4, EnrollReadKeeps
<1>5. CASE UNCHANGED <<now, version, settings, lock, request>>
  BY <1>5 DEF EnrollmentInv
<1>6. CASE Tick
  BY <1>6 DEF Tick, EnrollmentInv
<1>7. ASSUME NEW i \in Invitations, NEW m \in 1..MaxParty, NEW n \in 0..MaxGrown,
             UpdateInvitation(i, m, n)
      PROVE  UNCHANGED <<now, version, settings, lock, request>>
  BY <1>7 DEF UpdateInvitation
<1>8. ASSUME NEW i \in Invitations, NEW n \in 0..MaxGrown, SubmitResponse(i, n)
      PROVE  UNCHANGED <<now, version, settings, lock, request>>
  BY <1>8 DEF SubmitResponse
<1>9. ASSUME NEW i \in Invitations, Revoke(i)
      PROVE  UNCHANGED <<now, version, settings, lock, request>>
  BY <1>9 DEF Revoke
<1> QED
  BY <1>1, <1>2, <1>3, <1>4, <1>5, <1>6, <1>7, <1>8, <1>9 DEF Next, vars

\* Households are admitted only with a link of the version in force, while it is
\* enabled, however rotation, configuration and enrollments interleave.
THEOREM AdmittedByCurrentLinkHolds == Spec => []AdmittedByCurrentLink
<1>1. EnrollmentInv => AdmittedByCurrentLink
  BY DEF EnrollmentInv, AdmittedByCurrentLink
<1> QED
  BY <1>1, EnrollmentStarts, EnrollmentSteps, PTL DEF Spec

\* AdmissionWithinCapacity rests on what an enrollment past its checks may rely
\* on: the seats it counted, and its own, still fit, up to what edits of
\* households have added in the meantime.
AdmissionInv ==
    /\ EnrollmentInv
    /\ household \in [Invitations -> Household \cup {None}]
    /\ grown \in Nat
    /\ settings.capacity # None => settings.capacity \in Nat
    /\ IsFiniteSet(ActiveGuests)
    /\ \A r \in Requests : request[r].step = "insert" /\ settings.capacity # None =>
          Allocated + request[r].party <= settings.capacity + grown

\* Seats are counted in natural numbers.
LEMMA SeatsType ==
    ASSUME household \in [Invitations -> Household \cup {None}], NEW i \in Invitations
    PROVE  Seats(i) \in Nat
BY DEF Seats, Counted, HasRow, Household

\* The guests of household i are told apart from those of the others.
LEMMA GuestsOf ==
    ASSUME NEW i, NEW n \in Nat, NEW rest, IsFiniteSet(rest),
           \A g \in rest : g \notin {i} \X (1 .. n)
    PROVE  /\ IsFiniteSet(rest \cup ({i} \X (1 .. n)))
           /\ Cardinality(rest \cup ({i} \X (1 .. n))) = Cardinality(rest) + n
           /\ Cardinality(rest) \in Nat
<1> DEFINE own == {i} \X (1 .. n)
<1>1. IsFiniteSet(1 .. n) /\ Cardinality(1 .. n) = n
  BY FS_Interval
<1>2. IsFiniteSet({i}) /\ Cardinality({i}) = 1
  BY FS_Singleton, Zenon
<1>3. IsFiniteSet(own) /\ Cardinality(own) = n
  BY <1>1, <1>2, FS_Product
<1>4. rest \cap own = {}
  OBVIOUS
<1> HIDE DEF own
<1>5. Cardinality(rest \cap own) = 0
  BY <1>4, FS_EmptySet
<1>6. Cardinality(rest) \in Nat
  BY FS_CardinalityType
<1>7. /\ IsFiniteSet(rest \cup own)
      /\ Cardinality(rest \cup own)
            = Cardinality(rest) + Cardinality(own) - Cardinality(rest \cap own)
  BY <1>3, FS_Union, Zenon
<1>8. Cardinality(rest \cup own) = Cardinality(rest) + n
  BY <1>3, <1>5, <1>6, <1>7
<1> QED
  BY <1>6, <1>7, <1>8 DEF own

\* A change of one household changes the count by what its seats change.
LEMMA OneHouseholdCounted ==
    ASSUME household \in [Invitations -> Household \cup {None}], IsFiniteSet(ActiveGuests),
           NEW i \in Invitations, NEW h \in Household,
           household' = [household EXCEPT ![i] = h]
    PROVE  /\ household' \in [Invitations -> Household \cup {None}]
           /\ IsFiniteSet(ActiveGuests')
           /\ Allocated \in Nat /\ Seats(i) \in Nat /\ Seats(i)' \in Nat
           /\ Allocated' = Allocated - Seats(i) + Seats(i)'
           /\ Seats(i)' = IF h.revoked THEN 0 ELSE h.assigned + h.additional
<1>1. household' \in [Invitations -> Household \cup {None}] /\ household'[i] = h
  OBVIOUS
<1>2. Seats(i) \in Nat /\ Seats(i)' \in Nat
  BY <1>1, SeatsType DEF Seats, Counted, HasRow, Household
<1>3. \A j \in Invitations : j # i => Seats(j)' = Seats(j)
  BY DEF Seats, Counted, HasRow
<1>4. PICK rest : rest = UNION {{j} \X (1 .. Seats(j)) : j \in Invitations \ {i}}
  BY Zenon
<1>5. ActiveGuests = rest \cup ({i} \X (1 .. Seats(i)))
  BY <1>4 DEF ActiveGuests
<1>6. ActiveGuests' = rest \cup ({i} \X (1 .. Seats(i)'))
  BY <1>3, <1>4 DEF ActiveGuests
<1>7. \A n \in Nat : \A g \in rest : g \notin {i} \X (1 .. n)
  BY <1>4
<1>8. IsFiniteSet(rest)
  BY <1>5, FS_Subset
<1>9. /\ Cardinality(ActiveGuests) = Cardinality(rest) + Seats(i) /\ Cardinality(rest) \in Nat
      /\ IsFiniteSet(ActiveGuests')
      /\ Cardinality(ActiveGuests') = Cardinality(rest) + Seats(i)'
  BY <1>2, <1>5, <1>6, <1>7, <1>8, GuestsOf, Zenon
<1>10. Seats(i)' = IF h.revoked THEN 0 ELSE h.assigned + h.additional
  BY <1>1, OpenEnrollmentAssumption DEF Seats, Counted, HasRow
<1> QED
  BY <1>1, <1>2, <1>9, <1>10 DEF Allocated

\* An edit of household i that adds no more seats than it adds to grown.
LEMMA EditKeeps ==
    ASSUME AdmissionInv, NEW i \in Invitations, Counted(i), NEW h \in Household,
           household' = [household EXCEPT ![i] = h],
           UNCHANGED <<now, version, settings, lock, request>>,
           grown' \in Nat, grown <= grown',
           h.revoked \/ h.assigned + h.additional + grown
                           <= household[i].assigned + household[i].additional + grown'
    PROVE  AdmissionInv' /\ Enrolled' = Enrolled
<1>1. /\ household' \in [Invitations -> Household \cup {None}]
      /\ IsFiniteSet(ActiveGuests') /\ Allocated \in Nat
      /\ Allocated' = Allocated - Seats(i) + Seats(i)'
      /\ Seats(i)' = IF h.revoked THEN 0 ELSE h.assigned + h.additional
  BY OneHouseholdCounted, Zenon DEF AdmissionInv
<1>2. Seats(i) = household[i].assigned + household[i].additional
  BY DEF Seats
<1>3. household[i] \in Household
  BY DEF AdmissionInv, Counted, HasRow
<1>4. Allocated' + grown <= Allocated + grown' /\ Allocated' \in Nat
  <2>1. /\ {household[i].assigned, household[i].additional, h.assigned, h.additional} \subseteq Nat
        /\ grown \in Nat
    BY <1>3 DEF Household, AdmissionInv
  <2>2. Allocated' \in Nat
    BY <1>1, FS_CardinalityType DEF Allocated
  <2> QED
    BY <1>1, <1>2, <2>1, <2>2
<1>5. EnrollmentInv'
  BY DEF AdmissionInv, EnrollmentInv
<1>6. ASSUME NEW r \in Requests, request'[r].step = "insert", settings'.capacity # None
      PROVE  Allocated' + request'[r].party <= settings'.capacity + grown'
  <2>1. Allocated + request[r].party <= settings.capacity + grown
    BY <1>6 DEF AdmissionInv
  <2>2. request[r].party \in Nat /\ settings.capacity \in Nat /\ grown \in Nat
    BY <1>6 DEF AdmissionInv, EnrollmentInv, RequestRow
  <2> QED
    BY <1>1, <1>4, <2>1, <2>2
<1>7. AdmissionInv'
  BY <1>1, <1>5, <1>6 DEF AdmissionInv
<1>8. Enrolled' = Enrolled
  BY <1>3, OpenEnrollmentAssumption DEF AdmissionInv, Enrolled, HasRow
<1> QED
  BY <1>7, <1>8

\* UpdateInvitation, SubmitResponse and Revoke account for the seats they add.
LEMMA EditsKeep ==
    ASSUME AdmissionInv, NEW i \in Invitations,
           \/ \E m \in 1 .. MaxParty, n \in 0 .. MaxGrown : UpdateInvitation(i, m, n)
           \/ \E n \in 0 .. MaxGrown : SubmitResponse(i, n)
           \/ Revoke(i)
    PROVE  AdmissionInv' /\ Enrolled' = Enrolled
<1>1. Counted(i) /\ UNCHANGED <<now, version, settings, lock, request>>
  BY Zenon DEF UpdateInvitation, SubmitResponse, Revoke
<1> PICK old \in Household : old = household[i]
  BY <1>1 DEF AdmissionInv, Counted, HasRow
<1>2. /\ old.assigned \in Nat /\ old.additional \in Nat /\ old.allowance \in Nat
      /\ household \in [Invitations -> Household \cup {None}] /\ grown \in Nat
  BY DEF Household, AdmissionInv
<1>3. ASSUME NEW m \in 1 .. MaxParty, NEW n \in 0 .. MaxGrown, UpdateInvitation(i, m, n)
      PROVE  AdmissionInv' /\ Enrolled' = Enrolled
  <2>0. m \in Nat /\ n \in Nat
    BY OpenEnrollmentAssumption
  <2> PICK renamed : renamed = [old EXCEPT !.assigned = m]
    BY Zenon
  <2> PICK h : h = [renamed EXCEPT !.allowance = n]
    OBVIOUS
  <2>1. h \in Household /\ h.assigned = m /\ h.additional = old.additional
    <3>1. /\ renamed \in Household /\ renamed.assigned = m
          /\ renamed.additional = old.additional
      BY <2>0 DEF Household
    <3> QED
      BY <2>0, <3>1, Zenon DEF Household
  <2>2. household' = [household EXCEPT ![i] = h]
    BY <1>2, <1>3, Zenon DEF UpdateInvitation
  <2>3. IF m > old.assigned THEN grown' = grown + (m - old.assigned) ELSE grown' = grown
    BY <1>3 DEF UpdateInvitation, Grow
  <2>4. /\ grown' \in Nat /\ grown <= grown'
        /\ h.assigned + h.additional + grown <= old.assigned + old.additional + grown'
    BY <1>2, <2>1, <2>3, OpenEnrollmentAssumption
  <2> QED
    BY <1>1, <2>1, <2>2, <2>4, EditKeeps, Zenon
<1>4. ASSUME NEW n \in 0 .. MaxGrown, SubmitResponse(i, n)
      PROVE  AdmissionInv' /\ Enrolled' = Enrolled
  <2> PICK h : h = [old EXCEPT !.additional = n]
    BY Zenon
  <2>1. h \in Household /\ h.assigned = old.assigned /\ h.additional = n
    BY OpenEnrollmentAssumption DEF Household
  <2>2. household' = [household EXCEPT ![i] = h]
    BY <1>2, <1>4 DEF SubmitResponse
  <2>3. IF n > old.additional THEN grown' = grown + (n - old.additional) ELSE grown' = grown
    BY <1>4 DEF SubmitResponse, Grow
  <2>4. /\ grown' \in Nat /\ grown <= grown'
        /\ h.assigned + h.additional + grown <= old.assigned + old.additional + grown'
    BY <1>2, <2>1, <2>3, OpenEnrollmentAssumption
  <2> QED
    BY <1>1, <2>1, <2>2, <2>4, EditKeeps, Zenon
<1>5. CASE Revoke(i)
  <2> PICK h : h = [old EXCEPT !.revoked = TRUE]
    BY Zenon
  <2>1. h \in Household /\ h.revoked
    BY Zenon DEF Household
  <2>2. household' = [household EXCEPT ![i] = h] /\ grown' = grown
    BY <1>2, <1>5 DEF Revoke
  <2>3. grown' \in Nat /\ grown <= grown'
    BY <1>2, <2>2
  <2> QED
    BY <1>1, <2>1, <2>2, <2>3, EditKeeps, Zenon
<1> QED
  BY <1>3, <1>4, <1>5, Zenon

\* What admission adds to EnrollmentSteps for a step that leaves the households
\* alone, or commits an enrollment.
LEMMA AdmissionSteps ==
    ASSUME AdmissionInv, [Next]_vars
    PROVE  /\ AdmissionInv'
           /\ Enrolled' # Enrolled /\ settings.capacity # None =>
                 Allocated' <= settings.capacity + grown
<1> DEFINE Goal == AdmissionInv' /\ (Enrolled' # Enrolled /\ settings.capacity # None =>
                                       Allocated' <= settings.capacity + grown)
<1> SUFFICES Goal
  OBVIOUS
<1>0. EnrollmentInv'
  BY EnrollmentSteps DEF AdmissionInv
<1>1. ASSUME UNCHANGED <<household, grown>>,
             settings'.capacity # None => settings'.capacity \in Nat,
             \A r \in Requests : request'[r].step = "insert" /\ settings'.capacity # None =>
                 Allocated + request'[r].party <= settings'.capacity + grown
      PROVE  Goal
  <2>1. ActiveGuests' = ActiveGuests /\ Enrolled' = Enrolled
    BY <1>1 DEF ActiveGuests, Enrolled, Seats, Counted, HasRow
  <2>2. Allocated' = Allocated
    BY <2>1 DEF Allocated
  <2> QED
    BY <1>0, <1>1, <2>1, <2>2 DEF AdmissionInv
<1>2. ASSUME NEW s \in Settings, ConfigureOpen(s) PROVE Goal
  <2>1. \A r \in Requests : request'[r].step # "insert"
    BY <1>2, NobodyPast DEF ConfigureOpen, AdmissionInv
  <2>2. s.capacity # None => s.capacity \in Nat
    BY OpenEnrollmentAssumption DEF Settings
  <2> QED
    BY <1>1, <1>2, <2>1, <2>2 DEF ConfigureOpen
<1>3. ASSUME UNCHANGED <<settings, household, request, grown>> PROVE Goal
  BY <1>1, <1>3 DEF AdmissionInv
<1>4. ASSUME NEW r \in Requests, NEW n \in 1 .. MaxParty, EnrollRead(r, n) PROVE Goal
  <2>1. \A o \in Requests : request'[o].step = "insert" => request'[o] = request[o]
    BY <1>4, Zenon DEF EnrollRead, AdmissionInv, EnrollmentInv
  <2> QED
    BY <1>1, <1>4, <2>1, Zenon DEF EnrollRead, AdmissionInv
<1>5. ASSUME NEW r \in Requests, EnrollCheck(r) PROVE Goal
  <2>1. \A o \in Requests : request[o].step # "insert"
    BY <1>5, NobodyPast DEF EnrollCheck, AdmissionInv
  <2>2. request[r] \in RequestRow /\ request' = [request EXCEPT ![r].step = "insert"]
    BY <1>5 DEF EnrollCheck, AdmissionInv, EnrollmentInv
  <2>3. request'[r].party = request[r].party
    BY <2>2 DEF RequestRow, AdmissionInv, EnrollmentInv
  <2>4. \A o \in Requests : request'[o].step = "insert" => o = r
    BY <2>1, <2>2 DEF AdmissionInv, EnrollmentInv
  <2>5. settings.capacity # None => Allocated + request[r].party <= settings.capacity
    BY <1>5 DEF EnrollCheck, Enrollable, Fits
  <2>6. Allocated \in Nat /\ request[r].party \in Nat /\ grown \in Nat
    BY <2>2, FS_CardinalityType DEF Allocated, AdmissionInv, RequestRow
  <2>7. settings.capacity # None => Allocated + request[r].party <= settings.capacity + grown
    BY <2>5, <2>6 DEF AdmissionInv
  <2> QED
    BY <1>1, <1>5, <2>3, <2>4, <2>7 DEF EnrollCheck, AdmissionInv
<1>6. ASSUME NEW r \in Requests, EnrollReject(r) PROVE Goal
  <2>1. \A o \in Requests : request'[o].step = "insert" => request'[o] = request[o]
    BY <1>6 DEF EnrollReject, AdmissionInv, EnrollmentInv, Idle
  <2> QED
    BY <1>1, <1>6, <2>1 DEF EnrollReject, AdmissionInv
<1>7. ASSUME NEW r \in Requests, NEW i \in Invitations, EnrollCommit(r, i) PROVE Goal
  <2> PICK h : h = [assigned |-> request[r].party, additional |-> 0, allowance |-> 0,
                    revoked |-> FALSE]
    BY Zenon
  <2>1. request[r].step = "insert" /\ request[r].party \in Nat
    BY <1>7, Zenon DEF EnrollCommit, AdmissionInv, EnrollmentInv, RequestRow
  <2>2. h \in Household /\ h.assigned = request[r].party /\ h.additional = 0 /\ ~h.revoked
    BY <2>1 DEF Household
  <2>3. /\ household' = [household EXCEPT ![i] = h] /\ ~HasRow(i)
        /\ request' = [request EXCEPT ![r] = Idle] /\ UNCHANGED <<settings, grown>>
    BY <1>7 DEF EnrollCommit
  <2>4. /\ household' \in [Invitations -> Household \cup {None}]
        /\ IsFiniteSet(ActiveGuests') /\ Allocated \in Nat /\ Seats(i) = 0
        /\ Allocated' = Allocated - Seats(i) + Seats(i)'
        /\ Seats(i)' = IF h.revoked THEN 0 ELSE h.assigned + h.additional
    BY <2>2, <2>3, OneHouseholdCounted, Zenon DEF AdmissionInv, Seats, Counted
  <2>5. Allocated' = Allocated + request[r].party
    BY <2>1, <2>2, <2>4
  <2>6. settings.capacity # None => Allocated' <= settings.capacity + grown
    BY <2>1, <2>5, Zenon DEF AdmissionInv
  <2>7. \A o \in Requests : request'[o].step # "insert"
    BY <2>1, <2>3, Zenon DEF AdmissionInv, EnrollmentInv, Idle
  <2> QED
    BY <1>0, <2>3, <2>4, <2>6, <2>7, Zenon DEF AdmissionInv
<1>8. ASSUME NEW i \in Invitations,
             \/ \E m \in 1 .. MaxParty, n \in 0 .. MaxGrown : UpdateInvitation(i, m, n)
             \/ \E n \in 0 .. MaxGrown : SubmitResponse(i, n)
             \/ Revoke(i)
      PROVE  Goal
  BY <1>8, EditsKeep, Zenon
<1>9. ASSUME RotateOpen \/ Tick \/ UNCHANGED vars
      PROVE  UNCHANGED <<settings, household, request, grown>>
  BY <1>9 DEF RotateOpen, Tick, vars
<1> HIDE DEF Goal
<1>10. ASSUME NEW r \in Requests, Enroll(r) PROVE Goal
  BY <1>5, <1>6, <1>7, <1>10, Zenon DEF Enroll
<1> QED
  BY <1>2, <1>3, <1>4, <1>8, <1>9, <1>10, Zenon DEF Next

\* The last seat is given away once: EnrollOpen counts and inserts under the
\* lock of the open_enrollments row, so that of any number of enrollments each
\* is admitted within the capacity in force, up to what edits, which do not take
\* that lock, have added.
THEOREM AdmissionWithinCapacityHolds == Spec => AdmissionWithinCapacity
<1> DEFINE A == Enrolled' # Enrolled /\ settings.capacity # None =>
                    Allocated' <= settings.capacity + grown
<1>1. Init => AdmissionInv
  <2> SUFFICES ASSUME Init PROVE AdmissionInv
    OBVIOUS
  <2>1. ActiveGuests = {}
    BY DEF Init, ActiveGuests, Seats, Counted, HasRow
  <2>2. IsFiniteSet(ActiveGuests)
    BY <2>1, FS_EmptySet
  <2> QED
    BY <2>2, EnrollmentStarts, Zenon DEF Init, AdmissionInv, Idle
<1>2. AdmissionInv /\ [Next]_vars => AdmissionInv' /\ A
  BY AdmissionSteps
<1>3. AdmissionWithinCapacity <=> [][A]_vars
  BY DEF AdmissionWithinCapacity
<1> HIDE DEF A
<1> QED
  BY <1>1, <1>2, <1>3, PTL DEF Spec

----------------------------------------------------------------------------
(* The rate limiter *)

\* RateKept is not inductive: it must be known that the history lies in the
\* past, and that what the limiter has dropped is older than the window.
LimiterInv ==
    /\ instant \in Nat
    /\ entries \in [Addresses -> SUBSET Nat]
    /\ passed \in [Addresses -> Seq(Nat)]
    /\ \A a \in Addresses :
        /\ entries[a] \subseteq 1..Len(passed[a])
        /\ \A i \in 1..Len(passed[a]) : passed[a][i] <= instant
        /\ \A i \in (1..Len(passed[a])) \ entries[a] : passed[a][i] < instant - RateWindow
        /\ \A t \in 0..instant : Cardinality(Passed(a, t)) <= RequestLimit

\* Nothing has passed when a process starts.
LEMMA LimiterStarts == LimiterInit => LimiterInv
<1> SUFFICES ASSUME LimiterInit PROVE LimiterInv
  BY SMTT(30)
<1>1. \A a \in Addresses : Len(passed[a]) = 0 /\ entries[a] = {}
  BY DEF LimiterInit
<1>2. \A a \in Addresses, t \in 0..instant : Passed(a, t) = {}
  BY <1>1 DEF Passed
<1> QED
  BY <1>1, <1>2, FS_EmptySet, RateLimiterAssumption DEF LimiterInit, LimiterInv

\* Time passes: a window that starts only now is empty.
LEMMA TickKeeps == LimiterInv /\ LimiterTick => LimiterInv'
<1> SUFFICES ASSUME LimiterInv, LimiterTick PROVE LimiterInv'
  OBVIOUS
<1> USE RateLimiterAssumption
<1>1. instant' = instant + 1 /\ instant' \in Nat /\ entries' = entries /\ passed' = passed
  BY DEF LimiterInv, LimiterTick
<1>2. ASSUME NEW a \in Addresses, NEW t \in 0..instant'
      PROVE  Cardinality(Passed(a, t)') <= RequestLimit
  <2>1. Passed(a, t)' = Passed(a, t)
    BY <1>1 DEF Passed
  <2>2. CASE t \in 0..instant
    BY <2>1, <2>2 DEF LimiterInv
  <2>3. CASE t = instant + 1
    <3>1. Passed(a, t) = {}
      BY <2>3 DEF LimiterInv, Passed
    <3> QED
      BY <2>1, <3>1, FS_EmptySet
  <2> QED
    BY <1>1, <2>2, <2>3 DEF LimiterInv
<1> QED
  BY <1>1, <1>2, SMTT(30) DEF LimiterInv

\* What pruneEntries drops is older than the window, and it adds nothing.
LEMMA PruneDrops ==
    ASSUME LimiterInv, NEW a \in Addresses
    PROVE  /\ pruneEntries(a) \subseteq entries[a]
           /\ pruneEntries(a) \subseteq 1..Len(passed[a])
           /\ \A i \in (1..Len(passed[a])) \ pruneEntries(a) : passed[a][i] < instant - RateWindow
           /\ IsFiniteSet(pruneEntries(a))
<1>1. Len(passed[a]) \in Nat
  BY DEF LimiterInv
<1>2. pruneEntries(a) \subseteq 1..Len(passed[a])
  BY DEF LimiterInv, pruneEntries
<1>3. IsFiniteSet(pruneEntries(a))
  <2>1. IsFiniteSet(1..Len(passed[a]))
    BY <1>1, FS_Interval
  <2> QED
    BY <1>2, <2>1, FS_Subset
<1> QED
  BY <1>2, <1>3 DEF LimiterInv, pruneEntries

\* Dropping old entries changes no window of the history.
LEMMA CleanupKeeps == LimiterInv /\ Cleanup => LimiterInv'
<1> SUFFICES ASSUME LimiterInv, Cleanup PROVE LimiterInv'
  BY SMTT(30)
<1>1. \A a \in Addresses, t \in 0..instant : Passed(a, t)' = Passed(a, t)
  BY DEF Cleanup, Passed
<1>2. \A a \in Addresses : entries'[a] = pruneEntries(a)
  BY DEF Cleanup
<1> QED
  BY <1>1, <1>2, PruneDrops, RateLimiterAssumption, Zenon DEF Cleanup, LimiterInv

\* A request that is refused drops old entries of its address only.
LEMMA RefuseKeeps ==
    ASSUME LimiterInv, NEW a \in Addresses, UNCHANGED <<instant, passed>>,
           entries' = [entries EXCEPT ![a] = pruneEntries(a)]
    PROVE  LimiterInv'
<1>1. \A b \in Addresses, t \in 0..instant : Passed(b, t)' = Passed(b, t)
  BY DEF Passed
<1>2. \A b \in Addresses : entries'[b] = IF b = a THEN pruneEntries(a) ELSE entries[b]
  BY DEF LimiterInv
<1>3. entries' \in [Addresses -> SUBSET Nat]
  BY PruneDrops DEF LimiterInv
<1> QED
  BY <1>1, <1>2, <1>3, PruneDrops, RateLimiterAssumption, SMTT(30) DEF LimiterInv

\* A request that passes: the windows that hold it lie within the one that
\* Allow counted, so they hold what was counted and this request at most.
LEMMA PassKeeps ==
    ASSUME LimiterInv, NEW a \in Addresses, Cardinality(pruneEntries(a)) < RequestLimit,
           instant' = instant,
           entries' = [entries EXCEPT ![a] = pruneEntries(a) \cup {Len(passed[a]) + 1}],
           passed' = [passed EXCEPT ![a] = Append(passed[a], instant)]
    PROVE  LimiterInv'
<1> USE RateLimiterAssumption
<1> DEFINE n == Len(passed[a])
           new == pruneEntries(a) \cup {n + 1}
<1>1. /\ n \in Nat /\ instant \in Nat /\ passed[a] \in Seq(Nat)
      /\ passed' \in [Addresses -> Seq(Nat)]
      /\ passed'[a] = Append(passed[a], instant) /\ Len(passed'[a]) = n + 1
      /\ passed'[a][n + 1] = instant
      /\ \A i \in 1..n : passed'[a][i] = passed[a][i]
  BY DEF LimiterInv
<1>2. \A b \in Addresses \ {a} : passed'[b] = passed[b] /\ entries'[b] = entries[b]
  BY SMTT(30) DEF LimiterInv
<1>3. entries' \in [Addresses -> SUBSET Nat] /\ entries'[a] = new
  BY <1>1, PruneDrops DEF LimiterInv
<1>4. /\ IsFiniteSet(new)
      /\ Cardinality(new) <= RequestLimit
  <2>1. n + 1 \notin pruneEntries(a) /\ IsFiniteSet(pruneEntries(a))
    BY <1>1, PruneDrops, SMTT(30)
  <2>2. Cardinality(new) = Cardinality(pruneEntries(a)) + 1 /\ IsFiniteSet(new)
    BY <2>1, FS_AddElement
  <2> QED
    BY <2>1, <2>2, FS_CardinalityType, SMTT(30)
<1>5. ASSUME NEW b \in Addresses, NEW t \in 0..instant
      PROVE  Cardinality(Passed(b, t)') <= RequestLimit
  <2>1. CASE b # a
    <3>1. Passed(b, t)' = Passed(b, t)
      BY <1>2, <2>1, SMTT(30) DEF Passed
    <3> QED
      BY <3>1, Zenon DEF LimiterInv
  <2>2. CASE b = a /\ instant > t + RateWindow
    <3>1. Passed(a, t)' = Passed(a, t)
      BY <1>1, <2>2, SMTT(30) DEF Passed
    <3> QED
      BY <2>2, <3>1, SMTT(30) DEF LimiterInv
  <2>3. CASE b = a /\ instant <= t + RateWindow
    <3>1. Passed(a, t)' \subseteq new
      BY <1>1, <2>3, PruneDrops, SMTT(30) DEF Passed
    <3>2. Cardinality(Passed(a, t)') <= Cardinality(new) /\ IsFiniteSet(Passed(a, t)')
      BY <1>4, <3>1, FS_Subset
    <3> QED
      BY <1>4, <2>3, <3>2, FS_CardinalityType, SMTT(30)
  <2> QED
    BY <1>1, <2>1, <2>2, <2>3
<1>6. ASSUME NEW b \in Addresses
      PROVE  /\ entries'[b] \subseteq 1..Len(passed'[b])
             /\ \A i \in 1..Len(passed'[b]) : passed'[b][i] <= instant
             /\ \A i \in (1..Len(passed'[b])) \ entries'[b] : passed'[b][i] < instant - RateWindow
  <2>1. CASE b # a
    BY <1>2, <2>1, Zenon DEF LimiterInv
  <2>2. CASE b = a
    BY <1>1, <1>3, <2>2, PruneDrops, SMTT(30) DEF LimiterInv
  <2> QED
    BY <2>1, <2>2, Zenon
<1> QED
  BY <1>1, <1>3, <1>5, <1>6, Zenon DEF LimiterInv

\* Allow and Cleanup, in any order and at any time, keep at most the limit of
\* requests in every window of every address, whatever the limit, the window and
\* the number of addresses.
THEOREM RateKeptHolds == LimiterSpec => []RateKept
<1>1. LimiterInit => LimiterInv
  BY LimiterStarts
<1>2. LimiterInv /\ [LimiterNext]_limiter => LimiterInv'
  <2> SUFFICES ASSUME LimiterInv, [LimiterNext]_limiter PROVE LimiterInv'
    BY SMTT(30)
  <2>1. ASSUME NEW a \in Addresses, Allow(a) PROVE LimiterInv'
    <3>1. IsFiniteSet(pruneEntries(a)) /\ Cardinality(pruneEntries(a)) \in Nat
      BY PruneDrops, FS_CardinalityType, Zenon
    <3>2. CASE Cardinality(pruneEntries(a)) >= RequestLimit
      BY <2>1, <3>2, RefuseKeeps, Zenon DEF Allow
    <3>3. CASE ~(Cardinality(pruneEntries(a)) >= RequestLimit)
      <4>1. Cardinality(pruneEntries(a)) < RequestLimit
        BY <3>1, <3>3, RateLimiterAssumption
      <4> QED
        BY <2>1, <3>3, <4>1, PassKeeps, Zenon DEF Allow
    <3> QED
      BY <3>2, <3>3
  <2>2. CASE Cleanup
    BY <2>2, CleanupKeeps
  <2>3. CASE LimiterTick
    BY <2>3, TickKeeps
  <2>4. CASE UNCHANGED limiter
    <3>1. \A a \in Addresses, t \in 0..instant : Passed(a, t)' = Passed(a, t)
      BY <2>4 DEF limiter, Passed
    <3> QED
      BY <2>4, <3>1 DEF limiter, LimiterInv
  <2> QED
    BY <2>1, <2>2, <2>3, <2>4 DEF LimiterNext
<1>3. LimiterInv => RateKept
  <2> SUFFICES ASSUME LimiterInv, NEW a \in Addresses
               PROVE  Passed(a, instant - RateWindow) \subseteq entries[a]
    BY DEF LimiterInv, RateKept
  <2> QED
    BY RateLimiterAssumption DEF LimiterInv, Passed
<1> QED
  BY <1>1, <1>2, <1>3, PTL DEF LimiterSpec

----------------------------------------------------------------------------
(* Recovery links *)

Asking == [source : Sources, destination : Destinations, pc : {"count", "insert"}, cutoff : Int]

Attempt == [source : Sources, destination : Destinations, at : Nat]

\* A request past the lock is alone; its cutoff is an hour or more ago, and what
\* it has counted still holds.
Alone(r) ==
    search[r] # None =>
        /\ search[r].cutoff <= ticks - Hour * Second
        /\ search[r].pc = "insert" => Within(search[r])
        /\ \A q \in Seekers : search[q] # None => q = r

\* The budget of the window that starts after t.
Spent(t) ==
    /\ Cardinality(InWindow(t)) <= EventLimit
    /\ \A s \in Sources : Cardinality({i \in InWindow(t) : attempts[i].source = s}) <= SourceLimit
    /\ \A d \in Destinations :
          Cardinality({i \in InWindow(t) : attempts[i].destination = d}) <= DestinationLimit

RecoveryTypes ==
    /\ ticks \in Nat
    /\ search \in [Seekers -> Asking \cup {None}]
    /\ attempts \in Seq(Attempt)
    /\ link \in Int \cup {None}

\* BudgetKept is not inductive: the budget holds of every window, the ones to
\* come included, and a request that has counted is the only one past the lock.
RecoveryInv ==
    /\ RecoveryTypes
    /\ \A i \in 1..Len(attempts) : attempts[i].at <= ticks
    /\ \A r \in Seekers : Alone(r)
    /\ \A t \in Int : Spent(t)
    /\ ~late

\* A second is some ticks; an hour less a second.
LEMMA SecondHolds ==
    /\ Second \in Nat \ {0} /\ Hour * Second \in Int
    /\ (Hour - 1) * Second = Hour * Second - Second
<1>1. Second \in Nat \ {0}
  BY RecoveryAssumption DEF Second
<1> HIDE DEF Second
<1> QED
  BY <1>1, RecoveryAssumption

\* A time that is a second or more later is in a later second.
LEMMA LaterSecond ==
    ASSUME NEW x \in Int, NEW y \in Int, x >= y + Second
    PROVE  x \div Second > y \div Second
<1> DEFINE S == Second
<1>1. S \in Nat \ {0}
  BY SecondHolds
<1> HIDE DEF S
<1>2. /\ x \div S \in Int /\ x % S \in 0..(S - 1) /\ x = S * (x \div S) + (x % S)
      /\ y \div S \in Int /\ y % S \in 0..(S - 1) /\ y = S * (y \div S) + (y % S)
  BY <1>1
<1> DEFINE a == x \div S  b == y \div S  m == x % S  n == y % S
<1>3. a \in Int /\ b \in Int /\ m \in 0..(S - 1) /\ n \in 0..(S - 1) /\ x = S * a + m /\ y = S * b + n
  BY <1>2
<1> HIDE DEF a, b, m, n
<1>4. x >= y + S
  BY DEF S
<1>5. SUFFICES ASSUME a <= b PROVE FALSE
  BY <1>3 DEF a, b, S
<1>6. S * a <= S * b
  BY <1>1, <1>3, <1>5
<1>7. S * a \in Int /\ S * b \in Int
  BY <1>1, <1>3
<1> QED
  BY <1>1, <1>3, <1>4, <1>6, <1>7

\* What the text comparison of two times says, whatever their fractions.
LEMMA TextHolds ==
    ASSUME NEW x \in Int, NEW y \in Int
    PROVE  /\ x >= y + Second => TextAfter(x, y)
           /\ TextAfter(x, y) => x \div Second >= y \div Second
<1>1. x >= y + Second => TextAfter(x, y)
  BY LaterSecond DEF TextAfter
<1>2. TextAfter(x, y) => x \div Second > y \div Second \/ x \div Second = y \div Second
  BY DEF TextAfter
<1>3. x \div Second \in Int /\ y \div Second \in Int
  BY SecondHolds
<1> QED
  BY <1>1, <1>2, <1>3

\* Indices of the attempts, all of them or some.
LEMMA IndicesFinite ==
    ASSUME attempts \in Seq(Attempt), NEW P \in SUBSET (1..Len(attempts))
    PROVE  IsFiniteSet(P) /\ Cardinality(P) \in Nat
<1>1. Len(attempts) \in Nat
  OBVIOUS
<1>2. IsFiniteSet(1..Len(attempts))
  BY <1>1, FS_Interval
<1> QED
  BY <1>2, FS_Subset, FS_CardinalityType, Zenon

\* No attempt, no request.
LEMMA RecoveryStarts == RecoveryInit => RecoveryInv
<1> SUFFICES ASSUME RecoveryInit PROVE RecoveryInv
  BY SMTT(30)
<1>1. RecoveryTypes
  BY DEF RecoveryInit, RecoveryTypes
<1>2. \A i \in 1..Len(attempts) : FALSE
  BY DEF RecoveryInit
<1>3. ASSUME NEW t \in Int PROVE Spent(t)
  <2>1. InWindow(t) = {}
    BY <1>2 DEF InWindow
  <2>2. Cardinality({}) = 0
    BY FS_EmptySet
  <2>3. /\ \A s \in Sources : {i \in InWindow(t) : attempts[i].source = s} = {}
        /\ \A d \in Destinations : {i \in InWindow(t) : attempts[i].destination = d} = {}
    BY <2>1, SMTT(30)
  <2> QED
    BY <2>1, <2>2, <2>3, RecoveryAssumption DEF Spent
<1> QED
  BY <1>1, <1>2, <1>3 DEF RecoveryInit, RecoveryInv, Alone

\* A step that leaves the attempts.
LEMMA AttemptsStay ==
    ASSUME RecoveryInv, attempts' = attempts, ticks' \in Nat, ticks <= ticks',
           search' \in [Seekers -> Asking \cup {None}], link' \in Int \cup {None}, ~late',
           \A r \in Seekers : Alone(r)'
    PROVE  RecoveryInv'
<1>1. ASSUME NEW t \in Int PROVE Spent(t)'
  BY Zenon DEF RecoveryInv, Spent, InWindow
<1>2. RecoveryTypes'
  BY Zenon DEF RecoveryInv, RecoveryTypes
<1>3. \A i \in 1..Len(attempts') : attempts'[i].at <= ticks'
  <2> SUFFICES ASSUME NEW i \in 1..Len(attempts) PROVE attempts[i].at <= ticks'
    BY Zenon
  <2>1. attempts[i] \in Attempt /\ attempts[i].at <= ticks /\ ticks \in Nat
    BY DEF RecoveryInv, RecoveryTypes
  <2>2. attempts[i].at \in Nat
    BY <2>1 DEF Attempt
  <2> QED
    BY <2>1, <2>2
<1> QED
  BY <1>1, <1>2, <1>3 DEF RecoveryInv

\* The lock is taken when nobody holds it, and the cutoff after it.
LEMMA LockKeeps ==
    ASSUME RecoveryInv, NEW r \in Seekers, NEW s \in Sources, NEW d \in Destinations, Lock(r, s, d)
    PROVE  RecoveryInv'
<1> DEFINE c == ticks - Hour * Second
           w == [source |-> s, destination |-> d, pc |-> "count", cutoff |-> c]
<1>1. c \in Int /\ ticks \in Nat /\ search \in [Seekers -> Asking \cup {None}]
  BY SecondHolds, SMTT(30) DEF RecoveryInv, RecoveryTypes
<1>2. /\ \A q \in Seekers : search[q] = None
      /\ search' = [search EXCEPT ![r] = w]
      /\ UNCHANGED <<ticks, attempts, link, late>>
  BY DEF Lock, Locked
<1>3. c <= ticks - Hour * Second
  BY <1>1, SMTT(30)
<1> HIDE DEF c
<1>4. w \in Asking /\ w.pc = "count" /\ w.cutoff = c
  BY <1>1 DEF Asking
<1> HIDE DEF w
<1>5. search' \in [Seekers -> Asking \cup {None}] /\ search'[r] = w
      /\ \A q \in Seekers \ {r} : search'[q] = None
  BY <1>1, <1>2, <1>4
<1>6. ASSUME NEW q \in Seekers PROVE Alone(q)'
  <2>1. CASE q = r
    <3>1. search'[q].pc # "insert"
      BY <1>4, <1>5, <2>1
    <3>2. search'[q].cutoff <= ticks' - Hour * Second
      BY <1>2, <1>3, <1>4, <1>5, <2>1, Zenon
    <3> QED
      BY <1>5, <2>1, <3>1, <3>2, SMTT(30) DEF Alone
  <2>2. CASE q # r
    BY <1>5, <2>2, Zenon DEF Alone
  <2> QED
    BY <2>1, <2>2
<1>7. ticks' \in Nat /\ ticks <= ticks' /\ ~late' /\ link' \in Int \cup {None}
  BY <1>1, <1>2 DEF RecoveryInv, RecoveryTypes
<1> QED
  BY <1>2, <1>5, <1>6, <1>7, AttemptsStay, Zenon

\* A request ends: rolled back, or over the budget.
LEMMA EndsKeeps ==
    ASSUME RecoveryInv, NEW r \in Seekers, search' = [search EXCEPT ![r] = None],
           UNCHANGED <<ticks, attempts, link, late>>
    PROVE  RecoveryInv'
<1>1. search' \in [Seekers -> Asking \cup {None}] /\ search'[r] = None
      /\ \A q \in Seekers \ {r} : search'[q] = search[q]
  BY Zenon DEF RecoveryInv, RecoveryTypes
<1>2. ASSUME NEW q \in Seekers PROVE Alone(q)'
  BY <1>1, Zenon DEF RecoveryInv, Alone, Within, Recent
<1>3. ticks' \in Nat /\ ticks <= ticks' /\ ~late' /\ link' \in Int \cup {None}
  BY DEF RecoveryInv, RecoveryTypes
<1> QED
  BY <1>1, <1>2, <1>3, AttemptsStay, Zenon

\* The counts hold as long as the lock does.
LEMMA CountKeeps ==
    ASSUME RecoveryInv, NEW r \in Seekers, CountAttempts(r)
    PROVE  RecoveryInv'
<1>1. /\ search[r] # None /\ search[r].pc = "count" /\ UNCHANGED <<ticks, attempts, link, late>>
      /\ search[r] \in Asking
  BY DEF CountAttempts, RecoveryInv, RecoveryTypes
<1>2. CASE ~Within(search[r])
  <2>1. search' = [search EXCEPT ![r] = None]
    BY <1>2 DEF CountAttempts
  <2> QED
    BY <1>1, <2>1, EndsKeeps, Zenon
<1>3. CASE Within(search[r])
  <2> DEFINE w == [search[r] EXCEPT !.pc = "insert"]
  <2>1. search' = [search EXCEPT ![r] = w]
    BY <1>3 DEF CountAttempts
  <2>2. w \in Asking /\ w.cutoff = search[r].cutoff /\ w.source = search[r].source /\ w.destination = search[r].destination
    BY <1>1 DEF Asking
  <2> HIDE DEF w
  <2>3. search' \in [Seekers -> Asking \cup {None}] /\ search'[r] = w
        /\ \A q \in Seekers \ {r} : search'[q] = search[q]
    BY <2>1, <2>2, Zenon DEF RecoveryInv, RecoveryTypes
  <2>4. Within(search[r])'
    <3>1. Recent(search[r].cutoff)' = Recent(search[r].cutoff)
      BY <1>1, <2>2, <2>3, Zenon DEF Recent
    <3> QED
      BY <1>1, <1>3, <2>2, <2>3, <3>1, Zenon DEF Within
  <2>5. Alone(r) /\ \A q \in Seekers \ {r} : search[q] = None
    BY <1>1, Zenon DEF RecoveryInv, Alone
  <2>6. ASSUME NEW q \in Seekers PROVE Alone(q)'
    <3>1. CASE q = r
      BY <1>1, <2>2, <2>3, <2>4, <2>5, <3>1, Zenon DEF Alone
    <3>2. CASE q # r
      BY <2>3, <2>5, <3>2, SMTT(30) DEF Alone
    <3> QED
      BY <3>1, <3>2
  <2>7. ticks' \in Nat /\ ticks <= ticks' /\ ~late' /\ link' \in Int \cup {None}
    BY <1>1 DEF RecoveryInv, RecoveryTypes
  <2> QED
    BY <1>1, <2>3, <2>6, <2>7, AttemptsStay, Zenon
<1> QED
  BY <1>2, <1>3

\* The attempts of a window that holds the present are recent for the request
\* that is about to add one.
LEMMA WindowIsRecent ==
    ASSUME RecoveryInv, NEW c \in Int, c <= ticks - Hour * Second,
           NEW t \in Int, ticks <= t + (Hour - 1) * Second
    PROVE  InWindow(t) \subseteq Recent(c)
<1> SUFFICES ASSUME NEW i \in 1..Len(attempts), attempts[i].at > t PROVE TextAfter(attempts[i].at, c)
  BY Zenon DEF InWindow, Recent
<1>1. attempts[i] \in Attempt /\ ticks \in Nat
  BY DEF RecoveryInv, RecoveryTypes
<1>2. attempts[i].at \in Int
  BY <1>1 DEF Attempt
<1>3. attempts[i].at >= c + Second
  BY <1>1, <1>2, SecondHolds, SMTT(30)
<1> QED
  BY <1>2, <1>3, TextHolds, Zenon

\* One more index, in a set that stays or not.
LEMMA OneMore ==
    ASSUME NEW A, NEW B, NEW n, NEW R, NEW limit \in Nat,
           IsFiniteSet(R), A \subseteq R, Cardinality(R) < limit, B \subseteq A \cup {n}
    PROVE  Cardinality(B) <= limit
<1>1. IsFiniteSet(R \cup {n}) /\ Cardinality(R \cup {n}) <= Cardinality(R) + 1 /\ Cardinality(R) \in Nat
  <2>1. Cardinality(R) \in Nat
    BY FS_CardinalityType
  <2>2. IsFiniteSet(R \cup {n}) /\ Cardinality(R \cup {n}) = IF n \in R THEN Cardinality(R) ELSE Cardinality(R) + 1
    BY FS_AddElement, Zenon
  <2> QED
    BY <2>1, <2>2
<1>2. B \subseteq R \cup {n}
  OBVIOUS
<1>3. IsFiniteSet(B) /\ Cardinality(B) <= Cardinality(R \cup {n})
  BY <1>1, <1>2, FS_Subset
<1>4. Cardinality(B) \in Nat /\ Cardinality(R \cup {n}) \in Nat
  BY <1>1, <1>3, FS_CardinalityType, Zenon
<1> QED
  BY <1>1, <1>3, <1>4

\* The one request that has counted adds its attempt.
LEMMA InsertKeeps ==
    ASSUME RecoveryInv, NEW r \in Seekers, Insert(r)
    PROVE  RecoveryInv'
<1> DEFINE n == Len(attempts) + 1
           a == [source |-> search[r].source, destination |-> search[r].destination, at |-> ticks]
<1>1. /\ search[r] # None /\ search[r].pc = "insert" /\ search[r] \in Asking
      /\ attempts' = Append(attempts, a) /\ search' = [search EXCEPT ![r] = None]
      /\ UNCHANGED <<ticks, late>> /\ ticks \in Nat
      /\ attempts \in Seq(Attempt) /\ Len(attempts) \in Nat
      /\ link' = ticks + Expiry * Second \/ link' = link
  BY DEF Insert, RecoveryInv, RecoveryTypes
<1>2. a \in Attempt /\ a.at = ticks /\ a.source = search[r].source /\ a.destination = search[r].destination
  BY <1>1, Zenon DEF Attempt, Asking
<1> HIDE DEF a
<1>3. /\ attempts' \in Seq(Attempt) /\ Len(attempts') = n /\ attempts'[n] = a
      /\ \A i \in 1..Len(attempts) : attempts'[i] = attempts[i]
      /\ 1..Len(attempts') = 1..Len(attempts) \cup {n} /\ n \notin 1..Len(attempts)
  BY <1>1, <1>2
<1> HIDE DEF n
<1>4. /\ search' \in [Seekers -> Asking \cup {None}]
      /\ \A q \in Seekers : search'[q] = None
  BY <1>1, Zenon DEF RecoveryInv, RecoveryTypes, Alone
<1>5. link' \in Int \cup {None}
  <2>1. Expiry * Second \in Int
    BY SecondHolds, RecoveryAssumption
  <2> QED
    BY <1>1, <2>1 DEF RecoveryInv, RecoveryTypes
<1>6. ASSUME NEW t \in Int PROVE Spent(t)'
  <2>1. InWindow(t)' = {i \in 1..Len(attempts) \cup {n} :
                            attempts'[i].at > t /\ attempts'[i].at <= t + (Hour - 1) * Second}
    BY <1>3, Zenon DEF InWindow
  <2>2. InWindow(t)' \subseteq InWindow(t) \cup {n} /\ InWindow(t) \subseteq 1..Len(attempts)
    BY <1>3, <2>1, Zenon DEF InWindow
  <2>3. CASE ~(ticks > t /\ ticks <= t + (Hour - 1) * Second)
    <3>1. InWindow(t)' = InWindow(t) /\ n \notin InWindow(t)
      BY <1>2, <1>3, <2>1, <2>3, Zenon DEF InWindow
    <3>2. \A i \in InWindow(t) : attempts'[i] = attempts[i]
      BY <1>3, <2>2, Zenon
    <3>3. /\ \A s \in Sources : {i \in InWindow(t) : attempts[i].source = s}' = {i \in InWindow(t) : attempts[i].source = s}
          /\ \A d \in Destinations :
                {i \in InWindow(t) : attempts[i].destination = d}' = {i \in InWindow(t) : attempts[i].destination = d}
      BY <3>1, <3>2, Zenon
    <3>4. Spent(t)
      BY DEF RecoveryInv
    <3> QED
      BY <3>1, <3>3, <3>4, Zenon DEF Spent
  <2>4. CASE ticks > t /\ ticks <= t + (Hour - 1) * Second
    <3> DEFINE R == Recent(search[r].cutoff)
               From(s) == {i \in R : attempts[i].source = s}
               To(d) == {i \in R : attempts[i].destination = d}
    <3>1. /\ Cardinality(R) < EventLimit
          /\ Cardinality(From(search[r].source)) < SourceLimit
          /\ Cardinality(To(search[r].destination)) < DestinationLimit
      BY <1>1, Zenon DEF RecoveryInv, Alone, Within
    <3>2. InWindow(t) \subseteq R
      <4>1. search[r].cutoff \in Int /\ search[r].cutoff <= ticks - Hour * Second
        BY <1>1, Zenon DEF RecoveryInv, Alone, Asking
      <4> QED
        BY <2>4, <4>1, WindowIsRecent, Zenon
    <3>3. R \in SUBSET (1..Len(attempts))
      BY DEF Recent
    <3> HIDE DEF R
    <3>4. IsFiniteSet(R) /\ (\A s : IsFiniteSet(From(s))) /\ (\A d : IsFiniteSet(To(d)))
      <4>1. (\A s : From(s) \in SUBSET (1..Len(attempts))) /\ (\A d : To(d) \in SUBSET (1..Len(attempts)))
        BY <3>3, Zenon
      <4> HIDE DEF From, To
      <4> QED
        BY <1>1, <3>3, <4>1, IndicesFinite, Zenon
    <3>5. Cardinality(InWindow(t)') <= EventLimit
      BY <2>2, <3>1, <3>2, <3>4, OneMore, RecoveryAssumption, Zenon
    <3>6. ASSUME NEW s \in Sources
          PROVE  Cardinality({i \in InWindow(t) : attempts[i].source = s}') <= SourceLimit
      <4> DEFINE A == {i \in InWindow(t) : attempts[i].source = s}
                 B == {i \in InWindow(t)' : attempts'[i].source = s}
      <4>1. B \subseteq A \cup {n} /\ (s # search[r].source => B \subseteq A)
        BY <1>2, <1>3, <2>2, Zenon
      <4>2. A \subseteq From(s) /\ A \in SUBSET (1..Len(attempts))
        BY <2>2, <3>2, Zenon
      <4>3. CASE s = search[r].source
        <5> DEFINE F == From(s)
        <5>1. IsFiniteSet(F) /\ A \subseteq F
          BY <3>4, <4>2, Zenon
        <5>2. Cardinality(F) < SourceLimit
          BY <3>1, <4>3, Zenon
        <5> HIDE DEF A, B, F
        <5>3. Cardinality(B) <= SourceLimit
          BY <4>1, <5>1, <5>2, OneMore, RecoveryAssumption, Zenon
        <5> QED
          BY <5>3 DEF B
      <4>4. CASE s # search[r].source
        <5>1. Cardinality(A) <= SourceLimit
          BY Zenon DEF RecoveryInv, Spent
        <5> HIDE DEF A, B
        <5>2. IsFiniteSet(A) /\ Cardinality(A) \in Nat
          BY <1>1, <4>2, IndicesFinite, Zenon
        <5>3. IsFiniteSet(B) /\ Cardinality(B) <= Cardinality(A)
          BY <4>1, <4>4, <5>2, FS_Subset, Zenon
        <5>4. Cardinality(B) \in Nat
          BY <5>3, FS_CardinalityType, Zenon
        <5>5. Cardinality(B) <= SourceLimit
          BY <5>1, <5>2, <5>3, <5>4, RecoveryAssumption, SMTT(30)
        <5> QED
          BY <5>5, SMTT(30) DEF B
      <4> QED
        BY <4>3, <4>4, Zenon
    <3>7. ASSUME NEW d \in Destinations
          PROVE  Cardinality({i \in InWindow(t) : attempts[i].destination = d}') <= DestinationLimit
      <4> DEFINE A == {i \in InWindow(t) : attempts[i].destination = d}
                 B == {i \in InWindow(t)' : attempts'[i].destination = d}
      <4>1. B \subseteq A \cup {n} /\ (d # search[r].destination => B \subseteq A)
        BY <1>2, <1>3, <2>2, Zenon
      <4>2. A \subseteq To(d) /\ A \in SUBSET (1..Len(attempts))
        BY <2>2, <3>2, Zenon
      <4>3. CASE d = search[r].destination
        <5> DEFINE F == To(d)
        <5>1. IsFiniteSet(F) /\ A \subseteq F
          BY <3>4, <4>2, Zenon
        <5>2. Cardinality(F) < DestinationLimit
          BY <3>1, <4>3, Zenon
        <5> HIDE DEF A, B, F
        <5>3. Cardinality(B) <= DestinationLimit
          BY <4>1, <5>1, <5>2, OneMore, RecoveryAssumption, Zenon
        <5> QED
          BY <5>3 DEF B
      <4>4. CASE d # search[r].destination
        <5>1. Cardinality(A) <= DestinationLimit
          BY Zenon DEF RecoveryInv, Spent
        <5> HIDE DEF A, B
        <5>2. IsFiniteSet(A) /\ Cardinality(A) \in Nat
          BY <1>1, <4>2, IndicesFinite, Zenon
        <5>3. IsFiniteSet(B) /\ Cardinality(B) <= Cardinality(A)
          BY <4>1, <4>4, <5>2, FS_Subset, Zenon
        <5>4. Cardinality(B) \in Nat
          BY <5>3, FS_CardinalityType
        <5>5. Cardinality(B) <= DestinationLimit
          BY <5>1, <5>2, <5>3, <5>4, RecoveryAssumption, SMTT(30)
        <5> QED
          BY <5>5, SMTT(30) DEF B
      <4> QED
        BY <4>3, <4>4, Zenon
    <3> QED
      BY <3>5, <3>6, <3>7 DEF Spent
  <2> QED
    BY <2>3, <2>4
<1>7. ASSUME NEW i \in 1..Len(attempts') PROVE attempts'[i].at <= ticks'
  BY <1>1, <1>2, <1>3 DEF RecoveryInv
<1>8. ASSUME NEW q \in Seekers PROVE Alone(q)'
  BY <1>4, Zenon DEF Alone
<1> QED
  BY <1>1, <1>3, <1>4, <1>5, <1>6, <1>7, <1>8, Zenon DEF RecoveryInv, RecoveryTypes

\* Every step keeps the invariant.
LEMMA RecoveryStep == RecoveryInv /\ [RecoveryNext]_recovery => RecoveryInv'
<1> SUFFICES ASSUME RecoveryInv, [RecoveryNext]_recovery PROVE RecoveryInv'
  BY SMTT(30)
<1>1. CASE Redeem
  <2>1. /\ link # None /\ TextAfter(link, ticks) /\ link' = None
        /\ late' = (late \/ ticks \div Second > link \div Second)
        /\ UNCHANGED <<ticks, search, attempts>> /\ ~late /\ ticks \in Nat /\ link \in Int
    BY <1>1, Zenon DEF Redeem, RecoveryInv, RecoveryTypes
  <2>2. link \div Second >= ticks \div Second /\ link \div Second \in Int /\ ticks \div Second \in Int
    BY <2>1, TextHolds, SecondHolds
  <2>3. ~(ticks \div Second > link \div Second)
    BY <2>2
  <2>4. ~late'
    BY <2>1, <2>3, Zenon
  <2>5. search' \in [Seekers -> Asking \cup {None}] /\ \A r \in Seekers : Alone(r)'
    BY <2>1, Zenon DEF RecoveryInv, RecoveryTypes, Alone, Within, Recent
  <2> QED
    BY <2>1, <2>4, <2>5, AttemptsStay
<1>2. CASE TickPasses \/ UNCHANGED recovery
  <2>1. /\ UNCHANGED <<search, attempts, link, late>> /\ ticks \in Nat /\ ticks' \in Nat /\ ticks <= ticks'
    BY <1>2 DEF TickPasses, recovery, RecoveryInv, RecoveryTypes
  <2>2. ASSUME NEW r \in Seekers PROVE Alone(r)'
    <3> SUFFICES ASSUME search[r] # None PROVE Alone(r)'
      BY <2>1, Zenon DEF Alone
    <3>1. search[r].cutoff \in Int /\ search[r].cutoff <= ticks - Hour * Second
      BY Zenon DEF RecoveryInv, RecoveryTypes, Alone, Asking
    <3>2. search'[r].cutoff <= ticks' - Hour * Second
      BY <2>1, <3>1, SecondHolds
    <3> QED
      BY <2>1, <3>2, Zenon DEF RecoveryInv, Alone, Within, Recent
  <2>3. search' \in [Seekers -> Asking \cup {None}] /\ link' \in Int \cup {None} /\ ~late'
    BY <2>1, Zenon DEF RecoveryInv, RecoveryTypes
  <2> QED
    BY <2>1, <2>2, <2>3, AttemptsStay, Zenon
<1>3. ASSUME NEW r \in Seekers, Rollback(r) PROVE RecoveryInv'
  BY <1>3, EndsKeeps, Zenon DEF Rollback
<1> QED
  BY <1>1, <1>2, <1>3, LockKeeps, CountKeeps, InsertKeeps, Zenon DEF RecoveryNext

\* However many requests, sources and destinations, and whatever the limits and
\* the precision of the clock: the budgets of AllowRecovery hold of every window
\* a second short of the hour, and a link is redeemed no later than in its last
\* second, although times are compared as text.
THEOREM BudgetKeptHolds == RecoverySpec => []BudgetKept
<1>1. RecoveryInv => BudgetKept
  BY DEF RecoveryInv, RecoveryTypes, Spent, BudgetKept
<1> QED
  BY <1>1, RecoveryStarts, RecoveryStep, PTL DEF RecoverySpec
=============================================================================
