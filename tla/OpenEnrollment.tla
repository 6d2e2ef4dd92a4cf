--------------------------- MODULE OpenEnrollment ---------------------------
(***************************************************************************)
(* Open enrollment of one event: the organizer configures and rotates the  *)
(* public link, visitors enroll households through it, and households so   *)
(* created are edited and revoked like any other (internal/invitation:     *)
(* ConfigureOpen, RotateOpen, EnrollOpen, validOpen; UpdateInvitation,     *)
(* SubmitResponse and Revoke as far as they change the number of seats).   *)
(*                                                                         *)
(* EnrollOpen validates the link outside its transaction; the transaction  *)
(* locks the open_enrollments row, checks all again, counts the seats and  *)
(* inserts the household.  Edits of households lock only their own row.    *)
(*                                                                         *)
(* The window from opens_at to closes_at is the set of instants in it;     *)
(* guests are counted, not named.                                          *)
(***************************************************************************)
EXTENDS Absence, Naturals, FiniteSets

CONSTANTS Invitations,  \* invitations that can come to exist through the link
          Requests,     \* enrollments in flight
          MaxTime,      \* bound: the clock
          MaxVersion,   \* bound: open_enrollments.token_version
          MaxParty,     \* bound: max_party_size (50 in the code) and guests of a household
          MaxCapacity,  \* bound: capacity
          MaxGrown      \* bound: seats added outside enrollment, and allowances

Times == 0 .. MaxTime
Windows == {lo .. hi : lo, hi \in Times} \ {{}}
Settings == [enabled : BOOLEAN, window : Windows, maxParty : 1 .. MaxParty,
             capacity : 1 .. MaxCapacity \cup {None}]
Household == [assigned : Nat, additional : Nat, allowance : Nat, revoked : BOOLEAN]

ASSUME OpenEnrollmentAssumption ==
    /\ None \notin Requests
    /\ None \notin Household
    /\ {MaxTime, MaxVersion, MaxParty, MaxCapacity, MaxGrown} \subseteq Nat

VARIABLES
    now,         \* the clock
    version,     \* open_enrollments.token_version; 0 before the row exists
    settings,    \* its other columns
    household,   \* invitations with this open_enrollment_id
    lock,        \* the request that holds the lock of the row
    request,     \* enrollments in flight
    grown        \* history: seats added by edits of households

vars == <<now, version, settings, household, lock, request, grown>>

Idle == [step |-> "idle", version |-> 0, party |-> 0, since |-> 0]

HasRow(i) == household[i] # None
Counted(i) == HasRow(i) /\ ~household[i].revoked
Seats(i) == IF Counted(i) THEN household[i].assigned + household[i].additional ELSE 0

\* The COUNT of EnrollOpen: active guests of households that are not revoked,
\* numbered within their household.
ActiveGuests == UNION {{i} \X (1 .. Seats(i)) : i \in Invitations}
Allocated == Cardinality(ActiveGuests)

\* Mutant: a seat must be left, however large the party.
FitsAnyParty(n) == settings.capacity # None => Allocated < settings.capacity

Fits(n) == settings.capacity # None => Allocated + n <= settings.capacity

Init ==
    /\ now = 0
    /\ version = 0
    /\ settings = [enabled |-> FALSE, window |-> Times, maxParty |-> 1, capacity |-> None]
    /\ household = [i \in Invitations |-> None]
    /\ lock = None
    /\ request = [r \in Requests |-> Idle]
    /\ grown = 0

-----------------------------------------------------------------------------
(* The organizer's settings.                                               *)

\* ConfigureOpen: an upsert that leaves the version of an existing row alone.
ConfigureOpen(s) ==
    /\ lock = None
    /\ settings' = s
    /\ version' = IF version = 0 THEN 1 ELSE version
    /\ UNCHANGED <<now, household, lock, request, grown>>

RotateOpen ==
    /\ lock = None
    /\ version \in 1 .. MaxVersion - 1
    /\ version' = version + 1
    /\ UNCHANGED <<now, settings, household, lock, request, grown>>

-----------------------------------------------------------------------------
(* A visitor enrolls a household of n guests with a link of the current    *)
(* version.                                                                *)

\* validOpen and the checks of Service.EnrollOpen.
EnrollRead(r, n) ==
    /\ request[r] = Idle
    /\ version > 0
    /\ settings.enabled /\ now \in settings.window
    /\ n <= settings.maxParty
    /\ request' = [request EXCEPT ![r] = [step |-> "enroll", version |-> version,
                                          party |-> n, since |-> now]]
    /\ UNCHANGED <<now, version, settings, household, lock, grown>>

\* Mutant: the row is locked by its id alone.
EnrollableById(q) ==
    /\ q.party <= settings.maxParty
    /\ \E t \in q.since .. now : t \in settings.window
    /\ Fits(q.party)

\* The transaction took its time, once, before it waited for the lock.
Enrollable(q) ==
    /\ version = q.version /\ settings.enabled
    /\ q.party <= settings.maxParty
    /\ \E t \in q.since .. now : t \in settings.window
    /\ Fits(q.party)

\* EnrollOpen up to the COUNT.
EnrollCheck(r) ==
    /\ request[r].step = "enroll"
    /\ lock = None
    /\ Enrollable(request[r])
    /\ lock' = r
    /\ request' = [request EXCEPT ![r].step = "insert"]
    /\ UNCHANGED <<now, version, settings, household, grown>>

\* The INSERTs and the commit.
EnrollCommit(r, i) ==
    /\ request[r].step = "insert"
    /\ ~HasRow(i)
    /\ household' = [household EXCEPT ![i] =
           [assigned |-> request[r].party, additional |-> 0, allowance |-> 0,
            revoked |-> FALSE]]
    /\ lock' = None
    /\ request' = [request EXCEPT ![r] = Idle]
    /\ UNCHANGED <<now, version, settings, grown>>

\* ErrInvalidCapability, ErrAllowance, ErrCapacity or a statement that fails.
EnrollReject(r) ==
    /\ request[r].step = "insert" \/ (request[r].step = "enroll" /\ lock = None)
    /\ lock' = None
    /\ request' = [request EXCEPT ![r] = Idle]
    /\ UNCHANGED <<now, version, settings, household, grown>>

-----------------------------------------------------------------------------
(* Edits of an enrolled household.                                         *)

Grow(n) == grown + n <= MaxGrown /\ grown' = grown + n

\* UpdateInvitation: at least one assigned guest, any allowance.
UpdateInvitation(i, assigned, allowance) ==
    /\ Counted(i)
    /\ household' = [household EXCEPT ![i].assigned = assigned, ![i].allowance = allowance]
    /\ IF assigned > household[i].assigned THEN Grow(assigned - household[i].assigned)
                                           ELSE UNCHANGED grown
    /\ UNCHANGED <<now, version, settings, lock, request>>

\* SubmitResponse: additional guests within the allowance.
SubmitResponse(i, additional) ==
    /\ Counted(i)
    /\ additional <= household[i].allowance
    /\ household' = [household EXCEPT ![i].additional = additional]
    /\ IF additional > household[i].additional THEN Grow(additional - household[i].additional)
                                               ELSE UNCHANGED grown
    /\ UNCHANGED <<now, version, settings, lock, request>>

\* Revoke gives the seats back.
Revoke(i) ==
    /\ Counted(i)
    /\ household' = [household EXCEPT ![i].revoked = TRUE]
    /\ UNCHANGED <<now, version, settings, lock, request, grown>>

Tick ==
    /\ now < MaxTime
    /\ now' = now + 1
    /\ UNCHANGED <<version, settings, household, lock, request, grown>>

-----------------------------------------------------------------------------
Enroll(r) ==
    \/ EnrollCheck(r)
    \/ \E i \in Invitations : EnrollCommit(r, i)
    \/ EnrollReject(r)

Next ==
    \/ \E s \in Settings : ConfigureOpen(s)
    \/ RotateOpen
    \/ \E r \in Requests : Enroll(r) \/ \E n \in 1 .. MaxParty : EnrollRead(r, n)
    \/ \E i \in Invitations :
           \/ \E m \in 1 .. MaxParty, n \in 0 .. MaxGrown : UpdateInvitation(i, m, n)
           \/ \E n \in 0 .. MaxGrown : SubmitResponse(i, n)
           \/ Revoke(i)
    \/ Tick

Spec == Init /\ [][Next]_vars

-----------------------------------------------------------------------------
(* Properties.                                                             *)

Enrolled == {i \in Invitations : HasRow(i)}

\* "Concurrent enrollment at the last seat admits exactly one household"
\* (docs/gate-2-invitation-domain.md:201): when a household is admitted, the
\* seats in use exceed the capacity in force by no more than what edits of
\* households have added, whatever enrollments ran beside it.
AdmissionWithinCapacity ==
    [][Enrolled' # Enrolled /\ settings.capacity # None =>
           Allocated' <= settings.capacity + grown]_vars

\* A rotated or disabled link admits nobody, not even an enrollment that had
\* passed validOpen before: households are admitted only with a link of the
\* version in force, while the link is enabled.
AdmittedByCurrentLink ==
    \A r \in Requests : request[r].step = "insert" =>
        request[r].version = version /\ settings.enabled
=============================================================================
