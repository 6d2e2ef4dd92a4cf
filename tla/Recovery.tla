------------------------------ MODULE Recovery ------------------------------
(***************************************************************************)
(* How often a household may ask for a recovery link, and how long a link  *)
(* lives (invitation/recovery_store.go, RequestRecovery).                  *)
(*                                                                         *)
(* Times are stored as text (RFC3339Nano) and compared as text.  The       *)
(* format drops the trailing zeros of the fraction, so two times within a  *)
(* second compare by the digits left and the letter Z after them, and      *)
(* '.' < digits < 'Z'.  A tick is a second over Base^2: a fraction of two  *)
(* digits is enough for both effects.                                      *)
(***************************************************************************)
EXTENDS Absence, Integers, Sequences, FiniteSets

CONSTANTS
    Seekers,
    Sources,        \* fingerprints of who asks
    Destinations,   \* fingerprints of the contacts links are sent to
    SourceLimit, DestinationLimit, EventLimit,
    Base,           \* digits of a fraction
    Hour,           \* the window of the budget, in seconds
    Expiry,         \* recoveryExpiry, in seconds
    MaxTicks        \* bound: ticks

VARIABLES
    ticks,
    search,         \* a recovery request past its lock: who asks, and its cutoff
    attempts,       \* invitation_recovery_attempts
    link,           \* expires_at of the newest invitation_recovery_tokens row, or None
    late            \* history: a link was redeemed in a second after its last

recovery == <<ticks, search, attempts, link, late>>

ASSUME RecoveryAssumption ==
    /\ Base \in Nat \ {0} /\ Hour \in Nat /\ Expiry \in Nat
    /\ SourceLimit \in Nat /\ DestinationLimit \in Nat /\ EventLimit \in Nat

Second == Base * Base

RecoveryInit ==
    /\ ticks = 0
    /\ search = [r \in Seekers |-> None]
    /\ attempts = <<>>
    /\ link = None
    /\ late = FALSE

----------------------------------------------------------------------------
\* The fraction of t as it sorts: its digits without trailing zeros, Z after
\* them (Base stands for it); no fraction at all is Z where a point would be.
Fraction(t) ==
    LET f == t % Second IN
    CASE f = 0        -> <<Base, Base>>
      [] f % Base = 0 -> <<f \div Base, Base>>
      [] OTHER        -> <<f \div Base, f % Base>>

\* Text of t > text of u.
TextAfter(t, u) ==
    LET p == Fraction(t)
        q == Fraction(u)
    IN  \/ t \div Second > u \div Second
        \/ /\ t \div Second = u \div Second
           /\ p[1] > q[1] \/ (p[1] = q[1] /\ p[2] > q[2])

\* The attempts that the SELECTs see.
Recent(cutoff) == {i \in 1..Len(attempts) : TextAfter(attempts[i].at, cutoff)}

\* The advisory lock, or SQLite's write reservation: one at a time.
Locked == \E r \in Seekers : search[r] # None

\* Mutant: no lock before the counts.
LockNot(r, s, d) ==
    /\ search[r] = None
    /\ search' = [search EXCEPT ![r] = [source |-> s, destination |-> d,
                                        pc |-> "count", cutoff |-> ticks - Hour * Second]]
    /\ UNCHANGED <<ticks, attempts, link, late>>

\* AllowRecovery takes the lock and then the cutoff.
Lock(r, s, d) ==
    /\ ~Locked
    /\ search' = [search EXCEPT ![r] = [source |-> s, destination |-> d,
                                        pc |-> "count", cutoff |-> ticks - Hour * Second]]
    /\ UNCHANGED <<ticks, attempts, link, late>>

\* The three SELECTs.
Within(q) ==
    LET recent == Recent(q.cutoff) IN
    /\ Cardinality({i \in recent : attempts[i].source = q.source}) < SourceLimit
    /\ Cardinality({i \in recent : attempts[i].destination = q.destination}) < DestinationLimit
    /\ Cardinality(recent) < EventLimit

CountAttempts(r) ==
    /\ search[r] # None /\ search[r].pc = "count"
    /\ search' = [search EXCEPT ![r] =
                      IF Within(search[r]) THEN [@ EXCEPT !.pc = "insert"] ELSE None]
    /\ UNCHANGED <<ticks, attempts, link, late>>

\* The INSERT and the COMMIT, with a time read after the counts.
Insert(r) ==
    /\ search[r] # None /\ search[r].pc = "insert"
    /\ attempts' = Append(attempts, [source |-> search[r].source,
                                     destination |-> search[r].destination, at |-> ticks])
    /\ search' = [search EXCEPT ![r] = None]
    /\ \/ link' = ticks + Expiry * Second     \* CreateRecoveryToken
       \/ UNCHANGED link                      \* no match, or a fault
    /\ UNCHANGED <<ticks, late>>

\* A query or the commit fails: the transaction is rolled back.
Rollback(r) ==
    /\ search[r] # None
    /\ search' = [search EXCEPT ![r] = None]
    /\ UNCHANGED <<ticks, attempts, link, late>>

\* ConsumeRecoveryAndCreateSession: expires_at > now, as text.
Redeem ==
    /\ link # None /\ TextAfter(link, ticks)
    /\ link' = None
    /\ late' = (late \/ ticks \div Second > link \div Second)
    /\ UNCHANGED <<ticks, search, attempts>>

TickPasses ==
    /\ ticks < MaxTicks
    /\ ticks' = ticks + 1
    /\ UNCHANGED <<search, attempts, link, late>>

RecoveryNext ==
    \/ \E r \in Seekers :
          \/ \E s \in Sources, d \in Destinations : Lock(r, s, d)
          \/ CountAttempts(r) \/ Insert(r) \/ Rollback(r)
    \/ Redeem
    \/ TickPasses

RecoverySpec == RecoveryInit /\ [][RecoveryNext]_recovery

----------------------------------------------------------------------------
\* The attempts of a window that starts after t and is a second short of the
\* hour: within that second the text comparison may take a later time for an
\* earlier one.
InWindow(t) == {i \in 1..Len(attempts) :
                   attempts[i].at > t /\ attempts[i].at <= t + (Hour - 1) * Second}

\* However requests interleave and however times within a second compare, no
\* window of an hour (less that second) holds more accepted attempts than the
\* budget of a source, a destination or the event (AllowRecovery), and no link
\* is redeemed in a later second than the one it expires in.
BudgetKept ==
    /\ \A t \in -1..ticks :
          /\ Cardinality(InWindow(t)) <= EventLimit
          /\ \A s \in Sources :
                Cardinality({i \in InWindow(t) : attempts[i].source = s}) <= SourceLimit
          /\ \A d \in Destinations :
                Cardinality({i \in InWindow(t) : attempts[i].destination = d})
                    <= DestinationLimit
    /\ ~late
=============================================================================
