---------------------------- MODULE RateLimiter ----------------------------
(***************************************************************************)
(* The sliding window in front of the API (security/ratelimit.go): each    *)
(* address may pass so many requests per window.  Allow and Cleanup hold   *)
(* the mutex from end to end, so each is one step.  The windows are in     *)
(* memory: everything here is of the life of one process.  A request that  *)
(* passed is known by its number among those of its address.               *)
(***************************************************************************)
EXTENDS Integers, Sequences, FiniteSets

CONSTANTS
    Addresses,      \* keys: remote addresses
    RequestLimit,   \* limit
    RateWindow,     \* window
    LastInstant     \* bound: the clock

ASSUME RateLimiterAssumption ==
    RequestLimit \in Nat /\ RateWindow \in Nat /\ LastInstant \in Nat

VARIABLES
    instant,        \* time.Now(), which never runs backwards
    entries,        \* windows; an address without one has no entries
    passed          \* history: when each request of an address passed, in order

limiter == <<instant, entries, passed>>

LimiterInit ==
    /\ instant = 0
    /\ entries = [a \in Addresses |-> {}]
    /\ passed = [a \in Addresses |-> <<>>]

\* Mutant: an entry as old as the window is dropped.
pruneEntriesOld(a) == {i \in entries[a] : passed[a][i] > instant - RateWindow}

\* pruneEntries keeps what is not before the cutoff.
pruneEntries(a) == {i \in entries[a] : ~(passed[a][i] < instant - RateWindow)}

\* Allow, called by RateLimitMiddleware for every request.
Allow(a) ==
    /\ IF Cardinality(pruneEntries(a)) >= RequestLimit
       THEN /\ entries' = [entries EXCEPT ![a] = pruneEntries(a)]
            /\ UNCHANGED passed
       ELSE /\ entries' = [entries EXCEPT ![a] = pruneEntries(a) \cup {Len(passed[a]) + 1}]
            /\ passed' = [passed EXCEPT ![a] = Append(passed[a], instant)]
    /\ UNCHANGED instant

\* Cleanup, every five minutes, drops what is old for all addresses.
Cleanup ==
    /\ entries' = [a \in Addresses |-> pruneEntries(a)]
    /\ UNCHANGED <<instant, passed>>

\* Time passes.
LimiterTick ==
    /\ instant < LastInstant
    /\ instant' = instant + 1
    /\ UNCHANGED <<entries, passed>>

LimiterNext == (\E a \in Addresses : Allow(a)) \/ Cleanup \/ LimiterTick

LimiterSpec == LimiterInit /\ [][LimiterNext]_limiter

----------------------------------------------------------------------------
\* The requests of an address that passed within a window from t on.
Passed(a, t) == {i \in 1..Len(passed[a]) : t <= passed[a][i] /\ passed[a][i] <= t + RateWindow}

\* No window of any address, wherever it starts, holds more requests that
\* passed than the limit, and none that is still in the window is forgotten by
\* Allow or Cleanup or counted for another address.
RateKept ==
    \A a \in Addresses :
        /\ Passed(a, instant - RateWindow) \subseteq entries[a]
        /\ \A t \in 0..instant : Cardinality(Passed(a, t)) <= RequestLimit
=============================================================================
