--------------------------- MODULE HouseholdAccess ---------------------------
(***************************************************************************)
(* What internal/invitation promises about access to a household, without  *)
(* versions, links, tokens, locks or requests: a session opens once for    *)
(* one household, ends alone when it expires or together with all sessions *)
(* of its household when the household is cut off, and never opens again.  *)
(***************************************************************************)
EXTENDS Naturals

CONSTANTS Invitations, Sessions

VARIABLES open,    \* the sessions accepted for each household
          closed   \* the sessions that are refused for good

vars == <<open, closed>>

Fresh(s) == s \notin closed /\ \A i \in Invitations : s \notin open[i]

Init ==
    /\ open = [i \in Invitations |-> {}]
    /\ closed = {}

\* A link or a recovery token is exchanged, or an open enrollment succeeds.
Admit(i, s) ==
    /\ Fresh(s)
    /\ open' = [open EXCEPT ![i] = @ \cup {s}]
    /\ UNCHANGED closed

\* An exchange that a cut-off overtook leaves a session that never opens.
AdmitTooLate(s) ==
    /\ Fresh(s)
    /\ closed' = closed \cup {s}
    /\ UNCHANGED open

\* Rotation or revocation: every session of this household and of no other.
CutOff(i) ==
    /\ closed' = closed \cup open[i]
    /\ open' = [open EXCEPT ![i] = {}]

Lapse(i, s) ==
    /\ s \in open[i]
    /\ closed' = closed \cup {s}
    /\ open' = [open EXCEPT ![i] = @ \ {s}]

Next ==
    \/ \E s \in Sessions : AdmitTooLate(s)
    \/ \E i \in Invitations : CutOff(i)
    \/ \E i \in Invitations, s \in Sessions : Admit(i, s) \/ Lapse(i, s)

Spec == Init /\ [][Next]_vars
=============================================================================
