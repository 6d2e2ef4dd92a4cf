-------------------------- MODULE HouseholdResponse --------------------------
(***************************************************************************)
(* One household: its guests, its versioned response, the answers to the   *)
(* event's questions, the organizer's edits and the browser pages that     *)
(* load the household and send it back as one form (internal/invitation    *)
(* response_store.go, management_store.go, LoadHousehold in store.go,      *)
(* internal/question, web/src/routes/invitation).                          *)
(*                                                                         *)
(* LoadHousehold runs statement by statement outside a transaction, so     *)
(* other requests commit between its reads.  SubmitResponse and            *)
(* UpdateInvitation are transactions that hold the invitation's row lock   *)
(* from their first statement; each is one step (SubmitResponse reads the  *)
(* questions once: one saved while it runs counts as saved after it).      *)
(*                                                                         *)
(* Attendance is abstracted to attending or not (the only value the code   *)
(* tests).  An answer is abstracted to its row being absent, blank or      *)
(* given, and the questions are of type "text".  Names are left out.       *)
(***************************************************************************)
EXTENDS Absence, Naturals, FiniteSets

CONSTANTS Guests,        \* guest rows that can come to exist
          Questions,     \* event_questions rows that can come to exist
          Pages,         \* browser pages open on this household
          MaxVersion,    \* bound: rsvp_responses.version
          MaxAllowance   \* bound: additional_guest_allowance (50 in the code)

ASSUME HouseholdAssumption == IsFiniteSet(Guests) /\ MaxAllowance \in Nat

Scopes == {"invitation", "guest"}
Answers == [Questions -> {"absent", "blank", "given"}]

VARIABLES
    revoked,      \* invitations.revoked_at is set
    allowance,    \* invitations.additional_guest_allowance
    version,      \* rsvp_responses.version
    assigned,     \* guest rows with origin 'assigned', removed ones included
    additional,   \* guest rows with origin 'additional', removed ones included
    removed,      \* guest rows whose removed_at is set
    attending,    \* guests whose guest_responses.attendance is 'attending'
    question,     \* event_questions rows
    invAnswers,   \* rows of invitation_answers
    guestAnswers, \* rows of guest_answers, by guest
    page          \* what each browser page has loaded

household == <<version, assigned, additional, removed, attending, invAnswers,
               guestAnswers>>
vars == <<revoked, allowance, household, question, page>>

Active(S) == S \ removed
Fresh == Guests \ (assigned \cup additional)

\* Live questions of a scope, as listQuestions and loadQuestionsTx return them.
Live == {q \in Questions : question[q] # None /\ ~question[q].deleted}
LiveIn(scope) == {q \in Live : question[q].scope = scope}
Required(scope) == {q \in LiveIn(scope) : question[q].required}

Unanswered == [q \in Questions |-> "absent"]
NoAnswers == [g \in Guests |-> Unanswered]
Held(a) == {q \in Questions : a[q] # "absent"}
Given(a) == {q \in Questions : a[q] = "given"}

Blank == [step |-> "load", version |-> 0, allowance |-> 0, assigned |-> {},
          additional |-> {}, attending |-> {}, invitationQuestions |-> {},
          guestQuestions |-> {}, invAnswers |-> Unanswered, guestAnswers |-> NoAnswers]

\* CreatePrivate, Import (any allowance) and EnrollOpen (allowance 0).
Init ==
    /\ revoked = FALSE
    /\ allowance \in 0 .. MaxAllowance
    /\ version = 1
    /\ assigned \in (SUBSET Guests) \ {{}}
    /\ additional = {}
    /\ removed = {}
    /\ attending = {}
    /\ question = [q \in Questions |-> None]
    /\ invAnswers = Unanswered
    /\ guestAnswers = NoAnswers
    /\ page = [c \in Pages |-> Blank]

-----------------------------------------------------------------------------
(* LoadHousehold and populate, one statement after the other.              *)

LoadVersion(c) ==
    /\ ~revoked
    /\ page[c].step = "load"
    /\ page' = [page EXCEPT ![c] =
           [Blank EXCEPT !.step = "guests", !.version = version, !.allowance = allowance]]
    /\ UNCHANGED <<revoked, allowance, household, question>>

\* listGuests.
LoadGuests(c) ==
    /\ page[c].step = "guests"
    /\ page' = [page EXCEPT ![c] =
           [@ EXCEPT !.step = "questions", !.assigned = Active(assigned),
                     !.additional = Active(additional),
                     !.attending = Active(attending)]]
    /\ UNCHANGED <<revoked, allowance, household, question>>

\* listQuestions.
LoadQuestions(c) ==
    /\ page[c].step = "questions"
    /\ page' = [page EXCEPT ![c] =
           [@ EXCEPT !.step = "answers", !.invitationQuestions = LiveIn("invitation"),
                     !.guestQuestions = LiveIn("guest")]]
    /\ UNCHANGED <<revoked, allowance, household, question>>

\* Mutant: the version is read again with the answers.
LoadAnswersVersion(c) ==
    /\ page[c].step = "answers"
    /\ page' = [page EXCEPT ![c] =
           [@ EXCEPT !.step = "open", !.version = version, !.invAnswers = invAnswers,
                     !.guestAnswers = [g \in Guests |-> IF g \in removed THEN Unanswered
                                                        ELSE guestAnswers[g]]]]
    /\ UNCHANGED <<revoked, allowance, household, question>>

\* listAnswers: answers of active guests, whatever became of the question.
LoadAnswers(c) ==
    /\ page[c].step = "answers"
    /\ page' = [page EXCEPT ![c] =
           [@ EXCEPT !.step = "open", !.invAnswers = invAnswers,
                     !.guestAnswers = [g \in Guests |-> IF g \in removed THEN Unanswered
                                                        ELSE guestAnswers[g]]]]
    /\ UNCHANGED <<revoked, allowance, household, question>>

\* The page is opened again.
Reload(c) ==
    /\ page[c].step = "open"
    /\ page' = [page EXCEPT ![c] = Blank]
    /\ UNCHANGED <<revoked, allowance, household, question>>

-----------------------------------------------------------------------------
(* The form of the page: every assigned guest it loaded, the additional    *)
(* guests that were kept or typed in, and all answers it holds, those of   *)
(* guests and questions that it no longer shows included.                  *)

\* answerQuestion sets an answer of a question on the page, to blank at worst;
\* nothing takes an answer away.
Edits(loaded, shown) ==
    {a \in Answers : \A q \in Questions :
         a[q] # loaded[q] => q \in shown /\ a[q] # "absent"}

\* Questions are asked for every attending guest on the page; one that was
\* typed in, answered for and dropped again leaves its answers behind.
AskedFor(c) == page[c].assigned \cup page[c].additional \cup
               (IF page[c].allowance > 0 THEN Fresh ELSE {})

GuestEdits(c) ==
    {a \in [Guests -> Answers] : \A g \in Guests :
         a[g] \in Edits(page[c].guestAnswers[g],
                       IF g \in AskedFor(c) THEN page[c].guestQuestions ELSE {})}

Form(c, keep, new, yes, answered, told) ==
    [version |-> page[c].version, assigned |-> page[c].assigned,
     keep |-> keep, new |-> new, attending |-> yes,
     invAnswers |-> answered, guestAnswers |-> told]

-----------------------------------------------------------------------------
(* SubmitResponse.                                                         *)

\* Mutant: a guest that the form leaves out loses its attendance.
AttendingAfterOnly(f) == f.attending

\* The active guests and who of them attends once the form is applied; a
\* guest the form does not mention keeps the attendance on record.
GuestsAfter(f) == Active(assigned) \cup f.keep \cup f.new
AttendingAfter(f) == (attending \ (f.assigned \cup f.keep)) \cup f.attending

UnknownGuest(f) ==
    ~(f.assigned \subseteq Active(assigned) /\ f.keep \subseteq Active(additional))

TooMany(f) == Cardinality(f.keep \cup f.new) > allowance

\* Mutant: the attendance before the form decides who must answer.
AnswerMissingStale(f) ==
    \/ ~(Required("invitation") \subseteq Given(f.invAnswers))
    \/ \E g \in GuestsAfter(f) \cap attending :
           ~(Required("guest") \subseteq Given(f.guestAnswers[g]))

\* validateResponseAnswers.
AnswerMissing(f) ==
    \/ ~(Required("invitation") \subseteq Given(f.invAnswers))
    \/ \E g \in GuestsAfter(f) \cap AttendingAfter(f) :
           ~(Required("guest") \subseteq Given(f.guestAnswers[g]))
InvalidQuestion(f) ==
    \/ ~(Held(f.invAnswers) \subseteq LiveIn("invitation"))
    \/ \E g \in GuestsAfter(f) : ~(Held(f.guestAnswers[g]) \subseteq LiveIn("guest"))
UnknownAnswer(f) == \E g \in Guests \ GuestsAfter(f) : Held(f.guestAnswers[g]) # {}

\* replaceAnswers touches the active guests only.
Save(c, f) ==
    /\ version' = version + 1
    /\ additional' = additional \cup f.new
    /\ removed' = removed \cup (Active(additional) \ f.keep)
    /\ attending' = AttendingAfter(f)
    /\ invAnswers' = f.invAnswers
    /\ guestAnswers' = [g \in Guests |-> IF g \in GuestsAfter(f) THEN f.guestAnswers[g]
                                                              ELSE guestAnswers[g]]
    /\ page' = [page EXCEPT ![c] = Blank]
    /\ UNCHANGED <<revoked, allowance, assigned, question>>

\* ErrAllowance and ErrConflict answer 409, on which the page loads again.
Conflict(c) ==
    /\ page' = [page EXCEPT ![c] = Blank]
    /\ UNCHANGED <<revoked, allowance, household, question>>

\* Any other error rolls back and leaves the form on the page.
Refused(f) ==
    \/ UnknownGuest(f)
    \/ AnswerMissing(f)
    \/ InvalidQuestion(f)
    \/ UnknownAnswer(f)

SubmitResponse(c, f) ==
    IF revoked THEN UNCHANGED vars
    ELSE IF TooMany(f) \/ f.version # version THEN Conflict(c)
    ELSE IF Refused(f) THEN UNCHANGED vars
    ELSE Save(c, f)

\* The form as the page lets the household fill it in: addGuest stops at the
\* allowance that was loaded.
Submit(c) ==
    /\ page[c].step = "open"
    /\ version < MaxVersion
    /\ \E keep \in SUBSET page[c].additional, new \in SUBSET Fresh :
           /\ new # {} => Cardinality(keep \cup new) <= page[c].allowance
           /\ \E yes \in SUBSET (page[c].assigned \cup keep \cup new),
                 answered \in Edits(page[c].invAnswers, page[c].invitationQuestions),
                 told \in GuestEdits(c) :
                     SubmitResponse(c, Form(c, keep, new, yes, answered, told))

-----------------------------------------------------------------------------
(* The organizer.                                                          *)

\* UpdateInvitation: the assigned guests that stay and those that are new, at
\* least one together; additional guests and the response are left alone.
UpdateInvitation ==
    /\ ~revoked
    /\ \E keep \in SUBSET Active(assigned), new \in SUBSET Fresh, n \in 0 .. MaxAllowance :
           /\ keep \cup new # {}
           /\ assigned' = assigned \cup new
           /\ removed' = removed \cup (Active(assigned) \ keep)
           /\ allowance' = n
    /\ UNCHANGED <<revoked, version, additional, attending, invAnswers, guestAnswers,
                   question, page>>

Revoke ==
    /\ ~revoked
    /\ revoked' = TRUE
    /\ UNCHANGED <<allowance, household, question, page>>

\* Create and Update of a question: any scope, required or not.
SaveQuestion(q) ==
    /\ question[q] = None \/ q \in Live
    /\ \E scope \in Scopes, required \in BOOLEAN :
           question' = [question EXCEPT ![q] =
               [scope |-> scope, required |-> required, deleted |-> FALSE]]
    /\ UNCHANGED <<revoked, allowance, household, page>>

\* SoftDelete: the answers stay.
DeleteQuestion(q) ==
    /\ q \in Live
    /\ question' = [question EXCEPT ![q].deleted = TRUE]
    /\ UNCHANGED <<revoked, allowance, household, page>>

-----------------------------------------------------------------------------
Next ==
    \/ \E c \in Pages : \/ LoadVersion(c) \/ LoadGuests(c) \/ LoadQuestions(c)
                        \/ LoadAnswers(c) \/ Reload(c) \/ Submit(c)
    \/ UpdateInvitation
    \/ Revoke
    \/ \E q \in Questions : SaveQuestion(q) \/ DeleteQuestion(q)

Spec == Init /\ [][Next]_vars

-----------------------------------------------------------------------------
(* Properties.                                                             *)

GuestsLoaded(c) == page[c].step \in {"questions", "answers", "open"}
AnswersLoaded(c) == page[c].step = "open"

\* LoadHousehold takes no snapshot, yet a page whose version is still the
\* current one shows exactly the additional guests, the attendance and the
\* answers on record: the version is read before them.
CurrentPageIsExact ==
    \A c \in Pages : page[c].step # "load" /\ page[c].version = version =>
        /\ GuestsLoaded(c) =>
               /\ page[c].additional = Active(additional)
               /\ \A g \in page[c].assigned \ removed :
                      g \in page[c].attending <=> g \in attending
        /\ AnswersLoaded(c) =>
               /\ page[c].invAnswers = invAnswers
               /\ \A g \in page[c].assigned \cup page[c].additional :
                      g \notin removed => page[c].guestAnswers[g] = guestAnswers[g]

\* "Assigned-guest removal is soft: response and answer history is not
\* physically destroyed" (docs/gate-5-product-maturation.md), and so for
\* additional guests: once removed, and in the step that removes them, a guest
\* keeps the attendance and the answers last given.
HistoryKept ==
    [][/\ removed \subseteq removed'
       /\ \A g \in removed' :
             /\ g \in attending' <=> g \in attending
             /\ guestAnswers'[g] = guestAnswers[g]]_vars

\* Every saved response fits the allowance in force, and answers every
\* required question for the household and for each attending guest, those
\* the form did not mention included.
SavedResponseIsComplete ==
    [][version' # version =>
           /\ Cardinality(Active(additional)') <= allowance
           /\ Required("invitation") \subseteq Given(invAnswers')
           /\ \A g \in (Active(assigned) \cup Active(additional))' \cap attending' :
                  Required("guest") \subseteq Given(guestAnswers'[g])]_vars

\* Nothing that the page shows has changed since it was loaded.
UpToDate(c) ==
    /\ page[c].step = "open"
    /\ page[c].version = version
    /\ page[c].allowance = allowance
    /\ page[c].assigned = Active(assigned)
    /\ page[c].invitationQuestions = LiveIn("invitation")
    /\ page[c].guestQuestions = LiveIn("guest")

\* A household can "update the response later through the household session or
\* email recovery" (README.md:119), and "additional guests can be created,
\* renamed, and removed only within their invitation's allowance"
\* (docs/gate-2-invitation-domain.md:17): a page that is up to date and sends
\* back what it loaded, with or without its additional guests, is not refused
\* for answers that it does not show.
RevisitAccepted ==
    \A c \in Pages : UpToDate(c) => \A keep \in SUBSET page[c].additional :
        LET f == Form(c, keep, {}, page[c].attending \cap (page[c].assigned \cup keep),
                      page[c].invAnswers, page[c].guestAnswers)
        IN ~InvalidQuestion(f) /\ ~UnknownAnswer(f)
=============================================================================
