------------------------ MODULE MCHouseholdResponse ------------------------
(* Instances of HouseholdResponse for TLC.                                 *)
EXTENDS HouseholdResponse, TLC

\* Guests, questions and pages are interchangeable.
Symmetry == Permutations(Guests) \cup Permutations(Questions) \cup Permutations(Pages)

\* A party of up to three guests that responds twice, as long as there are no
\* questions; with questions, two assigned guests and one response.  After the
\* last response only one page is still open.
Bound ==
    LET asked == \E q \in Questions : question[q] # None IN
    /\ asked => allowance = 0 /\ Cardinality(assigned \cup additional) <= 2 /\ version <= 2
    /\ version = (IF asked THEN 2 ELSE 3) =>
          Cardinality({c \in Pages : page[c].step # "load"}) <= 1
=============================================================================
