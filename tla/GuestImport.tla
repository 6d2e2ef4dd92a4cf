---------------------------- MODULE GuestImport ----------------------------
(***************************************************************************)
(* The import of households from a CSV file (invitation/csv.go): the       *)
(* preview groups rows by household key and collects what is wrong with    *)
(* them, the commit validates the households it is sent and creates one    *)
(* invitation for each, all or none (CreatePrivate of InvitationAccess).   *)
(*                                                                         *)
(* A record is a key, the fields all rows of a household share (label,     *)
(* contact, delivery, allowance: one profile, or a profile that is not     *)
(* valid), and a guest.  "" is a blank field.  A record may also be        *)
(* malformed, so that the parser cannot read it, or short: not of the      *)
(* width of the header.                                                    *)
(***************************************************************************)
EXTENDS Integers, Sequences, FiniteSets

CONSTANTS MaxImportRows, MaxImportHouseholds, MaxHouseholdGuests,
          Records       \* the records that a file may hold

ASSUME ImportAssumption ==
    /\ {MaxImportRows, MaxImportHouseholds, MaxHouseholdGuests} \subseteq Nat \ {0}
    /\ Records \subseteq [shape : {"row", "malformed", "short"}, key : STRING,
                          profile : STRING, guest : STRING]

VARIABLES
    file,     \* the records of the file that were read
    preview   \* households in the order of their first rows, whether nothing is
              \* wrong, and whether the file is still read

import == <<file, preview>>

\* validateImportRow
validateImportRow(row) == row.key # "" /\ row.guest # "" /\ row.profile # "invalid"

emptyImportPreview == [households |-> <<>>, clean |-> TRUE, reading |-> TRUE]

Wrong == [preview EXCEPT !.clean = FALSE]

\* Mutant: a household more than the commit takes.
AddRowLoose(row) ==
    LET at == {i \in 1..Len(preview.households) : preview.households[i].key = row.key} IN
    IF at = {}
    THEN IF Len(preview.households) > MaxImportHouseholds
         THEN Wrong
         ELSE [preview EXCEPT !.households =
                  Append(@, [key |-> row.key, profile |-> row.profile, guests |-> <<row.guest>>])]
    ELSE LET i == CHOOSE i \in at : TRUE
             h == preview.households[i]
         IN  IF h.profile # row.profile \/ Len(h.guests) >= MaxHouseholdGuests
             THEN Wrong
             ELSE [preview EXCEPT !.households[i].guests = Append(@, row.guest)]

\* A valid row starts a household or, unless it conflicts with the rows before
\* or the household is full, adds its guest.
AddRow(row) ==
    LET at == {i \in 1..Len(preview.households) : preview.households[i].key = row.key} IN
    IF at = {}
    THEN IF Len(preview.households) >= MaxImportHouseholds
         THEN Wrong
         ELSE [preview EXCEPT !.households =
                  Append(@, [key |-> row.key, profile |-> row.profile, guests |-> <<row.guest>>])]
    ELSE LET i == CHOOSE i \in at : TRUE
             h == preview.households[i]
         IN  IF h.profile # row.profile \/ Len(h.guests) >= MaxHouseholdGuests
             THEN Wrong
             ELSE [preview EXCEPT !.households[i].guests = Append(@, row.guest)]

ImportInit == file = <<>> /\ preview = emptyImportPreview

\* One turn of the loop of PreviewImportCSV.  The file may end after any record.
ReadRecord(record) ==
    /\ preview.reading
    /\ file' = Append(file, record)
    /\ preview' = IF record.shape = "malformed" \/ Len(file) + 1 > MaxImportRows
                  THEN [Wrong EXCEPT !.reading = FALSE]
                  ELSE IF record.shape = "short" \/ ~validateImportRow(record)
                       THEN Wrong
                       ELSE AddRow(record)

ImportNext == \E record \in Records : ReadRecord(record)

ImportSpec == ImportInit /\ [][ImportNext]_import

\* The guests of households, by household and place.
Assigned(households) ==
    UNION {{i} \X (1..Len(households[i].guests)) : i \in 1..Len(households)}

\* validateImportCommit
validateImportCommit(households) ==
    /\ households # <<>>
    /\ Len(households) <= MaxImportHouseholds
    /\ \A i, j \in 1..Len(households) : households[i].key = households[j].key => i = j
    /\ \A i \in 1..Len(households) :
          /\ households[i].key # "" /\ households[i].profile # "invalid"
          /\ Len(households[i].guests) \in 1..MaxHouseholdGuests
          /\ \A g \in 1..Len(households[i].guests) : households[i].guests[g] # ""
    /\ Cardinality(Assigned(households)) <= MaxImportRows

----------------------------------------------------------------------------
\* The rows with the key of row n, up to row m.
Alike(n, m) == {k \in 1..m : file[k].key = file[n].key}

\* What a file must be for an import of it to be right, said of all its rows
\* at once.
WellFormed ==
    /\ Len(file) <= MaxImportRows
    /\ \A n \in 1..Len(file) : file[n].shape = "row" /\ validateImportRow(file[n])
    /\ Cardinality({file[n].key : n \in 1..Len(file)}) <= MaxImportHouseholds
    /\ \A n \in 1..Len(file) :
          /\ Cardinality(Alike(n, Len(file))) <= MaxHouseholdGuests
          /\ \A m \in Alike(n, Len(file)) : file[m].profile = file[n].profile

\* The preview of a file is clean exactly when the file is well formed; the
\* households of a clean preview are accepted by the commit, whose checks are
\* written apart from the preview's, and hold every row's guest once, in the
\* household of its key, in the order of the file.
CleanPreviewCommits ==
    /\ preview.clean <=> WellFormed
    /\ preview.clean /\ file # <<>> =>
          /\ validateImportCommit(preview.households)
          /\ Cardinality(Assigned(preview.households)) = Len(file)
          /\ \A n \in 1..Len(file) :
                \E i \in 1..Len(preview.households) :
                    LET h == preview.households[i] IN
                    /\ h.key = file[n].key /\ h.profile = file[n].profile
                    /\ Cardinality(Alike(n, n)) \in 1..Len(h.guests)
                    /\ h.guests[Cardinality(Alike(n, n))] = file[n].guest
=============================================================================
