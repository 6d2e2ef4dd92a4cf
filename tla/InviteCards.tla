---------------------------- MODULE InviteCards ----------------------------
(***************************************************************************)
(* Invitation cards and their background images (internal/invite).         *)
(*                                                                         *)
(* A card is a row of the database, its image a file of the uploads        *)
(* directory: no transaction spans both.  An upload removes the files of   *)
(* the event and writes a new one, a save removes the file the old row     *)
(* named and writes the row.  Duplicating an event copies the card, so     *)
(* that two rows name one file.  A file is named after the event and the   *)
(* second of its upload.  Of a card only the image matters; colours, fonts *)
(* and texts are sanitized and stored with it.                             *)
(***************************************************************************)
EXTENDS Absence, Integers, FiniteSets

CONSTANTS
    Events,         \* identifiers of events, each used once
    First,          \* the event that exists at the start
    Requests,       \* requests of organizers that run at the same time
    Plain,          \* a card without an image of the uploads directory
    MaxClock        \* bound: seconds

\* fmt.Sprintf("%s_%d%s", eventID, time.Now().Unix(), ext).
File == [event : Events, second : 0..MaxClock]

Card == File \cup {Plain}

\* An upload or a save on its way.
Change ==
    [op : {"clean", "write", "replace", "upsert"}, event : Events, old : SUBSET File, image : Card]

ASSUME CardAssumption == MaxClock \in Nat /\ Plain \notin File /\ None \notin Card \cup Change

VARIABLES
    clock,
    card,           \* invite_cards: the image of the card of an event
    life,           \* of an event: new, live, deleted
    files,          \* the uploads directory
    offered,        \* the URL the last upload for an event returned
    request,        \* an upload or a save: event, files to remove, image to save
    excused         \* history: events that may show no image (see CardImageKept)

cardVars == <<clock, card, life, files, offered, request, excused>>

exists == {e \in Events : life[e] = "live"}

Free(r) == request[r] = None

Busy(e) == \E r \in Requests : ~Free(r) /\ request[r].event = e

CardInit ==
    /\ clock = 0
    /\ card = [e \in Events |-> None]
    /\ life = [e \in Events |-> IF e = First THEN "live" ELSE "new"]
    /\ files = {}
    /\ offered = [e \in Events |-> None]
    /\ request = [r \in Requests |-> None]
    /\ excused = {}

\* A request starts; requests that overlap on one event excuse it.
Begin(r, e, what) ==
    /\ Free(r) /\ e \in exists
    /\ request' = [request EXCEPT ![r] = what]
    /\ excused' = IF Busy(e) THEN excused \cup {e} ELSE excused

\* The images that the card of e names, or will once its save is through.
Named(e) == {card[e]} \cup {request[r].image : r \in {r \in Requests : ~Free(r) /\ request[r].event = e}}

\* os.Remove of fs: cards that name one of them show no image from now on,
\* except that the event asking for it is about to name another.
Remove(fs, asking) ==
    /\ files' = files \ fs
    /\ offered' = [e \in Events |-> IF offered[e] \in fs THEN None ELSE offered[e]]
    /\ excused' = excused \cup {e \in Events \ asking : Named(e) \cap fs \cap files # {}}

----------------------------------------------------------------------------
(* handleUploadImage *)

\* Accepted data (detectImageType); cleanupEventImages reads the directory.
UploadStart(r, e) ==
    /\ Begin(r, e, [op |-> "clean", event |-> e, old |-> {f \in files : f.event = e}, image |-> Plain])
    /\ UNCHANGED <<clock, card, life, files, offered>>

\* cleanupEventImages removes what it listed; a card that names one of the
\* files shows no image until it is saved again.
cleanupEventImages(r) ==
    /\ ~Free(r) /\ request[r].op = "clean"
    /\ Remove(request[r].old, {})
    /\ request' = [request EXCEPT ![r].op = "write"]
    /\ UNCHANGED <<clock, card, life>>

\* os.WriteFile, which may fail, and the URL in the answer.
UploadWrite(r) ==
    LET f == [event |-> request[r].event, second |-> clock] IN
    /\ ~Free(r) /\ request[r].op = "write"
    /\ \/ files' = files \cup {f} /\ offered' = [offered EXCEPT ![f.event] = f]
       \/ UNCHANGED <<files, offered>>
    /\ request' = [request EXCEPT ![r] = None]
    /\ UNCHANGED <<clock, card, life, excused>>

----------------------------------------------------------------------------
(* Service.Save *)

\* The image in the request: that of the last upload, the one of the card, none.
Choices(e) == {offered[e], card[e], Plain} \ {None}

\* cleanupOldImage reads the row.
SaveFind(r, e, image) ==
    /\ Begin(r, e, [op |-> "replace", event |-> e, old |-> {card[e]} \cap File, image |-> image])
    /\ UNCHANGED <<clock, card, life, files, offered>>

\* Mutant: the old image is removed even if the new card names it too.
cleanupOldImageAlways(r) ==
    /\ ~Free(r) /\ request[r].op = "replace"
    /\ Remove(request[r].old, {request[r].event})
    /\ request' = [request EXCEPT ![r].op = "upsert"]
    /\ UNCHANGED <<clock, card, life>>

\* cleanupOldImage removes the file the row named, also if it is of the event
\* the card was copied from and that event, or another copy, still shows it.
cleanupOldImage(r) ==
    /\ ~Free(r) /\ request[r].op = "replace"
    /\ Remove(request[r].old \ {request[r].image}, {request[r].event})
    /\ request' = [request EXCEPT ![r].op = "upsert"]
    /\ UNCHANGED <<clock, card, life>>

\* Upsert; on an error the row still names the file that is gone.
Upsert(r) ==
    LET e == request[r].event
        alone == \A q \in Requests \ {r} : Free(q) \/ request[q].event # e IN
    /\ ~Free(r) /\ request[r].op = "upsert"
    /\ \/ /\ e \in exists
          /\ card' = [card EXCEPT ![e] = request[r].image]
          /\ excused' = IF alone /\ request[r].image \in {Plain, offered[e]} THEN excused \ {e} ELSE excused
       \/ /\ excused' = excused \cup {e}
          /\ UNCHANGED card
    /\ request' = [request EXCEPT ![r] = None]
    /\ UNCHANGED <<clock, life, files, offered>>

----------------------------------------------------------------------------
(* Other parts that touch cards and files *)

\* Duplicate, and an occurrence of a series: the callback saves a copy of the
\* card for the new event.
Duplicate(source, e) ==
    /\ source \in exists /\ life[e] = "new"
    /\ life' = [life EXCEPT ![e] = "live"]
    /\ card' = [card EXCEPT ![e] = card[source]]
    /\ excused' = IF source \in excused \/ Busy(source) THEN excused \cup {e} ELSE excused
    /\ UNCHANGED <<clock, files, offered, request>>

\* The clean-up removes the files of an event and deletes it (its card goes
\* with the row); if the transaction fails the event stays without its files.
onDeleteEvent(e) ==
    /\ e \in exists
    /\ LET fs == {f \in files : f.event = e} IN
       \/ /\ life' = [life EXCEPT ![e] = "deleted"]
          /\ card' = [card EXCEPT ![e] = None]
          /\ Remove(fs, {e})
       \/ /\ Remove(fs, {})
          /\ UNCHANGED <<life, card>>
    /\ UNCHANGED <<clock, request>>

Tick ==
    /\ clock < MaxClock
    /\ clock' = clock + 1
    /\ UNCHANGED <<card, life, files, offered, request, excused>>

\* The process stops in the middle of its requests.
Stop ==
    /\ \E r \in Requests : ~Free(r)
    /\ request' = [r \in Requests |-> None]
    /\ excused' = excused \cup {e \in Events : Busy(e)}
    /\ UNCHANGED <<clock, card, life, files, offered>>

CardNext ==
    \/ \E r \in Requests, e \in Events :
        UploadStart(r, e) \/ (\E image \in Choices(e) : SaveFind(r, e, image))
    \/ \E r \in Requests : cleanupEventImages(r) \/ UploadWrite(r) \/ cleanupOldImage(r) \/ Upsert(r)
    \/ \E source, e \in Events : Duplicate(source, e)
    \/ \E e \in Events : onDeleteEvent(e)
    \/ Tick
    \/ Stop

----------------------------------------------------------------------------
\* A saved card shows its image: the file the last upload for the event wrote
\* stays while the card names it, until the next upload or clean-up for the
\* event, a change to an event that shares the file, or requests for the event
\* that overlap, fail or are cut off.  Saving the card again never removes it.
CardImageKept ==
    \A e \in exists \ excused : ~Busy(e) /\ card[e] \in File => card[e] \in files
=============================================================================
