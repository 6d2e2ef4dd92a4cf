--------------------------- MODULE StorageProofs ----------------------------
(***************************************************************************)
(* What is stored: card images (InviteCards) and the bundles made of them  *)
(* (Backup), for any number of events, files, requests and restores.       *)
(***************************************************************************)
EXTENDS Backup, TLAPS

----------------------------------------------------------------------------
(* Cards and their images *)

CardTypes ==
    /\ clock \in 0..MaxClock
    /\ card \in [Events -> Card \cup {None}]
    /\ life \in [Events -> {"new", "live", "deleted"}]
    /\ files \subseteq File
    /\ offered \in [Events -> File \cup {None}]
    /\ request \in [Requests -> Change \cup {None}]
    /\ excused \subseteq Events

\* A request for an event is on its way.
On(r, e) == request[r] # None /\ request[r].event = e

Shown(image) == image \in File => image \in files

\* CardImageKept is not inductive.  An event that is not excused has at most one
\* request on its way; its card shows its image until the request has removed
\* it, and what the request is about to save is there by then.
Kept(e) ==
    e \in exists \ excused =>
        /\ \A r, q \in Requests : On(r, e) /\ On(q, e) => r = q
        /\ (\A r \in Requests : On(r, e) => request[r].op # "upsert") => Shown(card[e])
        /\ \A r \in Requests : On(r, e) /\ request[r].op \in {"replace", "upsert"} => Shown(request[r].image)

CardInv ==
    /\ CardTypes
    /\ \A e \in Events :
        /\ offered[e] \in files \cup {None}
        /\ life[e] = "new" => \A r \in Requests : ~On(r, e)
        /\ Kept(e)

\* No file, no card.
LEMMA CardsStart == CardInit => CardInv
<1> SUFFICES ASSUME CardInit PROVE CardInv
  OBVIOUS
<1>1. CardTypes
  BY CardAssumption DEF CardInit, CardTypes
<1>2. ASSUME NEW e \in Events PROVE Kept(e) /\ offered[e] = None /\ \A r \in Requests : ~On(r, e)
  BY CardAssumption DEF CardInit, Kept, On, Shown, Card
<1> QED
  BY <1>1, <1>2 DEF CardInv

\* What the card of an event and its requests name.
LEMMA NamedHolds ==
    ASSUME CardInv, NEW e \in Events
    PROVE  card[e] \in Named(e) /\ \A r \in Requests : On(r, e) => request[r].image \in Named(e)
BY DEF Named, On, Free

\* Files are removed: what an event names and shows stays, unless it asked for it
\* or is excused.
Removed(fs, asking) ==
    /\ files' \subseteq File /\ files' = files \ fs
    /\ offered' \in [Events -> File \cup {None}]
    /\ \A e \in Events : offered'[e] \in files' \cup {None}
    /\ excused \subseteq excused' /\ excused' \subseteq Events
    /\ \A e \in Events : e \notin excused' /\ e \notin asking =>
        /\ card[e] \in files => card[e] \in files'
        /\ \A r \in Requests : On(r, e) /\ request[r].image \in files => request[r].image \in files'

\* os.Remove of files of the uploads directory.
LEMMA RemoveKeeps ==
    ASSUME CardInv, NEW fs, fs \subseteq File, NEW asking, Remove(fs, asking)
    PROVE  Removed(fs, asking)
<1>1. files' = files \ fs
  BY DEF Remove
<1>2. \A e \in Events : offered'[e] = IF offered[e] \in fs THEN None ELSE offered[e]
  BY DEF Remove
<1>3. offered' \in [Events -> File \cup {None}]
  BY DEF Remove, CardInv, CardTypes
<1>4. excused' = excused \cup {e \in Events \ asking : Named(e) \cap fs \cap files # {}}
  BY DEF Remove
<1>5. ASSUME NEW e \in Events \ excused', e \notin asking
      PROVE  /\ card[e] \in files => card[e] \in files'
             /\ \A r \in Requests : On(r, e) /\ request[r].image \in files => request[r].image \in files'
  <2>1. Named(e) \cap fs \cap files = {}
    BY <1>4, <1>5
  <2> QED
    BY <1>1, <1>5, <2>1, NamedHolds
<1> QED
  BY <1>1, <1>2, <1>3, <1>4, <1>5 DEF CardInv, CardTypes, Removed

\* A request starts on an event: alone, or the event is excused.
LEMMA BeginKeeps ==
    ASSUME CardInv, NEW r \in Requests, NEW e \in Events, NEW what \in Change, Begin(r, e, what),
           what.event = e, what.op \in {"clean", "replace"},
           what.image \in {offered[e], card[e], Plain},
           UNCHANGED <<clock, card, life, files, offered>>
    PROVE  CardInv'
<1>1. /\ request[r] = None /\ life[e] = "live"
      /\ request' = [request EXCEPT ![r] = what]
      /\ excused' = IF Busy(e) THEN excused \cup {e} ELSE excused
  BY DEF Begin, Free, exists
<1>2. CardTypes' /\ what # None
  BY <1>1, CardAssumption DEF CardInv, CardTypes
<1>3. request'[r] = what /\ \A q \in Requests \ {r} : request'[q] = request[q]
  BY <1>1 DEF CardInv, CardTypes
<1>4. exists' = exists
  BY DEF exists
<1>5. Kept(e)'
  <2> SUFFICES ASSUME e \in exists \ excused' PROVE Kept(e)'
    BY <1>4 DEF Kept
  <2>1. e \notin excused /\ \A q \in Requests : ~On(q, e)
    BY <1>1 DEF Busy, On, Free
  <2>2. Shown(card[e]) /\ Shown(what.image)
    <3>1. Shown(card[e])
      BY <2>1 DEF CardInv, Kept, On, exists
    <3>2. what.image # None
      BY CardAssumption DEF Change
    <3>3. Shown(offered[e]) \/ offered[e] = None
      BY DEF CardInv, Shown
    <3> QED
      BY <3>1, <3>2, <3>3, CardAssumption DEF Shown
  <2>3. \A q \in Requests : On(q, e)' => q = r
    BY <1>3, <2>1 DEF On
  <2> QED
    BY <1>3, <2>2, <2>3 DEF Kept, Shown
<1>6. ASSUME NEW d \in Events \ {e} PROVE Kept(d)'
  <2>1. \A q \in Requests : /\ On(q, d)' <=> On(q, d)
                            /\ On(q, d) => request'[q] = request[q]
    BY <1>1, <1>2, <1>3 DEF On
  <2>2. d \in excused' <=> d \in excused
    BY <1>1
  <2> QED
    BY <1>4, <2>1, <2>2 DEF CardInv, Kept, Shown
<1>7. \A d \in Events : life'[d] = "new" => \A q \in Requests : ~On(q, d)'
  BY <1>1, <1>2, <1>3 DEF CardInv, On
<1> QED
  BY <1>2, <1>5, <1>6, <1>7 DEF CardInv

\* cleanupEventImages: who names a file that goes is excused.
LEMMA CleanupEventImagesKeeps ==
    ASSUME CardInv, NEW r \in Requests, cleanupEventImages(r)
    PROVE  CardInv'
<1> DEFINE w == [request[r] EXCEPT !.op = "write"]
<1>1. /\ request[r] # None /\ request[r] \in Change /\ request[r].op = "clean"
      /\ Remove(request[r].old, {}) /\ UNCHANGED <<clock, card, life>>
      /\ request' = [request EXCEPT ![r] = w]
  BY DEF cleanupEventImages, Free, CardInv, CardTypes
<1>2. w \in Change /\ w # None /\ w.event = request[r].event /\ w.op = "write"
  BY <1>1, CardAssumption DEF Change
<1> HIDE DEF w
<1>3. Removed(request[r].old, {})
  <2>1. request[r].old \subseteq File
    BY <1>1 DEF Change
  <2> QED
    BY <1>1, <2>1, RemoveKeeps
<1>4. request' \in [Requests -> Change \cup {None}] /\ request'[r] = w
      /\ \A q \in Requests \ {r} : request'[q] = request[q]
  BY <1>1, <1>2 DEF CardInv, CardTypes
<1>5. CardTypes' /\ \A e \in Events : offered'[e] \in files' \cup {None}
  BY <1>1, <1>3, <1>4 DEF CardInv, CardTypes, Removed
<1>6. \A q \in Requests, e \in Events : On(q, e)' <=> On(q, e)
  BY <1>1, <1>2, <1>4 DEF On
<1>7. ASSUME NEW e \in Events PROVE Kept(e)'
  <2> SUFFICES ASSUME e \in exists', e \notin excused' PROVE Kept(e)'
    BY DEF Kept
  <2>1. e \in exists \ excused
    BY <1>1, <1>3 DEF exists, Removed
  <2>2. /\ card[e] \in files => card[e] \in files'
        /\ \A q \in Requests : On(q, e) /\ request[q].image \in files => request[q].image \in files'
    BY <1>3 DEF Removed
  <2>3. Kept(e)
    BY DEF CardInv
  <2>4. ASSUME \A q \in Requests : On(q, e)' => request'[q].op # "upsert" PROVE Shown(card[e])'
    <3>1. \A q \in Requests : On(q, e) => request[q].op # "upsert"
      BY <1>1, <1>4, <1>6, <2>4
    <3> QED
      BY <1>1, <2>1, <2>2, <2>3, <3>1 DEF Kept, Shown
  <2>5. ASSUME NEW q \in Requests, On(q, e)', request'[q].op \in {"replace", "upsert"}
        PROVE  Shown(request[q].image)'
    <3>1. q # r /\ request'[q] = request[q] /\ On(q, e)
      BY <1>2, <1>4, <1>6, <2>5
    <3> QED
      BY <2>1, <2>2, <2>3, <2>5, <3>1 DEF Kept, Shown
  <2> QED
    BY <1>6, <2>1, <2>3, <2>4, <2>5 DEF Kept
<1> QED
  BY <1>1, <1>5, <1>6, <1>7 DEF CardInv

\* A file more hides no image.
LEMMA UploadWriteKeeps ==
    ASSUME CardInv, NEW r \in Requests, UploadWrite(r)
    PROVE  CardInv'
<1> DEFINE f == [event |-> request[r].event, second |-> clock]
<1>1. /\ request[r] # None /\ request[r] \in Change /\ request[r].op = "write"
      /\ UNCHANGED <<clock, card, life, excused>>
      /\ request' = [request EXCEPT ![r] = None]
  BY DEF UploadWrite, Free, CardInv, CardTypes
<1>2. f \in File /\ f.event = request[r].event /\ f.event \in Events
  BY <1>1 DEF Change, File, CardInv, CardTypes
<1>3. \/ files' = files \cup {f} /\ offered' = [offered EXCEPT ![f.event] = f]
      \/ UNCHANGED <<files, offered>>
  BY DEF UploadWrite
<1> HIDE DEF f
<1>4. /\ request' \in [Requests -> Change \cup {None}] /\ request'[r] = None
      /\ \A q \in Requests \ {r} : request'[q] = request[q]
  BY <1>1 DEF CardInv, CardTypes
<1>5. CardTypes'
  BY <1>1, <1>2, <1>3, <1>4 DEF CardInv, CardTypes
<1>6. \A e \in Events : offered'[e] \in files' \cup {None}
  BY <1>2, <1>3 DEF CardInv, CardTypes
<1>7. \A q \in Requests, e \in Events : On(q, e)' => On(q, e) /\ request'[q] = request[q]
  BY <1>4 DEF On
<1>8. ASSUME NEW e \in Events PROVE Kept(e)'
  <2> SUFFICES ASSUME e \in exists \ excused PROVE Kept(e)'
    BY <1>1 DEF Kept, exists
  <2>1. Kept(e)
    BY DEF CardInv
  <2>2. files \subseteq files'
    BY <1>3
  <2>3. ASSUME \A q \in Requests : On(q, e)' => request'[q].op # "upsert" PROVE Shown(card[e])'
    <3>1. \A q \in Requests : On(q, e) => request[q].op # "upsert"
      BY <1>1, <1>4, <2>3 DEF On
    <3> QED
      BY <1>1, <2>1, <2>2, <3>1 DEF Kept, Shown
  <2> QED
    BY <1>7, <2>1, <2>2, <2>3 DEF Kept, Shown
<1> QED
  BY <1>1, <1>5, <1>6, <1>7, <1>8 DEF CardInv

\* cleanupOldImage: the image about to be saved stays, and who else names the
\* file that goes is excused.
LEMMA CleanupOldImageKeeps ==
    ASSUME CardInv, NEW r \in Requests, cleanupOldImage(r)
    PROVE  CardInv'
<1> DEFINE w == [request[r] EXCEPT !.op = "upsert"]
           fs == request[r].old \ {request[r].image}
           e == request[r].event
<1>1. /\ request[r] # None /\ request[r] \in Change /\ request[r].op = "replace"
      /\ Remove(fs, {e}) /\ UNCHANGED <<clock, card, life>>
      /\ request' = [request EXCEPT ![r] = w]
  BY DEF cleanupOldImage, Free, CardInv, CardTypes
<1>2. w \in Change /\ w # None /\ w.event = e /\ w.op = "upsert" /\ w.image = request[r].image
  BY <1>1, CardAssumption DEF Change
<1>3. Removed(fs, {e})
  <2>1. fs \subseteq File
    BY <1>1 DEF Change
  <2> QED
    BY <1>1, <2>1, RemoveKeeps
<1>4. request[r].image \in files => request[r].image \in files'
  BY <1>3 DEF Removed
<1> HIDE DEF w, fs
<1>5. request' \in [Requests -> Change \cup {None}] /\ request'[r] = w
      /\ \A q \in Requests \ {r} : request'[q] = request[q]
  BY <1>1, <1>2 DEF CardInv, CardTypes
<1>6. CardTypes' /\ \A d \in Events : offered'[d] \in files' \cup {None}
  BY <1>1, <1>3, <1>5 DEF CardInv, CardTypes, Removed
<1>7. \A q \in Requests, d \in Events : On(q, d)' <=> On(q, d)
  BY <1>1, <1>2, <1>5 DEF On
<1>8. ASSUME NEW d \in Events PROVE Kept(d)'
  <2> SUFFICES ASSUME d \in exists', d \notin excused' PROVE Kept(d)'
    BY SMTT(30) DEF Kept
  <2>1. d \in exists \ excused /\ Kept(d)
    BY <1>1, <1>3 DEF exists, Removed, CardInv
  <2>2. \A q, p \in Requests : On(q, d)' /\ On(p, d)' => q = p
    BY <1>7, <2>1 DEF Kept
  <2>3. CASE d = e
    <3>1. On(r, d)' /\ On(r, d) /\ request'[r].op = "upsert" /\ request'[r].image = request[r].image
      BY <1>1, <1>2, <1>5, <1>7, <2>3, SMTT(30) DEF On
    <3>2. Shown(request[r].image)'
      BY <1>1, <1>2, <1>4, <1>5, <2>1, <3>1 DEF Kept, Shown
    <3> QED
      BY <2>2, <3>1, <3>2 DEF Kept
  <2>4. CASE d # e
    <3>1. /\ card[d] \in files => card[d] \in files'
          /\ \A q \in Requests : On(q, d) /\ request[q].image \in files => request[q].image \in files'
      BY <1>3, <2>4 DEF Removed
    <3>2. \A q \in Requests : On(q, d) => request'[q] = request[q]
      BY <1>5, <2>4 DEF On
    <3> QED
      BY <1>1, <1>7, <2>1, <2>2, <3>1, <3>2, Zenon DEF Kept, Shown
  <2> QED
    BY <2>3, <2>4
<1> QED
  BY <1>1, <1>6, <1>7, <1>8 DEF CardInv

\* The card that is saved shows its image, or its event is excused.
LEMMA UpsertKeeps ==
    ASSUME CardInv, NEW r \in Requests, Upsert(r)
    PROVE  CardInv'
<1>1. /\ request[r] # None /\ request[r] \in Change /\ request[r].op = "upsert"
      /\ UNCHANGED <<clock, life, files, offered>>
      /\ request' = [request EXCEPT ![r] = None]
  BY DEF Upsert, Free, CardInv, CardTypes
<1>2. PICK e \in Events, image \in Card : e = request[r].event /\ image = request[r].image
  BY <1>1 DEF Change
<1> DEFINE alone == \A q \in Requests \ {r} : Free(q) \/ request[q].event # e
<1>3. /\ request' \in [Requests -> Change \cup {None}] /\ request'[r] = None
      /\ \A q \in Requests \ {r} : request'[q] = request[q]
  BY <1>1 DEF CardInv, CardTypes
<1>4. \/ /\ card' = [card EXCEPT ![e] = image]
         /\ excused' = IF alone /\ image \in {Plain, offered[e]} THEN excused \ {e} ELSE excused
      \/ card' = card /\ excused' = excused \cup {e}
  BY <1>2 DEF Upsert
<1>5. CardTypes'
  BY <1>1, <1>2, <1>3, <1>4 DEF CardInv, CardTypes
<1>6. \A q \in Requests, d \in Events : On(q, d)' <=> On(q, d) /\ q # r
  BY <1>3 DEF On
<1>7. On(r, e)
  BY <1>1, <1>2 DEF On
<1>8. alone <=> \A q \in Requests \ {r} : ~On(q, e)
  BY DEF On, Free
<1> HIDE DEF alone
<1>9. Kept(e)'
  <2> SUFFICES ASSUME e \in exists', e \notin excused' PROVE Kept(e)'
    BY DEF Kept
  <2>1. e \in exists /\ card'[e] = image
    BY <1>1, <1>2, <1>4 DEF exists, CardInv, CardTypes
  <2>2. CASE e \notin excused
    <3>1. Shown(image) /\ \A q \in Requests : On(q, e) => q = r
      BY <1>1, <1>2, <1>7, <2>1, <2>2 DEF CardInv, Kept
    <3> QED
      BY <1>1, <1>6, <2>1, <3>1 DEF Kept, Shown
  <2>3. CASE e \in excused
    <3>1. alone /\ image \in {Plain, offered[e]}
      BY <1>4, <2>3
    <3>2. Shown(image)
      BY <1>2, <3>1, CardAssumption DEF Shown, CardInv
    <3> QED
      BY <1>1, <1>6, <1>8, <2>1, <3>1, <3>2 DEF Kept, Shown
  <2> QED
    BY <2>2, <2>3
<1>10. ASSUME NEW d \in Events \ {e} PROVE Kept(d)'
  <2>1. \A q \in Requests : (On(q, d)' <=> On(q, d)) /\ (On(q, d) => request'[q] = request[q])
    BY <1>2, <1>3, <1>6 DEF On
  <2>2. card'[d] = card[d] /\ (d \in excused' <=> d \in excused) /\ exists' = exists
    BY <1>1, <1>2, <1>4, Zenon DEF CardInv, CardTypes, exists
  <2> QED
    BY <1>1, <2>1, <2>2 DEF CardInv, Kept, Shown
<1> QED
  BY <1>1, <1>2, <1>5, <1>6, <1>9, <1>10 DEF CardInv

\* A copy shows what its source shows, or is excused with it.
LEMMA DuplicateKeeps ==
    ASSUME CardInv, NEW source \in Events, NEW e \in Events, Duplicate(source, e)
    PROVE  CardInv'
<1>1. /\ source \in exists /\ life[e] = "new" /\ source # e
      /\ life' = [life EXCEPT ![e] = "live"] /\ card' = [card EXCEPT ![e] = card[source]]
      /\ excused' = IF source \in excused \/ Busy(source) THEN excused \cup {e} ELSE excused
      /\ UNCHANGED <<clock, files, offered, request>>
  BY DEF Duplicate, exists
<1>2. CardTypes'
  BY <1>1 DEF CardInv, CardTypes
<1>3. /\ card'[e] = card[source] /\ \A q \in Requests : ~On(q, e)
      /\ \A d \in Events \ {e} : card'[d] = card[d] /\ life'[d] = life[d]
  BY <1>1 DEF CardInv, CardTypes
<1>4. Kept(e)'
  <2> SUFFICES ASSUME e \notin excused' PROVE Kept(e)'
    BY DEF Kept
  <2>1. source \in exists \ excused /\ \A q \in Requests : ~On(q, source)
    BY <1>1 DEF Busy, On, Free
  <2>2. Shown(card[source])
    BY <2>1 DEF CardInv, Kept
  <2> QED
    BY <1>1, <1>3, <2>2 DEF Kept, Shown, On
<1>5. ASSUME NEW d \in Events \ {e} PROVE Kept(d)'
  <2>1. (d \in exists' <=> d \in exists) /\ (d \in excused' <=> d \in excused)
    BY <1>1, <1>3 DEF exists
  <2>2. Kept(d)
    BY DEF CardInv
  <2> QED
    BY <1>1, <1>3, <2>1, <2>2 DEF Kept, Shown, On
<1>6. \A d \in Events : life'[d] = "new" => \A q \in Requests : ~On(q, d)'
  BY <1>1, <1>3 DEF CardInv, On
<1> QED
  BY <1>1, <1>2, <1>4, <1>5, <1>6 DEF CardInv

\* The clean-up of an event: who shares its files is excused.
LEMMA OnDeleteEventKeeps ==
    ASSUME CardInv, NEW e \in Events, onDeleteEvent(e)
    PROVE  CardInv'
<1> DEFINE fs == {f \in files : f.event = e}
<1>1. UNCHANGED <<clock, request>> /\ e \in exists
  BY DEF onDeleteEvent
<1>2. PICK asking \in {{}, {e}} :
        /\ Remove(fs, asking)
        /\ \/ /\ asking = {e} /\ life' = [life EXCEPT ![e] = "deleted"]
              /\ card' = [card EXCEPT ![e] = None]
           \/ asking = {} /\ UNCHANGED <<life, card>>
  BY DEF onDeleteEvent
<1>3. Removed(fs, asking)
  BY <1>2, RemoveKeeps DEF CardInv, CardTypes
<1> HIDE DEF fs
<1>4. CardTypes' /\ \A d \in Events : offered'[d] \in files' \cup {None}
  BY <1>1, <1>2, <1>3, Zenon DEF CardInv, CardTypes, Removed
<1>5. ASSUME NEW d \in Events PROVE Kept(d)'
  <2> SUFFICES ASSUME d \in exists', d \notin excused' PROVE Kept(d)'
    BY DEF Kept
  <2>1. d \notin asking /\ card'[d] = card[d] /\ d \in exists \ excused
    BY <1>2, <1>3, Zenon DEF CardInv, CardTypes, exists, Removed
  <2>2. Kept(d)
    BY DEF CardInv
  <2>3. /\ card[d] \in files => card[d] \in files'
        /\ \A q \in Requests : On(q, d) /\ request[q].image \in files => request[q].image \in files'
    BY <1>3, <2>1 DEF Removed
  <2> QED
    BY <1>1, <2>1, <2>2, <2>3 DEF Kept, Shown, On
<1>6. \A d \in Events : life'[d] = "new" => \A q \in Requests : ~On(q, d)'
  BY <1>1, <1>2, SMTT(30) DEF CardInv, CardTypes, On
<1> QED
  BY <1>4, <1>5, <1>6 DEF CardInv

\* A stop excuses the events whose requests it cuts off.
LEMMA StopKeeps == CardInv /\ Stop => CardInv'
<1> SUFFICES ASSUME CardInv, Stop PROVE CardInv'
  OBVIOUS
<1>1. /\ request' = [r \in Requests |-> None]
      /\ excused' = excused \cup {e \in Events : Busy(e)}
      /\ UNCHANGED <<clock, card, life, files, offered>>
  BY DEF Stop
<1>2. CardTypes' /\ \A r \in Requests, e \in Events : ~On(r, e)'
  BY <1>1 DEF CardInv, CardTypes, On
<1>3. ASSUME NEW e \in Events PROVE Kept(e)'
  <2> SUFFICES ASSUME e \in exists', e \notin excused' PROVE Kept(e)'
    BY DEF Kept
  <2>1. e \in exists \ excused /\ \A r \in Requests : ~On(r, e)
    BY <1>1 DEF exists, Busy, On, Free
  <2>2. Shown(card[e])
    BY <2>1 DEF CardInv, Kept
  <2> QED
    BY <1>1, <1>2, <2>2, SMTT(30) DEF Kept, Shown
<1> QED
  BY <1>1, <1>2, <1>3 DEF CardInv

\* Every step of the installation keeps the cards.
LEMMA CardStep == CardInv /\ [CardNext]_cardVars => CardInv'
<1> SUFFICES ASSUME CardInv, [CardNext]_cardVars PROVE CardInv'
  OBVIOUS
<1>1. ASSUME NEW r \in Requests, NEW e \in Events, UploadStart(r, e) PROVE CardInv'
  <2> DEFINE what == [op |-> "clean", event |-> e, old |-> {f \in files : f.event = e}, image |-> Plain]
  <2>1. what \in Change
    BY DEF Change, Card, CardInv, CardTypes
  <2>2. Begin(r, e, what) /\ UNCHANGED <<clock, card, life, files, offered>>
    BY <1>1 DEF UploadStart
  <2>3. what.event = e /\ what.op = "clean" /\ what.image = Plain
    OBVIOUS
  <2> HIDE DEF what
  <2> QED
    BY <2>1, <2>2, <2>3, BeginKeeps, Zenon
<1>2. ASSUME NEW r \in Requests, NEW e \in Events, NEW image \in Choices(e), SaveFind(r, e, image) PROVE CardInv'
  <2> DEFINE what == [op |-> "replace", event |-> e, old |-> {card[e]} \cap File, image |-> image]
  <2>1. image \in Card /\ image \in {offered[e], card[e], Plain}
    BY DEF Choices, Card, CardInv, CardTypes
  <2>2. what \in Change
    BY <2>1, Zenon DEF Change
  <2>3. Begin(r, e, what) /\ UNCHANGED <<clock, card, life, files, offered>>
    BY <1>2 DEF SaveFind
  <2>4. what.event = e /\ what.op = "replace" /\ what.image = image
    OBVIOUS
  <2> HIDE DEF what
  <2> QED
    BY <2>1, <2>2, <2>3, <2>4, BeginKeeps
<1>3. CASE Tick \/ UNCHANGED cardVars
  <2>1. UNCHANGED <<card, life, files, offered, request, excused>> /\ clock' \in 0..MaxClock
    BY <1>3, CardAssumption DEF Tick, cardVars, CardInv, CardTypes
  <2> QED
    BY <2>1 DEF CardInv, CardTypes, Kept, Shown, On, exists
<1> QED
  BY <1>1, <1>2, <1>3, CleanupEventImagesKeeps, UploadWriteKeeps, CleanupOldImageKeeps, UpsertKeeps,
     DuplicateKeeps, OnDeleteEventKeeps, StopKeeps DEF CardNext

\* With no request on its way for it, an event shows what its card names.
LEMMA CardShows == CardInv => CardImageKept
<1> SUFFICES ASSUME CardInv, NEW e \in exists \ excused, ~Busy(e), card[e] \in File PROVE card[e] \in files
  BY DEF CardImageKept
<1>1. e \in Events /\ \A r \in Requests : ~On(r, e)
  BY DEF Busy, On, Free, exists
<1>2. Kept(e)
  BY <1>1 DEF CardInv
<1> QED
  BY <1>1, <1>2 DEF Kept, Shown

----------------------------------------------------------------------------
(* Backup and restore *)

BackupTypes ==
    /\ backup \in Copying \cup {None}
    /\ bundle \in Bundle \cup {None}
    /\ restore \in [Restorers -> Restoring \cup {None}]
    /\ target \in [db : Database \cup {None}, uploads : (SUBSET File) \cup {None}]

\* BundleIsComplete is not inductive: while nothing changes the uploads, what is
\* copied and what is left to copy are the files of the snapshot.
CopyInv ==
    /\ bundle # None => backup = None
    /\ backup # None /\ ~backup.disturbed =>
        /\ backup.before = files
        /\ backup.pc = "list" => backup.uploads = {}
        /\ backup.pc = "copy" => backup.uploads \cup backup.todo = backup.before
    /\ BundleIsComplete

\* RestoreAllOrNothing is not inductive: without a stop or an overlap there is
\* one restore on its way; it has staged what the manifest says, and the
\* destination holds what it has renamed so far.
AtWork(r) ==
    restore[r] # None =>
        /\ bundle # None /\ restored = {}
        /\ restore[r].db = bundle.manifest.db /\ restore[r].uploads = bundle.manifest.uploads
        /\ target.uploads = None
        /\ target.db = IF restore[r].pc = "uploads" THEN bundle.manifest.db ELSE None
        /\ \A q \in Restorers : restore[q] # None => q = r

RestoreInv ==
    cut \/ /\ \A r \in Restorers : AtWork(r)
           /\ restored # {} =>
                bundle # None /\ target = [db |-> bundle.manifest.db, uploads |-> bundle.manifest.uploads]
           /\ (\A r \in Restorers : restore[r] = None) => (target.db = None <=> target.uploads = None)

BackupInv == BackupTypes /\ CopyInv /\ RestoreInv

\* No backup, no bundle, an empty destination.
LEMMA BackupStarts == StorageInit => BackupInv
<1> SUFFICES ASSUME StorageInit PROVE BackupInv
  BY SMTT(30)
<1>1. BackupTypes
  <2>1. restore \in [Restorers -> Restoring \cup {None}]
    BY DEF StorageInit
  <2> DEFINE D == Database \cup {None}  U == (SUBSET File) \cup {None}
  <2>2. target \in [db : D, uploads : U]
    <3>1. None \in D /\ None \in U
      OBVIOUS
    <3> HIDE DEF D, U
    <3> QED
      BY <3>1 DEF StorageInit
  <2> QED
    BY <2>1, <2>2 DEF StorageInit, BackupTypes
<1>2. CopyInv
  BY DEF StorageInit, CopyInv, BundleIsComplete
<1>3. RestoreInv
  BY SMTT(30) DEF StorageInit, RestoreInv, AtWork
<1> QED
  BY <1>1, <1>2, <1>3 DEF BackupInv

\* A step of a backup before its bundle touches no restore.
LEMMA BackupOnly ==
    ASSUME BackupInv, NEW b \in Copying \cup {None}, backup' = b, bundle = None,
           UNCHANGED <<bundle, restore, target, restored, cut>>,
           b # None /\ ~b.disturbed =>
                /\ b.before = files'
                /\ b.pc = "list" => b.uploads = {}
                /\ b.pc = "copy" => b.uploads \cup b.todo = b.before
    PROVE  BackupInv'
<1>1. BackupTypes' /\ CopyInv'
  BY DEF BackupInv, BackupTypes, CopyInv, BundleIsComplete
<1>2. RestoreInv'
  BY DEF BackupInv, RestoreInv, AtWork
<1> QED
  BY <1>1, <1>2, SMTT(30) DEF BackupInv

\* VACUUM INTO: nothing is copied yet.
LEMMA SnapshotKeeps == BackupInv /\ CardTypes /\ Snapshot => BackupInv'
<1> SUFFICES ASSUME BackupInv, CardTypes, Snapshot PROVE BackupInv'
  OBVIOUS
<1> DEFINE b == [pc |-> "list", db |-> card, uploads |-> {}, todo |-> {}, before |-> files, disturbed |-> FALSE]
<1>1. b \in Copying
  BY DEF Copying, Database, CardTypes
<1>2. /\ backup' = b /\ bundle = None /\ UNCHANGED <<files, bundle, restore, target, restored, cut>>
  BY DEF Snapshot, cardVars
<1>3. b.before = files /\ b.pc = "list" /\ b.uploads = {}
  OBVIOUS
<1> HIDE DEF b
<1> QED
  BY <1>1, <1>2, <1>3, BackupOnly

\* The directory is read: all its files are to be copied.
LEMMA CopyTreeKeeps == BackupInv /\ CardTypes /\ copyTree => BackupInv'
<1> SUFFICES ASSUME BackupInv, CardTypes, copyTree PROVE BackupInv'
  BY SMTT(30)
<1>1. backup # None /\ backup \in Copying /\ backup.pc = "list" /\ bundle = None
      /\ UNCHANGED <<files, bundle, restore, target, restored, cut>>
  BY DEF copyTree, cardVars, BackupInv, BackupTypes, CopyInv
<1> DEFINE b == [backup EXCEPT !.pc = "copy", !.todo = files]
<1>2. /\ b \in Copying /\ b.pc = "copy" /\ b.todo = files /\ b.uploads = backup.uploads
      /\ b.before = backup.before /\ b.disturbed = backup.disturbed
  BY <1>1, Zenon DEF Copying, CardTypes
<1>3. backup' = b
  BY DEF copyTree
<1> HIDE DEF b
<1> QED
  BY <1>1, <1>2, <1>3, BackupOnly, Zenon DEF BackupInv, CopyInv

\* A file is copied, or its loss ends the backup.
LEMMA CopyFileKeeps == BackupInv /\ copyRegularFile => BackupInv'
<1> SUFFICES ASSUME BackupInv, copyRegularFile PROVE BackupInv'
  BY SMTT(30)
<1>1. backup # None /\ backup \in Copying /\ backup.pc = "copy" /\ bundle = None
      /\ UNCHANGED <<files, bundle, restore, target, restored, cut>>
  BY DEF copyRegularFile, cardVars, BackupInv, BackupTypes, CopyInv
<1>2. PICK f \in backup.todo :
        backup' = IF f \in files THEN [backup EXCEPT !.uploads = @ \cup {f}, !.todo = @ \ {f}] ELSE None
  BY Zenon DEF copyRegularFile
<1>3. CASE backup' = None
  BY <1>1, <1>3, BackupOnly, Zenon
<1>4. CASE backup' = [backup EXCEPT !.uploads = @ \cup {f}, !.todo = @ \ {f}]
  <2> DEFINE b == [backup EXCEPT !.uploads = @ \cup {f}, !.todo = @ \ {f}]
  <2>1. f \in File /\ backup.uploads \cup {f} \in SUBSET File /\ backup.todo \ {f} \in SUBSET File
    BY <1>1 DEF Copying
  <2>2. /\ b \in Copying /\ b.pc = "copy" /\ b.before = backup.before /\ b.disturbed = backup.disturbed
        /\ b.todo = backup.todo \ {f} /\ b.uploads = backup.uploads \cup {f}
    BY <1>1, <2>1, Zenon DEF Copying
  <2>3. b.uploads \cup b.todo = backup.uploads \cup backup.todo
    BY <2>2
  <2>4. backup' = b
    BY <1>4
  <2> HIDE DEF b
  <2> QED
    BY <1>1, <2>2, <2>3, <2>4, BackupOnly, Zenon DEF BackupInv, CopyInv
<1> QED
  BY <1>2, <1>3, <1>4

\* The bundle holds what was copied, when nothing is left to copy.
LEMMA CommitBundleKeeps == BackupInv /\ CommitBundle => BackupInv'
<1> SUFFICES ASSUME BackupInv, CommitBundle PROVE BackupInv'
  BY SMTT(30)
<1>1. /\ backup # None /\ backup \in Copying /\ backup.pc = "copy" /\ backup.todo = {} /\ bundle = None
      /\ backup' = None /\ UNCHANGED <<restore, target, restored, cut>>
  BY Zenon DEF CommitBundle, BackupInv, BackupTypes, CopyInv
<1> DEFINE m == [db |-> backup.db, uploads |-> backup.uploads]
           b == [db |-> backup.db, uploads |-> backup.uploads, manifest |-> m,
                 before |-> backup.before, disturbed |-> backup.disturbed]
<1>2. bundle' = b
  BY Zenon DEF CommitBundle
<1>3. m \in [db : Database, uploads : SUBSET File] /\ m.uploads = backup.uploads
  BY <1>1 DEF Copying
<1> HIDE DEF m
<1>4. b \in Bundle /\ b.manifest = m /\ b.before = backup.before /\ b.disturbed = backup.disturbed
  BY <1>1, <1>3 DEF Copying, Bundle
<1> HIDE DEF b
<1>5. BackupTypes'
  BY <1>1, <1>2, <1>4 DEF BackupInv, BackupTypes
<1>6. CopyInv'
  BY <1>1, <1>2, <1>3, <1>4, Zenon DEF BackupInv, CopyInv, BundleIsComplete
<1>7. RestoreInv'
  BY <1>1, Zenon DEF BackupInv, RestoreInv, AtWork
<1> QED
  BY <1>5, <1>6, <1>7 DEF BackupInv

\* A bundle that loses a file keeps its manifest.
LEMMA DamageKeeps == BackupInv /\ Damage => BackupInv'
<1> SUFFICES ASSUME BackupInv, Damage PROVE BackupInv'
  BY SMTT(30)
<1>1. /\ bundle # None /\ bundle \in Bundle /\ \A r \in Restorers : restore[r] = None
      /\ UNCHANGED <<files, backup, restore, target, restored, cut>>
  BY DEF Damage, cardVars, BackupInv, BackupTypes
<1>2. PICK f \in bundle.uploads : bundle' = [bundle EXCEPT !.uploads = @ \ {f}]
  BY Zenon DEF Damage
<1> DEFINE b == [bundle EXCEPT !.uploads = @ \ {f}]
<1>3. b \in Bundle /\ b.manifest = bundle.manifest /\ b.before = bundle.before /\ b.disturbed = bundle.disturbed
  BY <1>1 DEF Bundle
<1>4. bundle' = b
  BY <1>2
<1> HIDE DEF b
<1>5. BackupTypes' /\ CopyInv'
  BY <1>1, <1>3, <1>4, Zenon DEF BackupInv, BackupTypes, CopyInv, BundleIsComplete
<1>6. RestoreInv'
  <2>1. bundle' # None
    BY <1>3, <1>4, BackupAssumption
  <2> QED
    BY <1>1, <1>3, <1>4, <2>1, Zenon DEF BackupInv, RestoreInv, AtWork
<1> QED
  BY <1>5, <1>6 DEF BackupInv

\* A step of a restore leaves the bundle.
LEMMA RestoreOnly ==
    ASSUME BackupInv, UNCHANGED <<files, backup, bundle>>,
           restore' \in [Restorers -> Restoring \cup {None}],
           target' \in [db : Database \cup {None}, uploads : (SUBSET File) \cup {None}],
           RestoreInv'
    PROVE  BackupInv'
BY Zenon DEF BackupInv, BackupTypes, CopyInv, BundleIsComplete

\* A bundle that verifies is what its manifest says.
LEMMA StageKeeps ==
    ASSUME BackupInv, NEW r \in Restorers, Stage(r)
    PROVE  BackupInv'
<1> DEFINE w == [pc |-> "staged", db |-> bundle.db, uploads |-> bundle.uploads]
<1>1. /\ UNCHANGED <<files, backup, bundle, target, restored>>
      /\ restore[r] = None /\ restore' = [restore EXCEPT ![r] = w]
      /\ cut' = (cut \/ \E q \in Restorers : restore[q] # None)
      /\ bundle # None /\ bundle \in Bundle /\ target.db = None /\ target.uploads = None
      /\ bundle.db = bundle.manifest.db /\ bundle.uploads = bundle.manifest.uploads
  BY Zenon DEF Stage, VerifySQLite, requireAbsent, cardVars, BackupInv, BackupTypes
<1>2. w \in Restoring /\ w.pc = "staged" /\ w.db = bundle.manifest.db /\ w.uploads = bundle.manifest.uploads
  BY <1>1, Zenon DEF Restoring, Bundle
<1> HIDE DEF w
<1>3. /\ restore' \in [Restorers -> Restoring \cup {None}]
      /\ restore'[r] = w /\ \A q \in Restorers \ {r} : restore'[q] = restore[q]
  BY <1>1, <1>2, Zenon DEF BackupInv, BackupTypes
<1>4. RestoreInv'
  <2> SUFFICES ASSUME ~cut' PROVE RestoreInv'
    BY Zenon DEF RestoreInv
  <2>1. ~cut /\ \A q \in Restorers : restore[q] = None
    BY <1>1, Zenon
  <2>2. restored = {}
    <3>1. bundle.manifest.db # None
      BY <1>1, BackupAssumption, Zenon DEF Bundle
    <3>2. restored # {} => target = [db |-> bundle.manifest.db, uploads |-> bundle.manifest.uploads]
      BY <2>1, Zenon DEF BackupInv, RestoreInv
    <3> QED
      BY <1>1, <3>1, <3>2
  <2>3. w # None
    BY <1>2, BackupAssumption
  <2>4. ASSUME NEW q \in Restorers PROVE AtWork(q)'
    BY <1>1, <1>2, <1>3, <2>1, <2>2, Zenon DEF AtWork
  <2> QED
    BY <1>1, <1>3, <2>2, <2>3, <2>4, Zenon DEF RestoreInv
<1> QED
  BY <1>1, <1>3, <1>4, RestoreOnly, Zenon DEF BackupInv, BackupTypes

\* The one restore at work moves on, or ends where the destination is as it was.
LEMMA RestoreMoves ==
    ASSUME BackupInv, NEW r \in Restorers, restore[r] # None,
           NEW w \in Restoring \cup {None}, restore' = [restore EXCEPT ![r] = w],
           UNCHANGED <<files, backup, bundle, restored, cut>>,
           target' \in [db : Database \cup {None}, uploads : (SUBSET File) \cup {None}],
           ~cut /\ w # None =>
                /\ w.db = restore[r].db /\ w.uploads = restore[r].uploads
                /\ target'.uploads = None
                /\ target'.db = IF w.pc = "uploads" THEN bundle.manifest.db ELSE None,
           ~cut /\ w = None => target'.db = None /\ target'.uploads = None
    PROVE  BackupInv'
<1>1. /\ restore' \in [Restorers -> Restoring \cup {None}]
      /\ restore'[r] = w /\ \A q \in Restorers \ {r} : restore'[q] = restore[q]
  BY Zenon DEF BackupInv, BackupTypes
<1>2. RestoreInv'
  <2> SUFFICES ASSUME ~cut PROVE RestoreInv'
    BY Zenon DEF RestoreInv
  <2>1. AtWork(r) /\ \A q \in Restorers \ {r} : restore[q] = None
    BY Zenon DEF BackupInv, RestoreInv, AtWork
  <2>2. restored = {}
    BY <2>1, Zenon DEF AtWork
  <2>3. ASSUME NEW q \in Restorers PROVE AtWork(q)'
    BY <1>1, <2>1, <2>2, Zenon DEF AtWork
  <2>4. (\A q \in Restorers : restore'[q] = None) => (target'.db = None <=> target'.uploads = None)
    BY <1>1, Zenon
  <2> QED
    BY <2>2, <2>3, <2>4, Zenon DEF RestoreInv
<1> QED
  BY <1>1, <1>2, RestoreOnly, Zenon

\* The second look at the destination.
LEMMA RecheckKeeps ==
    ASSUME BackupInv, NEW r \in Restorers, Recheck(r)
    PROVE  BackupInv'
<1>1. /\ restore[r] # None /\ restore[r] \in Restoring /\ restore[r].pc = "staged"
      /\ UNCHANGED <<files, backup, bundle, target, restored, cut>>
  BY DEF Recheck, cardVars, BackupInv, BackupTypes
<1>2. ~cut => target.db = None /\ target.uploads = None
  BY <1>1, Zenon DEF BackupInv, RestoreInv, AtWork
<1>3. target \in [db : Database \cup {None}, uploads : (SUBSET File) \cup {None}]
  BY DEF BackupInv, BackupTypes
<1>4. CASE restore' = [restore EXCEPT ![r] = None]
  BY <1>1, <1>2, <1>3, <1>4, RestoreMoves, Zenon
<1>5. CASE restore' = [restore EXCEPT ![r] = [restore[r] EXCEPT !.pc = "database"]]
  <2> DEFINE w == [restore[r] EXCEPT !.pc = "database"]
  <2>1. w \in Restoring /\ w.pc = "database" /\ w.db = restore[r].db /\ w.uploads = restore[r].uploads
    BY <1>1 DEF Restoring
  <2>2. restore' = [restore EXCEPT ![r] = w]
    BY <1>5
  <2> HIDE DEF w
  <2> QED
    BY <1>1, <1>2, <1>3, <2>1, <2>2, RestoreMoves, Zenon
<1> QED
  BY <1>4, <1>5, Zenon DEF Recheck

\* The database is in place, or nothing is.
LEMMA RenameDatabaseKeeps ==
    ASSUME BackupInv, NEW r \in Restorers, RenameDatabase(r)
    PROVE  BackupInv'
<1>1. /\ restore[r] # None /\ restore[r] \in Restoring /\ restore[r].pc = "database"
      /\ UNCHANGED <<files, backup, bundle, restored, cut>>
      /\ target \in [db : Database \cup {None}, uploads : (SUBSET File) \cup {None}]
  BY DEF RenameDatabase, cardVars, BackupInv, BackupTypes
<1>2. ~cut => /\ target.db = None /\ target.uploads = None
              /\ restore[r].db = bundle.manifest.db
  BY <1>1, Zenon DEF BackupInv, RestoreInv, AtWork
<1>3. CASE restore' = [restore EXCEPT ![r] = None] /\ target' = target
  BY <1>1, <1>2, <1>3, RestoreMoves, Zenon
<1>4. CASE /\ target' = [target EXCEPT !.db = restore[r].db]
           /\ restore' = [restore EXCEPT ![r].pc = "uploads"]
  <2> DEFINE w == [restore[r] EXCEPT !.pc = "uploads"]
  <2>1. w \in Restoring /\ w.pc = "uploads" /\ w.db = restore[r].db /\ w.uploads = restore[r].uploads
    BY <1>1 DEF Restoring
  <2>2. restore' = [restore EXCEPT ![r] = w]
    BY <1>4
  <2> HIDE DEF w
  <2>3. /\ target' \in [db : Database \cup {None}, uploads : (SUBSET File) \cup {None}]
        /\ target'.db = restore[r].db /\ target'.uploads = target.uploads
    BY <1>1, <1>4 DEF Restoring
  <2>4. ~cut /\ w # None =>
            /\ w.db = restore[r].db /\ w.uploads = restore[r].uploads
            /\ target'.uploads = None
            /\ target'.db = IF w.pc = "uploads" THEN bundle.manifest.db ELSE None
    BY <1>2, <2>1, <2>3, Zenon
  <2>5. w # None /\ w \in Restoring \cup {None}
    BY <2>1, BackupAssumption, Zenon
  <2> QED
    BY <1>1, <2>2, <2>3, <2>4, <2>5, RestoreMoves, Zenon
<1> QED
  BY <1>3, <1>4 DEF RenameDatabase

\* Both are in place and success is reported, or the database is removed again.
LEMMA RenameUploadsKeeps ==
    ASSUME BackupInv, NEW r \in Restorers, RenameUploads(r)
    PROVE  BackupInv'
<1>1. /\ restore[r] # None /\ restore[r] \in Restoring /\ restore[r].pc = "uploads"
      /\ UNCHANGED <<files, backup, bundle, cut>> /\ restore' = [restore EXCEPT ![r] = None]
      /\ target \in [db : Database \cup {None}, uploads : (SUBSET File) \cup {None}]
  BY DEF RenameUploads, cardVars, BackupInv, BackupTypes
<1>2. ~cut => /\ bundle # None /\ target.db = bundle.manifest.db /\ target.uploads = None
              /\ restore[r].uploads = bundle.manifest.uploads
              /\ \A q \in Restorers \ {r} : restore[q] = None
  BY <1>1, Zenon DEF BackupInv, RestoreInv, AtWork
<1>3. CASE target' = [target EXCEPT !.db = None] /\ restored' = restored
  <2>1. /\ target' \in [db : Database \cup {None}, uploads : (SUBSET File) \cup {None}]
        /\ target'.db = None /\ target'.uploads = target.uploads
    BY <1>1, <1>3
  <2> QED
    BY <1>1, <1>2, <1>3, <2>1, RestoreMoves, Zenon
<1>4. CASE target' = [target EXCEPT !.uploads = restore[r].uploads] /\ restored' = restored \cup {r}
  <2>1. /\ target' \in [db : Database \cup {None}, uploads : (SUBSET File) \cup {None}]
        /\ target'.uploads = restore[r].uploads /\ target'.db = target.db
    BY <1>1, <1>4 DEF Restoring
  <2>2. /\ restore' \in [Restorers -> Restoring \cup {None}]
        /\ restore'[r] = None /\ \A q \in Restorers \ {r} : restore'[q] = restore[q]
    BY <1>1, Zenon DEF BackupInv, BackupTypes
  <2>3. RestoreInv'
    <3> SUFFICES ASSUME ~cut PROVE RestoreInv'
      BY <1>1, Zenon DEF RestoreInv
    <3>1. \A q \in Restorers : restore'[q] = None
      BY <1>2, <2>2, Zenon
    <3>2. target' = [db |-> bundle.manifest.db, uploads |-> bundle.manifest.uploads]
      BY <1>2, <2>1, Zenon
    <3>3. target'.db # None /\ target'.uploads # None
      BY <1>2, <2>1, BackupAssumption, Zenon DEF BackupInv, BackupTypes, Bundle
    <3> QED
      BY <1>1, <1>2, <3>1, <3>2, <3>3, Zenon DEF RestoreInv, AtWork
  <2> QED
    BY <1>1, <2>1, <2>2, <2>3, RestoreOnly, Zenon
<1> QED
  BY <1>3, <1>4 DEF RenameUploads

\* Every step of the installation, a backup or a restore keeps the invariant.
LEMMA BackupStep == BackupInv /\ CardTypes /\ CardTypes' /\ [StorageNext]_storage => BackupInv'
<1> SUFFICES ASSUME BackupInv, CardTypes, CardTypes', [StorageNext]_storage PROVE BackupInv'
  OBVIOUS
<1>1. CASE Live
  <2>1. bundle = None /\ UNCHANGED <<bundle, restore, target, restored, cut>>
    BY <1>1 DEF Live
  <2>2. CASE backup = None
    <3>1. backup' = None
      BY <1>1, <2>2 DEF Live
    <3> QED
      BY <2>1, <3>1, BackupOnly, Zenon
  <2>3. CASE backup # None
    <3> DEFINE d == backup.disturbed \/ files' # files
               b == [backup EXCEPT !.disturbed = d]
    <3>1. backup' = b /\ backup \in Copying
      BY <1>1, <2>3 DEF Live, BackupInv, BackupTypes
    <3>2. d \in BOOLEAN /\ (~d => ~backup.disturbed /\ files' = files)
      OBVIOUS
    <3> HIDE DEF d
    <3>3. /\ b \in Copying /\ b.disturbed = d /\ b.pc = backup.pc /\ b.before = backup.before
          /\ b.uploads = backup.uploads /\ b.todo = backup.todo
      BY <3>1, <3>2 DEF Copying
    <3> HIDE DEF b
    <3> QED
      BY <2>1, <2>3, <3>1, <3>2, <3>3, BackupOnly, Zenon DEF BackupInv, CopyInv
  <2> QED
    BY <2>2, <2>3
<1>2. CASE AbandonBackup
  BY <1>2, BackupOnly, Zenon DEF AbandonBackup, BackupInv, CopyInv
<1>3. ASSUME NEW r \in Restorers, StopRestore(r) PROVE BackupInv'
  <2>1. /\ UNCHANGED <<files, backup, bundle, target>> /\ cut' = TRUE
        /\ restore' \in [Restorers -> Restoring \cup {None}]
    BY <1>3, Zenon DEF StopRestore, cardVars, BackupInv, BackupTypes
  <2> QED
    BY <2>1, RestoreOnly, Zenon DEF BackupInv, BackupTypes, RestoreInv
<1>4. CASE UNCHANGED storage
  BY <1>4, Zenon DEF storage, cardVars, BackupInv, BackupTypes, CopyInv, BundleIsComplete, RestoreInv, AtWork
<1> QED
  BY <1>1, <1>2, <1>3, <1>4, SnapshotKeeps, CopyTreeKeeps, CopyFileKeeps, CommitBundleKeeps, DamageKeeps,
     StageKeeps, RecheckKeeps, RenameDatabaseKeeps, RenameUploadsKeeps, Zenon DEF StorageNext

\* A storage step is a step of the cards or leaves them.
LEMMA StorageStep == CardInv /\ BackupInv /\ [StorageNext]_storage => CardInv' /\ BackupInv'
<1> SUFFICES ASSUME CardInv, BackupInv, [StorageNext]_storage PROVE CardInv' /\ BackupInv'
  OBVIOUS
<1>1. [CardNext]_cardVars
  BY Zenon DEF StorageNext, storage, Live, Snapshot, copyTree, copyRegularFile, CommitBundle, AbandonBackup, Damage,
         Stage, Recheck, RenameDatabase, RenameUploads, StopRestore
<1>2. CardInv'
  BY <1>1, CardStep
<1> QED
  BY <1>2, BackupStep, Zenon DEF CardInv

\* A saved card shows its image until the next upload for the event, a change to
\* an event that shares the file, or requests for the event that overlap, fail or
\* are cut off; saving the card again never removes it (cleanupOldImage).
THEOREM CardImageKeptHolds == StorageSpec => []CardImageKept
<1>1. StorageInit => CardInv /\ BackupInv
  BY CardsStart, BackupStarts, Zenon DEF StorageInit
<1>2. CardInv => CardImageKept
  BY CardShows
<1> QED
  BY <1>1, <1>2, StorageStep, PTL DEF StorageSpec

\* A bundle that CreateSQLite commits holds exactly the files there were at the
\* snapshot of the database, unless an upload came or went while it was copied.
THEOREM BundleIsCompleteHolds == StorageSpec => []BundleIsComplete
<1>1. StorageInit => CardInv /\ BackupInv
  BY CardsStart, BackupStarts DEF StorageInit
<1>2. BackupInv => BundleIsComplete
  BY DEF BackupInv, CopyInv
<1> QED
  BY <1>1, <1>2, StorageStep, PTL DEF StorageSpec

\* RestoreSQLite leaves the database and the uploads of the manifest, or neither,
\* unless its process stops between the two renames or two restores overlap.
THEOREM RestoreAllOrNothingHolds == StorageSpec => []RestoreAllOrNothing
<1>1. StorageInit => CardInv /\ BackupInv
  BY CardsStart, BackupStarts, SMTT(30) DEF StorageInit
<1>2. BackupInv => RestoreAllOrNothing
  BY Zenon DEF BackupInv, RestoreInv, RestoreAllOrNothing
<1> QED
  BY <1>1, <1>2, StorageStep, PTL DEF StorageSpec

=============================================================================
