----------------------------- MODULE DailyPick -----------------------------
(***************************************************************************)
(* The daily photo (services/app/daily.py): for every photo segment of the *)
(* schedule one picture a day, chosen by itself or by the owner, rendered  *)
(* once and kept in two files, <key>.fps6 (the frame) and <key>.json (its  *)
(* record).  /api/images/content answers from the record, /raw from the    *)
(* frame.                                                                  *)
(*                                                                         *)
(* Handlers of photos run on the server's event loop, one at a time.  A    *)
(* request reads clock and schedule again for its key, for the freshness   *)
(* of what is there, for the owner's pick and for the category to choose   *)
(* from, and then renders for seconds (a language model writes a caption). *)
(* Meanwhile the clock goes on, settings are saved in a worker thread,     *)
(* photo files come and go with the NAS, and the process may die.  A       *)
(* restarted server knows what the files say.                              *)
(***************************************************************************)
EXTENDS Slots, FiniteSets

CONSTANTS
  Photo,      \* the rows of photo_scores
  Album,      \* Album[p]: the category of a photo
  Rank,       \* Rank[p]: its place by memory_score, the best first
  Analyzed,   \* photos analyzed to begin with
  Remembered, \* Remembered[p]: days that are an anniversary of p
  Schedules,  \* schedules the console may save
  Uncategorized,
  MatchLimit, \* rows a query for anniversaries returns (30)
  ListLimit,  \* rows a query for photos returns (200)
  TopLimit,   \* of those that remain, how many the choice falls on (10)
  NoPhoto,
  Torn,       \* a frame file that was not written to its end
  Start,      \* the instant the model begins
  MaxTicks,   \* bound: instants the clock goes on
  MaxOwner,   \* bound: photos picked or analyzed, schedules saved, files moved
  MaxCrashes  \* bound: ends of the process and failing writes

ASSUME DailyAssumption ==
  /\ IsFiniteSet(Photo)
  /\ \A p \in Photo : Album[p] # NoLabel /\ Rank[p] \in Nat
  /\ \A p, q \in Photo : Rank[p] = Rank[q] => p = q
  /\ Analyzed \subseteq Photo
  /\ NoPhoto \notin Photo /\ Torn \notin Photo /\ Torn # NoPhoto
  /\ \A s \in Schedules : Canonicalize(s) = s
  /\ {MatchLimit, ListLimit, TopLimit} \subseteq Nat \ {0}
  /\ Start \in Nat /\ MaxTicks \in Nat /\ MaxOwner \in Nat /\ MaxCrashes \in Nat

VARIABLES
  now,       \* the clock, in instants since some midnight
  segs,      \* slots.segments()
  photos,    \* photos whose file exists
  analyzed,  \* photos with analyzed_at
  manual,    \* daily_manual in the runtime configuration
  used,      \* used_at of every photo
  frame,     \* <key>.fps6, for the keys that have one
  record,    \* <key>.json, likewise
  pc,        \* what the event loop does
  key,       \* the slot_key it renders ...
  chosen,    \* ... with this picture
  byHand,    \* history: the owner picked it
  moved,     \* history: another segment became current before it was chosen
  cut,       \* history: keys with a frame that was left without its record
  owner, crashes

files == <<frame, record>>
library == <<photos, analyzed, used>>
request == <<pc, key, chosen, byHand, moved>>
vars == <<now, segs, photos, analyzed, manual, used, frame, record, pc, key,
          chosen, byHand, moved, cut, owner, crashes>>

DayOf(t) == t \div Day
NoManual == [photo |-> NoPhoto, day |-> 0]
NoKey == <<0, NoLabel>>

(* current_photo_category: the one the segment is bound to, if any.        *)
PhotoCategory ==
  LET seg == CurrentSegment(segs, now) IN
  IF seg.type = "photo" THEN seg.category ELSE NoLabel

(* slot_key reads the category c and then the start of the photo segment   *)
(* of c; midnight when that is not what is current.                        *)
KeyFor(c, s, t) ==
  LET seg == CurrentSegment(s, t) IN
  <<IF seg.type = "photo" /\ c \in {NoLabel, seg.category}
    THEN SegmentStart(s, t) ELSE Midnight(t), c>>

SlotKey == KeyFor(PhotoCategory, segs, now)

Init ==
  /\ now = Start
  /\ segs \in Schedules
  /\ photos = Photo /\ analyzed = Analyzed
  /\ manual = NoManual
  /\ used = [p \in Photo |-> -1]
  /\ frame = <<>> /\ record = <<>>
  /\ pc = "idle" /\ key = NoKey /\ chosen = NoPhoto /\ byHand = FALSE
  /\ moved = FALSE
  /\ cut = {}
  /\ owner = 0 /\ crashes = 0

-----------------------------------------------------------------------------
(* daily_manual_pick, _is_fresh_for and select_daily_photo at the instant  *)
(* t.                                                                      *)

Pinned(t) == manual.photo \in photos /\ manual.day = DayOf(t)

(* Variant: a picture is out of date once its photo is gone.               *)
FreshWithPhoto(k, t) ==
  /\ k \in DOMAIN frame \cap DOMAIN record
  /\ record[k].day = DayOf(t)
  /\ record[k].photo \in photos
  /\ Pinned(t) => record[k].photo = manual.photo

Fresh(k, t) ==
  /\ k \in DOMAIN frame \cap DOMAIN record
  /\ record[k].day = DayOf(t)
  /\ Pinned(t) => record[k].photo = manual.photo

(* ORDER BY memory_score DESC LIMIT n *)
Best(S, n) == {p \in S : Cardinality({q \in S : Rank[q] < Rank[p]}) < n}

(* list_photo_scores, of which missing files are dropped afterwards; only  *)
(* uncategorized photos are listed in full.                                *)
Listed(S, category) ==
  photos \cap (IF category = Uncategorized THEN S ELSE Best(S, ListLimit))

(* Those not used for a day, or else any; the best of them.                *)
Top(S, t) ==
  LET rested == {p \in S : used[p] < t - Day}
  IN Best(IF rested # {} THEN rested ELSE S, TopLimit)

Rows(category) ==
  IF category = NoLabel THEN Photo ELSE {p \in Photo : Album[p] = category}

(* Variant: only analyzed photos are eligible.                             *)
CandidatesAnalyzed(category, t) ==
  Top(Listed(Rows(category) \cap analyzed, category), t)

(* The photos an automatic choice may fall on: anniversaries, or else      *)
(* analyzed photos, or else any of the category.                           *)
Candidates(category, t) ==
  LET rows == Rows(category)
      matches == {p \in rows \cap analyzed : DayOf(t) \in Remembered[p]}
      anniversaries ==
        photos \cap (IF category = Uncategorized THEN matches ELSE Best(matches, MatchLimit))
      scored == Listed(rows \cap analyzed, category)
  IN CASE anniversaries # {} -> anniversaries
       [] anniversaries = {} /\ scored # {} -> Top(scored, t)
       [] OTHER -> IF category = NoLabel THEN {} ELSE Top(Listed(rows, category), t)

-----------------------------------------------------------------------------
(* What goes on by itself, also between two reads of one step.             *)

Enter == owner < MaxOwner /\ owner' = owner + 1

ClockGoesOn ==
  /\ now < Start + MaxTicks /\ now' = now + 1
  /\ UNCHANGED <<segs, owner>>

ScheduleSaved ==
  /\ Enter /\ segs' \in Schedules
  /\ UNCHANGED now

Meanwhile == UNCHANGED <<now, segs, owner>> \/ ClockGoesOn \/ ScheduleSaved

Notice == moved' = (moved \/ SlotKey' # SlotKey)

(* ensure_daily: /content when a photo is due or stands in, a preview, and *)
(* /raw when the frame is missing.  It reads its key ...                   *)
Ask ==
  /\ pc = "idle"
  /\ Meanwhile /\ Notice
  /\ key' = KeyFor(PhotoCategory, segs', now')
  /\ pc' = "fresh"
  /\ UNCHANGED <<library, manual, files, chosen, byHand, cut, crashes>>

(* ... daily_is_fresh takes another ...                                    *)
Judge ==
  /\ pc = "fresh"
  /\ Meanwhile /\ Notice
  /\ pc' = (IF Fresh(KeyFor(PhotoCategory, segs', now'), now') THEN "meta" ELSE "pick")
  /\ UNCHANGED <<library, manual, files, key, chosen, byHand, cut, crashes>>

Abandon ==
  /\ pc' = "idle" /\ key' = NoKey /\ chosen' = NoPhoto /\ byHand' = FALSE
  /\ moved' = FALSE

(* ... and load_daily_meta a third one, whose record is the answer.        *)
Recall ==
  /\ pc = "meta"
  /\ Meanwhile
  /\ IF KeyFor(PhotoCategory, segs', now') \in DOMAIN record THEN Abandon
     ELSE pc' = "pick" /\ Notice /\ UNCHANGED <<key, chosen, byHand>>
  /\ UNCHANGED <<library, manual, files, cut, crashes>>

(* _render_one asks for the owner's pick first and for the category then.  *)
Pick ==
  /\ pc = "pick"
  /\ Meanwhile /\ Notice
  /\ byHand' = Pinned(now)
  /\ chosen' \in (IF Pinned(now) THEN {manual.photo} ELSE Candidates(PhotoCategory', now'))
  /\ pc' = "frame"
  /\ UNCHANGED <<library, manual, files, key, cut, crashes>>

(* There is none: nothing is answered. *)
PickNone ==
  /\ pc = "pick"
  /\ Meanwhile
  /\ ~Pinned(now) /\ Candidates(PhotoCategory', now') = {}
  /\ Abandon
  /\ UNCHANGED <<library, manual, files, cut, crashes>>

(* A map with one entry set. *)
With(f, k, v) == [x \in DOMAIN f \cup {k} |-> IF x = k THEN v ELSE f[x]]

(* Variant: a frame file that is there is kept.                            *)
WriteFrameOnce ==
  /\ pc = "frame"
  /\ chosen \in photos
  /\ frame' = (IF key \in DOMAIN frame THEN frame ELSE With(frame, key, chosen))
  /\ pc' = "record"
  /\ UNCHANGED <<now, segs, library, manual, record, key, chosen, byHand, moved,
                 cut, owner, crashes>>

WriteFrame ==
  /\ pc = "frame"
  /\ chosen \in photos
  /\ frame' = With(frame, key, chosen)
  /\ pc' = "record"
  /\ UNCHANGED <<now, segs, library, manual, record, key, chosen, byHand, moved,
                 cut, owner, crashes>>

(* The file is gone: noticed at once, the photo waits for another          *)
(* analysis; noticed after the caption, the request fails.                 *)
PhotoGone ==
  /\ pc = "frame"
  /\ chosen \notin photos
  /\ analyzed' \in {analyzed, analyzed \ {chosen}}
  /\ Abandon
  /\ UNCHANGED <<now, segs, photos, manual, used, files, cut, owner, crashes>>

WriteRecord ==
  /\ pc = "record"
  /\ record' = With(record, key,
                    [photo |-> chosen, day |-> DayOf(now), byHand |-> byHand, moved |-> moved])
  /\ cut' = cut \ {key}
  /\ pc' = "used"
  /\ UNCHANGED <<now, segs, library, manual, frame, key, chosen, byHand, moved,
                 owner, crashes>>

MarkUsed ==
  /\ pc = "used"
  /\ used' = [used EXCEPT ![chosen] = now]
  /\ Abandon
  /\ UNCHANGED <<now, segs, photos, analyzed, manual, files, cut, owner, crashes>>

-----------------------------------------------------------------------------
(* PUT /api/settings runs in a worker thread.                              *)
GoOn ==
  /\ ClockGoesOn \/ ScheduleSaved
  /\ IF pc \in {"fresh", "meta", "pick"} THEN Notice ELSE UNCHANGED moved
  /\ UNCHANGED <<library, manual, files, pc, key, chosen, byHand, cut, crashes>>

(* POST and DELETE /api/images/daily/select. *)
Select(p) ==
  /\ Enter
  /\ pc = "idle"
  /\ p \in photos
  /\ manual' = [photo |-> p, day |-> DayOf(now)]
  /\ UNCHANGED <<now, segs, library, files, request, cut, crashes>>

Unselect ==
  /\ pc = "idle"
  /\ manual # NoManual
  /\ manual' = NoManual
  /\ UNCHANGED <<now, segs, library, files, request, cut, owner, crashes>>

(* A synchronization with the NAS takes a file away or brings it back.     *)
SyncPhoto(p) ==
  /\ Enter
  /\ photos' = (IF p \in photos THEN photos \ {p} ELSE photos \cup {p})
  /\ UNCHANGED <<now, segs, analyzed, manual, used, files, request, cut, crashes>>

(* An analysis, which is taken to leave the order of the scores as it is.  *)
Analyze(p) ==
  /\ Enter
  /\ p \in photos \ analyzed
  /\ analyzed' = analyzed \cup {p}
  /\ UNCHANGED <<now, segs, photos, manual, used, files, request, cut, crashes>>

(* The process ends, or a write fails, perhaps in the middle of a file; a  *)
(* record that was not written to its end reads like none.                 *)
Crash ==
  /\ crashes < MaxCrashes
  /\ crashes' = crashes + 1
  /\ frame' \in {frame} \cup
       (IF pc = "frame" THEN {With(frame, key, Torn), With(frame, key, chosen)} ELSE {})
  /\ record' \in {record} \cup
       (IF pc = "record" THEN {[k \in DOMAIN record \ {key} |-> record[k]]} ELSE {})
  /\ cut' = (IF frame' # frame \/ pc = "record" THEN cut \cup {key} ELSE cut)
  /\ Abandon
  /\ UNCHANGED <<now, segs, library, manual, owner>>

Request == Ask \/ Judge \/ Recall \/ Pick \/ PickNone

Render == WriteFrame \/ PhotoGone \/ WriteRecord \/ MarkUsed

Owner ==
  \/ \E p \in Photo : Select(p) \/ SyncPhoto(p) \/ Analyze(p)
  \/ Unselect

Next == Request \/ Render \/ GoOn \/ Owner \/ Crash

Spec == Init /\ [][Next]_vars

-----------------------------------------------------------------------------
(* Properties.                                                             *)

(* While /content answers from a record, /raw answers with that record's   *)
(* picture: whatever is picked, removed, rescheduled or interrupted, the   *)
(* two files of a key agree, unless the process died or a write failed     *)
(* between them.                                                           *)
ListedIsServed ==
  pc = "idle" =>
    \A k \in DOMAIN record \ cut : Fresh(k, now) => frame[k] = record[k].photo

(* docs/adr/0006: a segment bound to a category has a picture of it and of *)
(* no other, unless the owner picked the photo by hand or another segment  *)
(* became current while the picture was being chosen; and it has one as    *)
(* long as the category has a photo with its file, whatever was used,      *)
(* analyzed or removed: unless ListLimit better rows, perhaps of removed   *)
(* photos, keep that photo out of the query.                               *)
CategoryShown ==
  /\ \A k \in DOMAIN record :
       k[2] # NoLabel /\ ~record[k].moved
         => record[k].byHand \/ Album[record[k].photo] = k[2]
  /\ \A p \in photos :
       Candidates(Album[p], now) = {}
         => /\ Album[p] # Uncategorized
            /\ ListLimit <= Cardinality({q \in Rows(Album[p]) : Rank[q] < Rank[p]})

(* One picture per segment and day: on a day the owner picked nothing for, *)
(* polls, crashes, removed files and saved settings do not replace the     *)
(* picture a key has, unless another segment became current between the    *)
(* request's reading of its key and its choice (ensure_daily then judges   *)
(* one key and renders the other).                                         *)
StableWithinDay ==
  [][\A k \in DOMAIN record \cap DOMAIN record' :
       record'[k].photo # record[k].photo
         => \/ record'[k].day # record[k].day
            \/ manual.day = DayOf(now)
            \/ moved]_vars
=============================================================================
