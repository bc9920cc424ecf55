------------------------------ MODULE Content ------------------------------
(* What the frame is told to show and what it then downloads: the one-off   *)
(* picture of display.py, the pictures of the content library (routers/     *)
(* images.py, library.py) and the free cards of free_module.py, which are   *)
(* pictures of the library too.  The handlers run on one event loop and do  *)
(* not await between two writes: no other request comes in between, but the *)
(* end of the process, a failing write and the background analysis do.  A   *)
(* picture is named by the library id made for it, also when it never gets  *)
(* a row.                                                                   *)
EXTENDS Naturals, FiniteSets

CONSTANTS Ids,          \* pictures
          Modules,      \* free modules
          Rotation,     \* Rotation[d]: the module of day d when none is fixed
          MaxTime,      \* segments and days that begin
          MaxFaults     \* interrupted or failing operations

None == "none"
Torn == "torn"          \* a frame that parse_fps6 refuses
Photo == "photo"        \* a photo segment
AnyModule == "any"      \* a free segment without a fixed module

ASSUME ContentAssumption == /\ IsFiniteSet(Ids) /\ IsFiniteSet(Modules)
                            /\ MaxTime \in Nat /\ MaxFaults \in Nat
                            /\ Rotation \in [0..MaxTime -> Modules]
                            /\ {None, Torn} \cap Ids = {}
                            /\ {None, Photo, AnyModule} \cap Modules = {}

VARIABLES
    used,                   \* the pictures there have been
    frame, thumb,           \* display.fps6, display.orig.jpg
    chart,                  \* history: the frame is a chart the service pushed
    rows, frames, origs,    \* the table of images, the .fps6 and the .orig files
    scores,                 \* pictures of the library in photo_scores
    pending,                \* pictures whose background analysis has not ended
    pushed,                 \* content_push, if its date is today
    slot, segment, today, day, now,   \* the segment, its start, midnight, days, time
    mem,                    \* the card in memory
    file, sidecar,          \* the card files and their .libid files
    listed,                 \* the entry the frame was sent, as long as it is not replaced
    cut,                    \* history: what was written by halves
    faults

display == <<frame, thumb, chart>>
library == <<rows, frames, origs>>
analysis == <<scores, pending>>
clock == <<slot, segment, today, day, now>>
cards == <<mem, file, sidecar>>
vars == <<used, display, library, analysis, pushed, clock, cards, listed, cut, faults>>

Slots == Modules \cup {Photo, AnyModule}

\* _cache_file: the module and the moment the content belongs to.
Keys == [module : Modules, since : 0..MaxTime]

NoCard == [card |-> None, left |-> 0]
NoKey == [module |-> None, since |-> 0]
NoMem == [key |-> NoKey, card |-> None, lib |-> None, left |-> 0]
Entry(source, i) == [source |-> source, pic |-> i]
NoEntry == Entry(None, None)

\* What was written by halves: the one-off picture, a picture of the library, or
\* the files of a key.
OneOff == Entry("display", None)
Picture(i) == Entry("library", i)
HalfLives == 2          \* FREE_CACHE_TTL, in units of six hours

Init == /\ used = {}
        /\ frame = None /\ thumb = None /\ chart = FALSE
        /\ rows = {} /\ frames = {} /\ origs = {}
        /\ scores = {} /\ pending = {} /\ pushed = None
        /\ slot \in Slots /\ segment = 0 /\ today = 0 /\ day = 0 /\ now = 0
        /\ mem = NoMem
        /\ file = [k \in Keys |-> NoCard] /\ sidecar = [k \in Keys |-> None]
        /\ listed = NoEntry /\ cut = {} /\ faults = 0

Fault == faults < MaxFaults /\ faults' = faults + 1
NoFault == faults' = faults

Fresh(i) == i \notin used /\ used' = used \cup {i}

\* An operation that replaces the listed content takes the entry back.
Replaces(source) == listed' = IF listed.source = source THEN NoEntry ELSE listed

-----------------------------------------------------------------------------
(* The one-off picture.                                                     *)

\* save_upload; a thumbnail that fails is removed and not reported.
SaveUpload(i) ==
    /\ Fresh(i)
    /\ frame' = i /\ chart' = FALSE
    /\ (thumb' = i /\ NoFault) \/ (thumb' = None /\ Fault)
    /\ cut' = cut \ {OneOff}
    /\ Replaces("display")
    /\ UNCHANGED <<library, analysis, pushed, clock, cards>>

\* Variant: the thumbnail of the last upload is left.
SaveRawBeside(i) ==
    /\ Fresh(i) /\ NoFault
    /\ frame' = i /\ chart' = FALSE /\ UNCHANGED thumb
    /\ cut' = cut \ {OneOff}
    /\ Replaces("display")
    /\ UNCHANGED <<library, analysis, pushed, clock, cards>>

\* save_raw_fps6: a frame from the console, without an original.
SaveRaw(i) ==
    /\ Fresh(i) /\ NoFault
    /\ frame' = i /\ thumb' = None /\ chart' = FALSE
    /\ cut' = cut \ {OneOff}
    /\ Replaces("display")
    /\ UNCHANGED <<library, analysis, pushed, clock, cards>>

\* save_pushed_frame: the calibration and rainbow charts of the service.  The
\* thumbnail is not touched, and DisplaySource.original serves it all the same.
SavePushedFrame(i) ==
    /\ Fresh(i) /\ NoFault
    /\ frame' = i /\ chart' = TRUE /\ UNCHANGED thumb
    /\ cut' = cut \ {OneOff}
    /\ Replaces("display")
    /\ UNCHANGED <<library, analysis, pushed, clock, cards>>

Clear ==
    /\ frame' = None /\ thumb' = None /\ chart' = FALSE
    /\ cut' = cut \ {OneOff}
    /\ Replaces("display") /\ NoFault
    /\ UNCHANGED <<used, library, analysis, pushed, clock, cards>>

-----------------------------------------------------------------------------
(* The content library.                                                     *)

\* POST /upload: the two files, the row, and the analysis later.
Upload(i) ==
    /\ Fresh(i) /\ NoFault
    /\ rows' = rows \cup {i} /\ frames' = frames \cup {i} /\ origs' = origs \cup {i}
    /\ pending' = pending \cup {i}
    /\ UNCHANGED <<display, scores, pushed, clock, cards, listed, cut>>

\* _auto_analyze_upload; a file that is gone is no reason to stop.
Analysed(i) ==
    /\ i \in pending
    /\ pending' = pending \ {i}
    /\ scores' = scores \cup {i}
    /\ cut' = IF i \in rows THEN cut ELSE cut \cup {Picture(i)}
    /\ NoFault
    /\ UNCHANGED <<used, display, library, pushed, clock, cards, listed>>

\* Variant: the push to the screen is left alone.
DeleteStillPushed(i) ==
    /\ i \in rows
    /\ rows' = rows \ {i} /\ frames' = frames \ {i} /\ origs' = origs \ {i}
    /\ scores' = scores \ {i}
    /\ listed' = IF listed = Entry("library", i) THEN NoEntry ELSE listed
    /\ NoFault
    /\ UNCHANGED <<used, display, pending, pushed, clock, cards, cut>>

\* DELETE /{id}: the files, the score, the push, the row.
Delete(i) ==
    /\ i \in rows
    /\ rows' = rows \ {i} /\ frames' = frames \ {i} /\ origs' = origs \ {i}
    /\ scores' = scores \ {i}
    /\ pushed' = IF pushed = i THEN None ELSE pushed
    /\ listed' = IF listed = Entry("library", i) THEN NoEntry ELSE listed
    /\ NoFault
    /\ UNCHANGED <<used, display, pending, clock, cards, cut>>

Push(i) ==
    /\ i \in rows
    /\ pushed' = i
    /\ NoFault
    /\ UNCHANGED <<used, display, library, analysis, clock, cards, listed, cut>>

Unpush ==
    /\ pushed # None
    /\ pushed' = None
    /\ NoFault
    /\ UNCHANGED <<used, display, library, analysis, clock, cards, listed, cut>>

-----------------------------------------------------------------------------
(* The free card.                                                           *)

\* pick_module and _content_base.
Picked == IF slot \in Modules THEN slot ELSE Rotation[day]

\* Variant: the day the segment is in.
SinceMidnight == today

Since == IF slot = Photo THEN today ELSE segment
Key == [module |-> Picked, since |-> Since]

MemHit == mem.key = Key /\ mem.left > 0

FileHit == file[Key].left > 0

\* render_free_fps6 without a generation: from memory, or from the file, which
\* counts twelve hours anew.
FromCache ==
    /\ MemHit \/ FileHit
    /\ mem' = IF MemHit THEN mem
              ELSE [key |-> Key, card |-> file[Key].card, lib |-> sidecar[Key],
                    left |-> HalfLives]
    /\ UNCHANGED <<used, library, file, sidecar, cut>>

\* A generation: the card goes into the library (or that fails), then into its
\* file and its .libid file (or that fails, the first one written, torn or as
\* before), and into memory.
Generate(i) ==
    /\ Fresh(i)
    /\ \E saved \in BOOLEAN, written \in {"all", "frame", "part", "none"} :
         /\ IF saved /\ written = "all" THEN NoFault ELSE Fault
         /\ IF saved THEN /\ rows' = rows \cup {i}
                          /\ frames' = frames \cup {i} /\ origs' = origs \cup {i}
                     ELSE UNCHANGED library
         /\ LET lib == IF saved THEN i ELSE None
                c   == IF written = "part" THEN Torn ELSE i
            IN /\ file' = IF written = "none" THEN file
                          ELSE [file EXCEPT ![Key] = [card |-> c, left |-> HalfLives]]
               /\ sidecar' = IF written = "all" THEN [sidecar EXCEPT ![Key] = lib] ELSE sidecar
               /\ mem' = [key |-> Key, card |-> i, lib |-> lib, left |-> HalfLives]
         /\ cut' = IF written = "all" THEN cut \ {Key} ELSE cut \cup {Key}

\* POST /free/regenerate.
Regenerate(i) ==
    /\ Generate(i)
    /\ Replaces("free")
    /\ UNCHANGED <<display, analysis, pushed, clock>>

\* raw or preview of a free card: whatever is current is rendered if need be.
AskFree ==
    /\ \/ FromCache /\ NoFault /\ UNCHANGED listed
       \/ ~MemHit /\ ~FileHit /\ Replaces("free") /\ \E i \in Ids : Generate(i)
    /\ UNCHANGED <<display, analysis, pushed, clock>>

-----------------------------------------------------------------------------
(* GET /content: the one-off picture, the segment, the pushed picture, the  *)
(* daily photo (DailyPick models that one).                                 *)

Manual == frame \notin {None, Torn}

ListDisplay ==
    /\ Manual
    /\ listed' = Entry("display", frame)
    /\ NoFault
    /\ UNCHANGED <<used, library, cards, cut>>

ListFree ==
    /\ ~Manual /\ slot # Photo
    /\ \/ FromCache /\ NoFault
       \/ ~MemHit /\ ~FileHit /\ \E i \in Ids : Generate(i)
    /\ listed' = Entry("free", mem'.card)

\* No card: the daily photo.
ListNoCard ==
    /\ ~Manual /\ slot # Photo /\ ~MemHit /\ ~FileHit
    /\ Fault
    /\ listed' = NoEntry
    /\ UNCHANGED <<used, library, cards, cut>>

ListPhoto ==
    /\ ~Manual /\ slot = Photo
    /\ listed' = IF pushed \in rows THEN Entry("library", pushed) ELSE NoEntry
    /\ NoFault
    /\ UNCHANGED <<used, library, cards, cut>>

ContentList == /\ ListDisplay \/ ListFree \/ ListNoCard \/ ListPhoto
               /\ UNCHANGED <<display, analysis, pushed, clock>>

-----------------------------------------------------------------------------
(* Time, and the end of the process.                                        *)

Replaced == listed' = IF listed.source = "free" THEN NoEntry ELSE listed

NewSegment(s) ==
    /\ now < MaxTime /\ s # slot
    /\ now' = now + 1 /\ slot' = s /\ segment' = now'
    /\ Replaced /\ NoFault
    /\ UNCHANGED <<used, display, library, analysis, pushed, today, day, cards, cut>>

\* Midnight: the first segment goes on with the last one of the day before if
\* both are alike and are not the only one.
Midnight ==
    /\ now < MaxTime
    /\ now' = now + 1 /\ day' = day + 1 /\ today' = now'
    /\ segment' \in {segment, now'}
    /\ pushed' = None
    /\ Replaced /\ NoFault
    /\ UNCHANGED <<used, display, library, analysis, slot, cards, cut>>

Older(n) == IF n > 0 THEN n - 1 ELSE 0

\* Six hours.
SixHours ==
    /\ mem' = [mem EXCEPT !.left = Older(@)]
    /\ file' = [k \in Keys |-> [file[k] EXCEPT !.left = Older(@)]]
    /\ UNCHANGED sidecar /\ cards' # cards
    /\ Replaced /\ NoFault
    /\ UNCHANGED <<used, display, library, analysis, pushed, clock, cut>>

Dies == Fault /\ mem' = NoMem /\ pending' = {}

\* The process ends between two requests.
Restart ==
    /\ Dies
    /\ Replaced
    /\ UNCHANGED <<used, display, library, scores, pushed, clock, file, sidecar, cut>>

\* It ends in save_upload: the frame (or a part of it), the thumbnail.
SaveUploadCut(i) ==
    /\ Fresh(i) /\ Dies
    /\ \E f \in {Torn, i}, t \in {thumb, i} :
         (t = i => f = i) /\ frame' = f /\ thumb' = t
    /\ cut' = cut \cup {OneOff}
    /\ listed' = NoEntry
    /\ UNCHANGED <<chart, library, scores, pushed, clock, file, sidecar>>

\* Variant: the row first.
UploadCutRowFirst(i) ==
    /\ Fresh(i) /\ Dies
    /\ rows' = rows \cup {i}
    /\ UNCHANGED <<frames, origs, display, scores, pushed, clock, file, sidecar, cut>>
    /\ Replaced

\* In POST /upload: the original, the frame.
UploadCut(i) ==
    /\ Fresh(i) /\ Dies
    /\ origs' = origs \cup {i} /\ frames' \in {frames, frames \cup {i}}
    /\ Replaced
    /\ UNCHANGED <<rows, display, scores, pushed, clock, file, sidecar, cut>>

\* In DELETE /{id}: the row is still there.
DeleteCut(i) ==
    /\ i \in rows /\ Dies
    /\ origs' = origs \ {i} /\ frames' \in {frames, frames \ {i}}
    /\ scores' \in {scores, scores \ {i}}
    /\ pushed' = pushed
    /\ cut' = cut \cup {Picture(i)}
    /\ listed' = NoEntry
    /\ UNCHANGED <<used, rows, display, clock, file, sidecar>>

\* In render_free_fps6: in the library, perhaps in the file.
GenerateCut(i) ==
    /\ Fresh(i) /\ Dies
    /\ origs' = origs \cup {i} /\ frames' = frames \cup {i} /\ rows' = rows \cup {i}
    /\ \E c \in {Torn, i} : file' = [file EXCEPT ![Key] = [card |-> c, left |-> HalfLives]]
    /\ cut' = cut \cup {Key}
    /\ listed' = NoEntry
    /\ UNCHANGED <<display, scores, pushed, clock, sidecar>>

Cut == Restart \/ \E i \in Ids : SaveUploadCut(i) \/ UploadCut(i) \/ DeleteCut(i) \/ GenerateCut(i)

Next == \/ \E i \in Ids : \/ SaveUpload(i) \/ SaveRaw(i) \/ SavePushedFrame(i)
                          \/ Upload(i) \/ Analysed(i) \/ Delete(i) \/ Push(i)
                          \/ Regenerate(i)
        \/ Clear \/ Unpush \/ AskFree \/ ContentList
        \/ \E s \in Slots : NewSegment(s)
        \/ Midnight \/ SixHours \/ Cut

Spec == Init /\ [][Next]_vars

-----------------------------------------------------------------------------
(* Type invariant; every picture that is anywhere has been made.            *)
TypeOK == /\ used \subseteq Ids
          /\ frame \in used \cup {None, Torn} /\ thumb \in used \cup {None}
          /\ chart \in BOOLEAN
          /\ rows \subseteq used /\ frames \subseteq used /\ origs \subseteq used
          /\ scores \subseteq used /\ pending \subseteq used
          /\ pushed \in used \cup {None}
          /\ slot \in Slots /\ segment \in 0..now /\ today \in 0..now
          /\ day \in 0..now /\ now \in 0..MaxTime
          /\ mem \in [key : Keys \cup {NoKey}, card : used \cup {None, Torn},
                      lib : used \cup {None}, left : 0..HalfLives]
          /\ file \in [Keys -> [card : used \cup {None, Torn}, left : 0..HalfLives]]
          /\ sidecar \in [Keys -> used \cup {None}]
          /\ listed \in [source : {None, "display", "free", "library"},
                         pic : used \cup {None, Torn}]
          /\ mem.left > 0 => mem.card # None
          /\ \A k \in Keys : file[k].left > 0 => file[k].card # None
          /\ cut \subseteq Keys \cup {OneOff} \cup {Picture(i) : i \in used}
          /\ faults \in 0..MaxFaults

\* GET /{id}/raw of a listed entry: the source serves what is current, the
\* library what the id names.
Raw(e) == CASE e.source = "display" -> frame
            [] e.source = "free"    -> IF MemHit THEN mem.card ELSE file[Key].card
            [] e.source = "library" -> IF e.pic \in rows \cap frames THEN e.pic ELSE None
            [] OTHER                -> None

(* What the frame finds in the list it can download, and it gets what was   *)
(* listed, whatever others upload, push or delete, whatever card is asked   *)
(* for, before or after the list: until the picture is replaced or deleted, *)
(* its segment or its twelve hours end or the service restarts.  The only   *)
(* exception is a picture whose deletion died half-way.                     *)
ListedIsServed == listed.source # None /\ Picture(listed.pic) \notin cut => Raw(listed) = listed.pic

\* GET /{id}/preview of the one-off picture: the thumbnail, when there is a frame,
\* whatever has_orig of display.json says.
Previewed == IF frame = None THEN None ELSE thumb

(* What the console previews is what is on the screen: the thumbnail served *)
(* for the one-off picture belongs to its frame, through uploads, frames    *)
(* put up raw and clearings, or the service drew a chart over the upload,   *)
(* whose thumbnail then stays; the picture a free card's .libid names is    *)
(* the card; and a picture of the library has both files.  The other        *)
(* exceptions are what a dying process or a failing write left by halves.   *)
PreviewOfTheFrame ==
    /\ Previewed # None /\ OneOff \notin cut => Previewed = frame \/ chart
    /\ mem.lib # None /\ mem.key \notin cut => mem.lib = mem.card
    /\ \A k \in Keys \ cut : sidecar[k] # None => sidecar[k] = file[k].card
    /\ \A i \in rows : Picture(i) \notin cut => i \in frames /\ i \in origs

(* A deleted picture leaves nothing behind, neither a score nor the push to *)
(* the screen, unless its analysis ended after the deletion or the deletion *)
(* died half-way.                                                           *)
NothingLeft == /\ \A i \in scores \ rows : Picture(i) \in cut
               /\ pushed # None => pushed \in rows

Card(k) == IF mem.key = k /\ mem.left > 0 THEN mem.card ELSE file[k].card

(* A card stays the card of its segment for twelve hours: through restarts, *)
(* other segments in between, midnight, and the deletion of its picture     *)
(* from the library.  It is replaced on request, or when its file could not *)
(* be written.                                                              *)
SameCards ==
    /\ \A k \in Keys : file[k].left > 0 /\ file'[k].left > 0 /\ k \notin cut'
         => Card(k)' = Card(k) \/ \E i \in Ids : Regenerate(i)
    /\ slot \in Modules /\ slot' = slot /\ segment' = segment => Key' = Key

CardStays == [][SameCards]_vars
=============================================================================
