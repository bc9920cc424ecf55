---------------------------- MODULE ContentProofs ----------------------------
(* What the content list promises, for any pictures, modules, times and     *)
(* numbers of failures.                                                     *)
EXTENDS Content, TLAPS

-----------------------------------------------------------------------------
(* The invariant.                                                           *)

DisplayTypes == frame \in used \cup {None, Torn} /\ thumb \in used \cup {None} /\ chart \in BOOLEAN
LibraryTypes ==
  /\ used \subseteq Ids /\ rows \subseteq used /\ frames \subseteq used /\ origs \subseteq used
AnalysisTypes == scores \subseteq used /\ pending \subseteq used /\ pushed \in used \cup {None}
ClockTypes ==
  /\ slot \in Slots /\ segment \in 0..now /\ today \in 0..now
  /\ day \in 0..now /\ now \in 0..MaxTime

CardsOf(us) == [card : us \cup {None, Torn}, left : 0..HalfLives]
MemsOf(us) == [key : Keys \cup {NoKey}, card : us \cup {None, Torn}, lib : us \cup {None},
               left : 0..HalfLives]
CardTypes ==
  /\ mem \in MemsOf(used) /\ file \in [Keys -> CardsOf(used)]
  /\ sidecar \in [Keys -> used \cup {None}]
  /\ mem.left > 0 => mem.card # None
  /\ mem.key = NoKey => mem.lib = None
  /\ \A k \in Keys : file[k].left > 0 => file[k].card # None

EntriesOf(us) == [source : {None, "display", "free", "library"}, pic : us \cup {None, Torn}]
CutTypes == cut \subseteq Keys \cup {OneOff} \cup {Picture(i) : i \in used}

Types == DisplayTypes /\ LibraryTypes /\ AnalysisTypes /\ ClockTypes /\ CardTypes /\ CutTypes
         /\ faults \in 0..MaxFaults

(* The card in memory is the one in its file, as long as both live.         *)
SameCard ==
  mem.left > 0 /\ mem.key \in Keys \ cut /\ file[mem.key].left > 0
    => mem.card = file[mem.key].card

(* What a listed entry names is there.                                      *)
FreeCard == IF MemHit THEN mem.card ELSE file[Key].card
Current ==
  /\ listed \in EntriesOf(used)
  /\ listed.source = "display" => listed.pic = frame
  /\ listed.source = "free" => listed.pic = FreeCard
  /\ listed.source = "library" => Picture(listed.pic) \in cut \/ listed.pic \in rows \cap frames

(* The two halves of the preview: the one-off picture, the library's.       *)
OneOffPreview == thumb # None /\ OneOff \notin cut => thumb = frame \/ chart
CardPreview ==
  /\ mem.lib # None /\ mem.key \notin cut => mem.lib = mem.card
  /\ \A k \in Keys \ cut : sidecar[k] # None => sidecar[k] = file[k].card
LibraryPreview == \A i \in rows : Picture(i) \notin cut => i \in frames /\ i \in origs

IInv == /\ Types /\ Current /\ OneOffPreview /\ CardPreview /\ LibraryPreview /\ NothingLeft
        /\ SameCard

-----------------------------------------------------------------------------
(* Names of what was cut never coincide.                                    *)

LEMMA Apart ==
  /\ OneOff \notin Keys
  /\ \A i : Picture(i) \notin Keys /\ Picture(i) # OneOff
<1>1. \A k \in Keys : DOMAIN k = {"module", "since"}
    BY DEF Keys
<1>2. \A s, i : DOMAIN Entry(s, i) = {"source", "pic"}
    BY DEF Entry
<1>3. "source" \notin {"module", "since"}
    OBVIOUS
<1>4. \A s, i : Entry(s, i) \notin Keys
    BY <1>1, <1>2, <1>3
<1>5. \A i : Entry("library", i).source = "library" /\ OneOff.source = "display"
    BY DEF Entry, OneOff
<1> QED BY <1>4, <1>5 DEF OneOff, Picture

LEMMA KeyTyped == ASSUME ClockTypes PROVE Key \in Keys
<1>1. slot \in Modules \/ Rotation[day] \in Modules
    BY ContentAssumption DEF ClockTypes, Slots
<1>2. day \in 0..MaxTime /\ segment \in 0..MaxTime /\ today \in 0..MaxTime
    BY ContentAssumption DEF ClockTypes
<1>3. Picked \in Modules /\ Since \in 0..MaxTime
    BY <1>2, ContentAssumption DEF Picked, Since
<1> QED BY <1>3 DEF Key, Keys

LEMMA FaultsTyped == ASSUME faults \in 0..MaxFaults, Fault \/ NoFault PROVE faults' \in 0..MaxFaults
BY ContentAssumption DEF Fault, NoFault

LEMMA InitIInv == Init => IInv
<1> SUFFICES ASSUME Init PROVE IInv
    OBVIOUS
<1>1. DisplayTypes /\ LibraryTypes /\ AnalysisTypes /\ CutTypes
    BY DEF Init, DisplayTypes, LibraryTypes, AnalysisTypes, CutTypes
<1>2. ClockTypes /\ faults \in 0..MaxFaults
    BY ContentAssumption DEF Init, ClockTypes
<1>3. NoMem \in MemsOf(used) /\ NoCard \in CardsOf(used)
    BY DEF NoMem, MemsOf, NoCard, CardsOf, HalfLives
<1>4. CardTypes
    BY <1>3 DEF Init, CardTypes, NoMem, NoCard
<1>5. Current
    BY DEF Init, Current, EntriesOf, NoEntry, Entry, None
<1>6. OneOffPreview /\ CardPreview /\ LibraryPreview /\ SameCard
    BY DEF Init, OneOffPreview, CardPreview, LibraryPreview, SameCard, NoMem
<1>7. NothingLeft
    BY DEF Init, NothingLeft
<1> QED BY <1>1, <1>2, <1>4, <1>5, <1>6, <1>7 DEF IInv, Types

-----------------------------------------------------------------------------
(* What a step leaves alone.                                                *)

LEMMA MoreUsed ==
  ASSUME CardTypes, used \subseteq used', UNCHANGED <<file, sidecar>>, mem' \in {mem, NoMem}
  PROVE  CardTypes'
<1>1. NoMem \in MemsOf(used') /\ NoMem.left = 0 /\ NoMem.lib = None
    BY DEF NoMem, MemsOf, HalfLives
<1>2. mem' \in MemsOf(used')
    BY <1>1 DEF CardTypes, MemsOf
<1>3. file' \in [Keys -> CardsOf(used')] /\ sidecar' \in [Keys -> used' \cup {None}]
    BY DEF CardTypes, CardsOf
<1> QED BY <1>1, <1>2, <1>3 DEF CardTypes

(* No card changes, except that the one in memory may be forgotten.         *)
LEMMA CardsStand ==
  ASSUME IInv, UNCHANGED <<file, sidecar>>, mem' \in {mem, NoMem},
         cut \cap Keys \subseteq cut'
  PROVE  CardPreview' /\ SameCard'
<1>1. NoMem.lib = None /\ NoMem.left = 0
    BY DEF NoMem
<1>2. mem.key \in Keys \cup {NoKey}
    BY DEF IInv, Types, CardTypes, MemsOf
<1>3. CASE mem' = mem
    <2>1. mem.key \in Keys \/ mem.lib = None
        BY <1>2 DEF IInv, Types, CardTypes
    <2>2. CardPreview'
        BY <1>3, <2>1 DEF IInv, CardPreview
    <2> QED BY <1>3, <2>2 DEF IInv, SameCard
<1>4. CASE mem' = NoMem
    BY <1>1, <1>4 DEF IInv, CardPreview, SameCard
<1> QED BY <1>3, <1>4

-----------------------------------------------------------------------------
(* The one-off picture.                                                     *)

LEMMA DisplayStep ==
  ASSUME IInv,
         \/ Clear
         \/ \E i \in Ids : \/ SaveUpload(i) \/ SaveRaw(i) \/ SavePushedFrame(i)
                           \/ SaveUploadCut(i)
  PROVE  IInv'
<1>1. /\ UNCHANGED <<library, scores, pushed, clock, file, sidecar>>
      /\ mem' \in {mem, NoMem} /\ pending' \subseteq pending
      /\ used \subseteq used' /\ used' \subseteq Ids
    BY DEF SaveUpload, SaveRaw, SavePushedFrame, Clear, SaveUploadCut, Fresh, Dies, analysis,
           cards, IInv, Types, LibraryTypes
<1>2. cut' \in {cut \ {OneOff}, cut \cup {OneOff}}
    BY DEF SaveUpload, SaveRaw, SavePushedFrame, Clear, SaveUploadCut
<1>3. Fault \/ NoFault
    BY Zenon DEF SaveUpload, SaveRaw, SavePushedFrame, Clear, SaveUploadCut, Dies
<1>4. faults' \in 0..MaxFaults
    BY <1>3, FaultsTyped DEF IInv, Types
<1>5. DisplayTypes'
    BY DEF SaveUpload, SaveRaw, SavePushedFrame, Clear, SaveUploadCut, Fresh, IInv, Types,
           DisplayTypes
<1>6. LibraryTypes' /\ AnalysisTypes' /\ CutTypes'
    BY <1>1, <1>2 DEF IInv, Types, LibraryTypes, AnalysisTypes, CutTypes, library
<1>7. ClockTypes'
    BY <1>1 DEF IInv, Types, ClockTypes, clock
<1>8. CardTypes'
    BY <1>1, MoreUsed DEF IInv, Types
<1>9. Types'
    BY <1>4, <1>5, <1>6, <1>7, <1>8 DEF Types
<1>10. CardPreview' /\ SameCard'
    BY <1>1, <1>2, Apart, CardsStand
<1>11. LibraryPreview' /\ NothingLeft'
    BY <1>1, <1>2, Apart DEF IInv, LibraryPreview, NothingLeft, library
<1>12. OneOffPreview'
    BY DEF SaveUpload, SaveRaw, SavePushedFrame, Clear, SaveUploadCut, OneOffPreview, IInv
<1>13. Current'
    <2>1. CASE listed' = NoEntry
        BY <2>1 DEF Current, EntriesOf, NoEntry, Entry, None
    <2>2. CASE listed' = listed /\ listed.source # "display" /\ mem' = mem
        <3>1. FreeCard' = FreeCard
            BY <1>1, <2>2 DEF FreeCard, MemHit, Key, Picked, Since, clock
        <3> QED BY <1>1, <1>2, <2>2, <3>1, Apart DEF IInv, Current, EntriesOf, library
    <2> QED BY <2>1, <2>2
            DEF SaveUpload, SaveRaw, SavePushedFrame, Clear, SaveUploadCut, Replaces, cards
<1> QED BY <1>9, <1>10, <1>11, <1>12, <1>13 DEF IInv

-----------------------------------------------------------------------------
(* The pictures of the library.                                             *)

LEMMA LibraryStep ==
  ASSUME IInv, NEW i \in Ids,
         \/ Upload(i) \/ Analysed(i) \/ Delete(i) \/ Push(i) \/ Unpush
         \/ UploadCut(i) \/ DeleteCut(i)
  PROVE  IInv'
<1>1. /\ UNCHANGED <<display, clock, file, sidecar>>
      /\ mem' \in {mem, NoMem} /\ used \subseteq used' /\ used' \subseteq Ids
      /\ cut \subseteq cut' /\ cut' \subseteq cut \cup {Picture(i)}
    BY DEF Upload, Analysed, Delete, Push, Unpush, UploadCut, DeleteCut, Fresh, Dies, cards,
           IInv, Types, LibraryTypes
<1>2. Fault \/ NoFault
    BY Zenon DEF Upload, Analysed, Delete, Push, Unpush, UploadCut, DeleteCut, Dies
<1>3. faults' \in 0..MaxFaults
    BY <1>2, FaultsTyped DEF IInv, Types
<1>4. LibraryTypes' /\ AnalysisTypes'
    BY <1>1 DEF Upload, Analysed, Delete, Push, Unpush, UploadCut, DeleteCut, Fresh, Dies,
           library, analysis, IInv, Types, LibraryTypes, AnalysisTypes
<1>5. cut' = cut \/ i \in used'
    BY <1>1 DEF Upload, Analysed, Delete, Push, Unpush, UploadCut, DeleteCut, Fresh, Dies,
           IInv, Types, LibraryTypes, AnalysisTypes
<1>6. DisplayTypes' /\ CutTypes'
    BY <1>1, <1>5 DEF IInv, Types, DisplayTypes, CutTypes, display
<1>7. ClockTypes'
    BY <1>1 DEF IInv, Types, ClockTypes, clock
<1>8. CardTypes'
    BY <1>1, MoreUsed DEF IInv, Types
<1>9. Types'
    BY <1>3, <1>4, <1>6, <1>7, <1>8 DEF Types
<1>10. CardPreview' /\ SameCard'
    BY <1>1, CardsStand
<1>11. OneOffPreview'
    BY <1>1 DEF IInv, OneOffPreview, display
<1>12. LibraryPreview'
    BY <1>1 DEF Upload, Analysed, Delete, Push, Unpush, UploadCut, DeleteCut, library, IInv,
           LibraryPreview
<1>13. NothingLeft'
    BY <1>1 DEF Upload, Analysed, Delete, Push, Unpush, UploadCut, DeleteCut, library, analysis,
           IInv, NothingLeft
<1>14. Current'
    <2>1. CASE listed' = NoEntry
        BY <2>1 DEF Current, EntriesOf, NoEntry, Entry, None
    <2>2. CASE listed' = listed /\ listed.source = "free" /\ mem' = mem
        <3>1. FreeCard' = FreeCard
            BY <1>1, <2>2 DEF FreeCard, MemHit, Key, Picked, Since, clock
        <3> QED BY <1>1, <2>2, <3>1 DEF IInv, Current, EntriesOf
    <2>3. CASE listed' = listed /\ listed.source \in {None, "display"}
        BY <1>1, <2>3 DEF IInv, Current, EntriesOf, display, None
    <2>4. CASE listed' = listed /\ listed.source = "library"
        <3>1. \/ Picture(listed.pic) \in cut'
              \/ listed.pic \in rows' \cap frames'
              \/ Delete(i) /\ listed.pic = i
            BY <1>1, <2>4 DEF Upload, Analysed, Delete, Push, Unpush, UploadCut, DeleteCut,
                              library, IInv, Current
        <3>2. ASSUME Delete(i), listed.pic = i PROVE FALSE
            <4>1. listed' = NoEntry
                BY <2>4, <3>2 DEF Delete, Entry, IInv, Current, EntriesOf
            <4> QED BY <2>4, <4>1 DEF NoEntry, Entry, None
        <3> QED BY <1>1, <2>4, <3>1, <3>2 DEF IInv, Current, EntriesOf
    <2>5. listed' = NoEntry \/ listed' = listed
        BY DEF Upload, Analysed, Delete, Push, Unpush, UploadCut, DeleteCut, Replaced
    <2>6. listed' = listed /\ listed.source = "free" => mem' = mem
        BY DEF Upload, Analysed, Delete, Push, Unpush, UploadCut, DeleteCut, Replaced, cards,
               NoEntry, Entry, None
    <2>7. listed.source \in {None, "display", "free", "library"}
        BY DEF IInv, Current, EntriesOf
    <2> QED BY <2>1, <2>2, <2>3, <2>4, <2>5, <2>6, <2>7
<1> QED BY <1>9, <1>10, <1>11, <1>12, <1>13, <1>14 DEF IInv

-----------------------------------------------------------------------------
(* Time and the end of the process: an entry for a free card is taken back. *)

LEMMA FreeTakenBack ==
  ASSUME IInv, Replaced, UNCHANGED <<used, display, library>>, cut' = cut
  PROVE  Current'
<1>1. CASE listed' = NoEntry
    BY <1>1 DEF Current, EntriesOf, NoEntry, Entry, None
<1>2. CASE listed' = listed /\ listed.source # "free"
    BY <1>2 DEF IInv, Current, EntriesOf, display, library
<1> QED BY <1>1, <1>2 DEF Replaced

LEMMA OlderTyped == \A n \in 0..HalfLives : Older(n) \in 0..HalfLives /\ (Older(n) > 0 => n > 0)
BY DEF Older, HalfLives

LEMMA SixHoursCards == ASSUME IInv, SixHours PROVE CardTypes' /\ CardPreview' /\ SameCard'
<1>1. /\ mem' = [mem EXCEPT !.left = Older(mem.left)]
      /\ file' = [k \in Keys |-> [file[k] EXCEPT !.left = Older(file[k].left)]]
      /\ UNCHANGED <<used, sidecar, cut>>
    BY DEF SixHours
<1>2. mem \in MemsOf(used) /\ file \in [Keys -> CardsOf(used)]
    BY DEF IInv, Types, CardTypes
<1>3. mem.left \in 0..HalfLives /\ \A k \in Keys : file[k].left \in 0..HalfLives
    BY <1>2 DEF MemsOf, CardsOf
<1>4. /\ mem' \in MemsOf(used) /\ mem'.key = mem.key /\ mem'.card = mem.card
      /\ mem'.lib = mem.lib /\ mem'.left = Older(mem.left)
    BY <1>1, <1>2, <1>3, OlderTyped DEF MemsOf
<1>5. file' \in [Keys -> CardsOf(used)] /\ \A k \in Keys : /\ file'[k].card = file[k].card
                                                          /\ file'[k].left = Older(file[k].left)
    BY <1>1, <1>2, <1>3, OlderTyped DEF CardsOf
<1>6. CardTypes'
    BY <1>1, <1>3, <1>4, <1>5, OlderTyped DEF IInv, Types, CardTypes
<1>7. CardPreview'
    BY <1>1, <1>4, <1>5 DEF IInv, CardPreview
<1>8. SameCard'
    BY <1>1, <1>3, <1>4, <1>5, OlderTyped DEF IInv, SameCard
<1> QED BY <1>6, <1>7, <1>8

LEMMA ClockStep ==
  ASSUME IInv, (\E s \in Slots : NewSegment(s)) \/ Midnight \/ SixHours \/ Restart
  PROVE  IInv'
<1>1. /\ UNCHANGED <<used, display, library, scores, cut>> /\ Replaced
      /\ pending' \subseteq pending /\ pushed' \in {pushed, None}
    BY DEF NewSegment, Midnight, SixHours, Restart, Dies, analysis
<1>2. Fault \/ NoFault
    BY Zenon DEF NewSegment, Midnight, SixHours, Restart, Dies
<1>3. faults' \in 0..MaxFaults
    BY <1>2, FaultsTyped DEF IInv, Types
<1>4. ClockTypes'
    <2>1. CASE UNCHANGED clock
        BY <2>1 DEF IInv, Types, ClockTypes, clock
    <2>2. CASE Midnight \/ \E s \in Slots : NewSegment(s)
        <3>1. /\ now \in 0..MaxTime /\ now < MaxTime /\ now' = now + 1
              /\ slot' \in Slots
              /\ segment' \in {segment, now'} /\ today' \in {today, now'}
              /\ day' \in {day, day + 1}
            BY <2>2 DEF Midnight, NewSegment, IInv, Types, ClockTypes
        <3>2. segment \in 0..now /\ today \in 0..now /\ day \in 0..now
            BY DEF IInv, Types, ClockTypes
        <3> QED BY <3>1, <3>2, ContentAssumption DEF ClockTypes
    <2> QED BY <2>1, <2>2 DEF SixHours, Restart
<1>5. DisplayTypes' /\ LibraryTypes' /\ AnalysisTypes' /\ CutTypes'
    BY <1>1 DEF IInv, Types, DisplayTypes, LibraryTypes, AnalysisTypes, CutTypes, display, library
<1>6. CardTypes' /\ CardPreview' /\ SameCard'
    <2>1. CASE UNCHANGED <<file, sidecar>> /\ mem' \in {mem, NoMem}
        BY <1>1, <2>1, MoreUsed, CardsStand DEF IInv, Types
    <2> QED BY <2>1, SixHoursCards DEF NewSegment, Midnight, Restart, Dies, cards
<1>7. Types'
    BY <1>3, <1>4, <1>5, <1>6 DEF Types
<1>8. OneOffPreview' /\ LibraryPreview' /\ NothingLeft'
    BY <1>1 DEF IInv, OneOffPreview, LibraryPreview, NothingLeft, display, library
<1>9. Current'
    BY <1>1, FreeTakenBack
<1> QED BY <1>6, <1>7, <1>8, <1>9 DEF IInv

-----------------------------------------------------------------------------
(* The free card.                                                           *)

LEMMA FromCacheCards ==
  ASSUME IInv, FromCache, UNCHANGED <<display, analysis, pushed, clock>>, NoFault
  PROVE  /\ Types' /\ CardPreview' /\ SameCard'
         /\ FreeCard' = FreeCard /\ mem'.card = FreeCard /\ mem'.card \in used' \cup {None, Torn}
<1>1. UNCHANGED <<used, library, file, sidecar, cut, display, analysis, pushed, clock>>
    BY DEF FromCache
<1>2. Key' = Key /\ Key \in Keys
    BY <1>1, KeyTyped DEF IInv, Types, Key, Picked, Since, clock
<1>3. mem \in MemsOf(used) /\ file[Key] \in CardsOf(used) /\ sidecar[Key] \in used \cup {None}
    BY <1>2 DEF IInv, Types, CardTypes
<1>4. CASE MemHit
    <2>1. mem' = mem
        BY <1>4 DEF FromCache
    <2>2. CardTypes' /\ CardPreview' /\ SameCard'
        BY <1>1, <2>1, MoreUsed, CardsStand DEF IInv, Types
    <2>3. mem'.card = FreeCard /\ MemHit'
        BY <1>2, <1>4, <2>1 DEF FreeCard, MemHit
    <2>4. FreeCard' = FreeCard
        BY <2>3 DEF FreeCard
    <2> QED BY <1>1, <1>3, <2>1, <2>2, <2>3, <2>4, FaultsTyped
            DEF IInv, Types, DisplayTypes, LibraryTypes, AnalysisTypes, ClockTypes, CutTypes,
                display, library, analysis, clock, MemsOf
<1>5. CASE ~MemHit
    <2>1. /\ file[Key].left > 0
          /\ mem' = [key |-> Key, card |-> file[Key].card, lib |-> sidecar[Key], left |-> HalfLives]
        BY <1>5 DEF FromCache, FileHit
    <2>2. /\ mem' \in MemsOf(used) /\ mem'.key = Key /\ mem'.card = file[Key].card
          /\ mem'.lib = sidecar[Key] /\ mem'.left = HalfLives
        BY <1>2, <1>3, <2>1 DEF MemsOf, CardsOf, HalfLives
    <2>3. file[Key].card # None /\ Key # NoKey
        BY <1>2, <2>1, ContentAssumption DEF IInv, Types, CardTypes, NoKey, Keys
    <2>4. CardTypes'
        BY <1>1, <2>2, <2>3 DEF IInv, Types, CardTypes
    <2>5. CardPreview' /\ SameCard'
        BY <1>1, <1>2, <2>2 DEF IInv, CardPreview, SameCard
    <2>6. MemHit' /\ mem'.card = FreeCard
        BY <1>2, <1>5, <2>2 DEF MemHit, FreeCard, HalfLives
    <2>7. FreeCard' = FreeCard
        BY <2>6 DEF FreeCard
    <2> QED BY <1>1, <1>3, <2>2, <2>4, <2>5, <2>6, <2>7, FaultsTyped
            DEF IInv, Types, DisplayTypes, LibraryTypes, AnalysisTypes, ClockTypes, CutTypes,
                display, library, analysis, clock, MemsOf
<1> QED BY <1>4, <1>5

(* Whatever of a generation was written, everything but the list is as it   *)
(* was promised, and the new card is the one in memory.                     *)
LEMMA GenerateCards ==
  ASSUME IInv, NEW i \in Ids, Generate(i), UNCHANGED <<display, analysis, pushed, clock>>
  PROVE  /\ Types' /\ OneOffPreview' /\ CardPreview' /\ LibraryPreview' /\ NothingLeft' /\ SameCard'
         /\ used \subseteq used' /\ cut \ Keys \subseteq cut'
         /\ rows \subseteq rows' /\ frames \subseteq frames'
         /\ mem'.card = FreeCard' /\ mem'.card \in used'
<1>1. Key' = Key /\ Key \in Keys /\ Key # NoKey
    BY KeyTyped, ContentAssumption
       DEF IInv, Types, Key, Picked, Since, clock, NoKey, Keys
<1>2. PICK saved \in BOOLEAN, written \in {"all", "frame", "part", "none"} :
        /\ Fault \/ NoFault
        /\ IF saved THEN /\ rows' = rows \cup {i}
                         /\ frames' = frames \cup {i} /\ origs' = origs \cup {i}
                    ELSE UNCHANGED library
        /\ LET lib == IF saved THEN i ELSE None
               c   == IF written = "part" THEN Torn ELSE i
           IN /\ file' = IF written = "none" THEN file
                         ELSE [file EXCEPT ![Key] = [card |-> c, left |-> HalfLives]]
              /\ sidecar' = IF written = "all" THEN [sidecar EXCEPT ![Key] = lib] ELSE sidecar
              /\ mem' = [key |-> Key, card |-> i, lib |-> lib, left |-> HalfLives]
        /\ cut' = IF written = "all" THEN cut \ {Key} ELSE cut \cup {Key}
    BY Zenon DEF Generate
<1> DEFINE lib == IF saved THEN i ELSE None
           c == IF written = "part" THEN Torn ELSE i
<1>3. used' = used \cup {i} /\ used' \subseteq Ids
    BY DEF Generate, Fresh, IInv, Types, LibraryTypes
<1>4. i # None /\ i # Torn
    BY ContentAssumption
<1>5. faults' \in 0..MaxFaults
    BY <1>2, FaultsTyped DEF IInv, Types
<1>6. LibraryTypes' /\ rows \subseteq rows' /\ frames \subseteq frames'
    BY <1>2, <1>3 DEF IInv, Types, LibraryTypes, library
<1>7. DisplayTypes' /\ AnalysisTypes'
    BY <1>3 DEF IInv, Types, DisplayTypes, AnalysisTypes, display, analysis
<1>8. ClockTypes'
    BY DEF IInv, Types, ClockTypes, clock
<1>9. CutTypes' /\ cut \ Keys \subseteq cut'
    BY <1>1, <1>2, <1>3 DEF IInv, Types, CutTypes
<1>10. lib \in used' \cup {None} /\ c \in used' \cup {None, Torn} /\ c # None
    BY <1>3, <1>4, ContentAssumption DEF None, Torn
<1>11. /\ mem' \in MemsOf(used') /\ mem'.key = Key /\ mem'.card = i /\ mem'.lib = lib
       /\ mem'.left = HalfLives /\ HalfLives > 0
    BY <1>1, <1>2, <1>3, <1>10 DEF MemsOf, HalfLives
<1>12. /\ [card |-> c, left |-> HalfLives] \in CardsOf(used')
       /\ file \in [Keys -> CardsOf(used')] /\ sidecar \in [Keys -> used' \cup {None}]
    BY <1>3, <1>10 DEF IInv, Types, CardTypes, CardsOf, HalfLives
<1>13. ASSUME written = "none" PROVE CardTypes' /\ CardPreview' /\ SameCard'
    <2>1. file' = file /\ sidecar' = sidecar /\ cut' = cut \cup {Key}
        BY <1>2, <1>13
    <2>2. CardTypes'
        BY <1>1, <1>4, <1>11, <1>12, <2>1 DEF IInv, Types, CardTypes
    <2>3. CardPreview' /\ SameCard'
        BY <1>1, <1>11, <2>1 DEF IInv, CardPreview, SameCard
    <2> QED BY <2>2, <2>3
<1>14. ASSUME written \in {"frame", "part"} PROVE CardTypes' /\ CardPreview' /\ SameCard'
    <2>1. /\ file' = [file EXCEPT ![Key] = [card |-> c, left |-> HalfLives]]
          /\ sidecar' = sidecar /\ cut' = cut \cup {Key}
        BY <1>2, <1>14
    <2>2. file' \in [Keys -> CardsOf(used')]
        BY <1>1, <1>12, <2>1
    <2>3. CardTypes'
        BY <1>1, <1>4, <1>10, <1>11, <1>12, <2>1, <2>2 DEF IInv, Types, CardTypes
    <2>4. CardPreview' /\ SameCard'
        BY <1>1, <1>11, <1>12, <2>1 DEF IInv, CardPreview, SameCard
    <2> QED BY <2>3, <2>4
<1>15. ASSUME written = "all" PROVE CardTypes' /\ CardPreview' /\ SameCard'
    <2>1. /\ file' = [file EXCEPT ![Key] = [card |-> i, left |-> HalfLives]]
          /\ sidecar' = [sidecar EXCEPT ![Key] = lib] /\ cut' = cut \ {Key}
        BY <1>2, <1>15
    <2>2. file' \in [Keys -> CardsOf(used')] /\ sidecar' \in [Keys -> used' \cup {None}]
        BY <1>1, <1>10, <1>12, <1>15, <2>1
    <2>3. CardTypes'
        BY <1>1, <1>4, <1>11, <1>12, <2>1, <2>2 DEF IInv, Types, CardTypes
    <2>4. lib # None => lib = i
        OBVIOUS
    <2>5. CardPreview' /\ SameCard'
        <3> HIDE DEF lib
        <3> QED BY <1>1, <1>11, <1>12, <2>1, <2>4 DEF IInv, CardPreview, SameCard, Types, CardTypes
    <2> QED BY <2>3, <2>5
<1>16. CardTypes' /\ CardPreview' /\ SameCard'
    BY <1>13, <1>14, <1>15
<1>17. Types'
    BY <1>5, <1>6, <1>7, <1>8, <1>9, <1>16 DEF Types
<1>18. OneOffPreview' /\ NothingLeft'
    BY <1>6, <1>9, Apart DEF IInv, OneOffPreview, NothingLeft, display, analysis
<1>19. LibraryPreview'
    BY <1>2, <1>9, Apart DEF IInv, LibraryPreview, library
<1>20. MemHit' /\ mem'.card = FreeCard'
    BY <1>1, <1>11 DEF MemHit, FreeCard
<1> QED BY <1>3, <1>6, <1>9, <1>11, <1>16, <1>17, <1>18, <1>19, <1>20

LEMMA CardStep == ASSUME IInv, AskFree \/ \E i \in Ids : Regenerate(i) PROVE IInv'
<1>1. CASE FromCache /\ NoFault /\ UNCHANGED listed /\ UNCHANGED <<display, analysis, pushed, clock>>
    <2>1. Types' /\ CardPreview' /\ SameCard' /\ FreeCard' = FreeCard
        BY <1>1, FromCacheCards
    <2>2. UNCHANGED <<used, display, library, analysis, pushed, listed, cut>>
        BY <1>1 DEF FromCache
    <2>3. Current' /\ OneOffPreview' /\ LibraryPreview' /\ NothingLeft'
        BY <2>1, <2>2 DEF IInv, Current, EntriesOf, OneOffPreview, LibraryPreview, NothingLeft,
                         display, library, analysis
    <2> QED BY <2>1, <2>3 DEF IInv
<1>2. ASSUME NEW i \in Ids, Generate(i), Replaces("free"),
             UNCHANGED <<display, analysis, pushed, clock>>
      PROVE  IInv'
    <2>1. /\ Types' /\ OneOffPreview' /\ CardPreview' /\ LibraryPreview' /\ NothingLeft' /\ SameCard'
          /\ used \subseteq used' /\ cut \ Keys \subseteq cut'
          /\ rows \subseteq rows' /\ frames \subseteq frames'
        BY <1>2, GenerateCards
    <2>2. CASE listed' = NoEntry
        BY <2>1, <2>2 DEF IInv, Current, EntriesOf, NoEntry, Entry, None
    <2>3. CASE listed' = listed /\ listed.source # "free"
        BY <1>2, <2>1, <2>3, Apart DEF IInv, Current, EntriesOf, display
    <2> QED BY <1>2, <2>2, <2>3 DEF Replaces
<1> QED BY <1>1, <1>2 DEF AskFree, Regenerate

LEMMA ListStep == ASSUME IInv, ContentList PROVE IInv'
<1>1. UNCHANGED <<display, analysis, pushed, clock>>
    BY DEF ContentList
<1>2. ASSUME UNCHANGED <<used, library, cards, cut>>, Fault \/ NoFault, Current'
      PROVE  IInv'
    <2>1. faults' \in 0..MaxFaults
        BY <1>2, FaultsTyped DEF IInv, Types
    <2>2. CardTypes' /\ CardPreview' /\ SameCard'
        BY <1>2, MoreUsed, CardsStand DEF IInv, Types, cards
    <2>3. Types'
        BY <1>1, <1>2, <2>1, <2>2
           DEF IInv, Types, DisplayTypes, LibraryTypes, AnalysisTypes, ClockTypes, CutTypes,
               display, library, analysis, clock
    <2>4. OneOffPreview' /\ LibraryPreview' /\ NothingLeft'
        BY <1>1, <1>2 DEF IInv, OneOffPreview, LibraryPreview, NothingLeft, display, library,
                          analysis
    <2> QED BY <1>2, <2>2, <2>3, <2>4 DEF IInv
<1>3. CASE ListDisplay
    <2>1. frame \in used /\ listed' = Entry("display", frame) /\ used' = used /\ frame' = frame
        BY <1>1, <1>3 DEF ListDisplay, Manual, IInv, Types, DisplayTypes, display
    <2>2. Current'
        BY <2>1 DEF Current, EntriesOf, Entry
    <2> QED BY <1>2, <1>3, <2>2 DEF ListDisplay
<1>4. CASE ListNoCard
    <2>1. Current'
        BY <1>4 DEF ListNoCard, Current, EntriesOf, NoEntry, Entry, None
    <2> QED BY <1>2, <1>4, <2>1 DEF ListNoCard
<1>5. CASE ListPhoto
    <2>1. UNCHANGED <<rows, frames, used, cut>>
        BY <1>5 DEF ListPhoto, library
    <2>2. CASE pushed \in rows
        <3>1. listed' = Entry("library", pushed) /\ pushed \in used
            BY <1>5, <2>2 DEF ListPhoto, IInv, Types, LibraryTypes
        <3>2. Picture(pushed) \in cut' \/ pushed \in rows' \cap frames'
            BY <2>1, <2>2 DEF IInv, LibraryPreview
        <3>3. Current'
            BY <2>1, <3>1, <3>2 DEF Current, EntriesOf, Entry
        <3> QED BY <1>2, <1>5, <3>3 DEF ListPhoto
    <2>3. CASE pushed \notin rows
        <3>1. Current'
            BY <1>5, <2>3 DEF ListPhoto, Current, EntriesOf, NoEntry, Entry, None
        <3> QED BY <1>2, <1>5, <3>1 DEF ListPhoto
    <2> QED BY <2>2, <2>3
<1>6. CASE ListFree
    <2>1. listed' = Entry("free", mem'.card)
        BY <1>6 DEF ListFree
    <2>2. CASE FromCache /\ NoFault
        <3>1. /\ Types' /\ CardPreview' /\ SameCard'
              /\ mem'.card = FreeCard' /\ mem'.card \in used' \cup {None, Torn}
            BY <1>1, <2>2, FromCacheCards
        <3>2. Current'
            BY <2>1, <3>1 DEF Current, EntriesOf, Entry
        <3>3. UNCHANGED <<used, display, library, analysis, pushed, cut>>
            BY <1>1, <2>2 DEF FromCache
        <3>4. OneOffPreview' /\ LibraryPreview' /\ NothingLeft'
            BY <3>3 DEF IInv, OneOffPreview, LibraryPreview, NothingLeft, display, library,
                       analysis
        <3> QED BY <3>1, <3>2, <3>4 DEF IInv
    <2>3. ASSUME NEW i \in Ids, Generate(i)
          PROVE  IInv'
        <3>1. /\ Types' /\ OneOffPreview' /\ CardPreview' /\ LibraryPreview' /\ NothingLeft'
              /\ SameCard' /\ mem'.card = FreeCard' /\ mem'.card \in used'
            BY <1>1, <2>3, GenerateCards
        <3>2. Current'
            BY <2>1, <3>1 DEF Current, EntriesOf, Entry
        <3> QED BY <3>1, <3>2 DEF IInv
    <2> QED BY <1>6, <2>2, <2>3 DEF ListFree
<1> QED BY <1>3, <1>4, <1>5, <1>6 DEF ContentList

(* A generation the process does not survive.                               *)
LEMMA GenerateCutStep == ASSUME IInv, NEW i \in Ids, GenerateCut(i) PROVE IInv'
<1>1. PICK c \in {Torn, i} : file' = [file EXCEPT ![Key] = [card |-> c, left |-> HalfLives]]
    BY DEF GenerateCut
<1>2. /\ used' = used \cup {i} /\ used' \subseteq Ids /\ i # None /\ c # None
      /\ mem' = NoMem /\ pending' = {} /\ listed' = NoEntry /\ cut' = cut \cup {Key}
      /\ origs' = origs \cup {i} /\ frames' = frames \cup {i} /\ rows' = rows \cup {i}
      /\ UNCHANGED <<display, scores, pushed, clock, sidecar>>
    BY ContentAssumption
       DEF GenerateCut, Fresh, Dies, IInv, Types, LibraryTypes, None, Torn
<1>3. Key \in Keys
    BY KeyTyped DEF IInv, Types
<1>4. faults' \in 0..MaxFaults
    BY FaultsTyped DEF GenerateCut, Dies, IInv, Types
<1>5. DisplayTypes' /\ LibraryTypes' /\ AnalysisTypes' /\ ClockTypes' /\ CutTypes'
    BY <1>2, <1>3 DEF IInv, Types, DisplayTypes, LibraryTypes, AnalysisTypes, ClockTypes,
                      CutTypes, display, clock
<1>6. /\ [card |-> c, left |-> HalfLives] \in CardsOf(used')
      /\ file \in [Keys -> CardsOf(used')] /\ sidecar' \in [Keys -> used' \cup {None}]
    BY <1>2 DEF IInv, Types, CardTypes, CardsOf, HalfLives
<1>7. NoMem \in MemsOf(used') /\ NoMem.left = 0 /\ NoMem.lib = None
    BY DEF NoMem, MemsOf, HalfLives
<1>8. CardTypes'
    <2>1. /\ file' \in [Keys -> CardsOf(used')]
          /\ \A k \in Keys : file'[k] = IF k = Key THEN [card |-> c, left |-> HalfLives] ELSE file[k]
        BY <1>1, <1>3, <1>6
    <2>2. \A k \in Keys : file'[k].left > 0 => file'[k].card # None
        BY <1>2, <2>1 DEF IInv, Types, CardTypes
    <2>3. mem' \in MemsOf(used') /\ ~(mem'.left > 0) /\ mem'.lib = None
        BY <1>2, <1>7
    <2> QED BY <1>6, <2>1, <2>2, <2>3 DEF CardTypes
<1>9. CardPreview' /\ SameCard'
    BY <1>1, <1>2, <1>3, <1>6, <1>7 DEF IInv, CardPreview, SameCard
<1>10. OneOffPreview' /\ NothingLeft' /\ LibraryPreview'
    BY <1>2, <1>3, Apart DEF IInv, OneOffPreview, NothingLeft, LibraryPreview, display
<1>11. Current'
    BY <1>2 DEF Current, EntriesOf, NoEntry, Entry, None
<1> QED BY <1>4, <1>5, <1>8, <1>9, <1>10, <1>11 DEF IInv, Types

LEMMA NextIInv == IInv /\ [Next]_vars => IInv'
<1> SUFFICES ASSUME IInv, [Next]_vars PROVE IInv'
    OBVIOUS
<1>1. CASE UNCHANGED vars
    BY <1>1 DEF vars, display, library, analysis, clock, cards, IInv, Types, DisplayTypes,
                LibraryTypes, AnalysisTypes, ClockTypes, CardTypes, CutTypes, Current,
                OneOffPreview, CardPreview, LibraryPreview, NothingLeft, SameCard, FreeCard,
                MemHit, Key, Picked, Since, EntriesOf
<1>2. CASE Unpush
    <2>1. pushed \in Ids
        BY <1>2 DEF Unpush, IInv, Types, LibraryTypes, AnalysisTypes
    <2> QED BY <1>2, <2>1, LibraryStep
<1> QED BY <1>1, <1>2, DisplayStep, LibraryStep, ClockStep, CardStep, ListStep, GenerateCutStep
        DEF Next, Cut

-----------------------------------------------------------------------------
(* The theorems.                                                            *)

LEMMA Inductive == Spec => []IInv
BY InitIInv, NextIInv, PTL DEF Spec

(* Every picture that is on the screen, in the library, in a cache or in    *)
(* the list has been made, and the clock stays within its bounds.           *)
THEOREM TypeCorrect == Spec => []TypeOK
<1>1. IInv => TypeOK
    BY DEF IInv, Types, DisplayTypes, LibraryTypes, AnalysisTypes, ClockTypes, CardTypes,
           CutTypes, Current, TypeOK, MemsOf, CardsOf, EntriesOf
<1> QED BY Inductive, <1>1, PTL

(* The frame gets what it was told, through any uploads, pushes, deletions, *)
(* cards, restarts and failures (images.py and free_module.py).             *)
THEOREM ListedStaysServed == Spec => []ListedIsServed
<1>1. ASSUME IInv, listed.source # None, Picture(listed.pic) \notin cut
      PROVE  Raw(listed) = listed.pic
    <2>1. CASE listed.source = "display"
        BY <1>1, <2>1 DEF IInv, Current, Raw
    <2>2. CASE listed.source = "free"
        BY <1>1, <2>2 DEF IInv, Current, Raw, FreeCard
    <2>3. CASE listed.source = "library"
        BY <1>1, <2>3 DEF IInv, Current, Raw
    <2> QED BY <1>1, <2>1, <2>2, <2>3 DEF IInv, Current, EntriesOf
<1>2. IInv => ListedIsServed
    BY <1>1 DEF ListedIsServed
<1> QED BY Inductive, <1>2, PTL

(* A preview is of the frame it stands for, except beside a chart drawn     *)
(* over an upload and what was written by halves (display.py,               *)
(* free_module.py, images.py).                                              *)
THEOREM PreviewsMatch == Spec => []PreviewOfTheFrame
<1>1. IInv => PreviewOfTheFrame
    BY DEF IInv, OneOffPreview, CardPreview, LibraryPreview, PreviewOfTheFrame, Previewed
<1> QED BY Inductive, <1>1, PTL

(* Deleting a picture of the library takes its score and its push with it   *)
(* (images.py).                                                             *)
THEOREM DeletedIsGone == Spec => []NothingLeft
<1>1. IInv => NothingLeft
    BY DEF IInv
<1> QED BY Inductive, <1>1, PTL

(* The card of a key that lives in its file and was not cut is the file's.  *)
LEMMA CardOfFile ==
  ASSUME IInv, NEW k \in Keys, file[k].left > 0, k \notin cut
  PROVE  Card(k) = file[k].card
BY DEF Card, IInv, SameCard

(* Only a generation writes a file, and only of a key whose file is due.    *)
LEMMA FileStays ==
  ASSUME IInv, [Next]_vars, NEW k \in Keys, file[k].left > 0, k \notin cut'
  PROVE  \/ k \notin cut /\ file'[k].card = file[k].card
         \/ \E i \in Ids : Regenerate(i)
<1>1. CASE file' = file /\ cut \cap Keys \subseteq cut'
    BY <1>1
<1>2. ASSUME NEW i \in Ids, Generate(i) \/ GenerateCut(i), k # Key
      PROVE  k \notin cut /\ file'[k].card = file[k].card
    <2>1. Key \in Keys /\ file \in [Keys -> CardsOf(used)]
        BY KeyTyped DEF IInv, Types, CardTypes
    <2>2. k \notin cut
        BY <1>2 DEF Generate, GenerateCut
    <2>3. file'[k] = file[k]
        BY <1>2, <2>1 DEF Generate, GenerateCut
    <2> QED BY <2>2, <2>3
<1>3. CASE SixHours
    <2>1. file \in [Keys -> CardsOf(used)]
        BY DEF IInv, Types, CardTypes
    <2> QED BY <1>3, <2>1 DEF SixHours, CardsOf
<1>4. CASE AskFree \/ ContentList
    <2>1. CASE FromCache \/ UNCHANGED <<cards, cut>>
        BY <1>1, <2>1 DEF FromCache, cards
    <2>2. ASSUME NEW i \in Ids, Generate(i), ~FileHit
          PROVE  k # Key
        BY <2>2 DEF FileHit
    <2> QED BY <1>2, <1>4, <2>1, <2>2
            DEF AskFree, ContentList, ListDisplay, ListFree, ListNoCard, ListPhoto
<1>5. ASSUME NEW i \in Ids, GenerateCut(i)
      PROVE  k # Key
    BY <1>5 DEF GenerateCut
<1>6. CASE Clear \/ Unpush \/ Midnight \/ Restart \/ UNCHANGED vars
    <2>1. file' = file /\ cut \cap Keys \subseteq cut'
        BY <1>6, Apart DEF Clear, Unpush, Midnight, Restart, Dies, vars, cards
    <2> QED BY <1>1, <2>1
<1>7. ASSUME NEW s \in Slots, NewSegment(s)
      PROVE  file' = file /\ cut \cap Keys \subseteq cut'
    BY <1>7 DEF NewSegment, cards
<1>8. ASSUME NEW i \in Ids,
             \/ SaveUpload(i) \/ SaveRaw(i) \/ SavePushedFrame(i) \/ SaveUploadCut(i)
             \/ Upload(i) \/ Analysed(i) \/ Delete(i) \/ Push(i) \/ UploadCut(i) \/ DeleteCut(i)
      PROVE  file' = file /\ cut \cap Keys \subseteq cut'
    BY <1>8, Apart
       DEF SaveUpload, SaveRaw, SavePushedFrame, SaveUploadCut, Upload, Analysed, Delete, Push,
           UploadCut, DeleteCut, cards
<1> QED BY <1>1, <1>2, <1>3, <1>4, <1>5, <1>6, <1>7, <1>8 DEF Next, Cut

(* A card stays the card of its segment while its file lives, unless a new  *)
(* one is asked for (free_module.py).                                       *)
THEOREM CardsStay == Spec => CardStays
<1>1. ASSUME IInv, IInv', [Next]_vars
      PROVE  SameCards
    <2>1. ASSUME NEW k \in Keys, file[k].left > 0, file'[k].left > 0, k \notin cut'
          PROVE  Card(k)' = Card(k) \/ \E i \in Ids : Regenerate(i)
        <3>1. Card(k)' = file'[k].card
            BY <1>1, <2>1 DEF Card, IInv, SameCard
        <3>2. CASE k \notin cut /\ file'[k].card = file[k].card
            BY <1>1, <2>1, <3>1, <3>2, CardOfFile
        <3> QED BY <1>1, <2>1, <3>2, FileStays
    <2>2. slot \in Modules /\ slot' = slot /\ segment' = segment => Key' = Key
        BY ContentAssumption DEF Key, Picked, Since
    <2> QED BY <2>1, <2>2 DEF SameCards
<1>2. IInv /\ IInv' /\ [Next]_vars => [SameCards]_vars
    BY <1>1
<1> QED BY Inductive, <1>2, PTL DEF Spec, CardStays
=============================================================================
