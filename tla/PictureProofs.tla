--------------------------- MODULE PictureProofs ----------------------------
(* The cards of weather and calendar, for any days, styles, places, answers *)
(* of the model, crashes and failing writes; and the screen calibration     *)
(* with the way of a picture to the panel, for any panel, palettes and      *)
(* things the owner does.                                                   *)
EXTENDS Cards, Calibration, FiniteSetTheorems, WellFoundedInduction, TLAPS

-----------------------------------------------------------------------------
(* The cards.  What a picture, a call of the event loop and a file can be:  *)
(* the calls differ in their fields, so each stage has a set of its own.    *)
MonthPics == [is : {"month"}, day : Days, quote : Quotes]
CardPics == [is : {"card"}, day : Days, style : StyleSet, at : Places, design : Designs]
Stems == Days \X StyleSet \X (Places \cup {Nowhere})
Saving == {"original", "open", "write", "prune"}
Asked == [pc : {"month"}, stem : Days]
MonthSaved == [pc : Saving, stem : Days, pic : MonthPics, kept : BOOLEAN, lone : BOOLEAN]
Fetching == [pc : {"fetch"}, stem : Stems]
Designing == [pc : {"design"}, stem : Stems, at : Places]
Drawing == [pc : {"draw"}, stem : Stems, at : Places, style : StyleSet, design : Designs, kept : BOOLEAN]
CardSaved == [pc : Saving, stem : Stems, pic : CardPics, kept : BOOLEAN, lone : BOOLEAN]
MonthFiles == [frame : {NoPic, Torn} \cup MonthPics, orig : {NoPic, Torn} \cup MonthPics, lone : BOOLEAN]
Files == [stem : Stems, frame : {NoPic, Torn} \cup CardPics, orig : {NoPic, Torn} \cup CardPics,
          lone : BOOLEAN, fresh : BOOLEAN]

SavesMonth == call.pc \in Saving /\ call.pic.is = "month"
SavesCard == call.pc \in Saving /\ call.pic.is = "card"
Weathering == call.pc \in {"fetch", "design", "draw"}
CallTyped == /\ call.pc \in {"idle", "month", "fetch", "design", "draw"} \cup Saving
             /\ call.pc = "idle" => call = Idle
             /\ call.pc = "month" => call \in Asked
             /\ call.pc = "fetch" => call \in Fetching
             /\ call.pc = "design" => call \in Designing
             /\ call.pc = "draw" => call \in Drawing
             /\ call.pc \in Saving => call.pic.is \in {"month", "card"}
             /\ SavesMonth => call \in MonthSaved
             /\ SavesCard => call \in CardSaved

Typed == /\ day \in Days /\ fixed \in StyleSet \cup {AutoStyle}
         /\ month \in [Days -> MonthFiles]
         /\ quote \in [Days -> SUBSET Quotes]
         /\ weather \in Seq(Files)
         /\ design \in [Days -> SUBSET (StyleSet \X Designs)]
         /\ {mem, disk} \subseteq Places \cup {Nowhere} /\ age \in {"new", "hours", "old"}
         /\ CallTyped
         /\ quotes \in [Days -> SUBSET Quotes]
         /\ designs \in [Days -> SUBSET (StyleSet \X Designs)]
         /\ restyled \subseteq Days /\ crossed \in BOOLEAN

(* The place in the process is the one in the file, or not yet read.        *)
OnePlace == mem \in {Nowhere, disk}
(* Nobody draws for a day to come; a card drawn over midnight is of the     *)
(* later day but keeps its name.                                            *)
Timely ==
    /\ call.pc = "month" => call.stem <= day
    /\ SavesMonth => call.stem <= call.pic.day /\ call.pic.day <= day
    /\ Weathering => call.stem[1] <= day
    /\ SavesCard => call.stem[1] <= call.pic.day /\ call.pic.day <= day

(* A day has one sentence on disk, and the card being saved shows it if it  *)
(* could be kept.                                                           *)
OneQuote ==
    /\ \A d \in Days : quotes[d] \subseteq quote[d] /\ \A p, q \in quote[d] : p = q
    /\ SavesMonth /\ call.kept => call.pic.quote \in quote[call.pic.day]

(* Each month file that is not torn is whole, and nobody draws over one.    *)
MonthWhole(d) == /\ month[d].frame \in MonthPics
                 /\ month[d].lone \/ month[d].orig = month[d].frame
                 /\ d <= month[d].frame.day /\ month[d].frame.day <= day
MonthsRight ==
    /\ call.pc = "month" => month[call.stem].frame = NoPic
    /\ SavesMonth =>
          /\ call.pc \in {"original", "open"} => month[call.stem].frame = NoPic
          /\ call.pc # "original" => call.lone \/ month[call.stem].orig = call.pic
    /\ \A d \in Days : month[d].frame \in {NoPic, Torn} \/ MonthWhole(d)

(* The card being made is for the style and the place its name says, unless *)
(* the style was changed or the frame moved while it was drawn: then the    *)
(* place just found is new.                                                 *)
Moved(from) == disk \notin {from, Nowhere} /\ age = "new"
Heeds ==
    /\ ~crossed /\ (Weathering \/ SavesCard) => call.stem[2] = PickStyle(call.stem[1])
    /\ call.pc = "fetch" => call.stem[3] = disk
    /\ call.pc \in {"design", "draw"} => call.at = call.stem[3] \/ Moved(call.stem[3])
    /\ ~crossed /\ call.pc = "draw" /\ call.stem[1] = day => call.style = call.stem[2]
    /\ SavesCard => /\ ~crossed /\ call.stem[1] = call.pic.day => call.pic.style = call.stem[2]
                    /\ call.pic.at = call.stem[3] \/ Moved(call.stem[3])

(* The weather files: one to a name, and each that a request would take is  *)
(* whole or torn.                                                           *)
OneFile == \A i, j \in DOMAIN weather : weather[i].stem = weather[j].stem => i = j
CardWhole(f) ==
    /\ f.frame \in CardPics /\ (f.lone \/ f.orig = f.frame)
    /\ f.stem[1] <= f.frame.day /\ f.frame.day <= day
    /\ ~crossed /\ f.stem[1] = f.frame.day => f.frame.style = f.stem[2]
    /\ f.frame.at = f.stem[3] \/ Moved(f.stem[3])
Own == Named(call.stem)
EachWhole(i) == ~weather[i].fresh \/ weather[i].frame = Torn \/ CardWhole(weather[i])
CardsRight ==
    /\ Weathering \/ SavesCard =>
          \A i \in Own : weather[i].fresh => call.pc \in {"write", "prune"}
    /\ SavesCard /\ call.pc # "original" /\ ~call.lone => \E i \in Own : weather[i].orig = call.pic
    /\ \A i \in DOMAIN weather : EachWhole(i)

(* A day whose style nobody changed has one design on disk, of that style,  *)
(* and a card drawn that day shows it if it could be kept.                  *)
OneDesign ==
    /\ \A d \in Days : d > day => design[d] = {} /\ designs[d] = {}
    /\ \A d \in Days \ restyled : designs[d] \subseteq design[d] /\ \A k, l \in design[d] : k = l
    /\ day \notin restyled => \A k \in design[day] : k[1] = PickStyle(day)
    /\ call.pc = "draw" /\ call.kept /\ call.stem[1] = day /\ day \notin restyled =>
          <<call.style, call.design>> \in design[day]
    /\ SavesCard /\ call.kept /\ call.stem[1] = call.pic.day /\ call.pic.day \notin restyled =>
          <<call.pic.style, call.pic.design>> \in design[call.pic.day]

(* The inductive invariant.                                                 *)
IInv == /\ Typed /\ OnePlace /\ OneFile /\ Timely /\ OneQuote /\ OneDesign
        /\ MonthsRight /\ Heeds /\ CardsRight

LEMMA StyleInSet == ASSUME fixed \in StyleSet \cup {AutoStyle}, NEW d \in Days
                    PROVE  PickStyle(d) \in StyleSet
<1>1. Styles \in Seq(STRING) /\ Styles # <<>> /\ d \in Nat
    BY CardsAssumption DEF Days
<1>2. Len(Styles) \in Nat \ {0} /\ DOMAIN Styles = 1..Len(Styles)
    BY <1>1
<1>3. 1 + (d % Len(Styles)) \in 1..Len(Styles)
    BY <1>1, <1>2
<1> QED BY <1>2, <1>3 DEF PickStyle, StyleSet

LEMMA FilesFacts ==
    ASSUME weather \in Seq(Files), NEW stem \in Stems
    PROVE  /\ FilesOf(stem) \in Files /\ FilesOf(stem).stem = stem
           /\ \/ Named(stem) = {} /\ FilesOf(stem) = [stem |-> stem, frame |-> NoPic, orig |-> NoPic, lone |-> FALSE, fresh |-> FALSE]
              \/ \E i \in Named(stem) : FilesOf(stem) = weather[i]
<1>1. CASE Named(stem) = {}
    BY <1>1 DEF FilesOf, Files
<1>2. CASE Named(stem) # {}
    <2>1. PICK i \in Named(stem) : FilesOf(stem) = weather[i]
        BY <1>2 DEF FilesOf
    <2>2. i \in 1..Len(weather) /\ weather[i].stem = stem
        BY DEF Named
    <2> QED BY <2>1, <2>2
<1> QED BY <1>1, <1>2

LEMMA PutFacts ==
    ASSUME weather \in Seq(Files), OneFile, NEW f \in Files, weather' = Put(f)
    PROVE  /\ weather' \in Seq(Files)
           /\ \E n \in DOMAIN weather' : weather'[n] = f
           /\ \A i \in DOMAIN weather' :
                 \/ weather'[i] = f
                 \/ weather'[i].stem # f.stem /\ \E j \in DOMAIN weather : weather'[i] = weather[j]
           /\ OneFile'
<1>0. Len(weather) \in Nat /\ DOMAIN weather = 1..Len(weather)
      /\ \A i \in 1..Len(weather) : weather[i] \in Files
    OBVIOUS
<1>1. CASE Named(f.stem) = {}
    <2>1. weather' = Append(weather, f)
        BY <1>1 DEF Put
    <2>2. /\ weather' \in Seq(Files) /\ Len(weather') = Len(weather) + 1
          /\ DOMAIN weather' = 1..(Len(weather) + 1)
          /\ weather'[Len(weather) + 1] = f
          /\ \A i \in 1..Len(weather) : weather'[i] = weather[i]
        BY <2>1
    <2>3. \A i \in 1..Len(weather) : weather[i].stem # f.stem
        BY <1>0, <1>1 DEF Named
    <2> QED BY <1>0, <2>2, <2>3 DEF OneFile
<1>2. CASE Named(f.stem) # {}
    <2>1. PICK old \in 1..Len(weather) :
             /\ weather[old].stem = f.stem
             /\ weather' = [i \in DOMAIN weather |->
                    IF i < old THEN weather[i] ELSE IF i < Len(weather) THEN weather[i + 1] ELSE f]
        BY <1>0, <1>2 DEF Put, Named
    <2>2. DOMAIN weather' = 1..Len(weather) /\ \A i \in DOMAIN weather' : weather'[i] \in Files
        BY <1>0, <2>1
    <2>3. weather' \in Seq(Files)
        BY <1>0, <2>2, <2>1
    <2>4. weather'[Len(weather)] = f /\ Len(weather) \in DOMAIN weather'
        BY <1>0, <2>1
    <2>5. \A i \in DOMAIN weather : i # old => weather[i].stem # f.stem
        BY <2>1, <1>0 DEF OneFile
    <2>6. \A i \in DOMAIN weather' :
             \/ i = Len(weather) /\ weather'[i] = f
             \/ /\ i < old /\ weather'[i] = weather[i] /\ i \in DOMAIN weather /\ i # old
             \/ /\ i >= old /\ i < Len(weather) /\ weather'[i] = weather[i + 1] /\ i + 1 \in DOMAIN weather /\ i + 1 # old
        BY <1>0, <2>1
    <2>7. OneFile'
        BY <1>0, <2>2, <2>5, <2>6 DEF OneFile
    <2> QED BY <2>3, <2>4, <2>5, <2>6, <2>7
<1> QED BY <1>1, <1>2

LEMMA LocateFacts ==
    ASSUME Typed, OnePlace, NEW net \in Places \cup {Nowhere}, Locate(net)
    PROVE  /\ {mem', disk'} \subseteq Places \cup {Nowhere} /\ age' \in {"new", "hours", "old"}
           /\ OnePlace'
           /\ Located(net) = disk'
           /\ disk' # disk => age' = "new" /\ disk' # Nowhere /\ (age = "old" \/ disk = Nowhere)
           /\ disk' = disk => age' = age \/ age' = "new"
BY CardsAssumption DEF Typed, OnePlace, Locate, Located, Fresh, place
\* _prune_weather_cache keeps an end of the list.
LEMMA PruneFacts ==
    ASSUME weather \in Seq(Files), PruneWeather
    PROVE  \E k \in Nat : \A i \in DOMAIN weather' :
              i + k \in DOMAIN weather /\ weather'[i] = weather[i + k]
<1>1. CASE Len(weather) <= Keep
    <2>1. weather' = weather
        BY <1>1 DEF PruneWeather
    <2>2. \A i \in DOMAIN weather' : i + 0 \in DOMAIN weather /\ weather'[i] = weather[i + 0]
        BY <2>1
    <2> QED BY <2>2
<1>2. CASE ~(Len(weather) <= Keep)
    <2>1. PICK k \in Nat : k = Len(weather) - Keep /\ Keep \in Nat
        BY <1>2, CardsAssumption
    <2>2. weather' = SubSeq(weather, k + 1, Len(weather))
        BY <1>2, <2>1 DEF PruneWeather
    <2>3. \A i \in DOMAIN weather' : i + k \in DOMAIN weather /\ weather'[i] = weather[i + k]
        BY <2>1, <2>2
    <2> QED BY <2>3
<1> QED BY <1>1, <1>2

LEMMA TypedStep == Typed /\ OneFile /\ [Next]_vars => Typed'
<1> SUFFICES ASSUME Typed, OneFile, [Next]_vars PROVE Typed'
    OBVIOUS
<1> USE DEF Typed, CallTyped, files, place, history, past, Idle
<1>1. CASE AskCalendar
    BY <1>1 DEF AskCalendar, Asked, SavesMonth, SavesCard, Saving
<1>2. CASE DrawMonth
    <2>1. PICK q \in Quotes, kept \in BOOLEAN :
             /\ quote' = [quote EXCEPT ![day] = {q}] \/ quote' = quote
             /\ call' = [pc |-> "original", stem |-> call.stem, pic |-> Month(day, q),
                         kept |-> kept, lone |-> FALSE]
        BY <1>2 DEF DrawMonth
    <2>2. call.stem \in Days
        BY <1>2 DEF DrawMonth, Asked
    <2>3. call' \in MonthSaved /\ call'.pic.is = "month" /\ call'.pc = "original"
        BY <2>1, <2>2 DEF MonthSaved, Saving, Month, MonthPics
    <2>4. CallTyped'
        BY <2>3 DEF Saving, SavesMonth, SavesCard
    <2> QED BY <1>2, <2>1, <2>4 DEF DrawMonth
<1>3. CASE SaveMonthOriginal
    <2>1. call \in MonthSaved
        BY <1>3 DEF SaveMonthOriginal, SavesMonth, Saving
    <2>2. CallTyped'
        BY <1>3, <2>1 DEF SaveMonthOriginal, SavesMonth, SavesCard, MonthSaved, MonthPics, Saving
    <2>3. month' \in [Days -> MonthFiles]
        BY <1>3, <2>1 DEF SaveMonthOriginal, MonthSaved, MonthFiles
    <2> QED BY <1>3, <2>2, <2>3 DEF SaveMonthOriginal
<1>19. CASE MonthOriginalFails
    <2>1. call \in MonthSaved
        BY <1>19 DEF MonthOriginalFails, SavesMonth, Saving
    <2>2. CallTyped'
        BY <1>19, <2>1 DEF MonthOriginalFails, SavesMonth, SavesCard, MonthSaved, MonthPics, Saving
    <2>3. PICK o \in {month[call.stem].orig, Torn} : month' = [month EXCEPT ![call.stem].orig = o]
        BY <1>19 DEF MonthOriginalFails
    <2>4. month' \in [Days -> MonthFiles]
        BY <2>1, <2>3 DEF MonthSaved, MonthFiles
    <2> QED BY <1>19, <2>2, <2>4 DEF MonthOriginalFails
<1>4. ASSUME NEW now, NEW next, SaveMonth(now, next),
             \/ now = "open" /\ next = "write"
             \/ now = "write" /\ next = "prune"
      PROVE  Typed'
    <2>1. call \in MonthSaved
        BY <1>4 DEF SaveMonth, SavesMonth, Saving
    <2>2. CallTyped'
        BY <1>4, <2>1 DEF SaveMonth, SavesMonth, SavesCard, MonthSaved, MonthPics, Saving
    <2>3. month' \in [Days -> MonthFiles]
        <3>1. PICK pic \in {Torn} \cup MonthPics :
                 month' = [month EXCEPT ![call.stem].frame = pic, ![call.stem].lone = call.lone]
            BY <1>4, <2>1 DEF SaveMonth, MonthSaved
        <3>2. call.lone \in BOOLEAN
            BY <2>1 DEF MonthSaved
        <3> QED BY <3>1, <3>2 DEF MonthFiles
    <2> QED BY <1>4, <2>2, <2>3 DEF SaveMonth
<1>5. CASE PruneMonths
    <2>1. call \in MonthSaved
        BY <1>5 DEF PruneMonths, SavesMonth, Saving
    <2>2. month' \in [Days -> MonthFiles]
        BY <1>5 DEF PruneMonths, NoFiles, MonthFiles
    <2>3. quotes' \in [Days -> SUBSET Quotes]
        <3>1. \/ quotes' = quotes
              \/ quotes' = [quotes EXCEPT ![call.pic.day] = @ \cup {call.pic.quote}]
            BY <1>5 DEF PruneMonths, Answer
        <3>2. call.pic.quote \in Quotes
            BY <2>1 DEF MonthSaved, MonthPics
        <3> QED BY <3>1, <3>2
    <2>4. CallTyped'
        BY <1>5 DEF PruneMonths, SavesMonth, SavesCard, Saving
    <2> QED BY <1>5, <2>2, <2>3, <2>4 DEF PruneMonths
<1>6. ASSUME NEW net \in Places \cup {Nowhere}, AskWeather(net)
      PROVE  Typed'
    <2>1. {mem', disk'} \subseteq Places \cup {Nowhere} /\ age' \in {"new", "hours", "old"}
          /\ Located(net) \in Places \cup {Nowhere}
        BY <1>6 DEF AskWeather, Locate, Located, Fresh
    <2>2. CacheStem(day, PickStyle(day), Located(net)) \in Stems
        BY <2>1, StyleInSet DEF CacheStem, Stems
    <2>3. CallTyped'
        BY <1>6, <2>2 DEF AskWeather, SavesMonth, SavesCard, Saving, Fetching
    <2> QED BY <1>6, <2>1, <2>3 DEF AskWeather
<1>7. ASSUME NEW net \in Places \cup {Nowhere}, FetchWeather(net)
      PROVE  Typed'
    <2>1. {mem', disk'} \subseteq Places \cup {Nowhere} /\ age' \in {"new", "hours", "old"}
          /\ Located(net) \in Places \cup {Nowhere}
        BY <1>7 DEF FetchWeather, Locate, Located, Fresh
    <2>2. call.stem \in Stems
        BY <1>7 DEF FetchWeather, Fetching
    <2>3. CallTyped'
        BY <1>7, <2>1, <2>2 DEF FetchWeather, SavesMonth, SavesCard, Saving, Designing
    <2> QED BY <1>7, <2>1, <2>3 DEF FetchWeather
<1>8. CASE DailyDesign
    <2>1. call \in Designing
        BY <1>8 DEF DailyDesign
    <2>2. PICK s \in StyleSet, g \in Designs, kept \in BOOLEAN :
             /\ \E left \in {{<<s, g>>}, design[day], {}} : design' = [design EXCEPT ![day] = left]
             /\ call' = [pc |-> "draw", stem |-> call.stem, at |-> call.at,
                         style |-> s, design |-> g, kept |-> kept]
        BY <1>8, StyleInSet DEF DailyDesign
    <2>3. call' \in Drawing
        BY <2>1, <2>2 DEF Designing, Drawing
    <2>4. CallTyped'
        BY <2>2, <2>3 DEF SavesMonth, SavesCard, Saving
    <2>5. design' \in [Days -> SUBSET (StyleSet \X Designs)]
        BY <2>2
    <2> QED BY <1>8, <2>4, <2>5 DEF DailyDesign
<1>9. CASE DrawWeather
    <2>1. call \in Drawing
        BY <1>9 DEF DrawWeather
    <2>2. call' \in CardSaved /\ call'.pc = "original" /\ call'.pic.is = "card"
        BY <1>9, <2>1 DEF DrawWeather, Drawing, CardSaved, CardPics, Card, Saving
    <2>3. CallTyped'
        BY <2>2 DEF SavesMonth, SavesCard, Saving
    <2> QED BY <1>9, <2>3 DEF DrawWeather
<1>10. CASE SaveWeatherOriginal
    <2>1. call \in CardSaved
        BY <1>10 DEF SaveWeatherOriginal, SavesCard, Saving
    <2>2. CallTyped'
        BY <1>10, <2>1 DEF SaveWeatherOriginal, SavesMonth, SavesCard, CardSaved, CardPics, Saving
    <2>3. [FilesOf(call.stem) EXCEPT !.orig = call.pic] \in Files
        BY <2>1, FilesFacts DEF CardSaved, Files
    <2>4. weather' \in Seq(Files)
        BY <1>10, <2>3, PutFacts DEF SaveWeatherOriginal
    <2> QED BY <1>10, <2>2, <2>4 DEF SaveWeatherOriginal
<1>20. CASE WeatherOriginalFails
    <2>1. call \in CardSaved
        BY <1>20 DEF WeatherOriginalFails, SavesCard, Saving
    <2>2. CallTyped'
        BY <1>20, <2>1 DEF WeatherOriginalFails, SavesMonth, SavesCard, CardSaved, CardPics, Saving
    <2>3. [FilesOf(call.stem) EXCEPT !.orig = Torn] \in Files
        BY <2>1, FilesFacts DEF CardSaved, Files
    <2>4. weather' \in Seq(Files)
        BY <1>20, <2>3, PutFacts DEF WeatherOriginalFails
    <2> QED BY <1>20, <2>2, <2>4 DEF WeatherOriginalFails
<1>11. ASSUME NEW now, NEW next, SaveWeather(now, next),
             \/ now = "open" /\ next = "write"
             \/ now = "write" /\ next = "prune"
      PROVE  Typed'
    <2>1. call \in CardSaved
        BY <1>11 DEF SaveWeather, SavesCard, Saving
    <2>2. CallTyped'
        BY <1>11, <2>1 DEF SaveWeather, SavesMonth, SavesCard, CardSaved, CardPics, Saving
    <2>3. [FilesOf(call.stem) EXCEPT !.frame = IF now = "open" THEN Torn ELSE call.pic,
                                     !.lone = call.lone, !.fresh = TRUE] \in Files
        <3>1. (IF now = "open" THEN Torn ELSE call.pic) \in {NoPic, Torn} \cup CardPics
            BY <2>1 DEF CardSaved
        <3>2. FilesOf(call.stem) \in Files
            BY <2>1, FilesFacts DEF CardSaved
        <3>3. call.lone \in BOOLEAN
            BY <2>1 DEF CardSaved
        <3> QED BY <3>1, <3>2, <3>3 DEF Files
    <2>4. weather' \in Seq(Files)
        BY <1>11, <2>3, PutFacts DEF SaveWeather
    <2> QED BY <1>11, <2>2, <2>4 DEF SaveWeather
<1>12. CASE PruneWeather
    <2>1. call \in CardSaved
        BY <1>12 DEF PruneWeather, SavesCard, Saving
    <2>2. CallTyped'
        BY <1>12 DEF PruneWeather, SavesMonth, SavesCard, Saving
    <2>3. weather' \in Seq(Files)
        BY <1>12, CardsAssumption DEF PruneWeather
    <2>4. designs' \in [Days -> SUBSET (StyleSet \X Designs)]
        BY <1>12, <2>1 DEF PruneWeather, CardSaved, CardPics
    <2> QED BY <1>12, <2>2, <2>3, <2>4 DEF PruneWeather
<1>13. CASE Midnight
    BY <1>13, CardsAssumption DEF Midnight, Days, SavesMonth, SavesCard, MonthSaved, CardSaved,
       Asked, Fetching, Designing, Drawing
<1>14. CASE Hour
    <2>1. weather' \in Seq(Files)
        <3>1. \A i \in DOMAIN weather : [weather[i] EXCEPT !.fresh = FALSE] \in Files
            <4>1. \A i \in DOMAIN weather : weather[i] \in Files
                OBVIOUS
            <4> QED BY <4>1 DEF Files
        <3> QED BY <1>14, <3>1 DEF Hour
    <2> QED BY <1>14, <2>1 DEF Hour, SavesMonth, SavesCard
<1>15. CASE PlaceExpires
    BY <1>15 DEF PlaceExpires, SavesMonth, SavesCard
<1>16. ASSUME NEW s \in StyleSet \cup {AutoStyle}, FixStyle(s)
       PROVE  Typed'
    BY <1>16 DEF FixStyle, SavesMonth, SavesCard
<1>17. CASE Crash
    BY <1>17 DEF Crash, SavesMonth, SavesCard, Saving
<1>21. CASE FrameFails
    BY <1>21 DEF FrameFails, SavesMonth, SavesCard, Saving
<1>18. CASE UNCHANGED vars
    BY <1>18 DEF vars, SavesMonth, SavesCard
<1> QED BY <1>1, <1>2, <1>3, <1>4, <1>5, <1>6, <1>7, <1>8, <1>9, <1>10, <1>11, <1>12, <1>13,
           <1>14, <1>15, <1>16, <1>17, <1>18, <1>19, <1>20, <1>21 DEF Next, Calendar, Weather
LEMMA NextCases ==
    ASSUME [Next]_vars
    PROVE  \/ AskCalendar \/ DrawMonth \/ SaveMonthOriginal \/ MonthOriginalFails
           \/ SaveMonth("open", "write") \/ SaveMonth("write", "prune") \/ PruneMonths
           \/ \E net \in Places \cup {Nowhere} : AskWeather(net) \/ FetchWeather(net)
           \/ DailyDesign \/ DrawWeather \/ SaveWeatherOriginal \/ WeatherOriginalFails
           \/ SaveWeather("open", "write") \/ SaveWeather("write", "prune") \/ PruneWeather
           \/ FrameFails \/ Midnight \/ Hour \/ PlaceExpires \/ Crash
           \/ \E s \in StyleSet \cup {AutoStyle} : FixStyle(s)
           \/ UNCHANGED vars
BY DEF Next, Calendar, Weather

LEMMA DesignCase ==
    ASSUME DailyDesign
    PROVE  /\ call.pc = "design" /\ call'.pc = "draw"
           /\ UNCHANGED <<day, fixed, month, quote, weather, place, past>>
BY DEF DailyDesign

LEMMA OnePlaceStep == Typed /\ OnePlace /\ [Next]_vars => OnePlace'
<1> SUFFICES ASSUME Typed, OnePlace, [Next]_vars PROVE OnePlace'
    OBVIOUS
<1>1. ASSUME NEW net \in Places \cup {Nowhere}, AskWeather(net) \/ FetchWeather(net)
      PROVE  OnePlace'
    BY <1>1, LocateFacts DEF AskWeather, FetchWeather
<1>2. CASE Crash
    BY <1>2 DEF Crash, OnePlace
<1>3. CASE UNCHANGED <<mem, disk>>
    BY <1>3 DEF OnePlace
<1>4. \/ Crash \/ UNCHANGED <<mem, disk>>
      \/ \E net \in Places \cup {Nowhere} : AskWeather(net) \/ FetchWeather(net)
    BY NextCases DEF AskCalendar, DrawMonth, SaveMonthOriginal, MonthOriginalFails, SaveMonth,
       PruneMonths, DailyDesign, DrawWeather, SaveWeatherOriginal, WeatherOriginalFails, SaveWeather,
       PruneWeather, FrameFails, Midnight, Hour, PlaceExpires, FixStyle, vars, place
<1> QED BY <1>1, <1>2, <1>3, <1>4

LEMMA OneFileStep == Typed /\ OneFile /\ [Next]_vars => OneFile'
<1> SUFFICES ASSUME Typed, OneFile, [Next]_vars PROVE OneFile'
    OBVIOUS
<1>0. weather \in Seq(Files) /\ CallTyped
    BY DEF Typed
<1>1. CASE SaveWeatherOriginal
    <2>1. call \in CardSaved
        BY <1>0, <1>1 DEF CallTyped, SaveWeatherOriginal, SavesCard, Saving
    <2>2. [FilesOf(call.stem) EXCEPT !.orig = call.pic] \in Files
        BY <1>0, <2>1, FilesFacts DEF CardSaved, Files
    <2> QED BY <1>0, <1>1, <2>2, PutFacts DEF SaveWeatherOriginal
<1>7. CASE WeatherOriginalFails
    <2>1. call \in CardSaved
        BY <1>0, <1>7 DEF CallTyped, WeatherOriginalFails, SavesCard, Saving
    <2>2. [FilesOf(call.stem) EXCEPT !.orig = Torn] \in Files
        BY <1>0, <2>1, FilesFacts DEF CardSaved, Files
    <2>3. CASE weather' = weather
        BY <2>3 DEF OneFile
    <2>4. CASE weather' = Put([FilesOf(call.stem) EXCEPT !.orig = Torn])
        BY <1>0, <2>2, <2>4, PutFacts
    <2> QED BY <1>7, <2>3, <2>4 DEF WeatherOriginalFails
<1>2. ASSUME NEW now, NEW next, SaveWeather(now, next), now \in {"open", "write"}
      PROVE  OneFile'
    <2>1. call \in CardSaved
        BY <1>0, <1>2 DEF CallTyped, SaveWeather, SavesCard, Saving
    <2>2. (IF now = "open" THEN Torn ELSE call.pic) \in {NoPic, Torn} \cup CardPics
        BY <2>1 DEF CardSaved
    <2>3. FilesOf(call.stem) \in Files
        BY <1>0, <2>1, FilesFacts DEF CardSaved
    <2>4. [FilesOf(call.stem) EXCEPT !.frame = IF now = "open" THEN Torn ELSE call.pic,
                                     !.lone = call.lone, !.fresh = TRUE] \in Files
        <3>1. call.lone \in BOOLEAN
            BY <2>1 DEF CardSaved
        <3> QED BY <2>2, <2>3, <3>1 DEF Files
    <2> QED BY <1>0, <1>2, <2>4, PutFacts DEF SaveWeather
<1>3. CASE PruneWeather
    BY <1>0, <1>3, PruneFacts DEF OneFile
<1>4. CASE Hour
    <2>1. \A i \in DOMAIN weather : weather[i] \in Files
        BY <1>0
    <2>2. \A i \in DOMAIN weather : [weather[i] EXCEPT !.fresh = FALSE].stem = weather[i].stem
        BY <2>1 DEF Files
    <2>3. \A i \in DOMAIN weather' : i \in DOMAIN weather /\ weather'[i].stem = weather[i].stem
        BY <2>2, <1>4 DEF Hour
    <2> QED BY <2>3 DEF OneFile
<1>5. CASE UNCHANGED weather
    BY <1>5 DEF OneFile
<1>6. \/ SaveWeatherOriginal \/ WeatherOriginalFails
      \/ SaveWeather("open", "write") \/ SaveWeather("write", "prune")
      \/ PruneWeather \/ Hour \/ UNCHANGED weather
    BY NextCases DEF AskCalendar, DrawMonth, SaveMonthOriginal, MonthOriginalFails, SaveMonth,
       PruneMonths, AskWeather, FetchWeather, DailyDesign, DrawWeather, FrameFails, Midnight,
       PlaceExpires, Crash, FixStyle, vars, files
<1> QED BY <1>1, <1>2, <1>3, <1>4, <1>5, <1>6, <1>7

LEMMA TimelyStep == Typed /\ Timely /\ [Next]_vars => Timely'
<1> SUFFICES ASSUME Typed, Timely, [Next]_vars PROVE Timely'
    OBVIOUS
<1>0. day \in Nat /\ CallTyped
    BY CardsAssumption DEF Typed, Days
<1> USE DEF Timely, CallTyped, Weathering, SavesMonth, SavesCard, Saving
<1>1. CASE AskCalendar
    BY <1>0, <1>1 DEF AskCalendar
<1>2. CASE DrawMonth
    BY <1>0, <1>2 DEF DrawMonth, Month, Asked
<1>3. ASSUME NEW net \in Places \cup {Nowhere}, AskWeather(net) \/ FetchWeather(net)
      PROVE  Timely'
    BY <1>0, <1>3 DEF AskWeather, FetchWeather, CacheStem, Idle
<1>4. CASE DailyDesign
    BY <1>0, <1>4 DEF DailyDesign
<1>5. CASE DrawWeather
    BY <1>0, <1>5 DEF DrawWeather, Card, Drawing
<1>6. CASE Midnight
    <2>1. /\ call.pc = "month" => call.stem \in Nat
          /\ SavesMonth => call.stem \in Nat /\ call.pic.day \in Nat
          /\ Weathering => call.stem[1] \in Nat
          /\ SavesCard => call.stem[1] \in Nat /\ call.pic.day \in Nat
        BY <1>0, CardsAssumption DEF Asked, MonthSaved, MonthPics, Fetching, Designing, Drawing,
           CardSaved, CardPics, Stems, Days
    <2> QED BY <1>0, <1>6, <2>1 DEF Midnight
<1>7. CASE \/ SaveMonthOriginal \/ MonthOriginalFails
           \/ SaveMonth("open", "write") \/ SaveMonth("write", "prune")
    BY <1>0, <1>7 DEF SaveMonthOriginal, MonthOriginalFails, SaveMonth, MonthSaved
<1>8. CASE \/ SaveWeatherOriginal \/ WeatherOriginalFails
           \/ SaveWeather("open", "write") \/ SaveWeather("write", "prune")
    BY <1>0, <1>8 DEF SaveWeatherOriginal, WeatherOriginalFails, SaveWeather, CardSaved
<1>9. CASE call' = Idle
    BY <1>9 DEF Idle
<1>10. CASE UNCHANGED <<day, call>>
    BY <1>10
<1> HIDE DEF Timely, CallTyped, Weathering, SavesMonth, SavesCard, Saving
<1>11. \/ AskCalendar \/ DrawMonth \/ DailyDesign \/ DrawWeather \/ Midnight
       \/ \E net \in Places \cup {Nowhere} : AskWeather(net) \/ FetchWeather(net)
       \/ SaveMonthOriginal \/ MonthOriginalFails
       \/ SaveMonth("open", "write") \/ SaveMonth("write", "prune")
       \/ SaveWeatherOriginal \/ WeatherOriginalFails
       \/ SaveWeather("open", "write") \/ SaveWeather("write", "prune")
       \/ call' = Idle \/ UNCHANGED <<day, call>>
    BY NextCases DEF PruneMonths, PruneWeather, FrameFails, Hour, PlaceExpires, Crash, FixStyle, vars
<1> QED BY <1>1, <1>2, <1>3, <1>4, <1>5, <1>6, <1>7, <1>8, <1>9, <1>10, <1>11

LEMMA OneQuoteStep == Typed /\ OneQuote /\ [Next]_vars => OneQuote'
<1> SUFFICES ASSUME Typed, OneQuote, [Next]_vars PROVE OneQuote'
    OBVIOUS
<1>0. /\ day \in Days /\ CallTyped
      /\ quote \in [Days -> SUBSET Quotes] /\ quotes \in [Days -> SUBSET Quotes]
    BY DEF Typed
<1> USE DEF OneQuote, SavesMonth, Saving
<1>1. CASE DrawMonth
    <2>1. PICK q \in Quotes, kept \in BOOLEAN :
             /\ quote[day] # {} => q \in quote[day]
             /\ \/ kept /\ quote' = [quote EXCEPT ![day] = {q}]
                \/ ~kept /\ quote' = quote
             /\ call' = [pc |-> "original", stem |-> call.stem, pic |-> Month(day, q),
                         kept |-> kept, lone |-> FALSE]
        BY <1>1 DEF DrawMonth, DailyQuote, Kept
    <2>2. quote[day] \subseteq {q} /\ quotes' = quotes
        BY <1>0, <1>1, <2>1 DEF DrawMonth, past
    <2>3. \A d \in Days : quotes'[d] \subseteq quote'[d] /\ \A p, r \in quote'[d] : p = r
        BY <1>0, <2>1, <2>2
    <2>4. call'.kept => call'.pic.quote \in quote'[call'.pic.day]
        BY <1>0, <2>1 DEF Month
    <2> QED BY <2>3, <2>4
<1>2. CASE PruneMonths
    <2>1. /\ SavesMonth /\ call \in MonthSaved
          /\ \/ quotes' = quotes
             \/ call.kept /\ quotes' = [quotes EXCEPT ![call.pic.day] = @ \cup {call.pic.quote}]
          /\ quote' = quote /\ call' = Idle
        BY <1>0, <1>2 DEF PruneMonths, Answer, CallTyped
    <2>2. \A d \in Days : quotes'[d] \subseteq quote'[d]
        BY <1>0, <2>1
    <2> QED BY <2>1, <2>2 DEF Idle
<1>3. CASE \/ SaveMonthOriginal \/ MonthOriginalFails
           \/ SaveMonth("open", "write") \/ SaveMonth("write", "prune")
    <2>1. SavesMonth /\ call \in MonthSaved
        BY <1>0, <1>3 DEF SaveMonthOriginal, MonthOriginalFails, SaveMonth, CallTyped
    <2>2. UNCHANGED <<quote, quotes>> /\ call'.pic = call.pic /\ call'.kept = call.kept
        BY <1>3, <2>1 DEF SaveMonthOriginal, MonthOriginalFails, SaveMonth, MonthSaved, history, past
    <2> QED BY <2>1, <2>2
<1>4. CASE UNCHANGED <<quote, quotes>> /\ (UNCHANGED call \/ call'.pc \notin Saving \/ call'.pic.is # "month")
    BY <1>4
<1> HIDE DEF OneQuote, SavesMonth, Saving
<1>5. ASSUME \/ SaveWeatherOriginal \/ WeatherOriginalFails
             \/ SaveWeather("open", "write") \/ SaveWeather("write", "prune")
      PROVE  UNCHANGED <<quote, quotes>> /\ call'.pic.is # "month"
    <2>1. call \in CardSaved /\ call.pic.is = "card"
        BY <1>0, <1>5 DEF SaveWeatherOriginal, WeatherOriginalFails, SaveWeather, CallTyped, SavesCard, Saving
    <2> QED BY <1>5, <2>1 DEF SaveWeatherOriginal, WeatherOriginalFails, SaveWeather, CardSaved, history, past
<1>6. \/ DrawMonth \/ PruneMonths
      \/ SaveMonthOriginal \/ MonthOriginalFails
      \/ SaveMonth("open", "write") \/ SaveMonth("write", "prune")
      \/ SaveWeatherOriginal \/ WeatherOriginalFails
      \/ SaveWeather("open", "write") \/ SaveWeather("write", "prune")
      \/ UNCHANGED <<quote, quotes>> /\ (UNCHANGED call \/ call'.pc \notin Saving \/ call'.pic.is # "month")
    <2>1. ASSUME AskCalendar \/ DailyDesign \/ PruneWeather \/ FrameFails \/ Crash
          PROVE  UNCHANGED <<quote, quotes>> /\ call'.pc \notin Saving
        BY <2>1, DesignCase DEF AskCalendar, PruneWeather, FrameFails, Crash, files, history, past, Idle, Saving
    <2>4. ASSUME NEW net, AskWeather(net) \/ FetchWeather(net)
          PROVE  UNCHANGED <<quote, quotes>> /\ call'.pc \notin Saving
        BY <2>4 DEF AskWeather, FetchWeather, files, history, past, Idle, Saving
    <2>3. DrawWeather => UNCHANGED <<quote, quotes>> /\ call'.pic.is # "month"
        BY DEF DrawWeather, files, history, past, Card
    <2>2. ASSUME \/ Midnight \/ Hour \/ PlaceExpires \/ UNCHANGED vars
                 \/ \E s \in StyleSet \cup {AutoStyle} : FixStyle(s)
          PROVE  UNCHANGED <<quote, quotes, call>>
        BY <2>2 DEF Midnight, Hour, PlaceExpires, FixStyle, vars, files, history, past
    <2> QED BY NextCases, <2>1, <2>2, <2>3, <2>4
<1> QED BY <1>1, <1>2, <1>3, <1>4, <1>5, <1>6
LEMMA OneDesignStep == Typed /\ Timely /\ OneDesign /\ [Next]_vars => OneDesign'
<1> SUFFICES ASSUME Typed, Timely, OneDesign, [Next]_vars PROVE OneDesign'
    OBVIOUS
<1>0. /\ day \in Days /\ day \in Nat /\ CallTyped /\ \A d \in Days : d \in Nat
      /\ design \in [Days -> SUBSET (StyleSet \X Designs)]
      /\ designs \in [Days -> SUBSET (StyleSet \X Designs)]
    BY CardsAssumption DEF Typed, Days
<1>1. CASE DailyDesign
    <2>1. PICK g \in Designs, kept \in BOOLEAN :
             /\ Kept({k[2] : k \in {k \in design[day] : k[1] = PickStyle(day)}}, g, Designs)
             /\ \/ kept /\ design' = [design EXCEPT ![day] = {<<PickStyle(day), g>>}]
                \/ /\ ~kept /\ {k[2] : k \in {k \in design[day] : k[1] = PickStyle(day)}} = {}
                   /\ \E left \in {design[day], {}} : design' = [design EXCEPT ![day] = left]
             /\ call' = [pc |-> "draw", stem |-> call.stem, at |-> call.at,
                         style |-> PickStyle(day), design |-> g, kept |-> kept]
             /\ UNCHANGED <<day, fixed, designs, restyled>>
        BY <1>1 DEF DailyDesign, past
    <2>2. day \notin restyled => design[day] \subseteq {<<PickStyle(day), g>>}
        <3> SUFFICES ASSUME day \notin restyled, NEW k \in design[day]
                     PROVE  k = <<PickStyle(day), g>>
            OBVIOUS
        <3>1. k \in StyleSet \X Designs /\ k[1] = PickStyle(day)
            BY <1>0 DEF OneDesign
        <3>2. g \in {j[2] : j \in {j \in design[day] : j[1] = PickStyle(day)}}
            BY <2>1, <3>1 DEF Kept
        <3>3. PICK j \in design[day] : j[2] = g
            BY <3>2
        <3>4. j = k
            BY <1>0 DEF OneDesign
        <3> QED BY <3>1, <3>3, <3>4
    <2>3. \A d \in Days : d > day => design'[d] = {} /\ designs'[d] = {}
        BY <1>0, <2>1 DEF OneDesign
    <2>8. ASSUME ~kept, day \notin restyled
          PROVE  design[day] = {} /\ design' = design
        <3>1. \A k \in design[day] : k[1] = PickStyle(day)
            BY <2>8 DEF OneDesign
        <3>2. design[day] = {}
            <4> SUFFICES ASSUME NEW k \in design[day] PROVE FALSE
                OBVIOUS
            <4>1. k[2] \in {j[2] : j \in {j \in design[day] : j[1] = PickStyle(day)}}
                BY <3>1
            <4> QED BY <2>1, <2>8, <4>1
        <3> QED BY <1>0, <2>1, <2>8, <3>2
    <2>9. \A d \in Days \ {day} : design'[d] = design[d]
        BY <1>0, <2>1
    <2>4. \A d \in Days \ restyled : designs'[d] \subseteq design'[d] /\ \A k, l \in design'[d] : k = l
        <3>1. CASE kept
            BY <1>0, <2>1, <2>2, <3>1 DEF OneDesign
        <3>2. CASE ~kept
            BY <2>1, <2>8, <2>9, <3>2 DEF OneDesign
        <3> QED BY <3>1, <3>2
    <2>5. PickStyle(day)' = PickStyle(day)
        BY <2>1 DEF PickStyle
    <2>6. kept => design'[day] = {<<PickStyle(day), g>>}
        BY <1>0, <2>1
    <2>7. day \notin restyled => \A k \in design'[day] : k[1] = PickStyle(day)
        BY <1>0, <2>1, <2>2
    <2> QED BY <2>1, <2>3, <2>4, <2>5, <2>6, <2>7 DEF OneDesign, SavesCard, Saving
<1>2. CASE DrawWeather
    <2>1. /\ call.pc = "draw" /\ call'.pic = Card(day, call.style, call.at, call.design)
          /\ call'.stem = call.stem /\ call'.pc = "original" /\ call'.kept = call.kept
          /\ UNCHANGED <<day, fixed, design, designs, restyled>>
        BY <1>2 DEF DrawWeather, files, history, past
    <2>2. PickStyle(day)' = PickStyle(day)
        BY <2>1 DEF PickStyle
    <2> QED BY <2>1, <2>2 DEF OneDesign, Card
<1>3. CASE \/ SaveWeatherOriginal \/ WeatherOriginalFails
           \/ SaveWeather("open", "write") \/ SaveWeather("write", "prune")
    <2>1. SavesCard /\ call \in CardSaved
        BY <1>0, <1>3 DEF SaveWeatherOriginal, WeatherOriginalFails, SaveWeather, CallTyped, SavesCard, Saving
    <2>2. /\ UNCHANGED <<day, fixed, design, designs, restyled>>
          /\ call'.pic = call.pic /\ call'.stem = call.stem /\ call'.kept = call.kept /\ call'.pc # "draw"
        BY <1>3, <2>1 DEF SaveWeatherOriginal, WeatherOriginalFails, SaveWeather, CardSaved, history, past
    <2>3. PickStyle(day)' = PickStyle(day)
        BY <2>2 DEF PickStyle
    <2> QED BY <2>1, <2>2, <2>3 DEF OneDesign
<1>4. CASE PruneWeather
    <2>1. SavesCard /\ call \in CardSaved /\ call' = Idle
        BY <1>0, <1>4 DEF PruneWeather, CallTyped, SavesCard, Saving
    <2>2. /\ UNCHANGED <<day, fixed, design, restyled>>
          /\ designs' = IF ~call.kept \/ call.stem[1] # call.pic.day THEN designs
                  ELSE [designs EXCEPT ![call.pic.day] = @ \cup {<<call.pic.style, call.pic.design>>}]
        BY <1>4 DEF PruneWeather
    <2>3. call.pic.day \in Days /\ call.pic.day <= day
        BY <2>1 DEF Timely, CardSaved, CardPics
    <2>4. \A d \in Days : d > day => designs'[d] = {}
        BY <1>0, <2>2, <2>3 DEF OneDesign
    <2>5. \A d \in Days \ restyled : designs'[d] \subseteq design[d]
        BY <1>0, <2>1, <2>2, <2>3 DEF OneDesign
    <2>6. PickStyle(day)' = PickStyle(day)
        BY <2>2 DEF PickStyle
    <2> QED BY <2>1, <2>2, <2>4, <2>5, <2>6 DEF OneDesign, Idle, SavesCard, Saving
<1>5. CASE Midnight
    <2>1. day' = day + 1 /\ UNCHANGED <<fixed, design, designs, restyled, call>>
        BY <1>5 DEF Midnight, files, history, past
    <2>2. day' \in Days /\ day' > day
        BY <1>0, <1>5, CardsAssumption DEF Midnight, Days
    <2>3. design[day'] = {}
        BY <2>2 DEF OneDesign
    <2>4. call.pc = "draw" => call.stem[1] # day'
        BY <1>0, <2>1, CardsAssumption DEF Timely, Weathering, CallTyped, Drawing, Stems, Days
    <2>5. \A d \in Days : d > day' => d > day
        BY <1>0, <2>1
    <2> QED BY <2>1, <2>3, <2>4, <2>5 DEF OneDesign, SavesCard
<1>6. ASSUME NEW s, FixStyle(s) PROVE OneDesign'
    <2>1. UNCHANGED <<day, design, designs, call>> /\ restyled' = restyled \cup {day}
        BY <1>6 DEF FixStyle, files
    <2> QED BY <2>1 DEF OneDesign, SavesCard
<1>7. ASSUME UNCHANGED <<day, fixed, design, designs, restyled>>,
             \/ UNCHANGED call
             \/ call'.pc # "draw" /\ (call'.pc \notin Saving \/ call'.pic.is # "card")
      PROVE  OneDesign'
    <2>1. PickStyle(day)' = PickStyle(day)
        BY <1>7 DEF PickStyle
    <2> QED BY <1>7, <2>1 DEF OneDesign, SavesCard
<1>8. ASSUME \/ SaveMonthOriginal \/ MonthOriginalFails
             \/ SaveMonth("open", "write") \/ SaveMonth("write", "prune")
      PROVE  /\ UNCHANGED <<day, fixed, design, designs, restyled>>
             /\ call'.pic.is # "card" /\ call'.pc # "draw"
    <2>1. call \in MonthSaved /\ call.pic.is = "month"
        BY <1>0, <1>8 DEF SaveMonthOriginal, MonthOriginalFails, SaveMonth, CallTyped, SavesMonth, Saving
    <2> QED BY <1>8, <2>1 DEF SaveMonthOriginal, MonthOriginalFails, SaveMonth, MonthSaved, history, past
<1>9. CASE DrawMonth
    <2>1. UNCHANGED <<day, fixed, design, designs, restyled>> /\ call'.pic.is # "card" /\ call'.pc # "draw"
        BY <1>9 DEF DrawMonth, past, Month
    <2> QED BY <1>7, <2>1
<1>10. ASSUME NEW net, \/ AskCalendar \/ PruneMonths \/ FrameFails \/ Crash
                       \/ AskWeather(net) \/ FetchWeather(net)
       PROVE  /\ UNCHANGED <<day, fixed, design, designs, restyled>>
              /\ call'.pc # "draw" /\ call'.pc \notin Saving
    BY <1>10 DEF AskCalendar, PruneMonths, FrameFails, Crash, AskWeather, FetchWeather, files, history,
       past, Idle, Saving
<1>11. ASSUME Hour \/ PlaceExpires \/ UNCHANGED vars
       PROVE  UNCHANGED <<day, fixed, design, designs, restyled, call>>
    BY <1>11 DEF Hour, PlaceExpires, vars, files, history, past
<1> QED
    <2>1. \/ SaveMonthOriginal \/ MonthOriginalFails
          \/ SaveMonth("open", "write") \/ SaveMonth("write", "prune")
          \/ Hour \/ PlaceExpires \/ AskCalendar \/ PruneMonths \/ FrameFails \/ Crash \/ UNCHANGED vars
          \/ \E net : AskWeather(net) \/ FetchWeather(net)
          => OneDesign'
        BY <1>7, <1>8, <1>10, <1>11
    <2> QED BY NextCases, <1>1, <1>2, <1>3, <1>4, <1>5, <1>6, <1>9, <2>1

LEMMA MonthsRightStep == Typed /\ Timely /\ MonthsRight /\ [Next]_vars => MonthsRight'
<1> SUFFICES ASSUME Typed, Timely, MonthsRight, [Next]_vars PROVE MonthsRight'
    OBVIOUS
<1>0. /\ day \in Days /\ day \in Nat /\ CallTyped /\ \A d \in Days : d \in Nat
      /\ month \in [Days -> MonthFiles]
    BY CardsAssumption DEF Typed, Days
<1>1. CASE AskCalendar
    <2>1. /\ call = Idle /\ month[day].frame = NoPic /\ UNCHANGED <<day, month>>
          /\ call' = [pc |-> "month", stem |-> day]
        BY <1>1 DEF AskCalendar, CalendarHit, files
    <2> QED BY <2>1 DEF MonthsRight, MonthWhole, SavesMonth, Saving, Idle
<1>2. CASE DrawMonth
    <2>1. PICK q, kept : /\ call.pc = "month" /\ UNCHANGED <<day, month>>
                         /\ call' = [pc |-> "original", stem |-> call.stem, pic |-> Month(day, q),
                                     kept |-> kept, lone |-> FALSE]
        BY <1>2 DEF DrawMonth
    <2> QED BY <2>1 DEF MonthsRight, MonthWhole, SavesMonth, Saving
<1>3. CASE SaveMonthOriginal \/ MonthOriginalFails
    <2>1. PICK o :
          /\ call \in MonthSaved /\ call.pc = "original" /\ UNCHANGED day
          /\ month' = [month EXCEPT ![call.stem].orig = o]
          /\ call'.pc = "open" /\ call'.stem = call.stem /\ call'.pic = call.pic
          /\ o = call.pic \/ call'.lone
          /\ SavesMonth
        BY <1>0, <1>3 DEF SaveMonthOriginal, MonthOriginalFails, CallTyped, SavesMonth, MonthSaved, Saving
    <2>2. call.stem \in Days /\ month[call.stem].frame = NoPic
        BY <2>1 DEF MonthSaved, MonthsRight
    <2>3. month'[call.stem].orig = o /\ month'[call.stem].frame = NoPic
        BY <1>0, <2>1, <2>2 DEF MonthFiles
    <2>4. \A d \in Days : d # call.stem => month'[d] = month[d]
        BY <1>0, <2>1
    <2>6. \A d \in Days : month'[d].frame \in {NoPic, Torn} \/ MonthWhole(d)'
        BY <2>1, <2>3, <2>4 DEF MonthsRight, MonthWhole
    <2> QED BY <2>1, <2>3, <2>6 DEF MonthsRight
<1>4. ASSUME NEW now, NEW next, SaveMonth(now, next),
             \/ now = "open" /\ next = "write"
             \/ now = "write" /\ next = "prune"
      PROVE  MonthsRight'
    <2>1. PICK pic :
          /\ call \in MonthSaved /\ call.pc = now /\ UNCHANGED day
          /\ month' = [month EXCEPT ![call.stem].frame = pic, ![call.stem].lone = call.lone]
          /\ call'.pc = next /\ call'.stem = call.stem /\ call'.pic = call.pic /\ call'.lone = call.lone
          /\ pic = Torn \/ pic = call.pic
          /\ SavesMonth
        BY <1>0, <1>4 DEF SaveMonth, CallTyped, SavesMonth, MonthSaved, Saving
    <2>2. /\ call.stem \in Days /\ call.pic \in MonthPics
          /\ call.lone \/ month[call.stem].orig = call.pic
          /\ call.stem <= call.pic.day /\ call.pic.day <= day
        BY <1>4, <2>1 DEF MonthSaved, MonthsRight, Timely
    <2>3. /\ month'[call.stem].orig = month[call.stem].orig
          /\ month'[call.stem].frame = pic /\ month'[call.stem].lone = call.lone
        BY <1>0, <2>1, <2>2 DEF MonthFiles
    <2>4. \A d \in Days : d # call.stem => month'[d] = month[d]
        BY <1>0, <2>1
    <2>6. \A d \in Days : month'[d].frame \in {NoPic, Torn} \/ MonthWhole(d)'
        BY <2>1, <2>2, <2>3, <2>4 DEF MonthsRight, MonthWhole
    <2> QED BY <1>4, <2>1, <2>2, <2>3, <2>6 DEF MonthsRight
<1>6. CASE PruneMonths
    <2>1. /\ UNCHANGED day /\ call.pc = "prune" /\ call' = Idle
          /\ month' = [d \in Days |-> IF d # day /\ month[d].frame # NoPic THEN NoFiles ELSE month[d]]
        BY <1>6 DEF PruneMonths
    <2>2. \A d \in Days : month'[d].frame \in {NoPic, Torn} \/ MonthWhole(d)'
        BY <1>0, <2>1 DEF MonthsRight, MonthWhole, NoFiles
    <2> QED BY <2>1, <2>2 DEF MonthsRight, Idle, SavesMonth, Saving
<1>7. CASE Midnight
    <2>1. day' = day + 1 /\ UNCHANGED <<month, call>>
        BY <1>7 DEF Midnight, files
    <2>2. ASSUME NEW d \in Days, MonthWhole(d) PROVE MonthWhole(d)'
        <3>1. month[d].frame.day \in Nat
            BY <1>0, <2>2 DEF MonthWhole, MonthPics
        <3> QED BY <1>0, <2>1, <2>2, <3>1 DEF MonthWhole
    <2> QED BY <2>1, <2>2 DEF MonthsRight, SavesMonth
<1>8. CASE Crash \/ FrameFails
    <2>1. call' = Idle /\ UNCHANGED <<day, month>>
        BY <1>8 DEF Crash, FrameFails, files
    <2> QED BY <2>1 DEF MonthsRight, MonthWhole, Idle, SavesMonth, Saving
<1>9. ASSUME UNCHANGED <<day, month>>, ~SavesMonth, call.pc # "month", ~SavesMonth', call'.pc # "month"
      PROVE  MonthsRight'
    BY <1>9 DEF MonthsRight, MonthWhole
<1>10. CASE UNCHANGED <<day, month, call>>
    BY <1>10 DEF MonthsRight, MonthWhole, SavesMonth
<1>11. ASSUME NEW net, DailyDesign \/ PruneWeather \/ AskWeather(net) \/ FetchWeather(net)
       PROVE  MonthsRight'
    <2>1. CASE DailyDesign \/ PruneWeather
        <3>1. /\ UNCHANGED <<day, month>> /\ call.pc # "month" /\ call'.pc # "month" /\ call'.pc \notin Saving
              /\ call.pc \in Saving => call.pic.is # "month"
            BY <2>1, DesignCase DEF PruneWeather, Idle, Saving
        <3> QED BY <1>9, <3>1 DEF SavesMonth
    <2>2. CASE AskWeather(net) \/ FetchWeather(net)
        <3>1. /\ UNCHANGED <<day, month>> /\ call.pc \in {"idle", "fetch"}
              /\ call'.pc \in {"idle", "fetch", "design"}
            BY <2>2 DEF AskWeather, FetchWeather, files, Idle
        <3> QED BY <1>9, <3>1 DEF SavesMonth, Saving
    <2> QED BY <1>11, <2>1, <2>2
<1>12. CASE DrawWeather
    <2>1. /\ UNCHANGED <<day, month>> /\ call.pc = "draw" /\ call'.pc = "original" /\ call'.pic.is = "card"
        BY <1>12 DEF DrawWeather, files, Card
    <2> QED BY <1>9, <2>1 DEF SavesMonth, Saving
<1>13. CASE \/ SaveWeatherOriginal \/ WeatherOriginalFails
            \/ SaveWeather("open", "write") \/ SaveWeather("write", "prune")
    <2>1. call \in CardSaved /\ call.pic.is = "card"
        BY <1>0, <1>13 DEF SaveWeatherOriginal, WeatherOriginalFails, SaveWeather, CallTyped, SavesCard, Saving
    <2>2. /\ UNCHANGED <<day, month>> /\ call.pc # "month" /\ call'.pc # "month" /\ call'.pic.is = "card"
        BY <1>13, <2>1 DEF SaveWeatherOriginal, WeatherOriginalFails, SaveWeather, CardSaved
    <2> QED BY <1>9, <2>1, <2>2 DEF SavesMonth
<1>14. ASSUME \/ Hour \/ PlaceExpires \/ UNCHANGED vars
              \/ \E s \in StyleSet \cup {AutoStyle} : FixStyle(s)
       PROVE  UNCHANGED <<day, month, call>>
    BY <1>14 DEF Hour, PlaceExpires, FixStyle, vars, files
<1> QED BY NextCases, <1>1, <1>2, <1>3, <1>4, <1>6, <1>7, <1>8, <1>10, <1>11, <1>12, <1>13, <1>14
\* The steps of the calendar, seen from the weather.
LEMMA CalendarCase ==
    ASSUME CallTyped, Calendar
    PROVE  /\ UNCHANGED <<day, fixed, weather, place>>
           /\ ~Weathering /\ ~SavesCard /\ ~Weathering' /\ ~SavesCard'
           /\ crossed' = crossed
<1> USE DEF Weathering, SavesCard, Saving
<1>1. CASE AskCalendar
    BY <1>1 DEF AskCalendar, files, history, past, Idle
<1>2. CASE DrawMonth
    BY <1>2 DEF DrawMonth, past, Month
<1>3. CASE PruneMonths
    BY <1>3 DEF PruneMonths, Idle
<1>4. CASE \/ SaveMonthOriginal \/ MonthOriginalFails
           \/ SaveMonth("open", "write") \/ SaveMonth("write", "prune")
    <2>1. call \in MonthSaved /\ call.pic.is = "month"
        BY <1>4 DEF SaveMonthOriginal, MonthOriginalFails, SaveMonth, CallTyped, SavesMonth
    <2> QED BY <1>4, <2>1 DEF SaveMonthOriginal, MonthOriginalFails, SaveMonth, MonthSaved, history, past
<1> QED BY <1>1, <1>2, <1>3, <1>4 DEF Calendar

\* A write of the weather card.
LEMMA SaveCase ==
    ASSUME CallTyped, \/ SaveWeatherOriginal \/ WeatherOriginalFails
                      \/ SaveWeather("open", "write") \/ SaveWeather("write", "prune")
    PROVE  /\ SavesCard /\ call \in CardSaved /\ ~Weathering
           /\ call'.stem = call.stem /\ call'.pic = call.pic /\ SavesCard' /\ ~Weathering'
           /\ UNCHANGED <<day, fixed, place, mem, disk, age, crossed>>
<1>1. SavesCard /\ call \in CardSaved /\ ~Weathering
    BY DEF SaveWeatherOriginal, WeatherOriginalFails, SaveWeather, CallTyped, SavesCard, Saving, Weathering
<1>2. call'.stem = call.stem /\ call'.pic = call.pic /\ call'.pc \in Saving
    BY <1>1 DEF SaveWeatherOriginal, WeatherOriginalFails, SaveWeather, CardSaved, Saving
<1>3. UNCHANGED <<day, fixed, place, crossed>>
    BY DEF SaveWeatherOriginal, WeatherOriginalFails, SaveWeather, history, past
<1> QED BY <1>1, <1>2, <1>3 DEF SavesCard, Weathering, Saving, place

\* That a style was changed in the middle of a drawing is not forgotten.
LEMMA CrossedStays == Typed /\ [Next]_vars => (crossed => crossed')
<1> SUFFICES ASSUME Typed, [Next]_vars PROVE crossed => crossed'
    OBVIOUS
<1>1. ASSUME NEW s, Crash \/ FrameFails \/ FixStyle(s) PROVE crossed => crossed'
    BY <1>1 DEF Crash, FrameFails, FixStyle, past
<1>2. ASSUME NEW net, AskWeather(net) \/ FetchWeather(net) PROVE crossed' = crossed
    BY <1>2 DEF AskWeather, FetchWeather, history, past
<1>3. DailyDesign => crossed' = crossed
    BY DesignCase DEF past
<1>4. \/ Midnight \/ Hour \/ PlaceExpires \/ DrawWeather \/ PruneWeather \/ UNCHANGED vars
      => crossed' = crossed
    BY DEF DrawWeather, PruneWeather, Midnight, Hour, PlaceExpires, vars, history, past
<1>5. \/ SaveWeatherOriginal \/ WeatherOriginalFails
      \/ SaveWeather("open", "write") \/ SaveWeather("write", "prune")
      => crossed' = crossed
    BY SaveCase DEF Typed
<1>6. Calendar => crossed' = crossed
    BY CalendarCase DEF Typed
<1> QED BY <1>1, <1>2, <1>3, <1>4, <1>5, <1>6 DEF Next, Weather

LEMMA HeedsStep == Typed /\ OnePlace /\ Timely /\ Heeds /\ [Next]_vars => Heeds'
<1> SUFFICES ASSUME Typed, OnePlace, Timely, Heeds, [Next]_vars PROVE Heeds'
    OBVIOUS
<1>0. /\ day \in Days /\ day \in Nat /\ CallTyped /\ \A d \in Days : d \in Nat
      /\ crossed => crossed'
    BY CardsAssumption, CrossedStays DEF Typed, Days
<1>1. ASSUME ~Weathering', ~SavesCard' PROVE Heeds'
    BY <1>1 DEF Heeds, Weathering
<1>2. ASSUME NEW net \in Places \cup {Nowhere}, AskWeather(net) PROVE Heeds'
    <2>1. CASE call' = Idle
        BY <2>1, <1>1 DEF Idle, Weathering, SavesCard, Saving
    <2>2. CASE call' = [pc |-> "fetch", stem |-> CacheStem(day, PickStyle(day), Located(net))]
        <3>1. UNCHANGED <<day, fixed>> /\ Located(net) = disk'
            BY <1>2, LocateFacts DEF AskWeather
        <3>2. call'.pc = "fetch" /\ call'.stem = <<day, PickStyle(day), disk'>>
            BY <2>2, <3>1 DEF CacheStem
        <3>3. PickStyle(day)' = PickStyle(day)
            BY <3>1 DEF PickStyle
        <3> QED BY <3>1, <3>2, <3>3 DEF Heeds, Weathering, SavesCard, Saving
    <2> QED BY <1>2, <2>1, <2>2 DEF AskWeather
<1>3. ASSUME NEW net \in Places \cup {Nowhere}, FetchWeather(net) PROVE Heeds'
    <2>1. CASE call' = Idle
        BY <2>1, <1>1 DEF Idle, Weathering, SavesCard, Saving
    <2>2. CASE call' = [pc |-> "design", stem |-> call.stem, at |-> Located(net)]
        <3>1. /\ UNCHANGED <<day, fixed>> /\ Located(net) = disk' /\ call.pc = "fetch"
              /\ disk' # disk => age' = "new" /\ disk' # Nowhere
            BY <1>3, LocateFacts DEF FetchWeather
        <3>2. call.stem[3] = disk /\ (~crossed => call.stem[2] = PickStyle(call.stem[1]))
            BY <3>1 DEF Heeds, Weathering
        <3>3. call'.pc = "design" /\ call'.stem = call.stem /\ call'.at = disk'
            BY <2>2, <3>1
        <3> QED BY <1>0, <3>1, <3>2, <3>3 DEF Heeds, Weathering, SavesCard, Saving, Moved, PickStyle
    <2> QED BY <1>3, <2>1, <2>2 DEF FetchWeather
<1>4. CASE DailyDesign
    <2>1. PICK g, kept : call' = [pc |-> "draw", stem |-> call.stem, at |-> call.at,
                                  style |-> PickStyle(day), design |-> g, kept |-> kept]
        BY <1>4 DEF DailyDesign
    <2>2. call.pc = "design" /\ UNCHANGED <<day, fixed, disk, age>>
        BY <1>4, DesignCase DEF place
    <2>3. /\ ~crossed => call.stem[2] = PickStyle(call.stem[1])
          /\ call.at = call.stem[3] \/ Moved(call.stem[3])
        BY <2>2 DEF Heeds, Weathering
    <2> QED BY <1>0, <2>1, <2>2, <2>3 DEF Heeds, Weathering, SavesCard, Saving, Moved, PickStyle
<1>5. CASE DrawWeather
    <2>1. /\ call.pc = "draw" /\ UNCHANGED <<day, fixed, disk, age>>
          /\ call' = [pc |-> "original", stem |-> call.stem,
                      pic |-> Card(day, call.style, call.at, call.design),
                      kept |-> call.kept, lone |-> FALSE]
        BY <1>5 DEF DrawWeather, place
    <2>2. /\ ~crossed => call.stem[2] = PickStyle(call.stem[1])
          /\ call.at = call.stem[3] \/ Moved(call.stem[3])
          /\ ~crossed /\ call.stem[1] = day => call.style = call.stem[2]
        BY <2>1 DEF Heeds, Weathering
    <2> QED BY <1>0, <2>1, <2>2 DEF Heeds, Weathering, SavesCard, Saving, Moved, PickStyle, Card
<1>6. CASE \/ SaveWeatherOriginal \/ WeatherOriginalFails
           \/ SaveWeather("open", "write") \/ SaveWeather("write", "prune")
    <2>1. /\ SavesCard /\ ~Weathering' /\ call'.stem = call.stem /\ call'.pic = call.pic
          /\ UNCHANGED <<fixed, disk, age>>
        BY <1>0, <1>6, SaveCase
    <2>2. /\ ~crossed => call.stem[2] = PickStyle(call.stem[1])
          /\ ~crossed /\ call.stem[1] = call.pic.day => call.pic.style = call.stem[2]
          /\ call.pic.at = call.stem[3] \/ Moved(call.stem[3])
        BY <2>1 DEF Heeds
    <2> QED BY <1>0, <2>1, <2>2 DEF Heeds, Weathering, Moved, PickStyle
<1>7. CASE PruneWeather \/ FrameFails \/ Crash
    BY <1>1, <1>7 DEF PruneWeather, FrameFails, Crash, Idle, Weathering, SavesCard, Saving
<1>8. CASE Calendar
    BY <1>0, <1>1, <1>8, CalendarCase
<1>9. CASE Midnight
    <2>1. day' = day + 1 /\ UNCHANGED <<fixed, disk, age, call>>
        BY <1>9 DEF Midnight, place
    <2>2. call.pc = "draw" => call.stem[1] # day'
        BY <1>0, <2>1, CardsAssumption DEF Timely, Weathering, CallTyped, Drawing, Stems, Days
    <2> QED BY <1>0, <2>1, <2>2 DEF Heeds, Weathering, SavesCard, Moved, PickStyle
<1>10. CASE PlaceExpires
    <2>1. age = "hours" /\ UNCHANGED <<fixed, disk, call, day>>
        BY <1>10 DEF PlaceExpires
    <2> QED BY <1>0, <2>1 DEF Heeds, Weathering, SavesCard, Moved, PickStyle
<1>11. ASSUME NEW s, FixStyle(s) PROVE Heeds'
    <2>1. CASE call = Idle
        <3>1. call' = Idle
            BY <1>11, <2>1 DEF FixStyle
        <3> QED BY <1>1, <3>1 DEF Idle, Weathering, SavesCard, Saving
    <2>2. CASE call # Idle
        <3>1. crossed' /\ UNCHANGED <<day, disk, age, call>>
            BY <1>11, <2>2 DEF FixStyle, place
        <3> QED BY <3>1 DEF Heeds, Weathering, SavesCard, Moved
    <2> QED BY <2>1, <2>2
<1>13. CASE Hour
    <2>1. call' = Idle
        BY <1>13 DEF Hour, Idle
    <2> QED BY <1>1, <2>1 DEF Idle, Weathering, SavesCard, Saving
<1>12. CASE UNCHANGED vars
    BY <1>12 DEF vars, place, history, past, Heeds, Weathering, SavesCard, Moved, PickStyle
<1> QED BY <1>2, <1>3, <1>4, <1>5, <1>6, <1>7, <1>8, <1>9, <1>10, <1>11, <1>12, <1>13 DEF Next, Weather

LEMMA MovedKept ==
    ASSUME Typed, OnePlace, NEW net \in Places \cup {Nowhere}, Locate(net), NEW from, Moved(from)
    PROVE  Moved(from)'
<1>1. disk' = disk /\ (age' = age \/ age' = "new")
    BY LocateFacts DEF Moved
<1> QED BY <1>1 DEF Moved

\* A write puts one file in place and leaves the others.
LEMMA WriteKeeps ==
    ASSUME Typed, OneFile, CardsRight, SavesCard, call \in CardSaved, NEW f \in Files,
           f.stem = call.stem, weather' = Put(f), UNCHANGED <<day, disk, age, crossed>>,
           call'.stem = call.stem, call'.pic = call.pic, SavesCard', ~Weathering',
           call'.lone \/ f.orig = call.pic,
           f.fresh => call'.pc \in {"write", "prune"},
           ~f.fresh \/ f.frame = Torn \/ CardWhole(f)
    PROVE  CardsRight'
<1>1. /\ \E n \in DOMAIN weather' : weather'[n] = f
      /\ \A i \in DOMAIN weather' :
            \/ weather'[i] = f
            \/ weather'[i].stem # f.stem /\ \E j \in DOMAIN weather : weather'[i] = weather[j]
    BY PutFacts DEF Typed
<1>2. \A i \in DOMAIN weather' : weather'[i].stem = call.stem => weather'[i] = f
    BY <1>1
<1>3. \A i \in Own' : weather'[i] = f
    BY <1>2 DEF Own, Named
<1>4. call'.lone \/ \E i \in Own' : weather'[i].orig = call'.pic
    BY <1>1 DEF Own, Named
<1>5. \A g : CardWhole(g) => CardWhole(g)'
    BY DEF CardWhole, Moved
<1>6. ASSUME NEW i \in DOMAIN weather' PROVE EachWhole(i)'
    <2>1. CASE weather'[i] = f
        BY <1>5, <2>1 DEF EachWhole
    <2>2. ASSUME NEW j \in DOMAIN weather, weather'[i] = weather[j], weather'[i].stem # f.stem
          PROVE  EachWhole(i)'
        <3>1. ~weather[j].fresh \/ weather[j].frame = Torn \/ CardWhole(weather[j])
            BY <2>2 DEF CardsRight, EachWhole
        <3> QED BY <1>5, <2>2, <3>1 DEF EachWhole
    <2> QED BY <1>1, <2>1, <2>2
<1> QED BY <1>3, <1>4, <1>6 DEF CardsRight

LEMMA CardsRightStep ==
    /\ Typed /\ OnePlace /\ OneFile /\ Timely /\ Heeds /\ CardsRight /\ [Next]_vars
    => CardsRight'
<1> SUFFICES ASSUME Typed, OnePlace, OneFile, Timely, Heeds, CardsRight, [Next]_vars
             PROVE  CardsRight'
    OBVIOUS
<1>00. crossed => crossed'
    BY CrossedStays
<1>0. /\ day \in Days /\ day \in Nat /\ CallTyped /\ \A d \in Days : d \in Nat
      /\ weather \in Seq(Files) /\ \A i \in DOMAIN weather : weather[i] \in Files
    BY CardsAssumption DEF Typed, Days
<1>1. ASSUME ~Weathering', ~SavesCard',
             \A i \in DOMAIN weather' : EachWhole(i)'
      PROVE  CardsRight'
    BY <1>1 DEF CardsRight
<1>2. ASSUME NEW net \in Places \cup {Nowhere}, AskWeather(net) \/ FetchWeather(net)
      PROVE  CardsRight'
    <2>1. Locate(net) /\ UNCHANGED <<day, weather>> /\ ~SavesCard /\ ~SavesCard'
          /\ call'.pc \in {"idle", "fetch", "design"}
        BY <1>2 DEF AskWeather, FetchWeather, files, SavesCard, Saving, Idle
    <2>2. \A i \in DOMAIN weather : EachWhole(i)
        BY DEF CardsRight
    <2>3. \A f : CardWhole(f) => CardWhole(f)'
        BY <1>00, <2>1, MovedKept DEF CardWhole
    <2>5. \A i \in DOMAIN weather : CardWhole(weather[i]) => EachWhole(i)'
        BY <2>1, <2>3 DEF EachWhole
    <2>4. ASSUME Weathering' PROVE \A i \in Own' : ~weather[i].fresh
        <3>1. CASE AskWeather(net)
            <4> DEFINE stem == CacheStem(day, PickStyle(day), Located(net))
            <4>1. stem \in Stems
                <5>1. Located(net) \in Places \cup {Nowhere}
                    BY <2>1, LocateFacts
                <5>2. PickStyle(day) \in StyleSet
                    BY <1>0, StyleInSet DEF Typed
                <5> QED BY <1>0, <5>1, <5>2 DEF CacheStem, Stems
            <4>2. call'.stem = stem /\ ~(FilesOf(stem).frame # NoPic /\ FilesOf(stem).fresh)
                BY <2>4, <3>1 DEF AskWeather, Weathering, Idle
            <4> HIDE DEF stem
            <4>3. ASSUME NEW i \in Named(stem), weather[i].fresh PROVE FALSE
                <5>1. i \in DOMAIN weather /\ (weather[i].frame = Torn \/ CardWhole(weather[i]))
                    BY <2>2, <4>3 DEF Named, EachWhole
                <5>2. FilesOf(stem) = weather[i]
                    BY <1>0, <4>1, <5>1, FilesFacts DEF Named, OneFile
                <5>3. weather[i].frame # NoPic
                    BY <5>1 DEF CardWhole, CardPics, NoPic, Torn
                <5> QED BY <4>2, <4>3, <5>2, <5>3
            <4> QED BY <2>1, <4>2, <4>3 DEF Own, Named
        <3>2. CASE FetchWeather(net)
            <4>1. call.pc = "fetch" /\ call'.stem = call.stem
                BY <2>4, <3>2 DEF FetchWeather, Weathering, Idle
            <4>2. Own' = Own
                BY <2>1, <4>1 DEF Own, Named
            <4> QED BY <4>1, <4>2 DEF CardsRight, Weathering
        <3> QED BY <1>2, <3>1, <3>2
    <2>6. \A i \in DOMAIN weather' : EachWhole(i)'
        BY <2>1, <2>2, <2>5 DEF EachWhole
    <2> QED BY <2>1, <2>4, <2>6 DEF CardsRight
<1>3. CASE DailyDesign \/ DrawWeather
    <2>1. /\ UNCHANGED <<day, weather, disk, age>> /\ Weathering /\ ~SavesCard
          /\ call'.stem = call.stem /\ call'.pc \in {"draw", "original"}
        <3>1. CASE DrawWeather
            BY <3>1 DEF DrawWeather, files, place, Weathering, SavesCard, Saving
        <3>2. CASE DailyDesign
            <4>1. call'.stem = call.stem
                BY <3>2 DEF DailyDesign
            <4> QED BY <3>2, <4>1, DesignCase DEF place, Weathering, SavesCard, Saving
        <3> QED BY <1>3, <3>1, <3>2
    <2>2. \A i \in Own : ~weather[i].fresh
        BY <2>1 DEF CardsRight, Weathering
    <2>3. Own' = Own
        BY <2>1 DEF Own, Named
    <2>4. \A i \in DOMAIN weather' : EachWhole(i)'
        BY <1>00, <2>1 DEF CardsRight, EachWhole, CardWhole, Moved
    <2>5. ~(SavesCard' /\ call'.pc # "original")
        BY <2>1 DEF SavesCard, Saving
    <2> QED BY <2>1, <2>2, <2>3, <2>4, <2>5 DEF CardsRight
<1>4. CASE SaveWeatherOriginal \/ WeatherOriginalFails
    <2>1. /\ SavesCard /\ call \in CardSaved /\ call'.stem = call.stem /\ call'.pic = call.pic
          /\ SavesCard' /\ ~Weathering' /\ UNCHANGED <<day, disk, age, crossed>>
        BY <1>0, <1>4, SaveCase
    <2>2. PICK old \in Files : old = FilesOf(call.stem) /\ old.stem = call.stem
        BY <1>0, <2>1, FilesFacts DEF CardSaved
    <2>3. ~old.fresh /\ \A i \in Own : ~weather[i].fresh
        <3>0. call.pc = "original"
            BY <1>4 DEF SaveWeatherOriginal, WeatherOriginalFails
        <3>1. CASE Named(call.stem) = {}
            BY <2>2, <3>1 DEF FilesOf, Own
        <3>2. CASE \E i \in Named(call.stem) : old = weather[i]
            BY <2>1, <3>0, <3>2 DEF CardsRight, Own
        <3> QED BY <1>0, <2>1, <2>2, <3>1, <3>2, FilesFacts DEF CardSaved
    <2>4. CASE UNCHANGED weather /\ call'.lone
        <3>1. Own' = Own
            BY <2>1, <2>4 DEF Own, Named
        <3>2. \A i \in DOMAIN weather' : EachWhole(i)'
            BY <2>1, <2>4 DEF CardsRight, EachWhole, CardWhole, Moved
        <3> QED BY <2>1, <2>3, <2>4, <3>1, <3>2 DEF CardsRight
    <2>5. ASSUME NEW o \in {Torn} \cup CardPics, weather' = Put([old EXCEPT !.orig = o]),
                 call'.lone \/ o = call.pic
          PROVE  CardsRight'
        <3> DEFINE f == [old EXCEPT !.orig = o]
        <3>1. f \in Files /\ f.stem = old.stem /\ f.orig = o /\ f.fresh = old.fresh
            BY <2>2 DEF Files
        <3>2. weather' = Put(f)
            BY <2>5
        <3> HIDE DEF f
        <3> QED BY <2>1, <2>2, <2>3, <2>5, <3>1, <3>2, WriteKeeps
    <2>6. CASE SaveWeatherOriginal
        BY <2>1, <2>2, <2>5, <2>6 DEF SaveWeatherOriginal, CardSaved
    <2>7. CASE WeatherOriginalFails
        <3>1. call'.lone /\ weather' \in {weather, Put([old EXCEPT !.orig = Torn])}
            BY <2>1, <2>2, <2>7 DEF WeatherOriginalFails, CardSaved
        <3> QED BY <2>4, <2>5, <3>1
    <2> QED BY <1>4, <2>6, <2>7
<1>5. ASSUME NEW now, NEW next, SaveWeather(now, next),
             \/ now = "open" /\ next = "write"
             \/ now = "write" /\ next = "prune"
      PROVE  CardsRight'
    <2>1. /\ SavesCard /\ call \in CardSaved /\ call'.stem = call.stem /\ call'.pic = call.pic
          /\ SavesCard' /\ ~Weathering' /\ UNCHANGED <<day, disk, age, crossed>>
        BY <1>0, <1>5, SaveCase
    <2>2. PICK old \in Files : old = FilesOf(call.stem) /\ old.stem = call.stem
        BY <1>0, <2>1, FilesFacts DEF CardSaved
    <2>3. call.lone \/ old.orig = call.pic
        <3> SUFFICES ASSUME ~call.lone PROVE old.orig = call.pic
            OBVIOUS
        <3>1. PICK i \in Named(call.stem) : weather[i].orig = call.pic
            BY <1>5, <2>1 DEF CardsRight, SaveWeather, Own
        <3>2. FilesOf(call.stem) = weather[i]
            BY <1>0, <2>1, <3>1, FilesFacts DEF Named, OneFile, CardSaved
        <3> QED BY <2>2, <3>1, <3>2
    <2>4. PICK pic \in {NoPic, Torn} \cup CardPics : pic = IF now = "open" THEN Torn ELSE call.pic
        BY <2>1 DEF CardSaved
    <2> DEFINE f == [old EXCEPT !.frame = pic, !.lone = call.lone, !.fresh = TRUE]
    <2>5. /\ f \in Files /\ f.stem = old.stem /\ f.orig = old.orig /\ f.frame = pic
          /\ f.lone = call.lone
        <3>1. call.lone \in BOOLEAN
            BY <2>1 DEF CardSaved
        <3> QED BY <2>2, <2>4, <3>1 DEF Files
    <2>6. weather' = Put(f) /\ call'.pc = next /\ call'.lone = call.lone
        BY <1>5, <2>1, <2>2, <2>4 DEF SaveWeather, CardSaved
    <2> HIDE DEF f
    <2>7. CASE now = "open"
        BY <1>5, <2>1, <2>2, <2>3, <2>4, <2>5, <2>6, <2>7, WriteKeeps
    <2>8. CASE now = "write"
        <3>1. CardWhole(f)
            BY <2>1, <2>2, <2>3, <2>4, <2>5, <2>8 DEF CardWhole, Timely, Heeds, CardSaved
        <3> QED BY <1>5, <2>1, <2>2, <2>3, <2>5, <2>6, <2>8, <3>1, WriteKeeps
    <2> QED BY <1>5, <2>7, <2>8
<1>6. CASE PruneWeather
    <2>1. call.pc = "prune" /\ call' = Idle /\ UNCHANGED <<day, disk, age>>
        BY <1>6 DEF PruneWeather, place
    <2>2. PICK k \in Nat : \A i \in DOMAIN weather' :
              i + k \in DOMAIN weather /\ weather'[i] = weather[i + k]
        BY <1>0, <1>6, PruneFacts
    <2>4. \A i \in DOMAIN weather' : EachWhole(i)'
        BY <1>00, <2>1, <2>2 DEF CardsRight, EachWhole, CardWhole, Moved
    <2> QED BY <1>1, <2>1, <2>4 DEF Idle, Weathering, SavesCard, Saving
<1>7. CASE Crash \/ FrameFails
    <2>1. call' = Idle /\ UNCHANGED <<day, disk, age, weather>>
        BY <1>7 DEF Crash, FrameFails, files, place
    <2>2. \A i \in DOMAIN weather' : EachWhole(i)'
        BY <1>00, <2>1 DEF CardsRight, EachWhole, CardWhole, Moved
    <2> QED BY <1>1, <2>1, <2>2 DEF Idle, Weathering, SavesCard, Saving
<1>8. CASE Calendar
    <2>1. /\ UNCHANGED <<day, disk, age, weather>>
          /\ ~Weathering /\ ~SavesCard /\ ~Weathering' /\ ~SavesCard'
        BY <1>0, <1>8, CalendarCase DEF place
    <2>2. \A i \in DOMAIN weather' : EachWhole(i)'
        BY <1>00, <2>1 DEF CardsRight, EachWhole, CardWhole, Moved
    <2> QED BY <1>1, <2>1, <2>2
<1>9. CASE Midnight
    <2>1. day' = day + 1 /\ UNCHANGED <<weather, disk, age, call>>
        BY <1>9 DEF Midnight, files, place
    <2>2. ASSUME NEW f, CardWhole(f) PROVE CardWhole(f)'
        <3>1. f.frame.day \in Nat
            BY <1>0, <2>2 DEF CardWhole, CardPics
        <3> QED BY <1>00, <1>0, <2>1, <2>2, <3>1 DEF CardWhole, Moved
    <2> QED BY <2>1, <2>2 DEF CardsRight, EachWhole, Weathering, SavesCard, Own, Named
<1>10. CASE PlaceExpires
    <2>1. age = "hours" /\ UNCHANGED <<weather, disk, call, day>>
        BY <1>10 DEF PlaceExpires, files
    <2> QED BY <1>00, <2>1 DEF CardsRight, EachWhole, Weathering, SavesCard, Own, Named, CardWhole, Moved
<1>11. CASE Hour
    <2>1. /\ call' = Idle
          /\ weather' = [i \in DOMAIN weather |-> [weather[i] EXCEPT !.fresh = FALSE]]
        BY <1>11 DEF Hour
    <2>2. \A i \in DOMAIN weather : [weather[i] EXCEPT !.fresh = FALSE].fresh = FALSE
        BY <1>0 DEF Files
    <2>3. \A i \in DOMAIN weather' : EachWhole(i)'
        BY <2>1, <2>2 DEF EachWhole
    <2> QED BY <1>1, <2>1, <2>3 DEF Idle, Weathering, SavesCard, Saving
<1>12. ASSUME NEW s, FixStyle(s) \/ UNCHANGED vars PROVE CardsRight'
    <2>1. UNCHANGED <<weather, disk, age, call, day>>
        BY <1>12 DEF FixStyle, vars, files, place
    <2> QED BY <1>00, <2>1 DEF CardsRight, EachWhole, Weathering, SavesCard, Own, Named, CardWhole, Moved
<1> QED BY <1>2, <1>3, <1>4, <1>5, <1>6, <1>7, <1>8, <1>9, <1>10, <1>11, <1>12 DEF Next, Weather
LEMMA InitIInv == Init => IInv
<1> SUFFICES ASSUME Init PROVE IInv
    OBVIOUS
<1>0. 0 \in Days /\ call.pc = "idle" /\ call = Idle
    BY CardsAssumption DEF Init, Days, Idle
<1>1. Typed
    <2>1. CallTyped
        BY <1>0 DEF CallTyped, SavesMonth, SavesCard, Saving
    <2>2. month \in [Days -> MonthFiles]
        BY DEF Init, NoFiles, MonthFiles
    <2>3. weather \in Seq(Files)
        BY DEF Init
    <2> QED BY <1>0, <2>1, <2>2, <2>3 DEF Init, Typed
<1>2. OnePlace /\ OneFile /\ weather = <<>>
    BY DEF Init, OnePlace, OneFile
<1>3. ~Weathering /\ ~SavesCard /\ ~SavesMonth /\ call.pc # "month" /\ call.pc # "draw"
    BY <1>0 DEF Weathering, SavesCard, SavesMonth, Saving
<1>4. Timely
    BY <1>3 DEF Timely
<1>5. OneQuote /\ OneDesign
    <2>1. \A d \in Days : quotes[d] = {} /\ quote[d] = {} /\ design[d] = {} /\ designs[d] = {}
        BY DEF Init
    <2>2. day = 0
        BY DEF Init
    <2> QED BY <1>0, <1>3, <2>1, <2>2 DEF OneQuote, OneDesign
<1>6. MonthsRight /\ Heeds /\ CardsRight
    BY <1>2, <1>3 DEF Init, MonthsRight, Heeds, CardsRight, NoFiles, Weathering
<1> QED BY <1>1, <1>2, <1>4, <1>5, <1>6 DEF IInv

LEMMA NextIInv == IInv /\ [Next]_vars => IInv'
BY TypedStep, OnePlaceStep, OneFileStep, TimelyStep, OneQuoteStep, OneDesignStep,
   MonthsRightStep, HeedsStep, CardsRightStep DEF IInv

LEMMA Invariance == Spec => []IInv
BY InitIInv, NextIInv, PTL DEF Spec

\* What a hit in either cache answers with, unless it is torn.
LEMMA Hits ==
    ASSUME IInv, call = Idle
    PROVE  /\ CalendarHit => month[day].frame = Torn \/ MonthWhole(day)
           /\ WeatherHit => /\ Current.frame = Torn \/ CardWhole(Current)
                            /\ Current.stem = <<day, PickStyle(day), disk>>
<1>1. Typed /\ OneFile /\ OnePlace /\ MonthsRight /\ CardsRight
    BY DEF IInv
<1>2. CalendarHit => month[day].frame = Torn \/ MonthWhole(day)
    BY <1>1 DEF Typed, CalendarHit, MonthsRight
<1>3. ASSUME WeatherHit
      PROVE  /\ Current.frame = Torn \/ CardWhole(Current)
             /\ Current.stem = <<day, PickStyle(day), disk>>
    <2> DEFINE stem == <<day, PickStyle(day), disk>>
    <2>1. Current = FilesOf(stem)
        BY <1>1 DEF Current, CacheStem, Place, OnePlace
    <2>2. stem \in Stems
        BY <1>1, StyleInSet DEF Typed, Stems
    <2> HIDE DEF stem
    <2>3. PICK i \in Named(stem) : FilesOf(stem) = weather[i]
        <3>1. CASE FilesOf(stem) = [stem |-> stem, frame |-> NoPic, orig |-> NoPic,
                                    lone |-> FALSE, fresh |-> FALSE]
            BY <1>3, <2>1, <3>1 DEF WeatherHit
        <3> QED BY <1>1, <2>2, <3>1, FilesFacts DEF Typed
    <2>4. (weather[i].frame = Torn \/ CardWhole(weather[i])) /\ weather[i].stem = stem
        BY <1>1, <1>3, <2>1, <2>3 DEF CardsRight, EachWhole, Named, WeatherHit
    <2> QED BY <2>1, <2>3, <2>4 DEF stem
<1> QED BY <1>2, <1>3

(* What is served from the cache is of today, in today's style, of the      *)
(* place the frame is at: the name of a card's file was chosen when it was  *)
(* asked for, and what is in it was decided at four later steps             *)
(* (render_weather_card, render_calendar_card).                             *)
THEOREM CardsAreCurrent == Spec => []CurrentCard
<1>1. IInv => CurrentCard
    <2> SUFFICES ASSUME IInv, call = Idle
                 PROVE  /\ CalendarHit /\ month[day].frame # Torn => month[day].frame.day = day
                        /\ WeatherHit /\ Current.frame # Torn =>
                              /\ Current.frame.day = day
                              /\ ~crossed => Current.frame.style = PickStyle(day)
                              /\ Current.frame.at = Place
        BY DEF CurrentCard
    <2>1. day \in Nat /\ Typed /\ OnePlace /\ \A d \in Days : d \in Nat
        BY CardsAssumption DEF IInv, Typed, Days
    <2>2. CalendarHit /\ month[day].frame # Torn => month[day].frame.day = day
        BY <2>1, Hits DEF MonthWhole, MonthPics
    <2>3. ASSUME WeatherHit, Current.frame # Torn
          PROVE  /\ Current.frame.day = day
                 /\ ~crossed => Current.frame.style = PickStyle(day)
                 /\ Current.frame.at = Place
        <3>1. /\ Current.frame \in CardPics
              /\ day <= Current.frame.day /\ Current.frame.day <= day
              /\ ~crossed /\ day = Current.frame.day => Current.frame.style = PickStyle(day)
              /\ Current.frame.at = disk \/ Moved(disk)
            BY <2>3, Hits DEF CardWhole
        <3>2. Current.frame.day = day
            BY <2>1, <3>1 DEF CardPics
        <3>3. Place = disk
            BY <2>1 DEF OnePlace, Place
        <3> QED BY <3>1, <3>2, <3>3 DEF Moved
    <2> QED BY <2>2, <2>3
<1> QED BY Invariance, <1>1, PTL

(* A card in the cache has its own original beside it, the one the preview  *)
(* is made of, unless just its own could not be saved (preview of           *)
(* render_weather_card, render_calendar_card, which write the frame all the *)
(* same).                                                                   *)
THEOREM OriginalsFollow == Spec => []ServedHasItsOriginal
<1>1. IInv => ServedHasItsOriginal
    BY Hits DEF ServedHasItsOriginal, WithOriginal, MonthWhole, CardWhole
<1> QED BY Invariance, <1>1, PTL

(* The sentence and, while the owner leaves the style alone, the design are *)
(* the same all day, however often the cards are drawn, of all cards whose  *)
(* answer could be kept (daily_quote, _daily_design, which go on when the   *)
(* file cannot be written).                                                 *)
THEOREM DayIsSteady == Spec => []SteadyAllDay
<1>1. IInv => SteadyAllDay
    <2> SUFFICES ASSUME IInv, NEW d \in Days
                 PROVE  /\ Cardinality(quotes[d]) <= 1
                        /\ d \notin restyled => \A k, l \in designs[d] : k[1] = l[1] => k = l
        BY DEF SteadyAllDay
    <2>1. \A p, q \in quotes[d] : p = q
        BY DEF IInv, OneQuote
    <2>2. Cardinality(quotes[d]) <= 1
        <3>1. CASE quotes[d] = {}
            BY <3>1, FS_EmptySet
        <3>2. CASE quotes[d] # {}
            <4>1. PICK p : quotes[d] = {p}
                BY <2>1, <3>2
            <4>2. Cardinality({p}) = 1
                BY FS_Singleton
            <4> QED BY <4>1, <4>2
        <3> QED BY <3>1, <3>2
    <2>3. d \notin restyled => \A k, l \in designs[d] : k = l
        BY DEF IInv, OneDesign
    <2> QED BY <2>2, <2>3
<1> QED BY Invariance, <1>1, PTL

-----------------------------------------------------------------------------
(* The screen calibration and the way of a picture, for any panel, any      *)
(* colours of its inks, any picture, and whatever the owner does.  First    *)
(* the arithmetic of the raster: row, column and the place in the sequence. *)
LEMMA DivMod ==
    ASSUME NEW a \in Int, NEW w \in Nat \ {0}
    PROVE  /\ a % w \in 0..(w - 1) /\ a \div w \in Int
           /\ a = (a \div w) * w + (a % w)
<1>1. a % w \in 0..(w - 1)
    OBVIOUS
<1>2. a \div w \in Int
    OBVIOUS
<1>3. a = (a \div w) * w + (a % w)
    BY SMTT(30)
<1> QED BY <1>1, <1>2, <1>3

LEMMA Product == ASSUME NEW p \in Int, NEW q \in Int, NEW w \in Nat, p <= q PROVE p * w <= q * w
<1>1. (q - p) * w = q * w - p * w
    OBVIOUS
<1>2. (q - p) * w >= 0
    OBVIOUS
<1> QED BY <1>1, <1>2

LEMMA DivModOnly ==
    ASSUME NEW w \in Nat \ {0}, NEW q \in Int, NEW r \in 0..(w - 1)
    PROVE  (q * w + r) % w = r /\ (q * w + r) \div w = q
<1> DEFINE a == q * w + r
<1>1. a \in Int /\ a % w \in 0..(w - 1) /\ a \div w \in Int /\ a = (a \div w) * w + (a % w)
    <2>1. a \in Int
        OBVIOUS
    <2> QED BY <2>1, DivMod
<1>2. ~(a \div w > q)
    <2> SUFFICES ASSUME a \div w > q PROVE FALSE
        OBVIOUS
    <2>1. (q + 1) * w <= (a \div w) * w
        BY <1>1, Product
    <2>2. (q + 1) * w = q * w + w
        OBVIOUS
    <2> QED BY <2>1, <2>2, <1>1
<1>3. ~(a \div w < q)
    <2> SUFFICES ASSUME a \div w < q PROVE FALSE
        OBVIOUS
    <2>1. (a \div w) * w <= (q - 1) * w
        BY <1>1, Product
    <2>2. (q - 1) * w = q * w - w
        OBVIOUS
    <2> QED BY <2>1, <2>2, <1>1
<1>4. a \div w = q
    BY <1>1, <1>2, <1>3
<1> QED BY <1>1, <1>4

LEMMA RasterOf ==
    ASSUME NEW w \in Nat \ {0}, NEW h \in Nat \ {0}, NEW n \in 1..(w * h)
    PROVE  /\ (n - 1) % w \in 0..(w - 1) /\ (n - 1) \div w \in 0..(h - 1)
           /\ n = ((n - 1) \div w) * w + ((n - 1) % w) + 1
<1> DEFINE a == n - 1
           q == a \div w
<1>1. w * h \in Nat /\ a \in Int /\ a >= 0 /\ a < w * h /\ n = a + 1
    OBVIOUS
<1> HIDE DEF a
<1>2. a % w \in 0..(w - 1) /\ q \in Int /\ a = q * w + (a % w)
    BY <1>1, DivMod
<1> HIDE DEF q
<1>3. ~(q < 0)
    <2> SUFFICES ASSUME q < 0 PROVE FALSE
        OBVIOUS
    <2>1. q * w <= (-1) * w
        BY <1>2, Product
    <2>2. (-1) * w = -w /\ q * w \in Int
        BY <1>2
    <2> QED BY <2>1, <2>2, <1>1, <1>2
<1>4. ~(q >= h)
    <2> SUFFICES ASSUME q >= h PROVE FALSE
        OBVIOUS
    <2>1. h * w <= q * w
        BY <1>2, Product
    <2>2. h * w = w * h /\ q * w \in Int
        BY <1>2
    <2> QED BY <2>1, <2>2, <1>1, <1>2
<1> QED BY <1>1, <1>2, <1>3, <1>4 DEF q, a

LEMMA RasterAt ==
    ASSUME NEW w \in Nat \ {0}, NEW h \in Nat \ {0}, NEW x \in 0..(w - 1), NEW y \in 0..(h - 1)
    PROVE  /\ y * w + x + 1 \in 1..(w * h)
           /\ (y * w + x + 1 - 1) % w = x /\ (y * w + x + 1 - 1) \div w = y
<1>1. 0 * w <= y * w /\ y * w <= (h - 1) * w
    BY Product
<1>2. y * w \in Int /\ (h - 1) * w = w * h - w /\ w * h \in Nat /\ 0 * w = 0
    OBVIOUS
<1>3. y * w + x + 1 \in 1..(w * h)
    BY <1>1, <1>2
<1>4. y * w + x + 1 - 1 = y * w + x
    BY <1>2
<1> QED BY <1>3, <1>4, DivModOnly

(* What the device paints at n: the half of a byte, by name.               *)
HalfByte(data, n) ==
    LET byte == data[((n - 1) \div 2) + 1] IN IF n % 2 = 1 THEN byte \div 16 ELSE byte % 16

LEMMA Quarter == \E q \in Nat \ {0} : Width = 4 * q /\ RowBytes = 2 * q /\ HalfRow = q /\ Width \div 2 = 2 * q
<1> DEFINE q == Width \div 4
<1>1. q \in Nat \ {0} /\ Width = 4 * q
    BY Fps6Assumption
<1>2. RowBytes = 2 * q /\ HalfRow = q /\ Width \div 2 = 2 * q
    BY <1>1 DEF RowBytes, HalfRow
<1> QED BY <1>1, <1>2

LEMMA Halves ==
    ASSUME NEW q \in Nat \ {0}, NEW w, w = 2 * q, NEW x \in 0..(4 * q - 1)
    PROVE  /\ x \div w \in {0, 1} /\ (x % w) \div 2 \in 0..(q - 1)
           /\ (x \div w) * q + ((x % w) \div 2) = x \div 2
<1>1. CASE x < w
    <2>1. x = 0 * w + x /\ x \in 0..(w - 1) /\ w \in Nat \ {0}
        BY <1>1
    <2>2. x % w = x /\ x \div w = 0
        BY <2>1, DivModOnly
    <2> QED BY <2>1, <2>2
<1>2. CASE x >= w
    <2>1. x = 1 * w + (x - w) /\ x - w \in 0..(w - 1) /\ w \in Nat \ {0}
        BY <1>2
    <2> DEFINE r == x - w
    <2>2. x = 1 * w + r /\ r \in 0..(w - 1)
        BY <2>1
    <2> HIDE DEF r
    <2>3. x % w = r /\ x \div w = 1
        BY <2>1, <2>2, DivModOnly
    <2>4. (r \div 2) \in 0..(q - 1) /\ q + (r \div 2) = x \div 2
        BY <2>2
    <2> QED BY <2>3, <2>4
<1> QED BY <1>1, <1>2

LEMMA Piece ==
    ASSUME NEW D, NEW s \in Seq(D), NEW a \in Int, NEW b \in Int, NEW k \in Int, k + 1 \in 1..(b - a + 1)
    PROVE  SubSeq(s, a, b)[k + 1] = s[a + k]
<1> DEFINE m == k + 1
<1>1. m \in 1..(b - a + 1) /\ a + k = a + m - 1
    OBVIOUS
<1> HIDE DEF m
<1>2. SubSeq(s, a, b)[m] = s[a + m - 1]
    BY <1>1
<1> QED BY <1>1, <1>2 DEF m

LEMMA Chips ==
    ASSUME NEW D, NEW data \in Seq(D), NEW w, w = Width \div 2,
           NEW x \in 0..(Width - 1), NEW y \in 0..(Height - 1)
    PROVE  /\ x \div w \in {0, 1}
           /\ IcRows(data, x \div w)[y][((x % w) \div 2) + 1] = data[y * RowBytes + (x \div 2) + 1]
<1>0. PICK q \in Nat \ {0} : Width = 4 * q /\ RowBytes = 2 * q /\ HalfRow = q /\ w = 2 * q
    BY Quarter
<1> DEFINE ic == x \div w
           k == (x % w) \div 2
           from == y * RowBytes + ic * HalfRow + 1
           to == y * RowBytes + (ic + 1) * HalfRow
<1>1. ic \in {0, 1} /\ k \in 0..(q - 1) /\ ic * q + k = x \div 2
    BY <1>0, Halves
<1> HIDE DEF ic, k
<1>2. y \in Nat /\ y * RowBytes \in Int /\ ic * q \in Int /\ (ic + 1) * q = ic * q + q
    BY <1>0, <1>1, Fps6Assumption
<1>3. from \in Int /\ to \in Int /\ to - from + 1 = q
    BY <1>0, <1>2
<1>4. from + k = y * RowBytes + (x \div 2) + 1
    BY <1>0, <1>1, <1>2
<1>5. IcRows(data, ic)[y] = SubSeq(data, from, to)
    BY DEF IcRows
<1> HIDE DEF from, to
<1>6. SubSeq(data, from, to)[k + 1] = data[from + k]
    <2>1. k \in Int /\ k + 1 \in 1..(to - from + 1)
        BY <1>1, <1>3
    <2> QED BY <2>1, <1>3, Piece
<1> QED BY <1>1, <1>4, <1>5, <1>6 DEF ic, k

LEMMA PaintIs ==
    ASSUME NEW D, NEW data \in Seq(D)
    PROVE  Paint(data) = [n \in 1..(Width * Height) |-> NibbleToIndex[HalfByte(data, n)]]
<1> DEFINE Pixel(x, y) ==
        LET byte == IcRows(data, x \div (Width \div 2))[y][((x % (Width \div 2)) \div 2) + 1]
        IN  NibbleToIndex[IF x % 2 = 0 THEN byte \div 16 ELSE byte % 16]
<1>0. PICK q \in Nat \ {0} : Width = 4 * q /\ RowBytes = 2 * q /\ HalfRow = q /\ Width \div 2 = 2 * q
    BY Quarter
<1>1. ASSUME NEW x \in 0..(Width - 1), NEW y \in 0..(Height - 1)
      PROVE  /\ x \div (Width \div 2) \in {0, 1}
             /\ Pixel(x, y) = NibbleToIndex[HalfByte(data, y * Width + x + 1)]
    <2>1. /\ x \div (Width \div 2) \in {0, 1}
          /\ IcRows(data, x \div (Width \div 2))[y][((x % (Width \div 2)) \div 2) + 1] = data[y * RowBytes + (x \div 2) + 1]
        BY Chips
    <2>2. y * Width = 2 * (y * RowBytes) /\ y * RowBytes \in Int
        BY <1>0
    <2> DEFINE z == y * RowBytes
    <2> HIDE DEF z
    <2>5. z \in Int /\ y * Width = 2 * z /\ y * RowBytes = z /\ x \in Int
        BY <2>2 DEF z
    <2>3. (y * Width + x + 1 - 1) \div 2 = y * RowBytes + (x \div 2)
        BY <2>5
    <2>4. (y * Width + x + 1) % 2 = 1 <=> x % 2 = 0
        BY <2>5
    <2> QED BY <1>0, <2>1, <2>3, <2>4 DEF HalfByte
<1>2. Paint(data) = [n \in 1..(Width * Height) |-> Pixel((n - 1) % Width, (n - 1) \div Width)]
    <2>1. ASSUME NEW n \in 1..(Width * Height)
          PROVE  (n - 1) % Width \in 0..(Width - 1) /\ (n - 1) \div Width \in 0..(Height - 1)
        BY Fps6Assumption, RasterOf
    <2> QED BY <1>1, <2>1 DEF Paint, Raster
<1>3. ASSUME NEW n \in 1..(Width * Height)
      PROVE  Pixel((n - 1) % Width, (n - 1) \div Width) = NibbleToIndex[HalfByte(data, n)]
    <2> DEFINE x == (n - 1) % Width
               y == (n - 1) \div Width
    <2>1. x \in 0..(Width - 1) /\ y \in 0..(Height - 1) /\ n = y * Width + x + 1
        BY Fps6Assumption, RasterOf
    <2> HIDE DEF x, y, Pixel
    <2>2. Pixel(x, y) = NibbleToIndex[HalfByte(data, y * Width + x + 1)]
        BY <1>1, <2>1
    <2> QED BY <2>1, <2>2 DEF x, y
<1> QED BY <1>2, <1>3

LEMMA NibbleFacts ==
    /\ \A i \in Inks : Nibbles[i] \in 0..15 /\ NibbleToIndex[Nibbles[i]] = i
    /\ \A n \in 0..15 : NibbleToIndex[n] \in Inks
<1>1. /\ Nibbles[0] = 0 /\ Nibbles[1] = 1 /\ Nibbles[2] = 2 /\ Nibbles[3] = 3 /\ Nibbles[4] = 5 /\ Nibbles[5] = 6
    BY DEF Nibbles
<1>2. \A i \in Inks : Nibbles[i] \in 0..15
    BY <1>1 DEF Inks
<1>3. \A i, j \in Inks : Nibbles[i] = Nibbles[j] => i = j
    BY <1>1 DEF Inks
<1>4. ASSUME NEW i \in Inks PROVE NibbleToIndex[Nibbles[i]] = i
    <2>1. NibbleToIndex[Nibbles[i]] = CHOOSE j \in 0..5 : Nibbles[j] = Nibbles[i]
        BY <1>2 DEF NibbleToIndex, Inks
    <2> QED BY <2>1, <1>3 DEF Inks
<1>5. ASSUME NEW n \in 0..15 PROVE NibbleToIndex[n] \in Inks
    BY DEF NibbleToIndex, Inks
<1> QED BY <1>2, <1>4, <1>5

Pixels == 1..(Width * Height)

LEMMA PixelCount ==
    /\ Width * Height \in Nat \ {0} /\ (Width * Height) \div 2 \in Nat
    /\ 2 * ((Width * Height) \div 2) = Width * Height
<1>1. PICK q \in Nat \ {0} : Width = 4 * q
    BY Quarter
<1> DEFINE z == q * Height
<1>2. z \in Nat \ {0} /\ Width * Height = 4 * z
    BY <1>1, Fps6Assumption
<1> HIDE DEF z
<1> QED BY <1>2

LEMMA LaidOut ==
    ASSUME NEW pic \in [Pixels -> Inks]
    PROVE  /\ ToDeviceLayout(pic) \in Seq(0..255)
           /\ Len(ToDeviceLayout(pic)) = (Width * Height) \div 2
           /\ Paint(ToDeviceLayout(pic)) = pic
<1> DEFINE N == Width * Height
           M == N \div 2
           data == ToDeviceLayout(pic)
<1>1. N \in Nat /\ M \in Nat /\ 2 * M = N
    BY PixelCount
<1>2. pic \in [1..N -> Inks]
    BY DEF Pixels
<1> HIDE DEF N
<1>3. pic \in Seq(Inks) /\ Len(pic) = N
    BY <1>1, <1>2
<1> HIDE DEF M
<1>4. data = [k \in 1..M |-> 16 * Nibbles[pic[2 * k - 1]] + Nibbles[pic[2 * k]]]
    BY <1>3 DEF ToDeviceLayout, M
<1> HIDE DEF data
<1>5. \A k \in 1..M : Nibbles[pic[2 * k - 1]] \in 0..15 /\ Nibbles[pic[2 * k]] \in 0..15
    <2>1. \A k \in 1..M : 2 * k - 1 \in 1..N /\ 2 * k \in 1..N
        BY <1>1
    <2>2. \A k \in 1..M : pic[2 * k - 1] \in Inks /\ pic[2 * k] \in Inks
        BY <2>1, <1>2
    <2> QED BY <2>2, NibbleFacts
<1>6. data \in Seq(0..255) /\ Len(data) = M
    <2>1. \A k \in 1..M : 16 * Nibbles[pic[2 * k - 1]] + Nibbles[pic[2 * k]] \in 0..255
        BY <1>5
    <2>2. data \in [1..M -> 0..255]
        BY <1>4, <2>1
    <2> QED BY <2>2, <1>1
<1>7. Paint(data) = [n \in 1..N |-> NibbleToIndex[HalfByte(data, n)]]
    BY <1>6, PaintIs DEF N
<1>8. ASSUME NEW n \in 1..N PROVE HalfByte(data, n) = Nibbles[pic[n]]
    <2> DEFINE k == ((n - 1) \div 2) + 1
    <2>1. k \in 1..M /\ n = IF n % 2 = 1 THEN 2 * k - 1 ELSE 2 * k
        BY <1>1
    <2>2. HalfByte(data, n) = IF n % 2 = 1 THEN data[k] \div 16 ELSE data[k] % 16
        BY DEF HalfByte
    <2> HIDE DEF k
    <2>3. data[k] = 16 * Nibbles[pic[2 * k - 1]] + Nibbles[pic[2 * k]]
        BY <2>1, <1>4
    <2>4. Nibbles[pic[2 * k - 1]] \in 0..15 /\ Nibbles[pic[2 * k]] \in 0..15
        BY <2>1, <1>5
    <2>5. data[k] \div 16 = Nibbles[pic[2 * k - 1]] /\ data[k] % 16 = Nibbles[pic[2 * k]]
        BY <2>3, <2>4
    <2> QED BY <2>1, <2>2, <2>5
<1>9. \A n \in 1..N : NibbleToIndex[HalfByte(data, n)] = pic[n]
    BY <1>2, <1>8, NibbleFacts
<1> QED BY <1>2, <1>6, <1>7, <1>9 DEF data, M, N

LEMMA Rotate90At ==
    ASSUME NEW view
    PROVE  /\ DOMAIN Rotate90(view) = Pixels
           /\ \A x \in 0..(Width - 1), y \in 0..(Height - 1) :
                Rotate90(view)[y * Width + x + 1] = view[x * Height + (Height - 1 - y) + 1]
<1>1. Rotate90(view) = [n \in Pixels |-> At(view, Height, Height - 1 - ((n - 1) \div Width), (n - 1) % Width)]
    BY DEF Rotate90, Raster, Pixels
<1>2. ASSUME NEW x \in 0..(Width - 1), NEW y \in 0..(Height - 1)
      PROVE  Rotate90(view)[y * Width + x + 1] = view[x * Height + (Height - 1 - y) + 1]
    <2> DEFINE n == y * Width + x + 1
    <2>1. n \in Pixels /\ (n - 1) % Width = x /\ (n - 1) \div Width = y
        BY RasterAt, Fps6Assumption DEF Pixels
    <2> HIDE DEF n
    <2>2. Rotate90(view)[n] = At(view, Height, Height - 1 - y, x)
        BY <1>1, <2>1
    <2> QED BY <2>2 DEF n, At
<1> QED BY <1>1, <1>2

LEMMA RotateBackAt ==
    ASSUME NEW pic
    PROVE  /\ DOMAIN RotateBack(pic) = 1..(Height * Width)
           /\ \A x \in 0..(Height - 1), y \in 0..(Width - 1) :
                RotateBack(pic)[y * Height + x + 1] = pic[(Height - 1 - x) * Width + y + 1]
<1>1. RotateBack(pic) = [n \in 1..(Height * Width) |->
                            At(pic, Width, (n - 1) \div Height, Height - 1 - ((n - 1) % Height))]
    BY DEF RotateBack, Raster
<1>2. ASSUME NEW x \in 0..(Height - 1), NEW y \in 0..(Width - 1)
      PROVE  RotateBack(pic)[y * Height + x + 1] = pic[(Height - 1 - x) * Width + y + 1]
    <2> DEFINE n == y * Height + x + 1
    <2>1. n \in 1..(Height * Width) /\ (n - 1) % Height = x /\ (n - 1) \div Height = y
        BY RasterAt, Fps6Assumption
    <2> HIDE DEF n
    <2>2. RotateBack(pic)[n] = At(pic, Width, y, Height - 1 - x)
        BY <1>1, <2>1
    <2> QED BY <2>2 DEF n, At
<1> QED BY <1>1, <1>2

LEMMA PixelAt ==
    ASSUME NEW n \in Pixels
    PROVE  \E x \in 0..(Width - 1), y \in 0..(Height - 1) : n = y * Width + x + 1
BY RasterOf, Fps6Assumption DEF Pixels

Views(D) == [1..(Height * Width) -> D]

LEMMA RotatedPicture ==
    ASSUME NEW D, NEW pic \in Views(D)
    PROVE  Rotate90(pic) \in [Pixels -> D]
<1>1. ASSUME NEW x \in 0..(Width - 1), NEW y \in 0..(Height - 1)
      PROVE  Rotate90(pic)[y * Width + x + 1] \in D
    <2>1. Rotate90(pic)[y * Width + x + 1] = pic[x * Height + (Height - 1 - y) + 1]
        BY Rotate90At
    <2> DEFINE z == Height - 1 - y
    <2>2. z \in 0..(Height - 1)
        BY Fps6Assumption
    <2> HIDE DEF z
    <2>3. x * Height + z + 1 \in 1..(Height * Width)
        BY <2>2, Fps6Assumption, RasterAt
    <2> QED BY <2>1, <2>3 DEF z, Views
<1>2. \A n \in Pixels : Rotate90(pic)[n] \in D
    BY <1>1, PixelAt
<1>3. Rotate90(pic) = [n \in Pixels |-> Rotate90(pic)[n]]
    BY Rotate90At DEF Rotate90, Raster, Pixels
<1> QED BY <1>2, <1>3

LEMMA ChartAt ==
    /\ BuildChart \in Views(Inks)
    /\ \A x \in 0..(Height - 1), y \in 0..(Width - 1) : BuildChart[y * Height + x + 1] = ChartInk(x, y)
<1>0. BuildChart = [n \in 1..(Height * Width) |-> ChartInk((n - 1) % Height, (n - 1) \div Height)]
    BY DEF BuildChart, Raster
<1>1. ASSUME NEW n \in 1..(Height * Width) PROVE BuildChart[n] \in Inks
    <2> DEFINE x == (n - 1) % Height
               y == (n - 1) \div Height
    <2>1. x \in 0..(Height - 1) /\ y \in 0..(Width - 1)
        BY Fps6Assumption, RasterOf
    <2> HIDE DEF x, y
    <2>2. ChartInk(x, y) \in Inks
        <3>1. CASE y > 5
            <4>1. (x + y) % 2 \in {0, 1}
                BY <2>1, Fps6Assumption
            <4> QED BY <3>1, <4>1 DEF ChartInk, Inks
        <3>2. CASE ~(y > 5) /\ x = 0
            <4>1. y + 1 \in 1..6
                BY <2>1, <3>2, Fps6Assumption
            <4>2. \A k \in 1..6 : LabelInk[k] \in Inks
                BY DEF LabelInk, Inks
            <4> QED BY <3>2, <4>1, <4>2 DEF ChartInk
        <3>3. CASE ~(y > 5) /\ x # 0
            BY <2>1, <3>3, Fps6Assumption DEF ChartInk, Inks
        <3> QED BY <3>1, <3>2, <3>3
    <2> QED BY <1>0, <2>2 DEF x, y
<1>2. ASSUME NEW x \in 0..(Height - 1), NEW y \in 0..(Width - 1)
      PROVE  BuildChart[y * Height + x + 1] = ChartInk(x, y)
    <2> DEFINE n == y * Height + x + 1
    <2>1. n \in 1..(Height * Width) /\ (n - 1) % Height = x /\ (n - 1) \div Height = y
        BY RasterAt, Fps6Assumption
    <2> HIDE DEF n
    <2>2. BuildChart[n] = ChartInk(x, y)
        BY <1>0, <2>1
    <2> QED BY <2>2 DEF n
<1> QED BY <1>0, <1>1, <1>2 DEF Views

(* The way of the chart: to the panel and, photographed, back.             *)
PanelChart == Paint(ChartFps6.data)

LEMMA ChartShown ==
    /\ PanelChart = Rotate90(BuildChart) /\ PanelChart \in [Pixels -> Inks]
    /\ ChartFps6.data \in Seq(0..255) /\ Len(ChartFps6.data) = (Width * Height) \div 2
<1>1. Rotate90(BuildChart) \in [Pixels -> Inks]
    BY ChartAt, RotatedPicture
<1>2. ChartFps6.data = ToDeviceLayout(Rotate90(BuildChart))
    BY DEF ChartFps6, PackFps6
<1> QED BY <1>1, <1>2, LaidOut DEF PanelChart

LEMMA ChartPhoto ==
    SamplePhoto(RotateBack([n \in DOMAIN PanelChart |-> Real[PanelChart[n]]])) = Real
<1> DEFINE colours == [n \in DOMAIN PanelChart |-> Real[PanelChart[n]]]
           mid == Height \div 2
           row == Height - 1 - mid
<1>1. mid \in 0..(Height - 1) /\ mid # 0 /\ row \in 0..(Height - 1) /\ Height - 1 - row = mid
    BY Fps6Assumption, CalibrationAssumption
<1>2. ASSUME NEW i \in Inks PROVE Sample(RotateBack(colours), i) = Real[i]
    <2>1. i \in 0..(Width - 1)
        BY Fps6Assumption, CalibrationAssumption DEF Inks
    <2> HIDE DEF colours, mid, row
    <2>2. RotateBack(colours)[i * Height + mid + 1] = colours[(Height - 1 - mid) * Width + i + 1]
        BY <1>1, <2>1, RotateBackAt
    <2>3. row * Width + i + 1 \in Pixels
        BY <1>1, <2>1, RasterAt, Fps6Assumption DEF Pixels
    <2>4. colours[row * Width + i + 1] = Real[PanelChart[row * Width + i + 1]]
        BY <2>3, ChartShown DEF colours
    <2>5. PanelChart[row * Width + i + 1] = BuildChart[i * Height + (Height - 1 - row) + 1]
        BY <1>1, <2>1, ChartShown, Rotate90At
    <2>6. BuildChart[i * Height + mid + 1] = ChartInk(mid, i)
        BY <1>1, <2>1, ChartAt
    <2>7. ChartInk(mid, i) = i
        BY <1>1 DEF ChartInk, Inks
    <2>8. Sample(RotateBack(colours), i) = RotateBack(colours)[i * Height + mid + 1]
        BY DEF Sample, At, mid
    <2> QED BY <1>1, <2>2, <2>4, <2>5, <2>6, <2>7, <2>8 DEF row
<1>3. Real \in [Inks -> Colours]
    BY CalibrationAssumption
<1> HIDE DEF colours
<1>4. SamplePhoto(RotateBack(colours)) = [i \in Inks |-> Real[i]]
    BY <1>2 DEF SamplePhoto
<1> QED BY <1>3, <1>4 DEF colours

LEMMA LeastNat ==
  ASSUME NEW T, T \subseteq Nat, T # {}
  PROVE  \E x \in T : \A y \in T : x <= y
<1>1. PICK x \in T : \A y \in T : ~ (<<y, x>> \in OpToRel(<, Nat))
  BY NatLessThanWellFounded, WFMin
<1>2. \A y \in T : ~(y < x)
  BY <1>1 DEF OpToRel
<1> QED BY <1>2

LEMMA UpTo ==
  ASSUME NEW N \in Nat, NEW G, 0 \in G, \A n \in 1 .. N : n - 1 \in G => n \in G
  PROVE  0 .. N \subseteq G
<1> SUFFICES ASSUME (0 .. N) \ G # {} PROVE FALSE
  OBVIOUS
<1>0. (0 .. N) \ G \subseteq Nat
  OBVIOUS
<1>1. PICK n \in (0 .. N) \ G : \A m \in (0 .. N) \ G : n <= m
  BY <1>0, LeastNat
<1>2. n \in 1 .. N
  BY <1>1
<1>3. n - 1 \in G
  BY <1>1, <1>2
<1> QED BY <1>1, <1>2, <1>3

(* A picture after its first pixels, as far as m.                          *)
Nothing == [inks |-> <<>>, left |-> <<>>]
Dithered(f, m, pic, width, t, chroma) ==
    f = [n \in 0..m |-> IF n = 0 THEN Nothing ELSE NextPixel(f[n - 1], pic, n, width, t, chroma)]

LEMMA DitheringRuns ==
    ASSUME NEW N \in Nat, NEW pic, NEW width, NEW t, NEW chroma
    PROVE  \E f : Dithered(f, N, pic, width, t, chroma)
<1> DEFINE Good == {m \in 0..N : \E f : Dithered(f, m, pic, width, t, chroma)}
           Following(b, n) == NextPixel(b, pic, n, width, t, chroma)
<1>1. 0 \in Good
    <2> DEFINE f == [n \in 0..0 |-> Nothing]
    <2>1. f = [n \in 0..0 |-> IF n = 0 THEN Nothing ELSE NextPixel(f[n - 1], pic, n, width, t, chroma)]
        OBVIOUS
    <2> HIDE DEF f
    <2> QED BY <2>1 DEF Dithered
<1>2. ASSUME NEW m \in 1..N, m - 1 \in Good PROVE m \in Good
    <2>1. PICK f : Dithered(f, m - 1, pic, width, t, chroma)
        BY <1>2
    <2>2. f = [n \in 0..(m - 1) |-> IF n = 0 THEN Nothing ELSE Following(f[n - 1], n)]
        BY <2>1 DEF Dithered
    <2> DEFINE g == [n \in 0..m |-> IF n = m THEN Following(f[m - 1], m) ELSE f[n]]
    <2> HIDE DEF Following
    <2>3. ASSUME NEW n \in 0..m PROVE g[n] = IF n = 0 THEN Nothing ELSE Following(g[n - 1], n)
        <3>1. CASE n = m
            <4>1. m - 1 \in 0..m /\ g[m - 1] = f[m - 1] /\ m # 0
                OBVIOUS
            <4> QED BY <3>1, <4>1
        <3>2. CASE n # m
            <4>1. n \in 0..(m - 1) /\ (n # 0 => n - 1 \in 0..m /\ n - 1 # m)
                BY <3>2
            <4>2. g[n] = f[n] /\ (n # 0 => g[n - 1] = f[n - 1])
                BY <3>2, <4>1
            <4> QED BY <2>2, <4>1, <4>2
        <3> QED BY <3>1, <3>2
    <2>4. g = [n \in 0..m |-> g[n]]
        OBVIOUS
    <2> HIDE DEF g
    <2>5. g = [n \in 0..m |-> IF n = 0 THEN Nothing ELSE Following(g[n - 1], n)]
        BY <2>3, <2>4
    <2>6. Dithered(g, m, pic, width, t, chroma)
        BY <2>5 DEF Dithered, Following
    <2> QED BY <2>6
<1> HIDE DEF Good
<1>3. N \in Good
    BY <1>1, <1>2, UpTo
<1> QED BY <1>3 DEF Good

-----------------------------------------------------------------------------
(* Arithmetic of colours, and that the choices of InkMix are there to make. *)

Triple(u) == u[1] \in Int /\ u[2] \in Int /\ u[3] \in Int

LEMMA Vectors ==
    ASSUME NEW u, Triple(u), NEW v, Triple(v), NEW k \in Int
    PROVE  /\ Triple(Minus(u, v)) /\ Triple(Scale(k, u)) /\ Triple(Cross(u, v))
           /\ Minus(u, v) \in Int \X Int \X Int
           /\ Dot(u, v) \in Int
BY DEF Triple, Minus, Scale, Cross, Dot

LEMMA Lengths ==
    ASSUME NEW u, Triple(u)
    PROVE  Dot(u, u) \in Int /\ Dot(u, u) >= 0
<1>1. \A a \in Int : a * a \in Int /\ a * a >= 0
    OBVIOUS
<1> DEFINE x == u[1] * u[1]
           y == u[2] * u[2]
           z == u[3] * u[3]
<1>2. x \in Int /\ x >= 0 /\ y \in Int /\ y >= 0 /\ z \in Int /\ z >= 0
    BY <1>1 DEF Triple
<1>3. Dot(u, u) = x + y + z
    BY DEF Dot
<1> HIDE DEF x, y, z
<1> QED BY <1>2, <1>3

LEMMA Distances ==
    ASSUME NEW u, Triple(u), NEW v, Triple(v)
    PROVE  Dist2(u, v) \in Int
BY Vectors DEF Dist2

(* A finite set has a member no other comes before, whatever the order.     *)
LEMMA LeastOf ==
    ASSUME NEW S, IsFiniteSet(S), S # {}, NEW R,
           \A x, y \in S : <<x, y>> \in R \/ <<y, x>> \in R,
           \A x, y, z \in S : <<x, y>> \in R /\ <<y, z>> \in R => <<x, z>> \in R
    PROVE  \E x \in S : \A y \in S : <<x, y>> \in R
<1>1. PICK N \in Nat : ExistsBijection(1..N, S)
    BY FS_NatBijection
<1>2. PICK f \in [1..N -> S] : \A y \in S : \E n \in 1..N : f[n] = y
    BY <1>1 DEF ExistsBijection, Bijection, Surjection
<1> DEFINE Good == {n \in 0..N : n = 0 \/ \E m \in 1..n : \A k \in 1..n : <<f[m], f[k]>> \in R}
<1>3. 0 \in Good
    OBVIOUS
<1>4. ASSUME NEW n \in 1..N, n - 1 \in Good PROVE n \in Good
    <2>1. CASE n = 1
        <3>1. <<f[1], f[1]>> \in R
            BY <2>1
        <3> QED BY <2>1, <3>1
    <2>2. CASE n # 1
        <3>1. PICK m \in 1..(n - 1) : \A k \in 1..(n - 1) : <<f[m], f[k]>> \in R
            BY <1>4, <2>2
        <3>2. f[m] \in S /\ f[n] \in S /\ \A k \in 1..n : f[k] \in S
            OBVIOUS
        <3>3. \A k \in 1..n : k = n \/ k \in 1..(n - 1)
            OBVIOUS
        <3>4. CASE <<f[m], f[n]>> \in R
            <4>1. \A k \in 1..n : <<f[m], f[k]>> \in R
                BY <3>1, <3>3, <3>4
            <4>2. m \in 1..n
                OBVIOUS
            <4> QED BY <4>1, <4>2
        <3>5. CASE <<f[n], f[m]>> \in R
            <4>1. <<f[n], f[n]>> \in R
                BY <3>2
            <4>2. \A k \in 1..n : <<f[n], f[k]>> \in R
                BY <3>1, <3>2, <3>3, <3>5, <4>1
            <4>3. n \in 1..n
                OBVIOUS
            <4> QED BY <4>2, <4>3
        <3> QED BY <3>2, <3>4, <3>5
    <2> QED BY <2>1, <2>2
<1> HIDE DEF Good
<1>5. N \in Good
    <2>1. 0..N \subseteq Good
        BY <1>3, <1>4, UpTo
    <2> QED BY <2>1
<1>6. N # 0
    <2> SUFFICES ASSUME N = 0 PROVE FALSE
        OBVIOUS
    <2> QED BY <1>2
<1>7. PICK m \in 1..N : \A k \in 1..N : <<f[m], f[k]>> \in R
    BY <1>5, <1>6 DEF Good
<1> QED BY <1>2, <1>7

LEMMA InksFinite == IsFiniteSet(Inks) /\ IsFiniteSet(Pairs) /\ <<2, 2>> \in Pairs
<1>1. IsFiniteSet(Inks)
    <2>1. 0 \in Int /\ 5 \in Int
        OBVIOUS
    <2>2. IsFiniteSet(0..5)
        BY <2>1, FS_Interval, Zenon
    <2> QED BY <2>2 DEF Inks
<1>2. IsFiniteSet(Inks \X Inks)
    BY <1>1, FS_Product
<1>3. Pairs \in SUBSET (Inks \X Inks)
    BY DEF Pairs
<1>4. IsFiniteSet(Pairs)
    BY <1>2, <1>3, FS_Subset
<1> QED BY <1>1, <1>4 DEF Pairs, Inks

(* There is a first of the inks nearest to a colour.                        *)
LEMMA NearestIsAnInk ==
    ASSUME NEW c, Triple(c), NEW t, \A i \in Inks : Triple(t[i])
    PROVE  NearestIndex(c, t) \in Inks
<1> DEFINE d == [i \in Inks |-> Dist2(c, t[i])]
           R == {p \in Inks \X Inks : d[p[1]] < d[p[2]] \/ (d[p[1]] = d[p[2]] /\ p[1] <= p[2])}
<1>1. \A i \in Inks : d[i] \in Int /\ i \in Int
    BY Distances DEF Inks
<1> HIDE DEF d
<1>2. \A x, y \in Inks : <<x, y>> \in R <=> d[x] < d[y] \/ (d[x] = d[y] /\ x <= y)
    OBVIOUS
<1> HIDE DEF R
<1>3. \A x, y \in Inks : <<x, y>> \in R \/ <<y, x>> \in R
    <2> TAKE x, y \in Inks
    <2>1. d[x] < d[y] \/ d[y] < d[x] \/ d[x] = d[y]
        BY <1>1
    <2>2. x <= y \/ y <= x
        BY <1>1
    <2> QED BY <1>2, <2>1, <2>2
<1>4. \A x, y, z \in Inks : <<x, y>> \in R /\ <<y, z>> \in R => <<x, z>> \in R
    <2> TAKE x, y, z \in Inks
    <2> QED BY <1>1, <1>2
<1>5. Inks # {}
    BY DEF Inks
<1>6. \E x \in Inks : \A y \in Inks : <<x, y>> \in R
    BY <1>3, <1>4, <1>5, InksFinite, LeastOf
<1>7. \E i \in Inks : \A j \in Inks : d[i] < d[j] \/ (d[i] = d[j] /\ i <= j)
    BY <1>2, <1>6
<1> QED BY <1>7 DEF NearestIndex, d

LEMMA Quotients == \A a \in Int, b \in Int : b > 0 => a \div b \in Int /\ a % b \in Int
OBVIOUS

(* The numbers of a mixture are numbers, and it has parts.                  *)
LEMMA MixtureFacts ==
    ASSUME NEW c, Triple(c), NEW t, \A i \in Inks : Triple(t[i]), NEW p \in Pairs
    PROVE  LET m == Mixture(c, t, p[1], p[2])
           IN  /\ m.i = p[1] /\ m.j = p[2]
               /\ m.num \in Int /\ m.den \in Int /\ m.den > 0
               /\ m.res \in Int /\ m.tie \in Int
<1> DEFINE i == p[1]
           j == p[2]
           d == Minus(t[i], t[j])
           v == Minus(c, t[j])
           dd == Dot(d, d)
           vv == Dot(v, v)
           along == Dot(v, d)
           rest == vv * dd - along * along
           exact == dd = 0 \/ along <= 0 \/ along >= dd
           end == IF dd = 0 \/ along >= dd THEN i ELSE j
           chromatic == {Dist2(c, t[k]) : k \in {i, j} \ {0, 1}}
           tie == CHOOSE m \in chromatic : \A n \in chromatic : m <= n
           res == IF exact THEN Whole * Dist2(c, t[end])
                  ELSE Whole * (rest \div dd) + (Whole * (rest % dd)) \div dd
<1>1. i \in Inks /\ j \in Inks /\ j > 1
    BY DEF Pairs
<1>2. Triple(d) /\ Triple(v)
    BY <1>1, Vectors
<1>3. dd \in Int /\ dd >= 0 /\ vv \in Int /\ along \in Int
    BY <1>2, Vectors, Lengths
<1>4. Dist2(c, t[end]) \in Int
    BY <1>1, Distances
<1>5. Whole \in Int
    BY DEF Whole
<1>6. tie \in Int
    <2>1. \A x \in chromatic : x \in Int
        BY <1>1, Distances
    <2>2. Dist2(c, t[j]) \in chromatic
        BY <1>1 DEF Inks
    <2>3. \A x \in chromatic : x = Dist2(c, t[i]) \/ x = Dist2(c, t[j])
        OBVIOUS
    <2> HIDE DEF chromatic
    <2>4. \E m \in chromatic : \A n \in chromatic : m <= n
        <3>1. CASE \A n \in chromatic : Dist2(c, t[j]) <= n
            BY <2>2, <3>1
        <3>2. ASSUME NEW n \in chromatic, ~(Dist2(c, t[j]) <= n)
              PROVE  \E m \in chromatic : \A k \in chromatic : m <= k
            <4>1. n = Dist2(c, t[i])
                BY <2>1, <2>2, <2>3, <3>2
            <4>2. \A k \in chromatic : n <= k
                BY <2>1, <2>2, <2>3, <3>2, <4>1
            <4> QED BY <4>2
        <3> QED BY <3>1, <3>2
    <2> QED BY <2>1, <2>4
<1> HIDE DEF tie, chromatic
<1> HIDE DEF d, v, dd, vv, along
<1>7. rest \in Int
    BY <1>3
<1> HIDE DEF rest
<1>8. res \in Int
    <2>1. CASE exact
        BY <1>4, <1>5, <2>1
    <2>2. CASE ~exact
        <3>1. dd > 0
            BY <1>3, <2>2
        <3>2. rest \div dd \in Int /\ rest % dd \in Int
            BY <1>3, <1>7, <3>1, Quotients
        <3>3. Whole * (rest % dd) \in Int /\ Whole * (rest \div dd) \in Int
            BY <1>5, <3>2
        <3>4. (Whole * (rest % dd)) \div dd \in Int
            BY <1>3, <3>1, <3>3, Quotients
        <3> QED BY <2>2, <3>3, <3>4
    <2> QED BY <2>1, <2>2
<1> DEFINE num == IF dd = 0 THEN 1 ELSE Most(0, Least(dd, along))
           den == IF dd = 0 THEN 1 ELSE dd
<1>9. num \in Int /\ den \in Int /\ den > 0
    BY <1>3 DEF Most, Least
<1>10. Mixture(c, t, p[1], p[2]) =
          [i |-> i, j |-> j, num |-> num, den |-> den, res |-> res, tie |-> tie]
    BY DEF Mixture, tie, chromatic, rest, d, v, dd, vv, along
<1> HIDE DEF num, den, res
<1> QED BY <1>6, <1>8, <1>9, <1>10

(* The best pair is one of the pairs, and none leaves less.                 *)
LEMMA BestPairIsAPair ==
    ASSUME NEW c, Triple(c), NEW t, \A i \in Inks : Triple(t[i])
    PROVE  \E p \in Pairs : /\ BestPair(c, t) = Mixture(c, t, p[1], p[2])
                           /\ \A q \in Pairs : BestPair(c, t).res <= Mixture(c, t, q[1], q[2]).res
<1> DEFINE mix == [p \in Pairs |-> Mixture(c, t, p[1], p[2])]
           Before(x, y) == \/ x.res < y.res
                           \/ x.res = y.res /\ x.tie < y.tie
                           \/ x.res = y.res /\ x.tie = y.tie
                              /\ (x.i < y.i \/ (x.i = y.i /\ x.j <= y.j))
           R == {q \in Pairs \X Pairs : Before(mix[q[1]], mix[q[2]])}
<1>1. \A p \in Pairs : mix[p].res \in Int /\ mix[p].tie \in Int /\ mix[p].i \in Int /\ mix[p].j \in Int
    <2> SUFFICES ASSUME NEW p \in Pairs
                 PROVE  mix[p].res \in Int /\ mix[p].tie \in Int /\ mix[p].i \in Int /\ mix[p].j \in Int
        OBVIOUS
    <2>1. mix[p] = Mixture(c, t, p[1], p[2])
        OBVIOUS
    <2>2. p[1] \in Int /\ p[2] \in Int
        BY DEF Pairs, Inks
    <2> HIDE DEF mix
    <2> QED BY <2>1, <2>2, MixtureFacts
<1>2. {Mixture(c, t, p[1], p[2]) : p \in Pairs} = {mix[p] : p \in Pairs}
    OBVIOUS
<1>3. \A p \in Pairs : mix[p] = Mixture(c, t, p[1], p[2])
    OBVIOUS
<1> HIDE DEF mix
<1>4. \A x, y \in Pairs : <<x, y>> \in R <=> Before(mix[x], mix[y])
    OBVIOUS
<1> HIDE DEF R
<1>5. \A x, y \in Pairs : <<x, y>> \in R \/ <<y, x>> \in R
    <2> TAKE x, y \in Pairs
    <2>1. /\ mix[x].res < mix[y].res \/ mix[y].res < mix[x].res \/ mix[x].res = mix[y].res
          /\ mix[x].tie < mix[y].tie \/ mix[y].tie < mix[x].tie \/ mix[x].tie = mix[y].tie
          /\ mix[x].i < mix[y].i \/ mix[y].i < mix[x].i \/ mix[x].i = mix[y].i
          /\ mix[x].j <= mix[y].j \/ mix[y].j <= mix[x].j
        BY <1>1
    <2> QED BY <1>4, <2>1
<1>6. \A x, y, z \in Pairs : <<x, y>> \in R /\ <<y, z>> \in R => <<x, z>> \in R
    <2> TAKE x, y, z \in Pairs
    <2> HAVE <<x, y>> \in R /\ <<y, z>> \in R
    <2>1. Before(mix[x], mix[y]) /\ Before(mix[y], mix[z])
        BY <1>4
    <2>2. Before(mix[x], mix[z])
        <3>1. /\ mix[x].res \in Int /\ mix[x].tie \in Int /\ mix[x].i \in Int /\ mix[x].j \in Int
              /\ mix[y].res \in Int /\ mix[y].tie \in Int /\ mix[y].i \in Int /\ mix[y].j \in Int
              /\ mix[z].res \in Int /\ mix[z].tie \in Int /\ mix[z].i \in Int /\ mix[z].j \in Int
            BY <1>1
        <3> QED BY <2>1, <3>1
    <2> QED BY <1>4, <2>2
<1>7. \E x \in Pairs : \A y \in Pairs : <<x, y>> \in R
    BY <1>5, <1>6, InksFinite, LeastOf
<1>8. PICK x \in Pairs : \A y \in Pairs : Before(mix[x], mix[y])
    BY <1>4, <1>7
<1> DEFINE all == {mix[p] : p \in Pairs}
           best == CHOOSE b \in all : \A y \in all : Before(b, y)
<1>9. \E b \in all : \A y \in all : Before(b, y)
    BY <1>8
<1>10. BestPair(c, t) = best
    BY <1>2 DEF BestPair
<1> HIDE DEF Before
<1>11. best \in all /\ \A y \in all : Before(best, y)
    BY <1>9
<1> HIDE DEF best
<1>12. PICK p \in Pairs : best = mix[p]
    BY <1>11
<1>13. ASSUME NEW q \in Pairs PROVE best.res <= mix[q].res
    <2>1. Before(best, mix[q])
        BY <1>11
    <2> QED BY <1>1, <1>12, <2>1 DEF Before
<1> QED BY <1>3, <1>10, <1>12, <1>13

Planned(plan) == plan.a \in Inks /\ plan.c \in Inks /\ plan.share \in Int

LEMMA PalettesAreTriples ==
    /\ \A c \in Colours : Triple(c) /\ Hi(c) \in Int /\ Lo(c) \in Int
    /\ \A t \in Palettes, i \in Inks : t[i] \in Colours /\ Triple(t[i])
<1>1. \A c \in Colours : c \in (0..Top) \X (0..Top) \X (0..Top)
    BY InkMixAssumption
<1>2. \A c \in Colours : Triple(c)
    BY <1>1 DEF Triple, Top
<1>3. \A c \in Colours : Hi(c) \in Int /\ Lo(c) \in Int
    BY <1>2 DEF Triple, Hi, Lo, Most, Least
<1>4. \A t \in Palettes, i \in Inks : t[i] \in Colours
    BY CalibrationAssumption
<1> QED BY <1>2, <1>3, <1>4

LEMMA PlansAreInks ==
    ASSUME NEW t \in Palettes, NEW c \in Colours
    PROVE  Plans[t][c].none \/ Planned(Plans[t][c])
<1> DEFINE mid == <<Bucket(c[1]), Bucket(c[2]), Bucket(c[3])>>
           best == BestPair(mid, t)
<1>1. Triple(mid)
    <2>1. \A v \in Int : Bucket(v) \in Int
        BY DEF Bucket, Least, Top
    <2>2. Triple(c)
        BY PalettesAreTriples
    <2> QED BY <2>1, <2>2 DEF Triple
<1> HIDE DEF mid
<1>2. PICK p \in Pairs : best = Mixture(mid, t, p[1], p[2])
    BY <1>1, PalettesAreTriples, BestPairIsAPair
<1>3. /\ best.i \in Inks /\ best.j \in Inks
      /\ best.num \in Int /\ best.den \in Int /\ best.den > 0
    <2>1. p[1] \in Inks /\ p[2] \in Inks
        BY DEF Pairs
    <2>2. \A i \in Inks : Triple(t[i])
        BY PalettesAreTriples
    <2> HIDE DEF best
    <2> QED BY <1>1, <1>2, <2>1, <2>2, MixtureFacts
<1>4. Planned(PlanOf(best))
    <2> HIDE DEF best
    <2> DEFINE a == IF best.i <= 1 THEN best.i ELSE best.j
               part == IF a = best.i /\ best.i # best.j THEN best.den - best.num ELSE best.num
               share == (Whole * part) \div best.den
               c2 == IF a = best.i THEN best.j ELSE best.i
    <2>1. a \in Inks /\ c2 \in Inks
        BY <1>3
    <2>2. Whole * part \in Int
        BY <1>3 DEF Whole
    <2>3. share \in Int
        BY <1>3, <2>2, Quotients
    <2>4. PlanOf(best) = [a |-> a, c |-> c2, mixed |-> best.i <= 1, share |-> share, none |-> FALSE]
        BY DEF PlanOf
    <2> HIDE DEF a, share, c2
    <2> QED BY <2>1, <2>3, <2>4 DEF Planned
<1>5. InterventionPlan(c, t) = IF OutsideHull(mid, t) THEN PlanOf(best) ELSE NoPlan
    BY DEF InterventionPlan, mid
<1>6. Plans[t][c] = InterventionPlan(c, t)
    BY DEF Plans
<1> HIDE DEF best
<1> QED BY <1>4, <1>5, <1>6 DEF NoPlan

LEMMA ClampIsInt == \A v \in Int : Clamp(v) \in Int
BY DEF Clamp, Most, Least, Top, Sub

(* A pixel gets an ink, whatever was left to it.                            *)
LEMMA PickFacts ==
    ASSUME NEW src \in Colours, NEW adj, Triple(adj), NEW t \in Palettes, NEW chroma \in Int
    PROVE  LET p == PickInk(src, adj, t, chroma)
           IN  p.ink \in Inks /\ Triple(p.base)
<1> DEFINE wide == [i \in Inks |-> Scale(Sub, t[i])]
           near == [ink |-> NearestIndex(adj, wide), base |-> adj]
           pure == NearestIndex(src, t)
           plan == Plans[t][src]
           eff == BiasedShare(plan, src, chroma)
<1>1. Triple(src) /\ \A i \in Inks : Triple(t[i])
    BY PalettesAreTriples
<1>2. \A i \in Inks : Triple(wide[i])
    <2>1. Sub \in Int
        BY DEF Sub
    <2>2. ASSUME NEW i \in Inks PROVE Triple(Scale(Sub, t[i]))
        BY <1>1, <2>1, Vectors
    <2> QED BY <2>2
<1> HIDE DEF wide
<1>3. near.ink \in Inks /\ near.base = adj
    BY <1>2, NearestIsAnInk
<1>4. pure \in Inks
    BY <1>1, NearestIsAnInk
<1> HIDE DEF pure, near
<1>5. ASSUME Saturated(src), ~plan.none
      PROVE  LET p == PlannedInk(src, adj, t, plan, eff) IN p.ink \in Inks /\ Triple(p.base)
    <2>1. plan.a \in Inks /\ plan.c \in Inks /\ plan.share \in Int
        BY <1>5, PlansAreInks DEF Planned
    <2> HIDE DEF plan
    <2>2. eff \in Int
        <3>1. Hi(src) \in Int /\ Lo(src) \in Int
            BY PalettesAreTriples
        <3>2. Hi(src) > 0
            <4>1. Triple(src) /\ src[1] >= 0 /\ src[2] >= 0 /\ src[3] >= 0
                <5>1. src \in (0..Top) \X (0..Top) \X (0..Top)
                    BY InkMixAssumption
                <5> QED BY <5>1 DEF Triple, Top
            <4>2. Hi(src) >= 0 /\ (Hi(src) = 0 => Lo(src) = 0)
                BY <4>1 DEF Triple, Hi, Lo, Most, Least
            <4> QED BY <1>5, <3>1, <4>2 DEF Saturated
        <3> DEFINE grown == plan.share * (Hi(src) + chroma * (Hi(src) - Lo(src)))
        <3>3. grown \in Int
            BY <2>1, <3>1
        <3> HIDE DEF grown
        <3>4. grown \div Hi(src) \in Int
            BY <3>1, <3>2, <3>3, Quotients
        <3>5. Least(Whole, grown \div Hi(src)) \in Int
            BY <3>4 DEF Least, Whole
        <3> QED BY <2>1, <3>5 DEF BiasedShare, grown
    <2> HIDE DEF eff
    <2> DEFINE va == Scale(Sub, t[plan.a])
               axis == Minus(t[plan.c], t[plan.a])
               base == [k \in 1..3 |-> Clamp(va[k] + (eff * axis[k]) \div (Whole \div Sub)
                                             + adj[k] - Sub * src[k])]
    <2>3. Triple(va) /\ Triple(axis) /\ Sub \in Int /\ Whole \div Sub = 4
        BY <1>1, <2>1, Vectors DEF Sub, Whole
    <2>4. ASSUME NEW k \in 1..3
          PROVE  Clamp(va[k] + (eff * axis[k]) \div (Whole \div Sub) + adj[k] - Sub * src[k]) \in Int
        <3>1. va[k] \in Int /\ axis[k] \in Int /\ adj[k] \in Int /\ src[k] \in Int
            BY <1>1, <2>3 DEF Triple
        <3> HIDE DEF va, axis
        <3>2. (eff * axis[k]) \div (Whole \div Sub) \in Int
            BY <2>2, <2>3, <3>1
        <3>3. va[k] + (eff * axis[k]) \div (Whole \div Sub) + adj[k] - Sub * src[k] \in Int
            BY <2>3, <3>1, <3>2
        <3> QED BY <3>3, ClampIsInt
    <2>5. Triple(base)
        BY <2>4 DEF Triple
    <2>6. PlannedInk(src, adj, t, plan, eff) =
            IF axis = Zero THEN [ink |-> plan.a, base |-> adj]
            ELSE [ink |-> IF 2 * Dot(Minus(base, va), axis) > Sub * Dot(axis, axis)
                          THEN plan.c ELSE plan.a,
                  base |-> base]
        BY DEF PlannedInk
    <2> HIDE DEF base, axis, va
    <2> QED BY <2>1, <2>5, <2>6
<1> HIDE DEF plan, eff
<1>6. PickInk(src, adj, t, chroma) =
        IF ~Saturated(src) \/ ~OutsideHull(src, t) THEN near
        ELSE IF Dist2(src, t[pure]) <= Snap THEN [ink |-> pure, base |-> adj]
        ELSE IF plan.none THEN near
        ELSE PlannedInk(src, adj, t, plan, eff)
    BY DEF PickInk, near, pure, plan, eff, wide
<1> QED BY <1>3, <1>4, <1>5, <1>6

(* A picture converted as far as its first n pixels.                        *)
Vectors3 == Int \X Int \X Int
Fair(b, n) == /\ b.inks \in Seq(Inks) /\ Len(b.inks) = n
              /\ b.left \in Seq(Vectors3) /\ Len(b.left) = n

LEMMA NextIsFair ==
    ASSUME NEW N \in Nat, NEW pic \in [1..N -> Colours], NEW width \in Nat, width >= 2,
           NEW t \in Palettes, NEW chroma \in Int,
           NEW n \in 1..N, NEW before, Fair(before, n - 1)
    PROVE  Fair(NextPixel(before, pic, n, width, t, chroma), n)
<1> DEFINE x == (n - 1) % width
           Left(k, there) == IF there /\ k >= 1 THEN before.left[k] ELSE Zero
           l == Left(n - 1, x > 0)
           ul == Left(n - width - 1, x > 0)
           u == Left(n - width, TRUE)
           ur == Left(n - width + 1, x < width - 1)
           adj == [k \in 1..3 |->
                     Clamp(Sub * pic[n][k] + (7 * l[k] + ul[k] + 5 * u[k] + 3 * ur[k]) \div 16)]
           p == PickInk(pic[n], adj, t, chroma)
           error == Minus(p.base, Scale(Sub, t[p.ink]))
<1>1. \A k \in Int : k < n /\ k >= 1 => before.left[k] \in Vectors3
    BY DEF Fair
<1>2. /\ n - 1 \in Int /\ n - 1 < n
      /\ n - width - 1 \in Int /\ n - width - 1 < n
      /\ n - width \in Int /\ n - width < n
      /\ n - width + 1 \in Int /\ n - width + 1 < n
    OBVIOUS
<1>3. \A w \in Vectors3 : Triple(w)
    BY DEF Vectors3, Triple
<1>4. Triple(Zero)
    BY DEF Triple, Zero
<1> HIDE DEF x
<1>5. Triple(l) /\ Triple(ul) /\ Triple(u) /\ Triple(ur)
    BY <1>1, <1>2, <1>3, <1>4
<1> HIDE DEF l, ul, u, ur
<1>6. pic[n] \in Colours /\ Triple(pic[n])
    BY PalettesAreTriples
<1>7. Triple(adj)
    <2>1. ASSUME NEW k \in 1..3
          PROVE  Clamp(Sub * pic[n][k] + (7 * l[k] + ul[k] + 5 * u[k] + 3 * ur[k]) \div 16) \in Int
        <3>0. \A w : Triple(w) => w[k] \in Int
            BY DEF Triple
        <3>1. l[k] \in Int /\ ul[k] \in Int /\ u[k] \in Int /\ ur[k] \in Int /\ pic[n][k] \in Int
            BY <1>5, <1>6, <3>0
        <3>2. \A v1, v2, v3, v4, v5 \in Int :
                7 * v1 + v2 + 5 * v3 + 3 * v4 \in Int /\ Sub * v5 \in Int
            BY DEF Sub
        <3> DEFINE sum == 7 * l[k] + ul[k] + 5 * u[k] + 3 * ur[k]
                   own == Sub * pic[n][k]
        <3>3. sum \in Int /\ own \in Int
            BY <3>1, <3>2, Zenon
        <3> HIDE DEF sum, own
        <3>4. own + (sum \div 16) \in Int
            BY <3>3
        <3> QED BY <3>4, ClampIsInt DEF sum, own
    <2> QED BY <2>1 DEF Triple
<1> HIDE DEF adj
<1>8. p.ink \in Inks /\ Triple(p.base)
    BY <1>6, <1>7, PickFacts
<1> HIDE DEF p
<1>9. error \in Vectors3
    <2>1. Sub \in Int /\ Triple(t[p.ink])
        BY <1>8, PalettesAreTriples DEF Sub
    <2>2. Triple(Scale(Sub, t[p.ink]))
        BY <2>1, Vectors
    <2> QED BY <1>8, <2>2, Vectors DEF Vectors3
<1> HIDE DEF error
<1>10. NextPixel(before, pic, n, width, t, chroma) =
         [inks |-> Append(before.inks, p.ink), left |-> Append(before.left, error)]
    BY DEF NextPixel, error, p, adj, l, ul, u, ur, x
<1>11. /\ Append(before.inks, p.ink) \in Seq(Inks) /\ Len(Append(before.inks, p.ink)) = n
       /\ Append(before.left, error) \in Seq(Vectors3) /\ Len(Append(before.left, error)) = n
    BY <1>8, <1>9 DEF Fair
<1> QED BY <1>10, <1>11 DEF Fair

(* What is converted consists of inks, one for each pixel.                  *)
LEMMA DitheredToInks ==
    ASSUME NEW N \in Nat, NEW pic \in [1..N -> Colours], NEW width \in Nat, width >= 2,
           NEW t \in Palettes, NEW chroma \in Int
    PROVE  FloydSteinberg(pic, width, t, chroma) \in [1..N -> Inks]
<1> DEFINE Run == CHOOSE f : Dithered(f, N, pic, width, t, chroma)
           Good == {n \in 0..N : Fair(Run[n], n)}
<1>1. pic \in Seq(Colours) /\ Len(pic) = N
    OBVIOUS
<1>2. FloydSteinberg(pic, width, t, chroma) = Run[N].inks
    BY <1>1 DEF FloydSteinberg, Dithered, Nothing
<1>3. Dithered(Run, N, pic, width, t, chroma)
    BY DitheringRuns
<1> HIDE DEF Run
<1>4. /\ Run[0] = Nothing
      /\ \A n \in 1..N : Run[n] = NextPixel(Run[n - 1], pic, n, width, t, chroma)
    BY <1>3 DEF Dithered
<1>5. 0 \in Good
    <2>1. Nothing.inks = <<>> /\ Nothing.left = <<>>
        BY DEF Nothing
    <2>2. <<>> \in Seq(Inks) /\ <<>> \in Seq(Vectors3) /\ Len(<<>>) = 0
        OBVIOUS
    <2>3. Fair(Nothing, 0)
        BY <2>1, <2>2 DEF Fair
    <2> QED BY <1>4, <2>3
<1>6. ASSUME NEW n \in 1..N, n - 1 \in Good PROVE n \in Good
    <2>1. Fair(NextPixel(Run[n - 1], pic, n, width, t, chroma), n)
        BY <1>6, NextIsFair
    <2> QED BY <1>4, <2>1
<1> HIDE DEF Good
<1>7. 0..N \subseteq Good
    BY <1>5, <1>6, UpTo
<1>8. Fair(Run[N], N)
    BY <1>7 DEF Good
<1> QED BY <1>2, <1>8 DEF Fair

(* Where no pixel is one the inks cannot mix, the bias decides nothing.     *)
Plain(c, t) == ~Saturated(c) \/ ~OutsideHull(c, t)
Picture(pic, N) == \E D : pic \in [1..N -> D]
AllPlain(pic, N, t) == \A n \in 1..N : Plain(pic[n], t)

LEMMA SameNext ==
    ASSUME NEW pic, NEW n, NEW width, NEW t, Plain(pic[n], t), NEW b1, NEW b2, NEW before
    PROVE  NextPixel(before, pic, n, width, t, b1) = NextPixel(before, pic, n, width, t, b2)
<1>1. \A adj : PickInk(pic[n], adj, t, b1) = PickInk(pic[n], adj, t, b2)
    BY DEF PickInk, Plain
<1> QED BY <1>1 DEF NextPixel

LEMMA SameInks ==
    ASSUME NEW N \in Nat, NEW pic, Picture(pic, N), NEW width, NEW t, NEW b1, NEW b2,
           AllPlain(pic, N, t)
    PROVE  FloydSteinberg(pic, width, t, b1) = FloydSteinberg(pic, width, t, b2)
<1> DEFINE Run(b) == CHOOSE f : Dithered(f, N, pic, width, t, b)
           Good == {n \in 0..N : Run(b1)[n] = Run(b2)[n]}
<1>1. \E D : pic \in Seq(D) /\ Len(pic) = N
    <2>1. PICK D : pic \in [1..N -> D]
        BY DEF Picture
    <2> QED BY <2>1
<1>2. \A b : FloydSteinberg(pic, width, t, b) = Run(b)[N].inks
    BY <1>1 DEF FloydSteinberg, Dithered, Nothing
<1>3. \A b : Dithered(Run(b), N, pic, width, t, b)
    BY DitheringRuns
<1> HIDE DEF Run
<1>4. \A b : /\ Run(b)[0] = Nothing
             /\ \A n \in 1..N : Run(b)[n] = NextPixel(Run(b)[n - 1], pic, n, width, t, b)
    BY <1>3 DEF Dithered
<1>5. 0 \in Good
    BY <1>4
<1>6. ASSUME NEW n \in 1..N, n - 1 \in Good PROVE n \in Good
    <2>1. Run(b1)[n] = NextPixel(Run(b1)[n - 1], pic, n, width, t, b1)
        BY <1>4
    <2>2. Run(b2)[n] = NextPixel(Run(b1)[n - 1], pic, n, width, t, b2)
        BY <1>4, <1>6
    <2>3. Plain(pic[n], t)
        BY DEF AllPlain
    <2> QED BY <2>1, <2>2, <2>3, SameNext
<1> HIDE DEF Good
<1>7. 0..N \subseteq Good
    BY <1>5, <1>6, UpTo
<1>8. Run(b1)[N] = Run(b2)[N]
    BY <1>7 DEF Good
<1> QED BY <1>2, <1>8

-----------------------------------------------------------------------------
(* What four inks can mix lies on the inner side of every plane that has    *)
(* all inks on its inner side.                                              *)

LEMMA VolumeIs ==
    \A x, y, z, w :
        Volume(x, y, z, w) = (y[1] - x[1]) * ((z[2] - x[2]) * (w[3] - x[3]) - (z[3] - x[3]) * (w[2] - x[2]))
                           + (y[2] - x[2]) * ((z[3] - x[3]) * (w[1] - x[1]) - (z[1] - x[1]) * (w[3] - x[3]))
                           + (y[3] - x[3]) * ((z[1] - x[1]) * (w[2] - x[2]) - (z[2] - x[2]) * (w[1] - x[1]))
BY DEF Volume, Dot, Cross, Minus

LEMMA Barycentric ==
    ASSUME NEW a, Triple(a), NEW b, Triple(b), NEW c, Triple(c), NEW d, Triple(d), NEW p, Triple(p)
    PROVE  LET v == Volume(a, b, c, d)
               wa == Volume(p, b, c, d)  wb == Volume(a, p, c, d)
               wc == Volume(a, b, p, d)  wd == Volume(a, b, c, p)
           IN  /\ v \in Int /\ wa \in Int /\ wb \in Int /\ wc \in Int /\ wd \in Int
               /\ v = wa + wb + wc + wd
               /\ v * p[1] = wa * a[1] + wb * b[1] + wc * c[1] + wd * d[1]
               /\ v * p[2] = wa * a[2] + wb * b[2] + wc * c[2] + wd * d[2]
               /\ v * p[3] = wa * a[3] + wb * b[3] + wc * c[3] + wd * d[3]
<1> DEFINE v == Volume(a, b, c, d)
           wa == Volume(p, b, c, d)
           wb == Volume(a, p, c, d)
           wc == Volume(a, b, p, d)
           wd == Volume(a, b, c, p)
<1>1. v \in Int /\ wa \in Int /\ wb \in Int /\ wc \in Int /\ wd \in Int
    BY Vectors DEF Volume
<1> DEFINE a1 == a[1]  a2 == a[2]  a3 == a[3]
           b1 == b[1]  b2 == b[2]  b3 == b[3]
           c1 == c[1]  c2 == c[2]  c3 == c[3]
           d1 == d[1]  d2 == d[2]  d3 == d[3]
           p1 == p[1]  p2 == p[2]  p3 == p[3]
<1>2. /\ a1 \in Int /\ a2 \in Int /\ a3 \in Int
      /\ b1 \in Int /\ b2 \in Int /\ b3 \in Int
      /\ c1 \in Int /\ c2 \in Int /\ c3 \in Int
      /\ d1 \in Int /\ d2 \in Int /\ d3 \in Int
      /\ p1 \in Int /\ p2 \in Int /\ p3 \in Int
    BY DEF Triple
<1>3. /\ v = (b1 - a1) * ((c2 - a2) * (d3 - a3) - (c3 - a3) * (d2 - a2))
           + (b2 - a2) * ((c3 - a3) * (d1 - a1) - (c1 - a1) * (d3 - a3))
           + (b3 - a3) * ((c1 - a1) * (d2 - a2) - (c2 - a2) * (d1 - a1))
      /\ wa = (b1 - p1) * ((c2 - p2) * (d3 - p3) - (c3 - p3) * (d2 - p2))
            + (b2 - p2) * ((c3 - p3) * (d1 - p1) - (c1 - p1) * (d3 - p3))
            + (b3 - p3) * ((c1 - p1) * (d2 - p2) - (c2 - p2) * (d1 - p1))
      /\ wb = (p1 - a1) * ((c2 - a2) * (d3 - a3) - (c3 - a3) * (d2 - a2))
            + (p2 - a2) * ((c3 - a3) * (d1 - a1) - (c1 - a1) * (d3 - a3))
            + (p3 - a3) * ((c1 - a1) * (d2 - a2) - (c2 - a2) * (d1 - a1))
      /\ wc = (b1 - a1) * ((p2 - a2) * (d3 - a3) - (p3 - a3) * (d2 - a2))
            + (b2 - a2) * ((p3 - a3) * (d1 - a1) - (p1 - a1) * (d3 - a3))
            + (b3 - a3) * ((p1 - a1) * (d2 - a2) - (p2 - a2) * (d1 - a1))
      /\ wd = (b1 - a1) * ((c2 - a2) * (p3 - a3) - (c3 - a3) * (p2 - a2))
            + (b2 - a2) * ((c3 - a3) * (p1 - a1) - (c1 - a1) * (p3 - a3))
            + (b3 - a3) * ((c1 - a1) * (p2 - a2) - (c2 - a2) * (p1 - a1))
    BY VolumeIs
<1> HIDE DEF v, wa, wb, wc, wd, a1, a2, a3, b1, b2, b3, c1, c2, c3, d1, d2, d3, p1, p2, p3
<1>4. v = wa + wb + wc + wd
    BY <1>2, <1>3
<1>5. v * p1 = wa * a1 + wb * b1 + wc * c1 + wd * d1
    BY <1>2, <1>3
<1>6. v * p2 = wa * a2 + wb * b2 + wc * c2 + wd * d2
    BY <1>2, <1>3
<1>7. v * p3 = wa * a3 + wb * b3 + wc * c3 + wd * d3
    BY <1>2, <1>3
<1> QED BY <1>1, <1>4, <1>5, <1>6, <1>7 DEF v, wa, wb, wc, wd, a1, a2, a3, b1, b2, b3, c1, c2, c3, d1, d2, d3, p1, p2, p3

LEMMA Products == \A w, x, o \in Int : /\ w >= 0 /\ x <= o => w * x <= w * o
                                       /\ w <= 0 /\ x <= o => w * x >= w * o
                                       /\ w > 0 /\ w * x <= w * o => x <= o
                                       /\ w < 0 /\ w * x >= w * o => x <= o
OBVIOUS

LEMMA Inward ==
    ASSUME NEW a, Triple(a), NEW b, Triple(b), NEW c, Triple(c), NEW d, Triple(d), NEW p, Triple(p),
           NEW n, Triple(n), NEW o \in Int,
           Dot(n, a) <= o, Dot(n, b) <= o, Dot(n, c) <= o, Dot(n, d) <= o,
           Volume(a, b, c, d) # 0,
           \A w \in {Volume(p, b, c, d), Volume(a, p, c, d), Volume(a, b, p, d), Volume(a, b, c, p)} :
              IF Volume(a, b, c, d) > 0 THEN w >= 0 ELSE w <= 0
    PROVE  Dot(n, p) <= o
<1> DEFINE v == Volume(a, b, c, d)
           wa == Volume(p, b, c, d)
           wb == Volume(a, p, c, d)
           wc == Volume(a, b, p, d)
           wd == Volume(a, b, c, p)
           na == Dot(n, a)
           nb == Dot(n, b)
           nc == Dot(n, c)
           nd == Dot(n, d)
           np == Dot(n, p)
<1>1. /\ v \in Int /\ wa \in Int /\ wb \in Int /\ wc \in Int /\ wd \in Int
      /\ v = wa + wb + wc + wd
      /\ v * p[1] = wa * a[1] + wb * b[1] + wc * c[1] + wd * d[1]
      /\ v * p[2] = wa * a[2] + wb * b[2] + wc * c[2] + wd * d[2]
      /\ v * p[3] = wa * a[3] + wb * b[3] + wc * c[3] + wd * d[3]
    BY Barycentric
<1>2. na \in Int /\ nb \in Int /\ nc \in Int /\ nd \in Int /\ np \in Int
    BY Vectors
<1>3. IF v > 0 THEN wa >= 0 /\ wb >= 0 /\ wc >= 0 /\ wd >= 0
               ELSE wa <= 0 /\ wb <= 0 /\ wc <= 0 /\ wd <= 0
    OBVIOUS
<1>4. v # 0
    OBVIOUS
<1> HIDE DEF v, wa, wb, wc, wd
<1>5. v * np = wa * na + wb * nb + wc * nc + wd * nd
    <2>1. /\ v * np = n[1] * (v * p[1]) + n[2] * (v * p[2]) + n[3] * (v * p[3])
          /\ wa * na = n[1] * (wa * a[1]) + n[2] * (wa * a[2]) + n[3] * (wa * a[3])
          /\ wb * nb = n[1] * (wb * b[1]) + n[2] * (wb * b[2]) + n[3] * (wb * b[3])
          /\ wc * nc = n[1] * (wc * c[1]) + n[2] * (wc * c[2]) + n[3] * (wc * c[3])
          /\ wd * nd = n[1] * (wd * d[1]) + n[2] * (wd * d[2]) + n[3] * (wd * d[3])
        BY <1>1 DEF Dot, Triple
    <2>2. \A k, x, xa, xb, xc, xd \in Int :
             x = xa + xb + xc + xd => k * x = k * xa + k * xb + k * xc + k * xd
        OBVIOUS
    <2>3. \A i \in 1..3 : /\ v * p[i] \in Int /\ wa * a[i] \in Int /\ wb * b[i] \in Int
                          /\ wc * c[i] \in Int /\ wd * d[i] \in Int /\ n[i] \in Int
        BY <1>1 DEF Triple
    <2>4. /\ n[1] * (v * p[1]) = n[1] * (wa * a[1]) + n[1] * (wb * b[1]) + n[1] * (wc * c[1]) + n[1] * (wd * d[1])
          /\ n[2] * (v * p[2]) = n[2] * (wa * a[2]) + n[2] * (wb * b[2]) + n[2] * (wc * c[2]) + n[2] * (wd * d[2])
          /\ n[3] * (v * p[3]) = n[3] * (wa * a[3]) + n[3] * (wb * b[3]) + n[3] * (wc * c[3]) + n[3] * (wd * d[3])
        BY <1>1, <2>2, <2>3
    <2>5. \A i \in 1..3 : /\ n[i] * (wa * a[i]) \in Int /\ n[i] * (wb * b[i]) \in Int
                          /\ n[i] * (wc * c[i]) \in Int /\ n[i] * (wd * d[i]) \in Int
        BY <2>3
    <2> QED BY <2>1, <2>4, <2>5
<1>6. na <= o /\ nb <= o /\ nc <= o /\ nd <= o
    OBVIOUS
<1> HIDE DEF na, nb, nc, nd
<1>7. v * o = wa * o + wb * o + wc * o + wd * o
    BY <1>1
<1>8. np <= o
    <2> HIDE DEF np
    <2>1. /\ wa * na \in Int /\ wb * nb \in Int /\ wc * nc \in Int /\ wd * nd \in Int
          /\ wa * o \in Int /\ wb * o \in Int /\ wc * o \in Int /\ wd * o \in Int
        BY <1>1, <1>2
    <2>2. CASE v > 0
        <3>1. wa * na <= wa * o /\ wb * nb <= wb * o /\ wc * nc <= wc * o /\ wd * nd <= wd * o
            BY <1>1, <1>2, <1>3, <1>6, <2>2, Products
        <3>2. v * np <= v * o
            BY <1>5, <1>7, <2>1, <3>1
        <3> QED BY <1>1, <1>2, <2>2, <3>2, Products
    <2>3. CASE v < 0
        <3>1. wa * na >= wa * o /\ wb * nb >= wb * o /\ wc * nc >= wc * o /\ wd * nd >= wd * o
            BY <1>1, <1>2, <1>3, <1>6, <2>3, Products
        <3>2. v * np >= v * o
            BY <1>5, <1>7, <2>1, <3>1
        <3> QED BY <1>1, <1>2, <2>3, <3>2, Products
    <2> QED BY <1>1, <1>4, <2>2, <2>3
<1> QED BY <1>8

LEMMA GamutIsInside ==
    ASSUME NEW t \in Palettes, NEW c \in Colours, InGamut(c, t)
    PROVE  ~OutsideHull(c, t)
<1>1. PICK f \in Inks \X Inks \X Inks \X Inks :
        LET v == Volume(t[f[1]], t[f[2]], t[f[3]], t[f[4]])
        IN  /\ v # 0
            /\ \A w \in {Volume(c, t[f[2]], t[f[3]], t[f[4]]), Volume(t[f[1]], c, t[f[3]], t[f[4]]),
                         Volume(t[f[1]], t[f[2]], c, t[f[4]]), Volume(t[f[1]], t[f[2]], t[f[3]], c)} :
                  IF v > 0 THEN w >= 0 ELSE w <= 0
    BY DEF InGamut
<1>2. f[1] \in Inks /\ f[2] \in Inks /\ f[3] \in Inks /\ f[4] \in Inks
    OBVIOUS
<1>3. Triple(c) /\ \A i \in Inks : Triple(t[i])
    BY PalettesAreTriples
<1>4. ASSUME NEW n, Triple(n), NEW o \in Int, \A i \in Inks : Dot(n, t[i]) <= o
      PROVE  Dot(n, c) <= o
    BY <1>1, <1>2, <1>3, <1>4, Inward
<1>5. ASSUME NEW facet \in Facets[t] PROVE Dot(facet[1], c) <= facet[2]
    <2> DEFINE Normal(g) == Cross(Minus(t[g[2]], t[g[1]]), Minus(t[g[3]], t[g[1]]))
    <2>1. PICK g \in Inks \X Inks \X Inks \X {1, -1} :
            /\ facet = <<Scale(g[4], Normal(g)), g[4] * Dot(Normal(g), t[g[1]])>>
            /\ \A i \in Inks : g[4] * Dot(Normal(g), t[i]) <= g[4] * Dot(Normal(g), t[g[1]])
        BY DEF Facets, HullFacets
    <2>2. g[1] \in Inks /\ g[2] \in Inks /\ g[3] \in Inks /\ g[4] \in Int
        OBVIOUS
    <2>3. Triple(Normal(g))
        BY <1>3, <2>2, Vectors
    <2> DEFINE m == Normal(g)
    <2> HIDE DEF Normal
    <2>4. \A x : Triple(x) => Dot(Scale(g[4], m), x) = g[4] * Dot(m, x)
        BY <2>2, <2>3 DEF Dot, Scale, Triple
    <2>5. Triple(Scale(g[4], m)) /\ g[4] * Dot(m, t[g[1]]) \in Int
        BY <1>3, <2>2, <2>3, Vectors
    <2>6. \A i \in Inks : Dot(Scale(g[4], m), t[i]) <= g[4] * Dot(m, t[g[1]])
        BY <1>3, <2>1, <2>4
    <2>7. Dot(Scale(g[4], m), c) <= g[4] * Dot(m, t[g[1]])
        BY <1>4, <2>5, <2>6
    <2> QED BY <2>1, <2>7
<1>6. ASSUME NEW facet \in Facets[t] PROVE Dot(facet[1], c) \in Int /\ facet[2] \in Int
    <2>1. PICK g \in Inks \X Inks \X Inks \X {1, -1} :
            LET n == Cross(Minus(t[g[2]], t[g[1]]), Minus(t[g[3]], t[g[1]]))
            IN  facet = <<Scale(g[4], n), g[4] * Dot(n, t[g[1]])>>
        BY DEF Facets, HullFacets
    <2> DEFINE n == Cross(Minus(t[g[2]], t[g[1]]), Minus(t[g[3]], t[g[1]]))
    <2>2. g[1] \in Inks /\ g[2] \in Inks /\ g[3] \in Inks /\ g[4] \in Int
        OBVIOUS
    <2>3. Triple(n)
        BY <1>3, <2>2, Vectors
    <2>4. facet[1] = Scale(g[4], n) /\ facet[2] = g[4] * Dot(n, t[g[1]])
        BY <2>1
    <2> HIDE DEF n
    <2>5. Triple(facet[1]) /\ facet[2] \in Int
        BY <1>3, <2>2, <2>3, <2>4, Vectors
    <2> QED BY <1>3, <2>5, Vectors
<1> QED BY <1>5, <1>6 DEF OutsideHull

-----------------------------------------------------------------------------
(* Frames.                                                                  *)

(* A frame's bytes are as many as the panel's pixels ask for.              *)
Full(data) == \E S : data \in Seq(S) /\ Len(data) = (Width * Height) \div 2

LEMMA AcceptedFrames ==
    ASSUME NEW f, Len(f.data) \in Nat, Parse(f) = "ok"
    PROVE  DeviceTakes(f)
<1>1. f.magic /\ f.width = Width /\ f.height = Height /\ ~(Len(f.data) < (f.width * f.height) \div 2)
    BY DEF Parse
<1>2. (Width * Height) \div 2 \in Nat
    BY PixelCount
<1> QED BY <1>1, <1>2 DEF DeviceTakes, HeaderCheck

(* The preview of a frame is what the panel paints, in other colours.      *)
LEMMA PreviewPaints ==
    ASSUME NEW data, Full(data), NEW t
    PROVE  PreviewPng(data, t) = RotateBack([n \in DOMAIN Paint(data) |-> t[Paint(data)[n]]])
<1>1. PICK S : data \in Seq(S) /\ Len(data) = (Width * Height) \div 2
    BY DEF Full
<1>2. Paint(data) = [n \in Pixels |-> NibbleToIndex[HalfByte(data, n)]]
    BY <1>1, PaintIs DEF Pixels
<1>3. 1..(2 * Len(data)) = Pixels
    BY <1>1, PixelCount DEF Pixels
<1>4. [n \in DOMAIN Paint(data) |-> t[Paint(data)[n]]] = [n \in Pixels |-> t[NibbleToIndex[HalfByte(data, n)]]]
    BY <1>2
<1>5. PreviewPng(data, t) = RotateBack([n \in Pixels |-> t[NibbleToIndex[HalfByte(data, n)]]])
    BY <1>3 DEF PreviewPng, HalfByte
<1> QED BY <1>4, <1>5

-----------------------------------------------------------------------------
(* The mixture of two inks that leaves least, in the numbers of Mixture:    *)
(* a quadratic form of the parts, its least value and where it lies.        *)

(* k of n parts of ink i and the rest of ink j, n times over, and how far   *)
(* that is from n times a colour.                                           *)
Blend(t, i, j, k, n) == [m \in 1..3 |-> k * t[i][m] + (n - k) * t[j][m]]
Off(c, t, i, j, k, n) == Dist2(Scale(n, c), Blend(t, i, j, k, n))

LEMMA SquareOfBlend ==
    ASSUME NEW x \in Int, NEW a \in Int, NEW b \in Int, NEW k \in Int, NEW n \in Int
    PROVE  (n * x - (k * a + (n - k) * b)) * (n * x - (k * a + (n - k) * b))
              = n * n * ((x - b) * (x - b)) - 2 * (n * k * ((x - b) * (a - b)))
                + k * k * ((a - b) * (a - b))
OBVIOUS

(* The distance as a quadratic form of the parts.                           *)
LEMMA OffIs ==
    ASSUME NEW c, Triple(c), NEW t, NEW i, NEW j, Triple(t[i]), Triple(t[j]),
           NEW k \in Int, NEW n \in Int
    PROVE  LET d == Minus(t[i], t[j])
               v == Minus(c, t[j])
           IN  Off(c, t, i, j, k, n)
                  = n * n * Dot(v, v) - 2 * (n * k * Dot(v, d)) + k * k * Dot(d, d)
<1> DEFINE X(m) == c[m] - t[j][m]
           Y(m) == t[i][m] - t[j][m]
           Z(m) == n * c[m] - (k * t[i][m] + (n - k) * t[j][m])
<1>1. ASSUME NEW m \in 1..3
      PROVE  /\ Z(m) * Z(m) = n * n * (X(m) * X(m)) - 2 * (n * k * (X(m) * Y(m))) + k * k * (Y(m) * Y(m))
             /\ X(m) * X(m) \in Int /\ X(m) * Y(m) \in Int /\ Y(m) * Y(m) \in Int
    <2>1. c[m] \in Int /\ t[i][m] \in Int /\ t[j][m] \in Int
        BY DEF Triple
    <2> DEFINE x == c[m]
               a == t[i][m]
               b == t[j][m]
    <2>2. x \in Int /\ a \in Int /\ b \in Int
        BY <2>1
    <2> HIDE DEF x, a, b
    <2>3. /\ (n * x - (k * a + (n - k) * b)) * (n * x - (k * a + (n - k) * b))
               = n * n * ((x - b) * (x - b)) - 2 * (n * k * ((x - b) * (a - b)))
                 + k * k * ((a - b) * (a - b))
          /\ (x - b) * (x - b) \in Int /\ (x - b) * (a - b) \in Int /\ (a - b) * (a - b) \in Int
        BY <2>2, SquareOfBlend
    <2> QED BY <2>3 DEF x, a, b
<1>2. Off(c, t, i, j, k, n) = Z(1) * Z(1) + Z(2) * Z(2) + Z(3) * Z(3)
    BY DEF Off, Dist2, Dot, Minus, Scale, Blend
<1>3. /\ Dot(Minus(c, t[j]), Minus(c, t[j])) = X(1) * X(1) + X(2) * X(2) + X(3) * X(3)
      /\ Dot(Minus(c, t[j]), Minus(t[i], t[j])) = X(1) * Y(1) + X(2) * Y(2) + X(3) * Y(3)
      /\ Dot(Minus(t[i], t[j]), Minus(t[i], t[j])) = Y(1) * Y(1) + Y(2) * Y(2) + Y(3) * Y(3)
    BY DEF Dot, Minus
<1> DEFINE XX(m) == X(m) * X(m)
           XY(m) == X(m) * Y(m)
           YY(m) == Y(m) * Y(m)
           ZZ(m) == Z(m) * Z(m)
<1>4. \A m \in 1..3 : /\ ZZ(m) = n * n * XX(m) - 2 * (n * k * XY(m)) + k * k * YY(m)
                      /\ XX(m) \in Int /\ XY(m) \in Int /\ YY(m) \in Int
    BY <1>1
<1>5. /\ Off(c, t, i, j, k, n) = ZZ(1) + ZZ(2) + ZZ(3)
      /\ Dot(Minus(c, t[j]), Minus(c, t[j])) = XX(1) + XX(2) + XX(3)
      /\ Dot(Minus(c, t[j]), Minus(t[i], t[j])) = XY(1) + XY(2) + XY(3)
      /\ Dot(Minus(t[i], t[j]), Minus(t[i], t[j])) = YY(1) + YY(2) + YY(3)
    BY <1>2, <1>3
<1> HIDE DEF XX, XY, YY, ZZ, X, Y, Z
<1> QED BY <1>4, <1>5

Form(n, k, vv, along, dd) == n * n * vv - 2 * (n * k * along) + k * k * dd

LEMMA AtAnEnd ==
    ASSUME NEW n \in Nat, NEW k \in 0..n, NEW vv \in Int, NEW along \in Int, NEW dd \in Nat
    PROVE  /\ along <= 0 => n * n * vv <= Form(n, k, vv, along, dd)
           /\ along >= dd => n * n * (vv - 2 * along + dd) <= Form(n, k, vv, along, dd)
<1>1. ASSUME along <= 0 PROVE n * n * vv <= Form(n, k, vv, along, dd)
    <2>1. n * k \in Nat /\ k * k \in Nat
        OBVIOUS
    <2>2. n * k * along <= 0
        BY <1>1, <2>1
    <2>3. k * k * dd >= 0
        BY <2>1
    <2> DEFINE x == n * k * along
               y == k * k * dd
               z == n * n * vv
    <2>4. x \in Int /\ y \in Int /\ z \in Int
        OBVIOUS
    <2> HIDE DEF x, y, z
    <2>5. z <= z - 2 * x + y
        BY <2>2, <2>3, <2>4 DEF x, y
    <2> QED BY <2>5 DEF Form, x, y, z
<1>2. ASSUME along >= dd PROVE n * n * (vv - 2 * along + dd) <= Form(n, k, vv, along, dd)
    <2> DEFINE r == n - k
               g == along - dd
    <2>1. r \in Nat /\ g \in Nat /\ n = k + r /\ along = dd + g
        BY <1>2
    <2>2. Form(n, k, vv, along, dd) = n * n * (vv - 2 * along + dd) + 2 * (n * r * g) + r * r * dd
        <3>1. (k + r) * (k + r) * vv - 2 * ((k + r) * k * (dd + g)) + k * k * dd
                = (k + r) * (k + r) * (vv - 2 * (dd + g) + dd) + 2 * ((k + r) * r * g) + r * r * dd
            BY <2>1
        <3> HIDE DEF r, g
        <3> QED BY <2>1, <3>1 DEF Form
    <2>3. n * r * g >= 0 /\ r * r * dd >= 0
        <3>1. n * r \in Nat /\ r * r \in Nat
            BY <2>1
        <3> HIDE DEF r, g
        <3> QED BY <2>1, <3>1
    <2> DEFINE x == n * r * g
               y == r * r * dd
               z == n * n * (vv - 2 * along + dd)
    <2>4. x \in Int /\ y \in Int /\ z \in Int
        BY <2>1
    <2> HIDE DEF x, y, z
    <2>5. z <= z + 2 * x + y
        BY <2>3, <2>4 DEF x, y
    <2> QED BY <2>2, <2>5 DEF x, y, z
<1> QED BY <1>1, <1>2

(* A part between the two inks: what is left when the best share is taken,  *)
(* and how far any other share is.                                          *)
LEMMA InBetween ==
    ASSUME NEW vv \in Int, NEW along \in Int, NEW dd \in Nat \ {0}, NEW n \in Int, NEW k \in Int
    PROVE  LET rest == vv * dd - along * along
           IN  /\ dd * Form(n, k, vv, along, dd) = n * n * rest + (n * along - k * dd) * (n * along - k * dd)
               /\ Form(dd, along, vv, along, dd) = dd * rest
BY DEF Form

(* Fixed point: the quotient and remainder taken one after the other.       *)
LEMMA InWholes ==
    ASSUME NEW rest \in Int, NEW dd \in Nat \ {0}
    PROVE  LET res == Whole * (rest \div dd) + (Whole * (rest % dd)) \div dd
           IN  res \in Int /\ res * dd <= Whole * rest /\ Whole * rest < (res + 1) * dd
<1> DEFINE q == rest \div dd
           r == rest % dd
           w == Whole * r
           u == w \div dd
<1>1. q \in Int /\ r \in Int /\ rest = dd * q + r
    OBVIOUS
<1> HIDE DEF q, r
<1>2. w \in Int /\ w = 1024 * r
    BY <1>1 DEF Whole
<1> HIDE DEF w
<1>3. u \in Int /\ dd * u <= w /\ w < dd * u + dd
    BY <1>2
<1> HIDE DEF u
<1>4. Whole * rest = dd * (1024 * q) + w
    BY <1>1, <1>2 DEF Whole
<1>5. (1024 * q + u) * dd = dd * (1024 * q) + dd * u
    BY <1>1, <1>3
<1>6. (1024 * q + u + 1) * dd = dd * (1024 * q) + dd * u + dd
    BY <1>1, <1>3
<1> DEFINE g == dd * (1024 * q)
           h == dd * u
<1>7. g \in Int /\ h \in Int
    BY <1>1, <1>3
<1> HIDE DEF g, h
<1>8. (1024 * q + u) * dd <= Whole * rest /\ Whole * rest < (1024 * q + u + 1) * dd
    BY <1>2, <1>3, <1>4, <1>5, <1>6, <1>7 DEF g, h
<1>9. 1024 * q + u \in Int
    BY <1>1, <1>3
<1> QED BY <1>8, <1>9 DEF Whole, q, r, w, u

LEMMA NoLength ==
    ASSUME NEW d, Triple(d), NEW v, Triple(v), Dot(d, d) = 0
    PROVE  Dot(v, d) = 0
<1>1. \A a \in Int : a * a \in Nat /\ (a * a = 0 => a = 0)
    OBVIOUS
<1> DEFINE x == d[1] * d[1]
           y == d[2] * d[2]
           z == d[3] * d[3]
<1>2. x \in Nat /\ y \in Nat /\ z \in Nat /\ x + y + z = 0
    BY <1>1 DEF Triple, Dot
<1> HIDE DEF x, y, z
<1>3. x = 0 /\ y = 0 /\ z = 0
    BY <1>2
<1>4. d[1] = 0 /\ d[2] = 0 /\ d[3] = 0
    BY <1>1, <1>3 DEF x, y, z, Triple
<1> QED BY <1>4 DEF Triple, Dot

(* The numbers alone: num of den parts leave least, and res says how much.  *)
LEMMA NearestShare ==
    ASSUME NEW vv \in Int, NEW along \in Int, NEW dd \in Nat, dd = 0 => along = 0,
           NEW num, num = IF dd = 0 THEN 1 ELSE Most(0, Least(dd, along)),
           NEW den, den = IF dd = 0 THEN 1 ELSE dd,
           NEW res, res = IF dd = 0 \/ along <= 0 \/ along >= dd
                          THEN Whole * (IF dd = 0 \/ along >= dd THEN vv - 2 * along + dd ELSE vv)
                          ELSE Whole * ((vv * dd - along * along) \div dd)
                               + (Whole * ((vv * dd - along * along) % dd)) \div dd,
           dd > 0 => Form(dd, along, vv, along, dd) >= 0
    PROVE  /\ den \in Nat \ {0} /\ num \in 0..den /\ res \in Int
           /\ Whole * Form(den, num, vv, along, dd) < (res + 1) * den * den
           /\ \A n \in Nat \ {0} : \A k \in 0..n : res * n * n <= Whole * Form(n, k, vv, along, dd)
<1>0. \A a, b \in Int : a <= b => Whole * a <= Whole * b
    BY DEF Whole
<1>00. \A n, k \in Int : Form(n, k, vv, along, dd) \in Int
    BY DEF Form
<1>1. CASE dd = 0
    <2>1. along = 0 /\ num = 1 /\ den = 1 /\ res = Whole * vv
        BY <1>1
    <2>2. \A n, k \in Int : Form(n, k, vv, along, dd) = n * n * vv
        BY <1>1, <2>1 DEF Form
    <2>3. \A n \in Int : res * n * n = Whole * (n * n * vv)
        BY <2>1 DEF Whole
    <2>4. \A n \in Int : n * n * vv \in Int
        OBVIOUS
    <2>5. Whole * Form(1, 1, vv, along, dd) = res
        <3>1. Form(1, 1, vv, along, dd) = 1 * 1 * vv
            BY <2>2
        <3> QED BY <2>1, <3>1 DEF Whole
    <2>6. res \in Int
        BY <2>1 DEF Whole
    <2>7. \A n \in Nat \ {0} : \A k \in 0..n : res * n * n <= Whole * Form(n, k, vv, along, dd)
        <3> TAKE n \in Nat \ {0}
        <3> TAKE k \in 0..n
        <3>1. Whole * Form(n, k, vv, along, dd) = res * n * n
            BY <2>2, <2>3
        <3>2. res * n * n \in Int
            BY <2>6
        <3> QED BY <3>1, <3>2
    <2> QED BY <2>1, <2>5, <2>6, <2>7
<1>2. CASE dd > 0 /\ along <= 0
    <2>1. num = 0 /\ den = dd /\ res = Whole * vv
        BY <1>2 DEF Most, Least
    <2>2. Form(den, num, vv, along, dd) = dd * dd * vv
        BY <2>1 DEF Form
    <2>3. res \in Int /\ Whole * (dd * dd * vv) = res * dd * dd
        BY <2>1 DEF Whole
    <2>4. (res + 1) * dd * dd = res * dd * dd + dd * dd /\ dd * dd > 0
        BY <1>2, <2>3
    <2>5. \A n \in Nat \ {0} : \A k \in 0..n : res * n * n <= Whole * Form(n, k, vv, along, dd)
        <3> TAKE n \in Nat \ {0}
        <3> TAKE k \in 0..n
        <3>1. n * n * vv <= Form(n, k, vv, along, dd)
            BY <1>2, AtAnEnd
        <3>2. n * n * vv \in Int /\ res * n * n = Whole * (n * n * vv)
            BY <2>1 DEF Whole
        <3> QED BY <1>0, <1>00, <3>1, <3>2
    <2>6. Whole * Form(den, num, vv, along, dd) < (res + 1) * den * den
        <3>1. res * dd * dd \in Int /\ dd * dd \in Int
            BY <2>3
        <3> QED BY <2>1, <2>2, <2>3, <2>4, <3>1
    <2> QED BY <1>2, <2>1, <2>3, <2>5, <2>6
<1>3. CASE dd > 0 /\ along >= dd
    <2> DEFINE e == vv - 2 * along + dd
    <2>1. num = dd /\ den = dd /\ res = Whole * e /\ e \in Int
        BY <1>3 DEF Most, Least
    <2>2. Form(den, num, vv, along, dd) = dd * dd * e
        BY <2>1 DEF Form
    <2>3. res \in Int /\ Whole * (dd * dd * e) = res * dd * dd
        BY <2>1 DEF Whole
    <2>4. (res + 1) * dd * dd = res * dd * dd + dd * dd /\ dd * dd > 0
        BY <1>3, <2>3
    <2>5. \A n \in Nat \ {0} : \A k \in 0..n : res * n * n <= Whole * Form(n, k, vv, along, dd)
        <3> TAKE n \in Nat \ {0}
        <3> TAKE k \in 0..n
        <3>1. n * n * e <= Form(n, k, vv, along, dd)
            BY <1>3, AtAnEnd
        <3> HIDE DEF e
        <3>2. n * n * e \in Int /\ res * n * n = Whole * (n * n * e)
            BY <2>1 DEF Whole
        <3> QED BY <1>0, <1>00, <3>1, <3>2
    <2>6. Whole * Form(den, num, vv, along, dd) < (res + 1) * den * den
        <3>1. res * dd * dd \in Int /\ dd * dd \in Int
            BY <2>3
        <3> QED BY <2>1, <2>2, <2>3, <2>4, <3>1
    <2> QED BY <1>3, <2>1, <2>3, <2>5, <2>6
<1>4. CASE dd > 0 /\ 0 < along /\ along < dd
    <2> DEFINE rest == vv * dd - along * along
    <2>0. dd \in Nat \ {0}
        BY <1>4
    <2>1. num = along /\ den = dd /\ rest \in Int
        BY <1>4 DEF Most, Least
    <2>2. res = Whole * (rest \div dd) + (Whole * (rest % dd)) \div dd
        BY <1>4
    <2>3. \A n, k \in Int :
             dd * Form(n, k, vv, along, dd) = n * n * rest + (n * along - k * dd) * (n * along - k * dd)
        <3> TAKE n, k \in Int
        <3> QED BY DEF Form
    <2>4. Form(dd, along, vv, along, dd) = dd * rest
        BY <1>4, InBetween
    <2> HIDE DEF rest
    <2>5. res \in Int /\ res * dd <= Whole * rest /\ Whole * rest < (res + 1) * dd
        BY <2>0, <2>1, <2>2, InWholes, Zenon
    <2>6. Whole * Form(den, num, vv, along, dd) < (res + 1) * den * den
        <3> DEFINE w == Whole * rest
                   z == (res + 1) * dd
        <3>1. w \in Int /\ z \in Int /\ w < z
            BY <2>1, <2>5 DEF Whole
        <3>2. Whole * (dd * rest) = w * dd /\ (res + 1) * dd * dd = z * dd
            BY <2>1, <2>5 DEF Whole
        <3> HIDE DEF w, z
        <3>3. w * dd < z * dd
            BY <1>4, <3>1
        <3> QED BY <2>1, <2>4, <3>2, <3>3
    <2>7. \A n \in Nat \ {0} : \A k \in 0..n : res * n * n <= Whole * Form(n, k, vv, along, dd)
        <3> TAKE n \in Nat \ {0}
        <3> TAKE k \in 0..n
        <3> DEFINE f == Form(n, k, vv, along, dd)
                   g == n * along - k * dd
                   s == n * n
        <3>0. g \in Int /\ n \in Int /\ k \in Int /\ \A a \in Int : a * a \in Nat
            OBVIOUS
        <3>1. f \in Int /\ g * g \in Nat /\ s \in Nat
            BY <1>00, <3>0, Zenon
        <3>2. dd * f = s * rest + g * g
            BY <2>3
        <3> HIDE DEF f, g, s
        <3>3. dd * f >= s * rest
            BY <2>1, <3>1, <3>2
        <3>4. Whole * (dd * f) >= Whole * (s * rest) /\ Whole * (s * rest) = s * (Whole * rest)
            BY <2>1, <3>1, <3>3 DEF Whole
        <3>5. s * (Whole * rest) >= s * (res * dd)
            <4> DEFINE lo == res * dd
                       hi == Whole * rest
            <4>1. lo \in Int /\ hi \in Int /\ lo <= hi
                BY <2>1, <2>5 DEF Whole
            <4> HIDE DEF lo, hi
            <4> QED BY <3>1, <4>1, Products DEF lo, hi
        <3>6. s * (res * dd) = dd * (res * s) /\ Whole * (dd * f) = dd * (Whole * f)
            BY <2>5, <3>1 DEF Whole
        <3> DEFINE l == res * s
                   h == Whole * f
        <3>7. l \in Int /\ h \in Int
            BY <2>5, <3>1 DEF Whole
        <3>8. dd * l <= dd * h
            <4>1. /\ Whole * (dd * f) \in Int /\ Whole * (s * rest) \in Int
                  /\ s * (Whole * rest) \in Int /\ s * (res * dd) \in Int
                BY <2>1, <2>5, <3>1 DEF Whole
            <4> QED BY <3>4, <3>5, <3>6, <4>1
        <3> HIDE DEF l, h
        <3>9. l <= h
            BY <1>4, <3>7, <3>8
        <3>10. res * n * n = res * (n * n)
            BY <2>5
        <3> QED BY <3>9, <3>10 DEF l, h, f, s
    <2> QED BY <1>4, <2>1, <2>5, <2>6, <2>7
<1> QED BY <1>1, <1>2, <1>3, <1>4

(* A mixture is the nearest of its two inks, to one part in Whole.          *)
LEMMA MixtureIsNearest ==
    ASSUME NEW c, Triple(c), NEW t, \A i \in Inks : Triple(t[i]), NEW p \in Pairs
    PROVE  LET m == Mixture(c, t, p[1], p[2])
           IN  /\ m.den \in Nat \ {0} /\ m.num \in 0..m.den
               /\ Whole * Off(c, t, m.i, m.j, m.num, m.den) < (m.res + 1) * m.den * m.den
               /\ \A n \in Nat \ {0} : \A k \in 0..n : m.res * n * n <= Whole * Off(c, t, m.i, m.j, k, n)
<1> DEFINE i == p[1]
           j == p[2]
           d == Minus(t[i], t[j])
           v == Minus(c, t[j])
           dd == Dot(d, d)
           vv == Dot(v, v)
           along == Dot(v, d)
           rest == vv * dd - along * along
           num == IF dd = 0 THEN 1 ELSE Most(0, Least(dd, along))
           den == IF dd = 0 THEN 1 ELSE dd
           res == IF dd = 0 \/ along <= 0 \/ along >= dd
                  THEN Whole * Dist2(c, t[IF dd = 0 \/ along >= dd THEN i ELSE j])
                  ELSE Whole * (rest \div dd) + (Whole * (rest % dd)) \div dd
           m == Mixture(c, t, i, j)
<1>1. m.i = i /\ m.j = j /\ m.num = num /\ m.den = den /\ m.res = res
    BY DEF Mixture
<1>2. i \in Inks /\ j \in Inks
    BY DEF Pairs
<1> HIDE DEF m, i, j
<1>3. Triple(d) /\ Triple(v) /\ Triple(t[i]) /\ Triple(t[j])
    BY <1>2, Vectors
<1>4. dd \in Nat /\ vv \in Int /\ along \in Int
    BY <1>3, Vectors, Lengths
<1>5. \A n, k \in Int : Off(c, t, i, j, k, n) = Form(n, k, vv, along, dd)
    BY <1>3, OffIs DEF Form
<1>6. dd = 0 => along = 0
    BY <1>3, NoLength
<1>7. Dist2(c, t[j]) = vv
    BY DEF Dist2
<1>8. Dist2(c, t[i]) = vv - 2 * along + dd
    <2>1. Off(c, t, i, j, 1, 1) = Form(1, 1, vv, along, dd)
        BY <1>5
    <2>2. Off(c, t, i, j, 1, 1) = Dist2(c, t[i])
        BY <1>3 DEF Off, Dist2, Dot, Minus, Scale, Blend, Triple
    <2> HIDE DEF vv, along, dd
    <2> QED BY <1>4, <2>1, <2>2 DEF Form
<1>9. Form(dd, along, vv, along, dd) >= 0
    <2>1. Off(c, t, i, j, along, dd) = Form(dd, along, vv, along, dd)
        BY <1>4, <1>5
    <2>2. Triple(Scale(dd, c)) /\ Triple(Blend(t, i, j, along, dd))
        <3> HIDE DEF dd, along
        <3> QED BY <1>3, <1>4 DEF Triple, Scale, Blend
    <2>3. Triple(Minus(Scale(dd, c), Blend(t, i, j, along, dd)))
        <3> HIDE DEF dd, along
        <3> QED BY <2>2 DEF Triple, Minus
    <2> QED BY <2>1, <2>3, Lengths DEF Off, Dist2
<1>10. res = IF dd = 0 \/ along <= 0 \/ along >= dd
             THEN Whole * (IF dd = 0 \/ along >= dd THEN vv - 2 * along + dd ELSE vv)
             ELSE Whole * ((vv * dd - along * along) \div dd)
                  + (Whole * ((vv * dd - along * along) % dd)) \div dd
    BY <1>7, <1>8
<1> HIDE DEF d, v, dd, vv, along
<1>11. /\ den \in Nat \ {0} /\ num \in 0..den /\ res \in Int
       /\ Whole * Form(den, num, vv, along, dd) < (res + 1) * den * den
       /\ \A n \in Nat \ {0} : \A k \in 0..n : res * n * n <= Whole * Form(n, k, vv, along, dd)
    <2> HIDE DEF res
    <2> QED BY <1>4, <1>6, <1>9, <1>10, NearestShare
<1> HIDE DEF num, den, res, rest
<1>12. /\ m.den \in Nat \ {0} /\ m.num \in 0..m.den
       /\ Whole * Off(c, t, m.i, m.j, m.num, m.den) < (m.res + 1) * m.den * m.den
       /\ \A n \in Nat \ {0} : \A k \in 0..n : m.res * n * n <= Whole * Off(c, t, m.i, m.j, k, n)
    <2>1. num \in Int /\ den \in Int
        BY <1>11
    <2>2. /\ Off(c, t, i, j, num, den) = Form(den, num, vv, along, dd)
          /\ \A n \in Nat \ {0} : \A k \in 0..n : Off(c, t, i, j, k, n) = Form(n, k, vv, along, dd)
        BY <1>5, <2>1
    <2>3. Whole * Off(c, t, m.i, m.j, m.num, m.den) < (m.res + 1) * m.den * m.den
        BY <1>1, <1>11, <2>2, Zenon
    <2>4. \A n \in Nat \ {0} : \A k \in 0..n : m.res * n * n <= Whole * Off(c, t, m.i, m.j, k, n)
        BY <1>1, <1>11, <2>2, Zenon
    <2>5. m.den \in Nat \ {0} /\ m.num \in 0..m.den
        BY <1>1, <1>11, Zenon
    <2> QED BY <2>3, <2>4, <2>5
<1> QED BY <1>12, Zenon DEF m, i, j

Cell(c) == <<Bucket(c[1]), Bucket(c[2]), Bucket(c[3])>>
PartOf(best) == IF best.i > 1 \/ best.i = best.j THEN best.num ELSE best.den - best.num

LEMMA Turned ==
    ASSUME NEW c, Triple(c), NEW t, NEW i, NEW j, Triple(t[i]), Triple(t[j]),
           NEW k \in Int, NEW n \in Int
    PROVE  Off(c, t, j, i, n - k, n) = Off(c, t, i, j, k, n)
<1>1. \A m \in 1..3 : t[i][m] \in Int /\ t[j][m] \in Int
    BY DEF Triple
<1>2. \A m \in 1..3 : (n - k) * t[j][m] + (n - (n - k)) * t[i][m] = k * t[i][m] + (n - k) * t[j][m]
    BY <1>1
<1>3. Blend(t, j, i, n - k, n) = Blend(t, i, j, k, n)
    BY <1>2 DEF Blend
<1> QED BY <1>3 DEF Off

(* Two inks that leave less come nearer, up to one part in Whole.           *)
LEMMA LeavesLess ==
    ASSUME NEW near \in Int, NEW far \in Int, NEW res \in Int, NEW other \in Int, res <= other,
           NEW den \in Nat \ {0}, NEW n \in Nat \ {0},
           Whole * near < (res + 1) * den * den, other * n * n <= Whole * far
    PROVE  Whole * n * n * near < Whole * den * den * far + den * den * n * n
<1> DEFINE s == n * n
           r == den * den
<1>1. s \in Nat /\ s > 0 /\ r \in Nat /\ r > 0
    OBVIOUS
<1>2. Whole * near < (res + 1) * r /\ other * s <= Whole * far
    <2>1. (res + 1) * den * den = (res + 1) * r /\ other * n * n = other * s
        OBVIOUS
    <2> QED BY <2>1
<1>3. /\ Whole * n * n * near = s * (Whole * near)
      /\ Whole * den * den * far = r * (Whole * far)
      /\ den * den * n * n = r * s
    BY DEF Whole
<1> HIDE DEF s, r
<1> DEFINE a == Whole * near
           b == Whole * far
<1>4. a \in Int /\ b \in Int
    BY DEF Whole
<1>5. a < (res + 1) * r /\ other * s <= b
    BY <1>2
<1> HIDE DEF a, b
<1>6. s * a < s * ((res + 1) * r)
    <2> DEFINE z == (res + 1) * r
    <2>1. z \in Int /\ a < z
        BY <1>1, <1>5
    <2> HIDE DEF z
    <2>2. s * a < s * z
        BY <1>1, <1>4, <2>1
    <2> QED BY <2>2 DEF z
<1>7. r * (other * s) <= r * b
    <2> DEFINE z == other * s
    <2>1. z \in Int /\ z <= b
        BY <1>1, <1>5
    <2> HIDE DEF z
    <2>2. r * z <= r * b
        BY <1>1, <1>4, <2>1
    <2> QED BY <2>2 DEF z
<1>8. s * ((res + 1) * r) = res * (r * s) + r * s /\ r * (other * s) = other * (r * s)
    BY <1>1
<1> DEFINE q == r * s
<1>9. q \in Nat
    BY <1>1
<1> HIDE DEF q
<1>10. res * q <= other * q
    BY <1>9
<1>11. s * a < r * b + q
    <2>1. s * a \in Int /\ r * b \in Int /\ res * q \in Int /\ other * q \in Int
        BY <1>1, <1>4, <1>9
    <2>2. s * a < res * q + q /\ other * q <= r * b
        BY <1>6, <1>7, <1>8 DEF q
    <2> QED BY <1>9, <1>10, <2>1, <2>2
<1> QED BY <1>3, <1>11 DEF a, b, q

(* What the plan of a colour was made of.                                   *)
LEMMA PlanFacts ==
    ASSUME NEW t \in Palettes, NEW c \in Colours, ~Plans[t][c].none
    PROVE  LET plan == Plans[t][c]
               best == BestPair(Cell(c), t)
           IN  /\ Triple(Cell(c))
               /\ best.den \in Nat \ {0} /\ PartOf(best) \in 0..best.den
               /\ plan.a \in Inks /\ plan.c \in Inks \ {0, 1}
               /\ plan.share = (Whole * PartOf(best)) \div best.den
               /\ plan.mixed \in BOOLEAN /\ (plan.mixed <=> plan.a \in {0, 1})
               /\ Off(Cell(c), t, plan.c, plan.a, PartOf(best), best.den)
                    = Off(Cell(c), t, best.i, best.j, best.num, best.den)
<1> DEFINE mid == Cell(c)
           best == BestPair(mid, t)
           plan == Plans[t][c]
           a == IF best.i <= 1 THEN best.i ELSE best.j
           part == IF a = best.i /\ best.i # best.j THEN best.den - best.num ELSE best.num
<1>1. Triple(mid)
    <2>1. \A v \in Int : Bucket(v) \in Int
        BY DEF Bucket, Least, Top
    <2>2. Triple(c)
        BY PalettesAreTriples
    <2> QED BY <2>1, <2>2 DEF Triple, Cell
<1>2. Plans[t][c] = IF OutsideHull(mid, t) THEN PlanOf(best) ELSE NoPlan
    BY DEF Plans, InterventionPlan, Cell
<1>3. plan = PlanOf(best)
    BY <1>2 DEF NoPlan
<1>4. plan = [a |-> a, c |-> IF a = best.i THEN best.j ELSE best.i,
              mixed |-> best.i <= 1, share |-> (Whole * part) \div best.den, none |-> FALSE]
    BY <1>3 DEF PlanOf
<1> HIDE DEF plan, mid
<1>5. \A i \in Inks : Triple(t[i])
    BY PalettesAreTriples
<1>6. PICK p \in Pairs : best = Mixture(mid, t, p[1], p[2])
    BY <1>1, <1>5, BestPairIsAPair
<1>7. /\ best.i = p[1] /\ best.j = p[2]
      /\ best.den \in Nat \ {0} /\ best.num \in 0..best.den
    <2> HIDE DEF best
    <2> QED BY <1>1, <1>5, <1>6, MixtureFacts, MixtureIsNearest
<1>8. best.i \in Inks /\ best.j \in Inks /\ best.i <= best.j /\ best.j > 1
    BY <1>7 DEF Pairs
<1> HIDE DEF best
<1>9. part = PartOf(best)
    BY <1>8 DEF PartOf, Inks
<1>10. /\ plan.a = a /\ plan.c = IF a = best.i THEN best.j ELSE best.i
       /\ plan.mixed = (best.i <= 1) /\ plan.share = (Whole * part) \div best.den
    BY <1>4
<1> HIDE DEF part
<1>11. PartOf(best) \in 0..best.den
    BY <1>7 DEF PartOf
<1>12. Off(mid, t, plan.c, plan.a, PartOf(best), best.den) = Off(mid, t, best.i, best.j, best.num, best.den)
    <2>1. CASE best.i <= 1
        <3>1. plan.a = best.i /\ plan.c = best.j /\ PartOf(best) = best.den - best.num
            BY <1>8, <1>10, <2>1 DEF PartOf, Inks
        <3>2. Triple(t[best.i]) /\ Triple(t[best.j]) /\ best.num \in Int /\ best.den \in Int
            BY <1>5, <1>7, <1>8
        <3> QED BY <1>1, <3>1, <3>2, Turned
    <2>2. CASE best.i > 1
        <3>1. plan.a = best.j /\ plan.c = best.i /\ PartOf(best) = best.num
            BY <1>8, <1>10, <2>2 DEF PartOf, Inks
        <3> QED BY <3>1
    <2> QED BY <1>8, <2>1, <2>2 DEF Inks
<1>13. plan.a \in Inks /\ plan.c \in Inks \ {0, 1}
    BY <1>8, <1>10 DEF Inks
<1>14. plan.mixed \in BOOLEAN /\ (plan.mixed <=> plan.a \in {0, 1})
    <2> DEFINE low == best.i <= 1
    <2>1. low \in BOOLEAN
        OBVIOUS
    <2>2. low <=> a \in {0, 1}
        BY <1>8 DEF Inks
    <2>3. plan.mixed = low /\ plan.a = a
        BY <1>10
    <2> HIDE DEF low, a
    <2>4. plan.mixed \in BOOLEAN
        BY <2>1, <2>3
    <2>5. plan.a \in {0, 1} <=> a \in {0, 1}
        BY <2>3
    <2>6. plan.mixed <=> low
        BY <2>3
    <2> QED BY <2>2, <2>4, <2>5, <2>6
<1> QED BY <1>1, <1>7, <1>9, <1>10, <1>11, <1>12, <1>13, <1>14 DEF plan, best, mid

-----------------------------------------------------------------------------
(* A pixel the inks cannot mix, and not by itself one of the inks, is       *)
(* painted with the two inks of its plan.                                   *)
KeepsTo(ink, c, t) ==
    LET pure == NearestIndex(c, t)
        plan == Plans[t][c]
    IN  ~Plain(c, t) =>
            IF Dist2(c, t[pure]) <= Snap THEN ink = pure
            ELSE plan.none \/ ink \in {plan.a, plan.c}

LEMMA PickKeepsTo ==
    ASSUME NEW src, NEW adj, NEW t, NEW chroma
    PROVE  KeepsTo(PickInk(src, adj, t, chroma).ink, src, t)
<1>1. ASSUME NEW plan, NEW eff PROVE PlannedInk(src, adj, t, plan, eff).ink \in {plan.a, plan.c}
    BY DEF PlannedInk
<1> QED BY <1>1 DEF KeepsTo, PickInk, Plain

LEMMA NextKeepsTo ==
    ASSUME NEW before, NEW pic, NEW n, NEW width, NEW t, NEW chroma
    PROVE  \E ink : /\ NextPixel(before, pic, n, width, t, chroma).inks = Append(before.inks, ink)
                    /\ KeepsTo(ink, pic[n], t)
<1>1. \E adj : NextPixel(before, pic, n, width, t, chroma).inks
                  = Append(before.inks, PickInk(pic[n], adj, t, chroma).ink)
    BY DEF NextPixel
<1> QED BY <1>1, PickKeepsTo

LEMMA DitheredKeepsTo ==
    ASSUME NEW N \in Nat, NEW pic \in [1..N -> Colours], NEW width \in Nat, width >= 2,
           NEW t \in Palettes, NEW chroma \in Int
    PROVE  \A n \in 1..N : KeepsTo(FloydSteinberg(pic, width, t, chroma)[n], pic[n], t)
<1> DEFINE Run == CHOOSE f : Dithered(f, N, pic, width, t, chroma)
           Good == {n \in 0..N : Fair(Run[n], n) /\ \A m \in 1..n : KeepsTo(Run[n].inks[m], pic[m], t)}
<1>1. pic \in Seq(Colours) /\ Len(pic) = N
    OBVIOUS
<1>2. FloydSteinberg(pic, width, t, chroma) = Run[N].inks
    BY <1>1 DEF FloydSteinberg, Dithered, Nothing
<1>3. Dithered(Run, N, pic, width, t, chroma)
    BY DitheringRuns
<1> HIDE DEF Run
<1>4. /\ Run[0] = Nothing
      /\ \A n \in 1..N : Run[n] = NextPixel(Run[n - 1], pic, n, width, t, chroma)
    BY <1>3 DEF Dithered
<1>5. 0 \in Good
    <2>1. Nothing.inks = <<>> /\ Nothing.left = <<>>
        BY DEF Nothing
    <2>2. <<>> \in Seq(Inks) /\ <<>> \in Seq(Vectors3) /\ Len(<<>>) = 0
        OBVIOUS
    <2>3. Fair(Nothing, 0)
        BY <2>1, <2>2 DEF Fair
    <2> QED BY <1>4, <2>3
<1>6. ASSUME NEW n \in 1..N, n - 1 \in Good PROVE n \in Good
    <2>1. Run[n] = NextPixel(Run[n - 1], pic, n, width, t, chroma)
        BY <1>4
    <2>2. Fair(Run[n - 1], n - 1) /\ \A m \in 1..(n - 1) : KeepsTo(Run[n - 1].inks[m], pic[m], t)
        BY <1>6
    <2>3. Fair(Run[n], n)
        BY <2>1, <2>2, NextIsFair
    <2>4. PICK ink : Run[n].inks = Append(Run[n - 1].inks, ink) /\ KeepsTo(ink, pic[n], t)
        BY <2>1, NextKeepsTo
    <2>5. \A m \in 1..n : KeepsTo(Run[n].inks[m], pic[m], t)
        <3> TAKE m \in 1..n
        <3>1. Run[n - 1].inks \in Seq(Inks) /\ Len(Run[n - 1].inks) = n - 1
            BY <2>2 DEF Fair
        <3>2. CASE m = n
            <4>1. Run[n].inks[n] = ink
                BY <2>4, <3>1
            <4> QED BY <2>4, <3>2, <4>1
        <3>3. CASE m # n
            <4>1. m \in 1..(n - 1) /\ Run[n].inks[m] = Run[n - 1].inks[m]
                BY <2>4, <3>1, <3>3
            <4> QED BY <2>2, <4>1
        <3> QED BY <3>2, <3>3
    <2> QED BY <2>3, <2>5
<1> HIDE DEF Good
<1>7. 0..N \subseteq Good
    BY <1>5, <1>6, UpTo
<1> QED BY <1>2, <1>7 DEF Good

-----------------------------------------------------------------------------
(* The bias, pixel by pixel.                                                *)

LEMMA HiIsPositive ==
    ASSUME NEW c \in Colours, Saturated(c)
    PROVE  Hi(c) \in Int /\ Lo(c) \in Int /\ Hi(c) > 0 /\ Hi(c) >= Lo(c)
<1>1. Triple(c) /\ c[1] >= 0 /\ c[2] >= 0 /\ c[3] >= 0
    <2>1. c \in (0..Top) \X (0..Top) \X (0..Top)
        BY InkMixAssumption
    <2> QED BY <2>1 DEF Triple, Top
<1>2. Hi(c) \in Int /\ Lo(c) \in Int /\ Hi(c) >= 0 /\ Hi(c) >= Lo(c) /\ (Hi(c) = 0 => Lo(c) = 0)
    BY <1>1 DEF Triple, Hi, Lo, Most, Least
<1> QED BY <1>2 DEF Saturated

LEMMA DivisionKeepsOrder ==
    ASSUME NEW a \in Int, NEW b \in Int, a <= b, NEW h \in Int, h > 0
    PROVE  a \div h <= b \div h
<1> DEFINE q == a \div h
           r == b \div h
<1>1. q \in Int /\ r \in Int /\ h * q <= a /\ b < h * r + h
    OBVIOUS
<1> HIDE DEF q, r
<1>2. h * q < h * (r + 1)
    BY <1>1
<1>3. q < r + 1
    <2> SUFFICES ASSUME q >= r + 1 PROVE FALSE
        BY <1>1
    <2>1. h * (r + 1) <= h * q
        BY <1>1
    <2> QED BY <1>1, <1>2, <2>1
<1> QED BY <1>1, <1>3 DEF q, r

LEMMA SharesAreParts ==
    ASSUME NEW t \in Palettes, NEW c \in Colours, ~Plans[t][c].none
    PROVE  Plans[t][c].share \in 0..Whole
<1> DEFINE best == BestPair(Cell(c), t)
           den == best.den
           part == PartOf(best)
           num == Whole * part
<1>1. den \in Nat \ {0} /\ part \in 0..den /\ Plans[t][c].share = num \div den
    BY PlanFacts
<1> HIDE DEF den, part
<1>2. num \in Int /\ 0 <= num /\ num <= Whole * den /\ Whole * den \in Int /\ den \in Int
    BY <1>1 DEF Whole
<1> HIDE DEF num
<1>3. 0 \div den = 0 /\ (Whole * den) \div den = Whole
    BY <1>1 DEF Whole
<1>4. 0 \div den <= num \div den /\ num \div den <= (Whole * den) \div den
    BY <1>1, <1>2, DivisionKeepsOrder
<1> QED BY <1>1, <1>2, <1>3, <1>4 DEF Whole

LEMMA ClampKeepsOrder == \A a, b \in Int : a <= b => Clamp(a) <= Clamp(b)
BY DEF Clamp, Most, Least, Top, Sub

(* What a share adds along one channel of the way to the coloured ink.      *)
LEMMA FurtherAlong ==
    ASSUME NEW e \in Int, NEW f \in Int, e <= f, NEW x \in Int, NEW va \in Int, NEW s \in Int
    PROVE  (Clamp(va + (e * x) \div 4 + s) - va) * x <= (Clamp(va + (f * x) \div 4 + s) - va) * x
<1> DEFINE m == va + (e * x) \div 4 + s
           n == va + (f * x) \div 4 + s
<1>1. m \in Int /\ n \in Int
    OBVIOUS
<1>2. CASE x >= 0
    <2>1. e * x <= f * x
        BY <1>2
    <2>2. m <= n
        BY <2>1
    <2> HIDE DEF m, n
    <2>3. Clamp(m) - va <= Clamp(n) - va /\ Clamp(m) - va \in Int /\ Clamp(n) - va \in Int
        BY <1>1, <2>2, ClampKeepsOrder, ClampIsInt
    <2>4. (Clamp(m) - va) * x <= (Clamp(n) - va) * x
        BY <1>2, <2>3
    <2> QED BY <2>4 DEF m, n
<1>3. CASE x < 0
    <2>1. f * x <= e * x
        BY <1>3
    <2>2. n <= m
        BY <2>1
    <2> HIDE DEF m, n
    <2>3. Clamp(n) - va <= Clamp(m) - va /\ Clamp(m) - va \in Int /\ Clamp(n) - va \in Int
        BY <1>1, <2>2, ClampKeepsOrder, ClampIsInt
    <2>4. (Clamp(m) - va) * x <= (Clamp(n) - va) * x
        BY <1>3, <2>3
    <2> QED BY <2>4 DEF m, n
<1> QED BY <1>2, <1>3

LEMMA MoreShareKeepsTheColour ==
    ASSUME NEW src, Triple(src), NEW adj, Triple(adj), NEW t, NEW plan,
           Triple(t[plan.a]), Triple(t[plan.c]),
           NEW e \in Int, NEW f \in Int, e <= f,
           PlannedInk(src, adj, t, plan, e).ink # PlannedInk(src, adj, t, plan, f).ink
    PROVE  /\ PlannedInk(src, adj, t, plan, e).ink = plan.a
           /\ PlannedInk(src, adj, t, plan, f).ink = plan.c
<1> DEFINE va == Scale(Sub, t[plan.a])
           axis == Minus(t[plan.c], t[plan.a])
           Base(eff) == [k \in 1..3 |-> Clamp(va[k] + (eff * axis[k]) \div (Whole \div Sub)
                                              + adj[k] - Sub * src[k])]
           Far(eff) == Dot(Minus(Base(eff), va), axis)
           Term(eff, k) == (Clamp(va[k] + (eff * axis[k]) \div 4 + (adj[k] - Sub * src[k])) - va[k]) * axis[k]
           limit == Sub * Dot(axis, axis)
<1>1. Triple(va) /\ Triple(axis) /\ Sub \in Int /\ Whole \div Sub = 4
    BY Vectors DEF Sub, Whole
<1>2. \A eff : PlannedInk(src, adj, t, plan, eff).ink =
                 IF axis = Zero THEN plan.a ELSE IF 2 * Far(eff) > limit THEN plan.c ELSE plan.a
    BY DEF PlannedInk
<1>3. limit \in Int
    <2>1. Dot(axis, axis) \in Int
        BY <1>1, Lengths
    <2> HIDE DEF axis
    <2> QED BY <1>1, <2>1
<1> HIDE DEF va, axis
<1>4. ASSUME NEW k \in 1..3
      PROVE  /\ va[k] \in Int /\ axis[k] \in Int /\ adj[k] \in Int /\ Sub * src[k] \in Int
             /\ Term(e, k) \in Int /\ Term(f, k) \in Int /\ Term(e, k) <= Term(f, k)
    <2>1. va[k] \in Int /\ axis[k] \in Int /\ adj[k] \in Int /\ src[k] \in Int
        BY <1>1 DEF Triple
    <2>2. Sub * src[k] \in Int
        BY <2>1 DEF Sub
    <2> DEFINE x == axis[k]
               v == va[k]
               s == adj[k] - Sub * src[k]
    <2>3. x \in Int /\ v \in Int /\ s \in Int
        BY <2>1, <2>2
    <2> HIDE DEF x, v, s
    <2>4. (Clamp(v + (e * x) \div 4 + s) - v) * x <= (Clamp(v + (f * x) \div 4 + s) - v) * x
        BY <2>3, FurtherAlong
    <2>5. v + (e * x) \div 4 + s \in Int /\ v + (f * x) \div 4 + s \in Int
        BY <2>3
    <2>6. Clamp(v + (e * x) \div 4 + s) \in Int /\ Clamp(v + (f * x) \div 4 + s) \in Int
        BY <2>5, ClampIsInt
    <2>7. (Clamp(v + (e * x) \div 4 + s) - v) * x \in Int /\ (Clamp(v + (f * x) \div 4 + s) - v) * x \in Int
        BY <2>3, <2>6
    <2> QED BY <2>1, <2>2, <2>4, <2>7 DEF x, v, s
<1>5. ASSUME NEW eff \in Int PROVE Far(eff) = Term(eff, 1) + Term(eff, 2) + Term(eff, 3)
    <2>1. ASSUME NEW k \in 1..3
          PROVE  Base(eff)[k] = Clamp(va[k] + (eff * axis[k]) \div 4 + (adj[k] - Sub * src[k]))
        <3>1. va[k] \in Int /\ (eff * axis[k]) \div 4 \in Int /\ adj[k] \in Int /\ Sub * src[k] \in Int
            BY <1>4
        <3>2. va[k] + (eff * axis[k]) \div 4 + adj[k] - Sub * src[k]
                = va[k] + (eff * axis[k]) \div 4 + (adj[k] - Sub * src[k])
            BY <3>1
        <3> QED BY <1>1, <3>2
    <2> HIDE DEF Base
    <2> QED BY <2>1 DEF Dot, Minus
<1> HIDE DEF Far, Term, limit
<1>6. Far(e) <= Far(f) /\ Far(e) \in Int /\ Far(f) \in Int
    BY <1>4, <1>5
<1> QED BY <1>2, <1>3, <1>6

-----------------------------------------------------------------------------
(* What the handlers keep to.                                              *)

BiasRange == {InRange(b) : b \in Biases \cup {0}}
Colouring == /\ profile \in Palettes /\ file.t \in Palettes
             /\ lookup \subseteq {profile} /\ bias \in BiasRange
Accepted == \/ display = NoFrame
            \/ /\ Parse(display.frame) = "ok" /\ Len(display.frame.data) \in Nat
               /\ display.made.what = "chart" => display.frame = ChartFps6
Photographed == panel.made.what = "chart" => panel.inks = PanelChart
Previewed == \/ preview = NoPreview
             \/ /\ preview.made \in Kinds
                /\ preview.image = PreviewPng(Frame(preview.made).data, preview.made.t)
CalibrationIInv == Colouring /\ Accepted /\ Photographed /\ Previewed

LEMMA BiasFacts == /\ \A b \in 0..MaxBias : InRange(b) = b
                   /\ \A b \in Biases : InRange(b) \in BiasRange
                   /\ 0 \in BiasRange
<1>1. \A b \in 0..MaxBias : InRange(b) = b
    BY DEF InRange, Most, Least, MaxBias
<1>2. InRange(0) = 0
    BY DEF InRange, Most, Least, MaxBias
<1>3. \A b \in Biases : InRange(b) \in BiasRange
    BY DEF BiasRange
<1>4. 0 \in BiasRange
    BY <1>2 DEF BiasRange
<1> QED BY <1>1, <1>3, <1>4

LEMMA KindFacts ==
    ASSUME NEW c \in Bands, NEW t \in Palettes, NEW b \in BiasRange
    PROVE  /\ RainbowOf(c, t, b) \in Kinds /\ PatchOf(c, t, b) \in Kinds
           /\ RainbowOf(c, t, b).t = t /\ RainbowOf(c, t, b).what # "chart"
           /\ PatchOf(c, t, b).t = t /\ PatchOf(c, t, b).what # "chart"
<1>1. PICK a \in Biases \cup {0} : b = InRange(a)
    BY DEF BiasRange
<1> DEFINE both == {RainbowOf(c, t, InRange(a)), PatchOf(c, t, InRange(a))}
<1>2. both \in {{RainbowOf(d, s, InRange(e)), PatchOf(d, s, InRange(e))} :
                    d \in Bands, s \in Palettes, e \in Biases \cup {0}}
    OBVIOUS
<1>3. RainbowOf(c, t, b) \in both /\ PatchOf(c, t, b) \in both
    BY <1>1
<1> HIDE DEF both
<1>4. RainbowOf(c, t, b) \in Kinds /\ PatchOf(c, t, b) \in Kinds
    BY <1>2, <1>3 DEF Kinds
<1>5. /\ RainbowOf(c, t, b).t = t /\ RainbowOf(c, t, b).what # "chart"
      /\ PatchOf(c, t, b).t = t /\ PatchOf(c, t, b).what # "chart"
    BY DEF RainbowOf, PatchOf
<1> QED BY <1>4, <1>5

-----------------------------------------------------------------------------
(* Pictures, and what a frame made of one shows.                            *)

LEMMA KindsAre ==
    ASSUME NEW made \in Kinds
    PROVE  \E c \in Bands, t \in Palettes, b \in BiasRange : made = RainbowOf(c, t, b) \/ made = PatchOf(c, t, b)
BY DEF Kinds, BiasRange

LEMMA BiasesAreInts == \A b \in BiasRange : b \in Int
BY CalibrationAssumption DEF BiasRange, InRange, Most, Least, MaxBias

LEMMA ViewFacts ==
    ASSUME NEW made \in Kinds
    PROVE  /\ made.t \in Palettes /\ made.bias \in Int /\ made.band \in Bands
           /\ View(made) \in Views(Colours)
<1>1. PICK c \in Bands, t \in Palettes, b \in BiasRange : made = RainbowOf(c, t, b) \/ made = PatchOf(c, t, b)
    BY KindsAre
<1>2. made.t = t /\ made.bias = b /\ made.band = c /\ made.what \in {"patch", "rainbow"}
    BY <1>1 DEF RainbowOf, PatchOf
<1>3. c \in Colours
    BY CalibrationAssumption
<1>4. BuildPatch(c) \in Views(Colours)
    BY <1>3 DEF BuildPatch, Raster, Views
<1>5. BuildRainbow(c, t) \in Views(Colours)
    <2>1. BuildRainbow(c, t) = [n \in 1..(Height * Width) |->
                IF 2 * ((n - 1) \div Height) < Width THEN c ELSE t[Block((n - 1) % Height)]]
        BY DEF BuildRainbow, Raster
    <2>2. ASSUME NEW n \in 1..(Height * Width) PROVE t[Block((n - 1) % Height)] \in Colours
        <3> DEFINE x == (n - 1) % Height
        <3>1. x \in 0..(Height - 1)
            BY Fps6Assumption, RasterOf
        <3> HIDE DEF x
        <3>2. (6 * x) \div Height \in 0..5
            BY <3>1, Fps6Assumption
        <3>3. Block(x) \in Inks
            BY <3>2 DEF Block, Inks
        <3> QED BY <3>3, PalettesAreTriples DEF x
    <2> QED BY <1>3, <2>1, <2>2 DEF Views
<1> QED BY <1>2, <1>4, <1>5, BiasesAreInts DEF View

LEMMA UprightPicture ==
    ASSUME NEW made \in Kinds
    PROVE  Rotate90(View(made)) \in [Pixels -> Colours]
BY ViewFacts, RotatedPicture

LEMMA InkedFacts ==
    ASSUME NEW made \in Kinds
    PROVE  Inked[made] \in [Pixels -> Inks]
<1> DEFINE N == Width * Height
           pic == Rotate90(View(made))
<1>1. N \in Nat /\ Width \in Nat /\ Width >= 2
    BY PixelCount, Fps6Assumption
<1>2. pic \in [1..N -> Colours] /\ made.t \in Palettes /\ made.bias \in Int
    BY UprightPicture, ViewFacts DEF Pixels
<1> HIDE DEF N, pic
<1>3. FloydSteinberg(pic, Width, made.t, made.bias) \in [1..N -> Inks]
    BY <1>1, <1>2, DitheredToInks
<1>4. Inked[made] = FloydSteinberg(pic, Width, made.t, made.bias)
    BY DEF Inked, Convert, pic
<1> QED BY <1>3, <1>4 DEF Pixels, N

LEMMA FrameShows ==
    ASSUME NEW made \in Kinds
    PROVE  /\ Frame(made).magic /\ Frame(made).width = Width /\ Frame(made).height = Height
           /\ Full(Frame(made).data)
           /\ Paint(Frame(made).data) = Inked[made]
<1>1. Frame(made).data = ToDeviceLayout(Inked[made])
    BY DEF Frame, PackFps6
<1>2. /\ ToDeviceLayout(Inked[made]) \in Seq(0..255)
      /\ Len(ToDeviceLayout(Inked[made])) = (Width * Height) \div 2
      /\ Paint(ToDeviceLayout(Inked[made])) = Inked[made]
    BY InkedFacts, LaidOut
<1> QED BY <1>1, <1>2 DEF Frame, PackFps6, Full

(* A patch of a colour the inks can mix comes out the same under any bias.  *)
LEMMA PatchUntouched ==
    ASSUME NEW made \in Kinds, made.what = "patch",
           ~Saturated(made.band) \/ InGamut(made.band, made.t)
    PROVE  /\ [made EXCEPT !.bias = 0] \in Kinds
           /\ Inked[made] = Inked[[made EXCEPT !.bias = 0]]
<1>1. PICK c \in Bands, t \in Palettes, b \in BiasRange : made = PatchOf(c, t, b)
    <2>1. PICK c \in Bands, t \in Palettes, b \in BiasRange : made = RainbowOf(c, t, b) \/ made = PatchOf(c, t, b)
        BY KindsAre
    <2>2. made # RainbowOf(c, t, b)
        BY DEF RainbowOf
    <2> QED BY <2>1, <2>2
<1> DEFINE other == PatchOf(c, t, 0)
           N == Width * Height
           pic == Rotate90(BuildPatch(c))
<1>2. [made EXCEPT !.bias = 0] = other
    BY <1>1 DEF PatchOf
<1>3. other \in Kinds
    BY BiasFacts, KindFacts
<1>4. c \in Colours /\ ~(Saturated(c) /\ OutsideHull(c, t))
    <2>1. c \in Colours /\ made.band = c /\ made.t = t
        BY <1>1, CalibrationAssumption DEF PatchOf
    <2> QED BY <2>1, GamutIsInside
<1>5. BuildPatch(c) \in Views({c})
    BY DEF BuildPatch, Raster, Views
<1>6. pic \in [1..N -> {c}] /\ N \in Nat
    BY <1>5, RotatedPicture, PixelCount DEF Pixels
<1> HIDE DEF pic, N, other
<1>7. AllPlain(pic, N, t)
    BY <1>4, <1>6 DEF Plain, AllPlain
<1>8. FloydSteinberg(pic, Width, t, b) = FloydSteinberg(pic, Width, t, 0)
    <2>1. N \in Nat /\ Picture(pic, N)
        BY <1>6 DEF Picture
    <2> QED BY <1>7, <2>1, SameInks
<1>9. Inked[made] = FloydSteinberg(pic, Width, t, b)
    <2>1. Inked[made] = FloydSteinberg(Rotate90(View(made)), Width, made.t, made.bias)
        BY DEF Inked, Convert
    <2>2. View(made) = BuildPatch(c) /\ made.t = t /\ made.bias = b
        BY <1>1 DEF View, PatchOf
    <2> QED BY <2>1, <2>2 DEF pic
<1>10. Inked[other] = FloydSteinberg(pic, Width, t, 0)
    <2>1. Inked[other] = FloydSteinberg(Rotate90(View(other)), Width, other.t, other.bias)
        BY <1>3 DEF Inked, Convert
    <2>2. View(other) = BuildPatch(c) /\ other.t = t /\ other.bias = 0
        BY DEF View, PatchOf, other
    <2> QED BY <2>1, <2>2 DEF pic
<1> QED BY <1>2, <1>3, <1>8, <1>9, <1>10


-----------------------------------------------------------------------------
(* The steps of the handlers.                                               *)

LEMMA LoadFacts == ASSUME NEW f, f.t \in Palettes PROVE Load(f) \in Palettes
BY CalibrationAssumption DEF Load

(* A push of a frame with its bytes counted.                               *)
LEMMA ShowStep ==
    ASSUME NEW made, NEW frame, Len(frame.data) \in Nat, made.what = "chart" => frame = ChartFps6,
           CalibrationIInv, Show(made, frame)
    PROVE  CalibrationIInv'
<1>1. Colouring' /\ Photographed' /\ Previewed'
    BY DEF CalibrationIInv, Show, Colouring, Photographed, Previewed
<1>2. Accepted'
    <2>1. CASE Parse(frame) = "ok"
        <3>1. display' = [made |-> made, frame |-> frame]
            BY <2>1 DEF Show
        <3>2. display'.made = made /\ display'.frame = frame
            BY <3>1
        <3> QED BY <2>1, <3>2 DEF Accepted
    <2>2. CASE Parse(frame) # "ok"
        BY <2>2 DEF Show, Accepted, CalibrationIInv
    <2> QED BY <2>1, <2>2
<1> QED BY <1>1, <1>2 DEF CalibrationIInv

(* A save, and whatever else reads the file anew.                          *)
Rest == UNCHANGED <<bias, display, panel, preview>>
LEMMA ReloadStep ==
    ASSUME CalibrationIInv, file'.t \in Palettes, Reload(file'), Rest
    PROVE  CalibrationIInv'
<1>1. profile' \in Palettes /\ lookup' = {}
    BY LoadFacts DEF Reload
<1>2. Colouring'
    BY <1>1 DEF Colouring, CalibrationIInv, Rest
<1>3. Accepted' /\ Photographed' /\ Previewed'
    BY DEF CalibrationIInv, Rest, Accepted, Photographed, Previewed
<1> QED BY <1>2, <1>3 DEF CalibrationIInv

LEMMA WrittenFacts == \A t \in Palettes : Written(t).t \in Palettes /\ Load(Written(t)) = t
BY DEF Written, Load

(* What the photograph gives is the palette of the panel.                  *)
LEMMA PhotoStep ==
    ASSUME CalibrationIInv, UploadPhoto
    PROVE  file' = Written(Real) /\ profile' = Real
<1>1. panel.inks = PanelChart
    BY DEF UploadPhoto, CalibrationIInv, Photographed
<1>2. SamplePhoto(RotateBack([n \in DOMAIN panel.inks |-> Real[panel.inks[n]]])) = Real
    BY <1>1, ChartPhoto
<1>3. SaveCalibrated(Real)
    BY <1>2 DEF UploadPhoto
<1>4. Real \in Palettes
    BY CalibrationAssumption
<1> QED BY <1>3, <1>4, WrittenFacts DEF SaveCalibrated, Reload

LEMMA PollStep == ASSUME CalibrationIInv, Poll PROVE CalibrationIInv'
<1>1. Colouring' /\ Accepted' /\ Previewed'
    BY DEF CalibrationIInv, Poll, Colouring, Accepted, Previewed
<1>2. panel'.made = display.made /\ panel'.inks = Paint(display.frame.data) /\ display # NoFrame
    BY DEF Poll
<1>3. Photographed'
    BY <1>2 DEF CalibrationIInv, Accepted, Photographed, PanelChart
<1> QED BY <1>1, <1>3 DEF CalibrationIInv

LEMMA PreviewStep ==
    ASSUME NEW c \in Bands, NEW b \in Biases, CalibrationIInv, PreviewRainbow(c, b)
    PROVE  CalibrationIInv'
<1> DEFINE made == RainbowOf(c, profile, InRange(b))
           table == IF lookup = {} THEN {profile} ELSE lookup
<1>1. table = {profile}
    BY DEF CalibrationIInv, Colouring
<1>2. (CHOOSE t \in table : TRUE) = profile
    BY <1>1
<1>3. profile \in Palettes /\ InRange(b) \in BiasRange
    BY BiasFacts DEF CalibrationIInv, Colouring
<1>4. made \in Kinds /\ made.t = profile
    BY <1>3, KindFacts
<1>5. /\ lookup' = table
      /\ preview' = [made |-> made, image |-> PreviewPng(Frame(made).data, CHOOSE t \in table : TRUE)]
      /\ UNCHANGED <<file, profile, bias, display, panel>>
    BY DEF PreviewRainbow
<1> HIDE DEF made, table
<1>6. Colouring' /\ Accepted' /\ Photographed'
    BY <1>1, <1>5 DEF CalibrationIInv, Colouring, Accepted, Photographed
<1>7. preview'.made = made /\ preview'.image = PreviewPng(Frame(made).data, profile)
    BY <1>2, <1>5
<1>8. Previewed'
    BY <1>4, <1>7 DEF Previewed
<1> QED BY <1>6, <1>8 DEF CalibrationIInv

LEMMA CalibrationInitIInv == CalibrationInit => CalibrationIInv
<1> SUFFICES ASSUME CalibrationInit PROVE CalibrationIInv
    OBVIOUS
<1>1. Colouring
    BY CalibrationAssumption, BiasFacts DEF CalibrationInit, NoFile, Colouring
<1>2. Accepted /\ Previewed
    BY DEF CalibrationInit, Accepted, Previewed
<1>3. panel.made.what = "none"
    BY DEF CalibrationInit, NoPanel, NoFrame, Chart
<1> QED BY <1>1, <1>2, <1>3 DEF CalibrationIInv, Photographed

LEMMA ToolStep == ASSUME NEW t \in Palettes, CalibrationIInv, Tool(t) PROVE CalibrationIInv'
<1>1. Colouring'
    BY WrittenFacts DEF CalibrationIInv, Colouring, Tool
<1> QED BY <1>1 DEF CalibrationIInv, Accepted, Photographed, Previewed, Tool

LEMMA SetBiasStep == ASSUME NEW b \in Biases, CalibrationIInv, SetBias(b) PROVE CalibrationIInv'
<1>1. bias' \in BiasRange
    <2>1. CASE b \in 0..MaxBias
        <3>1. InRange(b) = b /\ InRange(b) \in BiasRange /\ bias' = b
            BY <2>1, BiasFacts DEF SetBias
        <3> QED BY <3>1
    <2>2. CASE b \notin 0..MaxBias
        BY <2>2 DEF SetBias, CalibrationIInv, Colouring
    <2> QED BY <2>1, <2>2
<1>2. Colouring'
    BY <1>1 DEF CalibrationIInv, Colouring, SetBias
<1> QED BY <1>2 DEF CalibrationIInv, Accepted, Photographed, Previewed, SetBias

LEMMA PushStep ==
    ASSUME NEW c \in Bands, CalibrationIInv, PushRainbow(c) \/ UploadPicture(c)
    PROVE  CalibrationIInv'
<1>1. profile \in Palettes /\ bias \in BiasRange
    BY DEF CalibrationIInv, Colouring
<1>2. ASSUME NEW made \in Kinds, made.what # "chart", Show(made, Frame(made)) PROVE CalibrationIInv'
    <2>1. Len(Frame(made).data) \in Nat
        BY FrameShows, PixelCount DEF Full
    <2> QED BY <1>2, <2>1, ShowStep
<1>3. CASE PushRainbow(c)
    BY <1>1, <1>2, <1>3, KindFacts DEF PushRainbow
<1>4. CASE UploadPicture(c)
    BY <1>1, <1>2, <1>4, KindFacts DEF UploadPicture
<1> QED BY <1>3, <1>4

LEMMA CalibrationNextIInv == CalibrationIInv /\ [CalibrationNext]_calibrationVars => CalibrationIInv'
<1> SUFFICES ASSUME CalibrationIInv, [CalibrationNext]_calibrationVars PROVE CalibrationIInv'
    OBVIOUS
<1>1. ASSUME NEW t \in Palettes, SetDevice(t) PROVE CalibrationIInv'
    <2>1. file' = Written(t) /\ Reload(file') /\ Rest
        BY <1>1 DEF SetDevice, SaveCalibrated, Rest
    <2> QED BY <2>1, WrittenFacts, ReloadStep
<1>2. ASSUME NEW t \in Palettes, CrashInSave(t) PROVE CalibrationIInv'
    <2>1. file' \in {TornFile, Written(t)} /\ Reload(file') /\ Rest
        BY <1>2 DEF CrashInSave, Rest
    <2>2. TornFile.t \in Palettes
        BY CalibrationAssumption DEF TornFile
    <2>3. file'.t \in Palettes
        BY <2>1, <2>2, WrittenFacts
    <2> QED BY <2>1, <2>3, ReloadStep
<1>3. ASSUME NEW t \in Palettes, Tool(t) PROVE CalibrationIInv'
    BY <1>3, ToolStep
<1>4. CASE UploadPhoto
    <2>1. file' = Written(Real) /\ Real \in Palettes
        BY <1>4, PhotoStep, CalibrationAssumption
    <2>2. Reload(file') /\ Rest
        BY <1>4 DEF UploadPhoto, SaveCalibrated, Rest
    <2> QED BY <2>1, <2>2, WrittenFacts, ReloadStep
<1>5. CASE Clear
    <2>1. file' = NoFile /\ Reload(file') /\ Rest
        BY <1>5 DEF Clear, Rest
    <2>2. NoFile.t \in Palettes
        BY CalibrationAssumption DEF NoFile
    <2> QED BY <2>1, <2>2, ReloadStep
<1>6. CASE Restart
    <2>1. file' = file /\ Reload(file') /\ Rest
        BY <1>6 DEF Restart, Rest
    <2> QED BY <2>1, ReloadStep DEF CalibrationIInv, Colouring
<1>7. CASE Poll
    BY <1>7, PollStep
<1>8. CASE PushChart
    <2>1. Show(Chart, ChartFps6) /\ Len(ChartFps6.data) \in Nat
        BY <1>8, ChartShown, PixelCount DEF PushChart
    <2> QED BY <2>1, ShowStep
<1>9. ASSUME NEW b \in Biases, SetBias(b) PROVE CalibrationIInv'
    BY <1>9, SetBiasStep
<1>10. ASSUME NEW c \in Bands, PushRainbow(c) \/ UploadPicture(c) PROVE CalibrationIInv'
    BY <1>10, PushStep
<1>11. ASSUME NEW c \in Bands, NEW b \in Biases, PreviewRainbow(c, b) PROVE CalibrationIInv'
    BY <1>11, PreviewStep
<1>12. ASSUME NEW f \in Foreign, UploadRaw(f) PROVE CalibrationIInv'
    <2>1. f \in Sendable
        BY CalibrationAssumption
    <2>2. Len(f.data) \in Nat
        BY <2>1 DEF Sendable
    <2>3. Show(RawOf(f), f) /\ RawOf(f).what # "chart"
        BY <1>12 DEF UploadRaw, RawOf
    <2> QED BY <2>2, <2>3, ShowStep
<1>13. CASE UNCHANGED calibrationVars
    BY <1>13 DEF calibrationVars, CalibrationIInv, Colouring, Accepted, Photographed, Previewed
<1> QED BY <1>1, <1>2, <1>3, <1>4, <1>5, <1>6, <1>7, <1>8, <1>9, <1>10, <1>11, <1>12, <1>13
        DEF CalibrationNext

LEMMA CalibrationInvariance == CalibrationSpec => []CalibrationIInv
<1> QED BY CalibrationInitIInv, CalibrationNextIInv, PTL DEF CalibrationSpec

-----------------------------------------------------------------------------
(* What was pushed and what the panel shows go back to a conversion.        *)

Pictured(made) == made.what \in {"patch", "rainbow"}
Traced == /\ Pictured(display.made) => display.made \in Kinds /\ display.frame = Frame(display.made)
          /\ Pictured(panel.made) => panel.made \in Kinds /\ panel.inks = Paint(Frame(panel.made).data)

LEMMA NextTraced ==
    ASSUME CalibrationIInv, Traced, [CalibrationNext]_calibrationVars
    PROVE  Traced'
<1>1. CASE UNCHANGED <<display, panel>>
    BY <1>1 DEF Traced
<1>2. ASSUME NEW made, NEW frame, Show(made, frame), Pictured(made) => made \in Kinds /\ frame = Frame(made)
      PROVE  Traced'
    <2>1. panel' = panel
        BY <1>2 DEF Show
    <2>2. CASE Parse(frame) = "ok"
        <3>1. display' = [made |-> made, frame |-> frame]
            BY <1>2, <2>2 DEF Show
        <3>2. display'.made = made /\ display'.frame = frame
            BY <3>1
        <3> QED BY <1>2, <2>1, <3>2 DEF Traced
    <2>3. CASE Parse(frame) # "ok"
        BY <1>2, <2>1, <2>3 DEF Show, Traced
    <2> QED BY <2>2, <2>3
<1>3. CASE Poll
    <2>1. panel'.made = display.made /\ panel'.inks = Paint(display.frame.data) /\ display' = display
        BY <1>3 DEF Poll
    <2> QED BY <2>1 DEF Traced
<1>4. CASE PushChart
    <2>1. Show(Chart, ChartFps6) /\ ~Pictured(Chart)
        BY <1>4 DEF PushChart, Chart, Pictured
    <2> QED BY <1>2, <2>1
<1>5. ASSUME NEW c \in Bands, PushRainbow(c) \/ UploadPicture(c) PROVE Traced'
    <2>1. profile \in Palettes /\ bias \in BiasRange
        BY DEF CalibrationIInv, Colouring
    <2>2. RainbowOf(c, profile, bias) \in Kinds /\ PatchOf(c, profile, bias) \in Kinds
        BY <2>1, KindFacts
    <2> QED BY <1>2, <1>5, <2>2 DEF PushRainbow, UploadPicture
<1>6. ASSUME NEW f \in Foreign, UploadRaw(f) PROVE Traced'
    <2>1. Show(RawOf(f), f) /\ ~Pictured(RawOf(f))
        BY <1>6 DEF UploadRaw, RawOf, Pictured
    <2> QED BY <1>2, <2>1
<1>7. CASE CalibrationNext
    <2>1. \/ UNCHANGED <<display, panel>> \/ Poll \/ PushChart
          \/ \E c \in Bands : PushRainbow(c) \/ UploadPicture(c)
          \/ \E f \in Foreign : UploadRaw(f)
        BY <1>7 DEF CalibrationNext, SetDevice, CrashInSave, Tool, UploadPhoto, Clear, Restart,
                    SetBias, PreviewRainbow
    <2> QED BY <1>1, <1>3, <1>4, <1>5, <1>6, <2>1
<1>8. CASE UNCHANGED calibrationVars
    BY <1>1, <1>8 DEF calibrationVars
<1> QED BY <1>7, <1>8

LEMMA AlwaysTraced == CalibrationSpec => []Traced
<1>1. CalibrationInit => Traced
    BY DEF CalibrationInit, NoPanel, NoFrame, Chart, Traced, Pictured
<1> QED BY <1>1, NextTraced, CalibrationInvariance, PTL DEF CalibrationSpec

-----------------------------------------------------------------------------
(* The format loses nothing: what is packed passes the checks of the routes *)
(* and of the firmware, and the two chips paint just the inks that went in, *)
(* for every picture and every panel whose width two chips can share        *)
(* (_to_device_layout, parse_fps6, frame_header_check,                      *)
(* render_fps6_partition).                                                  *)
THEOREM PackedIsPainted ==
    \A pic \in [1..(Width * Height) -> Inks] :
        LET frame == PackFps6(ToDeviceLayout(pic), Width, Height)
        IN  Parse(frame) = "ok" /\ DeviceTakes(frame) /\ Paint(frame.data) = pic
<1> TAKE pic \in [1..(Width * Height) -> Inks]
<1> DEFINE frame == PackFps6(ToDeviceLayout(pic), Width, Height)
<1>1. /\ frame.data \in Seq(0..255) /\ Len(frame.data) = (Width * Height) \div 2
      /\ Paint(frame.data) = pic
    BY LaidOut DEF PackFps6, Pixels
<1>2. frame.magic /\ frame.width = Width /\ frame.height = Height
    BY DEF PackFps6
<1> HIDE DEF frame
<1>3. Parse(frame) = "ok" /\ Len(frame.data) \in Nat
    BY <1>1, <1>2, PixelCount DEF Parse
<1>4. DeviceTakes(frame)
    BY <1>3, AcceptedFrames
<1> QED BY <1>1, <1>3, <1>4 DEF frame

(* A photograph of the chart gives each ink its colour on this panel: the   *)
(* bands are sampled (sample_photo) where the chart, turned, packed, sent   *)
(* by halves and turned back, has them.                                     *)
THEOREM PhotoIsRight == CalibrationSpec => PhotoFindsInks
<1>1. CalibrationIInv /\ [CalibrationNext]_calibrationVars => [UploadPhoto => profile' = Real]_calibrationVars
    BY PhotoStep
<1> QED BY <1>1, CalibrationInvariance, PTL DEF CalibrationSpec, PhotoFindsInks

(* A preview shows what the panel would, in the colours of the calibration  *)
(* it was asked for under (rainbow_quantized_preview_png): the table its    *)
(* colours come from is never older than the profile.                       *)
THEOREM PreviewsAreFaithful == CalibrationSpec => []PreviewIsThePush
<1>1. ASSUME CalibrationIInv PROVE PreviewIsThePush
    <2> SUFFICES ASSUME preview # NoPreview
                 PROVE  preview.image = RotateBack([n \in DOMAIN Paint(Frame(preview.made).data) |->
                                            preview.made.t[Paint(Frame(preview.made).data)[n]]])
        BY DEF PreviewIsThePush
    <2>1. /\ preview.made \in Kinds
          /\ preview.image = PreviewPng(Frame(preview.made).data, preview.made.t)
        BY <1>1 DEF CalibrationIInv, Previewed
    <2>2. Full(Frame(preview.made).data)
        BY <2>1, FrameShows
    <2> QED BY <2>1, <2>2, PreviewPaints
<1> QED BY <1>1, CalibrationInvariance, PTL

(* A frame the upload routes accept (_validate_fps6, parse_fps6) is one the *)
(* device takes (content_download_image), whatever is sent.                 *)
THEOREM NothingRefusedLater == CalibrationSpec => []AcceptedIsShown
<1>1. ASSUME CalibrationIInv PROVE AcceptedIsShown
    <2> SUFFICES ASSUME display # NoFrame PROVE DeviceTakes(display.frame)
        BY DEF AcceptedIsShown
    <2>1. Parse(display.frame) = "ok" /\ Len(display.frame.data) \in Nat
        BY <1>1 DEF CalibrationIInv, Accepted
    <2> QED BY <2>1, AcceptedFrames
<1> QED BY <1>1, CalibrationInvariance, PTL

(* What the panel shows of a picture is the picture converted with the      *)
(* palette and the bias it was pushed under, ink by ink: nothing on the way *)
(* (packing, checks, the two chips, a later calibration) changes it.        *)
PanelIsConverted == Pictured(panel.made) => panel.inks = Inked[panel.made]

THEOREM PanelShowsTheConversion == CalibrationSpec => []PanelIsConverted
<1>1. Traced => PanelIsConverted
    BY FrameShows DEF Traced, PanelIsConverted
<1> QED BY <1>1, AlwaysTraced, PTL

(* The bias changes nothing in a patch the inks can mix (ADR-0004, decision *)
(* 5): four inks around a colour keep it inside of every facet of the hull, *)
(* and there the converter does not look at the bias.                       *)
THEOREM BiasSparesTheMixable == CalibrationSpec => []MixableIsUntouched
<1>1. Traced => MixableIsUntouched
    <2> SUFFICES ASSUME Traced, panel.made.what = "patch",
                        ~Saturated(panel.made.band) \/ InGamut(panel.made.band, panel.made.t)
                 PROVE  panel.inks = Inked[[panel.made EXCEPT !.bias = 0]]
        BY DEF MixableIsUntouched
    <2>1. panel.made \in Kinds /\ panel.inks = Inked[panel.made]
        BY FrameShows DEF Traced, Pictured
    <2> QED BY <2>1, PatchUntouched
<1> QED BY <1>1, AlwaysTraced, PTL

(* The two inks of a plan and their parts come as near to the colour, in    *)
(* the middle of its cell, as any parts of any two inks of which one is     *)
(* coloured, up to one part in 1024 of a squared distance (_best_pair,      *)
(* _intervention_plan); one of the two is coloured, and the share of that   *)
(* one is its part.                                                         *)
THEOREM PlanIsNearest ==
    \A t \in Palettes, c \in Colours :
        LET plan == Plans[t][c]
            mid == Cell(c)
        IN  ~plan.none =>
              /\ plan.a \in Inks /\ plan.c \in Inks \ {0, 1}
              /\ \E den \in Nat \ {0} : \E part \in 0..den :
                    /\ plan.share = (Whole * part) \div den
                    /\ \A p \in Pairs, n \in Nat \ {0} : \A k \in 0..n :
                          Whole * n * n * Off(mid, t, plan.c, plan.a, part, den)
                            < Whole * den * den * Off(mid, t, p[1], p[2], k, n) + den * den * n * n
<1> SUFFICES ASSUME NEW t \in Palettes, NEW c \in Colours, ~Plans[t][c].none
             PROVE  /\ Plans[t][c].a \in Inks /\ Plans[t][c].c \in Inks \ {0, 1}
                    /\ \E den \in Nat \ {0} : \E part \in 0..den :
                          /\ Plans[t][c].share = (Whole * part) \div den
                          /\ \A p \in Pairs, n \in Nat \ {0} : \A k \in 0..n :
                               Whole * n * n * Off(Cell(c), t, Plans[t][c].c, Plans[t][c].a, part, den)
                                  < Whole * den * den * Off(Cell(c), t, p[1], p[2], k, n) + den * den * n * n
    OBVIOUS
<1> DEFINE mid == Cell(c)
           plan == Plans[t][c]
           best == BestPair(mid, t)
           den == best.den
           part == PartOf(best)
           near == Off(mid, t, plan.c, plan.a, part, den)
<1>1. /\ Triple(mid) /\ den \in Nat \ {0} /\ part \in 0..den
      /\ plan.a \in Inks /\ plan.c \in Inks \ {0, 1}
      /\ plan.share = (Whole * part) \div den
      /\ near = Off(mid, t, best.i, best.j, best.num, den)
    BY PlanFacts
<1> HIDE DEF mid, plan
<1>2. \A i \in Inks : Triple(t[i])
    BY PalettesAreTriples
<1>3. PICK q \in Pairs : /\ best = Mixture(mid, t, q[1], q[2])
                         /\ \A p \in Pairs : best.res <= Mixture(mid, t, p[1], p[2]).res
    BY <1>1, <1>2, BestPairIsAPair
<1> HIDE DEF best
<1>4. best.res \in Int /\ Whole * near < (best.res + 1) * den * den
    <2>1. /\ best.res \in Int
          /\ Whole * Off(mid, t, best.i, best.j, best.num, best.den) < (best.res + 1) * best.den * best.den
        BY <1>1, <1>2, <1>3, MixtureFacts, MixtureIsNearest
    <2> QED BY <1>1, <2>1
<1>5. \A i, j \in Inks : \A k, n \in Int : Off(mid, t, i, j, k, n) \in Int
    <2> TAKE i, j \in Inks
    <2> TAKE k, n \in Int
    <2>1. Triple(Scale(n, mid))
        BY <1>1, Vectors
    <2>2. Triple(Blend(t, i, j, k, n))
        BY <1>2 DEF Blend, Triple
    <2> QED BY <2>1, <2>2, Distances DEF Off
<1>6. near \in Int
    <2>1. part \in Int /\ den \in Int /\ plan.c \in Inks
        BY <1>1
    <2> HIDE DEF den, part
    <2> QED BY <1>1, <1>5, <2>1
<1> HIDE DEF near, den, part
<1>7. ASSUME NEW p \in Pairs, NEW n \in Nat \ {0}, NEW k \in 0..n
      PROVE  Whole * n * n * near < Whole * den * den * Off(mid, t, p[1], p[2], k, n) + den * den * n * n
    <2> DEFINE m == Mixture(mid, t, p[1], p[2])
               far == Off(mid, t, p[1], p[2], k, n)
    <2>1. /\ m.res \in Int /\ m.i = p[1] /\ m.j = p[2]
          /\ \A x \in Nat \ {0} : \A y \in 0..x : m.res * x * x <= Whole * Off(mid, t, m.i, m.j, y, x)
        BY <1>1, <1>2, MixtureFacts, MixtureIsNearest
    <2>2. m.res * n * n <= Whole * far
        BY <2>1
    <2>3. best.res <= m.res
        BY <1>3
    <2>4. far \in Int
        <3>1. p[1] \in Inks /\ p[2] \in Inks /\ k \in Int /\ n \in Int
            BY DEF Pairs
        <3> QED BY <1>5, <3>1
    <2> HIDE DEF m, far
    <2>5. Whole * n * n * near < Whole * den * den * far + den * den * n * n
        BY <1>1, <1>4, <1>6, <2>1, <2>2, <2>3, <2>4, LeavesLess
    <2> QED BY <2>5 DEF far
<1> QED BY <1>1, <1>7 DEF mid, plan, near

(* Whatever error the pixels before it left: on the panel a pixel whose     *)
(* colour the inks cannot mix has the ink its colour all but is, or one of  *)
(* the two inks planned for it (_floyd_steinberg, _pick_ink): no such area  *)
(* fades to an ink that its colour is not mixed from (ADR-0004).            *)
PanelKeepsTo ==
    Pictured(panel.made) =>
        LET seen == Rotate90(View(panel.made))
        IN  \A n \in Pixels : KeepsTo(panel.inks[n], seen[n], panel.made.t)

THEOREM PanelKeepsToPlans == CalibrationSpec => []PanelKeepsTo
<1>1. Traced => PanelKeepsTo
    <2> SUFFICES ASSUME Traced, Pictured(panel.made), NEW n \in Pixels
                 PROVE  KeepsTo(panel.inks[n], Rotate90(View(panel.made))[n], panel.made.t)
        BY DEF PanelKeepsTo
    <2> DEFINE made == panel.made
               seen == Rotate90(View(made))
    <2>1. made \in Kinds /\ panel.inks = Inked[made]
        BY FrameShows DEF Traced
    <2> HIDE DEF made
    <2>2. seen \in [Pixels -> Colours] /\ made.t \in Palettes /\ made.bias \in Int
        BY <2>1, UprightPicture, ViewFacts
    <2>3. Inked[made] = FloydSteinberg(seen, Width, made.t, made.bias)
        BY <2>1 DEF Inked, Convert
    <2> HIDE DEF seen
    <2>4. Width * Height \in Nat /\ Width \in Nat /\ Width >= 2
        BY PixelCount, Fps6Assumption
    <2>5. KeepsTo(FloydSteinberg(seen, Width, made.t, made.bias)[n], seen[n], made.t)
        BY <2>2, <2>4, DitheredKeepsTo DEF Pixels
    <2> QED BY <2>1, <2>3, <2>5 DEF made, seen
<1> QED BY <1>1, AlwaysTraced, PTL

(* The bias starts from the faithful share, and more of it never asks for   *)
(* less of the coloured ink nor for more than all of it (_pick_ink,         *)
(* ADR-0004, decision 5).                                                   *)
THEOREM BiasRaisesTheShare ==
    \A t \in Palettes, c \in Colours : ~Plans[t][c].none /\ Saturated(c) =>
        /\ BiasedShare(Plans[t][c], c, 0) = Plans[t][c].share
        /\ \A weak, strong \in Nat : weak <= strong =>
              /\ BiasedShare(Plans[t][c], c, weak) <= BiasedShare(Plans[t][c], c, strong)
              /\ BiasedShare(Plans[t][c], c, strong) \in 0..Whole
<1> SUFFICES ASSUME NEW t \in Palettes, NEW c \in Colours, ~Plans[t][c].none, Saturated(c)
             PROVE  /\ BiasedShare(Plans[t][c], c, 0) = Plans[t][c].share
                    /\ \A weak, strong \in Nat : weak <= strong =>
                          /\ BiasedShare(Plans[t][c], c, weak) <= BiasedShare(Plans[t][c], c, strong)
                          /\ BiasedShare(Plans[t][c], c, strong) \in 0..Whole
    OBVIOUS
<1> DEFINE plan == Plans[t][c]
           share == plan.share
           hi == Hi(c)
           sat == Hi(c) - Lo(c)
           grown(b) == (share * (hi + b * sat)) \div hi
<1>1. share \in Int /\ 0 <= share /\ share <= Whole /\ Whole \in Int
    <2>1. share \in 0..Whole
        BY SharesAreParts
    <2> HIDE DEF share
    <2> QED BY <2>1 DEF Whole
<1>2. hi \in Int /\ hi > 0 /\ sat \in Nat
    BY HiIsPositive
<1>3. \A b \in Nat : BiasedShare(plan, c, b) = IF plan.mixed THEN Least(Whole, grown(b)) ELSE share
    BY DEF BiasedShare
<1> HIDE DEF plan, share, hi, sat
<1>4. grown(0) = share
    BY <1>1, <1>2
<1>5. \A weak, strong \in Nat : weak <= strong =>
         grown(weak) \in Int /\ grown(strong) \in Int /\ grown(weak) <= grown(strong)
    <2> TAKE weak, strong \in Nat
    <2> HAVE weak <= strong
    <2> DEFINE x == share * (hi + weak * sat)
               y == share * (hi + strong * sat)
    <2>1. weak * sat <= strong * sat /\ weak * sat \in Int /\ strong * sat \in Int
        BY <1>2
    <2>2. hi + weak * sat <= hi + strong * sat /\ hi + weak * sat \in Int /\ hi + strong * sat \in Int
        BY <1>2, <2>1
    <2>3. x \in Int /\ y \in Int /\ x <= y
        BY <1>1, <2>2, Products
    <2> HIDE DEF x, y
    <2>4. x \div hi <= y \div hi /\ x \div hi \in Int /\ y \div hi \in Int
        BY <1>2, <2>3, DivisionKeepsOrder
    <2> QED BY <2>4 DEF x, y
<1>6. \A b \in Nat : grown(b) \in Int /\ grown(b) >= share
    BY <1>4, <1>5
<1> HIDE DEF grown
<1>7. BiasedShare(plan, c, 0) = share
    BY <1>1, <1>3, <1>4 DEF Least
<1>8. ASSUME NEW weak \in Nat, NEW strong \in Nat, weak <= strong
      PROVE  /\ BiasedShare(plan, c, weak) <= BiasedShare(plan, c, strong)
             /\ BiasedShare(plan, c, strong) \in 0..Whole
    BY <1>1, <1>3, <1>5, <1>6, <1>8 DEF Least
<1> QED BY <1>7, <1>8 DEF plan, share

(* With the same error left to it, a pixel changes its ink under a stronger *)
(* bias only from black or white to a coloured one (_pick_ink): what the    *)
(* whole picture makes of that is BiasOnlyDeepens.                          *)
THEOREM BiasOnlyColours ==
    \A t \in Palettes, src \in Colours, adj \in Int \X Int \X Int, weak, strong \in Nat :
        LET before == PickInk(src, adj, t, weak).ink
            after == PickInk(src, adj, t, strong).ink
        IN  weak <= strong /\ before # after => before \in {0, 1} /\ after \in Inks \ {0, 1}
<1> SUFFICES ASSUME NEW t \in Palettes, NEW src \in Colours, NEW adj \in Int \X Int \X Int,
                    NEW weak \in Nat, NEW strong \in Nat, weak <= strong,
                    PickInk(src, adj, t, weak).ink # PickInk(src, adj, t, strong).ink
             PROVE  /\ PickInk(src, adj, t, weak).ink \in {0, 1}
                    /\ PickInk(src, adj, t, strong).ink \in Inks \ {0, 1}
    OBVIOUS
<1> DEFINE plan == Plans[t][src]
           e == BiasedShare(plan, src, weak)
           f == BiasedShare(plan, src, strong)
<1>1. /\ Saturated(src) /\ ~plan.none
      /\ PickInk(src, adj, t, weak) = PlannedInk(src, adj, t, plan, e)
      /\ PickInk(src, adj, t, strong) = PlannedInk(src, adj, t, plan, f)
    BY DEF PickInk
<1>2. plan.a \in Inks /\ plan.c \in Inks \ {0, 1} /\ (plan.mixed <=> plan.a \in {0, 1})
    BY <1>1, PlanFacts
<1>3. e # f
    BY <1>1
<1>4. plan.mixed
    BY <1>3 DEF BiasedShare
<1>5. e \in Int /\ f \in Int /\ e <= f
    <2>1. e <= f /\ e \in 0..Whole /\ f \in 0..Whole
        BY <1>1, BiasRaisesTheShare
    <2> HIDE DEF e, f
    <2> QED BY <2>1 DEF Whole
<1>6. Triple(src) /\ Triple(adj) /\ Triple(t[plan.a]) /\ Triple(t[plan.c])
    BY <1>2, PalettesAreTriples DEF Triple
<1> HIDE DEF plan, e, f
<1>7. PlannedInk(src, adj, t, plan, e).ink = plan.a /\ PlannedInk(src, adj, t, plan, f).ink = plan.c
    BY <1>1, <1>5, <1>6, MoreShareKeepsTheColour
<1> QED BY <1>1, <1>2, <1>4, <1>7
=============================================================================
