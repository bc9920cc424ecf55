------------------------------- MODULE Cards --------------------------------
(* The weather card and the calendar card.  Each is drawn when it is asked  *)
(* for and not in its cache: a request of the device or the console, one    *)
(* after the other on the event loop, and each of many seconds, during      *)
(* which midnight may come, the owner may fix another style, and the        *)
(* process may end.  Beside the cards are kept the sentence and the design  *)
(* of the day, which a language model writes, and the place the frame is    *)
(* at, from its address.  A picture is what it was drawn from.              *)
EXTENDS Naturals, Sequences, FiniteSets

CONSTANTS MaxDays,
          Styles,       \* of the weather card, in the order they take turns
          Places,       \* where the frame can be
          Quotes, Designs,  \* what the model can answer, or the service fall back to
          Keep,         \* CACHE_KEEP
          MaxRestyles, MaxCrashes, MaxFailures

AutoStyle == "auto"
Nowhere == "nowhere"

ASSUME CardsAssumption ==
    /\ {MaxDays, MaxRestyles, MaxCrashes, MaxFailures} \subseteq Nat /\ Keep \in Nat \ {0}
    /\ Styles \in Seq(STRING) \ {<<>>} /\ AutoStyle \notin {Styles[i] : i \in DOMAIN Styles}
    /\ Nowhere \notin Places

VARIABLES
    day,
    fixed,      \* weather_style of the configuration
    month,      \* the calendar files of each day: the frame and its original
    quote,      \* quote_<day>.json
    weather,    \* the weather files, by age: their name, frame and original
    design,     \* design_<day>.json
    mem, disk,  \* the place found last, in the process and in its file
    age,        \* of the place: "new", a few "hours", or "old"
    call,       \* what the event loop is doing
    quotes, designs, \* history: what the answers of a day showed that was kept
    restyled,   \* history: days on which the style was changed
    crossed,    \* history: a style was changed while a card was being drawn
    restyles, crashes, failures

files == <<month, quote, weather, design>>
place == <<mem, disk, age>>
past == <<quotes, designs, restyled, crossed, restyles, crashes>>
history == <<past, failures>>
vars == <<day, fixed, files, place, call, history>>

Days == 0..MaxDays
StyleSet == {Styles[i] : i \in DOMAIN Styles}
NoPic == [is |-> "none"]
Torn == [is |-> "torn"]
Month(d, q) == [is |-> "month", day |-> d, quote |-> q]
Card(d, s, p, g) == [is |-> "card", day |-> d, style |-> s, at |-> p, design |-> g]
\* Of a frame, `lone': its original could not be saved (history).
NoFiles == [frame |-> NoPic, orig |-> NoPic, lone |-> FALSE]
Idle == [pc |-> "idle"]

Init == /\ day = 0 /\ fixed = AutoStyle
        /\ month = [d \in Days |-> NoFiles] /\ quote = [d \in Days |-> {}]
        /\ weather = <<>> /\ design = [d \in Days |-> {}]
        /\ mem = Nowhere /\ disk = Nowhere /\ age = "old"
        /\ call = Idle
        /\ quotes = [d \in Days |-> {}] /\ designs = [d \in Days |-> {}]
        /\ restyled = {} /\ crossed = FALSE /\ restyles = 0 /\ crashes = 0 /\ failures = 0

\* A write that fails: nothing of it is on disk, or less than the whole.
Fails == failures < MaxFailures /\ failures' = failures + 1

\* What is on disk under a key stays; otherwise the model is asked and its
\* answer kept.
Kept(there, q, all) == IF there # {} THEN q \in there ELSE q \in all

-----------------------------------------------------------------------------
(* The calendar: render_calendar_card.                                      *)

Answer(d, q) == quotes' = [quotes EXCEPT ![d] = @ \cup {q}]
CalendarHit == month[day].frame # NoPic
AskCalendar ==
    /\ call = Idle /\ ~CalendarHit
    /\ call' = [pc |-> "month", stem |-> day]
    /\ UNCHANGED <<day, fixed, files, place, history>>

\* Variant: the sentence is asked for each time.
DailyQuoteAnew(d, q) == q \in Quotes

\* The sentence of day d.
DailyQuote(d, q) == Kept(quote[d], q, Quotes)

\* render_month, for what is today now.  A sentence that cannot be kept is
\* shown all the same.
DrawMonth ==
    /\ call.pc = "month"
    /\ \E q \in Quotes, kept \in BOOLEAN :
          /\ DailyQuote(day, q)
          /\ IF kept THEN quote' = [quote EXCEPT ![day] = {q}] /\ UNCHANGED failures
             ELSE quote[day] = {} /\ Fails /\ UNCHANGED quote
          /\ call' = [pc |-> "original", stem |-> call.stem, pic |-> Month(day, q),
                      kept |-> kept, lone |-> FALSE]
    /\ UNCHANGED <<day, fixed, month, weather, design, place, past>>

SaveMonthOriginal ==
    /\ call.pc = "original" /\ call.pic.is = "month"
    /\ month' = [month EXCEPT ![call.stem].orig = call.pic]
    /\ call' = [call EXCEPT !.pc = "open"]
    /\ UNCHANGED <<day, fixed, quote, weather, design, place, history>>

\* A warning: the frame is written without it.
MonthOriginalFails ==
    /\ call.pc = "original" /\ call.pic.is = "month" /\ Fails
    /\ \E o \in {month[call.stem].orig, Torn} : month' = [month EXCEPT ![call.stem].orig = o]
    /\ call' = [call EXCEPT !.pc = "open", !.lone = TRUE]
    /\ UNCHANGED <<day, fixed, quote, weather, design, place, past>>

\* write_bytes empties the file and fills it.
SaveMonth(now, next) ==
    /\ call.pc = now /\ call.pic.is = "month"
    /\ month' = [month EXCEPT ![call.stem].frame = IF now = "open" THEN Torn ELSE call.pic,
                              ![call.stem].lone = call.lone]
    /\ call' = [call EXCEPT !.pc = next]
    /\ UNCHANGED <<day, fixed, quote, weather, design, place, history>>

\* _prune_cache, and the answer: frames of other days go with their originals.
PruneMonths ==
    /\ call.pc = "prune" /\ call.pic.is = "month"
    /\ month' = [d \in Days |-> IF d # day /\ month[d].frame # NoPic THEN NoFiles ELSE month[d]]
    /\ IF call.kept THEN Answer(call.pic.day, call.pic.quote) ELSE UNCHANGED quotes
    /\ call' = Idle
    /\ UNCHANGED <<day, fixed, quote, weather, design, place,
                   designs, restyled, crossed, restyles, crashes, failures>>

-----------------------------------------------------------------------------
(* Where the frame is: ip_location.                                         *)

\* The place known without a request, and after one that answers `net' or,
\* if that is Nowhere, fails.
Fresh == IF age = "old" THEN Nowhere ELSE IF mem # Nowhere THEN mem ELSE disk
Located(net) == IF Fresh # Nowhere THEN Fresh ELSE IF net # Nowhere THEN net ELSE disk
Locate(net) ==
    IF Fresh # Nowhere THEN mem' = Fresh /\ UNCHANGED <<disk, age>>
    ELSE IF net # Nowhere THEN mem' = net /\ disk' = net /\ age' = "new"
    ELSE UNCHANGED place

-----------------------------------------------------------------------------
(* The weather: render_weather_card.                                        *)

PickStyle(d) == IF fixed # AutoStyle THEN fixed ELSE Styles[1 + (d % Len(Styles))]

\* Variant: the name of the files says nothing of the day.
CacheStemUndated(d, s, p) == <<0, s, p>>

\* _cache_stem: the name of the files.
CacheStem(d, s, p) == <<d, s, p>>

Named(stem) == {i \in DOMAIN weather : weather[i].stem = stem}
FilesOf(stem) ==
    IF Named(stem) = {} THEN [stem |-> stem, frame |-> NoPic, orig |-> NoPic, lone |-> FALSE, fresh |-> FALSE]
    ELSE weather[CHOOSE i \in Named(stem) : TRUE]

\* A write makes them the newest files.
Put(f) ==
    IF Named(f.stem) = {} THEN Append(weather, f)
    ELSE LET old == CHOOSE i \in Named(f.stem) : TRUE
         IN  [i \in DOMAIN weather |->
                 IF i < old THEN weather[i] ELSE IF i < Len(weather) THEN weather[i + 1] ELSE f]

AskWeather(net) ==
    /\ call = Idle /\ Locate(net)
    /\ LET stem == CacheStem(day, PickStyle(day), Located(net))
           f == FilesOf(stem)
       IN  call' = IF f.frame # NoPic /\ f.fresh THEN Idle
                   ELSE [pc |-> "fetch", stem |-> stem]
    /\ UNCHANGED <<day, fixed, files, history>>

\* fetch_weather asks for the place again; it fails where there is none.
FetchWeather(net) ==
    /\ call.pc = "fetch" /\ Locate(net)
    /\ \/ call' = Idle
       \/ /\ Located(net) # Nowhere
          /\ call' = [pc |-> "design", stem |-> call.stem, at |-> Located(net)]
    /\ UNCHANGED <<day, fixed, files, history>>

\* _daily_design keeps one style's design a day, if it can.
DailyDesign ==
    /\ call.pc = "design"
    /\ LET s == PickStyle(day)
           there == {k[2] : k \in {k \in design[day] : k[1] = s}}
       IN  \E g \in Designs, kept \in BOOLEAN :
              /\ Kept(there, g, Designs)
              /\ IF kept THEN design' = [design EXCEPT ![day] = {<<s, g>>}] /\ UNCHANGED failures
                 ELSE /\ there = {} /\ Fails
                      /\ \E left \in {design[day], {}} : design' = [design EXCEPT ![day] = left]
              /\ call' = [pc |-> "draw", stem |-> call.stem, at |-> call.at,
                          style |-> s, design |-> g, kept |-> kept]
    /\ UNCHANGED <<day, fixed, month, quote, weather, place, past>>

\* _render_card, dated when it is drawn.
DrawWeather ==
    /\ call.pc = "draw"
    /\ call' = [pc |-> "original", stem |-> call.stem,
                pic |-> Card(day, call.style, call.at, call.design),
                kept |-> call.kept, lone |-> FALSE]
    /\ UNCHANGED <<day, fixed, files, place, history>>

\* Variant: an original that is there stays.
SaveWeatherOriginalOnce ==
    /\ call.pc = "original" /\ call.pic.is = "card"
    /\ LET f == FilesOf(call.stem)
       IN  weather' = Put([f EXCEPT !.orig = IF @ = NoPic THEN call.pic ELSE @])
    /\ call' = [call EXCEPT !.pc = "open"]
    /\ UNCHANGED <<day, fixed, month, quote, design, place, history>>

SaveWeatherOriginal ==
    /\ call.pc = "original" /\ call.pic.is = "card"
    /\ weather' = Put([FilesOf(call.stem) EXCEPT !.orig = call.pic])
    /\ call' = [call EXCEPT !.pc = "open"]
    /\ UNCHANGED <<day, fixed, month, quote, design, place, history>>

\* A warning, as for the calendar.
WeatherOriginalFails ==
    /\ call.pc = "original" /\ call.pic.is = "card" /\ Fails
    /\ weather' \in {weather, Put([FilesOf(call.stem) EXCEPT !.orig = Torn])}
    /\ call' = [call EXCEPT !.pc = "open", !.lone = TRUE]
    /\ UNCHANGED <<day, fixed, month, quote, design, place, past>>

SaveWeather(now, next) ==
    /\ call.pc = now /\ call.pic.is = "card"
    /\ weather' = Put([FilesOf(call.stem) EXCEPT !.frame = IF now = "open" THEN Torn ELSE call.pic,
                                                 !.lone = call.lone, !.fresh = TRUE])
    /\ call' = [call EXCEPT !.pc = next]
    /\ UNCHANGED <<day, fixed, month, quote, design, place, history>>

\* _prune_weather_cache keeps the newest, and the answer.
PruneWeather ==
    /\ call.pc = "prune" /\ call.pic.is = "card"
    /\ weather' = IF Len(weather) <= Keep THEN weather
                  ELSE SubSeq(weather, Len(weather) - Keep + 1, Len(weather))
    /\ designs' = IF ~call.kept \/ call.stem[1] # call.pic.day THEN designs
                  ELSE [designs EXCEPT ![call.pic.day] = @ \cup {<<call.pic.style, call.pic.design>>}]
    /\ call' = Idle
    /\ UNCHANGED <<day, fixed, month, quote, design, place,
                   quotes, restyled, crossed, restyles, crashes, failures>>

-----------------------------------------------------------------------------
\* The frame cannot be written: the request fails.
FrameFails ==
    /\ call.pc \in {"open", "write"} /\ Fails
    /\ call' = Idle
    /\ UNCHANGED <<day, fixed, files, place, past>>

-----------------------------------------------------------------------------
(* The clock, the owner and the end of the process.                         *)

Midnight == /\ day < MaxDays /\ day' = day + 1
            /\ UNCHANGED <<fixed, files, place, call, history>>

\* An hour, which no drawing takes: every frame is older than that.  A day
\* after it was found, the place is old.
Hour == /\ call = Idle
        /\ weather' = [i \in DOMAIN weather |-> [weather[i] EXCEPT !.fresh = FALSE]]
        /\ age' = IF age = "new" THEN "hours" ELSE age
        /\ UNCHANGED <<day, fixed, month, quote, design, mem, disk, call, history>>
PlaceExpires == /\ age = "hours" /\ age' = "old"
                /\ UNCHANGED <<day, fixed, files, mem, disk, call, history>>

\* save_settings, in a thread of its own: the style does not empty the cache.
FixStyle(s) ==
    /\ restyles < MaxRestyles /\ restyles' = restyles + 1
    /\ s # fixed /\ fixed' = s
    /\ restyled' = restyled \cup {day}
    /\ crossed' = (crossed \/ call # Idle)
    /\ UNCHANGED <<day, files, place, call, quotes, designs, crashes, failures>>

Crash ==
    /\ crashes < MaxCrashes /\ crashes' = crashes + 1
    /\ call' = Idle /\ mem' = Nowhere
    /\ UNCHANGED <<day, fixed, files, disk, age,
                   quotes, designs, restyled, crossed, restyles, failures>>

Calendar == \/ AskCalendar \/ DrawMonth \/ SaveMonthOriginal \/ MonthOriginalFails
            \/ SaveMonth("open", "write") \/ SaveMonth("write", "prune")
            \/ PruneMonths
Weather == \/ \E net \in Places \cup {Nowhere} : AskWeather(net) \/ FetchWeather(net)
           \/ DailyDesign \/ DrawWeather
           \/ SaveWeatherOriginal \/ WeatherOriginalFails
           \/ SaveWeather("open", "write") \/ SaveWeather("write", "prune")
           \/ PruneWeather

Next == \/ Calendar \/ Weather \/ FrameFails \/ Midnight \/ Hour \/ PlaceExpires \/ Crash
        \/ \E s \in StyleSet \cup {AutoStyle} : FixStyle(s)

Spec == Init /\ [][Next]_vars

-----------------------------------------------------------------------------
Place == IF mem # Nowhere THEN mem ELSE disk
Current == FilesOf(CacheStem(day, PickStyle(day), Place))
WeatherHit == Current.frame # NoPic /\ Current.fresh

\* What the cache answers with is of today, in today's style, of the place
\* the frame is at: no midnight in the middle of a drawing, no move and no
\* failing request leaves a card that is served for another's, but for a
\* frame torn by a crash or a failing write, and a style that is changed
\* while a card is being drawn.
CurrentCard ==
    call = Idle =>
        /\ CalendarHit /\ month[day].frame # Torn => month[day].frame.day = day
        /\ WeatherHit /\ Current.frame # Torn =>
              /\ Current.frame.day = day
              /\ ~crossed => Current.frame.style = PickStyle(day)
              /\ Current.frame.at = Place

\* A card that is served from its cache has its own original beside it, the
\* one the preview is made of, through refreshing, pruning, crashes and
\* failing writes, but for the card whose own original could not be saved.
WithOriginal(f) == f.frame = Torn \/ f.lone \/ f.orig = f.frame
ServedHasItsOriginal ==
    call = Idle => /\ CalendarHit => WithOriginal(month[day])
                   /\ WeatherHit => WithOriginal(Current)

\* All that a day's calendar and a day's weather card of one style show of
\* the language model is the same all day, however often they are drawn: but
\* for a card whose own answer could not be kept, one into whose drawing
\* midnight fell, and while the owner leaves the style alone (a design is
\* kept for the last style only).
SteadyAllDay ==
    \A d \in Days :
        /\ Cardinality(quotes[d]) <= 1
        /\ d \notin restyled => \A k, l \in designs[d] : k[1] = l[1] => k = l
=============================================================================
