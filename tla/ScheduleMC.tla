----------------------------- MODULE ScheduleMC -----------------------------
(* Small instances of Schedule for TLC.                                    *)
EXTENDS Schedule

CONSTANTS story, poem, baby

Item(start, type, module, category) ==
  [start |-> start, type |-> type, module |-> module, category |-> category]

(* Every start of the day and one past it; a type the server does not      *)
(* know; a category given to a segment that has no use for it.             *)
AllItems ==
  [start : 0 .. Day - 1, type : {"free"}, module : {story, poem},
   category : {NoLabel}]
    \cup [start : 0 .. Day - 1, type : {"photo"}, module : {NoLabel, story},
          category : {baby}]
    \cup {Item(Day, "photo", NoLabel, NoLabel), Item(0, "video", NoLabel, NoLabel),
          Item(2, "weather", NoLabel, baby)}

AllRequests == UNION {[1 .. n -> AllItems] : n \in 0 .. 3}

(* Ranges within the day, across midnight, a whole day, beyond the day.    *)
SomeRanges == {NoLabel, <<0, 2>>, <<3, 1>>, <<2, Day>>, <<1, 1>>, <<Day + 1, 2>>}

AllLegacies ==
  [weather : SomeRanges, photo : SomeRanges, free : SomeRanges,
   weatherOn : BOOLEAN, freeOn : BOOLEAN]

(* config.py: weather until morning, photos by day, a free card at night.  *)
DefaultLegacy ==
  [weather |-> <<0, 1>>, photo |-> <<1, 3>>, free |-> <<3, Day>>,
   weatherOn |-> TRUE, freeOn |-> TRUE]
=============================================================================
