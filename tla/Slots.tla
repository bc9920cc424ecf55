------------------------------- MODULE Slots -------------------------------
(***************************************************************************)
(* The day's schedule (services/app/slots.py): a list of segments, each    *)
(* from its start to the start of the next one, the last one until         *)
(* midnight.  Day is the number of minutes of a day, here the number of    *)
(* instants worth telling apart.                                           *)
(***************************************************************************)
EXTENDS Integers, Sequences, SequencesExt, TLC

CONSTANTS
  Day,     \* minutes of a day
  NoLabel  \* no fixed module, no bound category

ASSUME DayAssumption == Day \in Nat \ {0}

Types == {"weather", "photo", "free", "calendar"}

(***************************************************************************)
(* A segment, in a request as in the stored configuration, is a record     *)
(* [start, type, module, category].                                        *)
(***************************************************************************)
Valid(raw) ==
  /\ raw # <<>>
  /\ \A i \in DOMAIN raw : raw[i].start \in 0 .. Day - 1 /\ raw[i].type \in Types

(* A module means something to a free segment only, a category to a photo  *)
(* segment only.                                                           *)
Normal(seg) ==
  [start |-> seg.start, type |-> seg.type,
   module |-> IF seg.type = "free" THEN seg.module ELSE NoLabel,
   category |-> IF seg.type = "photo" THEN seg.category ELSE NoLabel]

Same(a, b) == a.type = b.type /\ a.module = b.module /\ a.category = b.category

(* x comes after the entries of an ascending list that start like it.      *)
Insert(segs, x) ==
  LET k == CHOOSE k \in 0 .. Len(segs) :
             \A i \in DOMAIN segs : segs[i].start <= x.start <=> i <= k
  IN [i \in 1 .. Len(segs) + 1 |->
        IF i <= k THEN segs[i] ELSE IF i = k + 1 THEN x ELSE segs[i - 1]]

(* sorted(segs, key=start), which is stable. *)
ByStart(segs) ==
  LET sorted[n \in 0 .. Len(segs)] ==
        IF n = 0 THEN <<>> ELSE Insert(sorted[n - 1], segs[n])
  IN sorted[Len(segs)]

(* The entries of segs but those that Drop, given the one kept before.     *)
Thin(segs, Drop(_, _)) ==
  LET out[n \in 0 .. Len(segs)] ==
        IF n = 0 THEN <<>>
        ELSE IF out[n - 1] # <<>> /\ Drop(Last(out[n - 1]), segs[n]) THEN out[n - 1]
        ELSE Append(out[n - 1], segs[n])
  IN out[Len(segs)]

MergeAdjacent(segs) == Thin(segs, Same)

NotLater(a, b) == b.start <= a.start
Increasing(segs) == Thin(segs, NotLater)

(* Variant: the night before the first segment shows that segment.         *)
CutAtMidnightForward(segs) ==
  IF Head(segs).start = 0 THEN segs
  ELSE <<[Head(segs) EXCEPT !.start = 0]>> \o segs

(* A first segment that starts after midnight is preceded by the last one. *)
CutAtMidnight(segs) ==
  IF Head(segs).start = 0 THEN segs
  ELSE <<[Last(segs) EXCEPT !.start = 0]>> \o segs

Canonicalize(raw) ==
  LET normal == [i \in DOMAIN raw |-> Normal(raw[i])]
      merged == MergeAdjacent(ByStart(normal))
  IN Increasing(MergeAdjacent(CutAtMidnight(merged)))

(***************************************************************************)
(* Before slot_segments existed, a schedule was three ranges "from-to" and *)
(* two switches: [weather, photo, free : range or NoLabel, weatherOn,      *)
(* freeOn : BOOLEAN]; NoLabel stands for a text that is no range.          *)
(***************************************************************************)
(* Variant: a range across midnight is not split.                          *)
RangesWithinDay(range, type) ==
  IF range = NoLabel THEN <<>>
  ELSE <<[start |-> range[1], to |-> range[2], type |-> type]>>

Ranges(range, type) ==
  IF range = NoLabel THEN <<>>
  ELSE LET part(from, to) == [start |-> from, to |-> to, type |-> type]
           from == range[1]
           to == range[2]
       IN IF to <= from THEN <<part(from, Day), part(0, to)>> ELSE <<part(from, to)>>

LegacyRaw(c) ==
  ByStart((IF c.weatherOn THEN Ranges(c.weather, "weather") ELSE <<>>)
            \o Ranges(c.photo, "photo")
            \o (IF c.freeOn THEN Ranges(c.free, "free") ELSE <<>>))

Bare(start, type) ==
  [start |-> start, type |-> type, module |-> NoLabel, category |-> NoLabel]

(* Overlaps go to the range that came first, gaps to photos; t is the      *)
(* minute up to which out covers the day.                                  *)
Fill(acc, r) ==
  LET to == IF r.to < Day THEN r.to ELSE Day
      gap == IF r.start > acc.t THEN <<Bare(acc.t, "photo")>> ELSE <<>>
      from == IF r.start > acc.t THEN r.start ELSE acc.t
  IN IF to <= acc.t \/ r.start >= Day THEN acc
     ELSE [t |-> to, out |-> acc.out \o gap \o <<Bare(from, r.type)>>]

FillPartition(ranges) ==
  LET fill[n \in 0 .. Len(ranges)] ==
        IF n = 0 THEN [t |-> 0, out |-> <<>>] ELSE Fill(fill[n - 1], ranges[n])
      filled == fill[Len(ranges)]
  IN IF filled.t < Day THEN Append(filled.out, Bare(filled.t, "photo"))
     ELSE filled.out

(* slots.segments: stored segments are canonicalized once more on reading. *)
Effective(stored, legacy) ==
  IF stored # <<>> THEN Canonicalize(stored) ELSE FillPartition(LegacyRaw(legacy))

(***************************************************************************)
(* Instants are counted from some midnight.                                *)
(***************************************************************************)
Hit(segs, now) ==
  CHOOSE i \in DOMAIN segs :
    /\ segs[i].start <= (now % Day)
    /\ i < Len(segs) => (now % Day) < segs[i + 1].start

CurrentSegment(segs, now) == segs[Hit(segs, now)]

Midnight(now) == now - (now % Day)

(* Variant: every segment begins on its own day.                           *)
SegmentStartToday(segs, now) == Midnight(now) + CurrentSegment(segs, now).start

(* When the current content began; a first segment like the last one       *)
(* continues what began the day before.                                    *)
SegmentStart(segs, now) ==
  IF Hit(segs, now) = 1 /\ Len(segs) > 1 /\ Same(Last(segs), Head(segs))
  THEN Midnight(now) - Day + Last(segs).start
  ELSE Midnight(now) + CurrentSegment(segs, now).start
=============================================================================
