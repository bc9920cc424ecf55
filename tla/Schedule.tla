------------------------------ MODULE Schedule ------------------------------
(***************************************************************************)
(* The schedule over time: the console saves it, the clock runs, and       *)
(* whoever renders content asks for the current segment and for the        *)
(* instant its content belongs to.                                         *)
(***************************************************************************)
EXTENDS Slots, FiniteSets

CONSTANTS
  Items,     \* entries of the lists the console or a script may submit
  Requests,  \* such lists
  Legacies,  \* configurations of the three ranges ...
  Default,   \* ... and the one in .env
  MaxSaves,  \* bound: schedules saved
  Horizon    \* bound: days the clock runs

(* What parse_range makes of "from-to": two numbers that are not negative. *)
ASSUME ScheduleAssumption ==
  /\ Requests \subseteq Seq(Items)
  /\ \A c \in Legacies \cup {Default} :
       /\ \A range \in {c.weather, c.photo, c.free} :
            range # NoLabel => range \in Nat \X Nat
       /\ c.weatherOn \in BOOLEAN /\ c.freeOn \in BOOLEAN
  /\ MaxSaves \in Nat /\ Horizon \in Nat \ {0}

VARIABLES
  stored,   \* slot_segments in the runtime configuration, <<>> if not there
  legacy,   \* the three ranges
  entered,  \* history: the request stored comes from
  clock, saves

scheduleVars == <<stored, legacy, entered, clock, saves>>

Segments == Effective(stored, legacy)

ScheduleInit ==
  /\ stored = <<>>
  /\ legacy = Default
  /\ entered = <<>>
  /\ clock = 0
  /\ saves = 0

(* PUT /api/settings with slot_segments; an invalid list is refused.       *)
Save(raw) ==
  /\ saves < MaxSaves
  /\ saves' = saves + 1
  /\ IF Valid(raw)
     THEN stored' = Canonicalize(raw) /\ entered' = raw
     ELSE UNCHANGED <<stored, entered>>
  /\ UNCHANGED <<legacy, clock>>

(* PUT /api/settings with the ranges of the older form.                    *)
SaveLegacy(c) ==
  /\ saves < MaxSaves
  /\ saves' = saves + 1
  /\ legacy' = c
  /\ UNCHANGED <<stored, entered, clock>>

Pass ==
  /\ clock < Horizon * Day - 1
  /\ clock' = clock + 1
  /\ UNCHANGED <<stored, legacy, entered, saves>>

ScheduleNext ==
  \/ \E raw \in Requests : Save(raw)
  \/ \E c \in Legacies : SaveLegacy(c)
  \/ Pass

ScheduleSpec == ScheduleInit /\ [][ScheduleNext]_scheduleVars

-----------------------------------------------------------------------------
(* Properties.                                                             *)

(* canonicalize (sort, merge, cut, merge, drop) against what a list of     *)
(* segments means: at every minute the entry that began last, or, before   *)
(* the first one, the one that began last the day before.  For lists whose *)
(* entries start at different minutes.                                     *)
MeantAt(raw, m) ==
  LET Latest(S) == CHOOSE i \in S : \A j \in S : raw[j].start <= raw[i].start
      begun == {i \in DOMAIN raw : raw[i].start <= m}
  IN Normal(raw[Latest(IF begun # {} THEN begun ELSE DOMAIN raw)])

ShowsWhatWasEntered ==
  (/\ entered # <<>>
   /\ \A i, j \in DOMAIN entered : entered[i].start = entered[j].start => i = j)
  => LET segs == Segments IN
     \A m \in 0 .. Day - 1 : Same(CurrentSegment(segs, m), MeantAt(entered, m))

(* The legacy form likewise: a minute belongs to an enabled range that     *)
(* covers it, across midnight if need be, and to photos if there is none.  *)
Covers(range, m) ==
  /\ range # NoLabel
  /\ IF range[2] <= range[1]
     THEN range[1] <= m \/ m < range[2]
     ELSE range[1] <= m /\ m < range[2]

LegacyAsConfigured ==
  stored = <<>> =>
    LET segs == Segments IN
    \A m \in 0 .. Day - 1 :
      LET on(t) == CASE t = "weather" -> legacy.weatherOn /\ Covers(legacy.weather, m)
                     [] t = "free" -> legacy.freeOn /\ Covers(legacy.free, m)
                     [] t = "photo" -> Covers(legacy.photo, m)
                     [] OTHER -> FALSE
          types == {t \in Types : on(t)}
      IN CurrentSegment(segs, m).type \in (IF types = {} THEN {"photo"} ELSE types)

(* Caches are keyed by segment_start.  While the schedule stays as it is,  *)
(* one start never stands for two contents, and a content of a saved       *)
(* schedule keeps its start as long as it lasts, over midnight too, unless *)
(* it lasts all day.                                                       *)
Continues(segs, t, u) == SegmentStart(segs, t) = SegmentStart(segs, u)
Alike(segs, t, u) == Same(CurrentSegment(segs, t), CurrentSegment(segs, u))

OneContentOneStart ==
  [][UNCHANGED <<stored, legacy>> =>
       LET segs == Segments IN
       /\ Continues(segs, clock, clock') => Alike(segs, clock, clock')
       /\ stored # <<>> /\ Len(segs) > 1 /\ Alike(segs, clock, clock')
            => Continues(segs, clock, clock')]_scheduleVars
=============================================================================
