---------------------------- MODULE DailyPickMC ----------------------------
(* Small instances of DailyPick for TLC.                                   *)
EXTENDS DailyPick

CONSTANTS baby, trip, p1, p2, p3, p4

(* Three photos of one category, the best of them analyzed, and one of     *)
(* another whose anniversary is the second day.                            *)
Albums == [p \in {p1, p2, p3, p4} |-> IF p = p3 THEN trip ELSE baby]
Days == [p \in {p1, p2, p3, p4} |-> IF p = p3 THEN {2} ELSE {}]
Ranks == [p \in {p1, p2, p3, p4} |->
            CASE p = p1 -> 1 [] p = p2 -> 2 [] p = p3 -> 3 [] p = p4 -> 4]

Segment(start, type, category) ==
  [start |-> start, type |-> type, module |-> NoLabel, category |-> category]

(* A category that goes on over midnight; a category, the whole library    *)
(* and a calendar.                                                         *)
OverMidnight ==
  <<Segment(0, "photo", baby),
    Segment(1, "weather", NoLabel),
    Segment(2, "photo", baby)>>
ThreeKinds ==
  <<Segment(0, "photo", trip),
    Segment(1, "photo", NoLabel),
    Segment(2, "calendar", NoLabel)>>

BothSchedules == {OverMidnight, ThreeKinds}

\* A crash beside one act of the owner, or two acts without one.
MCOneCrash == crashes = 0 \/ owner <= 1
=============================================================================
