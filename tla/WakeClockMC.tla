---------------------------- MODULE WakeClockMC ----------------------------
(* Small instances of WakeClock for TLC.                                   *)
EXTENDS WakeClock

(* 2026-01-01 00:00 UTC; the seconds next to the boundaries around local   *)
(* midnight at +8, and to the minute before each of them.                  *)
NewYear == 1767225600
AroundMidnight ==
  {NewYear - 8 * Hour + m * Minute + s : m \in {-30, -29, -1, 0, 1, 30}, s \in {0, 1, 59}}

AllBuilds ==
  {[aligns |-> TRUE, button |-> TRUE, fixed |-> 1800], [aligns |-> FALSE, button |-> FALSE, fixed |-> 1800]}

(* A second, and a round longer than half an hour.                         *)
Durations == {1, 1850}
AnyAge == {-1, 0, 15}
=============================================================================
