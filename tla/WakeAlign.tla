----------------------------- MODULE WakeAlign -----------------------------
(***************************************************************************)
(* When a sleeping device wakes up (firmware/main/wake_align.c): at minute *)
(* 1 or 31 of a local hour.  Times are seconds of the Unix epoch.          *)
(***************************************************************************)
EXTENDS Integers

CONSTANT Offset \* hours the local time is ahead of UTC

ASSUME OffsetAssumption == Offset \in -12 .. 14

Minute == 60
Hour == 3600
HalfHour == 1800
DaySeconds == 86400
Epoch2001 == 1000000000  \* a clock below this was never set

Local(t) == t + Offset * Hour

(* Seconds after local midnight of the next minute 1 or 31. *)
NextInDay(secs) ==
  LET hour == secs \div Hour
      min == (secs \div Minute) % 60
  IN CASE min < 1 -> hour * Hour + Minute
       [] 1 <= min /\ min < 31 -> hour * Hour + 31 * Minute
       [] OTHER -> (hour + 1) * Hour + Minute

(* The minute 1 or 31 after now, before a short sleep is avoided. *)
Target(now) ==
  LET secs == Local(now) % DaySeconds
      midnight == Local(now) - secs
  IN midnight + NextInDay(secs) - Offset * Hour

(* Variant: a boundary too close is moved by the least sleep only.         *)
NextBoundaryMinute(now) ==
  IF Target(now) - now < Minute THEN Target(now) + Minute ELSE Target(now)

(* Variant: a boundary exactly the least sleep away is left out.           *)
NextBoundaryLead(now) ==
  IF Target(now) - now <= Minute THEN Target(now) + HalfHour ELSE Target(now)

(* wake_align_next_boundary: a boundary less than a minute away is skipped. *)
NextBoundary(now) ==
  IF Target(now) - now < Minute THEN Target(now) + HalfHour ELSE Target(now)

(* A time at which a device is meant to wake up.                           *)
OnBeat(t) == Local(t) % HalfHour = Minute
=============================================================================
