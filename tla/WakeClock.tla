----------------------------- MODULE WakeClock -----------------------------
(***************************************************************************)
(* The clock a sleeping device sets its alarm by.  device_client.c keeps a *)
(* base in RTC memory and adds what esp_timer has counted; the heartbeat's *)
(* server_time sets the base, and maybe_deep_sleep (display.c) asks        *)
(* wake_align how long to sleep.  esp_timer counts from 0 in every boot,   *)
(* a wake-up from deep sleep included; RTC memory survives deep sleep, may *)
(* survive a restart, and does not survive a loss of power.  Sleeps end    *)
(* when the RTC timer says so: its own drift is left out.                  *)
(***************************************************************************)
EXTENDS WakeAlign

CONSTANTS
  Power,     \* times at which the device may first get power
  Builds,    \* menuconfig: [aligns, button : BOOLEAN, fixed : seconds]
  Awake,     \* seconds a part of a round may take
  Age,       \* age of the server's time when the device sets its clock by
             \* it; -1, for both count whole seconds
  MaxBoots   \* bound: boots

ASSUME ClockAssumption ==
  /\ Power \subseteq Int
  /\ \A t \in Power : t > Epoch2001 + Hour
  /\ Builds \subseteq [aligns : BOOLEAN, button : BOOLEAN, fixed : Int]
  /\ \A b \in Builds : b.fixed \in Minute .. DaySeconds
  /\ Awake \subseteq Nat \ {0}
  /\ Age \subseteq -1 .. 15
  /\ MaxBoots \in Nat

VARIABLES
  now,       \* the true time
  build,     \* the choices this firmware was built with
  booted,    \* when esp_timer began to count
  base,      \* s_wall_base_s
  valid,     \* s_wall_valid
  pc,        \* "awake" or "asleep"
  reported,  \* this boot's heartbeat was answered
  alarm,     \* when the RTC timer ends the sleep
  boots

vars == <<now, build, booted, base, valid, pc, reported, alarm, boots>>

(* Variant: what esp_timer has counted is not added.                       *)
WallBare(t) == base

(* device_client_wall_time *)
Wall(t) == base + (t - booted)

TypeOK ==
  /\ now \in Int /\ booted \in Int /\ booted <= now
  /\ build \in Builds
  /\ base \in Int /\ valid \in BOOLEAN
  /\ pc \in {"awake", "asleep"} /\ reported \in BOOLEAN
  /\ alarm \in Int /\ (pc = "asleep" => alarm > now)
  /\ boots \in 0 .. MaxBoots

Init ==
  /\ now \in Power
  /\ build \in Builds
  /\ booted = now
  /\ base = 0 /\ valid = FALSE
  /\ pc = "awake" /\ reported = FALSE
  /\ alarm = 0
  /\ boots = 0

Boot(t) ==
  /\ boots < MaxBoots
  /\ boots' = boots + 1
  /\ now' = t /\ booted' = t
  /\ pc' = "awake" /\ reported' = FALSE
  /\ UNCHANGED <<build, alarm>>

(* Variant: the base is the server's time itself.                          *)
HeartbeatRaw(took, age) ==
  /\ pc = "awake" /\ ~reported
  /\ now' = now + took
  /\ base' = now' - age
  /\ valid' = TRUE /\ reported' = TRUE
  /\ UNCHANGED <<build, booted, pc, alarm, boots>>

(* The heartbeat's answer carries the server's time.                       *)
Heartbeat(took, age) ==
  /\ pc = "awake" /\ ~reported
  /\ now' = now + took
  /\ base' = (now' - age) - (now' - booted)
  /\ valid' = TRUE /\ reported' = TRUE
  /\ UNCHANGED <<build, booted, pc, alarm, boots>>

(* wake_align_next_wake_us_at, in seconds; -1 if there is no alignment.    *)
AlignedSleep(wall) ==
  IF ~build.aligns \/ wall < Epoch2001 THEN -1 ELSE NextBoundary(wall) - wall

SleepLength(t) ==
  IF valid /\ AlignedSleep(Wall(t)) > 0 THEN AlignedSleep(Wall(t)) ELSE build.fixed

(* The round is over, with a heartbeat or without one.                     *)
Sleep(took) ==
  /\ pc = "awake"
  /\ now' = now + took
  /\ pc' = "asleep"
  /\ alarm' = now' + SleepLength(now')
  /\ UNCHANGED <<build, booted, base, valid, reported, boots>>

TimerWake ==
  /\ pc = "asleep"
  /\ Boot(alarm)
  /\ UNCHANGED <<base, valid>>

ButtonWake(after) ==
  /\ pc = "asleep" /\ build.button
  /\ now + after < alarm
  /\ Boot(now + after)
  /\ UNCHANGED <<base, valid>>

(* A new firmware, a pushed WiFi configuration or a panic restarts the     *)
(* device; whether RTC memory is loaded anew is the bootloader's choice.   *)
Restart(after) ==
  /\ pc = "awake"
  /\ Boot(now + after)
  /\ \/ UNCHANGED <<base, valid>>
     \/ base' = 0 /\ valid' = FALSE

PowerLoss(after) ==
  /\ Boot(now + after)
  /\ base' = 0 /\ valid' = FALSE

Next ==
  \/ \E took \in Awake :
       \/ \E age \in Age : Heartbeat(took, age)
       \/ Sleep(took) \/ ButtonWake(took) \/ Restart(took) \/ PowerLoss(took)
  \/ TimerWake

Spec == Init /\ [][Next]_vars

-----------------------------------------------------------------------------
(* Properties.                                                             *)

(* The boundary is the first minute 1 or 31 that is a minute or more away, *)
(* at every second of the hour and over midnight (wake_align.h).           *)
BoundaryIsNext ==
  /\ OnBeat(NextBoundary(now))
  /\ NextBoundary(now) >= now + Minute
  /\ \A t \in now + Minute .. NextBoundary(now) - 1 : ~OnBeat(t)

(* Through sleeps, restarts and failed heartbeats the device's clock may   *)
(* fall behind the true time but never gets ahead of it.                   *)
ClockNeverAhead == valid => Wall(now) <= now + 1

(* After an answered heartbeat the device wakes up at minute 1 or 31, late *)
(* by no more than the age of that answer, however old its clock was       *)
(* before.                                                                 *)
WakesOnTime ==
  pc = "asleep" /\ reported /\ build.aligns
    => \E age \in Age : OnBeat(alarm - age)

(* A device whose clock was set in a boot that began on time, and that was *)
(* woken on time, stays on time however many heartbeats fail: its clock    *)
(* then falls behind by whole half hours.                                  *)
KeepsBeat ==
  pc = "asleep" /\ valid /\ build.aligns /\ OnBeat(base) /\ OnBeat(booted)
    => OnBeat(alarm)

(* No sleep is shorter than a minute, and none is longer than 31 minutes   *)
(* or the fixed interval, whatever the clock says.                         *)
LongestSleep == IF build.fixed > 1859 THEN build.fixed ELSE 1859

SleepsInRange ==
  [][pc = "awake" /\ pc' = "asleep" => alarm' - now' \in Minute .. LongestSleep]_vars
=============================================================================
