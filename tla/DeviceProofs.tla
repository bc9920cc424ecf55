---------------------------- MODULE DeviceProofs ----------------------------
(* Proofs about the device between its rounds: its alarm clock (WakeAlign,  *)
(* WakeClock), for every time and time zone, and its firmware (Ota), for    *)
(* every set of images and publications and any number of failures.         *)
EXTENDS WakeClock, Ota, TLAPS

LEMMA LocalInt == ASSUME NEW t \in Int PROVE Local(t) \in Int
BY OffsetAssumption DEF Local, Hour

(* The hour and the minute of a second of the day.                         *)
LEMMA HourMinute ==
  ASSUME NEW secs \in Int, NEW hour, NEW min,
         hour = secs \div 3600, min = (secs \div 60) % 60
  PROVE  /\ hour \in Int /\ min \in 0 .. 59
         /\ secs >= hour * 3600 + min * 60
         /\ secs < hour * 3600 + min * 60 + 60
OBVIOUS

(* A day is a whole number of half hours, and so is an hour.               *)
LEMMA WholeDays ==
  ASSUME NEW q \in Int, NEW y \in Int, y % 1800 = 60
  PROVE  (q * 86400 + y) % 1800 = 60
OBVIOUS

LEMMA WholeHours ==
  ASSUME NEW h \in Int
  PROVE  /\ (h * 3600 + 60) % 1800 = 60
         /\ (h * 3600 + 1860) % 1800 = 60
         /\ ((h + 1) * 3600 + 60) % 1800 = 60
OBVIOUS

LEMMA HalfHourOn ==
  ASSUME NEW y \in Int, y % 1800 = 60
  PROVE  (y + 1800) % 1800 = 60
OBVIOUS

(* Within a day, the next minute 1 or 31 is on the beat, and ahead by more *)
(* than nothing and by no more than half an hour.                          *)
LEMMA NextInDayBeat ==
  ASSUME NEW secs \in Int
  PROVE  /\ NextInDay(secs) \in Int
         /\ NextInDay(secs) % 1800 = 60
         /\ secs < NextInDay(secs) /\ NextInDay(secs) <= secs + 1800
<1>1. PICK hour, min : hour = secs \div 3600 /\ min = (secs \div 60) % 60
  OBVIOUS
<1>2. /\ hour \in Int /\ min \in 0 .. 59
      /\ secs >= hour * 3600 + min * 60
      /\ secs < hour * 3600 + min * 60 + 60
  BY <1>1, HourMinute
<1>3. CASE min < 1
  <2>1. NextInDay(secs) = hour * 3600 + 60
    BY <1>1, <1>2, <1>3 DEF NextInDay, Minute, Hour
  <2>2. secs < NextInDay(secs) /\ NextInDay(secs) <= secs + 1800
    BY <2>1, <1>2, <1>3
  <2> QED BY <2>1, <2>2, <1>2, WholeHours
<1>4. CASE 1 <= min /\ min < 31
  <2>1. NextInDay(secs) = hour * 3600 + 1860
    BY <1>1, <1>2, <1>4 DEF NextInDay, Minute, Hour
  <2>2. secs < NextInDay(secs) /\ NextInDay(secs) <= secs + 1800
    BY <2>1, <1>2, <1>4
  <2> QED BY <2>1, <2>2, <1>2, WholeHours
<1>5. CASE min >= 31
  <2>1. NextInDay(secs) = (hour + 1) * 3600 + 60
    BY <1>1, <1>2, <1>5 DEF NextInDay, Minute, Hour
  <2>2. secs < NextInDay(secs) /\ NextInDay(secs) <= secs + 1800
    BY <2>1, <1>2, <1>5
  <2> QED BY <2>1, <2>2, <1>2, WholeHours
<1> QED BY <1>2, <1>3, <1>4, <1>5

(* The next minute 1 or 31 of the clock, over midnight too.                *)
LEMMA TargetBeat ==
  ASSUME NEW t \in Int
  PROVE  /\ Target(t) \in Int /\ OnBeat(Target(t))
         /\ t < Target(t) /\ Target(t) <= t + 1800
<1>1. PICK l, secs, day, next :
        /\ l = Local(t) /\ secs = l % 86400 /\ day = l \div 86400
        /\ next = NextInDay(secs)
  OBVIOUS
<1>2. l \in Int /\ Offset \in Int /\ l = t + Offset * 3600
  BY <1>1, LocalInt, OffsetAssumption DEF Local, Hour
<1>3. secs \in Int /\ day \in Int /\ l - secs = day * 86400
  <2>1. l \in Int /\ secs = l % 86400 /\ day = l \div 86400
    BY <1>1, <1>2
  <2> HIDE <1>1, <1>2
  <2> QED BY <2>1
<1>4. next \in Int /\ next % 1800 = 60 /\ secs < next /\ next <= secs + 1800
  BY <1>1, <1>3, NextInDayBeat
<1>5. Target(t) = l - secs + next - Offset * 3600
  BY <1>1 DEF Target, Hour, DaySeconds
<1>6. Target(t) \in Int /\ Target(t) - t = next - secs
  BY <1>2, <1>3, <1>4, <1>5
<1>7. Local(Target(t)) = day * 86400 + next
  BY <1>2, <1>3, <1>4, <1>5 DEF Local, Hour
<1>8. OnBeat(Target(t))
  BY <1>3, <1>4, <1>7, WholeDays DEF OnBeat, HalfHour, Minute
<1> QED BY <1>3, <1>4, <1>6, <1>8

LEMMA BeatAgain ==
  ASSUME NEW g \in Int, OnBeat(g)
  PROVE  OnBeat(g + 1800)
<1>1. PICK l : l = Local(g) /\ l \in Int
  BY LocalInt
<1>2. Local(g + 1800) = l + 1800
  BY <1>1, OffsetAssumption DEF Local, Hour
<1>3. l % 1800 = 60
  BY <1>1 DEF OnBeat, HalfHour, Minute
<1>4. (l + 1800) % 1800 = 60
  BY <1>1, <1>3, HalfHourOn
<1> QED BY <1>2, <1>4 DEF OnBeat, HalfHour, Minute

(* The time chosen is on the beat, a minute to 31 minutes ahead.           *)
LEMMA BoundaryBeat ==
  ASSUME NEW t \in Int
  PROVE  /\ NextBoundary(t) \in Int /\ OnBeat(NextBoundary(t))
         /\ t + 60 <= NextBoundary(t) /\ NextBoundary(t) <= t + 1859
<1>1. PICK g \in Int : g = Target(t) /\ OnBeat(g) /\ t < g /\ g <= t + 1800
  BY TargetBeat
<1>2. CASE g - t < 60
  <2>1. NextBoundary(t) = g + 1800
    BY <1>1, <1>2 DEF NextBoundary, Minute, HalfHour
  <2> QED BY <1>1, <1>2, <2>1, BeatAgain
<1>3. CASE ~(g - t < 60)
  <2>1. NextBoundary(t) = g
    BY <1>1, <1>3 DEF NextBoundary, Minute
  <2> QED BY <1>1, <1>3, <2>1
<1> QED BY <1>2, <1>3

(* Two times on the beat are half an hour apart or more.                   *)
LEMMA BeatsApart ==
  ASSUME NEW s \in Int, NEW g \in Int, OnBeat(s), OnBeat(g), s < g
  PROVE  s + 1800 <= g
<1>1. PICK k, l : k = Local(s) /\ l = Local(g) /\ k \in Int /\ l \in Int /\ g - s = l - k
  BY LocalInt, OffsetAssumption DEF Local, Hour
<1>2. k % 1800 = 60 /\ l % 1800 = 60 /\ k < l
  BY <1>1 DEF OnBeat, HalfHour, Minute
<1>3. k + 1800 <= l
  <2>1. k \in Int /\ l \in Int
    BY <1>1
  <2> QED BY <1>2, <2>1
<1> QED BY <1>1, <1>3

(* BoundaryIsNext at any time, and not only at the times a run reaches.    *)
LEMMA NextOnBeat ==
  ASSUME NEW t \in Int, NEW s \in Int, t + 60 <= s, s < NextBoundary(t)
  PROVE  ~OnBeat(s)
BY BoundaryBeat, BeatsApart

-----------------------------------------------------------------------------
(* The inductive invariant.                                                *)

LEMMA AlignedLength ==
  ASSUME TypeOK, NEW w \in Int
  PROVE  \/ ~build.aligns /\ AlignedSleep(w) = -1
         \/ w < Epoch2001 /\ AlignedSleep(w) = -1
         \/ AlignedSleep(w) = NextBoundary(w) - w
BY DEF AlignedSleep

LEMMA SleepSound ==
  ASSUME TypeOK, NEW t \in Int
  PROVE  /\ SleepLength(t) \in Int
         /\ 60 <= SleepLength(t) /\ SleepLength(t) <= LongestSleep
<1>1. build.fixed \in Int /\ 60 <= build.fixed
  BY ClockAssumption DEF TypeOK, Minute
<1>2. PICK w : w = Wall(t) /\ w \in Int
  BY DEF TypeOK, Wall
<1>3. CASE valid /\ AlignedSleep(w) > 0
  <2>1. SleepLength(t) = AlignedSleep(w)
    BY <1>2, <1>3 DEF SleepLength
  <2>2. AlignedSleep(w) = NextBoundary(w) - w
    BY <1>2, <1>3, AlignedLength
  <2>3. PICK b \in Int : b = NextBoundary(w) /\ w + 60 <= b /\ b <= w + 1859
    BY <1>2, BoundaryBeat
  <2> QED BY <1>1, <1>2, <2>1, <2>2, <2>3 DEF LongestSleep
<1>4. CASE ~(valid /\ AlignedSleep(w) > 0)
  <2>1. SleepLength(t) = build.fixed
    BY <1>2, <1>4 DEF SleepLength
  <2> QED BY <1>1, <2>1 DEF LongestSleep
<1> QED BY <1>3, <1>4

(* Valid time was set by a heartbeat: it is a time after 2001, and not     *)
(* ahead of the boot it was set in or of a later one.                      *)
ClockSet ==
  /\ now > Epoch2001 + 3600 /\ booted > Epoch2001 + 3600
  /\ valid => base > Epoch2001 /\ base <= booted + 1
  /\ reported => valid /\ \E age \in Age : base = booted - age

(* While asleep, the alarm is the one maybe_deep_sleep set.                *)
AlarmSet == pc = "asleep" => alarm = now + SleepLength(now)

IInv == TypeOK /\ ClockSet /\ AlarmSet

LEMMA InitIInv == Init => IInv
<1> SUFFICES ASSUME Init PROVE IInv
  OBVIOUS
<1>1. now \in Int /\ now > Epoch2001 + 3600 /\ MaxBoots \in Nat
  BY ClockAssumption DEF Init, Hour
<1>2. booted \in Int /\ booted <= now /\ base \in Int /\ alarm \in Int
      /\ boots \in 0 .. MaxBoots /\ booted > Epoch2001 + 3600
  BY <1>1 DEF Init
<1>3. /\ build \in Builds /\ valid = FALSE /\ reported = FALSE
      /\ pc = "awake" /\ pc # "asleep"
  BY DEF Init
<1>4. TypeOK
  <2>1. valid \in BOOLEAN /\ reported \in BOOLEAN /\ pc \in {"awake", "asleep"}
    BY <1>3
  <2>2. now \in Int /\ booted \in Int /\ booted <= now /\ build \in Builds
        /\ base \in Int /\ alarm \in Int /\ boots \in 0 .. MaxBoots
    BY <1>1, <1>2, <1>3
  <2>3. pc = "asleep" => alarm > now
    BY <1>3
  <2> QED BY <2>1, <2>2, <2>3 DEF TypeOK
<1> QED BY <1>1, <1>2, <1>3, <1>4 DEF IInv, ClockSet, AlarmSet

(* Every boot begins with a new count and without a report.                *)
LEMMA BootIInv ==
  ASSUME IInv, NEW t \in Int, Boot(t), t >= now,
         \/ base' = base /\ valid' = valid
         \/ base' = 0 /\ valid' = FALSE
  PROVE  IInv'
<1>1. TypeOK'
  <2>1. /\ now' \in Int /\ booted' \in Int /\ booted' <= now' /\ base' \in Int
        /\ alarm' \in Int /\ build' \in Builds
    BY DEF IInv, TypeOK, Boot
  <2>2. boots' \in 0 .. MaxBoots
    BY ClockAssumption DEF IInv, TypeOK, Boot
  <2>3. pc' = "awake" /\ reported' = FALSE
    BY DEF Boot
  <2>4. valid' \in BOOLEAN
    BY DEF IInv, TypeOK
  <2> QED BY <2>1, <2>2, <2>3, <2>4 DEF TypeOK
<1>2. ClockSet'
  BY ClockAssumption DEF IInv, TypeOK, ClockSet, Boot, Epoch2001
<1>3. AlarmSet'
  BY DEF Boot, AlarmSet
<1> QED BY <1>1, <1>2, <1>3 DEF IInv

LEMMA StepIInv == IInv /\ [Next]_vars => IInv'
<1> SUFFICES ASSUME IInv, [Next]_vars PROVE IInv'
  OBVIOUS
<1>0. /\ now \in Int /\ booted \in Int /\ base \in Int /\ alarm \in Int
      /\ booted <= now /\ (pc = "asleep" => alarm > now)
  BY DEF IInv, TypeOK
<1>1. ASSUME NEW took \in Awake, NEW age \in Age, Heartbeat(took, age)
      PROVE  IInv'
  <2>1. took \in Int /\ took > 0 /\ age \in Int /\ -1 <= age /\ age <= 15
    BY ClockAssumption
  <2>2. base' = booted - age
    BY <1>0, <1>1, <2>1 DEF Heartbeat
  <2>3. TypeOK'
    BY <1>0, <1>1, <2>1, <2>2 DEF IInv, TypeOK, Heartbeat
  <2>4. ClockSet'
    BY <1>0, <1>1, <2>1, <2>2 DEF IInv, ClockSet, Heartbeat, Epoch2001
  <2>5. AlarmSet'
    BY <1>1 DEF AlarmSet, Heartbeat
  <2> QED BY <2>3, <2>4, <2>5 DEF IInv
<1>2. ASSUME NEW took \in Awake, Sleep(took)
      PROVE  IInv'
  <2>1. took \in Int /\ took > 0
    BY ClockAssumption
  <2>2. /\ now' \in Int /\ now' > now
        /\ alarm' = now' + SleepLength(now')
        /\ pc' = "asleep"
        /\ UNCHANGED <<build, booted, base, valid, reported, boots>>
    BY <1>0, <1>2, <2>1 DEF Sleep
  <2>3. SleepLength(now') \in Int /\ 60 <= SleepLength(now')
    BY <2>2, SleepSound DEF IInv
  <2>4. TypeOK'
    BY <1>0, <2>2, <2>3 DEF IInv, TypeOK
  <2>5. ClockSet'
    BY <1>0, <2>2 DEF IInv, ClockSet, Epoch2001
  <2>6. AlarmSet'
    BY <2>2 DEF AlarmSet, SleepLength, AlignedSleep, Wall
  <2> QED BY <2>4, <2>5, <2>6 DEF IInv
<1>3. CASE TimerWake
  BY <1>0, <1>3, BootIInv DEF TimerWake
<1>4. ASSUME NEW took \in Awake, ButtonWake(took)
      PROVE  IInv'
  <2>1. now + took \in Int /\ now + took >= now
    BY <1>0, ClockAssumption
  <2> QED BY <1>4, <2>1, BootIInv DEF ButtonWake
<1>5. ASSUME NEW took \in Awake, Restart(took)
      PROVE  IInv'
  <2>1. now + took \in Int /\ now + took >= now
    BY <1>0, ClockAssumption
  <2> QED BY <1>5, <2>1, BootIInv DEF Restart
<1>6. ASSUME NEW took \in Awake, PowerLoss(took)
      PROVE  IInv'
  <2>1. now + took \in Int /\ now + took >= now
    BY <1>0, ClockAssumption
  <2> QED BY <1>6, <2>1, BootIInv DEF PowerLoss
<1>7. CASE UNCHANGED vars
  BY <1>7 DEF vars, IInv, TypeOK, ClockSet, AlarmSet, SleepLength, AlignedSleep, Wall
<1> QED BY <1>1, <1>2, <1>3, <1>4, <1>5, <1>6, <1>7 DEF Next

LEMMA Invariance == Spec => []IInv
BY InitIInv, StepIInv, PTL DEF Spec

(* Every time and flag of the device keeps its type, and an alarm lies     *)
(* ahead: TypeOK holds in every reachable state.                           *)
THEOREM TypeCorrect == Spec => []TypeOK
<1>1. IInv => TypeOK
  BY DEF IInv
<1> QED BY <1>1, Invariance, PTL

(* The time chosen is the first minute 1 or 31 that is a minute or more    *)
(* away, at every time a device can read (wake_align_next_boundary).       *)
THEOREM AlwaysNextBoundary == Spec => []BoundaryIsNext
<1>1. IInv => BoundaryIsNext
  <2> SUFFICES ASSUME IInv PROVE BoundaryIsNext
    OBVIOUS
  <2>1. now \in Int
    BY DEF IInv, TypeOK
  <2>2. PICK b \in Int : b = NextBoundary(now) /\ OnBeat(b) /\ now + 60 <= b
    BY <2>1, BoundaryBeat
  <2>3. ASSUME NEW t \in now + 60 .. b - 1 PROVE ~OnBeat(t)
    <3>1. t \in Int /\ now + 60 <= t /\ t < NextBoundary(now)
      BY <2>1, <2>2, <2>3
    <3> QED BY <2>1, <3>1, NextOnBeat
  <2> QED BY <2>1, <2>2, <2>3 DEF BoundaryIsNext, Minute
<1> QED BY <1>1, Invariance, PTL

(* The clock a device keeps never gets ahead of the true time, whatever    *)
(* sleeps, restarts and failed heartbeats come between.                    *)
THEOREM NeverAhead == Spec => []ClockNeverAhead
<1>1. IInv => ClockNeverAhead
  BY DEF IInv, TypeOK, ClockSet, ClockNeverAhead, Wall
<1> QED BY <1>1, Invariance, PTL

(* An alarm set with a valid clock is on the beat of that clock.           *)
LEMMA AlarmOnBeat ==
  ASSUME IInv, pc = "asleep", valid, build.aligns
  PROVE  alarm \in Int /\ OnBeat(alarm + base - booted)
<1>1. PICK w \in Int : w = Wall(now) /\ w = base + (now - booted)
  BY DEF IInv, TypeOK, Wall
<1>2. /\ now \in Int /\ base \in Int /\ booted \in Int /\ alarm \in Int
      /\ w >= Epoch2001
  BY <1>1 DEF IInv, TypeOK, ClockSet, Epoch2001
<1>3. AlignedSleep(w) = NextBoundary(w) - w
  BY <1>2 DEF AlignedSleep, Epoch2001
<1>4. PICK b \in Int : b = NextBoundary(w) /\ OnBeat(b) /\ w + 60 <= b
  BY BoundaryBeat
<1>5. alarm = now + (b - w)
  BY <1>1, <1>2, <1>3, <1>4 DEF IInv, AlarmSet, SleepLength
<1>6. alarm + base - booted = b
  BY <1>1, <1>2, <1>5
<1> QED BY <1>2, <1>4, <1>6

LEMMA BeatShift ==
  ASSUME NEW a \in Int, NEW b \in Int, NEW c \in Int,
         OnBeat(a + b - c), OnBeat(b), OnBeat(c)
  PROVE  OnBeat(a)
<1>1. PICK k, l, m : /\ k = Local(a) /\ l = Local(b) /\ m = Local(c)
                     /\ k \in Int /\ l \in Int /\ m \in Int
  BY LocalInt
<1>2. Local(a + b - c) = k + l - m
  BY <1>1, OffsetAssumption DEF Local, Hour
<1>3. l % 1800 = 60 /\ m % 1800 = 60 /\ (k + l - m) % 1800 = 60
  BY <1>1, <1>2 DEF OnBeat, HalfHour, Minute
<1>4. k % 1800 = 60
  <2>1. k \in Int /\ l \in Int /\ m \in Int
    BY <1>1
  <2> QED BY <1>3, <2>1
<1> QED BY <1>1, <1>4 DEF OnBeat, HalfHour, Minute

(* A device set right in a boot that began on time, and woken on time,     *)
(* stays on time through any number of failed heartbeats.                  *)
THEOREM BeatKept == Spec => []KeepsBeat
<1>1. IInv => KeepsBeat
  <2> SUFFICES ASSUME IInv, pc = "asleep", valid, build.aligns,
                      OnBeat(base), OnBeat(booted)
               PROVE  OnBeat(alarm)
    BY DEF KeepsBeat
  <2>1. base \in Int /\ booted \in Int
    BY DEF IInv, TypeOK
  <2> QED BY <2>1, AlarmOnBeat, BeatShift
<1> QED BY <1>1, Invariance, PTL

(* After an answered heartbeat the device wakes up at minute 1 or 31, late *)
(* by the age of that answer and by nothing else.                          *)
THEOREM WakeOnTime == Spec => []WakesOnTime
<1>1. IInv => WakesOnTime
  <2> SUFFICES ASSUME IInv, pc = "asleep", reported, build.aligns
               PROVE  \E age \in Age : OnBeat(alarm - age)
    BY DEF WakesOnTime
  <2>1. PICK age \in Age : valid /\ base = booted - age
    BY DEF IInv, ClockSet
  <2>2. alarm \in Int /\ age \in Int /\ booted \in Int
    BY <2>1, AlarmOnBeat, ClockAssumption DEF IInv, TypeOK
  <2>3. alarm + base - booted = alarm - age
    BY <2>1, <2>2
  <2> QED BY <2>1, <2>3, AlarmOnBeat
<1> QED BY <1>1, Invariance, PTL

(* No sleep is shorter than a minute, and none is longer than 31 minutes   *)
(* or the fixed interval, whatever the clock says (maybe_deep_sleep).      *)
THEOREM SleepInRange == Spec => SleepsInRange
<1>1. IInv /\ [Next]_vars
        => [pc = "awake" /\ pc' = "asleep" => alarm' - now' \in Minute .. LongestSleep]_vars
  <2> SUFFICES ASSUME IInv, Next, pc = "awake", pc' = "asleep"
               PROVE  alarm' - now' \in Minute .. LongestSleep
    OBVIOUS
  <2>1. PICK took \in Awake : Sleep(took)
    BY DEF Next, Heartbeat, TimerWake, ButtonWake, Restart, PowerLoss, Boot
  <2>2. now' \in Int /\ alarm' = now' + SleepLength(now')
    BY <2>1, ClockAssumption DEF Sleep, IInv, TypeOK
  <2>3. PICK l \in Int : l = SleepLength(now') /\ 60 <= l /\ l <= LongestSleep
    BY <2>2, SleepSound DEF IInv
  <2>4. LongestSleep \in Int
    BY ClockAssumption DEF LongestSleep, IInv, TypeOK
  <2> QED BY <2>2, <2>3, <2>4 DEF Minute
<1> QED BY <1>1, Invariance, PTL DEF Spec, SleepsInRange

-----------------------------------------------------------------------------
(* The firmware update.                                                     *)

LEMMA Partitions ==
    ASSUME NEW n \in Parts
    PROVE  Other(n) \in Parts /\ Other(n) # n /\ Other(Other(n)) = n
BY DEF Parts, Other

\* A round that downloads has a label to ask for, and wants a whole image.
Wanted == /\ stage = "begin" => latest \in Labels
          /\ stage \in {"begin", "download", "switch"} => want \in Images
\* The hash was compared: the partition to switch to holds the image asked for.
Arrived == stage = "switch" => part[Other(run)] = want
\* What runs is what was booted, and a round runs a confirmed image only.
Running == /\ stage # "off" => run = boot
           /\ stage = "start" => mark # "new"
           /\ stage \notin {"off", "start"} => mark = "valid"

OtaIInv == OtaTypeOK /\ Wanted /\ Arrived /\ Running /\ AlwaysBoots

LEMMA OtaInitIInv == OtaInit => OtaIInv
<1> SUFFICES ASSUME OtaInit PROVE OtaIInv
    OBVIOUS
<1>1. PICK i \in Starts : part = [n \in Parts |-> IF n = 0 THEN i ELSE Torn]
    BY DEF OtaInit
<1>2. part \in [Parts -> Images \cup {Torn}] /\ part[0] \in Starts
    BY <1>1, OtaAssumption DEF Parts
<1>3. file \in [Labels -> Images \cup {Nothing}] /\ row \in [Labels -> Images \cup {Nothing}]
    BY DEF OtaInit
<1>4. 0 \in 0..MaxUploads /\ 0 \in 0..MaxFaults
    BY OtaAssumption
<1>5. OtaTypeOK
    BY <1>2, <1>3, <1>4 DEF OtaInit, OtaTypeOK, Parts
<1>6. Wanted /\ Arrived /\ Running
    BY DEF OtaInit, Wanted, Arrived, Running
<1>7. AlwaysBoots
    BY <1>2 DEF OtaInit, AlwaysBoots
<1> QED BY <1>5, <1>6, <1>7 DEF OtaIInv

(* The server's steps change no partition and no flag of the device.        *)
LEMMA UploadIInv ==
    ASSUME OtaIInv, NEW l \in Labels, NEW i \in Images, Upload(l, i) \/ UploadCut(l, i)
    PROVE  OtaIInv'
<1> USE OtaAssumption
<1>1. UNCHANGED <<part, boot, mark, run, stage, want, source>>
    BY DEF Upload, UploadCut
<1>2. got' \in Images \cup {Nothing, Torn}
    BY DEF OtaIInv, OtaTypeOK, Upload, UploadCut, SendingAnother
<1>3. /\ file' \in [Labels -> Images \cup {Nothing}]
      /\ row' \in [Labels -> Images \cup {Nothing}]
      /\ latest' \in Labels \cup {Nothing}
      /\ latest' # Nothing => row'[latest'] \in Images /\ file'[latest'] \in Images
      /\ latest \in Labels => latest' \in Labels
    BY DEF OtaIInv, OtaTypeOK, Upload, UploadCut
<1>4. uploads' \in 0..MaxUploads /\ faults' \in 0..MaxFaults
    BY DEF OtaIInv, OtaTypeOK, Upload, UploadCut, Fault
<1>5. OtaTypeOK'
    BY <1>1, <1>2, <1>3, <1>4 DEF OtaIInv, OtaTypeOK
<1>6. Wanted' /\ Arrived' /\ Running' /\ AlwaysBoots'
    BY <1>1, <1>3 DEF OtaIInv, Wanted, Arrived, Running, AlwaysBoots
<1> QED BY <1>5, <1>6 DEF OtaIInv

LEMMA OtaNextIInv == OtaIInv /\ [OtaNext]_otaVars => OtaIInv'
<1> SUFFICES ASSUME OtaIInv, [OtaNext]_otaVars PROVE OtaIInv'
    OBVIOUS
<1> USE OtaAssumption
<1>0. /\ Other(run) \in Parts /\ Other(run) # run /\ Other(Other(run)) = run
      /\ Other(boot) \in Parts /\ Other(boot) # boot /\ Other(Other(boot)) = boot
    BY Partitions DEF OtaIInv, OtaTypeOK
<1>1. ASSUME NEW l \in Labels, NEW i \in Images, Upload(l, i) \/ UploadCut(l, i)
      PROVE  OtaIInv'
    BY <1>1, UploadIInv
<1>2. CASE BootUp
    <2>1. OtaTypeOK'
        BY <1>0, <1>2 DEF OtaIInv, OtaTypeOK, BootUp, server
    <2>2. Wanted' /\ Arrived' /\ Running'
        BY <1>2 DEF OtaIInv, OtaTypeOK, BootUp, Wanted, Arrived, Running
    <2>3. AlwaysBoots'
        BY <1>0, <1>2 DEF OtaIInv, OtaTypeOK, BootUp, AlwaysBoots
    <2> QED BY <2>1, <2>2, <2>3 DEF OtaIInv
<1>3. CASE Confirm
    BY <1>0, <1>3 DEF OtaIInv, OtaTypeOK, Confirm, server, Wanted, Arrived, Running, AlwaysBoots
<1>4. CASE CrashAtStart
    BY <1>4 DEF OtaIInv, OtaTypeOK, CrashAtStart, server, Wanted, Arrived, Running, AlwaysBoots
<1>5. CASE Check
    BY <1>5 DEF OtaIInv, OtaTypeOK, Check, Offered, server, Wanted, Arrived, Running, AlwaysBoots
<1>6. CASE Begin
    <2>1. latest \in Labels /\ file[latest] \in Images \cup {Nothing}
        BY <1>6 DEF OtaIInv, OtaTypeOK, Begin, Wanted
    <2>2. part' \in [Parts -> Images \cup {Torn}] /\ part'[run] = part[run]
        BY <1>0, <1>6 DEF OtaIInv, OtaTypeOK, Begin
    <2>3. OtaTypeOK'
        BY <1>6, <2>1, <2>2 DEF OtaIInv, OtaTypeOK, Begin, server
    <2>4. Wanted' /\ Arrived' /\ Running' /\ AlwaysBoots'
        BY <1>6, <2>2 DEF OtaIInv, Begin, Wanted, Arrived, Running, AlwaysBoots
    <2> QED BY <2>3, <2>4 DEF OtaIInv
<1>7. CASE Arrives
    <2>1. want \in Images
        BY <1>7 DEF OtaIInv, Arrives, Wanted
    <2>2. part' \in [Parts -> Images \cup {Torn}] /\ part'[run] = part[run]
        BY <1>0, <1>7, <2>1 DEF OtaIInv, OtaTypeOK, Arrives
    <2>3. OtaTypeOK'
        BY <1>7, <2>2 DEF OtaIInv, OtaTypeOK, Arrives, server
    <2>4. Arrived'
        BY <1>0, <1>7, <2>1 DEF OtaIInv, OtaTypeOK, Arrives, Arrived
    <2>5. Wanted' /\ Running' /\ AlwaysBoots'
        BY <1>7, <2>2 DEF OtaIInv, Arrives, Wanted, Running, AlwaysBoots
    <2> QED BY <2>3, <2>4, <2>5 DEF OtaIInv
<1>8. CASE StepFails
    BY <1>8 DEF OtaIInv, OtaTypeOK, StepFails, Fault, server, Wanted, Arrived, Running, AlwaysBoots
<1>9. CASE Switch
    <2>1. part[Other(run)] \in Images /\ part[run] \in Starts
        BY <1>9 DEF OtaIInv, Switch, Wanted, Arrived, Running, AlwaysBoots
    <2> QED BY <1>0, <1>9, <2>1
            DEF OtaIInv, OtaTypeOK, Switch, server, Wanted, Arrived, Running, AlwaysBoots
<1>10. CASE NextRound
    BY <1>10 DEF OtaIInv, OtaTypeOK, NextRound, server, Wanted, Arrived, Running, AlwaysBoots
<1>11. CASE PowerCut
    BY <1>11 DEF OtaIInv, OtaTypeOK, PowerCut, Fault, server, Wanted, Arrived, Running, AlwaysBoots
<1>12. CASE UNCHANGED otaVars
    BY <1>12 DEF OtaIInv, OtaTypeOK, otaVars, Wanted, Arrived, Running, AlwaysBoots
<1> QED BY <1>1, <1>2, <1>3, <1>4, <1>5, <1>6, <1>7, <1>8, <1>9, <1>10, <1>11, <1>12
        DEF OtaNext, Step

(* Every variable of the update keeps its type.                             *)
THEOREM OtaTypeCorrect == OtaSpec => []OtaTypeOK
<1>1. OtaIInv => OtaTypeOK
    BY DEF OtaIInv
<1> QED BY OtaInitIInv, OtaNextIInv, <1>1, PTL DEF OtaSpec

(* Whenever the power goes, the boot loader finds a partition that starts,  *)
(* at once or after one failed trial (ota_client.c, routers/ota.py).        *)
THEOREM BootsAlways == OtaSpec => []AlwaysBoots
<1>1. OtaIInv => AlwaysBoots
    BY DEF OtaIInv
<1> QED BY OtaInitIInv, OtaNextIInv, <1>1, PTL DEF OtaSpec

-----------------------------------------------------------------------------
(* The update as its owner sees it.                                         *)

Asked == IF latest = Nothing THEN Nothing ELSE row[latest]
Confirmed == IF mark = "valid" THEN part[boot] ELSE part[Other(boot)]
Trial == IF mark = "valid" THEN Nothing ELSE part[boot]
Runs == IF stage = "off" THEN Nothing ELSE part[run]

(* What a step leaves alone, it leaves alone in the owner's view too.       *)
LEMMA SameView ==
    /\ UNCHANGED <<latest, row>> => UNCHANGED Asked
    /\ UNCHANGED <<mark, boot, part>> => UNCHANGED <<Confirmed, Trial>>
    /\ UNCHANGED <<stage, run, part>> => UNCHANGED Runs
BY DEF Asked, Confirmed, Trial, Runs

LEMMA Unseen ==
    ASSUME UNCHANGED <<Asked, want, Confirmed, Trial, mark, Runs>>
    PROVE  UNCHANGED View!firmwareVars
BY DEF View!firmwareVars, Asked, Confirmed, Trial, Runs

(* Every partition that is booted holds an image.                           *)
LEMMA BootsAnImage ==
    ASSUME OtaIInv
    PROVE  /\ Confirmed \in Starts /\ Confirmed \in Images /\ Confirmed # Nothing
           /\ mark # "valid" => Trial \in Images /\ Trial # Nothing
           /\ stage # "off" => Runs \in Images /\ Runs # Nothing
BY OtaAssumption DEF OtaIInv, OtaTypeOK, AlwaysBoots, Running, Confirmed, Trial, Runs

(* A confirmed image that runs is the one to fall back to.                  *)
LEMMA RunsConfirmed ==
    ASSUME OtaIInv, stage \notin {"off", "start"}
    PROVE  Trial = Nothing /\ Runs = Confirmed /\ part[run] = Confirmed
BY DEF OtaIInv, Running, Trial, Runs, Confirmed

LEMMA StepImplementsFirmware == OtaIInv /\ [OtaNext]_otaVars => [View!Next]_(View!firmwareVars)
<1> SUFFICES ASSUME OtaIInv, [OtaNext]_otaVars PROVE [View!Next]_(View!firmwareVars)
    OBVIOUS
<1> USE OtaAssumption
<1>0. /\ Other(run) \in Parts /\ Other(run) # run /\ Other(Other(run)) = run
      /\ Other(boot) \in Parts /\ Other(boot) # boot /\ Other(Other(boot)) = boot
      /\ part \in [Parts -> Images \cup {Torn}] /\ run \in Parts /\ boot \in Parts
    BY Partitions DEF OtaIInv, OtaTypeOK
<1>1. ASSUME NEW l \in Labels, NEW i \in Images, Upload(l, i)
      PROVE  View!Publish(i)
    <2>1. UNCHANGED <<mark, boot, part, stage, run, want>>
        BY <1>1 DEF Upload
    <2>2. Asked' = i
        BY <1>1 DEF Upload, Asked, OtaIInv, OtaTypeOK
    <2>3. UNCHANGED <<Confirmed, Trial, Runs>>
        BY <2>1, SameView
    <2> QED BY <2>1, <2>2, <2>3 DEF View!Publish, Asked, Confirmed, Trial, Runs
<1>2. ASSUME NEW l \in Labels, NEW i \in Images, UploadCut(l, i)
      PROVE  UNCHANGED View!firmwareVars
    <2>1. UNCHANGED <<latest, row, mark, boot, part, stage, run, want>>
        BY <1>2 DEF UploadCut
    <2> QED BY <2>1, SameView, Unseen
<1>3. CASE BootUp
    <2>1. UNCHANGED <<part, want, Asked>> /\ stage = "off" /\ stage' = "start" /\ run' = boot'
        BY <1>3, SameView DEF BootUp, server
    <2>2. CASE mark = "new"
        <3>1. mark' = "trial" /\ boot' = boot
            BY <1>3, <2>2 DEF BootUp
        <3>2. Confirmed' = Confirmed /\ Trial' = Trial /\ Trial # Nothing /\ Runs' = Trial
            BY <2>1, <2>2, <3>1, BootsAnImage DEF Confirmed, Trial, Runs
        <3>3. View!StartTrial
            BY <2>1, <2>2, <3>1, <3>2 DEF View!StartTrial, Asked, Confirmed, Trial, Runs
        <3> QED BY <3>3 DEF View!Next
    <2>3. CASE mark = "trial"
        <3>1. mark' = "valid" /\ boot' = Other(boot)
            BY <1>3, <2>3 DEF BootUp
        <3>2. Confirmed' = Confirmed /\ Trial' = Nothing /\ Runs' = Confirmed
            BY <2>1, <2>3, <3>1 DEF Confirmed, Trial, Runs
        <3>3. View!StartConfirmed
            BY <2>1, <2>3, <3>1, <3>2 DEF View!StartConfirmed, Asked, Confirmed, Trial, Runs
        <3> QED BY <3>3 DEF View!Next
    <2>4. CASE mark = "valid"
        <3>1. mark' = "valid" /\ boot' = boot
            BY <1>3, <2>4 DEF BootUp
        <3>2. Confirmed' = Confirmed /\ Trial = Nothing /\ Trial' = Nothing /\ Runs' = Confirmed
            BY <2>1, <2>4, <3>1 DEF Confirmed, Trial, Runs
        <3>3. View!StartConfirmed
            BY <2>1, <2>4, <3>1, <3>2 DEF View!StartConfirmed, Asked, Confirmed, Trial, Runs
        <3> QED BY <3>3 DEF View!Next
    <2> QED BY <2>2, <2>3, <2>4 DEF OtaIInv, OtaTypeOK
<1>4. CASE Confirm
    <2>1. /\ UNCHANGED <<part, boot, run, want, Asked, Runs>> /\ mark' = "valid"
          /\ stage = "start" /\ part[run] \in Starts
        BY <1>4, SameView DEF Confirm, server, Runs
    <2>2. run = boot /\ mark # "new"
        BY <2>1 DEF OtaIInv, Running
    <2>3. CASE mark = "valid"
        <3>1. UNCHANGED <<Confirmed, Trial>>
            BY <2>1, <2>3, SameView
        <3> QED BY <2>1, <2>3, <3>1, Unseen
    <2>4. CASE mark = "trial"
        <3>1. Runs = Trial /\ Trial \in Starts /\ Confirmed' = Trial /\ Trial' = Nothing
            BY <2>1, <2>2, <2>4 DEF Confirmed, Trial, Runs
        <3>2. View!Confirm
            BY <2>1, <2>4, <3>1 DEF View!Confirm, Asked, Confirmed, Trial, Runs
        <3> QED BY <3>2 DEF View!Next
    <2> QED BY <2>2, <2>3, <2>4 DEF OtaIInv, OtaTypeOK
<1>5. ASSUME stage # "off", stage' = "off", UNCHANGED <<server, part, boot, mark, run, want>>
      PROVE  View!Stop
    <2>1. UNCHANGED <<Asked, Confirmed, Trial>> /\ Runs # Nothing /\ Runs' = Nothing
        BY <1>5, SameView, BootsAnImage DEF Runs, server
    <2> QED BY <1>5, <2>1 DEF View!Stop, Asked, Confirmed, Trial, Runs
<1>6. ASSUME stage # "off", stage' # "off", UNCHANGED <<server, part, boot, mark, run, want>>
      PROVE  UNCHANGED View!firmwareVars
    <2>1. UNCHANGED <<Asked, Confirmed, Trial, Runs>>
        BY <1>6, SameView DEF Runs, server
    <2> QED BY <1>6, <2>1, Unseen
<1>7. CASE CrashAtStart
    <2>1. View!Stop
        BY <1>5, <1>7 DEF CrashAtStart
    <2> QED BY <2>1 DEF View!Next
<1>8. CASE Check
    <2>1. CASE Offered
        <3>1. UNCHANGED <<part, boot, mark, run, Asked, Confirmed, Trial, Runs>> /\ want' = Asked
            BY <1>8, <2>1, SameView DEF Check, Offered, server, Runs, Asked
        <3>2. View!Settled
            BY <1>8, RunsConfirmed DEF Check, View!Settled, Confirmed, Trial, Runs
        <3>3. View!Ask
            BY <3>1, <3>2 DEF View!Ask, Asked, Confirmed, Trial, Runs
        <3> QED BY <3>3 DEF View!Next
    <2>2. CASE ~Offered
        BY <1>6, <1>8, <2>2 DEF Check
    <2> QED BY <2>1, <2>2
<1>9. ASSUME stage \notin {"off", "start"}, stage' # "off", part'[run] = part[run],
             UNCHANGED <<server, boot, mark, run, want>>
      PROVE  UNCHANGED View!firmwareVars
    <2>1. run = boot /\ mark = "valid"
        BY <1>9 DEF OtaIInv, Running
    <2>2. UNCHANGED <<Asked, Confirmed, Trial, Runs>>
        BY <1>9, <2>1, SameView DEF Confirmed, Trial, Runs, server
    <2>3. UNCHANGED <<want, mark>>
        BY <1>9
    <2> QED BY <2>2, <2>3, Unseen
<1>10. CASE Begin
    <2>1. part'[run] = part[run]
        BY <1>0, <1>10 DEF Begin
    <2> QED BY <1>9, <1>10, <2>1 DEF Begin
<1>11. CASE Arrives
    <2>1. part'[run] = part[run]
        BY <1>0, <1>11 DEF Arrives
    <2>2. stage' # "off"
        BY <1>11 DEF Arrives
    <2> QED BY <1>9, <1>11, <2>1, <2>2 DEF Arrives
<1>12. CASE Switch
    <2>1. /\ UNCHANGED <<part, run, want, Asked>> /\ boot' = Other(run) /\ mark' = "new"
          /\ stage = "switch" /\ stage' = "off"
        BY <1>12, SameView DEF Switch, server
    <2>2. part[Other(run)] = want /\ want \in Images
        BY <2>1 DEF OtaIInv, Arrived, Wanted
    <2>3. Trial = Nothing /\ Runs = Confirmed /\ part[run] = Confirmed
        BY <2>1, RunsConfirmed
    <2>4. Confirmed' = Confirmed /\ Trial' = want /\ Runs' = Nothing
        BY <1>0, <2>1, <2>2, <2>3 DEF Confirmed, Trial, Runs
    <2>5. View!Install
        BY <2>1, <2>2, <2>3, <2>4 DEF View!Install, View!Settled, Asked, Confirmed, Trial, Runs
    <2> QED BY <2>5 DEF View!Next
<1>13. CASE StepFails
    BY <1>6, <1>13 DEF StepFails
<1>14. CASE NextRound
    <2>1. CASE stage' = "off"
        <3>1. View!Stop
            BY <1>5, <1>14, <2>1 DEF NextRound
        <3> QED BY <3>1 DEF View!Next
    <2>2. CASE stage' = "check"
        BY <1>6, <1>14, <2>2 DEF NextRound
    <2> QED BY <1>14, <2>1, <2>2 DEF NextRound
<1>15. CASE PowerCut
    <2>1. View!Stop
        BY <1>5, <1>15 DEF PowerCut
    <2> QED BY <2>1 DEF View!Next
<1>16. CASE UNCHANGED otaVars
    <2>1. UNCHANGED <<latest, row, mark, boot, part, stage, run, want>>
        BY <1>16 DEF otaVars
    <2> QED BY <2>1, SameView, Unseen
<1> QED BY <1>1, <1>2, <1>3, <1>4, <1>7, <1>8, <1>10, <1>11, <1>12, <1>13, <1>14, <1>15, <1>16
        DEF OtaNext, Step, View!Next

(* The owner can rely on FirmwareView: whatever is published while a device *)
(* downloads, and wherever its power goes, it runs the image confirmed last *)
(* or gives one start to the image it was offered (ota_client.c,            *)
(* routers/ota.py).                                                         *)
THEOREM RefinesFirmware == OtaSpec => ImplementsFirmware
<1>1. OtaInit => View!Init
    <2> SUFFICES ASSUME OtaInit PROVE View!Init
        OBVIOUS
    <2>1. Confirmed \in Starts
        BY OtaInitIInv, BootsAnImage
    <2> QED BY <2>1 DEF OtaInit, View!Init, Confirmed
<1>2. OtaSpec => []OtaIInv
    BY OtaInitIInv, OtaNextIInv, PTL DEF OtaSpec
<1> QED BY <1>1, <1>2, StepImplementsFirmware, PTL DEF OtaSpec, ImplementsFirmware, View!Spec

(* What the owner is promised of it: whatever is published, torn or cut     *)
(* off, the confirmed image comes up (ota_client.c keeps the partition it   *)
(* runs from until another one has proved itself).                          *)
THEOREM ConfirmedComesUp == OtaSpec => []View!ComesUp
<1>1. OtaIInv => View!ComesUp
    BY BootsAnImage DEF View!ComesUp, Confirmed
<1> QED BY OtaInitIInv, OtaNextIInv, <1>1, PTL DEF OtaSpec
=============================================================================
