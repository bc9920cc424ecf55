\* Power next to the boundaries around local midnight.
CONSTANTS
  Offset = 8
  Power <- AroundMidnight
  Builds <- AllBuilds
  Awake <- Durations
  Age <- AnyAge
  MaxBoots = 2
SPECIFICATION Spec
INVARIANTS BoundaryIsNext ClockNeverAhead WakesOnTime KeepsBeat
CHECK_DEADLOCK FALSE
