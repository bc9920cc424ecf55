\* Four photos, queries of two rows, two schedules, a day of three instants
\* and the first of the next.
CONSTANTS
  Day = 3
  NoLabel = NoLabel
  baby = baby
  trip = trip
  p1 = p1
  p2 = p2
  p3 = p3
  p4 = p4
  Photo = {p1, p2, p3, p4}
  Album <- Albums
  Rank <- Ranks
  Analyzed = {p1, p3}
  Remembered <- Days
  Schedules <- BothSchedules
  Uncategorized = Uncategorized
  MatchLimit = 1
  ListLimit = 2
  TopLimit = 1
  NoPhoto = NoPhoto
  Torn = Torn
  Start = 4
  MaxTicks = 2
  MaxOwner = 2
  MaxCrashes = 1
SPECIFICATION Spec
INVARIANTS ListedIsServed CategoryShown
PROPERTY StableWithinDay
CONSTRAINT MCOneCrash
CHECK_DEADLOCK FALSE
