\* Every list of up to three of 19 segments, saved at every hour of two days
\* of four hours each; every legacy configuration over six ranges.
CONSTANTS
  Day = 4
  NoLabel = NoLabel
  story = story
  poem = poem
  baby = baby
  Items <- AllItems
  Requests <- AllRequests
  Legacies <- AllLegacies
  Default <- DefaultLegacy
  MaxSaves = 1
  Horizon = 2
SPECIFICATION ScheduleSpec
INVARIANTS ShowsWhatWasEntered LegacyAsConfigured
PROPERTY OneContentOneStart
CHECK_DEADLOCK FALSE
