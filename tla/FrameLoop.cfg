\* One source with changing content and one library picture; a frame made
\* for another panel; every menuconfig choice.
CONSTANTS
  Gen = {day}
  Lib = {pic}
  Frame = {f1, f2, odd}
  Misfit = {odd}
  NoFrame = NoFrame
  NoSrc = NoSrc
  NoId = NoId
  Blank = Blank
  Demo = Demo
  Torn = Torn
  Flux = Flux
  Builds <- AllBuilds
  MaxChanges = 2
  MaxFaults = 2
SPECIFICATION FairSpec
INVARIANTS OnlyIntactFrames
PROPERTIES RecordAfterRefresh ImplementsView NewContentIsShown
