\* Two networks with the server in them, one without, one name the device
\* rejects; devices built with credentials and without, sleeping and awake.
CONSTANTS
  Config = {home, guest, cafe, long}
  TooLong = {long}
  Net = {home, guest}
  NoConfig = NoConfig
  Builds <- AllBuilds
  MaxOwner = 2
  MaxFaults = 2
  MaxWire = 2
SPECIFICATION FairSpec
INVARIANTS AckIsTruthful RestartsBounded
PROPERTIES PushArrives PortalOpensAwake
