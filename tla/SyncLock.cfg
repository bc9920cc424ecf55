SPECIFICATION LockSpec
CONSTANTS
    Launches = {p1, p2, p3}
    MaxKills = 2
INVARIANTS ExclusiveButForRaces
PROPERTY LonelyStartRuns
CHECK_DEADLOCK FALSE
