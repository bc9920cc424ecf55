SPECIFICATION MCSpec
CONSTANTS
    f1 = f1
    f2 = f2
    t1 = t1
    t2 = t2
    Threads <- MCThreads
    Folders <- MCFolders
    Places <- MCPlaces
    Default <- Home
    MaxChanges = 2
    MaxCrashes = 1
INVARIANTS NothingLost NamesFollow
PROPERTY PlaceTakesEffect
