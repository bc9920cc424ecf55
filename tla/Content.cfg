SPECIFICATION Spec
CONSTANTS
    p1 = p1
    p2 = p2
    p3 = p3
    poem = poem
    story = story
    Ids <- MCIds
    Modules <- MCModules
    Rotation <- MCRotation
    MaxTime = 1
    MaxFaults = 1
SYMMETRY Symmetry
INVARIANTS ListedIsServed PreviewOfTheFrame NothingLeft
PROPERTY CardStays
