SPECIFICATION Spec
CONSTANTS
    Root = Root
    Folders = {A, B}
    Names = {"x"}
    Photos = {c1, c2}
    AbsLib = FALSE
    MaxOwner = 2
    MaxUploads = 1
    MaxFaults = 1
INVARIANTS Mirrored ScoresFollow
PROPERTY LateUploadStays
SYMMETRY Symmetry
