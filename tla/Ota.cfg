SPECIFICATION OtaSpec
CONSTANTS
    Images = {"i1", "i2", "dies"}
    Labels = {"v1", "v2"}
    Built <- MCBuilt
    Starts = {"i1", "i2"}
    Torn = "torn"
    MaxUploads = 3
    MaxFaults = 2
PROPERTY ImplementsFirmware
PROPERTY UpdateArrives
