SPECIFICATION FairSpec
CONSTANTS
    Platforms = {"windows", "macos", "linux"}
    MaxVersion = 2
    MaxJobs = 1
    MaxQueue = 2
CHECK_DEADLOCK FALSE
PROPERTIES
    NoAccidentalDowngrade
    UpdateArrives
