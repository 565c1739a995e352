SPECIFICATION WindowsSpec
CONSTANTS
    MaxQueue = 2
    MaxTags = {}
    MaxReads = 4
    MaxCalls = 2
INVARIANTS
    WindowsTypeOK
    WindowsAreTrips
    EveryTripOnce
    TagsInTheirWindow
PROPERTY EndReachesWindows
CHECK_DEADLOCK FALSE
