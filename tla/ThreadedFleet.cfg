SPECIFICATION FleetSpec
CONSTANTS
    MaxQueue = 2
    MaxTags = {2}
    MaxReads = 3
INVARIANTS
    EndToEnd
PROPERTIES
    ExitEndsStream
    FailureReachesSink
    ImplementsDriver
    ImplementsFleet
CHECK_DEADLOCK FALSE
