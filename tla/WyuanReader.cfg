SPECIFICATION Spec
CONSTANTS
    Modes = {"answering", "realtime"}
    MaxMore = 1
    MaxFaults = 2
    MaxLine = 3
INVARIANTS
    TypeOK
    TagsInWindow
    EdgesAlternate
    InStep
PROPERTIES
    WindowFollowsPin
    ReportsPresentTag
    StopEnds
CHECK_DEADLOCK FALSE
