SPECIFICATION Spec
CONSTANTS
    MaxQueue = 2
    MaxTags = {2}
    MaxReads = 4
INVARIANTS
    TypeOK
    InOrder
    Conserved
    DropsOldest
    StopSurvives
    FailureSurvives
    YieldsKeptTags
    StopOnItsWay
PROPERTIES
    WaiterAnswered
    ImplementsChannel
CHECK_DEADLOCK FALSE
