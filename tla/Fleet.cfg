SPECIFICATION Spec
CONSTANTS
    Drivers = {d1, d2}
    PerDriver = 2
INVARIANTS
    TypeOK
    EndsComplete
    NoOrphanPump
    SentinelsCounted
PROPERTIES
    WaiterAnswered
    CloseReturns
    ImplementsMerge
CHECK_DEADLOCK FALSE
