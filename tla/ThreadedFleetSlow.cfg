SPECIFICATION FleetSpec
CONSTANTS
    MaxQueue = 1
    MaxTags = {}
    MaxReads = 4
INVARIANT BoundedBacklog
CHECK_DEADLOCK FALSE
