SPECIFICATION Spec
CONSTANTS
    MaxQueue = 1
    MaxTags = {2}
    MaxReads = 4
INVARIANT FailureSurfaces
CHECK_DEADLOCK FALSE
