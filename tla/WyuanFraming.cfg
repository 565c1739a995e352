SPECIFICATION Spec
CONSTANTS
    Options <- MCOptions
    Scans <- MCScans
    Flips <- MCFlips
    Inserts = {4}
    MaxFrames = 2
    MaxFaults = 1
INVARIANTS
    AcceptedWasSent
    ReportsAsEncoded
PROPERTY QuietRealigns
CHECK_DEADLOCK FALSE
