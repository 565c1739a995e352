SPECIFICATION Spec
CONSTANTS
    Modes = {"answering"}
    MaxMore = 1
    MaxFaults = 1
    MaxLine = 2
PROPERTY ResyncsByRepolling
CHECK_DEADLOCK FALSE
