SPECIFICATION Spec
CONSTANTS
    EPC96_HEX_LEN = 4
    Tasks = {t1, t2}
    Requests <- MCRequests
    MaxCalls = 3
SYMMETRY Symmetry
INVARIANTS
    RefusedSentNothing
    ReturnsWhatItEncodes
    LeavingHandsAllOver
CHECK_DEADLOCK FALSE
