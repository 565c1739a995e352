SPECIFICATION Spec
CONSTANTS
    EPC96_HEX_LEN = 6
    Tasks = {t1}
    Requests <- MCTabRequests
    MaxCalls = 1
INVARIANT EncodesCleanHex
CHECK_DEADLOCK FALSE
