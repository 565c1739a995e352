SPECIFICATION Spec
CONSTANTS
    Drivers = {d1, d2}
    PerDriver = 2
PROPERTY EndsWhenAllEnd
CHECK_DEADLOCK FALSE
