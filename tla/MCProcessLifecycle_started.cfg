\* Calls one after the other: a process is stopped and started again.
CONSTANTS
    Calls = {c1, c2}
    Serial = TRUE
    Faults = {}
    None = None
SPECIFICATION Spec
PROPERTY StartStarts
CHECK_DEADLOCK FALSE
