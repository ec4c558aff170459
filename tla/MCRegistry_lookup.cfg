\* A process is removed while others run.
CONSTANTS
    Commands = {k1, k2}
    Ids = {1, 2, 3, 4, 5}
    BootSizes = {3}
    Capacity = 4
    None = None
    Null = Null
    Torn = Torn
    Absent = Absent
SPECIFICATION Spec
INVARIANT LookupIsRight
CHECK_DEADLOCK FALSE
