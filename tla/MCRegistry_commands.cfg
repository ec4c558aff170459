\* Commands that may overlap, crashes and boots.
CONSTANTS
    Commands = {k1, k2, k3}
    Ids = {1, 2, 3, 4, 5, 6}
    BootSizes = {3}
    Capacity = 4
    None = None
    Null = Null
    Torn = Torn
    Absent = Absent
SPECIFICATION Spec
SYMMETRY Symmetry
INVARIANTS
    TypeOK
    FileFollowsMemory
    TableIsKept
    CrashKeepsTable
CHECK_DEADLOCK FALSE
