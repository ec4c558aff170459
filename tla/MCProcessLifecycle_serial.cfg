\* Calls one after the other, and API commands that write at any time.
CONSTANTS
    Calls = {c1, c2, c3, c4}
    Serial = TRUE
    Faults = {"early", "open"}
    None = None
SPECIFICATION Spec
SYMMETRY Symmetry
INVARIANTS
    OneConnection
    OneScheduler
    StopStopsScheduler
CHECK_DEADLOCK FALSE
