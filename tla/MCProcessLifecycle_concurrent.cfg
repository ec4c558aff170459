\* Two calls at once, with every fault of the network and the database.
CONSTANTS
    Calls = {c1, c2}
    Serial = FALSE
    Faults = {"open", "initdb", "mqtt", "store"}
    None = None
SPECIFICATION FairSpec
INVARIANTS
    TypeOK
    TransportExists
PROPERTIES
    StartingIsTransient
    LostConnectionRecovers
    BatchesAreSent
CHECK_DEADLOCK FALSE
