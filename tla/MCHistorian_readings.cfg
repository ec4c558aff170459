\* Three kinds of reading, two commands of an administrator, every age that matters.
CONSTANTS
    Measurements = {"power", "energy_sampled", "presence"}
    HighFrequency = {"power", "energy_sampled"}
    Sampled = "energy_sampled"
    Questions <- AllQuestions
    Ages <- AllAges
    MaxDelay = 2
    Durations = {2419201, 20160}
    MaxCommands = 2
    None = None
    Database = "historian"
SPECIFICATION Spec
CHECK_DEADLOCK FALSE
INVARIANTS
    TypeOK
    ReadingsAreFound
    ReadingsAreKept
    EnergyIsFound
