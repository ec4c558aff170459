\* Two goroutines, two commands and one failure or restart.
CONSTANTS
    Calls = {main, api}
    Main = main
    Configured = {"optimized", "simple"}
    Touched = {"gen_year", "gen_raw"}
    Durations = {20160}
    MaxCommands = 2
    MaxFailures = 1
    None = None
SPECIFICATION Spec
CHECK_DEADLOCK FALSE
INVARIANTS
    TypeOK
    SetupIsComplete
PROPERTIES
    RestartsRestore
