CONSTANTS
    Knowledge = {"k1", "k2"}
    Execution = {"compare"}
    MaxDecisions = 3
    MaxLoads = 2
    MaxToolCalls = 1
    MaxObservations = 3
    Deadline = 2
    ModelWait = 1
    ToolWait = 1
    MaxDamage = 1
SPECIFICATION ViewSpec
CHECK_DEADLOCK FALSE
INVARIANTS
    RowsCanBeRead
    CapabilitiesAreTrue
PROPERTIES
    TerminalViewsAreFinal
