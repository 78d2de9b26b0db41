SPECIFICATION FairSpec
CONSTANTS
    Clients = {c1, c2}
    EnvIds = {"env1"}
    DynIds = {"svc1"}
    Keys = {"k1"}
    FirstKey = "k1"
    MaxOps = 3
    MaxFaults = 1
    MaxRestarts = 1
    Workers = 1
    Keep = 0
    MaxRounds = 1
INVARIANTS
    RegistryFollowsTheRows
    StoredRoundsAreTrue
PROPERTIES
    WorkEnds
CHECK_DEADLOCK FALSE
