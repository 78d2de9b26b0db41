SPECIFICATION BuildSpec
CONSTANTS
    Clients = {c1, c2}
    IdemKeys = {k1}
    Contents = {"x", "y"}
    Roles = {"db"}
    Models = {"m"}
    MaxProviders = 3
    MaxOps = 3
    MaxFaults = 1
INVARIANTS
    ModelTablesAgree
    BuildsAreTrue
PROPERTIES
    ConnectionsAreAsEdited
CHECK_DEADLOCK FALSE
SYMMETRY Symmetry
