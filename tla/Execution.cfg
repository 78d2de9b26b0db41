SPECIFICATION FairSpec
CONSTANTS
    Agents = {"server", "db"}
    MaxSteps = 2
    MaxTools = 2
    Unlimited = 9
    MaxRevision = 2
    Knowledge = {"k1", "k2"}
    Execution = {"compare"}
    MaxDecisions = 3
    MaxLoads = 2
    MaxToolCalls = 3
    MaxObservations = 6
    Deadline = 5
    ModelWait = 3
    ToolWait = 2
    MaxItems = 2
INVARIANTS
    StreamIsGuarded
    BudgetsHold
    CancelStopsTheKernel
    ExecutorsTellTheStory
PROPERTIES
    CallsAreHonest
    EveryRunGetsItsEnd
CHECK_DEADLOCK FALSE
