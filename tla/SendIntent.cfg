\* A session with two services, two questions, two faults, leaving the page included.
SPECIFICATION FairSpec
CONSTANTS
    Targets = 2
    MaxAsks = 2
    MaxIntents = 3
    MaxFaults = 2
INVARIANTS
    QuestionsRunOnce
PROPERTIES
    
    IntentsAreResolved
CHECK_DEADLOCK FALSE
