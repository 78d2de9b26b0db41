\* A session with one service: the question of the welcome page, two visits.
SPECIFICATION Spec
CONSTANTS
    Targets = 1
    MaxAsks = 1
    MaxIntents = 2
    MaxFaults = 1
INVARIANT PendingIsSentOnce
CHECK_DEADLOCK FALSE
