\* Two writers, up to four events, two faults.
SPECIFICATION FairSpec
CONSTANTS
    Writers = {w1, w2}
    MaxEvents = 4
    MaxFaults = 2
INVARIANTS
    ViewFollowsTheLog
PROPERTIES
    ShownStays
    EndIsNoticed
\* The Run ends, its view notices, and everything comes to rest.
CHECK_DEADLOCK FALSE
