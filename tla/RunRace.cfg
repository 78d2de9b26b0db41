\* Two diagnosis Runs and one main agent Run, requests that share a key, two cancels
\* and one fault.
SPECIFICATION FairSpec
CONSTANTS
    DiagnosisRuns = {d1, d2}
    MainRuns = {m1}
    NoRun = NoRun
    Requests = {q1, q2}
    Cancels = {c1, c2}
    Keys = {k1}
    Queries = {x, y}
    MaxEvents = 2
    MaxFaults = 1
INVARIANTS
    RowsTellTheRun
    KeysAreHonest
PROPERTIES
    KeepsThePromise
    AcceptedRunsEnd
\* Every Run ends and every request is answered: the system is then idle.
CHECK_DEADLOCK FALSE
