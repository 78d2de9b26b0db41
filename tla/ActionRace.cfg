\* Two proposals for the one index of the target, four requests that share two keys, one fault.
SPECIFICATION Spec
CONSTANTS
    Proposals = {p1, p2}
    Requests = {q1, q2, q3, q4}
    Keys = {k1, k2}
    MaxFaults = 1
SYMMETRY Symmetry
INVARIANTS
    TablesAgree
    WrittenAtMostOnce
    ReportsAreTrue
    ExecutionsAreAtWork
PROPERTIES
    KeepsThePromise
\* Requests are finite and the loop may come to rest.
CHECK_DEADLOCK FALSE
