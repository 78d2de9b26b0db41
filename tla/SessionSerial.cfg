\* Two edits one after the other, two pieces of work at any time.
SPECIFICATION Spec
CONSTANTS
    Edits = {e1, e2}
    Works = {w1, w2}
    Titles = {"new"}
    OldTitle = "old"
    Serial = TRUE
    MaxTime = 4
SYMMETRY Symmetry
INVARIANTS
    LastEditShows
PROPERTIES
    OnlyASaveGoesBack
\* Requests are finite and the session comes to rest.
CHECK_DEADLOCK FALSE
