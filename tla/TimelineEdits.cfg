\* A plain message, a Run and its rerun, two edits or deletions.
SPECIFICATION TimelineSpec
CONSTANTS
    Posts = {p1}
    Runs = {r1, r2}
    Changes = {e1, e2}
    Keys = {k1}
    Texts = {"first", "second"}
    Apart = TRUE
SYMMETRY Symmetry
INVARIANTS
    RunsRepeatTheirQuestion
    DeletionsTakePairs
PROPERTIES
    DeletedWordsStay
\* Messages, Runs and edits are finite.
CHECK_DEADLOCK FALSE
