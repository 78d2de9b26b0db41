\* Three rows in pages of one, two of: transactions, a reload, a fault; two exports and a session of
\* three turns; two services with two samples; two documents, or one and a link, and two
\* questions about them; a conversation of a plain message and two Runs, one of them a rerun; two
\* texts of three lines; and three Runs of the main agent that know of each other.
SPECIFICATION Spec
CONSTANTS
    Ids = {1, 2, 3}
    Limit = 1
    MaxWrites = 2
    MaxReloads = 1
    MaxFailures = 1
    MaxSpent = 2
    AuditIds = {1, 2, 3}
    ExportMax = 1
    Exports = {e1, e2}
    Turns = {1, 2, 3}
    MessageCap = 4
    RunCap = 2
    Watched = {s1, s2}
    MaxSamples = 2
    Saves = {q1, q2}
    Retention = 1
    MaxTime = 3
    Paths = {1, 2}
    Details = {1}
    Askers = {a1, a2}
    HitLimit = 1
    MaxChanges = 1
    Posts = {p1, p2}
    Runs = {r1, r2}
    Changes = {d1}
    Keys = {k1}
    Texts = {"first"}
    Letters = {"x"}
    MaxLines = 3
    MaxBlocks = 1
    MaxTalks = 3
    MaxRewrites = 1
    MaxMessages = 2
    MaxRecent = 2
    MaxLength = 3
    AnswerSizes = {1, 3}
SYMMETRY Symmetry
INVARIANTS
    ListsReadWell
    ExportsAreTrue
    ReadingsAreTrue
    SearchesAreTrue
    TurnsAreHonest
\* Writes, reloads, samples and requests are bounded.
CHECK_DEADLOCK FALSE
