\* Two nights, or two deletions, or one of each, beside an archiving request and two
\* restorations of one archive.  Three rows in three instants: one old enough to be
\* archived and pruned, one of today that keeps the night from returning early, and a
\* summary node.  factory_reset is the same request with a larger scope.
CONSTANTS
    Chars = {luna}
    Sessions = {s1, night}
    Texts = {x, summary}
    Ids = {i1, i2, i3}
    ArchiveIds = {a1}
    MaxTime = 2
    None = None
    Archivers = {p1}
    Restorers = {q1, q2}
    ArchiveAge = 2
    BatchLimit = 1
    MaxFaults = 0
    Consolidated = night
    Node = summary
    Day = 1
    Scopes = {{s1}}
    Patience = 1
    MaxRounds = 2
SYMMETRY LifeSymmetry
SPECIFICATION LifeSpec
INVARIANTS LifeTypeOK NoSilentLoss PrunedWasSummarised DeletedStaysDeleted
PROPERTIES CoreOnlyByAdmin
\* The bounded clock and the bounded supplies of ids let the model stop.
CHECK_DEADLOCK FALSE
