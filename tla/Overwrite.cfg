\* No insert ever fails and nothing is restored: two batches of one row, archived by
\* two requests of the same second.
CONSTANTS
    Chars = {luna}
    Sessions = {s1}
    Texts = {x}
    Ids = {i1, i2}
    ArchiveIds = {a1, a2}
    MaxTime = 1
    None = None
    Archivers = {p1, p2}
    Restorers = {}
    ArchiveAge = 1
    BatchLimit = 1
    MaxFaults = 0
SPECIFICATION Spec
INVARIANTS NothingLost
CHECK_DEADLOCK FALSE
