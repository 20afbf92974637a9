\* One archiver would never race another, and one second would never reuse a path:
\* 2 requests and 1 restoration over 2 rows, with an archive age of 1 in 3 instants,
\* let a path be written twice, a file be replaced under a reader, an insert fail and
\* every request be cut off at every point.
CONSTANTS
    Chars = {luna}
    Sessions = {s1}
    Texts = {x}
    Ids = {i1, i2}
    ArchiveIds = {a1, a2}
    MaxTime = 2
    None = None
    Archivers = {p1, p2}
    Restorers = {q1}
    ArchiveAge = 1
    BatchLimit = 1
    MaxFaults = 1
SYMMETRY RequestSymmetry
SPECIFICATION Spec
INVARIANTS ArchiveRestorable TierInv
PROPERTIES CoreImmunity
\* The bounded clock and the bounded supplies of ids let the model stop.
CHECK_DEADLOCK FALSE
