\* Two requests of one session: both new, one regenerating the turn of the other, one
\* importing while the other persists.  Three messages in batches of two give a full
\* batch and a short one.
CONSTANTS
    hello = hello
    story = story
    scene = scene
    Requests = {q1, q2}
    Sessions = {main}
    Texts = {hello, story, scene}
    Histories <- MCHistories
    Threshold = 2
    BatchSize = 2
    MaxTrouble = 1
    None = None
SPECIFICATION FairSpec
INVARIANTS TypeOK CompletedMeansImported ImportedOnce DuplicatesNeedOverlap RegenerationKeepsTurn
PROPERTIES ImportSettles
\* All requests may be over.
CHECK_DEADLOCK FALSE
