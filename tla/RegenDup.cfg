\* A turn is regenerated while its first version is being stored.
CONSTANTS
    hello = hello
    story = story
    scene = scene
    Requests = {q1, q2}
    Sessions = {main}
    Texts = {hello, story, scene}
    Histories <- MCHistories
    Threshold = 2
    BatchSize = 2
    MaxTrouble = 1
    None = None
SPECIFICATION Spec
INVARIANTS NoDuplicateTurn
\* All requests may be over.
CHECK_DEADLOCK FALSE
