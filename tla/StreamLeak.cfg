\* A close tag arrives in two chunks.
CONSTANTS
    Streams <- ListedStreams
    MaxPublic = 3
    MaxMonologue = 5
SPECIFICATION Spec
INVARIANTS ClosedMeansPrivate

\* The parser ends with the stream.
CHECK_DEADLOCK FALSE
