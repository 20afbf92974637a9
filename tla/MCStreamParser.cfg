\* Every way to cut 80 streams of up to 13 atoms into chunks and to stop early.  Both
\* limits are reached by some of them and not by others.
CONSTANTS
    Streams <- MCStreams
    MaxPublic = 3
    MaxMonologue = 5
SPECIFICATION Spec
INVARIANTS TypeOK NoBleed InOrder ThoughtsKept WarningDelivered ChunksDontMatter
PROPERTIES LimitFinal
\* The parser ends with the stream.
CHECK_DEADLOCK FALSE
