\* Five requests are enough for a viewer to come, hear, leave and come back between turns
\* and resets, for two resets to wait for their pools at the same time, and for settings
\* to be written, torn by a death of the process and written again.
CONSTANTS
    Viewers = {v1}
    RingSize = 2
    MaxEvents = 5
    url = url
    tokens = tokens
    old = old
    new = new
    Keys = {url, tokens}
    Values = {old, new}
    Absent = Absent
    Torn = Torn
    Pools = {pool1, pool2}
    Resets = {r1, r2}
    NoPool = NoPool
    Environments <- MCEnvironments
    FirstFiles <- MCFirstFiles
    Updates <- MCUpdates
    MaxRequests = 5
SPECIFICATION Spec
INVARIANTS ProcessTypeOK StreamsContiguous SettingsKept PoolsAccounted
PROPERTIES StreamsServed
\* The bounded number of requests lets the model stop.
CHECK_DEADLOCK FALSE
