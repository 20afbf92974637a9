\* One turn of a client session: the user, in no room at first, is moved about the two
\* rooms by up to three requests, before and while the turn is routed; a text of four
\* pieces and
\* the close or canned text that ends them.  Deadlock is off: the one turn ends.
CONSTANTS
    cellar = cellar
    tavern = tavern
    clearing = clearing
    dungeon = dungeon
    forest = forest
    user = user
    rowan = rowan
    seamus = seamus
    Chars = {user, rowan, seamus}
    Movers = {user}
    Sessions = {main, chat}
    Templates = {dungeon, forest}
    Rooms = {cellar, tavern, clearing}
    TemplateOf <- MCTemplateOf
    Rank <- MCRank
    Exits <- MCExits
    Abstract = {}
    InitialChars <- MCInitialChars
    Dungeon = dungeon
    Default = main
    MaxTick = 1
    NoWorld = NoWorld
    Nobody = Nobody
    User = user
    NoTarget = NoTarget
    NoFeed = NoFeed
    Turns = {q1}
    MaxPieces = 4
    MaxManaged = 3
SPECIFICATION ChatSpec
CHECK_DEADLOCK FALSE
INVARIANTS ChatTypeOK OwnFeed ReasoningMarked
