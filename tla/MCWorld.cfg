\* Two adjacent rooms and a third in another template, the default session and a client
\* session: every pair of a session's world and a current world occurs, with characters
\* in no room, one room and two rooms.
CONSTANTS
    cellar = cellar
    tavern = tavern
    clearing = clearing
    dungeon = dungeon
    forest = forest
    rowan = rowan
    seamus = seamus
    luna = luna
    Chars = {rowan, seamus, luna}
    Movers = {rowan}
    Sessions = {main, chat}
    Templates = {dungeon, forest}
    Rooms = {cellar, tavern, clearing}
    TemplateOf <- MCTemplateOf
    Rank <- MCRank
    Exits <- MCExits
    Abstract = {}
    InitialChars <- MCInitialChars
    Dungeon = dungeon
    Default = main
    MaxTick = 1
    NoWorld = NoWorld
    Nobody = Nobody
SPECIFICATION Spec
INVARIANTS TypeOK OnlyEarshot
PROPERTIES SessionsIsolated FeedsChangeOnlyByConfigure
