\* The instance of MCChatTurn.cfg, with the texts of the model left out.
CONSTANTS
    cellar = cellar
    tavern = tavern
    clearing = clearing
    dungeon = dungeon
    forest = forest
    user = user
    rowan = rowan
    seamus = seamus
    Chars = {user, rowan, seamus}
    Movers = {user}
    Sessions = {main, chat}
    Templates = {dungeon, forest}
    Rooms = {cellar, tavern, clearing}
    TemplateOf <- MCTemplateOf
    Rank <- MCRank
    Exits <- MCExits
    Abstract = {}
    InitialChars <- MCInitialChars
    Dungeon = dungeon
    Default = main
    MaxTick = 1
    NoWorld = NoWorld
    Nobody = Nobody
    User = user
    NoTarget = NoTarget
    NoFeed = NoFeed
    Turns = {q1}
    MaxPieces = 0
    MaxManaged = 3
SPECIFICATION ChatSpec
CHECK_DEADLOCK FALSE
INVARIANTS OnlyPerceivable
