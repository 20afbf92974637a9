--------------------------------- MODULE MCChatTurn ---------------------------------
(* ChatTurn in the two rooms of dungeon_cellar and one room of another template. *)
EXTENDS ChatTurn, TLC

CONSTANTS cellar, tavern, clearing, dungeon, forest, user, rowan, seamus

MCTemplateOf == cellar :> dungeon @@ tavern :> dungeon @@ clearing :> forest
MCRank == cellar :> 0 @@ tavern :> 1 @@ clearing :> 0
MCExits == cellar :> {tavern} @@ tavern :> {cellar} @@ clearing :> {}
MCInitialChars == cellar :> {rowan} @@ tavern :> {seamus} @@ clearing :> {}
=====================================================================================
