---------------------------------- MODULE MCWorld ----------------------------------
(* World with the two rooms of dungeon_cellar and one room of another template. *)
EXTENDS World, TLC

CONSTANTS cellar, tavern, clearing, dungeon, forest, rowan, seamus, luna

MCTemplateOf == cellar :> dungeon @@ tavern :> dungeon @@ clearing :> forest
MCRank == cellar :> 0 @@ tavern :> 1 @@ clearing :> 0
MCExits == cellar :> {tavern} @@ tavern :> {cellar} @@ clearing :> {}
MCInitialChars == cellar :> {rowan, luna} @@ tavern :> {seamus} @@ clearing :> {}
====================================================================================
