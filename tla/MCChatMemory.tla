-------------------------------- MODULE MCChatMemory --------------------------------
(* ChatMemory with one text that is regenerated and one history to import. *)
EXTENDS ChatMemory

CONSTANTS hello, story, scene

\* Two requests with the same last message: one with little history, one to import.
MCHistories == {<<hello>>, <<story, scene, hello>>}
====================================================================================
