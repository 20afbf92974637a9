----------------------------------- MODULE World -----------------------------------
(***************************************************************************)
(* The world state of evennia_world: the room templates of HybridWorldBuilder *)
(* (hybrid_builder.py), the worlds instantiated from them for each session,   *)
(* the global current_world, the action tick, and who hears an action         *)
(* (app.py, spatial_matrix.py).  Every handler runs without an await, so each *)
(* is one atomic step.  Ids are lower case.                                   *)
(***************************************************************************)
EXTENDS Integers, FiniteSets

CONSTANTS Chars,        \* character ids
          Movers,       \* the characters that world management requests name
          Sessions,     \* session ids of clients
          Templates,    \* template keys
          Rooms,        \* room ids: no two templates share one
          TemplateOf,   \* the template of a room
          Rank,         \* the position of a room in its template
          Exits,        \* Exits[r]: the rooms next to room r
          Abstract,     \* rooms that are lit "abstract"
          InitialChars, \* who is in a room at startup
          Dungeon,      \* "dungeon_cellar": the template of every session's world
          Default,      \* "default_session"
          MaxTick,      \* bound on the number of actions, for TLC
          NoWorld,      \* no world of this template in this session
          Nobody        \* no target

\* Template keys serve as session ids too (Configure); a client may use one as well.
SessionIds == Sessions \cup Templates

\* The rooms of template t and who is in each of them.
RoomsOf(t) == {r \in Rooms : TemplateOf[r] = t}
WorldOf(t) == [RoomsOf(t) -> SUBSET Chars]

ASSUME TemplateAssumption ==
    /\ Movers \subseteq Chars /\ Nobody \notin Chars /\ Dungeon \in Templates /\ Default \in Sessions
    /\ TemplateOf \in [Rooms -> Templates]
    /\ Rank \in [Rooms -> Nat]
    /\ \A q, r \in Rooms : TemplateOf[q] = TemplateOf[r] /\ Rank[q] = Rank[r] => q = r
    /\ Exits \in [Rooms -> SUBSET Rooms] /\ Abstract \subseteq Rooms
    /\ InitialChars \in [Rooms -> SUBSET Chars]
    /\ \A t \in Templates : NoWorld \notin WorldOf(t)
ASSUME MaxTickAssumption == MaxTick \in Nat

VARIABLES templates,    \* world_builder.templates: present_characters of each room
          worlds,       \* session_worlds[s][t], or NoWorld
          current,      \* current_world is session_worlds[current.sess][current.tmpl]
          tick          \* action_tick_counter, from its initial value

vars == <<templates, worlds, current, tick>>

TypeOK ==
    /\ templates \in [Rooms -> SUBSET Chars]
    /\ DOMAIN worlds = SessionIds
    /\ \A s \in SessionIds :
        /\ DOMAIN worlds[s] = Templates
        /\ \A t \in Templates : worlds[s][t] \in WorldOf(t) \cup {NoWorld}
    /\ current \in [sess : SessionIds, tmpl : Templates]
    /\ worlds[current.sess][current.tmpl] # NoWorld
    /\ tick \in Nat

------------------------------------------------------------------------------------
\* Worlds

\* instantiate_world: a copy of the template, as the template is now.
Instantiate(t) == [r \in RoomsOf(t) |-> templates[r]]

\* _ensure_world("dungeon_cellar", s): current_world exists since startup.
EnsureWorld(s) ==
    worlds' = IF worlds[s][Dungeon] = NoWorld
              THEN [worlds EXCEPT ![s][Dungeon] = Instantiate(Dungeon)]
              ELSE worlds

\* The world an action of session s works on.
SessionWorld(s) ==
    IF worlds[s][Dungeon] = NoWorld THEN Instantiate(Dungeon) ELSE worlds[s][Dungeon]

CurrentWorld == worlds[current.sess][current.tmpl]

Leave(world, c) == [r \in DOMAIN world |-> world[r] \ {c}]

\* Mutant: the character leaves the rooms of every session.
LeaveEverySession(c) ==
    [s \in SessionIds |-> [t \in Templates |->
        IF worlds[s][t] = NoWorld THEN NoWorld ELSE Leave(worlds[s][t], c)]]

\* _remove_character_from_all_rooms(c): the current world and the worlds of the
\* default session (no caller's payload has a session_id).
LeaveActiveRooms(c) ==
    [s \in SessionIds |-> [t \in Templates |->
        IF worlds[s][t] # NoWorld /\ (s = Default \/ current = [sess |-> s, tmpl |-> t])
        THEN Leave(worlds[s][t], c)
        ELSE worlds[s][t]]]

\* After the startup event.
Init ==
    /\ templates = InitialChars
    /\ worlds = [s \in SessionIds |-> [t \in Templates |->
         IF s = Default /\ t = Dungeon THEN [r \in RoomsOf(Dungeon) |-> InitialChars[r]]
         ELSE NoWorld]]
    /\ current = [sess |-> Default, tmpl |-> Dungeon]
    /\ tick = 0

------------------------------------------------------------------------------------
\* Who hears what

\* The room of world w that c is found in: the first one in the template's order.
RoomOf(w, c) ==
    LET here == {r \in DOMAIN w : c \in w[r]}
    IN CHOOSE r \in here : \A q \in here : Rank[r] <= Rank[q]

Present(w) == UNION {w[r] : r \in DOMAIN w}

\* _compute_distance_and_barriers: nothing within a room (3 ft), a closed door to an
\* adjacent room (15 ft), a solid wall otherwise (20 or 45 ft).  Adjacency is looked up
\* in current_world, whatever the session of the action.
Barrier(from, to) ==
    IF from = to THEN "none"
    ELSE IF from \in DOMAIN CurrentWorld /\ to \in Exits[from] /\ from \notin Abstract
    THEN "door" ELSE "wall"

\* Mutant: a whisper is a quiet word to the whole room.
WhisperToRoom(kind, barrier, self, target) ==
    IF barrier = "wall" THEN [level |-> "blackout", words |-> FALSE]
    ELSE IF self \/ barrier = "none" THEN [level |-> "direct", words |-> TRUE]
    ELSE [level |-> "degraded", words |-> FALSE]

\* SpatialConstraintsMatrix.evaluate_sensory_feed for the barriers above; words: the
\* feed quotes the text.
Evaluate(kind, barrier, self, target) ==
    IF barrier = "wall" THEN [level |-> "blackout", words |-> FALSE]
    ELSE IF self THEN [level |-> "direct", words |-> TRUE]
    ELSE IF kind = "whisper" THEN
        IF barrier = "none" /\ target THEN [level |-> "direct", words |-> TRUE]
        ELSE IF barrier = "none" THEN [level |-> "degraded", words |-> FALSE]
        ELSE [level |-> "blackout", words |-> FALSE]
    ELSE IF barrier = "door" THEN [level |-> "degraded", words |-> FALSE]
    ELSE [level |-> "direct", words |-> TRUE]

\* The feed of recipient c for an action of actor a with target g in world w.  An actor
\* in no room is behind a wall.
FeedOf(w, kind, a, g, c) ==
    LET barrier == IF a \in Present(w) THEN Barrier(RoomOf(w, a), RoomOf(w, c)) ELSE "wall"
    IN Evaluate(kind, barrier, a = c, c = g)

\* The reply to an action: nobody is in it twice, and nobody whose feed is a blackout.
\* (The loop over "upstairs" rooms that follows in the code finds everyone already seen.)
Consequences(w, kind, a, g) ==
    {k \in {[to |-> c, feed |-> FeedOf(w, kind, a, g, c)] : c \in Present(w)} :
        k.feed.level # "blackout"}

------------------------------------------------------------------------------------
\* The endpoints

\* POST /api/v1/world/action.  Its reply is Consequences(SessionWorld(s), ...).
SubmitAction(s) ==
    /\ tick < MaxTick
    /\ tick' = tick + 1
    /\ EnsureWorld(s)
    /\ UNCHANGED <<templates, current>>

\* GET /api/v1/world/state
QueryWorldState(s) ==
    /\ EnsureWorld(s)
    /\ UNCHANGED <<templates, current, tick>>

\* POST /api/v1/world/characters; 404 unless room r is in the template.  The character
\* stays in the other rooms of the template.
AddCharacter(c, r) ==
    /\ templates' = [templates EXCEPT ![r] = @ \cup {c}]
    /\ worlds' = IF r \in DOMAIN CurrentWorld
                 THEN [LeaveActiveRooms(c) EXCEPT ![current.sess][current.tmpl][r] = @ \cup {c}]
                 ELSE worlds
    /\ UNCHANGED <<current, tick>>

\* DELETE /api/v1/world/characters/{c}?template_key=t
RemoveCharacter(c, t) ==
    /\ templates' = [r \in Rooms |-> templates[r] \ (IF TemplateOf[r] = t THEN {c} ELSE {})]
    /\ worlds' = LeaveActiveRooms(c)
    /\ UNCHANGED <<current, tick>>

\* POST /api/v1/world/move: out of every template's rooms, then into room r of template
\* t, if t has it.  No instantiated world is touched.
MoveCharacter(c, r, t) ==
    /\ templates' = [q \in Rooms |->
         IF q = r /\ TemplateOf[r] = t THEN templates[q] \cup {c} ELSE templates[q] \ {c}]
    /\ UNCHANGED <<worlds, current, tick>>

\* Mutant: the session id defaults to default_session, as everywhere else.
ConfigureDefault(t) ==
    /\ worlds' = [worlds EXCEPT ![Default] =
         [u \in Templates |-> IF u = t THEN Instantiate(t) ELSE NoWorld]]
    /\ UNCHANGED <<templates, current, tick>>

\* POST /api/v1/world/configure: the template's key serves as session id.
Configure(t) ==
    /\ worlds' = [worlds EXCEPT ![t] =
         [u \in Templates |-> IF u = t THEN Instantiate(t) ELSE NoWorld]]
    /\ current' = [sess |-> t, tmpl |-> t]
    /\ UNCHANGED <<templates, tick>>

Next ==
    \/ \E s \in Sessions : SubmitAction(s)
    \/ \E s \in Sessions : QueryWorldState(s)
    \/ \E c \in Movers, r \in Rooms : AddCharacter(c, r)
    \/ \E c \in Movers, t \in Templates : RemoveCharacter(c, t)
    \/ \E c \in Movers, r \in Rooms, t \in Templates : MoveCharacter(c, r, t)
    \/ \E t \in Templates : Configure(t)

Spec == Init /\ [][Next]_vars

------------------------------------------------------------------------------------
\* Properties

\* The sessions of clients: not default_session, which the character endpoints edit,
\* and no template key, which configure_world overwrites.
ClientSessions == Sessions \ (Templates \cup {Default})

\* FR-001 isolation of the data: once a client session has its world, nothing that is
\* done in another session, and no world management endpoint, changes it.
SessionsIsolated ==
    [][\A s \in ClientSessions, t \in Templates :
        worlds[s][t] # NoWorld => worlds'[s][t] = worlds[s][t]]_vars

\* Every kind of action: the target of a spoken line changes nothing.
Deeds == [kind : {"speak"}, actor : Chars, target : {Nobody}]
    \cup [kind : {"whisper"}, actor : Chars, target : Chars]

\* "Characters can only perceive what their physical sensory organs can access"
\* (README.md:3): the words of an action reach only who is found in the actor's room,
\* and those of a whisper only the actor and its target, however characters were added,
\* moved and removed and whichever template is the current world.
OnlyEarshot ==
    \A s \in SessionIds, d \in Deeds : LET w == SessionWorld(s) IN
        \A k \in Consequences(w, d.kind, d.actor, d.target) : k.feed.words =>
            /\ d.actor \in Present(w) /\ RoomOf(w, k.to) = RoomOf(w, d.actor)
            /\ d.kind = "whisper" => k.to \in {d.actor, d.target}

\* What client session s would be told of action d.
Reply(s, d) == Consequences(worlds[s][Dungeon], d.kind, d.actor, d.target)

\* What a client session is told of an action never changes, except that the current
\* world is switched to another template.
FeedsChangeOnlyByConfigure ==
    [][\A s \in ClientSessions :
        worlds[s][Dungeon] # NoWorld /\ current'.tmpl = current.tmpl =>
            \A d \in Deeds : Reply(s, d)' = Reply(s, d)]_vars

====================================================================================
