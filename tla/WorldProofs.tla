------------------------------- MODULE WorldProofs -------------------------------
(***************************************************************************)
(* The world of a client session is its own: proofs about World for any       *)
(* templates, rooms, characters and sessions.                                 *)
(***************************************************************************)
EXTENDS World, TLAPS

\* The part of TypeOK that is about the instantiated worlds.
WorldsOK(w) ==
    /\ DOMAIN w = SessionIds
    /\ \A s \in SessionIds :
        /\ DOMAIN w[s] = Templates
        /\ \A t \in Templates : w[s][t] \in WorldOf(t) \cup {NoWorld}

\* The current world is one of the default session or of a configured template, never of
\* a client session: this is why editing the current world does not reach a client.
CurrentOwned == current.sess \in Templates \cup {Default}

IInv == TypeOK /\ CurrentOwned

LEMMA TypeOKSplit ==
    TypeOK <=> /\ templates \in [Rooms -> SUBSET Chars]
               /\ WorldsOK(worlds)
               /\ current \in [sess : SessionIds, tmpl : Templates]
               /\ worlds[current.sess][current.tmpl] # NoWorld
               /\ tick \in Nat
  BY Zenon DEF TypeOK, WorldsOK

\* A copy of a template is a world of it, and so not "no world".
LEMMA InstantiateIsWorld ==
    ASSUME templates \in [Rooms -> SUBSET Chars], NEW t \in Templates
    PROVE  Instantiate(t) \in WorldOf(t) /\ Instantiate(t) # NoWorld
<1>1. Instantiate(t) \in WorldOf(t)
  BY DEF Instantiate, WorldOf, RoomsOf
<1> QED BY <1>1, TemplateAssumption

\* Making the world of session s adds that world and touches no other.
LEMMA EnsureWorldAdds ==
    ASSUME TypeOK, NEW s \in SessionIds, EnsureWorld(s)
    PROVE  /\ WorldsOK(worlds')
           /\ \A u \in SessionIds, t \in Templates :
                worlds[u][t] # NoWorld => worlds'[u][t] = worlds[u][t]
<1>1. Dungeon \in Templates
  BY TemplateAssumption
<1>2. Instantiate(Dungeon) \in WorldOf(Dungeon)
  BY <1>1, InstantiateIsWorld DEF TypeOK
<1>3. WorldsOK(worlds)
  BY TypeOKSplit
<1>4. CASE worlds[s][Dungeon] = NoWorld
  <2>1. worlds' = [worlds EXCEPT ![s][Dungeon] = Instantiate(Dungeon)]
    BY <1>4 DEF EnsureWorld
  <2>2. \A u \in SessionIds, t \in Templates :
          worlds'[u][t] = IF u = s /\ t = Dungeon THEN Instantiate(Dungeon) ELSE worlds[u][t]
    BY <1>1, <1>3, <2>1 DEF WorldsOK
  <2>3. DOMAIN worlds' = SessionIds /\ \A u \in SessionIds : DOMAIN worlds'[u] = Templates
    BY <1>3, <2>1 DEF WorldsOK
  <2> QED BY <1>2, <1>3, <1>4, <2>2, <2>3 DEF WorldsOK
<1>5. CASE worlds[s][Dungeon] # NoWorld
  BY <1>3, <1>5 DEF EnsureWorld
<1> QED BY <1>4, <1>5

\* Taking a character out of the active rooms keeps every world, and those of the client
\* sessions as they are.
LEMMA LeavingKeepsWorlds ==
    ASSUME IInv, NEW c \in Chars
    PROVE  /\ WorldsOK(LeaveActiveRooms(c))
           /\ \A s \in SessionIds, t \in Templates :
                /\ worlds[s][t] # NoWorld => LeaveActiveRooms(c)[s][t] # NoWorld
                /\ s \in ClientSessions => LeaveActiveRooms(c)[s][t] = worlds[s][t]
<1>1. WorldsOK(worlds)
  BY TypeOKSplit DEF IInv
<1>2. ASSUME NEW s \in SessionIds, NEW t \in Templates
      PROVE  LeaveActiveRooms(c)[s][t] =
               IF worlds[s][t] # NoWorld /\ (s = Default \/ current = [sess |-> s, tmpl |-> t])
               THEN Leave(worlds[s][t], c) ELSE worlds[s][t]
  BY <1>2 DEF LeaveActiveRooms
<1>3. ASSUME NEW s \in SessionIds, NEW t \in Templates, worlds[s][t] # NoWorld
      PROVE  Leave(worlds[s][t], c) \in WorldOf(t) /\ Leave(worlds[s][t], c) # NoWorld
  <2>1. worlds[s][t] \in WorldOf(t)
    BY <1>1, <1>3 DEF WorldsOK
  <2>2. Leave(worlds[s][t], c) \in WorldOf(t)
    BY <2>1 DEF Leave, WorldOf
  <2> QED BY <2>2, TemplateAssumption
<1>4. DOMAIN LeaveActiveRooms(c) = SessionIds
      /\ \A s \in SessionIds : DOMAIN LeaveActiveRooms(c)[s] = Templates
  BY DEF LeaveActiveRooms
<1>5. ASSUME NEW s \in ClientSessions, NEW t \in Templates
      PROVE  ~(s = Default \/ current = [sess |-> s, tmpl |-> t])
  <2>1. current = [sess |-> s, tmpl |-> t] => current.sess = s
    OBVIOUS
  <2> QED BY <2>1 DEF ClientSessions, IInv, CurrentOwned
<1>6. WorldsOK(LeaveActiveRooms(c))
  BY <1>1, <1>2, <1>3, <1>4 DEF WorldsOK
<1> QED BY <1>2, <1>3, <1>5, <1>6

\* What each step does to the worlds.
Kept == \A s \in ClientSessions, t \in Templates :
            worlds[s][t] # NoWorld => worlds'[s][t] = worlds[s][t]

LEMMA ClientsAreSessions == ClientSessions \subseteq SessionIds /\ Default \in SessionIds
  BY TemplateAssumption DEF ClientSessions, SessionIds

LEMMA InitIInv == Init => IInv
<1> SUFFICES ASSUME Init PROVE IInv
  OBVIOUS
<1>1. Default \in SessionIds /\ Dungeon \in Templates
  BY ClientsAreSessions, TemplateAssumption
<1>2. InitialChars \in [Rooms -> SUBSET Chars]
  BY TemplateAssumption
<1>3. [r \in RoomsOf(Dungeon) |-> InitialChars[r]] \in WorldOf(Dungeon)
  BY <1>2 DEF WorldOf, RoomsOf
<1>4. WorldsOK(worlds)
  BY <1>3 DEF Init, WorldsOK
<1>5. worlds[Default][Dungeon] = [r \in RoomsOf(Dungeon) |-> InitialChars[r]]
  BY <1>1 DEF Init
<1>6. worlds[Default][Dungeon] # NoWorld
  BY <1>1, <1>3, <1>5, TemplateAssumption
<1>7. current = [sess |-> Default, tmpl |-> Dungeon]
  BY DEF Init
<1>8. current.sess = Default /\ current.tmpl = Dungeon
        /\ current \in [sess : SessionIds, tmpl : Templates]
  BY <1>1, <1>7
<1> QED BY <1>2, <1>4, <1>6, <1>8, TypeOKSplit DEF Init, IInv, CurrentOwned

\* SubmitAction and QueryWorldState.
LEMMA EnsureStep ==
    ASSUME IInv, NEW s \in Sessions, EnsureWorld(s), UNCHANGED <<templates, current>>,
           tick' \in Nat
    PROVE  IInv' /\ Kept
<1>1. s \in SessionIds
  BY DEF SessionIds
<1>2. WorldsOK(worlds') /\ \A u \in SessionIds, t \in Templates :
        worlds[u][t] # NoWorld => worlds'[u][t] = worlds[u][t]
  BY <1>1, EnsureWorldAdds DEF IInv
<1>3. current.sess \in SessionIds /\ current.tmpl \in Templates
      /\ worlds[current.sess][current.tmpl] # NoWorld
      /\ templates \in [Rooms -> SUBSET Chars] /\ current \in [sess : SessionIds, tmpl : Templates]
  BY DEF IInv, TypeOK
<1>4. worlds'[current.sess][current.tmpl] # NoWorld
  BY <1>2, <1>3
<1>5. TypeOK'
  BY <1>2, <1>3, <1>4 DEF TypeOK, WorldsOK
<1> QED BY <1>2, <1>5, ClientsAreSessions DEF IInv, CurrentOwned, Kept

LEMMA AddStep ==
    ASSUME IInv, NEW c \in Movers, NEW r \in Rooms, AddCharacter(c, r)
    PROVE  IInv' /\ Kept
<1> DEFINE L == LeaveActiveRooms(c)
<1>1. c \in Chars
  BY TemplateAssumption
<1>2. WorldsOK(L) /\ \A s \in SessionIds, t \in Templates :
        /\ worlds[s][t] # NoWorld => L[s][t] # NoWorld
        /\ s \in ClientSessions => L[s][t] = worlds[s][t]
  BY <1>1, LeavingKeepsWorlds
<1>3. /\ current.sess \in SessionIds /\ current.tmpl \in Templates /\ WorldsOK(worlds)
      /\ worlds[current.sess][current.tmpl] # NoWorld /\ tick \in Nat
      /\ templates \in [Rooms -> SUBSET Chars] /\ current \in [sess : SessionIds, tmpl : Templates]
  BY TypeOKSplit DEF IInv
<1>4. current' = current /\ tick' = tick /\ templates' \in [Rooms -> SUBSET Chars]
  BY <1>1, <1>3 DEF AddCharacter
<1>5. CASE r \notin DOMAIN CurrentWorld
  <2>1. worlds' = worlds
    BY <1>5 DEF AddCharacter
  <2>2. TypeOK'
    BY <1>3, <1>4, <2>1 DEF TypeOK, WorldsOK
  <2> QED BY <1>4, <2>1, <2>2 DEF IInv, CurrentOwned, Kept
<1>6. CASE r \in DOMAIN CurrentWorld
  <2> DEFINE W == L[current.sess][current.tmpl]
             V == [W EXCEPT ![r] = @ \cup {c}]
  <2>1. worlds' = [L EXCEPT ![current.sess][current.tmpl][r] = @ \cup {c}]
    BY <1>6 DEF AddCharacter
  <2>2. W \in WorldOf(current.tmpl)
    BY <1>2, <1>3 DEF WorldsOK
  <2>3. V \in WorldOf(current.tmpl) /\ V # NoWorld
    <3>1. V \in WorldOf(current.tmpl)
      BY <1>1, <2>2 DEF WorldOf
    <3> HIDE DEF V
    <3> QED BY <1>3, <3>1, TemplateAssumption
  <2>4. /\ DOMAIN worlds' = SessionIds
        /\ \A s \in SessionIds : DOMAIN worlds'[s] = Templates
        /\ \A s \in SessionIds, t \in Templates :
             worlds'[s][t] = IF s = current.sess /\ t = current.tmpl THEN V ELSE L[s][t]
    <3> HIDE DEF L
    <3> QED BY <1>2, <1>3, <2>1 DEF WorldsOK
  <2> HIDE DEF V, W, L
  <2>5. WorldsOK(worlds') /\ worlds'[current.sess][current.tmpl] # NoWorld
    BY <1>2, <1>3, <2>3, <2>4 DEF WorldsOK
  <2>6. TypeOK'
    BY <1>3, <1>4, <2>5 DEF TypeOK, WorldsOK
  <2>7. \A s \in ClientSessions : s # current.sess
    BY DEF IInv, CurrentOwned, ClientSessions
  <2>8. Kept
    BY <1>2, <2>4, <2>7, ClientsAreSessions DEF Kept
  <2> QED BY <1>4, <2>6, <2>8 DEF IInv, CurrentOwned
<1> QED BY <1>5, <1>6

LEMMA RemoveStep ==
    ASSUME IInv, NEW c \in Movers, NEW u \in Templates, RemoveCharacter(c, u)
    PROVE  IInv' /\ Kept
<1>1. c \in Chars
  BY TemplateAssumption
<1>2. WorldsOK(worlds') /\ \A s \in SessionIds, t \in Templates :
        /\ worlds[s][t] # NoWorld => worlds'[s][t] # NoWorld
        /\ s \in ClientSessions => worlds'[s][t] = worlds[s][t]
  BY <1>1, LeavingKeepsWorlds DEF RemoveCharacter
<1>3. /\ current.sess \in SessionIds /\ current.tmpl \in Templates
      /\ worlds[current.sess][current.tmpl] # NoWorld /\ tick \in Nat
      /\ templates \in [Rooms -> SUBSET Chars] /\ current \in [sess : SessionIds, tmpl : Templates]
  BY DEF IInv, TypeOK
<1>4. current' = current /\ tick' = tick /\ templates' \in [Rooms -> SUBSET Chars]
  BY <1>3 DEF RemoveCharacter
<1>5. TypeOK'
  BY <1>2, <1>3, <1>4 DEF TypeOK, WorldsOK
<1> QED BY <1>2, <1>4, <1>5, ClientsAreSessions DEF IInv, CurrentOwned, Kept

LEMMA MoveStep ==
    ASSUME IInv, NEW c \in Movers, NEW r \in Rooms, NEW t \in Templates,
           MoveCharacter(c, r, t)
    PROVE  IInv' /\ Kept
<1>1. c \in Chars
  BY TemplateAssumption
<1>2. templates \in [Rooms -> SUBSET Chars]
  BY DEF IInv, TypeOK
<1>3. templates' \in [Rooms -> SUBSET Chars] /\ UNCHANGED <<worlds, current, tick>>
  BY <1>1, <1>2 DEF MoveCharacter
<1>4. TypeOK'
  BY <1>3 DEF IInv, TypeOK
<1> QED BY <1>3, <1>4 DEF IInv, CurrentOwned, Kept

LEMMA ConfigureStep ==
    ASSUME IInv, NEW t \in Templates, Configure(t)
    PROVE  IInv' /\ Kept
<1> DEFINE V == [u \in Templates |-> IF u = t THEN Instantiate(t) ELSE NoWorld]
<1>1. templates \in [Rooms -> SUBSET Chars] /\ WorldsOK(worlds) /\ tick \in Nat
  BY TypeOKSplit DEF IInv
<1>2. Instantiate(t) \in WorldOf(t) /\ Instantiate(t) # NoWorld
  BY <1>1, InstantiateIsWorld
<1>3. t \in SessionIds /\ t \notin ClientSessions
  BY DEF SessionIds, ClientSessions
<1>4. /\ DOMAIN worlds' = SessionIds
      /\ \A s \in SessionIds : worlds'[s] = IF s = t THEN V ELSE worlds[s]
  BY <1>1, <1>3 DEF Configure, WorldsOK
<1>5. DOMAIN V = Templates /\ V[t] = Instantiate(t)
      /\ \A u \in Templates : V[u] \in WorldOf(u) \cup {NoWorld}
  BY <1>2
<1> HIDE DEF V
<1>6. WorldsOK(worlds') /\ worlds'[t][t] # NoWorld
  BY <1>1, <1>2, <1>3, <1>4, <1>5 DEF WorldsOK
<1>7. current' = [sess |-> t, tmpl |-> t] /\ templates' = templates /\ tick' = tick
  BY DEF Configure
<1>8. current'.sess = t /\ current'.tmpl = t /\ current' \in [sess : SessionIds, tmpl : Templates]
  BY <1>3, <1>7
<1>9. TypeOK'
  BY <1>1, <1>6, <1>7, <1>8 DEF TypeOK, WorldsOK
<1>10. Kept
  BY <1>3, <1>4, ClientsAreSessions DEF Kept
<1> QED BY <1>8, <1>9, <1>10 DEF IInv, CurrentOwned

LEMMA StepKeeps == IInv /\ [Next]_vars => IInv' /\ Kept
<1> SUFFICES ASSUME IInv, [Next]_vars PROVE IInv' /\ Kept
  OBVIOUS
<1>0. tick \in Nat
  BY DEF IInv, TypeOK
<1>1. ASSUME NEW s \in Sessions, SubmitAction(s) PROVE IInv' /\ Kept
  BY <1>0, <1>1, EnsureStep DEF SubmitAction
<1>2. ASSUME NEW s \in Sessions, QueryWorldState(s) PROVE IInv' /\ Kept
  BY <1>0, <1>2, EnsureStep DEF QueryWorldState
<1>3. ASSUME NEW c \in Movers, NEW r \in Rooms, AddCharacter(c, r) PROVE IInv' /\ Kept
  BY <1>3, AddStep
<1>4. ASSUME NEW c \in Movers, NEW t \in Templates, RemoveCharacter(c, t)
      PROVE  IInv' /\ Kept
  BY <1>4, RemoveStep
<1>5. ASSUME NEW c \in Movers, NEW r \in Rooms, NEW t \in Templates, MoveCharacter(c, r, t)
      PROVE  IInv' /\ Kept
  BY <1>5, MoveStep
<1>6. ASSUME NEW t \in Templates, Configure(t) PROVE IInv' /\ Kept
  BY <1>6, ConfigureStep
<1>7. ASSUME UNCHANGED vars PROVE IInv' /\ Kept
  BY <1>7 DEF vars, IInv, TypeOK, CurrentOwned, CurrentWorld, Kept
<1> QED BY <1>1, <1>2, <1>3, <1>4, <1>5, <1>6, <1>7 DEF Next

\* Which rooms the current world has depends on its template alone.
LEMMA CurrentRooms == TypeOK => DOMAIN CurrentWorld = RoomsOf(current.tmpl)
<1> SUFFICES ASSUME TypeOK PROVE DOMAIN CurrentWorld = RoomsOf(current.tmpl)
  OBVIOUS
<1>1. current.sess \in SessionIds /\ current.tmpl \in Templates
  BY DEF TypeOK
<1>2. CurrentWorld \in WorldOf(current.tmpl)
  BY <1>1 DEF TypeOK, CurrentWorld
<1> QED BY <1>2 DEF WorldOf

\* While the current template stays, so does what a client session is told of a deed.
LEMMA SameReply ==
    ASSUME IInv, IInv', Kept, current'.tmpl = current.tmpl,
           NEW s \in ClientSessions, worlds[s][Dungeon] # NoWorld, NEW d \in Deeds
    PROVE  Reply(s, d)' = Reply(s, d)
<1>1. DOMAIN CurrentWorld = RoomsOf(current.tmpl)
  BY CurrentRooms DEF IInv
<1>2. (DOMAIN CurrentWorld)' = RoomsOf(current.tmpl)
  <2>1. current'.sess \in SessionIds /\ current'.tmpl \in Templates
    BY DEF IInv, TypeOK
  <2>2. worlds'[current'.sess][current'.tmpl] \in WorldOf(current'.tmpl)
    BY <2>1 DEF IInv, TypeOK
  <2>3. DOMAIN worlds'[current'.sess][current'.tmpl] = RoomsOf(current'.tmpl)
    BY <2>2 DEF WorldOf
  <2> QED BY <2>3 DEF CurrentWorld
<1>3. worlds'[s][Dungeon] = worlds[s][Dungeon]
  BY TemplateAssumption DEF Kept
<1>4. (DOMAIN CurrentWorld)' = DOMAIN CurrentWorld
  BY <1>1, <1>2
<1> QED BY <1>3, <1>4 DEF Reply, Consequences, FeedOf, Barrier

------------------------------------------------------------------------------------
\* The templates, the worlds of every session and the current world keep their shape, and
\* the current world exists and is never a client's, whichever endpoints are called.
THEOREM Invariance == Spec => []IInv
BY InitIInv, StepKeeps, PTL DEF Spec

THEOREM TypeCorrect == Spec => []TypeOK
<1>1. IInv => TypeOK
  BY DEF IInv
<1> QED BY <1>1, Invariance, PTL

\* FR-001 isolation of the data: once a client session has its world, nothing done in
\* another session and no world management endpoint changes it.
THEOREM Isolation == Spec => SessionsIsolated
<1>1. IInv /\ [Next]_vars => [Kept]_vars
  BY StepKeeps
<1>2. Kept = \A s \in ClientSessions, t \in Templates :
                worlds[s][t] # NoWorld => worlds'[s][t] = worlds[s][t]
  BY DEF Kept
<1>3. Spec => [][Kept]_vars
  BY <1>1, Invariance, PTL DEF Spec
<1> QED BY <1>2, <1>3 DEF SessionsIsolated, Kept

\* What a client session is told of an action changes only with the template of the
\* current world.
THEOREM FeedsStable == Spec => FeedsChangeOnlyByConfigure
<1> DEFINE Stable == \A s \in ClientSessions :
        worlds[s][Dungeon] # NoWorld /\ current'.tmpl = current.tmpl =>
            \A d \in Deeds : Reply(s, d)' = Reply(s, d)
<1>1. IInv /\ IInv' /\ [Next]_vars => [Stable]_vars
  BY StepKeeps, SameReply
<1>2. Spec => [][Stable]_vars
  BY <1>1, Invariance, PTL DEF Spec
<1> QED BY <1>2 DEF FeedsChangeOnlyByConfigure

\* Words reach only who is found in the actor's room, and a whisper's only its target.
THEOREM Earshot == Spec => []OnlyEarshot
<1>1. ASSUME NEW w, NEW d \in Deeds, NEW k \in Consequences(w, d.kind, d.actor, d.target),
             k.feed.words
      PROVE  /\ d.actor \in Present(w) /\ RoomOf(w, k.to) = RoomOf(w, d.actor)
             /\ d.kind = "whisper" => k.to \in {d.actor, d.target}
  <2>1. k.feed = FeedOf(w, d.kind, d.actor, d.target, k.to)
    BY DEF Consequences
  <2> DEFINE barrier == IF d.actor \in Present(w)
                        THEN Barrier(RoomOf(w, d.actor), RoomOf(w, k.to)) ELSE "wall"
  <2>2. k.feed = Evaluate(d.kind, barrier, d.actor = k.to, k.to = d.target)
    BY <2>1 DEF FeedOf
  <2>3. barrier # "wall"
    BY <1>1, <2>2 DEF Evaluate
  <2>4. d.actor = k.to \/ barrier = "none"
    BY <1>1, <2>2, <2>3 DEF Evaluate, Barrier
  <2>5. barrier = "none" => RoomOf(w, k.to) = RoomOf(w, d.actor)
    BY <2>3 DEF Barrier
  <2>6. d.kind = "whisper" => k.to \in {d.actor, d.target}
    BY <1>1, <2>2, <2>3 DEF Evaluate
  <2> QED BY <2>3, <2>4, <2>5, <2>6
<1>2. OnlyEarshot
  BY <1>1 DEF OnlyEarshot
<1> QED BY <1>2, PTL
==================================================================================
