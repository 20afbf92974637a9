----------------------------------- MODULE ChatTurn -----------------------------------
(***************************************************************************)
(* A chat turn of proxy/api/routes.py up to its reply: the words of the user    *)
(* go to the world service (EvenniaWorldClient.submit_action) over a connection *)
(* that may fail or be too slow, what the target character perceives of them is *)
(* picked from its answer, and the model is called with that.  World            *)
(* management goes on meanwhile.  What is stored of a turn is in ChatMemory.    *)
(***************************************************************************)
EXTENDS World, ModelClient

CONSTANTS User,       \* "user": the actor of every turn
          NoTarget,   \* "default": no character was found in the request
          MaxManaged, \* bound on the world management requests, for TLC
          NoFeed

Targets == (Chars \ {User}) \cup {NoTarget}

ASSUME MaxManagedAssumption == MaxManaged \in Nat
ASSUME UserAssumption == User \in Chars /\ NoTarget \notin Chars

VARIABLES pc,         \* where the turn is
          session, target,
          wire,       \* what travels between the proxy and the world service
          reply,      \* the service's answer, as it was made
          apart,      \* the user and the target were in different rooms then
          heard,      \* the turn was routed with that answer
          feed,       \* sensory_feed and gating_level
          managed     \* the world management requests so far

turnVars == <<pc, session, target, wire, reply, apart, heard, feed>>
chatVars == <<vars, clientVars, turnVars, managed>>

Feeds == [level : {"direct", "degraded"}, words : BOOLEAN]
ASSUME NoFeedAssumption == NoFeed \notin Feeds

Answers == [to : Chars, at : Rooms, feed : Feeds]

ChatTypeOK ==
    /\ TypeOK /\ ClientTypeOK
    /\ pc \in [Turns -> {"idle", "waiting", "model"}]
    /\ session \in [Turns -> Sessions] /\ target \in [Turns -> Targets]
    /\ wire \in [Turns -> {"none", "request", "reply"}]
    /\ reply \in [Turns -> SUBSET Answers] 
    /\ {apart, heard} \subseteq [Turns -> BOOLEAN]
    /\ \A q \in Turns : feed[q] \in Feeds \cup {NoFeed} /\ (feed[q] = NoFeed <=> pc[q] # "model")
    /\ managed \in 0 .. MaxManaged

ChatInit ==
    /\ Init /\ ClientInit
    /\ pc = [q \in Turns |-> "idle"]
    /\ session \in [Turns -> Sessions] /\ target \in [Turns -> Targets]
    /\ wire = [q \in Turns |-> "none"]
    /\ reply = [q \in Turns |-> {}] 
    /\ apart = [q \in Turns |-> FALSE] /\ heard = [q \in Turns |-> FALSE]
    /\ feed = [q \in Turns |-> NoFeed] /\ managed = 0

\* chat_completions: the request is under way to the world service.
Ask(q) ==
    /\ pc[q] = "idle"
    /\ pc' = [pc EXCEPT ![q] = "waiting"]
    /\ wire' = [wire EXCEPT ![q] = "request"]
    /\ UNCHANGED <<vars, clientVars, session, target, reply, apart, heard, feed>>

\* The user and the target are in different rooms.
Apart(w, g) == {User, g} \subseteq Present(w) /\ RoomOf(w, User) # RoomOf(w, g)

\* The service takes the action, even if nobody waits for its answer any more.
ServiceActs(q) ==
    /\ wire[q] = "request"
    /\ SubmitAction(session[q])
    /\ LET w == SessionWorld(session[q]) IN
        /\ apart' = [apart EXCEPT ![q] = Apart(w, target[q])]
        /\ reply' = [reply EXCEPT ![q] =
            {[to |-> k.to, at |-> RoomOf(w, k.to), feed |-> k.feed] :
                k \in Consequences(w, "speak", User, target[q])}]
    /\ wire' = [wire EXCEPT ![q] = "reply"]
    /\ UNCHANGED <<clientVars, pc, session, target, heard, feed>>

\* The request or its answer is lost.
Lose(q) ==
    /\ wire[q] # "none"
    /\ wire' = [wire EXCEPT ![q] = "none"]
    /\ UNCHANGED <<vars, clientVars, pc, session, target, reply, apart, heard, feed>>

\* The answers of the room that comes first, which the loop sees first.
Foremost(answers) == {k \in answers : \A j \in answers : Rank[k.at] <= Rank[j.at]}

\* Mutant: the first consequence, whoever it is for.
TakeFirst(answers, g) == Foremost(answers)

\* The consequence for the target, or the first one if there is no target, or the only
\* one whoever it is for.
Chosen(answers, g) ==
    IF g = NoTarget THEN Foremost(answers)
    ELSE {k \in answers : k.to = g \/ answers = {k}}

\* Mutant: nothing without a consequence.
NothingWithout(answers, g) ==
    IF Chosen(answers, g) = {} THEN {NoFeed} ELSE {k.feed : k \in Chosen(answers, g)}

\* Without any: the user's own text.
UserText == [level |-> "direct", words |-> TRUE]
Routed(answers, g) ==
    IF Chosen(answers, g) = {} THEN {UserText} ELSE {k.feed : k \in Chosen(answers, g)}

\* The feed is in the prompt and the model is called.  (The bypass for a feed of level
\* "null" or "blackout" is unreachable: the service leaves those out of its answers.)
Route(q, f) ==
    /\ feed' = [feed EXCEPT ![q] = f]
    /\ pc' = [pc EXCEPT ![q] = "model"]
    /\ StartCall(q)

Hear(q) ==
    /\ pc[q] = "waiting" /\ wire[q] = "reply"
    /\ wire' = [wire EXCEPT ![q] = "none"]
    /\ heard' = [heard EXCEPT ![q] = TRUE]
    /\ \E f \in Routed(reply[q], target[q]) : Route(q, f)
    /\ UNCHANGED <<vars, session, target, reply, apart>>

\* The connection fails, the status is not 200 or ten seconds have passed: submit_action
\* makes up an answer of one direct consequence for the user, which is routed to every
\* target.
GiveUp(q) ==
    /\ pc[q] = "waiting"
    /\ Route(q, UserText)
    /\ UNCHANGED <<vars, session, target, wire, reply, apart, heard>>

TurnStep(q) ==
    \/ Ask(q) \/ ServiceActs(q) \/ Lose(q) \/ Hear(q) \/ GiveUp(q)
    \/ ClientStep(q) /\ UNCHANGED <<vars, turnVars>>

\* World management, from other clients.
Manage ==
    /\ managed < MaxManaged /\ managed' = managed + 1
    /\ \/ \E c \in Movers, r \in Rooms : AddCharacter(c, r)
       \/ \E c \in Movers, t \in Templates : RemoveCharacter(c, t)
       \/ \E c \in Movers, r \in Rooms, t \in Templates : MoveCharacter(c, r, t)
       \/ \E t \in Templates : Configure(t)
    /\ UNCHANGED <<clientVars, turnVars>>

ChatNext == Manage \/ \E q \in Turns : TurnStep(q) /\ UNCHANGED managed

ChatSpec == ChatInit /\ [][ChatNext]_chatVars

\* What a prompt tells of the line: its sensory feed, and the chat history, of which the
\* line is the last message.
Prompt(q) == {feed[q], UserText}

------------------------------------------------------------------------------------
\* Properties

\* A character that the service says perceives something gets just that as the sensory
\* feed of its prompt: never what another one heard, whoever else is in earshot, whatever
\* was lost or late and however the world changed between answer and prompt.
OwnFeed ==
    \A q \in Turns : heard[q] => \A k \in reply[q] : k.to = target[q] => feed[q] = k.feed

\* "Characters can only perceive what their physical sensory organs can access"
\* (README.md:3): the prompt of a character in another room does not quote the line.
OnlyPerceivable ==
    \A q \in Turns : heard[q] /\ apart[q] => \A part \in Prompt(q) : ~part.words
=======================================================================================
