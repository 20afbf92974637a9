--------------------------------- MODULE Telemetry ---------------------------------
(***************************************************************************)
(* The thought streams: TelemetryCollector's ring of recent thoughts and its *)
(* subscribers (proxy/core/telemetry.py), and the SSE endpoint in between    *)
(* (stream_thoughts in proxy/api/admin_routes.py).  All of it runs in one    *)
(* asyncio process, and between two awaits nothing else happens: copying the *)
(* ring and subscribing are one step, and so are a push and a reset with all *)
(* of their deliveries.  ProxyProcess puts the steps together.               *)
(*                                                                           *)
(* Events are numbered in the order in which they are published.             *)
(***************************************************************************)
EXTENDS Integers, Sequences

CONSTANTS Viewers,      \* connections to /admin/api/v1/stream/thoughts
          RingSize,     \* maxlen of _thought_history
          MaxEvents     \* bound on the number of events, for TLC

ASSUME RingAssumption == RingSize \in Nat \ {0} /\ MaxEvents \in Nat

VARIABLES log,          \* history: the kinds of all events of this process
          ring,         \* _thought_history: numbers of events, oldest first
          streams       \* streams[k]: connection k and its queue

telemetryVars == <<log, ring, streams>>

Events == 1 .. Len(log)

\* pc: "open" once the handler has returned, "live" once its generator has begun,
\* "closing" when the client of a live stream is gone, "lost" when it went before.
\* joined: how many events there were when it connected.
\* heard: all that was ever put into the queue; taken: how much of it was sent.
Stream == [pc : {"off", "open", "live", "closing", "lost"}, joined : Nat,
           heard : Seq(Events), taken : Nat]

NoStream == [pc |-> "off", joined |-> 0, heard |-> <<>>, taken |-> 0]

TelemetryTypeOK ==
    /\ log \in Seq({"thought", "reset"})
    /\ ring \in Seq(Events) /\ Len(ring) <= RingSize
    /\ streams \in [Viewers -> Stream]

\* A new process.  hydrate_from_db fills the ring with the newest n turns of the tables.
Hydrated(n) ==
    /\ log' = [i \in 1 .. n |-> "thought"]
    /\ ring' = [i \in 1 .. n |-> i]
    /\ streams' = [k \in Viewers |-> NoStream]

------------------------------------------------------------------------------------
\* Mutant: the generator subscribes when it begins, with the replay already queued.
SubscribedOnceLive(k) == streams[k].pc \in {"live", "closing"}

\* The queue is in _thought_queues.
Subscribed(k) == streams[k].pc # "off"

\* put_nowait into every subscribed queue
Broadcast(e) ==
    streams' = [k \in Viewers |->
        IF Subscribed(k) THEN [streams[k] EXCEPT !.heard = Append(@, e)] ELSE streams[k]]

\* Mutant: a deque without maxlen.
Unbounded(s) == s

\* deque(maxlen = ...)
Newest(s) == IF Len(s) > RingSize THEN Tail(s) ELSE s

\* push_thought_event: the monologue of a turn that has ended
PushThought ==
    LET e == Len(log) + 1
    IN /\ e <= MaxEvents
       /\ log' = Append(log, "thought")
       /\ ring' = Newest(Append(ring, e))
       /\ Broadcast(e)

\* TelemetryCollector.reset, called by factory_reset
ResetTelemetry ==
    LET e == Len(log) + 1
    IN /\ e <= MaxEvents
       /\ log' = Append(log, "reset")
       /\ ring' = <<>>
       /\ Broadcast(e)

\* stream_thoughts: the replay is queued, then the queue subscribed.
OpenStream(k) ==
    /\ streams[k].pc = "off"
    /\ streams' = [streams EXCEPT ![k] =
         [pc |-> "open", joined |-> Len(log), heard |-> ring, taken |-> 0]]
    /\ UNCHANGED <<log, ring>>

\* The server takes the generator's first item.
BeginStream(k) ==
    /\ streams[k].pc = "open"
    /\ streams' = [streams EXCEPT ![k].pc = "live"]
    /\ UNCHANGED <<log, ring>>

Deliver(k) ==
    /\ streams[k].pc = "live"
    /\ streams[k].taken < Len(streams[k].heard)
    /\ streams' = [streams EXCEPT ![k].taken = @ + 1]
    /\ UNCHANGED <<log, ring>>

\* Mutant: no "finally" in the generator.
LeaveForGood(k) ==
    /\ streams[k].pc \in {"open", "live"}
    /\ streams' = [streams EXCEPT ![k].pc = "lost"]
    /\ UNCHANGED <<log, ring>>

\* The client goes away.  The "finally" of a generator that has not begun never runs:
\* its queue stays subscribed for as long as the process lives.
Leave(k) ==
    /\ streams[k].pc \in {"open", "live"}
    /\ streams' = [streams EXCEPT ![k].pc = IF @ = "live" THEN "closing" ELSE "lost"]
    /\ UNCHANGED <<log, ring>>

\* unsubscribe_thoughts
Unsubscribe(k) ==
    /\ streams[k].pc = "closing"
    /\ streams' = [streams EXCEPT ![k] = NoStream]
    /\ UNCHANGED <<log, ring>>

------------------------------------------------------------------------------------
\* Properties

\* Event i is in the ring after n events: it is one of the last, and no reset came after.
InReplay(i, n) ==
    /\ n - RingSize < i
    /\ \A j \in i .. n : log[j] = "thought"

\* The first event a viewer who connects after n events is to hear.
FirstHeard(n) == CHOOSE i \in 1 .. n + 1 : InReplay(i, n) /\ (i > 1 => ~InReplay(i - 1, n))

\* A viewer misses nothing and hears nothing twice: its queue was given the replay of the
\* moment it connected and then, in order, every event since, whatever was published or
\* reset between its request, the start of its stream and now.
StreamsContiguous ==
    \A k \in Viewers : streams[k].pc # "off" =>
        LET first == FirstHeard(streams[k].joined)
        IN streams[k].heard = [i \in 1 .. Len(log) - first + 1 |-> first + i - 1]

\* A stream that has begun cleans up behind its client, and a client that stays is sent
\* all it is owed.
StreamsServed ==
    \A k \in Viewers :
        /\ streams[k].pc \in {"live", "closing"} /\ streams[k].taken < Len(streams[k].heard)
             ~> streams[k].pc = "off" \/ streams[k].taken = Len(streams[k].heard)
        /\ streams[k].pc = "closing" ~> streams[k].pc = "off"
====================================================================================
