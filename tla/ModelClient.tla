---------------------------------- MODULE ModelClient ----------------------------------
(***************************************************************************)
(* LemonadeLLMClient.generate_stream: one call of the language model for each *)
(* chat turn.  The chat endpoint sends reasoning and content apart; the client *)
(* merges both into one text in which <ctrl94> tags mark the reasoning, which  *)
(* is what MonologueStreamParser splits again.  A backend without that         *)
(* endpoint (404) is asked through the legacy one; whatever raises ends the    *)
(* text with a canned thought and answer.                                      *)
(***************************************************************************)
EXTENDS Integers, Sequences

CONSTANTS Turns,      \* chat turns, one call each
          MaxPieces   \* bound on the pieces of a text, for TLC

ASSUME MaxPiecesAssumption == MaxPieces \in Nat

VARIABLES call,       \* where the call is
          endpoint,
          inReasoning,
          sent        \* the pieces yielded so far

clientVars == <<call, endpoint, inReasoning, sent>>

Pieces == {"open", "reason", "close", "content", "error"}

ClientTypeOK ==
    /\ call \in [Turns -> {"idle", "post", "stream", "done"}]
    /\ endpoint \in [Turns -> {"chat", "legacy"}]
    /\ inReasoning \in [Turns -> BOOLEAN]
    /\ sent \in [Turns -> Seq(Pieces)]

ClientInit ==
    /\ call = [q \in Turns |-> "idle"]
    /\ endpoint = [q \in Turns |-> "chat"]
    /\ inReasoning = [q \in Turns |-> FALSE]
    /\ sent = [q \in Turns |-> <<>>]

Go(q, place) == call' = [call EXCEPT ![q] = place]
Send(q, pieces) == sent' = [sent EXCEPT ![q] = @ \o pieces]

\* The call is made: GET /models (whose failure is ignored) and the request.
StartCall(q) ==
    /\ call[q] = "idle"
    /\ Go(q, "post")
    /\ UNCHANGED <<endpoint, inReasoning, sent>>

\* POST /chat/completions is answered 200, or 404 and then POST /completions is.
Accepted(q, place) ==
    /\ call[q] = "post" /\ Go(q, "stream")
    /\ endpoint' = [endpoint EXCEPT ![q] = place]
    /\ UNCHANGED <<inReasoning, sent>>

\* Another status, or another than 200 after the 404.
Refused(q) ==
    /\ call[q] = "post" /\ Go(q, "done")
    /\ Send(q, <<"error">>)
    /\ UNCHANGED <<endpoint, inReasoning>>

Streaming(q, place) == call[q] = "stream" /\ endpoint[q] = place

\* What one event of the chat endpoint adds.
Reasoning(q) == IF inReasoning[q] THEN <<"reason">> ELSE <<"open", "reason">>

\* Mutant: an event that has both is taken for reasoning.
ThoughtsFirst(q, thinks, speaks) ==
    /\ Send(q, (IF thinks THEN Reasoning(q) ELSE <<>>) \o (IF speaks THEN <<"content">> ELSE <<>>))
    /\ inReasoning' = [inReasoning EXCEPT ![q] = @ \/ thinks]

\* An event has reasoning, content or both: each switch from one to the other gets its
\* tag.  An event with neither, or that is no JSON, adds nothing.
Tagged(q, thinks, speaks) ==
    /\ Send(q, (IF thinks THEN Reasoning(q) ELSE <<>>)
               \o (IF speaks /\ (thinks \/ inReasoning[q]) THEN <<"close">> ELSE <<>>)
               \o (IF speaks THEN <<"content">> ELSE <<>>))
    /\ inReasoning' = [inReasoning EXCEPT ![q] = (@ \/ thinks) /\ ~speaks]

ChatEvent(q, thinks, speaks) ==
    /\ Streaming(q, "chat") /\ Len(sent[q]) < MaxPieces
    /\ thinks \/ speaks
    /\ Tagged(q, thinks, speaks)
    /\ UNCHANGED <<call, endpoint>>

\* [DONE], or the end of the response.
Closing(q) == IF inReasoning[q] THEN <<"close">> ELSE <<>>

ChatEnd(q) ==
    /\ Streaming(q, "chat") /\ Go(q, "done")
    /\ Send(q, Closing(q))
    /\ UNCHANGED <<endpoint, inReasoning>>

\* An event of the legacy endpoint: its content or else its reasoning, untagged.
LegacyEvent(q, piece) ==
    /\ Streaming(q, "legacy") /\ Len(sent[q]) < MaxPieces
    /\ Send(q, <<piece>>)
    /\ UNCHANGED <<call, endpoint, inReasoning>>

LegacyEnd(q) ==
    /\ Streaming(q, "legacy") /\ Go(q, "done")
    /\ UNCHANGED <<endpoint, inReasoning, sent>>

\* No connection, a read that takes 120 s, a broken response: the canned text.
Mock == <<"open", "reason", "close", "content">>

Broken(q) ==
    /\ call[q] \in {"post", "stream"} /\ Go(q, "done")
    /\ Send(q, Mock)
    /\ UNCHANGED <<endpoint, inReasoning>>

ClientStep(q) ==
    \/ \E place \in {"chat", "legacy"} : Accepted(q, place)
    \/ Refused(q)
    \/ \E thinks, speaks \in BOOLEAN : ChatEvent(q, thinks, speaks)
    \/ ChatEnd(q)
    \/ \E piece \in {"reason", "content"} : LegacyEvent(q, piece)
    \/ LegacyEnd(q)
    \/ Broken(q)

------------------------------------------------------------------------------------
\* The text between tags: the last tag before place i opens.
Inside(text, i) ==
    \E j \in 1 .. i - 1 : text[j] = "open" /\ \A k \in j + 1 .. i - 1 : text[k] # "close"

\* Reasoning stays between the tags and content outside of them however the events mix
\* them, and no text that has ended, even in a failure, leaves a tag open that would
\* swallow what the client is to see.  (The legacy endpoint's reasoning has no tags.)
ReasoningMarked ==
    \A q \in Turns :
        /\ \A i \in DOMAIN sent[q] :
            /\ sent[q][i] = "reason" /\ endpoint[q] = "chat" => Inside(sent[q], i)
            /\ sent[q][i] \in {"content", "error"} => ~Inside(sent[q], i)
        /\ call[q] = "done" => ~Inside(sent[q], Len(sent[q]) + 1)
========================================================================================
