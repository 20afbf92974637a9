------------------------------- MODULE MCStreamParser -------------------------------
(* Streams with one or two scratchpads, all their tags closed, and streams whose tags the *)
(* parser knows only in part. *)
EXTENDS StreamParser

Open == <<"<", "think", ">">>
Close == <<"</", "think", ">">>

Intros == {<<>>, <<"pub">>, <<"pub", "nl">>, <<"meta">>, <<"pub", "nl", "meta">>}
Thoughts == {<<"priv">>, <<"priv", "warn">>, <<"meta", "nl", "priv">>}
Lines == {<<>>, <<"pub">>, <<"pub", "nl", "pub">>, <<"pub", "meta">>}

\* The scratchpad is opened by the model, or by the prompt (init_state 0).
OneScratchpad ==
    {[start |-> 1, text |-> a \o Open \o t \o Close \o b] :
        a \in Intros, t \in Thoughts, b \in Lines}
    \cup {[start |-> 0, text |-> t \o Close \o b] : t \in Thoughts, b \in Lines}
TwoScratchpads ==
    {[start |-> 0, text |-> <<"priv">> \o Close \o a \o Open \o <<"priv">> \o Close \o b] :
        a \in Lines, b \in {<<>>, <<"pub">>}}

ListedStreams == OneScratchpad \cup TwoScratchpads

\* The open tag in another case.
OtherCase ==
    {[start |-> 1, text |-> a \o <<"<T", "hink", ">">> \o t \o Close \o b] :
        a \in {<<>>, <<"pub">>, <<"meta">>}, t \in {<<"priv">>, <<"warn">>},
        b \in {<<"pub">>, <<"pub", "nl", "pub">>}}

\* <thinking>, closed by </thinking> or by another tag.
Thinking ==
    {[start |-> 1, text |-> a \o <<"<", "think", "ing", ">">> \o <<"priv">> \o c \o b] :
        a \in {<<>>, <<"pub">>}, c \in {Close, <<"</", "think", "ing", ">">>},
        b \in {<<>>, <<"pub">>}}

MCStreams == ListedStreams \cup OtherCase \cup Thinking

ASSUME StreamsWellFormed == \A s \in ListedStreams \cup OtherCase : WellFormed(s)
====================================================================================
