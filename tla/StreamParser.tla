-------------------------------- MODULE StreamParser --------------------------------
(***************************************************************************)
(* MonologueStreamParser (proxy/core/stream_parser.py): the model's stream    *)
(* arrives in chunks cut anywhere, even inside a tag; what is between <think>  *)
(* and </think> is kept as the character's inner monologue, the rest is        *)
(* cleaned line by line and yielded to the client.                             *)
(*                                                                             *)
(* The stream is a sequence of atoms and every buffer a sequence of positions  *)
(* in it.  "meta" stands for whatever makes the cleaner drop a line (a         *)
(* planning phrase, a leading bullet or asterisk), "warn" for                  *)
(* [GM WARNING: ...].  The tags come in three kinds, for the parser has two    *)
(* descriptions of them that differ:                                           *)
(*  - "<" "think" ">" and "</" "think" ">" are any <name> and </name> that is  *)
(*    written as in OPEN_TAGS and CLOSE_TAGS and that the regular expressions  *)
(*    have too, but for <thinking> and <reasoning>, which begin like others;   *)
(*  - "<T" "hink" ">" is such a <name> in another case: OPEN_TAG_REGEX ignores *)
(*    case, the comparison with OPEN_TAGS does not;                            *)
(*  - "<" "think" "ing" ">" is <thinking>, in OPEN_TAGS only, and              *)
(*    "</" "think" "ing" ">" is </thinking>.                                   *)
(***************************************************************************)
EXTENDS Integers, Sequences, FiniteSets

CONSTANTS Streams,      \* what the backend may send: [start: 0..1, text: atoms]
          MaxPublic,    \* max_public_tokens
          MaxMonologue  \* MAX_MONOLOGUE_TOKENS

Private == {"priv", "warn"}
Pieces == {"<", "</", "think", "ing", ">", "<T", "hink"}
Atoms == {"pub", "meta", "nl"} \cup Pieces \cup Private

\* OPEN_TAGS and CLOSE_TAGS
Listed == {<<"<", "think", ">">>, <<"<", "think", "ing", ">">>,
           <<"</", "think", ">">>, <<"</", "think", "ing", ">">>}

ASSUME StreamAssumption == \A s \in Streams : s.start \in {0, 1} /\ s.text \in Seq(Atoms)
ASSUME LimitAssumption == MaxPublic \in Nat /\ MaxMonologue \in Nat

\* Where a tag starts in the text x, of whatever kind.
OpenAt(x, i) ==
    /\ i + 1 \in DOMAIN x
    /\ (x[i] = "<" /\ x[i + 1] = "think") \/ (x[i] = "<T" /\ x[i + 1] = "hink")
CloseAt(x, i) == i + 1 \in DOMAIN x /\ x[i] = "</" /\ x[i + 1] = "think"

\* The private words are those of the scratchpads: the last tag before each of them is an
\* open tag (or there is none, and the prompt has opened the scratchpad), and ends there.
ASSUME PrivateAssumption ==
    \A s \in Streams : \A p \in DOMAIN s.text : s.text[p] \in Private =>
        /\ s.start = 1 => \E o \in 1 .. p : OpenAt(s.text, o)
        /\ \A c \in 1 .. p : CloseAt(s.text, c) => \E o \in c .. p : OpenAt(s.text, o)
        /\ \A o \in 1 .. p : OpenAt(s.text, o) => \E g \in o .. p : s.text[g] = ">"

VARIABLES text,         \* the stream of this turn
          fed, cuts,    \* the atoms received, and where chunks ended
          state,        \* 1: public dialogue, 0: monologue
          buffer,       \* _stream_buffer
          line,         \* _line_buffer
          monologue,    \* inner_monologue_buffer
          sections,     \* _monologue_sections, one after the other
          monoTokens,   \* monologue_token_count
          publicTokens, \* public_token_count
          truncated,    \* is_public_truncated
          failsafe,     \* is_failsafe_triggered
          passthrough,
          shown,        \* public_response_buffer: what was yielded, but for the warning
          warned,       \* the GM warning was yielded at the end
          pc, next      \* where the parser is, and where it goes after the lines

input == <<text, fed, cuts>>
tags == <<state, buffer, monologue, sections, monoTokens>>
output == <<publicTokens, truncated, shown>>
modes == <<failsafe, passthrough, warned>>
vars == <<input, tags, line, output, modes, pc, next>>

Places == Seq(1 .. Len(text))

TypeOK ==
    /\ text \in Seq(Atoms) /\ fed \in 0 .. Len(text) /\ cuts \subseteq 1 .. fed
    /\ state \in {0, 1}
    /\ \A t \in {buffer, line, monologue, sections, shown} : t \in Places
    /\ monoTokens \in Nat /\ publicTokens \in Nat
    /\ {truncated, failsafe, passthrough, warned} \subseteq BOOLEAN
    /\ pc \in {"read", "scan", "lines", "final", "done"}
    /\ next \in {"read", "enter", "final"}

------------------------------------------------------------------------------------
\* Text

Is(t, i, a) == i \in DOMAIN t /\ text[t[i]] = a
Least(S) == CHOOSE i \in S : \A j \in S : i <= j

\* Where the regular expressions find a tag in the text at the positions t.  They need no
\* ">", but "<think\b" is not in "<thinking"; "</think" is in "</thinking".
OpenTags(t) ==
    {i \in DOMAIN t :
        \/ Is(t, i, "<") /\ Is(t, i + 1, "think") /\ ~Is(t, i + 2, "ing")
        \/ Is(t, i, "<T") /\ Is(t, i + 1, "hink")}
CloseTags(t) == {i \in DOMAIN t : Is(t, i, "</") /\ Is(t, i + 1, "think")}

\* Where the tag at i ends: "[^>]*>?" takes an open tag up to the next ">", or all there
\* is; a close tag takes a ">" that follows.
OpenEnd(t, i) ==
    LET ends == {j \in i .. Len(t) : Is(t, j, ">")}
    IN IF ends = {} THEN Len(t) ELSE Least(ends)
CloseEnd(t, i) == IF Is(t, i + 2, ">") THEN i + 2 ELSE i + 1

Before(t, i) == SubSeq(t, 1, i - 1)
After(t, i) == SubSeq(t, i + 1, Len(t))

\* What is left of t at the places K, in its order.
Rank(K, i) == Cardinality({j \in K : j <= i})
Only(t, K) == [k \in 1 .. Cardinality(K) |-> t[CHOOSE i \in K : Rank(K, i) = k]]

\* Where <thinking> starts in t: only the list of the tags knows it.
ListedTags(t) ==
    {i \in DOMAIN t : \A k \in 0 .. 3 : Is(t, i + k, <<"<", "think", "ing", ">">>[k + 1])}

\* The text without the tags that are found, and without those that are listed.
Untagged(t) ==
    LET pieces == (UNION {i .. OpenEnd(t, i) : i \in OpenTags(t)})
                    \cup (UNION {i .. CloseEnd(t, i) : i \in CloseTags(t)})
                    \cup (UNION {i .. i + 3 : i \in ListedTags(t)})
    IN Only(t, DOMAIN t \ pieces)

\* Mutant: no part of a tag waits for the next chunk.
NoCarry(t) == Len(t) + 1

\* From i on, t is the first part of the tag.
StartsTag(t, i, tag) ==
    /\ Len(t) - i + 1 < Len(tag)
    /\ \A k \in i .. Len(t) : Is(t, k, tag[k - i + 1])

\* _process_public_text: where the part of a listed tag at the end of t begins, which
\* waits for the next chunk.
Partial(t) ==
    Least({i \in DOMAIN t : \E tag \in Listed : StartsTag(t, i, tag)} \cup {Len(t) + 1})

\* Mutant: the gaps between the words are counted.
WordGaps(t) == Cardinality({i \in DOMAIN t : ~Is(t, i, "nl")}) - 1

\* The words of a text as the limits count them; an empty text counts for one.
Words(t) ==
    LET n == Cardinality({i \in DOMAIN t : ~Is(t, i, "nl")}) IN IF n = 0 THEN 1 ELSE n

\* The line at the places S of t is meta-commentary, or starts like a quotation.
IsMeta(t, S) ==
    S # {} /\ (Is(t, Least(S), ">") \/ \E i \in S : Is(t, i, "meta"))

\* The places of the line of t that i is in; a newline is in the line it ends.
LineAt(t, i) == {j \in DOMAIN t : \A k \in (i .. j - 1) \cup (j .. i - 1) : ~Is(t, k, "nl")}

\* _strip_monologue_bleed: the text without its tags and without such lines.
WithoutBleed(t) ==
    LET u == Untagged(t) IN
    Only(u, {i \in DOMAIN u : ~IsMeta(u, LineAt(u, i))})

------------------------------------------------------------------------------------
Init ==
    /\ \E s \in Streams : text = s.text /\ state = s.start
    /\ fed = 0 /\ cuts = {}
    /\ buffer = <<>> /\ line = <<>> /\ monologue = <<>> /\ sections = <<>> /\ shown = <<>>
    /\ monoTokens = 0 /\ publicTokens = 0
    /\ truncated = FALSE /\ failsafe = FALSE /\ passthrough = FALSE /\ warned = FALSE
    /\ pc = "read" /\ next = "read"

\* Mutant: the flag is set but the loop goes on.
YieldAndGoOn(t, goOn) ==
    /\ publicTokens' = publicTokens + Words(t)
    /\ shown' = shown \o t
    /\ truncated' = (publicTokens' >= MaxPublic)
    /\ pc' = goOn

\* _check_public_limit and a yield of t; the stream stops at the limit.
Yield(t, goOn) ==
    /\ publicTokens' = publicTokens + Words(t)
    /\ shown' = shown \o t
    /\ truncated' = (publicTokens' >= MaxPublic)
    /\ pc' = IF truncated' THEN "final" ELSE goOn

\* The next chunk: n more atoms.
Read(n) ==
    LET chunk == [i \in 1 .. n |-> fed + i] IN
    /\ pc = "read" /\ fed + n <= Len(text)
    /\ fed' = fed + n /\ cuts' = cuts \cup {fed + n}
    /\ IF passthrough
       THEN Yield(buffer \o chunk, "read") /\ buffer' = <<>>
       ELSE buffer' = buffer \o chunk /\ pc' = "scan" /\ UNCHANGED output
    /\ UNCHANGED <<text, state, monologue, sections, monoTokens, line, modes, next>>

\* Public text up to an open tag: its lines first, all of them.
FindOpenTag ==
    /\ pc = "scan" /\ state = 1 /\ OpenTags(buffer) # {}
    /\ LET i == Least(OpenTags(buffer)) IN
        /\ line' = line \o Before(buffer, i)
        /\ buffer' = After(buffer, OpenEnd(buffer, i))
    /\ pc' = "lines" /\ next' = "enter"
    /\ UNCHANGED <<input, state, monologue, sections, monoTokens, output, modes>>

\* Mutant: "carry or buffer": without a part of a tag the buffer is not emptied.
KeepBuffer ==
    /\ pc = "scan" /\ state = 1 /\ OpenTags(buffer) = {}
    /\ line' = line \o Before(buffer, Partial(buffer))
    /\ buffer' = IF Partial(buffer) > Len(buffer) THEN buffer
                 ELSE After(buffer, Partial(buffer) - 1)
    /\ pc' = "lines" /\ next' = "read"
    /\ UNCHANGED <<input, state, monologue, sections, monoTokens, output, modes>>

\* Public text only: its complete lines, and part of a tag is kept for the next chunk.
NoOpenTag ==
    /\ pc = "scan" /\ state = 1 /\ OpenTags(buffer) = {}
    /\ line' = line \o Before(buffer, Partial(buffer))
    /\ buffer' = After(buffer, Partial(buffer) - 1)
    /\ pc' = "lines" /\ next' = "read"
    /\ UNCHANGED <<input, state, monologue, sections, monoTokens, output, modes>>

\* Mutant: a line that the end of the stream cuts off is not flushed.
FlushAtTags == next = "enter"

\* force_flush of _process_public_output: what has no newline yet is taken too.
Flush == next # "read"

\* The newlines of the line buffer.
LineEnds == {i \in DOMAIN line : Is(line, i, "nl")}

\* _process_public_output and the loop over its result: the next line is cleaned, and
\* dropped or yielded.
NextLine ==
    /\ pc = "lines"
    /\ LineEnds # {} \/ (Flush /\ line # <<>>)
    /\ LET n == IF LineEnds = {} THEN Len(line) ELSE Least(LineEnds)
           clean == Untagged(SubSeq(line, 1, n))
       IN /\ line' = After(line, n)
          /\ \/ IsMeta(clean, DOMAIN clean) /\ UNCHANGED <<output, pc>>
             \/ ~IsMeta(clean, DOMAIN clean) /\ Yield(clean, "lines")
    /\ UNCHANGED <<input, tags, modes, next>>

NoMoreLines ==
    /\ pc = "lines"
    /\ LineEnds = {} /\ (Flush => line = <<>>)
    /\ pc' = IF next = "enter" THEN "scan" ELSE next
    /\ state' = IF next = "enter" THEN 0 ELSE state
    /\ UNCHANGED <<input, buffer, monologue, sections, monoTokens, line, output, modes, next>>

\* Mutant: what earlier chunks left in the buffer is not part of the section.
LastChunkOnly(pre) == Untagged(pre)

\* The text of a monologue section that ends with pre.
Section(pre) == Untagged(monologue \o pre)

\* The monologue ends here.
FindCloseTag ==
    /\ pc = "scan" /\ state = 0 /\ CloseTags(buffer) # {}
    /\ LET i == Least(CloseTags(buffer)) IN
        /\ sections' = sections \o Section(Before(buffer, i))
        /\ buffer' = After(buffer, CloseEnd(buffer, i))
    /\ monologue' = <<>>
    /\ state' = 1
    /\ UNCHANGED <<input, monoTokens, line, output, modes, pc, next>>

\* More monologue: all of the buffer, part of a close tag too.  Beyond the limit the
\* monologue is shown, and the rest of the stream passes unparsed.
NoCloseTag ==
    /\ pc = "scan" /\ state = 0 /\ CloseTags(buffer) = {}
    /\ buffer' = <<>>
    /\ monoTokens' = monoTokens + Words(buffer)
    /\ \/ /\ monoTokens' <= MaxMonologue
          /\ monologue' = monologue \o buffer
          /\ UNCHANGED <<state, sections, shown, failsafe, passthrough>>
       \/ /\ monoTokens' > MaxMonologue
          /\ sections' = sections \o Section(buffer)
          /\ shown' = shown \o Section(buffer)
          /\ monologue' = <<>>
          /\ state' = 1 /\ failsafe' = TRUE /\ passthrough' = TRUE
    /\ pc' = "read"
    /\ UNCHANGED <<input, line, publicTokens, truncated, warned, next>>

\* The backend is done, or stops early: what is left of the public text is flushed.
EndOfStream ==
    /\ pc = "read"
    /\ line' = IF state = 1 THEN line \o buffer ELSE line
    /\ monologue' = IF state = 0 THEN monologue \o buffer ELSE monologue
    /\ buffer' = <<>>
    /\ pc' = IF state = 1 THEN "lines" ELSE "final"
    /\ next' = "final"
    /\ UNCHANGED <<input, state, sections, monoTokens, output, modes>>

\* Mutant: match where the code searches.
WarningFirst(t) == Is(t, 1, "warn")

HasWarning(t) == \E i \in DOMAIN t : Is(t, i, "warn")

\* The finally block: an unfinished monologue is kept, and shown if nothing else was (no
\* close tag is left in it to tell a public part); a GM warning is shown in any case.
Finish ==
    /\ pc = "final"
    /\ LET rest == IF state = 0 THEN Untagged(monologue) ELSE <<>>
           default == rest # <<>> /\ shown = <<>>
       IN /\ sections' = sections \o rest
          /\ failsafe' = (failsafe \/ default)
          /\ shown' = IF default THEN WithoutBleed(rest) ELSE shown
          /\ warned' = HasWarning(sections')
    /\ monologue' = IF state = 0 THEN <<>> ELSE monologue
    /\ state' = IF monologue = <<>> THEN state ELSE 1
    /\ pc' = "done"
    /\ UNCHANGED <<input, buffer, monoTokens, line, publicTokens, truncated, passthrough, next>>

Next ==
    \/ \E n \in 1 .. Len(text) - fed : Read(n)
    \/ FindOpenTag \/ NoOpenTag
    \/ NextLine \/ NoMoreLines
    \/ FindCloseTag \/ NoCloseTag
    \/ EndOfStream \/ Finish

Spec == Init /\ [][Next]_vars

------------------------------------------------------------------------------------
\* Properties

Shown(K) == {p \in 1 .. Len(text) : text[p] \in K /\ \E i \in DOMAIN shown : shown[i] = p}
Kept == {sections[i] : i \in DOMAIN sections}

\* The parser knows the open tags of this stream: none is <thinking>, and no chunk ended
\* inside one that is not written as in OPEN_TAGS.
TagsKnown == \A p \in 1 .. Len(text) : text[p] # "ing" /\ (text[p] = "<T" => p \notin cuts)

\* However the stream is cut into chunks, no private word behind a known tag reaches the
\* client unless the fail-safe was triggered.
NoBleed == TagsKnown /\ Shown(Private) # {} => failsafe

\* The client gets the words of the stream in their order and none of them twice: not
\* when part of a tag waits for the next chunk, not when a line is flushed by a tag or by
\* the end, not when the fail-safe replays the monologue.
InOrder == \A i, j \in DOMAIN shown : i < j => shown[i] < shown[j]

\* No private word that was received is lost: in the end it is part of the monologue
\* (which becomes the turn's inner_monologue), or it was shown.  (Behind an unknown tag it
\* may be in a line that is dropped.)
ThoughtsKept ==
    pc = "done" /\ ~truncated /\ TagsKnown =>
        \A p \in 1 .. fed : text[p] \in Private => p \in Kept \cup Shown(Private)

\* A GM warning of a monologue is "successfully communicated to the player"
\* (v0.3_release_notes.md:8), wherever the stream stops and whatever was truncated: only
\* what was never parsed, or parsed as public text behind an unknown tag, is not.
WarningDelivered ==
    pc = "done" /\ TagsKnown
        /\ (\E p \in 1 .. fed : text[p] = "warn" /\ \A i \in DOMAIN buffer : buffer[i] # p)
        => warned \/ Shown({"warn"}) # {}

\* No chunk of this turn ended inside a close tag.
CloseTagsWhole ==
    \A i \in 1 .. Len(text) : text[i] = "</" => cuts \cap {i, i + 1} = {}

\* The public line of position p as far as it was received: up to a newline or a tag.
PublicLine(p) ==
    {q \in 1 .. fed : \A r \in 1 .. fed :
        (p <= r /\ r < q) \/ (q <= r /\ r < p) => text[r] \notin {"nl", "<", "<T", ">"}}

\* Behind b, up to the next open tag, the text x is public: no part of a tag is in it.
PublicFrom(x, b) ==
    \A p \in b + 1 .. Len(x) : (\A o \in b + 1 .. p : ~OpenAt(x, o)) =>
        x[p] \notin {"<", "<T", ">"} /\ ~CloseAt(x, p)

\* Behind b, up to the next close tag, it is the model's thoughts.
ThoughtFrom(x, b) ==
    \A p \in b + 1 .. Len(x) : (\A c \in b + 1 .. p : ~CloseAt(x, c)) => x[p] # "pub"

\* The streams the backend is asked for: whole tags, public text and thoughts by turns.
WellFormed(s) ==
    /\ s.start = 1 => PublicFrom(s.text, 0)
    /\ s.start = 0 => ThoughtFrom(s.text, 0)
    /\ \A i \in DOMAIN s.text : OpenAt(s.text, i) \/ CloseAt(s.text, i) =>
        /\ i + 2 \in DOMAIN s.text /\ s.text[i + 2] = ">"
        /\ OpenAt(s.text, i) => ThoughtFrom(s.text, i + 2)
        /\ CloseAt(s.text, i) => PublicFrom(s.text, i + 2)

\* The chunks do not matter as long as the open tags are known and the close tags left
\* whole: the client gets exactly the public words of the lines that are not
\* meta-commentary.
ChunksDontMatter ==
    pc = "done" /\ ~truncated /\ ~failsafe /\ TagsKnown /\ CloseTagsWhole =>
        Shown({"pub"}) = {p \in 1 .. fed : text[p] = "pub"
                            /\ \A q \in PublicLine(p) : text[q] # "meta"}

\* Once the limit is reached nothing but the GM warning is shown.
LimitFinal == [][truncated => shown' = shown]_vars

\* "Rock-solid separation between the LLM's internal scratchpad and its character
\* dialogue" (v0.3_release_notes.md:7): a stream that is received whole, closes its tags
\* and stays within the limit shows no private word.
ClosedMeansPrivate ==
    pc = "done" /\ fed = Len(text) /\ ~passthrough => Shown(Private) = {}

====================================================================================
