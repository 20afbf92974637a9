------------------------------ MODULE ChatTurnProofs ------------------------------
(***************************************************************************)
(* A turn gives its target the target's own feed, whatever world management *)
(* does meanwhile and whatever is lost, and the text of the model keeps its *)
(* reasoning between the tags: for any numbers of turns, characters, rooms  *)
(* and pieces.                                                              *)
(***************************************************************************)
EXTENDS ChatTurn, WorldProofs, SequenceTheorems, WellFoundedInduction

------------------------------------------------------------------------------------
\* The model's text, one piece after another

\* A tag is open behind the last piece.
Open(text) == Inside(text, Len(text) + 1)

\* ReasoningMarked of one text; chat: it comes from the chat endpoint.
Marked(text, chat) ==
    \A i \in 1 .. Len(text) :
        /\ text[i] = "reason" /\ chat => Inside(text, i)
        /\ text[i] \in {"content", "error"} => ~Inside(text, i)

\* Added to a text whose tag is open or not ("was"), the pieces leave it marked, and its
\* tag open or not ("is").
Moves(pieces, was, is, chat) ==
    \A text \in Seq(Pieces) :
        Marked(text, chat) /\ (Open(text) <=> was) =>
            Marked(text \o pieces, chat) /\ (Open(text \o pieces) <=> is)

\* Inside looks back only.
LEMMA InsidePrefix ==
    ASSUME NEW s \in Seq(Pieces), NEW t \in Seq(Pieces), NEW i \in 1 .. Len(s) + 1
    PROVE  Inside(s \o t, i) <=> Inside(s, i)
<1>1. Len(s) \in Nat /\ Len(t) \in Nat
  BY LenProperties
<1>2. \A j \in 1 .. Len(s) : (s \o t)[j] = s[j]
  BY <1>1, ConcatProperties
<1> QED
  BY <1>1, <1>2 DEF Inside

\* One more piece: a tag opens or closes, or all stays as it is.
LEMMA OnePiece ==
    ASSUME NEW x \in Pieces, NEW was \in BOOLEAN, NEW is \in BOOLEAN, NEW chat \in BOOLEAN,
           x = "reason" /\ chat => was,
           x \in {"content", "error"} => ~was,
           is <=> x = "open" \/ (was /\ x # "close")
    PROVE  <<x>> \in Seq(Pieces) /\ Moves(<<x>>, was, is, chat)
<1>0. <<x>> \in Seq(Pieces) /\ Len(<<x>>) = 1 /\ <<x>>[1] = x
  OBVIOUS
<1> SUFFICES ASSUME NEW text \in Seq(Pieces), Marked(text, chat), Open(text) <=> was
             PROVE  Marked(text \o <<x>>, chat) /\ (Open(text \o <<x>>) <=> is)
  BY <1>0 DEF Moves
<1> DEFINE n == Len(text)
           longer == text \o <<x>>
<1>1. /\ n \in Nat /\ Len(longer) = n + 1 /\ longer[n + 1] = x
      /\ \A i \in 1 .. n : longer[i] = text[i]
  BY <1>0, LenProperties, ConcatProperties
<1>2. \A i \in 1 .. n + 1 : Inside(longer, i) <=> Inside(text, i)
  BY <1>0, InsidePrefix
<1>3. Inside(longer, n + 1) <=> was
  BY <1>1, <1>2 DEF Open
<1>4. Marked(longer, chat)
  <2> SUFFICES ASSUME NEW i \in 1 .. n + 1
               PROVE  /\ longer[i] = "reason" /\ chat => Inside(longer, i)
                      /\ longer[i] \in {"content", "error"} => ~Inside(longer, i)
    BY <1>1 DEF Marked
  <2>1. CASE i = n + 1
    BY <1>1, <1>3, <2>1
  <2>2. CASE i # n + 1
    <3>1. i \in 1 .. n
      BY <1>1, <2>2
    <3> QED
      BY <1>1, <1>2, <3>1 DEF Marked
  <2> QED
    BY <2>1, <2>2
<1>5. Inside(longer, n + 2) <=> x = "open" \/ (Inside(longer, n + 1) /\ x # "close")
  <2> HIDE DEF n, longer
  <2>1. Inside(longer, n + 2) <=>
          \E j \in 1 .. n + 1 : longer[j] = "open" /\ \A k \in j + 1 .. n + 1 : longer[k] # "close"
    BY <1>1 DEF Inside
  <2>2. Inside(longer, n + 1) <=>
          \E j \in 1 .. n : longer[j] = "open" /\ \A k \in j + 1 .. n : longer[k] # "close"
    BY <1>1 DEF Inside
  <2>3. \A j \in 1 .. n : \A k \in j + 1 .. n + 1 : k = n + 1 \/ k \in j + 1 .. n
    BY <1>1
  <2>4. \A j \in 1 .. n : n + 1 \in j + 1 .. n + 1
    BY <1>1
  <2>5. ASSUME x = "open" PROVE Inside(longer, n + 2)
    <3>1. n + 1 \in 1 .. n + 1 /\ longer[n + 1] = "open"
      BY <1>1, <2>5
    <3>2. \A k \in (n + 1) + 1 .. n + 1 : longer[k] # "close"
      BY <1>1
    <3> QED
      BY <2>1, <3>1, <3>2
  <2>6. ASSUME Inside(longer, n + 1), x # "close" PROVE Inside(longer, n + 2)
    <3>1. PICK j \in 1 .. n : longer[j] = "open" /\ \A k \in j + 1 .. n : longer[k] # "close"
      BY <2>2, <2>6
    <3>2. \A k \in j + 1 .. n + 1 : longer[k] # "close"
      BY <1>1, <2>3, <2>6, <3>1
    <3>3. j \in 1 .. n + 1
      BY <1>1
    <3> QED
      BY <2>1, <3>1, <3>2, <3>3
  <2>7. ASSUME Inside(longer, n + 2), x # "open" PROVE Inside(longer, n + 1) /\ x # "close"
    <3>1. PICK j \in 1 .. n + 1 :
            longer[j] = "open" /\ \A k \in j + 1 .. n + 1 : longer[k] # "close"
      BY <2>1, <2>7
    <3>2. j \in 1 .. n
      BY <1>1, <2>7, <3>1
    <3>3. x # "close"
      BY <1>1, <2>4, <3>1, <3>2
    <3>4. \A k \in j + 1 .. n : k \in j + 1 .. n + 1
      BY <1>1, <3>2
    <3> QED
      BY <2>2, <3>1, <3>2, <3>3, <3>4
  <2> QED
    BY <2>5, <2>6, <2>7
<1>6. Open(longer) <=> is
  <2>1. Len(longer) + 1 = n + 2
    BY <1>1
  <2> QED
    BY <1>3, <1>5, <2>1 DEF Open
<1> QED
  BY <1>4, <1>6

\* No piece moves nothing.
LEMMA NoPiece ==
    ASSUME NEW was, NEW chat
    PROVE  <<>> \in Seq(Pieces) /\ Moves(<<>>, was, was, chat)
<1>1. \A text \in Seq(Pieces) : text \o <<>> = text
  BY ConcatEmptySeq
<1> QED
  BY <1>1 DEF Moves

\* Pieces after pieces.
LEMMA Then ==
    ASSUME NEW first \in Seq(Pieces), NEW second \in Seq(Pieces), NEW chat,
           NEW was, NEW mid \in BOOLEAN, NEW is,
           Moves(first, was, mid, chat), Moves(second, mid, is, chat)
    PROVE  first \o second \in Seq(Pieces) /\ Moves(first \o second, was, is, chat)
<1>1. first \o second \in Seq(Pieces)
  BY ConcatProperties
<1>2. ASSUME NEW text \in Seq(Pieces), Marked(text, chat), Open(text) <=> was
      PROVE  Marked(text \o (first \o second), chat) /\ (Open(text \o (first \o second)) <=> is)
  <2>1. text \o first \in Seq(Pieces)
    BY ConcatProperties
  <2>2. Marked(text \o first, chat) /\ (Open(text \o first) <=> mid)
    BY <1>2 DEF Moves
  <2>3. Marked((text \o first) \o second, chat) /\ (Open((text \o first) \o second) <=> is)
    BY <2>1, <2>2 DEF Moves
  <2>4. (text \o first) \o second = text \o (first \o second)
    BY ConcatAssociative
  <2> QED
    BY <2>3, <2>4
<1> QED
  BY <1>1, <1>2 DEF Moves

\* The canned text closes what it opens, and what was open before.
LEMMA MockMoves ==
    ASSUME NEW was \in BOOLEAN, NEW chat \in BOOLEAN
    PROVE  Mock \in Seq(Pieces) /\ Moves(Mock, was, FALSE, chat)
<1> DEFINE a == <<"open">> \o <<"reason">>
           b == a \o <<"close">>
<1>1. a \in Seq(Pieces) /\ Moves(a, was, TRUE, chat)
  <2>1. <<"open">> \in Seq(Pieces) /\ Moves(<<"open">>, was, TRUE, chat)
    BY OnePiece DEF Pieces
  <2>2. <<"reason">> \in Seq(Pieces) /\ Moves(<<"reason">>, TRUE, TRUE, chat)
    BY OnePiece DEF Pieces
  <2> QED
    BY <2>1, <2>2, Then
<1>2. b \in Seq(Pieces) /\ Moves(b, was, FALSE, chat)
  <2>1. <<"close">> \in Seq(Pieces) /\ Moves(<<"close">>, TRUE, FALSE, chat)
    BY OnePiece DEF Pieces
  <2> QED
    BY <1>1, <2>1, Then
<1>3. b \o <<"content">> \in Seq(Pieces) /\ Moves(b \o <<"content">>, was, FALSE, chat)
  <2>1. <<"content">> \in Seq(Pieces) /\ Moves(<<"content">>, FALSE, FALSE, chat)
    BY OnePiece DEF Pieces
  <2> QED
    BY <1>2, <2>1, Then
<1>4. Mock = b \o <<"content">>
  BY DEF Mock
<1> QED
  BY <1>3, <1>4

\* What one event adds.
EventPieces(q, thinks, speaks) ==
    (IF thinks THEN Reasoning(q) ELSE <<>>)
    \o (IF speaks /\ (thinks \/ inReasoning[q]) THEN <<"close">> ELSE <<>>)
    \o (IF speaks THEN <<"content">> ELSE <<>>)

\* inReasoning says whether a tag is open, after any event of the chat endpoint.
LEMMA EventMoves ==
    ASSUME NEW q, NEW thinks \in BOOLEAN, NEW speaks \in BOOLEAN, inReasoning[q] \in BOOLEAN
    PROVE  /\ EventPieces(q, thinks, speaks) \in Seq(Pieces)
           /\ Moves(EventPieces(q, thinks, speaks), inReasoning[q],
                    (inReasoning[q] \/ thinks) /\ ~speaks, TRUE)
<1> DEFINE was == inReasoning[q]
           mid == was \/ thinks
           is == mid /\ ~speaks
           first == IF thinks THEN Reasoning(q) ELSE <<>>
           second == IF speaks /\ (thinks \/ inReasoning[q]) THEN <<"close">> ELSE <<>>
           third == IF speaks THEN <<"content">> ELSE <<>>
<1>1. first \in Seq(Pieces) /\ Moves(first, was, mid, TRUE)
  <2>1. <<"reason">> \in Seq(Pieces) /\ Moves(<<"reason">>, TRUE, TRUE, TRUE)
    BY OnePiece DEF Pieces
  <2>2. <<"open">> \in Seq(Pieces) /\ Moves(<<"open">>, FALSE, TRUE, TRUE)
    BY OnePiece DEF Pieces
  <2>3. <<"open">> \o <<"reason">> \in Seq(Pieces)
        /\ Moves(<<"open">> \o <<"reason">>, FALSE, TRUE, TRUE)
    BY <2>1, <2>2, Then
  <2>4. <<"open", "reason">> = <<"open">> \o <<"reason">>
    OBVIOUS
  <2>5. CASE thinks /\ was
    <3>1. first = <<"reason">> /\ was = TRUE /\ mid = TRUE
      BY <2>5 DEF Reasoning
    <3> QED
      BY <2>1, <3>1
  <2>6. CASE thinks /\ ~was
    <3>1. first = <<"open", "reason">> /\ was = FALSE /\ mid = TRUE
      BY <2>6 DEF Reasoning
    <3> QED
      BY <2>3, <2>4, <3>1
  <2>7. CASE ~thinks
    <3>1. first = <<>> /\ mid = was
      BY <2>7
    <3> QED
      BY <3>1, NoPiece
  <2> QED
    BY <2>5, <2>6, <2>7
<1>2. second \in Seq(Pieces) /\ Moves(second, mid, is, TRUE)
  <2>1. <<"close">> \in Seq(Pieces) /\ Moves(<<"close">>, TRUE, FALSE, TRUE)
    BY OnePiece DEF Pieces
  <2>2. CASE speaks /\ mid
    <3>1. second = <<"close">> /\ mid = TRUE /\ is = FALSE
      BY <2>2
    <3> QED
      BY <2>1, <3>1
  <2>3. CASE ~(speaks /\ mid)
    <3>1. second = <<>> /\ is = mid
      BY <2>3
    <3> QED
      BY <3>1, NoPiece
  <2> QED
    BY <2>2, <2>3
<1>3. third \in Seq(Pieces) /\ Moves(third, is, is, TRUE)
  <2>1. <<"content">> \in Seq(Pieces) /\ Moves(<<"content">>, FALSE, FALSE, TRUE)
    BY OnePiece DEF Pieces
  <2>2. CASE speaks
    <3>1. third = <<"content">> /\ is = FALSE
      BY <2>2
    <3> QED
      BY <2>1, <3>1
  <2>3. CASE ~speaks
    <3>1. third = <<>>
      BY <2>3
    <3> QED
      BY <3>1, NoPiece
  <2> QED
    BY <2>2, <2>3
<1>4. mid \in BOOLEAN /\ is \in BOOLEAN
  OBVIOUS
<1>5. EventPieces(q, thinks, speaks) = (first \o second) \o third
  BY DEF EventPieces
<1> HIDE DEF was, mid, is, first, second, third
<1>6. first \o second \in Seq(Pieces) /\ Moves(first \o second, was, is, TRUE)
  BY <1>1, <1>2, <1>4, Then
<1>7. (first \o second) \o third \in Seq(Pieces) /\ Moves((first \o second) \o third, was, is, TRUE)
  BY <1>3, <1>4, <1>6, Then
<1> QED
  BY <1>5, <1>7 DEF was, mid, is

------------------------------------------------------------------------------------
\* The model call

\* Before the stream nothing is sent; within the stream of the chat endpoint inReasoning
\* is true of the text; the legacy endpoint opens no tag; an ended text has none open.
CallOK(q) ==
    /\ call[q] \in {"idle", "post"} =>
        sent[q] = <<>> /\ ~inReasoning[q] /\ endpoint[q] = "chat"
    /\ call[q] = "stream" => (Open(sent[q]) <=> inReasoning[q])
    /\ call[q] = "stream" /\ endpoint[q] = "legacy" => ~inReasoning[q]
    /\ call[q] = "done" => ~Open(sent[q])
    /\ Marked(sent[q], endpoint[q] = "chat")

CallInv == ClientTypeOK /\ \A q \in Turns : CallOK(q)

LEMMA InitCallInv == ClientInit => CallInv
<1> SUFFICES ASSUME ClientInit PROVE CallInv
  OBVIOUS
<1>1. ClientTypeOK
  BY DEF ClientInit, ClientTypeOK
<1>2. ASSUME NEW q \in Turns PROVE CallOK(q)
  BY DEF ClientInit, CallOK, Marked
<1> QED
  BY <1>1, <1>2 DEF CallInv

\* The record of one call moves, and those of the others do not.
LEMMA CallMoves ==
    ASSUME CallInv, NEW q \in Turns, ClientTypeOK', CallOK(q)',
           \A t \in Turns \ {q} : /\ call'[t] = call[t] /\ endpoint'[t] = endpoint[t]
                                  /\ inReasoning'[t] = inReasoning[t] /\ sent'[t] = sent[t]
    PROVE  CallInv'
<1> SUFFICES ASSUME NEW t \in Turns, t # q PROVE CallOK(t)'
  BY DEF CallInv
<1> QED
  BY DEF CallInv, CallOK

LEMMA StartCallInv ==
    ASSUME CallInv, NEW q \in Turns, StartCall(q)
    PROVE  CallInv'
<1>1. ClientTypeOK'
  BY DEF StartCall, Go, CallInv, ClientTypeOK
<1>2. CallOK(q)'
  BY DEF StartCall, Go, CallInv, ClientTypeOK, CallOK
<1> QED
  BY <1>1, <1>2, CallMoves DEF StartCall, Go, CallInv, ClientTypeOK

\* Pieces are sent: the place of the call, and what its record says of the text after it.
LEMMA SendMoves ==
    ASSUME CallInv, NEW q \in Turns, NEW pieces \in Seq(Pieces), NEW is \in BOOLEAN,
           Moves(pieces, Open(sent[q]), is, endpoint[q] = "chat"),
           Send(q, pieces), UNCHANGED endpoint
    PROVE  /\ sent' \in [Turns -> Seq(Pieces)]
           /\ Marked(sent'[q], endpoint[q] = "chat") /\ (Open(sent'[q]) <=> is)
           /\ \A t \in Turns \ {q} : sent'[t] = sent[t]
<1>1. sent \in [Turns -> Seq(Pieces)] /\ Marked(sent[q], endpoint[q] = "chat")
  BY DEF CallInv, ClientTypeOK, CallOK
<1>2. sent' = [sent EXCEPT ![q] = @ \o pieces]
  BY DEF Send
<1>3. sent[q] \o pieces \in Seq(Pieces)
  BY <1>1, ConcatProperties
<1>4. sent'[q] = sent[q] \o pieces
  BY <1>1, <1>2
<1> QED
  BY <1>1, <1>2, <1>3, <1>4 DEF Moves

LEMMA ClientStepInv ==
    ASSUME CallInv, NEW q \in Turns, ClientStep(q)
    PROVE  CallInv'
<1> DEFINE chat == endpoint[q] = "chat"
<1>1. /\ call \in [Turns -> {"idle", "post", "stream", "done"}]
      /\ endpoint \in [Turns -> {"chat", "legacy"}]
      /\ inReasoning \in [Turns -> BOOLEAN] /\ sent \in [Turns -> Seq(Pieces)]
      /\ CallOK(q)
  BY DEF CallInv, ClientTypeOK
<1>2. ASSUME NEW place \in {"chat", "legacy"}, Accepted(q, place) PROVE CallInv'
  <2>1. /\ call' = [call EXCEPT ![q] = "stream"] /\ endpoint' = [endpoint EXCEPT ![q] = place]
        /\ UNCHANGED <<inReasoning, sent>> /\ call[q] = "post"
    BY <1>2 DEF Accepted, Go
  <2>2. ClientTypeOK'
    BY <1>1, <2>1 DEF ClientTypeOK
  <2>3. sent[q] = <<>> /\ ~inReasoning[q]
    BY <1>1, <2>1 DEF CallOK
  <2>4. ~Open(<<>>) /\ \A any : Marked(<<>>, any)
    BY DEF Open, Inside, Marked
  <2>5. CallOK(q)'
    BY <1>1, <2>1, <2>3, <2>4 DEF CallOK
  <2> QED
    BY <1>1, <2>1, <2>2, <2>5, CallMoves
<1>3. CASE Refused(q)
  <2>1. /\ call' = [call EXCEPT ![q] = "done"] /\ Send(q, <<"error">>)
        /\ UNCHANGED <<endpoint, inReasoning>> /\ call[q] = "post"
    BY <1>3 DEF Refused, Go
  <2>2. sent[q] = <<>>
    BY <1>1, <2>1 DEF CallOK
  <2>3. ~Open(sent[q])
    BY <2>2 DEF Open, Inside
  <2>4. <<"error">> \in Seq(Pieces) /\ Moves(<<"error">>, FALSE, FALSE, chat)
    BY OnePiece DEF Pieces
  <2>5. Moves(<<"error">>, Open(sent[q]), FALSE, chat)
    BY <2>3, <2>4 DEF Moves
  <2>6. /\ sent' \in [Turns -> Seq(Pieces)] /\ Marked(sent'[q], chat) /\ ~Open(sent'[q])
        /\ \A t \in Turns \ {q} : sent'[t] = sent[t]
    BY <2>1, <2>4, <2>5, SendMoves
  <2>7. ClientTypeOK'
    BY <1>1, <2>1, <2>6 DEF ClientTypeOK
  <2>8. CallOK(q)'
    BY <1>1, <2>1, <2>6 DEF CallOK
  <2> QED
    BY <1>1, <2>1, <2>6, <2>7, <2>8, CallMoves
<1>4. ASSUME NEW thinks \in BOOLEAN, NEW speaks \in BOOLEAN, ChatEvent(q, thinks, speaks)
      PROVE  CallInv'
  <2> DEFINE is == (inReasoning[q] \/ thinks) /\ ~speaks
             pieces == EventPieces(q, thinks, speaks)
  <2>1. /\ Send(q, pieces) /\ inReasoning' = [inReasoning EXCEPT ![q] = is]
        /\ UNCHANGED <<call, endpoint>> /\ call[q] = "stream" /\ endpoint[q] = "chat"
    BY <1>1, <1>4 DEF ChatEvent, Streaming, Tagged, EventPieces
  <2>2. Open(sent[q]) <=> inReasoning[q]
    BY <1>1, <2>1 DEF CallOK
  <2>3. is \in BOOLEAN /\ inReasoning[q] \in BOOLEAN
    BY <1>1
  <2>4. pieces \in Seq(Pieces) /\ Moves(pieces, inReasoning[q], is, TRUE)
    BY <2>3, EventMoves
  <2> HIDE DEF is, pieces
  <2>5. Moves(pieces, Open(sent[q]), is, chat)
    BY <2>1, <2>2, <2>4 DEF Moves
  <2>6. /\ sent' \in [Turns -> Seq(Pieces)] /\ Marked(sent'[q], chat) /\ (Open(sent'[q]) <=> is)
        /\ \A t \in Turns \ {q} : sent'[t] = sent[t]
    BY <2>1, <2>3, <2>4, <2>5, SendMoves
  <2>7. ClientTypeOK'
    BY <1>1, <2>1, <2>3, <2>6 DEF ClientTypeOK
  <2>8. CallOK(q)'
    BY <1>1, <2>1, <2>6 DEF CallOK
  <2> QED
    BY <1>1, <2>1, <2>6, <2>7, <2>8, CallMoves
<1>5. CASE ChatEnd(q)
  <2>1. /\ call' = [call EXCEPT ![q] = "done"] /\ Send(q, Closing(q))
        /\ UNCHANGED <<endpoint, inReasoning>> /\ call[q] = "stream"
    BY <1>5 DEF ChatEnd, Go, Streaming
  <2>2. Open(sent[q]) <=> inReasoning[q]
    BY <1>1, <2>1 DEF CallOK
  <2>3. Closing(q) \in Seq(Pieces) /\ Moves(Closing(q), Open(sent[q]), FALSE, chat)
    <3>1. <<"close">> \in Seq(Pieces) /\ Moves(<<"close">>, TRUE, FALSE, chat)
      BY OnePiece DEF Pieces
    <3>2. <<>> \in Seq(Pieces) /\ Moves(<<>>, FALSE, FALSE, chat)
      BY NoPiece
    <3> QED
      BY <2>2, <3>1, <3>2 DEF Closing, Moves
  <2>4. /\ sent' \in [Turns -> Seq(Pieces)] /\ Marked(sent'[q], chat) /\ ~Open(sent'[q])
        /\ \A t \in Turns \ {q} : sent'[t] = sent[t]
    BY <2>1, <2>3, SendMoves
  <2>5. ClientTypeOK'
    BY <1>1, <2>1, <2>4 DEF ClientTypeOK
  <2>6. CallOK(q)'
    BY <1>1, <2>1, <2>4 DEF CallOK
  <2> QED
    BY <1>1, <2>1, <2>4, <2>5, <2>6, CallMoves
<1>6. ASSUME NEW piece \in {"reason", "content"}, LegacyEvent(q, piece) PROVE CallInv'
  <2>1. /\ Send(q, <<piece>>) /\ UNCHANGED <<call, endpoint, inReasoning>>
        /\ call[q] = "stream" /\ endpoint[q] = "legacy"
    BY <1>6 DEF LegacyEvent, Streaming
  <2>2. ~inReasoning[q] /\ ~Open(sent[q]) /\ ~chat
    BY <1>1, <2>1 DEF CallOK
  <2>3. <<piece>> \in Seq(Pieces) /\ Moves(<<piece>>, FALSE, FALSE, FALSE)
    BY OnePiece DEF Pieces
  <2>4. Moves(<<piece>>, Open(sent[q]), FALSE, chat)
    BY <2>2, <2>3 DEF Moves
  <2>5. /\ sent' \in [Turns -> Seq(Pieces)] /\ Marked(sent'[q], chat) /\ ~Open(sent'[q])
        /\ \A t \in Turns \ {q} : sent'[t] = sent[t]
    BY <2>1, <2>3, <2>4, SendMoves
  <2>6. ClientTypeOK'
    BY <1>1, <2>1, <2>5 DEF ClientTypeOK
  <2>7. CallOK(q)'
    BY <1>1, <2>1, <2>2, <2>5 DEF CallOK
  <2> QED
    BY <1>1, <2>1, <2>5, <2>6, <2>7, CallMoves
<1>7. CASE LegacyEnd(q)
  <2>1. /\ call' = [call EXCEPT ![q] = "done"] /\ UNCHANGED <<endpoint, inReasoning, sent>>
        /\ call[q] = "stream" /\ endpoint[q] = "legacy"
    BY <1>7 DEF LegacyEnd, Go, Streaming
  <2>2. ClientTypeOK'
    BY <1>1, <2>1 DEF ClientTypeOK
  <2>3. CallOK(q)'
    BY <1>1, <2>1 DEF CallOK
  <2> QED
    BY <1>1, <2>1, <2>2, <2>3, CallMoves
<1>8. CASE Broken(q)
  <2>1. /\ call' = [call EXCEPT ![q] = "done"] /\ Send(q, Mock)
        /\ UNCHANGED <<endpoint, inReasoning>>
    BY <1>8 DEF Broken, Go
  <2>2. Open(sent[q]) \in BOOLEAN /\ chat \in BOOLEAN
    BY DEF Open, Inside
  <2>3. Mock \in Seq(Pieces) /\ Moves(Mock, Open(sent[q]), FALSE, chat)
    BY <2>2, MockMoves
  <2>4. /\ sent' \in [Turns -> Seq(Pieces)] /\ Marked(sent'[q], chat) /\ ~Open(sent'[q])
        /\ \A t \in Turns \ {q} : sent'[t] = sent[t]
    BY <2>1, <2>3, SendMoves
  <2>5. ClientTypeOK'
    BY <1>1, <2>1, <2>4 DEF ClientTypeOK
  <2>6. CallOK(q)'
    BY <1>1, <2>1, <2>4 DEF CallOK
  <2> QED
    BY <1>1, <2>1, <2>4, <2>5, <2>6, CallMoves
<1> QED
  BY <1>2, <1>3, <1>4, <1>5, <1>6, <1>7, <1>8 DEF ClientStep

------------------------------------------------------------------------------------
\* The turn

\* An answer has one feed for a character.
AnswerOK(answers) ==
    /\ \A k \in answers : k.to \in Chars
    /\ \A j, k \in answers : j.to = k.to => j.feed = k.feed

\* Once an answer was routed, none is under way any more: a later one would be another's.
TurnOK(q) ==
    /\ AnswerOK(reply[q])
    /\ heard[q] => pc[q] = "model" /\ wire[q] = "none"
    /\ heard[q] => \A k \in reply[q] : k.to = target[q] => feed[q] = k.feed

RoutingTypes ==
    /\ session \in [Turns -> Sessions] /\ target \in [Turns -> Targets]
    /\ pc \in [Turns -> {"idle", "waiting", "model"}]
    /\ wire \in [Turns -> {"none", "request", "reply"}]
    /\ heard \in [Turns -> BOOLEAN]
    /\ DOMAIN reply = Turns /\ DOMAIN feed = Turns
    /\ reply = [q \in Turns |-> reply[q]] /\ feed = [q \in Turns |-> feed[q]]

TurnInv == RoutingTypes /\ \A q \in Turns : TurnOK(q)

ChatInv == IInv /\ CallInv /\ TurnInv

LEMMA InitChatInv == ChatInit => ChatInv
<1> SUFFICES ASSUME ChatInit PROVE ChatInv
  OBVIOUS
<1>1. IInv /\ CallInv
  BY InitIInv, InitCallInv DEF ChatInit
<1>2. TurnInv
  BY DEF ChatInit, TurnInv, RoutingTypes, TurnOK, AnswerOK
<1> QED
  BY <1>1, <1>2 DEF ChatInv

\* Every step of the composition is a step of the world, or leaves it alone.
LEMMA WorldStep ==
    ASSUME TurnInv, [ChatNext]_chatVars
    PROVE  [Next]_vars
<1> USE TemplateAssumption
<1>1. CASE Manage
  BY <1>1 DEF Manage, Next
<1>2. ASSUME NEW q \in Turns, TurnStep(q) PROVE [Next]_vars
  <2>1. session[q] \in Sessions
    BY DEF TurnInv, RoutingTypes
  <2>2. CASE ServiceActs(q)
    BY <2>1, <2>2 DEF ServiceActs, Next
  <2>3. CASE ~ServiceActs(q)
    BY <1>2, <2>3 DEF TurnStep, Ask, Lose, Hear, GiveUp
  <2> QED
    BY <2>2, <2>3
<1>3. CASE UNCHANGED chatVars
  BY <1>3 DEF chatVars
<1> QED
  BY <1>1, <1>2, <1>3 DEF ChatNext

\* Every step of the composition is a step of one call, or leaves the calls alone.
LEMMA CallStep ==
    ASSUME CallInv, [ChatNext]_chatVars
    PROVE  CallInv'
<1>1. ASSUME UNCHANGED clientVars PROVE CallInv'
  BY <1>1 DEF clientVars, CallInv, ClientTypeOK, CallOK
<1>2. ASSUME NEW q \in Turns, TurnStep(q) PROVE CallInv'
  <2>1. CASE ClientStep(q)
    BY <2>1, ClientStepInv
  <2>2. CASE Hear(q) \/ GiveUp(q)
    BY <2>2, StartCallInv DEF Hear, GiveUp, Route
  <2>3. CASE Ask(q) \/ ServiceActs(q) \/ Lose(q)
    BY <1>1, <2>3 DEF Ask, ServiceActs, Lose
  <2> QED
    BY <1>2, <2>1, <2>2, <2>3 DEF TurnStep
<1> QED
  BY <1>1, <1>2 DEF ChatNext, Manage, chatVars

\* The world an action is taken in holds characters only, and each is answered once.
LEMMA AnswersOK ==
    ASSUME IInv, NEW s \in Sessions, NEW g
    PROVE  LET w == SessionWorld(s) IN
           AnswerOK({[to |-> k.to, at |-> RoomOf(w, k.to), feed |-> k.feed] :
                        k \in Consequences(w, "speak", User, g)})
<1> DEFINE w == SessionWorld(s)
<1>1. \E t \in Templates : w \in WorldOf(t)
  <2>1. s \in SessionIds /\ Dungeon \in Templates
    BY TemplateAssumption DEF SessionIds
  <2>2. worlds[s][Dungeon] \in WorldOf(Dungeon) \cup {NoWorld}
    BY <2>1 DEF IInv, TypeOK
  <2>3. Instantiate(Dungeon) \in WorldOf(Dungeon)
    BY <2>1, InstantiateIsWorld DEF IInv, TypeOK
  <2> QED
    BY <2>1, <2>2, <2>3 DEF SessionWorld
<1>2. Present(w) \subseteq Chars
  BY <1>1 DEF WorldOf, Present
<1> HIDE DEF w
<1>3. \A k \in Consequences(w, "speak", User, g) :
        k.to \in Chars /\ k.feed = FeedOf(w, "speak", User, g, k.to)
  BY <1>2 DEF Consequences
<1> QED
  BY <1>3 DEF w, AnswerOK

\* The record of one turn moves, and those of the others do not.
LEMMA TurnMoves ==
    ASSUME TurnInv, NEW q \in Turns, RoutingTypes', TurnOK(q)',
           \A t \in Turns \ {q} : /\ reply'[t] = reply[t] /\ heard'[t] = heard[t] /\ pc'[t] = pc[t]
                                  /\ wire'[t] = wire[t] /\ target'[t] = target[t]
                                  /\ feed'[t] = feed[t]
    PROVE  TurnInv'
<1> SUFFICES ASSUME NEW t \in Turns, t # q PROVE TurnOK(t)'
  BY DEF TurnInv
<1> QED
  BY DEF TurnInv, TurnOK

\* Whatever is routed is the target's own feed, if the answer has one.
LEMMA RoutedOwn ==
    ASSUME NEW answers, AnswerOK(answers), NEW g \in Targets, NEW f \in Routed(answers, g),
           NEW k \in answers, k.to = g
    PROVE  f = k.feed
<1>1. g # NoTarget
  BY UserAssumption DEF AnswerOK
<1>2. Chosen(answers, g) = {j \in answers : j.to = g \/ answers = {j}}
  BY <1>1 DEF Chosen
<1>3. k \in Chosen(answers, g)
  BY <1>2
<1>4. PICK j \in Chosen(answers, g) : f = j.feed
  BY <1>3 DEF Routed
<1>5. j \in answers /\ (j.to = g \/ answers = {j})
  BY <1>2
<1> QED
  BY <1>4, <1>5 DEF AnswerOK

LEMMA TurnStepInv ==
    ASSUME ChatInv, NEW q \in Turns, TurnStep(q)
    PROVE  TurnInv'
<1> USE DEF ChatInv
<1>1. RoutingTypes /\ TurnOK(q)
  BY DEF TurnInv
<1>2. CASE Ask(q)
  <2>1. RoutingTypes'
    BY <1>1, <1>2 DEF Ask, RoutingTypes
  <2>2. TurnOK(q)'
    BY <1>1, <1>2 DEF Ask, RoutingTypes, TurnOK
  <2> QED
    BY <1>1, <1>2, <2>1, <2>2, TurnMoves DEF Ask, RoutingTypes
<1>3. CASE ServiceActs(q)
  <2> DEFINE w == SessionWorld(session[q])
             answers == {[to |-> k.to, at |-> RoomOf(w, k.to), feed |-> k.feed] :
                            k \in Consequences(w, "speak", User, target[q])}
  <2>1. /\ reply' = [reply EXCEPT ![q] = answers] /\ wire' = [wire EXCEPT ![q] = "reply"]
        /\ UNCHANGED <<pc, session, target, heard, feed>> /\ wire[q] = "request"
    BY <1>3 DEF ServiceActs
  <2>2. session[q] \in Sessions
    BY <1>1 DEF RoutingTypes
  <2>3. AnswerOK(answers)
    BY <2>2, AnswersOK
  <2> HIDE DEF answers
  <2>4. ~heard[q]
    BY <1>1, <2>1 DEF TurnOK
  <2>5. RoutingTypes'
    BY <1>1, <2>1 DEF RoutingTypes
  <2>6. TurnOK(q)'
    BY <1>1, <2>1, <2>3, <2>4 DEF RoutingTypes, TurnOK
  <2> QED
    BY <1>1, <2>1, <2>5, <2>6, TurnMoves DEF RoutingTypes
<1>4. CASE Lose(q)
  <2>1. RoutingTypes'
    BY <1>1, <1>4 DEF Lose, RoutingTypes
  <2>2. TurnOK(q)'
    BY <1>1, <1>4 DEF Lose, RoutingTypes, TurnOK
  <2> QED
    BY <1>1, <1>4, <2>1, <2>2, TurnMoves DEF Lose, RoutingTypes
<1>5. CASE Hear(q)
  <2>1. PICK f \in Routed(reply[q], target[q]) : Route(q, f)
    BY <1>5 DEF Hear
  <2>2. /\ feed' = [feed EXCEPT ![q] = f] /\ pc' = [pc EXCEPT ![q] = "model"]
        /\ wire' = [wire EXCEPT ![q] = "none"] /\ heard' = [heard EXCEPT ![q] = TRUE]
        /\ UNCHANGED <<session, target, reply>>
    BY <1>5, <2>1 DEF Hear, Route
  <2>3. \A k \in reply[q] : k.to = target[q] => f = k.feed
    BY <1>1, RoutedOwn DEF RoutingTypes, TurnOK
  <2>4. RoutingTypes'
    BY <1>1, <2>2 DEF RoutingTypes
  <2>5. TurnOK(q)'
    BY <1>1, <2>2, <2>3 DEF RoutingTypes, TurnOK
  <2> QED
    BY <1>1, <2>2, <2>4, <2>5, TurnMoves DEF RoutingTypes
<1>6. CASE GiveUp(q)
  <2>1. /\ feed' = [feed EXCEPT ![q] = UserText] /\ pc' = [pc EXCEPT ![q] = "model"]
        /\ UNCHANGED <<session, target, wire, reply, heard>> /\ pc[q] = "waiting"
    BY <1>6 DEF GiveUp, Route
  <2>2. ~heard[q]
    BY <1>1, <2>1 DEF TurnOK
  <2>3. RoutingTypes'
    BY <1>1, <2>1 DEF RoutingTypes
  <2>4. TurnOK(q)'
    BY <1>1, <2>1, <2>2 DEF RoutingTypes, TurnOK
  <2> QED
    BY <1>1, <2>1, <2>3, <2>4, TurnMoves DEF RoutingTypes
<1>7. CASE UNCHANGED turnVars
  BY <1>7 DEF turnVars, TurnInv, RoutingTypes, TurnOK
<1> QED
  BY <1>2, <1>3, <1>4, <1>5, <1>6, <1>7 DEF TurnStep

LEMMA NextChatInv == ChatInv /\ [ChatNext]_chatVars => ChatInv'
<1> SUFFICES ASSUME ChatInv, [ChatNext]_chatVars PROVE ChatInv'
  OBVIOUS
<1>1. IInv'
  BY WorldStep, StepKeeps DEF ChatInv
<1>2. CallInv'
  BY CallStep DEF ChatInv
<1>3. TurnInv'
  <2>1. CASE \E q \in Turns : TurnStep(q)
    BY <2>1, TurnStepInv
  <2>2. CASE UNCHANGED turnVars
    BY <2>2 DEF ChatInv, turnVars, TurnInv, RoutingTypes, TurnOK
  <2> QED
    BY <2>1, <2>2 DEF ChatNext, Manage, chatVars
<1> QED
  BY <1>1, <1>2, <1>3 DEF ChatInv

------------------------------------------------------------------------------------
\* Types

\* What an answer holds and what is routed: a feed, from the moment the model is called.
FeedsInv ==
    /\ reply \in [Turns -> SUBSET Answers]
    /\ {apart, heard} \subseteq [Turns -> BOOLEAN]
    /\ \A q \in Turns : feed[q] \in Feeds \cup {NoFeed} /\ (feed[q] = NoFeed <=> pc[q] # "model")
    /\ managed \in 0 .. MaxManaged

\* Of some naturals one is the least.
LEMMA LeastOf ==
    ASSUME NEW T \in SUBSET Nat, T # {}
    PROVE  \E m \in T : \A n \in T : m <= n
<1> DEFINE R == {z \in Nat \X Nat : z[1] < z[2]}
<1>1. IsWellFoundedOn(R, Nat)
  <2>1. R = OpToRel(<, Nat)
    BY DEF OpToRel
  <2> QED
    BY <2>1, NatLessThanWellFounded
<1>2. \E x \in T : \A y \in T : <<y, x>> \notin R
  <2> HIDE DEF R
  <2> QED
    BY <1>1, WFMin, Zenon
<1>3. PICK x \in T : \A y \in T : ~(y < x)
  BY <1>2
<1>4. T \subseteq Nat
  OBVIOUS
<1> QED
  BY <1>3, <1>4

\* A character who is present is found in a room of the world.
LEMMA FoundInRoom ==
    ASSUME NEW t \in Templates, NEW w \in WorldOf(t), NEW c \in Present(w)
    PROVE  RoomOf(w, c) \in Rooms
<1> DEFINE here == {r \in DOMAIN w : c \in w[r]}
           ranks == {Rank[r] : r \in here}
<1>1. here # {} /\ here \subseteq Rooms
  BY DEF Present, WorldOf, RoomsOf
<1>2. ranks \in SUBSET Nat /\ ranks # {}
  BY <1>1, TemplateAssumption
<1>3. \E m \in ranks : \A n \in ranks : m <= n
  <2> HIDE DEF ranks
  <2> QED
    BY <1>2, LeastOf
<1>4. \E r \in here : \A q \in here : Rank[r] <= Rank[q]
  BY <1>3
<1>5. RoomOf(w, c) \in here
  BY <1>4 DEF RoomOf
<1> QED
  BY <1>1, <1>5

\* The answer to an action is typed: in particular no blackout is in it.
LEMMA AnswersTyped ==
    ASSUME IInv, NEW s \in Sessions, NEW g
    PROVE  LET w == SessionWorld(s) IN
           {[to |-> k.to, at |-> RoomOf(w, k.to), feed |-> k.feed] :
                k \in Consequences(w, "speak", User, g)} \subseteq Answers
<1> DEFINE w == SessionWorld(s)
<1>1. PICK t \in Templates : w \in WorldOf(t)
  <2>1. s \in SessionIds /\ Dungeon \in Templates
    BY TemplateAssumption DEF SessionIds
  <2>2. worlds[s][Dungeon] \in WorldOf(Dungeon) \cup {NoWorld}
    BY <2>1 DEF IInv, TypeOK
  <2>3. Instantiate(Dungeon) \in WorldOf(Dungeon)
    BY <2>1, InstantiateIsWorld DEF IInv, TypeOK
  <2> QED
    BY <2>1, <2>2, <2>3 DEF SessionWorld
<1> HIDE DEF w
<1>2. Present(w) \subseteq Chars
  BY <1>1 DEF WorldOf, Present
<1>3. \A c \in Present(w) : RoomOf(w, c) \in Rooms
  BY <1>1, FoundInRoom
<1>4. ASSUME NEW k \in Consequences(w, "speak", User, g)
      PROVE  k.to \in Present(w) /\ k.feed \in Feeds
  <2>1. PICK c \in Present(w) : k = [to |-> c, feed |-> FeedOf(w, "speak", User, g, c)]
    BY DEF Consequences
  <2>2. k.feed.level # "blackout"
    BY DEF Consequences
  <2>3. k.to = c /\ k.feed = FeedOf(w, "speak", User, g, c)
    BY <2>1
  <2>4. \A barrier, self, aimed :
          \/ Evaluate("speak", barrier, self, aimed) \in Feeds
          \/ Evaluate("speak", barrier, self, aimed).level = "blackout"
    BY DEF Evaluate, Feeds
  <2>5. FeedOf(w, "speak", User, g, c) \in Feeds
    BY <2>2, <2>3, <2>4 DEF FeedOf
  <2> QED
    BY <2>3, <2>5
<1> QED
  BY <1>2, <1>3, <1>4 DEF w, Answers

LEMMA RoutedTyped ==
    ASSUME NEW answers \in SUBSET Answers, NEW g
    PROVE  Routed(answers, g) \subseteq Feeds
<1>1. Chosen(answers, g) \subseteq answers
  BY DEF Chosen, Foremost
<1>2. UserText \in Feeds
  BY DEF UserText, Feeds
<1> QED
  BY <1>1, <1>2 DEF Routed, Answers

LEMMA InitFeedsInv == ChatInit => FeedsInv
BY MaxManagedAssumption DEF ChatInit, FeedsInv

LEMMA RouteTyped ==
    ASSUME RoutingTypes, FeedsInv, NEW q \in Turns, NEW f \in Feeds, Route(q, f)
    PROVE  \A t \in Turns : /\ feed'[t] \in Feeds \cup {NoFeed}
                            /\ (feed'[t] = NoFeed <=> pc'[t] # "model")
BY NoFeedAssumption DEF RoutingTypes, FeedsInv, Route

LEMMA FeedsStep == ChatInv /\ FeedsInv /\ [ChatNext]_chatVars => FeedsInv'
<1> SUFFICES ASSUME ChatInv, FeedsInv, [ChatNext]_chatVars PROVE FeedsInv'
  OBVIOUS
<1>1. RoutingTypes
  BY DEF ChatInv, TurnInv
<1>2. CASE UNCHANGED chatVars
  BY <1>2 DEF chatVars, turnVars, FeedsInv
<1>3. CASE Manage
  <2>1. UNCHANGED turnVars /\ managed' \in 0 .. MaxManaged
    BY <1>3, MaxManagedAssumption DEF Manage, FeedsInv
  <2> QED
    BY <2>1 DEF turnVars, FeedsInv
<1>4. ASSUME NEW q \in Turns, TurnStep(q), UNCHANGED managed PROVE FeedsInv'
  <2>1. CASE Ask(q)
    BY <1>1, <1>4, <2>1 DEF Ask, RoutingTypes, FeedsInv
  <2>2. CASE ServiceActs(q)
    <3> DEFINE w == SessionWorld(session[q])
               answers == {[to |-> k.to, at |-> RoomOf(w, k.to), feed |-> k.feed] :
                              k \in Consequences(w, "speak", User, target[q])}
    <3>1. /\ reply' = [reply EXCEPT ![q] = answers]
          /\ apart' = [apart EXCEPT ![q] = Apart(w, target[q])]
          /\ UNCHANGED <<pc, heard, feed>>
      BY <2>2 DEF ServiceActs
    <3>2. answers \subseteq Answers
      BY <1>1, AnswersTyped DEF ChatInv, RoutingTypes
    <3>3. Apart(w, target[q]) \in BOOLEAN
      BY DEF Apart
    <3> HIDE DEF answers, w
    <3>4. reply' \in [Turns -> SUBSET Answers]
      BY <3>1, <3>2 DEF FeedsInv
    <3>5. apart' \in [Turns -> BOOLEAN]
      BY <3>1, <3>3 DEF FeedsInv
    <3> QED
      BY <1>4, <3>1, <3>4, <3>5 DEF FeedsInv
  <2>3. CASE Lose(q)
    BY <1>4, <2>3 DEF Lose, FeedsInv
  <2>4. CASE Hear(q)
    <3>1. PICK f \in Routed(reply[q], target[q]) : Route(q, f)
      BY <2>4 DEF Hear
    <3>2. f \in Feeds
      BY <3>1, RoutedTyped DEF FeedsInv
    <3> QED
      BY <1>1, <1>4, <2>4, <3>1, <3>2, RouteTyped DEF Hear, FeedsInv
  <2>5. CASE GiveUp(q)
    <3>1. UserText \in Feeds
      BY DEF UserText, Feeds
    <3> QED
      BY <1>1, <1>4, <2>5, <3>1, RouteTyped DEF GiveUp, FeedsInv
  <2>6. CASE UNCHANGED turnVars
    BY <1>4, <2>6 DEF turnVars, FeedsInv
  <2> QED
    BY <1>4, <2>1, <2>2, <2>3, <2>4, <2>5, <2>6 DEF TurnStep
<1> QED
  BY <1>2, <1>3, <1>4 DEF ChatNext

------------------------------------------------------------------------------------
\* The theorems

THEOREM ChatInvariance == ChatSpec => []ChatInv
BY InitChatInv, NextChatInv, PTL DEF ChatSpec

\* The state is typed; above all, a prompt has a feed exactly when the model is called,
\* and that is a direct or a degraded one: no blackout comes back from the service.
THEOREM ChatTypes == ChatSpec => []ChatTypeOK
<1>1. ChatInv /\ FeedsInv => ChatTypeOK
  BY DEF ChatInv, IInv, CallInv, TurnInv, RoutingTypes, FeedsInv, ChatTypeOK
<1> QED
  BY <1>1, InitFeedsInv, FeedsStep, ChatInvariance, PTL DEF ChatSpec

\* Turns, their clients and management do to the world only what its endpoints do, so
\* what is proved of the world (isolation, earshot) goes for it here.
THEOREM WorldKept == ChatSpec => Spec
<1>1. ChatInit => Init
  BY DEF ChatInit
<1>2. ChatInv /\ [ChatNext]_chatVars => [Next]_vars
  BY WorldStep DEF ChatInv
<1> QED
  BY <1>1, <1>2, ChatInvariance, PTL DEF ChatSpec, Spec

\* The target's own feed, for any number of concurrent turns, late answers and moves.
THEOREM FeedIsOwn == ChatSpec => []OwnFeed
<1>1. ChatInv => OwnFeed
  BY DEF ChatInv, TurnInv, TurnOK, OwnFeed
<1> QED
  BY <1>1, ChatInvariance, PTL

\* Reasoning between the tags, content outside, and no tag left open, for any stream.
THEOREM TagsRight == ChatSpec => []ReasoningMarked
<1>1. ChatInv => ReasoningMarked
  <2> SUFFICES ASSUME ChatInv, NEW q \in Turns
               PROVE  /\ \A i \in DOMAIN sent[q] :
                          /\ sent[q][i] = "reason" /\ endpoint[q] = "chat" => Inside(sent[q], i)
                          /\ sent[q][i] \in {"content", "error"} => ~Inside(sent[q], i)
                      /\ call[q] = "done" => ~Inside(sent[q], Len(sent[q]) + 1)
    BY DEF ReasoningMarked
  <2>1. CallOK(q) /\ sent[q] \in Seq(Pieces)
    BY DEF ChatInv, CallInv, ClientTypeOK
  <2>2. DOMAIN sent[q] = 1 .. Len(sent[q])
    BY <2>1, LenProperties
  <2> QED
    BY <2>1, <2>2 DEF CallOK, Marked, Open
<1> QED
  BY <1>1, ChatInvariance, PTL
====================================================================================
