# Sovereign Persona Mesh in TLA+

A verification project for the Sovereign Persona Mesh: a chat proxy that gives role-play
characters a private monologue, an episodic memory in PostgreSQL and a world that decides
who hears what. It models the parts of the code where state, concurrency and failures
meet, checks them with TLC, and proves some of them with TLAPS for every size of the system.

## 1. The system

Two asyncio processes and a set of scripts. "Modelled" names the module.

| Component | State it keeps | Operations | Modelled |
| --- | --- | --- | --- |
| Session lock (`evennia_world/session_lock.py`) | asyncio locks, tokens, expiries | acquire, release, sweep | `SessionLock` |
| World (`evennia_world/app.py`, `hybrid_builder.py`) | room templates, worlds per session, current world, tick | action, state, add, remove, move, configure | `World` |
| Spatial gating (`evennia_world/spatial_matrix.py`) | none | evaluate a sensory feed | `World` |
| Stream parser (`proxy/core/stream_parser.py`) | buffers, parser state, counters | feed a chunk, end of stream | `StreamParser` |
| Chat requests (`proxy/api/routes.py`) | rows of `csa_memory_<char>` | import check, generate, store a turn | `ChatMemory` |
| Bulk import (`proxy/rag/import_worker.py`) | `spm_chat_imports`, memory rows | register, run in the background | `ChatMemory` |
| Memory tiers (`proxy/rag/tier_manager.py`) | memory rows, `spm_cold_archives`, archive files | archive, reconstitute, statistics | `TierManager` |
| Administration (`proxy/api/admin_routes.py`) | - | delete a session, factory reset, settings, thought stream | `Lifecycle`, `ChatMemory`, `ProxyProcess` |
| Sleep cycle (`scripts/sleep_cycle.py`) | memory rows | summarise, prune | `Lifecycle` |
| Telemetry (`proxy/core/telemetry.py`) | thought ring, subscribers; counters, logs | publish, subscribe, reset, hydrate; record | `Telemetry`; no |
| Settings (`config/manager.py`) | `config.json` | create, read, write | `Settings` |
| Connection pools (`proxy/main.py`, `admin_routes.py`) | two globals | startup, lazy creation | `DbPools` |
| Routing of a turn (`proxy/api/routes.py`) | the turn's locals | ask the world, pick the feed, call the model | `ChatTurn` |
| World client (`backend_client/evennia_client.py`) | - | submit an action, make up an answer | `ChatTurn` |
| Model client (`backend_client/lemonade_client.py`) | one flag | stream, fall back, tag reasoning | `ModelClient` |
| Prompts (`proxy/rag/prompt_builder.py`) | - | assemble messages | what they quote, in `ChatTurn` |
| Retrieval, vibe profile (`proxy/rag/...`) | - | numeric and textual | no |
| Sensory filter (`proxy/core/sensory_filter.py`) | memory rows | bypass a turn | no (imported, never called) |
| Inference queue (`proxy/core/fifo_queue.py`) | one lock | run a call | no (never called) |
| Scripts, UI, wiring | - | - | no |

How they meet: a chat request enters the proxy, may register an import and spawn its task,
asks the world service over HTTP who hears the user's line, reads memories, streams the
model's answer through the parser to the client, and then stores the turn. Archiving,
reconstitution, deletion and the nightly prune work on the same tables, each from its own
request or process. The proxy never takes the session lock.

What is hard. The handlers of the world service run without giving up control, so its
difficulty is in *sequences* of calls and in what is shared between sessions. In the proxy
every SQL statement is an `await` that commits by itself (only the sleep cycle has a
transaction): requests interleave between any two statements, an exception, a cancelled
stream or the end of the process may cut a request off there, and nothing is retried. The
parser must find tags that arrive in pieces. `PROJECT.json` lists each hazard at its line.

What makes each part correct:

- lock: one running lease per session; late releases do no harm; no session stays locked;
- world: words stay within earshot; sessions do not see each other's changes;
- parser: private words stay private and are kept; public words come once and in order;
- chat memory: one import per session; "completed" is true; a turn is stored once and kept;
- tiers: rows are moved and never lost; core rows are never touched;
- nights and deletions: what is pruned was summarised; what was deleted stays away;
- proxy process: viewers miss nothing; confirmed settings last; one pool is in use;
- turn: the target perceives its own feed; the model's text keeps its reasoning in tags.

## 2. The modules

**`SessionLock`** has the manager's three tables (`locked`, `tokens`, `lockInfo`), the clock,
the uuids drawn, and around the service the clients' tickets and the release requests in
flight. `Acquire` is `acquire_lock`: with the tables in agreement its only `await` does not
suspend, so it is one step, stale-lock takeover included. A reply may be lost; a release may
be handled at any later time and any number of times. `CleanupExpired` has no caller in this
commit but a test; the docstring expects a middleware to call it, so it may happen at any
time. **`AbstractLease`** is what the lock promises: an owner per session, replaced only when
its lease has lapsed. `SessionLock!Lease` is the refinement mapping.

**`World`** has the templates, the worlds by session and template, the current world (as a
reference to one of them, which is how the code aliases it) and the tick. There is one action
per endpoint. `Consequences` is the reply of an action, computed by `FeedOf`, `Barrier` and
`Evaluate` from the code's rooms, exits and gating matrix.

**`StreamParser`** takes a stream as a sequence of atoms: public and private words, newlines,
the pieces of tags, meta-commentary and warnings. The parser describes its tags twice, in
`OPEN_TAGS` (for what waits at the end of a chunk, and for what is stripped from a line) and in
`OPEN_TAG_REGEX` (for what opens a monologue), and the two differ. So the tags are of three
kinds: `"<" "think" ">"`, in both and written as in the list; `"<T" "hink" ">"`, a tag in
another case, where `"<T"` goes up to the first letter that differs from the list: the
expression ignores case, the list does not, and nothing of it waits (`Partial`); and
`"<" "think" "ing" ">"`, which is `<thinking>`: the list has it, the expression has not
(`OpenTags`, `ListedTags`). `TagsKnown` says of a stream and its chunks that the parser knows all their open
tags: none is `<thinking>`, and no chunk ends inside one in another case. Buffers hold
*positions* of the stream, so "in order, once, nothing lost" can be said. `Read` takes any
number of atoms, which cuts the stream anywhere, and `EndOfStream` may come early. `pc` follows
the code's loops: `scan` is the inner `while True`, `lines` the loop over the lines of
`_process_public_output` (with its early stop at the public limit), `final` the `finally`
block.

**`MemoryStore`** holds what the life cycle works on: rows, registry, files, the clock of the
file names. **`TierManager`** adds the archiving and restoring requests; each action is one
statement or file operation with the request's locals in a record. `Abort...` may happen
between any two. `stored`, `usedPaths`, `reusedPaths` and `excused` are history variables.

**`ChatMemory`** has the import records, the rows, the requests, the import tasks and an
administrator. A row knows who wrote it and which message it is. Statements fail, streams are
cancelled, sessions are deleted and the process dies under one common budget (`MaxTrouble`).

**`Lifecycle`** extends `TierManager` with the two parts of the system that destroy rows. A
night (`FallAsleep`, `SelectDay`, `ConsolidateAndPrune`) goes from table to table; between the
SELECT of a table and its transaction lies a model call of at most `Patience`, in which
everything else goes on. A deletion (`DropArchives`, then `ClearTable` per table) is
`delete_session` or, with every session in its scope, `factory_reset`. Either may be cut off
anywhere. History variables record what a summary was made from (`summarised`), which tables
a night came to more than a day after the last look (`late`) and what a deletion that was
reported as done has removed and nobody had hold of (`wiped`).

In `Settings` the environment is that of the import of the module (`defaults`) and that which
a call of `os.getenv` sees (`environ`), as `.env` may be loaded in between; without a readable
file `GetSettings` asks it again.

**`Telemetry`**, **`Settings`** and **`DbPools`** are three parts of the proxy process without
common state; **`ProxyProcess`** runs them under one event loop and lets the process die and
start again in another environment. Between two awaits nothing else runs, so a push with its
deliveries is one step, and so are the replay and the subscription of a viewer, but not the
viewer's generator, which starts later. Events are numbered, so that "nothing missed, nothing
twice" is a statement about intervals.

**`ModelClient`** is the model call of a turn, piece by piece. **`ChatTurn`** composes it with
`World`: the question travels to the service and the answer back, either may be lost or come
too late (`wire`), world management goes on, and the chosen feed goes into the prompt. The
actor of every turn is "user", who is in no room until some client puts him there.

`MC*` modules and the `.cfg` files hold the instances. `*Proofs` modules hold the proofs.
Operators marked "Mutant" are plausible mistakes in the code; no action uses them, and each
breaks the property that `PROJECT.json` pairs it with.

## 3. The runs

Passing:

| Run | States | What it shows, and its bounds |
| --- | --- | --- |
| `session_lock` | 26 thousand | Exclusion, honoured leases, refinement, and (liveness) the end of every lease. 2 sessions, 3 tokens, lease of 1 in 4 instants: a lease expires, is taken over, and the old release arrives late. |
| `tier_manager` | 746 thousand | Registered archives are whole, core rows immune; the inductive invariant, of which `NoSilentLoss` and the types are parts. 2 archivers, 1 restorer, 2 rows, 2 archives, 3 instants, 1 failing insert: a path is reused, a file is replaced under a reader, rows are selected twice. |
| `lifecycle` | 971 thousand | No row goes unless by a named cause, punctual nights prune only what they saw, deleted rows stay away. 1 archiver, 2 restorers of one archive, 3 rows, 3 instants, and 2 nights or deletions: a night's look and prune fall into different instants, a deletion meets a restoration half-way, a restored row is pruned. |
| `world` | 5 thousand | Earshot and isolation. 2 rooms of one template and 1 of another, a default and a client session, 3 characters of which one is moved about; 1 action. |
| `stream_parser` | 1.6 million | All cuts of 100 streams of up to 13 atoms, with limits of 3 and 5 words that some streams reach. 12 streams have an open tag in another case, 8 have `<thinking>`, closed by `</thinking>` or by another tag. |
| `chat_memory` | 258 thousand | 2 requests of one session, one with 3 messages in batches of 2, and one trouble of any kind. |
| `proxy_process` | 482 thousand | Streams, settings and pools through restarts. 1 viewer, a ring of 2, 5 requests, 5 events, 2 keys, 3 environments of which one changes after the import, 2 resets: the ring overflows, a viewer leaves before its stream begins, two resets wait for pools, a write is torn. |
| `chat_turn` | 1.2 million | The target's own feed, and tagged reasoning. 1 turn of either session to any target, 3 management requests at any time, texts of 4 pieces before the end: the user is added to a room, moved, or another template becomes current before or after the answer; every mix of reasoning and content. |

`chat_memory` was also run once with two troubles and only its safety properties (2.5 million
states, no error). The parser's model was also compared with the Python class, with the limits
out of reach, on 342 000 complete behaviours (shown words, sections, fail-safe, warning), with
the name of the tag and the place where its pieces meet drawn at random: no difference. What
the liveness properties assume:

- `LeaseEnds`: only that time passes (`WF(Tick)`); clients owe nothing.
- `ImportSettles`: a ready asyncio task runs on (`WF(WorkerStep)`); the property excuses runs
  with a failed statement, a crash or a deletion, in which the code does not settle it.
- `StreamsServed`: the event loop runs a ready generator on (`WF(StreamStep)`); clients may
  leave at any time and owe nothing.

`lifecycle` was also run once with two archiving requests that write one file, and a deletion
(93 thousand states, no error).

Violations. Four runs check one sentence of the repository each, which the code does not keep;
`PROJECT.json` quotes the sentences under "findings".

| Run | Sentence | Why it fails |
| --- | --- | --- |
| `overwrite` | archive then restore returns all records | Two batches archived in one second share a file name. |
| `stream_leak` | no monologue bleed-through | A close tag in two chunks is missed. |
| `regeneration` | no duplicate on regeneration | DELETE and INSERT are not a transaction. |
| `walls` | characters perceive only what their senses can access | The prompt has the gated feed and, in its chat history, the ungated line; and a target that hears nothing gets the line as its feed. |

The passing properties next to them say how far the promise *does* hold: `NoSilentLoss` with
the overwritten files excused, `NoBleed` outside the fail-safe and behind known tags,
`ChunksDontMatter` while close tags are whole and open tags known (`ThoughtsKept` and
`WarningDelivered` need known tags, too), `DuplicatesNeedOverlap`, `OwnFeed` for whoever the
service finds in earshot.

Other differences between code and documents, seen while modelling and without a run of their
own, since one call shows each:

- `stream_parser.py:14`: `<thinking>` is in `OPEN_TAGS` and not in `OPEN_TAG_REGEX`. In one piece it
  is stripped from its line and opens nothing, so that the text behind it is shown; cut as
  `<think` and `ing>` it opens a monologue. And `:258`: `<Think>` opens one, but cut as `<Thi` and
  `nk>` it does not, for the expression ignores case and the comparison with the list does not.
  Line 277 promises "ONLY public canon character response". Both are in the model, in streams of
  the passing run, and were seen there: without its conjunct `TagsKnown` TLC finds `NoBleed`
  violated by streams of either kind.
- `tier_manager.py:93`: a restored row has lost its public response and its embedding, though
  a test says "all original records" (`tests/test_fr003_tiered_lifecycle.py:383`).
- `session_lock.py:3` says the lock freezes the world and its tick; no endpoint asks the lock.
- `app.py:426`: exits are looked up in the global current world, so configuring a template
  changes what other sessions hear (`FeedsChangeOnlyByConfigure` is what does hold).
- `routes.py:274`: the bypass of a blackout is unreachable, for the service leaves such
  characters out of its answer.
- `admin_routes.py:8-9` promise to delete spatial records and the world's state; nothing of
  the world service is touched, and the archive files stay on disk.
- `sleep_cycle.py:116`: summary nodes have a session id of their own and no embedding, so the
  retriever never finds them.
- `telemetry.py:209`: hydrated entries have no key `thought`, which is what the page shows.
- `manager.py:5` promises hot reloading; only `backend_max_tokens` is read at run time, and a
  changed environment is ignored once `config.json` exists.
- `routes.py:272` and `:474` both count a streamed request.
- `lemonade_client.py:76`: the legacy endpoint gets no conversation, as the caller passes
  messages and no prompt.
- `lemonade_client.py:46` uses `List` without importing it, which works only where annotations
  are not evaluated.

Deadlock is checked in no run with bounded clocks or supplies, and not where the parser or all
requests come to their end; the world runs check it.

## 4. The proofs

For every value of the constants, under the assumptions the modules state:

`SessionLockProofs`. The invariant `Inv` adds to `LockAgreement` that tokens in use were drawn
and no two tickets share one, that a client which asked for a release uses its ticket no more,
that a ticket whose lease runs is exactly the session's lock entry, and that no expiry is 0;
without these a late release could name the token of a successor, or a lock never end.
Theorems: `TypeCorrect`, `TablesAgree`, `TicketsHonoured`, `Exclusion`, `HolderReleases`, and
`Refinement` (every step is a step of `AbstractLease` or a stutter).

`TierManagerProofs`. `NoSilentLoss` is not inductive: a row may be in the file of an archive
that a restoration is about to drop. `TierInv` strengthens it:

- `RowsSafe`: each stored row is in a table, excused, or in an archive whose restorations have
  not yet passed the row;
- `ArchiverInv`: until a request deletes its rows its file holds them, and its archive is
  registered and not yet known to anyone;
- `RestorerInv`: a restoration's record is unchanged or gone for good;
- `PathsInv`, `ReusedInv`, `RegistryInv`: a path written once belongs to one archive; of a path
  written twice the rows are excused;
- `VolatileInv`, `FiniteInv`: only volatile rows, in finite numbers, are under way.

One lemma per action shows that it is preserved. `RowsNeverLost`, `ArchivesRestorable` and
`CoreImmune` follow. The argument uses `Disclosed`: an archive's id is known only from the
reply to its request, as no endpoint lists archives.

`LifecycleProofs`. `TierInv` holds where nights and deletions join the requests, too. What a
deletion does to a request under way is allowed for in `ArchiverInv`: if the request's archive
was dropped from under it, the rows it is about to delete are excused. `NothingLostSilently` is
that part of the invariant. `LifeInv` adds what the nights have seen:

- `LookedInv`: of the volatile rows that never left their table, unless a night was late for
  it, a summary knows every one that is older than the last finished look;
- `LookingInv`: the same of the look under way, with the rows it has selected and its SELECT;
- `ClockInv`: looks lie in the past, and the present one no more than a model call ago;
- `LifeTypeOK`: the types, and that requests under way have their locals.

`LookedInv` is what makes pruning safe and is not inductive by itself, since during the model
call `lastLook` is not yet what the prune will go by. The step that prunes needs `Patience <=
Day` (an httpx timeout against 24 hours). `NightsSeeAll`, `LifeTypes` and `CoreOnly` follow.

`DeletionsLast` needs `GoneInv`, about who may still write a row's id: `OneSession` (an id is
drawn once and all its copies, in tables, files and requests, are of one session), `OwnSession`
(files, batches and archives hold rows of their own session, so a deletion drops every archive
that could return its rows) and `DeletionInv` (a row that a running deletion has in its scope
and nobody has hold of is in no archive, and left only in tables still to be cleared).

`WorldProofs`. `IInv` adds to `TypeOK` that the current world belongs to the default session or
to a configured template (`CurrentOwned`): hence editing it reaches no client session, which is
`Isolation`. `FeedsStable` needs that the current world's rooms depend on its template alone.
`Earshot` holds in every state of any room layout. `TypeCorrect` comes along.

`ChatTurnProofs`. `WorldKept` shows that the composition implements `World`, so its invariant
can be used. `TurnInv` says that an answer has one feed for a character and that after a routed
answer none is under way (`ServiceActs` would replace it), which gives `FeedIsOwn`. `ChatTypes`
says more than types: a prompt has a feed exactly when the model is called, direct or degraded.
That is so because a blackout is left out of the service's answer, which is a fact about
`Consequences` for any layout (`AnswersTyped`), and because the room of a character is found as
one of least rank, which exists by well-foundedness (`LeastOf`). For `TagsRight` a call carries
`CallOK`: `inReasoning` is true of the text sent so far. That each event keeps it is put
together from pieces (`OnePiece`, `Then`), as `Moves(pieces, was, is, ..)` says what pieces do
to a text whose tag is open or not.

`ProxyProofs`. `SettingsLast`: what was confirmed stands in the file itself (`SettingsInv`), so
that neither the defaults of the next process nor its environment matter. `PoolsSafe`: a reset
that waits moves from one side of the count `opened` plus `connecting` to the other, so their
sum is what the invariant bounds. `StreamsComplete`: the ring and every queue are intervals of
the log (`StreamsInv`); `FirstUnique` says that the first event a viewer is owed exists and is
unique. `ProcessTypes` joins the types of the three parts; it needs that there are finitely
many resets (`ResetsAssumption`), for it counts them.

`ChatMemoryProofs`. `OwnerInv`: the record of a session that was never deleted is that of its
one import task, and a task writes to records of its own session only. `ProgressInv`: a task
that noted no error has inserted all it has passed, in order. `TruthInv`: only a task that is
over leaves "completed" behind. `OneImport` and `CompletedIsTrue` follow. For the turns
`TurnInv` says that, until two requests were between their statements at one time, the one that
is has no row of its turn besides it and a turn has one row; with it `TurnSurvives` and
`NoDoubleWithoutOverlap` are inductive. `TypeCorrect` needs `Position` (where a request is, its
locals are set), and all the others need it.

`StreamParserProofs`. `LimitIsFinal`: the limit is met in public text only (`StopInv`), and the
`finally` block then finds no open monologue to show. All else rests on one fact about what is
left of a text without its tags (`UntaggedIs`): it has the places outside the tags, in their
order. The model takes them by rank (`Only`) and not by a recursive selection, so that this is
a matter of counting places (`RankIs`, `PlaceIs`). `ParserInv` says, for any cut:

- `ContigInv`: monologue and buffer are the end of what was received, without a gap, and a chunk
  ended there;
- `OrderInv`: shown words, the line, and what is not parsed lie behind each other;
- `PrivInv`: the line has no private word, and in public text an open tag lies between the
  parser and the next one, also when half of the tag waits in the buffer;
- `KeptInv`: a private word that left the buffers is in a section, or was shown;
- `ModeInv`, `StopInv`: what is not in use in a mode of the parser is empty, and at the end
  `warned` tells whether a section has a warning;
- `TextInv`: the labels of the stream (`PrivateAssumption`).

`PrivInv` and `KeptInv` are claimed of the streams in `TagsKnown` only: behind an unknown tag a
private word *is* public text to the parser, which is why `NoBleed` without `TagsKnown` fails (see
section 3). `TagsKnown` is lost by a later chunk and never regained, so the clauses stay inductive. A
tag that the list has waits whole (`PartialIs`); a tag in another case is found whole because
the end of the buffer, where a chunk ended, is not inside it (`TagNotCut`); and the tags that
only the list knows do not occur (`NoIng`).

`WordsInOrder` and `TypeCorrect` follow for every stream; `ScratchpadPrivate`, `NoThoughtLost`
and `WarningShown` for those with known tags, as their properties say. `PrivateAssumption` is
no demand on the model but says which words are called private: those behind an open tag that
is closed by a ">", with no close tag in between.

`CutsDontMatter` is of known and whole tags, and has the hypothesis `WellFormed`: tags are
whole, public words lie outside the scratchpads and no part of a tag lies loose in public text.
(All the run's streams without `<thinking>` satisfy it, by `StreamsWellFormed`.) Its invariant
`PublicInv` names a position m up to which every word is decided, and what lies behind m by the
parser's place: the present line and public text up to what left the buffer (`InPublic`), a
line that an open tag ends (`AtOpenTag`), a scratchpad without public words (`InThoughts`), or
the last line (`AtEnd`). `LineStep` moves m over a line: the line is exactly one of the
property's lines (`WholeLine`), it has no tag, so it is shown whole or is meta-commentary.
Where a chunk ended is in `cuts`, so that a close tag at the end of the buffer contradicts
`CloseTagsWhole`; without it the step that finds no close tag fails, which is the finding of
the run `stream_leak`.

Assumptions are named in the modules: limits are natural numbers, placeholders such as `None`
and `NoFeed` are no members of what they stand for, the summary session is a session, sessions
and histories exist, a template's rooms have different ranks, and `User` is a character while
`NoTarget` is none. TLC evaluates them in the runs.

Every safety property that a passing run checks is a theorem. Model-checked only: `LeaseEnds`,
`ImportSettles` and `StreamsServed`, which are liveness under fairness and out of the prover's
reach; and the four violations, which are counterexamples.

## 5. What is abstracted

- Texts: equal up to case is equal, but for the parser's tags; a message is a model value; one
  word is one atom.
- `create_csa_memory_table` (`scripts/init_db.sql:23`) is taken to create its table; its first
  `format` call has one argument for two `%I`.
- An archive file is written in one step; a half-written gzip file is left out.
- Of the parser's tags those in square brackets or with bars are left out, which the two
  descriptions both have, and which are cut as others are; so is `<reasoning>` in pieces, for
  `<reason` is a tag as well, and so are layout blanks next to a tag and the back-quote of
  `<ctrl94>`.
- In the parser, keyword headers that act as tags and the cuts of `_strip_monologue_bleed` at
  "Plan:" are left out; so is a client that goes away while the parser runs.
- In `ChatMemory` one character's table stands for all, the pool exists, and `delete_session`
  deletes the import record and then the rows (its archives are in `Lifecycle`).
- In `Lifecycle` the summary is one text and its model call succeeds or is replaced by the
  fallback sentence, with the same effect. Which rows a request carries across a deletion is
  counted from the moment it has hold of them: in its batch, in the file it is about to read, or
  in the file it is about to register, which may by then hold another request's rows.
- In `ProxyProcess` turns, resets and writes of settings appear by their effect on the streams,
  pools and file only.
- In `ChatTurn` the order of characters within a room is left open, texts are reduced to
  whether they quote the user's line, and the model id is left out.
- The world's upper/lower case handling, flavour texts and unused room management are left out.
- Memory tables are read by retrieval only; nothing is modelled of ranking or of prompts.

## 6. Not modelled

Counters, traces and the log ring of the telemetry, retrieval and the vibe profile, the wording
of prompts, the batch analyser and the embedder, hardware tiers, the page and the command line
tools: they keep no state that another part decides by, or compute numbers and text. The sensory
filter, the inference queue, `add_room`, `remove_room`, `match_template` and
`get_character_state` have no caller. The keyword headers of the stream parser are text
heuristics of one line each.

## 7. Plan

1. Done: lock, tiers, world, parser, chat memory, the life cycle with nights and deletions, the
   proxy process, the turn with both clients.
2. Done: theorems for every safety property of the passing runs (section 4).
3. Left to prove: what the public limit leaves of a stream is a beginning of its public part
   (`CutsDontMatter` excuses truncated streams), and the refinements of item 4,
   as far as their maps can be written without recursion.
4. Left to state: an abstract memory (a set of messages for each session) that `ChatMemory` with
   `Lifecycle` implements, and an abstract parser (a text and its public part) for
   `StreamParser`.
5. Left to model: the keyword headers of the parser, if they become more than heuristics, and
   retrieval, once other code decides by what it returns.
