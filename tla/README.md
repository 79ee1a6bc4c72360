# VoteBot in TLA+

VoteBot is a chat service about legislation: a FastAPI application that runs in
several uvicorn worker processes (`src/src/votebot`), a widget that sites embed
(`src/chat-widget`), Redis between the workers, Slack for the human agents, and
a language model, a vector index and legislative APIs behind it. This directory
has TLA+ modules of its stateful parts, TLC configurations that model-check
them, and proofs that the TLA+ proof system (tlapm) checks.

    tlc -workers 2 -config SessionStore.cfg MCSessionStore    # one run
    tlapm SessionStoreProofs.tla                              # the proofs of one module

`PROJECT.json` lists the runs, the lines of code each definition stands for,
the hazards, and for each property a mutation of the code that breaks it.

## 1. Inventory

| Component | State it keeps | Operations | Hard behaviours | What makes it correct |
|---|---|---|---|---|
| **Session store** (`api/routes/websocket.py` `connect`, `save_session`; `services/redis_store.py`) | `sessions[session_id]` in each worker, with a `revision`; a JSON copy in Redis with a TTL | `connect` adopts the newer copy; `save_session` reads, compares, writes | three awaits per save, any worker, failed reads look like "nothing stored", a worker that keeps an old copy | no copy goes backwards but in the races the code accepts; the visitor finds his session on every worker |
| **Connections and conversations** (`websocket.py`) | `active_connections`; counters in the session dict; the analytics log | `connect`, `handle_user_message`, boundary check, clean-up | a socket is cleaned up after its successor connected; a turn outlives its socket; a boundary and a clean-up both end a conversation | each conversation ends once, with all of its messages; the live socket stays registered |
| **Human handoff** (`websocket.py`, `redis_store.py`, `slack.py`) | `handoff_active`, `slack_thread_ts`; thread mappings per process and in Redis; the subscriber task | confirm, create thread, relay, agent's reply, check mark | Slack delivers to any worker, each act to a task of its own; pub/sub is fire and forget, and a failed publish is only logged; the visitor may be between two sockets | every reply is shown once, and out of order only with one that was on its way with it; the check mark returns the visitor, and from his own handoff |
| **Chat widget** (`chat-widget/src`) | `isStreaming`, `handoffActive`, the input, the socket and its attempts | send, receive, reconnect, reload | answers lost with a socket; flags that mirror the server's | the visitor can always type again, and is not told of an agent who is gone |
| **Button cache** (`services/button_cache.py`, `core/agent.py`) | saved answers in Redis (two key formats), subscriber and supervisor | serve, populate, invalidate, reconcile | an ingestion in the middle of a generation; lost invalidations; a Redis that fails to clear | no answer outlives the text it was made from |
| **Bill versions** (`services/bill_versions.py`) | a map with two TTLs | `get_versions`, `get_diffs` | concurrent lookups; remembered failures | a late old reply does not last |
| **Agent turn** (`core/agent.py`) | tasks of one message, its enrichment deadline, the text so far | gather lookups, ask the model, stream, save, log | structured concurrency, deadlines, cancellation, failures after the last frame | no lookup outlives the message; one end, one text everywhere |
| **Language model client** (`services/llm.py`) | remembered health, its lock | tool loop, streams and the fallback between them, `health_check` | a stream that fails or stops in mid-answer; callers waiting on one probe | every answer ends; one probe at a time |
| **Retrieval** (`core/retrieval.py`, `services/vector_store.py`) | the queries of one message, the remembered version | filters, queries together, merge, cap, last resort | partial failure, versions that appear meanwhile | one version of one bill; changes that were found are accounted for; no query outlives it |
| **Query embeddings** (`services/embeddings.py`) | vectors and requests in flight | `embed_query` | shared requests, callers who leave, failures, a bound | one request per text, no failure handed out |
| **Bill votes and rosters** (`services/bill_votes.py`) | rosters, refresh tasks, the requests of a lookup | serve stale, refresh; older sessions together; a name's vote | refresh against inline download; an older session answering first | a partial roster replaces nothing; the newest session wins; the vote is found |
| **Which bill, which person** (`core/agent.py`) | none | pattern searches in the message, the history, the page | three lookups that choose their subject separately | one message is about one bill and one person |
| **Broker** (`services/broker_lookup.py`) | none | paging of positions under a deadline | rows that come, change and go while the pages are read, in pages already read too | no bill twice, a cut list says so |
| **Webflow lookups** (`services/webflow_lookup.py`) | names of references, for the life of the process | by id, by slug page by page, references together | a page or a reference that fails | what is listed is found and shown |
| **Legislators** (`services/legislators.py`, `utils/federal_legislator_cache.py`) | a roster file | one request; one file | | |
| **Analytics log** (`services/query_logger.py`, `utils/metrics.py`) | files | append, aggregate | fire and forget | each event once |
| **Intents, calendar, prompts, citations** | tables and text | pure functions | none | |
| **Start-up, health, auth** (`main.py`, `api/middleware`) | background tasks | lifespan | order of reconcile and subscribe; first connects that overlap | a worker that serves hears the agents, once |
| **Redis records of DDP-Sync** (second half of `redis_store.py`) | lock, tasks, checkpoints | none is called from this repository | | |

How they interact: the widget talks to one worker over a WebSocket and may be
moved to another by any reconnect; workers share sessions, thread mappings,
saved answers and a pub/sub channel through Redis; Slack's socket mode delivers
each event to one of the workers, which publishes it for the one that has the
visitor; DDP-Sync (another service) publishes invalidations and keeps the
version records. Inside a worker everything is asyncio: a step lasts from one
await to the next, and nothing else is atomic.

## 2. What is modelled

Every module is about ONE session, button, question, jurisdiction or lookup:
the code never takes two of them together, except in the embedding cache, whose
texts compete for room.

**SessionStore** takes the copies of a session apart. `heap` has the session
dicts by identity, since the code replaces `sessions[session_id]` while a save
may hold the former one; `local` says which dict each worker has. A task
(`task`) is a connect (`ConnectRead`, `ConnectAdopt`: before and after the
await of `load_session`) or a handler (`Handle` changes the dict; `SaveRead`,
`SaveRefused` or `SaveSend`, `Land` or `SendFails` are the three awaits of
`save_session`). What a session holds is the set of events it has seen. Writes
land in any order, as each Redis command has a pooled connection of its own.
Faults: a read that fails (and answers None, as the code does), a write that
fails, expiry, a crash.

**Conversation** is the registry of sockets, the conversation counters, and the
two analytics events. `Connect`, `Receive` (boundary, counters,
`message_received`: all before the first await of `handle_user_message`),
`TurnEnds` (answered or not, then saved), `Cleanup` (both ways the endpoint
ends), `ClientLeaves` (the visitor's end, which the server notices later).
`orphan` marks a turn whose dict was replaced under it: what it writes is lost,
as in the code. A save is one step here.

**Handoff** is `initiate_handoff`, the relay, `_handle_agent_message`,
`_handle_handoff_resolved` and their delivery: directly (no Redis) or through
pub/sub with one `inbox` per worker. A connect registers its socket first and
adopts the loaded copy later (`Register`, `Adopt`), with events delivered in
between. Slack posts a thread before the worker has the answer (`SlackPosts`,
`HandoffCreated`, `HandoffFails`). What an agent does (`AgentActs`) Slack hands
to any started worker, where a task of its own handles it; a step of that task
ends at each await of the code: the channel, the agent's name and the thread's
session (`Dropped`, `Finds`, or `DeliversHere` without Redis), the publish
(`Publishes`, `PublishFails`), and of a check mark the mapping and the thread's
last post (`Clears`, `Posts`). So acts may overtake each other, on one worker or
on two; `rivals` of an act are those on their way when it was done. The three
lookups before the publish are one step: what they leave to chance is when it is,
and whether it fails. A crash loses the acts its worker was handling, which Slack
has acknowledged. `redis` says whether Redis is available; the fault `redis` is
one PUBLISH, HGET, HSET or HDEL that fails, which the code logs and no more.

**ButtonCache** is the life of one saved answer on either kind of index
(`index`): served (`Serve`), generated (`Retrieve`), stored (`Store`),
invalidated through pub/sub, cleared by an administrator, expired, reconciled
at start-up; and the memory of `BillVersionService`, whose lookup
(`AskVersions`) may be overtaken by another. The two steps "learn the current
version, then ask Redis" of a request are one step; a lookup under way is held in
the request's `reply`, so late use of an old reply is there. Redis may fail to
read, to save, to delete and to reconcile: a message whose DEL failed counts as
handled, as in `invalidate_bill`. `lost` says that the entry at hand is one the
last invalidation went by without clearing it, and that nothing has cleared,
replaced or reconciled it since.

**ChatWidget** is the other end of the socket: `UserSends` (`sendMessage`),
`After` (`handleServerMessage`), the reconnection (`Closed`, `Retry`), page
loads, and the server's loop per socket. Frames are delivered in order until
the socket breaks; the turn of a message goes on and sends its frames to
whichever socket is registered by then. A page starts with a stored session id.

**AnswerTurn** is a message's way through the server: asked over the WebSocket
or `/chat/stream`, answered from the button cache (`Replay`, `Replayed`) or by
the model. `Gather` starts the lookups, `Retrieved` may add the late one,
`RetrievalFails` and a client who leaves (`Leave`) go through the `finally` of
`_gather_premodel_context` (`LookupCancelled`, `Released`), `AskModel` waits for
the lookups and picks the API; then `Delta`, `FallsBack`, `ModelFails`, `CutOff`
or `Completed` (a stream of either API may be cut off), and after the last frame `Save` and `Finish` (log, end of the
generator, session). The agent's text and the channel's are two variables, as
they are two in the code. ChatWidget has the same turn seen from the socket
(`TurnStarts`, `TurnEnds`, `TurnCutOff`).

The services that keep something between questions have small modules, composed
by **Services**:

* **EmbeddingCache**: `embed_query` (`Ask`, `GivesUp`), the shared request
  (`RequestEnds`), its callback (`Settled`) and the bound (`Trimmed`).
* **PartyRoster**: `_get_legislator_parties` up to its first await (`Ask`), after
  the shielded wait (`Woken`) and after its own download (`InlineEnds`), the
  background refresh, and party changes during downloads.
* **HealthProbe**: polls of `/ready` queueing on the lock of `health_check`, the
  memory of a good answer, polls that are dropped.
* **StartUp**: `connect` and `_ensure_slack_started` of the first connections of
  a worker, the Slack socket, and the listener, which reads whatever `_pubsub`
  is when it runs. A listener that starts on a subscription another one reads
  fails, and may or may not take the other one with it, since that depends on the
  Redis client: both are taken (`Subscribed`), and `collided` records that it
  happened.
* **BrokerPaging**: pages of the broker's rows beside `get_org_details`, within the
  enrichment budget. The query's order is that of the bill versions' ids, so a
  row may come anywhere, change in place, or go (`RowInserted`, `RowChanged`,
  `RowRemoved`). History: `passed`, the last row that was read or skipped; `unsure`,
  the bills of rows that came, changed or went before it, or were skipped.
* **CmsLookup**: a CMS item by id, then by slug over the pages; references
  gathered together; names remembered.

The lookups of one question are composed, with ButtonCache, by **Questions**:

* **BillQuestion**: where `_prefetch_bill_info`, `_verify_legislator_vote` and
  `_should_use_bill_votes_tool` look for the bill and the person (message, page,
  CMS record, the visitor's or everybody's earlier messages), and what is shown.
* **BillRequest**: the requests of `get_bill_info` to OpenStates, one task each,
  cancelled and gathered at the end, with a caller who may give up then too;
  **NewestBill** is what it promises, and BillRequest implements it.
* **VoteSearch**: `find_legislator_in_votes` over every small record.
* **Retrieval**: `retrieve` and its phases. An index is a sequence of chunks in
  order of similarity; a query is a filter and a cut. Queries started together
  are `task`s, awaited in the code's order (`Waits`). The comparison of a version is one
  chunk here; the code cuts a long one into pieces of 4000 characters.
* **PlainTurn**: `process_message` for `/chat`, `complete` with its rounds and
  retries, and the second answer after a Tavily search.

Services and Questions instantiate their parts and have a variable `part`: the
parts share no state, each behaviour is a behaviour of one of them, and each
property says whose it is. Their constants are those of the parts. MC modules
add symmetry sets, the small sets of values of a run and, for `handoff_moves`, a
state constraint, nothing else.
**Subsequences** is shared: what a list comprehension of the code keeps of a list,
as a recursive function, so that it can be proved about.

## 3. Runs

| Run | Bounds | Question | Size |
|---|---|---|---|
| `session_store` | 2 workers, 2 tasks, 4 dicts, 2 events, all faults | can a save undo another, and does a calm visit keep everything? | 93 k states |
| `conversation` | 2 workers, 3 connections, 3 messages, pages of all kinds, write failures, expiry, crashes | does the log tell the truth, and does the live socket stay registered? | 2.2 M |
| `handoff_stable` | 2 workers, 2 threads, 2 acts, 1 connection, 3 saves, failures of Redis, fair | do replies and check marks arrive, and what may acts that overlap do to each other? | 0.56 M |
| `handoff_moves` | 2 workers, 3 connections, 1 thread, 2 acts, with and without Redis, all faults; with Redis only while `calm` (`StillCalm`) | does the handoff follow the visitor? | 2.9 M |
| `chat_widget` | 3 sockets, 3 messages, 2 agent acts, breaks, reloads, errors, cut-off answers, fair | can the visitor always type again? | 0.76 M |
| `answer_turn` | 2 messages over either channel, 2 lookups, 1 piece per attempt, all faults, fair | does every turn end, once, with one text everywhere, and with its lookups? | 1.4 M |
| `services` | 3 callers, texts and requests for vectors (room for 1); 3 lookups and 2 party changes; 3 polls; 4 first connections; 3 rows of 2 bills in 2 pages; CMS pages of 2 items; fair for the roster | do the services share, page and remember what they should, and start? | 0.37 M |
| `questions` | button: 2 workers, 2 requests, 2 versions; 4 sessions; 2 roll calls of 3 people; 3 rounds, 3 attempts; an index of 7 passages, 2 versions | is a question answered about its bill, from one version, by the right records? | 1.2 M |
| `handoff_stuck`, `button_cache_staler`, `button_cache_gap`, `answer_cut_off` | smallest that shows it | statements of the repository that the code does not keep (section 6) | violations |

Why these bounds: a race on the stored copy needs two savers and one copy of
each worker (two workers, two tasks; a third worker could only repeat the
second's role, since a revision is compared with the stored one alone); four
dicts are one per worker and one per task, so that an orphaned dict is never
reused. Two acts are what can change places, and two threads are the visitor's
handoff and a former one; three saves let him enter the second after the first has
ended (Slack's failures are in `handoff_moves`). `StillCalm` cuts `handoff_moves` where nothing is asked any more: with
Redis its property is about calm runs, and no step makes `calm` true again. A late clean-up needs two connections, one that meets a second return
needs three. Two versions of a bill suffice for "before and after an
ingestion". Four sessions are the first one and three asked together, of which
one is overtaken from either side; three of the rows make two pages
with a bill on both; room for one vector makes every further text an eviction;
a fourth connection comes to a worker that three have (not) started; three
attempts and two rounds before the last are what the code has or more than
its last-round case needs. A saved answer needs one message to make it and one to replay it,
and one piece per attempt makes every order of a failure and a text. Each bound on counters is a named constant of the module.

**calm, orderly, cut, ...** Most promises of this code are conditional: its
authors accept some races (the docstring of `save_session` says so). The
history variables name those conditions, no action's guard reads them, and each
is as narrow as TLC allowed: `calm` of SessionStore is false from the first event that
was handled on a worker the visitor had left, a reconnect to another worker
during a save, an overtaken write, or a fault; crashes of a worker at rest leave
it true. `calm` of Handoff: no agent's event found the visitor between two
sockets, and no check mark's publish failed; `failed` and `rivals` of an act say
that its own did, and what it may have overtaken. `lost` of ButtonCache, `collided`
and `deafened` of StartUp, `passed` and `unsure` of BrokerPaging are explained in
section 2 (`deafened`: a subscription failed or a listener crashed). `orderly` of Conversation: no two live connections on different
workers, no lost or refused copy. `overlapped`: a message or clean-up met the
turn of another connection. `left` and `cutOff` of AnswerTurn: the client closed
its connection, the model's stream ended without its end. `cut`, `reloaded`,
`unawares`, `missed` and `mute` of
ChatWidget: an awaited answer's socket broke, its page was left, a message was
relayed that the widget awaited an answer to, an `agent_left` was lost, an
answer was cut off.

**Properties that do the work**

* `RegressesOnlyByRaceOrBlindness`: a write that takes the stored session back
  raced another write after its own read, or had no answer to that read.
* `CalmVisitSeesEverything`, `CalmQuiescenceIsDurable`, `CalmSaveIsNotRefused`:
  in a calm visit the worker at hand has every event, Redis has it too
  whenever nothing is under way, and no save is dropped.
* `OrderlyLog`: a conversation ends at most once, counts all of its messages,
  numbers them in order, and is called natural only if it was answered.
  `NewestIsRegistered`: a late clean-up takes no live socket away.
* `DirectHandoffIsOpen`, `CalmHandoffSettles`: who is in a handoff is in an open
  one, and has all replies in his history. `RepliesArrive`, `ResolvedReturns`: a
  reply or check mark that found its session reaches a visitor who stays, unless
  its publish failed; then nobody is told, and the thread says "resolved" all the
  same. `ShownInOrder`: he sees each reply once, and a later one first only if the
  two were on their way together. `OnlyItsMarkEnds`: `agent_left` names a thread and
  the delivery does not look at it, so it ends whatever handoff the session is in;
  on one socket that is still the marked one, unless agents mark a thread twice.
* `SavedAnswersAreFresh`: on the canonical index a hit is of the version the request
  learned, or of one that changed while it was made; on the legacy index an entry is
  of the bill's text, with these exceptions: an entry that an invalidation went by (it reached no
  worker, its worker's connection broke, or its DEL failed) and no worker has
  reconciled since, and an answer that was being generated when the text changed.
  That the start-up check catches the first case is what its docstring says, and
  `button_cache_gap` refutes.
* `RequestsAreShared`, `RosterOnlyImproves`, `WaitersAreAnswered`:
  who waits for another's request gets its answer or one of his own; nothing
  partial or failed is kept.
* `WorkerHears`: once no connect is under way, a worker that has served a visitor
  hears the agents, unless a subscription failed, a listener crashed, or two
  listeners met on one subscription. First connects that overlap CAN do that, and
  leave a worker deaf, or with a client that tolerates it, hearing twice; the
  property says that nothing else of their order does, and that without it nobody
  is heard twice.
* `PositionsAreTrue`, `CmsIsShownAsListed`: paging doubles nothing, and loses
  nothing without saying so. Of the positions, the exceptions are the bills in
  `unsure`: a row that was read and then changed, one recorded on a page already
  read, and the row that is skipped when an earlier one goes. Rows that are pushed
  on and read twice change nothing.
* `OneSubject`, `ContextIsOfItsBill`, `VoterIsFound`, `NewestSessionWins`,
  `NothingOutlives`: what the model is given is of the bill, the version and the
  person that are meant, and no request goes on after the question.
* `ReportIsTrue`: what `/chat` reports as used is of the answer that is told,
  over rounds, retries and a replacement.
* `StuckOnlyIfCutOrUnawares`, `HandoffIsReal`, `InputComesBack`.
* `NoLookupOutlivesTurn`: cancelled, failed or answered, a turn leaves no task
  behind. `SavedWasShownWhole`, `RecordsAgree`, `OneEnding`: between the last
  frame and the end of the turn there are a write to Redis, a log entry and a
  change of the session, and none of them tells another story than the frames.
  `AnswerEnds`: who stays is told the end.

**Fairness.** Handoff: weak fairness of `Deliver`, `Adopt` and each act's `Handles`
(a subscriber task, a connect and the task of an act that are ready are run by
the event loop, and each call they await answers or fails; which, is not assumed). ChatWidget: the
browser handles frames, and the server's loop reads and ends its turns (each
call a turn makes has a time limit, and an exception sends `error`). PartyRoster:
a refresh and an inline download end (their clients have time limits), and
callbacks and woken lookups are run; polls, ages and leaving are not assumed.
AnswerTurn:
each turn goes on (`Proceeds`), that is, what it awaits answers or fails (the
clients of the model, of Pinecone and of the APIs have time limits) and the
event loop runs it. Nothing is
assumed of the visitor, the agents, the network or reconnections. Deadlock
checking is off: the visitor's and agents' bounded inputs run out, which is a
normal end.

## 4. Proofs

Every safety property that a passing run checks, invariants and action
properties, is a theorem here, for every value of the constants that the
assumptions of its module allow (`NoneAssumption` and its like: `None` is no
worker, session or version; counters are bounded by natural numbers; what
QuestionsAssumption and ServicesAssumption collect is the `Parameters` of the
parts). Each follows from an inductive invariant, given here with the reason why
the property alone is not inductive. TLC had checked the invariant first.

**SessionStoreProofs**

* `TypeCorrect`. The induction needs `PhaseInv`: a task that checks or sends holds
  a dict, one that handles is on a worker that has one.
* `RegressionNeedsRaceOrBlindness`: `Spec => RegressesOnlyByRaceOrBlindness`.
  `SaveInv` says of a task between read and write that was neither raced nor
  blind: the stored copy is still the one it read; and it was not refused, so
  what it sends has a higher revision.
* `CalmVisitTheorem`, `CalmDurabilityTheorem`, `CalmSaveTheorem`. The invariant
  `CalmIInv` adds `OwnObjects` (a dict belongs to one worker: a connect installs
  a fresh one) and, while `calm` holds, that the owner's copy is current
  (`Current`), what is quiet is saved (`Quiet`), a connect arrives with what
  there is (`Arriving`), the other workers are behind or equal (`Behind`), what
  is not yet saved is covered by a save under way (`Covered`), and saves are of
  the owner (`SavesAreOwn`). Each action has a lemma, and `StepCalmInv` joins
  them.

**AnswerTurnProofs**: `TurnTypeCorrect`, `LookupsEndWithTheirTurn`,
`SavedAnswersWereWhole`, `OneAnswerEverywhere`, `OneEndingOnly`. The invariant
`AInv` adds to the properties themselves what the stage of a turn says (`Stage`:
before the last frame nothing was told or logged, after it the end was told, a
turn that streams has asked the model) and that the agent's text is the
channel's (`TextIsSent`).

**ConversationProofs**

* `TypeCorrect`. `TInv` adds that connections begin in order, that a live one is
  on a worker with a session, and that no copy counts more conversations than
  there were messages (so the counters stay in their range).
* `NewestStaysRegistered`, for which `TInv` is all that is needed.
* `OrderlyLogTheorem`. While `orderly` holds, `OInv` says that all live
  connections are on one worker; that no copy is ahead of Redis and one that is
  level and has no turn is equal to it (`CopiesAgree`: this is why a connect
  elsewhere continues with the right counters); that the copy in use has the
  counters of the log (`CurrentFits`); that a turn knows its conversation unless
  it met another's (`TurnsFit`); and that each conversation's entries are right
  (`LogTrue`).

**HandoffProofs**

* `TypeCorrect`. `TInv` adds `CreatingHasSession`: the worker that awaits Slack's
  thread still has the session it awaits it for; without it the step after that
  await would write to nothing.
* `DirectHandoffTheorem`, without Redis. "A session in a handoff is in an open
  one" is kept by a check mark only if it finds the session: so a thread is
  mapped on one worker (`OneMapping`), where the session in it is
  (`HandoffMapped`), and is mapped only once Slack has answered (`ThreadInv`).
* `OneSocketOrderTheorem` and its instance `ShownInOrderTheorem` (one socket, as in
  the run). `Fits(a, b)`: b may be shown after a, that is, they differ, and if b is
  the earlier one it was a rival of a. An act that is no rival of a later one was
  past its publish when the later one was done (`RivalsKnown`), so what is published
  fits behind all that was published before it; hence what waits on a worker is in
  such an order (`InboxInOrder`), and on the visitor's worker fits behind all that
  was shown (`InboxIsNext`). With two sockets it is false: a reconnect may find
  another worker whose inbox is further on.
* `OneSocketMarkTheorem` and its instance `OnlyItsMarkEndsTheorem`. One socket means
  one dict of the session and one handoff being created, while it is in none
  (`SingleInv`). Then, unless a thread is marked twice, a check mark that is still to
  be told of finds the session in the handoff it is on (`PendingHere`), and so does
  one that may yet come on a mapped thread (`MappedHere`).
* `CalmHandoffTheorem`, with Redis and while no event fell between two sockets.
  `CalmHandoffSettles` speaks of a moment at which all is delivered; `SharedInv` of
  every moment: the holder of the socket has the latest copy (`HolderHasLatest`),
  all others an older one (`OlderElsewhere`: their saves would be refused), a load
  under way has the latest (`LoadIsLatest`), and each reply and each check mark is
  either in that copy or still in the holder's inbox (`RoutedIsHeard`,
  `LatestIsOpen`; between the two, the tasks that are to close the thread: `StillOpen`).

**ChatWidgetProofs**

* `TypeCorrect`, with the widget's socket being the registered one (`SocketInv`).
* `HandoffTheorem`: a widget that shows an agent after the handoff ended has
  `agent_left` among its frames (`HandoffKnown`), behind every `agent_joined`
  (`JoinedIsFollowed`).
* `AnswerTheorem`: unless one of the named disturbances happened, an answer the
  widget waits for is being made, asked for or on its way (`AnswerIsComing`), on
  the widget's own socket (`ServedHere`), and every start on its way is followed by
  an end (`StartIsFollowed`: else `streaming` would be set again after the end).

**QuestionsProofs** has an invariant for each part, which `StepOfPart` lifts: a
step of Questions is one of its part.

* `TypeCorrect`; `SavedAnswersTheorem` of ButtonCache. `CacheInv`
  says what an entry and an answer that is being stored tell of themselves
  (`EntryIsTrue`, `AnswersAreTrue`), and that an entry of an older text has an
  invalidation on its way, or the last one went by without clearing it, which is
  what `lost` says (`OldOnlyUntilCleared`; `GoneOrPending` for connections that break
  and DELs that fail).
* `OneSubjectTheorem` of BillQuestion: two lookups choose separately, so the
  invariant keeps where each may have its bill and its person from (`InfoMeans`,
  `CheckMeans`), and `SubjectIsOne` compares the two orders.
* `ContextTheorem` of Retrieval. `PinsItsBill`: the filters pin the page's bill, or
  one that the question names and that the passages read do not leave open
  (`OneOfThem`). `FoundFits`: each of the queries' answers, hence their merge, what
  is left of duplicates and the cut, has only what is of that bill and version.
  `AwaitsChanges`: what changed is awaited before anything is returned; its
  comparisons come first (`WhatChangedComesFirst`), so the removal of duplicates
  and the cut leave them (`ChangesAreShown`). `ReturnsWhatFits` keeps that while
  the world goes on.
* `VoterTheorem` of VoteSearch: the votes that match are finitely many and `Better`
  puts one first (`FirstInOrder`), so the search finds one of the best.
* `ReportTheorem` of PlainTurn: `RInv`, that from the first answer on, also while
  Tavily's is made, what was reported is of the answer at hand; in the rounds and
  retries before it need not be.
* `NewestSessionTheorem`: BillRequest implements NewestBill, step by step. `Learned`:
  the sessions before the awaited one have answered and have no bill. The last
  step of `get_bill_info` is the abstract step, all others stutter.
* `NothingOutlivesTheorem`, for both BillRequest and Retrieval (`QInv`: a query runs
  only while the retrieval waits for one or releases them).

**ServicesProofs**, again part by part:

* `TypeCorrect`; `WorkerHearsTheorem` of StartUp. `SInv`: the registered sockets are
  those between accept and clean-up (`Registration`), the last subscription is made
  or under way (`OnItsWay`, while none failed), and somebody reads one, or will, as
  long as no listener was lost to a failure or a collision (`Heard`). A collision
  is of two connects that each opened a Slack socket (`Opened`, `MetOfTwo`), and
  without one there is one listener (`OneListener`).
* `RosterTheorem` of PartyRoster: a download that nothing has overtaken brings
  nothing older than the roster there is (`NotOlder`).
* `SharedTheorem` of EmbeddingCache and HealthProbe: entries have different texts
  and requests (`Apart`), a request under way is an entry's, and the cache is no
  larger than its bound or the most requests that ran at once; a probe is counted
  against who holds the lock (`CallsAreCounted`).
* `PositionsTheorem` of BrokerPaging: for each bill that is not `unsure`, the list
  stands for the first k rows as they are now, for some k between the rows of the
  pages before and `passed` (`StandsFor`): a row that is read twice, or pushed
  into a page already read, is allowed for by the choice of k. `Entered` is a fold over
  a page; `EnteredStepwise` gives its steps, and the invariant of the fold is proved
  from them by the least row that breaks it.
* `CmsTheorem` of CmsLookup: the walk has seen what is before its offset
  (`WalkedPast`), and a side being resolved keeps what needs no reference
  (`SideBySide`).

**ListLemmas** has what those proofs need of lists: every set of numbers has a least
one (from the library's well-founded order of finite subsets, since its induction
theorems take an operator and no prover can instantiate them), functions defined by
recursion over 0 .. n exist (`Iteration`), and `Chosen` of Subsequences keeps the
order, the elements and their number (`ChosenInOrder`, `ChosenLength`,
`ChosenApart`, `ChosenNoLater`).

Only model-checked: liveness (`RepliesArrive`, `ResolvedReturns`,
`InputComesBack`, `AnswerEnds`, `WaitersAreAnswered`), which rests on fairness and
is out of the prover's reach; and the violations, which are false.

## 5. Plan

Order: what a visitor loses first when it goes wrong comes first.

1. Done: SessionStore, Conversation and AnswerTurn with their proofs; Handoff,
   ButtonCache, ChatWidget; the in-process concurrency of
   the services (EmbeddingCache, PartyRoster, HealthProbe, StartUp); the paging
   of BrokerPaging and CmsLookup; the question's way through BillQuestion,
   Retrieval, VoteSearch and PlainTurn; the abstract specification NewestBill;
   and the proofs of all safety properties (section 4).
2. Theorems that no run states yet: that what `Chosen`, `Distinct` and `First` of
   Retrieval return is what a reader takes them for, on the legacy index too;
   the exact order of the replies over several sockets of one worker.
3. Abstract specifications: a session register that SessionStore implements
   while calm (the owner's copy), "in a handoff or not" for Handoff; a
   composition of Conversation and the widget over one socket.
4. The choice of the current version and diff lineage as operators checked
   against a reference definition.

No module that is to be proved about uses a RECURSIVE operator.

## 6. Where the code and its documents differ

* `handoff_stuck`: a check mark put while the visitor is between two sockets
  is dropped; Slack says he returned, and his messages go to a closed thread.
* `button_cache_staler`: an answer is filed under the version that is current
  after its generation.
* `button_cache_gap`: an invalidation published between a worker's reconciliation and
  its subscription reaches nobody, and the old answer stays although every worker
  has reconciled and listens ("This catches that case at startup").
* `answer_cut_off`: an answer with web search that the Responses API ends with
  `response.incomplete` (its token limit) or `response.failed`, or one of Chat
  Completions without a `finish_reason`, has no `stream_end`, no `error` and no log
  entry; the widget's input stays disabled.

Read off the code, or met in the passing runs, and left to the list of hazards
in `PROJECT.json`, or to this list: a save whose read of Redis failed writes over a higher
revision, which the docstring of `save_session` does not know
(`RegressesOnlyByRaceOrBlindness` has it as its exception); between the creation
of a thread and the agent's first message the widget waits for answers that do
not come (`unawares`); the fallback of a stream that failed in mid-answer leaves
both texts, in the button cache too;
inactivity logged as "navigated", `conversation_had_handoff` and its two
sisters never set, the check mark on a reply (not on the thread's first message) finding no thread,
the old key format answering after an invalidation, a subscriber that is not
restarted; a reply whose publish failed, lost without a word to the agent, and a check
mark whose publish failed, answered "resolved" while the visitor stays; a second
check mark on a closed thread, which ends the visitor's next handoff if the mapping
is still there; replies shown in the order of their handling, not of their writing; `conversation_ended` logged by both workers when the visitor moves
before the first notices (`orderly` excludes it).

Met while modelling the services and the questions:

* EmbeddingCache: "Only finished vectors count toward it", but the bound counts
  those under way too.
* StartUp: overlapping first connects replace `_pubsub` under each other's
  listener, and their listeners may meet on one subscription, which leaves the
  worker deaf or, although the comment there says "Don't start duplicate
  subscribers", with two; a Slack that is out of reach fails every connect; a subscription that
  fails leaves a worker deaf for good, since Slack counts as started.
* CmsLookup: references that fail are dropped, so that an organization's page
  may say that no positions are recorded; names stay for the life of the process.
* BrokerPaging: a position recorded or changed on an older version while the pages
  are read is missed, and a withdrawn one hides the next page's first row, all
  without the note; a list that was cut and has no listed row yet is told as "none
  verified", without the note that it is incomplete.
* BillQuestion: "House Bill 5" is read by the check and not by the prefetch; the
  check takes bills from the bot's messages too; "was not found in the vote
  records" is told also when OpenStates failed; a page's CMS record overrides the
  bill the message names, which the comment at `agent.py:2139` does not say.
* PlainTurn: after the last round the text may be empty, and is saved for the
  button; a failing second answer loses the first; Tavily's answer replaces one
  made from OpenStates ("OpenStates first"), and Tavily is asked although web
  search is turned off, when the bill tool is on.
* ButtonCache: an answer retrieved before an ingestion is saved after the
  invalidation for it was handled, so that the next tap does not "generate from fresh
  data"; of two version lookups that overlap, the later answer is remembered,
  though it may be the older (`SavedAnswersAreFresh` compares with what the worker
  believes, and so does not see it).
* Retrieval: the text is scoped by the remembered version and the diffs are read
  live; `_lookup_bill_slug` of the legacy index ignores the jurisdiction; diffs
  beyond the cap are cut although the note says that they were read.
* VoteSearch: a record is a legislator's when his first OR his last name occurs in it
  (`bill_votes.py:1012`), so the vote told as "the authoritative vote record for this
  legislator" may be another's; "Showing the final passage vote" is said even when there is none.

## 7. Not modelled, and why

Text (prompts, citations, formatting, parsing of answers, page detection in
`widget.js`), and with it the phrases that trigger a lookup or a retrieval phase:
the models take their outcomes as inputs. Similarity scores are an order of the
index. Memory growth; the DDP-Sync records of `redis_store.py`, which nothing
here calls; `intent.py` and the calendar, which are data; the federal roster file,
written by a script; the evaluation scripts; authentication.
