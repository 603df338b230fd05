# Verification of the multi-agent supply-chain risk intelligence system

TLA+ models of the repository's code, the TLC configurations that check them
on small instances, and theorems about them that TLAPS checks for every
instance. Paths are relative to the repository's root, which is `src/` here.

## 1. The system

News and web pages flow through four programs into two databases; a web
front end watches.

    web pages --> scraping gateway (Go) ==gRPC stream==> ingestion hub (Scala) --> ChromaDB
    NewsAPI   --> intelligence agent: cron job (Python) --> MongoDB raw_intel
                  intelligence agent: analysis pipeline --> LLM --> ChromaDB, MongoDB
    MongoDB, ChromaDB, Neo4j, LLM <--> backend (FastAPI) <==WebSocket/REST==> front end (Next.js)
    runner (Rust) starts the programs on a developer's machine

| Component | State it keeps | Operations | Interacts by | What is hard |
|---|---|---|---|---|
| Worker pool `scrapers/pkg/workerpool/pool.go` | task channel, context, wait group | Submit, Stop, worker loop | channels, select | closing a channel under senders, cancellation against queued work |
| Gateway process `scrapers/cmd/api/main.go`, `internal/service` | Results and payloads channels, the stream, dropped counters | main, section workers, fan-out, stream goroutine, shutdown | channels, contexts, gRPC | back-pressure and timeouts, retries on a dead stream, shutdown order |
| Ingestion hub `ingestion/` | none between streams | streamScrapeData, chunkText, batchUpsert | gRPC stream in, HTTP out | partial failure of batches, chunk arithmetic |
| News ingestion `intelligence_agent/cron`, `ingestion` | MongoDB `raw_intel` | a cycle every 15 minutes | HTTP, MongoDB | window against period, duplicates |
| Analysis pipeline `intelligence_agent/pipeline_runner.py` | flags in MongoDB, chunks in ChromaDB | read, analyse, upsert, mark | MongoDB, LLM, ChromaDB | crash between two stores, two runs at once, poison documents |
| WebSocket broadcast `backend/gateway/api/ws` | list of subscriber queues | connect, publish, listen, clean up | event loop and thread pool | iteration over a list that changes, full queues |
| Mitigation graph `backend/gateway/orchestration` | none | three nodes with fallbacks | ChromaDB, Neo4j, LLM | failure of one of several steps |
| Dashboard `backend/core/db/dashboard_queries.py` | none | five counts | MongoDB | torn reads |
| Front-end client `frontend/src/lib/ws.ts` | socket, timers, handlers | connect, close, destroy | browser events | timers that survive a close, events of two sockets at once |
| Front-end pages `frontend/src/app`, `lib/api.ts` | what each page shows, REST calls, timers | effects, message handlers, clicks, navigation | REST, the client above, React | answers that arrive out of order, updaters that run late, what outlives a page |
| Runner `runner/src/main.rs` | children, signal flag | spawn, kill, wait | processes | a deadline around a blocking wait |

What makes each correct: the pool hands over in order and exactly what it
accepted, and stops; the gateway delivers a section at most once, knows where
every section is, and ends when told to; the hub stores every chunk of what it
acknowledges; the agent analyses each escalated document once and leaves no
chunk unrecorded; the broadcast reaches every live subscriber; the client is
connected unless it was destroyed; a page shows what the database has, and
takes nothing with it when it goes; the runner leaves no child behind.

`PROJECT.json` lists the components with their status and, under `hazards`,
every place of the code where one of these could fail, with the properties
that watch it.

## 2. The modules

    Delivery <--refines-- Gateway --extends--> WorkerPool
    Hub
    Channel <--refines-- WSClient
    Channel <--extends-- Browser <-- Landing, Console, DevDocs, Architecture <-- App
    RawIntel <--extends-- NewsIngestion, AnalysisPipeline <-- Agent
    Broadcast

`MC*` modules give the constants model values and the scenarios; `*Proofs` and
`QueueLemmas` hold the proofs (section 4). Operators named `Mut...` are
plausible bugs: replacing the definition of the same name by one of them makes
the property that `PROJECT.json` names beside it fail. No specification uses
them.

### WorkerPool

`scrapers/pkg/workerpool/pool.go`. Variables are the pool's fields
(`taskChan`, `chanClosed`, `poolDone` for its context, `exited` for the wait
group) and where each goroutine is (`offering`, `running`, `stop`); `accepted`
and `started` are history. A case of a select statement is an action, because
Go takes any ready case: `SubmitSend`, `SubmitRefused` and `SubmitPanics` (a
send on a closed channel is a ready case that panics) for a submitter,
`WorkerTake`, `WorkerSeesClosed` and `WorkerSeesDone` for a worker. `Stop` is
three steps, cancel, close, wait. A task's Execute ends in `WorkerFinish`,
with or without an error or a recovered panic, which the loop treats alike.
The cancellation of the parent context reaches the pool's context in a step of
its own, as in `context.WithCancel`.

### Gateway

The whole process: `main.go`, `scraper_service.go`, `grpc_client.go`. It
extends WorkerPool, whose actions become part of the goroutines' actions, with
one submitter (main). A task stands for one (seed, selector) pair and all that
is derived from it, so the same value sits in the task channel, in `results`,
in the fan-out's hand, in `payloads`, in the sender's hand, on the `wire` and
in `received`. `stage` is history: how far each section has come. The code
never looks at it.

The far end is external: `rpc` is the client stream's state, `wire` what Send
accepted and the hub has not read. The stream may break at any time, is
cancelled with the root context (it was opened with it), and is aborted by
gRPC when a message cannot be encoded. A scrape has an outcome, not content.

`Delivery` is what the gateway promises the hub: at-most-once delivery, lost
sections included. Gateway's `D` is the refinement mapping.

### Hub

`IngestionService.streamScrapeData` with `RiskIntelPipeline.chunkText` and
`ChromaDBClient`: one call, since calls share nothing but the database and give
every chunk a random identifier. A document is its size, a chunk the window
`[msg, from, to)` of the text of the msg-th message. `Pull` and `EmitChunk` are
the flatMap with its chunk loop, `Post` is `grouped`, `BatchOk` and `BatchFails`
are the upsert and its catchAll, `Reply` and `ReplyError` the two ends of the
call. The stages pull, so nothing is chunked while a batch is being sent; that
is in the guard `Producing`. What a failed, interrupted or dying call has left
in the database is any part of what it was sending. The constants are what
`AppConfig.validate` lets through, and no more: it does not compare the overlap
with the chunk size, and at 0 and below the step does what Scala's Range does,
throw or be empty. `overlap` is CHUNK_OVERLAP: a variable that is chosen at the
start from `Overlaps` and never changes, so that one run covers several. (`Live`
selects the real client or the stub, which answers without storing; the runs
are of the real one.)

### Channel and WSClient

`frontend/src/lib/ws.ts` against the browser's sockets and timers. `ws`,
`pingTimer`, `reconnectTimer`, `attempts`, `destroyed` and `handlers` are the
fields; `readyState`, `attached`, `timeouts` and `intervals` are what
the browser holds, whether a field points at it or not: a timer whose
identifier has been overwritten still runs. `asked`, `wanted` and `delay` are
history. `CallConnect`, `CallClose` and
`CallDestroy` are the methods, `TimerFires` the reconnect timeout, `Opened`,
`Closing` and `Closed` what a socket reports to whoever is still attached.
`Channel` is what the pages rely on: one link, up only after `connect()` and
before `destroy()`, and handlers that only the pages change. WSClient's `C` is
the mapping.

### The pages: Browser, Landing, Console, DevDocs, Architecture, App

One browser tab. `Browser` has what pages share: the mounted page (`page`), the
state of its component (`ui`), the timers and listeners it made (`held`), its
REST calls (`calls`, `frontend/src/lib/api.ts`), messages on their `wire`, and
the backend's `endpoint` at the other end (`ws_router.py`: accept, read the
summary, init, then poll and forward). It extends `Channel`, not WSClient: the
pages are checked against what the client was shown to implement. A summary and
a list of risks are the number of risks that were stored when they were read,
so an older one is smaller. `Landing` (`page.tsx`), `Console`
(`intelligence/page.tsx`, also mounted as `/console`), `DevDocs` and
`Architecture` (with the ecosystem page) have one action per timer, message,
answer and click; `App` adds mounting, links, Back, and hiding the tab.

React runs an updater when it renders, not when the handler calls it. Where
that can be told apart it is modelled: the `lines` the terminal shows and
`next`, what its queue of updates makes of them at the next rendering, the boot
log whose updater reads an index that has moved on (`unread`), and the failover
button that is rendered from an older state (`state` against `shown`).

### The agent: RawIntel, NewsIngestion, AnalysisPipeline, Agent

`RawIntel` is MongoDB's collection that both halves share: insert, mark, expire,
and the order a scan follows: `slot` is where it meets a document, and no slot is
given twice (`records`), so a document that expires and is inserted again comes
behind the others. `NewsIngestion` is `cron/job.py` with
`news_fetcher.py`: a clock in units of five minutes, the job that is due
`Period` after the last one *ended*, the request for the last `Window`, the page
of at most `PageSize`, and one insertion after the other; requests fail,
insertions raise, the process restarts. `AnalysisPipeline` is
`pipeline_runner.py` with `mongo_service.py`, `chroma_client.py` and
`llm_analyzer.py`: each run has its own cursor (which reads in batches, as
MongoDB answers, so what it sees changes under it): the slot it has come to
(`pos`), the documents of its last answer (`batch`), the one in hand (`doc`),
which it takes through both stages, the upsert and the mark. `due` and `failed`
are history: what was escalated at the start, and what stage 1 failed for. A run may be signalled, which it
notices between two documents, may die anywhere, and may start while another
one works. The language model answers anything: nothing, an empty list, chunks,
or JSON that is no object. `Agent` puts the two halves over one collection.

### Broadcast

`ws_router.py` and the background task of `agent_router.py`: the list of
queues, which endpoints change from the event loop and publications from
threads, without a lock. `at`, `client` and `listening` are an endpoint's
coroutine, its client and its listener; `run` is a background task with the
index of its iteration, the queue it has in hand (`q`), its list `dead`, and
history. A thread may be interrupted anywhere, so the loop over the queues is in
steps: the iterator takes a queue (`Take`), `put_nowait` tests `full()`
(`HasRoom`, `QueueFull`), appends (`Put`) and wakes a waiting listener (`Woken`,
or `WakeRaises`, as an asyncio queue is not made for threads). Nothing reserves
the room a thread has seen, so another may take it first, and a thread may still
put to the queue of an endpoint that has gone. A coroutine's step ends at an await, so `LoopFree` keeps the others from moving between the test whether a
queue is in the list and its removal; a thread may move there. Python's
iterator goes on at its index when the list shrinks, and `list.remove` raises
for a queue that is gone; an exception of a publication after a completed run is
caught and published as a failed run.

Not modelled in these modules: page content, the rate limiter's arithmetic,
configuration parsing, log lines and counters, the health endpoints' bodies,
the pages' random metrics, telemetry values and placeholder phrases, the
summaries in Broadcast (they are in Browser), the trigger endpoint and its
graph, whose outcome is "completed" or "failed" there.

## 3. The runs

| Run | Shows |
|---|---|
| WorkerPool | 5 tasks, 1 worker, 2 submitters: more tasks than channel (2) and worker can hold, so submitters block; cancellation and Stop anywhere; in-order hand-off, no task run that was refused or run twice, quiet after Stop; Submit and Stop return, accepted tasks start |
| Gateway | 2 sections, 2 workers, one unencodable, channels of 1, a stream that breaks, a signal anywhere: accounting, no Submit after close, the gateway implements Delivery; shutdown completes, queued sections are settled |
| Gateway_loss | *violated*: "zero data loss" (`README.md:14`) |
| Gateway_drain | *violated*: "the pool drains" (`scrapers/README.md:49`) |
| Gateway_flush | *violated*: "CloseAndRecv() flushes the stream" (`scrapers/README.md:49`) |
| Gateway_eof | *violated*: "the stream is immediately closed" (`scrapers/README.md:58`) |
| Hub | blank, short and three-window documents, chunk 3, overlaps 1 and 3 (there the call dies on a long document), batches of 2: acknowledged is stored, the windows are the reference windows, counts are honest, ended streams are answered |
| Hub_silent | *violated*, with overlap 4: "splits text exceeding chunk size into multiple chunks" (`RiskIntelPipelineSpec.scala:12`) |
| WSClient | three sockets, the real delays, every order of calls, timers and events: one connection, no timer lost, quiet once destroyed, connected again; the client implements Channel |
| App | ten scenarios over the pages of one tab: what is shown may go back once and catches up, calls are answered at most once, timers keep step, nothing outlives its page, what starts ends |
| Agent | news jobs in time, late, failing, restarted; one run, two in turn, two at once, with faults: nothing missed, the stores agree, processed is final, runs end |
| Broadcast | one run among a client that is served and one that comes; two runs publishing to one full queue; two publishing to a full and an empty one; threads interleaved between `put_nowait`'s test and its append; clients leave anywhere: by how much `maxsize` may be exceeded, who misses a result and why, when a completed run is reported as failed, endpoints settle |

CHECK_DEADLOCK is off where the system may rest: an idle page (App), a clock
and faults that are used up (Agent), clients that left and runs that ended
(Broadcast).

Bounds.

- *Pool, gateway.* One worker fills a channel of two with five tasks; two
  workers meet at one channel in Gateway, and the theorems hold for any number.
  The gateway's channels have capacity 1 instead of 100 and
  PAYLOAD_BUFFER_SIZE, so full and empty both occur with two sections. One
  retry reaches the first attempt, a second one on the aborted stream, and
  giving up.
- *Hub.* Up to three messages give full, partial and empty last groups,
  documents that span batches and batches that span documents, the same
  document twice, and two failed batches.
- *WSClient.* Three sockets: one current while two abandoned ones still close.
  The delays are the code's (1000 to 30000 ms, five doublings to the cap).
- *App.* A scenario (`MCApp`) is a first page and how often each kind of event
  may happen. `WireCap` 1, `RestLimit` 1, `FeedCap` 2 (50), `AlertCap` 1 (20),
  `NewsCap` 6 (7), `BootLogs` 2 (8), `LogCap` 3: lists are cut, but each is
  filled and overflows.
- *Agent.* The unit of the clock is five minutes: `Window` 4, `Period` 3 as in
  the code, a job takes up to one unit, the horizon and the retention are 6 (30
  days in the code), so an article can expire. `PageSize` 2 (50) overflows with
  two articles and one without a keyword; `BatchSize` 1 (101) makes the cursor
  ask again after each document, which two documents tell apart; `MaxChunks` 2
  tells a shorter second answer from a longer first one.
- *Broadcast.* `QueueCap` 1 (256): full and empty. Two connections and two
  publications are the fewest in which one is passed over because another left,
  in which two threads find the same queue full, and in which two find its last
  place free: a queue of 1 reaches 2. There are three scenarios (`MCBroadcast`).

Symmetry is used in Gateway_loss only, which has no liveness property; the
unencodable section is kept out of it.

Fairness. *Go*: a goroutine that can move does; a scrape returns (HTTP client
timeout, rate limiter under a deadline); timers fire; cancellation arrives; the
hub reads what it was sent. `WF` is on a goroutine's step, never on one case of
its select: a select that can always take another case owes nothing to a
particular one. *Hub*: ChromaDB answers, with success or not (the Scala client
sets no timeout of its own). *Browser*: timers fire, sockets report, React
renders, REST calls are answered or fail, a hidden tab is shown again some
time. *Backend*: a coroutine that can go on does. *Agent*: a run works off its
cursor. Nothing is assumed of signals, of stream failures, of users, of the
link and the server (`Reconnects` has the premise that the server is reachable
from some time on), of new risks, of the clock, of anybody starting a run, of
threads of the pool, or of clients.

## 4. Proofs

*Pool.* `PoolInv` adds to the types and to HandOffIsFIFO that a task inside
Submit has no answer yet and is offered by one submitter (`OfferedOnce`), that
the accepted tasks are distinct and exactly those answered nil
(`AcceptedAnswered`), and that a worker that returned holds no task
(`ExitedIdle`). HandOffIsFIFO (`accepted = started \o taskChan`) turns what is
known of `accepted` into what holds of `started`. Theorems: types, FIFO
hand-off, `PoolRunsAcceptedOnce`, quiet after Stop.

*Gateway.* `GatewayStepsPool` shows that each gateway step is a pool step or
leaves the pool alone, so `GatewayUsesPool` brings all pool theorems along.
`EverySectionAccounted` is not inductive alone: that a worker's section is at
stage "scraping" or "scraped" according to its status needs `StatusAgrees`;
that Submit's section is still new needs `SubmitsFirst`, which also carries the
order of main's submits and its Stop; that the sender's hand is full exactly
while it sends needs `SenderHolds`. `Inv` is their conjunction with the types
and `PoolInv`. `Movers` says where each moved section comes from; `AccountStep`
has one step per action that moves a section, `StageChange` says what one step
can do to a section's stage, status and answer. Theorems: `GatewayTypes`,
`SectionsAccounted`, `HubGetsOnlySuccess`, `SubmitIsSafe`, and
`GatewayDelivers`, the refinement of Delivery.

*Hub.* `Covered` is what makes success trustworthy: while no batch has failed,
every position behind the chunk loop is in a chunk that is grouped, being sent
or stored. It needs a positive step, hence the premise of
`HubStoresAcknowledged`: every overlap smaller than the chunk, which `validate`
does not ask for (Hub_silent shows what happens without it). StoredAreTheWindows
compares the collection with the windows that chunkText's loop defines, as
multiples of the step. `OnGrid` keeps the loop on such a multiple, with which
`HeldAreWindows` follows (nothing is grouped, sent or stored that is no window),
and `NoneMissing`, its other half: each window the loop has passed is somewhere
while no batch has failed. It needs no premise: with an overlap of the chunk
size or more, a text longer than a chunk has no window in either. For the count,
`HeldOnce` says that a batch is disjoint from the collection, because each new
chunk begins where the loop is and every older one before it (`BehindLoop`).
Theorems: `HubTypes`, `HubStoresAcknowledged`, `HubStoresTheWindows`,
`HubCountsHonestly`.

*WSClient.* `WSInv` joins the types, TimersAccounted and NextTryAhead with what
they rest on: the client is attached to its current socket and to no other
(`Listens`), only that one is connecting or open (`OneLive`), nothing runs
before the first connect (`Asked`), and a destroyed client has no timer and no
socket (`StaysDestroyed`). `ConnectFact` is the heart: `connect()` keeps `WSInv`
whether it is called by a page, by the timer, or after a failure, which is why
it is stated for any pending timer. How long the next delay is plays no part
there; BackoffDoubles has an invariant of its own, `DelayFollows`: the delay last
chosen is that of the attempt before, which `DelayMoves` reduces to one question
about powers of two. Theorems: the types, TimersAccounted, NextTryAhead,
OneConnection, DestroyedIsQuiet, `ClientImplementsChannel`, and `ClientBacksOff`,
from the hypothesis that 2^n is a natural number and 2^(n+1) its double: true by
the definition of ^, which is a recursion the provers do not have.

*App.* `PagesCleanUp` needs that what every page acquires is what its cleanups
release. For `PagesGoBackOnce` the invariant follows the summaries in flight:
on the wire they rise, and none is beyond the endpoint's or the database's
(`Rising`, `AtMost`); a page that has gone back has no summary call left and
shows nothing newer than what is still to come (`Behind`, `Waits`). So a
message never takes a page back after a message: only the one REST answer can.

What the lists of the pages show is a second invariant on top of that one,
`ScreenInv`, with a part for each page. `BootScreen` strengthens the boot
screen's count: line i shows log i or a later one and the lines rise, because
an updater reads an index that only grows. `TerminalScreen` says that `next`
extends `lines`; this is what makes a command, which replaces the list by a copy
of `lines`, harmless to what is on the screen, although not to what was queued.
`Numbered` follows the calls: each has a number of its own, each reply on the
screen the number of a call that is over, and all are above the clicks that are
left, so a new call repeats none. `DevDocsScreen` is the log as arithmetic of its
counter, and `TrailTurns` (no page is followed by itself on the way back) lets a
link never remount the page it is on. Theorems: `AppTypes` (with the lengths the
lists are cut to), `PagesTimersKeepStep`, `PagesAnswerAtMostOnce`, `ShownLines`.

*Agent.* `NewsInv` says of each answered request that every risky article it
could list is stored or still on its page (`Stored`), and that an article once
inserted is never "absent" again. Two requests no further apart than the window
then leave no gap between them (`NewsMissesNothing`), whatever pipeline,
expiry, faults and restarts do, and for any window, period and page size.

`PipeInv` is about the runs, any number of them. `Covers` is the inductive form of
RunMissesNothing: what was due to a run and is still escalated failed in stage 1,
is in hand, waits in the batch, or lies ahead of the cursor. It holds against the
scheduler because an insertion gets a slot that was never due, and through a read
because an answer leaves nothing behind the place where the cursor stops
(`AnswerFacts`: a short one is all there was, and a full one ends at its last
document, for any size of the answers). For the two stores, `OneAtATime` says
that unless runs overlapped one is under way at most, `Fresh` that nothing it has
before it is processed, and `Wrote` that what it is about to record is in
ChromaDB; a crash between the upsert and the mark then costs an analysis and no
agreement. `Settled` ties the document in hand to where the run is, and keeps it
apart from those that wait. Theorems: `AgentTypes`, `RunsMissNothing`,
`StoresStayInStep`, `ProcessedStays`.

*Broadcast.* `Iterates` says what one publication knows of the list: what it
came to lies behind its index (so it puts to none twice), and the queues it has
passed over are no more than those that left meanwhile. The second is the
inductive form of HeardOnceOrForAReason: a removal at any position moves one
queue at most from the index to behind it (`OtherRemoves`), and adds one to
those that left. Its list `dead` has no queue twice and none it removed, which
gives TripsOnOthersOnly. `Informed` and `Listed` tie the threads' knowledge to
the endpoints: a queue found full is still marked so. `Fits` bounds the queues:
the entries and the runs that have seen room and not appended yet are together
no more than `QueueCap` and the other runs. The length alone is not inductive,
since a run that saw room may append long after; at the test the length is below
`QueueCap` and the runs are at most all, and an append turns one into the other.
`WithoutFact` is what `list.remove` does to positions. The theorems hold for any
number of connections and threads.

Assumptions, all of them on constants: `PoolAssumption` (finitely many workers,
at least one; `None` is no task), `GatewayAssumption` (one submitter, capacities
at least one, a natural retry limit, possibly 0), `HubAssumption` (what
`validate` requires), `WSAssumption` (the no-socket value is no socket, the base
delay is positive and no more than the largest), `NewsAssumption` and
`AppAssumption` (types of the bounds; finitely many articles), `LengthAssumption`
(each list of the pages holds an item, the news log the five it starts with, the
feed a whole REST answer: the code's lengths are 20, 50, 7, 8 and 10),
`RawIntelAssumption` (a scenario's documents are met one after another),
`PipelineAssumption` (the cursor's answers hold a document; `NoDoc` is none),
`BroadcastAssumption` (finitely many connections and runs, a run at least; a
queue has room for one at least; the scenario's list has no queue twice, and its
queues hold no more than `QueueCap`).

The type invariants of WorkerPool, WSClient and Hub are theorems and are not
checked a second time by a run; PoolTypeOK is part of Gateway's TypeOK.

Only model-checked: the liveness properties (CallsReturn, AcceptedStarts,
ShutdownCompletes, QueuedIsSettled, HubAnswers, EndpointsSettle, Reconnects,
SummaryCatchesUp, WhatStartsEnds, RunsEnd; liveness and ENABLED are out of the
provers' reach), and what the violated runs show. Every safety property that a
passing run checks is a theorem.

## 5. Observations

What the models and properties had to say about the code, besides the violated
runs above. Each is stated by a property's exception or an action.

- `news_fetcher.py`: a failed request leaves a gap that no later request closes
  (`NothingMissed` is about answered requests); so do requests further apart
  than the window, and a page of more than 50.
- `intelligence_agent/README.md:136` calls the pipeline idempotent. After a crash between upsert and
  mark the document is analysed again, and if the new answer has fewer chunks
  the older ones stay in ChromaDB behind it: StoresAgree is about recorded
  chunks only. A failed upsert is marked processed all the same.
- `intelligence_agent/README.md:93` says the processed flag prevents re-processing: two overlapping
  runs do analyse a document twice (`overlapped`).
- The escalation threshold is 3 of 5 in the code (`intelligence_agent/README.md:88` has a
  scale of 0 to 100), and every keyword weighs at least 3: whatever is stored is escalated.
- An analysis that is JSON but no object ends the run, and the next one meets
  the same document again (`Stage1Poisons`).
- `ws_router.py:18`: a subscriber is passed over when an earlier one leaves the
  list during the loop; a queue that overflowed leaves its connection open and
  deaf; and when two publications find the same queue full, one raises on
  `list.remove` and reports its completed run as failed.
- `ws_router.py:20`: `put_nowait` tests for room and appends without a lock, so
  publications of several threads exceed `maxsize`, by the other runs at most
  (`BroadcastTypeOK`); `maxsize` itself is no bound.
- `intelligence/page.tsx:241-297`: a command replaces the list by a copy of the
  last rendering, and an answer or agent result that is queued and not rendered
  yet goes with it: a call is answered at most once (`AnsweredAtMostOnce`), and
  may never be. `WhatStartsEnds` counts it as over all the same.
- `ws.ts:32`: a server that accepts and drops at once resets the backoff each
  time.
- After client-side navigation with the link up no init message comes: the page
  has its REST answer and waits for the next poll.
- `page.tsx:796`: an empty list is shown as the built-in example, as if the
  backend could not be reached; `intelligence/page.tsx:269`: a score the backend
  rejects (422) reads "backend unreachable"; `architecture/page.tsx:137`
  shows a status other than "healthy" as an error, and the backend sends "ok".
- `scraper_service.go:95`: task identifiers repeat within a second.

## 6. What could follow

The composition of Delivery and Hub: that no section is stored twice although
identifiers are random follows from Delivery's theorem and one call of the hub,
but is stated nowhere. The runner's children, with the deadline around its
blocking waits.

## 7. What is not modelled

Generated protobuf code and configuration parsing hold no state of their own.
The rate limiter and the scraper's HTML handling decide how long a scrape takes
and what it returns, which the models leave open. The mitigation graph is a
sequence of three calls with a fallback each, and shares nothing with anybody;
its outcome is a choice in Broadcast. The dashboard's counts are unrelated
reads, any mixture of which may be shown; Browser takes a summary as read at
one moment, which is what the pages can tell. REST routers without state, the
analysis agents that only tests call, health bodies and logging are
presentation. The runner waits for children one after the other and nothing
waits for it. Deployment scripts are sequences of docker compose commands.
