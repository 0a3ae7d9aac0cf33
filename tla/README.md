# AISS: verification of the agent, the web server modules and the central server

AISS puts a decision in front of every web request: a module in nginx or Apache
asks an agent on the same machine over a Unix socket, the agent answers PERMIT
or BLOCK after a pipeline of detectors, and a central server collects events,
distributes CVE signatures and keeps an audit log. This directory models the
parts of it that run concurrently, fail and restart, checks them with TLC on
small instances, and proves the most important invariants with TLAPS for every
value of the constants. There are two agents, in Go and (older) in Python. Paths
below are relative to the repository.

## 1. Inventory

| Component | State | Operations | Hard behaviour | What makes it correct |
|---|---|---|---|---|
| Web server modules (`module/nginx`, `module/apache`) | verdict cache in shared memory, without a lock | check, connect, transact, store, allow or forbid | several worker processes read and write one bucket; the agent is silent, gone, or cut off; nginx runs the handler again after a body | 403 only by a decision of the agent; the cache passes only permitted addresses; no request waits for a silent agent |
| Go agent: socket server and process (`internal/socket/server.go`, `cmd/agent/main.go`) | listener, semaphore, wait group, counters | `Start`, `Stop`, `handleConn`; SIGHUP, SIGTERM; deferred shutdown | SIGTERM at any point of start and accept; late verdicts | bounded workers; counters account for every return; shutdown closes nothing in use and ends |
| Go agent: pipeline (`internal/security/pipeline.go`) | loaded patterns and YARA rules, caches in the store | `Check`, `inspectContent`, `ReloadRules` | checks of one address overlap; reload in between; verdicts queued, not written | shadow mode never blocks; reload leaves no gap; a BLOCK holds |
| Go agent: store (`internal/db/store.go`) | SQLite tables, `writeCh`, batch | `asyncWrite`, `writeLoop`, `Close` | full queue, failed `Exec`/`Commit`, drain at close | writes apply in order; close flushes |
| Go agent: telemetry buffer (`internal/telemetry/buffer.go`) | channel, batch, counters | `Send`, `run`, `Stop` | Sends race the shutdown | no accepted event lost, repeated or reordered |
| Go agent: CVE puller (`internal/updater`) | last sync time | `run`, `pull`, `Stop` | clock skew between agent and server, failed reads, lost writes, answers that do not parse | a signature is skipped only if it was stamped where no pull can see it |
| Server request handling (`server/app/database.py`, `auth.py`, `main.py`) | `_db_lock`, thread pool, event loop | `get_db`, credential checks, endpoints, background tasks | one lock held across several functions of one request, with threads and the event loop needed in between | one session at a time; every request is answered |
| Server audit chain (`server/app/middleware/audit.py`, `routers/audit.py`) | table, `_last_hash`, `_chain_lock` | append, verify, purge, reset, reload at start | concurrent jobs, failed writes, duplicate ids, restarts | the chain verifies; the log is append-only |
| Server CVE synchronisation (`server/app/cve_sync.py`, `routers/updates.py`) | signature table | a pass over four feeds, upserts one by one, deltas | runs on the event loop; feeds fail; restarts | deltas leave out nothing that was modified since |
| Server ingestion (`routers/telemetry.py`, `routers/inspect.py`, `doris.py`) | event table, CVE cache, Doris queue | acknowledge, write in the background, flush | acknowledgement before the write; failed task; restart; a cache that ages | an event is acknowledged and settled at most once; inspections use recent signatures or none |
| Rate limiter (`middleware/rate_limit.py`) | a deque per address | `is_allowed` | none: only the event loop calls it | not modelled |
| WAF proxy (`waf-proxy/main.py`) | none | consult, report, forward, register | silent agent, few threads; lost posts; the server starts late | every request ends; what is stored is what was done, once |
| Python agent: store (`agent/db/duckdb_store.py`) | tables, write queue, batch | queue a statement, write, expire, close | full queue, a statement fails in a batch, close during a batch | no row is overwritten by an older write |
| Python agent: telemetry buffer (`agent/telemetry/buffer.py`) | queue, counters, two batches | `send`, `_drain_batch`, `_flush`, `stop` | stop drains beside the flusher | every event in one place; stop flushes a batch |
| Python agent: pipeline (`agent/security/pipeline.py`) | patterns, YARA rules, hash cache in the store | `check`, `reload_rules` | overlapping checks over one hash cache that does not know the declared type, reload in between | every verdict goes back to a scan |
| Python agent: socket server (`agent/socket_server.py`) | socket, thread pool, counters | `start`, `stop`, `_handle_connection` | stop at any point of start; exceptions after the verdict | counters account for every connection; stop is final |

Interactions: module → agent by one connection per request; agent pipeline →
store (queued writes, direct reads) and → telemetry buffer (`Send`); the signal
goroutine → pipeline (`ReloadRules`) and socket server (`Stop`); `main` → puller,
buffer and store when `Start` has returned; server request → database lock,
thread pool, event loop → audit job in another executor; WAF proxy → agent by the
same socket, → server by HTTP (events, registration, heartbeat); CVE puller →
server by HTTP (deltas), synchronisation → signature table → cache of
`inspect`; Python pipeline → store (queued writes, direct reads) and →
telemetry buffer, whose flush writes to the same store.

## 2. Modules

| Module | Models | Kind |
|---|---|---|
| `LossyQueue` | what a telemetry buffer promises | abstract |
| `TelemetryBuffer` | `internal/telemetry/buffer.go` | implements `LossyQueue` |
| `Store` | `internal/db/store.go` | used by `Pipeline` |
| `Pipeline` | `internal/security/pipeline.go` over `Store` | composition |
| `VerdictService` | what an agent promises to the modules | abstract |
| `SocketServer` | `internal/socket/server.go`, `cmd/agent/main.go` | implements `VerdictService` |
| `WebModule` | both web server modules, client of `VerdictService` | |
| `AuditLog` | what the audit trail promises | abstract |
| `AuditChain` | `middleware/audit.py`, `routers/audit.py` | used by `ServerRequests` |
| `ServerRequests` | `database.py`, `auth.py`, thread pool, event loop, background tasks, `cve_sync.py`'s use of the lock, over `AuditChain` | composition, implements `AuditLog` |
| `Ingest` | `routers/telemetry.py`, `routers/inspect.py`, the writes of `routers/agents.py` | used by `WafProxy` |
| `WafProxy` | `waf-proxy/main.py` over `Ingest` | composition |
| `CveDistribution` | `cve_sync.py`, `routers/updates.py`, the CVE cache of `routers/inspect.py`, `pull` of `cve_puller.go` | composition |
| `PyStore` | `agent/db/duckdb_store.py` | used by `PyTelemetry`, `PyPipeline` |
| `PyTelemetry` | `agent/telemetry/buffer.py` over `PyStore` | composition |
| `PyPipeline` | `agent/security/pipeline.py`, the loading in `tier1_patterns.py` and `yara_scanner.py`, over `PyStore` | composition |
| `PySocketServer` | `agent/socket_server.py` | implements `VerdictService` |
| `TelemetryBuffer_proofs`, `SocketServer_proofs`, `WebModule_proofs`, `WafProxy_proofs`, `CveDistribution_proofs` | theorems about the module of that name | proofs |
| `Pipeline_proofs` | theorems about `Store` and `Pipeline` | proofs |
| `ServerRequests_proofs` | theorems about `ServerRequests` with `AuditChain` | proofs |
| `PyAgent_proofs` | theorems about `PyTelemetry` (with `PyStore`), `PyPipeline` and `PySocketServer` | proofs |
| `MC*` | instances for TLC | |

`PyAgent_proofs` extends the three modules of the Python agent side by side. That is why
no two of them share a name (`PipelineSpec`, `ServerSpec` and so on), and why
`PyPipeline` asks of the sets it shares with `PyTelemetry` only that they contain what
it uses.

State and actions keep the names of the code where there is one; every definition
that models code is listed with its lines in `PROJECT.json` under `map`.

How code becomes actions:

- **TelemetryBuffer.** `Send`, `Stop`, and one action per case of the `select` in
  `run` and per stage of the final drain. Events are numbered; `accepted`,
  `handed` and `owed` are history. A sink error is only logged (buffer.go:95), so
  success and failure of `Flush` are one step.
- **Store.** The tables are one function from keys to rows, because every
  statement the agent issues replaces one row. Readers and writer share one
  connection, so a transaction is one step; which of its statements succeed is
  chosen freely. A read that fails looks like a missing row (store.go:120, 147):
  `Get` is the row or `None`. Every queued write has a number (history).
- **Pipeline.** `Check` is split at every access to shared state: cache lookup,
  tier 1 scan, hash lookup, YARA scan, each queued write. A detector's result for
  a request is part of the request. Whether a content is spoofed depends on the
  type the request declares (`SpoofedAs`), the key of the hash cache does not.
  `ReloadRules` swaps patterns and YARA rules in two steps, each possibly leaving
  the old set.
- **SocketServer.** `Start` from `Listen` to `StartReturns`, then the deferred
  calls of `main`; `Stop` in the signal goroutine in three steps; `handleConn`
  one step per access to a counter, the semaphore or the wait group, and one per
  way to return. An accept error other than after `Stop` is logged and retried,
  which is a stutter.
- **WebModule.** One step per field of a cache entry read or written. The agent's
  answer may be its decision, PERMIT, or cut off. The phase engine of nginx is
  external: it calls the handler again after the body callback declined. A field
  is read and written in one step: a torn address string is not modelled.
- **AuditChain.** `Stamp`, `Write` and `Finish` are what `_append_to_chain` does
  before, in and after the database write; `_chain_lock` spans the three. A seal
  is the sequence of the fields it depends on, so HMAC-SHA256 is taken to be
  injective. Stamps increase strictly, as the comment at audit.py:223-226 takes
  for granted. `verify_chain` seals again what the database returns for a stamp
  (routers/audit.py:101); the model has it return the string that was sealed, which
  holds for a session that reads times as UTC.
- **ServerRequests.** A request moves from function to function; each start of a
  function needs the event loop and a thread of the pool. `get_db` holds the
  lock from `GetDb` to `ExitDb`, which runs before the response leaves, as in the
  FastAPI version the requirements name (0.115). The background task of telemetry
  and inspect takes a thread and the lock after the response. An exception that is
  no HTTPException leaves no audit job (`Respond`, audit.py:161). `CVESyncWorker` is
  a task of the same event loop, and its upserts do not await: while it is in a
  batch the loop starts nothing.
- **Ingest.** One step per transaction, for `_db_lock` makes each one session (who
  waits for that lock is `ServerRequests`). Acknowledging leaves a task; `Persist`
  runs it, with a commit or a rollback; a restart forgets it. A batch holds one
  event, which is what the proxy sends. Identifiers are fresh UUIDs.
- **WafProxy.** The handler one step per wait: queue of the executor, agent,
  backend; the report and the registration are tasks of their own. The event
  names the actor of the API key, which the deployment sets to `AGENT_ID`. A step
  of the network that loses a request or its answer is a disjunct of `Post`. An
  attempt to register fails because nothing listens (`Refused`) or, at most
  `MaxFaults` times, although the server does (`Fault`). The heartbeat writes
  `last_seen` alone and is left out.
- **CveDistribution.** One step per window of `_db_lock`: the upsert of one CVE,
  the refresh of the cache, the answer to a pull. Of a row its stamp is kept. A
  fetch delivers any subset of what a feed may tell of, none when it fails. The
  scan of a request changes nothing and is the operator `Scanned`. Server and
  agent have clocks that differ by a constant. The agent's write of the time is
  queued in `Store` and may be lost, which is a choice of `Applied`; its read of
  the time may fail, which is a choice of `Ask`. `base`, `syncedAt`, `blind` and
  `sent` are history.
- **PyStore.** The queue holds SQL statements; the writer executes a batch one by
  one, each committing itself, as DuckDB does without a transaction. A row is the
  statement that wrote it. `close` ends the writer between two statements when
  its join times out. Reads are values of `row`.
- **PyTelemetry.** `_drain_batch` and `_flush` are actions of a thread, the flusher
  or the one in `stop`; the test of the loop is part of the step before it. The
  addition to `_flushed` is a read and a write. A `store_event` that raises stores
  nothing (buffer.py:92). The deadline of a drain may pass
  once an event is taken.
- **PyPipeline.** `check` is split at every access to patterns, rules, hash cache
  and write queue; the detectors' results are part of the request, the targets of
  a body a sequence of contents. Whether a content is spoofed depends on the type
  the request declares (magic_bytes.py:101-110). `judged` is history: the types
  under which a content was scanned. Every read of the database may raise.
- **PySocketServer.** `start`, `stop` and each worker of the pool are threads;
  every exception `_handle_connection` meets is an action. `start` never returns
  normally, see section 5.

## 3. Runs

| Run | Instance | Shows |
|---|---|---|
| `telemetry_buffer` | channel 2, batch 2, 5 Sends | conservation and order; implements `LossyQueue`; every event accepted before `Stop` gets to the sink |
| `agent_pipeline` | 2 workers, 1 address, 5 kinds of request, 2 declared types, 3 checks, 1 reload, queue 2, failed reads | shadow mode, reload without gap, `BlockHolds`, ordered writes, close flushes |
| `agent_socket` | 2 connections, 1 slot, SIGTERM anywhere | counters, shutdown order, every accepted connection is handled, ends, implements `VerdictService` |
| `web_module` | 3 requests, 2 addresses, nginx and Apache, 2 bodies | fail-open, cache, timeouts |
| `server_requests` | 3 requests (session, reset, events with a key), 2 ids, pool of 2, 1 batch, 1 restart | chain, append-only log, only four named stalls, which last until a restart |
| `waf_ingest` | 2 proxied requests on 1 thread, 1 inspection, 2 attempts to register of which 1 may fail on the way, 2 restarts | what is stored is what was done; requests end; an event is acknowledged and settled at most once |
| `cve_distribution` | 2 CVEs (1 built in), 4 feeds, 2 passes, 1 restart, clock to 3, agent's clock 1 behind, level or 1 ahead | inspections use recent signatures or none; a signature is skipped only if no pull could see it stamped |
| `py_events` | 3 sends, 2 other writes, queues 2, batches 1 and 2 | every event in one place and counted; stop flushes a batch; rows in order; events are offered |
| `py_pipeline` | 2 calls of `check`, 9 kinds of request (one body under two types), 1 reload, write queue 1, failed reads, close anywhere | what is blocked or permitted goes back to a match or a scan, of this call or of the one that left the row |
| `py_server` | 3 connections, 2 workers, stop anywhere | counters, stop is final, pool drains, implements `VerdictService` |
| `stop_before_start` | 1 connection | **violated**: SIGTERM before the listener is published (server.go:126) |
| `proxy_registers` | 1 request, 10 attempts, no fault of the network | **violated**: all ten attempts are refused before the server listens, and the proxy never registers (waf-proxy/main.py:131) |

The violated properties quote what a document or comment of the repository says;
`PROJECT.json` lists each under `findings`.

The four stalls of `server_requests` are states in which circular waiting stops the
server: `SelfLookup` (a request looks its API key up while it holds the lock),
`ResetCycle` (`reset_chain` takes `_chain_lock` under the database lock, an append
takes them the other way round), `PoolExhausted` (every thread waits for the lock
whose holder needs a thread) and `LoopBlocked` (an upsert on the event loop waits
for a session that needs the loop). The run shows that nothing else stops it:
`NothingElseStops` as a state, that outside the four somebody has the lock, the thread
and the loop it waits for (`CanServe` and `CanRecord` are the guards of the
steps, written out because the proof system has no ENABLED), and
`ServedUnlessStalled` over time, that all are served. `StallsLast` says that the four do
not pass by themselves. In the instance the request with an API key has no session, so
`SelfLookup` is not reached there; the theorems cover it.

Bounds and why they are enough:

- `Capacity`, `BatchSize`, `QueueCap`, `BatchMax` = 2: smallest values with an
  empty, a partly full and a full queue, and with batches that reorder if they
  could. `MaxEvents` = 5 fills channel and batch and drops one more.
- `MaxChecks` = 3 on 2 workers: two overlapping checks and a third that sees what
  they cached. One address, because addresses do not interact except by the queue,
  which contents of bodies share with them. `MaxReloads` = 1: a reload may load
  any subset, and the second would start where the first ends.
- `MaxWorkers` = 1 with 2 connections: one waits for a slot while the other
  occupies it. The number of connections is the bound on the process's life.
- Three requests in `web_module`: two on one bucket that race, one more that
  reads what they left. `TimeoutMs` = 10 is the default; the values that set no
  timeout (0 and from 1000) are the ones `Timed` excludes.
- Three requests in `server_requests`: a holder of the lock, one that waits and
  a third on the pool or the chain lock. All three appends, with the reload of
  the pointer at a restart in between (`MaxRestarts` = 1), give chains of up to
  three entries. `MaxSyncs` = 1 batch at any time; further batches add only
  waiting of the same kind.
- `MaxClock` = 3 in `cve_distribution` with `MaxAge` = 2: a cache, a stamp and a
  pull can each be older than what makes them stale. `Window` = 1 stands for the
  seven days of a pull that does not know the last one, so that there are older
  signatures and a delta can be empty. Every way to be skipped that
  `OnlyBlindSkipped` names occurs: without any one of them it is violated. `MaxPasses` = 2: the
  lifespan's and one of `run_forever`.
- `py_events`: queues of two that fill, a drain of one event and a write batch of
  two. `MaxEvents` = 3 bounds sends and other writes together, `MaxOther` = 2 the
  latter: two writes of one row, or of two tables, around an event.
- `py_pipeline`: two checks of the same content and a reload between any two of
  their steps. A write queue of one drops the second write.
- `py_server`: a pool of two is full while a third connection waits; stop, and the
  end of `start`, at any point.
- One thread and two requests in `waf_ingest`: one waits for the executor while
  the other is with the agent. Two restarts put one of the server and one of the
  proxy, or two of either, at any point. The two attempts to register stand for
  the ten of the code, which `proxy_registers` keeps. `MaxFaults` = 1 attempt fails
  although the server listens; in `proxy_registers` none does, so that its trace
  shows the attempts before the server listens and nothing else.

Fairness:

- Goroutines (`Flusher`, `Writer`, `Check(w)`, `Main`, `Stop`, `HandleConn(c)`)
  are weakly fair: the Go scheduler runs what can run, and every blocking call in
  them has a deadline. The puller's exit is strongly fair, because its `select`
  has two cases that may be ready together. No fairness for SIGTERM, SIGHUP,
  `Send`, connections, ticks of the puller or expiry.
- `WebModule`: local steps of a worker are fair; steps that need the agent only
  if a timeout is set (`Timed`), for the timeout is what ends them.
- `ServerRequests`: the event loop and the threads run; a lock is given to some
  waiter. With finitely many requests weak fairness is enough. Requests need not
  arrive.
- `WafProxy`: executor, timeouts and event loop of the proxy go on (`Consult`,
  `FailOpen`, `Conclude`, `Backend`, `TryRegister`). `FailOpen` is the socket
  timeout of `_consult_aiss`, so the agent owes nothing. No fairness for arrivals,
  posts, restarts or operators, and none for the background tasks of the server:
  by `StallsLast` of `server_requests` such a task may wait for ever, so that an
  acknowledged event is settled in the end is not claimed.
- `PyTelemetry`: the flusher thread runs; every wait in it has a timeout. Nothing
  is assumed of `flush_fn` but that it returns or raises.
- `PySocketServer`: the threads of `start`, `stop` and the pool run, and reads,
  checks and sends end (sockets have timeouts, detectors are bounded). None for
  connections or for stop to be called.
- `CveDistribution` and `PyPipeline` state safety only, without fairness.

A type invariant is stated in every module that has variables. It is a run's invariant
in `telemetry_buffer`, `agent_pipeline`, `agent_socket` and `web_module`, and proved for
these and for `WafProxy`, `CveDistribution`, `ServerRequests`, `PyTelemetry`,
`PyPipeline` (`PipelineTypeOK`) and `PySocketServer` (`ServerTypeOK`).

`CHECK_DEADLOCK FALSE` everywhere: all these systems end (the process exits, the
bounded requests are done), and the server may wait in a circle, which the
liveness properties are about.

## 4. Theorems

All of them hold for every value of the constants that satisfies the named
assumptions, which ask for positive capacities, batch sizes and numbers of threads,
finitely many connections, well-formed tables of what belongs to what, and values such
as `Free` that are no request. They are `BufferAssumption`, `StoreAssumption`,
`PipelineAssumption`, `SocketAssumption`, `WebAssumption`, `ChainAssumption`,
`ServerAssumption`, `IngestAssumption`, `ProxyAssumption`, `CveAssumption`,
`PyStoreAssumption`, `PyTelemetryAssumption`, `PyPipelineAssumption` and
`PyServerAssumption`; every run evaluates those of its modules.

Together the theorems state every invariant, every action property and every refinement
that a passing run checks. Each proof is an inductive invariant, with a step for each
action, and where a property is about steps, the same steps from that invariant.

- **TelemetryBuffer_proofs**: `TypeCorrect`, `ConservationHolds`,
  `CountersCorrect`, `StopCorrect`, `RefinesLossyQueue`. Conservation is inductive; the
  promise of Stop is not: it needs that the drain only runs after `quit`, and that from
  its end on everything owed is in the sink or the batch. For the refinement each step
  of `Send` and of the flusher is a step of `LossyQueue` or leaves alone what that sees:
  what is accepted, dropped, handed and owed, as sets.
- **Pipeline_proofs**, the store: `StoreTypeCorrect`, `PendingOrdered`,
  `StoreWritesInOrder`. The argument follows `Pending == ops \o writeCh`: queueing
  appends a newer write, taking a batch leaves it as it is, executing removes a prefix.
  The invariant adds that the batch is empty outside a transaction, without which a
  drained write could overtake it.
- **Pipeline_proofs**, the pipeline: `TypeCorrect`, `ShadowCorrect`,
  `ReloadLeavesNoGap`, `UsesStore` (every step of the pipeline is a step of the store or
  leaves it alone) and with it `PipelineWritesInOrder`; `CloseFlushesAll`, `BlocksHold`.
  Gap-freeness needs that after tier 1 a request matches none of the patterns that
  stayed loaded. `CloseFlushesAll` needs that the writer ends only after `quit` with
  nothing queued, and that nothing queues any more once the workers are done (`Quiet`).
  `BlocksHold` is about one step: a cached BLOCK gives way only to expiry or to a write
  that was pending, and no PERMIT is pending or on its way: a check gets to caching one
  only by a lookup that found no BLOCK or failed (`Harmless` are the stages before that
  lookup and beside that path; `PassesCache` is the lookup that fails). It needs that what
  is written for an address is a verdict, and never
  the result for a content (`VerdictsFit`).
- **SocketServer_proofs**: `TypeCorrect`, `BoundHolds`, `CountersCorrect`,
  `ShutdownOrdered`, `Implements`. The inductive invariant ties the counters of
  the code to cardinalities of sets of connections.
- **WebModule_proofs**: `TypeCorrect`, `FailOpenHolds`, `CacheCorrect`. The cache
  is correct without a lock because of the order of the three stores: the bucket
  of an address nobody permitted says BLOCK from before it is live until every
  reader that saw it live is done (`Shields`).
- **ServerRequests_proofs**: `TypeCorrect`, `ChainAlwaysVerifies`, `RefinesAuditLog`.
  `verify_chain` walks the rows by timestamp, so the argument is about `InOrder`. A job
  holds `_chain_lock` from its stamp to the move of the pointer, so what it writes is
  later than every row and sealed to the last: a write appends to `InOrder`, a purge
  drops a prefix, a reset everything. The pointer is the hash of the last row but
  between a write and its move, and inside a reset (`Points`); there the table stays
  empty because a reset runs under `_db_lock` (`Cleared`). The chain verifies as long
  as nothing excuses it: no purge, and no start that could not read the pointer.
  That sorting by time has one result only (`SortUnique`) carries both.
- **ServerRequests_proofs**, waiting: `LocksGivenBack`, `OnlyFourStalls`,
  `StallsAreForGood`. Each lock's holder is inside the section the lock protects
  (`DbOwned`, `ChainOwned`), so from any request that waits one can follow who waits for
  whom: to the holder of `_chain_lock`, from there to that of `_db_lock`, and from there
  to the pool or the event loop. The walk ends at a request that can go on or closes one
  of the four circles. For the converse, everyone in a circle stands still (`Waits`,
  `StandsStill`) and nobody else can give away what they hold (`HeldStays`,
  `StampedStays`, `NoneEnters`).
- **WafProxy_proofs**: `TypeCorrect`, `OutcomeToldCorrectly`, `AgentsStay`,
  `EventsSettleOnce`. The second
  follows an event from the task in the proxy over the task in the server to the row
  (`Sent`), and needs that a report is spawned only with the conclusion, after
  which the verdict does not change (`Concludes`, `Tells`); the third that a
  deregistration and the insertion of an event are transactions of one database. For
  the types an event needs its verdict to be there, which `Decided` says. The fourth
  has one source of events, a handler or inspection that is still `Open`: each
  acknowledges once and is never open again, so no two tasks are about one event, and
  an event with a task is neither a row nor lost (`Once`). Every step then moves one
  event to its next place, or all tasks to the lost, or none (`Moves`).
- **CveDistribution_proofs**: `TypeCorrect`, `CacheRecent`, `NothingElseSkipped`.
  The cache differs from the table only in rows stamped since it was read
  (`Behind`). An answer on its way lacks only rows older than the question or stamped
  since it was given (`AnswerComplete`), and the time of synchronisation is the
  agent's clock when it was stored (`TimeIsAgents`), so a stamp can be under it at once
  only within the skew. These, the types and the property are inductive together.
- **PyAgent_proofs**, telemetry buffer: `TypeCorrect`, `EventsAccountedFor`,
  `StopFlushes`, `RowsWrittenInOrder`. Two threads drain one queue, but events are
  numbered as they are sent, so the queue is increasing and what either thread has taken
  is older than all that is queued. That keeps the places of an event apart (`Apart`),
  and makes what `stop` takes a part of what it owes as long as any of that is queued
  (`Owes`). The queued statements are those of other tables in the order of their
  numbers, and those of events, which are the same whenever they run (`StatementsFit`,
  `InTurn`).
- **PyAgent_proofs**, pipeline: `PipelineTypeCorrect`, `BlocksAreJustified`,
  `DetectedAreBlocked`. Whatever is in the hash cache, its queue or its batch is the
  result of a scan of that content under a type some call declared (`StoreRecords` with
  `judged`). That is all that is true of a row: calls that declare other types share it.
  The rest says what a call has established by each stage.
- **PyAgent_proofs**, socket server: `ServerTypeCorrect`, `StatsAddUp`,
  `StoppedIsFinal`, `ServesVerdicts`. The pool holds each queued connection once
  (`HoldsOK`), after `stop` has waited none is left (`StopOK`), and the counters are
  cardinalities, as in the Go agent. For `VerdictService` a connection is open from
  the backlog until it is closed (`Seen`).

`BoundHolds` (never more workers than slots) and `AgentsStay` (no event without its
agent) are proved and have no run; so are `LocksGivenBack` and
the types of six modules (section 3).

Model-checked only: the liveness properties, `AcceptedIsFlushed`, `AcceptedIsHandled`,
`StopEndsProcess`, `EndsWithoutAgent`, `ServedUnlessStalled`, `RequestEnds`,
`EventsAreOffered` and `PoolDrains`. They rest on fairness, so on
ENABLED, which is outside the proof system's reach.

## 5. Observations

What the models made visible beside the two violated properties. The first two are
stalls of `ServedUnlessStalled`, the third is excluded by `Alone` in
`CachedIfAllowed`; the others were read while modelling and are modelled as they are.

- A request that looks its API key up waits for the lock it holds itself
  (`auth.py:172`): `SelfLookup`.
- An upsert on the event loop waits for a session that needs the loop
  (`cve_sync.py:387`, against the comment at 352-353): `LoopBlocked`.
- Two addresses with one bucket: between the store of the address and of the
  verdict, one address is seen with the PERMIT of the other (nginx:108).
- A target whose hash is cached as CLEAN ends the inspection of the whole body, in
  both agents (`internal/security/pipeline.go:235`, `agent/security/pipeline.py:209`),
  though `GEMINI.md:35` wants every payload scanned. `DetectedIsBlocked` promises no
  more than the first target.
- The hash cache is keyed by content alone, but the recorded verdict depends on the
  `Content-Type` declared then (`agent/security/pipeline.py:198-213`,
  `internal/security/pipeline.go:235-245`). A file permitted as what it is passes under a
  type it only pretends to be, and one blocked under a wrong type is blocked for whoever
  sends it honestly. Both happen in `py_pipeline`; the properties there say no more than
  that each verdict goes back to a scan.
- A request whose URI ends in `.pdf` or `.zip` is static whatever its method
  (`agent/security/pipeline.py:328`), against its comments "zip/pdf still scanned if
  POSTed" (324) and "GET only" (329). `DetectedIsBlocked` excepts what skips the checks.
- A read of the verdict cache that fails is taken for a missing row (`store.go:120`): the
  check goes on and may queue PERMIT over a live BLOCK. `BlockHolds` names this one way.
- No delta that is not empty ever parses (`cve_puller.go:16` against
  `schemas.py:10`), and `main.go:96` passes no reloader, so agents apply no signature.
- With the agent's clock ahead, what is stamped soon after a synchronisation is asked
  for never again (`cve_puller.go:148`); and after a failed read of the last one
  (`store.go:196`), what is older than seven days and was not delivered.
- CISA and NVD replace the built-in pattern of a CVE in each pass
  (`cve_sync.py:282`, 344), which OSV avoids (line 223).
- The cache looks for an "i" in the flags (`inspect.py:74`), but the feeds write
  `CASELESS`: those patterns are matched case-sensitively.
- `UDSServer.start` ends in a call of `_cleanup`, which the class does not define
  (`socket_server.py:87`), and a connection accepted while stop shuts the pool down
  ends it with a RuntimeError before.
- `TelemetryBuffer.stop` ("flush remaining events") flushes at most one batch;
  nothing in the repository builds the Python agent from its parts.

## 6. Not modelled

- Detectors as such: regular expressions, SQL and script heuristics, magic
  bytes, Base64, entropy, the ML score. They compute from one request and share
  no state; their results are inputs of `Pipeline` and `PyPipeline`. The Python
  score adds floating-point weights, which TLA+ has no numbers for.
- The rate limiter: its only caller runs on the event loop, so there is no
  concurrency in it. The Doris writer: a queue nothing reads back.
- The gRPC sink and server, which nothing connects; configuration; headers,
  schemas and the dashboard; scripts, containers, certificates, sample backend.
- Memory management of nginx and of shared memory; hash functions.
- Wall-clock steps: the clocks of server and agent differ by a constant.
- `PROJECT.json` gives the reason for every component, and under `hazards` the
  ones no property covers yet.

## 7. Plan

Done, in this order: telemetry buffer, store, pipeline, audit chain and server
requests, socket server, web server modules, ingestion and WAF proxy, the Python
agent's store, telemetry buffer, pipeline and socket server, CVE distribution; then the
theorems, until every safety property of a run was stated by one. Next:

1. Theorems about steps that no run states: that the Python agent's counters only grow.
2. The safety half of the other liveness properties, as `NothingElseStops` is that of
   `ServedUnlessStalled`: what the shutdown of the Go agent can wait for.
3. `DorisWriter`: the flush task and its cancellation.
4. `Detectors`: severity order, size classes and sampling, and the choice of scan
   targets, as functions against reference definitions.
