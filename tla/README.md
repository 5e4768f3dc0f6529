# OTelux in TLA+

OTelux is a local OpenTelemetry workbench. Applications export spans, logs and
metrics to an OTLP receiver; one long-lived runtime process per user stores
them in SQLite and serves them to a desktop application, a command line, a
browser page and MCP agents. This directory holds TLA+ models of the parts of
that system whose correctness depends on the order of things, the TLC
configurations that check them on small instances, and proofs about them.

Paths below are relative to the repository (`packages/...`, `apps/...`).

## 1. Inventory

| Component | State | Operations | Interacts with |
|---|---|---|---|
| Trace store: `engine-node/src/spans.ts`, `intern.ts`, `retention.ts`, `index.ts` | tables `spans`, `traces` (materialised rollup), `resources`, `scopes`; the interner's in-memory caches; the retention settings | write (one transaction), prune (timer, settings), clear, list/get queries | called by the storage worker; cleared and re-bounded by the runtime |
| Log and metric stores: `logs.ts`, `metrics.ts` | tables `logs`, `metric_instruments`, `metric_points` | write, list with a cursor, per-instrument point cap | the same interner and retention |
| Database open: `engine-node/src/db.ts` | the file, its `-wal` and `-shm`, `user_version` | open, migrate step by step, quarantine a damaged file | the storage worker, at start |
| Memory storage and engine: `engine/src/*.ts` | in-memory tables; subscribers | the same store interface; notifications after a write | the receiver writes, RPC and MCP read |
| Storage worker: `local-runtime/src/workerStorage.ts` | the owner's map of pending calls; the worker's read and write queues | call, reply, close, death of the thread | the engine on one side, the stores on the other |
| Runtime ownership: `local-runtime/src/runtimeState.ts` | `runtime.lock`, `runtime.json` | claim, steal from a dead owner, publish, release | every process that starts a runtime |
| Runtime lifecycle: `local-runtime/src/runtime.ts`, `daemon.ts` | the mutation queue, the pending state write, the hosts | start, settings update, clear, sample data, close | all of the local runtime |
| Settings update: `updateSettings.ts`, `settings.ts`, `receiverHost.ts`, `mcpHost.ts` | settings file and revision; the two listeners and their statuses | update with rollback, commit, start, stop | RPC clients (CLI, desktop), runtime lifecycle |
| Change events: `runtimeEvents.ts`, `runtimeApiHost.ts`, `adapter-http/src/index.ts` | bounded event log and revision counter; the client's last event id | accept, coalesce, flush, replay after a reconnect, resync | engine notifications to desktop and browser |
| Runtime API host: `runtimeApiHost.ts`, `runtimeRpc.ts` | active RPC, SSE connections | start, stop, route, dispatch | clients over HTTP |
| Runtime client: `runtimeClient.ts` | none of its own | discover, launch, wait, retry | ownership files, runtime API |
| Legacy migration: `migration.ts`, `dataHome.ts` | marker file, copies in progress | copy the old data directory, resume | runtime start |
| OTLP receiver: `receiver/src/index.ts`, `singleInstance.ts` | listeners, pending exports | admit, decode, store, drain | applications, engine |
| OTLP decoding: `receiver/src/otlp*.ts` | none | JSON and protobuf to spans, logs, metrics | receiver |
| MCP server: `mcp-server/src` | sessions of the transports | tool calls | engine, agents |
| Agent integrations: `agent-integrations/src` | other programs' configuration files | detect, connect, disconnect | RPC |
| Wire protocol: `protocol/src`, `types/src` | none | validation, encoding of 64-bit integers | both ends of the API |
| CLI, desktop, plugin bridge: `apps/*`, `plugins/*` | windows, one runtime connection | commands, window lifecycle, event relay | runtime client |
| Workbench UI: `ui/src` | query in flight, trailing query, pages | fetch, refetch, paginate | the data source of the desktop or browser |


### What is hard, and what makes each part correct

- **Trace store.** Spans of one trace arrive in several exports, in any order,
  again, or never; retention deletes in statements that commit one by one; the
  interner remembers row ids outside the transaction that made them. Correct
  means: the rollup says of a trace what its spans say, no span is without its
  rollup row (nothing would ever list or delete it), retention by age deletes
  nothing younger than the bound, and a span names the resource it came with.
- **Ownership.** Any number of processes start, find each other's files, take
  over from dead ones and die between two file operations. Correct means: one
  owner, whom a client can find, and no file of a process that has left.
- **Change events.** Connections break with events in flight, the history is
  bounded, the process restarts and its revision starts again at 0. Correct
  means: a client that relies on hints is not left with a stale view.
- **Settings.** A call touches two listeners and a file across a dozen awaits,
  while other programs take ports, other calls wait and `close()` runs. Correct
  means: revisions have one winner, a refusal undoes what was done, no listener
  is forgotten, and the runtime ends with none.
- **Storage worker.** Two threads, two channels, two queues, two limits, and a
  thread that may die. Correct means: callers see a store that executes each
  call once, writes in order, and answers.
- **Start-up.** A start copies an old directory, picks a path, opens, migrates or
  sets a damaged file aside, and may die between any two writes. Correct means:
  what opens is whole and of the current schema, and nothing is lost.
- **Clients of the runtime.** A discovery file can name a dead, an old, a
  half-started or a closing runtime while several hosts start, stop and restart
  it. Correct means: nobody waits in vain, and an exit status tells the truth.
- **Listeners.** Slots and pending exports are counted up and down on every path
  of a request, the abandoned ones included, while `close()` waits. Correct means:
  the counts are those of the requests in progress, and no client that has stayed
  is without its answer when the engine closes.
- **What passes.** A record goes through one of two decoders, a table, a wire codec
  and a validator written apart from each other. Correct means: a conforming
  record arrives whole, both encodings say the same, and no listing is refused
  by the client that asked for it.
- **Views.** Hints are merged, answers come in any order, queries, selections and
  rows change meanwhile. Correct means: what is shown belongs to what is asked,
  and a view that is left alone shows the last change.
- **Desktop.** Refreshes, saves, broadcasts and a loading window overlap, and there
  are six ways to leave. Correct means: the window ends with the runtime's
  settings, and a quit quits.
- **Everything else** is sequential code without state of its own; section 7 names it.

## 2. How the modules fit together

| Module | Built on | Question |
|---|---|---|
| `TelemetryStore` | | rollup, retention, interning across failures and crashes |
| `DataStartup` | the claim of `RuntimeOwnership`, as one process at a time | the old directory, the schema, the quarantine across crashes |
| `RuntimeOwnership`, `OwnerFiles` | detailed and abstract | one owner per data directory; the file operations keep what the two files promise |
| `RuntimeEvents` | | no client is left with a stale view |
| `SettingsUpdate` | | atomic updates of listeners and file |
| `StorageWorker`, `StorageService` | detailed and abstract | the facade implements a serial store |
| `LiveQuery` | | the transitions of the data hook, as operators |
| `Listing` | | one page of a listing, as each store cuts it |
| `LiveList` | `Listing`, `LiveQuery` | a list with its pages over a changing store |
| `MetricPane` | `LiveQuery` | two queries, one of which names rows of the other |
| `TracePane`, `LogPane`, `WaterfallPane` | | a selection, its cache, its answers; a tree and its folds |
| `Workbench` | the five above | what the workbench shows |
| `RuntimeClient` | the claim of `RuntimeOwnership`, as one step; `OwnerFiles` | hosts that find, start, stop the runtime |
| `RuntimeServers`, `StatePublishing`, `DesktopShell`, `TelemetryPassage` | | requests and their drain; the discovery file; the application; the data |
| `RuntimeEdges` | the five above | what surrounds a runtime |

The claim of the lock has its file operations in `RuntimeOwnership` and is one
action in the modules above it. `OwnerFiles` says what both have in common: which
process the two files name, and who may change that when. The detailed claim
implements it (`FilesKept`, checked and proved), and so does the one step of
`RuntimeClient` (`SeenFiles!Spec`, proved). The two divergences found there
(`ownership_two_owners`, `swapped`) are therefore not part of them. Likewise hints
are lost and replayed in `RuntimeEvents`, and only arrive or are merged in
`Workbench`.

`Workbench` and `RuntimeEdges` put components side by side. The variable `surface`
(`scene`) says whose behaviour it is: those components share no state in the
code beyond what each model already contains, and a product of all their
interleavings would show nothing more. A component at rest keeps its simplest
initial state.

What comes next, in this order: retention of logs and the point cap of
instruments, with `TelemetryStore`'s passes; `clearData` and `loadSampleData` on the
mutation queue; several readers of one projector with trace-id hints; the
settings form. Every safety property that a run checks is now a theorem, with
the exception named at the end of section 6; what comes next to be proved is what those models
will add.

## 3. The models

Every variable and action carries the name of the function or field it stands
for where there is one; `PROJECT.json` gives the lines. Operators whose comment
begins with "A bug" or "A mutant" are not part of a model: they replace the
definition below them to show that a property can tell.

### TelemetryStore

The tables `spans`, `traces` and `resources` are one value `db`, with `saved` the
value that a ROLLBACK or a crash inside a transaction brings back. The store is
synchronous code in one thread, so operations do not overlap (`pc`), but between
two SQL statements a statement may throw or the process die:

- `BeginWrite`, `InsertSpan` per span, `RecomputeTrace` per touched trace,
  `Commit`; `InsertFails` is the catch block, which restores the tables and
  leaves the interner's `cache` as it is.
- `Prune` (timer) and `ApplyRetention` (settings) start a retention pass; its
  DELETEs (`DeleteAgedTraces`, `DeleteOldestSpans`, `DeleteOldestTraces`) are
  durable one by one.
- `Clear`, `Tick` (the clock moves between operations), `Crash`.

Abstracted: a resource is one per canonical hash; bytes are not counted, so any
size-pruning round may be the last; scopes are interned by the same code as
resources. The order of two root candidates is left open because the SELECT has
no ORDER BY.

### RuntimeOwnership

One step per file operation of `claimRuntimeOwnership`, `tryCreateLock`,
`removeOwnedFile`, `writeRuntimeState` and `close()`, for any number of processes.
`lock` is the lock file with whether its record has been written, `state` the
instance that `runtime.json` names, `seen` what a process last read. `recent`
abstracts the modification time: `Age` lets 30 s pass, except while the creator
is still about to write. `swapped` is a history variable: some process has
removed a file other than the one it had read. `alone` marks processes that
never had another live one beside them.

`OwnerFiles` is the same directory as others see it: the process that the lock names
(`owner`), the one that the discovery file names (`listed`), those that run (`live`).
A claim of several steps has its effect in one of them, the write of the record
(`FillLock` is `Claim`); removing an abandoned lock is `Release`, of an owner that has ended and
is not listed any more. After a replaced file has been removed it promises nothing.

### RuntimeEvents

Projector (`Accept`, `Flush`, `EventsSince`, `Stop` and `Start` of the process),
SSE endpoint (`Connect` replays and subscribes in one step, as the code does
without an await between them) and the reconnecting client (`Initialize`,
`Deliver`, `Drop`, `Retry`, `Subscribe`, `Unsubscribe`). An envelope is the set of
signals it hints at. `announced`, `owed`, `connected` and `idIsCurrent` are history
variables for the properties.

### SettingsUpdate

Each call walks through `updateSettings`: `queued` behind the calls before it,
revision check and preview (`Refuse`, `Begin`), the receiver, the MCP server,
`CheckRevision`, `Rename`, `Apply`, and on failure the rollback in reverse order.
Moving a listener is four steps (`StopListener`, `Listen`, `Settle` or `Disable`)
because the code awaits between them; `held` says who really listens on a port,
`socket` what the host object remembers. `Close`, `StopApi`, `ApiStopped` and
`CloseListener` are `close()` as far as mutations and listeners go. Settings that
move no listener are patches that keep everything.

### StorageWorker and StorageService

`StorageWorker` has the owner's map of pending calls, both message channels, the
two queues of the worker and the flag that a step is scheduled. `Load` is the
start, `PruneThrows` the one uncaught exception the thread can meet (the pruning
timer has no try), `OnError` and `OnExit` the two events its owner then sees.
`StorageService` is what a caller may rely on, and knows nothing of queues:
`Ask`, `Do` (one instant of effect), `Answer`, `Lose`. The refinement mapping
(`stageOf`) reads a call's stage off the outcome, the reply channel and the
pending map.

### DataStartup

`dir` has the three places data can be (`home`, `custom`, `legacy`), each with its
database, write-ahead log and settings; a database records the schema parts it
has, its `user_version` and where its rows came from (`line`). A start goes
through the marker, the copies and the removal of the marker (`Begin`), the choice
of the path, `OpenDatabase`, `Bootstrap`, one `Migrate` per schema step, the write of
the version, or the renames of a `Quarantine`. `Crash`, `Damage` and failing opens are faults, of which
there are `MaxFaults`. SQLite, external, replays a log that belongs to its file.
`cutShort` is history: a quarantine died between its renames.

### Listing, LiveQuery, LiveList

`Listing` is a page as an operator, once for SQL (keyset over a row that may be
gone) and once for the memory store (an index). `LiveQuery` is
`useDataSourceQuery`: a hook is a record, and `Begin`, `Schedule`, `Restart`, `Notified`,
`TimerFires` and `Finished` are what its effect, subscriber, timer and `run()` do.
`LiveList` puts a store, a hook and the pages of `useCursorPages` together:
`Ingest`, `ClearAll`, `Prune` (announced to nobody), `Hint`, `Timer`, `Answer` and
`Deliver` apart, `Fail`, `ChangeQuery`, `TogglePause`, `LoadMore`, `AnswerMore`,
`DeliverMore`. A reading carries how many changes it includes and which rows
have not changed since: history for the properties.

### TracePane, MetricPane, LogPane, WaterfallPane

`TracePane` is the latest-only loader with its least-recently-used cache (`Effect`,
`StartLoad`, `ReadTrace`, `Loaded`, and the late answers of superseded loads). An event takes
two steps: `Hear` deletes the entry and calls `setRevision`, `Rerender` runs the effect,
which raises the generation; a load that is answered in between is still the current one.
`MetricPane` has two hooks, the second keyed by the row id the first one showed,
over both rules for row ids. `LogPane` is the request counter. `WaterfallPane`
computes the tree, its rows and its folds as `trace.ts`, `layout.ts` and
`Waterfall.tsx` do, one loop turn per step (`Pop`, `AppendLeft`), then lets the user fold
and spans arrive.

### RuntimeClient

A host (`runCli`, or the desktop through `ensureRuntimeClient`) goes `Look`, `CallRuntime`,
`ShutDown`, `Stopped` with an `aim` that a start, stop or restart gives it; `Fails` is
what becomes of each error code, `DeadlinePasses` and `TimesOut` the clock. A daemon
goes from `ClaimLock` to `Bind`, `PublishState`, and through `StopListening`, `Unlist`
and `ReleaseLock`. All daemons listen on one port, so a call can reach another
one than the file named (`CallRuntime` lets any that answers take it). A daemon that
is asked to stop before it is published remembers it (`stop`, `daemon.ts:20`). `excused`
is history: waits that the code does not save, see section 5.

### RuntimeServers

A request is a record: where it is, which listener it came to, its body as a
sequence of calls, its replies and its status. `Arrive` is the policy and the
limits before the body, `ReadBody` the body and, for the receiver, the pending
limit, `HandleCall` one call, `Respond` the answer. A client may go away at any time:
before its body is sent (`Abort`), from its stream (`EndStream`), or while it is served
(`HangUp`), in which case the handler goes on with the calls that are left and answers
nobody. `BeginClose` and `StopNext` walk through `stopResources`; each `server.close()` waits
for the connections that are open (`Connected`), not for handlers, so that a call can
meet an engine that is closed (`Outcomes`).

### StatePublishing, DesktopShell

`StatePublishing` counts status changes; `FirstSnapshot` and `FirstWrite` are those
of the start, `WriteSnapshot` those queued by `scheduleStateWrite`, each of which may
fail. `DesktopShell` has the runtime's settings, the main process (`signal`, `refresh`,
`saved`), the window and the quit; each answer is read in one step and arrives
in another, or is lost (`RefreshFails`, `SaveLost`, `OpeningReadFails`: a time-out, a 503, a
refused result), after which nothing is tried again. `overtaken` and `untold` are
history: an older answer came after a newer one; the newest settings at a refresh
that failed. Whether a hidden window can be seen changes nothing here and is left out.

### TelemetryPassage

A field is one of the classes that the steps tell apart (for an id: `lower`,
`upper`, ...; for a number: what fits in 53 bits, in 63, ...). `Incoming` is the
protobuf or the JSON reader, `Decode` the shared decoders, `Write` the transaction,
`Kept` what a row says when it is read back, `Outgoing` and `Encodable` the facade and
the wire codec, `Takes` the client's validators. `Send` exports a batch in either
encoding, `Views` asks for a view of the rows, `Turn` follows the cursors of a
listing. `Conforming` says which records OTLP allows and OTelux promises to show;
`Portable` which of them both encodings can express: a JSON number beyond 2^53,
an infinity, or an absent timestamp is not the same thing in the other one.

## 4. The runs

| Run | Instance | Shows |
|---|---|---|
| `store_rollup` | 2 traces, 2 spans, 5 exports (child before root, re-sent with a cycle, one SQLite refuses), batches of 2, 3 clock values, age or size retention, 1 crash | `RollupExact`, `FreshSpansKept` |
| `store_attribution` | no refused export; 2 crashes; fair | `SpanAttribution` when no write is rolled back; `HollowHealed`: a rollup row that a crash left without spans does not stay |
| `store_poisoned` | with an export SQLite refuses | `SpanAttribution` **violated** |
| `ownership_kept` | 3 processes, 2 rounds of the claim loop, symmetric | `Discoverable` (owner, lock and discovery file agree), `AloneOwns`, `FilesKept` (implements `OwnerFiles`) |
| `ownership_two_owners` | the same | `AtMostOneOwner` **violated** |
| `events` | 2 signals, history of 2, 4 changes, 2 drops, 1 restart; fair | `NothingMissed`, `HintsArrive` |
| `settings` | 2 calls, 3 ports, 3 patches, a port other programs have or take, 1 close, 1 restart, two settings files with odd values | `OneWinner`, `PortsAccounted`, `QueueMoves`, `AllOrNothing` |
| `settings_atomic` | 1 call | `RefusalAtomic` **violated** |
| `worker` | 4 calls of any kind against a limit of 3; fair | `OwnerLimits`, `CloseDrains`, `EveryCallSettles`, `Serves` (implements `StorageService`) |
| `workbench` | lists: 3 rows, pages of 1, 3 events, both stores; 2 traces, a cache of 1, 5 events; 2 instruments, 3 events; 2 logs, 4 requests; every tree of 4 spans over 2 starts, 2 folds; fair | `QuietIsCurrent`, `ShownIsAsked`, `PagesFit`, `TraceCurrent`, `PointsOfRow`, `MetricsCurrent`, `DetailsOfSelected`, `WaterfallTrue`, `CatchesUp` |
| `startup` | every mix of old, canonical and configured data of versions 1, 3, 5, 6; 2 faults; fair; deadlock checked | `OpenedWhole`, `SchemaExact`, `NothingLost`, `ComesUp` |
| `edges` | 2 hosts, 2 daemons, 2 releases, 1 fault; 2 requests, limits of 1, 2 arrivals; 3 status changes; 2 settings changes, 1 reload; 2 exports with an odd record; fair | `NeverHopeless`, `ExitTells`, `SlotsExact`, `Drained`, `PublishedCurrent`, `WindowCurrent`, `Arrives`, `EncodingsAgree`, `PagesWhole`, `EndsInTime` |

**Why the bounds are enough.** Two traces are what it takes to mix up two
resources or to prune one and keep the other; a batch of two and a second batch
split, complete and re-send a trace; two crashes hit both DELETE pairs. Three
processes are a dead owner and two contenders; the code's three claim rounds are
cut to two, which still has every process lose a race and try again. A history
of two expires after three flushes, with four changes and two drops to lose it
twice. Three ports let two listeners swap and leave one for another program; two
calls are what it takes to overlap, and calls of a queue meet only pairwise; a
restart reads back what a failed `persist` left. Three pending calls hold a read,
a write and a close at once, with a fourth to be turned away.

Three rows with two sort values and pages of one have a tie, a page between two
others and a row that can leave or move while it is a cursor; two hooks' worth
of events fold into a run and a trailing run. A cache of one evicts on the
second trace. Two row ids are given, freed and given again. Four spans make the
smallest tree with a branch, a cycle and a root beside them. Two faults crash a
start in the recovery from a crash; version 1 runs every migration step, 3 a
suffix of them, 5 is the current one, and 6 is from a newer release. Two hosts and two daemons
are a stop beside a start and a restart between two releases. Limits of one are
full with one request and turn the other away; each arrival is any kind of
request. Two exports compare the encodings of one record, and one with what a
refused one left; records are odd in one field because no step but the one of
the two times looks at two fields.

**Deadlock** is checked in `startup`, where every state has a next one. The other
systems may stop (a store with no work, processes that have all ended, a client
that has given up). `QueueMoves` and the liveness properties say where not.

**Fairness.** The store: weak for the statements of an operation that has begun,
strong for the retention timer, because Node visits the timer phase between two
`setImmediate` callbacks and the worker takes one request per callback. Events:
weak for microtasks, requests and the reconnect timer; a change, a drop or a
restart need never happen. The worker: weak for both event loops and the two
thread events; the timer need not fail and nobody has to call. The workbench:
weak for hints, timers and answers; a user need do nothing. Start-up: weak for
starting again and for the steps of a start; faults are bounded. The edges: weak
for the steps of a daemon and of a host, for the clock, for the handling of each
request whose body has been read, for `close()`, and for answers to and steps out of
the desktop. A client need neither send its body nor go away: Node's
`requestTimeout` would end it, but `server.close()` clears the interval that enforces that.
`EndsInTime` therefore excepts a close with a request that is read for ever. Runs without liveness have no fairness.

## 5. Where code and documentation disagree

Three disagreements are runs of their own:

1. *store_poisoned*: the interner caches the id of a row that ROLLBACK removes
   (`intern.ts:58`, `spans.ts:144`). Later exports of that resource fail on the
   foreign key or, once another resource has taken the id, are attributed to it.
2. *ownership_two_owners*: two processes that judge the same stale lock both
   remove `runtime.lock`, the slower one the new owner's (`runtimeState.ts:83`).
3. *settings_atomic*: a receiver that was in the error state before a refused
   update is left running on the refused port (`updateSettings.ts:68`).

Others were met while modelling; the passing properties exclude them by name, or
do not speak of them. In the runtime:

- A client whose first connection breaks before its first event reconnects
  without `Last-Event-ID`, and `eventsSince(undefined)` replays nothing
  (`runtimeEvents.ts:78`, `adapter-http/src/index.ts:181`), where `docs/protocol.md:74`
  says "After reconnect or a revision gap, a client refetches its active queries."
  A first `initialize` that fails is not retried (line 241).
- A process can remove `runtime.json` after another has replaced it
  (`runtimeState.ts:151`, read, await, remove). `Discoverable` and `FilesKept`
  promise nothing of the owner once `swapped`.
- Event revisions restart at 0 with the process, so an id from before a restart
  can pass for one of the new process (`runtimeEvents.ts:78`). `NothingMissed`
  speaks of clients with `idIsCurrent`.
- Between the two DELETEs of a retention pass a crash leaves a rollup row
  without spans (`retention.ts:65`). `HollowHealed` says that it goes away.
  This needs age retention: with only a size bound, the row stays as long as
  the file is small enough.
- `persist` can fail after its rename (`settings.ts:97`, chmod): the update is
  refused, and comes into force at the next start.
- An update that arrives while `close()` waits for the mutation queue, and whose
  client hangs up, can bind a listener behind `close()` (`runtime.ts:304`).
  `PortsAccounted` holds while no client hangs up on its call during the close.
- A storage call made after the worker thread has died is never settled, and so
  `close()` is not either (`workerStorage.ts:100`). `EveryCallSettles` exempts
  the calls in `late`.
- A status change between the first snapshot of the state and the end of its
  write is not published until the next one (`runtime.ts:384`; `behind`).
- `oteluxctl restart` sees a runtime as stopped when `runtime.json` is gone, and
  the lock goes later: the new daemon can find it held, exit, and the restart
  times out (`excused`).
- A process that dies between the renames of a quarantine leaves a log beside a
  new database that is not its own (`db.ts:391`; `cutShort`). Every error but a
  failed migration step quarantines, a passing one included. `docs/arch.md:243`
  puts the migration of old data outside the owner's claim; the code runs it
  inside (`runtime.ts:97`), which is what makes it safe.
- `close()` reaches the engine while the handler of a batch whose client has hung up
  still calls it (`runtimeApiHost.ts:97`, `148`). `Drained` is about the clients that
  stay, and says that whoever is left is such a handler.
- A client that leaves its body half sent keeps `close()` waiting for as long as its
  connection is open (`runtimeApiHost.ts:97`; `EndsInTime`).
- Full quit is promised always to perform the whole shutdown (`docs/spec.md:259`);
  with a dead runtime the shutdown call throws, an error box shows and the
  application stays (`apps/desktop/src/main/index.ts:567`).

In the data:

- `server.ts:98` of the MCP server says notifications get no reply; those for
  `initialize`, `ping`, `tools/list` and `tools/call` do.
- Ids in JSON are kept as they are spelled, those in protobuf are lower case: one
  upper-case id, a severity above 24, an over-long metric name or service makes
  the client refuse the whole page it is on, a span kind above 5 the whole trace.
- `otlp.ts:11` calls the receivers lenient; a fractional timestamp throws in
  `BigInt` and the whole export is answered 400, and one beyond 2^63 fails the
  write, so the whole export is answered 500 and rolled back.
- A protobuf timestamp of zero is omitted and its span dropped, the same one in
  JSON kept; an infinity is 0 in JSON and in protobuf makes the list and the
  points of its instrument unanswerable; a NaN attribute is stored as null, and
  the details of its record are refused. Metric integers beyond 2^53 are rounded,
  histogram counts beyond it refused.
- 500 logs with messages of 4096 characters exceed the response budget of 2 MiB.
- Default sort directions, the source filter of facets, and LIKE wildcards against
  `includes` differ between the SQLite and the memory store.

In the views:

- A page that was asked for before a refresh is appended after it, and one that
  fails then enables "Load more" again (`useCursorPages.ts:33`; `astray`).
  Retention hints at nothing, so views keep rows that are gone.
- A change of a trace that is cached but not selected is missed
  (`useSelectedTrace.ts:38`; `missed`). So is one that is heard during a load whose answer
  comes between `setRevision` and the effect (lines 45 and 53): the old reading goes back
  into the cache and the effect takes it for a hit. A trace above 20,000 spans evicts itself.
- SQLite gives the row id of a deleted instrument to the next one, where
  `docs/protocol.md:141` promises a stale reference; `PointsOfRow` speaks of ids
  with one `owner`. After a failed query the old points stay.
- The span drawer shows the previous span's details until the next ones come
  (`ui/src/index.tsx:395`).
- A folded span that a later parent puts on a cycle stays in `collapsed`, and the
  button for all rows can then be wrong. `WaterfallTrue` speaks of it while every
  row is reached from a root.
- An older answer, or the opening read of a window, can overwrite newer settings,
  and a broadcast is dropped while the window loads (`overtaken`). A refresh that fails
  while the runtime runs is logged and not tried again, so that application and window
  keep the old settings until the next signal (`main/index.ts:225`; `untold`).

## 6. The proofs

Checked with TLAPS, for every value of the constants that satisfies the named
assumptions of the module.

- `TelemetryStore_proofs`. `TypeCorrect`. `RollupCorrect` (`SpansListed` and
  `RollupExact`), by `RollupInv`: neither is inductive, because inside a write the
  touched traces are out of date and inside a retention pass spans go before
  their rollup rows. The invariant names both exceptions, and adds that inside
  a pass the spans that are left belong to rows that stay. `FreshCorrect`, by
  `IngestInv`: a rollup row is at least as recent as each of its spans, and the
  pass works with the cutoff it computed. `AttributionCorrect`, from the
  assumption that SQLite accepts every export, by `CacheInv`: every cached id
  names the row of the bag it is cached for; it is this conjunct that a rolled
  back write breaks.
- `RuntimeOwnership_proofs`. `TypeCorrect`. `LockKeptCorrect`, by `OwnershipInv`: a
  process that has judged a lock abandoned has judged that of a process that
  has ended, or the file has changed since; a lock that is not filled yet and
  no longer recent has no creator at work. Together they make the removal of a
  live owner's lock a `swapped` step.
  `DiscoverableCorrect`, by `CleanInv` on top of it: a process that has looked for its
  discovery file leaves none, and one that looks at a lock of its own finds it
  filled. `AloneOwnsCorrect`, by `AloneInv`: a process that is alone finds the lock as it has
  read it, so that it judges what is there, removes it in its first attempt and
  creates its own in the second. It therefore assumes that there is a second; the
  code makes three (`runtimeState.ts:48`).
  `FilesKeptCorrect`, the refinement of `OwnerFiles`: each file operation is one of its steps
  or a stutter. It needs, on top of `OwnershipInv` and `CleanInv`, that a process about to remove
  the lock of a dead owner has seen the discovery file of that owner gone
  (`ListingInv`). `FilesAgree` follows: until a replaced file is removed, the discovery file
  names nobody but the owner of the lock.
- `RuntimeEvents_proofs`. `TypeCorrect`. `NothingMissedCorrect`, by `EventsInv`: the
  history is contiguous and ends at the current revision, whatever was flushed
  within it is recorded in it, and the stream is in order. The first two make
  a replay complete; the last makes it stay so while the client reads.
- `StorageWorker_proofs`. `TypeCorrect`. `OwnerLimitsCorrect`, by `LimitInv`: requests
  in the queues, requests and replies on the channels together are never more
  than the pending calls, so a running worker that reads a request has room for
  it. `OwnerLimits` alone is not inductive: it says nothing of what is on its way,
  nor of a refusal that has been sent and not delivered. That a call's number is
  above every pending one keeps the count exact when a call is made.
  `CloseDrainsCorrect`, by `DrainInv`: requests are in the order of their calls wherever
  they are, reads in the high queue apart (`OrderInv`); a running worker has lost no
  pending call (`PlaceInv`); and the answer to `close()` comes after those to all calls
  before it (`AnsweredInv`), because the worker takes it from the normal queue only
  when the high one is empty.
  `ServesCorrect`, the refinement of `StorageService`: the initial states are its initial
  states, and each step is the step of the service that answers the call, or a
  stutter. It needs `ServeInv`, on top of `DrainInv`: reads are in the order of their calls
  too (`QueueInv`), a request that waits is that of a pending call whose answer is
  not on its way, and the promise of a pending call is not settled (`OutcomeInv`);
  without these an answer could settle a promise twice, or a service that works in order
  could not have given it.
  `NoStall` and `WorkFalls` are what `EveryCallSettles` rests on and can be stated without fairness:
  while a call is pending that was made before the exit, there is something to do
  (`MayMove`; by `StallInv`, a queue with a request in it has a step scheduled, and a dead
  thread leaves nobody pending once its exit is delivered), and every step of the threads
  lowers `Work`, a weighted count of what is on its way.
- `RuntimeEdges_proofs`. Each theorem is of the composition `Spec`; its scenes not
  concerned are stutters.
  `NeverHopelessCorrect` and `ExitTellsCorrect`, by `ClientInv`: a daemon between its claim
  and its release is the holder of the lock, so that there is one of them, and
  what a host has read is about a daemon that had got that far. The one holder
  makes the loser of a claim exit only beside a winner.
  `SlotsExactCorrect` and `DrainedCorrect`, by `ServerInv`: the two counters are the
  sizes of the sets of requests that hold a slot (`CountInv`), and a request whose
  connection is open belongs to a listener that `close()` has not gone past
  (`DrainInv`); of the others it says nothing but that they are being handled. `Drained`
  alone is not inductive: it says nothing until the close is nearly over.
  `CloseEnds` is what the close in `EndsInTime` rests on: the next stage can begin (`MayStop`, the
  guard of `StopNext`) or a connected client has a request at that listener (`Awaited`);
  nobody joins those within a stage, and `StepsOf` each never rises and falls with every step of
  its own. The sending of a body is its client's step, the rest the runtime's. No stream
  is left to wait for (`LeftInv`).
  `PublishedCorrect`, by `PublishInv`: the last queued write has the latest statuses
  in it, or the change is one of those excepted.
  `WindowCurrentCorrect`, by `DeskInv`: nothing in the application is newer than the settings of the
  runtime (`NoneNewer`); while the runtime runs, its newest settings have been broadcast,
  or there is a signal, a request or an answer that will, or they are those of a refresh
  that failed (`NewsComes`); and what was not overtaken is as new as any broadcast
  (`NotOvertaken`). The first two meet where
  nothing is on its way: the newest broadcast is then what the runtime has.
  `PagesWholeCorrect`, by `BookInv`: a listing that answers has a limit its validator
  admits, and every page of such a limit is within the bounds of its client
  (`LimitFits`).
  `SeenFilesKept`: the daemons, as the hosts see them, implement `OwnerFiles`. A daemon that
  claims has found the lock free or its owner ended (`ClientInv`), and a daemon has one life.
  `ArrivesCorrect` and `EncodingsAgreeCorrect`, by `SentInv`: the rows of an answered export are what its
  answer means, for any number of exports, each of one or two records (`Shipments`). What a field of a record becomes on
  each way is a lemma per field over all records, and so is that what a conforming
  record becomes is admitted by the client of every view.
- `SettingsUpdate_proofs`. `OneWinnerCorrect`, by `WinInv`: a call at work is the first of the
  queue and the settings are those its revision was checked against, and
  `settings.json` is never behind the store, so that a restart cannot take a
  revision back; it needs that a value of another type in the file is told from
  a valid one (`FileAssumption`). `PortsAccountedCorrect`, by `PortInv` on top of it: a host
  holds what it knows of (`Holds`) and says so (`Told`), but for the one listener that
  the call at work is moving. `AllOrNothingCorrect`, by `UndoInv` on top of both: a host
  that is not touched is as the call found it, and the receiver is never where
  the MCP server would have to go back to; the last is what makes a rollback fail
  only when another program has the port.
  `HeadMayRun` is `QueueMoves` with the guards of `Run` written out (`MayRun`) in place of ENABLED: the
  first call of the queue is between two steps that it can make, by `QueueInv`. With
  `CallsComeToAnEnd`, that each step of a call lowers its `Rank`, it says that the mutation queue is
  never blocked: the first call has a step to make, and finitely many of them.
- `Workbench_proofs`. `ShownIsAskedCorrect` and `QuietIsCurrentCorrect`, by `HookInv`: the answer on
  its way is to the current key, and a run that has no trailing one has read
  every change, unless a hint is under way. Their one assumption is that `None` is no
  reading. `DetailsOfSelectedCorrect`, by `LogInv`: requests are numbered apart, and that
  with the current number is for the selected log.
  `MetricsCurrentCorrect` and `PointsOfRowCorrect`, by `MetricInv`: both hooks are as `HookInv` says
  and, of what they hold, every row has an identity that its id has had
  (`OwnersInv`); the second is keyed by the row that the first shows (`Follows`).
  `TraceCurrentCorrect`, by `TraceInv`: the cache has one entry for a trace, and an entry is as its
  trace was last announced unless the announcement is on its way, or was made
  behind the pane's back or undone by a load that was answered before the effect; a
  load under way is for a trace that the cache does not have, and while a render is due
  nothing is said of the pane.
  `PagesFitCorrect`, by `PagesInv`: every reading, the one on screen and those on
  their way, leaves out no row that stayed as it was since; there is at most one
  fetch whose answer will be taken, its cursor is the last row on screen, and its
  page leaves out no such row after the cursor. `PagesFit` alone is not inductive: it
  says nothing of answers. That a page is cut from ordered rows needs that rows
  can be put in order, for SQL and for the memory store: a finite set has an
  ordering (`OrderingExists`), as the smallest set without one shows; the prover has no
  induction over a set, but it has that strict inclusion is well-founded (`SmallestPart`).
  `WaterfallTrueCorrect`, by `WaterfallInv`: a row, or an entry of the stack, is a root or stands below the row of its
  parent with nothing less deep between them (`Belongs`), and what waits on the stack
  is not earlier than what has been visited of the same parent (`Waiting`). Its
  assumptions are those of `WaterfallPaneAssumption`: spans are numbers from 1, two at least.
  What the loop of `Waterfall.tsx` hides is described by the depth it carries, the
  least depth of a folded row that is still open (`HideMeans`); that counting suffices for
  the button is that folded spans have children and a layout has as many rows as spans.
  `LayoutEnds`: the layout comes to an end on every shape, cycles included. `Turns` counts the spans
  without a row, each weighted by the entries it may push, and the entries of the stack; it is 0
  when the layout is made, and every step before that lowers it. A row is laid once
  and spans are distinct, so there are no more rows than spans (`RowsFit`).
- `DataStartup_proofs`. `SchemaExactCorrect`, by `SchemaInv`: every file has the parts of its
  version (`Consistent`), and when a migration is at work there is a version `k` such that
  the steps left are those after `k` and the parts of `k` are there (`Between`), although
  the file still says that it is older. `SchemaExact` alone is not inductive: it says
  nothing of a file that an interrupted migration has left, with the version of
  before and columns of after; that the identities have their source exactly when
  the columns are there is what makes repeating step 4 harmless.
  `OpenedWholeCorrect` and `NothingLostCorrect`, by `WholeInv`: the log beside a database is its own and
  is there if the database has commits in it (`LogInv`); one that stands alone is in
  the middle of a copy, which lays the log before the database, or of a quarantine,
  which takes the database before the log; what a marker lists is there or still to be
  copied (`ListInv`), so that a copy is whole when its marker goes; every database is in
  place or set aside (`KeptInv`), and its log goes with it (`AsideInv`). The exceptions are
  those of the properties: a start that was cut short within a quarantine. Its
  assumption, `NoFileAssumption`, says that `NoFile` is none of the files.
  `StartEnds` is what `ComesUp` rests on: until the database is open every step that is not a
  fault lowers `StepsToDo`, 23 at most, whatever was cut short before. What could lead
  back is the quarantine, after which the database is opened again; by `ReopenInv` what is
  opened then is a new file, which opens and has nothing to migrate. A list of files to
  copy has three entries at most (`ListsAreShort`), and a migration one for each version
  ahead (`MigrationsAreFew`).

Only model-checked: `QueueMoves`, which is about ENABLED, and all liveness (`EveryCallSettles`,
`HintsArrive`, `HollowHealed`, `CatchesUp`, `ComesUp`, `EndsInTime`), since TLAPS proves nothing about
fairness or ENABLED. What can be said without either is proved: `HeadMayRun` and `CallsComeToAnEnd`
of the settings, `NoStall` and `WorkFalls` of the storage calls, `StartEnds` of a start and `CloseEnds` of the
close of the listeners. That the guards they name are those of ENABLED, and that
a fair scheduler takes the step, is left to TLC. The runs that expect a violation have nothing to prove.

## 7. Assumptions and what is not modelled

- SQLite transactions are atomic and durable once committed; a statement outside
  of one is a transaction of its own. It replays a log that belongs to its file.
- A live process needs less than 30 s between creating the lock file and
  writing it: the code takes an older empty file for abandoned.
- A restarted runtime keeps its API port and token, so a client's reconnect
  reaches it.
- `server.close()` of Node waits for the connections that are open, here as in
  `SettingsUpdate`; it closes idle ones, and a connection with a request in progress is not
  used for another one afterwards. The runtime calls the facade's `close()` once.
- A process id is never given again: each run of a process has its own. The code
  takes any live process with the id in the lock for its owner (`runtimeState.ts:66`,
  `179`), so after a crash an id that is reused keeps even a lone start a client
  (`AloneOwns`) until that process ends.
- A span is not re-sent with another parent, and a trace is not pruned and grown again
  while it is shown (`WaterfallPane`): the button that compares counts can be wrong there.
- The renames of a quarantine can be cut short by a crash, but do not throw
  (`db.ts:379`).
- Of the receiver's pressure counter `SlotsExact` says that it misses no refused export
  that is still known, not that it counts none twice.
- Records that are odd in more than one field are left out of `TelemetryPassage`.
- Not modelled, because it keeps no state and orders nothing: markup, styling and
  number formats of the views, wording of MCP tools and CLI output, demo data and
  the token file, the plugin bridge, the protocol's snapshot scripts. Not
  modelled, because the runtime does not use it: the lock of `singleInstance.ts`.
  Not modelled, because it edits files of other programs through their own
  commands: the agent integrations. Not modelled yet: what the end of section 2
  lists.
