# TLA+ specifications of drasi-dotnet

drasi-dotnet embeds the Drasi continuous-query engine in a .NET process. A
managed facade (`src/Drasi`) calls, through a C ABI, a native library
(`native/src`) that wraps `drasi-lib`. These modules specify the part of the
program that is concurrent or that keeps state of its own: what happens when
several tasks use one engine, when a call fails half-way, when a consumer is
slow, and when the engine is disposed under its users. TLC checks the modules
on small instances and TLAPS proves the central results for every instance.

Paths are relative to the repository root. `drasi-lib`, the plugin SDK, tokio
and the .NET runtime are not in the repository. They are modelled from how the
code uses them and from what its comments say, and the definitions are marked
external in `PROJECT.json`.

## 1. Inventory

### Components, their state and their operations

| Component | State it keeps | Operations |
|---|---|---|
| In-process source (`native/src/components.rs`) | mutexes `dispatch` and `snapshot`, the map of live elements | `push`, `subscribe`, `SnapshotBootstrap::bootstrap` |
| Event and log streams (`streams.rs`, `lib.rs`, `Engine.cs`) | pump task, stop signal, a bounded channel, the callback's `GCHandle` in two places | subscribe, pump, callback, enumerate, close, `DisposeCore` |
| Engine lifecycle and queries (`engine.rs`) | `deferred_queries`, `closed`, and drasi-lib's own registry and statuses | `start`, `stop`, `shutdown`, add / update / remove / start / stop query |
| Sources of the engine (`engine.rs`) | `EngineInner::sources` beside drasi-lib's registry | `add_source`, `remove_source`, `add_plugin_source`, `update_plugin_source`, `push_change` |
| Plugin host (`plugins.rs`, `engine.rs`) | plugin directory, lockfile, `installed`, `registry`, `loaded`, the watcher tasks | install, pin, reinstall, load, watch, register, create a component |
| Secret resolver (`secrets.rs`) | the cache `secrets`, the `store` behind a read-write lock with one worker thread | `secret`, `set_secret_store`, `resolve_config_value` |
| WAL wrapper (`wal.rs`) | the provider behind a reader-writer lock | `register`, `append` and the other operations, `delete_wal`, `release` |
| Logging (`logging.rs`, `Logging.cs`) | process-wide: `SINK`, `FILTER`, `_factory`, `_fallback` | `Configure`, an event through the two layers, `OnNativeLog` |
| Durable reactions (`components.rs`, `Engine.cs`) | the checkpoint in the state store, the recovery policy, the loop of drasi-lib | `add_durable_reaction`, `start`, `dispatch`, `OnNativeCallback`, `stop` |
| Managed calls and reactions (`Engine.cs`, `lib.rs`, `error.rs`) | `_disposed`, `_callbackHandles`, the runtime's handle table, a thread's `LAST_ERROR` | any call, add, add durable, remove, query results, `ShutdownAsync`, `DisposeCore` |
| Bring-up (`engine.rs`, `DrasiBuilder.cs`, `DependencyInjection.cs`, `DrasiHostedService.cs`) | the builder's lists of what to add | `CreateAsync`, `FromConfigAsync`, `ApplyAsync`, host start and stop |
| Conversions and options (`conversions.rs`, `stores.rs`, `ConfigurationJson.cs`, `Engine.cs`) | none | configuration, options and changes to drasi-lib's types; errors to exceptions |
| Marshalling, stores, versions, health check | none of their own | none that another component sees |

### How they interact

* A managed call runs as one blocking job on a pool thread that runs nothing
  else meanwhile (`Engine.RunAsync`) and reads its error from that thread, which
  the next call then shares (`ManagedCalls`); the native side holds no lock across a whole call. Two
  calls therefore interleave at every `await` of `engine.rs`, and this is the
  grain of every module.
* `push_change` looks a source up in `EngineInner::sources` and pushes into it;
  queries subscribe to a source through drasi-lib's registry.
  `SourceRegistry` models the two records and treats the push as one step;
  `CsharpSource` models the steps of the push.
* A query that subscribes gets a bootstrap from the source's snapshot and then
  the live stream. The snapshot's lock is shared with the pushers.
* The pump task calls into managed code, which writes to a bounded channel that
  an `await foreach` reads. `DisposeCore` completes the channel, destroys the
  engine and frees the handles while the enumerator may be in its `finally`.
* A plugin's descriptors are registered first and given the resolver after;
  components made from them resolve secrets on threads of their own, through
  the resolver, whose store `use_secret_store` replaces.
* A configuration document is brought up by one native call, which hands out the
  engine only when everything is added. A `DrasiBuilder` is applied by the hosted
  service afterwards, one call at a time, to an engine that the application can
  already take from the container.
* `shutdown` releases the WAL after drasi-lib's shutdown, whatever it returned.
  The release waits for the operations of drasi-lib's tasks on the log; engines
  of one process may keep their logs in one directory, where one provider at a
  time can have a source's file open.
* `CreateAsync` configures the one log sink of the process, in four places one
  after the other, while native threads of other engines emit events.
* The loop of a durable reaction, drasi-lib's, hands a result to `dispatch`,
  which calls the delegate and waits; only its success lets the loop save the
  checkpoint that the next engine starts from.

### What is hard, and what makes each component correct

* **Source.** Order of delivery equals order of sequence numbers although
  delivery awaits; a bootstrap sees one state though it awaits between
  elements; a query that subscribes between the snapshot write and the
  dispatch ends up with the source's elements; two locks and bounded queues do
  not deadlock; a failed dispatch leaves a hole that somebody was told of.
* **Streams.** History and live items join without a duplicate or a gap; a
  hole is an overflow and nothing else; the native task does not outlive its
  stream; dispose completes open sequences; the handle is freed once.
* **Lifecycle.** The deferred list says exactly which queries still wait for a
  start, through overlapping adds, updates, removes, starts and stops; a start
  that returned starts them; nothing runs early.
* **WAL.** When a shutdown is over its log is closed and stays closed, though
  operations were under way and new ones arrive; nobody is starved.
* **Logging.** An event is written once and where the options configured last put
  it, a factory's logger, a logger or stderr, though the filter, two layers and two
  managed fields are read at different moments.
* **Durable reactions.** The checkpoint never passes a result that was not
  delivered; a result comes again only for a reason; a running loop comes to all,
  through failing callbacks, stores that refuse, stops, crashes and restarts.
* **Sources of the engine.** The two records agree, whichever half of a call
  failed, and a push feeds the source its queries are subscribed to.
* **Managed calls.** An exception describes the call that throws it; a reaction
  that can run holds the handle of its own delegate, however other adds fail and
  free theirs; what is allocated is freed at last; a stream of results takes its
  reaction with it.
* **Bring-up.** What was declared is built and runs; a seed comes after the
  builder's queries and reactions; an error is about what is wrong and says whose
  fault it is; the bring-up ends.
* **Plugins.** A registered kind has its library alive and its resolver in it;
  what was pinned can be installed again; a secret has one value.

`PROJECT.json` lists each hazard with its line and the properties that would
catch it going wrong, and says why the ones without a property have none.

## 2. Modules and their correspondence with the code

| Module | What it is |
|---|---|
| `ChangeFeed` | what a source promises its subscribers: whoever is subscribed when a change is published is owed it and receives it before the next is published, unless the publication is reported as failed |
| `CsharpSource` | `components.rs`: push, snapshot, bootstrap. Implements `ChangeFeed` |
| `MCCsharpSource` | its instances: two queries told apart by labels |
| `CsharpSourceProofs` | its invariants and the refinement, proved |
| `LossyFeed` | what `await foreach` over a stream promises its loop body: items in order, holes only where a full buffer dropped, nothing after the end |
| `StreamBridge`, `StreamBridgeProofs` | one stream from the broadcast channel to `await foreach`, and `Dispose`. Implements `LossyFeed`; the proofs |
| `EngineLifecycle` | `engine.rs`: start, stop, shutdown and the query calls |
| `MCEngineLifecycle`, `EngineLifecycleProofs` | its instance: every call; the proofs |
| `SourceRegistry`, `SourceRegistryProofs` | the two records of a source; the proofs |
| `ManagedCalls` | `Engine.cs` and the native entry points: calls, threads, errors, handles, `Dispose` |
| `MCManagedCalls`, `ManagedCallsProofs` | its instance, with the symmetry; the proofs |
| `SecretResolver` | `secrets.rs`; variables and actions without a specification of its own |
| `PluginHost` | `plugins.rs` and its callers in `engine.rs`. EXTENDS `SecretResolver` and composes the two |
| `MCPluginHost`, `PluginHostProofs` | its instance: all artifacts are builds of one kind; the proofs |
| `EngineHandles` | how far each engine of a process has come |
| `LogSink` | `logging.rs` and `Logging.cs`: a configuration and an event, step by step |
| `WalProvider` | `wal.rs`: the operations of drasi-lib against `release` |
| `SharedProcess` | composes the last three with `CreateAsync`, `create` and `shutdown` |
| `AtLeastOnce` | what a durable reaction promises its callback: results in order and at least once, a mark that passes only what was seen, and what may be passed over |
| `DurableReaction` | a durable reaction from one engine to the next. Implements `AtLeastOnce` |
| `SharedStateProofs` | the proofs about what outlives an engine: `SharedProcess` and `DurableReaction` |
| `Documents` | `stores.rs`, `conversions.rs`, `ConfigurationJson.cs`, `Errors.cs`: operators on options, entries, changes and codes |
| `BringUp`, `MCBringUp` | `from_config`, `ApplyAsync` and the hosted service, call by call; the setups they are given |
| `BringUpProofs` | what a bring-up builds, starts and seeds, proved for any setup |

**CsharpSource.** `dispatch` and `snapLock` are the two mutexes, `snapshot` the
map they guard. A pusher's `pc` goes from `ordering` (waiting for `dispatch`)
over `ordered`, `recorded` (the snapshot was written) and `sending` (the
sequence number is taken) back to `idle`. The snapshot is locked, written and
unlocked without an await, so `RecordInSnapshot` is one step that waits for a
bootstrap to give the lock back. `PushFails` is the dispatch that returns an
error: the guard is dropped, the snapshot keeps the change. The sequence
counter, the list of subscribers and each subscription's queue are drasi-lib's:
`TakeSequence`, `Deliver`, `Subscribe`, `Apply`. `log` and `lost` are history.

**StreamBridge.** Items are numbers; a message is an item or a lag notice that
stands for a range. `PumpHistory` is the loop over the history, which does not
look at the stop signal; `PumpReceive`, `PumpLagged`, `PumpClosed` and
`PumpStop` are the branches of `select!`. `TryWriteStream` is the channel with
`DropWrite`, under which a write to a full channel reports success. The
consumer's `close`, `complete`, `untrack` are the lines of the `finally` block;
`tracked`, `captured` and `frees` follow the copies of the `GCHandle` struct.
With `HistoryLen = 0` and a broadcast capacity that is never reached the pump is
`pump_stream`, so one module stands for both pumps. The stream is subscribed when
the model begins: a subscription that drasi-lib refuses frees its handle at once and
has no pump, which is a failing add of `ManagedCalls`. That an item cannot be
serialised is left out: the items are drasi-lib's events and log messages, records of
strings, enumerations and times, and JSON text has no NUL for `CString` to refuse.

**EngineLifecycle.** One step per await: `CheckRunning` (`is_running`),
`CoreAddOrUpdate` (`core.add_query`), `NoteDeferred`, and for a start
`CoreStart`, `CloneDeferred`, `NextDeferred`, `StartDeferred`, `AwaitRunning`.
`running`, `config` and `status` are drasi-lib's. What drasi-lib answers where
the code does not depend on it (starting a query that runs, updating a query
that does not auto-start) is left open. `wants`, `touched`, `raced`, `clashed`,
`starter` and `startedOk` are history: they say what callers asked for, which
queries a start or a stop cannot be held to, and over which ones the notes of two
calls can cross.

**SourceRegistry.** `core` is drasi-lib's registry, `sources` the map. C#
sources are numbered as they are made, so that a replaced source is told from
its successor. `clashed`, `replaced` and `disturbed` are history.

**ManagedCalls.** `call[c]` is where the caller's call is: past
`EnsureNotDisposed` it waits for a thread (`queued`), or first for its handle
(`alloc`, `track`: the two halves of `TrackCallback`, of which only the second
takes the lock). `native`, `throw` and `untrack` happen on the thread `worker`,
which no other call uses meanwhile: the native body, `ThrowIfError` with its
second trip to the native side, and the `catch` of the two adds. `Cancel` is a
token cancelled before the thread began, so that this `catch` never runs. A
stream waits in `reading` and then removes its reaction with a call that cannot
be cancelled. Calls that concern neither handles nor the engine's life are one
action, `OtherCall`, for they all have the shape of `CallId`, `GetStatusAsync`
or `ListAsync`. `slot` is the runtime's table of handles: a freed slot is handed
out again, which is how a handle freed too early would show. `DisposeCore` is
`DisposeBegin` (under the lock), `Destroy`, `DestroyDone` and `FreeCaptured`.
`reported`, `streams`, `stranded` and `kept` are history.

**PluginHost and SecretResolver.** A file of the plugin directory holds an
artifact, whose hash is the artifact itself. The libraries a call loads are a
batch. `task` is the place a call has reached and its locals. A secret's value
is known by where it came from: `Own`, from the options of `Create`, or the
number of the store that answered. A caller that makes a component uses its own
thread as resolver; a plugin's own thread resolves again at any time
(`Reconnect`). `Watchers` are the tasks of `watch_plugins`, one for every call of it
and each with its own events; an event may never come, or be of a file that is gone.
`RecordInstall` writes down the hash of the file or, where the file cannot be read
(`.ok()`), none, and `CheckHash` checks what has one. The engine
is open throughout: what `ensure_open` refuses is in `EngineLifecycle` and `SourceRegistry`.

**LogSink, WalProvider and SharedProcess.** `factory` and `fallback` are the two
static fields, `sink` and `filter` the two statics of `logging.rs`, `sinkLock`
the mutex of `SINK`. A `Configure` writes them in four steps; an event goes
through `FmtLayer` (stderr, unless there is a sink), `CallbackLayer` (which takes
the lock and keeps it over the callback), `OnNativeLog`, `UseFallback` and `Log`.
Levels are three: trace and info go with debug. `EnabledBy` says what each logger and
factory enables, down to nothing, and `FilterFor` what filter that asks for, up to "off";
a configuration may give a logger, a factory, both or neither. `RUST_LOG` is not set,
and the loggers of a factory enable alike. A provider's operation is `Begin`, a wait
for the read guard if a writer is in the queue, and one step under the guard;
`release` is `AskToRelease` and `TakeProvider`. `file` says whose provider has the source's log open: the one
fact about redb that the code relies on. `SharedProcess` adds the life of a handle;
a freed handle's place is taken by another engine. `last` is history.

**DurableReaction.** `produced` and `checkpoint` outlive an engine, the rest does
not. `run_standard_loop` is drasi-lib's and stands here as the code's comments
describe it: it takes results in order (`TakeResult`), saves the checkpoint after
an `Ok` (`SaveCheckpoint`) and returns the first error. The code's own part is
`Start`, which reads the checkpoints with `unwrap_or_default`, `Dispatch`,
`OnNativeCallback`, whose delegate may throw before, in or after its work
(`CallbackWorks`), and `Stop`. `EngineEnds` is a shutdown or the death of the
process. Where a loop goes on without a checkpoint is drasi-lib's choice and left
open. Two assumptions concern code outside the repository: drasi-lib's loop calls the
callback for results alone, and no callback outlives `stop` or the engine, since
drasi-lib waits for the loop it stops: so `Stop` is taken between callbacks only. A
callback that did could work beside the next loop's, and `RedeliveryIsDue` would not
hold of it. `delivered`, `passed`, `doubt` and `blind` are history.

**Documents and BringUp.** A setup is a document or none, `EngineOptions` and a
builder or none; a JSON value is known by its type. A check is a condition and the code it answers with, and an operation's
checks are a sequence in the order of its `?`: `FirstFault` answers with the code
of the first that fails. `todo` holds the calls that are left. `CallsOf` writes them down as
`from_config` and `ApplyAsync` make them: a document's are `native`, of which none
looks at a token and the failure of any drops the handle; a builder's each begin
with the look of `RunAsync` at the token. The one call that depends on an answer,
`IsRunningAsync`, is `AskRunning`, which puts a `start` in front. `Throw` is what
an error does: nothing is undone, the handle of a native call is dropped as it
runs, and `Wrap`, where `FromConfigAsync` reads the id once more, forgets it.
What is wrong with a setup is said once more for the properties, part by part and
without an order (`OptionsAreWrong`, `SourceIsWrong`, `QueryIsWrong` and so on): these
read no check, and no action reads them. `started`, `disturbed` and `refused` are
history. A call is one step, since what happens inside one is in the other
modules.

## 3. Runs

| Run | Question | Instance |
|---|---|---|
| `source_races` | order, gaps, bootstraps, late joiners, refinement of `ChangeFeed` | 2 pushers, 2 queries, 2 elements, 2 bodies, queues of 1, 3 pushes; 3.1 million states |
| `source_liveness` | can pushes and bootstraps wait for ever? | 1 element, 2 pushes, no symmetry |
| `stream_races` | holes, a handle freed under an open writer, end of the pump, end of the sequence, loss on the way, refinement of `LossyFeed`, which has the order | 1 history item of 4 items, broadcast 2, channel 2; 10 thousand states |
| `stream_overflow` | violated: a full buffer is reported | 5 items |
| `stream_double_free` | violated: the handle is freed once | 5 items |
| `lifecycle_races` | deferred list, auto-start, early start, returns | 2 callers, 2 queries that either may call, all calls, 4 calls; 580 thousand states |
| `registry_races` | do the two records agree, where does a push go? | 3 callers, 1 id, 5 calls; 640 thousand states |
| `plugin_races` | ready kinds, pinned plugins, one value per secret | 2 callers, 2 watchers, plugin thread, 2 builds, 2 stores, 4 calls; 4.3 million states |
| `managed_calls` | does an exception describe its call, a handle its delegate; is any handle or stream reaction lost? | 2 callers, 2 threads, 2 slots, 1 reaction id, 4 calls; 1.1 million states |
| `bring_up` | is what was declared built, started and seeded; whom does an error blame; does it end? | 120 setups: a sound one of each form, what differs from it in one place, and some with two things wrong; 15 thousand states |
| `shared_process` | who writes an event, is the log free after a shutdown, does anybody wait for ever? | 2 engines, a factory that enables every level, a logger that enables none, 1 logging thread, 1 task of drasi-lib; 2 million states |
| `durable_restarts` | is a result skipped, delivered twice without a reason, out of its turn or never? refinement of `AtLeastOnce` | 4 results, an outbox of 2; 82 thousand states |

No run checks a `TypeOK`: type correctness is a theorem of every component, and so
is that pushes are serialised (`DispatchSerialised`).

### Why the bounds are enough for what is asked

* `source_races`: order needs two pushers; a queue of one makes every second
  delivery wait; three pushes are an insert, a delete and an update of one
  element, or a failed push between two that arrive; two elements give a
  bootstrap a state between two sends; the queries ask for different labels and
  the bodies are a node and a relation, so each can be wanted by one and not by
  the other.
* `stream_races`: a channel of two and four items let the channel overflow and
  drain again; a broadcast capacity of two lets the receiver lag; one history
  item gives the seam.
* `lifecycle_races`: add, start, stop, start is the longest story of the
  deferred list (four calls), and two callers let any other call in between. Two
  callers of one query, with a start and a call to spare, are enough for notes that
  cross; without the exception for `clashed` TLC finds them in a few seconds.
* `registry_races`: with three callers two may clash while the third pushes;
  ids do not interact, so one is enough.
* `plugin_races`: two builds write to one file; two stores let an old answer
  arrive after the new store is selected; four calls install twice, pin and
  reinstall. Every `watch_plugins` starts a task; two of them can load one copied
  file side by side.
* `shared_process`: a configuration of a second engine can fall anywhere into an
  event, and after it; a handle is freed and made again, so the history of the
  four places is as long as one likes. A task that begins again and again is what
  a release must not be starved by.
* `durable_restarts`: an outbox of two and four results let a checkpoint fall
  behind what the query keeps, with a result before, in and after the gap. Starts,
  failures and crashes are not counted.
* `managed_calls`: a slot is reused when one add fails while another is under
  way, which takes two callers and two slots; an error is overwritten by a call
  of the other caller, on either thread. Four calls are two streams, a
  removal and a shutdown, or two adds of one id around a removal. Three callers
  and three slots (6.9 million states) show nothing else.
* `bring_up`: two queries, reactions and seeds give an order to keep; a document
  and a builder share an engine. Every option, every field of an entry that a
  check looks at, and every end of a change has a setup in which it is wrong
  and, where there is one, a setup in which it is unusual and right. Some setups have
  two things wrong, in one part, in two, or on both sides of a native call.
* `CHECK_DEADLOCK FALSE` is set in the modules whose callers stop at
  `MaxCalls` or `MaxItems`, and in `BringUp`, which ends; `CsharpSource`,
  `SharedProcess` and `DurableReaction`, which can always go on, are checked for
  deadlock.
* The proofs of section 4 hold without any of these bounds, so for safety the
  instances only had to be large enough to find mistakes before the proofs were
  tried. Liveness rests on the instances.
* `MaxPushes`, `MaxItems`, `MaxCalls`, `MaxResults`, `MaxStores` and `MaxBatches`
  are the only bounds, each in the guard of the action that counts; the model stops there,
  the code does not. Symmetry is used only in runs without liveness properties,
  on callers, pushers, watchers, pool threads and handle slots, which no definition
  names.

### Fairness

* `CsharpSource`: a tokio task that can run does, which is weak fairness. Strong
  fairness is taken where a task waits in a queue: tokio's mutexes are granted
  in arrival order, and a bounded channel hands its permits out in order, so a
  waiting `TakeDispatch`, `RecordInSnapshot`, `BeginBootstrap` or `Deliver` that
  could go on again and again does. Pushes, subscriptions, departures and
  failures are never required.
* `StreamBridge`: weak fairness of the pump task, of the consumer's loop once it
  runs and of a dispose that has begun. `PumpStop` is strongly fair because
  `select!` tries its branches in random order. Nobody must emit, abandon, remove
  or dispose.
* `EngineLifecycle`: a call that was made is run by its thread. Queries need not
  settle: `await_query_running` has a deadline.
* `BringUp`: weak fairness of the bring-up's next step, which a failing call and
  a wait that runs out are too: each call runs on a pool thread, and
  `await_query_running` has a deadline. Queries need not start.
* `SharedProcess`: weak fairness of a shutdown's two later steps, which its call
  makes, and of an operation's steps, whose task runs. That a writer gets its
  turn is not assumed: it follows from the guards, which let no reader in behind
  a waiting writer, as tokio's lock does. Events, configurations and freeing are
  never required.
* `DurableReaction`: weak fairness of the loop, which is a task that runs, and of
  the callback, which comes back one way or the other. Starting is not required.
* `SourceRegistry`, `PluginHost` and `ManagedCalls` have safety properties only.

### What the violated runs show

Each is a statement of a doc, a comment or a test that the code does not keep;
`findings` in `PROJECT.json` quotes it.

1. *A full stream buffer is silent.* The channel is made with `DropWrite`, under
   which `TryWrite` returns true, so the branch that raises
   `StreamLaggedException` is not taken and the consumer reads on past the hole.
2. *A handle is freed twice.* `GCHandle` is a struct, so `IsAllocated` of the
   enumerator's copy stays true after `DisposeCore` freed its own.

### Also seen while modelling

* A query registered while another caller's start is under way can stay stopped:
  the check of `is_running` and the note in the deferred list straddle the start,
  which clones the list in between. `Engine.cs:125` says that `StartAsync` starts
  every auto-start query; such queries are `raced` in `AutoStartHonoured`.
* After `update_plugin_source` on the id of a C# source, pushes to the id are
  accepted and reach no query; `guides/error-handling.md:64` says that a push to
  what is no C# source is refused. Such ids are `replaced` in `RecordsAgree`.
* Once a secret has been looked up, a new store is not asked for it: the cache of the
  resolver keeps the old value, where `secrets.rs:116` says of `set_secret_store`
  "replacing any previous one". `AnswersAgree` does not catch this, it states it: one
  value per secret, for good, is what the cache gives. What it would catch is two
  answers for one secret though no new store came in the middle of a lookup.
* `guides/plugins.md:98` says that `WriteLockfileAsync` pins the plugins already
  loaded; the code pins those that `InstallPluginAsync` installed.
* `Configure` without a logger clears the sink and leaves the filter (`Logging.cs:49-53`):
  events then go to stderr at the level of the logger before. After an engine with an
  error-only logger, warnings go nowhere; after one with a `NullLogger`, nothing does.
  `logging.rs:15-17` and `concepts/_index.md:110-111` say that without a callback events go
  to stderr at `warn`. `EventReachesLastConfigured` takes the filter in force as it is, and
  is exact about everything else.
* With both `Logger` and `LoggerFactory` given, events go to the factory's loggers and the
  filter follows the logger, where `Models.cs:92-94` says that it follows the factory. A
  factory disposed by its owner swallows events: `OnNativeLog` catches what it throws.
* Overlapping `CreateAsync` calls can leave the four places of the log sink to
  different engines, for good.
* A second `ShutdownAsync` that overlaps the first returns Ok before the WAL is
  released.
* A reaction's loop that ended with an error leaves the status `Running`.
* A failed read of the checkpoints makes a durable reaction skip or repeat
  results, even under the strict policy.
* `OnNativeCallback` answers 0 for a kind of callback it does not know, and for no
  payload: such a result would count as delivered. The model has only the calls that the
  code makes of it, with a payload and the delegate of a durable reaction.
* No lock is held over drasi-lib's add or update and `note_deferred`, so the notes of
  two calls on one query can come in the opposite order. A caller adds a query that is
  not to start and pauses before its note; another updates it to auto-start, which is
  deferred and noted; the late note takes it out of the list, and the next `start`
  returns Ok with the query stopped. Or a remove finishes before the note of an add: the
  id stays in `deferred_queries` and every later start fails on it. Such queries are
  `clashed` in `DeferredExact` and `AutoStartHonoured` until the next call on them that
  crosses no other.
* `from_config` reads a reaction's queries under `queryIds` or `query_ids` and
  gives the rest of the entry to the plugin as its configuration.
* A number that comes through `IConfiguration` stays a string, so that
  `priorityQueueCapacity` and its like are refused there as `CONFIG_INVALID`
  although the same document is accepted as JSON.
* A secret that spells a boolean comes out of `IConfiguration` as one, and then the
  create options cannot be parsed: `CONFIG_INVALID` (the setting "not text").
* An `id` that is no string is a missing one for `from_config`, and throws in
  `FromConfigAsync` when the native engine already runs: nobody has its handle.
* `MergeCreateOptions` does not know the aliases: `wal_provider` in a document
  together with `EngineOptions.WalProvider` is a duplicate field, `CONFIG_INVALID`.
* The builder waits for its own queries only: those of a document may still be
  starting when the first seed is pushed.

## 4. Proofs

Eight modules hold theorems, each proved to the last leaf from the assumptions
on the constants that the components' modules state (`SourceAssumption`,
`StreamAssumption`, `LifecycleAssumption`, `RegistryAssumption`,
`ResolverAssumption`, `HostAssumption`, `CallsAssumption`, `SinkAssumption`,
`WalAssumption`, `ReactionAssumption`, `SetupAssumption`: the special values are
not ordinary ones, the maps have their types, capacities are positive, the lists
of a setup have the shapes that the parsers and the builder's methods leave; TLC
evaluates them in every run). Every safety property of a passing run is a theorem.

**CsharpSourceProofs.** `TypeCorrect`, `PushesSerialised`, `OrderKept`,
`GapsAreReported`, `BootstrapReplaysOneState`, `LateJoinersConverge` and
`ImplementsFeed`, for any pushers, queries, elements, labels, queue capacity and
number of pushes. `DeliveredInOrder` is not inductive: the next delivery is in
order only because the number being sent is the newest (`Fresh`), which needs
serialised pushes (`DispatchSerialised`) and numbers that are positions of the
log (`Counted`). `NoSilentGap` needs, besides, that everything after a
subscription's last number is lost or still owed to it (`Gaps`), since the hole
appears only with the next delivery, and that only subscribed queries are owed
anything (`Owing`). `BootstrapIsOneState` needs that the bootstrapping query
holds the snapshot's lock and that nobody holds elements before it
(`SnapshotHeld`). `LateJoinerConverges` speaks of queries that have caught up;
its invariant speaks of every subscription at every moment (`LateInv`): for each
element a change is on its way to the query, or a failed push abandoned the
element, or what the query will end up with - the newest change to it in the
unread stream, or what it holds if there is none - looks to it like the
snapshot's. `Recorded` ties a push under way to the snapshot and the log. That there is a newest change in a stream is the one
use of well-founded induction. The refinement maps the subscribed queries, bootstrapping or live, to the feed's
`subscribed` and what a push has still to send to `owed`; a push's steps to `Publish`,
`Receive` and `GiveUp`, the ends of a subscription to `Join` and `Quit`, and
everything else to stuttering. `Publish` owes the change to every subscriber, so a
dispatch that leaves one out is no step of the feed; its guard, that nobody is
owed the change before, is where the dispatch mutex is used, and that a joiner's
stream is empty comes from `Gaps`.

**StreamBridgeProofs.** `TypeCorrect`, `InOrder`, `HolesComeFromOverflow`,
`SilentWhenFreed` and `ImplementsReader`, for any history, capacities and number of items. Messages
stand for ranges of items (`Ranges`); what is in the channel is in order, behind
what was yielded and ahead of what the pump has not passed on (`Sorted`). A hole
becomes visible only when a later item is yielded, so the invariant says of every
place of the channel that nothing before it is missing but what overflow hid
(`Whole`). `Ends` says that a freed handle's stream is over, and how often it was
freed. The refinement maps a callback on a full channel to `Drop`, a read to
`Arrive` or, of a lag notice, to `End`, and the pump, the closing and dispose to
stuttering. It needs that what is dropped lies behind everything on the way
(`Apart`): an item is read or was dropped, never both.

**EngineLifecycleProofs.** `TypeCorrect`, `NothingStartsEarly`, `DeferredListExact`
and `StartsWhatIsDue`, for any callers, queries and calls, whoever calls what. The
invariant `CallInv` says what the place of a call tells of the call; `ListInv` says
that the list is exact except for a query some call is about to note, whose note
carries the right decision, and for a query that is clashed over; a query that is not
has one call at most about to note it (`OneNoter`). That
nothing starts early follows from a lemma on steps alone: a stopped query of a
stopped engine stays stopped unless it is named. For `AutoStartHonoured` the
list is the link: a query that is due is in it (`ListInv`), its start has still
to clone it, has it in its copy or is at it (`Started`), and a call that decides
before the start and notes after it has marked its query as raced (`Decisions`).

**SourceRegistryProofs.** `TypeCorrect`, `RegistryAgrees`,
`PushReachesSource` and `RefusalIsRight`, the last an action property.
`RecordsAgree` speaks of settled ids; the invariant adds what the records look
like between the two awaits (`HalfWay`), that an id that never clashed has one
configuring call at most (`Alone`) and that an undisturbed push's id is settled
(`PushAlone`).

**ManagedCallsProofs.** `TypeCorrect`, `CallbacksReach`, `NoHandleLost`,
`ErrorsAreOwn` and `StreamsRemoveReactions`, for any callers, threads, ids,
slots and calls. `ErrorIsOwn` needs only that two calls never share a thread
(`Errors`). `CallbackReachesItsDelegate` is not inductive: a failing add frees
the slot it holds, which is safe because a slot holds one delegate (`Handles`),
a call that still holds its handle has a delegate no reaction has, and Dispose
frees slots only when the engine is gone. `NoOrphanStream` needs that only the
call that made a stream's reaction has its delegate and that it remembers the
id, so that the removal hits that reaction or one that took the id over
(`Streams`). `Shape` says what the place of a call tells of its locals.

**SharedStateProofs**, of `SharedProcess`: `TypeCorrect`, `LogIsFree` and `EventsReachLogger`, for
any engines, loggers, threads and tasks. The engine that counts as configured
last configures alone (`Alone`), the places its configuration has passed are its
own (`Fields`), and what an undisturbed event has written follows from the layer
it has reached and from having passed the filter (`Events`). A log is open only
for an engine whose wrapper still holds its provider, and only engines that have
not closed do (`Held`).

**SharedStateProofs**, of `DurableReaction`: `ReactionTypeCorrect`,
`NothingSkipped`, `RedeliveredForAReason`, `SeenInOrder` and `KeepsPromise`, for any
number of results and any outbox. What a running loop is done with was delivered or passed
over (`Behind`), which is why first deliveries are in order; the loop's place tells
whether the result in hand was worked on (`InHand`); a loop is never behind the
checkpoint unless a start could not read it (`Ahead`); and a delivered result is
saved, in doubt or in hand (`Accounted`), which is why a result that comes again was
interrupted.

The refinement maps the callback's work to `See`, a saved checkpoint to `Mark`, and
what a start does to `PassOver`, to `Forget` when it could not read a checkpoint that
was there, or to a stutter. `Stop`, a failing callback and a store that refuses are
stutters, and so is the end of an engine but for the policy it takes along
(`Choose`). `See` and `Mark` ask that all before is settled and, unless the mark was
lost, that they lie ahead of it: both are facts about a running loop
(`LoopSettles`). That a strict reaction passes over nothing after its first
checkpoint, and a lenient one only what the outbox has lost, is in the guard of
`PassOver`, and `StartPromised` shows that every start respects it.

**PluginHostProofs.** `TypeCorrect`, `KindsAreReady`, `SecretsAgree` and
`PinnedCanBeReinstalled`, for any callers, resolvers, artifacts, kinds, secrets
and stores. Of secrets: one given to `Create` keeps its value (`Given`); the
answers of a secret that no store overtook are what is cached now (`Cached`); a
resolve that no store overtook asks the store of now (`Current`). Of plugins: a
batch of libraries is kept alive or the call that loaded it is about to keep it
(`Batches`); unless a file was written over while it was being installed, what is
recorded and pinned of an artifact is its own hash or none (`Recorded`), since a call
that downloaded it finds it in the file (`InFile`).

**BringUpProofs.** `TypeCorrect`, `SeedsComeLast`, `WhatStartsByItselfRuns`,
`WhatIsDeclaredIsBuilt` and `WhatIsWrongIsBlamed`, for any document, options and builder: any number of
entries of any content. None of the properties is inductive, since each speaks of
an end, or of a push, for which every call before was needed. The invariant
follows the calls instead. `Plan` is the whole sequence that `CallsOf` writes
down; as long as nothing has failed, some k calls of it are over and the rest is
`todo`, save one call that the last of them may have put in front, a `start` or a
`wait` (`At`). Of the k calls each has added its component as described
(`Added`), each that put a call in front has what that call is there for
(`Followed`), and the changes pushed are the seeds that these calls are
(`Pushed`). `Tidy` ties what runs to what is to start by itself while nobody
disturbs the engine, and `Known` keeps what is there within what was declared.
Where the calls of each kind lie in the plan, once for all setups, is the subject
of `PlanParts` and `PlanPlaces`; that the seeds are behind everything is what
`SeedsComeLast` rests on, and that `create` is the first call and the only one of
its kind is why the options in force are those given. That the components of a
plan have different ids, which one record per component needs, is not assumed: a
second one is refused (`EngineFailure`), and a refusal ends the bring-up. That the
first of several checks exists is a use of well-founded induction.

`WhatIsWrongIsBlamed` relates two descriptions of what is wrong: the checks, which
the calls make one after the other on the state the engine has by then, and
`IsWrong`, which speaks of the setup alone. Two facts join them. For each kind of
call, some check fails exactly if the entry is wrong, and all codes of its checks
belong to that kind (`SourceFails`, `QueryFails`, `ReactionFails`, `StoreFails`,
`IdentityFails`, `OptionsFail`; a builder's query goes through `ToQueryOptionsJson`
first, `TypedQueryFaultsAreWrong`). And when a call is looked at, the state it is
checked against is what the setup says: the kinds loaded are those that its part of
the setup can name, since a builder loads before it adds (`PlanIsOrdered`,
`KindsAreThere`); the options in force are `Settings`; the C# sources are all that
were declared, since seeds come last (`SourcesAreThere`); and an id is taken only if
two entries have it (`TakenIsTwice`). The invariant `Judged` carries this: as long as
nothing has failed, nothing was wrong with the k calls that are over, and the
registries hold what they added (`Checked`); after a failure the answer stays
deserved. So nothing that is wrong goes through, however much is right before and
after it, and no class of exception blames what is in order.

**Model-checked only.** Liveness (`PushReturns`, `BootstrapEnds`, `PumpEnds`,
`DisposeCompletesSequence`, `EmittedIsYielded`, `CallsReturn`,
`NobodyWaitsForever`, `LoopComesToAll`, `BringUpEnds`) and ENABLED are beyond the
prover, and so is induction over data.

## 5. What is not modelled

* Results, schemas and metrics on their way out of drasi-lib, and the JSON models
  they become: sequential, no state.
* The health check, which only reads. A builder's `WatchPlugins` and
  `UseSecretStore`: their effects are in `PluginHost`.
* `run_standard_loop`, checkpoints and outboxes are drasi-lib's: they are modelled
  only as far as `DurableReaction` uses them. A recovery that drasi-lib chooses is
  left open.
* What the operations on the write-ahead log do to it, beyond opening, closing
  and deleting it.
* Marshalling, the stores themselves, versions: no state of their own.
* A logger that logs through native code, or configures logging, in its callback:
  it waits for the lock it holds. The loggers of `LogSink` return.
* The steps of a push inside `SourceRegistry`: what a source that was removed
  during its push still delivers is decided by how drasi-lib takes down its
  subscriptions, of which the code says nothing.
* Environment variables in the resolver: they have no state.
* What a freed engine or a freed handle does: undefined. A callback on a freed
  handle is a lost message; a call on a freed engine never returns
  in `ManagedCalls`. `Dispose` frees the engine at once when a shutdown it
  overlaps is still running; `ManagedCalls` has the step, no property covers what
  follows.
* Build, packaging, website, tutorials, examples.

## 6. Plan

Built, in this order: `ChangeFeed` and `CsharpSource` with their proofs;
`StreamBridge`; `EngineLifecycle` with its proofs; `SourceRegistry` with its
proofs; `SecretResolver` and `PluginHost`; `ManagedCalls` with its proofs;
`Documents` and `BringUp`; `LogSink`, `WalProvider` and `SharedProcess` with their
proofs; `DurableReaction` with its proofs; the proofs of `StreamBridge` and
`PluginHost`, and those of late joiners and of starts; the proofs of `BringUp`, and
`LossyFeed` with the proof that a stream implements it; `AtLeastOnce` with the proof
that a durable reaction implements it, and that of `ErrorsAreDeserved`.

To come:

1. A run on the lockfile: `guides/plugins.md:98` says that it pins the plugins
   already loaded, the code pins those that were installed.
2. Conversions of results, schemas and metrics on the way out.
