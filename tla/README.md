# Verification of drasi-python

TLA+ models of the Python binding of Drasi (`src/*.rs`, the `drasi` facade in
`python/drasi/`), TLC runs over small instances of them, and TLAPS proofs about
the core for instances of any size. Paths below are relative to the repository.

The binding puts an asyncio API over `drasi-lib`, a Rust engine that runs
*sources* (where changes come from), *continuous queries* (which turn changes
into result diffs) and *reactions* (which consume diffs). Almost every method
checks something at once and then spawns a task on a multi-threaded tokio
runtime (`src/runtime.rs`); the Python awaitable resolves when the task is done,
and cancelling the awaitable drops the task at the await it is suspended at.
Whatever a method reads before an await may have changed after it: that is what
makes this code hard, and what the models are about.

`drasi-lib`, tokio and pyo3-async-runtimes are not in the repository. They are
modelled from what the code, its comments and its end-to-end tests say of them,
and each such definition is marked external in `PROJECT.json`.

## 1. Inventory

| Part | State | Operations | What is hard | What makes it correct |
| --- | --- | --- | --- | --- |
| Python source dispatch, `components.rs` 47-127 | dispatch mutex, sequence counter, subscribers' bounded channels | `push_change` | overlapping pushes, a push cancelled half way, full channels | every query sees one order, nothing accepted is thrown away, nobody starves |
| Python source registry, `engine.rs` 1970-1987, 2125-2174 | `python_sources` beside the engine's registry | add (Python or plugin), remove, update, push | two registries changed in two steps | a push reaches the registered source or is refused |
| Lifecycle and deferred auto-start, `engine.rs` 80-245, 545-728 | `closed`, two deferred lists, engine state, each component's status and auto-start flag | start, stop, close; add, update, remove, start, stop of a query or reaction; `query_results` | registration overlapping start, stop and close; start failing or cancelled half way; restarts | every auto-start component has exactly one starter and is started; nothing runs in a stopped engine; a closed engine admits nothing; every call returns |
| Declarative configuration, `engine.rs` 398-537 | none of its own | `from_config` | starts the engine first and adds afterwards, so nothing it adds is deferred | what it leaves behind can be restarted like anything else |
| Event and log streams, `streams.rs` | history, broadcast receiver, channel, reader or callback | subscribe as a stream or with a callback, read, cancel, drop | lag, history then live, cancelled reads, closing | the consumer can account for every item |
| Result streams, `components.rs` 318-420 | the one sender, the task, the channel | open, read, drop, restart, remove, close | restarts, backpressure, closing | a prefix of the results; the stream ends with the engine |
| Python and durable reactions, `components.rs` 423-597 | registration, checkpoints, recovery policy, the processing task | add, start, dispatch, stop | failure, stop or crash between callback and checkpoint; checkpoints that cannot be read; an outbox that forgets | no result is lost; what is handled again is explained |
| Plugin host, `plugins.rs`; `engine.rs` 1450-1730 | files, descriptors, resolvers, open libraries, pins, lockfile, watcher | install, pull, reinstall, load, watch, look up and create, write the lockfile | files changing under installs and loads, half-copied files, three locks one after another, cancelled loads | a kind that is found is usable; a pin has its own build's hash; a watched file is loaded |
| Secrets, `secrets.rs` | cached values, current store, a thread and a channel per store | resolve, `use_secret_store` | a store replaced, dead or without a runtime while references wait for it | every resolution returns, with a value that can be explained |
| Conversions, `conversions.rs` | none | JSON, keys and changes | integers at the bounds, bools among integers, spellings of a field | what is put in comes out, no item is lost to another's key, a change is what the mapping says |
| Blocking facade, `python/drasi/sync.py` | one event loop and its thread | every method, blocking | calls from the loop itself | no call waits for itself |
| Stores, errors, host glue | none after creation | | | |

How they meet: the lifecycle decides when a reaction runs, which starts and ends
the task of a result stream or a Python reaction; `push_change` finds its source
through the registry and then only meets other pushes on that source; sources and
reactions of plugins are created from descriptors of the plugin host, and resolve
their secrets through the resolver it injected. Each module keeps of its
neighbours only what they do to it: `ResultStream` an engine that starts and stops,
`DurableReaction` a query that produces, `PythonSources` a push that takes its time.

## 2. Plan

| Step | Modules | State |
| --- | --- | --- |
| 1. Dispatch of Python sources, and what it promises | `OrderedFeed`, `PushDispatch` | checked, safety and refinement proved |
| 2. Lifecycle and deferred lists | `EngineLifecycle` | checked, all safety properties that hold proved |
| 3. Streams | `AccountedStream`, `EventStream`, `ResultStream` | checked, safety and refinement proved |
| 4. The two source registries | `PythonSources` | checked, all properties proved |
| 5. The callback loop, checkpoints, recovery policies, stops and crashes, and what they promise | `ResultDelivery`, `DurableReaction` | checked, safety and refinement proved |
| 6. Downloads, pins, loads and the watcher; secrets and their stores | `PluginHost`, `SecretResolver` | checked, safety proved |
| 7. Conversions against what a caller is promised | `Conversions` | checked, all properties proved |
| 8. `from_config` | the initial states of `EngineLifecycle` | checked, in the proofs of step 2 |

The blocking facade has no module: the one thing it decides, to refuse a blocking
call made on a loop, is `RunRefuses` of `DurableReaction`, where such calls come from.

Left: a `from_config` that fails half way, which needs to know what `drasi-lib` does
with an engine nobody holds; `pump_stream`, whose merged stream is `drasi-lib`'s;
and, if the code should take it up, the fixes section 5 suggests.

## 3. Modules

### OrderedFeed and PushDispatch

`OrderedFeed` says what a Python source promises without naming a lock or a
channel: accepted changes have one order, each query takes them in that order and
at most once, and passes over only changes whose push was cancelled.

`PushDispatch` is `PythonSource::push` (`components.rs` 71-75), one call per
element of `Pushes`:

| Action | Code |
| --- | --- |
| `Request` | `push_change` spawns the task, which queues on `dispatch.lock()` |
| `Acquire` | the mutex goes to the first in its queue |
| `TakeSequence` | `dispatch_source_change` takes a number with `fetch_add` |
| `Deliver` | and awaits room in one subscriber's channel after another |
| `Finish` | returns, dropping the guard |
| `Cancel` | the suspended task is dropped with its guard or place in the queue |
| `Process` | a query takes the next change through `SequenceDedup::should_skip` |

A held mutex is a `pc` value, not a variable: the guard lives exactly as long as
the call is in `holding` or `dispatching`.

### EngineLifecycle

One record per caller says which call it has in flight and at which await it is.
`core`, `status` and `auto` are the engine's; `closed` and `deferred` the
binding's; the last five variables are histories that only properties read.

| Action | Code |
| --- | --- |
| `BeginComponent`, `BeginEngine` | the part of a method that runs before `future_into_py`: `ensure_open`, or setting `closed` |
| `Check` | `core.is_running()` in `register_query`, `reconfigure_query`, `hold_reaction_until_queries` |
| `ApplyAdd`, `ApplyUpdate`, `Install` | the engine's add and update calls, with the auto-start flag the binding passes |
| `Note`, `Forget` | `note_deferred*`, `forget_deferred*` |
| `ApplyRemove`, `ApplyStartOne`, `ApplyStopOne` | the engine's remove, start and stop of one component |
| `ApplyStart`, `CoreStart` | `core.start()` |
| `Clone`, `Pick`, `StartDeferred`, `Await`, `AwaitTimeout`, `Finish` | `start_deferred_queries`, `await_query_running`, `start_deferred_reactions` |
| `ApplyStop`, `ApplyClose` | `core.stop()`, `core.shutdown()` |
| `Cancel` | the call's awaitable is cancelled between two awaits |
| `QuerySettles` | a query that was started finishes starting, or fails |

`query_results` and `on_query_results` register a reaction too; they are the
operation `stream`, which differs from `add` in having no `ensure_open`. What the
engine does on its own: an auto-start query starts when it is added, even in a
stopped engine; `core.start()` starts auto-start queries, marking one that is
active already as failed, and then reactions, which fail unless their queries are
at least starting. The deferred lists are one set, so `start()` goes through each
in any order; the code's order is one of them. Sources have no deferred list and
are left out here.

An engine comes from `create`, without components, or from `from_config`, which
starts it and then adds what the configuration lists. The second is `FromConfig`,
an initial state: the engine runs, its deferred list is empty, and every component
has the flag it was configured with.

### AccountedStream and EventStream

`AccountedStream`: the consumer is told of items in order, each as itself or in a
count of missed ones; only a read it cancels may take something with it; and it is
told of the end once nothing more can come and everything is accounted for.
`EventStream` is what lies between a broadcast that keeps `Ring` items and its
consumer.

| Action | Code |
| --- | --- |
| `OpenStream`, `OpenCallback` | `query_events` and its like, `on_query_events` and its like: history and receiver, the channel, the pump's task |
| `Replay` | `pump_broadcast` and `pump_callback` going through the history |
| `Receive` | `recv()`: the next item, or how many were overwritten |
| `Send`, `SendFails` | `forward`: waits for room, or the receiver is gone |
| `PumpEnds` | the broadcast is closed and drained |
| `Read`, `Take`, `Deliver`, `End`, `CancelRead` | `Stream.__anext__`, split where a cancellation can still come between, or the loop of `pump_callback` |
| `DropStream` | the stream goes out of scope |

A callback is a consumer of the same channel that always reads and never cancels or
leaves. `History` bounds what was produced before
the subscription. Items that do not serialise are left out.

### ResultStream

`query_results` with its `StreamingReaction`: `sender` says where the channel's
only sender is, which decides when the stream ends. The engine and the query are
reduced to what they do to the reaction. `OpensOn` is the set of engine states in
which the application opens streams. There is no lag here: when the channel is
full the task waits in `Channel::send`, and the results behind it wait in the
engine's queue.

### PythonSources

`registered` is what the engine has under each id, `known` is `Inner::python_sources`
and `idOf` says which objects exist. One record per caller says which call it has in
flight and at which await.

| Action | Code |
| --- | --- |
| `BeginChange`, `BeginPush` | the part of a method that runs before `future_into_py` |
| `ApplyAddPython`, `Record` | `add_python_source`: the engine's `add_source`, then the insert |
| `ApplyAdd`, `ApplyUpdate` | `add_source`, `update_source`: the engine only |
| `ApplyRemove`, `Forget` | `remove_source`: the engine's `remove_source`, then the map's `remove` |
| `Lookup`, `Dispatched` | `push_change`: the map's `get` or a refusal, then the whole of `PushDispatch` |
| `Cancel` | the call's awaitable is cancelled between two awaits |

A removed object may still be dispatching: its push holds a clone, as in the code.
`ensure_open`, which all of these begin with, is in `EngineLifecycle`: once the
engine is closed no further call begins. What the engine refuses (an id that is
taken, a source a query reads from) is external. `replaced`, `gone` and `letDown`,
and the fields `due` and `barred` of a call, are histories that only properties
read.

### ResultDelivery and DurableReaction

`ResultDelivery` says what a reaction promises the application without a loop, an
outbox or a recovery, of either kind: from an origin on, the checkpoint passes only
over results that were handled or given up, a result behind it is called for again
only if the checkpoint was forgotten, and only a lenient policy gives anything up. So
results are handled at least once. The two kinds differ in what the process takes with
it: an ordinary reaction forgets its checkpoint (`Die`) and begins again from another
origin. In the mapping, `checkpoint` is `stored`, `lenient` is a policy `auto_reset` or
`skip_gap` or a callback whose coroutine is dropped, and `called` are the coroutines
still `running` and the call the loop waits for.

`DurableReaction` is `PythonReaction` (`components.rs` 423-597) with the checks of
`add_python_reaction` and `add_durable_python_reaction`. `setup` says what the
application registers and which stores the engine has; the outbox is what lies between
`oldest` and `produced`. Both kinds have the same `start` and the same loop: that a
stopped ordinary reaction is given what it missed when it starts again is what
`tests/e2e/test_python_components.py` 443-468 asserts. They differ in the dispatch, in
the checks of the registration and in what outlives the process.

| Action | Code |
| --- | --- |
| `Add` | the checks before a reaction is made, and `RecoveryPolicy` parsing |
| `Start`, `Recover` | `start`, `needs_snapshot_on_fresh_start`, and the engine's recovery: from the outbox, after the checkpoint, or by policy over a gap |
| `Deliver` | the loop passes over what its checkpoint covers and calls for the rest |
| `Return`, `Raise` | `dispatch` or `dispatch_async` ends well or not; `skip_gap` goes on, any other policy ends the task |
| `WriteCheckpoint` | the loop's checkpoint after the callback |
| `Stop`, `RunningEnds` | `stop_common` ends the task; a coroutine it awaited goes on by itself |
| `Crash` | the process dies with the registration, an outbox without an index store and the checkpoint of an ordinary reaction |

A reaction without a checkpoint starts with the oldest result of the outbox, or under
`auto_reset` after the newest, so `NothingLost` and the promise count from `origin`.
Results are given up only under `auto_reset` and `skip_gap`, or when an ordinary
reaction drops a coroutine; a checkpoint that cannot be read (`forgotten`) costs
duplicates, never a result.

### PluginHost

One record per caller, and one for the watcher, says which call is in flight, at
which step, about which build and file, and which libraries it has open. Builds of
one kind share a file name, and a hash says which build a file is.

| Action | Code |
| --- | --- |
| `BeginDownload`, `Download`, `RecordInstall` | `install_plugin`, `pull_plugin`, `record_install` |
| `BeginReinstall`, `NextPin`, `CheckHash` | `install_from_lockfile`, pin by pin |
| `WriteLockfile` | `write_lockfile` |
| `BeginLoadDir`, `LoadDir`, `LoadFile` | `load_plugins`, `PluginHost::load_dir`, `load_file` |
| `Register`, `InjectResolver`, `Retain` | `PluginHost::register`, under one lock after another |
| `LookUp`, `Create` | `add_source` and `add_reaction`: the descriptor, and what it creates |
| `WatchPlugins`, `WatchEvent`, `Lagged` | `watch_plugins` and its task |
| `Cancel` | a call's awaitable is cancelled at a lock or a download |
| `CopyBegins`, `CopyEnds`, `Remove`, `Restart` | what happens to the files besides, and to the process |

### SecretResolver

`resolve_config_value` runs on threads of plugins and blocks; a value is known by
where it came from, the mapping given to `create` or a store.

| Action | Code |
| --- | --- |
| `Resolve` | the look into `secrets`, the map of what is known |
| `Get`, `Receive` | the request to the store's thread under the read lock, and its reply or the end of the thread |
| `Cache`, `Return` | the value is kept, and given |
| `Serve`, `Refuse`, `Panic`, `End` | the thread of a store: it answers, has no runtime, dies with the requests it holds, or ends when the store was replaced |
| `Spawn`, `SetStore` | `use_secret_store`: the store and its thread, then the write lock |

The read guard lives as long as the statement that waits for the reply (`Reading`),
and a waiting writer keeps new readers out (`WriterWaits`), as the standard
library's lock does on the platforms built for. `knew`, `fresh` and `seen` of a call
are histories. A store that resolves references while it answers is left out: it
would wait for a lock its own request holds.

### Conversions

`py_to_json`, `json_to_py`, `camel_to_snake`, `json_to_py_snake` and
`SourceChangeFromPy` with `Lookup`, `ParseOp`, `Labels`, `EffectiveFrom`,
`Properties` and `End` are the functions of `conversions.rs` under their names. Each
conversion is a step, given what becomes of the parts of a value (`PyToJson`,
`JsonToPy`, `CamelToSnake`, `JsonToPySnake`), and the recursive function that has it
for its step. A state is one value on its way through them. Text is a token, and a
string that has no UTF-8 a type of its own; the keys that are rewritten are sequences
of letters and separators. `"sequence"` stands for what is a sequence besides lists and
tuples, such as `bytes`, of which `py_to_json` makes an array as well. `Half` is half
the number of 64-bit integers. The values, trees and mappings are constants. What is
assumed of them: the parts of a value are among them, none is inside itself (`Depth`),
and integers and sequences are what they are called. A tree may have any keys, since
the maps of a graph schema have the application's labels for theirs; where the engine's
own types have camelCase, labels may be `Alike`, and of two that become the same key
one item is left. The properties say what a caller gets without using any of these
functions.

## 4. Runs

| Run | Instance | Shows |
| --- | --- | --- |
| `push_dispatch` | 3 pushes, 2 queries, channels of 2 | `NothingDiscarded`, `ReturnedIsWithQueries`, `MutexIsHandedOn`, `RefinesOrderedFeed`, `ReturnedIsProcessed`, `NoPushStarves` |
| `engine_serial` | 2 callers, 1 query, 1 reaction on it, every call, both disciplines | `QuietWhileStopped`, `StartNeverTrips`, `NoneLeftBehind`, `HeldReactionsFollowQueries` |
| `engine_overlap` | 2 callers, 1 query, every call, calls on the query apart | types, `ExactlyOneStarter`, `CallsReturn` |
| `event_stream` | 6 items (at most 1 history), broadcast 2, channel 2, 2 cancelled reads | types, `RefinesAccountedStream`, `EveryItemAccounted`, `StreamEnds`, `PumpStopsAfterDrop` |
| `result_stream` | 4 results, channel 2, 3 starts, streams opened in every state of the engine | `NothingSkipped`, `EndIsFinal`, `ReaderGetsAll`, `StartedStreamEnds` |
| `python_sources` | 3 callers, 2 ids, 2 objects, every call, discipline `Apart` | `KnownIsRegistered`, `PushesAreServed`, `NoStrayPush` |
| `durable_reaction` | 3 results, an outbox of 2, five kinds of callable, four policies (one unknown), every choice of stores | `NothingLost`, `RedeliveryExplained`, `RefinesResultDelivery`, `KeepsUp` |
| `plugin_host` | 2 builds of one kind, a caller that installs, pins and loads, one that creates, the watcher, discipline `ApartFiles`, calls cancelled anywhere | `CreatedIsUsable`, `PinsAreTrue`, `NoticedIsLoaded`, `WatchedFilesLoad` |
| `secret_resolver` | 2 threads, 2 names, 2 stores | `OnceResolvedAlways`, `AnswersExplained`, `WaitersAreOwed`, `CallsReturn`, no deadlock |
| `conversions` | integers of 3 bits (`Half` is 4); values nested twice, keys of up to 3 letters with capitals and separators anywhere, two spellings of a field | `ValuesSurvive`, `ChangeFaithful` |

Two more runs, `restart_strands` and `async_callback`, are refuted: section 5.

Every module has a type invariant. The runs repeat it where it depends on what else
they check, the shape of overlapping calls and the bounds of the streams' buffers; of
the other modules it is proved (section 6) and no run restates it.

Two *disciplines* are constants of `EngineLifecycle`. `SerialIds`: the
application does not overlap two calls on the same component. `SerialLifecycle`:
it does not overlap start, stop or close with another call. The code enforces
neither. A property checked under one holds of applications that keep it, and section 5
shows what happens to the others.

`PythonSources` has two of its own. `Apart`: no `add_python_source` overlaps a
`remove_source` of the same id. `Cancellable`: the calls the application cancels; the
run leaves out `add_python_source` and `remove_source`, whose second half would be
lost. Without `Apart` all three properties fail; a cancelled `add_python_source`
breaks `PushesAreServed` alone, a cancelled `remove_source` `KnownIsRegistered` alone.

`PluginHost` has two as well. `ApartFiles`: the application works on each plugin file
from one side at a time; without it a pin can hold the hash of another build, written
to the same file between the download and the hashing, and `PinsAreTrue` fails.
`Cancellable`: the steps at which calls are cancelled, all of them in the run.

Why the bounds are enough. *Pushes*: reordering needs two calls, and a third is
what queues behind a cancelled one; with channels of two and three changes a
channel is both full and holding changes of different calls. *Engine*: every
hazard listed is a race of two calls, one of which may be any number of calls in a
row, or a sequence of calls by one caller; runs are not bounded in length, since
every variable ranges over a finite set. One reaction over one query is enough for
every order of the two. *Event streams*: six items against 2 + 2 places leave room
for two separate lags. *Result streams*: four results against a channel of two and
one in the task fill everything and leave one in the queue; three starts take the
reaction past its first run twice. *Python sources*: a change, one that overlaps it
and a push are every race there is; two objects let an id be registered again after
a removal, and `Objects` bounds the registrations of a run. *Durable reaction*: with
three results and an outbox of two, one result can leave the outbox unseen, one be in
the callback and one wait; stops, crashes and misread checkpoints are not bounded.
*Plugin host*: the races are about one file and the kind it provides, with two builds
that can be taken for each other; each file has two sides, and the watcher is a
third party. *Secrets*: a thread that waits, one that comes later, and a store that
replaces another are every role there is; two names let an answer be kept under the
wrong one. *Conversions*: the bounds of both ranges lie among the integers tried, and
every integer from one below to one past them is. `MaxItems`, `MaxCancels`,
`History`, `MaxResults` and `MaxRestarts` are the only other bounds, each named in its
guard.

Deadlock is checked in `secret_resolver`, where threads block on each other. The other
systems may stop for good, since the application may stop calling and a closed engine
stays closed; what must not stop in them is said by liveness properties.

Fairness. The runtime polls every task that is ready: weak fairness of a call's
own steps (`Push` without `Request` and `Cancel`, `Step`, `Pump`, `Task`). Queries
drain their channels: weak fairness of `Process`. `Step` includes the 30-second
deadline of `await_query_running`, a timer of the runtime; no fairness is assumed
of `QuerySettles`. In the stream modules the liveness properties are about a
consumer that goes on reading (`async for`), so `Consumer` is weakly fair. Nothing
obliges the application to call, cancel or drop anything. `PythonSources` has no
liveness property of its own: a push ends as `PushDispatch` says. `DurableReaction`
is fair to its `Loop`, which the runtime polls and whose callback ends somehow;
`PluginHost` to the watcher's events and loads; `SecretResolver` to the steps of a
thread inside the resolver, of a store's thread that has a request, and of a writer
that waits for the lock; a store's `get_secret` is taken to end. `Conversions` has
no liveness.

Symmetry is used only in runs without liveness properties.

## 5. Where the code and its words disagree

Ten sentences of the repository, each a property that TLC refutes. Two are runs, and
`PROJECT.json` has them with the sentences and lines among its findings; each of the
others has a configuration beside them, to be run as `tlc -config <file> <module>`,
where the module is the one named. What a passing run says of the same code is named
too.

* Run `restart_strands` (`StartStartsReactions`): register a query, start, register a
  reaction on it, stop, start. The reaction has auto-start on in the engine, so
  `core.start()` starts it before the deferred query and it fails to subscribe
  (`engine.rs` 204). `start()` "starts the engine and every component that is
  configured to auto-start" (545).
* `MCStartRace.cfg` (`MCEngineLifecycle`, `NoneLeftBehind`): `add_query` reads
  "stopped" (107), `start()` copies the deferred list, `add_query` then registers with
  auto-start off and joins the list too late: the query is stopped in a running engine
  until the next restart. The comment (102-103) says that this "keeps both orderings
  working".
* `MCCloseRace.cfg` (`MCEngineLifecycle`, `ClosedAdmitsNothing`): a call that passed
  `ensure_open` adds its component when the engine is marked closed. The comment in
  `close` (567-568): "so a concurrent caller cannot slip a component in while the
  engine is on its way down".
* `MCClosedStream.cfg` (`MCEngineLifecycle`, `ClosedAdmitsNothing`): `query_results`
  and `on_query_results` do not call `ensure_open`, so a closed engine still takes
  their reactions. `error-handling.md` 102-103: "Once `close()` has been called,
  anything that would change the engine raises `ENGINE_CLOSED`".
* `MCSlowReader.cfg` (`ResultStream`, `SlowReaderHoldsNothingUp`): the reaction behind
  `query_results` waits for room in the stream's channel (`components.rs` 391-394). So
  a consumer slower than the query misses nothing, which is what `NothingSkipped` and
  `ReaderGetsAll` say, and holds the reaction up. `streaming.md` 65-67 says the
  opposite (a finding of `result_stream`), with `query_results` for its example: "the
  stream drops the oldest items and tells you rather than quietly losing them". No
  `StreamLaggedError` ever comes from a result stream.
* `MCUnstartedStream.cfg` (`ResultStream`, `EveryStreamEnds`): the stream of a
  reaction that never started does not end when the engine is closed, since the
  reaction still has the sender (`components.rs` 330). `streams.rs` 55-56 and
  `streaming.md` 84-85: "closing the engine terminates any open stream rather than
  leaving it hanging". `StartedStreamEnds` is what holds.
* Run `async_callback` (`AsyncCallbacksRun`): `add_python_reaction` accepts an async
  function, and the dispatch of an ordinary reaction drops the coroutine it returns
  (`components.rs` 478); `python-reactions.md` 31-32 says it "is awaited on your event
  loop".
* `MCEarlyCreate.cfg` (`MCPluginHost`, `FirstCreatedResolves`): a kind can be looked
  up between the registration of its descriptor and the injection of the resolver
  (`plugins.rs` 388). The comment (384-386): "the very first component created from
  them can already resolve references".
* `MCCancelledLoad.cfg` (`MCPluginHost`, `RegisteredStaysOpen`): a call cancelled
  while it waits for the last lock of `register` (392) leaves a descriptor whose
  library is closed. The comment on `PluginHost` (140-142): "The loaded libraries are
  retained for the lifetime of the host".
* `MCLabelKeys.cfg` (`MCConversions`, `SeparatedKeysAlone`): `camel_to_snake` rewrites
  a key with capitals whether it has separators or not, so the label `Order_Line` of a
  graph schema becomes `order__line`. Its comment (`conversions.rs` 169-170): it
  leaves "anything already snake_case, or containing separators the engine would not
  have produced, alone".

Besides, without a configuration because no sentence in the repository was found that says
otherwise:

* Labels that differ only in a first capital, `Order` and `order`, become one key in
  `get_graph_schema`, and one of them is lost (`engine.rs` 929-937). `ValuesSurvive`
  says between which keys that may happen.
* Dropping a stream leaves its reaction registered and running (`components.rs`
  391-393).
* `write_lockfile` after `install_from_lockfile` drops the pins it installed from
  (`plugins.rs` 519, `engine.rs` 1625), since only `install_plugin` records any.
* Without `ApartFiles` a pin can hold the hash of another build, written to the same
  file between the download and the hashing.
* A source that `update_source` replaced stays in `python_sources`, and a push to it
  goes to the old object (`engine.rs` 1962).

## 6. Proofs

All safety properties the passing runs check are proved for every value of the
constants, and so are the three refinements. Each proof finds an inductive invariant that explains,
besides the property, what holds while a call is half way.

`ChangeProofs` has two parts. The first is about dispatch, for any set of pushes and
queries and any capacity:

* `TypeCorrect`: `Spec => []TypeOK`.
* `NeverDiscards`: `Spec => []NothingDiscarded`. Not inductive alone. The
  invariant adds that at most one call holds the mutex, that numbers are distinct
  and at most `nextSeq`, that each channel holds increasing numbers above the
  query's highest, and that a call still dispatching has the highest number of all.
* `ReturnedIsDelivered`: `Spec => []ReturnedIsWithQueries`, from the same invariant,
  which says where each change is that a dispatch has reached a query with. With
  `NothingDiscarded` it is the safety under `ReturnedIsProcessed`.
* `HandedOn`: `Spec => []MutexIsHandedOn`, the safety under `NoPushStarves`. The
  mutex's queue holds the calls that wait, each once, although a cancelled one leaves
  it from within.
* `Refinement`: `Spec => RefinesOrderedFeed`. The invariant of `NeverDiscards`, with what has been
  delivered but not processed; each action is one abstract step or a stutter.

The second is about the conversions of that change and of any other value, for any
values, trees and mappings and any width of the integers:

* `SnakesDiffer`: two keys become the same in snake case only if they are `Alike`. For
  camelCase keys (`SnakeInjective`), the last letter of the result, and whether a
  separator comes before it, give back the last letter of the key; the rest is the
  induction, on the length. A capital at the beginning makes no difference to the
  result (`SnakeUncapped`), which gives the keys that begin with one.
* `ValuesSurviveHolds`: `ConversionsSpec => []ValuesSurvive`, from three lemmas by
  induction on depth: what is refused is what has no form in JSON
  (`RefusedIffFormless`), what is converted comes back (`ThereAndBack`), and keys are
  rewritten with an item of one of those that are alike under each (`SnakeRewrites`,
  with `SnakesDiffer`). The invariant `Made` says which conversion made what a state
  holds.
* `ChangeFaithfulHolds`: `ConversionsSpec => []ChangeFaithful`, from one lemma for each
  part of a change, operation and labels included, what it is and when it is refused,
  over `LookupIs`.

`Recursion` is what these inductions rest on. A recursive function of TLA+ is
`CHOOSE`n, so that it satisfies its own definition has to be proved: `Defined` does,
for any step that looks only at what is less deep. `Shallowest` gives a set of values
that is not empty one of least depth, from which the inductions argue by
contradiction. Both are about a set, a depth and a step, constants of the module that
each use gives a meaning with `INSTANCE`, and rest on the library's well-founded
order of the naturals, without its induction theorems, whose parameters the provers
cannot instantiate.

`EngineLifecycleProofs` (any set of callers, queries and reactions):

* `TypeCorrect`: `Spec => []TypeOK`, with the shape of calls (which steps each
  kind of call goes through) as the strengthening, and no discipline.
* `OneStarterEach`: under `SerialIds`, and if only start, stop and close are ever
  cancelled, `Spec => []ExactlyOneStarter`. The property is silent while a call is on
  the component, so the invariant says what holds then: calls on one component are
  exclusive; the engine's flag and the list agree except while that call is between
  the two, when the call's own record says what the list is about to become; and the
  engine has every component it has a flag for.
* `Quiet`, `NeverTrips`, `NoneIsLeftBehind`, `ReactionsFollow`: under
  `SerialLifecycle` besides, the four properties of `engine_serial`. The invariant
  `OrderlyInv` adds that the engine's calls are alone, that what a call read from
  `is_running` is still so when it is used, and, for a `start()` on its way, which
  deferred components it has yet to reach: those are quiet, and every other component
  that asked to auto-start is not stopped. When none is left to reach, that is
  `NoneLeftBehind`. `from_config` is among the initial states.

Both assumptions of `OneStarterEach` are needed: two overlapping calls on one id, or
one cancelled after the engine changed and before the list did, leave a component
with two starters or none. What `SerialLifecycle` is for is in section 5.

`PythonSourcesProofs` (any set of callers, ids and objects):

* `TypeCorrect`: `Spec => []TypeOK`, with the shape of calls.
* `NoStray`: under `Apart`, `Spec => []NoStrayPush`. The common invariant says that an
  object is only found under the id it was created with, that calls keep apart, and
  what the engine and the map hold while an add or a remove is between the two;
  `NoStray` adds that what is gone is in neither registry and in nobody's hands but
  those of pushes that began before.
* `KnownRegistered`: under `Apart`, and if `remove_source` is not cancelled,
  `Spec => []KnownIsRegistered`, from the common invariant.
* `Served`: under `Apart`, and if `add_python_source` is not cancelled,
  `Spec => []PushesAreServed`. It adds the converse, that a registered Python source is
  in the map unless its add is still to record it, and that the object a push is due
  is in place.

`EventStreamProofs` (any bounds of broadcast, channel, history, items and reads):

* `TypeCorrect`: `Spec => []TypeOK`.
* `Refinement`: `Spec => RefinesAccountedStream`. The invariant lays the reports end to
  end: a function of places gives, for each report in the channel and for the pump's,
  how many items come before it, from what the consumer has been told to where the
  pump has got (`Position`); a value is about the item after its place. A pump ends,
  and drops its sender, at the end of a closed broadcast or when nobody reads: so an
  iteration that ends has been told of everything.

`ResultProofs` has two parts as well, about what a query's results go to. The result
stream, for any bounds:

* `ResultTypeCorrect`: `ResultSpec => []ResultTypeOK`.
* `SkipsNothing`: `ResultSpec => []NothingSkipped`. The invariant numbers the results
  through the channel, the task and the queue, and says where the sender can be at all.
* `EndStays`: `ResultSpec => EndIsFinal`. A stream ends when its sender is gone and its
  channel empty, and neither a `start` nor a removal brings either back (`Over`).

And the reaction, for any number of results, any outbox, callables and policies:

* `ReactionTypeCorrect`: `Spec => []TypeOK`.
* `NothingIsLost`: `Spec => []NothingLost`, with misread checkpoints, crashes and
  overlapping coroutines. The invariant relates the loop's next result to the stored
  checkpoint and to what was handled or given up between the origin and it.
* `RedeliveryIsExplained`: `Spec => RedeliveryExplained`. What was handled, by either
  kind, is covered by the checkpoint the loop goes by, in doubt, about to be written, or
  behind a checkpoint that was forgotten.
* `DeliversAsPromised`: `Spec => RefinesResultDelivery`. Each step of the loop, of a
  recovery, of a stop or a crash is one abstract step or a stutter, from the invariants
  of the two theorems before it.

`PluginHostProofs` (any builds, kinds and callers):

* `TypeCorrect`: `Spec => []TypeOK`, with calls cancelled anywhere.
* `PinsTrue`: under `ApartFiles`, `Spec => []PinsAreTrue`. The invariant says that a
  caller at work on a file has it to itself, that what is about to be hashed is what was
  downloaded, and that a reinstall looks for the hashes of the builds themselves.
* `CreatedUsable`: `Spec => []CreatedIsUsable`, with calls cancelled anywhere. What is
  registered has its resolver unless a load is at that step, and its library unless a
  load holds it or was cancelled at its last lock; a load injects before it retains, and
  nothing is taken back but by a restart. So the two windows of section 5 are
  the only ones.
* `NoticedLoaded`: `Spec => []NoticedIsLoaded`, the safety under `WatchedFilesLoad`. The
  watcher opens nothing before it has read the file its event was about, and returns
  from a load only with what it opened retained.

`SecretResolverProofs` (any threads, names and stores):

* `TypeCorrect`: `Spec => []TypeOK`.
* `OnceResolvedStaysResolved`: `Spec => []OnceResolvedAlways`. What was resolved is in
  the map, which only grows.
* `AnswersAreExplained`: `Spec => []AnswersExplained`. The invariant follows a request:
  it is in one channel, once, of a store installed while the call lasted, its caller
  waits without a reply, and the reply is that store's or none; the map holds the
  mapping's value for the mapping's names and for no other.
* `EveryWaiterIsOwed`: `Spec => []WaitersAreOwed`, the safety under `CallsReturn`: what
  a blocked thread waits for is with the installed store, whose thread runs.

Section 4 says what happens without each of these assumptions.

Only model-checked: everything under liveness and fairness (`NoPushStarves`,
`ReturnedIsProcessed`, `CallsReturn`, `StreamEnds` and their like), which is out of the
prover's reach. The external behaviour of section 3 is assumed throughout.

## 7. Not modelled

* *Stores* and *errors* have no behaviour after creation; the options of `create`,
  the query builder and the registration of the module are tables.
* Read-only calls (`get_*`, `list_*`, metrics, schema, `wait_for_query`) change no state.
* `all_events` and `on_all_events` (`pump_stream`): the merging, lags included, is
  `drasi-lib`'s, and what is left is `forward`.
* Of the plugin host: searching the registry and resolving versions, which only read;
  signatures, which decide a download like any other failure; the load of an identity
  provider while the engine is created, when nothing else runs.
* References to environment variables, which keep no state, and the parsing of
  references.
* What a `from_config` that fails leaves running: the caller gets no engine, and what
  becomes of the tasks of one that is dropped is not in this repository.
* The blocking facade beyond `RunRefuses`: its methods forward their arguments.
