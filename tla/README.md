# A verification of gtether

gtether is a Rust game engine: a worker pool with async executors on top, a
resource manager that loads and hot-reloads assets on them, an engine with
stages, drivers and tick loops, networking over GameNetworkingSockets, windows
with inputs and a console, Vulkan rendering, and a Reversi game as an example.
This directory holds TLA+ models of it, the TLC runs that check them on small
instances, and proofs that TLAPS checks for all instances.

Paths below are relative to `src/gtether/src/` unless they begin with `src/`.

## 1. The system

| Component | State | Operations | Speaks to | What makes it hard | What makes it correct |
|---|---|---|---|---|---|
| Worker pool (`worker/`) | buckets of work sources behind a RwLock, the map of sleepers behind a mutex, one waker, unpark tokens | `Worker::run`, `find_work`, `insert_sleeper`, wake, `insert_source`, drop | sources call its waker; it calls `find_work` and `set_worker_waker` on them | wake-up races, three locks in several orders, sources that die, the drop | no lost wakeup, an item is run at most once, calls return |
| Executor (`util/executor.rs`) | queue and `active_tasks` behind one mutex, the slab of wakers behind another | spawn, schedule, `find_work`, poll, end of a future, drop | is a source of the pool; `async_task` keeps a task's state word | wakes during polls and during the drop | a scheduled task is polled, nothing runs after the drop, `is_empty()` is true |
| Priority queues (`util/priority.rs`) | a heap, or a list searched at each pop | push, pop; `peek` and `swap_if_higher` have no caller | the executors | priorities that change while a task is queued | the highest goes first, every executor has its turn |
| Resource cache (`resource/manager/load.rs`, `future.rs`) | per id: hash and source index; per loader: an entry (loading, loaded, weak value, error, updating) with its task and wakers | get, poll, load, default, update, cancel, expire | executor, sources, watchers, graph | cancelled tasks that go on, weak values, futures that share a load, loads that ask for loads | one object per resource, defaults give way, circles are refused |
| Resource updates (`manager/update.rs`, `dependency.rs`, `watcher.rs`, `source/`) | a tree of watchers with watched ids, nested indexes, a channel of messages, the dependency graph | watch, notify, configure, insert and remove sources; start updates and those of dependents | sources, watchers, cache | sources that move while ids are watched, order among messages | resources are made of the data of the first source that has it; dependents follow |
| Event bus (`event.rs`) | subscribers and one-off pipes per type | register, fire, wait | engine, network, render | handlers run under the locks, and fire and register | handlers hear events in order |
| Engine (`lib.rs`, `app/`, `util/tick_loop.rs`) | the stage, the tick thread | start, stop, join, drop, tick | all parts | stages asked for by several threads | each hook once per stage, a stop stops, ticks come in time |
| Windows, input (`gui/`) | the event loop's windows, requests and hook threads; delegates and locks | create, close, suspend, cursor, lock | engine, render, console | threads of winit, windows, hooks | the engine's promise; the primary window stops it |
| Console (`console/`, `render/font/layout.rs`) | commands, log, prompt, visibility | register, submit, edit, show | input, pool | re-layout of what an edit changed; commands run by workers | a layout is that of its text; lines are handled |
| Network (`net/`) | connections, handlers, reply handlers, buffers, a bounded queue | connect, close, send, dispatch | GameNetworkingSockets | callbacks on the driver's thread, both ends closing | one end per connection, replies, nothing lost at the start |
| Rendering (`render/`) | swapchain, frame sets, buffers, descriptor sets, pipelines | render, recreate, write | Vulkan | reuse of what the GPU reads, resizes | buffers at rest when written, the picture catches up |
| Reversi (`src/examples/reversi/`) | board, seats, bots' threads, clients' views | play, begin turn, join, leave | network, console | a turn belongs to a seat that changes hands | moves in turn, views catch up, bots move |

`PROJECT.json` lists every part, the ones not modelled included, and under
"hazards" what is hard to test, at its line, with the properties that watch it.

## 2. Modules, and how they correspond to the code

The rule everywhere: an action is what one thread does between two points at
which another may interfere (a lock, an await, a channel, a callback), with all
it calls. `PROJECT.json` maps each definition to its lines. Definitions whose
comment begins with "Mutant" are plausible bugs; no specification uses them,
and each breaks the property it is paired with.

### Pool and executors

| Module | Code | Contents |
|---|---|---|
| `WorkDispatch` | what callers of the pool rely on | abstract: an item is queued, run by one worker, or dropped |
| `WorkerPool` | `worker/pool.rs`, `worker/task.rs` | every lock, wake and park as one step |
| `Executor` | `util/executor.rs` | tasks from spawn to the drop of the future; the executor's drop |
| `Scheduling` | `Bucket` and `BucketIterRing` of `worker/pool.rs`, `util/priority.rs`, the keys and attempts of `util/executor.rs` | the ring that `WorkerPool` abstracts to "any order"; the queues as operators; workers that go round the bucket and take from them |

In `WorkerPool`, `pc[w]` is where a worker is in `Worker::run`; `inserting` holds
`sleepers` while it blocks on something else (only `insert_source` does); `claim`
and `readers` are parking_lot's RwLock, whose waiting writer keeps new readers
out; `tokens` is `Thread::unpark`'s token; `slot` and `flag` are each source's
`AtomicWaker`, whose register and take overlap step by step. A source in
`Locking` keeps its own mutex while it wakes the pool, as the executor's
`push_work` does; one in `Weak` may be dropped at any time; `Early` sources are
in the pool from the start.

In `Executor`, `state[t]` is a task's place: queued, in a worker's hand, running,
idle, handed (inside the schedule closure of a wake that has begun), dropping,
closed. The steps of `Drop` are the code's: take the inner state, lock the slab,
wake each, unlock, drain the queue, wait for `active_tasks`.

In `Scheduling`, `queue[e]` is what an executor's queue holds: the array of the
heap of a static or FIFO executor, the list of a dynamic one. `kind` says by what
keys tasks are compared (`Higher`) and how one is popped. The heap is the standard
library's, with its order of moves (down to the bottom, then up), one `Sink` or
`Rise` per level. A dynamic queue is gone through with the executor's lock held, one
priority at a time (`ReadPriority`, then `TakeHighest`), while their owners change them.
`RemoveExpired` is the `clear_expired` of this bucket when a source of any has expired.

### Resources

| Module | Code | Contents |
|---|---|---|
| `DependencyGraph` | `manager/dependency.rs` | the graph's operations as operators, and in any order |
| `ResourceCache` | `manager/load.rs`, `util/waker.rs` | one entry: users, sources, loads, updates, cancellation |
| `ResourceFutures` | `manager/future.rs`, defaults of `load.rs` | the futures' fallbacks and defaults over that entry |
| `LoadTrees` | `ResourceLoadContext` of `load.rs` | loads of several entries that ask for each other |
| `Watchers` | `source/mod.rs`, `watcher.rs` | nested indexes and their order; the tree of watchers, as operators |
| `ResourceUpdates` | `manager/update.rs`, `load.rs`, `source/dynamic.rs`, `fs.rs`, `constant.rs`, `manager/source.rs` | from a changing file to the updates of all it concerns |
| `SubResources` | `resource/mod.rs` | what is made of a resource, and callbacks, following it |

`ResourceCache` has one id and one loader. `entry` is `CacheEntryTypedInner`; the
cache holds values weakly, so `Alive(o)` is computed from who holds `o`.
`task[t].phase` is where a load or update is between its suspension points; a
task whose handle was dropped is `cancelled` and may go on until it suspends
(`DropTask`), as one that a worker is polling does. What happens under the lock of
the `CacheGroup` is one step. A future is "woken" from its creation until a poll
that finds nothing, then "waiting" until a `MultiWaker` it is in wakes it. The
arms of `UpdateWork::execute` for entries that are loading, loaded, a value, an
error or missing are not modelled: `EntryHasItsTask` shows that an update that is
not cancelled finds its entry updating.

`ResourceFutures` extends it: `adapter[u]` is the `AdapterState` a future is in,
and `StartDefault` is `load_default_fn` with its watches. `LoadTrees` looks at the
same code from the side of the trees: `load[k]` is the load of an entry with the
keys it is under (`parents`), what its loader has still to ask for and waits for.

In `ResourceUpdates` files and the list of sources change, `watch` is the tree of watchers
with the channel (`watch.sent`), `meta` the metadata of the cache's groups, `update[k]` the
index an update under way was started with, `graph` the graph of `DependencyGraph`. Loads,
updates and the update thread go on from await to await, or from lock to lock: `step[k]` says
whether the task of `k` is next to find its data, note it, watch, parse or write, or
is held until a message has been handled; `late` are watches that loads set after they were
cancelled; `job` is the message in the update thread's hands (`Receive`, `AskGraph` and
`StartId` for each id, `StartDependent` for each key, `StartUpdates`), which may be stopped
anywhere. `find_data` over all sources is one step, as are the two synchronous calls with which
an update records its dependencies and watches (`Apply`); what a loader asks for is in use when
its result is taken. A watcher has children or is a child, never both, so `Configure`,
`Watch` and `Unwatch` reach a watcher and its children and need no recursion; deeper nesting
is a finding of section 6. `known` and `heard` are history variables: the resources
that `FreshAtRest` is about, and what `DependentsUpdateToo` compares a message with.

### Engine, windows, console

| Module | Code | Contents |
|---|---|---|
| `EngineLifecycle` | stages of `lib.rs`, contract of `app/driver.rs` | abstract: stages along the documented graph, each hook once |
| `EventBus` | `event.rs` | firing and registering under the locks, one-off handlers and their futures |
| `TickLoop` | `util/tick_loop.rs` | the loop's thread and its handle |
| `Engine` | `lib.rs`, `app/driver.rs` | the minimal driver with bus and tick loop |
| `WinitDriver` | `gui/window/winit.rs` | event loop, hook thread, windows' threads |
| `InputDelegates` | `gui/input.rs` | input state, delegates, locks |
| `TextLayout` | `render/font/layout.rs` | pure: layouts of text |
| `Console` | `console/mod.rs`, `command.rs`, `gui.rs`, `log.rs` | the tree of commands, and the console next to a text field over the same inputs |

`Engine!stage` and `writer` are the `RwLock` of the engine's state, held while the
event is fired; `token` is the park token of the driver's thread. `WinitDriver!events`
are the `EngineEvent`s in the proxy's queue, `background` is
`background_handle`, `hook` that thread. In `TextLayout` a layout that has run into
an index panic is `None`: the properties say what holds of the others.

### Network

| Module | Code | Contents |
|---|---|---|
| `ConnectionLife` | the events of `net/mod.rs` | abstract: announced once, ended once |
| `Wire` | external: the GNS sockets as `net/gns.rs` uses them | connections, ordered messages, loss, events |
| `ClientStack`, `ServerStack` | `net/mod.rs`, `net/gns.rs`, `net/message/` | the two stacks: application's and subsystem's threads |
| `Networking` | | both, composed |

`buffer` is the `ConnectBuffer`, `shared` a reference to it upgraded by the
dispatcher, `replies` and `answered` the two ends of a `MessageReplyContext`,
`tick` and `sTick` how far the subsystem's threads are in their tick.

### Rendering and the example

| Module | Code | Contents |
|---|---|---|
| `Renderer` | `render/mod.rs`, `swapchain.rs`, `frame.rs`, `uniform.rs`, `descriptor_set.rs`, `pipeline.rs`, `image.rs` | the window's thread against the application's and a worker |
| `ReversiBoard` | `board/mod.rs`, `bot/minimax.rs` | the rules and the bot's search, pure |
| `ReversiGame` | `board/controller.rs`, `view.rs`, `server.rs`, `bot/mod.rs`, `client.rs` | a game over the network with bots, joiners and leavers |

In `Renderer`, `inflight` holds submitted commands until the host has waited for
them, which is all it knows; `held` is the lock of the uniform's frames while they
are recreated, `app = "value"` the value's lock. In `ReversiGame`, `threads[t]` is
where the server's thread or a bot's is; `other` is whom it waits for or acts for, and
`pending[b]` the requests a bot's thread has yet to take. A bot that replaces somebody
is one of those that are still `Unborn`, a bound on how many there are; `PlayScore` is
the minimax search, as a recursive function of the depth.

The modules `MC...` hold the instances. `WorkerPool!OrderSpec` adds a history variable
(`atScan`, what was queued when a worker's scan began) for one action property;
`MCResourceCache` puts `ResourceFutures` and `LoadTrees` side by
side, each behaviour being of one of them, because they share a run and no state.
`SeqFold` has folds that TLC evaluates in one pass, and `Picked`. The modules `...Proofs` hold the
theorems of section 7: one module each for the pool, the executors (`Executor` and `Scheduling`), one entry of the
resource manager (`ResourceManagerProofs`), several of them (`ResourceGraphProofs`: graph,
updates and trees of loads), the engine, the network, rendering, and for windows with the
console and the game played in them (`WindowProofs`). Where such a module extends several
specifications, their `Init`, `Next` and `vars` have names of their own (`GameInit`,
`ConsoleNext`, `TreesSpec`).

## 3. Refinements

- `WorkerPool!ImplementsDispatch`: an item's status is computed from queues, hands
  and histories (`StatusOf`), and the pool implements `WorkDispatch`.
- `Engine!ImplementsLifecycle` and `WinitDriver!DesktopImplementsLifecycle`: both
  drivers implement `EngineLifecycle`. On a platform that suspends applications the
  winit driver does not (section 6), so the mapping holds it in its first state there.
- `Networking!ConnectionsEndOnce`: each stack implements `ConnectionLife` with
  `connection_infos` as the open connections.

All are checked by runs and proved for every value of the constants.

## 4. Runs

| Run | Question | Instance | States |
|---|---|---|---|
| `pool_safety` | can the pool sleep beside work, miss its drop, skip a higher bucket, run an item twice? | 2 workers (symmetric), 2 items, 2 sources in 2 buckets, the higher one keeping its mutex as it wakes | 1 363 651 |
| `pool_live` | do work, insertion and drop come to an end? | 2 workers, two sources inserted late, one of them weak, with a mutex of its own and an item | 373 369 |
| `executor` | does `is_empty()` speak the truth, is a scheduled task polled, does anything run after the drop? | 3 tasks, 2 workers | 154 628 |
| `scheduling` | does the highest task go first while priorities change, does each executor have its turn? | 2 threads, 3 tasks in one executor, two beside it that come and go; the three kinds of queue, 2 changes of priorities | 2 641 018 |
| `cache` | do entry and task belong together, is there one object, are remembered futures woken, do defaults give way, which circles of loads are not found? | one entry: 2 sources, 2 changes or losses, 2 users, 3 tasks, fallbacks of each kind; trees: 3 loaders that ask for each other, one for both at once | 1 104 300 |
| `resources` | is what is shown what the first source has, do dependents follow? | up to 2 files, some of them from the start, in a dynamic source before a constant one, and 2 changes of files or of the list; 2 resources of one id, or one with a chain of 2 made from it | 742 844 |
| `engine` | do stages, hooks, events and ticks keep their order, does a stop stop? | the driver, the owner, a registering thread, 2 handlers (one weak), 1 one-off handler, both types of tick, sleeps that end late | 475 052 |
| `window` | does the winit driver keep the engine's promise, does the primary window stop it, is the cursor as asked? | 2 windows, one primary; desktop and mobile | 106 942 |
| `console` | are layouts sound, is the console shown exactly when it has the inputs, are lines handled? | 3 keys, each from a set, 2 sizes of the window, 2 widths of characters with kerning, an alias registered meanwhile | 90 559 |
| `net` | do connections end once, requests get replies, closes return, early messages wait? | 2 connections or 1 with loss, with a cancelled connect, with handlers that send, with polled replies, with 2 requests of other clients that fill the queue; queue, buffer and poll limit of 1 | 83 352 |
| `render` | are buffers at rest when written, does the picture catch up, do sub-resources follow? | swapchains of 1 or 2 images, a set of 2 uniforms, 1 resize, 1 write, 1 update of the font; handlers that ask for the set again, flushes that fail | 424 661 |
| `reversi` | do moves belong to the seat in turn, turns capture, views catch up, bots move? | board of 3 by 2, 2 clients of which one leaves, up to 3 bots, search depth 3 | 115 318 |

Every property has a mutant of the code in `PROJECT.json` that breaks it.

What the less obvious ones say:

- `HighestFirst`: of a dynamic queue, no task is left that was higher than the taken one
  all through the search. More cannot be had: one whose priority rises behind the search
  is left, and one whose priority falls ahead of it is not seen as it was.
- `RoundRobin` holds until a source is added to the bucket or one of the pool expires,
  which sends every thread back to the first source of every bucket (section 6).
- `RememberedAreWoken`: a waker that an entry has taken over is woken when the
  entry is settled, whichever task settled it.
- `DefaultsGiveWay`: who shows a default has every source watched, so that data that
  appears replaces it; except where a cancelled task was the last to register its
  watches, or was cancelled once it had (`strayed`, see section 6).
- `CirclesCross`: loads wait for one another in a circle only if two of them were
  started apart, neither under the other, and that either for two requests or below a
  loader that asks for several resources at once (`AtOnce`). It is what the check of
  `CyclicLoad` achieves, and how far it goes.
- `DependentsUpdateToo`: when the updates that a message led to may begin, everything in use
  that was made with the help of a resource it reports, directly or not, has one, whatever
  loads, updates and users did since the message came. It speaks of what was recorded by then and
  of reported resources that are still listed, or have dependencies of their own. An id that the
  message names in vain keeps its keys from the update (section 6).
- `FreshAtRest`: the end-to-end promise of hot reloading, over moving sources, for
  resources that the code has not lost sight of (`known`). A resource is known when it
  was made of what the metadata of its id then say, and what it was made of is still the first
  to be found at the moment its watches are set; until another task writes the metadata of its
  id, or other watches. It becomes known again by its next update, so the exceptions are what
  persists at rest: the findings of section 6.
- `TextsSound`: a layout edited step by step is the layout made of its text anew
  (lines, offsets, the cursor's place), except after a panic.
- `ShownMeansLocked`: the console is visible, holds its guard, is in the lock
  list and on top of it, all or none, between two of its events.
- `OwnSeatPlayed`: one alone takes the turn, the player whose turn it is. While a move
  that has passed its checks waits for the lock, or a bot searches a copy of the board,
  no step changes that, unless it replaces a bot that has begun to take its turn.
- `ViewsCatchUp`: a view shows the board once nothing is on its way to its client and
  nothing is kept for it, whatever came while the view was being made.
- `NothingUnhandled`: no message comes to a dispatch that has neither a handler, nor a
  reply handler, nor an intercept for it.
- `CatchesUp`: at the end swapchain, attachments and pipeline have the surface's
  extent and the last value and font are drawn, unless the thread panicked or is in
  the lock cycle of section 6.

### Bounds, and why they are enough

- *Two workers* are the least with one asleep beside one awake, and with two in each
  critical section; two items fill two sources, or one source twice. The safety
  theorems of section 7 hold for any numbers.
- *Three tasks on two workers*: one queued, one running, one idle at the drop. In
  `scheduling`, three tasks make a heap whose order of equal keys shows, two attempts
  a task that is put back.
- *Two sources and two changes* let a load or update be replaced, and its
  replacement again; *three tasks* are the two cancelled and the current one.
  *Three loaders* make circles of two and three, and one beside a chain.
- The five plans of `MCResourceUpdates`, of which each behaviour of `resources` follows one,
  say what meets what: *changes*, an insertion before, a removal and changes of files, between
  the steps of one task; *overlaps*, two resources of one id that are loaded and updated
  at the same time, so that they write each other's metadata and watches; *expiries*,
  resources that are let go of and asked for again meanwhile; *chain* and *reloads*, direct and
  indirect dependents, of which the first or the last may be let go of. Two changes let a report pass
  another, or a file come back. Sources change at any time; but no nested
  source stands behind another or has nested ones (section 6 says what goes wrong then).
- *Three keys* in `console` show, edit and submit; the first comes from the keys that
  open the console or the field. Widths 1 and 2 in boxes 2 to 4 wide wrap at and
  inside a line.
- *Queues of one* in `net` are full at once, and refuse what comes when other clients have
  filled them; messages wait one tick each.
- *One or two images* change the number of frames both ways at a recreation.
- *A board of 3 by 2* has captures in rows and columns, passes and ends within
  few turns; the code's captures do not run along diagonals either.
- `MaxTick` lets a tick take longer than a whole period; `MaxLate` lets a sleep end
  after its slot.

`CHECK_DEADLOCK FALSE` is set where the program may stop: a dropped pool, executor
or manager, two closed stacks, a finished game, a renderer that is stuck, resources at rest
with no change left. Elsewhere an
explicit step of rest says what may be left.

### Fairness

Threads of the operating system run: weak fairness for each thread that has begun an
operation (`WorkerStep`, `LoopThread`, `ThreadStep`, `HookThread`, `WindowThread`,
`ClientTick`, `ServerTick`, `RenderStep`, ...). Users, files, keys, resizes, losses and
cancellations are never obliged to happen, with these exceptions:

- *Executor*: strong fairness for taking a queued runnable, since others may be taken
  before it; the queue's order justifies it as long as higher priorities run dry.
- *Engine*: a stop is asked for sooner or later, and the engine's users let go of it.
- *WinitDriver*: the operating system resumes an application once after its start.
- *Renderer*: strong fairness for the stale flag to be set between two frames, for an image to be
  acquired, and for a flush to succeed: handlers do not cancel, and the device does not
  refuse, every frame for ever.
- *ReversiGame*: written without ENABLED (`[]<>~Working(t)`, `[]<>~Called(t)`), because
  TLC would evaluate the bot's search twice; what a connection carries arrives.
- *Networking*: an application goes on with what it has begun in a context.

## 5. How the properties divide

State invariants relate two structures that the code keeps in step by hand (wakers and
sleepers, entry and task, guard and lock list, view and board). Action properties say
what a step may not do (write a buffer that is read, take a lower task, move for
another seat, leave a dependent). Liveness is stated where the code promises an end:
work that was pushed, tasks that were scheduled, calls, stops, replies, closes, lines,
frames, turns.

## 6. What the modelling found

`PROJECT.json` has each with its line and the words of the documentation it is about.
The models follow the code in all of these; where a property of section 4 would fail
only because of one, it names it as its exception.

*Pool and executors.* `insert_source` keeps `sleepers` while it waits to write
`work_sources`, against the order its comment claims, so threads can wait in a circle:
with a worker that wakes the pool from inside a registration, or with one that scans an
executor whose producer is waking the pool. `pool_live` reaches both; `CallsReturn` and
`PushedWorkRuns` except `LockCircle`, which describes just these states, and find no
other way for a call not to return. Only the worker that
finds `sleepers` empty hands out a waker, after releasing it: a second one may park
before any source can wake it. `drop` of an executor wakes its tasks under the slab's
mutex, which the cleanup of an idle task's future locks again on the same thread; and
a wake begun before it lets go of its future after it. The FIFO executor's heap
compares attempts only, so of four new tasks the third runs second. The expiry of any
source restarts the ring of every bucket for every thread, so that the later sources of a
bucket may be passed over again and again, against the "fair chance" of the docs.

*Cache.* `ResourceLoadFuture::poll` leaves no waker, so a future that another user has
overtaken (took the value, dropped it, loaded again) waits for ever. Three orders leave
old data behind: a change, or a source that comes or goes, between a load's read and its
watch; a cancelled load that
writes metadata and watches after the update that replaced it; an update that is
itself cancelled and forgets the one it waited for. An update whose resource was let go of, or
that replaced a load, and that somebody awaits at its end, becomes the resource: no dependencies
are recorded and no watches set for it. `resources` reaches all of these. The same gap is before a default's
watch; a cancelled load or update that sets its watches late, or has set them, takes a
default's watches away; a default joins another's failing load with its error, and the first of two
users' defaults serves both. Circles of loads that cross two requests, or that one
loader asks for at once, never end; `CyclicLoad` errors are cached and given to requests
in no circle. An update yields with the group lock held.

*Updates.* Watches behind a nested source are set with the sub-index of another source
(`Sources::watch_n`): with a list of sources behind the dynamic one, TLC violates
`FreshAtRest` in three steps. A third level of nesting reports wrong indexes. Data that is removed and comes back,
the same, is skipped for ever when no other source has it. Dependents are
updated beside, not after, what they depend on, and one that is still loading is missed.
`clear_dependencies` takes a key out of the key map although others depend on it
(`DependentsUpdateToo` speaks of listed keys). Loads at different times can close a
cycle in the graph, which the recursive iterator never leaves. Ids skipped in a message
hide their keys from it. Metadata and watches belong to an id, and lag behind: an update
that reads other data than its report spoke of does not write their hash, as its index is
not lower, so a change back is taken for known; it sets the watches as for the index it was
started with, and may leave what it read from unwatched; and a load of another
resource of the id writes metadata that the first is not made of, so that its report is
refused. `FreshAtRest` excepts these, the change between read and watch, and the update
that becomes the resource (`known`); without that, TLC finds them.

*Network.* `MessageReplyFuture::poll` stores its waker after it has looked
(`RepliesArrive` is for replies awaited by `wait`). The last reference to a
`ConnectBuffer` may be dropped by the dispatcher under the lock its drop needs; newer
messages may overtake buffered ones. The server's thread panics for a
connection it does not track. `close_connection` has its connection closed and then panics its
caller, whose reply context the driver has dropped (`kicker`). A request that finds the queue
full is refused, which only the log says: who asked waits for ever (`RepliesArrive` excepts it,
and `net` reaches it). A close waits
with a lock that handlers that send need (`CloseReturns` excepts both). A `connect`
that fails in the driver leaves its connection announced. A message for an expired
handler is lost silently.

*Engine and windows.* A primary window that closes before the first phase has ended
does not stop the engine (`StopsWithPrimary` speaks of later). Suspended is never
reached, because Suspending never is; a stop during that phase panics.
`request_close` does not panic as documented, and a bus fires types it was not declared for.

*Console and text.* Moving the cursor up or down at the end of a line panics. A line with
an open quote kills the worker that splits it. A guard that outlives its delegate
panics, and one of two guards unlocks both.

*Rendering.* A write of a uniform and a recreation of its frames lock value and frames
in opposite orders. Frames made before their set is registered may be too few. An
extent is read twice and may differ. The first use of a descriptor set draws an old
value once. The second, by a handler that asks twice in a frame, as the example's does, or
after a flush that failed, writes the buffer, which commands of the swapchain before may
still read: nobody waits for those, unless the library does when it drops what they use. The
write then panics; `BuffersAtRest` excepts buffers that such commands read (`orphans`) until a
command with the new set is submitted. An iterator of offsets panics where it should be
empty. A font sheet attached during an update keeps the old image, and new sizes may meet the
old image. The builder of render passes makes dependencies on later subpasses and on itself, and
preserves only earlier attachments.

*Reversi.* Replacing a bot at work waits for it under the lock it waits for; the
replaced bot still plays, in the turn of whoever has its seat; a client's move is
checked and made under two locks.

## 7. What is proved

Everything below is proved for every value of the constants that the named assumptions
admit. An assumption on constants says only what they are (which are sets of threads,
that a sentinel is none of them), never how many. Each proof has the same form: an
invariant `I` with `Init => I` and `I /\ [Next]_vars => I'`, one lemma for each group of
actions, and the property from `I`. A refinement is proved step by step: under `I`, each
step of the component is a step of the abstract specification or leaves its variables alone.

| Module | Theorem | States | Assumes |
|---|---|---|---|
| `WorkerPoolProofs` | `WakeupsAreNotLost` | `NoLostWakeup` | `PoolAssumption` |
| | `DropWakesEverybody` | `DropReachesSleepers` | |
| | `PoolImplementsDispatch` | `ImplementsDispatch` | |
| | `ScansFromTheTop` | `HigherBucketFirst` | |
| `ExecutorProofs` | `EmptyIsDone` | `EmptyMeansDone` | `ExecutorAssumption` |
| | `NoWorkAfterDrop` | `NothingRunsAfterDrop` | |
| | `HighestIsTaken` | `HighestFirst` | and `RingAssumption`, `SchedulingAssumption` |
| | `ThreadsGoRound` | `RoundRobin` | |
| `ResourceManagerProofs` | `OneTaskPerEntry` | `EntryHasItsTask` | `CacheAssumption` |
| | `AllHoldOneObject` | `OneValue` | |
| | `NoFutureSleepsOn` | `RememberedAreWoken` | |
| | `FallbacksKeepTheCache` | the last three with fallbacks and defaults | and `FallbacksAssumption` |
| | `StandInsAreWatched` | `DefaultsGiveWay` | |
| `ResourceGraphProofs` | `DirectionsAgree`, `KeyMapIsSound` | `TwoWays`, `KeyMapSound`, `DependingKeysListed` | `GraphAssumption` |
| | `UpdatesKeepGraph` | the three, of the graph of a running manager | and `ResourcesAssumption` |
| | `DependentsAreUpdated` | `DependentsUpdateToo` | |
| | `CirclesOnlyAcross` | `CirclesCross` | `TreesAssumption` |
| `EngineProofs` | `DriverImplementsLifecycle` | `ImplementsLifecycle` | `EngineAssumption`, `EventBusAssumption`, `TickAssumption` |
| | `EventsFollow` | `EventsChain` | |
| | `TicksStartInTime` | `TicksInTime` | |
| `NetworkingProofs` | `ConnectionsOpenAndEndOnce` | `ConnectionsEndOnce` | `NetworkingAssumption` |
| | `MessagesFindHandlers` | `NothingUnhandled` | |
| `RendererProofs` | `BuffersWrittenAtRest` | `BuffersAtRest` | `CountsAssumption` |
| | `SamplerFollowsFont` | `SubResourcesFollow` | |
| `WindowProofs` | `DesktopDrivesApplication` | `DesktopImplementsLifecycle` | `WinitDriverAssumption` |
| | `CursorShownAsAsked` | `CursorAsAsked` | |
| | `ShownIffLocked` | `ShownMeansLocked` | `ConsoleAssumption` |
| | `ViewsShowTheBoard` | `ViewsCatchUp` | `GameAssumption`, `SizeAssumption` |
| | `NobodyElseTakesTheTurn` | `OwnSeatPlayed` | |
| | `TurnsTakePieces` | `TurnsCapture` | |

Pool, executor, graph, cache and updates also have a theorem of type correctness; pool,
executor and cache one of the inductive invariant itself. Of the 29 state invariants
and action properties that runs check without fairness, 27 are theorems.

### The pool

`InductiveInvariant` is the conjunction of `TypeOK` and

- `FlagInv`: a source's waker state word agrees with who registers and who takes;
- `ParkInv`: a parked worker is a sleeper or has a token;
- `Covered`: if there are sleepers, each source has a waker or is about to get one;
- `Noticed`: for each source with work, some worker will still scan it, or a
  producer is on its way to the sleepers;
- `DropInv`: after the drain of the drop, nobody in the loop is a sleeper.

`NoLostWakeup` alone is not inductive: that somebody is awake says nothing of
whether they will look at the source again. `Noticed` says it, and keeping it
takes `Covered` when a producer finds no waker and `FlagInv` when its take meets
a registration.

The refinement needs `Placed`: an item is in the queue of its source, with one worker, or
done with, and never in two of these places; without it a step that takes an item could
take one that has run. `ScansFromTheTop` is about a step and a moment long before it, the
beginning of the scan: `ScanInv` says that of what was queued then, whatever is still
queued is in a source the worker has yet to look at, because it leaves aside only
sources it finds empty, and `DroppedAreEmpty` that sources dropped on the way keep nothing.

### The executors

The inductive invariant adds that

- `OneHand`: a runnable is with one worker;
- `Tracked`: a worker that has a runnable is counted in `active_tasks`;
- `DrainedWait`: what the drop moved out of the queue stays queued until it is
  dropped, and nothing is moved out before the drop;
- `Listed`: while the executor lives, every future has its waker in the slab.

`EmptyMeansDone` follows from `Listed`. `NothingRunsAfterDrop` is kept because
the drop waits until no worker is tracked, and `Tracked` says that none then has
a runnable; `OneHand` and `DrainedWait` keep the others from being handed out twice.

*Queues.* `HighestFirst` looks at what is left in a queue when its highest element is taken,
so it needs every heap in order (`HeapOrdered`) before. A push or pop leaves that
order broken at one place only, and `Rising` and `Sinking` say where: they are kept by each
`Rise` and `Sink`, and a task that can go no further leaves a heap. Of the tasks it is used only
that `Higher` orders them with ties. `TasksInv` says why the order stays right under the
tasks in it: keys change only of tasks in no queue (`Members` have been scheduled, so a
spawn is not of one of them), except in dynamic queues, which keep no order. There
`SearchInv` says that what a search has read is a priority the item had since it began,
and that nobody else touches the queue meanwhile.

*Ring.* `RoundRobin` speaks of what a thread has visited, whose shape is `RingInv`: an
interval of the ring that ends where the thread is. An insertion and `clear_expired` begin
new rounds.

### The resource manager

*Graph.* Lemmas on `ClearDependencies` and `Link`, from which every action is made, keep
the two maps each other's inverse and the key map sound (`WellFormed`). No run states these
invariants: the theorems do for all instances, for `DependencyGraph` with its operations in any
order, and for the graph that the loads and updates of `ResourceUpdates` write (`UpdatesKeepGraph`).

*Updates.* `DependentsAreUpdated` is about the last step of a message, and about what the
graph said before its first: in between the thread asks the graph and starts updates, and
loads and updates record other dependencies, end, and start again. `JobInv` says how far it
has come: of a reported key, everything made with its help has an update under way that
is held, or is not in use, or is yet to be taken from `job.dependent`; of the id whose
keys and dependents have just been read, these are among what was read; and a key that the
graph has stopped listing since has only dependents that recorded anew. That this is kept
takes that a set of dependents that shrinks cannot lengthen a chain (`HelpedShrinks`: what
`RecursiveDependents` finds with fewer dependents is found with more); that what was
held stays held until the last step; and that what has an update has no result to record
(`StartAllBegins`). `UpdatesTypeOK` is the longer part of the proof: every report in the channel
and all metadata have a proper index, through all operations of the tree of watchers, and
data is found for every id because the constant source has it.
The property once said that all dependents are updated; it did not survive the proof,
which left over those that the same message names and skips (section 6).

*Trees of loads.* `TreesInv` is `AsksBelow`: no load is under itself or waits for a key
it is under; and `KnowsParents`: a load that was started for another is under all that the
other is under, as long as either goes on, because the other still waits for it or has
failed, which is remembered. Given a circle in which of any two loads one was started under
the other, the load with the most parents would be under one that it waits for
(`CirclesAcross`). That two loads of one tree are not started apart where nobody asks for
several at once is `OnOnePath`: each loader above a running load awaits that one alone
(`AwaitsChild`), and the request's own load is above them all (`Rooted`).
`WaitsFor` is a least closed set, so it needs no recursion.

*Cache.* The inductive invariant adds to `EntryHasItsTask` that

- `EntryKnows`: whoever holds an object, a user or an update, holds the one of
  the entry, and only a loaded, cached or updating entry has one;
- `WritersHold`: an update that has begun to write has an object to write to.

`OneValue` is not inductive: without `EntryKnows` the end of an update could put
back an object other than the one a user took in the meantime. And `EntryKnows`
is kept because the update that ends is the entry's own (`EntryHasItsTask`).
`NoFutureSleepsOn` rests on the same bond: only the entry's own task settles it, and it
has the wakers, those it took over from the task it replaced included.

*Futures.* The steps of `ResourceFutures` keep the cache's invariant, so its theorems
hold with fallbacks and defaults too. Of defaults, the invariant `GiveWay` says that

- `SourcesLackDefault`: what a default is made of is in no source, so that it is told
  from data (`FallbacksAssumption` says it of the first contents);
- `DefaultsLoad`, `LoadsWatch`: a load of a default has every source watch before it
  parses, and nobody else has a say in that while it is the entry's task;
- `StandInsWatched`: an object that holds a default is watched by all sources, or an update
  that has changed the watches is about to write to it.

The last disjunct is what makes it inductive, and where `strayed` comes from: the prover
would not have it that such an update always gets to write, and TLC showed the cancelled
one, which leaves the default with the watches of data it never wrote (section 6).

### Engine and windows

`LifecycleInv` says for each place of the driver's thread which stages it can be in and
whether the hook has run. The one transition other threads make, from Running to
Stopping, is where it is not a function. For `EventsChain`, `EventInv` relates the
bus to the stage: who fires holds the state lock and fires a change that ends at the stage
(`FireInv`); subscribers are distinct and registered once (`RegisterInv`, `SubsInv`); and
`ToldInv`, the core: a handler's last event ends where the event it still awaits begins,
or at the stage if it awaits none. `TickInv` adds to `TicksInTime` that a loop that has
looked at `should_exit` since its last tick has not ticked late.

In the winit driver the loop learns from messages what its other thread has done. `HookInv`
ties the background handle to that thread; `EventsInv` says which messages are in the
queue, at most one of each kind: the end of a phase exactly while its thread is done, the
stop exactly while the stage is Stopping and nobody terminates; `StageInv`, which
phases go with which stage. They hold on the platforms that do not suspend
(`DesktopInv`); on the others they do not, which is the finding of section 6.

### Network, rendering

`ClientInv`: connections are numbered in order; what is known, linked or ended has a number
already given, and the one being made has the last and no link. So none is announced a
second time, and a driver's late failure cannot end a later one. `ServerInv`: what the
server has announced or ended is no longer connecting, so it is not accepted again.

`NothingUnhandled` is about the moments at which a message finds no handler yet, and so
about where messages can be. `HandledInv` follows the one request under way, or its
answer, through the nine places where it can be: the commands of the client, its tick, the
wire, the server's hand, its queue, its commands, its tick, the wire back, the client's
tick. `UnderWay` counts them, one per place, and is 0 or 1 (`AskInv`), and if it is 1
the reply handler is registered, no answer has been given, and the buffer lets it
through. `BufferInv` says that as long as there is no handler the buffer is in the way
of everything else. The count is what makes it inductive: that two
answers could come would let the second one meet a reply handler already used. Lemmas on
`Picked` say that what is picked from a sequence comes from positions of its own,
by induction over the positions on a function that is given, which the provers can do.

`BuffersAtRest` needs the order of what is submitted. A frame's commands read the frame's own
buffer (`OwnBuffer`), and what is built has been waited for (`FrameAwaited`), so within one
swapchain a write meets no reader. What is left are buffers that outlive a recreation, and
`SetsCovered` is about those: where a frame has a set and commands of an older swapchain
still read its buffer, either no command with the set has been submitted, which is the exception,
or one of that very frame is in flight, so that waiting for the frame waits for the older ones as
well, or every set is going to be made anew (`Doomed`). `FollowInv` says of each step of an update which part of
`SubResourcesFollow` it has suspended.

### Console and the game

`LockInv` says how visibility, guard, lock list and its top differ while the console's
thread is between showing and locking, and that neither the field nor a dropped
delegate's entry gets between them.

*Views.* `ViewInv` says of each client what is on its way to it: nothing is newer than the
board, what has the board's version is the board, and the view is the board or the board
is among what is still to come or kept; while it connects, the same of the reply. So when
nothing is to come the view is the board. That the server sends the board under the lock
under which it changes it is what keeps it.

*Turns.* `SeatInv` says that a connection that has a seat sits on it, threads ask bots only,
and the board has two players of whom one is in turn. `OwnSeatPlayed` is an action property
with its own state in it: the proof shows for each action that what is busy, and for
whom, goes over from one place to another (a thread that asks, a request, a bot that
searches, a thread that plays) and is never in two.

*Captures.* For a board of any size, lemmas on lines and flips say that the tiles a move
flips are a finite set of tiles of the other player, not the one it is placed on, so that the counts
of both change by their number; `Pieced` is the type of the board. The scores and the winner
follow. `RulesInv` adds it to `SeatInv`, because only valid moves are played.

### Only model-checked

- Liveness and fairness, and what needs ENABLED: `PushedWorkRuns`, `CallsReturn`,
  `ScheduledTaskRuns`, `StopCompletes`, `StopsWithPrimary`, `SubmittedRuns`,
  `CloseReturns`, `RepliesArrive`, `CatchesUp`, `BotsMove`. The prover does not reach them.
- `FreshAtRest`: it relates the reports in the channel, in their order, and what each task has
  read so far, to the files they were about, over sources that move meanwhile; we have no
  inductive invariant for it.
- `TextsSound`: folds over texts, which is induction over data.

What the search of the bots computes (`PlayScore`) and what `Flipped` adds up in a
direction are used in proofs only as far as their results have the right type.

## 8. What is not modelled

- *Manager executors*: the three executors of a manager with their priorities are
  those of `Scheduling`; that a load is spawned on one of them is not part of the cache.
- *The group lock*: an update holds it across a yield (section 6). The cache's steps
  under it are whole, so threads that block on it, and pools too small for them, are
  not seen.
- *Errors of loaders during updates*, virtual loaders in `ResourceCache` (they are in
  `ResourceUpdates`), clearing the cache.
- *`source/list.rs`*, and nested sources behind others: see section 6.
- *Resource ids*: a name table that its own crate synchronises. Under contention an
  unused entry may stay in it.
- *The builder of render passes*: it computes Vulkan structures once; section 6 says
  where. Models, shaders, rasterising and packing of glyphs, drawing.
- *Transports*: GameNetworkingSockets, winit's event loop, Vulkan, async_task and the
  file system's notification are external: modelled where the code meets them, as it uses them.
- *Encodings*: headers and bodies of messages, shell quoting beyond words and quotes.
- *Derive macros* and the *Windows example* have no behaviour of their own; of the
  *Reversi example*, starting and stopping a server from the console and drawing.

Left to do: an inductive invariant for `FreshAtRest`; a run of nested lists of sources
once their watches are repaired.
