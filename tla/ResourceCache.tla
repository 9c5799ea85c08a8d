--------------------------- MODULE ResourceCache ---------------------------
(***************************************************************************)
(* The cache of the resource manager (resource/manager/load.rs), for one   *)
(* resource id and one loader: how a value is loaded, shared, dropped,     *)
(* and updated in place when a source reports a change.                    *)
(*                                                                         *)
(* The parties are the users, who ask for the resource and hold or drop    *)
(* it; the sources, which change and report changes of ids they watch; the *)
(* update thread, which receives the reports (update.rs); and the tasks    *)
(* that load and update, each of which may be cancelled wherever it is.    *)
(* What is done under the lock of the id's CacheGroup is one step.         *)
(*                                                                         *)
(* The cache holds a Resource weakly, so whether it is there depends on    *)
(* who holds it: see Alive.                                                *)
(***************************************************************************)
EXTENDS Naturals, Sequences, FiniteSets

CONSTANTS
  NumSources,  \* sources, 1 being asked first
  Contents,    \* what a source can have for the id; stands for its hash, too
  Users,       \* users of the resource, each with one future or one handle
  Objects,     \* identities of Resources; only live ones are told apart
  Tasks,       \* bound: tasks that exist at a time
  MaxChanges,  \* bound: changes of the sources
  MayRemove,   \* do sources ever stop having the resource?
  Known,       \* has the id been loaded before?  Then it is being watched.
  First,       \* what the sources have at the start
  None         \* no content, no object, no task

Sources == 1..NumSources

ASSUME CacheAssumption ==
  /\ NumSources \in Nat \ {0} /\ MaxChanges \in Nat
  /\ MayRemove \in BOOLEAN /\ Known \in BOOLEAN
  /\ None \notin Contents \cup Objects \cup Tasks
  /\ First \in [Sources -> Contents \cup {None}]
  /\ \E s \in Sources : First[s] # None
  /\ \E o, p \in Objects : o # p

VARIABLES
  content,  \* source -> what it has
  changes,  \* number of changes so far
  watched,  \* the sources that watch the id
  channel,  \* reports on their way to the update thread
  meta,     \* CacheGroup::metadata: the hash and index last loaded from
  entry,    \* the entry of the loader, see Entries
  value,    \* object -> what it wraps
  task,     \* task -> what it does, see Idle
  future,   \* user -> "idle", "woken", "waiting" or "holds"
  held      \* user -> the object it holds, or None

sourceVars == <<content, changes>>
vars == <<content, changes, watched, channel, meta, entry, value, task, future, held>>

\* The first source that has the resource, in the order of the indexes.
Has(s) == content[s] # None

Winner == CHOOSE s \in Sources : Has(s) /\ \A r \in Sources : Has(r) => s <= r

NoEntry == [kind |-> "none", obj |-> None, task |-> None, wakers |-> {}]

\* phase: where the task is; at: the source it looks at or found; src: the
\* index an update was started for; data: what it read; obj: the resource an
\* update holds; awaits: the cancelled task it waits for.
Free == [phase |-> "free", at |-> 1, src |-> 1, data |-> None, obj |-> None,
         awaits |-> None, cancelled |-> FALSE]

IsLoad(t) == task[t].phase \in {"loadFind", "loadMeta", "loadWatch", "loadParse", "done", "failed"}

\* The entry is an upgradable weak reference to o, or holds it.
Held(o) == (\E u \in Users : held[u] = o) \/ (\E t \in Tasks : task[t].obj = o)

Alive(o) == o # None /\ (Held(o) \/ (entry.kind = "loaded" /\ entry.obj = o))

NewObject == CHOOSE o \in Objects : ~Alive(o)

IsFree(t) == task[t].phase = "free"

NewTask == CHOOSE t \in Tasks : IsFree(t)

\* Wake the futures of W: those that sleep will be polled again.
Woken(W) == [u \in Users |-> IF u \in W /\ future[u] = "waiting" THEN "woken" ELSE future[u]]

Set(t, r) == task' = [task EXCEPT ![t] = r]

\* The task's future is gone; whoever waited for that can go on.
Without(t) ==
  [x \in Tasks |-> IF x = t THEN Free
                   ELSE IF task[x].awaits = t THEN [task[x] EXCEPT !.awaits = None]
                   ELSE task[x]]

Entered(kind, o) == [kind |-> kind, obj |-> o, task |-> None, wakers |-> {}]

-----------------------------------------------------------------------------
(* The sources. *)

\* A source has other data, or none any more, and reports it if it watches
\* the id (filter_watched, then notify_update, under the lock of the source).
Change(s, c) ==
  /\ changes < MaxChanges
  /\ content[s] # c /\ (c = None => MayRemove)
  /\ content' = [content EXCEPT ![s] = c]
  /\ changes' = changes + 1
  /\ channel' = IF s \in watched THEN Append(channel, [src |-> s, hash |-> c]) ELSE channel
  /\ UNCHANGED <<watched, meta, entry, value, task, future, held>>

-----------------------------------------------------------------------------
(* The update thread: loop_receive and CacheGroup::start_update. *)

ValidForUpdate(msg) == meta.hash # msg.hash /\ msg.src <= meta.idx

Skipped(msg) ==
  IF msg.hash = None THEN \A s \in Sources : ~Has(s) ELSE ~ValidForUpdate(msg)

\* What the update loads from: the reporting source, or, if it has lost the
\* resource, the first one that has it (Sources::find_hash).
MetaAfter(msg) ==
  IF msg.hash = None THEN [hash |-> content[Winner], idx |-> Winner]
  ELSE [hash |-> msg.hash, idx |-> msg.src]

\* Mutant: the weak reference is lost, as it may be for a loading entry.
NothingToUpgrade == None

\* What an update finds to update: a resource that somebody else holds.
Upgradable == IF Held(entry.obj) THEN entry.obj ELSE None

\* Mutant: the task is replaced, and goes on.
LetGo(t) == IF task[t].phase \in {"done", "failed"} THEN Free ELSE task[t]

\* The task of the entry is cancelled.  A finished load goes with its handle.
Cancelled(t) ==
  IF task[t].phase \in {"done", "failed"} THEN Free ELSE [task[t] EXCEPT !.cancelled = TRUE]

Spawned(t, idx, prev) ==
  [Free EXCEPT !.phase = "await", !.src = idx, !.awaits = prev]

\* CacheEntryTyped::start_update: an entry with nothing to update is removed.
StartUpdate(idx) ==
  IF entry.kind = "none" \/ entry.kind = "error"
       \/ (entry.kind = "value" /\ ~Alive(entry.obj))
  THEN /\ entry' = NoEntry
       /\ UNCHANGED <<task, future>>
  ELSE LET t    == NewTask
           prev == entry.task
       IN /\ \E x \in Tasks : IsFree(x)
          /\ entry' = [kind |-> "updating", obj |-> Upgradable, task |-> t,
                       wakers |-> IF prev = None THEN {} ELSE entry.wakers]
          /\ task' = [x \in Tasks |->
                        IF x = t THEN Spawned(t, idx, IF entry.kind = "updating" THEN prev ELSE None)
                        ELSE IF x = prev THEN Cancelled(x) ELSE task[x]]
          /\ future' = IF prev = None THEN future ELSE Woken(entry.wakers)

Receive ==
  /\ channel # <<>>
  /\ channel' = Tail(channel)
  /\ LET msg == Head(channel) IN
       IF Skipped(msg) THEN UNCHANGED <<meta, entry, task, future>>
       ELSE meta' = MetaAfter(msg) /\ StartUpdate(MetaAfter(msg).idx)
  /\ UNCHANGED <<sourceVars, watched, value, held>>

-----------------------------------------------------------------------------
(* Loading: find_and_load_fn, run by a load task or by an update. *)

\* Mutant: nobody is told of the result.
CompleteSilently(t, phase) ==
  IF task[t].cancelled THEN task' = Without(t) /\ UNCHANGED future
  ELSE Set(t, [task[t] EXCEPT !.phase = phase]) /\ UNCHANGED future

\* The load task has its result: the futures of the entry are woken.  A
\* cancelled one is just gone.
Complete(t, phase) ==
  IF task[t].cancelled THEN task' = Without(t) /\ UNCHANGED future
  ELSE Set(t, [task[t] EXCEPT !.phase = phase]) /\ future' = Woken(entry.wakers)

\* Sources::find_data looks at one source after the other.
FindData(t) ==
  LET s == task[t].at
      load == task[t].phase = "loadFind"
  IN
  /\ task[t].phase \in {"loadFind", "find"}
  /\ IF Has(s)
     THEN /\ Set(t, [task[t] EXCEPT !.data = content[s],
                                    !.phase = IF load THEN "loadMeta" ELSE "meta"])
          /\ UNCHANGED future
     ELSE IF s < NumSources
     THEN Set(t, [task[t] EXCEPT !.at = s + 1]) /\ UNCHANGED future
     ELSE IF load THEN Complete(t, "failed")
     ELSE Set(t, [task[t] EXCEPT !.phase = "fail"]) /\ UNCHANGED future
  /\ UNCHANGED <<sourceVars, watched, channel, meta, entry, value, held>>

\* Cache::update_metadata: only ever towards the front.
UpdateMetadata(t) ==
  /\ task[t].phase \in {"loadMeta", "meta"}
  /\ meta' = IF task[t].at < meta.idx THEN [hash |-> task[t].data, idx |-> task[t].at] ELSE meta
  /\ Set(t, [task[t] EXCEPT !.phase = IF @ = "loadMeta" THEN "loadWatch" ELSE "commit"])
  /\ UNCHANGED <<sourceVars, watched, channel, entry, value, future, held>>

\* Sources::watch_n: the sources up to the index watch, the others do not.
WatchLoaded(t) ==
  /\ task[t].phase = "loadWatch"
  /\ watched' = 1..task[t].at
  /\ Set(t, [task[t] EXCEPT !.phase = "loadParse"])
  /\ UNCHANGED <<sourceVars, channel, meta, entry, value, future, held>>

\* loader.load() makes a value of the data, and a load is done.  (An update
\* goes on, touching nothing in between, to its first look at the entry.)
Parse(t) ==
  /\ task[t].phase = "loadParse"
  /\ Complete(t, "done")
  /\ UNCHANGED <<sourceVars, watched, channel, meta, entry, value, held>>

-----------------------------------------------------------------------------
(* Updates: UpdateWork::execute. *)

\* The update waits until the cancelled one before it is gone.
AwaitPrevious(t) ==
  /\ task[t].phase = "await" /\ task[t].awaits = None
  /\ Set(t, [task[t] EXCEPT !.phase = "find"])
  /\ UNCHANGED <<sourceVars, watched, channel, meta, entry, value, future, held>>

\* The update ends, its handle with the entry it replaces.
End(t, e) ==
  /\ entry' = e
  /\ task' = Without(t)
  /\ future' = Woken(entry.wakers)

\* The load failed: the old value, if there is one, stays.
Fail(t) ==
  /\ task[t].phase = "fail" /\ ~task[t].cancelled
  /\ End(t, Entered("value", entry.obj))
  /\ UNCHANGED <<sourceVars, watched, channel, meta, value, held>>

\* A resource that has expired is cached anew for the futures that wait for
\* it, if there are any.
HandleExpired(t) ==
  IF entry.wakers # {}
  THEN /\ value' = [value EXCEPT ![NewObject] = task[t].data]
       /\ End(t, Entered("loaded", NewObject))
  ELSE End(t, NoEntry) /\ UNCHANGED value

\* The first look at the entry, after a yield that ends a cancelled task.
Commit(t) ==
  /\ task[t].phase = "commit" /\ ~task[t].cancelled
  /\ IF Alive(entry.obj)
     THEN /\ Set(t, [task[t] EXCEPT !.phase = "watch", !.obj = entry.obj])
          /\ UNCHANGED <<entry, value, future>>
     ELSE HandleExpired(t)
  /\ UNCHANGED <<sourceVars, watched, channel, meta, held>>

WatchUpdated(t) ==
  /\ task[t].phase = "watch"
  /\ watched' = 1..task[t].src
  /\ Set(t, [task[t] EXCEPT !.phase = "write"])
  /\ UNCHANGED <<sourceVars, channel, meta, entry, value, future, held>>

\* loader.update(): by default ResourceMut::replace.
Write(t) ==
  /\ task[t].phase = "write"
  /\ value' = [value EXCEPT ![task[t].obj] = task[t].data]
  /\ Set(t, [task[t] EXCEPT !.phase = "finish"])
  /\ UNCHANGED <<sourceVars, watched, channel, meta, entry, future, held>>

\* The update is visible; a strong reference is kept for waiting futures.
Finish(t) ==
  /\ task[t].phase = "finish" /\ ~task[t].cancelled
  /\ End(t, Entered(IF entry.wakers # {} THEN "loaded" ELSE "value", task[t].obj))
  /\ UNCHANGED <<sourceVars, watched, channel, meta, value, held>>

\* A cancelled task is dropped where it awaits something.  One that a worker
\* is just polling goes on until then.
DropTask(t) ==
  /\ task[t].cancelled
  /\ task[t].phase \notin {"loadWatch", "watch"}
  /\ task' = Without(t)
  /\ UNCHANGED <<sourceVars, watched, channel, meta, entry, value, future, held>>

TaskStep(t) ==
  \/ FindData(t) \/ UpdateMetadata(t) \/ WatchLoaded(t) \/ Parse(t)
  \/ AwaitPrevious(t) \/ Fail(t) \/ Commit(t) \/ WatchUpdated(t) \/ Write(t) \/ Finish(t)
  \/ DropTask(t)

-----------------------------------------------------------------------------
(* The users: Cache::get_or_load and ResourceLoadFuture::poll. *)

Hold(u, o) ==
  /\ held' = [held EXCEPT ![u] = o]
  /\ future' = [future EXCEPT ![u] = "holds"]

\* The entry has expired: start_load_task, with the future's waker.
StartLoad(u, st) ==
  /\ entry.kind = "none" \/ (entry.kind = "value" /\ ~Alive(entry.obj))
  /\ \E x \in Tasks : IsFree(x)
  /\ entry' = [kind |-> "loading", obj |-> None, task |-> NewTask, wakers |-> {u}]
  /\ Set(NewTask, [Free EXCEPT !.phase = "loadFind"])
  /\ future' = [future EXCEPT ![u] = st]
  /\ UNCHANGED <<value, held>>

\* CacheEntryTyped::poll and try_get, when they yield the resource.
TakeResource(u) ==
  \/ /\ entry.kind \in {"value", "updating", "loaded"} /\ Alive(entry.obj)
     /\ Hold(u, entry.obj)
     /\ entry' = IF entry.kind = "loaded" THEN Entered("value", entry.obj) ELSE entry
     /\ UNCHANGED <<value, task>>
  \/ /\ entry.kind = "loading" /\ task[entry.task].phase = "done"
     /\ Hold(u, NewObject)
     /\ value' = [value EXCEPT ![NewObject] = task[entry.task].data]
     /\ entry' = Entered("value", NewObject)
     /\ task' = Without(entry.task)

\* ... and when they yield an error, which the cache keeps.
TakeError(u) ==
  /\ \/ entry.kind = "error" /\ UNCHANGED <<entry, task>>
     \/ /\ entry.kind = "loading" /\ task[entry.task].phase = "failed"
        /\ entry' = Entered("error", None)
        /\ task' = Without(entry.task)
  /\ future' = [future EXCEPT ![u] = "idle"]
  /\ UNCHANGED <<value, held>>

\* The entry's task is not ready, and there is no old value to go on with.
NotReady ==
  \/ entry.kind = "loading" /\ task[entry.task].phase \notin {"done", "failed"}
  \/ entry.kind = "updating" /\ ~Alive(entry.obj)

\* get_or_load: a future that has to wait leaves its waker with the entry.
\* It is polled for the first time later.
Get(u) ==
  /\ future[u] = "idle"
  /\ \/ TakeResource(u) \/ TakeError(u) \/ StartLoad(u, "woken")
     \/ /\ NotReady
        /\ entry' = [entry EXCEPT !.wakers = @ \cup {u}]
        /\ future' = [future EXCEPT ![u] = "woken"]
        /\ UNCHANGED <<value, task, held>>
  /\ UNCHANGED <<sourceVars, watched, channel, meta>>

\* poll: looks at the entry again, without leaving its waker once more.
Poll(u) ==
  /\ future[u] = "woken"
  /\ \/ TakeResource(u) \/ TakeError(u) \/ StartLoad(u, "waiting")
     \/ /\ NotReady
        /\ future' = [future EXCEPT ![u] = "waiting"]
        /\ UNCHANGED <<entry, value, task, held>>
  /\ UNCHANGED <<sourceVars, watched, channel, meta>>

\* The future is dropped, and its waker with it.
DropFuture(u) ==
  /\ future[u] \in {"woken", "waiting"}
  /\ future' = [future EXCEPT ![u] = "idle"]
  /\ entry' = [entry EXCEPT !.wakers = @ \ {u}]
  /\ UNCHANGED <<sourceVars, watched, channel, meta, value, task, held>>

\* The user drops its strong reference.
Release(u) ==
  /\ future[u] = "holds"
  /\ future' = [future EXCEPT ![u] = "idle"]
  /\ held' = [held EXCEPT ![u] = None]
  /\ UNCHANGED <<sourceVars, watched, channel, meta, entry, value, task>>

-----------------------------------------------------------------------------

\* A known id was loaded from the first source that has it and has expired.
Init ==
  /\ content = First
  /\ changes = 0
  /\ watched = IF Known THEN 1..Winner ELSE {}
  /\ channel = <<>>
  /\ meta = IF Known THEN [hash |-> First[Winner], idx |-> Winner]
            ELSE [hash |-> None, idx |-> NumSources + 1]
  /\ entry = NoEntry
  /\ value = [o \in Objects |-> None]
  /\ task = [t \in Tasks |-> Free]
  /\ future = [u \in Users |-> "idle"]
  /\ held = [u \in Users |-> None]

Next ==
  \/ \E s \in Sources, c \in Contents \cup {None} : Change(s, c)
  \/ Receive
  \/ \E t \in Tasks : TaskStep(t)
  \/ \E u \in Users : Get(u) \/ Poll(u) \/ DropFuture(u) \/ Release(u)

\* The update thread and the executor keep going, and a future that was woken
\* is polled.  Nobody has to ask for the resource or drop it.
Fairness ==
  /\ WF_vars(Receive)
  /\ \A t \in Tasks : WF_vars(TaskStep(t))
  /\ \A u \in Users : WF_vars(Poll(u))

Spec == Init /\ [][Next]_vars

FairSpec == Spec /\ Fairness

-----------------------------------------------------------------------------
(* Properties. *)

TaskPhases ==
  {"free", "loadFind", "loadMeta", "loadWatch", "loadParse", "done", "failed", "await",
   "find", "meta", "fail", "commit", "watch", "write", "finish"}

TypeOK ==
  /\ content \in [Sources -> Contents \cup {None}]
  /\ changes \in 0..MaxChanges
  /\ watched \subseteq Sources
  /\ channel \in Seq([src : Sources, hash : Contents \cup {None}])
  /\ meta \in [hash : Contents \cup {None}, idx : 1..(NumSources + 1)]
  /\ entry \in [kind : {"none", "loading", "loaded", "value", "error", "updating"},
                obj : Objects \cup {None}, task : Tasks \cup {None}, wakers : SUBSET Users]
  /\ value \in [Objects -> Contents \cup {None}]
  /\ task \in [Tasks -> [phase : TaskPhases, at : Sources, src : Sources,
                         data : Contents \cup {None}, obj : Objects \cup {None},
                         awaits : Tasks \cup {None}, cancelled : BOOLEAN]]
  /\ future \in [Users -> {"idle", "woken", "waiting", "holds"}]
  /\ held \in [Users -> Objects \cup {None}]

\* The entry and the one task that is not cancelled belong together: a load
\* to a loading entry, an update to an updating one.  The update's looks at
\* the entry rely on it (load.rs, UpdateWork::execute), and so does the
\* unreachable!() in CacheEntryTyped::poll.
EntryHasItsTask ==
  /\ \A t \in Tasks : (~IsFree(t) /\ ~task[t].cancelled) => entry.task = t
  /\ entry.kind = "loading" <=> (entry.task # None /\ IsLoad(entry.task))
  /\ entry.kind = "updating" <=> (entry.task # None /\ ~IsLoad(entry.task))
  /\ entry.task # None => ~IsFree(entry.task) /\ ~task[entry.task].cancelled

\* All who hold the resource hold the same object (manager/mod.rs, weak
\* caching: further requests yield the originally loaded Resource as long as
\* it has a strong reference).
OneValue == Cardinality({o \in Objects : Alive(o)}) <= 1

\* Nothing is under way.
Settled == channel = <<>> /\ \A t \in Tasks : IsFree(t) \/ task[t].phase \in {"done", "failed"}

\* When nothing is under way, the resource wraps what the first source has
\* (resource/mod.rs: if the underlying data changes, the ResourceManager will
\* update the data that a Resource wraps).
Fresh ==
  \A o \in Objects : (Settled /\ Alive(o) /\ \E s \in Sources : Has(s)) => value[o] = content[Winner]

\* A future whose waker is with the entry does not sleep when there is an
\* answer: MultiWaker wakes all of them, whichever task comes to give it, and
\* a cancelled task wakes them for the one that follows.
RememberedAreWoken ==
  \A u \in entry.wakers : future[u] = "waiting" => NotReady

\* A future that waits gets the resource or an error, or is dropped (future.rs:
\* a future that tries to resolve when the resource has been dropped triggers
\* a reload).
FuturesResolve == \A u \in Users : future[u] = "waiting" ~> future[u] # "waiting"
=============================================================================
