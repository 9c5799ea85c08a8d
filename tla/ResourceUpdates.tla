--------------------------- MODULE ResourceUpdates ---------------------------
(***************************************************************************)
(* How a change in a source reaches the loaded resources: the sources and  *)
(* their watchers (resource/source, resource/watcher.rs), the channel of   *)
(* the update thread (manager/update.rs), what the groups of the cache     *)
(* know of the sources (manager/load.rs), and the graph of dependencies.   *)
(*                                                                         *)
(* The manager asks a list of sources: a source that contains others,      *)
(* which come and go (source/dynamic.rs, which source/fs.rs wraps), and    *)
(* then one that never changes (source/constant.rs).  (A bound: with a     *)
(* nested source behind another, or three levels, watches and indexes go   *)
(* wrong, see README.)                                                     *)
(*                                                                         *)
(* Loads, updates and the update thread are asynchronous.  A step of one   *)
(* is what it does from an await to the next, or less where it lets go of  *)
(* a lock in between, so that sources, other tasks and the update thread   *)
(* move between any two of its steps.  Who awaits a load goes on awaiting  *)
(* it; requests that are dropped are the subject of ResourceCache.         *)
(***************************************************************************)
EXTENDS DependencyGraph, Integers, Sequences, FiniteSets

CONSTANTS
  Sources, Hashes, None, MaxIndex,  \* see Watchers
  Nested,     \* the source that contains others
  Constant,   \* the source that never changes, and has every id
  Provides,   \* the ids that a contained source may have data for
  Virtual,    \* keys whose loader reads no source
  TypeOf,     \* the type of the loader of a key
  Needs,      \* the sets of resources that a loader may ask for
  MaxChanges  \* bound: changes of files and of the list of sources

INSTANCE Watchers

Files == Sources \ {Nested, Constant}

Roots == <<Nested, Constant>>

ASSUME ResourcesAssumption ==
  /\ Nested \in Sources /\ Constant \in Sources \ {Nested}
  /\ Provides \in [Files -> SUBSET Ids]
  /\ Virtual \subseteq Keys
  /\ Needs \in [Keys -> SUBSET SUBSET Keys]
  /\ MaxIndex \in Nat /\ MaxChanges \in Nat
  /\ None \notin Hashes \cup Seq(Int) \cup [path : Seq(Int), end : Ends]

VARIABLES
  data,     \* the hash of what a source has for an id
  watch,    \* the watchers and the channel, see Watchers
  meta,     \* CacheGroup::metadata of an id
  entry,    \* of a key: "none", "live", "expired" if nobody holds the resource, or
            \* "awaited" if there is none yet, and somebody waits for it
  value,    \* the hash of the data that the resource was made of
  update,   \* the index an update under way was started with, or None
  step,     \* what the load or the update of a key does next, or "rest"
  found,    \* the data it has found, and where, or None
  late,     \* the watches that cancelled loads still are to set: an id, an index
  job,      \* the message that the update thread handles, or None
  known,    \* history: the keys made of the data their group remembers, and watched for it
  heard,    \* history of the job: the keys listed when it began, and those that
            \* have recorded dependencies since
  manager,  \* the manager: "started" or "dropped"
  changes

sourceVars == <<data, changes>>
taskVars == <<update, step, found, late>>
threadVars == <<job, heard, manager>>
resourceVars == <<sourceVars, watch, meta, entry, value, taskVars, threadVars, known, graph>>

Contained == watch.tree[Nested].children

-----------------------------------------------------------------------------
(* Asking the sources. *)

\* The places that lead from source w to the first one in it that has the id.
Found(w, id) ==
  LET having == {i \in DOMAIN Contained : data[Contained[i]][id] # None}
  IN CASE w = Nested /\ having # {} ->
            Wrap(<<>>, (CHOOSE i \in having : \A j \in having : i <= j) - 1)
       [] w # Nested /\ data[w][id] # None -> <<>>
       [] OTHER -> None

\* Sources::find_hash and find_data: the first source that has the id.
FindData(id) ==
  LET first  == CHOOSE p \in DOMAIN Roots :
                  Found(Roots[p], id) # None /\ \A q \in 1 .. p - 1 : Found(Roots[q], id) = None
      path   == Found(Roots[first], id)
      source == IF path = <<>> THEN Roots[first] ELSE Contained[path[1] + 1]
  IN [hash |-> data[source][id], idx |-> Index(Wrap(path, first - 1))]

\* Sources::watch_n: every source watches that may come to be found first.
WatchRoot(s, p, id, idx) ==
  IF p - 1 <= Idx(idx) THEN Watch(s, Roots[p], id, IF HasSub(idx) THEN Sub(idx) ELSE None)
  ELSE Unwatch(s, Roots[p], id)

WatchN(s, id, idx) == WatchRoot(WatchRoot(s, 1, id, idx), 2, id, idx)

-----------------------------------------------------------------------------
(* The sources change. *)

\* A file changes, appears or goes, and the source that reads it reports that
\* if it watches the id.
ChangeFile(f, id, h) ==
  /\ changes < MaxChanges
  /\ id \in Provides[f] /\ data[f][id] # h
  /\ data' = [data EXCEPT ![f][id] = h]
  /\ LET u == CASE h = None -> Removed
                [] h # None /\ data[f][id] = None -> Added(h)
                [] h # None /\ data[f][id] # None -> Modified(h)
     IN watch' = IF IsWatched(watch, f, id) THEN NotifyUpdate(watch, f, [x \in {id} |-> u]) ELSE watch
  /\ changes' = changes + 1
  /\ UNCHANGED <<meta, entry, value, taskVars, threadVars, known, graph>>

\* insert and push of ResourceSourceDynamicWriteGuard.
InsertSource(f, place) ==
  /\ changes < MaxChanges
  /\ f \in Files /\ \A i \in DOMAIN Contained : Contained[i] # f
  /\ place \in 0 .. Len(Contained)
  /\ watch' = InsertChild(watch, data, Nested, place, f)
  /\ changes' = changes + 1
  /\ UNCHANGED <<data, meta, entry, value, taskVars, threadVars, known, graph>>

RemoveSource(place) ==
  /\ changes < MaxChanges
  /\ place \in 0 .. Len(Contained) - 1
  /\ watch' = RemoveChild(watch, data, Nested, place)
  /\ changes' = changes + 1
  /\ UNCHANGED <<data, meta, entry, value, taskVars, threadVars, known, graph>>

-----------------------------------------------------------------------------
(* Loads and updates: a task for a key, which reads the data, notes what it *)
(* found, has its loader make a value of it, and records what that took.    *)

\* The dependencies of a load or an update of k: what its loader asked for,
\* and got, by loading it first if need be.
Asked(k, D) == D \in Needs[k] /\ \A d \in D : entry[d] = "live"

Goes(k, from, to) == step[k] = from /\ step' = [step EXCEPT ![k] = to]

\* A virtual loader reads no source.
FirstStep(k) == IF k \in Virtual THEN "parse" ELSE "find"

\* Cache::update_metadata: what data was found where is remembered if its
\* source comes before the one known of.
MetaFor(id, f) == IF Below(f.idx, meta[id].idx) THEN [meta EXCEPT ![id] = f] ELSE meta

\* History: the metadata of k's id are what k's task has found, where it is still
\* the first to be found.
Agrees(k) == meta[IdOf[k]] = found[k] /\ FindData(IdOf[k]) = found[k]

\* History: the keys known when the watches of k's id have been set as for idx:
\* none of the id, unless its data is remembered to be there, and is.
Watched(k, idx, agrees) ==
  LET id == IdOf[k] IN
  IF meta[id].idx = idx /\ FindData(id).idx = idx
  THEN (known \ {k}) \cup (IF agrees THEN {k} ELSE {})
  ELSE {j \in known : IdOf[j] # id}

\* DependencyGraphLayer::apply, when the load or the update has its result.
Applied(k, D) == SetDependencies(graph, k, D)

\* History.
Joined(k) ==
  heard' = IF job = None THEN heard ELSE [heard EXCEPT !.joined = @ \cup {k}]

\* Cache::get_or_load of a resource that is not in the cache starts to load it;
\* who asks for one whose update has lost its resource waits for the update.
Load(k) ==
  /\ manager = "started" /\ entry[k] \in {"none", "expired"}
  /\ entry' = [entry EXCEPT ![k] = "awaited"]
  /\ step' = IF update[k] = None THEN [step EXCEPT ![k] = FirstStep(k)] ELSE step
  /\ UNCHANGED <<sourceVars, watch, meta, value, update, found, late, threadVars, known, graph>>

\* Sources::find_data.
Find(k) ==
  /\ Goes(k, "find", "note")
  /\ found' = [found EXCEPT ![k] = FindData(IdOf[k])]
  /\ UNCHANGED <<sourceVars, watch, meta, entry, value, update, late, threadVars, known, graph>>

\* update_metadata, under the group's lock.
Note(k) ==
  LET id == IdOf[k] IN
  /\ Goes(k, "note", IF update[k] = None THEN "watch" ELSE "parse")
  /\ meta' = MetaFor(id, found[k])
  /\ known' = {j \in known : IdOf[j] = id => meta'[id] = meta[id]}
  /\ UNCHANGED <<sourceVars, watch, entry, value, update, found, late, threadVars, graph>>

\* A load watches its id, up to where the data was.
WatchLoaded(k) ==
  /\ Goes(k, "watch", "parse")
  /\ watch' = WatchN(watch, IdOf[k], found[k].idx)
  /\ known' = Watched(k, found[k].idx, Agrees(k))
  /\ UNCHANGED <<sourceVars, meta, entry, value, update, found, late, threadVars, graph>>

\* A load that was cancelled after it had noted what it found still does so.
WatchLate(k, idx) ==
  /\ <<k, idx>> \in late
  /\ late' = late \ {<<k, idx>>}
  /\ watch' = WatchN(watch, IdOf[k], idx)
  /\ known' = Watched(k, idx, k \in known)
  /\ UNCHANGED <<sourceVars, meta, entry, value, update, step, found, threadVars, graph>>

\* What the resource is made of: a virtual one of no data.
Made(k) == IF k \in Virtual THEN value ELSE [value EXCEPT ![k] = found[k].hash]

Finishes(k, from) ==
  /\ Goes(k, from, "rest")
  /\ found' = [found EXCEPT ![k] = None]
  /\ update' = [update EXCEPT ![k] = None]

\* The load is done, and taken by who awaits it: its dependencies are recorded.
Loaded(k) ==
  /\ update[k] = None
  /\ \E D \in SUBSET Keys : Asked(k, D) /\ graph' = Applied(k, D)
  /\ Finishes(k, "parse")
  /\ entry' = [entry EXCEPT ![k] = "live"]
  /\ value' = Made(k)
  /\ Joined(k)
  /\ UNCHANGED <<sourceVars, watch, meta, late, job, manager, known>>

\* UpdateWork::execute, once the loader is done: the dependencies are recorded, and
\* the watches are set as for the index that the update was started with.
Apply(k) ==
  /\ update[k] # None /\ entry[k] = "live"
  /\ Goes(k, "parse", "write")
  /\ \E D \in SUBSET Keys : Asked(k, D) /\ graph' = Applied(k, D)
  /\ watch' = WatchN(watch, IdOf[k], update[k])
  /\ known' = IF k \in Virtual THEN known
              ELSE Watched(k, update[k], Agrees(k) /\ update[k] = found[k].idx)
  /\ Joined(k)
  /\ UNCHANGED <<sourceVars, meta, entry, value, update, found, late, job, manager>>

\* The loader replaces the value of the resource.
Write(k) ==
  /\ Finishes(k, "write")
  /\ value' = Made(k)
  /\ UNCHANGED <<sourceVars, watch, meta, entry, late, threadVars, known, graph>>

\* handle_expired: a resource that nobody held when its update was done is
\* forgotten, unless somebody awaits it by now.  Then what the update was made
\* of is a resource of its own, for which nothing is recorded or watched.
Outlived(k) ==
  /\ update[k] # None /\ entry[k] # "live"
  /\ \E D \in SUBSET Keys : Asked(k, D)
  /\ Finishes(k, "parse")
  /\ \/ /\ entry[k] = "awaited"
        /\ entry' = [entry EXCEPT ![k] = "live"]
        /\ value' = Made(k)
        /\ known' = IF k \notin Virtual /\ Agrees(k) /\ WatchN(watch, IdOf[k], found[k].idx) = watch
                    THEN known \cup {k} ELSE known \ {k}
     \/ /\ entry[k] = "expired"
        /\ entry' = [entry EXCEPT ![k] = "none"]
        /\ UNCHANGED <<value, known>>
  /\ UNCHANGED <<sourceVars, watch, meta, late, threadVars, graph>>

TaskStep(k) ==
  \/ Find(k) \/ Note(k) \/ WatchLoaded(k) \/ Loaded(k) \/ Apply(k) \/ Write(k) \/ Outlived(k)

\* The last one who held the resource lets go of it.  (An update that writes it
\* holds it as well.)
Expire(k) ==
  /\ entry[k] = "live" /\ step[k] # "write"
  /\ entry' = [entry EXCEPT ![k] = "expired"]
  /\ value' = [value EXCEPT ![k] = None]
  /\ known' = known \ {k}
  /\ UNCHANGED <<sourceVars, watch, meta, taskVars, threadVars, graph>>

-----------------------------------------------------------------------------
(* The update thread: loop_receive. *)

ValidForUpdate(id, h, idx) == meta[id].hash # h /\ AtMost(idx, meta[id].idx)

\* Is the data of the resource to be read again?
Updates(id, u, src) ==
  CASE u.kind \in {"added", "modified"} -> ValidForUpdate(id, u.hash, src)
    [] u.kind = "removed" -> TRUE  \* the constant source has it
    [] u.kind = "moved" -> FALSE

MetaAfter(id, u, src) ==
  IF Updates(id, u, src)
  THEN IF u.kind = "removed" THEN FindData(id) ELSE [hash |-> u.hash, idx |-> src]
  ELSE IF u.kind = "moved" /\ meta[id].idx = u.from THEN [meta[id] EXCEPT !.idx = src]
  ELSE meta[id]

\* CacheEntryTyped::start_update has something to do.
Startable(k) == entry[k] \in {"awaited", "live"} \/ update[k] # None

\* start_update of the entries K of one group, whose metadata are m by now.  The
\* load or the update that was under way is cancelled; a write may have happened,
\* or not; a load that has noted what it found will still watch.  The updates are
\* held until the message has been handled.
StartAll(K, m) ==
  LET starting == {k \in K : Startable(k)} IN
  /\ update' = [k \in Keys |-> IF k \in starting THEN m.idx ELSE update[k]]
  /\ step' = [k \in Keys |-> IF k \in starting THEN "held" ELSE step[k]]
  /\ found' = [k \in Keys |-> IF k \in starting THEN None ELSE found[k]]
  /\ late' = late \cup {<<k, found[k].idx>> : k \in {j \in starting : step[j] = "watch"}}
  /\ entry' = [k \in Keys |-> IF k \in K \ starting THEN "none" ELSE entry[k]]
  /\ \E W \in SUBSET {k \in starting \ Virtual : step[k] = "write"} :
       value' = [k \in Keys |-> IF k \in W THEN found[k].hash ELSE value[k]]

\* Mutant: only what depends on it directly is updated with a resource.
DirectDependents(id) == UNION {graph.dependents[k] : k \in NodesForId(graph, id)}

\* The resources to be updated because one of this id is.
TriggeredBy(id) == UNION {RecursiveDependents(graph, k) : k \in NodesForId(graph, id)}

\* The next message: no update that it starts begins before it is handled.
Receive ==
  /\ manager = "started" /\ watch.sent # <<>> /\ job = None
  /\ job' = [src |-> Head(watch.sent).src, updates |-> Head(watch.sent).updates, id |-> None,
             keys |-> {}, above |-> {}, queued |-> {}, dependent |-> {}, skipped |-> {}]
  /\ watch' = [watch EXCEPT !.sent = Tail(@)]
  /\ heard' = [listed |-> UNION {KeysForId(graph, id) : id \in Ids}, joined |-> {}]
  /\ UNCHANGED <<sourceVars, meta, entry, value, taskVars, manager, known, graph>>

\* For an id that it speaks of, the graph is asked first.
AskGraph(id) ==
  /\ job # None /\ job.id = None /\ id \in DOMAIN job.updates
  /\ job' = [job EXCEPT !.id = id, !.keys = KeysForId(graph, id), !.above = TriggeredBy(id)]
  /\ UNCHANGED <<sourceVars, watch, meta, entry, value, taskVars, heard, manager, known, graph>>

\* CacheGroup::start_update, under the group's lock.  A key of an id that it turns
\* out nothing is to be done about counts as updated.
StartId ==
  /\ job # None /\ job.id # None
  /\ LET id == job.id
         u  == job.updates[id]
         of == {k \in Keys \ Virtual : IdOf[k] = id}
         left == [job EXCEPT !.updates = [i \in DOMAIN @ \ {id} |-> @[i]],
                             !.id = None, !.keys = {}, !.above = {}]
     IN /\ meta' = [meta EXCEPT ![id] = MetaAfter(id, u, job.src)]
        /\ \/ /\ Updates(id, u, job.src)
              /\ StartAll(of, meta'[id])
              /\ job' = [left EXCEPT !.queued = @ \cup {k \in of : Startable(k)},
                                     !.dependent = @ \cup job.above]
           \/ /\ ~Updates(id, u, job.src)
              /\ job' = [left EXCEPT !.queued = @ \cup job.keys, !.skipped = @ \cup {id}]
              /\ UNCHANGED <<entry, value, taskVars>>
  /\ UNCHANGED <<sourceVars, watch, heard, manager, known, graph>>

\* start_dependent_update, under the lock of the group of k: it starts the updates
\* of all loaders of k's type.
StartDependent(k) ==
  /\ job # None /\ DOMAIN job.updates = {} /\ k \in job.dependent \ job.queued
  /\ StartAll({j \in Keys : IdOf[j] = IdOf[k] /\ TypeOf[j] = TypeOf[k]}, meta[IdOf[k]])
  /\ job' = [job EXCEPT !.dependent = @ \ {k}]
  /\ UNCHANGED <<sourceVars, watch, meta, heard, manager, known, graph>>

\* The message is handled, and the updates that it started may begin.
StartUpdates ==
  /\ job # None /\ DOMAIN job.updates = {} /\ job.dependent \subseteq job.queued
  /\ job' = None /\ heard' = None
  /\ step' = [k \in Keys |-> IF step[k] = "held" THEN FirstStep(k) ELSE step[k]]
  /\ UNCHANGED <<sourceVars, watch, meta, entry, value, update, found, late, manager, known, graph>>

UpdateThread ==
  \/ Receive \/ StartId \/ StartUpdates
  \/ \E id \in Ids : AskGraph(id)
  \/ \E k \in Keys : StartDependent(k)

-----------------------------------------------------------------------------
(* The manager is dropped. *)

AtRest ==
  /\ manager = "started" /\ watch.sent = <<>> /\ job = None
  /\ \A k \in Keys : update[k] = None

\* UpdateManager::stop: the thread ends where it waits, with messages left.
StopUpdates ==
  /\ manager = "started"
  /\ manager' = "dropped"
  /\ watch' = [watch EXCEPT !.sent = <<>>]
  /\ job' = None /\ heard' = None

\* ResourceManager::drop: the thread is stopped first, and then the loads and
\* updates are dropped with their entries; the resources live on with those
\* who hold them.  A bound: that happens after the last change of the sources,
\* and when there is still something to do.
DropManager ==
  /\ changes = MaxChanges /\ ~AtRest
  /\ StopUpdates
  /\ entry' = [k \in Keys |-> "none"]
  /\ update' = [k \in Keys |-> None]
  /\ step' = [k \in Keys |-> "rest"]
  /\ found' = [k \in Keys |-> None]
  /\ late' = {}
  /\ UNCHANGED <<sourceVars, meta, value, known, graph>>

Gone == manager = "dropped" /\ UNCHANGED resourceVars

-----------------------------------------------------------------------------

\* build: the watchers of the sources are configured in their order.  The nested
\* source may contain some by then.
Init ==
  /\ \E has \in [Files -> Hashes \cup {None}], h \in Hashes :
       data = [w \in Sources |-> [id \in Ids |->
                 CASE w = Nested -> None
                   [] w = Constant -> h
                   [] w \in Files -> IF id \in Provides[w] THEN has[w] ELSE None]]
  /\ \E n \in 0 .. MaxIndex : \E children \in [1 .. n -> Files] :
       /\ \A i, j \in 1 .. n : children[i] = children[j] => i = j
       /\ LET new == [tree |-> [w \in Sources |-> IF w # Nested THEN NewWatcher
                                  ELSE [NewWatcher EXCEPT !.children = children]],
                      sent |-> <<>>]
              one == Configure(new, data, Nested, Index(<<0>>))
          IN watch = Configure(one, data, Constant, Index(<<1>>))
  /\ meta = [id \in Ids |-> [hash |-> None, idx |-> MaxSource]]
  /\ entry = [k \in Keys |-> "none"]
  /\ value = [k \in Keys |-> None]
  /\ update = [k \in Keys |-> None]
  /\ step = [k \in Keys |-> "rest"]
  /\ found = [k \in Keys |-> None]
  /\ late = {} /\ job = None /\ heard = None
  /\ known = {} /\ manager = "started" /\ changes = 0
  /\ GraphInit

Next ==
  \/ \E f \in Files, id \in Ids, h \in Hashes \cup {None} : ChangeFile(f, id, h)
  \/ \E f \in Files, place \in 0 .. MaxIndex : InsertSource(f, place)
  \/ \E place \in 0 .. MaxIndex : RemoveSource(place)
  \/ \E k \in Keys : Load(k) \/ Expire(k) \/ TaskStep(k)
  \/ \E l \in late : WatchLate(l[1], l[2])
  \/ UpdateThread \/ DropManager \/ Gone

Spec == Init /\ [][Next]_resourceVars

-----------------------------------------------------------------------------
(* Properties. *)

Shown == {k \in Keys \ Virtual : entry[k] = "live"}

\* When all reports are handled and all updates done, a resource in use is made of
\* what the first source that has its id has now, however files and sources came,
\* went and changed places since it was loaded: resource/mod.rs promises it of all
\* (line 161).  The code keeps it for those whose load or update made them of the data
\* that is remembered for their id and watched since (known).  The others, which it
\* loses: the data changed, or moved, after it was read and before it was watched;
\* another load of the id noted something else, or watched another place; an
\* outlived update became the resource.
FreshAtRest == AtRest => \A k \in Shown \cap known : value[k] = FindData(IdOf[k]).hash

\* The keys that were made with the help of k, be it through others, before the
\* message came that is handled now.
MadeWithHelp(k) ==
  RecursiveDependents([graph EXCEPT !.dependents = [d \in Keys |-> @[d] \ heard.joined]], k)

\* The resources to be updated because the message says that their data changed.
Reported == {k \in job.queued : IdOf[k] \notin job.skipped}

\* When the updates start that a message led to, the resources in use that were made
\* with the help of a reported one start theirs, be it through others, whatever loads
\* and updates do between the steps of the update thread.  The code loses those that
\* recorded what they are made of since the message came, dependents of a resource
\* that has none itself and was updated before (the key map has forgotten it), and
\* those whose own id the message speaks of in vain.
DependentsUpdateToo ==
  [][StartUpdates =>
       \A k \in Reported \ heard.joined :
         k \in heard.listed \/ graph.dependencies[k] # {} =>
           \A d \in MadeWithHelp(k) :
             entry[d] = "live" /\ IdOf[d] \notin job.skipped => step[d] = "held"]_resourceVars
=============================================================================
