----------------------------- MODULE WorkerPool -----------------------------
(***************************************************************************)
(* The worker pool of gtether (worker/pool.rs) together with the work      *)
(* sources it drains (worker/task.rs, the Weak impl of worker/mod.rs).     *)
(*                                                                         *)
(* Every step of this module is one indivisible step of one thread: taking *)
(* a lock, looking at one source, waking, parking.  The threads are        *)
(*   - the workers, in Worker::run;                                        *)
(*   - one producer per item, which pushes the item to a source and then   *)
(*     wakes the pool through the waker the source was given;              *)
(*   - one caller per source that is inserted while the pool runs          *)
(*     (WorkerPool::insert_source);                                        *)
(*   - the thread that drops the pool.                                     *)
(*                                                                         *)
(* The mutex State::sleepers is held across another blocking step only by  *)
(* insert_source, so its holder is "inserting"; every other critical       *)
(* section on it is one step, enabled while inserting = None.  The lock    *)
(* State::work_sources is a parking_lot RwLock: a writer first claims the  *)
(* writer bit, which keeps new readers out, and then waits until the       *)
(* readers have left ("claim", "readers").                                 *)
(*                                                                         *)
(* A bucket is a set here: the order in which a worker goes round the      *)
(* sources of one bucket is any order.                                     *)
(***************************************************************************)
EXTENDS Naturals, FiniteSets

CONSTANTS
  Workers,      \* the worker threads of the pool
  Items,        \* work items, each pushed once, by a thread of its own
  Sources,      \* work sources
  Early,        \* the sources inserted before the workers start
  Weak,         \* the sources the pool holds weakly: they may be dropped
  Locking,      \* the sources that hold a mutex of their own in find_work,
                \* and keep it while they wake the pool (util/executor.rs)
  PriorityOf,   \* the bucket of a source
  TargetOf,     \* the source an item is pushed to
  None          \* "no thread", "no item"

Threads == Workers \cup Items \cup Sources

ASSUME PoolAssumption ==
  /\ Workers # {}
  /\ Early \subseteq Sources /\ Weak \subseteq Sources /\ Locking \subseteq Sources
  /\ PriorityOf \in [Sources -> Nat]
  /\ TargetOf \in [Items -> Sources]
  /\ None \notin Threads

ASSUME ThreadsAssumption ==
  /\ Workers \cap Items = {} /\ Workers \cap Sources = {} /\ Items \cap Sources = {}

VARIABLES
  pc,           \* worker -> where it is in Worker::run
  item,         \* worker -> the item it found, or None
  registering,  \* worker -> the source whose AtomicWaker it is storing to
  todo,         \* worker -> sources it has yet to scan, or to give the waker
  sawExpired,   \* worker -> find_work's local "expired"
  registered,   \* State::work_sources: the sources in the pool
  expired,      \* the sources whose bucket item is flagged expired
  hasExpired,   \* State::has_expired_sources
  claim,        \* who has the writer bit of work_sources, or None
  readers,      \* the workers holding work_sources for reading
  inserting,    \* who holds State::sleepers across steps, or None
  sleepers,     \* State::sleepers
  tokens,       \* workers with an unpark token
  queue,        \* source -> items waiting in it
  alive,        \* the sources that have not been dropped
  slot,         \* the sources whose AtomicWaker holds the pool's waker
  flag,         \* source -> state of its AtomicWaker
  inner,        \* source -> item whose producer holds its mutex, or None
  push,         \* item -> where its producer is
  executed,     \* items whose execute() has returned
  cancelled,    \* items dropped with their source
  dropping      \* where the thread is that drops the pool

workerVars == <<pc, item, registering, todo, sawExpired>>
sourceVars == <<registered, expired, hasExpired, claim, readers>>
sleepVars  == <<inserting, sleepers, tokens>>
queueVars  == <<queue, alive, slot, flag, inner, push>>
doneVars   == <<executed, cancelled, dropping>>
vars == <<workerVars, sourceVars, sleepVars, queueVars, doneVars>>

Transition(w, from, to) == pc[w] = from /\ pc' = [pc EXCEPT ![w] = to]

-----------------------------------------------------------------------------
(* Shared pieces. *)

\* The closure of every wake: unpark the sleepers while draining the map.
DrainSleepers ==
  /\ tokens' = tokens \cup sleepers
  /\ sleepers' = {}

\* Wake::wake_by_ref of the pool's state, in one step of a thread that does
\* not hold the sleepers lock.
WakePool == inserting = None /\ DrainSleepers /\ UNCHANGED inserting

\* RwLock::read is granted while nobody has the writer bit.
MayRead == claim = None

-----------------------------------------------------------------------------
(* Worker::run and State::find_work. *)

\* exit_recv.try_recv(): disconnected once the pool's sender is dropped.
CheckExit(w) ==
  /\ pc[w] = "check"
  /\ pc' = [pc EXCEPT ![w] = IF dropping = "live" THEN "find" ELSE "exited"]
  /\ UNCHANGED <<item, registering, todo, sawExpired, sourceVars, sleepVars, queueVars, doneVars>>

\* has_expired_sources.swap(false).
SwapExpired(w) ==
  /\ pc[w] = "find"
  /\ pc' = [pc EXCEPT ![w] = IF hasExpired THEN "claim" ELSE "read"]
  /\ hasExpired' = FALSE
  /\ UNCHANGED <<item, registering, todo, sawExpired, registered, expired, claim, readers,
                 sleepVars, queueVars, doneVars>>

ClaimSources(w) ==
  /\ Transition(w, "claim", "clear")
  /\ claim = None
  /\ claim' = w
  /\ UNCHANGED <<item, registering, todo, sawExpired, registered, expired, hasExpired, readers,
                 sleepVars, queueVars, doneVars>>

\* The writer is alone: clear_expired on every bucket, then downgrade to a
\* reader and scan.
ClearExpired(w) ==
  /\ Transition(w, "clear", "scan")
  /\ claim = w /\ readers = {}
  /\ registered' = registered \ expired
  /\ expired' = {}
  /\ claim' = None
  /\ readers' = {w}
  /\ todo' = [todo EXCEPT ![w] = registered']
  /\ sawExpired' = [sawExpired EXCEPT ![w] = FALSE]
  /\ UNCHANGED <<item, registering, hasExpired, sleepVars, queueVars, doneVars>>

ReadSources(w) ==
  /\ Transition(w, "read", "scan")
  /\ MayRead
  /\ readers' = readers \cup {w}
  /\ todo' = [todo EXCEPT ![w] = registered]
  /\ sawExpired' = [sawExpired EXCEPT ![w] = FALSE]
  /\ UNCHANGED <<item, registering, registered, expired, hasExpired, claim,
                 sleepVars, queueVars, doneVars>>

\* Mutant: the buckets are scanned from the lowest.
LowestToScan(w) ==
  {s \in todo[w] : \A t \in todo[w] : PriorityOf[t] >= PriorityOf[s]}

\* The source a scan looks at next: one of the highest bucket that is left.
NextToScan(w) ==
  {s \in todo[w] : \A t \in todo[w] : PriorityOf[t] <= PriorityOf[s]}

\* The three results of WorkSource::find_work.
Disconnected(w, s) ==
  /\ s \notin alive
  /\ expired' = expired \cup {s}
  /\ sawExpired' = [sawExpired EXCEPT ![w] = TRUE]
  /\ todo' = [todo EXCEPT ![w] = @ \ {s}]
  /\ UNCHANGED <<item, queue>>

NoWork(w, s) ==
  /\ s \in alive /\ queue[s] = {}
  /\ todo' = [todo EXCEPT ![w] = @ \ {s}]
  /\ UNCHANGED <<item, queue, expired, sawExpired>>

\* Mutant: the item is not popped.
PeekWork(w, s, i) ==
  /\ s \in alive /\ i \in queue[s]
  /\ item' = [item EXCEPT ![w] = i]
  /\ todo' = [todo EXCEPT ![w] = {}]
  /\ UNCHANGED <<queue, expired, sawExpired>>

TakeWork(w, s, i) ==
  /\ s \in alive /\ i \in queue[s]
  /\ queue' = [queue EXCEPT ![s] = @ \ {i}]
  /\ item' = [item EXCEPT ![w] = i]
  /\ todo' = [todo EXCEPT ![w] = {}]
  /\ UNCHANGED <<expired, sawExpired>>

\* A locking source is entered only while no producer holds its mutex.
ScanSource(w) ==
  /\ pc[w] = "scan" /\ item[w] = None
  /\ \E s \in NextToScan(w) :
       /\ inner[s] = None
       /\ Disconnected(w, s) \/ NoWork(w, s) \/ \E i \in Items : TakeWork(w, s, i)
  /\ UNCHANGED <<pc, registering, registered, hasExpired, claim, readers, sleepVars,
                 alive, slot, flag, inner, push, doneVars>>

\* Mutant: the read guard lives on, as that of a match scrutinee would.
EndScanKeepsGuard(w) ==
  /\ pc[w] = "scan" /\ todo[w] = {}
  /\ pc' = [pc EXCEPT ![w] = IF item[w] = None THEN "sleep" ELSE "found"]
  /\ hasExpired' = (hasExpired \/ sawExpired[w])
  /\ sawExpired' = [sawExpired EXCEPT ![w] = FALSE]
  /\ UNCHANGED <<item, registering, todo, registered, expired, claim, readers,
                 sleepVars, queueVars, doneVars>>

\* The end of find_work: publish "expired", let go of the sources.
EndScan(w) ==
  /\ pc[w] = "scan" /\ todo[w] = {}
  /\ pc' = [pc EXCEPT ![w] = IF item[w] = None THEN "sleep" ELSE "found"]
  /\ hasExpired' = (hasExpired \/ sawExpired[w])
  /\ sawExpired' = [sawExpired EXCEPT ![w] = FALSE]
  /\ readers' = readers \ {w}
  /\ UNCHANGED <<item, registering, todo, registered, expired, claim, sleepVars, queueVars, doneVars>>

RemoveSleeper(w) ==
  /\ Transition(w, "found", "execute")
  /\ inserting = None
  /\ sleepers' = sleepers \ {w}
  /\ UNCHANGED <<item, registering, todo, sawExpired, sourceVars, inserting, tokens, queueVars, doneVars>>

\* task.execute() returns.
Execute(w) ==
  /\ Transition(w, "execute", "check")
  /\ executed' = executed \cup {item[w]}
  /\ item' = [item EXCEPT ![w] = None]
  /\ UNCHANGED <<registering, todo, sawExpired, sourceVars, sleepVars, queueVars, cancelled, dropping>>

-----------------------------------------------------------------------------
(* State::insert_sleeper, the registration of the waker, and parking. *)

\* Mutant: a new sleeper scans again without looking at the exit channel.
InsertSleeperRescans(w) ==
  /\ pc[w] = "sleep" /\ inserting = None
  /\ sleepers' = sleepers \cup {w}
  /\ pc' = [pc EXCEPT ![w] = IF w \in sleepers THEN "park"
                             ELSE IF sleepers = {} THEN "readWaker" ELSE "find"]
  /\ UNCHANGED <<item, registering, todo, sawExpired, sourceVars, inserting, tokens, queueVars, doneVars>>

\* Already a sleeper: park.  Otherwise become one; the first sleeper gives
\* the sources a waker, every other one goes straight back to scanning.
InsertSleeper(w) ==
  /\ pc[w] = "sleep"
  /\ inserting = None
  /\ \/ /\ w \in sleepers
        /\ pc' = [pc EXCEPT ![w] = "park"]
        /\ UNCHANGED sleepers
     \/ /\ w \notin sleepers
        /\ pc' = [pc EXCEPT ![w] = IF sleepers = {} THEN "readWaker" ELSE "check"]
        /\ sleepers' = sleepers \cup {w}
  /\ UNCHANGED <<item, registering, todo, sawExpired, sourceVars, inserting, tokens, queueVars, doneVars>>

ReadForWaker(w) ==
  /\ Transition(w, "readWaker", "register")
  /\ MayRead
  /\ readers' = readers \cup {w}
  /\ todo' = [todo EXCEPT ![w] = registered]
  /\ UNCHANGED <<item, registering, sawExpired, registered, expired, hasExpired, claim,
                 sleepVars, queueVars, doneVars>>

\* AtomicWaker::register, first half.
StoreWaker(w, s) ==
  /\ s \in alive /\ flag[s] = "waiting"
  /\ flag' = [flag EXCEPT ![s] = "registering"]
  /\ slot' = slot \cup {s}
  /\ pc' = [pc EXCEPT ![w] = "registering"]
  /\ registering' = [registering EXCEPT ![w] = s]

\* A wake is taking the old waker right now: this thread wakes the pool itself.
JoinWake(w, s) ==
  /\ s \in alive /\ flag[s] = "waking"
  /\ pc' = [pc EXCEPT ![w] = "wakeSelf"]
  /\ UNCHANGED <<slot, flag, registering>>

\* A dropped source ignores the waker, and of two registrations at a time one
\* is void.
SkipWaker(w, s) ==
  /\ s \notin alive \/ flag[s] \in {"registering", "overtaken"}
  /\ UNCHANGED <<pc, slot, flag, registering>>

\* set_worker_waker of one source.
BeginRegister(w) ==
  /\ pc[w] = "register"
  /\ \E s \in todo[w] :
       /\ StoreWaker(w, s) \/ JoinWake(w, s) \/ SkipWaker(w, s)
       /\ todo' = [todo EXCEPT ![w] = @ \ {s}]
  /\ UNCHANGED <<item, sawExpired, sourceVars, sleepVars, queue, alive, inner, push, doneVars>>

\* Second half: a wake that arrived in between is run by this thread, which
\* consumes the waker again.
EndRegister(w) ==
  /\ pc[w] = "registering"
  /\ LET s == registering[w] IN
       /\ pc' = [pc EXCEPT ![w] = IF flag[s] = "overtaken" THEN "wakeSelf" ELSE "register"]
       /\ slot' = IF flag[s] = "overtaken" THEN slot \ {s} ELSE slot
       /\ flag' = [flag EXCEPT ![s] = "waiting"]
  /\ registering' = [registering EXCEPT ![w] = None]
  /\ UNCHANGED <<item, todo, sawExpired, sourceVars, sleepVars, queue, alive, inner, push, doneVars>>

\* wake_by_ref called from inside register, with work_sources still read-locked.
WakeSelf(w) ==
  /\ Transition(w, "wakeSelf", "register")
  /\ WakePool
  /\ UNCHANGED <<item, registering, todo, sawExpired, sourceVars, queueVars, doneVars>>

\* Mutant: having registered the waker, park without a second scan.
EndRegistrationParks(w) ==
  /\ Transition(w, "register", "park")
  /\ todo[w] = {}
  /\ readers' = readers \ {w}
  /\ UNCHANGED <<item, registering, todo, sawExpired, registered, expired, hasExpired, claim,
                 sleepVars, queueVars, doneVars>>

EndRegistration(w) ==
  /\ Transition(w, "register", "check")
  /\ todo[w] = {}
  /\ readers' = readers \ {w}
  /\ UNCHANGED <<item, registering, todo, sawExpired, registered, expired, hasExpired, claim,
                 sleepVars, queueVars, doneVars>>

\* thread::park() returns once there is a token, and takes it.
Unpark(w) ==
  /\ Transition(w, "park", "check")
  /\ w \in tokens
  /\ tokens' = tokens \ {w}
  /\ UNCHANGED <<item, registering, todo, sawExpired, sourceVars, inserting, sleepers, queueVars, doneVars>>

WorkerStep(w) ==
  \/ CheckExit(w) \/ SwapExpired(w) \/ ClaimSources(w) \/ ClearExpired(w)
  \/ ReadSources(w) \/ ScanSource(w) \/ EndScan(w) \/ RemoveSleeper(w) \/ Execute(w)
  \/ InsertSleeper(w) \/ ReadForWaker(w) \/ BeginRegister(w) \/ EndRegister(w)
  \/ WakeSelf(w) \/ EndRegistration(w) \/ Unpark(w)

-----------------------------------------------------------------------------
(* Producers: WorkQueue::execute_boxed, or Executor's push_work. *)

\* The item is in the queue.  A locking source keeps its mutex until the
\* wake is over; its constructor has inserted it into the pool.
Push(i) ==
  LET s == TargetOf[i] IN
  /\ push[i] = "idle"
  /\ s \in alive
  /\ inner[s] = None
  /\ s \in Locking => s \in registered
  /\ queue' = [queue EXCEPT ![s] = @ \cup {i}]
  /\ inner' = [inner EXCEPT ![s] = IF s \in Locking THEN i ELSE None]
  /\ push' = [push EXCEPT ![i] = "wake"]
  /\ UNCHANGED <<workerVars, sourceVars, sleepVars, alive, slot, flag, doneVars>>

\* The producer returns, releasing the mutex of a locking source.
Return(i) ==
  /\ push' = [push EXCEPT ![i] = "done"]
  /\ inner' = [inner EXCEPT ![TargetOf[i]] = IF @ = i THEN None ELSE @]

\* AtomicWaker::take, first half.  A concurrent register takes the wake over;
\* a concurrent take has it already.
BeginTake(i) ==
  LET s == TargetOf[i] IN
  /\ push[i] = "wake"
  /\ \/ /\ flag[s] = "waiting"
        /\ flag' = [flag EXCEPT ![s] = "waking"]
        /\ push' = [push EXCEPT ![i] = "taking"]
        /\ UNCHANGED inner
     \/ /\ flag[s] # "waiting"
        /\ flag' = [flag EXCEPT ![s] = IF @ = "registering" THEN "overtaken" ELSE @]
        /\ Return(i)
  /\ UNCHANGED <<workerVars, sourceVars, sleepVars, queue, alive, slot, doneVars>>

\* Second half: the waker leaves its slot.
EndTake(i) ==
  LET s == TargetOf[i] IN
  /\ push[i] = "taking"
  /\ flag' = [flag EXCEPT ![s] = "waiting"]
  /\ slot' = slot \ {s}
  /\ IF s \in slot
     THEN push' = [push EXCEPT ![i] = "drain"] /\ UNCHANGED inner
     ELSE Return(i)
  /\ UNCHANGED <<workerVars, sourceVars, sleepVars, queue, alive, doneVars>>

\* Waker::wake runs the pool's wake_by_ref.
WakeWorkers(i) ==
  /\ push[i] = "drain"
  /\ WakePool
  /\ Return(i)
  /\ UNCHANGED <<workerVars, sourceVars, queue, alive, slot, flag, doneVars>>

Produce(i) == BeginTake(i) \/ EndTake(i) \/ WakeWorkers(i)

\* The last strong reference to a weakly held source goes away: what it still
\* queues is dropped, and its tasks resolve to Cancelled.  Neither a producer
\* nor a worker is using the source at that moment (each would hold it).
DropSource(s) ==
  /\ s \in Weak \cap alive
  /\ \A i \in Items : TargetOf[i] = s => push[i] \in {"idle", "done"}
  /\ flag[s] = "waiting"
  /\ alive' = alive \ {s}
  /\ cancelled' = cancelled \cup queue[s]
  /\ queue' = [queue EXCEPT ![s] = {}]
  /\ slot' = slot \ {s}
  /\ UNCHANGED <<workerVars, sourceVars, sleepVars, flag, inner, push, executed, dropping>>

-----------------------------------------------------------------------------
(* State::insert_source. *)

LockSleepers(s) ==
  /\ s \in alive \ registered
  /\ dropping = "live"
  /\ inserting = None
  /\ inserting' = s
  /\ UNCHANGED <<workerVars, sourceVars, sleepers, tokens, queueVars, doneVars>>

ClaimForInsert(s) ==
  /\ inserting = s /\ claim = None
  /\ claim' = s
  /\ UNCHANGED <<workerVars, registered, expired, hasExpired, readers, sleepVars,
                 queueVars, doneVars>>

\* Mutant: nobody is told of the new source.
AddSourceQuiet(s) ==
  /\ inserting = s /\ claim = s /\ readers = {}
  /\ registered' = registered \cup {s}
  /\ inserting' = None /\ claim' = None
  /\ UNCHANGED <<workerVars, expired, hasExpired, readers, sleepers, tokens, queueVars, doneVars>>

\* The source joins its bucket and every sleeper is unparked; both locks go.
AddSource(s) ==
  /\ inserting = s /\ claim = s /\ readers = {}
  /\ registered' = registered \cup {s}
  /\ DrainSleepers
  /\ inserting' = None /\ claim' = None
  /\ UNCHANGED <<workerVars, expired, hasExpired, readers, queueVars, doneVars>>

InsertSource(s) == ClaimForInsert(s) \/ AddSource(s)

-----------------------------------------------------------------------------
(* Drop for WorkerPool.  It needs the pool exclusively, so no insert_source  *)
(* is under way.                                                             *)

CloseExit ==
  /\ dropping = "live" /\ inserting = None
  /\ dropping' = "draining"
  /\ UNCHANGED <<workerVars, sourceVars, sleepVars, queueVars, executed, cancelled>>

\* Mutant: the workers are joined without being woken.
DrainNothing ==
  /\ dropping = "draining"
  /\ dropping' = "joining"
  /\ UNCHANGED <<workerVars, sourceVars, sleepVars, queueVars, executed, cancelled>>

DrainOnDrop ==
  /\ dropping = "draining"
  /\ WakePool
  /\ dropping' = "joining"
  /\ UNCHANGED <<workerVars, sourceVars, queueVars, executed, cancelled>>

JoinWorkers ==
  /\ dropping = "joining"
  /\ \A w \in Workers : pc[w] = "exited"
  /\ dropping' = "dropped"
  /\ UNCHANGED <<workerVars, sourceVars, sleepVars, queueVars, executed, cancelled>>

DropPool == DrainOnDrop \/ JoinWorkers

-----------------------------------------------------------------------------

Init ==
  /\ pc = [w \in Workers |-> "check"]
  /\ item = [w \in Workers |-> None]
  /\ registering = [w \in Workers |-> None]
  /\ todo = [w \in Workers |-> {}]
  /\ sawExpired = [w \in Workers |-> FALSE]
  /\ registered = Early
  /\ expired = {} /\ hasExpired = FALSE
  /\ claim = None /\ readers = {}
  /\ inserting = None /\ sleepers = {} /\ tokens = {}
  /\ queue = [s \in Sources |-> {}]
  /\ alive = Sources
  /\ slot = {}
  /\ flag = [s \in Sources |-> "waiting"]
  /\ inner = [s \in Sources |-> None]
  /\ push = [i \in Items |-> "idle"]
  /\ executed = {} /\ cancelled = {}
  /\ dropping = "live"

Next ==
  \/ \E w \in Workers : WorkerStep(w)
  \/ \E i \in Items : Push(i) \/ Produce(i)
  \/ \E s \in Sources : DropSource(s) \/ LockSleepers(s) \/ InsertSource(s)
  \/ CloseExit \/ DropPool

\* Threads that have begun an operation keep being scheduled, and work items
\* return.  Whether anybody pushes, inserts or drops is up to the program.
Fairness ==
  /\ \A w \in Workers : WF_vars(WorkerStep(w))
  /\ \A i \in Items : WF_vars(Produce(i))
  /\ \A s \in Sources : WF_vars(InsertSource(s))
  /\ WF_vars(DropPool)

Spec == Init /\ [][Next]_vars

FairSpec == Spec /\ Fairness

-----------------------------------------------------------------------------
(* Properties. *)

WorkerStates ==
  {"check", "find", "claim", "clear", "read", "scan", "found", "execute", "sleep",
   "readWaker", "register", "registering", "wakeSelf", "park", "exited"}

\* The kinds of values the variables range over.
TypeOK ==
  /\ pc \in [Workers -> WorkerStates]
  /\ item \in [Workers -> Items \cup {None}]
  /\ \A w \in Workers : pc[w] \in {"found", "execute"} => item[w] \in Items
  /\ registering \in [Workers -> Sources \cup {None}]
  /\ todo \in [Workers -> SUBSET Sources]
  /\ sawExpired \in [Workers -> BOOLEAN]
  /\ registered \subseteq Sources /\ expired \subseteq Sources
  /\ hasExpired \in BOOLEAN
  /\ claim \in Workers \cup Sources \cup {None}
  /\ readers \subseteq Workers
  /\ inserting \in Sources \cup {None}
  /\ sleepers \subseteq Workers /\ tokens \subseteq Workers
  /\ queue \in [Sources -> SUBSET Items]
  /\ alive \subseteq Sources /\ slot \subseteq Sources
  /\ flag \in [Sources -> {"waiting", "registering", "overtaken", "waking"}]
  /\ inner \in [Sources -> Items \cup {None}]
  /\ push \in [Items -> {"idle", "wake", "taking", "drain", "done"}]
  /\ executed \subseteq Items /\ cancelled \subseteq Items
  /\ dropping \in {"live", "draining", "joining", "dropped"}

\* Parked, with nothing that will make the park return.
Asleep(w) == pc[w] = "park" /\ w \notin tokens

Waiting(s) == s \in registered \cap alive /\ queue[s] # {}

\* A producer is on its way from the queue of its source to the sleepers.
WakeUnderWay == \E i \in Items : push[i] \in {"wake", "taking", "drain"}

\* No lost wakeup (pool.rs, insert_sleeper and the parking rule of
\* Worker::run): the whole pool is never asleep next to work, unless a wake
\* is still on its way.
NoLostWakeup ==
  (dropping = "live" /\ \E s \in Sources : Waiting(s))
    => WakeUnderWay \/ \E w \in Workers : ~Asleep(w)

\* Once Drop has drained the sleepers no worker is or falls asleep, so the
\* joins return (pool.rs, Drop and the exit check in Worker::run).
DropReachesSleepers ==
  dropping \in {"joining", "dropped"} => \A w \in Workers : ~Asleep(w)

\* A worker sleeps although work waits and every other worker is taken up by
\* an item; nobody will wake the sleeper.  The comment on parking in
\* Worker::run says the second scan closes this race.
NoSleeperBesideWork ==
  (dropping = "live" /\ \E s \in Sources : Waiting(s) /\ ~WakeUnderWay)
    => ~ /\ \E w \in Workers : Asleep(w)
         /\ \A w \in Workers : Asleep(w) \/ pc[w] = "execute"

\* A worker holds the sources and waits for somebody who needs the sleepers:
\* it wakes the pool itself (AtomicWaker::register), or all it may look at
\* next are sources whose producer keeps its mutex while it wakes the pool.
NeedsSleepers(w) ==
  \/ pc[w] = "wakeSelf"
  \/ /\ pc[w] = "scan" /\ item[w] = None /\ todo[w] # {}
     /\ \A s \in NextToScan(w) : inner[s] # None /\ push[inner[s]] = "drain"

\* The deadlock of insert_source: it has the sleepers and waits for the readers
\* of work_sources (pool.rs:111), one of which waits for the sleepers.
LockCircle == inserting # None /\ \E w \in readers : NeedsSleepers(w)

\* Work that has reached a source of the pool is run, or dropped with its
\* source, unless the pool is dropped first or an insertion is caught in the
\* one circle of locks, LockCircle.
PushedWorkRuns ==
  \A i \in Items :
    (i \in queue[TargetOf[i]] /\ TargetOf[i] \in registered)
      ~> (i \in executed \cup cancelled \/ dropping # "live" \/ LockCircle)

\* What an item has come to, as a caller of the pool sees it.
StatusOf(i) ==
  CASE i \in executed                  -> "done"
    [] i \in cancelled                 -> "cancelled"
    [] \E w \in Workers : item[w] = i   -> "running"
    [] i \in queue[TargetOf[i]]         -> "queued"
    [] OTHER                            -> "new"

Dispatch == INSTANCE WorkDispatch
              WITH status <- [i \in Items |-> StatusOf(i)], running <- item

\* The pool keeps the promise of WorkDispatch: each item runs at most once, on
\* one worker, and not after it was dropped (find_work pops before it runs).
ImplementsDispatch == Dispatch!Spec

\* insert_source returns, with the source in the pool, unless it is caught in
\* LockCircle, the one way in which the locks of workers, producers and the
\* caller close a circle; and the drop of the pool returns however the workers
\* fall asleep (pool.rs, insert_source, insert_sleeper and Drop).
CallsReturn ==
  /\ \A s \in Sources :
       inserting = s ~> \/ inserting # s /\ s \in registered \cup (Sources \ alive)
                        \/ LockCircle
  /\ dropping = "draining" ~> dropping = "dropped"

-----------------------------------------------------------------------------
(* With a history variable: the items that waited in the pool when a         *)
(* worker's scan began.  It tells in which order a scan takes work, which no *)
(* single state of the pool shows.                                           *)

VARIABLE atScan   \* worker -> the items waiting when its scan began

orderVars == <<vars, atScan>>

BeginsScan(w) == pc[w] # "scan" /\ pc'[w] = "scan"

OrderInit == Init /\ atScan = [w \in Workers |-> {}]

OrderNext ==
  /\ Next
  /\ atScan' = [w \in Workers |->
       IF BeginsScan(w) THEN UNION {queue[s] : s \in registered \cap alive} ELSE atScan[w]]

OrderSpec == OrderInit /\ [][OrderNext]_orderVars

Takes(w, i) == item[w] # i /\ item'[w] = i

\* A worker takes an item only if nothing that already waited when its scan
\* began still waits in a bucket of higher priority (the reversed iteration
\* over the buckets in find_work, while producers and other workers move).
HigherBucketFirst ==
  [][\A w \in Workers, i \in Items :
       Takes(w, i) =>
         \A j \in atScan[w] :
           j \in queue[TargetOf[j]]
             => PriorityOf[TargetOf[j]] <= PriorityOf[TargetOf[i]]]_orderVars
=============================================================================
