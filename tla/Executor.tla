------------------------------ MODULE Executor ------------------------------
(***************************************************************************)
(* The async executor of gtether (util/executor.rs), seen from the life of *)
(* its tasks: a task is spawned, queued, taken by a worker of the pool,    *)
(* polled, left idle until something wakes it, and closed when its future  *)
(* is dropped.  The executor may be dropped at any of these moments.       *)
(*                                                                         *)
(* The state word of a task (scheduled, running, closed, ...) belongs to   *)
(* the async_task crate; what the executor adds is the queue and           *)
(* active_tasks behind the mutex "inner", and the slab "active" of wakers  *)
(* behind a mutex that spawn, the end of every future, and drop() take.    *)
(* Only drop() keeps that mutex while it does something else.              *)
(***************************************************************************)
EXTENDS Naturals, FiniteSets

CONSTANTS
  Workers,   \* worker threads of the pool the executor is inserted in
  Tasks,     \* tasks, each spawned at most once
  None       \* "no task"

ASSUME ExecutorAssumption == Workers # {} /\ None \notin Tasks

VARIABLES
  state,     \* task -> its place in its life, see TaskStates
  woken,     \* tasks woken while they were being polled
  cancelled, \* tasks whose handle was dropped before they completed
  slab,      \* Executor::active: the tasks with a waker in the slab
  hand,      \* worker -> the task whose runnable it executes, or None
  tracked,   \* StateInner::active_tasks: the workers executing for us
  drained,   \* the runnables drop() has moved out with the inner state
  phase      \* how far drop() is

vars == <<state, woken, cancelled, slab, hand, tracked, drained, phase>>

TaskStates == {"new", "queued", "held", "running", "idle", "handed", "dropping", "closed"}

\* State::inner is Some until drop() takes it.
InnerAlive == phase = "live"

\* The mutex Executor::active can be taken.
ActiveFree == phase \notin {"waking", "selfDrop"}

Set(t, st) == state' = [state EXCEPT ![t] = st]

\* push_work: queue the runnable, or drop it, which drops the future.
PushWork(t) == Set(t, IF InnerAlive THEN "queued" ELSE "dropping")

-----------------------------------------------------------------------------
(* The user of the executor. *)

\* Mutant: the waker does not get into the slab.
SpawnUnlisted(t) ==
  /\ state[t] = "new" /\ phase = "live"
  /\ PushWork(t)
  /\ UNCHANGED <<woken, cancelled, slab, hand, tracked, drained, phase>>

\* spawn: the waker enters the slab before the runnable is scheduled, both
\* under the slab's mutex.  It borrows the executor, which is thus alive.
Spawn(t) ==
  /\ state[t] = "new" /\ phase = "live"
  /\ slab' = slab \cup {t}
  /\ PushWork(t)
  /\ UNCHANGED <<woken, cancelled, hand, tracked, drained, phase>>

\* A waker of the task is invoked, by anything at all.  An idle task becomes
\* scheduled, and its runnable is handed to the closure made by schedule().
Wake(t) ==
  /\ \/ state[t] = "idle" /\ Set(t, "handed") /\ UNCHANGED woken
     \/ state[t] = "running" /\ woken' = woken \cup {t} /\ UNCHANGED state
  /\ UNCHANGED <<cancelled, slab, hand, tracked, drained, phase>>

\* The handle is dropped: the task is closed, and scheduled a last time if
\* nobody has it, so that its future gets dropped.
Cancel(t) ==
  /\ state[t] \in {"queued", "held", "running", "idle", "handed"}
  /\ t \notin cancelled
  /\ cancelled' = cancelled \cup {t}
  /\ IF state[t] = "idle" THEN Set(t, "handed") ELSE UNCHANGED state
  /\ UNCHANGED <<woken, slab, hand, tracked, drained, phase>>

\* The schedule closure runs: push_work.  Once drop() has returned the state
\* is gone; the closure then panics, and unwinding drops the runnable.
Schedule(t) ==
  /\ state[t] = "handed"
  /\ PushWork(t)
  /\ UNCHANGED <<woken, cancelled, slab, hand, tracked, drained, phase>>

-----------------------------------------------------------------------------
(* Workers: State::find_work and RunnableWrapper::execute. *)

\* Mutant: the work handed out is not tracked.
FindWorkUntracked(w, t) ==
  /\ InnerAlive /\ hand[w] = None
  /\ state[t] = "queued"
  /\ Set(t, "held")
  /\ hand' = [hand EXCEPT ![w] = t]
  /\ UNCHANGED <<woken, cancelled, slab, tracked, drained, phase>>

\* find_work: forget the work that has finished, hand out one runnable.
FindWork(w, t) ==
  /\ InnerAlive /\ hand[w] = None
  /\ state[t] = "queued"
  /\ Set(t, "held")
  /\ hand' = [hand EXCEPT ![w] = t]
  /\ tracked' = {v \in tracked : hand[v] # None} \cup {w}
  /\ UNCHANGED <<woken, cancelled, slab, drained, phase>>

\* Runnable::run: a cancelled task is dropped, any other polled.
Run(w) ==
  /\ hand[w] # None /\ state[hand[w]] = "held"
  /\ Set(hand[w], IF hand[w] \in cancelled THEN "dropping" ELSE "running")
  /\ UNCHANGED <<woken, cancelled, slab, hand, tracked, drained, phase>>

\* The poll returned Ready, or Pending on a task cancelled meanwhile.
PollReady(w) ==
  /\ hand[w] # None /\ state[hand[w]] = "running"
  /\ Set(hand[w], "dropping")
  /\ woken' = woken \ {hand[w]}
  /\ UNCHANGED <<cancelled, slab, hand, tracked, drained, phase>>

\* Mutant: a wake during the poll is forgotten.
PollPendingForgets(w) ==
  LET t == hand[w] IN
  /\ t # None /\ state[t] = "running" /\ t \notin cancelled
  /\ Set(t, "idle")
  /\ woken' = woken \ {t}
  /\ hand' = [hand EXCEPT ![w] = None]
  /\ UNCHANGED <<cancelled, slab, tracked, drained, phase>>

\* The poll returned Pending.  A task woken meanwhile is rescheduled by the
\* worker; if the executor is going away that drops its future.
PollPending(w) ==
  LET t == hand[w] IN
  /\ t # None /\ state[t] = "running" /\ t \notin cancelled
  /\ IF t \in woken THEN PushWork(t) ELSE Set(t, "idle")
  /\ woken' = woken \ {t}
  /\ hand' = [hand EXCEPT ![w] = IF t \in woken /\ ~InnerAlive THEN t ELSE None]
  /\ UNCHANGED <<cancelled, slab, tracked, drained, phase>>

\* The future is dropped, by whoever has the runnable: AsyncCallOnDrop takes
\* the waker out of the slab.
Cleanup(t) ==
  /\ state[t] = "dropping"
  /\ ActiveFree
  /\ Set(t, "closed")
  /\ slab' = slab \ {t}
  /\ hand' = [w \in Workers |-> IF hand[w] = t THEN None ELSE hand[w]]
  /\ UNCHANGED <<woken, cancelled, tracked, drained, phase>>

WorkerStep(w) == Run(w) \/ PollReady(w) \/ PollPending(w) \/ \E t \in Tasks : FindWork(w, t)

-----------------------------------------------------------------------------
(* Drop for Executor. *)

\* state.inner.lock().take().
TakeInner ==
  /\ phase = "live"
  /\ phase' = "taken"
  /\ drained' = {t \in Tasks : state[t] = "queued"}
  /\ UNCHANGED <<state, woken, cancelled, slab, hand, tracked>>

LockActive ==
  /\ phase = "taken"
  /\ phase' = "waking"
  /\ UNCHANGED <<state, woken, cancelled, slab, hand, tracked, drained>>

\* One step of the drain of the slab.  Waking an idle task schedules it, and
\* push_work, finding no inner state, drops its runnable on this thread.
WakeActive(t) ==
  /\ phase = "waking" /\ t \in slab
  /\ slab' = slab \ {t}
  /\ CASE state[t] = "idle"    -> Set(t, "dropping") /\ phase' = "selfDrop" /\ UNCHANGED woken
       [] state[t] = "running" -> woken' = woken \cup {t} /\ UNCHANGED <<state, phase>>
       [] OTHER                -> UNCHANGED <<state, woken, phase>>
  /\ UNCHANGED <<cancelled, hand, tracked, drained>>

UnlockActive ==
  /\ phase = "waking" /\ slab = {}
  /\ phase' = "draining"
  /\ UNCHANGED <<state, woken, cancelled, slab, hand, tracked, drained>>

\* Every runnable of the queue is popped and dropped.
DrainQueue ==
  /\ phase = "draining"
  /\ state' = [t \in Tasks |-> IF t \in drained THEN "closed" ELSE state[t]]
  /\ drained' = {}
  /\ phase' = "waiting"
  /\ UNCHANGED <<woken, cancelled, slab, hand, tracked>>

\* Block until the tracked work is done.
AwaitActive ==
  /\ phase = "waiting"
  /\ \A w \in tracked : hand[w] = None
  /\ phase' = "dropped"
  /\ UNCHANGED <<state, woken, cancelled, slab, hand, tracked, drained>>

Drop == LockActive \/ UnlockActive \/ DrainQueue \/ AwaitActive
          \/ \E t \in Tasks : WakeActive(t)

-----------------------------------------------------------------------------

Init ==
  /\ state = [t \in Tasks |-> "new"]
  /\ woken = {} /\ cancelled = {} /\ slab = {}
  /\ hand = [w \in Workers |-> None]
  /\ tracked = {} /\ drained = {}
  /\ phase = "live"

Next ==
  \/ \E t \in Tasks : Spawn(t) \/ Wake(t) \/ Cancel(t) \/ Schedule(t) \/ Cleanup(t)
  \/ \E w \in Workers : WorkerStep(w)
  \/ TakeInner \/ Drop

\* Workers keep working and polls return; a wake that has begun and a drop
\* that has begun go on.  The pool serves every queued runnable in the end
\* (strong fairness: others may be served first).  Nothing obliges anybody to
\* wake a task, or to drop the executor.
Fairness ==
  /\ \A w \in Workers : WF_vars(Run(w)) /\ WF_vars(PollReady(w) \/ PollPending(w))
  /\ \A t \in Tasks :
       WF_vars(Schedule(t)) /\ WF_vars(Cleanup(t)) /\ SF_vars(\E w \in Workers : FindWork(w, t))
  /\ WF_vars(Drop)

Spec == Init /\ [][Next]_vars

FairSpec == Spec /\ Fairness

-----------------------------------------------------------------------------
(* Properties. *)

\* The kinds of values the variables range over; a worker's runnable is one
\* that nobody else has.
TypeOK ==
  /\ state \in [Tasks -> TaskStates]
  /\ woken \subseteq Tasks /\ cancelled \subseteq Tasks /\ slab \subseteq Tasks
  /\ hand \in [Workers -> Tasks \cup {None}]
  /\ \A w \in Workers : hand[w] # None => state[hand[w]] \in {"held", "running", "dropping"}
  /\ tracked \subseteq Workers /\ drained \subseteq Tasks
  /\ phase \in {"live", "taken", "waking", "selfDrop", "draining", "waiting", "dropped"}

\* is_empty() is true only when no future of the executor exists any more
\* (the slab entry outlives the future, AsyncCallOnDrop).
EmptyMeansDone ==
  (phase = "live" /\ slab = {}) => \A t \in Tasks : state[t] \in {"new", "closed"}

\* When drop() has returned no worker is executing a task of the executor
\* (active_tasks, which drop() waits for, has every runnable a worker holds).
NothingRunsAfterDrop ==
  phase = "dropped" => \A w \in Workers : hand[w] = None

\* No wake is lost: a task that was scheduled, or woken while it was being
\* polled, is polled afterwards or its future is dropped, unless the executor
\* goes first (schedule, push_work and the waker of push_work).
ScheduledTaskRuns ==
  \A t \in Tasks :
    (state[t] \in {"queued", "handed", "held"} \/ t \in woken)
      ~> (t \notin woken /\ state[t] \in {"running", "dropping", "closed"}) \/ phase # "live"

\* Dropping the executor returns (test_executor_drops).
DropReturns == phase = "taken" ~> phase = "dropped"

\* When drop() has returned the futures are gone: the SAFETY comment of
\* spawn_inner relies on it.
NoFutureOutlivesDrop ==
  phase = "dropped" => \A t \in Tasks : state[t] \in {"new", "closed"}
=============================================================================
