----------------------------- MODULE Scheduling ------------------------------
(***************************************************************************)
(* Which task a worker takes next: it goes round the executors of a bucket *)
(* in a ring and takes the highest task of the first that has one          *)
(* (worker/pool.rs, util/executor.rs, util/priority.rs).  WorkerPool       *)
(* abstracts the ring to "any order"; what makes it a ring is stated here. *)
(*                                                                         *)
(* What a queue holds is a sequence of tasks; the key of a task is looked  *)
(* up when the queue compares.  A dynamic priority may change while its    *)
(* task is queued, and while a worker goes through the queue, which reads  *)
(* the priorities one after the other.                                     *)
(***************************************************************************)
EXTENDS Naturals, FiniteSets, Sequences, SeqFold

CONSTANTS
  Threads,   \* the worker threads
  MaxLen,    \* bound: sources in the bucket
  Nothing    \* "not iterating", and the end index not yet set

ASSUME RingAssumption == MaxLen \in Nat /\ Nothing \notin Nat

-----------------------------------------------------------------------------
(* The ring: Bucket and BucketIterRing of worker/pool.rs.  Each thread     *)
(* keeps its own next index; the bucket grows in insert_source and shrinks *)
(* in clear_expired, both under the write lock, so while no thread         *)
(* iterates.                                                               *)

VARIABLES
  len,       \* number of sources in the bucket
  next,      \* thread -> its next_idx (a thread without one starts at 0)
  ring,      \* thread -> NotStarted, the end index of its iteration, or Nothing
  round      \* history: thread -> indexes it has visited in this round,
             \* which an insertion and clear_expired begin anew

ringVars == <<len, next, ring, round>>

NotStarted == MaxLen + 1

Iterating(t) == ring[t] # Nothing

\* insert_source pushes to the bucket.
PushSource ==
  /\ len < MaxLen /\ \A t \in Threads : ~Iterating(t)
  /\ len' = len + 1
  /\ round' = [t \in Threads |-> {}]
  /\ UNCHANGED <<next, ring>>

\* clear_expired: any sources may have expired.  It is done to every bucket of
\* the pool, whichever of them has a source that has expired, and the indexes of
\* all threads go also when this one keeps all its sources.
ClearExpired ==
  /\ \A t \in Threads : ~Iterating(t)
  /\ len' \in 0..len
  /\ next' = [t \in Threads |-> 0]
  /\ round' = [t \in Threads |-> {}]
  /\ UNCHANGED ring

\* iter_ring: an empty bucket is at its end at once.
IterRing(t) ==
  /\ ~Iterating(t)
  /\ ring' = [ring EXCEPT ![t] = IF len = 0 THEN 0 ELSE NotStarted]
  /\ UNCHANGED <<len, next, round>>

\* Mutant: the index wraps one source too early.
NextSourceWrapsEarly(t) ==
  /\ Iterating(t) /\ ring[t] # next[t]
  /\ ring' = [ring EXCEPT ![t] = IF @ = NotStarted THEN next[t] ELSE @]
  /\ next' = [next EXCEPT ![t] = IF @ + 2 >= len THEN 0 ELSE @ + 1]
  /\ round' = [round EXCEPT ![t] =
                 IF @ \cup {next[t]} = 0..(len - 1) THEN {} ELSE @ \cup {next[t]}]
  /\ UNCHANGED len

\* next() yields values[next_idx] and advances the index of the thread.
NextSource(t) ==
  /\ Iterating(t) /\ ring[t] # next[t]
  /\ ring' = [ring EXCEPT ![t] = IF @ = NotStarted THEN next[t] ELSE @]
  /\ next' = [next EXCEPT ![t] = IF @ + 1 >= len THEN 0 ELSE @ + 1]
  /\ round' = [round EXCEPT ![t] =
                 IF @ \cup {next[t]} = 0..(len - 1) THEN {} ELSE @ \cup {next[t]}]
  /\ UNCHANGED len

\* The iteration is exhausted, or left early because work was found.
Leave(t) ==
  /\ Iterating(t) /\ ring[t] # NotStarted
  /\ ring' = [ring EXCEPT ![t] = Nothing]
  /\ UNCHANGED <<len, next, round>>

RingInit ==
  /\ len = 0
  /\ next = [t \in Threads |-> 0]
  /\ ring = [t \in Threads |-> Nothing]
  /\ round = [t \in Threads |-> {}]

-----------------------------------------------------------------------------
(* The executors and their tasks.                                          *)

CONSTANTS
  Runnables,    \* the tasks
  ExecutorOf,   \* the executor of a runnable, counted in the order of insertion
  Priorities,   \* the values of priorities
  Kinds,        \* the kinds of executors looked at
  MaxAttempts,  \* bound: how often a task is scheduled
  MaxChanges    \* bound: changes of priorities

ASSUME SchedulingAssumption ==
  /\ ExecutorOf \in [Runnables -> 1 .. MaxLen] /\ Priorities \subseteq Nat
  /\ Kinds \subseteq {"static", "dynamic", "fifo"}
  /\ MaxAttempts \in Nat /\ MaxChanges \in Nat /\ Nothing \notin Runnables

VARIABLES
  kind,     \* of the executors: "static", "dynamic" or "fifo"
  priority, \* of a task
  attempts, \* of a task, how often it has been scheduled
  sources,  \* the executors in the bucket, in its order
  queue,    \* the queue of each executor
  waking,   \* the tasks on their way to a queue
  taken,    \* the task that a worker has taken, or Nothing
  search,   \* a worker's way through a dynamic queue: whose it is and the
            \* priorities it has read of the first items; or Nothing
  was,      \* history: the priorities of a task since the search of its queue began
  inserted, changes

searchVars == <<search, was>>
taskVars == <<priority, attempts, waking, queue, taken, searchVars>>
schedVars == <<ringVars, kind, taskVars, sources, inserted, changes>>

-----------------------------------------------------------------------------
(* The keys by which an executor whose priorities do not change orders its *)
(* tasks.                                                                  *)

Higher(a, b) ==
  IF kind = "fifo" THEN attempts[a] > attempts[b]
  ELSE \/ priority[a] > priority[b]
       \/ priority[a] = priority[b] /\ attempts[a] > attempts[b]

Swapped(q, i, j) == [q EXCEPT ![i] = q[j], ![j] = q[i]]

-----------------------------------------------------------------------------
(* The binary heap of StaticPriorityQueue. *)

\* A task on its way up changes places with those it is higher than, one after
\* the other.
Rise(s) ==
  LET parent == s.at \div 2 IN
  IF s.at = 1 \/ ~Higher(s.heap[s.at], s.heap[parent]) THEN s
  ELSE [heap |-> Swapped(s.heap, s.at, parent), at |-> parent]

SiftUp(q, i) ==
  LET after[n \in 0 .. i] == IF n = 0 THEN [heap |-> q, at |-> i] ELSE Rise(after[n - 1])
  IN after[i].heap

\* On its way down it changes places with the higher child, whatever it is
\* itself, until there is none.
Sink(s) ==
  LET left  == 2 * s.at
      child == IF left < Len(s.heap) /\ ~Higher(s.heap[left], s.heap[left + 1]) THEN left + 1 ELSE left
  IN IF left > Len(s.heap) THEN s ELSE [heap |-> Swapped(s.heap, s.at, child), at |-> child]

SiftToBottom(q) ==
  LET after[n \in 0 .. Len(q)] == IF n = 0 THEN [heap |-> q, at |-> 1] ELSE Sink(after[n - 1])
      bottom == after[Len(q)]
  IN SiftUp(bottom.heap, bottom.at)

\* Without its last element, which takes the place of element i.
SwapRemove(q, i) == SubSeq([q EXCEPT ![i] = q[Len(q)]], 1, Len(q) - 1)

HeapPop(q) == IF Len(q) = 1 THEN <<>> ELSE SiftToBottom(SwapRemove(q, 1))

-----------------------------------------------------------------------------
(* The operations of PriorityQueue. *)

\* Mutant: the loop ends at the first item that is not higher than the one before.
FindHighestEndsEarly(seen) ==
  CHOOSE i \in DOMAIN seen :
    /\ \A j \in 2 .. i : seen[j] > seen[j - 1]
    /\ i = Len(seen) \/ seen[i + 1] <= seen[i]

\* The first of the highest of the priorities that were read.
FindHighest(seen) ==
  CHOOSE i \in DOMAIN seen : \A j \in DOMAIN seen : seen[j] <= seen[i] /\ (j < i => seen[j] < seen[i])

Push(q, task) == IF kind = "dynamic" THEN Append(q, task) ELSE SiftUp(Append(q, task), Len(q) + 1)

-----------------------------------------------------------------------------
(* The executors and the workers.                                          *)

SchedInit ==
  /\ RingInit
  /\ kind \in Kinds
  /\ priority = [t \in Runnables |-> 0]
  /\ attempts = [t \in Runnables |-> 0] /\ waking = {}
  /\ sources = <<>> /\ inserted = 0 /\ changes = 0
  /\ queue = [e \in 1 .. MaxLen |-> <<>>]
  /\ taken = [w \in Threads |-> Nothing]
  /\ search = [w \in Threads |-> Nothing] /\ was = [t \in Runnables |-> {}]

Queued(t) == \E i \in DOMAIN queue[ExecutorOf[t]] : queue[ExecutorOf[t]][i] = t
Held(t) == \E w \in Threads : taken[w] = t

\* A worker that goes through a queue holds the lock of the executor.
Locked(e) == \E w \in Threads : search[w] # Nothing /\ search[w].of = e

\* An executor is inserted in the bucket when it is made.
InsertExecutor ==
  /\ inserted < MaxLen
  /\ PushSource
  /\ sources' = Append(sources, inserted + 1) /\ inserted' = inserted + 1
  /\ UNCHANGED <<kind, taskVars, changes>>

\* Executors without tasks are dropped, and later removed from the bucket, when
\* one of any bucket has been found to be gone.
RemoveExpired ==
  /\ ClearExpired
  /\ \E kept \in SUBSET DOMAIN sources :
       /\ \A i \in DOMAIN sources \ kept :
            queue[sources[i]] = <<>> /\ \A t \in waking : ExecutorOf[t] # sources[i]
       /\ sources' = Picked(sources, kept)
       /\ len' = Len(sources')
  /\ UNCHANGED <<kind, taskVars, inserted, changes>>

\* Executor::schedule, up to push_work.
ScheduleTask(t) ==
  /\ attempts' = [attempts EXCEPT ![t] = @ + 1]
  /\ waking' = waking \cup {t}
  /\ UNCHANGED <<ringVars, kind, queue, taken, searchVars, sources, inserted, changes>>

\* spawn, and each task of spawn_many: a new task is scheduled at once.  Those
\* of a batch are queued one after the other, and may be taken before its last
\* is spawned.
New(t) == attempts[t] = 0 /\ \E i \in DOMAIN sources : sources[i] = ExecutorOf[t]

SpawnStatic(t, p) ==
  /\ kind = "static" /\ New(t)
  /\ priority' = [priority EXCEPT ![t] = p]
  /\ ScheduleTask(t)

SpawnDynamic(t, p) ==
  /\ kind = "dynamic" /\ New(t)
  /\ priority' = [priority EXCEPT ![t] = p]
  /\ ScheduleTask(t)

SpawnFifo(t) ==
  /\ kind = "fifo" /\ New(t)
  /\ UNCHANGED priority
  /\ ScheduleTask(t)

\* A task that has been polled is woken.
WakeTask(t) ==
  /\ attempts[t] \in 1 .. MaxAttempts - 1
  /\ ~Queued(t) /\ ~Held(t) /\ t \notin waking
  /\ UNCHANGED priority
  /\ ScheduleTask(t)

QueueTask(t) ==
  /\ t \in waking /\ waking' = waking \ {t}
  /\ ~Locked(ExecutorOf[t])
  /\ queue' = [queue EXCEPT ![ExecutorOf[t]] = Push(@, t)]
  /\ UNCHANGED <<ringVars, kind, priority, attempts, taken, searchVars, sources, inserted, changes>>

\* The owner of a dynamic priority changes it, wherever the task is, and whether
\* or not a worker is on its way to it or has passed it.
Reprioritise(t) ==
  /\ kind = "dynamic" /\ attempts[t] > 0 /\ changes < MaxChanges
  /\ \E p \in Priorities :
       /\ p # priority[t] /\ priority' = [priority EXCEPT ![t] = p]
       /\ was' = [was EXCEPT ![t] = IF Locked(ExecutorOf[t]) THEN @ \cup {p} ELSE @]
  /\ changes' = changes + 1
  /\ UNCHANGED <<ringVars, kind, attempts, waking, queue, taken, search, sources, inserted>>

BeginScan(w) ==
  /\ taken[w] = Nothing /\ IterRing(w)
  /\ UNCHANGED <<kind, taskVars, sources, inserted, changes>>

\* find_work of the next executor in the ring.  The top of a heap is taken at
\* once; a dynamic queue is gone through, with the executor's lock held.
Look(w) ==
  LET e == sources[next[w] + 1] IN
  /\ taken[w] = Nothing /\ search[w] = Nothing /\ NextSource(w) /\ ~Locked(e)
  /\ \/ queue[e] = <<>> /\ UNCHANGED <<queue, taken, searchVars>>
     \/ /\ queue[e] # <<>> /\ kind # "dynamic"
        /\ taken' = [taken EXCEPT ![w] = queue[e][1]]
        /\ queue' = [queue EXCEPT ![e] = HeapPop(@)]
        /\ UNCHANGED searchVars
     \/ /\ queue[e] # <<>> /\ kind = "dynamic"
        /\ search' = [search EXCEPT ![w] = [of |-> e, seen |-> <<>>]]
        /\ was' = [t \in Runnables |-> IF ExecutorOf[t] = e THEN {priority[t]} ELSE was[t]]
        /\ UNCHANGED <<queue, taken>>
  /\ UNCHANGED <<kind, priority, attempts, waking, sources, inserted, changes>>

\* The loop of find_highest reads the priority of the next item.
ReadPriority(w) ==
  /\ search[w] # Nothing
  /\ LET q == queue[search[w].of]
         n == Len(search[w].seen) IN
     /\ n < Len(q)
     /\ search' = [search EXCEPT ![w].seen = Append(@, priority[q[n + 1]])]
  /\ UNCHANGED <<ringVars, kind, priority, attempts, waking, queue, taken, was, sources, inserted, changes>>

\* pop takes the item whose priority was the highest when it was read.
TakeHighest(w) ==
  /\ search[w] # Nothing
  /\ LET e == search[w].of
         highest == FindHighest(search[w].seen) IN
     /\ Len(search[w].seen) = Len(queue[e])
     /\ taken' = [taken EXCEPT ![w] = queue[e][highest]]
     /\ queue' = [queue EXCEPT ![e] = SwapRemove(@, highest)]
     /\ was' = [t \in Runnables |-> IF ExecutorOf[t] = e THEN {} ELSE was[t]]
  /\ search' = [search EXCEPT ![w] = Nothing]
  /\ UNCHANGED <<ringVars, kind, priority, attempts, waking, sources, inserted, changes>>

\* The scan ends with work in taken, or where it began.
EndScan(w) ==
  /\ taken[w] # Nothing \/ ring[w] = next[w]
  /\ search[w] = Nothing
  /\ Leave(w)
  /\ UNCHANGED <<kind, taskVars, sources, inserted, changes>>

\* The task is polled, and is done or waits.
RunTask(w) ==
  /\ taken[w] # Nothing /\ ~Iterating(w)
  /\ taken' = [taken EXCEPT ![w] = Nothing]
  /\ UNCHANGED <<ringVars, kind, priority, attempts, waking, queue, searchVars, sources, inserted, changes>>

SchedNext ==
  \/ InsertExecutor \/ RemoveExpired
  \/ \E t \in Runnables, p \in Priorities : SpawnStatic(t, p) \/ SpawnDynamic(t, p)
  \/ \E t \in Runnables : SpawnFifo(t) \/ WakeTask(t) \/ QueueTask(t) \/ Reprioritise(t)
  \/ \E w \in Threads : BeginScan(w) \/ Look(w) \/ ReadPriority(w) \/ TakeHighest(w) \/ EndScan(w) \/ RunTask(w)

SchedSpec == SchedInit /\ [][SchedNext]_schedVars

-----------------------------------------------------------------------------

\* Task b may be taken and a left.  By the keys of a heap: a is not higher.  Of
\* a dynamic queue, whose priorities are read one after the other and may change
\* meanwhile: some priority a had during the search is not above one b had, so
\* that whoever is higher throughout the search is not left for the lower.
MayBeLeft(a, b) ==
  IF kind = "dynamic" THEN \E p \in was[a], q \in was[b] : p <= q ELSE ~Higher(a, b)

\* The highest goes first: a worker takes from a queue a task for which all the
\* others may be left (priority.rs:368-382, 439-463, 593-599).
HighestFirst ==
  [][\A w \in Threads : taken'[w] # taken[w] /\ taken'[w] # Nothing =>
       LET left == queue'[ExecutorOf[taken'[w]]] IN
       \A i \in DOMAIN left : MayBeLeft(left[i], taken'[w])]_taken

\* Round robin: as long as no source is added to the bucket and none of the
\* whole pool is found to have expired, a thread comes back to a source only
\* after it has looked at all the others, however its scans are cut short by
\* work they find; and the source it looks at is always in the bucket, although
\* other threads shrink it (next_idx.clear(), values[next_idx]).  The exception:
\* clear_expired makes all threads begin again at the first source of every
\* bucket (pool.rs:55-60, 133-135), which worker/mod.rs:70-76 does not say.
RoundRobin ==
  [][\A t \in Threads :
       (next'[t] # next[t] /\ ring'[t] # Nothing) => next[t] < len /\ next[t] \notin round[t]]_ringVars
=============================================================================
