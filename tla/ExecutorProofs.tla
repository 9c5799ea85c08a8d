--------------------------- MODULE ExecutorProofs ---------------------------
(***************************************************************************)
(* Proofs about Executor, for any number of workers and tasks, and about   *)
(* Scheduling, for any number of workers, executors, tasks and priorities: *)
(*   - is_empty() is true only when nothing is left, and nothing runs once *)
(*     the executor has been dropped;                                      *)
(*   - a thread goes round the executors of a bucket;                      *)
(*   - what it takes from a queue is the highest there.                    *)
(***************************************************************************)
EXTENDS Executor, Scheduling, SequenceTheorems, WellFoundedInduction, TLAPS

-----------------------------------------------------------------------------
(* The life of tasks.                                                       *)

\* A runnable is with one worker.
OneHand ==
  \A v, w \in Workers : (hand[v] # None /\ hand[v] = hand[w]) => v = w

\* What drop() has moved out stays queued, and nothing is before it begins.
DrainedWait ==
  /\ phase = "live" => drained = {}
  /\ \A t \in drained : state[t] = "queued"

\* While the executor lives, every future that exists has its waker in the slab.
Listed ==
  phase = "live" => \A t \in Tasks : state[t] \in {"new", "closed"} \/ t \in slab

\* A worker that has a runnable is tracked.
Tracked == \A w \in Workers : hand[w] # None => w \in tracked

IInv ==
  TypeOK /\ OneHand /\ DrainedWait /\ Listed /\ Tracked /\ NothingRunsAfterDrop

-----------------------------------------------------------------------------

LEMMA InitStep == Init => IInv
BY ExecutorAssumption
   DEF Init, IInv, TypeOK, TaskStates, OneHand, DrainedWait, Listed, Tracked, NothingRunsAfterDrop

\* The steps of the user and of the wakers, and the drop of a future.
LEMMA TaskKeeps ==
  ASSUME IInv, NEW t \in Tasks, Spawn(t) \/ Wake(t) \/ Cancel(t) \/ Schedule(t) \/ Cleanup(t)
  PROVE  IInv'
<1> USE ExecutorAssumption DEF IInv, TypeOK, TaskStates, OneHand, DrainedWait, Listed, Tracked,
        NothingRunsAfterDrop
<1>1. CASE Spawn(t)
  BY <1>1 DEF Spawn, PushWork, Set, InnerAlive
<1>2. CASE Wake(t)
  BY <1>2 DEF Wake, Set
<1>3. CASE Cancel(t)
  BY <1>3 DEF Cancel, Set
<1>4. CASE Schedule(t)
  BY <1>4 DEF Schedule, PushWork, Set, InnerAlive
<1>5. CASE Cleanup(t)
  BY <1>5 DEF Cleanup, Set, ActiveFree
<1>6. QED  BY <1>1, <1>2, <1>3, <1>4, <1>5

\* The steps of a worker.
LEMMA WorkerKeeps ==
  ASSUME IInv, NEW w \in Workers, WorkerStep(w)
  PROVE  IInv'
<1> USE ExecutorAssumption DEF IInv, TypeOK, TaskStates, OneHand, DrainedWait, Listed, Tracked,
        NothingRunsAfterDrop
<1>1. CASE Run(w)
  BY <1>1 DEF Run, Set
<1>2. CASE PollReady(w)
  BY <1>2 DEF PollReady, Set
<1>3. CASE PollPending(w)
  BY <1>3 DEF PollPending, PushWork, Set, InnerAlive
<1>4. ASSUME NEW t \in Tasks, FindWork(w, t)
      PROVE  IInv'
  BY <1>4 DEF FindWork, Set, InnerAlive
<1>5. QED  BY <1>1, <1>2, <1>3, <1>4 DEF WorkerStep

\* The steps of drop().
LEMMA DropKeeps ==
  ASSUME IInv, TakeInner \/ Drop
  PROVE  IInv'
<1> USE ExecutorAssumption DEF IInv, TypeOK, TaskStates, OneHand, DrainedWait, Listed, Tracked,
        NothingRunsAfterDrop
<1>1. CASE TakeInner
  BY <1>1 DEF TakeInner
<1>2. CASE LockActive
  BY <1>2 DEF LockActive
<1>3. CASE UnlockActive
  BY <1>3 DEF UnlockActive
<1>4. CASE DrainQueue
  BY <1>4 DEF DrainQueue
<1>5. CASE AwaitActive
  BY <1>5 DEF AwaitActive
<1>6. ASSUME NEW t \in Tasks, WakeActive(t)
      PROVE  IInv'
  BY <1>6 DEF WakeActive, Set
<1>7. QED  BY <1>1, <1>2, <1>3, <1>4, <1>5, <1>6 DEF Drop

\* Runnables are with one worker each, tracked while the executor lives; all
\* futures are listed; what drop() moves out of the queue nobody else touches.
THEOREM InductiveInvariant == Spec => []IInv
<1>1. ASSUME IInv, [Next]_vars
      PROVE  IInv'
  <2>1. CASE UNCHANGED vars
    BY <1>1, <2>1 DEF vars, IInv, TypeOK, OneHand, DrainedWait, Listed, Tracked, NothingRunsAfterDrop
  <2>2. CASE Next
    BY <1>1, <2>2, TaskKeeps, WorkerKeeps, DropKeeps DEF Next
  <2>3. QED  BY <1>1, <2>1, <2>2
<1>2. QED  BY InitStep, <1>1, PTL DEF Spec

\* The kinds of values; a worker's runnable is in nobody else's place.
THEOREM TypeCorrect == Spec => []TypeOK
<1>1. IInv => TypeOK  BY DEF IInv
<1>2. QED  BY <1>1, InductiveInvariant, PTL

\* is_empty() is true only when no future of the executor exists any more.
THEOREM EmptyIsDone == Spec => []EmptyMeansDone
<1>1. IInv => EmptyMeansDone  BY DEF IInv, Listed, EmptyMeansDone
<1>2. QED  BY <1>1, InductiveInvariant, PTL

\* When drop() has returned, no worker executes a task of the executor.
THEOREM NoWorkAfterDrop == Spec => []NothingRunsAfterDrop
<1>1. IInv => NothingRunsAfterDrop  BY DEF IInv
<1>2. QED  BY <1>1, InductiveInvariant, PTL

-----------------------------------------------------------------------------
(* The ring of a bucket.                                                    *)

\* What a thread has visited that is at n, in a round of a bucket of that length
\* that began at first.
Visited(length, first, n) ==
  {i \in 0 .. length - 1 : IF first <= n THEN first <= i /\ i < n ELSE first <= i \/ i < n}

\* Where the threads are, and that the round of each is one without a gap that
\* ends where the thread is.
RingInv ==
  /\ len \in Nat /\ next \in [Threads -> Nat] /\ ring \in [Threads -> Nat \cup {Nothing}]
  /\ DOMAIN round = Threads
  /\ \A t \in Threads : /\ next[t] < len \/ (len = 0 /\ next[t] = 0)
                        /\ len = 0 /\ Iterating(t) => ring[t] = 0
                        /\ \E first \in Nat : /\ first < len \/ len = 0
                                              /\ round[t] = Visited(len, first, next[t])

LEMMA RingInitially == RingInit => RingInv
<1> SUFFICES ASSUME RingInit
             PROVE  RingInv
  OBVIOUS
<1>1. len = 0 /\ \A t \in Threads : next[t] = 0 /\ round[t] = {} /\ ring[t] = Nothing
  BY DEF RingInit
<1>2. Visited(len, 0, 0) = {}
  BY <1>1 DEF Visited
<1> QED
  BY <1>1, <1>2 DEF RingInit, RingInv, Iterating

\* A thread looks at a source that it has not looked at in this round, and goes
\* to the one after it.
LEMMA NextSourceKeepsRing ==
  ASSUME RingInv, NEW t \in Threads, NextSource(t)
  PROVE  RingInv' /\ next[t] < len /\ next[t] \notin round[t]
<1> DEFINE n == next[t]
           seen == round[t] \cup {n}
<1>1. PICK first \in Nat : (first < len \/ len = 0) /\ round[t] = Visited(len, first, n)
  BY DEF RingInv
<1>2. len \in Nat /\ n \in Nat /\ n < len /\ first < len
  BY <1>1 DEF RingInv, NextSource
<1>3. n \notin round[t]
  BY <1>1, <1>2 DEF Visited
<1>4. /\ next' = [next EXCEPT ![t] = IF n + 1 >= len THEN 0 ELSE n + 1]
      /\ round' = [round EXCEPT ![t] = IF seen = 0 .. len - 1 THEN {} ELSE seen]
      /\ len' = len
      /\ ring' = [ring EXCEPT ![t] = IF ring[t] = NotStarted THEN n ELSE ring[t]]
  BY DEF NextSource
<1>5. /\ next'[t] = IF n + 1 >= len THEN 0 ELSE n + 1
      /\ round'[t] = IF seen = 0 .. len - 1 THEN {} ELSE seen
  BY <1>4 DEF RingInv
<1> DEFINE m == next'[t]
<1>6. m \in Nat /\ m < len
  BY <1>2, <1>5
<1>7. \E f \in Nat : f < len /\ round'[t] = Visited(len, f, m)
  <2>1. CASE seen = 0 .. len - 1
    <3>1. Visited(len, m, m) = {}
      BY <1>2, <1>6 DEF Visited
    <3> QED
      BY <2>1, <3>1, <1>5, <1>6
  <2>2. CASE seen # 0 .. len - 1
    <3>1. \A i : i \in seen <=> i \in 0 .. len - 1 /\ (i = n \/ IF first <= n THEN first <= i /\ i < n ELSE first <= i \/ i < n)
      BY <1>1, <1>2 DEF Visited
    <3>2. PICK j \in 0 .. len - 1 : j \notin seen
      BY <2>2, <3>1
    <3> HIDE DEF seen, n
    <3>3. \A i : i \in seen <=> i \in 0 .. len - 1 /\ (IF first <= m THEN first <= i /\ i < m ELSE first <= i \/ i < m)
      <4>1. CASE n + 1 < len
        <5>1. m = n + 1 /\ (first > n => first # n + 1)
          BY <1>2, <1>5, <3>1, <3>2, <4>1
        <5> QED
          BY <1>2, <3>1, <5>1
      <4>2. CASE n + 1 >= len
        <5>1. m = 0 /\ n = len - 1 /\ first # 0 /\ first <= n
          BY <1>2, <1>5, <3>1, <3>2, <4>2
        <5> QED
          BY <1>2, <3>1, <5>1
      <4> QED
        BY <4>1, <4>2, <1>2
    <3>4. seen = Visited(len, first, m)
      BY <3>3 DEF Visited
    <3> QED
      BY <2>2, <3>4, <1>2, <1>5
  <2> QED
    BY <2>1, <2>2
<1>8. /\ next' \in [Threads -> Nat] /\ ring' \in [Threads -> Nat \cup {Nothing}] /\ DOMAIN round' = Threads
      /\ \A u \in Threads \ {t} : next'[u] = next[u] /\ round'[u] = round[u] /\ ring'[u] = ring[u]
  BY <1>2, <1>4 DEF RingInv
<1>9. ASSUME NEW u \in Threads
      PROVE  /\ next'[u] < len' \/ (len' = 0 /\ next'[u] = 0)
             /\ len' = 0 /\ Iterating(u)' => ring'[u] = 0
             /\ \E f \in Nat : /\ f < len' \/ len' = 0
                               /\ round'[u] = Visited(len', f, next'[u])
  <2>1. CASE u = t
    BY <2>1, <1>2, <1>4, <1>6, <1>7
  <2>2. CASE u # t
    BY <2>2, <1>2, <1>4, <1>8 DEF RingInv
  <2> QED
    BY <2>1, <2>2
<1> QED
  BY <1>2, <1>3, <1>4, <1>8, <1>9 DEF RingInv

\* No step leaves a gap, and no thread looks at a source twice in a round.
LEMMA RingStep ==
  ASSUME RingInv, [SchedNext]_schedVars
  PROVE  /\ RingInv'
         /\ ringVars' # ringVars => \A t \in Threads : next'[t] # next[t] /\ ring'[t] # Nothing =>
                                     next[t] < len /\ next[t] \notin round[t]
<1> DEFINE Goal == /\ RingInv'
                   /\ ringVars' # ringVars => \A t \in Threads : next'[t] # next[t] /\ ring'[t] # Nothing =>
                                               next[t] < len /\ next[t] \notin round[t]
<1>1. CASE UNCHANGED ringVars
  BY <1>1 DEF ringVars, RingInv, Iterating, Visited
<1>2. CASE PushSource
  <2>1. /\ len \in Nat /\ len' = len + 1 /\ next' = next /\ ring' = ring
        /\ round' = [t \in Threads |-> {}]
    BY <1>2 DEF PushSource, RingInv
  <2>2. ASSUME NEW t \in Threads
        PROVE  next'[t] \in Nat /\ next'[t] < len' /\ round'[t] = Visited(len', next'[t], next'[t])
    <3>1. next[t] \in Nat /\ next'[t] < len'
      BY <2>1 DEF RingInv
    <3> QED
      BY <2>1, <3>1 DEF Visited
  <2> QED
    BY <2>1, <2>2 DEF RingInv
<1>3. CASE ClearExpired
  <2>1. /\ len' \in Nat /\ next' = [t \in Threads |-> 0] /\ ring' = ring
        /\ round' = [t \in Threads |-> {}] /\ \A t \in Threads : ring[t] = Nothing
    BY <1>3 DEF ClearExpired, RingInv, Iterating
  <2>2. Visited(len', 0, 0) = {}
    BY <2>1 DEF Visited
  <2> QED
    BY <2>1, <2>2 DEF RingInv, Iterating
<1>4. ASSUME NEW t \in Threads, IterRing(t) \/ Leave(t)
      PROVE  Goal
  <2>1. /\ len' = len /\ next' = next /\ round' = round /\ \A u \in Threads \ {t} : ring'[u] = ring[u]
        /\ ring'[t] = Nothing \/ (ring'[t] \in Nat /\ (len = 0 => ring'[t] = 0))
        /\ ring' \in [Threads -> Nat \cup {Nothing}]
    BY <1>4, RingAssumption DEF IterRing, Leave, RingInv, NotStarted
  <2> QED
    BY <2>1 DEF RingInv, Iterating, Visited
<1>5. ASSUME NEW t \in Threads, NextSource(t)
      PROVE  Goal
  <2>1. RingInv' /\ next[t] < len /\ next[t] \notin round[t]
    BY <1>5, NextSourceKeepsRing
  <2>2. \A u \in Threads \ {t} : next'[u] = next[u]
    BY <1>5 DEF NextSource, RingInv
  <2> QED
    BY <2>1, <2>2
<1>6. \/ UNCHANGED ringVars \/ PushSource \/ ClearExpired
      \/ \E t \in Threads : IterRing(t) \/ Leave(t) \/ NextSource(t)
  BY DEF SchedNext, schedVars, InsertExecutor, RemoveExpired, SpawnStatic, SpawnDynamic, SpawnFifo,
         WakeTask, QueueTask, Reprioritise, BeginScan, Look, ReadPriority, TakeHighest, EndScan, RunTask, ScheduleTask
<1> QED
  BY <1>1, <1>2, <1>3, <1>4, <1>5, <1>6

\* As long as the bucket does not change, a thread comes back to a source only
\* after it has looked at all the others.
THEOREM ThreadsGoRound == SchedSpec => RoundRobin
<1>1. SchedInit => RingInv
  BY RingInitially DEF SchedInit
<1>2. RingInv /\ [SchedNext]_schedVars => RingInv'
  BY RingStep
<1>3. RingInv /\ [SchedNext]_schedVars =>
        [\A t \in Threads :
           (next'[t] # next[t] /\ ring'[t] # Nothing) => next[t] < len /\ next[t] \notin round[t]]_ringVars
  BY RingStep
<1> QED
  BY <1>1, <1>2, <1>3, PTL DEF SchedSpec, RoundRobin

-----------------------------------------------------------------------------
(* Numbers, and recursion over them.                                        *)

\* What holds of 0, and of a number if it holds of the one before, holds of all.
LEMMA Stays ==
  ASSUME NEW T, NEW n \in Nat, 0 \in T, \A m \in 1 .. n : m - 1 \in T => m \in T
  PROVE  0 .. n \subseteq T
<1> DEFINE Out == {m \in 0 .. n : m \notin T}
           R == OpToRel(<, Nat)
<1> SUFFICES ASSUME Out # {}
             PROVE  FALSE
  OBVIOUS
<1>1. PICK m \in Out : \A k \in Out : ~ (<<k, m>> \in R)
  <2>1. IsWellFoundedOn(R, Nat)
    BY NatLessThanWellFounded
  <2>2. Out \in SUBSET Nat
    OBVIOUS
  <2> HIDE DEF R, Out
  <2> QED
    BY <2>1, <2>2, WFMin
<1>2. m \in 1 .. n
  <2> HIDE DEF R
  <2> QED
    BY <1>1
<1>3. <<m - 1, m>> \in R
  BY <1>2 DEF OpToRel
<1>4. m - 1 \in T /\ m \notin T
  <2> HIDE DEF R
  <2> QED
    BY <1>1, <1>2, <1>3
<1> HIDE DEF R
<1> QED
  BY <1>2, <1>4

\* A recursion has a value at each number.
StepOn(g, n, D) == g \in [(1 .. n) \X D -> D]

Iterates(f, D, base, n, g) ==
  f \in [0 .. n -> D] /\ f[0] = base /\ \A i \in 1 .. n : f[i] = g[<<i, f[i - 1]>>]

LEMMA RecursionExists ==
  ASSUME NEW D, NEW base \in D, NEW n \in Nat, NEW g, StepOn(g, n, D)
  PROVE  \E f : Iterates(f, D, base, n, g)
<1> USE DEF StepOn
<1> DEFINE P(f, m) == /\ f \in [0 .. m -> D] /\ f[0] = base
                      /\ \A i \in 1 .. m : f[i] = g[<<i, f[i - 1]>>]
           T == {m \in Nat : \E f : P(f, m)}
<1>1. 0 \in T
  <2>1. P([i \in 0 .. 0 |-> base], 0)
    OBVIOUS
  <2> QED
    BY <2>1
<1>2. ASSUME NEW m \in 1 .. n, m - 1 \in T
      PROVE  m \in T
  <2>1. PICK f : P(f, m - 1)
    BY <1>2
  <2> DEFINE h == [i \in 0 .. m |-> IF i = m THEN g[<<m, f[m - 1]>>] ELSE f[i]]
  <2>2. m - 1 \in 0 .. m - 1 /\ f[m - 1] \in D
    BY <2>1
  <2>3. g[<<m, f[m - 1]>>] \in D
    BY <2>2
  <2>4. h \in [0 .. m -> D]
    BY <2>1, <2>3
  <2>5. \A i \in 0 .. m - 1 : h[i] = f[i]
    OBVIOUS
  <2>6. h[0] = base
    BY <2>1
  <2>7. ASSUME NEW i \in 1 .. m
        PROVE  h[i] = g[<<i, h[i - 1]>>]
    <3>1. i - 1 \in 0 .. m - 1 /\ h[i - 1] = f[i - 1]
      OBVIOUS
    <3>2. CASE i = m
      <4>1. h[i] = g[<<m, f[m - 1]>>] /\ f[m - 1] = h[i - 1]
        BY <3>1, <3>2
      <4> HIDE DEF h
      <4> QED
        BY <3>2, <4>1
    <3>3. CASE i # m
      <4>1. i \in 1 .. m - 1 /\ h[i] = f[i]
        BY <3>3
      <4> QED
        BY <2>1, <3>1, <4>1
    <3> QED
      BY <3>2, <3>3
  <2>8. P(h, m)
    BY <2>4, <2>6, <2>7
  <2> HIDE DEF P, h
  <2> QED
    BY <2>8
<1> HIDE DEF T, P
<1>3. n \in T
  BY <1>1, <1>2, Stays
<1> QED
  BY <1>3 DEF T, P, Iterates

\* The half of a number.
LEMMA Half ==
  ASSUME NEW i \in Nat, i >= 2
  PROVE  i \div 2 \in 1 .. i - 1 /\ (i = 2 * (i \div 2) \/ i = 2 * (i \div 2) + 1)
OBVIOUS

-----------------------------------------------------------------------------
(* Which task is higher.                                                    *)

Keyed ==
  /\ kind \in {"static", "dynamic", "fifo"}
  /\ priority \in [Runnables -> Nat] /\ attempts \in [Runnables -> Nat]

\* Tasks are ordered, but some are equal.
LEMMA HigherOrders ==
  ASSUME Keyed
  PROVE  /\ \A a \in Runnables : ~Higher(a, a)
         /\ \A a, b \in Runnables : Higher(a, b) => ~Higher(b, a)
         /\ \A a, b, c \in Runnables : ~Higher(a, b) /\ ~Higher(b, c) => ~Higher(a, c)
<1>1. CASE kind = "fifo"
  <2>1. \A a, b \in Runnables : Higher(a, b) <=> attempts[a] > attempts[b]
    BY <1>1 DEF Higher
  <2> QED
    BY <2>1 DEF Keyed
<1>2. CASE kind # "fifo"
  <2>1. \A a, b \in Runnables : Higher(a, b) <=> \/ priority[a] > priority[b]
                                                 \/ priority[a] = priority[b] /\ attempts[a] > attempts[b]
    BY <1>2 DEF Higher
  <2> QED
    BY <2>1 DEF Keyed
<1> QED
  BY <1>1, <1>2

-----------------------------------------------------------------------------
(* The heap of tasks from a set S of them.                                  *)

\* No task is higher than the one above it.
HeapOrdered(q) == \A i \in 2 .. Len(q) : ~Higher(q[i], q[i \div 2])

\* A heap of length n, and the place of a task that moves in it.
Moving(S, n) == {s \in [heap : Seq(S), at : 1 .. n] : Len(s.heap) = n}

\* Only the task that rises may be higher than the one above it; those below
\* it are not higher than that either.
Rising(S, n) ==
  {s \in Moving(S, n) :
     \A i \in 2 .. n : /\ i # s.at => ~Higher(s.heap[i], s.heap[i \div 2])
                       /\ i \div 2 = s.at /\ s.at # 1 => ~Higher(s.heap[i], s.heap[s.at \div 2])}

\* Nor are those below the task that sinks lower than it.
Sinking(S, n) ==
  {s \in Moving(S, n) :
     \A i \in 2 .. n : /\ i # s.at /\ i \div 2 # s.at => ~Higher(s.heap[i], s.heap[i \div 2])
                       /\ i \div 2 = s.at /\ s.at # 1 => ~Higher(s.heap[i], s.heap[s.at \div 2])}

LEMMA MovingIs ==
  ASSUME NEW S, NEW n \in Nat, NEW s \in Moving(S, n)
  PROVE  s.heap \in Seq(S) /\ s.at \in 1 .. n /\ s.at \in Nat /\ Len(s.heap) = n
BY DEF Moving

\* Members of q at i and j are each other's in p.
Exchanged(p, q, i, j, S) ==
  /\ p \in Seq(S) /\ Len(p) = Len(q)
  /\ \A k \in 1 .. Len(q) : p[k] = IF k = j THEN q[i] ELSE IF k = i THEN q[j] ELSE q[k]

LEMMA SwappedIs ==
  ASSUME NEW S, NEW q \in Seq(S), NEW i \in 1 .. Len(q), NEW j \in 1 .. Len(q)
  PROVE  Exchanged(Swapped(q, i, j), q, i, j, S)
<1>1. q[i] \in S /\ q[j] \in S /\ DOMAIN q = 1 .. Len(q) /\ Len(q) \in Nat /\ q \in [1 .. Len(q) -> S]
  OBVIOUS
<1> DEFINE p == [q EXCEPT ![i] = q[j], ![j] = q[i]]
<1>2. p \in [1 .. Len(q) -> S]
  BY <1>1
<1>3. p \in Seq(S) /\ Len(p) = Len(q)
  BY <1>1, <1>2
<1>4. \A k \in 1 .. Len(q) : p[k] = IF k = j THEN q[i] ELSE IF k = i THEN q[j] ELSE q[k]
  BY <1>1
<1> QED
  BY <1>3, <1>4 DEF Swapped, Exchanged

\* A task changes places with the one above it, which leaves the order below.
LEMMA RiseKeeps ==
  ASSUME Keyed, NEW S \in SUBSET Runnables, NEW n \in Nat, NEW s \in Rising(S, n)
  PROVE  /\ Rise(s) \in Rising(S, n)
         /\ HeapOrdered(s.heap) => Rise(s) = s
         /\ Rise(s).at < s.at \/ (Rise(s) = s /\ HeapOrdered(s.heap))
<1> DEFINE h == s.heap
           at == s.at
           up == at \div 2
<1>1. /\ h \in Seq(S) /\ at \in 1 .. n /\ Len(h) = n /\ s \in Moving(S, n)
      /\ \A i \in 2 .. n : /\ i # at => ~Higher(h[i], h[i \div 2])
                           /\ i \div 2 = at /\ at # 1 => ~Higher(h[i], h[up])
  BY DEF Rising, Moving
<1>2. CASE at = 1 \/ ~Higher(h[at], h[up])
  <2>1. Rise(s) = s
    BY <1>2 DEF Rise
  <2>2. HeapOrdered(h)
    BY <1>1, <1>2 DEF HeapOrdered
  <2> QED
    BY <2>1, <2>2
<1>3. CASE ~(at = 1 \/ ~Higher(h[at], h[up]))
  <2>1. at \in 2 .. n /\ Higher(h[at], h[up])
    BY <1>1, <1>3
  <2>2. up \in 1 .. at - 1 /\ up \in 1 .. n
    BY <2>1, <1>1, Half
  <2>3. ~HeapOrdered(h)
    BY <1>1, <2>1 DEF HeapOrdered
  <2> DEFINE p == Swapped(h, at, up)
  <2>4. Rise(s) = [heap |-> p, at |-> up]
    BY <1>3 DEF Rise
  <2>5. /\ p \in Seq(S) /\ Len(p) = n
        /\ \A k \in 1 .. n : p[k] = IF k = up THEN h[at] ELSE IF k = at THEN h[up] ELSE h[k]
    <3>1. at \in 1 .. Len(h) /\ up \in 1 .. Len(h)
      BY <1>1, <2>2
    <3>2. h \in Seq(S) /\ Len(h) = n
      BY <1>1
    <3> HIDE DEF h, at, up
    <3>3. Exchanged(p, h, at, up, S)
      BY <3>1, <3>2, SwappedIs
    <3> HIDE DEF p
    <3> QED
      BY <3>2, <3>3 DEF Exchanged
  <2>6. \A k \in 1 .. n : h[k] \in Runnables
    BY <1>1
  <2>7. ASSUME NEW i \in 2 .. n
        PROVE  /\ i # up => ~Higher(p[i], p[i \div 2])
               /\ i \div 2 = up /\ up # 1 => ~Higher(p[i], p[up \div 2])
    <3> DEFINE j == i \div 2
    <3>1. j \in 1 .. n /\ j < i /\ i \in 1 .. n
      BY <1>1, Half
    <3>2. i # up => ~Higher(p[i], p[j])
      <4>1. CASE i = at
        <5>1. p[i] = h[up] /\ p[j] = h[at]
          BY <2>2, <2>5, <4>1
        <5> QED
          BY <2>1, <2>2, <2>6, <5>1, <1>1, HigherOrders
      <4>2. CASE i # at /\ j = at
        <5>1. i # up => p[i] = h[i] /\ p[j] = h[up] /\ ~Higher(h[i], h[up])
          <6>1. i # up => p[i] = h[i] /\ p[j] = h[up]
            BY <1>1, <2>2, <2>5, <3>1, <4>2
          <6>2. ~Higher(h[i], h[up])
            BY <1>1, <2>1, <4>2
          <6> QED
            BY <6>1, <6>2
        <5> QED
          BY <5>1
      <4>3. CASE i # at /\ j = up
        <5>1. p[j] = h[at] /\ ~Higher(h[i], h[up]) /\ (i # up => p[i] = h[i])
          <6>1. p[j] = h[at] /\ (i # up => p[i] = h[i])
            BY <2>2, <2>5, <3>1, <4>3
          <6>2. ~Higher(h[i], h[up])
            BY <1>1, <4>3
          <6> QED
            BY <6>1, <6>2
        <5>2. ~Higher(h[up], h[at])
          BY <1>1, <2>1, <2>2, <2>6, HigherOrders
        <5>3. ~Higher(h[i], h[at])
          BY <1>1, <2>2, <2>6, <3>1, <5>1, <5>2, HigherOrders
        <5> QED
          BY <5>1, <5>3
      <4>4. CASE i # at /\ j # at /\ j # up
        BY <1>1, <2>5, <3>1, <4>4
      <4> QED
        BY <4>1, <4>2, <4>3, <4>4
    <3>3. ASSUME j = up, up # 1
          PROVE  ~Higher(p[i], p[up \div 2])
      <4> DEFINE top == up \div 2
      <4>1. top \in 1 .. up - 1 /\ top \in 1 .. n /\ up \in 2 .. n
        BY <2>2, <3>3, Half
      <4>2. p[top] = h[top] /\ ~Higher(h[up], h[top])
        <5>1. up # at /\ top # at /\ top # up
          BY <1>1, <2>2, <4>1
        <5>2. p[top] = h[top]
          BY <2>5, <4>1, <5>1
        <5>3. ~Higher(h[up], h[top])
          BY <1>1, <4>1, <5>1
        <5> QED
          BY <5>2, <5>3
      <4>3. CASE i = at
        BY <2>2, <2>5, <4>2, <4>3
      <4>4. CASE i # at
        <5>1. i # up
          BY <1>1, <3>1, <3>3
        <5>2. p[i] = h[i]
          BY <2>5, <3>1, <4>4, <5>1
        <5>3. ~Higher(h[i], h[up])
          BY <1>1, <3>3, <4>4
        <5>4. h[i] \in Runnables /\ h[up] \in Runnables /\ h[top] \in Runnables
          BY <2>2, <2>6, <3>1, <4>1
        <5> QED
          BY <4>2, <5>2, <5>3, <5>4, HigherOrders
      <4> QED
        BY <4>3, <4>4
    <3> QED
      BY <3>2, <3>3
  <2>8. Rise(s) \in Rising(S, n)
    <3> DEFINE r == [heap |-> p, at |-> up]
    <3>1. r \in Moving(S, n) /\ r.heap = p /\ r.at = up
      BY <2>2, <2>5 DEF Moving
    <3> HIDE DEF r, p
    <3>2. r \in Rising(S, n)
      BY <2>7, <3>1 DEF Rising
    <3> QED
      BY <2>4, <3>2 DEF r
  <2>9. Rise(s).at < s.at
    BY <1>1, <2>2, <2>4
  <2> QED
    BY <2>3, <2>8, <2>9
<1> QED
  BY <1>2, <1>3

\* What has risen as far as it can leaves a heap in order.
LEMMA SiftUpOrders ==
  ASSUME Keyed, NEW S \in SUBSET Runnables, NEW q, NEW i, [heap |-> q, at |-> i] \in Rising(S, Len(q))
  PROVE  SiftUp(q, i) \in Seq(S) /\ HeapOrdered(SiftUp(q, i))
<1> DEFINE start == [heap |-> q, at |-> i]
           n == Len(q)
           Solves(f) == f = [m \in 0 .. i |-> IF m = 0 THEN start ELSE Rise(f[m - 1])]
           after == CHOOSE f : Solves(f)
           D == Rising(S, n)
           g == [x \in (1 .. i) \X D |-> Rise(x[2])]
<1>1. q \in Seq(S) /\ n \in Nat /\ i \in 1 .. n /\ i \in Nat /\ start \in D
  BY DEF Rising, Moving
<1>2. StepOn(g, i, D)
  BY <1>1, RiseKeeps DEF StepOn
<1>3. PICK f \in [0 .. i -> D] : f[0] = start /\ \A m \in 1 .. i : f[m] = g[<<m, f[m - 1]>>]
  <2> HIDE DEF g, D, start
  <2>1. \E f : Iterates(f, D, start, i, g)
    BY <1>1, <1>2, RecursionExists
  <2> QED
    BY <2>1 DEF Iterates
<1>4. Solves(f)
  <2>1. ASSUME NEW m \in 1 .. i
        PROVE  f[m] = Rise(f[m - 1])
    <3>1. m - 1 \in 0 .. i /\ f[m - 1] \in D
      BY <1>1, <1>3
    <3>2. f[m] = g[<<m, f[m - 1]>>]
      BY <1>3
    <3> HIDE DEF D
    <3> QED
      BY <3>1, <3>2
  <2> HIDE DEF start, D, g
  <2> QED
    BY <1>1, <1>3, <2>1
<1>5. Solves(after)
  <2> HIDE DEF Solves
  <2> QED
    BY <1>4
<1> HIDE DEF after
<1>6. after[0] = start /\ \A m \in 1 .. i : after[m] = Rise(after[m - 1])
  <2>1. \A m \in 1 .. i : m \in 0 .. i /\ m # 0
    BY <1>1
  <2>2. 0 \in 0 .. i
    BY <1>1
  <2> HIDE DEF start
  <2> QED
    BY <1>5, <2>1, <2>2
<1> DEFINE T == {m \in 0 .. i : /\ after[m] \in D
                                /\ after[m].at <= i - m \/ HeapOrdered(after[m].heap)}
<1>7. 0 \in T
  <2>1. after[0].at <= i - 0
    BY <1>1, <1>6
  <2> HIDE DEF D
  <2> QED
    BY <1>1, <1>6, <2>1
<1>8. ASSUME NEW m \in 1 .. i, m - 1 \in T
      PROVE  m \in T
  <2> DEFINE s == after[m - 1]
  <2>1. s \in D /\ (s.at <= i - (m - 1) \/ HeapOrdered(s.heap)) /\ after[m] = Rise(s)
    BY <1>6, <1>8
  <2>2. /\ Rise(s) \in D
        /\ HeapOrdered(s.heap) => Rise(s) = s
        /\ Rise(s).at < s.at \/ (Rise(s) = s /\ HeapOrdered(s.heap))
    BY <1>1, <2>1, RiseKeeps
  <2> HIDE DEF s
  <2>3. s.at \in Nat /\ Rise(s).at \in Nat
    <3>1. D \subseteq Moving(S, n)
      BY DEF Rising
    <3> HIDE DEF D
    <3>2. s \in Moving(S, n) /\ Rise(s) \in Moving(S, n)
      BY <2>1, <2>2, <3>1
    <3> QED
      BY <1>1, <3>2, MovingIs
  <2> HIDE DEF D
  <2>4. Rise(s).at <= i - m \/ HeapOrdered(Rise(s).heap)
    BY <1>1, <2>1, <2>2, <2>3
  <2> QED
    BY <1>1, <2>1, <2>2, <2>4
<1>9. i \in T
  <2> HIDE DEF T
  <2>1. 0 .. i \subseteq T
    BY <1>1, <1>7, <1>8, Stays
  <2> QED
    BY <1>1, <2>1
<1>10. after[i].heap \in Seq(S) /\ HeapOrdered(after[i].heap)
  <2>1. after[i] \in D /\ (after[i].at <= i - i \/ HeapOrdered(after[i].heap))
    BY <1>9
  <2>2. after[i].heap \in Seq(S) /\ after[i].at \in 1 .. n
    BY <2>1 DEF Rising, Moving
  <2> QED
    BY <1>1, <2>1, <2>2
<1>11. SiftUp(q, i) = after[i].heap
  BY DEF SiftUp, after, Solves, start
<1> QED
  BY <1>10, <1>11

\* A task changes places with the higher of those below it, until there is none.
LEMMA SinkKeeps ==
  ASSUME Keyed, NEW S \in SUBSET Runnables, NEW n \in Nat, NEW s \in Sinking(S, n)
  PROVE  /\ Sink(s) \in Sinking(S, n)
         /\ IF 2 * s.at > n THEN Sink(s) = s /\ s \in Rising(S, n) ELSE Sink(s).at > s.at
<1> DEFINE h == s.heap
           at == s.at
           left == 2 * at
           child == IF left < n /\ ~Higher(h[left], h[left + 1]) THEN left + 1 ELSE left
<1>1. /\ h \in Seq(S) /\ at \in 1 .. n /\ Len(h) = n /\ s \in Moving(S, n)
      /\ \A i \in 2 .. n : /\ i # at /\ i \div 2 # at => ~Higher(h[i], h[i \div 2])
                           /\ i \div 2 = at /\ at # 1 => ~Higher(h[i], h[at \div 2])
  BY DEF Sinking, Moving
<1>2. CASE left > n
  <2>1. Sink(s) = s
    BY <1>1, <1>2 DEF Sink
  <2>2. \A i \in 2 .. n : i \div 2 # at
    BY <1>1, <1>2, Half
  <2>3. s \in Rising(S, n)
    BY <1>1, <2>2 DEF Rising
  <2> QED
    BY <1>2, <2>1, <2>3
<1>3. CASE ~(left > n)
  <2>1. child \in {left, left + 1} /\ child \in 2 .. n /\ child > at
    BY <1>1, <1>3
  <2>2. child \div 2 = at
    BY <1>1, <2>1
  <2>3. \A k \in 1 .. n : h[k] \in Runnables
    BY <1>1
  <2>4. \A i \in 2 .. n : i \div 2 = at => ~Higher(h[i], h[child])
    <3> SUFFICES ASSUME NEW i \in 2 .. n, i \div 2 = at
                 PROVE  ~Higher(h[i], h[child])
      OBVIOUS
    <3>1. i = left \/ i = left + 1
      <4>1. i \in Nat /\ i >= 2
        BY <1>1
      <4>2. i = 2 * (i \div 2) \/ i = 2 * (i \div 2) + 1
        BY <4>1, Half
      <4> QED
        BY <4>2
    <3>2. h[i] \in Runnables /\ h[child] \in Runnables
      BY <2>1, <2>3
    <3>3. CASE i = child
      BY <3>2, <3>3, HigherOrders
    <3>4. CASE i = left /\ child = left + 1
      <4>1. ~Higher(h[left], h[left + 1])
        BY <1>1, <3>4
      <4> QED
        BY <3>4, <4>1
    <3>5. CASE i = left + 1 /\ child = left
      <4>1. Higher(h[left], h[left + 1])
        BY <1>1, <3>5
      <4> QED
        BY <3>2, <3>5, <4>1, HigherOrders
    <3> QED
      BY <2>1, <3>1, <3>3, <3>4, <3>5
  <2> DEFINE p == Swapped(h, at, child)
  <2>5. Sink(s) = [heap |-> p, at |-> child]
    BY <1>1, <1>3 DEF Sink
  <2> HIDE DEF child, left
  <2>6. /\ p \in Seq(S) /\ Len(p) = n
        /\ \A k \in 1 .. n : p[k] = IF k = child THEN h[at] ELSE IF k = at THEN h[child] ELSE h[k]
    <3>1. at \in 1 .. Len(h) /\ child \in 1 .. Len(h)
      BY <1>1, <2>1
    <3>2. h \in Seq(S) /\ Len(h) = n
      BY <1>1
    <3> HIDE DEF h, at
    <3>3. Exchanged(p, h, at, child, S)
      BY <3>1, <3>2, SwappedIs
    <3> HIDE DEF p
    <3> QED
      BY <3>2, <3>3 DEF Exchanged
  <2> HIDE DEF p
  <2>7. ASSUME NEW i \in 2 .. n
        PROVE  /\ i # child /\ i \div 2 # child => ~Higher(p[i], p[i \div 2])
               /\ i \div 2 = child /\ child # 1 => ~Higher(p[i], p[child \div 2])
    <3> DEFINE j == i \div 2
    <3>1. j \in 1 .. n /\ j < i /\ i \in 1 .. n
      BY <1>1, Half
    <3>2. ASSUME i # child, j # child
          PROVE  ~Higher(p[i], p[j])
      <4>1. CASE i = at
        <5>1. p[i] = h[child] /\ p[j] = h[j]
          BY <1>1, <2>1, <2>6, <3>1, <3>2, <4>1
        <5>2. ~Higher(h[child], h[j])
          BY <1>1, <2>1, <2>2, <4>1
        <5> QED
          BY <5>1, <5>2
      <4>2. CASE j = at
        <5>1. p[i] = h[i] /\ p[j] = h[child]
          BY <1>1, <2>1, <2>6, <3>1, <3>2, <4>2
        <5> QED
          BY <2>4, <4>2, <5>1
      <4>3. CASE i # at /\ j # at
        <5>1. p[i] = h[i] /\ p[j] = h[j]
          BY <2>6, <3>1, <3>2, <4>3
        <5> QED
          BY <1>1, <4>3, <5>1
      <4> QED
        BY <4>1, <4>2, <4>3
    <3>3. ASSUME j = child
          PROVE  ~Higher(p[i], p[child \div 2])
      <4>1. p[i] = h[i] /\ p[at] = h[child]
        BY <1>1, <2>1, <2>6, <3>1, <3>3
      <4>2. ~Higher(h[i], h[j])
        BY <1>1, <2>1, <3>1, <3>3
      <4> QED
        BY <2>2, <3>3, <4>1, <4>2
    <3> QED
      BY <3>2, <3>3
  <2>8. Sink(s) \in Sinking(S, n)
    <3> DEFINE r == [heap |-> p, at |-> child]
    <3>1. r \in Moving(S, n) /\ r.heap = p /\ r.at = child
      BY <2>1, <2>6 DEF Moving
    <3> HIDE DEF r
    <3>2. r \in Sinking(S, n)
      BY <2>7, <3>1 DEF Sinking
    <3> QED
      BY <2>5, <3>2 DEF r, p, child
  <2>9. Sink(s).at > s.at
    BY <2>1, <2>5 DEF p, child
  <2> QED
    BY <1>3, <2>8, <2>9 DEF left
<1> QED
  BY <1>2, <1>3

\* What has sunk to the bottom, and risen from there, leaves a heap in order.
LEMMA SiftToBottomOrders ==
  ASSUME Keyed, NEW S \in SUBSET Runnables, NEW q, [heap |-> q, at |-> 1] \in Sinking(S, Len(q))
  PROVE  SiftToBottom(q) \in Seq(S) /\ HeapOrdered(SiftToBottom(q))
<1> DEFINE start == [heap |-> q, at |-> 1]
           n == Len(q)
           Solves(f) == f = [m \in 0 .. n |-> IF m = 0 THEN start ELSE Sink(f[m - 1])]
           after == CHOOSE f : Solves(f)
           D == Sinking(S, n)
           g == [x \in (1 .. n) \X D |-> Sink(x[2])]
<1>1. q \in Seq(S) /\ n \in Nat /\ 1 \in 1 .. n /\ start \in D
  BY DEF Sinking, Moving
<1>2. StepOn(g, n, D)
  BY <1>1, SinkKeeps DEF StepOn
<1>3. PICK f \in [0 .. n -> D] : f[0] = start /\ \A m \in 1 .. n : f[m] = g[<<m, f[m - 1]>>]
  <2> HIDE DEF g, D, start, n
  <2>1. \E f : Iterates(f, D, start, n, g)
    BY <1>1, <1>2, RecursionExists
  <2> QED
    BY <2>1 DEF Iterates
<1>4. Solves(f)
  <2>1. ASSUME NEW m \in 1 .. n
        PROVE  f[m] = Sink(f[m - 1])
    <3>1. m - 1 \in 0 .. n /\ f[m - 1] \in D
      BY <1>1, <1>3
    <3>2. f[m] = g[<<m, f[m - 1]>>]
      BY <1>3
    <3> HIDE DEF D
    <3> QED
      BY <3>1, <3>2
  <2> HIDE DEF start, D, g, n
  <2> QED
    BY <1>1, <1>3, <2>1
<1>5. Solves(after)
  <2> HIDE DEF Solves
  <2> QED
    BY <1>4
<1> HIDE DEF after
<1>6. after[0] = start /\ \A m \in 1 .. n : after[m] = Sink(after[m - 1])
  <2>1. \A m \in 1 .. n : m \in 0 .. n /\ m # 0
    BY <1>1
  <2>2. 0 \in 0 .. n
    BY <1>1
  <2> HIDE DEF start
  <2> QED
    BY <1>5, <2>1, <2>2
<1> DEFINE T == {m \in 0 .. n : /\ after[m] \in D
                                /\ after[m].at >= m + 1 \/ 2 * after[m].at > n}
<1>7. 0 \in T
  <2>1. after[0].at >= 0 + 1
    BY <1>1, <1>6
  <2> HIDE DEF D
  <2> QED
    BY <1>1, <1>6, <2>1
<1>8. ASSUME NEW m \in 1 .. n, m - 1 \in T
      PROVE  m \in T
  <2> DEFINE s == after[m - 1]
  <2>1. s \in D /\ (s.at >= (m - 1) + 1 \/ 2 * s.at > n) /\ after[m] = Sink(s)
    BY <1>6, <1>8
  <2>2. /\ Sink(s) \in D
        /\ IF 2 * s.at > n THEN Sink(s) = s ELSE Sink(s).at > s.at
    BY <1>1, <2>1, SinkKeeps
  <2> HIDE DEF s
  <2>3. s.at \in Nat /\ Sink(s).at \in Nat
    <3>1. D \subseteq Moving(S, n)
      BY DEF Sinking
    <3> HIDE DEF D
    <3>2. s \in Moving(S, n) /\ Sink(s) \in Moving(S, n)
      BY <2>1, <2>2, <3>1
    <3> QED
      BY <1>1, <3>2, MovingIs
  <2> HIDE DEF D
  <2>4. Sink(s).at >= m + 1 \/ 2 * Sink(s).at > n
    BY <1>1, <2>1, <2>2, <2>3
  <2> QED
    BY <1>1, <2>1, <2>2, <2>4
<1>9. n \in T
  <2> HIDE DEF T
  <2>1. 0 .. n \subseteq T
    BY <1>1, <1>7, <1>8, Stays
  <2> QED
    BY <1>1, <2>1
<1> DEFINE b == after[n]
<1>10. b \in Rising(S, n)
  <2>1. b \in D /\ (b.at >= n + 1 \/ 2 * b.at > n)
    BY <1>9
  <2>2. b.at \in 1 .. n
    BY <2>1, <1>1 DEF Sinking, Moving
  <2>3. 2 * b.at > n
    BY <1>1, <2>1, <2>2
  <2> QED
    BY <1>1, <2>1, <2>3, SinkKeeps
<1>11. b = [heap |-> b.heap, at |-> b.at] /\ Len(b.heap) = n
  BY <1>10 DEF Rising, Moving
<1>12. SiftUp(b.heap, b.at) \in Seq(S) /\ HeapOrdered(SiftUp(b.heap, b.at))
  <2> HIDE DEF b, n
  <2>1. [heap |-> b.heap, at |-> b.at] \in Rising(S, Len(b.heap))
    BY <1>10, <1>11
  <2> QED
    BY <2>1, SiftUpOrders
<1>13. SiftToBottom(q) = SiftUp(b.heap, b.at)
  BY DEF SiftToBottom, after, Solves, start, b, n
<1> QED
  BY <1>12, <1>13

-----------------------------------------------------------------------------
(* The queue of an executor.                                                *)

\* What PushWork and find_work leave, whatever the kind of the executor.
Queue(q, S) == q \in Seq(S) /\ (kind # "dynamic" => HeapOrdered(q))

\* No task is higher than the first of a heap.
LEMMA FirstIsHighest ==
  ASSUME Keyed, NEW q \in Seq(Runnables), HeapOrdered(q), NEW i \in 1 .. Len(q)
  PROVE  ~Higher(q[i], q[1])
<1> DEFINE n == Len(q)
           T == {m \in 0 .. n : \A k \in 1 .. n : k <= m => ~Higher(q[k], q[1])}
<1>1. n \in Nat /\ \A k \in 1 .. n : q[k] \in Runnables
  OBVIOUS
<1>2. 0 \in T
  BY <1>1
<1>3. ASSUME NEW m \in 1 .. n, m - 1 \in T
      PROVE  m \in T
  <2>1. \A k \in 1 .. n : k <= m - 1 => ~Higher(q[k], q[1])
    BY <1>3
  <2>2. ~Higher(q[m], q[1])
    <3>1. CASE m = 1
      BY <1>1, <3>1, HigherOrders
    <3>2. CASE m # 1
      <4>1. m \in Nat /\ m >= 2
        BY <1>1, <3>2
      <4>2. m \div 2 \in 1 .. m - 1
        BY <4>1, Half
      <4>3. m \div 2 \in 1 .. n /\ m \div 2 <= m - 1
        BY <1>1, <4>2
      <4>4. ~Higher(q[m], q[m \div 2]) /\ ~Higher(q[m \div 2], q[1])
        BY <1>1, <2>1, <3>2, <4>3 DEF HeapOrdered
      <4>5. q[m] \in Runnables /\ q[m \div 2] \in Runnables /\ q[1] \in Runnables
        BY <1>1, <4>3
      <4> QED
        BY <4>4, <4>5, HigherOrders
    <3> QED
      BY <3>1, <3>2
  <2>3. \A k \in 1 .. n : k <= m => k <= m - 1 \/ k = m
    BY <1>1
  <2> QED
    BY <1>1, <2>1, <2>2, <2>3
<1>4. n \in T
  <2> HIDE DEF T
  <2>1. 0 .. n \subseteq T
    BY <1>1, <1>2, <1>3, Stays
  <2> QED
    BY <1>1, <2>1
<1> QED
  BY <1>1, <1>4

\* There is a first of the highest of some priorities.
LEMMA FindHighestIs ==
  ASSUME NEW seen \in Seq(Nat), seen # <<>>
  PROVE  LET i == FindHighest(seen) IN i \in 1 .. Len(seen) /\ \A j \in 1 .. Len(seen) : seen[j] <= seen[i]
<1> DEFINE n == Len(seen)
           Good(i, m) == i \in 1 .. m /\ \A j \in 1 .. m : seen[j] <= seen[i] /\ (j < i => seen[j] < seen[i])
           T == {m \in 0 .. n : m = 0 \/ \E i \in 1 .. n : Good(i, m)}
<1>1. n \in Nat /\ n > 0 /\ DOMAIN seen = 1 .. n /\ \A k \in 1 .. n : seen[k] \in Nat
  OBVIOUS
<1>2. 0 \in T
  BY <1>1
<1>3. ASSUME NEW m \in 1 .. n, m - 1 \in T
      PROVE  m \in T
  <2>1. CASE m = 1
    <3>1. Good(1, m)
      BY <1>1, <2>1
    <3> HIDE DEF Good
    <3> QED
      BY <1>1, <3>1
  <2>2. CASE m # 1
    <3>1. PICK i \in 1 .. n : Good(i, m - 1)
      BY <1>1, <1>3, <2>2
    <3>2. i \in 1 .. m - 1 /\ \A j \in 1 .. m : j \in 1 .. n /\ (j \in 1 .. m - 1 \/ j = m)
      BY <1>1, <3>1
    <3>3. CASE seen[m] > seen[i]
      <4>1. Good(m, m)
        BY <1>1, <3>1, <3>2, <3>3
      <4> HIDE DEF Good
      <4> QED
        BY <1>1, <4>1
    <3>4. CASE ~(seen[m] > seen[i])
      <4>1. Good(i, m)
        BY <1>1, <3>1, <3>2, <3>4
      <4> HIDE DEF Good
      <4> QED
        BY <1>1, <4>1
    <3> QED
      BY <3>3, <3>4
  <2> QED
    BY <2>1, <2>2
<1>4. n \in T
  <2> HIDE DEF T
  <2>1. 0 .. n \subseteq T
    BY <1>1, <1>2, <1>3, Stays
  <2> QED
    BY <1>1, <2>1
<1>5. \E i \in DOMAIN seen : \A j \in DOMAIN seen : seen[j] <= seen[i] /\ (j < i => seen[j] < seen[i])
  <2>1. PICK i \in 1 .. n : Good(i, n)
    BY <1>1, <1>4
  <2> QED
    BY <1>1, <2>1
<1> QED
  BY <1>1, <1>5 DEF FindHighest

\* The last member of q is at i in r.
Removed(r, q, i, S) ==
  /\ r \in Seq(S) /\ Len(r) = Len(q) - 1
  /\ \A k \in 1 .. Len(q) - 1 : r[k] = IF k = i THEN q[Len(q)] ELSE q[k]

LEMMA SwapRemoveIs ==
  ASSUME NEW S, NEW q \in Seq(S), NEW i \in 1 .. Len(q)
  PROVE  Removed(SwapRemove(q, i), q, i, S)
<1> DEFINE n == Len(q)
           p == [q EXCEPT ![i] = q[n]]
           r == SubSeq(p, 1, n - 1)
<1>1. n \in Nat /\ n >= 1 /\ n - 1 \in Nat /\ q[n] \in S /\ q \in [1 .. n -> S]
  OBVIOUS
<1>2. p \in [1 .. n -> S] /\ \A k \in 1 .. n : p[k] = IF k = i THEN q[n] ELSE q[k]
  BY <1>1
<1>3. p \in Seq(S) /\ Len(p) = n
  BY <1>1, <1>2
<1>4. r \in Seq(S) /\ Len(r) = n - 1 /\ \A k \in 1 .. n - 1 : r[k] = p[k]
  <2> HIDE DEF p, n
  <2> QED
    BY <1>1, <1>3
<1> QED
  BY <1>1, <1>2, <1>4 DEF SwapRemove, Removed

\* What is left of a heap is a heap of what was in it.
LEMMA PopKeeps ==
  ASSUME Keyed, NEW S \in SUBSET Runnables, NEW q, Queue(q, S), q # <<>>, kind # "dynamic"
  PROVE  Queue(HeapPop(q), S)
<1>1. q \in Seq(S) /\ Len(q) \in Nat /\ Len(q) >= 1 /\ DOMAIN q = 1 .. Len(q)
  BY DEF Queue
<1>2. CASE Len(q) = 1
  <2>1. HeapPop(q) = <<>>
    BY <1>2 DEF HeapPop
  <2>2. HeapOrdered(<<>>)
    BY DEF HeapOrdered
  <2> QED
    BY <2>1, <2>2 DEF Queue
<1>3. CASE Len(q) # 1
  <2> DEFINE r == SwapRemove(q, 1)
             n == Len(r)
             s == [heap |-> r, at |-> 1]
  <2>1. /\ r \in Seq(S) /\ n = Len(q) - 1
        /\ \A k \in 1 .. n : r[k] = IF k = 1 THEN q[Len(q)] ELSE q[k]
    <3>1. 1 \in 1 .. Len(q)
      BY <1>1
    <3>2. Removed(r, q, 1, S)
      BY <1>1, <3>1, SwapRemoveIs
    <3> HIDE DEF r
    <3> QED
      BY <3>2 DEF Removed
  <2> HIDE DEF r
  <2>2. n \in Nat /\ n >= 1
    BY <1>1, <1>3, <2>1
  <2>3. s \in Moving(S, n) /\ s.heap = r /\ s.at = 1
    BY <2>1, <2>2 DEF Moving
  <2>4. ASSUME NEW i \in 2 .. n, i \div 2 # 1
        PROVE  ~Higher(r[i], r[i \div 2])
    <3>1. i \in Nat /\ i >= 2 /\ i \in 1 .. n /\ i \in 2 .. Len(q)
      BY <1>1, <2>1, <2>2
    <3>2. i \div 2 \in 1 .. i - 1
      BY <3>1, Half
    <3>3. i \div 2 \in 1 .. n
      BY <2>2, <3>1, <3>2
    <3>4. r[i] = q[i] /\ r[i \div 2] = q[i \div 2]
      BY <2>1, <2>4, <3>1, <3>3
    <3> QED
      BY <3>1, <3>4 DEF Queue, HeapOrdered
  <2> HIDE DEF s
  <2>5. s \in Sinking(S, n)
    BY <2>3, <2>4 DEF Sinking
  <2>6. SiftToBottom(r) \in Seq(S) /\ HeapOrdered(SiftToBottom(r))
    BY <2>5, SiftToBottomOrders DEF s
  <2>7. HeapPop(q) = SiftToBottom(r)
    BY <1>3 DEF HeapPop, r
  <2> QED
    BY <2>6, <2>7 DEF Queue
<1> QED
  BY <1>2, <1>3

\* A task that is queued is put in its place.
LEMMA PushKeeps ==
  ASSUME Keyed, NEW S \in SUBSET Runnables, NEW q, Queue(q, S), NEW t \in S
  PROVE  Queue(Push(q, t), S)
<1> DEFINE p == Append(q, t)
           n == Len(p)
           s == [heap |-> p, at |-> n]
<1>1. q \in Seq(S) /\ Len(q) \in Nat
  BY DEF Queue
<1>2. p \in Seq(S) /\ n = Len(q) + 1 /\ \A k \in 1 .. Len(q) : p[k] = q[k]
  BY <1>1
<1> HIDE DEF p
<1>3. CASE kind = "dynamic"
  BY <1>2, <1>3 DEF Push, Queue, p
<1>4. CASE kind # "dynamic"
  <2>1. s \in Moving(S, n) /\ s.heap = p /\ s.at = n
    BY <1>1, <1>2 DEF Moving
  <2>2. ASSUME NEW i \in 2 .. n
        PROVE  /\ i # n => ~Higher(p[i], p[i \div 2])
               /\ i \div 2 # n
    <3>1. i \in Nat /\ i >= 2
      BY <1>1, <1>2
    <3>2. i \div 2 \in 1 .. i - 1
      BY <3>1, Half
    <3>3. ASSUME i # n
          PROVE  ~Higher(p[i], p[i \div 2])
      <4>1. i \in 2 .. Len(q) /\ i \in 1 .. Len(q) /\ i \div 2 \in 1 .. Len(q)
        BY <1>1, <1>2, <3>1, <3>2, <3>3
      <4> QED
        BY <1>2, <1>4, <4>1 DEF Queue, HeapOrdered
    <3> QED
      BY <1>1, <1>2, <3>2, <3>3
  <2> HIDE DEF s
  <2>3. s \in Rising(S, n)
    BY <2>1, <2>2 DEF Rising
  <2>4. SiftUp(p, n) \in Seq(S) /\ HeapOrdered(SiftUp(p, n))
    BY <2>3, SiftUpOrders DEF s
  <2>5. Push(q, t) = SiftUp(p, n)
    BY <1>2, <1>4 DEF Push, p
  <2> QED
    BY <2>4, <2>5 DEF Queue
<1> QED
  BY <1>3, <1>4

\* What is picked from a sequence is a sequence of the same.
LEMMA PickedIs ==
  ASSUME NEW S, NEW q \in Seq(S), NEW at
  PROVE  Picked(q, at) \in Seq(S)
<1> DEFINE n == Len(q)
           D == Seq(S)
           Step(i, p) == IF i \in at THEN Append(p, q[i]) ELSE p
           Solves(f) == f = [i \in 0 .. n |-> CASE i = 0 -> <<>>
                                                [] i > 0 /\ i \in at -> Append(f[i - 1], q[i])
                                                [] OTHER -> f[i - 1]]
           picked == CHOOSE f : Solves(f)
           g == [x \in (1 .. n) \X D |-> Step(x[1], x[2])]
<1>1. n \in Nat /\ <<>> \in D /\ \A i \in 1 .. n : q[i] \in S
  OBVIOUS
<1>2. \A i \in 1 .. n, p \in D : Step(i, p) \in D
  BY <1>1
<1>3. StepOn(g, n, D)
  <2> HIDE DEF Step, D
  <2> QED
    BY <1>2 DEF StepOn
<1>4. \A i \in 1 .. n, p \in D : g[<<i, p>>] = Step(i, p)
  <2> HIDE DEF Step, D
  <2> QED
    OBVIOUS
<1>5. PICK f \in [0 .. n -> D] : f[0] = <<>> /\ \A i \in 1 .. n : f[i] = g[<<i, f[i - 1]>>]
  <2> HIDE DEF g, D, n
  <2>1. \E f : Iterates(f, D, <<>>, n, g)
    BY <1>1, <1>3, RecursionExists
  <2> QED
    BY <2>1 DEF Iterates
<1>6. \A i \in 1 .. n : f[i] = IF i \in at THEN Append(f[i - 1], q[i]) ELSE f[i - 1]
  <2> SUFFICES ASSUME NEW i \in 1 .. n
               PROVE  f[i] = Step(i, f[i - 1])
    OBVIOUS
  <2>1. i - 1 \in 0 .. n /\ f[i - 1] \in D
    BY <1>1, <1>5
  <2> HIDE DEF g, D, Step, n
  <2> QED
    BY <1>4, <1>5, <2>1
<1>7. Solves(f)
  <2>1. \A i \in 0 .. n : i # 0 => i \in 1 .. n /\ i > 0
    BY <1>1
  <2>2. \A i \in 0 .. n : f[i] = CASE i = 0 -> <<>>
                                   [] i > 0 /\ i \in at -> Append(f[i - 1], q[i])
                                   [] OTHER -> f[i - 1]
    <3> SUFFICES ASSUME NEW i \in 0 .. n
                 PROVE  f[i] = CASE i = 0 -> <<>>
                                 [] i > 0 /\ i \in at -> Append(f[i - 1], q[i])
                                 [] OTHER -> f[i - 1]
      OBVIOUS
    <3> HIDE DEF D, g, n
    <3>1. CASE i = 0
      BY <1>5, <3>1
    <3>2. CASE i # 0 /\ i \in at
      BY <1>6, <2>1, <3>2
    <3>3. CASE i # 0 /\ i \notin at
      BY <1>6, <2>1, <3>3
    <3> QED
      BY <3>1, <3>2, <3>3
  <2> HIDE DEF D, g, n
  <2> QED
    BY <1>5, <2>2
<1>8. Solves(picked)
  <2> HIDE DEF Solves
  <2> QED
    BY <1>7
<1> HIDE DEF picked
<1>9. picked[0] = <<>> /\ \A i \in 1 .. n : picked[i] = Step(i, picked[i - 1])
  <2>1. \A i \in 1 .. n : i \in 0 .. n /\ i # 0 /\ i > 0
    BY <1>1
  <2>2. 0 \in 0 .. n
    BY <1>1
  <2> HIDE DEF D, g, n
  <2>3. picked[0] = <<>>
    BY <1>8, <2>2
  <2>4. ASSUME NEW i \in 1 .. n
        PROVE  picked[i] = IF i \in at THEN Append(picked[i - 1], q[i]) ELSE picked[i - 1]
    <3>1. CASE i \in at
      BY <1>8, <2>1, <3>1
    <3>2. CASE i \notin at
      BY <1>8, <2>1, <3>2
    <3> QED
      BY <3>1, <3>2
  <2> QED
    BY <2>3, <2>4
<1> DEFINE T == {i \in 0 .. n : picked[i] \in D}
<1>10. 0 \in T
  <2>1. picked[0] \in D /\ 0 \in 0 .. n
    BY <1>1, <1>9
  <2> HIDE DEF D, n
  <2> QED
    BY <2>1
<1>11. ASSUME NEW i \in 1 .. n, i - 1 \in T
       PROVE  i \in T
  <2> HIDE DEF Step, D
  <2> QED
    BY <1>1, <1>2, <1>9, <1>11
<1>12. n \in T
  <2> HIDE DEF T
  <2>1. 0 .. n \subseteq T
    BY <1>1, <1>10, <1>11, Stays
  <2> QED
    BY <1>1, <2>1
<1>13. Picked(q, at) = picked[n]
  BY DEF Picked, picked, Solves, n
<1> QED
  BY <1>12, <1>13

-----------------------------------------------------------------------------
(* The executors and the workers.                                           *)

\* The tasks that have been scheduled, and those of one executor.
Begun == {t \in Runnables : attempts[t] > 0}
Members(e) == {t \in Begun : ExecutorOf[t] = e}

\* The sources of the bucket are executors.
SourcesInv ==
  /\ sources \in Seq(1 .. MaxLen) /\ Len(sources) = len
  /\ inserted \in Nat

\* A queue holds tasks of its executor, in their order, which only those
\* outside it may leave: a static task has the priority it was spawned with,
\* and the attempts of a task are counted before it is queued.
TasksInv ==
  /\ Keyed
  /\ queue \in [1 .. MaxLen -> Seq(Runnables)] /\ \A e \in 1 .. MaxLen : Queue(queue[e], Members(e))
  /\ waking \subseteq Begun
  /\ taken \in [Threads -> Begun \cup {Nothing}]

\* On its way through a dynamic queue, whose executor it has locked for itself, a
\* worker has read of each item it has passed a priority that the item had since
\* the search began.
Searches == [of : 1 .. MaxLen, seen : Seq(Nat)]
Searching(w) ==
  LET q == queue[search[w].of]
      seen == search[w].seen
  IN /\ kind = "dynamic" /\ q # <<>> /\ Len(seen) <= Len(q)
     /\ \A k \in 1 .. Len(q) : priority[q[k]] \in was[q[k]]
     /\ \A k \in 1 .. Len(seen) : seen[k] \in was[q[k]]
SearchInv ==
  /\ search \in [Threads -> Searches \cup {Nothing}] /\ was \in [Runnables -> SUBSET Nat]
  /\ \A w \in Threads : search[w] # Nothing => Searching(w)
  /\ \A v, w \in Threads :
       search[v] # Nothing /\ search[w] # Nothing /\ search[v].of = search[w].of => v = w

SchedInv == RingInv /\ SourcesInv /\ TasksInv /\ SearchInv

\* What HighestFirst says of a step.
TakesHighest ==
  \A w \in Threads : taken'[w] # taken[w] /\ taken'[w] # Nothing =>
    LET left == queue'[ExecutorOf[taken'[w]]] IN
    \A i \in DOMAIN left : MayBeLeft(left[i], taken'[w])

LEMMA SchedInitially == SchedInit => SchedInv
<1> SUFFICES ASSUME SchedInit
             PROVE  SchedInv
  OBVIOUS
<1>1. RingInv /\ SourcesInv
  BY RingInitially DEF SchedInit, RingInit, SourcesInv
<1>2. Keyed
  BY SchedulingAssumption DEF SchedInit, Keyed
<1>3. \A e \in 1 .. MaxLen : queue[e] = <<>> /\ Queue(<<>>, Members(e))
  <2>1. HeapOrdered(<<>>)
    BY DEF HeapOrdered
  <2> QED
    BY <2>1 DEF SchedInit, Queue
<1>4. queue \in [1 .. MaxLen -> Seq(Runnables)] /\ waking = {} /\ taken \in [Threads -> Begun \cup {Nothing}]
  BY DEF SchedInit
<1>5. SearchInv
  BY DEF SchedInit, SearchInv
<1> QED
  BY <1>1, <1>2, <1>3, <1>4, <1>5 DEF SchedInv, TasksInv

\* As long as the keys are the same, a queue is in order if it was put in order.
LEMMA KeysStay ==
  ASSUME TasksInv, kind' = kind, priority' = priority, attempts' = attempts,
         queue' \in [1 .. MaxLen -> Seq(Runnables)], \A e \in 1 .. MaxLen : Queue(queue'[e], Members(e)),
         waking' \subseteq Begun, taken' \in [Threads -> Begun \cup {Nothing}]
  PROVE  TasksInv'
<1>1. Keyed' /\ Begun' = Begun
  BY DEF TasksInv, Keyed, Begun
<1>2. \A a, b : Higher(a, b)' <=> Higher(a, b)
  BY DEF Higher
<1>3. ASSUME NEW e \in 1 .. MaxLen
      PROVE  Queue(queue[e], Members(e))'
  <2>1. Members(e)' = Members(e)
    BY <1>1 DEF Members
  <2>2. queue'[e] \in Seq(Members(e)) /\ (kind # "dynamic" => HeapOrdered(queue'[e]))
    BY DEF Queue
  <2>3. kind # "dynamic" => HeapOrdered(queue[e])'
    BY <1>2, <2>2 DEF HeapOrdered
  <2> QED
    BY <2>1, <2>2, <2>3 DEF Queue
<1> QED
  BY <1>1, <1>3 DEF TasksInv

\* The keys of a task that is in no queue may change.
LEMMA OtherKeysStay ==
  ASSUME TasksInv, NEW t \in Runnables, kind' = kind, queue' = queue, taken' = taken,
         priority' \in [Runnables -> Nat], attempts' \in [Runnables -> Nat], attempts'[t] > 0,
         \A u \in Runnables \ {t} : priority'[u] = priority[u] /\ attempts'[u] = attempts[u],
         \A e \in 1 .. MaxLen : kind = "dynamic" \/ \A i \in DOMAIN queue[e] : queue[e][i] # t,
         waking' \subseteq waking \cup {t}
  PROVE  TasksInv'
<1>1. Keyed' /\ Begun \subseteq Begun'
  BY DEF TasksInv, Keyed, Begun
<1>2. \A a, b \in Runnables \ {t} : kind # "dynamic" => (Higher(a, b)' <=> Higher(a, b))
  <2>1. kind = "static" \/ kind = "fifo" \/ kind = "dynamic"
    BY DEF TasksInv, Keyed
  <2>2. CASE kind = "static"
    BY <2>2 DEF Higher
  <2>3. CASE kind = "fifo"
    BY <2>3 DEF Higher
  <2> QED
    BY <2>1, <2>2, <2>3
<1>3. ASSUME NEW e \in 1 .. MaxLen
      PROVE  Queue(queue[e], Members(e))'
  <2>1. Members(e) \subseteq Members(e)'
    BY <1>1 DEF Members
  <2>2. queue[e] \in Seq(Members(e)) /\ (kind # "dynamic" => HeapOrdered(queue[e]))
    BY DEF TasksInv, Queue
  <2>3. queue[e] \in Seq(Members(e)')
    BY <2>1, <2>2
  <2>4. ASSUME kind # "dynamic"
        PROVE  HeapOrdered(queue[e])'
    <3>1. \A i \in 1 .. Len(queue[e]) : queue[e][i] \in Runnables \ {t}
      BY <2>2, <2>4 DEF Members, Begun
    <3>2. \A i \in 2 .. Len(queue[e]) : i \in 1 .. Len(queue[e]) /\ i \div 2 \in 1 .. Len(queue[e])
      BY <2>2, Half
    <3> QED
      BY <1>2, <2>2, <2>4, <3>1, <3>2 DEF HeapOrdered
  <2> QED
    BY <2>3, <2>4 DEF Queue
<1> QED
  BY <1>1, <1>3 DEF TasksInv, Begun

\* A task that is scheduled is in no queue.
LEMMA ScheduleKeeps ==
  ASSUME TasksInv, NEW t \in Runnables, ScheduleTask(t),
         priority' \in [Runnables -> Nat], \A u \in Runnables \ {t} : priority'[u] = priority[u],
         attempts[t] = 0 \/ ~Queued(t)
  PROVE  TasksInv'
<1>1. attempts' = [attempts EXCEPT ![t] = attempts[t] + 1] /\ attempts \in [Runnables -> Nat]
  BY DEF TasksInv, Keyed, ScheduleTask
<1>2. /\ attempts' \in [Runnables -> Nat] /\ attempts'[t] > 0
      /\ \A u \in Runnables \ {t} : attempts'[u] = attempts[u]
  BY <1>1
<1>3. ASSUME NEW e \in 1 .. MaxLen, NEW i \in DOMAIN queue[e], queue[e][i] = t
      PROVE  FALSE
  <2>1. t \in Members(e)
    BY <1>3 DEF TasksInv, Queue
  <2> QED
    BY <1>1, <1>3, <2>1 DEF Queued, Members, Begun
<1> QED
  BY <1>2, <1>3, OtherKeysStay DEF ScheduleTask

\* A worker takes the highest of a heap.
LEMMA TakingKeeps ==
  ASSUME TasksInv, NEW e \in 1 .. MaxLen, queue[e] # <<>>, kind # "dynamic"
  PROVE  /\ queue[e][1] \in Members(e)
         /\ Queue(HeapPop(queue[e]), {t \in Members(e) : ~Higher(t, queue[e][1])})
         /\ Queue(HeapPop(queue[e]), Members(e))
<1> DEFINE q == queue[e]
           S == {t \in Members(e) : ~Higher(t, q[1])}
<1>1. Keyed /\ Queue(q, Members(e)) /\ Members(e) \in SUBSET Runnables /\ S \in SUBSET Runnables
  BY DEF TasksInv, Members, Begun
<1>2. q[1] \in Members(e) /\ \A i \in 1 .. Len(q) : ~Higher(q[i], q[1])
  <2>1. q \in Seq(Members(e)) /\ q \in Seq(Runnables) /\ HeapOrdered(q)
    BY <1>1 DEF Queue
  <2> QED
    BY <1>1, <2>1, FirstIsHighest
<1>3. Queue(q, S)
  <2>1. q \in Seq(Members(e))
    BY <1>1 DEF Queue
  <2>2. \A i \in 1 .. Len(q) : q[i] \in S
    BY <1>2, <2>1
  <2> HIDE DEF S
  <2>3. q \in Seq(S)
    BY <2>1, <2>2
  <2> QED
    BY <1>1, <2>3 DEF Queue
<1>4. Queue(HeapPop(q), S) /\ Queue(HeapPop(q), Members(e))
  <2> HIDE DEF S
  <2> QED
    BY <1>1, <1>3, PopKeeps
<1> QED
  BY <1>2, <1>4

\* The workers on their way through a queue are not disturbed by what happens to
\* other queues, and by a task's new priority only if it is entered in was.
LEMMA SearchStays ==
  ASSUME SchedInv, search' = search, kind' = kind, was' \in [Runnables -> SUBSET Nat],
         \A w \in Threads : search[w] # Nothing => queue'[search[w].of] = queue[search[w].of],
         \A t \in Runnables : Locked(ExecutorOf[t]) =>
           was[t] \subseteq was'[t] /\ (priority'[t] = priority[t] \/ priority'[t] \in was'[t] \/ attempts[t] = 0)
  PROVE  SearchInv'
<1>1. ASSUME NEW w \in Threads, search[w] # Nothing
      PROVE  Searching(w)'
  <2> DEFINE e == search[w].of
             q == queue[e]
  <2>1. e \in 1 .. MaxLen /\ search[w].seen \in Seq(Nat) /\ Searching(w)
    BY <1>1 DEF SchedInv, SearchInv, Searches
  <2>2. q \in Seq(Members(e))
    BY <2>1 DEF SchedInv, TasksInv, Queue
  <2>3. \A k \in 1 .. Len(q) : q[k] \in Runnables /\ ExecutorOf[q[k]] = e /\ attempts[q[k]] # 0
    BY <2>2 DEF Members, Begun
  <2>4. queue'[search'[w].of] = q /\ search'[w].seen = search[w].seen /\ Locked(e)
    BY <1>1 DEF Locked
  <2>5. \A k \in 1 .. Len(q) : was[q[k]] \subseteq was'[q[k]] /\ priority'[q[k]] \in was'[q[k]]
    BY <2>1, <2>3, <2>4 DEF Searching
  <2>6. \A k \in 1 .. Len(search[w].seen) : k \in 1 .. Len(q)
    BY <2>1, <2>2 DEF Searching
  <2> QED
    BY <2>1, <2>4, <2>5, <2>6 DEF Searching
<1> QED
  BY <1>1 DEF SchedInv, SearchInv

\* The source that is looked at is an executor.
LEMMA LooksAtExecutor ==
  ASSUME SchedInv, NEW w \in Threads, Look(w)
  PROVE  sources[next[w] + 1] \in 1 .. MaxLen
<1>1. next[w] \in Nat /\ len \in Nat
  BY DEF SchedInv, RingInv
<1>2. next[w] < len
  BY NextSourceKeepsRing DEF Look, SchedInv
<1>3. next[w] + 1 \in 1 .. Len(sources)
  BY <1>1, <1>2 DEF SchedInv, SourcesInv
<1>4. sources \in Seq(1 .. MaxLen)
  BY DEF SchedInv, SourcesInv
<1>5. \A k \in 1 .. Len(sources) : sources[k] \in 1 .. MaxLen
  BY <1>4, ElementOfSeq
<1> QED
  BY <1>3, <1>5

LEMMA LookKeeps ==
  ASSUME SchedInv, NEW w \in Threads, Look(w)
  PROVE  TasksInv' /\ SearchInv' /\ TakesHighest
<1> DEFINE e == sources[next[w] + 1]
<1>1. e \in 1 .. MaxLen
  BY LooksAtExecutor
<1>2. TasksInv /\ kind' = kind /\ priority' = priority /\ attempts' = attempts /\ waking' = waking
  BY DEF Look, SchedInv
<1>3. /\ waking \subseteq Begun /\ taken \in [Threads -> Begun \cup {Nothing}]
      /\ queue \in [1 .. MaxLen -> Seq(Runnables)] /\ \A d \in 1 .. MaxLen : Queue(queue[d], Members(d))
  BY DEF SchedInv, TasksInv
<1>4. was \in [Runnables -> SUBSET Nat] /\ search \in [Threads -> Searches \cup {Nothing}]
  BY DEF SchedInv, SearchInv
<1>5. ~Locked(e) /\ search[w] = Nothing
  BY DEF Look, e
<1> HIDE DEF e
<1>6. CASE UNCHANGED <<queue, taken, searchVars>>
  <2>1. UNCHANGED <<queue, taken, search, was>>
    BY <1>6 DEF searchVars
  <2> QED
    BY <1>2, <1>3, <1>4, <2>1, KeysStay, SearchStays DEF TakesHighest
<1>7. CASE queue[e] # <<>> /\ kind # "dynamic" /\ UNCHANGED searchVars
  <2> DEFINE t == queue[e][1]
             S == {u \in Members(e) : ~Higher(u, t)}
  <2>1. taken' = [taken EXCEPT ![w] = t] /\ queue' = [queue EXCEPT ![e] = HeapPop(queue[e])]
    BY <1>7 DEF Look, e
  <2>2. t \in Members(e) /\ Queue(HeapPop(queue[e]), S) /\ Queue(HeapPop(queue[e]), Members(e))
    BY <1>1, <1>2, <1>7, TakingKeeps
  <2> HIDE DEF t
  <2>3. t \in Begun /\ ExecutorOf[t] = e
    BY <2>2 DEF Members
  <2>4. taken' \in [Threads -> Begun \cup {Nothing}]
    BY <1>3, <2>1, <2>3
  <2>5. queue' \in [1 .. MaxLen -> Seq(Runnables)] /\ \A d \in 1 .. MaxLen : Queue(queue'[d], Members(d))
    <3>1. HeapPop(queue[e]) \in Seq(Runnables)
      BY <2>2 DEF Queue, Members, Begun
    <3> QED
      BY <1>1, <1>3, <2>1, <2>2, <3>1
  <2>6. TasksInv'
    BY <1>2, <1>3, <2>4, <2>5, KeysStay
  <2>7. SearchInv'
    <3>1. search' = search /\ was' = was
      BY <1>7 DEF searchVars
    <3>2. \A v \in Threads : search[v] # Nothing => search[v].of # e
      BY <1>5 DEF Locked
    <3>3. \A d : d # e => queue'[d] = queue[d]
      BY <1>3, <2>1
    <3> QED
      BY <1>2, <1>4, <3>1, <3>2, <3>3, SearchStays
  <2>8. \A v \in Threads : taken'[v] # taken[v] => taken'[v] = t
    BY <1>3, <2>1
  <2>9. queue'[e] \in Seq(S)
    BY <1>1, <1>3, <2>1, <2>2 DEF Queue
  <2>10. \A i \in DOMAIN queue'[e] : MayBeLeft(queue'[e][i], t)
    BY <1>7, <2>9 DEF MayBeLeft
  <2> QED
    BY <2>3, <2>6, <2>7, <2>8, <2>10 DEF TakesHighest
<1>8. CASE queue[e] # <<>> /\ kind = "dynamic" /\ UNCHANGED <<queue, taken>>
  <2>1. /\ search' = [search EXCEPT ![w] = [of |-> e, seen |-> <<>>]]
        /\ was' = [t \in Runnables |-> IF ExecutorOf[t] = e THEN {priority[t]} ELSE was[t]]
    BY <1>8 DEF Look, e
  <2>2. search' \in [Threads -> Searches \cup {Nothing}] /\ was' \in [Runnables -> SUBSET Nat]
    <3>1. [of |-> e, seen |-> <<>>] \in Searches
      BY <1>1 DEF Searches
    <3>2. priority \in [Runnables -> Nat]
      BY <1>2 DEF TasksInv, Keyed
    <3> QED
      BY <1>4, <2>1, <3>1, <3>2
  <2>3. search'[w].of = e /\ search'[w].seen = <<>> /\ \A v \in Threads \ {w} : search'[v] = search[v]
    BY <1>4, <2>1
  <2>4. \A v \in Threads : search[v] # Nothing => search[v].of # e
    BY <1>5 DEF Locked
  <2>5. ASSUME NEW v \in Threads, search'[v] # Nothing
        PROVE  Searching(v)'
    <3> DEFINE d == search'[v].of
               q == queue[d]
    <3>1. d \in 1 .. MaxLen
      BY <2>2, <2>5 DEF Searches
    <3>2. q \in Seq(Members(d))
      BY <1>3, <3>1 DEF Queue
    <3>3. \A k \in 1 .. Len(q) : q[k] \in Runnables /\ ExecutorOf[q[k]] = d
      BY <3>2 DEF Members, Begun
    <3>4. CASE v = w
      <4>1. \A k \in 1 .. Len(q) : priority'[q[k]] \in was'[q[k]]
        BY <1>2, <2>1, <2>3, <3>3, <3>4
      <4> QED
        BY <1>2, <1>8, <2>3, <3>2, <3>4, <4>1 DEF Searching
    <3>5. CASE v # w
      <4>1. search'[v] = search[v] /\ search[v].of = d /\ d # e
        BY <2>3, <2>4, <2>5, <3>5
      <4>2. Searching(v) /\ search[v] \in Searches
        BY <1>4, <2>5, <4>1 DEF SchedInv, SearchInv
      <4>3. \A k \in 1 .. Len(q) : was'[q[k]] = was[q[k]]
        BY <2>1, <3>3, <4>1
      <4>4. \A k \in 1 .. Len(search[v].seen) : k \in 1 .. Len(q)
        BY <3>2, <4>1, <4>2 DEF Searching, Searches
      <4> QED
        BY <1>2, <1>8, <4>1, <4>2, <4>3, <4>4 DEF Searching
    <3> QED
      BY <3>4, <3>5
  <2>6. SearchInv'
    BY <2>2, <2>3, <2>4, <2>5 DEF SchedInv, SearchInv
  <2> QED
    BY <1>2, <1>3, <1>8, <2>6, KeysStay DEF TakesHighest
<1>9. \/ UNCHANGED <<queue, taken, searchVars>>
      \/ queue[e] # <<>> /\ kind # "dynamic" /\ UNCHANGED searchVars
      \/ queue[e] # <<>> /\ kind = "dynamic" /\ UNCHANGED <<queue, taken>>
  BY DEF Look, e
<1> QED
  BY <1>6, <1>7, <1>8, <1>9

\* What is read is the priority the item has, so one it has since the search began.
LEMMA ReadKeeps ==
  ASSUME SchedInv, NEW w \in Threads, ReadPriority(w)
  PROVE  TasksInv' /\ SearchInv' /\ TakesHighest
<1> DEFINE e == search[w].of
           seen == search[w].seen
           q == queue[e]
           n == Len(seen)
           p == priority[q[n + 1]]
<1>1. UNCHANGED <<kind, priority, attempts, waking, queue, taken, was>>
  BY DEF ReadPriority
<1>2. search[w] # Nothing /\ n < Len(q) /\ search' = [search EXCEPT ![w].seen = Append(seen, p)]
  BY DEF ReadPriority
<1>3. /\ waking \subseteq Begun /\ taken \in [Threads -> Begun \cup {Nothing}]
      /\ queue \in [1 .. MaxLen -> Seq(Runnables)] /\ \A d \in 1 .. MaxLen : Queue(queue[d], Members(d))
      /\ priority \in [Runnables -> Nat]
  BY DEF SchedInv, TasksInv, Keyed
<1>4. search \in [Threads -> Searches \cup {Nothing}]
  BY DEF SchedInv, SearchInv
<1>5. search[w] \in Searches /\ e \in 1 .. MaxLen /\ seen \in Seq(Nat) /\ Searching(w)
  BY <1>2 DEF SchedInv, SearchInv, Searches
<1>6. q \in Seq(Runnables) /\ n \in Nat /\ n + 1 \in 1 .. Len(q)
  BY <1>2, <1>3, <1>5
<1>7. p \in Nat /\ p \in was[q[n + 1]]
  <2>1. q[n + 1] \in Runnables
    BY <1>6
  <2>2. priority[q[n + 1]] \in was[q[n + 1]]
    BY <1>5, <1>6 DEF Searching
  <2> QED
    BY <1>3, <2>1, <2>2
<1>8. /\ Append(seen, p) \in Seq(Nat) /\ Len(Append(seen, p)) = n + 1
      /\ \A k \in 1 .. n + 1 : Append(seen, p)[k] \in was[q[k]]
  BY <1>5, <1>6, <1>7 DEF Searching
<1> HIDE DEF p
<1>9. /\ search'[w].of = e /\ search'[w].seen = Append(seen, p) /\ search'[w] \in Searches
      /\ \A v \in Threads \ {w} : search'[v] = search[v]
      /\ DOMAIN search' = Threads /\ search' = [v \in Threads |-> search'[v]]
  BY <1>2, <1>4, <1>5, <1>8 DEF Searches
<1>10. search' \in [Threads -> Searches \cup {Nothing}]
  BY <1>4, <1>9
<1>11. ASSUME NEW v \in Threads, search'[v] # Nothing
       PROVE  Searching(v)'
  <2>1. CASE v = w
    <3>1. queue'[search'[w].of] = q /\ priority' = priority /\ was' = was /\ kind' = kind
      BY <1>1, <1>9
    <3>2. kind = "dynamic" /\ q # <<>> /\ \A k \in 1 .. Len(q) : priority[q[k]] \in was[q[k]]
      BY <1>5 DEF Searching
    <3>3. Len(search'[w].seen) <= Len(q)
      BY <1>6, <1>8, <1>9
    <3>4. \A k \in 1 .. Len(search'[w].seen) : search'[w].seen[k] \in was[q[k]]
      BY <1>8, <1>9
    <3> HIDE DEF q
    <3> QED
      BY <2>1, <3>1, <3>2, <3>3, <3>4 DEF Searching
  <2>2. CASE v # w
    <3>1. search'[v] = search[v] /\ Searching(v)
      BY <1>9, <1>11, <2>2 DEF SchedInv, SearchInv
    <3> QED
      BY <1>1, <3>1 DEF Searching
  <2> QED
    BY <2>1, <2>2
<1>12. SearchInv'
  <2>1. \A v \in Threads : search'[v] # Nothing => search[v] # Nothing /\ search'[v].of = search[v].of
    BY <1>2, <1>9
  <2> QED
    BY <1>1, <1>10, <1>11, <2>1 DEF SchedInv, SearchInv
<1> QED
  BY <1>1, <1>3, <1>12, KeysStay DEF SchedInv, TakesHighest

LEMMA TakeKeeps ==
  ASSUME SchedInv, NEW w \in Threads, TakeHighest(w)
  PROVE  TasksInv' /\ SearchInv' /\ TakesHighest
<1> DEFINE e == search[w].of
           seen == search[w].seen
           q == queue[e]
           best == FindHighest(seen)
           t == q[best]
           r == SwapRemove(q, best)
<1>1. UNCHANGED <<kind, priority, attempts, waking>> /\ search[w] # Nothing /\ Len(seen) = Len(q)
  BY DEF TakeHighest
<1>2. /\ taken' = [taken EXCEPT ![w] = t] /\ queue' = [queue EXCEPT ![e] = r]
      /\ was' = [u \in Runnables |-> IF ExecutorOf[u] = e THEN {} ELSE was[u]]
      /\ search' = [search EXCEPT ![w] = Nothing]
  BY DEF TakeHighest
<1>3. /\ waking \subseteq Begun /\ taken \in [Threads -> Begun \cup {Nothing}]
      /\ queue \in [1 .. MaxLen -> Seq(Runnables)] /\ \A d \in 1 .. MaxLen : Queue(queue[d], Members(d))
  BY DEF SchedInv, TasksInv
<1>4. search \in [Threads -> Searches \cup {Nothing}] /\ was \in [Runnables -> SUBSET Nat]
  BY DEF SchedInv, SearchInv
<1>5. e \in 1 .. MaxLen /\ seen \in Seq(Nat) /\ Searching(w)
  BY <1>1 DEF SchedInv, SearchInv, Searches
<1>6. q \in Seq(Members(e)) /\ q # <<>> /\ kind = "dynamic"
  BY <1>3, <1>5 DEF Queue, Searching
<1>7. best \in 1 .. Len(q) /\ \A k \in 1 .. Len(q) : seen[k] <= seen[best]
  <2>1. seen # <<>>
    BY <1>1, <1>6
  <2> QED
    BY <1>1, <1>5, <2>1, FindHighestIs
<1>8. \A k \in 1 .. Len(q) : seen[k] \in was[q[k]]
  BY <1>1, <1>5 DEF Searching
<1> HIDE DEF best
<1>9. t \in Members(e) /\ t \in Begun /\ ExecutorOf[t] = e
  BY <1>6, <1>7 DEF Members
<1>10. r \in Seq(Members(e)) /\ \A k \in 1 .. Len(r) : \E j \in 1 .. Len(q) : r[k] = q[j]
  <2>1. Removed(r, q, best, Members(e))
    BY <1>6, <1>7, SwapRemoveIs
  <2> HIDE DEF r
  <2>2. ASSUME NEW k \in 1 .. Len(r)
        PROVE  \E j \in 1 .. Len(q) : r[k] = q[j]
    <3>1. k \in 1 .. Len(q) /\ Len(q) \in 1 .. Len(q) /\ k \in 1 .. Len(q) - 1
      BY <1>6, <1>7, <2>1 DEF Removed
    <3> QED
      BY <2>1, <3>1 DEF Removed
  <2> QED
    BY <2>1, <2>2 DEF Removed
<1>11. ASSUME NEW k \in 1 .. Len(r)
       PROVE  MayBeLeft(r[k], t)
  <2>1. PICK j \in 1 .. Len(q) : r[k] = q[j]
    BY <1>10
  <2>2. seen[j] \in was[r[k]] /\ seen[best] \in was[t] /\ seen[j] <= seen[best]
    BY <1>7, <1>8, <2>1
  <2> QED
    BY <1>6, <2>2 DEF MayBeLeft
<1> HIDE DEF r, t
<1>12. TasksInv'
  <2>1. taken' \in [Threads -> Begun \cup {Nothing}]
    BY <1>2, <1>3, <1>9
  <2>2. r \in Seq(Runnables) /\ Queue(r, Members(e))
    BY <1>6, <1>10 DEF Queue, Members, Begun
  <2>3. queue' \in [1 .. MaxLen -> Seq(Runnables)] /\ \A d \in 1 .. MaxLen : Queue(queue'[d], Members(d))
    BY <1>2, <1>3, <1>5, <2>2
  <2> QED
    BY <1>1, <1>3, <2>1, <2>3, KeysStay DEF SchedInv
<1>13. SearchInv'
  <2>1. search' \in [Threads -> Searches \cup {Nothing}] /\ was' \in [Runnables -> SUBSET Nat]
    BY <1>2, <1>4
  <2>2. search'[w] = Nothing /\ \A v \in Threads \ {w} : search'[v] = search[v]
    BY <1>2, <1>4
  <2>3. ASSUME NEW v \in Threads, search'[v] # Nothing
        PROVE  Searching(v)'
    <3> DEFINE d == search[v].of
    <3>1. search'[v] = search[v] /\ search[v] # Nothing /\ d # e
      BY <1>1, <2>2, <2>3 DEF SchedInv, SearchInv
    <3>2. Searching(v) /\ d \in 1 .. MaxLen /\ search[v].seen \in Seq(Nat) /\ queue'[d] = queue[d]
      BY <1>2, <1>3, <3>1 DEF SchedInv, SearchInv, Searches
    <3>3. queue[d] \in Seq(Members(d))
      BY <1>3, <3>2 DEF Queue
    <3>4. \A k \in 1 .. Len(queue[d]) : queue[d][k] \in Runnables /\ ExecutorOf[queue[d][k]] = d
      BY <3>3 DEF Members, Begun
    <3>5. \A k \in 1 .. Len(queue[d]) : was'[queue[d][k]] = was[queue[d][k]]
      BY <1>2, <3>1, <3>4
    <3>6. \A k \in 1 .. Len(search[v].seen) : k \in 1 .. Len(queue[d])
      BY <3>2, <3>3 DEF Searching
    <3> QED
      BY <1>1, <3>1, <3>2, <3>5, <3>6 DEF Searching
  <2> QED
    BY <2>1, <2>2, <2>3 DEF SchedInv, SearchInv
<1>14. TakesHighest
  <2>1. \A v \in Threads : taken'[v] # taken[v] => taken'[v] = t
    BY <1>2, <1>3
  <2>2. queue'[e] = r
    BY <1>2, <1>3, <1>5
  <2>3. DOMAIN r = 1 .. Len(r)
    BY <1>10
  <2> QED
    BY <1>9, <1>11, <2>1, <2>2, <2>3 DEF TakesHighest
<1> QED
  BY <1>12, <1>13, <1>14

\* No step gives a worker a task that another in the queue is higher than.
LEMMA SchedStep ==
  ASSUME SchedInv, [SchedNext]_schedVars
  PROVE  SchedInv' /\ TakesHighest
<1>1. RingInv'
  BY RingStep DEF SchedInv
<1>2. SourcesInv'
  <2>1. CASE InsertExecutor
    <3>1. len' = len + 1 /\ sources' = Append(sources, inserted + 1) /\ inserted' = inserted + 1 /\ inserted < MaxLen
      BY <2>1 DEF InsertExecutor, PushSource
    <3>2. inserted + 1 \in 1 .. MaxLen
      BY <3>1, RingAssumption DEF SchedInv, SourcesInv
    <3> QED
      BY <3>1, <3>2 DEF SchedInv, SourcesInv
  <2>2. CASE RemoveExpired
    <3>1. PICK kept : sources' = Picked(sources, kept)
      BY <2>2 DEF RemoveExpired
    <3>2. sources' \in Seq(1 .. MaxLen)
      BY <3>1, PickedIs DEF SchedInv, SourcesInv
    <3> QED
      BY <2>2, <3>2 DEF RemoveExpired, SchedInv, SourcesInv
  <2>3. CASE UNCHANGED <<len, sources, inserted>>
    BY <2>3 DEF SchedInv, SourcesInv
  <2>4. InsertExecutor \/ RemoveExpired \/ UNCHANGED <<len, sources, inserted>>
    BY DEF SchedNext, schedVars, ringVars, SpawnStatic, SpawnDynamic, SpawnFifo, WakeTask, QueueTask, Reprioritise,
           BeginScan, IterRing, Look, NextSource, EndScan, Leave, ReadPriority, TakeHighest, RunTask, ScheduleTask
  <2> QED
    BY <2>1, <2>2, <2>3, <2>4
<1>3. /\ TasksInv /\ Keyed /\ waking \subseteq Begun /\ taken \in [Threads -> Begun \cup {Nothing}]
      /\ queue \in [1 .. MaxLen -> Seq(Runnables)] /\ \A d \in 1 .. MaxLen : Queue(queue[d], Members(d))
      /\ was \in [Runnables -> SUBSET Nat]
  BY DEF SchedInv, TasksInv, SearchInv
<1>4. CASE InsertExecutor \/ RemoveExpired \/ (\E w \in Threads : BeginScan(w) \/ EndScan(w)) \/ UNCHANGED schedVars
  <2>1. kind' = kind /\ UNCHANGED taskVars
    BY <1>4 DEF InsertExecutor, RemoveExpired, BeginScan, EndScan, schedVars
  <2>2. UNCHANGED <<kind, priority, attempts, waking, queue, taken, search, was>>
    BY <2>1 DEF taskVars, searchVars
  <2> QED
    BY <1>1, <1>2, <1>3, <2>2, KeysStay, SearchStays DEF SchedInv, TakesHighest
<1>5. ASSUME NEW t \in Runnables, NEW p \in Priorities, SpawnStatic(t, p) \/ SpawnDynamic(t, p)
      PROVE  TasksInv' /\ SearchInv' /\ TakesHighest
  <2>1. ScheduleTask(t) /\ attempts[t] = 0 /\ priority' = [priority EXCEPT ![t] = p]
    BY <1>5 DEF SpawnStatic, SpawnDynamic, New
  <2>2. priority' \in [Runnables -> Nat] /\ \A u \in Runnables \ {t} : priority'[u] = priority[u]
    BY <1>3, <2>1, SchedulingAssumption DEF Keyed
  <2>3. UNCHANGED <<kind, queue, taken, search, was>>
    BY <2>1 DEF ScheduleTask, searchVars
  <2> QED
    BY <1>3, <2>1, <2>2, <2>3, ScheduleKeeps, SearchStays DEF TakesHighest
<1>6. ASSUME NEW t \in Runnables, SpawnFifo(t) \/ WakeTask(t)
      PROVE  TasksInv' /\ SearchInv' /\ TakesHighest
  <2>1. ScheduleTask(t) /\ (attempts[t] = 0 \/ ~Queued(t)) /\ priority' = priority
    BY <1>6 DEF SpawnFifo, WakeTask, New
  <2>2. UNCHANGED <<kind, queue, taken, search, was>>
    BY <2>1 DEF ScheduleTask, searchVars
  <2> QED
    BY <1>3, <2>1, <2>2, ScheduleKeeps, SearchStays DEF TakesHighest, Keyed
<1>7. ASSUME NEW t \in Runnables, QueueTask(t)
      PROVE  TasksInv' /\ SearchInv' /\ TakesHighest
  <2> DEFINE e == ExecutorOf[t]
             q == Push(queue[e], t)
  <2>1. t \in Members(e) /\ e \in 1 .. MaxLen
    BY <1>3, <1>7, SchedulingAssumption DEF QueueTask, Members, Begun
  <2>2. Queue(q, Members(e))
    <3>1. Members(e) \in SUBSET Runnables
      BY DEF Members, Begun
    <3> QED
      BY <1>3, <2>1, <3>1, PushKeeps
  <2>3. q \in Seq(Runnables)
    BY <2>2 DEF Queue, Members, Begun
  <2>4. /\ queue' = [queue EXCEPT ![e] = q] /\ waking' = waking \ {t}
        /\ UNCHANGED <<kind, priority, attempts, taken, search, was>> /\ ~Locked(e)
    BY <1>7 DEF QueueTask, searchVars
  <2> HIDE DEF q, e
  <2>5. queue' \in [1 .. MaxLen -> Seq(Runnables)] /\ \A d \in 1 .. MaxLen : Queue(queue'[d], Members(d))
    BY <1>3, <2>1, <2>2, <2>3, <2>4
  <2>6. SearchInv'
    <3>1. \A v \in Threads : search[v] # Nothing => search[v].of # e
      BY <2>4 DEF Locked
    <3>2. \A d : d # e => queue'[d] = queue[d]
      BY <1>3, <2>4
    <3> QED
      BY <1>3, <2>4, <3>1, <3>2, SearchStays
  <2> QED
    BY <1>3, <2>4, <2>5, <2>6, KeysStay DEF TakesHighest
<1>8. ASSUME NEW t \in Runnables, Reprioritise(t)
      PROVE  TasksInv' /\ SearchInv' /\ TakesHighest
  <2>1. PICK p \in Priorities :
          /\ priority' = [priority EXCEPT ![t] = p]
          /\ was' = [was EXCEPT ![t] = IF Locked(ExecutorOf[t]) THEN was[t] \cup {p} ELSE was[t]]
    BY <1>8 DEF Reprioritise
  <2>2. priority' \in [Runnables -> Nat] /\ \A u \in Runnables \ {t} : priority'[u] = priority[u]
    BY <1>3, <2>1, SchedulingAssumption DEF Keyed
  <2>3. attempts[t] > 0 /\ kind = "dynamic" /\ UNCHANGED <<kind, attempts, waking, queue, taken, search>>
    BY <1>8 DEF Reprioritise
  <2>4. SearchInv'
    <3>1. was' \in [Runnables -> SUBSET Nat] /\ priority'[t] = p
      BY <1>3, <2>1, SchedulingAssumption DEF Keyed
    <3>2. \A u \in Runnables : was[u] \subseteq was'[u]
      BY <1>3, <2>1
    <3>3. Locked(ExecutorOf[t]) => p \in was'[t]
      BY <1>3, <2>1
    <3> QED
      BY <2>2, <2>3, <3>1, <3>2, <3>3, SearchStays
  <2> QED
    BY <1>3, <2>2, <2>3, <2>4, OtherKeysStay DEF TakesHighest, Keyed
<1>9. ASSUME NEW w \in Threads, RunTask(w)
      PROVE  TasksInv' /\ SearchInv' /\ TakesHighest
  <2>1. taken' = [taken EXCEPT ![w] = Nothing] /\ UNCHANGED <<kind, priority, attempts, waking, queue, search, was>>
    BY <1>9 DEF RunTask, searchVars
  <2>2. /\ taken' \in [Threads -> Begun \cup {Nothing}]
        /\ \A v \in Threads : taken'[v] = taken[v] \/ taken'[v] = Nothing
    BY <1>3, <2>1
  <2> QED
    BY <1>3, <2>1, <2>2, KeysStay, SearchStays DEF TakesHighest
<1>10. CASE \E w \in Threads : Look(w) \/ ReadPriority(w) \/ TakeHighest(w)
  BY <1>1, <1>2, <1>10, LookKeeps, ReadKeeps, TakeKeeps DEF SchedInv
<1> QED
  BY <1>1, <1>2, <1>4, <1>5, <1>6, <1>7, <1>8, <1>9, <1>10 DEF SchedInv, SchedNext

\* A worker leaves no task in a queue for a lower one.  A static queue is a heap
\* of which only the edges that a task moves along are looked at.  Of a dynamic
\* one the priorities are read one after the other and change meanwhile: what was
\* higher all the time is not left.
THEOREM HighestIsTaken == SchedSpec => HighestFirst
<1>1. SchedInv /\ [SchedNext]_schedVars => SchedInv' /\ [TakesHighest]_taken
  BY SchedStep
<1> QED
  BY <1>1, SchedInitially, PTL DEF SchedSpec, HighestFirst, TakesHighest
=============================================================================
