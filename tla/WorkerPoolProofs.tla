-------------------------- MODULE WorkerPoolProofs --------------------------
(***************************************************************************)
(* Proofs about WorkerPool, for any number of workers, sources and items.  *)
(*                                                                         *)
(* No lost wakeup rests on two facts.  Covered: while anybody sleeps, each *)
(* source of the pool holds the pool's waker, or somebody is about to give *)
(* it one or to wake everybody.  Noticed: while work waits in a source,    *)
(* some worker will still look at that source before it sleeps, or the     *)
(* producer's wake is still coming.  A producer that finds no waker in the *)
(* source stays silent; Covered is why Noticed survives that.              *)
(*                                                                         *)
(* The refinement of WorkDispatch rests on Placed: an item is in one place *)
(* at a time, and it was pushed to get there.                              *)
(*                                                                         *)
(* The order of a scan rests on ScanInv: what a worker found waiting when  *)
(* its scan began still waits only in a source it has yet to look at.      *)
(***************************************************************************)
EXTENDS WorkerPool, TLAPS

\* Worker v will look at s before it can sleep.
WillScan(v, s) ==
  \/ pc[v] \in {"check", "find", "claim", "clear", "read", "found", "execute",
                "readWaker", "register", "registering", "wakeSelf"}
  \/ pc[v] = "scan" /\ (s \in todo[v] \/ item[v] # None \/ v \notin sleepers)
  \/ pc[v] = "sleep" /\ v \notin sleepers
  \/ pc[v] = "park" /\ v \in tokens

\* Somebody is about to give s the waker, or to drain the sleepers.
WakerComing(s) ==
  \/ \E v \in Workers : \/ pc[v] \in {"readWaker", "wakeSelf"}
                        \/ pc[v] \in {"register", "registering"} /\ s \in todo[v]
  \/ \E i \in Items : TargetOf[i] = s /\ push[i] = "drain"

Covered ==
  sleepers # {} => \A s \in registered \cap alive : s \in slot \/ WakerComing(s)

Noticed ==
  dropping = "live" =>
    \A s \in registered \cap alive :
      queue[s] # {} => \/ \E v \in Workers : WillScan(v, s)
                       \/ \E i \in Items : /\ TargetOf[i] = s
                                           /\ push[i] \in {"wake", "taking", "drain"}

\* The state of an AtomicWaker tells who is using it.
FlagInv ==
  /\ \A s \in Sources : flag[s] = "waking" =>
       \E i \in Items : TargetOf[i] = s /\ push[i] = "taking"
  /\ \A i \in Items : push[i] = "taking" => flag[TargetOf[i]] = "waking"
  /\ \A i, j \in Items :
       (push[i] = "taking" /\ push[j] = "taking" /\ TargetOf[i] = TargetOf[j]) => i = j
  /\ \A s \in Sources : flag[s] \in {"registering", "overtaken"} =>
       /\ s \in slot
       /\ \E v \in Workers : pc[v] = "registering" /\ registering[v] = s
  /\ \A v \in Workers : pc[v] = "registering" =>
       registering[v] \in Sources /\ flag[registering[v]] \in {"registering", "overtaken"}
  /\ \A v, w \in Workers :
       (pc[v] = "registering" /\ pc[w] = "registering" /\ registering[v] = registering[w])
         => v = w

\* A parked worker is a sleeper or has a token; nobody leaves a live pool.
ParkInv ==
  /\ \A w \in Workers : pc[w] = "park" => w \in sleepers \cup tokens
  /\ dropping = "live" => \A w \in Workers : pc[w] # "exited"
  /\ expired \cap alive = {}

\* After Drop has drained the sleepers, a worker inside the loop is not one.
DropInv ==
  dropping \in {"joining", "dropped"} =>
    \A w \in Workers :
      /\ pc[w] \in {"find", "claim", "clear", "read", "scan", "found", "execute", "sleep"}
           => w \notin sleepers
      /\ pc[w] = "park" => w \in tokens

IInv == TypeOK /\ FlagInv /\ ParkInv /\ Covered /\ Noticed /\ DropInv

-----------------------------------------------------------------------------

\* Every step keeps the type invariant.
LEMMA TypeStep ==
  ASSUME TypeOK, [Next]_vars
  PROVE  TypeOK'
<1> USE PoolAssumption DEF TypeOK, WorkerStates, workerVars, sourceVars, sleepVars, queueVars, doneVars
<1>1. ASSUME NEW w \in Workers, WorkerStep(w)
      PROVE  TypeOK'
  <2>1. CASE CheckExit(w)
    BY <2>1 DEF CheckExit
  <2>2. CASE SwapExpired(w)
    BY <2>2 DEF SwapExpired
  <2>3. CASE ClaimSources(w)
    BY <2>3 DEF ClaimSources, Transition
  <2>4. CASE ClearExpired(w)
    BY <2>4 DEF ClearExpired, Transition
  <2>5. CASE ReadSources(w)
    BY <2>5 DEF ReadSources, Transition, MayRead
  <2>6. CASE ScanSource(w)
    <3>1. PICK s \in NextToScan(w) :
            Disconnected(w, s) \/ NoWork(w, s) \/ \E i \in Items : TakeWork(w, s, i)
      BY <2>6 DEF ScanSource
    <3>2. CASE Disconnected(w, s)
      BY <2>6, <3>1, <3>2 DEF ScanSource, NextToScan, Disconnected
    <3>3. CASE NoWork(w, s)
      BY <2>6, <3>1, <3>3 DEF ScanSource, NextToScan, NoWork
    <3>4. CASE \E i \in Items : TakeWork(w, s, i)
      BY <2>6, <3>1, <3>4 DEF ScanSource, NextToScan, TakeWork, Threads
    <3>5. QED  BY <3>1, <3>2, <3>3, <3>4
  <2>7. CASE EndScan(w)
    BY <2>7 DEF EndScan
  <2>8. CASE RemoveSleeper(w)
    BY <2>8 DEF RemoveSleeper, Transition
  <2>9. CASE Execute(w)
    BY <2>9 DEF Execute, Transition
  <2>10. CASE InsertSleeper(w)
    BY <2>10 DEF InsertSleeper
  <2>11. CASE ReadForWaker(w)
    BY <2>11 DEF ReadForWaker, Transition, MayRead
  <2>12. CASE BeginRegister(w)
    <3>1. PICK s \in todo[w] :
            /\ StoreWaker(w, s) \/ JoinWake(w, s) \/ SkipWaker(w, s)
            /\ todo' = [todo EXCEPT ![w] = @ \ {s}]
      BY <2>12 DEF BeginRegister
    <3>2. CASE StoreWaker(w, s)
      BY <2>12, <3>1, <3>2 DEF BeginRegister, StoreWaker
    <3>3. CASE JoinWake(w, s)
      BY <2>12, <3>1, <3>3 DEF BeginRegister, JoinWake
    <3>4. CASE SkipWaker(w, s)
      BY <2>12, <3>1, <3>4 DEF BeginRegister, SkipWaker
    <3>5. QED  BY <3>1, <3>2, <3>3, <3>4
  <2>13. CASE EndRegister(w)
    BY <2>13 DEF EndRegister
  <2>14. CASE WakeSelf(w)
    BY <2>14 DEF WakeSelf, Transition, WakePool, DrainSleepers
  <2>15. CASE EndRegistration(w)
    BY <2>15 DEF EndRegistration, Transition
  <2>16. CASE Unpark(w)
    BY <2>16 DEF Unpark, Transition
  <2>17. QED
    BY <1>1, <2>1, <2>2, <2>3, <2>4, <2>5, <2>6, <2>7, <2>8, <2>9, <2>10, <2>11, <2>12, <2>13, <2>14, <2>15, <2>16 DEF WorkerStep
<1>2. ASSUME NEW i \in Items, Push(i)
      PROVE  TypeOK'
  BY <1>2 DEF Push
<1>3. ASSUME NEW i \in Items, BeginTake(i)
      PROVE  TypeOK'
  BY <1>3 DEF BeginTake, Return
<1>4. ASSUME NEW i \in Items, EndTake(i)
      PROVE  TypeOK'
  BY <1>4 DEF EndTake, Return
<1>5. ASSUME NEW i \in Items, WakeWorkers(i)
      PROVE  TypeOK'
  BY <1>5 DEF WakeWorkers, Return, WakePool, DrainSleepers
<1>6. ASSUME NEW s \in Sources, DropSource(s)
      PROVE  TypeOK'
  BY <1>6 DEF DropSource
<1>7. ASSUME NEW s \in Sources, LockSleepers(s)
      PROVE  TypeOK'
  BY <1>7 DEF LockSleepers
<1>8. ASSUME NEW s \in Sources, ClaimForInsert(s)
      PROVE  TypeOK'
  BY <1>8 DEF ClaimForInsert
<1>9. ASSUME NEW s \in Sources, AddSource(s)
      PROVE  TypeOK'
  BY <1>9 DEF AddSource, DrainSleepers
<1>10. CASE CloseExit
  BY <1>10 DEF CloseExit
<1>11. CASE DrainOnDrop
  BY <1>11 DEF DrainOnDrop, WakePool, DrainSleepers
<1>12. CASE JoinWorkers
  BY <1>12 DEF JoinWorkers
<1>13. CASE UNCHANGED vars
  BY <1>13 DEF vars
<1>14. QED
  BY <1>1, <1>2, <1>3, <1>4, <1>5, <1>6, <1>7, <1>8, <1>9, <1>10, <1>11, <1>12, <1>13 DEF Next, Produce, InsertSource, DropPool

\* Every step keeps the state of the AtomicWakers consistent.
LEMMA FlagStep ==
  ASSUME TypeOK, FlagInv, [Next]_vars
  PROVE  FlagInv'
<1> USE PoolAssumption DEF TypeOK, FlagInv, workerVars, sourceVars, sleepVars, queueVars, doneVars
<1>1. ASSUME NEW w \in Workers, WorkerStep(w)
      PROVE  FlagInv'
  <2>1. CASE CheckExit(w)
    BY <2>1 DEF CheckExit
  <2>2. CASE SwapExpired(w)
    BY <2>2 DEF SwapExpired
  <2>3. CASE ClaimSources(w)
    BY <2>3 DEF ClaimSources, Transition
  <2>4. CASE ClearExpired(w)
    BY <2>4 DEF ClearExpired, Transition
  <2>5. CASE ReadSources(w)
    BY <2>5 DEF ReadSources, Transition, MayRead
  <2>6. CASE ScanSource(w)
    <3>1. PICK s \in NextToScan(w) :
            Disconnected(w, s) \/ NoWork(w, s) \/ \E i \in Items : TakeWork(w, s, i)
      BY <2>6 DEF ScanSource
    <3>2. CASE Disconnected(w, s)
      BY <2>6, <3>1, <3>2 DEF ScanSource, NextToScan, Disconnected
    <3>3. CASE NoWork(w, s)
      BY <2>6, <3>1, <3>3 DEF ScanSource, NextToScan, NoWork
    <3>4. CASE \E i \in Items : TakeWork(w, s, i)
      BY <2>6, <3>1, <3>4 DEF ScanSource, NextToScan, TakeWork, Threads
    <3>5. QED  BY <3>1, <3>2, <3>3, <3>4
  <2>7. CASE EndScan(w)
    BY <2>7 DEF EndScan
  <2>8. CASE RemoveSleeper(w)
    BY <2>8 DEF RemoveSleeper, Transition
  <2>9. CASE Execute(w)
    BY <2>9 DEF Execute, Transition
  <2>10. CASE InsertSleeper(w)
    BY <2>10 DEF InsertSleeper
  <2>11. CASE ReadForWaker(w)
    BY <2>11 DEF ReadForWaker, Transition, MayRead
  <2>12. CASE BeginRegister(w)
    <3>1. PICK s \in todo[w] :
            /\ StoreWaker(w, s) \/ JoinWake(w, s) \/ SkipWaker(w, s)
            /\ todo' = [todo EXCEPT ![w] = @ \ {s}]
      BY <2>12 DEF BeginRegister
    <3>2. CASE StoreWaker(w, s)
      BY <2>12, <3>1, <3>2 DEF BeginRegister, StoreWaker
    <3>3. CASE JoinWake(w, s)
      BY <2>12, <3>1, <3>3 DEF BeginRegister, JoinWake
    <3>4. CASE SkipWaker(w, s)
      BY <2>12, <3>1, <3>4 DEF BeginRegister, SkipWaker
    <3>5. QED  BY <3>1, <3>2, <3>3, <3>4
  <2>13. CASE EndRegister(w)
    BY <2>13 DEF EndRegister
  <2>14. CASE WakeSelf(w)
    BY <2>14 DEF WakeSelf, Transition, WakePool, DrainSleepers
  <2>15. CASE EndRegistration(w)
    BY <2>15 DEF EndRegistration, Transition
  <2>16. CASE Unpark(w)
    BY <2>16 DEF Unpark, Transition
  <2>17. QED
    BY <1>1, <2>1, <2>2, <2>3, <2>4, <2>5, <2>6, <2>7, <2>8, <2>9, <2>10, <2>11, <2>12, <2>13, <2>14, <2>15, <2>16 DEF WorkerStep
<1>2. ASSUME NEW i \in Items, Push(i)
      PROVE  FlagInv'
  BY <1>2 DEF Push
<1>3. ASSUME NEW i \in Items, BeginTake(i)
      PROVE  FlagInv'
  BY SMTT(30), <1>3 DEF BeginTake, Return
<1>4. ASSUME NEW i \in Items, EndTake(i)
      PROVE  FlagInv'
  BY <1>4 DEF EndTake, Return
<1>5. ASSUME NEW i \in Items, WakeWorkers(i)
      PROVE  FlagInv'
  BY <1>5 DEF WakeWorkers, Return, WakePool, DrainSleepers
<1>6. ASSUME NEW s \in Sources, DropSource(s)
      PROVE  FlagInv'
  BY <1>6 DEF DropSource
<1>7. ASSUME NEW s \in Sources, LockSleepers(s)
      PROVE  FlagInv'
  BY <1>7 DEF LockSleepers
<1>8. ASSUME NEW s \in Sources, ClaimForInsert(s)
      PROVE  FlagInv'
  BY <1>8 DEF ClaimForInsert
<1>9. ASSUME NEW s \in Sources, AddSource(s)
      PROVE  FlagInv'
  BY <1>9 DEF AddSource, DrainSleepers
<1>10. CASE CloseExit
  BY <1>10 DEF CloseExit
<1>11. CASE DrainOnDrop
  BY <1>11 DEF DrainOnDrop, WakePool, DrainSleepers
<1>12. CASE JoinWorkers
  BY <1>12 DEF JoinWorkers
<1>13. CASE UNCHANGED vars
  BY <1>13 DEF vars
<1>14. QED
  BY <1>1, <1>2, <1>3, <1>4, <1>5, <1>6, <1>7, <1>8, <1>9, <1>10, <1>11, <1>12, <1>13 DEF Next, Produce, InsertSource, DropPool

\* Every step keeps ParkInv: one becomes a parked worker only as a sleeper.
LEMMA ParkStep ==
  ASSUME TypeOK, ParkInv, [Next]_vars
  PROVE  ParkInv'
<1> USE PoolAssumption DEF TypeOK, ParkInv, workerVars, sourceVars, sleepVars, queueVars, doneVars
<1>1. ASSUME NEW w \in Workers, WorkerStep(w)
      PROVE  ParkInv'
  <2>1. CASE CheckExit(w)
    BY <2>1 DEF CheckExit
  <2>2. CASE SwapExpired(w)
    BY <2>2 DEF SwapExpired
  <2>3. CASE ClaimSources(w)
    BY <2>3 DEF ClaimSources, Transition
  <2>4. CASE ClearExpired(w)
    BY <2>4 DEF ClearExpired, Transition
  <2>5. CASE ReadSources(w)
    BY <2>5 DEF ReadSources, Transition, MayRead
  <2>6. CASE ScanSource(w)
    <3>1. PICK s \in NextToScan(w) :
            Disconnected(w, s) \/ NoWork(w, s) \/ \E i \in Items : TakeWork(w, s, i)
      BY <2>6 DEF ScanSource
    <3>2. CASE Disconnected(w, s)
      BY <2>6, <3>1, <3>2 DEF ScanSource, NextToScan, Disconnected
    <3>3. CASE NoWork(w, s)
      BY <2>6, <3>1, <3>3 DEF ScanSource, NextToScan, NoWork
    <3>4. CASE \E i \in Items : TakeWork(w, s, i)
      BY <2>6, <3>1, <3>4 DEF ScanSource, NextToScan, TakeWork, Threads
    <3>5. QED  BY <3>1, <3>2, <3>3, <3>4
  <2>7. CASE EndScan(w)
    BY <2>7 DEF EndScan
  <2>8. CASE RemoveSleeper(w)
    BY <2>8 DEF RemoveSleeper, Transition
  <2>9. CASE Execute(w)
    BY <2>9 DEF Execute, Transition
  <2>10. CASE InsertSleeper(w)
    BY <2>10 DEF InsertSleeper
  <2>11. CASE ReadForWaker(w)
    BY <2>11 DEF ReadForWaker, Transition, MayRead
  <2>12. CASE BeginRegister(w)
    <3>1. PICK s \in todo[w] :
            /\ StoreWaker(w, s) \/ JoinWake(w, s) \/ SkipWaker(w, s)
            /\ todo' = [todo EXCEPT ![w] = @ \ {s}]
      BY <2>12 DEF BeginRegister
    <3>2. CASE StoreWaker(w, s)
      BY <2>12, <3>1, <3>2 DEF BeginRegister, StoreWaker
    <3>3. CASE JoinWake(w, s)
      BY <2>12, <3>1, <3>3 DEF BeginRegister, JoinWake
    <3>4. CASE SkipWaker(w, s)
      BY <2>12, <3>1, <3>4 DEF BeginRegister, SkipWaker
    <3>5. QED  BY <3>1, <3>2, <3>3, <3>4
  <2>13. CASE EndRegister(w)
    BY <2>13 DEF EndRegister
  <2>14. CASE WakeSelf(w)
    BY <2>14 DEF WakeSelf, Transition, WakePool, DrainSleepers
  <2>15. CASE EndRegistration(w)
    BY <2>15 DEF EndRegistration, Transition
  <2>16. CASE Unpark(w)
    BY <2>16 DEF Unpark, Transition
  <2>17. QED
    BY <1>1, <2>1, <2>2, <2>3, <2>4, <2>5, <2>6, <2>7, <2>8, <2>9, <2>10, <2>11, <2>12, <2>13, <2>14, <2>15, <2>16 DEF WorkerStep
<1>2. ASSUME NEW i \in Items, Push(i)
      PROVE  ParkInv'
  BY <1>2 DEF Push
<1>3. ASSUME NEW i \in Items, BeginTake(i)
      PROVE  ParkInv'
  BY <1>3 DEF BeginTake, Return
<1>4. ASSUME NEW i \in Items, EndTake(i)
      PROVE  ParkInv'
  BY <1>4 DEF EndTake, Return
<1>5. ASSUME NEW i \in Items, WakeWorkers(i)
      PROVE  ParkInv'
  BY <1>5 DEF WakeWorkers, Return, WakePool, DrainSleepers
<1>6. ASSUME NEW s \in Sources, DropSource(s)
      PROVE  ParkInv'
  BY <1>6 DEF DropSource
<1>7. ASSUME NEW s \in Sources, LockSleepers(s)
      PROVE  ParkInv'
  BY <1>7 DEF LockSleepers
<1>8. ASSUME NEW s \in Sources, ClaimForInsert(s)
      PROVE  ParkInv'
  BY <1>8 DEF ClaimForInsert
<1>9. ASSUME NEW s \in Sources, AddSource(s)
      PROVE  ParkInv'
  BY <1>9 DEF AddSource, DrainSleepers
<1>10. CASE CloseExit
  BY <1>10 DEF CloseExit
<1>11. CASE DrainOnDrop
  BY <1>11 DEF DrainOnDrop, WakePool, DrainSleepers
<1>12. CASE JoinWorkers
  BY <1>12 DEF JoinWorkers
<1>13. CASE UNCHANGED vars
  BY <1>13 DEF vars
<1>14. QED
  BY <1>1, <1>2, <1>3, <1>4, <1>5, <1>6, <1>7, <1>8, <1>9, <1>10, <1>11, <1>12, <1>13 DEF Next, Produce, InsertSource, DropPool

\* Every step keeps DropInv.
LEMMA DropStep ==
  ASSUME TypeOK, ParkInv, DropInv, [Next]_vars
  PROVE  DropInv'
<1> USE PoolAssumption DEF TypeOK, ParkInv, DropInv, workerVars, sourceVars, sleepVars, queueVars, doneVars
<1>1. ASSUME NEW w \in Workers, WorkerStep(w)
      PROVE  DropInv'
  <2>1. CASE CheckExit(w)
    BY <2>1 DEF CheckExit
  <2>2. CASE SwapExpired(w)
    BY <2>2 DEF SwapExpired
  <2>3. CASE ClaimSources(w)
    BY <2>3 DEF ClaimSources, Transition
  <2>4. CASE ClearExpired(w)
    BY <2>4 DEF ClearExpired, Transition
  <2>5. CASE ReadSources(w)
    BY <2>5 DEF ReadSources, Transition, MayRead
  <2>6. CASE ScanSource(w)
    <3>1. PICK s \in NextToScan(w) :
            Disconnected(w, s) \/ NoWork(w, s) \/ \E i \in Items : TakeWork(w, s, i)
      BY <2>6 DEF ScanSource
    <3>2. CASE Disconnected(w, s)
      BY <2>6, <3>1, <3>2 DEF ScanSource, NextToScan, Disconnected
    <3>3. CASE NoWork(w, s)
      BY <2>6, <3>1, <3>3 DEF ScanSource, NextToScan, NoWork
    <3>4. CASE \E i \in Items : TakeWork(w, s, i)
      BY <2>6, <3>1, <3>4 DEF ScanSource, NextToScan, TakeWork, Threads
    <3>5. QED  BY <3>1, <3>2, <3>3, <3>4
  <2>7. CASE EndScan(w)
    BY <2>7 DEF EndScan
  <2>8. CASE RemoveSleeper(w)
    BY <2>8 DEF RemoveSleeper, Transition
  <2>9. CASE Execute(w)
    BY <2>9 DEF Execute, Transition
  <2>10. CASE InsertSleeper(w)
    BY <2>10 DEF InsertSleeper
  <2>11. CASE ReadForWaker(w)
    BY <2>11 DEF ReadForWaker, Transition, MayRead
  <2>12. CASE BeginRegister(w)
    <3>1. PICK s \in todo[w] :
            /\ StoreWaker(w, s) \/ JoinWake(w, s) \/ SkipWaker(w, s)
            /\ todo' = [todo EXCEPT ![w] = @ \ {s}]
      BY <2>12 DEF BeginRegister
    <3>2. CASE StoreWaker(w, s)
      BY <2>12, <3>1, <3>2 DEF BeginRegister, StoreWaker
    <3>3. CASE JoinWake(w, s)
      BY <2>12, <3>1, <3>3 DEF BeginRegister, JoinWake
    <3>4. CASE SkipWaker(w, s)
      BY <2>12, <3>1, <3>4 DEF BeginRegister, SkipWaker
    <3>5. QED  BY <3>1, <3>2, <3>3, <3>4
  <2>13. CASE EndRegister(w)
    BY <2>13 DEF EndRegister
  <2>14. CASE WakeSelf(w)
    BY <2>14 DEF WakeSelf, Transition, WakePool, DrainSleepers
  <2>15. CASE EndRegistration(w)
    BY <2>15 DEF EndRegistration, Transition
  <2>16. CASE Unpark(w)
    BY <2>16 DEF Unpark, Transition
  <2>17. QED
    BY <1>1, <2>1, <2>2, <2>3, <2>4, <2>5, <2>6, <2>7, <2>8, <2>9, <2>10, <2>11, <2>12, <2>13, <2>14, <2>15, <2>16 DEF WorkerStep
<1>2. ASSUME NEW i \in Items, Push(i)
      PROVE  DropInv'
  BY <1>2 DEF Push
<1>3. ASSUME NEW i \in Items, BeginTake(i)
      PROVE  DropInv'
  BY <1>3 DEF BeginTake, Return
<1>4. ASSUME NEW i \in Items, EndTake(i)
      PROVE  DropInv'
  BY <1>4 DEF EndTake, Return
<1>5. ASSUME NEW i \in Items, WakeWorkers(i)
      PROVE  DropInv'
  BY <1>5 DEF WakeWorkers, Return, WakePool, DrainSleepers
<1>6. ASSUME NEW s \in Sources, DropSource(s)
      PROVE  DropInv'
  BY <1>6 DEF DropSource
<1>7. ASSUME NEW s \in Sources, LockSleepers(s)
      PROVE  DropInv'
  BY <1>7 DEF LockSleepers
<1>8. ASSUME NEW s \in Sources, ClaimForInsert(s)
      PROVE  DropInv'
  BY <1>8 DEF ClaimForInsert
<1>9. ASSUME NEW s \in Sources, AddSource(s)
      PROVE  DropInv'
  BY <1>9 DEF AddSource, DrainSleepers
<1>10. CASE CloseExit
  BY <1>10 DEF CloseExit
<1>11. CASE DrainOnDrop
  BY <1>11 DEF DrainOnDrop, WakePool, DrainSleepers
<1>12. CASE JoinWorkers
  BY <1>12 DEF JoinWorkers
<1>13. CASE UNCHANGED vars
  BY <1>13 DEF vars
<1>14. QED
  BY <1>1, <1>2, <1>3, <1>4, <1>5, <1>6, <1>7, <1>8, <1>9, <1>10, <1>11, <1>12, <1>13 DEF Next, Produce, InsertSource, DropPool

\* Every step keeps Covered.
LEMMA CoveredStep ==
  ASSUME TypeOK, FlagInv, Covered, [Next]_vars
  PROVE  Covered'
<1> USE PoolAssumption DEF TypeOK, FlagInv, Covered, WakerComing, workerVars, sourceVars, sleepVars, queueVars, doneVars
<1>1. ASSUME NEW w \in Workers, WorkerStep(w)
      PROVE  Covered'
  <2>1. CASE CheckExit(w)
    BY SMTT(30), <2>1 DEF CheckExit
  <2>2. CASE SwapExpired(w)
    BY <2>2 DEF SwapExpired
  <2>3. CASE ClaimSources(w)
    BY <2>3 DEF ClaimSources, Transition
  <2>4. CASE ClearExpired(w)
    BY <2>4 DEF ClearExpired, Transition
  <2>5. CASE ReadSources(w)
    BY SMTT(30), <2>5 DEF ReadSources, Transition, MayRead
  <2>6. CASE ScanSource(w)
    <3>1. PICK s \in NextToScan(w) :
            Disconnected(w, s) \/ NoWork(w, s) \/ \E i \in Items : TakeWork(w, s, i)
      BY <2>6 DEF ScanSource
    <3>2. CASE Disconnected(w, s)
      BY <2>6, <3>1, <3>2 DEF ScanSource, NextToScan, Disconnected
    <3>3. CASE NoWork(w, s)
      BY <2>6, <3>1, <3>3 DEF ScanSource, NextToScan, NoWork
    <3>4. CASE \E i \in Items : TakeWork(w, s, i)
      BY <2>6, <3>1, <3>4 DEF ScanSource, NextToScan, TakeWork, Threads
    <3>5. QED  BY <3>1, <3>2, <3>3, <3>4
  <2>7. CASE EndScan(w)
    BY <2>7 DEF EndScan
  <2>8. CASE RemoveSleeper(w)
    BY <2>8 DEF RemoveSleeper, Transition
  <2>9. CASE Execute(w)
    BY <2>9 DEF Execute, Transition
  <2>10. CASE InsertSleeper(w)
    <3>1. CASE w \in sleepers
      BY <2>10, <3>1 DEF InsertSleeper
    <3>2. CASE w \notin sleepers /\ sleepers # {}
      BY <2>10, <3>2 DEF InsertSleeper
    <3>3. CASE sleepers = {}
      BY <2>10, <3>3 DEF InsertSleeper
    <3>4. QED  BY <3>1, <3>2, <3>3
  <2>11. CASE ReadForWaker(w)
    BY <2>11 DEF ReadForWaker, Transition, MayRead
  <2>12. CASE BeginRegister(w)
    <3>1. PICK s \in todo[w] :
            /\ StoreWaker(w, s) \/ JoinWake(w, s) \/ SkipWaker(w, s)
            /\ todo' = [todo EXCEPT ![w] = @ \ {s}]
      BY <2>12 DEF BeginRegister
    <3>2. CASE StoreWaker(w, s)
      BY <2>12, <3>1, <3>2 DEF BeginRegister, StoreWaker
    <3>3. CASE JoinWake(w, s)
      BY <2>12, <3>1, <3>3 DEF BeginRegister, JoinWake
    <3>4. CASE SkipWaker(w, s)
      BY <2>12, <3>1, <3>4 DEF BeginRegister, SkipWaker
    <3>5. QED  BY <3>1, <3>2, <3>3, <3>4
  <2>13. CASE EndRegister(w)
    BY <2>13 DEF EndRegister
  <2>14. CASE WakeSelf(w)
    BY <2>14 DEF WakeSelf, Transition, WakePool, DrainSleepers
  <2>15. CASE EndRegistration(w)
    BY <2>15 DEF EndRegistration, Transition
  <2>16. CASE Unpark(w)
    BY <2>16 DEF Unpark, Transition
  <2>17. QED
    BY <1>1, <2>1, <2>2, <2>3, <2>4, <2>5, <2>6, <2>7, <2>8, <2>9, <2>10, <2>11, <2>12, <2>13, <2>14, <2>15, <2>16 DEF WorkerStep
<1>2. ASSUME NEW i \in Items, Push(i)
      PROVE  Covered'
  BY <1>2 DEF Push
<1>3. ASSUME NEW i \in Items, BeginTake(i)
      PROVE  Covered'
  BY <1>3 DEF BeginTake, Return
<1>4. ASSUME NEW i \in Items, EndTake(i)
      PROVE  Covered'
  BY <1>4 DEF EndTake, Return
<1>5. ASSUME NEW i \in Items, WakeWorkers(i)
      PROVE  Covered'
  BY <1>5 DEF WakeWorkers, Return, WakePool, DrainSleepers
<1>6. ASSUME NEW s \in Sources, DropSource(s)
      PROVE  Covered'
  BY <1>6 DEF DropSource
<1>7. ASSUME NEW s \in Sources, LockSleepers(s)
      PROVE  Covered'
  BY <1>7 DEF LockSleepers
<1>8. ASSUME NEW s \in Sources, ClaimForInsert(s)
      PROVE  Covered'
  BY <1>8 DEF ClaimForInsert
<1>9. ASSUME NEW s \in Sources, AddSource(s)
      PROVE  Covered'
  BY <1>9 DEF AddSource, DrainSleepers
<1>10. CASE CloseExit
  BY <1>10 DEF CloseExit
<1>11. CASE DrainOnDrop
  BY <1>11 DEF DrainOnDrop, WakePool, DrainSleepers
<1>12. CASE JoinWorkers
  BY <1>12 DEF JoinWorkers
<1>13. CASE UNCHANGED vars
  BY <1>13 DEF vars
<1>14. QED
  BY <1>1, <1>2, <1>3, <1>4, <1>5, <1>6, <1>7, <1>8, <1>9, <1>10, <1>11, <1>12, <1>13 DEF Next, Produce, InsertSource, DropPool

\* With no sleepers left, every worker of a live pool will scan before it sleeps.
LEMMA AllAwake ==
  ASSUME TypeOK', ParkInv', sleepers' = {}, dropping' = "live",
         NEW v \in Workers, NEW s \in Sources
  PROVE  WillScan(v, s)'
BY DEF TypeOK, WorkerStates, ParkInv, WillScan

\* Every step keeps Noticed.  The delicate step is EndTake on a source without
\* a waker: Covered names who will look at the source instead.
LEMMA NoticedStep ==
  ASSUME IInv, [Next]_vars
  PROVE  Noticed'
<1> USE PoolAssumption DEF IInv, TypeOK, FlagInv, ParkInv, WillScan, Noticed, workerVars, sourceVars, sleepVars, queueVars, doneVars
<1>1. ASSUME NEW w \in Workers, WorkerStep(w)
      PROVE  Noticed'
  <2>1. CASE CheckExit(w)
    BY <2>1 DEF CheckExit
  <2>2. CASE SwapExpired(w)
    BY <2>2 DEF SwapExpired
  <2>3. CASE ClaimSources(w)
    BY <2>3 DEF ClaimSources, Transition
  <2>4. CASE ClearExpired(w)
    BY <2>4 DEF ClearExpired, Transition
  <2>5. CASE ReadSources(w)
    BY <2>5 DEF ReadSources, Transition, MayRead
  <2>6. CASE ScanSource(w)
    <3>1. PICK s \in NextToScan(w) :
            Disconnected(w, s) \/ NoWork(w, s) \/ \E i \in Items : TakeWork(w, s, i)
      BY <2>6 DEF ScanSource
    <3>2. CASE Disconnected(w, s)
      BY <2>6, <3>1, <3>2 DEF ScanSource, NextToScan, Disconnected
    <3>3. CASE NoWork(w, s)
      BY <2>6, <3>1, <3>3 DEF ScanSource, NextToScan, NoWork
    <3>4. CASE \E i \in Items : TakeWork(w, s, i)
      BY <2>6, <3>1, <3>4 DEF ScanSource, NextToScan, TakeWork, Threads
    <3>5. QED  BY <3>1, <3>2, <3>3, <3>4
  <2>7. CASE EndScan(w)
    BY <2>7 DEF EndScan
  <2>8. CASE RemoveSleeper(w)
    BY <2>8 DEF RemoveSleeper, Transition
  <2>9. CASE Execute(w)
    BY <2>9 DEF Execute, Transition
  <2>10. CASE InsertSleeper(w)
    BY <2>10 DEF InsertSleeper
  <2>11. CASE ReadForWaker(w)
    BY <2>11 DEF ReadForWaker, Transition, MayRead
  <2>12. CASE BeginRegister(w)
    <3>1. PICK s \in todo[w] :
            /\ StoreWaker(w, s) \/ JoinWake(w, s) \/ SkipWaker(w, s)
            /\ todo' = [todo EXCEPT ![w] = @ \ {s}]
      BY <2>12 DEF BeginRegister
    <3>2. CASE StoreWaker(w, s)
      BY <2>12, <3>1, <3>2 DEF BeginRegister, StoreWaker
    <3>3. CASE JoinWake(w, s)
      BY <2>12, <3>1, <3>3 DEF BeginRegister, JoinWake
    <3>4. CASE SkipWaker(w, s)
      BY <2>12, <3>1, <3>4 DEF BeginRegister, SkipWaker
    <3>5. QED  BY <3>1, <3>2, <3>3, <3>4
  <2>13. CASE EndRegister(w)
    BY <2>13 DEF EndRegister
  <2>14. CASE WakeSelf(w)
    BY <2>14 DEF WakeSelf, Transition, WakePool, DrainSleepers
  <2>15. CASE EndRegistration(w)
    BY <2>15 DEF EndRegistration, Transition
  <2>16. CASE Unpark(w)
    BY <2>16 DEF Unpark, Transition
  <2>17. QED
    BY <1>1, <2>1, <2>2, <2>3, <2>4, <2>5, <2>6, <2>7, <2>8, <2>9, <2>10, <2>11, <2>12, <2>13, <2>14, <2>15, <2>16 DEF WorkerStep
<1>2. ASSUME NEW i \in Items, Push(i)
      PROVE  Noticed'
  BY <1>2 DEF Push
<1>3. ASSUME NEW i \in Items, BeginTake(i)
      PROVE  Noticed'
  BY <1>3 DEF BeginTake, Return
<1>4. ASSUME NEW i \in Items, EndTake(i)
      PROVE  Noticed'
  <2> SUFFICES ASSUME NEW t \in registered \cap alive, queue[t] # {}, dropping = "live"
               PROVE  \/ \E v \in Workers : WillScan(v, t)'
                      \/ \E j \in Items : /\ TargetOf[j] = t
                                         /\ push'[j] \in {"wake", "taking", "drain"}
    BY <1>4 DEF EndTake, Noticed
  <2>1. CASE \E v \in Workers : WillScan(v, t)
    BY <2>1, <1>4 DEF EndTake, WillScan
  <2>2. CASE \E j \in Items : j # i /\ TargetOf[j] = t /\ push[j] \in {"wake", "taking", "drain"}
    BY <2>2, <1>4 DEF EndTake, Return
  <2>3. CASE TargetOf[i] = t /\ t \in slot
    BY <2>3, <1>4 DEF EndTake
  <2>4. CASE TargetOf[i] = t /\ t \notin slot
    <3>1. CASE sleepers = {}
      <4>1. sleepers' = {} /\ dropping' = "live"
        BY <3>1, <1>4 DEF EndTake
      <4>2. PICK v \in Workers : TRUE
        OBVIOUS
      <4>3. WillScan(v, t)'
        BY <4>1, AllAwake, TypeStep, ParkStep DEF IInv
      <4>4. QED  BY <4>3
    <3>2. CASE sleepers # {}
      <4>1. WakerComing(t)
        BY <3>2, <2>4 DEF Covered
      <4>2. CASE \E v \in Workers : pc[v] \in {"readWaker", "wakeSelf", "register", "registering"}
        BY <4>2, <1>4 DEF EndTake, WillScan
      <4>3. CASE \E j \in Items : TargetOf[j] = t /\ push[j] = "drain"
        BY <4>3, <1>4 DEF EndTake, Return
      <4>4. QED  BY <4>1, <4>2, <4>3 DEF WakerComing
    <3>3. QED  BY <3>1, <3>2
  <2>5. QED  BY <2>1, <2>2, <2>3, <2>4 DEF Noticed
<1>5. ASSUME NEW i \in Items, WakeWorkers(i)
      PROVE  Noticed'
  <2>1. sleepers' = {}
    BY <1>5 DEF WakeWorkers, WakePool, DrainSleepers
  <2>2. PICK v \in Workers : TRUE
    OBVIOUS
  <2>3. \A t \in Sources : dropping' = "live" => WillScan(v, t)'
    BY <2>1, AllAwake, TypeStep, ParkStep DEF IInv
  <2>4. registered' \cap alive' \subseteq Sources
    BY TypeStep DEF IInv
  <2>5. QED  BY <2>2, <2>3, <2>4 DEF Noticed
<1>6. ASSUME NEW s \in Sources, DropSource(s)
      PROVE  Noticed'
  BY <1>6 DEF DropSource
<1>7. ASSUME NEW s \in Sources, LockSleepers(s)
      PROVE  Noticed'
  BY <1>7 DEF LockSleepers
<1>8. ASSUME NEW s \in Sources, ClaimForInsert(s)
      PROVE  Noticed'
  BY <1>8 DEF ClaimForInsert
<1>9. ASSUME NEW s \in Sources, AddSource(s)
      PROVE  Noticed'
  <2>1. sleepers' = {}
    BY <1>9 DEF AddSource, DrainSleepers
  <2>2. PICK v \in Workers : TRUE
    OBVIOUS
  <2>3. \A t \in Sources : dropping' = "live" => WillScan(v, t)'
    BY <2>1, AllAwake, TypeStep, ParkStep DEF IInv
  <2>4. registered' \cap alive' \subseteq Sources
    BY TypeStep DEF IInv
  <2>5. QED  BY <2>2, <2>3, <2>4 DEF Noticed
<1>10. CASE CloseExit
  BY <1>10 DEF CloseExit
<1>11. CASE DrainOnDrop
  BY <1>11 DEF DrainOnDrop, WakePool, DrainSleepers
<1>12. CASE JoinWorkers
  BY <1>12 DEF JoinWorkers
<1>13. CASE UNCHANGED vars
  BY <1>13 DEF vars
<1>14. QED
  BY <1>1, <1>2, <1>3, <1>4, <1>5, <1>6, <1>7, <1>8, <1>9, <1>10, <1>11, <1>12, <1>13 DEF Next, Produce, InsertSource, DropPool

THEOREM InductiveInvariant == Spec => []IInv
<1>1. Init => IInv
  <2> SUFFICES ASSUME Init PROVE IInv
    OBVIOUS
  <2>1. TypeOK
    BY PoolAssumption DEF Init, TypeOK, WorkerStates
  <2>2. FlagInv
    BY DEF Init, FlagInv
  <2>3. ParkInv /\ Covered /\ Noticed /\ DropInv
    BY PoolAssumption DEF Init, ParkInv, Covered, Noticed, DropInv
  <2>4. QED  BY <2>1, <2>2, <2>3 DEF IInv
<1>2. IInv /\ [Next]_vars => IInv'
  BY TypeStep, FlagStep, ParkStep, DropStep, CoveredStep, NoticedStep DEF IInv
<1>3. QED  BY <1>1, <1>2, PTL DEF Spec

\* The variables keep their types.
THEOREM TypeCorrect == Spec => []TypeOK
<1>1. IInv => TypeOK  BY DEF IInv
<1>2. QED  BY <1>1, InductiveInvariant, PTL

\* The pool is never asleep next to work, unless a wake is on its way.
THEOREM WakeupsAreNotLost == Spec => []NoLostWakeup
<1>1. IInv => NoLostWakeup
  <2> SUFFICES ASSUME IInv, dropping = "live", NEW s \in Sources, Waiting(s), ~WakeUnderWay
               PROVE  \E w \in Workers : ~Asleep(w)
    BY DEF NoLostWakeup
  <2>1. PICK v \in Workers : WillScan(v, s)
    BY DEF IInv, Noticed, Waiting, WakeUnderWay
  <2>2. ~Asleep(v)
    BY <2>1 DEF WillScan, Asleep
  <2>3. QED  BY <2>2
<1>2. QED  BY <1>1, InductiveInvariant, PTL

\* After the sleepers were drained no worker sleeps through the drop.
THEOREM DropWakesEverybody == Spec => []DropReachesSleepers
<1>1. IInv => DropReachesSleepers
  BY DEF IInv, DropInv, DropReachesSleepers, Asleep
<1>2. QED  BY <1>1, InductiveInvariant, PTL
-----------------------------------------------------------------------------
(* The pool implements WorkDispatch.  What that needs, besides the types,  *)
(* is where an item can be: in the queue of its source, with one worker,   *)
(* or done with; and an item that is anywhere was pushed.                  *)

Placed ==
  /\ \A s \in Sources : \A i \in queue[s] :
       TargetOf[i] = s /\ push[i] # "idle" /\ i \notin executed \cup cancelled
         /\ \A w \in Workers : item[w] # i
  /\ \A w \in Workers : item[w] \in Items =>
       push[item[w]] # "idle" /\ item[w] \notin executed \cup cancelled
  /\ \A v, w \in Workers : (item[v] \in Items /\ item[v] = item[w]) => v = w
  /\ \A i \in executed \cup cancelled : push[i] # "idle"
  /\ executed \cap cancelled = {}

\* A producer that goes on has pushed its item already.
LEMMA PushedOn ==
  ASSUME TypeOK, Placed, UNCHANGED <<item, queue, executed, cancelled>>,
         \A i \in Items : push'[i] # push[i] => push'[i] # "idle"
  PROVE  Placed'
BY DEF TypeOK, Placed

\* The steps of a worker that move no item.
LEMMA WorkerMovesNothing ==
  ASSUME NEW w \in Workers, WorkerStep(w),
         ~ \E s \in Sources, i \in Items : pc[w] = "scan" /\ item[w] = None /\ TakeWork(w, s, i),
         ~Execute(w), TypeOK
  PROVE  UNCHANGED <<item, queue, executed, cancelled, push>>
<1> USE DEF queueVars, doneVars
<1>1. CASE CheckExit(w) \/ SwapExpired(w) \/ ClaimSources(w) \/ ClearExpired(w) \/ ReadSources(w)
  BY <1>1 DEF CheckExit, SwapExpired, ClaimSources, ClearExpired, ReadSources
<1>2. CASE ScanSource(w)
  <2>1. PICK s \in NextToScan(w) :
          Disconnected(w, s) \/ NoWork(w, s) \/ \E i \in Items : TakeWork(w, s, i)
    BY <1>2 DEF ScanSource
  <2>2. s \in Sources
    BY <2>1 DEF NextToScan, TypeOK
  <2>3. UNCHANGED <<item, queue>>
    BY <1>2, <2>1, <2>2 DEF ScanSource, Disconnected, NoWork
  <2>4. QED  BY <1>2, <2>3 DEF ScanSource
<1>3. CASE EndScan(w) \/ RemoveSleeper(w) \/ InsertSleeper(w) \/ ReadForWaker(w)
  BY <1>3 DEF EndScan, RemoveSleeper, InsertSleeper, ReadForWaker
<1>4. CASE BeginRegister(w) \/ EndRegister(w) \/ WakeSelf(w) \/ EndRegistration(w) \/ Unpark(w)
  BY <1>4 DEF BeginRegister, EndRegister, WakeSelf, EndRegistration, Unpark
<1>5. QED  BY <1>1, <1>2, <1>3, <1>4 DEF WorkerStep

\* The steps that are neither a worker's nor the push or the drop of an item.
LEMMA OthersMoveNothing ==
  ASSUME TypeOK,
         \/ \E i \in Items : Produce(i)
         \/ \E s \in Sources : LockSleepers(s) \/ InsertSource(s)
         \/ CloseExit \/ DropPool \/ UNCHANGED vars
  PROVE  /\ UNCHANGED <<item, queue, executed, cancelled>>
         /\ \A i \in Items : push'[i] # push[i] => push'[i] # "idle"
<1> USE DEF TypeOK, workerVars, queueVars, doneVars
<1>1. ASSUME NEW i \in Items, Produce(i)
      PROVE  /\ UNCHANGED <<item, queue, executed, cancelled>>
             /\ \A j \in Items : push'[j] # push[j] => push'[j] # "idle"
  BY <1>1 DEF Produce, BeginTake, EndTake, WakeWorkers, Return
<1>2. ASSUME NEW s \in Sources, LockSleepers(s) \/ InsertSource(s)
      PROVE  UNCHANGED <<item, queue, executed, cancelled, push>>
  BY <1>2 DEF LockSleepers, InsertSource, ClaimForInsert, AddSource
<1>3. CASE CloseExit \/ DropPool \/ UNCHANGED vars
  BY <1>3 DEF CloseExit, DropPool, DrainOnDrop, JoinWorkers, vars
<1>4. QED  BY <1>1, <1>2, <1>3

\* What an item has come to, told from one place it is in.
LEMMA StatusFacts ==
  ASSUME TypeOK, Placed, NEW i \in Items
  PROVE  /\ i \in executed => StatusOf(i) = "done"
         /\ i \in cancelled => StatusOf(i) = "cancelled"
         /\ \A w \in Workers : item[w] = i => StatusOf(i) = "running"
         /\ \A s \in Sources : i \in queue[s] => StatusOf(i) = "queued"
         /\ push[i] = "idle" => StatusOf(i) = "new"
BY PoolAssumption DEF TypeOK, Placed, StatusOf

\* Nothing has happened to an item whose places are the same.
LEMMA SameStatus ==
  ASSUME NEW i \in Items,
         i \in executed' <=> i \in executed, i \in cancelled' <=> i \in cancelled,
         \A w \in Workers : item'[w] = i <=> item[w] = i,
         i \in queue'[TargetOf[i]] <=> i \in queue[TargetOf[i]]
  PROVE  StatusOf(i)' = StatusOf(i)
BY DEF StatusOf

\* An item is pushed: Submit.
LEMMA PushSubmits ==
  ASSUME TypeOK, Placed, NEW i \in Items, Push(i)
  PROVE  Placed' /\ Dispatch!Submit(i)
<1> USE PoolAssumption DEF TypeOK, workerVars, doneVars
<1>1. /\ push[i] = "idle" /\ push' = [push EXCEPT ![i] = "wake"]
      /\ queue' = [queue EXCEPT ![TargetOf[i]] = @ \cup {i}]
      /\ UNCHANGED <<item, executed, cancelled>>
  BY DEF Push
<1>2. i \notin executed \cup cancelled /\ \A w \in Workers : item[w] # i
  BY <1>1 DEF Placed
<1>3. Placed'
  BY <1>1, <1>2 DEF Placed
<1>4. StatusOf(i) = "new"
  BY <1>1, StatusFacts
<1>5. StatusOf(i)' = "queued"
  BY <1>1, <1>2 DEF StatusOf
<1>6. \A j \in Items \ {i} : StatusOf(j)' = StatusOf(j)
  BY <1>1, SameStatus
<1>7. QED  BY <1>1, <1>3, <1>4, <1>5, <1>6 DEF Dispatch!Submit

\* A worker pops an item: Start.
LEMMA TakeStarts ==
  ASSUME TypeOK, Placed, NEW w \in Workers, NEW s \in Sources, NEW i \in Items,
         TakeWork(w, s, i), item[w] = None, UNCHANGED <<push, executed, cancelled>>
  PROVE  Placed' /\ Dispatch!Start(w, i)
<1> USE PoolAssumption DEF TypeOK
<1>1. /\ i \in queue[s] /\ queue' = [queue EXCEPT ![s] = @ \ {i}]
      /\ item' = [item EXCEPT ![w] = i]
  BY DEF TakeWork
<1>2. /\ TargetOf[i] = s /\ push[i] # "idle" /\ i \notin executed \cup cancelled
      /\ \A v \in Workers : item[v] # i
  BY <1>1 DEF Placed
<1>3. Placed'
  BY <1>1, <1>2 DEF Placed
<1>4. StatusOf(i) = "queued"
  BY <1>1, StatusFacts
<1>5. StatusOf(i)' = "running"
  BY <1>1, <1>2 DEF StatusOf
<1>6. \A j \in Items \ {i} : StatusOf(j)' = StatusOf(j)
  <2> SUFFICES ASSUME NEW j \in Items \ {i} PROVE StatusOf(j)' = StatusOf(j)
    OBVIOUS
  <2>1. \A v \in Workers : item'[v] = j <=> item[v] = j
    BY <1>1, <1>2, PoolAssumption DEF Threads
  <2>2. j \in queue'[TargetOf[j]] <=> j \in queue[TargetOf[j]]
    BY <1>1
  <2>3. QED  BY <2>1, <2>2, SameStatus
<1>7. QED  BY <1>1, <1>3, <1>4, <1>5, <1>6 DEF Dispatch!Start

\* An item's execute() returns: Finish.
LEMMA ExecuteFinishes ==
  ASSUME TypeOK, Placed, NEW w \in Workers, Execute(w)
  PROVE  Placed' /\ Dispatch!Finish(w)
<1> USE PoolAssumption DEF TypeOK, queueVars
<1>1. PICK i \in Items : item[w] = i
  BY DEF Execute, Transition
<1>2. /\ executed' = executed \cup {i} /\ item' = [item EXCEPT ![w] = None]
      /\ UNCHANGED <<queue, push, cancelled>>
  BY <1>1 DEF Execute
<1>3. /\ push[i] # "idle" /\ i \notin executed \cup cancelled
      /\ \A v \in Workers : item[v] = i => v = w
      /\ \A s \in Sources : i \notin queue[s]
  BY <1>1 DEF Placed
<1>4. Placed'
  BY <1>1, <1>2, <1>3 DEF Placed, Threads
<1>5. StatusOf(i)' = "done"
  <2>1. i \notin cancelled' /\ i \notin queue'[TargetOf[i]] /\ \A v \in Workers : item'[v] # i
    BY <1>2, <1>3 DEF Threads
  <2>2. QED  BY <1>2, <2>1 DEF StatusOf
<1>6. \A j \in Items \ {i} : StatusOf(j)' = StatusOf(j)
  <2> SUFFICES ASSUME NEW j \in Items \ {i} PROVE StatusOf(j)' = StatusOf(j)
    OBVIOUS
  <2>1. \A v \in Workers : item'[v] = j <=> item[v] = j
    BY <1>1, <1>2 DEF Threads
  <2>2. QED  BY <1>2, <2>1, SameStatus
<1>7. QED  BY <1>1, <1>2, <1>4, <1>5, <1>6 DEF Dispatch!Finish

\* A source is dropped, with all it queues: Cancel.
LEMMA DropCancels ==
  ASSUME TypeOK, Placed, NEW s \in Sources, DropSource(s)
  PROVE  Placed' /\ Dispatch!Cancel(queue[s])
<1> USE PoolAssumption DEF TypeOK, workerVars
<1>1. /\ cancelled' = cancelled \cup queue[s] /\ queue' = [queue EXCEPT ![s] = {}]
      /\ UNCHANGED <<item, push, executed>>
  BY DEF DropSource
<1>2. Placed'
  BY <1>1 DEF Placed
<1>3. \A i \in queue[s] : StatusOf(i) = "queued" /\ StatusOf(i)' = "cancelled"
  <2> SUFFICES ASSUME NEW i \in queue[s] PROVE StatusOf(i) = "queued" /\ StatusOf(i)' = "cancelled"
    OBVIOUS
  <2>1. i \in Items /\ i \notin executed /\ TargetOf[i] = s /\ \A w \in Workers : item[w] # i
    BY DEF Placed
  <2>2. StatusOf(i) = "queued"
    BY <2>1, StatusFacts
  <2>3. StatusOf(i)' = "cancelled"
    BY <1>1, <2>1 DEF StatusOf
  <2>4. QED  BY <2>2, <2>3
<1>4. \A i \in Items \ queue[s] : StatusOf(i)' = StatusOf(i)
  BY <1>1, SameStatus
<1>5. QED  BY <1>1, <1>2, <1>3, <1>4 DEF Dispatch!Cancel

\* Every step keeps the items in their places, and is a step of WorkDispatch
\* or none.
LEMMA DispatchStep ==
  ASSUME TypeOK, Placed, [Next]_vars
  PROVE  Placed' /\ [Dispatch!Next]_Dispatch!vars
<1>1. ASSUME UNCHANGED <<item, queue, executed, cancelled>>,
             \A i \in Items : push'[i] # push[i] => push'[i] # "idle"
      PROVE  Placed' /\ UNCHANGED Dispatch!vars
  <2>1. \A i \in Items : StatusOf(i)' = StatusOf(i)
    BY <1>1, SameStatus
  <2>2. QED  BY <1>1, <2>1, PushedOn DEF Dispatch!vars
<1>2. CASE \E i \in Items : Push(i)
  BY <1>2, PushSubmits DEF Dispatch!Next
<1>3. CASE \E s \in Sources : DropSource(s)
  <2>1. PICK s \in Sources : DropSource(s)
    BY <1>3
  <2>2. queue[s] \in SUBSET Items
    BY DEF TypeOK
  <2>3. QED  BY <2>1, <2>2, DropCancels DEF Dispatch!Next
<1>4. ASSUME NEW w \in Workers, WorkerStep(w)
      PROVE  Placed' /\ [Dispatch!Next]_Dispatch!vars
  <2>1. CASE Execute(w)
    BY <2>1, ExecuteFinishes DEF Dispatch!Next
  <2>2. CASE \E s \in Sources, i \in Items : pc[w] = "scan" /\ item[w] = None /\ TakeWork(w, s, i)
    <3>1. PICK s \in Sources, i \in Items : pc[w] = "scan" /\ item[w] = None /\ TakeWork(w, s, i)
      BY <2>2
    <3>2. UNCHANGED <<push, executed, cancelled>>
      <4>1. ScanSource(w)
        BY <1>4, <3>1, PoolAssumption DEF WorkerStep, CheckExit, SwapExpired, ClaimSources, ClearExpired,
           ReadSources, EndScan, RemoveSleeper, Execute, InsertSleeper, ReadForWaker, BeginRegister,
           EndRegister, WakeSelf, EndRegistration, Unpark, Transition, TakeWork, TypeOK, Threads
      <4>2. QED  BY <4>1 DEF ScanSource, doneVars
    <3>3. QED  BY <3>1, <3>2, TakeStarts DEF Dispatch!Next
  <2>3. CASE ~ (Execute(w) \/ \E s \in Sources, i \in Items :
                  pc[w] = "scan" /\ item[w] = None /\ TakeWork(w, s, i))
    <3>1. UNCHANGED <<item, queue, executed, cancelled, push>>
      BY <1>4, <2>3, WorkerMovesNothing
    <3>2. QED  BY <1>1, <3>1
  <2>4. QED  BY <2>1, <2>2, <2>3
<1>5. CASE \/ \E i \in Items : Produce(i)
           \/ \E s \in Sources : LockSleepers(s) \/ InsertSource(s)
           \/ CloseExit \/ DropPool \/ UNCHANGED vars
  BY <1>1, <1>5, OthersMoveNothing
<1>6. QED  BY <1>2, <1>3, <1>4, <1>5 DEF Next

\* Every item is queued once, run at most once, by one worker from start to
\* end, and not after it was dropped with its source (pool.rs, find_work;
\* task.rs, WorkQueue).
THEOREM PoolImplementsDispatch == Spec => ImplementsDispatch
<1>1. Init => Placed /\ Dispatch!Init
  <2> SUFFICES ASSUME Init PROVE Placed /\ Dispatch!Init
    OBVIOUS
  <2>1. Placed
    BY PoolAssumption DEF Init, Placed, Threads
  <2>2. \A i \in Items : StatusOf(i) = "new"
    BY PoolAssumption DEF Init, StatusOf, Threads
  <2>3. QED  BY <2>1, <2>2 DEF Init, Dispatch!Init
<1>2. TypeOK /\ Placed /\ [Next]_vars => Placed' /\ [Dispatch!Next]_Dispatch!vars
  BY DispatchStep
<1>3. QED  BY <1>1, <1>2, TypeCorrect, PTL DEF Spec, ImplementsDispatch, Dispatch!Spec

-----------------------------------------------------------------------------
(* The order of a scan.                                                     *)

\* What a dropped source queued went with it.
DroppedAreEmpty == \A s \in Sources \ alive : queue[s] = {}

\* Where worker v can be after a step: it goes on with its scan, and leaves
\* aside only sources that had nothing; or it begins one, of every source that
\* could have something.
ScansOn(v) ==
  /\ pc[v] = "scan" /\ item[v] = None
  /\ \A s \in todo[v] \ todo'[v] : queue[s] = {}

ScansAll(v) == pc[v] # "scan" /\ registered \cap alive \subseteq todo'[v]

\* No step of the pool passes over a source that has work, or turns back a
\* producer.
LEMMA ScanStep ==
  ASSUME TypeOK, ParkInv, DroppedAreEmpty, [Next]_vars
  PROVE  /\ DroppedAreEmpty'
         /\ \A i \in Items : push[i] # "idle" => push'[i] # "idle"
         /\ \A i \in Items, s \in Sources : i \in queue'[s] => i \in queue[s] \/ push[i] = "idle"
         /\ \A v \in Workers : (pc'[v] = "scan" /\ item'[v] = None) => ScansOn(v) \/ ScansAll(v)
<1> DEFINE Goal == /\ DroppedAreEmpty'
                   /\ \A i \in Items : push[i] # "idle" => push'[i] # "idle"
                   /\ \A i \in Items, s \in Sources :
                        i \in queue'[s] => i \in queue[s] \/ push[i] = "idle"
                   /\ \A v \in Workers :
                        (pc'[v] = "scan" /\ item'[v] = None) => ScansOn(v) \/ ScansAll(v)
<1> SUFFICES Goal
  OBVIOUS
<1> USE PoolAssumption DEF TypeOK, DroppedAreEmpty, ScansOn, ScansAll, workerVars, sourceVars, sleepVars, queueVars, doneVars
<1>1. ASSUME NEW w \in Workers, WorkerStep(w)
      PROVE  Goal
  <2>1. CASE CheckExit(w)
    BY <2>1 DEF CheckExit
  <2>2. CASE SwapExpired(w)
    BY <2>2 DEF SwapExpired
  <2>3. CASE ClaimSources(w)
    BY <2>3 DEF ClaimSources, Transition
  <2>4. CASE ClearExpired(w)
    BY <2>4 DEF ClearExpired, Transition, ParkInv
  <2>5. CASE ReadSources(w)
    BY <2>5 DEF ReadSources, Transition, MayRead
  <2>6. CASE ScanSource(w)
    <3>1. PICK s \in NextToScan(w) :
            Disconnected(w, s) \/ NoWork(w, s) \/ \E i \in Items : TakeWork(w, s, i)
      BY <2>6 DEF ScanSource
    <3>2. CASE Disconnected(w, s)
      BY <2>6, <3>1, <3>2 DEF ScanSource, NextToScan, Disconnected
    <3>3. CASE NoWork(w, s)
      BY <2>6, <3>1, <3>3 DEF ScanSource, NextToScan, NoWork
    <3>4. CASE \E i \in Items : TakeWork(w, s, i)
      BY <2>6, <3>1, <3>4 DEF ScanSource, NextToScan, TakeWork, Threads
    <3>5. QED  BY <3>1, <3>2, <3>3, <3>4
  <2>7. CASE EndScan(w)
    BY <2>7 DEF EndScan
  <2>8. CASE RemoveSleeper(w)
    BY <2>8 DEF RemoveSleeper, Transition
  <2>9. CASE Execute(w)
    BY <2>9 DEF Execute, Transition
  <2>10. CASE InsertSleeper(w)
    BY <2>10 DEF InsertSleeper
  <2>11. CASE ReadForWaker(w)
    BY <2>11 DEF ReadForWaker, Transition, MayRead
  <2>12. CASE BeginRegister(w)
    <3>1. PICK s \in todo[w] :
            /\ StoreWaker(w, s) \/ JoinWake(w, s) \/ SkipWaker(w, s)
            /\ todo' = [todo EXCEPT ![w] = @ \ {s}]
      BY <2>12 DEF BeginRegister
    <3>2. CASE StoreWaker(w, s)
      BY <2>12, <3>1, <3>2 DEF BeginRegister, StoreWaker
    <3>3. CASE JoinWake(w, s)
      BY <2>12, <3>1, <3>3 DEF BeginRegister, JoinWake
    <3>4. CASE SkipWaker(w, s)
      BY <2>12, <3>1, <3>4 DEF BeginRegister, SkipWaker
    <3>5. QED  BY <3>1, <3>2, <3>3, <3>4
  <2>13. CASE EndRegister(w)
    BY <2>13 DEF EndRegister
  <2>14. CASE WakeSelf(w)
    BY <2>14 DEF WakeSelf, Transition, WakePool, DrainSleepers
  <2>15. CASE EndRegistration(w)
    BY <2>15 DEF EndRegistration, Transition
  <2>16. CASE Unpark(w)
    BY <2>16 DEF Unpark, Transition
  <2>17. QED
    BY <1>1, <2>1, <2>2, <2>3, <2>4, <2>5, <2>6, <2>7, <2>8, <2>9, <2>10, <2>11, <2>12, <2>13, <2>14, <2>15, <2>16 DEF WorkerStep
<1>2. ASSUME NEW i \in Items, Push(i)
      PROVE  Goal
  BY <1>2 DEF Push
<1>3. ASSUME NEW i \in Items, BeginTake(i)
      PROVE  Goal
  BY <1>3 DEF BeginTake, Return
<1>4. ASSUME NEW i \in Items, EndTake(i)
      PROVE  Goal
  BY <1>4 DEF EndTake, Return
<1>5. ASSUME NEW i \in Items, WakeWorkers(i)
      PROVE  Goal
  BY <1>5 DEF WakeWorkers, Return, WakePool, DrainSleepers
<1>6. ASSUME NEW s \in Sources, DropSource(s)
      PROVE  Goal
  BY <1>6 DEF DropSource
<1>7. ASSUME NEW s \in Sources, LockSleepers(s)
      PROVE  Goal
  BY <1>7 DEF LockSleepers
<1>8. ASSUME NEW s \in Sources, ClaimForInsert(s)
      PROVE  Goal
  BY <1>8 DEF ClaimForInsert
<1>9. ASSUME NEW s \in Sources, AddSource(s)
      PROVE  Goal
  BY <1>9 DEF AddSource, DrainSleepers
<1>10. ASSUME CloseExit PROVE Goal
  BY <1>10 DEF CloseExit
<1>11. ASSUME DrainOnDrop PROVE Goal
  BY <1>11 DEF DrainOnDrop, WakePool, DrainSleepers
<1>12. ASSUME JoinWorkers PROVE Goal
  BY <1>12 DEF JoinWorkers
<1>13. ASSUME UNCHANGED vars PROVE Goal
  BY <1>13 DEF vars
<1> HIDE DEF Goal
<1>14. QED
  BY <1>1, <1>2, <1>3, <1>4, <1>5, <1>6, <1>7, <1>8, <1>9, <1>10, <1>11, <1>12, <1>13 DEF Next, Produce, InsertSource, DropPool

\* While worker v scans, an item of those it found waiting at the start still
\* waits only in a source that v has yet to look at.
ScanInv ==
  /\ atScan \in [Workers -> SUBSET Items]
  /\ \A v \in Workers : \A j \in atScan[v] : push[j] # "idle"
  /\ \A v \in Workers : (pc[v] = "scan" /\ item[v] = None) =>
       \A j \in atScan[v] : j \in queue[TargetOf[j]] => TargetOf[j] \in todo[v]

\* Every step of the pool, with the history, keeps ScanInv.
LEMMA HistoryStep ==
  ASSUME TypeOK, ParkInv, Placed, DroppedAreEmpty, ScanInv, [OrderNext]_orderVars
  PROVE  DroppedAreEmpty' /\ ScanInv'
<1> USE PoolAssumption DEF TypeOK
<1>1. [Next]_vars
  BY DEF OrderNext, orderVars
<1>2. /\ DroppedAreEmpty'
      /\ \A i \in Items : push[i] # "idle" => push'[i] # "idle"
      /\ \A i \in Items, s \in Sources : i \in queue'[s] => i \in queue[s] \/ push[i] = "idle"
      /\ \A v \in Workers : (pc'[v] = "scan" /\ item'[v] = None) => ScansOn(v) \/ ScansAll(v)
  BY <1>1, ScanStep
<1> DEFINE Waits == UNION {queue[s] : s \in registered \cap alive}
<1>3. /\ Waits \subseteq Items
      /\ \A j \in Waits : push[j] # "idle" /\ TargetOf[j] \in registered \cap alive
  BY DEF Placed
<1>4. /\ atScan' \in [Workers -> SUBSET Items]
      /\ \A v \in Workers : atScan'[v] = atScan[v] \/ (BeginsScan(v) /\ atScan'[v] = Waits)
      /\ \A v \in Workers : BeginsScan(v) => atScan'[v] = Waits
  <2>1. CASE OrderNext
    BY <1>3, <2>1 DEF OrderNext, ScanInv
  <2>2. CASE UNCHANGED orderVars
    BY <2>2 DEF orderVars, vars, workerVars, ScanInv, BeginsScan
  <2>3. QED  BY <2>1, <2>2
<1> HIDE DEF Waits
<1>5. ASSUME NEW v \in Workers, NEW j \in atScan'[v]
      PROVE  push'[j] # "idle"
  BY <1>2, <1>3, <1>4, <1>5 DEF ScanInv
<1>6. ASSUME NEW v \in Workers, pc'[v] = "scan", item'[v] = None,
             NEW j \in atScan'[v], j \in queue'[TargetOf[j]]
      PROVE  TargetOf[j] \in todo'[v]
  <2>1. j \in Items /\ TargetOf[j] \in Sources
    BY <1>4
  <2>2. CASE ScansOn(v)
    <3>1. atScan'[v] = atScan[v]
      BY <1>4, <2>2 DEF ScansOn, BeginsScan
    <3>2. j \in queue[TargetOf[j]]
      BY <1>2, <1>6, <2>1, <3>1 DEF ScanInv
    <3>3. TargetOf[j] \in todo[v]
      BY <2>2, <3>1, <3>2, <1>6 DEF ScanInv, ScansOn
    <3>4. QED  BY <2>2, <3>2, <3>3 DEF ScansOn
  <2>3. CASE ScansAll(v)
    <3>1. j \in Waits
      BY <1>4, <1>6, <2>3 DEF ScansAll, BeginsScan
    <3>2. QED  BY <1>3, <2>3, <3>1 DEF ScansAll
  <2>4. QED  BY <1>2, <1>6, <2>2, <2>3
<1>7. QED  BY <1>2, <1>4, <1>5, <1>6 DEF ScanInv

\* An item is taken from the highest bucket of those the scan has left.
LEMMA TakeFromHighest ==
  ASSUME TypeOK, Placed, [Next]_vars, NEW w \in Workers, NEW i \in Items, Takes(w, i)
  PROVE  /\ pc[w] = "scan" /\ item[w] = None
         /\ \A s \in todo[w] : PriorityOf[s] <= PriorityOf[TargetOf[i]]
<1> USE DEF TypeOK, Takes, workerVars, doneVars
<1>1. ASSUME NEW v \in Workers, WorkerStep(v)
      PROVE  /\ pc[w] = "scan" /\ item[w] = None
             /\ \A s \in todo[w] : PriorityOf[s] <= PriorityOf[TargetOf[i]]
  <2>1. CASE ScanSource(v)
    <3>1. PICK s \in NextToScan(v) :
            Disconnected(v, s) \/ NoWork(v, s) \/ \E j \in Items : TakeWork(v, s, j)
      BY <2>1 DEF ScanSource
    <3>2. PICK j \in Items : TakeWork(v, s, j)
      BY <3>1 DEF Disconnected, NoWork
    <3>3. v = w /\ j = i
      BY <3>2 DEF TakeWork
    <3>4. s = TargetOf[i]
      BY <3>1, <3>2, <3>3 DEF TakeWork, NextToScan, Placed
    <3>5. QED  BY <2>1, <3>1, <3>3, <3>4 DEF ScanSource, NextToScan
  <2>2. CASE Execute(v)
    BY <2>2, PoolAssumption DEF Execute, Threads
  <2>3. CASE ~ScanSource(v) /\ ~Execute(v)
    <3>1. item' = item
      BY <1>1, <2>3 DEF WorkerStep, CheckExit, SwapExpired, ClaimSources, ClearExpired, ReadSources,
         EndScan, RemoveSleeper, InsertSleeper, ReadForWaker, BeginRegister, EndRegister, WakeSelf,
         EndRegistration, Unpark
    <3>2. QED  BY <3>1
  <2>4. QED  BY <2>1, <2>2, <2>3
<1>2. CASE ~ \E v \in Workers : WorkerStep(v)
  <2>1. item' = item
    BY <1>2 DEF Next, Push, Produce, BeginTake, EndTake, WakeWorkers, DropSource, LockSleepers,
       InsertSource, ClaimForInsert, AddSource, CloseExit, DropPool, DrainOnDrop, JoinWorkers, vars
  <2>2. QED  BY <2>1
<1>3. QED  BY <1>1, <1>2

\* A worker takes nothing while work of a higher bucket, there since its scan
\* began, still waits, whatever producers and other workers do meanwhile
\* (pool.rs, find_work: the buckets from the highest down).
THEOREM ScansFromTheTop == OrderSpec => HigherBucketFirst
<1>1. OrderSpec => Spec
  <2>1. OrderInit => Init
    BY DEF OrderInit
  <2>2. [OrderNext]_orderVars => [Next]_vars
    BY DEF OrderNext, orderVars
  <2>3. QED  BY <2>1, <2>2, PTL DEF OrderSpec, Spec
<1>2. Init => Placed
  BY PoolAssumption DEF Init, Placed, Threads
<1>3. TypeOK /\ Placed /\ [Next]_vars => Placed'
  BY DispatchStep
<1>4. Spec => []Placed
  BY <1>2, <1>3, TypeCorrect, PTL DEF Spec
<1>5. OrderInit => DroppedAreEmpty /\ ScanInv
  BY DEF OrderInit, Init, DroppedAreEmpty, ScanInv
<1>6. IInv => TypeOK /\ ParkInv
  BY DEF IInv
<1>7. TypeOK /\ ParkInv /\ Placed /\ DroppedAreEmpty /\ ScanInv /\ [OrderNext]_orderVars
        => DroppedAreEmpty' /\ ScanInv'
  BY HistoryStep
<1>8. OrderSpec => [](TypeOK /\ Placed /\ ScanInv)
  BY <1>1, <1>4, <1>5, <1>6, <1>7, InductiveInvariant, PTL DEF OrderSpec
<1> DEFINE InOrder ==
      \A w \in Workers, i \in Items :
        Takes(w, i) =>
          \A j \in atScan[w] :
            j \in queue[TargetOf[j]] => PriorityOf[TargetOf[j]] <= PriorityOf[TargetOf[i]]
<1>9. TypeOK /\ Placed /\ ScanInv /\ [OrderNext]_orderVars => [InOrder]_orderVars
  <2> SUFFICES ASSUME TypeOK, Placed, ScanInv, [OrderNext]_orderVars,
                      NEW w \in Workers, NEW i \in Items, Takes(w, i),
                      NEW j \in atScan[w], j \in queue[TargetOf[j]]
               PROVE  PriorityOf[TargetOf[j]] <= PriorityOf[TargetOf[i]]
    OBVIOUS
  <2>1. [Next]_vars
    BY DEF OrderNext, orderVars
  <2>2. QED  BY <2>1, TakeFromHighest DEF ScanInv
<1>10. QED
  BY <1>8, <1>9, PTL DEF OrderSpec, HigherBucketFirst
=============================================================================
