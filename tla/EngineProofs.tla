---------------------------- MODULE EngineProofs -----------------------------
(***************************************************************************)
(* Proofs about Engine, with the event bus and the tick loop it is made    *)
(* of, for any threads, handlers, tick types and durations:                *)
(*   - the ticks of the loop start in time, and none after its drop;       *)
(*   - the driver drives the application as EngineLifecycle promises;      *)
(*   - the events a handler is given follow each other.                    *)
(***************************************************************************)
EXTENDS Engine, SequenceTheorems, WellFoundedInduction, TLAPS

\* The tick loop keeps what TicksInTime says since a loop that is about to
\* tick has looked at should_exit since its last tick.
TickInv ==
  /\ tickType \in TickTypes
  /\ loop \in {"none", "init", "start", "check", "sleep", "tick", "ended"}
  /\ spawner \in {"idle", "waiting", "holds", "refused", "joining", "joined"}
  /\ exit \in BOOLEAN /\ lateTicks \in {0, 1} /\ gap \in Nat
  /\ (~exit \/ loop = "sleep") => lateTicks = 0
  /\ TicksInTime

\* A non-empty set of natural numbers has a least element.
LEMMA LeastNatural ==
  ASSUME NEW T \in SUBSET Nat, T # {}
  PROVE  Min(T) \in T /\ \A y \in T : Min(T) <= y
<1> DEFINE R == OpToRel(<, Nat)
<1>1. \E n \in T : \A m \in T : ~ (<<m, n>> \in R)
  <2>1. IsWellFoundedOn(R, Nat)
    BY NatLessThanWellFounded
  <2> HIDE DEF R
  <2>2. QED  BY <2>1, WFMin
<1>2. PICK n \in T : \A m \in T : ~ (<<m, n>> \in R)
  BY <1>1
<1>3. \A m, q \in Nat : m < q => <<m, q>> \in R
  BY DEF OpToRel
<1>4. \A m \in T : n <= m
  <2> HIDE DEF R
  <2> SUFFICES ASSUME NEW m \in T PROVE n <= m
    OBVIOUS
  <2>1. ~ (m < n)
    BY <1>2, <1>3
  <2>2. QED  BY <2>1
<1>5. QED  BY <1>4 DEF Min

\* The periods of a rate: q of them are longer than s if q - 1 of them are
\* as long as s holds, and whole numbers of periods are divided by one.
LEMMA Periods ==
  ASSUME NEW p \in Nat \ {0}
  PROVE  /\ \A k \in Nat \ {0} : k * p \in Nat /\ (k * p) % p = 0 /\ k * p >= p
         /\ \A s \in Nat : (s \div p) \in Nat /\ ((s \div p) + 1) * p > s
OBVIOUS

\* The next tick starts at least a period after the last one, and at a rate
\* in one of its slots, however long the tick took.
LEMMA ScheduledInTime ==
  ASSUME TickInv, NEW s \in Nat, Schedule(s)
  PROVE  gap' \in Nat /\ gap' >= tickType[2] /\ (tickType[1] = "rate" => gap' % tickType[2] = 0)
<1>1. CASE tickType[1] = "rate"
  <2>1. PICK p \in Nat \ {0} : tickType[2] = p
    BY <1>1, TickAssumption DEF TickInv
  <2> DEFINE q == s \div p
             T == { k * p : k \in 1..(q + 1) } \ 0..(s - 1)
  <2>2. q \in Nat /\ (q + 1) * p > s
    BY Periods
  <2>3. \A k \in Nat \ {0} : k * p \in Nat /\ (k * p) % p = 0 /\ k * p >= p
    BY Periods
  <2>4. NextTick(s) = Min(T)
    BY <1>1, <2>1 DEF NextTick
  <2> HIDE DEF q
  <2>5. T \in SUBSET Nat /\ T # {}
    <3>1. (q + 1) * p \in T
      BY <2>2
    <3>2. \A k \in 1..(q + 1) : k * p \in Nat
      BY <2>2, <2>3
    <3>3. QED  BY <3>1, <3>2
  <2>6. Min(T) \in T
    BY <2>5, LeastNatural
  <2>7. PICK k \in 1..(q + 1) : Min(T) = k * p
    BY <2>6
  <2>8. k \in Nat \ {0} /\ Min(T) \in Nat /\ Min(T) >= s
    <3>1. Min(T) \in Nat /\ Min(T) \notin 0..(s - 1)
      BY <2>5, <2>6
    <3>2. k \in Nat \ {0}
      BY <2>2
    <3> HIDE DEF T
    <3>3. QED  BY <3>1, <3>2
  <2>9. gap' = Min(T)
    <3> HIDE DEF T
    <3>1. QED  BY <2>4, <2>8 DEF Schedule, Max
  <2>10. gap' = k * p /\ k \in Nat \ {0}
    BY <2>7, <2>8, <2>9
  <2> HIDE DEF T
  <2>11. QED  BY <2>1, <2>3, <2>10
<1>2. CASE tickType[1] # "rate"
  <2>1. PICK p \in Nat : tickType[2] = p
    BY <1>2, TickAssumption DEF TickInv
  <2>2. NextTick(s) = IF p > s THEN p ELSE -1
    BY <1>2, <2>1 DEF NextTick, NoSlot
  <2>3. gap' = IF p > s THEN p ELSE s
    BY <2>2 DEF Schedule, Max
  <2>4. QED  BY <1>2, <2>1, <2>3
<1>3. QED  BY <1>1, <1>2

LEMMA TickStep ==
  ASSUME TickInv,
         \/ SpawnLoop \/ TakeResult \/ DropHandle \/ JoinLoop \/ LoopStep
         \/ UNCHANGED tickVars
  PROVE  TickInv'
<1> USE DEF TickInv, TicksInTime
<1>1. CASE SpawnLoop
  BY <1>1 DEF SpawnLoop
<1>2. CASE TakeResult
  BY <1>2 DEF TakeResult
<1>3. CASE DropHandle
  BY <1>3 DEF DropHandle
<1>4. CASE JoinLoop
  BY <1>4 DEF JoinLoop
<1>5. ASSUME NEW res, LoopInit(res)
      PROVE  TickInv'
  BY <1>5 DEF LoopInit
<1>6. CASE StartLoop
  <2>1. gap' \in Nat /\ gap' >= tickType[2] /\ (tickType[1] = "rate" => gap' % tickType[2] = 0)
    BY <1>6, ScheduledInTime DEF StartLoop
  <2>2. QED  BY <1>6, <2>1 DEF StartLoop
<1>7. CASE CheckLoopExit
  BY <1>7 DEF CheckLoopExit
<1>8. ASSUME NEW late \in 0..MaxLate, Tick(late)
      PROVE  TickInv'
  <2>1. tickType[2] \in Nat
    BY TickAssumption
  <2>2. gap' \in Nat /\ gap' >= tickType[2]
    BY <1>8, <2>1, TickAssumption DEF Tick
  <2>3. QED  BY <1>8, <2>2 DEF Tick
<1>9. ASSUME NEW s \in 0..MaxTick, NEW more \in BOOLEAN, TickDone(s, more)
      PROVE  TickInv'
  <2>1. CASE more
    <3>1. gap' \in Nat /\ gap' >= tickType[2] /\ (tickType[1] = "rate" => gap' % tickType[2] = 0)
      BY <1>9, <2>1, ScheduledInTime, TickAssumption DEF TickDone
    <3>2. QED  BY <1>9, <2>1, <3>1 DEF TickDone
  <2>2. CASE ~more
    BY <1>9, <2>2 DEF TickDone
  <2>3. QED  BY <2>1, <2>2
<1>10. CASE UNCHANGED tickVars
  BY <1>10 DEF tickVars
<1>11. QED
  BY <1>1, <1>2, <1>3, <1>4, <1>5, <1>6, <1>7, <1>8, <1>9, <1>10 DEF LoopStep

-----------------------------------------------------------------------------
(* The lifecycle.  Where the driver is tells the stage and whether the     *)
(* hook of the stage has run, and of the other threads only one can change *)
(* the stage: from Running to Stopping.                                    *)

PcStates ==
  {"init", "run", "register", "check", "park", "terminate", "stop", "ended",
   "start", "detached", "stopped", "asked", "joined"}

LifecycleInv ==
  /\ pc \in [Threads -> PcStates] /\ hooked \in BOOLEAN
  /\ CASE pc[Driver] = "init"      -> stage = "Init" /\ ~hooked
       [] pc[Driver] = "run"       -> stage = "Init" /\ hooked
       [] pc[Driver] \in {"register", "check", "park"} ->
            stage \in {"Running", "Stopping"} /\ ~hooked
       [] pc[Driver] = "terminate" -> stage = "Stopping" /\ ~hooked
       [] pc[Driver] = "stop"      -> stage = "Stopping" /\ hooked
       [] pc[Driver] = "ended"     -> stage = "Stopped" /\ ~hooked
       [] OTHER                    -> FALSE

\* A change of the stage is one of the documented ones.
LEMMA SetStageIsEdge ==
  ASSUME NEW t, NEW next, NEW label, SetStage(t, next, label)
  PROVE  /\ <<stage, next>> \in Lifecycle!Edges
         /\ stage' = next /\ hooked' = FALSE /\ pc' = [pc EXCEPT ![t] = label]
         /\ UNCHANGED tickVars
BY DEF SetStage, ValidTransition, Goto

\* The steps of the driver's thread.
LEMMA DriverKeeps ==
  ASSUME LifecycleInv, DriverStep
  PROVE  LifecycleInv' /\ [Lifecycle!Next]_<<stage, hooked>>
<1> USE EngineAssumption DEF LifecycleInv, PcStates
<1>0. Driver \in Threads
  OBVIOUS
<1>1. CASE InitHook
  <2>1. pc[Driver] = "init" /\ stage = "Init" /\ ~hooked /\ stage' = stage
    BY <1>1 DEF InitHook, Ready
  <2>2. CASE UNCHANGED <<hooked, pc>>
    BY <2>1, <2>2
  <2>3. CASE hooked' = TRUE /\ pc' = [pc EXCEPT ![Driver] = "run"]
    <3>1. LifecycleInv'
      BY <1>0, <2>1, <2>3
    <3>2. Lifecycle!Hook
      BY <2>1, <2>3 DEF Lifecycle!Hook, Lifecycle!HookStages
    <3>3. QED  BY <3>1, <3>2 DEF Lifecycle!Next
  <2>4. QED  BY <1>1, <2>2, <2>3 DEF InitHook, Goto
<1>2. CASE SetRunning
  <2>1. /\ pc[Driver] = "run" /\ <<stage, "Running">> \in Lifecycle!Edges
        /\ stage' = "Running" /\ hooked' = FALSE /\ pc' = [pc EXCEPT ![Driver] = "register"]
    BY <1>2, SetStageIsEdge DEF SetRunning, Ready
  <2>2. QED
    BY <1>0, <2>1 DEF Lifecycle!Next, Lifecycle!Transition
<1>3. CASE RegisterUnparker
  BY <1>0, <1>3 DEF RegisterUnparker, Ready, Goto
<1>4. CASE CheckStopping
  BY <1>0, <1>4 DEF CheckStopping, Ready, Goto
<1>5. CASE Park
  BY <1>0, <1>5 DEF Park, Ready, Goto
<1>6. CASE TerminateHook
  <2>1. pc[Driver] = "terminate" /\ stage = "Stopping" /\ ~hooked /\ stage' = stage
    BY <1>6 DEF TerminateHook, Ready
  <2>2. CASE UNCHANGED <<hooked, pc>>
    BY <2>1, <2>2
  <2>3. CASE hooked' = TRUE /\ pc' = [pc EXCEPT ![Driver] = "stop"]
    <3>1. LifecycleInv'
      BY <1>0, <2>1, <2>3
    <3>2. Lifecycle!Hook
      BY <2>1, <2>3 DEF Lifecycle!Hook, Lifecycle!HookStages
    <3>3. QED  BY <3>1, <3>2 DEF Lifecycle!Next
  <2>4. QED  BY <1>6, <2>2, <2>3 DEF TerminateHook, Goto
<1>7. CASE SetStopped
  <2>1. /\ pc[Driver] = "stop" /\ <<stage, "Stopped">> \in Lifecycle!Edges
        /\ stage' = "Stopped" /\ hooked' = FALSE /\ pc' = [pc EXCEPT ![Driver] = "ended"]
    BY <1>7, SetStageIsEdge DEF SetStopped, Ready
  <2>2. QED
    BY <1>0, <2>1 DEF Lifecycle!Next, Lifecycle!Transition
<1>8. QED
  BY <1>1, <1>2, <1>3, <1>4, <1>5, <1>6, <1>7 DEF DriverStep

\* Whoever stops the engine stops one that runs: the driver is then before
\* its next look at the stage.
LEMMA StopKeeps ==
  ASSUME LifecycleInv, NEW t \in Threads, StopEngine(t)
  PROVE  LifecycleInv' /\ [Lifecycle!Next]_<<stage, hooked>>
<1> USE EngineAssumption DEF LifecycleInv, PcStates
<1>1. PICK label \in {"stopped", "asked"} : SetStage(t, "Stopping", label)
  BY DEF StopEngine
<1>2. /\ <<stage, "Stopping">> \in Lifecycle!Edges
      /\ stage' = "Stopping" /\ hooked' = FALSE /\ pc' = [pc EXCEPT ![t] = label]
  BY <1>1, SetStageIsEdge
<1>3. stage \in {"Running", "Suspended"}
  BY <1>2 DEF Lifecycle!Edges
<1>4. t # Driver /\ Driver \in Threads
  BY DEF StopEngine
<1>5. stage = "Running" /\ pc[Driver] \in {"register", "check", "park"}
  BY <1>3, <1>4
<1>6. LifecycleInv'
  BY <1>2, <1>4, <1>5
<1>7. QED
  BY <1>2, <1>5, <1>6 DEF Lifecycle!Next, Lifecycle!Transition, Lifecycle!HookStages

\* No other step changes the stage, the hook or where the driver is.
LEMMA LifecycleStep ==
  ASSUME LifecycleInv, [Next]_vars
  PROVE  LifecycleInv' /\ [Lifecycle!Next]_<<stage, hooked>>
<1> USE EngineAssumption DEF engineVars
<1>1. ASSUME UNCHANGED <<stage, hooked, pc>>
      PROVE  LifecycleInv' /\ [Lifecycle!Next]_<<stage, hooked>>
  BY <1>1 DEF LifecycleInv
<1>2. ASSUME UNCHANGED <<stage, hooked>>, NEW t \in Threads \ {Driver}, NEW l \in PcStates, Goto(t, l)
      PROVE  LifecycleInv' /\ [Lifecycle!Next]_<<stage, hooked>>
  BY <1>2 DEF LifecycleInv, Goto
<1>3. pc[Driver] \notin {"start", "detached", "stopped"}
  BY DEF LifecycleInv
<1>4. ASSUME NEW t \in Threads, ThreadStep(t)
      PROVE  LifecycleInv' /\ [Lifecycle!Next]_<<stage, hooked>>
  <2>1. CASE t = Driver /\ DriverStep
    BY <2>1, DriverKeeps
  <2>2. CASE StopEngine(t)
    BY <2>2, StopKeeps
  <2>3. CASE StopRefused(t)
    <3>1. t # Driver /\ UNCHANGED <<stage, hooked>>
      BY <1>3, <2>3 DEF StopRefused
    <3>2. \E l \in PcStates : Goto(t, l)
      BY <2>3 DEF StopRefused, PcStates
    <3>3. QED  BY <1>2, <3>1, <3>2
  <2>4. CASE CallHandler(t)
    BY <1>1, <2>4 DEF CallHandler
  <2>5. CASE Unlock(t)
    BY <1>1, <2>5 DEF Unlock
  <2>6. CASE BusStep(t) /\ UNCHANGED <<tickVars, engineVars>>
    BY <1>1, <2>6
  <2>7. QED
    BY <1>4, <2>1, <2>2, <2>3, <2>4, <2>5, <2>6 DEF ThreadStep
<1>5. CASE Join
  <2>1. Owner # Driver /\ Owner \in Threads /\ UNCHANGED <<stage, hooked>> /\ Goto(Owner, "joined")
    BY <1>3, <1>5 DEF Join
  <2>2. QED  BY <1>2, <2>1 DEF PcStates
<1>6. CASE \/ \E t \in Threads, h \in Handlers \cup Onces : RegisterHandler(t, h)
           \/ \E t \in Threads, o \in Onces : AwaitOnce(t, o)
           \/ DropEngine
           \/ \E h \in Handlers : DropHandler(h) /\ UNCHANGED <<tickVars, engineVars>>
           \/ LoopThread \/ Rest \/ UNCHANGED vars
  BY <1>1, <1>6 DEF RegisterHandler, AwaitOnce, DropEngine, LoopThread, Rest, vars
<1>7. QED  BY <1>4, <1>5, <1>6 DEF Next

\* The driver executes each hook of the application once in its stage, before
\* it leaves the stage, and the stage changes along the documented graph,
\* whoever stops the engine and whenever (app/driver.rs, MinimalAppDriver;
\* lib.rs, EngineStage).
THEOREM DriverImplementsLifecycle == Spec => ImplementsLifecycle
<1>1. Init => LifecycleInv /\ Lifecycle!Init
  BY EngineAssumption DEF Init, LifecycleInv, PcStates, Lifecycle!Init
<1>2. LifecycleInv /\ [Next]_vars => LifecycleInv' /\ [Lifecycle!Next]_<<stage, hooked>>
  BY LifecycleStep
<1>3. QED  BY <1>1, <1>2, PTL DEF Spec, ImplementsLifecycle, Lifecycle!Spec

\* No step but those of the tick loop and its handle touches the loop, and
\* no tick starts out of time (util/tick_loop.rs).
THEOREM TicksStartInTime == Spec => []TicksInTime
<1>1. Init => TickInv
  <2> SUFFICES ASSUME Init PROVE TickInv
    OBVIOUS
  <2>1. /\ tickType \in TickTypes /\ loop = "none" /\ spawner = "idle"
        /\ exit = FALSE /\ gap = 0 /\ lateTicks = 0
    BY DEF Init, TickInit
  <2>2. TicksInTime
    BY <2>1 DEF TicksInTime
  <2>3. QED  BY <2>1, <2>2 DEF TickInv
<1>2. TickInv /\ [Next]_vars => TickInv'
  <2> SUFFICES ASSUME TickInv, [Next]_vars
               PROVE  \/ SpawnLoop \/ TakeResult \/ DropHandle \/ JoinLoop \/ LoopStep
                      \/ UNCHANGED tickVars
    BY TickStep
  <2>1. ASSUME NEW t \in Threads, ThreadStep(t)
        PROVE  SpawnLoop \/ TakeResult \/ DropHandle \/ JoinLoop \/ UNCHANGED tickVars
    <3>1. CASE DriverStep
      BY <3>1, SetStageIsEdge DEF DriverStep, InitHook, SetRunning, RegisterUnparker, CheckStopping,
         Park, TerminateHook, SetStopped
    <3>2. CASE StopEngine(t)
      BY <3>2, SetStageIsEdge DEF StopEngine
    <3>3. QED
      BY <2>1, <3>1, <3>2 DEF ThreadStep, StopRefused, CallHandler, Unlock
  <2>2. CASE LoopThread
    BY <2>2 DEF LoopThread
  <2>3. CASE \/ Join \/ DropEngine \/ Rest \/ UNCHANGED vars
             \/ \E t \in Threads, h \in Handlers \cup Onces : RegisterHandler(t, h)
             \/ \E t \in Threads, o \in Onces : AwaitOnce(t, o)
             \/ \E h \in Handlers : DropHandler(h) /\ UNCHANGED <<tickVars, engineVars>>
    BY <2>3 DEF Join, DropEngine, Rest, vars, RegisterHandler, AwaitOnce
  <2>4. QED  BY <2>1, <2>2, <2>3 DEF Next
<1>3. TickInv => TicksInTime
  BY DEF TickInv
<1>4. QED  BY <1>1, <1>2, <1>3, PTL DEF Spec
-----------------------------------------------------------------------------
(* The events.  A thread that fires holds the state lock, so nobody else   *)
(* fires and the stage is the one the event leads to; the handlers it has  *)
(* still to call were last told of the stage the event starts from.        *)

Stages == {"Init", "Running", "Suspending", "Suspended", "Resuming", "Stopping", "Stopped"}
Event == Stages \X Stages
Fires == {"fire", "fireRead", "firing"}
Early == {"init", "run", "register"}

BusTypes ==
  /\ stage \in Stages
  /\ subs \in Seq(Handlers) /\ todo \in Seq(Handlers) /\ once \in Seq(Onces)
  /\ got \in [Handlers \cup Onces -> Seq(Event)]
  /\ op = [t \in Threads |-> [at |-> op[t].at, arg |-> op[t].arg]]

\* Who fires holds the state lock, and past FireLock the subscribers.
FireInv ==
  \A t \in Threads :
    /\ op[t].at \in Fires =>
         writer = t /\ op[t].arg \in Event /\ op[t].arg[2] = stage
    /\ op[t].at \in {"fireRead", "firing"} => subLock = t

\* A handler is registered once, by the one thread that may register it.
RegisterInv ==
  \A t \in Threads :
    /\ op[t].at \in {"once", "onceSend"} => op[t].arg \in Onces
    /\ op[t].at = "register" =>
         /\ op[t].arg \in Handlers
         /\ ~Contains(subs, op[t].arg) /\ got[op[t].arg] = <<>>
         /\ IF op[t].arg = Unparker THEN t = Driver
            ELSE op[t].arg \in DOMAIN Registrar /\ Registrar[op[t].arg] = t

\* The driver has not registered its handler before it does.
UnparkerInv ==
  pc[Driver] \in Early =>
    /\ ~Contains(subs, Unparker) /\ got[Unparker] = <<>>
    /\ \A t \in Threads : ~(op[t].at = "register" /\ op[t].arg = Unparker)

\* Subscribers are distinct, and those to be called subscribers; one that has
\* been called stays a subscriber until it goes away.
SubsInv ==
  /\ IsInjective(subs)
  /\ \A h \in Handlers : h \notin gone /\ got[h] # <<>> => Contains(subs, h)
  /\ \A t \in Threads : At(t, "firing") =>
       IsInjective(todo) /\ \A h \in Handlers : Contains(todo, h) => Contains(subs, h)

\* Whether the event that t fires is still to be given to h.
Awaits(t, h) == op[t].at \in {"fire", "fireRead"} \/ (At(t, "firing") /\ Contains(todo, h))

ToldInv ==
  \A h \in Handlers : h \notin gone /\ got[h] # <<>> =>
    /\ \A t \in Threads : Awaits(t, h) => got[h][Len(got[h])][2] = op[t].arg[1]
    /\ (\A t \in Threads : ~Awaits(t, h)) => got[h][Len(got[h])][2] = stage

EventInv ==
  BusTypes /\ FireInv /\ RegisterInv /\ UnparkerInv /\ SubsInv /\ ToldInv /\ EventsChain
\* What is in a sequence after Append, Tail and RemoveAt.
LEMMA AppendedContains ==
  ASSUME NEW S, NEW s \in Seq(S), NEW x \in S
  PROVE  /\ Append(s, x) \in Seq(S)
         /\ \A y : Contains(Append(s, x), y) <=> Contains(s, y) \/ y = x
         /\ IsInjective(s) /\ ~Contains(s, x) => IsInjective(Append(s, x))
BY DEF Contains, IsInjective

LEMMA HeadContains ==
  ASSUME NEW S, NEW s \in Seq(S), s # <<>>
  PROVE  /\ Head(s) \in S /\ Contains(s, Head(s))
         /\ Tail(s) \in Seq(S)
         /\ \A y : Contains(Tail(s), y) => Contains(s, y)
         /\ \A y : Contains(s, y) => y = Head(s) \/ Contains(Tail(s), y)
         /\ IsInjective(s) => IsInjective(Tail(s)) /\ ~Contains(Tail(s), Head(s))
<1>1. /\ Len(s) \in Nat \ {0} /\ DOMAIN s = 1..Len(s) /\ Head(s) = s[1]
      /\ Tail(s) \in Seq(S) /\ Len(Tail(s)) = Len(s) - 1 /\ DOMAIN Tail(s) = 1..(Len(s) - 1)
      /\ \A i \in 1..(Len(s) - 1) : Tail(s)[i] = s[i + 1]
  OBVIOUS
<1>2. ASSUME NEW y, Contains(s, y), y # Head(s)
      PROVE  Contains(Tail(s), y)
  <2>1. PICK i \in 1..Len(s) : s[i] = y
    BY <1>2 DEF Contains
  <2>2. i - 1 \in 1..(Len(s) - 1) /\ Tail(s)[i - 1] = y
    BY <1>1, <1>2, <2>1
  <2>3. QED  BY <1>1, <2>2 DEF Contains
<1>3. \A y : Contains(Tail(s), y) => Contains(s, y)
  BY <1>1 DEF Contains
<1>4. ASSUME IsInjective(s)
      PROVE  IsInjective(Tail(s)) /\ ~Contains(Tail(s), Head(s))
  BY <1>1, <1>4 DEF IsInjective, Contains
<1>5. Head(s) \in S /\ Contains(s, Head(s))
  BY <1>1 DEF Contains
<1>6. QED  BY <1>1, <1>2, <1>3, <1>4, <1>5

LEMMA RemovedContains ==
  ASSUME NEW S, NEW s \in Seq(S), NEW i \in DOMAIN s
  PROVE  /\ RemoveAt(s, i) \in Seq(S)
         /\ \A y : Contains(RemoveAt(s, i), y) => Contains(s, y)
         /\ \A y : Contains(s, y) /\ y # s[i] => Contains(RemoveAt(s, i), y)
         /\ IsInjective(s) => IsInjective(RemoveAt(s, i))
<1> DEFINE r == RemoveAt(s, i)
           n == Len(s)
<1>1. n \in Nat /\ i \in 1..n /\ \A j \in 1..n : s[j] \in S
  OBVIOUS
<1>2. /\ SubSeq(s, 1, i - 1) \in Seq(S) /\ Len(SubSeq(s, 1, i - 1)) = i - 1
      /\ \A j \in 1..(i - 1) : SubSeq(s, 1, i - 1)[j] = s[j]
  <2>1. \A j \in 1..(i - 1) : s[j] \in S
    BY <1>1
  <2>2. QED  BY <1>1, <2>1, SubSeqProperties
<1>3. /\ SubSeq(s, i + 1, n) \in Seq(S) /\ Len(SubSeq(s, i + 1, n)) = n - i
      /\ \A j \in 1..(n - i) : SubSeq(s, i + 1, n)[j] = s[i + j]
  <2>1. \A j \in (i + 1)..n : s[j] \in S
    BY <1>1
  <2>2. /\ SubSeq(s, i + 1, n) \in Seq(S)
        /\ Len(SubSeq(s, i + 1, n)) = IF i + 1 <= n THEN n - (i + 1) + 1 ELSE 0
        /\ \A j \in 1..(n - (i + 1) + 1) : SubSeq(s, i + 1, n)[j] = s[i + 1 + j - 1]
    BY <1>1, <2>1, SubSeqProperties
  <2> HIDE DEF n
  <2>3. /\ n - (i + 1) + 1 = n - i /\ (IF i + 1 <= n THEN n - i ELSE 0) = n - i
        /\ \A j \in 1..(n - i) : i + 1 + j - 1 = i + j
    BY <1>1
  <2>4. QED  BY <2>2, <2>3
<1>4. /\ r \in Seq(S) /\ Len(r) = n - 1 /\ DOMAIN r = 1..(n - 1)
      /\ \A j \in 1..(n - 1) : r[j] = IF j < i THEN s[j] ELSE s[j + 1]
  <2> DEFINE a == SubSeq(s, 1, i - 1)
             b == SubSeq(s, i + 1, n)
  <2>1. r = a \o b
    BY DEF RemoveAt
  <2> HIDE DEF a, b, r, n
  <2>2. a \in Seq(S) /\ b \in Seq(S) /\ Len(a) = i - 1 /\ Len(b) = n - i
    BY <1>2, <1>3 DEF a, b
  <2>3. r \in Seq(S) /\ Len(r) = n - 1
    <3>1. r \in Seq(S) /\ Len(r) = Len(a) + Len(b)
      BY <2>1, <2>2, ConcatProperties
    <3>2. QED  BY <1>1, <2>2, <3>1
  <2>4. ASSUME NEW j \in 1..(n - 1), j < i
        PROVE  r[j] = s[j]
    <3>1. r[j] = a[j] /\ j \in 1..(i - 1)
      BY <1>1, <2>1, <2>2, <2>4
    <3>2. QED  BY <1>2, <3>1 DEF a
  <2>5. ASSUME NEW j \in 1..(n - 1), ~(j < i)
        PROVE  r[j] = s[j + 1]
    <3>1. r[j] = b[j - (i - 1)] /\ j - (i - 1) \in 1..(n - i)
      BY SMTT(30), <1>1, <2>1, <2>2, <2>5
    <3>2. b[j - (i - 1)] = s[i + (j - (i - 1))]
      BY <1>3, <3>1 DEF b
    <3>3. i + (j - (i - 1)) = j + 1
      BY <1>1
    <3>4. QED  BY <3>1, <3>2, <3>3
  <2>6. QED  BY <2>3, <2>4, <2>5
<1> HIDE DEF r
<1>5. \A y : Contains(r, y) => Contains(s, y)
  BY <1>1, <1>4 DEF Contains
<1>6. ASSUME NEW y, Contains(s, y), y # s[i]
      PROVE  Contains(r, y)
  <2>1. PICK j \in 1..n : s[j] = y
    BY <1>6 DEF Contains
  <2>2. j # i
    BY <1>6, <2>1
  <2>3. CASE j < i
    BY <1>1, <1>4, <2>1, <2>3 DEF Contains
  <2>4. CASE j > i
    <3>1. j - 1 \in 1..(n - 1) /\ r[j - 1] = y
      BY <1>1, <1>4, <2>1, <2>4
    <3>2. QED  BY <1>4, <3>1 DEF Contains
  <2>5. QED  BY <1>1, <2>2, <2>3, <2>4
<1>7. ASSUME IsInjective(s)
      PROVE  IsInjective(r)
  <2> HIDE DEF n
  <2>1. DOMAIN s = 1..n
    BY DEF n
  <2>2. SUFFICES ASSUME NEW j \in 1..(n - 1), NEW k \in 1..(n - 1), r[j] = r[k]
                 PROVE  j = k
    BY <1>4 DEF IsInjective
  <2>3. j \in 1..n /\ k \in 1..n /\ j + 1 \in 1..n /\ k + 1 \in 1..n
    BY <1>1
  <2>4. r[j] = (IF j < i THEN s[j] ELSE s[j + 1]) /\ r[k] = (IF k < i THEN s[k] ELSE s[k + 1])
    BY <1>4
  <2>5. \A a, b \in 1..n : s[a] = s[b] => a = b
    BY <1>7, <2>1 DEF IsInjective
  <2>6. (IF j < i THEN j ELSE j + 1) = (IF k < i THEN k ELSE k + 1)
    BY <2>2, <2>3, <2>4, <2>5
  <2>7. QED  BY <1>1, <2>6
<1>8. QED  BY <1>4, <1>5, <1>6, <1>7 DEF r
\* A call that does not fire leaves the events as they were.
LEMMA CallKeepsEvents ==
  ASSUME EventInv, NEW t \in Threads, NEW a, NEW x,
         op' = [op EXCEPT ![t] = [at |-> a, arg |-> x]],
         op[t].at \notin Fires, a \notin Fires,
         a \in {"once", "onceSend"} => x \in Onces,
         a = "register" =>
           /\ x \in Handlers /\ ~Contains(subs, x) /\ got[x] = <<>>
           /\ IF x = Unparker THEN t = Driver ELSE x \in DOMAIN Registrar /\ Registrar[x] = t,
         pc'[Driver] \in Early => pc[Driver] \in Early /\ ~(a = "register" /\ x = Unparker),
         once' \in Seq(Onces), gone \subseteq gone',
         UNCHANGED <<stage, writer, subs, subLock, todo, got>>
  PROVE  EventInv'
<1>1. /\ op'[t] = [at |-> a, arg |-> x]
      /\ \A u \in Threads : u # t => op'[u] = op[u]
  BY DEF EventInv, BusTypes
<1>2. BusTypes'
  BY <1>1 DEF EventInv, BusTypes
<1>3. FireInv'
  BY <1>1 DEF EventInv, FireInv, Fires
<1>4. RegisterInv'
  BY <1>1 DEF EventInv, RegisterInv
<1>5. UnparkerInv'
  BY <1>1 DEF EventInv, UnparkerInv
<1>6. SubsInv'
  BY <1>1 DEF EventInv, SubsInv, At, Fires
<1>7. ToldInv'
  <2>1. \A u \in Threads, h \in Handlers : Awaits(u, h)' <=> Awaits(u, h)
    BY <1>1 DEF Awaits, At, Fires
  <2>2. ASSUME NEW u \in Threads, NEW h \in Handlers, Awaits(u, h)
        PROVE  op'[u] = op[u]
    BY <1>1, <2>2 DEF Awaits, At, Fires
  <2> SUFFICES ASSUME NEW h \in Handlers, h \notin gone', got[h] # <<>>
               PROVE  /\ \A u \in Threads : Awaits(u, h)' => got[h][Len(got[h])][2] = op'[u].arg[1]
                      /\ (\A u \in Threads : ~Awaits(u, h)') => got[h][Len(got[h])][2] = stage
    BY DEF ToldInv
  <2>3. h \notin gone
    OBVIOUS
  <2>4. QED  BY <2>1, <2>2, <2>3 DEF EventInv, ToldInv
<1>8. EventsChain'
  BY DEF EventInv, EventsChain
<1>9. QED  BY <1>2, <1>3, <1>4, <1>5, <1>6, <1>7, <1>8 DEF EventInv

\* Nor does a step that makes no call.
LEMMA OthersKeepEvents ==
  ASSUME EventInv, pc'[Driver] \in Early => pc[Driver] \in Early,
         once' \in Seq(Onces), gone \subseteq gone',
         UNCHANGED <<stage, writer, subs, subLock, todo, got, op>>
  PROVE  EventInv'
<1>1. BusTypes' /\ FireInv' /\ RegisterInv' /\ UnparkerInv' /\ SubsInv' /\ EventsChain'
  BY DEF EventInv, BusTypes, FireInv, RegisterInv, UnparkerInv, SubsInv, EventsChain, At
<1>2. ToldInv'
  <2>1. \A u \in Threads, h \in Handlers : Awaits(u, h)' <=> Awaits(u, h)
    BY DEF Awaits, At
  <2>2. QED  BY <2>1 DEF EventInv, ToldInv
<1>3. QED  BY <1>1, <1>2 DEF EventInv

\* The lock the event was fired under is released when nobody fires any more.
LEMMA UnlockKeepsEvents ==
  ASSUME EventInv, NEW t \in Threads, Unlock(t)
  PROVE  EventInv'
<1> USE DEF Unlock, busVars, lockVars
<1>1. BusTypes' /\ RegisterInv' /\ UnparkerInv' /\ SubsInv' /\ EventsChain'
  BY DEF EventInv, BusTypes, RegisterInv, UnparkerInv, SubsInv, EventsChain, At
<1>2. FireInv'
  BY DEF EventInv, FireInv, At, Fires
<1>3. ToldInv'
  <2>1. \A u \in Threads, h \in Handlers : Awaits(u, h)' <=> Awaits(u, h)
    BY DEF Awaits, At
  <2>2. QED  BY <2>1 DEF EventInv, ToldInv
<1>4. QED  BY <1>1, <1>2, <1>3 DEF EventInv

\* The stage is changed when no event is being fired, and the event starts
\* from the stage that every handler was last told of.
LEMMA SetStageKeepsEvents ==
  ASSUME EventInv, NEW t \in Threads, NEW next \in Stages, NEW label,
         SetStage(t, next, label),
         pc'[Driver] \in Early => pc[Driver] \in Early
  PROVE  EventInv'
<1>1. /\ writer = None /\ writer' = t /\ stage' = next /\ op[t].at = "idle"
      /\ op' = [op EXCEPT ![t] = [at |-> "fire", arg |-> <<stage, next>>]]
      /\ UNCHANGED <<subs, gone, subLock, once, todo, got>>
  BY DEF SetStage, Call, At
<1>2. /\ op'[t] = [at |-> "fire", arg |-> <<stage, next>>]
      /\ \A u \in Threads : u # t => op'[u] = op[u]
  BY <1>1 DEF EventInv, BusTypes
<1>3. \A u \in Threads : op[u].at \notin Fires
  BY <1>1, EventBusAssumption DEF EventInv, FireInv
<1>4. BusTypes'
  BY <1>1, <1>2 DEF EventInv, BusTypes
<1>5. FireInv'
  <2>1. <<stage, next>> \in Event
    BY DEF EventInv, BusTypes, Event
  <2>2. QED  BY <1>1, <1>2, <1>3, <2>1 DEF FireInv, Fires
<1>6. RegisterInv'
  BY <1>1, <1>2 DEF EventInv, RegisterInv
<1>7. UnparkerInv'
  BY <1>1, <1>2 DEF EventInv, UnparkerInv
<1>8. SubsInv'
  BY <1>1, <1>2 DEF EventInv, SubsInv, At
<1>9. ToldInv'
  <2>1. \A u \in Threads, h \in Handlers : ~Awaits(u, h)
    BY <1>3 DEF Awaits, At, Fires
  <2>2. \A u \in Threads, h \in Handlers : Awaits(u, h)' <=> u = t
    BY <1>2, <1>3 DEF Awaits, At, Fires
  <2>3. op'[t].arg[1] = stage
    BY <1>2
  <2>4. QED  BY <1>1, <2>1, <2>2, <2>3 DEF EventInv, ToldInv
<1>10. EventsChain'
  BY <1>1 DEF EventInv, EventsChain
<1>11. QED  BY <1>4, <1>5, <1>6, <1>7, <1>8, <1>9, <1>10 DEF EventInv
\* Only the holder of the state lock fires.
LEMMA OneFires ==
  ASSUME EventInv, NEW t \in Threads, op[t].at \in Fires
  PROVE  /\ \A u \in Threads : op[u].at \in Fires => u = t
         /\ op[t].arg \in Event /\ op[t].arg[2] = stage
         /\ \A h \in Handlers : (\A u \in Threads : ~Awaits(u, h)) <=> ~Awaits(t, h)
BY DEF EventInv, FireInv, Awaits, At, Fires

\* The calls that the steps of a fire move: another place, the same event.
LEMMA MovedOp ==
  ASSUME EventInv, NEW t \in Threads, NEW a, Move(t, a)
  PROVE  /\ op' = [op EXCEPT ![t] = [at |-> a, arg |-> op[t].arg]]
         /\ op'[t] = [at |-> a, arg |-> op[t].arg]
         /\ \A u \in Threads : u # t => op'[u] = op[u]
<1>1. op[t] = [at |-> op[t].at, arg |-> op[t].arg]
  BY DEF EventInv, BusTypes
<1>2. op' = [op EXCEPT ![t] = [op[t] EXCEPT !.at = a]]
  BY DEF Move
<1>3. [op[t] EXCEPT !.at = a] = [at |-> a, arg |-> op[t].arg]
  BY <1>1
<1>4. QED  BY <1>2, <1>3 DEF EventInv, BusTypes

LEMMA FinishedOp ==
  ASSUME EventInv, NEW t \in Threads, Finish(t)
  PROVE  /\ op' = [op EXCEPT ![t] = [at |-> "idle", arg |-> None]]
         /\ op'[t] = [at |-> "idle", arg |-> None]
         /\ \A u \in Threads : u # t => op'[u] = op[u]
BY DEF EventInv, BusTypes, Finish, Idle

LEMMA FireLockKeepsEvents ==
  ASSUME EventInv, NEW t \in Threads, FireLock(t), UNCHANGED <<stage, writer, pc>>
  PROVE  EventInv'
<1> USE DEF FireLock, At
<1>1. /\ op'[t] = [at |-> "fireRead", arg |-> op[t].arg]
      /\ \A u \in Threads : u # t => op'[u] = op[u]
      /\ op' = [op EXCEPT ![t] = [at |-> "fireRead", arg |-> op[t].arg]]
  BY MovedOp
<1>2. \A u \in Threads : op[u].at \in Fires => u = t
  BY OneFires DEF Fires
<1>3. BusTypes'
  BY <1>1 DEF EventInv, BusTypes
<1>4. FireInv'
  BY <1>1, <1>2 DEF EventInv, FireInv, Fires
<1>5. RegisterInv' /\ UnparkerInv'
  BY <1>1 DEF EventInv, RegisterInv, UnparkerInv
<1>6. SubsInv' /\ EventsChain'
  BY <1>1 DEF EventInv, SubsInv, EventsChain
<1>7. ToldInv'
  <2>1. \A u \in Threads, h \in Handlers : Awaits(u, h)' <=> Awaits(u, h)
    BY <1>1 DEF Awaits
  <2>2. \A u \in Threads : op'[u].arg = op[u].arg
    BY <1>1
  <2>3. QED  BY <2>1, <2>2 DEF EventInv, ToldInv
<1>8. QED  BY <1>3, <1>4, <1>5, <1>6, <1>7 DEF EventInv

\* All subscribers are to be called: those that were told of a stage are.
LEMMA FireReadKeepsEvents ==
  ASSUME EventInv, NEW t \in Threads, FireRead(t), UNCHANGED <<stage, writer, pc>>
  PROVE  EventInv'
<1> USE DEF FireRead, At
<1>1. /\ op'[t] = [at |-> "firing", arg |-> op[t].arg]
      /\ \A u \in Threads : u # t => op'[u] = op[u]
      /\ op' = [op EXCEPT ![t] = [at |-> "firing", arg |-> op[t].arg]]
  BY MovedOp
<1>2. \A u \in Threads : op[u].at \in Fires => u = t
  BY OneFires DEF Fires
<1>3. BusTypes'
  BY <1>1 DEF EventInv, BusTypes
<1>4. FireInv'
  BY <1>1, <1>2 DEF EventInv, FireInv, Fires
<1>5. RegisterInv' /\ UnparkerInv'
  BY <1>1 DEF EventInv, RegisterInv, UnparkerInv
<1>6. SubsInv' /\ EventsChain'
  BY <1>1 DEF EventInv, SubsInv, EventsChain
<1>7. ToldInv'
  <2> SUFFICES ASSUME NEW h \in Handlers, h \notin gone, got[h] # <<>>
               PROVE  /\ \A u \in Threads : Awaits(u, h)' => got[h][Len(got[h])][2] = op'[u].arg[1]
                      /\ (\A u \in Threads : ~Awaits(u, h)') => got[h][Len(got[h])][2] = stage
    BY DEF ToldInv
  <2>1. Awaits(t, h) /\ got[h][Len(got[h])][2] = op[t].arg[1]
    BY DEF Awaits, EventInv, ToldInv
  <2>2. Contains(subs, h)
    BY DEF EventInv, SubsInv
  <2>3. Awaits(t, h)'
    BY <1>1, <2>2 DEF Awaits
  <2>4. \A u \in Threads : u # t => ~Awaits(u, h)'
    BY <1>1, <1>2 DEF Awaits, Fires
  <2>5. QED  BY <1>1, <2>1, <2>3, <2>4
<1>8. QED  BY <1>3, <1>4, <1>5, <1>6, <1>7 DEF EventInv

\* The head of the handlers to be called is called, or gone: the others
\* wait for the event as before.
LEMMA HeadAwaits ==
  ASSUME EventInv, NEW t \in Threads, NEW h, At(t, "firing"), todo # <<>>, h = Head(todo),
         todo' = Tail(todo), op' = op
  PROVE  /\ h \in Handlers /\ Contains(subs, h)
         /\ Awaits(t, h) /\ ~Awaits(t, h)'
         /\ \A g \in Handlers : g # h => (Awaits(t, g)' <=> Awaits(t, g))
         /\ \A u \in Threads, g \in Handlers : u # t => ~Awaits(u, g) /\ ~Awaits(u, g)'
         /\ todo' \in Seq(Handlers) /\ IsInjective(todo')
         /\ \A g \in Handlers : Contains(todo', g) => Contains(subs, g) /\ g # h
<1>1. todo \in Seq(Handlers) /\ IsInjective(todo) /\ \A g \in Handlers : Contains(todo, g) => Contains(subs, g)
  BY DEF EventInv, BusTypes, SubsInv
<1>2. /\ h \in Handlers /\ Contains(todo, h)
      /\ todo' \in Seq(Handlers)
      /\ \A y : Contains(todo', y) => Contains(todo, y)
      /\ \A y : Contains(todo, y) => y = h \/ Contains(todo', y)
      /\ IsInjective(todo') /\ ~Contains(todo', h)
  BY <1>1, HeadContains
<1>3. \A u \in Threads : u # t => op[u].at \notin Fires
  BY OneFires DEF At, Fires
<1>4. op[t].at = "firing"
  BY DEF At
<1>5. \A g : (Awaits(t, g) <=> Contains(todo, g)) /\ (Awaits(t, g)' <=> Contains(todo', g))
  BY <1>4 DEF Awaits, At
<1>6. \A u \in Threads, g \in Handlers : u # t => ~Awaits(u, g) /\ ~Awaits(u, g)'
  BY <1>3 DEF Awaits, At, Fires
<1>7. QED  BY <1>1, <1>2, <1>5, <1>6

\* What a handler is given starts from the stage it was last told of.
LEMMA HandleKeepsEvents ==
  ASSUME EventInv, NEW t \in Threads, NEW h \in Handlers, HandleStandard(t, h),
         UNCHANGED <<stage, writer, pc>>
  PROVE  EventInv'
<1> DEFINE e == op[t].arg
<1>1. /\ op[t].at = "firing" /\ h = Head(todo) /\ h \notin gone /\ todo # <<>>
      /\ got' = [got EXCEPT ![h] = Append(@, e)] /\ todo' = Tail(todo)
      /\ UNCHANGED <<op, subs, gone, subLock, once>>
  BY DEF HandleStandard, At, Deliver
<1>2. /\ Contains(subs, h) /\ Awaits(t, h) /\ ~Awaits(t, h)'
      /\ \A g \in Handlers : g # h => (Awaits(t, g)' <=> Awaits(t, g))
      /\ \A u \in Threads, g \in Handlers : u # t => ~Awaits(u, g) /\ ~Awaits(u, g)'
      /\ todo' \in Seq(Handlers) /\ IsInjective(todo')
      /\ \A g \in Handlers : Contains(todo', g) => Contains(subs, g)
  BY <1>1, HeadAwaits DEF At
<1>3. e \in Event /\ e[2] = stage
  BY <1>1, OneFires DEF Fires
<1>4. got \in [Handlers \cup Onces -> Seq(Event)]
  BY DEF EventInv, BusTypes
<1> HIDE DEF e
<1>5. /\ got' \in [Handlers \cup Onces -> Seq(Event)]
      /\ got'[h] # <<>> /\ Len(got'[h]) = Len(got[h]) + 1 /\ Len(got[h]) \in Nat
      /\ got'[h][Len(got[h]) + 1] = e
      /\ \A i \in 1..Len(got[h]) : got'[h][i] = got[h][i]
      /\ \A g \in Handlers \cup Onces : g # h => got'[g] = got[g]
  <2>1. got'[h] = Append(got[h], e) /\ got[h] \in Seq(Event)
    BY <1>1, <1>4
  <2>2. \A g \in Handlers \cup Onces : g # h => got'[g] = got[g]
    BY <1>1, <1>4
  <2>3. got'[h] \in Seq(Event)
    BY <1>3, <2>1
  <2>4. got' = [g \in Handlers \cup Onces |-> got'[g]]
    BY <1>1, <1>4
  <2>5. got' \in [Handlers \cup Onces -> Seq(Event)]
    BY <1>4, <2>2, <2>3, <2>4
  <2>6. QED  BY <1>3, <2>1, <2>2, <2>5, AppendProperties
<1>6. BusTypes'
  BY <1>1, <1>2, <1>5 DEF EventInv, BusTypes
<1>7. FireInv'
  BY <1>1 DEF EventInv, FireInv
<1>8. RegisterInv'
  BY <1>1, <1>2, <1>5 DEF EventInv, RegisterInv
<1>9. UnparkerInv'
  BY <1>1, <1>2, <1>5, EngineAssumption DEF EventInv, UnparkerInv
<1>10. SubsInv'
  BY <1>1, <1>2, <1>5 DEF EventInv, SubsInv, At
<1>11. ToldInv'
  <2>1. got'[h][Len(got'[h])][2] = stage
    BY <1>3, <1>5
  <2>2. ASSUME NEW g \in Handlers, g # h, g \notin gone, got[g] # <<>>
        PROVE  /\ \A u \in Threads : Awaits(u, g)' => got[g][Len(got[g])][2] = op[u].arg[1]
               /\ (\A u \in Threads : ~Awaits(u, g)') => got[g][Len(got[g])][2] = stage
    BY <1>2, <2>2 DEF EventInv, ToldInv
  <2>3. \A g \in Handlers : g # h => got'[g] = got[g]
    BY <1>5
  <2>4. QED  BY <1>1, <1>2, <2>1, <2>2, <2>3 DEF ToldInv
<1>12. EventsChain'
  <2>1. \A g \in Handlers : g # h => got'[g] = got[g]
    BY <1>5
  <2>2. ASSUME NEW i \in 1..(Len(got'[h]) - 1)
        PROVE  got'[h][i][2] = got'[h][i + 1][1]
    <3>1. CASE i = Len(got[h])
      <4>1. got[h] # <<>>
        BY <2>2, <3>1, <1>4
      <4>2. got[h][Len(got[h])][2] = e[1]
        BY <1>1, <1>2, <4>1 DEF EventInv, ToldInv, e
      <4>3. QED  BY <1>5, <2>2, <3>1, <4>2
    <3>2. CASE i # Len(got[h])
      <4>1. i \in 1..(Len(got[h]) - 1) /\ i \in 1..Len(got[h]) /\ i + 1 \in 1..Len(got[h])
        BY <1>5, <2>2, <3>2
      <4>2. got[h][i][2] = got[h][i + 1][1]
        BY <4>1 DEF EventInv, EventsChain
      <4>3. QED  BY <1>5, <4>1, <4>2
    <3>3. QED  BY <3>1, <3>2
  <2>3. QED  BY <2>1, <2>2 DEF EventInv, EventsChain
<1>13. QED  BY <1>6, <1>7, <1>8, <1>9, <1>10, <1>11, <1>12 DEF EventInv
\* A weak handler that is gone is removed, or goes and stays: it is not called
\* any more, and the other subscribers stay.
LEMMA SkipKeepsEvents ==
  ASSUME EventInv, NEW t \in Threads, RemoveInvalid(t) \/ DroppedInBetween(t),
         UNCHANGED <<stage, writer, pc>>
  PROVE  EventInv'
<1> DEFINE h == Head(todo)
<1>1. /\ op[t].at = "firing" /\ todo # <<>> /\ todo' = Tail(todo)
      /\ h \in gone' /\ gone \subseteq gone'
      /\ UNCHANGED <<op, got, subLock, once>>
  BY DEF RemoveInvalid, DroppedInBetween, At
<1>2. /\ h \in Handlers
      /\ \A g \in Handlers : g # h => (Awaits(t, g)' <=> Awaits(t, g))
      /\ \A u \in Threads, g \in Handlers : u # t => ~Awaits(u, g) /\ ~Awaits(u, g)'
      /\ todo' \in Seq(Handlers) /\ IsInjective(todo')
      /\ \A g \in Handlers : Contains(todo', g) => Contains(subs, g) /\ g # h
  <2> DEFINE k == h
  <2> HIDE DEF k
  <2>1. k = Head(todo)
    BY DEF k
  <2>2. /\ k \in Handlers
        /\ \A g \in Handlers : g # k => (Awaits(t, g)' <=> Awaits(t, g))
        /\ \A u \in Threads, g \in Handlers : u # t => ~Awaits(u, g) /\ ~Awaits(u, g)'
        /\ todo' \in Seq(Handlers) /\ IsInjective(todo')
        /\ \A g \in Handlers : Contains(todo', g) => Contains(subs, g) /\ g # k
    BY <1>1, <2>1, HeadAwaits DEF At
  <2>3. QED  BY <2>1, <2>2
<1>3. /\ subs' \in Seq(Handlers) /\ IsInjective(subs')
      /\ \A g : Contains(subs', g) => Contains(subs, g)
      /\ \A g : Contains(subs, g) /\ g # h => Contains(subs', g)
  <2>1. subs \in Seq(Handlers) /\ IsInjective(subs)
    BY DEF EventInv, BusTypes, SubsInv
  <2>2. CASE RemoveInvalid(t)
    <3>1. PICK i \in DOMAIN subs : subs[i] = h /\ subs' = RemoveAt(subs, i)
      BY <2>2 DEF RemoveInvalid
    <3>2. QED  BY <2>1, <3>1, RemovedContains
  <2>3. CASE DroppedInBetween(t)
    BY <2>1, <2>3 DEF DroppedInBetween
  <2>4. QED  BY <2>2, <2>3
<1> HIDE DEF h
<1>4. BusTypes' /\ FireInv'
  BY <1>1, <1>2, <1>3 DEF EventInv, BusTypes, FireInv
<1>5. RegisterInv'
  BY <1>1, <1>3 DEF EventInv, RegisterInv
<1>6. UnparkerInv'
  BY <1>1, <1>3 DEF EventInv, UnparkerInv
<1>7. SubsInv'
  BY <1>1, <1>2, <1>3 DEF EventInv, SubsInv, At
<1>8. ToldInv'
  <2>1. ASSUME NEW g \in Handlers, g \notin gone', got[g] # <<>>
        PROVE  /\ \A u \in Threads : Awaits(u, g)' => got[g][Len(got[g])][2] = op[u].arg[1]
               /\ (\A u \in Threads : ~Awaits(u, g)') => got[g][Len(got[g])][2] = stage
    BY <1>1, <1>2, <2>1 DEF EventInv, ToldInv
  <2>2. QED  BY <1>1, <2>1 DEF ToldInv
<1>9. EventsChain'
  BY <1>1 DEF EventInv, EventsChain
<1>10. QED  BY <1>4, <1>5, <1>6, <1>7, <1>8, <1>9 DEF EventInv

\* What the one-off handlers are given is not what the others are.
LEMMA HandleOnceKeepsEvents ==
  ASSUME EventInv, NEW t \in Threads, HandleOnce(t), UNCHANGED <<stage, writer, pc>>
  PROVE  EventInv'
<1> DEFINE o == Head(once)
           e == op[t].arg
<1>1. /\ op[t].at = "firing" /\ once # <<>> /\ once' = Tail(once)
      /\ got' = [got EXCEPT ![o] = Append(@, e)]
      /\ UNCHANGED <<op, subs, gone, subLock, todo>>
  BY DEF HandleOnce, At, Deliver
<1>2. o \in Onces /\ once' \in Seq(Onces) /\ e \in Event
  BY <1>1, OneFires, HeadContains DEF EventInv, BusTypes, Fires
<1> HIDE DEF o, e
<1>3. /\ got' \in [Handlers \cup Onces -> Seq(Event)]
      /\ \A h \in Handlers : got'[h] = got[h]
  <2>1. got \in [Handlers \cup Onces -> Seq(Event)] /\ Append(got[o], e) \in Seq(Event)
    BY <1>2 DEF EventInv, BusTypes
  <2>2. QED  BY <1>1, <1>2, <2>1, EventBusAssumption
<1>4. BusTypes' /\ FireInv'
  BY <1>1, <1>2, <1>3 DEF EventInv, BusTypes, FireInv
<1>5. RegisterInv' /\ UnparkerInv'
  BY <1>1, <1>3, EngineAssumption DEF EventInv, RegisterInv, UnparkerInv
<1>6. SubsInv' /\ EventsChain'
  BY <1>1, <1>3 DEF EventInv, SubsInv, EventsChain, At
<1>7. ToldInv'
  <2>1. \A u \in Threads, h \in Handlers : Awaits(u, h)' <=> Awaits(u, h)
    BY <1>1 DEF Awaits, At
  <2>2. QED  BY <1>1, <1>3, <2>1 DEF EventInv, ToldInv
<1>8. QED  BY <1>4, <1>5, <1>6, <1>7 DEF EventInv

\* Nobody is left to be called: every handler was told of the stage.
LEMMA FireEndKeepsEvents ==
  ASSUME EventInv, NEW t \in Threads, FireEnd(t), UNCHANGED <<stage, writer, pc>>
  PROVE  EventInv'
<1> USE DEF FireEnd, At
<1>1. /\ op'[t] = [at |-> "idle", arg |-> None]
      /\ \A u \in Threads : u # t => op'[u] = op[u]
      /\ op' = [op EXCEPT ![t] = [at |-> "idle", arg |-> None]]
  BY FinishedOp
<1>2. \A u \in Threads : op[u].at \in Fires => u = t
  BY OneFires DEF Fires
<1>3. BusTypes'
  BY <1>1 DEF EventInv, BusTypes
<1>4. FireInv'
  BY <1>1, <1>2 DEF EventInv, FireInv, Fires
<1>5. RegisterInv' /\ UnparkerInv'
  BY <1>1 DEF EventInv, RegisterInv, UnparkerInv
<1>6. SubsInv' /\ EventsChain'
  BY <1>1 DEF EventInv, SubsInv, EventsChain
<1>7. ToldInv'
  <2>1. \A u \in Threads, h \in Handlers : ~Awaits(u, h) /\ ~Awaits(u, h)'
    BY <1>1, <1>2 DEF Awaits, Fires, Contains
  <2>2. QED  BY <2>1 DEF EventInv, ToldInv
<1>8. QED  BY <1>3, <1>4, <1>5, <1>6, <1>7 DEF EventInv

\* A handler that becomes a subscriber has not been told of anything.
LEMMA RegisterKeepsEvents ==
  ASSUME EventInv, NEW t \in Threads, Register(t), UNCHANGED <<stage, writer, pc>>
  PROVE  EventInv'
<1> DEFINE h == op[t].arg
<1>1. /\ op[t].at = "register" /\ subLock = None /\ subs' = Append(subs, h) /\ Finish(t)
      /\ UNCHANGED <<got, gone, subLock, once, todo>>
  BY DEF Register, At
<1>2. /\ op'[t] = [at |-> "idle", arg |-> None]
      /\ \A u \in Threads : u # t => op'[u] = op[u]
      /\ op' = [op EXCEPT ![t] = [at |-> "idle", arg |-> None]]
  BY <1>1, FinishedOp
<1>3. /\ h \in Handlers /\ ~Contains(subs, h) /\ got[h] = <<>>
      /\ IF h = Unparker THEN t = Driver ELSE h \in DOMAIN Registrar /\ Registrar[h] = t
  BY <1>1 DEF EventInv, RegisterInv
<1>4. /\ subs' \in Seq(Handlers) /\ IsInjective(subs')
      /\ \A y : Contains(subs', y) <=> Contains(subs, y) \/ y = h
  BY <1>1, <1>3, AppendedContains DEF EventInv, BusTypes, SubsInv
<1>5. BusTypes'
  BY <1>1, <1>2, <1>4 DEF EventInv, BusTypes
<1>6. FireInv'
  BY <1>1, <1>2 DEF EventInv, FireInv, Fires
<1>7. RegisterInv'
  <2>1. ASSUME NEW u \in Threads, u # t, op[u].at = "register"
        PROVE  op[u].arg # h
    BY <1>3, <2>1 DEF EventInv, RegisterInv
  <2> HIDE DEF h
  <2>2. QED  BY <1>1, <1>2, <1>4, <2>1 DEF EventInv, RegisterInv
<1>8. UnparkerInv'
  <2>1. pc[Driver] \in Early => h # Unparker
    BY <1>1 DEF EventInv, UnparkerInv
  <2> HIDE DEF h
  <2>2. QED  BY <1>1, <1>2, <1>4, <2>1 DEF EventInv, UnparkerInv
<1>9. \A u \in Threads : op[u].at \notin {"fireRead", "firing"}
  BY <1>1, EventBusAssumption DEF EventInv, FireInv
<1>10. SubsInv' /\ EventsChain'
  <2> HIDE DEF h
  <2>1. EventsChain'
    BY <1>1 DEF EventInv, EventsChain
  <2>2. \A u \in Threads : ~At(u, "firing")'
    BY <1>2, <1>9 DEF At
  <2>3. \A g \in Handlers : g \notin gone /\ got[g] # <<>> => Contains(subs, g)
    BY DEF EventInv, SubsInv
  <2>4. QED  BY <1>1, <1>4, <2>1, <2>2, <2>3 DEF SubsInv
<1>11. ToldInv'
  <2> HIDE DEF h
  <2>1. \A u \in Threads, g \in Handlers : Awaits(u, g)' <=> Awaits(u, g)
    BY <1>1, <1>2 DEF Awaits, At
  <2>2. \A u \in Threads, g \in Handlers : Awaits(u, g) => op'[u] = op[u]
    BY <1>1, <1>2 DEF Awaits, At
  <2>3. QED  BY <1>1, <2>1, <2>2 DEF EventInv, ToldInv
<1>12. QED  BY <1>5, <1>6, <1>7, <1>8, <1>10, <1>11 DEF EventInv

LEMMA BusStepKeepsEvents ==
  ASSUME EventInv, NEW t \in Threads, BusStep(t), UNCHANGED <<stage, writer, pc>>
  PROVE  EventInv'
<1>1. CASE FireLock(t) \/ FireRead(t) \/ RemoveInvalid(t) \/ DroppedInBetween(t)
           \/ HandleOnce(t) \/ FireEnd(t) \/ Register(t)
  BY <1>1, FireLockKeepsEvents, FireReadKeepsEvents, SkipKeepsEvents, HandleOnceKeepsEvents,
     FireEndKeepsEvents, RegisterKeepsEvents
<1>2. once \in Seq(Onces)
  BY DEF EventInv, BusTypes
<1>3. CASE OnceLock(t)
  <2>1. /\ op' = [op EXCEPT ![t] = [at |-> "onceSend", arg |-> op[t].arg]] /\ op[t].at = "once"
        /\ op[t].arg \in Onces
    BY <1>3, MovedOp DEF OnceLock, At, EventInv, RegisterInv
  <2>2. QED  BY ZenonT(40), <1>2, <1>3, <2>1, CallKeepsEvents DEF OnceLock, Fires
<1>4. CASE OnceUpgrade(t)
  BY <1>2, <1>4, OthersKeepEvents DEF OnceUpgrade
<1>5. CASE OnceSend(t)
  <2>1. /\ op' = [op EXCEPT ![t] = [at |-> "idle", arg |-> None]] /\ op[t].at = "onceSend"
        /\ once' = Append(once, op[t].arg) /\ op[t].arg \in Onces
    BY <1>5, FinishedOp DEF OnceSend, At, EventInv, RegisterInv
  <2>2. once' \in Seq(Onces)
    BY <1>2, <2>1, AppendedContains
  <2>3. UNCHANGED <<stage, writer, pc, subs, subLock, todo, got, gone>>
    BY <1>5 DEF OnceSend
  <2>4. op' = [op EXCEPT ![t] = [at |-> "idle", arg |-> None]] /\ op[t].at \notin Fires
    BY <2>1 DEF Fires
  <2>5. "idle" \notin Fires /\ "idle" \notin {"once", "onceSend"} /\ "idle" # "register" /\ gone \subseteq gone'
    BY <2>3 DEF Fires
  <2>6. pc'[Driver] \in Early => pc[Driver] \in Early
    BY <2>3
  <2>7. QED  BY <2>2, <2>3, <2>4, <2>5, <2>6, CallKeepsEvents
<1>6. CASE AwaitEnds(t)
  <2>1. /\ op' = [op EXCEPT ![t] = [at |-> "idle", arg |-> None]] /\ op[t].at = "await"
    BY <1>6, FinishedOp DEF AwaitEnds, At
  <2>2. QED  BY <1>2, <1>6, <2>1, CallKeepsEvents DEF AwaitEnds, lockVars, Fires
<1>7. QED  BY <1>1, <1>3, <1>4, <1>5, <1>6 DEF BusStep
LEMMA DriverStepKeepsEvents ==
  ASSUME EventInv, LifecycleInv, DriverStep
  PROVE  EventInv'
<1> USE DEF Ready
<1>0. /\ Driver \in Threads /\ once \in Seq(Onces)
      /\ \A l : Goto(Driver, l) => pc'[Driver] = l
  BY EngineAssumption DEF EventInv, BusTypes, LifecycleInv, Goto
<1>1. CASE InitHook \/ CheckStopping \/ Park \/ TerminateHook
  <2>1. UNCHANGED <<stage, writer, busVars>>
    BY <1>1 DEF InitHook, CheckStopping, Park, TerminateHook
  <2>2. pc'[Driver] \in Early => pc[Driver] \in Early
    BY <1>0, <1>1 DEF InitHook, CheckStopping, Park, TerminateHook, Early
  <2>3. QED  BY <1>0, <2>1, <2>2, OthersKeepEvents DEF busVars, lockVars
<1>2. CASE SetRunning
  <2>1. pc[Driver] \in Early
    BY <1>2 DEF SetRunning, Early
  <2>2. QED
    BY <1>0, <1>2, <2>1, SetStageKeepsEvents DEF SetRunning, Stages
<1>3. CASE SetStopped
  <2>1. pc'[Driver] = "ended"
    BY <1>0, <1>3 DEF SetStopped, SetStage
  <2>2. QED
    BY <1>0, <1>3, <2>1, SetStageKeepsEvents DEF SetStopped, Stages, Early
<1>4. CASE RegisterUnparker
  <2>1. /\ op' = [op EXCEPT ![Driver] = [at |-> "register", arg |-> Unparker]]
        /\ op[Driver].at = "idle" /\ pc'[Driver] = "check"
        /\ UNCHANGED <<stage, writer, subs, subLock, todo, got, gone, once>>
    BY <1>0, <1>4 DEF RegisterUnparker, Call, At
  <2>2. ~Contains(subs, Unparker) /\ got[Unparker] = <<>>
    BY <1>4 DEF RegisterUnparker, Early, EventInv, UnparkerInv
  <2>3. Unparker \in Handlers
    BY EngineAssumption
  <2>4. /\ op[Driver].at \notin Fires /\ "register" \notin Fires /\ pc'[Driver] \notin Early
        /\ "register" \notin {"once", "onceSend"} /\ once' \in Seq(Onces) /\ gone \subseteq gone'
    BY <1>0, <2>1 DEF Fires, Early
  <2>5. QED  BY <1>0, <2>1, <2>2, <2>3, <2>4, CallKeepsEvents
<1>5. QED  BY <1>1, <1>2, <1>3, <1>4 DEF DriverStep

LEMMA EventStep ==
  ASSUME EventInv, LifecycleInv, [Next]_vars
  PROVE  EventInv'
<1> USE DEF engineVars, busVars, lockVars
<1>0. /\ Driver \in Threads /\ Owner \in Threads /\ Stoppers \subseteq Threads /\ once \in Seq(Onces)
      /\ \A t \in Threads : \A l : (Goto(t, l) /\ l \notin Early /\ pc'[Driver] \in Early) => pc[Driver] \in Early
  BY EngineAssumption DEF EventInv, BusTypes, LifecycleInv, Goto
<1>1. ASSUME NEW t \in Threads, ThreadStep(t)
      PROVE  EventInv'
  <2>1. CASE DriverStep
    BY <2>1, DriverStepKeepsEvents
  <2>2. CASE StopEngine(t)
    <3>1. PICK l \in {"stopped", "asked"} : SetStage(t, "Stopping", l)
      BY <2>2 DEF StopEngine
    <3>2. Goto(t, l) /\ l \notin Early /\ "Stopping" \in Stages
      BY <3>1 DEF SetStage, Early, Stages
    <3>3. QED  BY <1>0, <3>1, <3>2, SetStageKeepsEvents
  <2>3. CASE StopRefused(t)
    <3>1. t # Driver
      BY <2>3 DEF StopRefused, LifecycleInv
    <3>2. \E l : Goto(t, l)
      BY <2>3 DEF StopRefused
    <3>3. pc'[Driver] = pc[Driver]
      BY <1>0, <3>1, <3>2 DEF Goto, LifecycleInv
    <3>4. QED  BY <1>0, <2>3, <3>3, OthersKeepEvents DEF StopRefused
  <2>4. CASE CallHandler(t)
    BY <2>4, HandleKeepsEvents DEF CallHandler
  <2>5. CASE Unlock(t)
    BY <2>5, UnlockKeepsEvents
  <2>6. CASE BusStep(t) /\ UNCHANGED <<tickVars, engineVars>>
    BY <2>6, BusStepKeepsEvents
  <2>7. QED
    BY <1>1, <2>1, <2>2, <2>3, <2>4, <2>5, <2>6 DEF ThreadStep
<1>2. CASE Join
  <2>1. Goto(Owner, "joined") /\ UNCHANGED <<stage, writer, busVars>>
    BY <1>2 DEF Join
  <2>2. pc'[Driver] \in Early => pc[Driver] \in Early
    BY <1>0, <2>1 DEF Early
  <2>3. QED  BY <1>0, <2>1, <2>2, OthersKeepEvents
<1>3. ASSUME NEW t \in Threads, NEW h \in Handlers \cup Onces, RegisterHandler(t, h)
      PROVE  EventInv'
  <2> DEFINE a == IF h \in Onces THEN "once" ELSE "register"
  <2>1. /\ op' = [op EXCEPT ![t] = [at |-> a, arg |-> h]] /\ op[t].at = "idle"
        /\ UNCHANGED <<stage, writer, subs, subLock, todo, got, gone, once, pc>>
    BY <1>3 DEF RegisterHandler, Call, At
  <2>2. a \in {"once", "onceSend"} => h \in Onces
    OBVIOUS
  <2>3. a = "register" => h \in Handlers /\ h # Unparker
    BY <1>3, EngineAssumption DEF RegisterHandler
  <2>4. h \in DOMAIN Registrar /\ Registrar[h] = t /\ got[h] = <<>> /\ ~Contains(subs \o once, h)
    BY <1>3 DEF RegisterHandler
  <2>5. a = "register" => ~Contains(subs, h)
    <3>1. \A i \in 1..Len(subs) : (subs \o once)[i] = subs[i] /\ i \in 1..Len(subs \o once)
      BY DEF EventInv, BusTypes
    <3>2. QED  BY <2>4, <3>1 DEF Contains
  <2>6. a \notin Fires
    BY DEF Fires
  <2> HIDE DEF a
  <2>7. QED  BY <1>0, <2>1, <2>2, <2>3, <2>4, <2>5, <2>6, CallKeepsEvents DEF Fires
<1>4. ASSUME NEW t \in Threads, NEW o \in Onces, AwaitOnce(t, o)
      PROVE  EventInv'
  <2>1. /\ op' = [op EXCEPT ![t] = [at |-> "await", arg |-> o]] /\ op[t].at = "idle"
        /\ UNCHANGED <<stage, writer, subs, subLock, todo, got, gone, once, pc>>
    BY <1>4 DEF AwaitOnce, Await, At
  <2>2. QED  BY ZenonT(40), <1>0, <2>1, CallKeepsEvents DEF Fires
<1>5. CASE DropEngine
  <2>1. once' = <<>> /\ UNCHANGED <<stage, writer, subs, subLock, todo, got, gone, op, pc>>
    BY <1>5 DEF DropEngine, DropBus
  <2>2. QED  BY <2>1, OthersKeepEvents
<1>6. ASSUME NEW h \in Handlers, DropHandler(h), UNCHANGED <<tickVars, engineVars>>
      PROVE  EventInv'
  BY <1>0, <1>6, OthersKeepEvents DEF DropHandler
<1>7. CASE LoopThread \/ Rest \/ UNCHANGED vars
  BY <1>0, <1>7, OthersKeepEvents DEF LoopThread, Rest, vars
<1>8. QED  BY <1>1, <1>2, <1>3, <1>4, <1>5, <1>6, <1>7 DEF Next

\* The events of a handler follow each other, each from the stage the one
\* before it led to, whatever threads change the stage and register
\* (transition_stage fires under the state lock; EventBus::fire).
THEOREM EventsFollow == Spec => []EventsChain
<1>1. Init => EventInv /\ LifecycleInv
  <2> SUFFICES ASSUME Init PROVE EventInv /\ LifecycleInv
    OBVIOUS
  <2> USE DEF Init, BusInit
  <2>1. LifecycleInv
    BY EngineAssumption DEF LifecycleInv, PcStates
  <2>2. \A t \in Threads : op[t] = [at |-> "idle", arg |-> None]
    BY DEF Idle
  <2>3. \A h \in Handlers \cup Onces : got[h] = <<>>
    OBVIOUS
  <2>4. op = [t \in Threads |-> [at |-> op[t].at, arg |-> op[t].arg]]
    BY <2>2 DEF Idle
  <2>5. BusTypes
    BY <2>4 DEF BusTypes, Stages
  <2>6. FireInv /\ RegisterInv
    BY <2>2 DEF FireInv, RegisterInv, Fires
  <2>7. UnparkerInv
    BY <2>2, <2>3, EngineAssumption DEF UnparkerInv, Contains
  <2>8. SubsInv
    BY <2>2, <2>3 DEF SubsInv, IsInjective, At
  <2>9. ToldInv /\ EventsChain
    BY <2>3 DEF ToldInv, EventsChain
  <2>10. QED  BY <2>1, <2>5, <2>6, <2>7, <2>8, <2>9 DEF EventInv
<1>2. EventInv /\ LifecycleInv /\ [Next]_vars => (EventInv /\ LifecycleInv)'
  BY EventStep, LifecycleStep
<1>3. EventInv => EventsChain
  BY DEF EventInv
<1>4. QED  BY <1>1, <1>2, <1>3, PTL DEF Spec
=============================================================================
