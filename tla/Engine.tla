-------------------------------- MODULE Engine --------------------------------
(***************************************************************************)
(* The life of an engine (lib.rs) under MinimalAppDriver (app/driver.rs):  *)
(* the thread that runs the driver, threads that stop the engine, one of   *)
(* them through its EngineJoinHandle, and threads that register event      *)
(* handlers meanwhile.  Every change of the stage is made, and its event   *)
(* fired, under the engine's state lock.  The application of this engine   *)
(* runs a tick loop: its init() spawns it, its terminate() drops it.       *)
(***************************************************************************)
EXTENDS EventBus, TickLoop

CONSTANTS
  Driver,      \* the engine's thread
  Stoppers,    \* threads that call Engine::stop
  Owner,       \* the stopper that holds the EngineJoinHandle
  Registrar,   \* handler or one-off handler -> the thread that registers it
  Unparker     \* the handler the driver registers to be woken by

ASSUME EngineAssumption ==
  /\ {Driver} \cup Stoppers \subseteq Threads /\ Owner \in Stoppers
  /\ Unparker \in Handlers \ WeakHandlers
  /\ DOMAIN Registrar \subseteq (Handlers \ {Unparker}) \cup Onces

VARIABLES
  stage,     \* EngineStateInner::stage
  hooked,    \* whether the hook of this stage has run
  writer,    \* the thread that holds Engine::state.write(), or None
  token,     \* the park token of the driver's thread
  pc         \* where a thread is

engineVars == <<stage, hooked, writer, token, pc>>
vars == <<busVars, tickVars, engineVars>>

Lifecycle == INSTANCE EngineLifecycle

Goto(t, l) == pc' = [pc EXCEPT ![t] = l]

\* Mutant: an engine can be told to stop in any stage.
StopsFromAnywhere(s, next) == s = next \/ next = "Stopping" \/ <<s, next>> \in Lifecycle!Edges

\* EngineStage::validate_transition
ValidTransition(s, next) == s = next \/ <<s, next>> \in Lifecycle!Edges

Init ==
  /\ BusInit /\ TickInit
  /\ stage = "Init" /\ hooked = FALSE /\ writer = None /\ token = FALSE
  /\ pc = [t \in Threads |-> IF t = Driver THEN "init" ELSE "start"]

\* Mutant: the event is fired after the lock is released.
SetStageThenFire(t, next, label) ==
  /\ writer = None /\ stage # next /\ ValidTransition(stage, next)
  /\ stage' = next /\ hooked' = FALSE
  /\ Goto(t, label)
  /\ Call(t, "fire", <<stage, next>>)
  /\ UNCHANGED <<writer, token, tickVars>>

\* EngineState::set_stage and Engine::stop, transition_stage: validate, set
\* the stage and fire the event, all under the write lock.
SetStage(t, next, label) ==
  /\ writer = None /\ stage # next /\ ValidTransition(stage, next)
  /\ writer' = t
  /\ stage' = next /\ hooked' = FALSE
  /\ Goto(t, label)
  /\ Call(t, "fire", <<stage, next>>)
  /\ UNCHANGED <<token, tickVars>>

\* The write lock is released once the event has been fired.
Unlock(t) ==
  /\ writer = t /\ At(t, "idle")
  /\ writer' = None
  /\ UNCHANGED <<stage, hooked, token, pc, busVars, tickVars>>

\* The driver's handler unparks its thread; the others are the user's.
CallHandler(t) ==
  \E h \in Handlers :
    /\ HandleStandard(t, h)
    /\ token' = (token \/ (h = Unparker /\ op[t].arg[2] = "Stopping"))
    /\ UNCHANGED <<stage, hooked, writer, pc, tickVars>>

-----------------------------------------------------------------------------
(* MinimalAppDriver::run_main_loop *)

Ready(l) == pc[Driver] = l /\ At(Driver, "idle") /\ writer # Driver

\* Application::init, which spawns the tick loop and waits for it.
InitHook ==
  /\ Ready("init")
  /\ \/ SpawnLoop /\ UNCHANGED <<hooked, pc>>
     \/ TakeResult /\ hooked' = TRUE /\ Goto(Driver, "run")
  /\ UNCHANGED <<stage, writer, token, busVars>>

SetRunning == Ready("run") /\ SetStage(Driver, "Running", "register")

\* Mutant: the driver parks without a look at the stage.
RegisterAndPark ==
  /\ Ready("register")
  /\ Call(Driver, "register", Unparker)
  /\ Goto(Driver, "park")
  /\ UNCHANGED <<stage, hooked, writer, token, tickVars>>

RegisterUnparker ==
  /\ Ready("register")
  /\ Call(Driver, "register", Unparker)
  /\ Goto(Driver, "check")
  /\ UNCHANGED <<stage, hooked, writer, token, tickVars>>

\* Engine::stage needs the state lock for reading.
CheckStopping ==
  /\ Ready("check") /\ writer = None
  /\ Goto(Driver, IF stage = "Stopping" THEN "terminate" ELSE "park")
  /\ UNCHANGED <<stage, hooked, writer, token, busVars, tickVars>>

Park ==
  /\ Ready("park") /\ token
  /\ token' = FALSE
  /\ Goto(Driver, "check")
  /\ UNCHANGED <<stage, hooked, writer, busVars, tickVars>>

\* Application::terminate, which drops the handle of the loop it has, if any.
TerminateHook ==
  /\ Ready("terminate")
  /\ \/ (DropHandle \/ JoinLoop) /\ UNCHANGED <<hooked, pc>>
     \/ /\ spawner \in {"refused", "joined"}
        /\ hooked' = TRUE /\ Goto(Driver, "stop")
        /\ UNCHANGED tickVars
  /\ UNCHANGED <<stage, writer, token, busVars>>

SetStopped == Ready("stop") /\ SetStage(Driver, "Stopped", "ended")

DriverStep ==
  \/ InitHook \/ SetRunning \/ RegisterUnparker \/ CheckStopping \/ Park
  \/ TerminateHook \/ SetStopped

-----------------------------------------------------------------------------
(* The other threads. *)

StopEngine(t) ==
  /\ t \in Stoppers /\ pc[t] \in {"start", "detached"}
  /\ SetStage(t, "Stopping", IF pc[t] = "start" THEN "stopped" ELSE "asked")

\* Nothing to do, or an invalid transition.  An owner whose stop is refused
\* has given its handle up for the error: it can try again, not join.
StopRefused(t) ==
  /\ t \in Stoppers /\ pc[t] \in {"start", "detached"} /\ writer = None
  /\ \/ stage \in {"Stopping", "Stopped"}
        /\ Goto(t, IF pc[t] = "start" THEN "stopped" ELSE "asked")
     \/ ~ValidTransition(stage, "Stopping") /\ stage # "Stopped"
        /\ Goto(t, IF t = Owner THEN "detached" ELSE "start")
  /\ UNCHANGED <<stage, hooked, writer, token, busVars, tickVars>>

\* EngineJoinHandle::join
Join ==
  /\ pc[Owner] = "stopped" /\ At(Owner, "idle") /\ writer # Owner
  /\ pc[Driver] = "ended" /\ At(Driver, "idle") /\ writer # Driver
  /\ Goto(Owner, "joined")
  /\ UNCHANGED <<stage, hooked, writer, token, busVars, tickVars>>

\* join() has consumed the owner's reference: the engine is dropped when
\* nobody else uses it any more.
DropEngine ==
  /\ pc[Owner] = "joined" /\ \A t \in Stoppers : pc[t] \notin {"start", "detached"}
  /\ \A t \in Threads : op[t].at \in {"idle", "await"}
  /\ DropBus
  /\ UNCHANGED <<tickVars, engineVars>>

\* A thread waits for a one-off handler of its own.
AwaitOnce(t, o) ==
  /\ Registrar[o] = t /\ Await(t, o)
  /\ UNCHANGED <<tickVars, engineVars>>

\* A thread registers one of its handlers that it has not registered yet.
RegisterHandler(t, h) ==
  /\ h \in DOMAIN Registrar /\ Registrar[h] = t /\ ~dropped
  /\ h \notin gone /\ got[h] = <<>> /\ ~Contains(subs \o once, h)
  /\ Call(t, IF h \in Onces THEN "once" ELSE "register", h)
  /\ UNCHANGED <<tickVars, engineVars>>

ThreadStep(t) ==
  \/ t = Driver /\ DriverStep
  \/ StopEngine(t) \/ StopRefused(t)
  \/ CallHandler(t) \/ Unlock(t)
  \/ BusStep(t) /\ UNCHANGED <<tickVars, engineVars>>

LoopThread == LoopStep /\ UNCHANGED <<busVars, engineVars>>

\* A parked engine waits for as long as nobody stops it.
Rest == pc[Driver] \in {"park", "ended"} /\ UNCHANGED vars

Next ==
  \/ \E t \in Threads : ThreadStep(t)
  \/ Join
  \/ \E t \in Threads, h \in Handlers \cup Onces : RegisterHandler(t, h)
  \/ \E t \in Threads, o \in Onces : AwaitOnce(t, o)
  \/ DropEngine
  \/ \E h \in Handlers : DropHandler(h) /\ UNCHANGED <<tickVars, engineVars>>
  \/ LoopThread
  \/ Rest

\* Threads are scheduled; what users do (registering, dropping) they may not do.
\* A user asks for the engine to stop sooner or later, and none keeps it
\* after that for ever.
Fairness ==
  /\ \A t \in Threads : WF_vars(ThreadStep(t))
  /\ WF_vars(Join) /\ WF_vars(DropEngine)
  /\ WF_vars(LoopThread)

Spec == Init /\ [][Next]_vars /\ Fairness

-----------------------------------------------------------------------------
(* Properties. *)

\* The driver drives the engine as the application was promised.
ImplementsLifecycle == Lifecycle!Spec

\* The events a handler is given follow each other: none of them is
\* missed or swapped, although several threads change the stage, because the
\* event is fired under the lock the stage was changed under (transition_stage).
EventsChain ==
  \A h \in Handlers :
    \A i \in 1..(Len(got[h]) - 1) : got[h][i][2] = got[h][i + 1][1]

\* An engine that was told to stop stops: the driver's thread is not
\* parked for ever, whenever the order came, and the owner's join returns;
\* and whoever waits for a one-off handler by then is told, if only that the
\* bus is gone (SubscriberOnceFuture).
StopCompletes ==
  (stage = "Stopping" \/ pc[Owner] = "stopped")
    ~> (stage = "Stopped" /\ pc[Driver] = "ended" /\ \A t \in Threads : ~At(t, "await"))
=============================================================================
