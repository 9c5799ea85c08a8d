------------------------------- MODULE EventBus -------------------------------
(***************************************************************************)
(* An event bus of gtether (event.rs), for one type of event.  A thread    *)
(* that fires keeps the subscribers locked for writing and the pipes of    *)
(* the one-off handlers locked for reading until the last handler has      *)
(* returned; registering a handler needs the first lock, registering the   *)
(* first one-off handler of a type upgrades the second.                    *)
(***************************************************************************)
EXTENDS Naturals, Sequences, FiniteSets, SequencesExt

CONSTANTS
  Threads,       \* the threads that fire and register
  Handlers,      \* standard handlers, each registered at most once
  WeakHandlers,  \* those registered as a Weak: they can go away
  Onces,         \* one-off handlers
  None

ASSUME EventBusAssumption ==
  /\ WeakHandlers \subseteq Handlers /\ Handlers \cap Onces = {}
  /\ None \notin Threads \cup Handlers \cup Onces

VARIABLES
  subs,      \* EventBusRegistry::subscribers of this type, in order
  gone,      \* the weak handlers that were dropped
  subLock,   \* the thread that holds subscribers.write(), or None
  readers,   \* the threads that hold once_pipes.read()
  upgrader,  \* the thread that holds once_pipes.upgradable_read(), or None
  upgrading, \* whether that thread waits for the readers to leave
  pipe,      \* whether this type has a pipe already
  once,      \* the one-off handlers in the pipe
  futures,   \* those whose SubscriberOnceFuture nobody has waited on yet
  dropped,   \* whether the bus was dropped
  op,        \* thread -> the call it makes on the bus: where it is, its argument
  todo,      \* the handlers the fire under way has still to call
  got        \* handler -> the events it was given

lockVars == <<subLock, readers, upgrader, upgrading, pipe>>
busVars == <<subs, gone, lockVars, once, futures, dropped, op, todo, got>>

Idle == [at |-> "idle", arg |-> None]
At(t, a) == op[t].at = a
Move(t, a) == op' = [op EXCEPT ![t].at = a]
Finish(t) == op' = [op EXCEPT ![t] = Idle]

BusInit ==
  /\ subs = <<>> /\ gone = {} /\ subLock = None
  /\ readers = {} /\ upgrader = None /\ upgrading = FALSE /\ pipe = FALSE /\ once = <<>>
  /\ futures = {} /\ dropped = FALSE
  /\ op = [t \in Threads |-> Idle]
  /\ todo = <<>>
  /\ got = [h \in Handlers \cup Onces |-> <<>>]

\* A thread makes a call; the calls are "fire", "register" and "once".
Call(t, call, arg) ==
  /\ At(t, "idle")
  /\ op' = [op EXCEPT ![t] = [at |-> call, arg |-> arg]]
  /\ UNCHANGED <<subs, gone, subLock, readers, upgrader, upgrading, pipe, once, todo, got, futures, dropped>>

-----------------------------------------------------------------------------
(* EventBus::fire *)

FireLock(t) ==
  /\ At(t, "fire") /\ subLock = None
  /\ subLock' = t
  /\ Move(t, "fireRead")
  /\ UNCHANGED <<subs, gone, readers, upgrader, upgrading, pipe, once, todo, got, futures, dropped>>

\* A reader does not overtake a thread that waits to write.
FireRead(t) ==
  /\ At(t, "fireRead") /\ ~upgrading
  /\ readers' = readers \cup {t}
  /\ todo' = subs
  /\ Move(t, "firing")
  /\ UNCHANGED <<subs, gone, subLock, upgrader, upgrading, pipe, once, got, futures, dropped>>

Deliver(h, t) == got' = [got EXCEPT ![h] = Append(@, op[t].arg)]

\* retain: a handler that is valid gets the event and stays.
HandleStandard(t, h) ==
  /\ At(t, "firing") /\ todo # <<>> /\ h = Head(todo) /\ h \notin gone
  /\ Deliver(h, t)
  /\ todo' = Tail(todo)
  /\ UNCHANGED <<subs, gone, subLock, readers, upgrader, upgrading, pipe, once, op, futures, dropped>>

\* One that is not valid is removed.
RemoveInvalid(t) ==
  /\ At(t, "firing") /\ todo # <<>> /\ Head(todo) \in gone
  /\ \E i \in DOMAIN subs : subs[i] = Head(todo) /\ subs' = RemoveAt(subs, i)
  /\ todo' = Tail(todo)
  /\ UNCHANGED <<gone, subLock, readers, upgrader, upgrading, pipe, once, op, got, futures, dropped>>

\* A Weak is upgraded twice, to see if it is valid and to be called: one
\* that goes away in between stays and is not called.
DroppedInBetween(t) ==
  /\ At(t, "firing") /\ todo # <<>> /\ Head(todo) \in WeakHandlers \ gone
  /\ gone' = gone \cup {Head(todo)}
  /\ todo' = Tail(todo)
  /\ UNCHANGED <<subs, subLock, readers, upgrader, upgrading, pipe, once, op, got, futures, dropped>>

\* SubscriberOncePipe::handle_event: the pipe is emptied, one handler at a time.
HandleOnce(t) ==
  /\ At(t, "firing") /\ todo = <<>> /\ once # <<>>
  /\ Deliver(Head(once), t)
  /\ once' = Tail(once)
  /\ UNCHANGED <<subs, gone, subLock, readers, upgrader, upgrading, pipe, op, todo, futures, dropped>>

FireEnd(t) ==
  /\ At(t, "firing") /\ todo = <<>> /\ once = <<>>
  /\ subLock' = None /\ readers' = readers \ {t}
  /\ Finish(t)
  /\ UNCHANGED <<subs, gone, upgrader, upgrading, pipe, once, todo, got, futures, dropped>>

-----------------------------------------------------------------------------
(* EventBusRegistry *)

Register(t) ==
  /\ At(t, "register") /\ subLock = None
  /\ subs' = Append(subs, op[t].arg)
  /\ Finish(t)
  /\ UNCHANGED <<gone, subLock, readers, upgrader, upgrading, pipe, once, todo, got, futures, dropped>>

\* register_once: upgradable_read goes beside readers, not beside another.
OnceLock(t) ==
  /\ At(t, "once") /\ upgrader = None
  /\ upgrader' = t
  /\ upgrading' = ~pipe
  /\ Move(t, "onceSend")
  /\ UNCHANGED <<subs, gone, subLock, readers, pipe, once, todo, got, futures, dropped>>

\* with_upgraded: the pipe is made once every reader has left.
OnceUpgrade(t) ==
  /\ At(t, "onceSend") /\ upgrading /\ readers = {}
  /\ pipe' = TRUE /\ upgrading' = FALSE
  /\ UNCHANGED <<subs, gone, subLock, readers, upgrader, once, op, todo, got, futures, dropped>>

OnceSend(t) ==
  /\ At(t, "onceSend") /\ pipe
  /\ once' = Append(once, op[t].arg)
  /\ futures' = futures \cup {op[t].arg}
  /\ upgrader' = None
  /\ Finish(t)
  /\ UNCHANGED <<subs, gone, subLock, readers, upgrading, pipe, todo, got, dropped>>

-----------------------------------------------------------------------------
(* SubscriberOnceFuture *)

\* wait() blocks its thread, await its task; either consumes the future.
Await(t, o) ==
  /\ At(t, "idle") /\ o \in futures
  /\ futures' = futures \ {o}
  /\ op' = [op EXCEPT ![t] = [at |-> "await", arg |-> o]]
  /\ UNCHANGED <<subs, gone, lockVars, once, dropped, todo, got>>

\* The reply follows the handler's return; with the bus the handlers that are
\* left in the pipe go, and those who wait are told SubscriberOnceError.
Answered(o) == got[o] # <<>> \/ dropped

AwaitEnds(t) ==
  /\ At(t, "await") /\ Answered(op[t].arg)
  /\ Finish(t)
  /\ UNCHANGED <<subs, gone, lockVars, once, futures, dropped, todo, got>>

DropBus ==
  /\ ~dropped /\ dropped' = TRUE /\ once' = <<>>
  /\ UNCHANGED <<subs, gone, lockVars, futures, op, todo, got>>

\* The owner of a weak handler drops it.
DropHandler(h) ==
  /\ h \in WeakHandlers \ gone
  /\ gone' = gone \cup {h}
  /\ UNCHANGED <<subs, subLock, readers, upgrader, upgrading, pipe, once, op, todo, got, futures, dropped>>

\* The steps of a call under way, except the one that calls a standard handler.
BusStep(t) ==
  \/ FireLock(t) \/ FireRead(t) \/ RemoveInvalid(t) \/ DroppedInBetween(t)
  \/ HandleOnce(t) \/ FireEnd(t)
  \/ Register(t) \/ OnceLock(t) \/ OnceUpgrade(t) \/ OnceSend(t) \/ AwaitEnds(t)

=============================================================================
