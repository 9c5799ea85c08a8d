------------------------------- MODULE TickLoop -------------------------------
(***************************************************************************)
(* A threaded tick loop (util/tick_loop.rs) and the handle that stops it.  *)
(* Time is what passes between the start of one tick and the start of the  *)
(* next; MaxTick bounds how long a tick takes, MaxLate how long after its  *)
(* slot the thread wakes from the sleep, or gets to run at all.            *)
(***************************************************************************)
EXTENDS Integers, FiniteSetsExt

CONSTANTS
  TickTypes,  \* the configurations tried: <<"rate", period>>, <<"minDuration", period>>
  MaxTick, MaxLate

\* A rate has a period: from a rate of zero next_tick makes none.
ASSUME TickAssumption ==
  /\ TickTypes \subseteq ({"rate"} \X (Nat \ {0})) \cup ({"minDuration"} \X Nat)
  /\ MaxTick \in Nat /\ MaxLate \in Nat

VARIABLES
  tickType,   \* TickLoop::tick_type
  loop,       \* where the loop's thread is
  spawner,    \* where the thread that spawns, and later drops the handle, is
  result,     \* the result of init handed over under the mutex, or "none"
  exit,       \* should_exit
  gap,        \* what lies between the start of the last tick and of the next
  lateTicks   \* the ticks that started after should_exit was set

tickVars == <<tickType, loop, spawner, result, exit, gap, lateTicks>>

NoSlot == -1

\* TickType::next_tick - last_tick, when s has passed since the last tick started.
NextTick(s) ==
  LET period == tickType[2]
  IN IF tickType[1] = "rate"
     THEN Min({ k * period : k \in 1..(s \div period + 1) } \ 0..(s - 1))
     ELSE IF period > s THEN period ELSE NoSlot

TickInit ==
  /\ tickType \in TickTypes
  /\ loop = "none" /\ spawner = "idle" /\ result = "none"
  /\ exit = FALSE /\ gap = 0 /\ lateTicks = 0

\* TickLoop::spawn: start the thread and wait for its init.
SpawnLoop ==
  /\ spawner = "idle"
  /\ spawner' = "waiting" /\ loop' = "init"
  /\ UNCHANGED <<tickType, result, exit, gap, lateTicks>>

\* fn_init yields data or an error, and the spawner is notified.
LoopInit(res) ==
  /\ loop = "init"
  /\ result' = res
  /\ loop' = IF res = "ok" THEN "start" ELSE "ended"
  /\ UNCHANGED <<tickType, spawner, exit, gap, lateTicks>>

\* The spawner has the handle, or the error and no handle.
TakeResult ==
  /\ spawner = "waiting" /\ result # "none"
  /\ spawner' = IF result = "ok" THEN "holds" ELSE "refused"
  /\ result' = "none"
  /\ UNCHANGED <<tickType, loop, exit, gap, lateTicks>>

\* The next tick starts in its slot, at once if that has passed.
Schedule(s) == gap' = Max({s, NextTick(s)})

StartLoop ==
  /\ loop = "start"
  /\ loop' = "check" /\ Schedule(0)
  /\ UNCHANGED <<tickType, spawner, result, exit, lateTicks>>

\* Mutant: should_exit is never looked at.
CheckNothing ==
  /\ loop = "check"
  /\ loop' = "sleep"
  /\ UNCHANGED <<tickType, spawner, result, exit, gap, lateTicks>>

CheckLoopExit ==
  /\ loop = "check"
  /\ loop' = IF exit THEN "ended" ELSE "sleep"
  /\ UNCHANGED <<tickType, spawner, result, exit, gap, lateTicks>>

\* The sleep, if there was one, is over at the earliest at the slot; should_exit
\* is not looked at again.
Tick(late) ==
  /\ loop = "sleep"
  /\ loop' = "tick" /\ gap' = gap + late
  /\ lateTicks' = IF exit THEN lateTicks + 1 ELSE lateTicks
  /\ UNCHANGED <<tickType, spawner, result, exit>>

\* fn_tick has returned after s: go on, or stop because it said so.
TickDone(s, more) ==
  /\ loop = "tick"
  /\ IF more THEN loop' = "check" /\ Schedule(s) ELSE loop' = "ended" /\ UNCHANGED gap
  /\ UNCHANGED <<tickType, spawner, result, exit, lateTicks>>

\* Drop for TickLoopHandle.
DropHandle ==
  /\ spawner = "holds"
  /\ exit' = TRUE /\ spawner' = "joining"
  /\ UNCHANGED <<tickType, loop, result, gap, lateTicks>>

JoinLoop ==
  /\ spawner = "joining" /\ loop = "ended"
  /\ spawner' = "joined"
  /\ UNCHANGED <<tickType, loop, result, exit, gap, lateTicks>>

LoopStep ==
  \/ \E res \in {"ok", "err"} : LoopInit(res)
  \/ StartLoop \/ CheckLoopExit
  \/ \E late \in 0..MaxLate : Tick(late)
  \/ \E s \in 0..MaxTick, more \in BOOLEAN : TickDone(s, more)

-----------------------------------------------------------------------------
(* Properties. *)

\* No tick starts out of time.  Once the handle is dropped the loop runs at most
\* the tick it slept for, and none at all once the drop has returned
\* (TickLoopHandle::drop).  However long a tick took and however late the thread
\* woke, the next tick starts at least one period after the last one started: no
\* burst of ticks makes up for a slow one; and at a fixed rate the slot it sleeps
\* for is a whole number of periods after that start (TickType::next_tick).
TicksInTime ==
  /\ lateTicks <= 1
  /\ spawner = "joined" => loop = "ended"
  /\ loop \in {"check", "sleep", "tick"} => gap >= tickType[2]
  /\ loop \in {"check", "sleep"} /\ tickType[1] = "rate" => gap % tickType[2] = 0
=============================================================================
