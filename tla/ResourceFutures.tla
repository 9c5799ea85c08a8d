--------------------------- MODULE ResourceFutures ---------------------------
(***************************************************************************)
(* The futures that users of the resource manager await                    *)
(* (resource/manager/future.rs).  A future begins by asking for the        *)
(* resource, which ResourceCache describes; when that fails in a way that  *)
(* its next fallback is for, it goes on with this one: another resource,   *)
(* or a default, which is loaded into the same entry of the cache in place *)
(* of the error (Cache::load_default).                                     *)
(*                                                                         *)
(* The other resource is as simple as can be: nothing changes it, and to   *)
(* ask for it yields it or fails at once.                                  *)
(***************************************************************************)
EXTENDS ResourceCache

CONSTANTS
  Default,    \* what a default is made of; no source has it
  Fallbacks   \* user -> its fallbacks, the one that is tried first coming first

ASSUME FallbacksAssumption ==
  /\ Default \in Contents /\ \A s \in Sources : First[s] # Default
  /\ \A u \in Users : Fallbacks[u] \in
       Seq([what : {"other", "default"}, retryIf : {"NotFound", "ReadError", "All"}])

VARIABLES
  adapter,   \* user -> the adapter it polls: 0, or the number of a fallback
  failed,    \* the users whose adapter has failed, and is to be replaced
  gotOther,  \* the users that hold the other resource
  other,     \* is there another resource?
  strayed    \* auxiliary: the task that registered the last watches had been
             \* cancelled, or was before it had written what it watched for

futureVars == <<vars, adapter, failed, gotOther, other, strayed>>

\* The adapters a future is composed with: or_get(), or_get_with_loader() ...
OrGet(retryIf) == [what |-> "other", retryIf |-> retryIf]

\* ... and or_default(), or_loader_default() or or_default_with(), which
\* differ in who makes the default.
OrDefault(retryIf) == [what |-> "default", retryIf |-> retryIf]

\* RetryIf::check_result.  No source yields data that cannot be read.
Retries(retryIf) == retryIf \in {"NotFound", "All"}

\* A fallback that is not for the error passes it on to the one around it.
Suitable(u) == {i \in adapter[u] + 1 .. Len(Fallbacks[u]) : Retries(Fallbacks[u][i].retryIf)}

NextFallback(u) == CHOOSE i \in Suitable(u) : \A j \in Suitable(u) : i <= j

At(u) == IF adapter[u] = 0 THEN "primary" ELSE Fallbacks[u][adapter[u]].what

-----------------------------------------------------------------------------
(* Polling an adapter. *)

\* An adapter is ready: the future is, unless there is a fallback to go on
\* with, or has been dropped.
Ends(u) ==
  IF Suitable(u) # {} THEN failed' = failed \cup {u} /\ UNCHANGED adapter
  ELSE adapter' = [adapter EXCEPT ![u] = 0] /\ UNCHANGED failed

\* The outcome of asking the entry.  (future' tells it: an error ends the
\* adapter, and a resource is held.)
Outcome(u) ==
  /\ IF future'[u] = "idle" THEN Ends(u) ELSE UNCHANGED <<adapter, failed>>
  /\ UNCHANGED <<gotOther, other>>

Asking(u) == u \notin failed \cup gotOther

\* ResourceManager::get_*, and the first polls.
GetPrimary(u) == adapter[u] = 0 /\ Asking(u) /\ Get(u) /\ Outcome(u)

PollPrimary(u) == adapter[u] = 0 /\ Asking(u) /\ Poll(u) /\ Outcome(u)

\* What a new load finds in place of a resource: nothing, an expired one, or
\* an error if that does not count (force_retry).
Reloads(retry) ==
  \/ entry.kind = "none" \/ (entry.kind = "value" /\ ~Alive(entry.obj))
  \/ retry /\ entry.kind = "error"
  \/ retry /\ entry.kind = "loading" /\ task[entry.task].phase = "failed"

\* Mutant: nobody watches for the resource that the default stands in for.
DefaultUnwatched(u, st, retry) ==
  /\ Reloads(retry)
  /\ \E x \in Tasks : IsFree(x)
  /\ entry' = [kind |-> "loading", obj |-> None, task |-> NewTask, wakers |-> {u}]
  /\ task' = [(IF entry.task = None THEN task ELSE Without(entry.task)) EXCEPT
                ![NewTask] = [Free EXCEPT !.phase = "loadParse", !.at = NumSources, !.data = Default]]
  /\ future' = [future EXCEPT ![u] = st]
  /\ UNCHANGED <<value, held>>

\* start_load_task with load_default_fn: every source watches, none is asked.
StartDefault(u, st, retry) ==
  /\ Reloads(retry)
  /\ \E x \in Tasks : IsFree(x)
  /\ entry' = [kind |-> "loading", obj |-> None, task |-> NewTask, wakers |-> {u}]
  /\ task' = [(IF entry.task = None THEN task ELSE Without(entry.task)) EXCEPT
                ![NewTask] = [Free EXCEPT !.phase = "loadWatch", !.at = NumSources, !.data = Default]]
  /\ future' = [future EXCEPT ![u] = st]
  /\ UNCHANGED <<value, held>>

\* AdapterState::poll goes on to the next adapter, has itself woken, and is
\* pending; into_adapter asks for the fallback.
NextAdapter(u) ==
  /\ u \in failed
  /\ failed' = failed \ {u}
  /\ adapter' = [adapter EXCEPT ![u] = NextFallback(u)]

\* Cache::load_default.
LoadDefault(u) ==
  /\ NextAdapter(u) /\ Fallbacks[u][NextFallback(u)].what = "default"
  /\ \/ TakeResource(u)
     \/ StartDefault(u, "woken", TRUE)
     \/ /\ NotReady
        /\ entry' = [entry EXCEPT !.wakers = @ \cup {u}]
        /\ future' = [future EXCEPT ![u] = "woken"]
        /\ UNCHANGED <<value, task, held>>
  /\ UNCHANGED <<sourceVars, watched, channel, meta, gotOther, other>>

\* The future of a default waits like any other, but when its resource has
\* expired it makes a default again.
PollDefault(u) ==
  /\ At(u) = "default" /\ Asking(u) /\ future[u] = "woken"
  /\ \/ TakeResource(u) \/ TakeError(u) \/ StartDefault(u, "waiting", FALSE)
     \/ /\ NotReady
        /\ future' = [future EXCEPT ![u] = "waiting"]
        /\ UNCHANGED <<entry, value, task, held>>
  /\ UNCHANGED <<sourceVars, watched, channel, meta>>
  /\ Outcome(u)

\* or_get: the other resource is asked for, and the next poll has the answer.
GetOther(u) ==
  /\ NextAdapter(u) /\ Fallbacks[u][NextFallback(u)].what = "other"
  /\ future' = [future EXCEPT ![u] = "woken"]
  /\ UNCHANGED <<sourceVars, watched, channel, meta, entry, value, task, held, gotOther, other>>

PollOther(u) ==
  /\ At(u) = "other" /\ Asking(u) /\ future[u] = "woken"
  /\ future' = [future EXCEPT ![u] = "idle"]
  /\ IF other THEN gotOther' = gotOther \cup {u} /\ UNCHANGED <<adapter, failed>>
     ELSE Ends(u) /\ UNCHANGED gotOther
  /\ UNCHANGED <<sourceVars, watched, channel, meta, entry, value, task, held, other>>

-----------------------------------------------------------------------------
(* The user is done. *)

Done(u) ==
  /\ adapter' = [adapter EXCEPT ![u] = 0]
  /\ failed' = failed \ {u}
  /\ gotOther' = gotOther \ {u}
  /\ UNCHANGED other

DropAwaited(u) == At(u) # "other" /\ DropFuture(u) /\ Done(u)

ReleaseResource(u) == Release(u) /\ Done(u)

ReleaseOther(u) == u \in gotOther /\ Done(u) /\ UNCHANGED vars

UserStep(u) ==
  \/ GetPrimary(u) \/ PollPrimary(u) \/ LoadDefault(u) \/ PollDefault(u)
  \/ GetOther(u) \/ PollOther(u)
  \/ DropAwaited(u) \/ ReleaseResource(u) \/ ReleaseOther(u)

\* An update is cancelled that has registered watches and not yet written.
CutShort == \E t \in Tasks : task[t].phase = "write" /\ ~task[t].cancelled /\ task'[t].cancelled

CacheStep ==
  /\ \/ /\ \E s \in Sources, c \in (Contents \ {Default}) \cup {None} : Change(s, c)
        /\ UNCHANGED strayed
     \/ Receive /\ strayed' = (strayed \/ CutShort)
     \/ \E t \in Tasks :
          /\ TaskStep(t)
          /\ strayed' = IF task[t].phase \in {"loadWatch", "watch"} THEN task[t].cancelled ELSE strayed
  /\ UNCHANGED <<adapter, failed, gotOther, other>>

FuturesInit ==
  /\ Init
  /\ adapter = [u \in Users |-> 0] /\ failed = {} /\ gotOther = {}
  /\ other \in BOOLEAN /\ strayed = FALSE

FuturesNext == CacheStep \/ \E u \in Users : UserStep(u) /\ UNCHANGED strayed

FuturesSpec == FuturesInit /\ [][FuturesNext]_futureVars

-----------------------------------------------------------------------------
(* Properties. *)

\* A default is only a stand-in: when somebody holds one, nothing is under way
\* and no source has the resource, then all of them watch for it, unless a
\* cancelled task has had a say in who watches.  (Which data may take the
\* place of the default depends on what the resource was made of before: see
\* ValidForUpdate.)
DefaultsGiveWay ==
  \A u \in Users :
    (Settled /\ held[u] # None /\ value[held[u]] = Default /\ ~\E s \in Sources : Has(s))
      => watched = Sources \/ strayed
=============================================================================
