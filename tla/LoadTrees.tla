------------------------------ MODULE LoadTrees ------------------------------
(***************************************************************************)
(* Loads that ask for other resources (resource/manager/load.rs,           *)
(* ResourceLoadContext).  A user's request begins a tree of loads.  Each   *)
(* load knows the keys it was started under, so that none waits for one of *)
(* them; but a load that another tree has started is joined as it is.      *)
(* What the loads of a tree got is kept until the tree has ended, and      *)
(* becomes the dependencies of a resource once its load's result is taken. *)
(*                                                                         *)
(* What data a loader finds, and so what it asks for and whether it        *)
(* succeeds, is left open.  No resource changes here (ResourceUpdates) and *)
(* no value keeps those it was made from.                                  *)
(***************************************************************************)
CONSTANTS
  Entries,   \* an id and its loader, each
  Askers,     \* each makes one request, which names a tree
  Wants,     \* a function: key -> the keys its loader may ask for
  Tolerant,  \* the keys whose loaders go on when they are refused one
  AtOnce,    \* the keys whose loaders ask for the next before they have the last;
             \* the others await each before they ask again, fail or return
  Nobody     \* none of the keys

ASSUME TreesAssumption ==
  /\ Wants \in [Entries -> SUBSET Entries]
  /\ Tolerant \subseteq Entries /\ AtOnce \subseteq Entries
  /\ Nobody \notin Entries

VARIABLES
  status,   \* key -> "none", "loading", "value" or "error"
  load,     \* key -> the load of its entry: its tree, the keys it is under,
            \* what its loader has yet to ask for, what it waits for and what
            \* it got, its result, and (for the properties) who asked for it
  user,     \* user -> where its request is: "away", "waiting", "holds", "done"
  request,  \* user -> the key it asks for
  cached,   \* tree -> ResourceLoadContext::resource_cache
  depends   \* key -> its dependencies in the graph

treeVars == <<status, load, user, request, cached, depends>>

NoLoad == [tree |-> Nobody, parents |-> {}, todo |-> {}, futures |-> {}, deps |-> {},
           result |-> "none", under |-> Nobody]

Running(k) == load[k].result = "running"

\* The cache of a tree lives as long as a future or a context refers to it.
TreeLives(u) == user[u] = "waiting" \/ \E k \in Entries : Running(k) /\ load[k].tree = u

Referred(k) == \E u \in Askers :
  (user[u] = "holds" /\ request[u] = k) \/ (TreeLives(u) /\ k \in cached[u])

-----------------------------------------------------------------------------
(* Asking for a key, and each poll of the future (CacheEntryTyped::poll). *)

Pending(k) == Running(k)

Missing(k) == status[k] = "none" \/ (status[k] = "value" /\ ~Referred(k))

Refused(k) == status[k] = "error" \/ load[k].result = "failed"

Ready(k) == ~Pending(k) /\ ~Missing(k) /\ ~Refused(k)

\* create_load_task, polled at once.
NewLoad(k, tree, parents, under) ==
  [NoLoad EXCEPT !.tree = tree, !.parents = parents, !.under = under,
                 !.todo = Wants[k], !.result = "running"]

\* get_or_load: start a load, or take the result of one that has ended, with
\* which its dependencies enter the graph.  l is load, as the asker leaves it.
Fetch(k, tree, parents, under, l) ==
  /\ load' = IF Missing(k) THEN [l EXCEPT ![k] = NewLoad(k, tree, parents, under)]
             ELSE IF Pending(k) THEN l ELSE [l EXCEPT ![k] = NoLoad]
  /\ status' = [status EXCEPT ![k] =
       IF Missing(k) \/ Pending(k) THEN "loading" ELSE IF Ready(k) THEN "value" ELSE "error"]
  /\ depends' = IF load[k].result = "made" THEN [depends EXCEPT ![k] = load[k].deps] ELSE depends

\* A user asks the manager, or polls its future again.
Request(u, k) ==
  /\ user[u] = "away" \/ (user[u] = "waiting" /\ request[u] = k /\ ~Pending(k))
  /\ Fetch(k, u, {}, Nobody, load)
  /\ user' = [user EXCEPT ![u] =
       IF Ready(k) THEN "holds" ELSE IF Refused(k) THEN "done" ELSE "waiting"]
  /\ request' = [request EXCEPT ![u] = k]
  /\ UNCHANGED cached

Forget(u) ==
  /\ user[u] = "holds"
  /\ user' = [user EXCEPT ![u] = "done"]
  /\ UNCHANGED <<status, load, request, cached, depends>>

-----------------------------------------------------------------------------
(* The loader of k. *)

\* A load only knows the key it loads (a plausible bug).
ParentsForgotten(k) == {k}

\* The keys that a load started by the loader of k is under.
Parents(k) == load[k].parents \cup {k}

\* d is out of the way for the loader of k.
DoneWith(d, k) == [load[k] EXCEPT !.todo = @ \ {d}, !.futures = @ \ {d}]

\* The loader gives up, and drops the futures it still has, or goes on.
AfterRefusal(k, l) ==
  IF k \in Tolerant THEN l ELSE [l EXCEPT !.futures = {}, !.result = "failed"]

\* The loader of k does not wait where it is.
NotWaiting(k) == k \in AtOnce \/ load[k].futures = {}

\* ResourceLoadContext::get_with_loader: a key this load is under is refused.
RefuseCycle(k, d) ==
  /\ Running(k) /\ NotWaiting(k) /\ d \in load[k].todo /\ d \in Parents(k)
  /\ load' = [load EXCEPT ![k] = AfterRefusal(k, DoneWith(d, k))]
  /\ UNCHANGED <<status, user, request, cached, depends>>

\* It asks for d, or polls the future: ResourceFuture::poll keeps what it got.
Ask(k, d) ==
  LET asked == [load EXCEPT ![k] =
        IF Ready(d) THEN [DoneWith(d, k) EXCEPT !.deps = @ \cup {d}]
        ELSE IF Refused(d) THEN AfterRefusal(k, DoneWith(d, k))
        ELSE [DoneWith(d, k) EXCEPT !.futures = @ \cup {d}]]
      tree == load[k].tree
  IN /\ Running(k)
     /\ \/ NotWaiting(k) /\ d \in load[k].todo \ Parents(k)
        \/ d \in load[k].futures /\ ~Pending(d)
     /\ Fetch(d, tree, Parents(k), k, asked)
     /\ cached' = IF Ready(d) THEN [cached EXCEPT ![tree] = @ \cup {d}] ELSE cached
     /\ UNCHANGED <<user, request>>

\* The loader returns.  It may not have asked for all it might, but it awaits
\* what it asked for, unless it fails.
Return(k, result) ==
  /\ Running(k) /\ NotWaiting(k) /\ (result = "made" => load[k].futures = {})
  /\ load' = [load EXCEPT ![k].todo = {}, ![k].futures = {}, ![k].result = result]
  /\ UNCHANGED <<status, user, request, cached, depends>>

-----------------------------------------------------------------------------
TreesInit ==
  /\ status = [k \in Entries |-> "none"] /\ load = [k \in Entries |-> NoLoad]
  /\ user = [u \in Askers |-> "away"] /\ request = [u \in Askers |-> Nobody]
  /\ cached = [u \in Askers |-> {}] /\ depends = [k \in Entries |-> {}]

TreesNext ==
  \/ \E u \in Askers, k \in Entries : Request(u, k)
  \/ \E u \in Askers : Forget(u)
  \/ \E k, d \in Entries : RefuseCycle(k, d)
  \/ \E k, d \in Entries : Ask(k, d)
  \/ \E k \in Entries, result \in {"made", "failed"} : Return(k, result)

TreesSpec == TreesInit /\ [][TreesNext]_treeVars

-----------------------------------------------------------------------------
\* What k reaches in one or more steps, where ahead[i] is what i reaches
\* in one: the least set that is closed under that.
Reached(ahead, k) ==
  LET Closed(S) == ahead[k] \subseteq S /\ \A i \in S : ahead[i] \subseteq S
  IN {j \in Entries : \A S \in SUBSET Entries : Closed(S) => j \in S}

\* The loads that the load of k waits for, itself or through others.
WaitsFor(k) == Reached([i \in Entries |-> {d \in load[i].futures : Pending(d)}], k)

\* The keys whose loaders started the load of k, or the load that did.
StartedUnder(k) == Reached([i \in Entries |-> {load[i].under} \ {Nobody}], k)

\* Two loads that were started apart, neither for the other: for two requests,
\* or for one when a loader above them asks for several at once.
Apart(i, j) ==
  /\ i # j /\ j \notin StartedUnder(i) /\ i \notin StartedUnder(j)
  /\ \/ load[i].tree # load[j].tree
     \/ (StartedUnder(i) \cup StartedUnder(j)) \cap AtOnce # {}

\* Loads wait for one another in a circle only if two of them were started
\* apart: the check for cycles (load.rs:212) leaves no circle in the tree of one
\* request unless a loader in it asks for several resources at once, whoever
\* started or restarted its parts.  (A circle of two requests, or of what one
\* loader asks for at once, is not found, and never ends.)
CirclesCross ==
  \A k \in Entries : k \in WaitsFor(k) =>
    \E i, j \in {j \in WaitsFor(k) : k \in WaitsFor(j)} : Apart(i, j)
=============================================================================
