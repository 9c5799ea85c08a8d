-------------------------- MODULE DependencyGraph --------------------------
(***************************************************************************)
(* The dependency graph of the resource manager                            *)
(* (resource/manager/dependency.rs): who was loaded with the help of whom. *)
(* The update thread asks it which resources a changed file concerns.      *)
(*                                                                         *)
(* The three maps of the graph never hold an empty set (an entry is made   *)
(* by an insertion and removed with its last element), so an absent entry  *)
(* and an empty one are the same thing here: a map is a function into      *)
(* sets.  The operations are operators on graphs, so that other modules    *)
(* can apply them; the state machine below performs them in any order.     *)
(***************************************************************************)
CONSTANTS
  Keys,   \* resource keys: a resource id together with a loader
  Ids,    \* resource ids
  IdOf    \* the id of a key

ASSUME GraphAssumption == IdOf \in [Keys -> Ids]

Graphs ==
  [dependencies : [Keys -> SUBSET Keys],
   dependents   : [Keys -> SUBSET Keys],
   keyMap       : [Ids -> SUBSET Keys]]

EmptyGraph ==
  [dependencies |-> [k \in Keys |-> {}],
   dependents   |-> [k \in Keys |-> {}],
   keyMap       |-> [id \in Ids |-> {}]]

\* The dependencies of k that nothing else in the graph speaks of: k is their
\* only dependent, and they have no dependencies once k has lost its own.
Orphans(g, k) ==
  {d \in g.dependencies[k] :
     /\ g.dependents[d] \ {k} = {} /\ g.dependents[d] # {}
     /\ g.dependencies[d] = {} \/ d = k}

\* clear_dependencies: k loses its dependencies, the orphans leave the graph,
\* and k itself leaves the key map.
ClearDependencies(g, k) ==
  [dependencies |-> [g.dependencies EXCEPT ![k] = {}],
   dependents   |-> [d \in Keys |-> IF d \in g.dependencies[k]
                                    THEN g.dependents[d] \ {k} ELSE g.dependents[d]],
   keyMap       |-> [id \in Ids |-> g.keyMap[id] \ (Orphans(g, k) \cup {k})]]

\* The entries a set D of dependencies of k adds to the three maps.
Link(g, k, D) ==
  [dependencies |-> [g.dependencies EXCEPT ![k] = @ \cup D],
   dependents   |-> [d \in Keys |-> IF d \in D THEN g.dependents[d] \cup {k}
                                    ELSE g.dependents[d]],
   keyMap       |-> [id \in Ids |-> g.keyMap[id] \cup {x \in D \cup {k} : IdOf[x] = id}]]

AddDependency(g, k, d) == Link(g, k, {d})

\* set_dependencies, also builder().add() and DependencyGraphLayer::apply at
\* the end of every load: clear, then link if there is anything to link.
SetDependencies(g, k, D) ==
  IF D = {} THEN ClearDependencies(g, k) ELSE Link(ClearDependencies(g, k), k, D)

\* get: the keys that have a node.
HasNode(g, k) == g.dependencies[k] # {} \/ g.dependents[k] # {}

KeysForId(g, id) == g.keyMap[id]

NodesForId(g, id) == {k \in KeysForId(g, id) : HasNode(g, k)}

\* The keys that node.dependents().recursive() visits, as the least set that
\* is closed under "dependents".  (The iterator keeps no set of visited nodes:
\* it ends only because the graph has no cycle.)
RecursiveDependents(g, k) ==
  LET Closed(S) == g.dependents[k] \subseteq S /\ \A d \in S : g.dependents[d] \subseteq S
  IN {x \in Keys : \A S \in SUBSET Keys : Closed(S) => x \in S}

-----------------------------------------------------------------------------

VARIABLE graph

GraphInit == graph = EmptyGraph

Add(k, d) == graph' = AddDependency(graph, k, d)

Clear(k) == graph' = ClearDependencies(graph, k)

Replace(k, D) == graph' = SetDependencies(graph, k, D)

GraphNext ==
  \/ \E k, d \in Keys : Add(k, d)
  \/ \E k \in Keys : Clear(k)
  \/ \E k \in Keys, D \in SUBSET Keys : Replace(k, D)

GraphSpec == GraphInit /\ [][GraphNext]_graph

-----------------------------------------------------------------------------
(* Properties. *)

GraphTypeOK == graph \in Graphs

\* The two directions of the graph agree: the dependents map, which decides
\* what an update reaches, is the inverse of the dependencies map.
TwoWays ==
  \A k, d \in Keys : d \in graph.dependencies[k] <=> k \in graph.dependents[d]

\* What the key map lists under an id is a node of that id: keys of forgotten
\* resources do not pile up (the removal of orphans in clear_dependencies).
KeyMapSound ==
  \A id \in Ids : \A k \in graph.keyMap[id] : IdOf[k] = id /\ HasNode(graph, k)

\* Every key that has dependencies is listed under its id.  (A key without
\* any that others depend on need not be: clear_dependencies, with which a
\* replacement begins, takes it out of the map.)
DependingKeysListed ==
  \A k \in Keys : graph.dependencies[k] # {} => k \in graph.keyMap[IdOf[k]]

=============================================================================
