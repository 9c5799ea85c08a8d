------------------------ MODULE ResourceGraphProofs ------------------------
(***************************************************************************)
(* Proofs about what several resources of the manager have to do with each *)
(* other, for any keys, ids and sources: DependencyGraph, ResourceUpdates  *)
(* and LoadTrees.                                                          *)
(*                                                                         *)
(* The graph: the key map is sound because the two directions agree, for   *)
(* an orphan is recognised by its dependents.                              *)
(*                                                                         *)
(* Updates: what loads and updates record keeps the graph sound, and what  *)
(* the update thread has asked it for covers what depends on a reported    *)
(* resource until the updates start, whoever records or ends in between.   *)
(*                                                                         *)
(* Loads that ask for others: a load that was started for another is under *)
(* all that the other is under, as long as either of them goes on.         *)
(***************************************************************************)
EXTENDS ResourceUpdates, LoadTrees, WellFoundedInduction, TLAPS

-----------------------------------------------------------------------------
(* Numbers.                                                                 *)

\* A set of natural numbers that is not empty has a least element.
LEMMA LeastNumber ==
  ASSUME NEW T \in SUBSET Nat, T # {}
  PROVE  \E n \in T : \A m \in T : n <= m
<1> DEFINE R == OpToRel(<, Nat)
<1>1. PICK n \in T : \A m \in T : ~ (<<m, n>> \in R)
  <2>1. IsWellFoundedOn(R, Nat)
    BY NatLessThanWellFounded
  <2> HIDE DEF R
  <2> QED
    BY <2>1, WFMin
<1>2. \A m, q \in Nat : m < q => <<m, q>> \in R
  BY DEF OpToRel
<1>3. \A m \in T : n <= m
  <2> HIDE DEF R
  <2> SUFFICES ASSUME NEW m \in T
               PROVE  n <= m
    OBVIOUS
  <2>1. ~ (m < n)
    BY <1>1, <1>2
  <2> QED
    BY <2>1
<1> QED
  BY <1>3

-----------------------------------------------------------------------------
(* The dependency graph.                                                    *)

\* The part of the invariant that is about one graph value.
WellFormed(g) ==
  /\ g \in Graphs
  /\ \A k, d \in Keys : d \in g.dependencies[k] <=> k \in g.dependents[d]
  /\ \A id \in Ids : \A k \in g.keyMap[id] : IdOf[k] = id /\ HasNode(g, k)
  /\ \A k \in Keys : g.dependencies[k] # {} => k \in g.keyMap[IdOf[k]]

\* Clearing the dependencies of a key keeps a graph well formed
\* (clear_dependencies).
LEMMA ClearKeepsWellFormed ==
  ASSUME NEW g, WellFormed(g), NEW k \in Keys
  PROVE  WellFormed(ClearDependencies(g, k))
<1> DEFINE h == ClearDependencies(g, k)
<1>1. h \in Graphs
  BY DEF ClearDependencies, Graphs, WellFormed
<1>2. \A x \in Keys : h.dependencies[x] = IF x = k THEN {} ELSE g.dependencies[x]
  BY DEF ClearDependencies, WellFormed, Graphs
<1>3. \A x \in Keys : h.dependents[x] = g.dependents[x] \ {k}
  BY DEF ClearDependencies, WellFormed, Graphs
<1>4. \A id \in Ids : h.keyMap[id] = g.keyMap[id] \ (Orphans(g, k) \cup {k})
  BY DEF ClearDependencies, WellFormed, Graphs
<1> HIDE DEF h
<1>5. \A x, d \in Keys : d \in h.dependencies[x] <=> x \in h.dependents[d]
  BY <1>2, <1>3 DEF WellFormed
<1>6. ASSUME NEW id \in Ids, NEW x \in h.keyMap[id]
      PROVE  IdOf[x] = id /\ HasNode(h, x)
  <2>1. x \in Keys /\ x \in g.keyMap[id] /\ x # k /\ x \notin Orphans(g, k)
    BY <1>4 DEF WellFormed, Graphs
  <2>2. IdOf[x] = id /\ HasNode(g, x)
    BY <2>1 DEF WellFormed
  <2>3. HasNode(h, x)
    <3>1. CASE g.dependencies[x] # {}
      BY <3>1, <2>1, <1>2 DEF HasNode
    <3>2. CASE g.dependencies[x] = {} /\ x \in g.dependencies[k]
      BY <3>2, <2>1, <2>2, <1>3 DEF HasNode, Orphans
    <3>3. CASE g.dependencies[x] = {} /\ x \notin g.dependencies[k]
      <4>1. k \notin g.dependents[x]
        BY <3>3, <2>1 DEF WellFormed
      <4>2. QED  BY <3>3, <4>1, <2>1, <2>2, <1>3 DEF HasNode
    <3>4. QED  BY <3>1, <3>2, <3>3
  <2>4. QED  BY <2>2, <2>3
<1>7. ASSUME NEW x \in Keys, h.dependencies[x] # {}
      PROVE  x \in h.keyMap[IdOf[x]]
  <2>1. x # k /\ g.dependencies[x] # {}
    BY <1>2, <1>7
  <2>2. x \in g.keyMap[IdOf[x]] /\ x \notin Orphans(g, k)
    BY <2>1 DEF WellFormed, Orphans
  <2>3. QED  BY <2>1, <2>2, <1>4, GraphAssumption
<1>8. WellFormed(h)
  BY <1>1, <1>5, <1>6, <1>7 DEF WellFormed
<1>9. QED  BY <1>8 DEF h

\* Linking dependencies to a key keeps a graph well formed (add_dependency,
\* and the insertions of set_dependencies).
LEMMA LinkKeepsWellFormed ==
  ASSUME NEW g, WellFormed(g), NEW k \in Keys, NEW D \in SUBSET Keys, D # {}
  PROVE  WellFormed(Link(g, k, D))
<1> DEFINE h == Link(g, k, D)
<1>1. h \in Graphs
  BY DEF Link, Graphs, WellFormed
<1>2. \A x, d \in Keys :
        d \in h.dependencies[x] <=> d \in g.dependencies[x] \/ (x = k /\ d \in D)
  BY DEF Link, WellFormed, Graphs
<1>3. \A x, d \in Keys :
        x \in h.dependents[d] <=> x \in g.dependents[d] \/ (x = k /\ d \in D)
  BY DEF Link, WellFormed, Graphs
<1>4. \A id \in Ids : h.keyMap[id] = g.keyMap[id] \cup {x \in D \cup {k} : IdOf[x] = id}
  BY DEF Link, WellFormed, Graphs
<1> HIDE DEF h
<1>5. \A x, d \in Keys : d \in h.dependencies[x] <=> x \in h.dependents[d]
  BY <1>2, <1>3 DEF WellFormed
<1>6. ASSUME NEW id \in Ids, NEW x \in h.keyMap[id]
      PROVE  IdOf[x] = id /\ HasNode(h, x)
  <2>1. CASE x \in g.keyMap[id]
    <3>1. x \in Keys /\ IdOf[x] = id /\ HasNode(g, x)
      BY <2>1 DEF WellFormed, Graphs
    <3>2. PICK y \in Keys : y \in g.dependencies[x] \/ y \in g.dependents[x]
      BY <3>1 DEF HasNode, WellFormed, Graphs
    <3>3. QED  BY <3>1, <3>2, <1>2, <1>3 DEF HasNode
  <2>2. CASE x \in D \cup {k} /\ IdOf[x] = id
    <3>1. PICK d \in D : d \in h.dependencies[k] /\ \A y \in D : k \in h.dependents[y]
      BY <1>2, <1>3
    <3>2. QED  BY <2>2, <3>1 DEF HasNode
  <2>3. QED  BY <2>1, <2>2, <1>4
<1>7. ASSUME NEW x \in Keys, h.dependencies[x] # {}
      PROVE  x \in h.keyMap[IdOf[x]]
  <2>1. PICK d \in Keys : d \in h.dependencies[x]
    BY <1>1, <1>7 DEF Graphs
  <2>2. CASE x = k
    BY <2>2, <1>4, GraphAssumption
  <2>3. CASE x # k
    <3>1. x \in g.keyMap[IdOf[x]]
      BY <2>1, <2>3, <1>2 DEF WellFormed
    <3>2. QED  BY <3>1, <1>4, GraphAssumption
  <2>4. QED  BY <2>2, <2>3
<1>8. WellFormed(h)
  BY <1>1, <1>5, <1>6, <1>7 DEF WellFormed
<1>9. QED  BY <1>8 DEF h

\* Both together: set_dependencies.
LEMMA SetKeepsWellFormed ==
  ASSUME NEW g, WellFormed(g), NEW k \in Keys, NEW D \in SUBSET Keys
  PROVE  WellFormed(SetDependencies(g, k, D))
BY ClearKeepsWellFormed, LinkKeepsWellFormed DEF SetDependencies

LEMMA EmptyIsWellFormed == WellFormed(EmptyGraph)
BY GraphAssumption DEF WellFormed, EmptyGraph, Graphs

\* Every graph that any sequence of operations can build is well formed.
THEOREM AlwaysWellFormed == GraphSpec => []WellFormed(graph)
<1>1. GraphInit => WellFormed(graph)
  BY EmptyIsWellFormed DEF GraphInit
<1>2. WellFormed(graph) /\ [GraphNext]_graph => WellFormed(graph)'
  <2> SUFFICES ASSUME WellFormed(graph), [GraphNext]_graph
               PROVE  WellFormed(graph')
    OBVIOUS
  <2>1. CASE \E k, d \in Keys : Add(k, d)
    BY <2>1, LinkKeepsWellFormed DEF Add, AddDependency
  <2>2. CASE \E k \in Keys : Clear(k)
    BY <2>2, ClearKeepsWellFormed DEF Clear
  <2>3. CASE \E k \in Keys, D \in SUBSET Keys : Replace(k, D)
    BY <2>3, SetKeepsWellFormed DEF Replace
  <2>4. CASE UNCHANGED graph
    BY <2>4
  <2>5. QED  BY <2>1, <2>2, <2>3, <2>4 DEF GraphNext
<1>3. QED  BY <1>1, <1>2, PTL DEF GraphSpec

\* The graph always has its type.
THEOREM GraphTypeCorrect == GraphSpec => []GraphTypeOK
<1>1. WellFormed(graph) => GraphTypeOK
  BY DEF WellFormed, GraphTypeOK
<1>2. QED  BY <1>1, AlwaysWellFormed, PTL

\* The dependents map is always the inverse of the dependencies map.
THEOREM DirectionsAgree == GraphSpec => []TwoWays
<1>1. WellFormed(graph) => TwoWays
  BY DEF WellFormed, TwoWays
<1>2. QED  BY <1>1, AlwaysWellFormed, PTL

\* The key map never lists a key that the graph has forgotten, and always
\* lists the keys that have dependencies.
THEOREM KeyMapIsSound == GraphSpec => [](KeyMapSound /\ DependingKeysListed)
<1>1. WellFormed(graph) => KeyMapSound /\ DependingKeysListed
  BY DEF WellFormed, KeyMapSound, DependingKeysListed
<1>2. QED  BY <1>1, AlwaysWellFormed, PTL

-----------------------------------------------------------------------------
(* Updates.                                                                 *)

\* A load or an update that has its result replaces the dependencies of its key,
\* and no other step touches the graph.
LEMMA GraphSteps ==
  ASSUME [Next]_resourceVars
  PROVE  \/ graph' = graph
         \/ \E k \in Keys : (Loaded(k) \/ Apply(k)) /\ \E D \in SUBSET Keys : graph' = Applied(k, D)
<1>1. CASE UNCHANGED resourceVars
  BY <1>1 DEF resourceVars
<1>2. ASSUME NEW f \in Files, NEW id \in Ids, NEW h \in Hashes \cup {None}, ChangeFile(f, id, h)
      PROVE  graph' = graph
  BY <1>2 DEF ChangeFile
<1>3. ASSUME NEW f \in Files, NEW place \in 0 .. MaxIndex, InsertSource(f, place)
      PROVE  graph' = graph
  BY <1>3 DEF InsertSource
<1>4. ASSUME NEW place \in 0 .. MaxIndex, RemoveSource(place)
      PROVE  graph' = graph
  BY <1>4 DEF RemoveSource
<1>5. ASSUME NEW k \in Keys, Loaded(k) \/ Apply(k)
      PROVE  \E D \in SUBSET Keys : graph' = Applied(k, D)
  BY <1>5 DEF Loaded, Apply
<1>6. ASSUME NEW k \in Keys,
             Load(k) \/ Expire(k) \/ Find(k) \/ Note(k) \/ WatchLoaded(k) \/ Write(k) \/ Outlived(k)
      PROVE  graph' = graph
  BY <1>6 DEF Load, Expire, Find, Note, WatchLoaded, Write, Outlived
<1>7. ASSUME NEW l \in late, WatchLate(l[1], l[2])
      PROVE  graph' = graph
  BY <1>7 DEF WatchLate
<1>8. CASE UpdateThread
  BY <1>8 DEF UpdateThread, Receive, AskGraph, StartId, StartDependent, StartUpdates
<1>9. CASE DropManager \/ Gone
  BY <1>9 DEF DropManager, Gone, resourceVars
<1> QED
  BY <1>1, <1>2, <1>3, <1>4, <1>5, <1>6, <1>7, <1>8, <1>9 DEF Next, TaskStep

LEMMA GraphStaysWellFormed == Spec => []WellFormed(graph)
<1>1. Init => WellFormed(graph)
  BY EmptyIsWellFormed DEF Init, GraphInit
<1>2. WellFormed(graph) /\ [Next]_resourceVars => WellFormed(graph)'
  BY GraphSteps, SetKeepsWellFormed DEF Applied
<1> QED
  BY <1>1, <1>2, PTL DEF Spec

\* Whatever the loaders ask for, and in whatever order resources come and go, the
\* graph that the update thread asks is sound: its two directions agree, what it
\* lists under an id is a node of that id, and what has dependencies is listed.
THEOREM UpdatesKeepGraph ==
  Spec => [](GraphTypeOK /\ TwoWays /\ KeyMapSound /\ DependingKeysListed)
<1>1. WellFormed(graph) => GraphTypeOK /\ TwoWays /\ KeyMapSound /\ DependingKeysListed
  BY DEF WellFormed, GraphTypeOK, TwoWays, KeyMapSound, DependingKeysListed
<1> QED
  BY <1>1, GraphStaysWellFormed, PTL

-----------------------------------------------------------------------------
(* The watchers report the indexes that they are told.                      *)

Indexes == [path : Seq(Int) \ {<<>>}, end : Ends]

Reports ==
  [kind : {"added", "modified"}, hash : Hashes] \cup [kind : {"removed"}]
    \cup [kind : {"moved"}, from : Indexes]

Messages == [src : Indexes, updates : UNION {[S -> Reports] : S \in SUBSET Ids}]

WatcherRecords ==
  [children : Seq(Sources), full : SUBSET Ids, partial : SUBSET Ids, config : Indexes \cup {None}]

WatchStates == [tree : [Sources -> WatcherRecords], sent : Seq(Messages)]

DataStates == [Sources -> [Ids -> Hashes \cup {None}]]

LEMMA IndexTypes ==
  /\ \A p \in Seq(Int) : p # <<>> => Index(p) \in Indexes
  /\ MaxSource \in Indexes
  /\ \A x \in Indexes, i \in Int : WithSub(x, i) \in Indexes
  /\ \A x \in Indexes : Idx(x) \in Int /\ x # None
  /\ \A p \in Seq(Int), i \in Int : p # None /\ Wrap(p, i) \in Seq(Int) /\ Wrap(p, i) # <<>>
<1>1. MaxIndex \in Int /\ None \notin Seq(Int) /\ None \notin [path : Seq(Int), end : Ends]
  BY ResourcesAssumption
<1>2. \A i, j \in Int : <<i>> \in Seq(Int) /\ <<i, j>> \in Seq(Int) /\ <<i>> # <<>> /\ <<i, j>> # <<>>
  OBVIOUS
<1>3. \A p \in Seq(Int) : p # <<>> => Index(p) \in Indexes
  BY DEF Index, Indexes, Ends
<1>4. MaxSource \in Indexes
  BY <1>1, <1>2 DEF MaxSource, Indexes, Ends
<1>5. \A x \in Indexes : Idx(x) \in Int /\ x # None
  BY <1>1 DEF Indexes, Idx
<1>6. \A x \in Indexes, i \in Int : WithSub(x, i) \in Indexes
  BY <1>2, <1>3, <1>5 DEF WithSub
<1>7. ASSUME NEW p \in Seq(Int), NEW i \in Int
      PROVE  p # None /\ Wrap(p, i) \in Seq(Int) /\ Wrap(p, i) # <<>>
  <2>1. <<i>> \in Seq(Int) /\ Len(<<i>>) = 1
    OBVIOUS
  <2>2. <<i>> \o p \in Seq(Int) /\ Len(<<i>> \o p) = 1 + Len(p) /\ Len(p) \in Nat
    BY <2>1
  <2>3. <<i>> \o p # <<>>
    BY <2>2
  <2> QED
    BY <2>2, <2>3, <1>1 DEF Wrap
<1> QED
  BY <1>3, <1>4, <1>5, <1>6, <1>7

\* One watcher is replaced.
LEMMA TreeTypes ==
  ASSUME NEW s \in WatchStates, NEW w \in Sources
  PROVE  /\ \A x \in Indexes \cup {None} : [s EXCEPT !.tree[w].config = x] \in WatchStates
         /\ \A c \in Seq(Sources) : [s EXCEPT !.tree[w].children = c] \in WatchStates
         /\ \A S \in SUBSET Ids : [s EXCEPT !.tree[w].full = @ \cup S] \in WatchStates
         /\ [s EXCEPT !.tree[w].full = {}, !.tree[w].partial = {}] \in WatchStates
         /\ s.tree[w] \in WatcherRecords
<1>1. s.tree \in [Sources -> WatcherRecords] /\ s.sent \in Seq(Messages) /\ s.tree[w] \in WatcherRecords
  BY DEF WatchStates
<1>2. ASSUME NEW r \in WatcherRecords
      PROVE  [s EXCEPT !.tree = [s.tree EXCEPT ![w] = r]] \in WatchStates
  BY <1>1 DEF WatchStates
<1>3. \A x \in Indexes \cup {None} : [s.tree[w] EXCEPT !.config = x] \in WatcherRecords
  BY <1>1 DEF WatcherRecords
<1>4. \A c \in Seq(Sources) : [s.tree[w] EXCEPT !.children = c] \in WatcherRecords
  BY <1>1 DEF WatcherRecords
<1>5. \A S \in SUBSET Ids : [s.tree[w] EXCEPT !.full = @ \cup S] \in WatcherRecords
  BY <1>1 DEF WatcherRecords
<1>6. [s.tree[w] EXCEPT !.full = {}, !.partial = {}] \in WatcherRecords
  BY <1>1 DEF WatcherRecords
<1> QED
  BY <1>1, <1>2, <1>3, <1>4, <1>5, <1>6

LEMMA NotifyTypes ==
  ASSUME NEW s \in WatchStates, NEW w \in Sources, NEW S \in SUBSET Ids, NEW u \in [S -> Reports]
  PROVE  NotifyUpdate(s, w, u) \in WatchStates
<1>1. s.tree[w].config \in Indexes \cup {None} /\ s.sent \in Seq(Messages)
  BY DEF WatchStates, WatcherRecords
<1> DEFINE m == [src |-> s.tree[w].config, updates |-> u]
<1>2. s.tree[w].config # None => m \in Messages
  BY <1>1 DEF Messages
<1> HIDE DEF m
<1>3. ASSUME s.tree[w].config # None
      PROVE  [s EXCEPT !.sent = Append(@, m)] \in WatchStates
  <2>1. Append(s.sent, m) \in Seq(Messages)
    BY <1>1, <1>2, <1>3
  <2> QED
    BY <2>1 DEF WatchStates
<1> QED
  BY <1>3 DEF NotifyUpdate, m

LEMMA ConfigureOneTypes ==
  ASSUME NEW s \in WatchStates, NEW has \in DataStates, NEW w \in Sources, NEW x \in Indexes
  PROVE  ConfigureOne(s, has, w, x) \in WatchStates
<1> DEFINE old     == s.tree[w].config
           ids     == Provided(has, w, AllWatches(s.tree[w]))
           updates == [id \in ids |-> IF old # None THEN Moved(old) ELSE Added(has[w][id])]
           t       == [s EXCEPT !.tree[w].config = x]
<1>1. old \in Indexes \cup {None} /\ AllWatches(s.tree[w]) \subseteq Ids
  BY TreeTypes DEF WatcherRecords, AllWatches
<1>2. ids \in SUBSET Ids /\ \A id \in ids : has[w][id] \in Hashes
  BY <1>1 DEF Provided, DataStates
<1>3. updates \in [ids -> Reports]
  BY <1>1, <1>2 DEF Moved, Added, Reports
<1>4. t \in WatchStates
  BY TreeTypes
<1> HIDE DEF ids, updates, t
<1>5. NotifyUpdate(t, w, updates) \in WatchStates
  BY <1>2, <1>3, <1>4, NotifyTypes
<1> QED
  BY <1>5 DEF ConfigureOne, ids, updates, t

LEMMA UnconfigureTypes ==
  ASSUME NEW s \in WatchStates, NEW has \in DataStates, NEW w \in Sources
  PROVE  Unconfigure(s, has, w) \in WatchStates
<1> DEFINE ids     == Provided(has, w, AllWatches(s.tree[w]))
           drained == [s EXCEPT !.tree[w].full = {}, !.tree[w].partial = {}]
           updates == [id \in ids |-> Removed]
           t       == NotifyUpdate(drained, w, updates)
<1>1. ids \in SUBSET Ids
  BY TreeTypes DEF WatcherRecords, AllWatches, Provided
<1>2. updates \in [ids -> Reports]
  BY DEF Removed, Reports
<1>3. drained \in WatchStates
  BY TreeTypes
<1> HIDE DEF ids, drained, updates
<1>4. t \in WatchStates
  BY <1>1, <1>2, <1>3, NotifyTypes
<1> HIDE DEF t
<1>5. [t EXCEPT !.tree[w].config = None] \in WatchStates
  BY <1>4, TreeTypes
<1> QED
  BY <1>5 DEF Unconfigure, ids, drained, updates, t

\* A recursion over numbers has a value at each of them.
StepOn(g, D) == g \in [(Nat \X D) -> D]

Iterates(f, D, base, from, to, g) ==
  /\ f \in [from .. to -> D] /\ f[from] = base
  /\ \A i \in from + 1 .. to : f[i] = g[<<i, f[i - 1]>>]

LEMMA RecursionExists ==
  ASSUME NEW D, NEW base \in D, NEW from \in Nat, NEW to \in Nat, from <= to,
         NEW g, StepOn(g, D)
  PROVE  \E f : Iterates(f, D, base, from, to, g)
<1> USE DEF StepOn
<1> DEFINE P(f, n) == /\ f \in [from .. n -> D] /\ f[from] = base
                      /\ \A i \in from + 1 .. n : f[i] = g[<<i, f[i - 1]>>]
           Lacking == {n \in Nat : n >= from /\ ~\E f : P(f, n)}
<1>1. Lacking = {}
  <2> SUFFICES ASSUME Lacking # {}
               PROVE  FALSE
    OBVIOUS
  <2>1. PICK n \in Lacking : \A m \in Lacking : n <= m
    <3>1. Lacking \in SUBSET Nat
      OBVIOUS
    <3> HIDE DEF Lacking
    <3> QED
      BY <3>1, LeastNumber
  <2>2. n # from
    <3>1. P([i \in {from} |-> base], from)
      OBVIOUS
    <3>2. \E f : P(f, from)
      BY <3>1
    <3>3. ~\E f : P(f, n)
      BY <2>1
    <3> HIDE DEF P, Lacking
    <3> QED
      BY <3>2, <3>3
  <2>3. n - 1 \in Nat /\ n - 1 >= from /\ n - 1 \notin Lacking
    BY <2>1, <2>2
  <2>4. PICK f : P(f, n - 1)
    BY <2>3
  <2> DEFINE h == [i \in from .. n |-> IF i = n THEN g[<<n, f[n - 1]>>] ELSE f[i]]
  <2>5. P(h, n)
    <3>1. f[n - 1] \in D /\ g[<<n, f[n - 1]>>] \in D
      BY <2>3, <2>4
    <3>2. h \in [from .. n -> D]
      BY <3>1, <2>1, <2>4
    <3>3. h[from] = base
      BY <2>2, <2>3, <2>4
    <3>4. ASSUME NEW i \in from + 1 .. n
          PROVE  h[i] = g[<<i, h[i - 1]>>]
      <4>1. i - 1 \in from .. n /\ i - 1 # n /\ i \in from .. n /\ h[i - 1] = f[i - 1]
        BY <2>1
      <4>2. CASE i = n
        BY <4>1, <4>2
      <4>3. CASE i # n
        BY <4>1, <4>3, <2>4
      <4> QED
        BY <4>2, <4>3
    <3> QED
      BY <3>2, <3>3, <3>4
  <2> QED
    BY <2>1, <2>5
<1> HIDE DEF P
<1>2. \E f : P(f, to)
  BY <1>1
<1> QED
  BY <1>2 DEF P, Iterates

\* What holds of its first value, and is kept from one to the next, holds of all.
LEMMA RecursionStays ==
  ASSUME NEW D, NEW f, NEW from \in Nat, NEW to \in Nat, f[from] \in D,
         \A i \in from + 1 .. to : f[i - 1] \in D => f[i] \in D
  PROVE  \A i \in from .. to : f[i] \in D
<1> DEFINE T == {i \in from .. to : f[i] \notin D}
<1> SUFFICES ASSUME T # {}
             PROVE  FALSE
  OBVIOUS
<1>1. PICK n \in T : \A m \in T : n <= m
  <2>1. T \in SUBSET Nat
    OBVIOUS
  <2> HIDE DEF T
  <2> QED
    BY <2>1, LeastNumber
<1>2. n # from /\ n - 1 \in from .. to /\ n - 1 \notin T
  BY <1>1
<1> QED
  BY <1>1, <1>2

LEMMA ConfigureChildrenTypes ==
  ASSUME NEW s \in WatchStates, NEW has \in DataStates, NEW w \in Sources,
         s.tree[w].config \in Indexes, NEW from \in Nat, from <= Len(s.tree[w].children)
  PROVE  ConfigureChildren(s, has, w, from) \in WatchStates
<1> DEFINE children == s.tree[w].children
           n == Len(children)
           Step(t, i) == ConfigureOne(t, has, children[i], WithSub(s.tree[w].config, i - 1))
           g == [x \in Nat \X WatchStates |-> IF x[1] \in from + 1 .. n THEN Step(x[2], x[1]) ELSE x[2]]
           Recursion(f) == f = [i \in from .. n |-> IF i = from THEN s ELSE Step(f[i - 1], i)]
           done == CHOOSE f : Recursion(f)
<1>1. children \in Seq(Sources) /\ n \in Nat
  <2>1. s.tree[w] \in WatcherRecords
    BY TreeTypes
  <2> QED
    BY <2>1 DEF WatcherRecords
<1>2. ASSUME NEW t \in WatchStates, NEW i \in from + 1 .. n
      PROVE  Step(t, i) \in WatchStates
  <2>1. children[i] \in Sources /\ i - 1 \in Int
    BY <1>1
  <2>2. WithSub(s.tree[w].config, i - 1) \in Indexes
    BY <2>1, IndexTypes
  <2> QED
    BY <2>1, <2>2, ConfigureOneTypes
<1> HIDE DEF Step, n
<1>3. StepOn(g, WatchStates)
  BY <1>2 DEF StepOn
<1>g. \A i \in from + 1 .. n, t \in WatchStates : g[<<i, t>>] = Step(t, i)
  BY <1>1
<1> HIDE DEF g
<1>4. PICK f : /\ f \in [from .. n -> WatchStates] /\ f[from] = s
               /\ \A i \in from + 1 .. n : f[i] = g[<<i, f[i - 1]>>]
  <2>1. from <= n /\ n \in Nat
    BY <1>1 DEF n
  <2>2. \E f : Iterates(f, WatchStates, s, from, n, g)
    BY <2>1, <1>3, RecursionExists
  <2> QED
    BY <2>2 DEF Iterates
<1>5. Recursion(f)
  <2>1. \A i \in from .. n : i # from => /\ i - 1 \in from .. n /\ i \in from + 1 .. n
    BY <1>1
  <2>2. \A i \in from .. n : i # from => f[i] = Step(f[i - 1], i)
    BY <2>1, <1>4, <1>g
  <2>3. \A i \in from .. n : f[i] = IF i = from THEN s ELSE Step(f[i - 1], i)
    BY <2>2, <1>4
  <2> QED
    BY <2>3, <1>4
<1>6. Recursion(done)
  BY <1>5
<1> HIDE DEF done
<1>7. \A i \in from .. n : done[i] \in WatchStates
  <2>1. from \in from .. n /\ done[from] = s
    BY <1>1, <1>6 DEF n
  <2>2. \A i \in from + 1 .. n : done[i] = Step(done[i - 1], i)
    BY <1>1, <1>6
  <2> QED
    BY <2>1, <2>2, <1>1, <1>2, RecursionStays
<1>8. ConfigureChildren(s, has, w, from) = done[n]
  BY DEF ConfigureChildren, done, n, Step
<1> QED
  BY <1>7, <1>8, <1>1 DEF n

LEMMA ReconfigureTypes ==
  ASSUME NEW s \in WatchStates, NEW has \in DataStates, NEW w \in Sources,
         NEW from \in Nat, from <= Len(s.tree[w].children)
  PROVE  Reconfigure(s, has, w, from) \in WatchStates
<1>1. s.tree[w].config \in Indexes \cup {None}
  BY TreeTypes DEF WatcherRecords
<1> QED
  BY <1>1, ConfigureChildrenTypes DEF Reconfigure

LEMMA ConfigureTypes ==
  ASSUME NEW s \in WatchStates, NEW has \in DataStates, NEW w \in Sources, NEW x \in Indexes
  PROVE  Configure(s, has, w, x) \in WatchStates
<1> DEFINE t == ConfigureOne(s, has, w, x)
<1>1. t \in WatchStates
  BY ConfigureOneTypes
<1>2. t.tree[w].config = x
  <2>1. s.tree \in [Sources -> WatcherRecords] /\ s.tree[w] \in WatcherRecords /\ s = [tree |-> s.tree, sent |-> s.sent]
    BY DEF WatchStates
  <2>2. [s EXCEPT !.tree[w].config = x].tree[w].config = x
    BY <2>1 DEF WatcherRecords
  <2>3. \A r, u : NotifyUpdate(r, w, u).tree = r.tree
    BY DEF NotifyUpdate
  <2> QED
    BY <2>2, <2>3 DEF ConfigureOne
<1>3. t.tree[w].children \in Seq(Sources)
  BY <1>1, TreeTypes DEF WatcherRecords
<1>4. 0 <= Len(t.tree[w].children)
  BY <1>3
<1> HIDE DEF t
<1> QED
  BY <1>1, <1>2, <1>4, ConfigureChildrenTypes DEF Configure, t

LEMMA WatchTypes ==
  ASSUME NEW s \in WatchStates, NEW id \in Ids, NEW w \in Sources
  PROVE  Unwatch(s, w, id) \in WatchStates /\ \A sub : Watch(s, w, id, sub) \in WatchStates
<1>1. s.tree \in [Sources -> WatcherRecords] /\ s.sent \in Seq(Messages)
  BY DEF WatchStates
<1>2. \A r \in WatcherRecords : Unwatching(r, id) \in WatcherRecords
  BY DEF Unwatching, WatcherRecords
<1>3. \A r \in WatcherRecords : \A sub : Watching(r, id, sub) \in WatcherRecords
  BY DEF Watching, WatcherRecords
<1>4. \A t \in [Sources -> WatcherRecords] : [s EXCEPT !.tree = t] \in WatchStates
  BY <1>1 DEF WatchStates
<1>5. Unwatch(s, w, id) \in WatchStates
  BY <1>1, <1>2, <1>4 DEF Unwatch
<1>6. ASSUME NEW sub
      PROVE  Watch(s, w, id, sub) \in WatchStates
  <2> DEFINE upTo  == IF sub = None THEN MaxSource ELSE sub
             first == ChildrenAt(s, w, 0 .. Idx(upTo))
             rest  == ChildrenAt(s, w, Nat) \ first
             under == IF HasSub(upTo) THEN Sub(upTo) ELSE None
             t     == [x \in Sources |->
                         CASE x = w     -> Watching(s.tree[x], id, sub)
                           [] x \in first -> Watching(s.tree[x], id, under)
                           [] x \in rest  -> Unwatching(s.tree[x], id)
                           [] OTHER       -> s.tree[x]]
  <2>1. Watch(s, w, id, sub) = [s EXCEPT !.tree = t]
    BY DEF Watch
  <2> HIDE DEF first, rest, under
  <2>2. t \in [Sources -> WatcherRecords]
    BY <1>1, <1>2, <1>3
  <2> QED
    BY <2>1, <2>2, <1>4
<1> QED
  BY <1>5, <1>6

LEMMA WatchNTypes ==
  ASSUME NEW s \in WatchStates, NEW id \in Ids, NEW idx
  PROVE  WatchN(s, id, idx) \in WatchStates
<1>1. Roots[1] \in Sources /\ Roots[2] \in Sources
  BY ResourcesAssumption DEF Roots
<1>2. \A t \in WatchStates, p \in {1, 2} : WatchRoot(t, p, id, idx) \in WatchStates
  BY <1>1, WatchTypes DEF WatchRoot
<1> QED
  BY <1>2 DEF WatchN

\* The children that a watcher has with one more, or one less.
LEMMA ListTypes ==
  ASSUME NEW S, NEW q \in Seq(S)
  PROVE  /\ \A place \in 0 .. Len(q), x \in S :
              InsertedAt(q, place, x) \in Seq(S) /\ Len(InsertedAt(q, place, x)) = Len(q) + 1
         /\ \A place \in 0 .. Len(q) - 1 :
              RemovedAt(q, place) \in Seq(S) /\ Len(RemovedAt(q, place)) = Len(q) - 1
<1>0. Len(q) \in Nat
  OBVIOUS
<1>1. ASSUME NEW place \in 0 .. Len(q), NEW x \in S
      PROVE  InsertedAt(q, place, x) \in Seq(S) /\ Len(InsertedAt(q, place, x)) = Len(q) + 1
  <2>1. SubSeq(q, 1, place) \in Seq(S) /\ Len(SubSeq(q, 1, place)) = place
    OBVIOUS
  <2>2. SubSeq(q, place + 1, Len(q)) \in Seq(S) /\ Len(SubSeq(q, place + 1, Len(q))) = Len(q) - place
    OBVIOUS
  <2>3. <<x>> \in Seq(S) /\ Len(<<x>>) = 1
    OBVIOUS
  <2> DEFINE head == SubSeq(q, 1, place)
             tail == SubSeq(q, place + 1, Len(q))
  <2> HIDE DEF head, tail
  <2>4. head \o <<x>> \in Seq(S) /\ Len(head \o <<x>>) = place + 1
    BY <2>1, <2>3 DEF head
  <2>5. tail \in Seq(S) /\ Len(tail) = Len(q) - place
    BY <2>2 DEF tail
  <2>6. (head \o <<x>>) \o tail \in Seq(S) /\ Len((head \o <<x>>) \o tail) = Len(q) + 1
    BY <2>4, <2>5, <1>0, SMTT(30)
  <2> QED
    BY <2>6 DEF InsertedAt, head, tail
<1>2. ASSUME NEW place \in 0 .. Len(q) - 1
      PROVE  RemovedAt(q, place) \in Seq(S) /\ Len(RemovedAt(q, place)) = Len(q) - 1
  <2>1. SubSeq(q, 1, place) \in Seq(S) /\ Len(SubSeq(q, 1, place)) = place
    OBVIOUS
  <2>2. SubSeq(q, place + 2, Len(q)) \in Seq(S) /\ Len(SubSeq(q, place + 2, Len(q))) = Len(q) - place - 1
    OBVIOUS
  <2> DEFINE head == SubSeq(q, 1, place)
             tail == SubSeq(q, place + 2, Len(q))
  <2> HIDE DEF head, tail
  <2>3. head \in Seq(S) /\ tail \in Seq(S) /\ Len(head) = place /\ Len(tail) = Len(q) - place - 1
    BY <2>1, <2>2 DEF head, tail
  <2>4. head \o tail \in Seq(S) /\ Len(head \o tail) = Len(q) - 1
    BY <2>3, <1>0
  <2> QED
    BY <2>4 DEF RemovedAt, head, tail
<1> QED
  BY <1>1, <1>2

\* Adding watches, and giving up an index, leave the children alone.
LEMMA ChildrenStay ==
  ASSUME NEW s \in WatchStates, NEW has \in DataStates, NEW w \in Sources, NEW c \in Sources
  PROVE  /\ \A ids : AddWatches(s, c, ids).tree[w].children = s.tree[w].children
         /\ Unconfigure(s, has, c).tree[w].children = s.tree[w].children
<1>1. s.tree \in [Sources -> WatcherRecords] /\ s = [tree |-> s.tree, sent |-> s.sent]
  BY DEF WatchStates
<1>2. \A ids : [s.tree[c] EXCEPT !.full = ids].children = s.tree[c].children
  BY <1>1 DEF WatcherRecords
<1>3. \A ids : AddWatches(s, c, ids).tree[w].children = s.tree[w].children
  BY <1>1, <1>2 DEF AddWatches
<1>4. ASSUME NEW u
      PROVE  LET drained == [s EXCEPT !.tree[c].full = {}, !.tree[c].partial = {}]
             IN [NotifyUpdate(drained, c, u) EXCEPT !.tree[c].config = None].tree[w].children
                  = s.tree[w].children
  <2> DEFINE drained == [s EXCEPT !.tree[c].full = {}, !.tree[c].partial = {}]
             t == NotifyUpdate(drained, c, u)
  <2>1. drained.tree \in [Sources -> WatcherRecords] /\ drained.tree[w].children = s.tree[w].children
    <3>1. drained \in WatchStates
      BY TreeTypes
    <3>2. [[s.tree[c] EXCEPT !.full = {}] EXCEPT !.partial = {}].children = s.tree[c].children
      BY <1>1 DEF WatcherRecords
    <3>3. drained.tree[w].children = s.tree[w].children
      BY <1>1, <3>2
    <3> QED
      BY <3>1, <3>3 DEF WatchStates
  <2>2. t.tree = drained.tree
    BY DEF NotifyUpdate
  <2> HIDE DEF t, drained
  <2>3. [t.tree[c] EXCEPT !.config = None].children = t.tree[c].children
    BY <2>1, <2>2 DEF WatcherRecords
  <2>4. [t EXCEPT !.tree[c].config = None].tree[w].children = t.tree[w].children
    BY <2>1, <2>2, <2>3
  <2> QED
    BY <2>1, <2>2, <2>4 DEF t, drained
<1>5. Unconfigure(s, has, c).tree[w].children = s.tree[w].children
  BY <1>4 DEF Unconfigure
<1> QED
  BY <1>3, <1>5

LEMMA InsertTypes ==
  ASSUME NEW s \in WatchStates, NEW has \in DataStates, NEW w \in Sources, NEW c \in Sources,
         NEW place \in 0 .. Len(s.tree[w].children)
  PROVE  InsertChild(s, has, w, place, c) \in WatchStates
<1> DEFINE q == s.tree[w].children
<1>1. q \in Seq(Sources) /\ Len(q) \in Nat /\ s.tree[w] \in WatcherRecords
  <2>1. s.tree[w] \in WatcherRecords
    BY TreeTypes
  <2> QED
    BY <2>1 DEF WatcherRecords
<1>2. ASSUME NEW ids \in SUBSET Ids, NEW new \in Seq(Sources), NEW from \in Nat, from <= Len(new)
      PROVE  Reconfigure([AddWatches(s, c, ids) EXCEPT !.tree[w].children = new], has, w, from) \in WatchStates
  <2> DEFINE t == AddWatches(s, c, ids)
             r == [t EXCEPT !.tree[w].children = new]
  <2>1. t \in WatchStates
    BY TreeTypes DEF AddWatches
  <2>2. r \in WatchStates
    BY <2>1, TreeTypes
  <2>3. r.tree[w].children = new
    BY <2>1 DEF WatchStates, WatcherRecords
  <2> HIDE DEF r
  <2>4. Reconfigure(r, has, w, from) \in WatchStates
    BY <2>2, <2>3, <1>2, ReconfigureTypes
  <2> QED
    BY <2>4 DEF r
<1>3. PushChild(s, has, w, c) \in WatchStates
  <2> DEFINE t == AddWatches(s, c, s.tree[w].full)
  <2>1. t.tree[w].children = q
    BY ChildrenStay
  <2>2. [t EXCEPT !.tree[w].children = Append(@, c)] = [t EXCEPT !.tree[w].children = Append(q, c)]
    BY <2>1
  <2>3. Append(q, c) \in Seq(Sources) /\ Len(q) <= Len(Append(q, c))
    BY <1>1, SMTT(30)
  <2>4. s.tree[w].full \in SUBSET Ids
    BY <1>1 DEF WatcherRecords
  <2> QED
    BY <2>2, <2>3, <2>4, <1>1, <1>2 DEF PushChild
<1>4. CASE place < Len(q)
  <2> DEFINE ids == AllWatches(s.tree[q[place + 1]])
             t == AddWatches(s, c, ids)
  <2>1. q[place + 1] \in Sources
    BY <1>1, <1>4
  <2>2. ids \in SUBSET Ids
    <3>1. s.tree[q[place + 1]] \in WatcherRecords
      BY <2>1 DEF WatchStates
    <3> QED
      BY <3>1 DEF WatcherRecords, AllWatches
  <2>3. t.tree[w].children = q
    BY ChildrenStay
  <2>4. [t EXCEPT !.tree[w].children = InsertedAt(@, place, c)]
          = [t EXCEPT !.tree[w].children = InsertedAt(q, place, c)]
    BY <2>3
  <2>5. InsertedAt(q, place, c) \in Seq(Sources) /\ place <= Len(InsertedAt(q, place, c)) /\ place \in Nat
    <3> HIDE DEF q
    <3>1. InsertedAt(q, place, c) \in Seq(Sources) /\ Len(InsertedAt(q, place, c)) = Len(q) + 1
      BY <1>1, ListTypes DEF q
    <3> QED
      BY <3>1, <1>1 DEF q
  <2> HIDE DEF ids
  <2>6. Reconfigure([t EXCEPT !.tree[w].children = InsertedAt(@, place, c)], has, w, place) \in WatchStates
    BY <2>2, <2>4, <2>5, <1>2
  <2> QED
    BY <2>6, <1>4 DEF InsertChild, ids
<1>5. CASE ~ (place < Len(q))
  BY <1>3, <1>5 DEF InsertChild
<1> QED
  BY <1>4, <1>5

LEMMA RemoveTypes ==
  ASSUME NEW s \in WatchStates, NEW has \in DataStates, NEW w \in Sources,
         NEW place \in 0 .. Len(s.tree[w].children) - 1
  PROVE  RemoveChild(s, has, w, place) \in WatchStates
<1> DEFINE q == s.tree[w].children
           child == q[place + 1]
           without == [s EXCEPT !.tree[w].children = RemovedAt(q, place)]
           t == Unconfigure(without, has, child)
<1>1. q \in Seq(Sources) /\ Len(q) \in Nat
  <2>1. s.tree[w] \in WatcherRecords
    BY TreeTypes
  <2> QED
    BY <2>1 DEF WatcherRecords
<1>2. child \in Sources
  BY <1>1
<1>3. RemovedAt(q, place) \in Seq(Sources) /\ place <= Len(RemovedAt(q, place)) /\ place \in Nat
  <2>1. RemovedAt(q, place) \in Seq(Sources) /\ Len(RemovedAt(q, place)) = Len(q) - 1
    BY <1>1, ListTypes
  <2> QED
    BY <2>1, <1>1
<1>4. without \in WatchStates
  BY <1>3, TreeTypes
<1>5. without.tree[w].children = RemovedAt(q, place)
  BY DEF WatchStates, WatcherRecords
<1>6. RemoveChild(s, has, w, place) = Reconfigure(t, has, w, place)
  BY DEF RemoveChild
<1> HIDE DEF without, child
<1>7. t \in WatchStates /\ t.tree[w].children = without.tree[w].children
  BY <1>2, <1>4, UnconfigureTypes, ChildrenStay
<1> HIDE DEF t
<1>8. place <= Len(t.tree[w].children)
  BY <1>3, <1>5, <1>7
<1> QED
  BY <1>3, <1>6, <1>7, <1>8, ReconfigureTypes

-----------------------------------------------------------------------------
(* The types of the manager's state.                                        *)

Metadata == [hash : Hashes \cup {None}, idx : Indexes]

Steps == {"rest", "held", "find", "note", "watch", "parse", "write"}

\* From the search to the end, a task has found something, if it reads a source.
TaskTypeOK ==
  /\ entry \in [Keys -> {"none", "awaited", "live", "expired"}]
  /\ value \in [Keys -> Hashes \cup {None}]
  /\ update \in [Keys -> Indexes \cup {None}]
  /\ step \in [Keys -> Steps]
  /\ found \in [Keys -> Metadata \cup {None}]
  /\ \A k \in Virtual : step[k] \in {"rest", "held", "parse", "write"}
  /\ \A k \in Keys \ Virtual : step[k] \in {"note", "watch", "parse", "write"} => found[k] \in Metadata
  /\ late \subseteq Keys \X Indexes

Jobs ==
  [src : Indexes, updates : UNION {[S -> Reports] : S \in SUBSET Ids}, id : Ids \cup {None},
   keys : SUBSET Keys, above : SUBSET Keys, queued : SUBSET Keys, dependent : SUBSET Keys,
   skipped : SUBSET Ids]

ThreadTypeOK ==
  /\ \/ job = None /\ heard = None
     \/ /\ job \in Jobs /\ (job.id # None => job.id \in DOMAIN job.updates)
        /\ heard \in [listed : SUBSET Keys, joined : SUBSET Keys]
  /\ manager \in {"started", "dropped"}

\* The constant source has every id, so that something is always found.
UpdatesTypeOK ==
  /\ data \in DataStates /\ \A id \in Ids : data[Constant][id] # None
  /\ watch \in WatchStates
  /\ meta \in [Ids -> Metadata]
  /\ TaskTypeOK
  /\ ThreadTypeOK
  /\ known \subseteq Keys
  /\ changes \in Nat

\* What is found is in a source, and has an index.
LEMMA FindTypes ==
  ASSUME UpdatesTypeOK, NEW id \in Ids
  PROVE  FindData(id) \in Metadata
<1> DEFINE having == {i \in DOMAIN Contained : data[Contained[i]][id] # None}
           least  == CHOOSE i \in having : \A j \in having : i <= j
           hit(p) == Found(Roots[p], id) # None /\ \A q \in 1 .. p - 1 : Found(Roots[q], id) = None
           first  == CHOOSE p \in DOMAIN Roots : hit(p)
           path   == Found(Roots[first], id)
           source == IF path = <<>> THEN Roots[first] ELSE Contained[path[1] + 1]
<1>1. /\ Nested \in Sources /\ Constant \in Sources /\ Constant # Nested
      /\ None \notin Seq(Int) /\ DOMAIN Roots = {1, 2} /\ Roots[1] = Nested /\ Roots[2] = Constant
  BY ResourcesAssumption DEF Roots
<1>2. Contained \in Seq(Sources)
  <2>1. watch.tree[Nested] \in WatcherRecords
    BY <1>1 DEF UpdatesTypeOK, WatchStates
  <2> QED
    BY <2>1 DEF WatcherRecords, Contained
<1>3. having # {} => least \in having
  <2>1. having \in SUBSET Nat
    BY <1>2
  <2> HIDE DEF having
  <2> QED
    BY <2>1, LeastNumber
<1>4. Found(Constant, id) = <<>>
  BY <1>1 DEF Found, UpdatesTypeOK
<1>5. Found(Nested, id) = IF having # {} THEN Wrap(<<>>, least - 1) ELSE None
  BY <1>1 DEF Found
<1>6. <<>> \in Seq(Int) /\ <<>> # None
  <2>1. <<>> \in Seq(Int)
    OBVIOUS
  <2> QED
    BY <2>1, <1>1
<1>7. first \in {1, 2} /\ path # None
  <2>1. \E p \in DOMAIN Roots : hit(p)
    <3>1. CASE Found(Nested, id) # None
      BY <3>1, <1>1
    <3>2. CASE Found(Nested, id) = None
      BY <3>2, <1>1, <1>4, <1>6
    <3> QED
      BY <3>1, <3>2
  <2>2. first \in DOMAIN Roots /\ hit(first)
    BY <2>1
  <2> QED
    BY <2>2, <1>1
<1> HIDE DEF having, least, first
<1>8. path \in Seq(Int) /\ source \in Sources
  <2>1. CASE first = 1
    <3>1. path = <<least - 1>> /\ least \in having
      BY <2>1, <1>1, <1>3, <1>5, <1>7 DEF Wrap
    <3>2. least \in DOMAIN Contained
      BY <3>1 DEF having
    <3>3. least \in Nat /\ Contained[least] \in Sources
      BY <1>2, <3>2
    <3>4. path \in Seq(Int) /\ path # <<>> /\ path[1] + 1 = least
      BY <3>1, <3>3
    <3> QED
      BY <3>3, <3>4
  <2>2. CASE first = 2
    BY <2>2, <1>1, <1>4, <1>6
  <2> QED
    BY <2>1, <2>2, <1>7
<1>9. Index(Wrap(path, first - 1)) \in Indexes
  <2> HIDE DEF path
  <2>1. first - 1 \in Int
    BY <1>7
  <2> QED
    BY <2>1, <1>8, IndexTypes
<1>10. FindData(id) = [hash |-> data[source][id], idx |-> Index(Wrap(path, first - 1))]
  BY DEF FindData, first
<1> HIDE DEF path, source
<1>11. data[source][id] \in Hashes \cup {None}
  BY <1>8 DEF UpdatesTypeOK, DataStates
<1> QED
  BY <1>9, <1>10, <1>11 DEF Metadata

LEMMA InitTypes == Init => UpdatesTypeOK
<1> SUFFICES ASSUME Init
             PROVE  UpdatesTypeOK
  OBVIOUS
<1>0. Constant \in Sources /\ Constant # Nested /\ None \notin Hashes
  BY ResourcesAssumption
<1>1. PICK has \in [Files -> Hashes \cup {None}], h \in Hashes :
        data = [w \in Sources |-> [id \in Ids |->
                 CASE w = Nested -> None
                   [] w = Constant -> h
                   [] w \in Files -> IF id \in Provides[w] THEN has[w] ELSE None]]
  BY DEF Init
<1>2. data \in DataStates
  <2>1. \A w \in Sources, id \in Ids : data[w][id] \in Hashes \cup {None}
    BY <1>1 DEF Files
  <2> QED
    BY <2>1, <1>1 DEF DataStates
<1>3. \A id \in Ids : data[Constant][id] # None
  <2> DEFINE chosen(w, id) == CASE w = Nested -> None
                                [] w = Constant -> h
                                [] w \in Files -> IF id \in Provides[w] THEN has[w] ELSE None
  <2>1. \A id \in Ids : data[Constant][id] = chosen(Constant, id)
    BY <1>0, <1>1
  <2>2. \A id \in Ids : chosen(Constant, id) = h
    BY <1>0 DEF Files
  <2> QED
    BY <2>1, <2>2, <1>0
<1>4. watch \in WatchStates
  <2> DEFINE new(children) ==
               [tree |-> [w \in Sources |-> IF w # Nested THEN NewWatcher
                            ELSE [NewWatcher EXCEPT !.children = children]],
                sent |-> <<>>]
             one(children) == Configure(new(children), data, Nested, Index(<<0>>))
  <2>n. PICK n \in 0 .. MaxIndex : \E children \in [1 .. n -> Files] :
          watch = Configure(one(children), data, Constant, Index(<<1>>))
    BY DEF Init
  <2>1. PICK children \in [1 .. n -> Files] :
          watch = Configure(one(children), data, Constant, Index(<<1>>))
    BY <2>n
  <2>2. new(children) \in WatchStates
    <3>1. children \in Seq(Sources)
      BY ResourcesAssumption DEF Files
    <3>2. NewWatcher \in WatcherRecords
      BY DEF WatcherRecords, NewWatcher
    <3>3. [NewWatcher EXCEPT !.children = children] \in WatcherRecords
      BY <3>1, <3>2 DEF WatcherRecords
    <3> QED
      BY <3>2, <3>3 DEF WatchStates
  <2>3. Index(<<0>>) \in Indexes /\ Index(<<1>>) \in Indexes
    <3>1. <<0>> \in Seq(Int) /\ <<1>> \in Seq(Int) /\ <<0>> # <<>> /\ <<1>> # <<>>
      OBVIOUS
    <3> QED
      BY <3>1, IndexTypes
  <2> HIDE DEF new
  <2>4. one(children) \in WatchStates
    BY <2>2, <2>3, <1>2, ConfigureTypes, ResourcesAssumption
  <2> HIDE DEF one
  <2>5. Configure(one(children), data, Constant, Index(<<1>>)) \in WatchStates
    BY <2>3, <2>4, <1>0, <1>2, ConfigureTypes
  <2> QED
    BY <2>1, <2>5
<1>5. meta \in [Ids -> Metadata]
  BY IndexTypes DEF Init, Metadata
<1>6. TaskTypeOK /\ ThreadTypeOK
  BY ResourcesAssumption DEF Init, TaskTypeOK, ThreadTypeOK, Steps
<1> QED
  BY <1>2, <1>3, <1>4, <1>5, <1>6 DEF Init, UpdatesTypeOK

LEMMA ChangeTypes ==
  ASSUME UpdatesTypeOK, NEW f \in Files, NEW id \in Ids, NEW h \in Hashes \cup {None}, ChangeFile(f, id, h)
  PROVE  UpdatesTypeOK'
<1> DEFINE u == CASE h = None -> Removed
                  [] h # None /\ data[f][id] = None -> Added(h)
                  [] h # None /\ data[f][id] # None -> Modified(h)
           t == NotifyUpdate(watch, f, [x \in {id} |-> u])
<1>1. u \in Reports
  BY DEF Removed, Added, Modified, Reports
<1>2. watch' = IF IsWatched(watch, f, id) THEN t ELSE watch
  BY DEF ChangeFile
<1> HIDE DEF u
<1>3. f \in Sources /\ f # Constant
  BY DEF Files
<1>4. [x \in {id} |-> u] \in [{id} -> Reports] /\ {id} \in SUBSET Ids
  BY <1>1
<1>5. t \in WatchStates
  BY <1>3, <1>4, NotifyTypes DEF UpdatesTypeOK
<1> HIDE DEF t
<1>6. watch' \in WatchStates
  BY <1>2, <1>5 DEF UpdatesTypeOK
<1>7. data' \in DataStates /\ \A y \in Ids : data'[Constant][y] # None
  BY <1>3, ResourcesAssumption DEF UpdatesTypeOK, DataStates, ChangeFile
<1>8. changes' \in Nat
  BY DEF UpdatesTypeOK, ChangeFile
<1>9. TaskTypeOK' /\ ThreadTypeOK'
  BY DEF UpdatesTypeOK, TaskTypeOK, ThreadTypeOK, ChangeFile, taskVars, threadVars
<1> QED
  BY <1>6, <1>7, <1>8, <1>9 DEF UpdatesTypeOK, ChangeFile

\* Steps of loads and updates.
LEMMA TaskTypes ==
  ASSUME UpdatesTypeOK, NEW k \in Keys, Load(k) \/ Expire(k) \/ TaskStep(k)
  PROVE  UpdatesTypeOK'
<1> USE DEF UpdatesTypeOK
<1>1. IdOf[k] \in Ids /\ \A i : WatchN(watch, IdOf[k], i) \in WatchStates
  BY GraphAssumption, WatchNTypes
<1>2. \A i, b : Watched(k, i, b) \subseteq Keys
  BY DEF Watched
<1>3. step[k] \in {"parse", "write"} => Made(k) \in [Keys -> Hashes \cup {None}]
  BY DEF Made, TaskTypeOK, Metadata
<1>4. ThreadTypeOK /\ Joined(k) /\ UNCHANGED <<job, manager>> => ThreadTypeOK'
  BY DEF ThreadTypeOK, Joined
<1> USE DEF TaskTypeOK, Goes, Steps
<1>5. CASE Load(k)
  BY <1>5 DEF Load, sourceVars, threadVars, ThreadTypeOK, FirstStep
<1>6. CASE Expire(k)
  BY <1>6 DEF Expire, sourceVars, taskVars, threadVars, ThreadTypeOK
<1>7. CASE Find(k)
  <2>1. FindData(IdOf[k]) \in Metadata
    BY <1>1, FindTypes
  <2> QED
    BY <1>7, <2>1 DEF Find, sourceVars, threadVars, ThreadTypeOK
<1>8. CASE Note(k)
  <2>1. k \notin Virtual /\ found[k] \in Metadata
    BY <1>8 DEF Note
  <2>2. meta' \in [Ids -> Metadata]
    BY <1>1, <1>8, <2>1 DEF Note, MetaFor
  <2> QED
    BY <1>8, <2>1, <2>2 DEF Note, sourceVars, threadVars, ThreadTypeOK
<1>9. CASE WatchLoaded(k)
  BY <1>1, <1>2, <1>9 DEF WatchLoaded, sourceVars, threadVars, ThreadTypeOK
<1>10. CASE Loaded(k)
  BY <1>3, <1>4, <1>10 DEF Loaded, sourceVars, Finishes
<1>11. CASE Apply(k)
  <2>1. known' \subseteq Keys
    BY <1>2, <1>11 DEF Apply
  <2> QED
    BY <1>1, <1>4, <1>11, <2>1 DEF Apply, sourceVars
<1>12. CASE Write(k)
  BY <1>3, <1>12 DEF Write, sourceVars, threadVars, ThreadTypeOK, Finishes
<1>13. CASE Outlived(k)
  <2>1. known' \subseteq Keys
    BY <1>13 DEF Outlived
  <2>2. value' \in [Keys -> Hashes \cup {None}] /\ entry' \in [Keys -> {"none", "awaited", "live", "expired"}]
    BY <1>3, <1>13 DEF Outlived, Finishes
  <2> QED
    BY <1>13, <2>1, <2>2 DEF Outlived, sourceVars, threadVars, ThreadTypeOK, Finishes
<1> QED
  BY <1>5, <1>6, <1>7, <1>8, <1>9, <1>10, <1>11, <1>12, <1>13 DEF TaskStep

\* What the update thread finds when it handles a report: the metadata stays of
\* its type, so that every update has an index to start with.
LEMMA MetaAfterTypes ==
  ASSUME UpdatesTypeOK, NEW src \in Indexes, NEW id \in Ids, NEW u \in Reports
  PROVE  MetaAfter(id, u, src) \in Metadata
<1>1. meta[id] \in Metadata /\ FindData(id) \in Metadata
  BY FindTypes DEF UpdatesTypeOK
<1>2. u.kind \in {"added", "modified"} => u.hash \in Hashes
  BY DEF Reports
<1>3. u.kind \in {"added", "modified", "removed", "moved"}
  BY DEF Reports
<1>4. [meta[id] EXCEPT !.idx = src] \in Metadata
  BY <1>1 DEF Metadata
<1>5. CASE Updates(id, u, src) /\ u.kind = "removed"
  BY <1>5, <1>1 DEF MetaAfter
<1>6. CASE Updates(id, u, src) /\ u.kind # "removed"
  <2>1. u.kind \in {"added", "modified"}
    BY <1>3, <1>6 DEF Updates
  <2>2. [hash |-> u.hash, idx |-> src] \in Metadata
    BY <2>1, <1>2 DEF Metadata
  <2> QED
    BY <2>2, <1>6 DEF MetaAfter
<1>7. CASE ~ Updates(id, u, src)
  BY <1>7, <1>1, <1>4 DEF MetaAfter
<1> QED
  BY <1>5, <1>6, <1>7

LEMMA StartAllTypes ==
  ASSUME TaskTypeOK, NEW K \in SUBSET Keys, NEW m \in Metadata, StartAll(K, m)
  PROVE  TaskTypeOK'
<1> DEFINE starting == {k \in K : Startable(k)}
<1>1. m.idx \in Indexes
  BY DEF Metadata
<1>2. late' \subseteq Keys \X Indexes
  <2>1. \A k \in Keys : step[k] = "watch" => found[k].idx \in Indexes
    BY DEF TaskTypeOK, Metadata
  <2>2. late' = late \cup {<<k, found[k].idx>> : k \in {j \in starting : step[j] = "watch"}}
    BY DEF StartAll
  <2>3. \A k \in starting : step[k] = "watch" => k \in Keys
    BY DEF TaskTypeOK, Startable, Steps
  <2> QED
    BY <2>1, <2>2 DEF TaskTypeOK
<1>3. value' \in [Keys -> Hashes \cup {None}]
  <2>1. PICK W \in SUBSET {k \in starting \ Virtual : step[k] = "write"} :
          value' = [k \in Keys |-> IF k \in W THEN found[k].hash ELSE value[k]]
    BY DEF StartAll
  <2>2. \A k \in W : found[k].hash \in Hashes \cup {None}
    BY DEF TaskTypeOK, Metadata
  <2> QED
    BY <2>1, <2>2 DEF TaskTypeOK
<1>4. /\ update' = [k \in Keys |-> IF k \in starting THEN m.idx ELSE update[k]]
      /\ step' = [k \in Keys |-> IF k \in starting THEN "held" ELSE step[k]]
      /\ found' = [k \in Keys |-> IF k \in starting THEN None ELSE found[k]]
      /\ entry' = [k \in Keys |-> IF k \in K \ starting THEN "none" ELSE entry[k]]
  BY DEF StartAll
<1> HIDE DEF starting
<1>5. /\ update' \in [Keys -> Indexes \cup {None}]
      /\ found' \in [Keys -> Metadata \cup {None}]
      /\ entry' \in [Keys -> {"none", "awaited", "live", "expired"}]
  BY <1>1, <1>4 DEF TaskTypeOK
<1>6. /\ step' \in [Keys -> Steps]
      /\ \A k \in Keys : step'[k] = "held" \/ (step'[k] = step[k] /\ found'[k] = found[k])
  BY <1>4 DEF TaskTypeOK, Steps
<1> QED
  BY <1>2, <1>3, <1>5, <1>6, ResourcesAssumption DEF TaskTypeOK

\* Steps of the update thread.
LEMMA ThreadTypes ==
  ASSUME UpdatesTypeOK, WellFormed(graph), UpdateThread
  PROVE  UpdatesTypeOK'
<1> USE DEF UpdatesTypeOK
<1>1. \A id \in Ids : KeysForId(graph, id) \subseteq Keys /\ TriggeredBy(id) \subseteq Keys
  BY DEF WellFormed, Graphs, KeysForId, TriggeredBy, RecursiveDependents
<1>2. CASE Receive
  <2> DEFINE msg == Head(watch.sent)
  <2>1. msg \in Messages /\ Tail(watch.sent) \in Seq(Messages)
    BY <1>2 DEF WatchStates, Receive
  <2>2. watch' \in WatchStates
    BY <1>2, <2>1 DEF Receive, WatchStates
  <2>3. job' \in Jobs /\ job'.id = None
    BY <1>2, <2>1 DEF Receive, Jobs, Messages
  <2>4. heard' \in [listed : SUBSET Keys, joined : SUBSET Keys]
    BY <1>1, <1>2 DEF Receive
  <2> QED
    BY <1>2, <2>2, <2>3, <2>4 DEF Receive, sourceVars, taskVars, TaskTypeOK, ThreadTypeOK
<1>3. ASSUME NEW id \in Ids, AskGraph(id)
      PROVE  UpdatesTypeOK'
  <2>1. job' \in Jobs /\ job'.id = id /\ job'.updates = job.updates
    BY <1>1, <1>3 DEF AskGraph, ThreadTypeOK, Jobs
  <2> QED
    BY <1>3, <2>1 DEF AskGraph, sourceVars, taskVars, TaskTypeOK, ThreadTypeOK
<1>4. CASE StartId
  <2> DEFINE id == job.id
             u  == job.updates[id]
             of == {k \in Keys \ Virtual : IdOf[k] = id}
             rest == [i \in DOMAIN job.updates \ {id} |-> job.updates[i]]
  <2>1. job \in Jobs /\ id \in DOMAIN job.updates
    BY <1>4 DEF StartId, ThreadTypeOK
  <2>2. job.src \in Indexes /\ id \in Ids /\ u \in Reports
    BY <2>1 DEF Jobs
  <2>3. MetaAfter(id, u, job.src) \in Metadata
    BY <2>2, MetaAfterTypes
  <2>4. meta' = [meta EXCEPT ![id] = MetaAfter(id, u, job.src)]
    BY <1>4 DEF StartId
  <2>5. meta' \in [Ids -> Metadata] /\ meta'[id] \in Metadata
    BY <2>2, <2>3, <2>4
  <2>6. rest \in UNION {[S -> Reports] : S \in SUBSET Ids}
    <3>1. PICK S \in SUBSET Ids : job.updates \in [S -> Reports]
      BY <2>1 DEF Jobs
    <3>2. rest \in [S \ {id} -> Reports]
      BY <3>1
    <3> QED
      BY <3>2
  <2>7. job' \in Jobs /\ job'.id = None
    <3> DEFINE left == [job EXCEPT !.updates = rest, !.id = None, !.keys = {}, !.above = {}]
    <3>1. left \in Jobs /\ left.id = None
      BY <2>1, <2>6 DEF Jobs
    <3>2. \/ job' = [left EXCEPT !.queued = @ \cup {k \in of : Startable(k)}, !.dependent = @ \cup job.above]
          \/ job' = [left EXCEPT !.queued = @ \cup job.keys, !.skipped = @ \cup {id}]
      BY <1>4 DEF StartId
    <3>3. {k \in of : Startable(k)} \subseteq Keys /\ job.above \subseteq Keys /\ job.keys \subseteq Keys
      BY <2>1 DEF Jobs
    <3> HIDE DEF left, of
    <3>4. CASE job' = [left EXCEPT !.queued = @ \cup {k \in of : Startable(k)}, !.dependent = @ \cup job.above]
      BY <3>1, <3>3, <3>4 DEF Jobs
    <3>5. CASE job' = [left EXCEPT !.queued = @ \cup job.keys, !.skipped = @ \cup {id}]
      BY <2>2, <3>1, <3>3, <3>5 DEF Jobs
    <3> QED
      BY <3>2, <3>4, <3>5
  <2>8. TaskTypeOK'
    <3>1. CASE StartAll(of, meta'[id])
      BY <2>5, <3>1, StartAllTypes
    <3>2. CASE UNCHANGED <<entry, value, taskVars>>
      BY <3>2 DEF taskVars, TaskTypeOK
    <3> QED
      BY <1>4, <3>1, <3>2 DEF StartId
  <2> QED
    BY <1>4, <2>5, <2>7, <2>8 DEF StartId, sourceVars, ThreadTypeOK
<1>5. ASSUME NEW k \in Keys, StartDependent(k)
      PROVE  UpdatesTypeOK'
  <2> DEFINE of == {j \in Keys : IdOf[j] = IdOf[k] /\ TypeOf[j] = TypeOf[k]}
  <2>1. TaskTypeOK'
    <3>1. StartAll(of, meta[IdOf[k]]) /\ meta[IdOf[k]] \in Metadata
      BY <1>5, GraphAssumption DEF StartDependent
    <3> HIDE DEF of
    <3> QED
      BY <3>1, StartAllTypes DEF of
  <2>2. job' \in Jobs /\ job'.id = job.id /\ job'.updates = job.updates
    BY <1>5 DEF StartDependent, ThreadTypeOK, Jobs
  <2> QED
    BY <1>5, <2>1, <2>2 DEF StartDependent, sourceVars, ThreadTypeOK
<1>6. CASE StartUpdates
  <2>1. step' = [k \in Keys |-> IF step[k] = "held" THEN FirstStep(k) ELSE step[k]]
    BY <1>6 DEF StartUpdates
  <2>2. \A k \in Keys : FirstStep(k) = IF k \in Virtual THEN "parse" ELSE "find"
    BY DEF FirstStep
  <2>3. TaskTypeOK'
    BY <1>6, <2>1, <2>2, ResourcesAssumption DEF StartUpdates, TaskTypeOK, Steps
  <2> QED
    BY <1>6, <2>3 DEF StartUpdates, sourceVars, ThreadTypeOK
<1> QED
  BY <1>2, <1>3, <1>4, <1>5, <1>6 DEF UpdateThread

LEMMA StepTypes ==
  ASSUME UpdatesTypeOK, WellFormed(graph), [Next]_resourceVars
  PROVE  UpdatesTypeOK'
<1> USE DEF UpdatesTypeOK
<1>1. CASE UNCHANGED resourceVars
  BY <1>1 DEF resourceVars, sourceVars, taskVars, threadVars, TaskTypeOK, ThreadTypeOK
<1>2. ASSUME NEW f \in Files, NEW id \in Ids, NEW h \in Hashes \cup {None}, ChangeFile(f, id, h)
      PROVE  UpdatesTypeOK'
  BY <1>2, ChangeTypes
<1>3. ASSUME NEW f \in Files, NEW place \in 0 .. MaxIndex, InsertSource(f, place)
      PROVE  UpdatesTypeOK'
  <2>1. Nested \in Sources /\ f \in Sources
    BY ResourcesAssumption DEF Files
  <2>2. InsertChild(watch, data, Nested, place, f) \in WatchStates
    BY <1>3, <2>1, InsertTypes DEF InsertSource, Contained
  <2> QED
    BY <1>3, <2>2 DEF InsertSource, taskVars, threadVars, TaskTypeOK, ThreadTypeOK
<1>4. ASSUME NEW place \in 0 .. MaxIndex, RemoveSource(place)
      PROVE  UpdatesTypeOK'
  <2>1. Nested \in Sources
    BY ResourcesAssumption
  <2>2. RemoveChild(watch, data, Nested, place) \in WatchStates
    BY <1>4, <2>1, RemoveTypes DEF RemoveSource, Contained
  <2> QED
    BY <1>4, <2>2 DEF RemoveSource, taskVars, threadVars, TaskTypeOK, ThreadTypeOK
<1>5. ASSUME NEW k \in Keys, Load(k) \/ Expire(k) \/ TaskStep(k)
      PROVE  UpdatesTypeOK'
  BY <1>5, TaskTypes
<1>6. ASSUME NEW l \in late, WatchLate(l[1], l[2])
      PROVE  UpdatesTypeOK'
  <2>1. l[1] \in Keys /\ IdOf[l[1]] \in Ids
    BY GraphAssumption DEF TaskTypeOK
  <2>2. WatchN(watch, IdOf[l[1]], l[2]) \in WatchStates
    BY <2>1, WatchNTypes
  <2>3. known' \subseteq Keys
    BY <1>6, <2>1 DEF WatchLate, Watched
  <2> QED
    BY <1>6, <2>2, <2>3 DEF WatchLate, sourceVars, threadVars, TaskTypeOK, ThreadTypeOK
<1>7. CASE UpdateThread
  BY <1>7, ThreadTypes
<1>8. CASE DropManager
  <2>1. <<>> \in Seq(Messages)
    OBVIOUS
  <2>2. watch' \in WatchStates
    BY <1>8, <2>1 DEF DropManager, StopUpdates, WatchStates
  <2>3. TaskTypeOK'
    BY <1>8, ResourcesAssumption DEF DropManager, TaskTypeOK, Steps
  <2> QED
    BY <1>8, <2>2, <2>3 DEF DropManager, StopUpdates, sourceVars, ThreadTypeOK
<1>9. CASE Gone
  BY <1>9 DEF Gone, resourceVars, sourceVars, taskVars, threadVars, TaskTypeOK, ThreadTypeOK
<1> QED
  BY <1>1, <1>2, <1>3, <1>4, <1>5, <1>6, <1>7, <1>8, <1>9 DEF Next

\* The indexes and reports that the watchers pass on are of their type, a load that
\* has something to note has found it, and something is found for every id.
THEOREM UpdatesTypeCorrect == Spec => []UpdatesTypeOK
<1>1. UpdatesTypeOK /\ WellFormed(graph) /\ [Next]_resourceVars => UpdatesTypeOK'
  BY StepTypes
<1> QED
  BY <1>1, InitTypes, GraphStaysWellFormed, PTL DEF Spec

-----------------------------------------------------------------------------
(* What depends on a resource that is reported is updated too.              *)

\* Fewer dependents of each, fewer through others.
LEMMA FewerDependents ==
  ASSUME NEW g, NEW h, \A d \in Keys : h.dependents[d] \subseteq g.dependents[d], NEW k \in Keys
  PROVE  RecursiveDependents(h, k) \subseteq RecursiveDependents(g, k)
<1> SUFFICES ASSUME NEW x \in RecursiveDependents(h, k), NEW S \in SUBSET Keys,
                    g.dependents[k] \subseteq S, \A d \in S : g.dependents[d] \subseteq S
             PROVE  x \in S
  BY DEF RecursiveDependents
<1>1. h.dependents[k] \subseteq S /\ \A d \in S : h.dependents[d] \subseteq S
  OBVIOUS
<1> QED
  BY <1>1 DEF RecursiveDependents

\* MadeWithHelp(k), for any graph and any set J of those who joined it.
Helped(g, J, k) == RecursiveDependents([g EXCEPT !.dependents = [d \in Keys |-> @[d] \ J]], k)

\* They depended on k before.
LEMMA HelpedBefore ==
  ASSUME NEW g, WellFormed(g), NEW J, NEW k \in Keys
  PROVE  /\ Helped(g, J, k) \subseteq RecursiveDependents(g, k)
         /\ Helped(g, J, k) \subseteq Keys \ J
         /\ g.dependents[k] \subseteq J => Helped(g, J, k) = {}
<1> DEFINE h == [g EXCEPT !.dependents = [d \in Keys |-> @[d] \ J]]
<1>1. \A d \in Keys : h.dependents[d] = g.dependents[d] \ J /\ g.dependents[d] \subseteq Keys
  BY DEF WellFormed, Graphs
<1>2. Helped(g, J, k) = RecursiveDependents(h, k)
  BY DEF Helped
<1> HIDE DEF h
<1>3. RecursiveDependents(h, k) \subseteq RecursiveDependents(g, k)
  BY <1>1, FewerDependents
<1>4. ASSUME NEW S \in SUBSET Keys, h.dependents[k] \subseteq S, \A d \in S : h.dependents[d] \subseteq S
      PROVE  Helped(g, J, k) \subseteq S
  BY <1>2, <1>4 DEF RecursiveDependents
<1>5. Helped(g, J, k) \subseteq Keys \ J
  <2>1. \A d \in Keys : h.dependents[d] \subseteq Keys \ J
    BY <1>1
  <2> QED
    BY <2>1, <1>4
<1>6. g.dependents[k] \subseteq J => Helped(g, J, k) \subseteq {}
  BY <1>1, <1>4
<1> QED
  BY <1>2, <1>3, <1>5, <1>6

\* One who joins makes them fewer.
LEMMA HelpedShrinks ==
  ASSUME NEW g, WellFormed(g), NEW h, WellFormed(h), NEW J, NEW k,
         \A d \in Keys : h.dependents[d] \ {k} \subseteq g.dependents[d], NEW j \in Keys
  PROVE  Helped(h, J \cup {k}, j) \subseteq Helped(g, J, j)
<1> DEFINE old == [g EXCEPT !.dependents = [d \in Keys |-> @[d] \ J]]
           new == [h EXCEPT !.dependents = [d \in Keys |-> @[d] \ (J \cup {k})]]
<1>1. \A d \in Keys : new.dependents[d] \subseteq old.dependents[d]
  BY DEF WellFormed, Graphs
<1>2. /\ Helped(g, J, j) = RecursiveDependents(old, j)
      /\ Helped(h, J \cup {k}, j) = RecursiveDependents(new, j)
  BY DEF Helped
<1> HIDE DEF old, new
<1>3. RecursiveDependents(new, j) \subseteq RecursiveDependents(old, j)
  BY <1>1, FewerDependents
<1> QED
  BY <1>2, <1>3

\* A key that the graph has known as what it is since the message came.
Known(k) == k \notin heard.joined /\ (k \in heard.listed \/ graph.dependencies[k] # {})

\* The message's update of d has been started, or there was nothing to start.
Begun(d) == step[d] = "held" \/ (update[d] = None /\ entry[d] # "live")

\* Between the steps of the update thread: what depends on a reported resource
\* waits to be started, or has been; what depends on a resource of the id that the
\* graph has been asked for is remembered; and the key map has not lost a key that
\* others have depended on all the time.
JobInv ==
  /\ \A k \in Keys : step[k] = "held" => update[k] # None
  /\ job # None =>
       /\ \A k \in Keys : Known(k) =>
            graph.dependents[k] \subseteq heard.joined \/ k \in KeysForId(graph, IdOf[k])
       /\ job.id # None =>
            /\ \A k \in job.keys : IdOf[k] = job.id
            /\ \A k \in Keys : IdOf[k] = job.id /\ Known(k) => MadeWithHelp(k) \subseteq job.above
       /\ \A k \in Reported : step[k] = "held"
       /\ \A k \in Reported : Known(k) => \A d \in MadeWithHelp(k) : d \in job.dependent \/ Begun(d)

\* A step that neither the thread nor the graph takes.
LEMMA OthersKeepJob ==
  ASSUME UpdatesTypeOK, WellFormed(graph), JobInv, UNCHANGED <<job, heard, graph>>,
         \A k \in Keys : Begun(k) => Begun(k)',
         \A k \in Keys : step[k] = "held" => step'[k] = "held",
         \A k \in Keys : step'[k] = "held" => update'[k] # None
  PROVE  JobInv'
<1>1. \A k \in Keys : Known(k)' = Known(k) /\ MadeWithHelp(k)' = MadeWithHelp(k)
  BY DEF Known, MadeWithHelp
<1>2. Reported' = Reported /\ (job # None => Reported \subseteq Keys)
  BY DEF Reported, UpdatesTypeOK, ThreadTypeOK, Jobs
<1>3. \A k \in Keys : MadeWithHelp(k) \subseteq Keys
  BY DEF MadeWithHelp, RecursiveDependents
<1> QED
  BY <1>1, <1>2, <1>3 DEF JobInv

\* A load or an update records what it took.
LEMMA ResultsKeepJob ==
  ASSUME UpdatesTypeOK, WellFormed(graph), JobInv, NEW k \in Keys, Loaded(k) \/ Apply(k)
  PROVE  JobInv'
<1>1. PICK D \in SUBSET Keys : graph' = SetDependencies(graph, k, D)
  BY DEF Loaded, Apply, Applied
<1>2. WellFormed(graph')
  BY <1>1, SetKeepsWellFormed
<1>3. \A j \in Keys : j # k => /\ step'[j] = step[j] /\ update'[j] = update[j] /\ entry'[j] = entry[j]
                               /\ graph'.dependencies[j] = graph.dependencies[j]
  <2>1. \A j \in Keys : j # k => graph'.dependencies[j] = graph.dependencies[j]
    BY <1>1 DEF SetDependencies, ClearDependencies, Link, WellFormed, Graphs
  <2> QED
    BY <2>1 DEF Loaded, Apply, Goes, Finishes, UpdatesTypeOK, TaskTypeOK
<1>4. step[k] # "held" /\ step'[k] # "held" /\ job' = job
  BY DEF Loaded, Apply, Goes, Finishes, UpdatesTypeOK, TaskTypeOK
<1>5. \A d \in Keys : graph'.dependents[d] \ {k} \subseteq graph.dependents[d]
  BY <1>1 DEF SetDependencies, ClearDependencies, Link, WellFormed, Graphs
<1>6. \A j \in Keys : j \in KeysForId(graph, IdOf[j]) =>
        j = k \/ j \in KeysForId(graph', IdOf[j]) \/ graph.dependents[j] \subseteq {k}
  BY <1>1, GraphAssumption
  DEF SetDependencies, ClearDependencies, Link, KeysForId, Orphans, WellFormed, Graphs
<1>7. ASSUME job # None
      PROVE  JobInv'
  <2>1. heard'.joined = heard.joined \cup {k} /\ heard'.listed = heard.listed
    BY <1>7 DEF Loaded, Apply, Joined, UpdatesTypeOK, ThreadTypeOK
  <2>2. \A j \in Keys : Known(j)' => Known(j) /\ j # k
    BY <2>1, <1>3 DEF Known
  <2>3. \A j \in Keys : /\ MadeWithHelp(j) = Helped(graph, heard.joined, j)
                        /\ MadeWithHelp(j)' = Helped(graph', heard.joined \cup {k}, j)
    BY <2>1 DEF MadeWithHelp, Helped
  <2>4. \A j \in Keys : MadeWithHelp(j)' \subseteq MadeWithHelp(j) /\ MadeWithHelp(j)' \subseteq Keys \ {k}
    <3> SUFFICES ASSUME NEW j \in Keys
                 PROVE  MadeWithHelp(j)' \subseteq MadeWithHelp(j) /\ MadeWithHelp(j)' \subseteq Keys \ {k}
      OBVIOUS
    <3>1. Helped(graph', heard.joined \cup {k}, j) \subseteq Helped(graph, heard.joined, j)
      BY <1>2, <1>5, HelpedShrinks
    <3>2. Helped(graph', heard.joined \cup {k}, j) \subseteq Keys \ (heard.joined \cup {k})
      BY <1>2, HelpedBefore
    <3> QED
      BY <2>3, <3>1, <3>2
  <2>5. \A d \in Keys : d # k => (Begun(d)' <=> Begun(d))
    BY <1>3 DEF Begun
  <2>6. Reported' = Reported /\ Reported \subseteq Keys
    BY <1>4, <1>7 DEF Reported, UpdatesTypeOK, ThreadTypeOK, Jobs
  <2>7. \A j \in Keys : step'[j] = "held" => update'[j] # None
    BY <1>3, <1>4 DEF JobInv
  <2>8. \A j \in Keys : Known(j)' =>
          graph'.dependents[j] \subseteq heard'.joined \/ j \in KeysForId(graph', IdOf[j])
    BY <1>5, <1>6, <1>7, <2>1, <2>2 DEF JobInv
  <2>9. \A j \in Reported : step'[j] = "held"
    BY <1>3, <1>4, <1>7, <2>6 DEF JobInv
  <2>10. job.id # None =>
           /\ \A j \in job.keys : IdOf[j] = job.id
           /\ \A j \in Keys : IdOf[j] = job.id /\ Known(j)' => MadeWithHelp(j)' \subseteq job.above
    BY <1>7, <2>2, <2>4 DEF JobInv
  <2>11. \A j \in Reported : Known(j)' => \A d \in MadeWithHelp(j)' : d \in job.dependent \/ Begun(d)'
    BY <1>7, <2>2, <2>4, <2>5, <2>6 DEF JobInv
  <2> QED
    BY <1>4, <2>6, <2>7, <2>8, <2>9, <2>10, <2>11 DEF JobInv
<1>8. CASE job = None
  BY <1>3, <1>4, <1>8 DEF JobInv
<1> QED
  BY <1>7, <1>8

\* A key that the graph knew before the message is among those it is asked for.
LEMMA AskedForAll ==
  ASSUME WellFormed(graph), job # None, JobInv, NEW id \in Ids,
         NEW k \in Keys, IdOf[k] = id, Known(k)
  PROVE  MadeWithHelp(k) \subseteq TriggeredBy(id)
<1>1. MadeWithHelp(k) = Helped(graph, heard.joined, k)
  BY DEF MadeWithHelp, Helped
<1>2. CASE k \in KeysForId(graph, id)
  <2>1. k \in NodesForId(graph, id)
    BY <1>2 DEF NodesForId, KeysForId, WellFormed
  <2> QED
    BY <1>1, <2>1, HelpedBefore DEF TriggeredBy
<1>3. CASE k \notin KeysForId(graph, id)
  BY <1>1, <1>3, HelpedBefore DEF JobInv
<1> QED
  BY <1>2, <1>3

\* start_update of entries: those it starts are held, and the others are none.
LEMMA StartAllBegins ==
  ASSUME UpdatesTypeOK, NEW K \in SUBSET Keys, NEW m \in Metadata, StartAll(K, m)
  PROVE  /\ \A k \in K : Begun(k)' /\ (Startable(k) => step'[k] = "held")
         /\ \A k \in Keys : Begun(k) => Begun(k)'
         /\ \A k \in Keys : (step[k] = "held" => update[k] # None) =>
              /\ step[k] = "held" => step'[k] = "held"
              /\ step'[k] = "held" => update'[k] # None
<1>1. m.idx # None
  BY IndexTypes DEF Metadata
<1>2. \A k \in Keys :
        IF k \in K /\ Startable(k)
        THEN update'[k] = m.idx /\ step'[k] = "held" /\ entry'[k] = entry[k]
        ELSE update'[k] = update[k] /\ step'[k] = step[k]
  BY DEF StartAll
<1>3. \A k \in Keys : entry'[k] = IF k \in K /\ ~Startable(k) THEN "none" ELSE entry[k]
  BY DEF StartAll
<1> QED
  BY <1>1, <1>2, <1>3 DEF Begun, Startable

LEMMA ThreadKeepsJob ==
  ASSUME UpdatesTypeOK, WellFormed(graph), JobInv, UpdateThread
  PROVE  JobInv'
<1>1. job # None => /\ job \in Jobs
                    /\ job.id # None => job.id \in DOMAIN job.updates /\ job.id \in Ids
  BY DEF UpdatesTypeOK, ThreadTypeOK, Jobs
<1>2. CASE Receive
  <2>1. /\ job'.id = None /\ job'.queued = {} /\ heard'.joined = {}
        /\ heard'.listed = UNION {KeysForId(graph, id) : id \in Ids}
        /\ UNCHANGED <<graph, step, update>>
    BY <1>2 DEF Receive, taskVars
  <2>2. \A k \in Keys : Known(k)' => k \in KeysForId(graph, IdOf[k])
    BY <2>1, GraphAssumption DEF Known, WellFormed, KeysForId
  <2> QED
    BY <2>1, <2>2 DEF JobInv, Reported
<1>3. ASSUME NEW id \in Ids, AskGraph(id)
      PROVE  JobInv'
  <2>1. /\ job'.id = id /\ job'.keys = KeysForId(graph, id) /\ job'.above = TriggeredBy(id)
        /\ job'.queued = job.queued /\ job'.dependent = job.dependent /\ job'.skipped = job.skipped
        /\ UNCHANGED <<graph, heard, step, update, entry>> /\ job # None
    BY <1>1, <1>3 DEF AskGraph, taskVars, Jobs
  <2>2. \A k \in Keys : Known(k)' = Known(k) /\ MadeWithHelp(k)' = MadeWithHelp(k) /\ Begun(k)' = Begun(k)
    BY <2>1 DEF Known, MadeWithHelp, Begun
  <2>3. Reported' = Reported /\ Reported \subseteq Keys
    BY <1>1, <2>1 DEF Reported, Jobs
  <2>4. \A k \in KeysForId(graph, id) : IdOf[k] = id
    BY DEF KeysForId, WellFormed
  <2>5. \A k \in Keys : MadeWithHelp(k) \subseteq Keys
    BY DEF MadeWithHelp, RecursiveDependents
  <2> QED
    BY <2>1, <2>2, <2>3, <2>4, <2>5, AskedForAll DEF JobInv
<1>4. CASE StartId
  <2> DEFINE id == job.id
             of == {k \in Keys \ Virtual : IdOf[k] = id}
             u  == job.updates[id]
             ready == {k \in of : Startable(k)}
  <2>1. /\ job # None /\ job \in Jobs /\ id \in DOMAIN job.updates /\ id \in Ids /\ id # None
        /\ UNCHANGED <<heard, graph>>
    BY <1>1, <1>4 DEF StartId
  <2>2. \A k \in Keys : Known(k)' = Known(k) /\ MadeWithHelp(k)' = MadeWithHelp(k)
                        /\ MadeWithHelp(k) \subseteq Keys
    BY <2>1 DEF Known, MadeWithHelp, RecursiveDependents
  <2>3. job'.id = None
    BY <1>4, <2>1 DEF StartId, Jobs
  <2>4. CASE Updates(id, u, job.src)
    <3>1. /\ StartAll(of, meta'[id]) /\ job'.queued = job.queued \cup ready
          /\ job'.dependent = job.dependent \cup job.above /\ job'.skipped = job.skipped
      BY <1>4, <2>1, <2>4 DEF StartId, Jobs
    <3>2. meta'[id] \in Metadata
      BY <1>4, ThreadTypes, <2>1 DEF UpdatesTypeOK
    <3> HIDE DEF of, id
    <3>3. of \in SUBSET Keys /\ \A k \in ready : IdOf[k] = id /\ k \in Keys
      BY DEF of
    <3>4. /\ \A k \in of : Begun(k)' /\ (Startable(k) => step'[k] = "held")
          /\ \A k \in Keys : Begun(k) => Begun(k)'
          /\ \A k \in Keys : (step[k] = "held" => step'[k] = "held") /\ (step'[k] = "held" => update'[k] # None)
      BY <3>1, <3>2, <3>3, StartAllBegins DEF JobInv
    <3>5. Reported' \subseteq Reported \cup ready /\ Reported \subseteq Keys
      BY <2>1, <3>1 DEF Reported, Jobs
    <3>6. \A k \in Reported' : step'[k] = "held"
      BY <2>1, <3>4, <3>5 DEF JobInv
    <3>7. \A k \in Reported' : Known(k)' => \A d \in MadeWithHelp(k)' : d \in job'.dependent \/ Begun(d)'
      <4>1. \A k \in ready : Known(k) => MadeWithHelp(k) \subseteq job.above
        BY <2>1, <3>3 DEF JobInv, id
      <4>2. \A k \in Reported : Known(k) => \A d \in MadeWithHelp(k) : d \in job.dependent \/ Begun(d)
        BY <2>1 DEF JobInv
      <4> HIDE DEF ready
      <4> QED
        BY <2>2, <3>1, <3>3, <3>4, <3>5, <4>1, <4>2
    <3> QED
      BY <2>1, <2>2, <2>3, <3>4, <3>6, <3>7 DEF JobInv
  <2>5. CASE ~Updates(id, u, job.src)
    <3>1. /\ job'.queued = job.queued \cup job.keys /\ job'.skipped = job.skipped \cup {id}
          /\ job'.dependent = job.dependent /\ UNCHANGED <<entry, update, step>>
      BY <1>4, <2>1, <2>5 DEF StartId, Jobs, taskVars
    <3>2. \A k \in Keys : Begun(k)' = Begun(k)
      BY <3>1 DEF Begun
    <3>3. Reported' \subseteq Reported /\ Reported \subseteq Keys
      <4>1. \A k \in job.keys : IdOf[k] = id
        BY <2>1 DEF JobInv
      <4> QED
        BY <2>1, <3>1, <4>1 DEF Reported, Jobs
    <3> QED
      BY <2>1, <2>2, <2>3, <3>1, <3>2, <3>3 DEF JobInv
  <2> QED
    BY <2>4, <2>5
<1>5. ASSUME NEW k \in Keys, StartDependent(k)
      PROVE  JobInv'
  <2> DEFINE of == {j \in Keys : IdOf[j] = IdOf[k] /\ TypeOf[j] = TypeOf[k]}
  <2>1. /\ StartAll(of, meta[IdOf[k]]) /\ job # None /\ job \in Jobs
        /\ UNCHANGED <<heard, graph>>
        /\ job'.dependent = job.dependent \ {k} /\ job'.queued = job.queued /\ job'.skipped = job.skipped
        /\ job'.id = job.id /\ job'.keys = job.keys /\ job'.above = job.above
    BY <1>1, <1>5 DEF StartDependent, Jobs
  <2>2. \A j \in Keys : Known(j)' = Known(j) /\ MadeWithHelp(j)' = MadeWithHelp(j)
                        /\ MadeWithHelp(j) \subseteq Keys
    BY <2>1 DEF Known, MadeWithHelp, RecursiveDependents
  <2>3. k \in of /\ of \in SUBSET Keys /\ meta[IdOf[k]] \in Metadata
    BY GraphAssumption DEF UpdatesTypeOK
  <2> HIDE DEF of
  <2>4. /\ Begun(k)' /\ \A j \in Keys : Begun(j) => Begun(j)'
        /\ \A j \in Keys : (step[j] = "held" => step'[j] = "held") /\ (step'[j] = "held" => update'[j] # None)
    BY <2>1, <2>3, StartAllBegins DEF JobInv
  <2>5. Reported' = Reported /\ Reported \subseteq Keys
    BY <2>1 DEF Reported, Jobs
  <2> QED
    BY <2>1, <2>2, <2>4, <2>5 DEF JobInv
<1>6. CASE StartUpdates
  <2>1. job' = None /\ \A k \in Keys : step'[k] # "held"
    BY <1>6 DEF StartUpdates, FirstStep
  <2> QED
    BY <2>1 DEF JobInv
<1> QED
  BY <1>2, <1>3, <1>4, <1>5, <1>6 DEF UpdateThread

LEMMA StepsKeepJob ==
  ASSUME UpdatesTypeOK, WellFormed(graph), JobInv, [Next]_resourceVars
  PROVE  JobInv'
<1>1. UNCHANGED <<job, heard, graph, entry, update, step>> => JobInv'
  BY OthersKeepJob DEF Begun, JobInv
<1>2. CASE UNCHANGED resourceVars
  BY <1>1, <1>2 DEF resourceVars, taskVars, threadVars
<1>3. ASSUME NEW f \in Files, NEW id \in Ids, NEW h \in Hashes \cup {None}, ChangeFile(f, id, h)
      PROVE  JobInv'
  BY <1>1, <1>3 DEF ChangeFile, taskVars, threadVars
<1>4. ASSUME NEW f \in Files, NEW place \in 0 .. MaxIndex, InsertSource(f, place)
      PROVE  JobInv'
  BY <1>1, <1>4 DEF InsertSource, taskVars, threadVars
<1>5. ASSUME NEW place \in 0 .. MaxIndex, RemoveSource(place)
      PROVE  JobInv'
  BY <1>1, <1>5 DEF RemoveSource, taskVars, threadVars
<1>6. ASSUME NEW l \in late, WatchLate(l[1], l[2])
      PROVE  JobInv'
  BY <1>1, <1>6 DEF WatchLate, threadVars
<1>7. ASSUME NEW k \in Keys, Loaded(k) \/ Apply(k)
      PROVE  JobInv'
  BY <1>7, ResultsKeepJob
<1>8. ASSUME NEW k \in Keys,
             Load(k) \/ Expire(k) \/ Find(k) \/ Note(k) \/ WatchLoaded(k) \/ Write(k) \/ Outlived(k)
      PROVE  JobInv'
  <2>1. UNCHANGED <<job, heard, graph>>
    BY <1>8 DEF Load, Expire, Find, Note, WatchLoaded, Write, Outlived, threadVars
  <2>2. \A j \in Keys : j # k => step'[j] = step[j] /\ update'[j] = update[j] /\ entry'[j] = entry[j]
    BY <1>8 DEF Load, Expire, Find, Note, WatchLoaded, Write, Outlived, Goes, Finishes, taskVars,
                UpdatesTypeOK, TaskTypeOK
  <2>3. /\ step[k] = "held" => step'[k] = "held" /\ update'[k] = update[k]
        /\ step'[k] = "held" => step[k] = "held"
        /\ update[k] = None /\ entry[k] # "live" => update'[k] = None /\ entry'[k] # "live"
    <3>1. CASE Load(k)
      BY <3>1 DEF Load, FirstStep, JobInv, UpdatesTypeOK, TaskTypeOK
    <3>2. CASE Expire(k)
      BY <3>2 DEF Expire, taskVars, UpdatesTypeOK, TaskTypeOK
    <3>3. CASE Find(k) \/ Note(k) \/ WatchLoaded(k) \/ Write(k)
      BY <3>3 DEF Find, Note, WatchLoaded, Write, Goes, Finishes, UpdatesTypeOK, TaskTypeOK
    <3>4. CASE Outlived(k)
      BY <3>4 DEF Outlived, Goes, Finishes, UpdatesTypeOK, TaskTypeOK
    <3> QED
      BY <1>8, <3>1, <3>2, <3>3, <3>4
  <2> QED
    BY <2>1, <2>2, <2>3, OthersKeepJob DEF Begun, JobInv
<1>9. CASE UpdateThread
  BY <1>9, ThreadKeepsJob
<1>10. CASE DropManager
  BY <1>10 DEF DropManager, StopUpdates, JobInv
<1>11. CASE Gone
  BY <1>1, <1>11 DEF Gone, resourceVars, taskVars, threadVars
<1> QED
  BY <1>2, <1>3, <1>4, <1>5, <1>6, <1>7, <1>8, <1>9, <1>10, <1>11 DEF Next, TaskStep

\* However loads and updates, their ends and the steps of the update thread follow
\* each other: when the updates of a message start, those of the resources in use that
\* were made with the help of a reported one start as well, be it through others.
THEOREM DependentsAreUpdated == Spec => DependentsUpdateToo
<1>1. Init => JobInv
  BY DEF Init, JobInv
<1>2. UpdatesTypeOK /\ WellFormed(graph) /\ JobInv /\ [Next]_resourceVars => JobInv'
  BY StepsKeepJob
<1>3. ASSUME WellFormed(graph), JobInv, StartUpdates,
             NEW k \in Reported \ heard.joined, k \in heard.listed \/ graph.dependencies[k] # {},
             NEW d \in MadeWithHelp(k), entry[d] = "live", IdOf[d] \notin job.skipped
      PROVE  step[d] = "held"
  <2>1. Known(k) /\ job # None
    BY <1>3 DEF Known, StartUpdates
  <2>2. CASE d \in job.dependent
    <3>1. d \in Reported
      BY <1>3, <2>2 DEF StartUpdates, Reported
    <3> QED
      BY <1>3, <2>1, <3>1 DEF JobInv
  <2>3. CASE d \notin job.dependent
    BY <1>3, <2>1, <2>3 DEF JobInv, Begun
  <2> QED
    BY <2>2, <2>3
<1>4. WellFormed(graph) /\ JobInv /\ StartUpdates =>
        \A k \in Reported \ heard.joined : k \in heard.listed \/ graph.dependencies[k] # {} =>
          \A d \in MadeWithHelp(k) : entry[d] = "live" /\ IdOf[d] \notin job.skipped => step[d] = "held"
  BY <1>3
<1> QED
  BY <1>1, <1>2, <1>4, UpdatesTypeCorrect, GraphStaysWellFormed, PTL DEF Spec, DependentsUpdateToo

-----------------------------------------------------------------------------
(* Loads that ask for other resources.                                      *)

Loads == [tree : Askers \cup {Nobody}, parents : SUBSET Entries, todo : SUBSET Entries,
          futures : SUBSET Entries, deps : SUBSET Entries,
          result : {"none", "running", "made", "failed"}, under : Entries \cup {Nobody}]

\* An entry is loading as long as its load has a result to be taken, and then
\* forgets it.
TreesTypeOK ==
  /\ load \in [Entries -> Loads]
  /\ status \in [Entries -> {"none", "loading", "value", "error"}]
  /\ \A k \in Entries : status[k] # "loading" \/ load[k].result = "none" => load[k] = NoLoad

\* A loader that neither has returned what it made nor went its way.
Open(k) == load[k].result \in {"running", "failed"}

\* No load is under itself, nor waits for a key it is under.
AsksBelow ==
  \A k \in Entries : k \notin load[k].parents /\ load[k].futures \cap Parents(k) = {}

\* A load that was started for another is under all that the other is under,
\* for the other still waits for it, or has failed, which is remembered.
KnowsParents ==
  \A k \in Entries : Open(k) /\ load[k].under # Nobody =>
    LET z == load[k].under IN
    /\ z \in load[k].parents /\ load[z].parents \subseteq load[k].parents
    /\ \/ Running(z) /\ k \in load[z].futures
       \/ load[z].result = "failed"
       \/ status[z] = "error"

TreesInv == TreesTypeOK /\ AsksBelow /\ KnowsParents

\* A user that has not asked yet has no request.
AskersOK ==
  /\ request \in [Askers -> Entries \cup {Nobody}]
  /\ user \in [Askers -> {"away", "waiting", "holds", "done"}]
  /\ \A u \in Askers : user[u] = "away" => request[u] = Nobody

\* What a step does to the loads.  One that runs stays where it is; one that
\* begins is asked for by a user or by a loader that goes on; a loader that
\* awaits one load that runs does nothing; and it only asks for another load
\* when it has none.
TreeSteps ==
  /\ \A y \in Entries : Running(y) => load'[y].under = load[y].under /\ load'[y].tree = load[y].tree
  /\ \A y \in Entries : Running(y)' /\ ~Running(y) =>
       \/ load'[y].under = Nobody /\ load'[y].tree \in Askers /\ request'[load'[y].tree] = y
       \/ LET k == load'[y].under IN
          /\ k \in Entries /\ Running(k) /\ load'[k].result = "running" /\ y \in load'[k].futures
          /\ load'[y].tree = load[k].tree
  /\ \A z, x \in Entries :
       z \notin AtOnce /\ Running(z) /\ load[z].futures = {x} /\ Running(x) => load'[z] = load[z]
  /\ \A z \in Entries \ AtOnce :
       load'[z].futures \subseteq load[z].futures \/ (load[z].futures = {} /\ \E x : load'[z].futures \subseteq {x})

\* The fields of a load that is not there, and of one that starts.
LEMMA LoadFields ==
  /\ NoLoad \in Loads /\ NoLoad.result = "none" /\ NoLoad.under = Nobody
  /\ NoLoad.parents = {} /\ NoLoad.futures = {}
  /\ \A k, tree, P, z :
       LET l == NewLoad(k, tree, P, z) IN
       l.result = "running" /\ l.under = z /\ l.parents = P /\ l.futures = {} /\ l.tree = tree
BY DEF NoLoad, NewLoad, Loads

\* What asking for a key does to its entry: a load starts, or one is joined, or
\* the result of one is taken.
LEMMA FetchOutcomes ==
  ASSUME TreesTypeOK,
         NEW k \in Entries, NEW tree \in Askers \cup {Nobody}, NEW P \in SUBSET Entries,
         NEW z \in Entries \cup {Nobody}, NEW l \in [Entries -> Loads], l[k] = load[k],
         Fetch(k, tree, P, z, l)
  PROVE  /\ load' \in [Entries -> Loads]
         /\ status' \in [Entries -> {"none", "loading", "value", "error"}]
         /\ status'[k] # "loading" \/ load'[k].result = "none" => load'[k] = NoLoad
         /\ \A y \in Entries \ {k} : load'[y] = l[y] /\ status'[y] = status[y]
         /\ \/ load'[k] = NewLoad(k, tree, P, z) /\ ~Ready(k) /\ ~Refused(k)
            \/ Running(k) /\ load'[k] = load[k] /\ ~Ready(k) /\ ~Refused(k)
            \/ load'[k] = NoLoad /\ ~Running(k) /\ (Refused(k) => status'[k] = "error")
<1>1. NoLoad \in Loads /\ NewLoad(k, tree, P, z) \in Loads
  BY TreesAssumption DEF NoLoad, NewLoad, Loads
<1>2. load[k] \in Loads /\ (status[k] # "loading" \/ load[k].result = "none" => load[k] = NoLoad)
  BY DEF TreesTypeOK
<1>3. NoLoad.result = "none" /\ NewLoad(k, tree, P, z).result = "running"
  BY DEF NoLoad, NewLoad
<1>4. /\ load' \in [Entries -> Loads]
      /\ \A y \in Entries \ {k} : load'[y] = l[y]
      /\ load'[k] = IF Missing(k) THEN NewLoad(k, tree, P, z)
                    ELSE IF Pending(k) THEN load[k] ELSE NoLoad
  BY <1>1 DEF Fetch
<1>5. /\ status' \in [Entries -> {"none", "loading", "value", "error"}]
      /\ \A y \in Entries \ {k} : status'[y] = status[y]
      /\ status'[k] = IF Missing(k) \/ Pending(k) THEN "loading"
                      ELSE IF Ready(k) THEN "value" ELSE "error"
  BY DEF Fetch, TreesTypeOK
<1>6. CASE Missing(k)
  <2>1. status[k] # "loading" /\ status[k] # "error"
    BY <1>6 DEF Missing
  <2> QED
    BY <1>6, <1>4, <1>5, <2>1, <1>2, <1>3 DEF Ready, Refused
<1>7. CASE ~Missing(k) /\ Pending(k)
  <2>1. Running(k) /\ status[k] = "loading" /\ load[k].result = "running"
    BY <1>7, <1>2, <1>3 DEF Pending, Running
  <2> QED
    BY <1>7, <1>4, <1>5, <2>1 DEF Ready, Refused
<1>8. CASE ~Missing(k) /\ ~Pending(k)
  BY <1>8, <1>4, <1>5 DEF Ready, Pending
<1> QED
  BY <1>6, <1>7, <1>8

LEMMA TreesInvInit ==
  ASSUME TreesInit
  PROVE  TreesInv
<1>1. NoLoad \in Loads
  BY DEF NoLoad, Loads
<1>2. \A k \in Entries : load[k] = NoLoad /\ status[k] = "none"
  BY DEF TreesInit
<1>3. TreesTypeOK
  BY <1>1, <1>2 DEF TreesInit, TreesTypeOK
<1>4. AsksBelow
  BY <1>2, LoadFields DEF AsksBelow, Parents
<1>5. KnowsParents
  BY <1>2, LoadFields DEF KnowsParents, Open
<1> QED
  BY <1>3, <1>4, <1>5 DEF TreesInv

LEMMA RequestKeepsTrees ==
  ASSUME TreesInv, AskersOK,
         NEW u \in Askers, NEW k \in Entries, Request(u, k)
  PROVE  TreesInv' /\ TreeSteps
<1> USE DEF TreesInv
<1>1. load \in [Entries -> Loads] /\ {} \in SUBSET Entries /\ Nobody \in Entries \cup {Nobody}
  BY DEF TreesTypeOK
<1>2. Fetch(k, u, {}, Nobody, load)
  BY DEF Request
<1>3. /\ load' \in [Entries -> Loads]
      /\ status' \in [Entries -> {"none", "loading", "value", "error"}]
      /\ status'[k] # "loading" \/ load'[k].result = "none" => load'[k] = NoLoad
      /\ \A y \in Entries \ {k} : load'[y] = load[y] /\ status'[y] = status[y]
      /\ \/ load'[k] = NewLoad(k, u, {}, Nobody) /\ ~Ready(k) /\ ~Refused(k)
         \/ Running(k) /\ load'[k] = load[k] /\ ~Ready(k) /\ ~Refused(k)
         \/ load'[k] = NoLoad /\ ~Running(k) /\ (Refused(k) => status'[k] = "error")
  BY <1>1, <1>2, FetchOutcomes
<1>4. TreesTypeOK'
  BY <1>3 DEF TreesTypeOK
<1>5. AsksBelow'
  <2> SUFFICES ASSUME NEW y \in Entries
               PROVE  y \notin load'[y].parents /\ load'[y].futures \cap Parents(y)' = {}
    BY DEF AsksBelow
  <2>1. y \notin load[y].parents /\ load[y].futures \cap Parents(y) = {}
    BY DEF AsksBelow
  <2>2. load'[y] = load[y] \/ (load'[y].parents = {} /\ load'[y].futures = {})
    BY <1>3, LoadFields
  <2> QED
    BY <2>1, <2>2 DEF Parents
<1>6. KnowsParents'
  <2> SUFFICES ASSUME NEW y \in Entries, Open(y)', load'[y].under # Nobody
               PROVE  LET z == load'[y].under IN
                      /\ z \in load'[y].parents /\ load'[z].parents \subseteq load'[y].parents
                      /\ \/ load'[z].result = "running" /\ y \in load'[z].futures
                         \/ load'[z].result = "failed"
                         \/ status'[z] = "error"
    BY DEF KnowsParents, Running
  <2>1. load'[y] = load[y]
    BY <1>3, LoadFields DEF Open
  <2> DEFINE z == load[y].under
  <2>2. /\ z \in Entries /\ z \in load[y].parents /\ load[z].parents \subseteq load[y].parents
        /\ \/ Running(z) /\ y \in load[z].futures
           \/ load[z].result = "failed"
           \/ status[z] = "error"
    BY <2>1, <1>1 DEF KnowsParents, Open, Loads
  <2>3. CASE z # k
    <3>1. load'[z] = load[z] /\ status'[z] = status[z]
      BY <2>3, <2>2, <1>3
    <3> QED
      BY <3>1, <2>2, <2>1 DEF Running
  <2>4. CASE z = k /\ load'[k] = load[k] /\ Running(k)
    <3>1. status[k] # "error"
      BY <2>4, LoadFields DEF TreesTypeOK, Running
    <3> QED
      BY <2>4, <2>2, <2>1, <3>1 DEF Running
  <2>5. CASE z = k /\ load'[k] = NoLoad /\ ~Running(k) /\ (Refused(k) => status'[k] = "error")
    <3>1. status'[k] = "error" /\ load'[k].parents = {}
      BY <2>5, <2>2 DEF Refused, NoLoad
    <3> QED
      BY <3>1, <2>5, <2>2, <2>1
  <2>6. CASE z = k /\ load'[k] = NewLoad(k, u, {}, Nobody) /\ ~Ready(k) /\ ~Refused(k)
    <3>1. status[k] # "error" /\ load[k].result # "failed"
      BY <2>6 DEF Refused
    <3>2. Running(k)
      BY <2>6, <3>1, <2>2
    <3>3. load'[k] = load[k]
      BY <3>2, <1>2, <1>1 DEF Fetch, Missing, Running, Pending, TreesTypeOK, NoLoad
    <3> QED
      BY <3>2, <3>3, <2>4, <2>6
  <2> QED
    BY <1>3, <2>3, <2>4, <2>5, <2>6
<1>7. TreeSteps
  <2>1. request' = [request EXCEPT ![u] = k] /\ request \in [Askers -> Entries \cup {Nobody}]
    BY DEF Request, AskersOK
  <2>2. request'[u] = k
    BY <2>1
  <2>3. \A y \in Entries : Running(y) => load'[y] = load[y]
    <3>1. Running(k) => load'[k] = load[k]
      BY <1>2, <1>1, LoadFields DEF Fetch, Missing, Running, Pending, TreesTypeOK
    <3> QED
      BY <3>1, <1>3
  <2>4. \A y \in Entries : Running(y)' /\ ~Running(y) =>
          load'[y].under = Nobody /\ load'[y].tree \in Askers /\ request'[load'[y].tree] = y
    BY <1>3, <2>2, LoadFields DEF Running
  <2>5. \A z \in Entries : load'[z].futures \subseteq load[z].futures
    BY <1>3, LoadFields
  <2> QED
    BY <2>3, <2>4, <2>5 DEF TreeSteps
<1> QED
  BY <1>4, <1>5, <1>6, <1>7

LEMMA AskKeepsTrees ==
  ASSUME TreesInv,
         NEW k \in Entries, NEW d \in Entries, Ask(k, d)
  PROVE  TreesInv' /\ TreeSteps
<1> USE DEF TreesInv
<1> DEFINE tree == load[k].tree
           mine == IF Ready(d) THEN [DoneWith(d, k) EXCEPT !.deps = @ \cup {d}]
                   ELSE IF Refused(d) THEN AfterRefusal(k, DoneWith(d, k))
                   ELSE [DoneWith(d, k) EXCEPT !.futures = @ \cup {d}]
           asked == [load EXCEPT ![k] = mine]
<1>1. load \in [Entries -> Loads] /\ load[k] \in Loads
  BY DEF TreesTypeOK
<1>2. Running(k) /\ Fetch(d, tree, Parents(k), k, asked)
  BY DEF Ask
<1>3. d \notin Parents(k) /\ d # k
  <2>1. load[k].futures \cap Parents(k) = {} /\ k \in Parents(k)
    BY DEF AsksBelow, Parents
  <2> QED
    BY <2>1 DEF Ask
<1>4. /\ mine \in Loads /\ mine.parents = load[k].parents /\ mine.under = load[k].under
      /\ mine.tree = load[k].tree
      /\ mine.futures \subseteq load[k].futures \cup {d}
      /\ \/ mine.result = "failed"
         \/ /\ mine.result = "running" /\ load[k].futures \ {d} \subseteq mine.futures
            /\ ~Ready(d) /\ ~Refused(d) => d \in mine.futures
      /\ ~Ready(d) /\ ~Refused(d) => mine.result = "running"
  BY <1>1, <1>2 DEF Loads, Running, DoneWith, AfterRefusal
<1> HIDE DEF mine
<1>5. tree \in Askers \cup {Nobody} /\ Parents(k) \in SUBSET Entries
  BY <1>1 DEF Loads, Parents
<1>6. asked \in [Entries -> Loads] /\ asked[d] = load[d]
  BY <1>4, <1>1, <1>3
<1>7. /\ load' \in [Entries -> Loads]
      /\ status' \in [Entries -> {"none", "loading", "value", "error"}]
      /\ status'[d] # "loading" \/ load'[d].result = "none" => load'[d] = NoLoad
      /\ \A y \in Entries \ {d} : load'[y] = asked[y] /\ status'[y] = status[y]
      /\ \/ load'[d] = NewLoad(d, tree, Parents(k), k) /\ ~Ready(d) /\ ~Refused(d)
         \/ Running(d) /\ load'[d] = load[d] /\ ~Ready(d) /\ ~Refused(d)
         \/ load'[d] = NoLoad /\ ~Running(d) /\ (Refused(d) => status'[d] = "error")
  <2> HIDE DEF asked, tree
  <2> QED
    BY <1>2, <1>5, <1>6, FetchOutcomes
<1>8. load'[k] = mine /\ \A y \in Entries \ {d, k} : load'[y] = load[y]
  BY <1>3, <1>7, <1>1
<1>9. status[k] = "loading" /\ status'[k] = "loading"
  BY <1>2, <1>3, <1>7, LoadFields DEF TreesTypeOK, Running
<1> HIDE DEF asked, tree
<1>10. TreesTypeOK'
  <2> SUFFICES ASSUME NEW y \in Entries
               PROVE  status'[y] # "loading" \/ load'[y].result = "none" => load'[y] = NoLoad
    BY <1>7 DEF TreesTypeOK
  <2>1. CASE y = k
    BY <2>1, <1>4, <1>8, <1>9
  <2>2. CASE y = d
    BY <2>2, <1>7
  <2>3. CASE y \notin {k, d}
    BY <2>3, <1>7, <1>8 DEF TreesTypeOK
  <2> QED
    BY <2>1, <2>2, <2>3
<1>11. AsksBelow'
  <2> SUFFICES ASSUME NEW y \in Entries
               PROVE  /\ y \notin load'[y].parents
                      /\ load'[y].futures \cap (load'[y].parents \cup {y}) = {}
    BY DEF AsksBelow, Parents
  <2>1. /\ y \notin load[y].parents /\ load[y].futures \cap (load[y].parents \cup {y}) = {}
        /\ k \notin load[k].parents
    BY DEF AsksBelow, Parents
  <2>2. CASE y = k
    BY <2>1, <2>2, <1>8, <1>4, <1>3 DEF Parents
  <2>3. CASE y = d
    <3>1. \/ load'[d] = load[d]
          \/ load'[d].futures = {} /\ load'[d].parents = {}
          \/ load'[d].futures = {} /\ load'[d].parents = Parents(k)
      BY <1>7, LoadFields
    <3> QED
      BY <3>1, <2>3, <2>1, <1>3
  <2>4. CASE y \notin {k, d}
    BY <2>4, <2>1, <1>8
  <2> QED
    BY <2>2, <2>3, <2>4
<1>12. KnowsParents'
  <2> SUFFICES ASSUME NEW y \in Entries, Open(y)', load'[y].under # Nobody
               PROVE  LET z == load'[y].under IN
                      /\ z \in load'[y].parents /\ load'[z].parents \subseteq load'[y].parents
                      /\ \/ load'[z].result = "running" /\ y \in load'[z].futures
                         \/ load'[z].result = "failed"
                         \/ status'[z] = "error"
    BY DEF KnowsParents, Running
  <2>1. CASE y = d /\ load'[d] = NewLoad(d, tree, Parents(k), k) /\ ~Ready(d) /\ ~Refused(d)
    <3>1. load'[y].under = k /\ load'[y].parents = Parents(k)
      BY <2>1, LoadFields
    <3>2. load'[k].parents = load[k].parents /\ load'[k].result = "running" /\ d \in load'[k].futures
      BY <2>1, <1>8, <1>4
    <3> QED
      BY <3>1, <3>2, <2>1 DEF Parents
  <2>2. CASE ~(y = d /\ load'[d] = NewLoad(d, tree, Parents(k), k) /\ ~Ready(d) /\ ~Refused(d))
    <3> DEFINE z == load[y].under
    <3>1. /\ load'[y].parents = load[y].parents /\ load'[y].under = load[y].under /\ Open(y)
          /\ y = d => Running(d) /\ load'[d] = load[d] /\ ~Ready(d) /\ ~Refused(d)
      <4>1. CASE y = d
        BY <4>1, <2>2, <1>7, LoadFields DEF Open
      <4>2. CASE y = k
        BY <4>2, <1>8, <1>4, <1>2, <1>3 DEF Open, Running
      <4>3. CASE y \notin {d, k}
        BY <4>3, <1>8 DEF Open
      <4> QED
        BY <4>1, <4>2, <4>3
    <3>2. /\ z \in load[y].parents /\ load[z].parents \subseteq load[y].parents
          /\ \/ load[z].result = "running" /\ y \in load[z].futures
             \/ load[z].result = "failed"
             \/ status[z] = "error"
      BY <3>1 DEF KnowsParents, Running
    <3>3. z \in Entries
      BY <3>1, <1>1 DEF Loads
    <3>4. z # y
      BY <3>2 DEF AsksBelow
    <3> HIDE DEF z
    <3>5. CASE z = k
      <4>1. load[k].result = "running" /\ status[k] # "error"
        BY <1>2, <1>9 DEF Running
      <4>2. load'[k].parents = load[k].parents
        BY <1>8, <1>4
      <4>3. load'[k].result = "failed" \/ (load'[k].result = "running" /\ y \in load'[k].futures)
        <5>1. CASE y # d
          BY <5>1, <4>1, <3>2, <3>5, <1>8, <1>4
        <5>2. CASE y = d
          BY <5>2, <3>1, <1>8, <1>4
        <5> QED
          BY <5>1, <5>2
      <4> QED
        BY <4>2, <4>3, <3>1, <3>2, <3>5 DEF z
    <3>6. CASE z = d
      <4>1. load'[d] = load[d] \/ (load'[d].parents = {} /\ status'[d] = "error")
        <5>1. CASE load[d].result = "running"
          <6>1. status[d] # "none" /\ status[d] # "value"
            BY <5>1, LoadFields DEF TreesTypeOK
          <6> QED
            BY <6>1, <5>1, <1>2, <1>6, <1>1 DEF Fetch, Missing, Pending, Running
        <5>2. CASE load[d].result = "failed" \/ status[d] = "error"
          BY <5>2, <1>7, LoadFields DEF Refused
        <5> QED
          BY <5>1, <5>2, <3>2, <3>6
      <4>2. status[d] = "error" => status'[d] = "error"
        BY <1>7, LoadFields DEF Refused
      <4> QED
        BY <4>1, <4>2, <3>1, <3>2, <3>6 DEF z
    <3>7. CASE z \notin {k, d}
      BY <3>7, <3>1, <3>2, <3>3, <1>7, <1>8 DEF z
    <3> QED
      BY <3>5, <3>6, <3>7
  <2> QED
    BY <2>1, <2>2
<1>13. TreeSteps
  <2>1. Running(d) => load'[d] = load[d]
    BY <1>6, <1>2, LoadFields DEF Fetch, Missing, Running, Pending, TreesTypeOK
  <2>2. \A y \in Entries : Running(y) => load'[y].under = load[y].under /\ load'[y].tree = load[y].tree
    BY <2>1, <1>4, <1>8
  <2>3. ASSUME NEW y \in Entries, Running(y)', ~Running(y)
        PROVE  /\ load'[y].under = k /\ load'[k].result = "running" /\ y \in load'[k].futures
               /\ load'[y].tree = load[k].tree
    <3>1. y = d /\ load'[d] = NewLoad(d, tree, Parents(k), k) /\ ~Ready(d) /\ ~Refused(d)
      BY <2>3, <1>2, <1>7, <1>8, LoadFields DEF Running
    <3> QED
      BY <3>1, <1>4, <1>8, LoadFields DEF Running, tree
  <2>4. ASSUME NEW z \in Entries, NEW x \in Entries,
               z \notin AtOnce, Running(z), load[z].futures = {x}, Running(x)
        PROVE  load'[z] = load[z]
    <3>1. z # k
      BY <2>4 DEF Ask, NotWaiting, Pending
    <3> QED
      BY <3>1, <2>1, <2>4, <1>8
  <2>5. ASSUME NEW z \in Entries \ AtOnce
        PROVE  \/ load'[z].futures \subseteq load[z].futures
               \/ load[z].futures = {} /\ \E x : load'[z].futures \subseteq {x}
    <3>1. CASE z = k
      <4>1. load[k].futures = {} \/ d \in load[k].futures
        BY <2>5, <3>1 DEF Ask, NotWaiting
      <4> QED
        BY <3>1, <4>1, <1>4, <1>8
    <3>2. CASE z = d
      BY <3>2, <1>7, LoadFields
    <3> QED
      BY <3>1, <3>2, <1>8
  <2> QED
    BY <2>2, <2>3, <2>4, <2>5, <1>2 DEF TreeSteps
<1> QED
  BY <1>10, <1>11, <1>12, <1>13

\* A loader that is refused a key it is under, or that returns, leaves nothing
\* running that it started, unless it has failed.
LEMMA OwnStepKeepsTrees ==
  ASSUME TreesInv, NEW k \in Entries, Running(k), NotWaiting(k), UNCHANGED status,
         NEW l \in Loads, load' = [load EXCEPT ![k] = l],
         l.parents = load[k].parents, l.under = load[k].under, l.tree = load[k].tree,
         l.futures \subseteq load[k].futures,
         \/ l.result = "failed"
         \/ l.result = "running" /\ l.futures = load[k].futures
         \/ l.result = "made" /\ load[k].futures = {}
  PROVE  TreesInv' /\ TreeSteps
<1> USE DEF TreesInv
<1>1. load \in [Entries -> Loads] /\ load[k].result = "running" /\ status[k] = "loading"
  BY LoadFields DEF TreesTypeOK, Running
<1>2. load' \in [Entries -> Loads] /\ load'[k] = l /\ \A y \in Entries \ {k} : load'[y] = load[y]
  BY <1>1
<1>3. TreesTypeOK'
  BY <1>1, <1>2 DEF TreesTypeOK
<1>4. AsksBelow'
  BY <1>2 DEF AsksBelow, Parents
<1>5. KnowsParents'
  <2> SUFFICES ASSUME NEW y \in Entries, Open(y)', load'[y].under # Nobody
               PROVE  LET z == load'[y].under IN
                      /\ z \in load'[y].parents /\ load'[z].parents \subseteq load'[y].parents
                      /\ \/ load'[z].result = "running" /\ y \in load'[z].futures
                         \/ load'[z].result = "failed"
                         \/ status'[z] = "error"
    BY DEF KnowsParents, Running
  <2> DEFINE z == load[y].under
  <2>1. load'[y].parents = load[y].parents /\ load'[y].under = z /\ Open(y)
    BY <1>1, <1>2 DEF Open
  <2>2. /\ z \in load[y].parents /\ load[z].parents \subseteq load[y].parents
        /\ \/ load[z].result = "running" /\ y \in load[z].futures
           \/ load[z].result = "failed"
           \/ status[z] = "error"
    BY <2>1 DEF KnowsParents, Running
  <2>3. z \in Entries
    BY <2>1, <1>1 DEF Loads
  <2> HIDE DEF z
  <2> QED
    BY <2>1, <2>2, <2>3, <1>1, <1>2
<1>6. TreeSteps
  <2>1. \A z \in Entries \ {k} : load'[z] = load[z]
    BY <1>2
  <2>2. ASSUME NEW x \in Entries, k \notin AtOnce, load[k].futures = {x}
        PROVE  FALSE
    BY <2>2 DEF NotWaiting
  <2> QED
    BY <1>2, <2>1, <2>2 DEF TreeSteps, Running
<1> QED
  BY <1>3, <1>4, <1>5, <1>6

LEMMA TreesInvStep ==
  ASSUME TreesInv, AskersOK, [TreesNext]_treeVars
  PROVE  TreesInv' /\ TreeSteps
<1>1. CASE UNCHANGED treeVars
  BY <1>1 DEF treeVars, TreesInv, TreesTypeOK, AsksBelow, KnowsParents, Open, Running, Parents, TreeSteps
<1>2. ASSUME NEW u \in Askers, NEW k \in Entries, Request(u, k)
      PROVE  TreesInv' /\ TreeSteps
  BY <1>2, RequestKeepsTrees
<1>3. ASSUME NEW u \in Askers, Forget(u)
      PROVE  TreesInv' /\ TreeSteps
  BY <1>3 DEF Forget, TreesInv, TreesTypeOK, AsksBelow, KnowsParents, Open, Running, Parents, TreeSteps
<1>4. ASSUME NEW k \in Entries, NEW d \in Entries, RefuseCycle(k, d)
      PROVE  TreesInv' /\ TreeSteps
  <2> DEFINE l == AfterRefusal(k, DoneWith(d, k))
  <2>1. load[k] \in Loads /\ load[k].result = "running" /\ d \notin load[k].futures
    BY <1>4 DEF TreesInv, TreesTypeOK, AsksBelow, RefuseCycle, Running
  <2>2. /\ l \in Loads /\ l.parents = load[k].parents /\ l.under = load[k].under /\ l.tree = load[k].tree
        /\ l.futures \subseteq load[k].futures
        /\ l.result = "failed" \/ (l.result = "running" /\ l.futures = load[k].futures)
    BY <2>1 DEF AfterRefusal, DoneWith, Loads
  <2>3. load' = [load EXCEPT ![k] = l] /\ Running(k) /\ NotWaiting(k) /\ UNCHANGED status
    BY <1>4 DEF RefuseCycle
  <2> HIDE DEF l
  <2> QED
    BY <2>2, <2>3, OwnStepKeepsTrees
<1>5. ASSUME NEW k \in Entries, NEW d \in Entries, Ask(k, d)
      PROVE  TreesInv' /\ TreeSteps
  BY <1>5, AskKeepsTrees
<1>6. ASSUME NEW k \in Entries, NEW result \in {"made", "failed"}, Return(k, result)
      PROVE  TreesInv' /\ TreeSteps
  <2> DEFINE l == [load[k] EXCEPT !.todo = {}, !.futures = {}, !.result = result]
  <2>1. load \in [Entries -> Loads] /\ load[k] \in Loads
    BY DEF TreesInv, TreesTypeOK
  <2>2. /\ l \in Loads /\ l.parents = load[k].parents /\ l.under = load[k].under /\ l.tree = load[k].tree
        /\ l.futures = {} /\ l.result = result
    BY <2>1 DEF Loads
  <2>3. load' = [load EXCEPT ![k] = l] /\ Running(k) /\ NotWaiting(k) /\ UNCHANGED status
    BY <1>6, <2>1 DEF Return
  <2>4. result = "made" => load[k].futures = {}
    BY <1>6 DEF Return
  <2> HIDE DEF l
  <2> QED
    BY <2>2, <2>3, <2>4, OwnStepKeepsTrees
<1> QED
  BY <1>1, <1>2, <1>3, <1>4, <1>5, <1>6 DEF TreesNext

\* What is ahead of something ahead is ahead, and what is ahead of k in one step.
LEMMA ReachedSteps ==
  ASSUME NEW f \in [Entries -> SUBSET Entries], NEW i \in Entries, NEW x \in f[i]
  PROVE  /\ x \in Reached(f, i) /\ Reached(f, x) \subseteq Reached(f, i)
         /\ \A k \in Entries : i \in Reached(f, k) => x \in Reached(f, k)
BY DEF Reached

\* A load that was started for another, or for one that was, is under it and
\* under all that the other is under.
LEMMA StartedUnderIsParent ==
  ASSUME TreesInv, NEW y \in Entries, Open(y), NEW j \in StartedUnder(y)
  PROVE  j \in load[y].parents /\ load[j].parents \subseteq load[y].parents
<1> DEFINE f == [i \in Entries |-> {load[i].under} \ {Nobody}]
           S == {i \in Entries : /\ i \in load[y].parents /\ load[i].parents \subseteq load[y].parents
                                 /\ load[i].result # "made"}
<1>1. \A i \in Entries : load[i] \in Loads
  BY DEF TreesInv, TreesTypeOK
<1>2. \A i \in Entries : load[i].result \in {"none", "running", "made", "failed"} /\ load[i].under \in Entries \cup {Nobody}
  BY <1>1 DEF Loads
<1>3. ASSUME NEW i \in Entries, Open(i), load[i].under # Nobody
      PROVE  LET z == load[i].under IN
             /\ z \in Entries /\ z \in load[i].parents /\ load[z].parents \subseteq load[i].parents
             /\ load[z].result # "made"
  <2> DEFINE z == load[i].under
  <2>1. /\ z \in load[i].parents /\ load[z].parents \subseteq load[i].parents /\ z \in Entries
        /\ load[z].result \in {"running", "failed"} \/ status[z] = "error"
    BY <1>2, <1>3 DEF TreesInv, KnowsParents, Running
  <2> HIDE DEF z
  <2>2. status[z] = "error" => load[z].result = "none"
    BY <2>1, LoadFields DEF TreesInv, TreesTypeOK
  <2> QED
    BY <2>1, <2>2 DEF z
<1>4. f[y] \subseteq S
  BY <1>3, <1>2
<1>5. ASSUME NEW i \in S
      PROVE  f[i] \subseteq S
  <2>1. CASE load[i].result = "none"
    <3>1. load[i].under = Nobody
      BY <2>1, LoadFields DEF TreesInv, TreesTypeOK
    <3> QED
      BY <3>1
  <2>2. CASE Open(i)
    BY <2>2, <1>3, <1>2
  <2> QED
    BY <2>1, <2>2, <1>2 DEF Open
<1>6. S \in SUBSET Entries
  OBVIOUS
<1>7. j \in S
  <2> HIDE DEF S
  <2> QED
    BY <1>4, <1>5, <1>6 DEF StartedUnder, Reached
<1> QED
  BY <1>7

\* Where no loader above a load asks for several at once, each of them awaits the
\* next below it, and nothing else.
AwaitsChild ==
  \A y \in Entries : Running(y) /\ load[y].under \in Entries \ AtOnce =>
    Running(load[y].under) /\ load[load[y].under].futures = {y}

\* A loader that awaits each load awaits one at most.
OneFuture == \A z \in Entries \ AtOnce : \A a, b \in load[z].futures : a = b

\* And above them all is the load that the user of the tree asked for.
NoneAtOnce(y) == StartedUnder(y) \cap AtOnce = {}
Rooted ==
  \A y \in Entries : Running(y) /\ NoneAtOnce(y) =>
    LET r == request[load[y].tree] IN
    load[y].tree \in Askers /\ Running(r) /\ r \in StartedUnder(y) \cup {y}

ChainInv == AskersOK /\ AwaitsChild /\ OneFuture /\ Rooted

LEMMA ChainRuns ==
  ASSUME TreesInv, AwaitsChild, NEW y \in Entries, Running(y), NoneAtOnce(y), NEW x \in StartedUnder(y)
  PROVE  /\ x \in Entries \ AtOnce /\ Running(x)
         /\ \E c \in StartedUnder(y) \cup {y} : Running(c) /\ load[c].under = x /\ load[x].futures = {c}
<1> DEFINE f == [i \in Entries |-> {load[i].under} \ {Nobody}]
           C(c, z) == Running(c) /\ load[c].under = z /\ load[z].futures = {c}
           S == {z \in StartedUnder(y) : Running(z) /\ \E c \in StartedUnder(y) \cup {y} : C(c, z)}
<1>1. \A i \in Entries : load[i].under \in Entries \cup {Nobody}
  BY DEF TreesInv, TreesTypeOK, Loads
<1>2. f \in [Entries -> SUBSET Entries] /\ StartedUnder(y) = Reached(f, y) /\ StartedUnder(y) \subseteq Entries
  BY <1>1 DEF StartedUnder, Reached
<1>3. ASSUME NEW c \in StartedUnder(y) \cup {y}, Running(c), load[c].under # Nobody
      PROVE  load[c].under \in S
  <2> DEFINE z == load[c].under
  <2>1. c \in Entries /\ z \in f[c] /\ z \in Entries
    BY <1>1, <1>2, <1>3
  <2>2. z \in StartedUnder(y)
    <3> HIDE DEF f, z
    <3> QED
      BY <1>2, <1>3, <2>1, ReachedSteps
  <2>3. z \notin AtOnce
    BY <2>2 DEF NoneAtOnce
  <2>4. Running(z) /\ C(c, z)
    BY <1>3, <2>1, <2>3 DEF AwaitsChild
  <2> QED
    BY <1>3, <2>2, <2>4
<1>4. f[y] \subseteq S
  BY <1>3
<1>5. \A i \in S : f[i] \subseteq S
  BY <1>2, <1>3
<1>6. x \in S
  <2>1. S \in SUBSET Entries
    BY <1>2
  <2> HIDE DEF S, f
  <2> QED
    BY <1>2, <1>4, <1>5, <2>1 DEF Reached
<1> QED
  BY <1>2, <1>6 DEF NoneAtOnce

\* What was above a load that goes on is above it still.
LEMMA ChainStays ==
  ASSUME TreesInv, TreesInv', AwaitsChild, TreeSteps, NEW y \in Entries, Running(y), NoneAtOnce(y)'
  PROVE  StartedUnder(y) \subseteq StartedUnder(y)' /\ NoneAtOnce(y)
<1> DEFINE f == [i \in Entries |-> {load[i].under} \ {Nobody}]
           g == [i \in Entries |-> {load'[i].under} \ {Nobody}]
           S == {z \in StartedUnder(y)' : Running(z)}
<1>1. \A i \in Entries : load[i].under \in Entries \cup {Nobody} /\ load'[i].under \in Entries \cup {Nobody}
  BY DEF TreesInv, TreesTypeOK, Loads
<1>2. /\ f \in [Entries -> SUBSET Entries] /\ StartedUnder(y) = Reached(f, y)
      /\ g \in [Entries -> SUBSET Entries] /\ StartedUnder(y)' = Reached(g, y) /\ StartedUnder(y)' \subseteq Entries
  BY <1>1 DEF StartedUnder, Reached
<1>3. ASSUME NEW c \in StartedUnder(y)' \cup {y}, Running(c), load[c].under # Nobody
      PROVE  load[c].under \in S
  <2> DEFINE z == load[c].under
  <2>1. c \in Entries /\ z \in Entries
    BY <1>1, <1>2, <1>3
  <2>2. z \in g[c]
    BY <1>3, <2>1 DEF TreeSteps
  <2>3. z \in StartedUnder(y)'
    <3> HIDE DEF g, z
    <3> QED
      BY <1>2, <1>3, <2>1, <2>2, ReachedSteps
  <2>4. z \notin AtOnce
    BY <2>3 DEF NoneAtOnce
  <2>5. Running(z)
    BY <1>3, <2>1, <2>4 DEF AwaitsChild
  <2> QED
    BY <2>3, <2>5
<1>4. f[y] \subseteq S /\ \A i \in S : f[i] \subseteq S
  BY <1>2, <1>3
<1>5. StartedUnder(y) \subseteq S
  <2>1. S \in SUBSET Entries
    BY <1>2
  <2> HIDE DEF S, f
  <2> QED
    BY <1>2, <1>4, <2>1 DEF Reached
<1> QED
  BY <1>5 DEF NoneAtOnce

LEMMA AskersStay ==
  ASSUME AskersOK, [TreesNext]_treeVars
  PROVE  AskersOK' /\ \A u \in Askers : request'[u] = request[u] \/ request[u] = Nobody
<1>1. ASSUME NEW u \in Askers, NEW k \in Entries, Request(u, k)
      PROVE  AskersOK' /\ \A v \in Askers : request'[v] = request[v] \/ request[v] = Nobody
  <2>1. /\ user' \in [Askers -> {"away", "waiting", "holds", "done"}] /\ user'[u] # "away"
        /\ \A v \in Askers \ {u} : user'[v] = user[v]
    BY <1>1 DEF Request, AskersOK
  <2>2. /\ request' \in [Askers -> Entries \cup {Nobody}] /\ request'[u] = k
        /\ \A v \in Askers \ {u} : request'[v] = request[v]
    BY <1>1 DEF Request, AskersOK
  <2>3. user[u] = "away" \/ request[u] = k
    BY <1>1 DEF Request
  <2> QED
    BY <2>1, <2>2, <2>3 DEF AskersOK
<1>2. ASSUME NEW u \in Askers, Forget(u)
      PROVE  AskersOK' /\ request' = request
  BY <1>2 DEF Forget, AskersOK
<1>3. CASE UNCHANGED <<user, request>>
  BY <1>3 DEF AskersOK
<1> QED
  BY <1>1, <1>2, <1>3 DEF TreesNext, treeVars, RefuseCycle, Ask, Return

LEMMA ChainInvStep ==
  ASSUME TreesInv, ChainInv, [TreesNext]_treeVars
  PROVE  TreesInv' /\ ChainInv'
<1>1. TreesInv' /\ TreeSteps
  BY TreesInvStep DEF ChainInv
<1>2. AskersOK' /\ \A u \in Askers : request'[u] = request[u] \/ request[u] = Nobody
  BY AskersStay DEF ChainInv
<1>3. OneFuture'
  BY <1>1 DEF ChainInv, OneFuture, TreeSteps
<1>4. AwaitsChild'
  <2> SUFFICES ASSUME NEW y \in Entries, Running(y)', load'[y].under \in Entries \ AtOnce
               PROVE  LET z == load'[y].under IN load'[z].result = "running" /\ load'[z].futures = {y}
    BY DEF AwaitsChild, Running
  <2> DEFINE z == load'[y].under
  <2>1. CASE Running(y)
    <3>1. load[y].under = z
      BY <1>1, <2>1 DEF TreeSteps
    <3>2. Running(z) /\ load[z].futures = {y}
      BY <2>1, <3>1 DEF ChainInv, AwaitsChild
    <3> HIDE DEF z
    <3>3. load'[z] = load[z]
      BY <1>1, <2>1, <3>2 DEF TreeSteps, z
    <3> QED
      BY <3>2, <3>3 DEF Running, z
  <2>2. CASE ~Running(y)
    <3>1. load'[z].result = "running" /\ y \in load'[z].futures
      BY <1>1, <2>2, TreesAssumption DEF TreeSteps
    <3>2. \A a, b \in load'[z].futures : a = b
      BY <1>3 DEF OneFuture
    <3> QED
      BY <3>1, <3>2
  <2> QED
    BY <2>1, <2>2
<1>5. ASSUME NEW y \in Entries, Running(y), Running(y)', NoneAtOnce(y)'
      PROVE  LET r == request[load[y].tree] IN
             /\ load[y].tree \in Askers /\ r \in StartedUnder(y)' \cup {y}
             /\ request'[load[y].tree] = r /\ load'[r].result = "running"
  <2> DEFINE r == request[load[y].tree]
  <2>1. StartedUnder(y) \subseteq StartedUnder(y)' /\ NoneAtOnce(y)
    BY <1>1, <1>5, ChainStays DEF ChainInv
  <2>2. load[y].tree \in Askers /\ Running(r) /\ r \in StartedUnder(y) \cup {y} /\ r \in Entries
    BY <1>5, <2>1 DEF ChainInv, Rooted, StartedUnder, Reached
  <2> HIDE DEF r
  <2>3. load'[r].result = "running"
    <3>1. CASE r = y
      BY <1>5, <3>1 DEF Running
    <3>2. CASE r \in StartedUnder(y)
      <4>1. PICK c \in StartedUnder(y) \cup {y} : r \notin AtOnce /\ Running(c) /\ load[r].futures = {c}
        BY <1>5, <2>1, <3>2, ChainRuns DEF ChainInv
      <4>2. c \in Entries
        BY <4>1 DEF StartedUnder, Reached
      <4>3. load'[r] = load[r]
        BY <1>1, <2>2, <4>1, <4>2 DEF TreeSteps
      <4> QED
        BY <2>2, <4>3 DEF Running
    <3> QED
      BY <2>2, <3>1, <3>2
  <2>4. request'[load[y].tree] = r
    BY <1>2, <2>2, TreesAssumption DEF r
  <2> QED
    BY <2>1, <2>2, <2>3, <2>4 DEF r
<1>6. Rooted'
  <2> SUFFICES ASSUME NEW y \in Entries, Running(y)', NoneAtOnce(y)'
               PROVE  LET r == request'[load'[y].tree] IN
                      load'[y].tree \in Askers /\ load'[r].result = "running" /\ r \in StartedUnder(y)' \cup {y}
    BY DEF Rooted, Running
  <2>1. CASE Running(y)
    <3>1. load'[y].tree = load[y].tree
      BY <1>1, <2>1 DEF TreeSteps
    <3> QED
      BY <1>5, <2>1, <3>1
  <2>2. CASE ~Running(y)
    <3>1. CASE load'[y].tree \in Askers /\ request'[load'[y].tree] = y
      BY <3>1 DEF Running
    <3>2. CASE ~(load'[y].tree \in Askers /\ request'[load'[y].tree] = y)
      <4>1. PICK k \in Entries : /\ load'[y].under = k /\ Running(k) /\ Running(k)'
                                 /\ load'[y].tree = load[k].tree
        BY <1>1, <2>2, <3>2 DEF TreeSteps, Running
      <4>2. k \in StartedUnder(y)' /\ StartedUnder(k)' \subseteq StartedUnder(y)'
        <5> DEFINE g == [i \in Entries |-> {load'[i].under} \ {Nobody}]
        <5>1. g \in [Entries -> SUBSET Entries] /\ \A i \in Entries : StartedUnder(i)' = Reached(g, i)
          BY <1>1 DEF TreesInv, TreesTypeOK, Loads, StartedUnder
        <5>2. k \in g[y]
          BY <4>1, TreesAssumption
        <5> HIDE DEF g
        <5> QED
          BY <5>1, <5>2, ReachedSteps
      <4>3. NoneAtOnce(k)'
        BY <4>2 DEF NoneAtOnce
      <4> QED
        BY <1>5, <4>1, <4>2, <4>3
    <3> QED
      BY <3>1, <3>2
  <2> QED
    BY <2>1, <2>2
<1> QED
  BY <1>1, <1>2, <1>3, <1>4, <1>6 DEF ChainInv

\* Two loads of a tree in which nobody above them asks for several at once are
\* on one path: where the paths from them upwards met, a loader would await both.
LEMMA OnOnePath ==
  ASSUME TreesInv, ChainInv, NEW i \in Entries, NEW j \in Entries, Running(i), Running(j),
         load[i].tree = load[j].tree, NoneAtOnce(i), NoneAtOnce(j)
  PROVE  i = j \/ i \in StartedUnder(j) \/ j \in StartedUnder(i)
<1> DEFINE f == [y \in Entries |-> {load[y].under} \ {Nobody}]
           r == request[load[i].tree]
           Off(x) == x # j /\ x \notin StartedUnder(j) /\ j \notin StartedUnder(x)
           S == {x \in StartedUnder(i) : Off(x)}
<1>1. r \in StartedUnder(i) \cup {i} /\ r \in StartedUnder(j) \cup {j}
  BY DEF ChainInv, Rooted
<1>2. f \in [Entries -> SUBSET Entries] /\ \A y \in Entries : StartedUnder(y) = Reached(f, y)
  BY DEF TreesInv, TreesTypeOK, Loads, StartedUnder
<1>3. StartedUnder(i) \subseteq Entries
  BY DEF StartedUnder, Reached
<1> SUFFICES ASSUME Off(i)
             PROVE  FALSE
  OBVIOUS
<1>4. ASSUME NEW x \in StartedUnder(i) \cup {i}, Off(x), NEW z \in f[x]
      PROVE  z \in S
  <2>1. x \in Entries /\ z \in Entries /\ z = load[x].under
    BY <1>2, <1>3, <1>4
  <2> HIDE DEF f
  <2>2. z \in StartedUnder(x) /\ StartedUnder(z) \subseteq StartedUnder(x) /\ z \in StartedUnder(i)
    BY <1>2, <1>4, <2>1, ReachedSteps
  <2>3. z # j /\ j \notin StartedUnder(z)
    BY <1>4, <2>2
  <2>4. ASSUME z \in StartedUnder(j)
        PROVE  FALSE
    <3>1. PICK c \in StartedUnder(j) \cup {j} : load[z].futures = {c}
      BY <2>4, ChainRuns DEF ChainInv
    <3>2. Running(x) /\ z \in Entries \ AtOnce
      BY <1>4, <2>2, ChainRuns DEF ChainInv
    <3>3. load[z].futures = {x}
      BY <2>1, <3>2 DEF ChainInv, AwaitsChild
    <3> QED
      BY <1>4, <3>1, <3>3
  <2> QED
    BY <2>2, <2>3, <2>4
<1>5. f[i] \subseteq S /\ \A x \in S : f[x] \subseteq S
  BY <1>4
<1>6. StartedUnder(i) \subseteq S
  <2>1. S \in SUBSET Entries
    BY <1>3
  <2> HIDE DEF S, f
  <2> QED
    BY <1>2, <1>5, <2>1 DEF Reached
<1> QED
  BY <1>1, <1>6

\* Without two loads in it that were started apart, a circle would put a key
\* under itself: along it, each load is under those that wait for it.
LEMMA CirclesAcross ==
  ASSUME TreesInv, ChainInv
  PROVE  CirclesCross
<1> DEFINE f == [i \in Entries |-> {d \in load[i].futures : Pending(d)}]
<1>1. \A i \in Entries : load[i] \in Loads
  BY DEF TreesInv, TreesTypeOK
<1>2. f \in [Entries -> SUBSET Entries] /\ \A i \in Entries : WaitsFor(i) = Reached(f, i)
  BY <1>1 DEF Loads, WaitsFor
<1>3. SUFFICES ASSUME NEW k \in Entries, k \in WaitsFor(k),
                      \A i, j \in {j \in WaitsFor(k) : k \in WaitsFor(j)} :
                        ~Apart(i, j)
               PROVE  FALSE
  BY DEF CirclesCross
<1> DEFINE C == {j \in WaitsFor(k) : k \in WaitsFor(j)}
           R == {i \in Entries : Running(i)}
           S == {j \in WaitsFor(k) \cap R : k \in WaitsFor(j) => k \in load[j].parents}
<1>4. WaitsFor(k) \subseteq R
  <2>1. f[k] \subseteq R /\ \A i \in R : f[i] \subseteq R
    BY <1>2 DEF Pending
  <2>2. R \in SUBSET Entries
    OBVIOUS
  <2> HIDE DEF f, R
  <2> QED
    BY <2>1, <2>2, <1>2 DEF Reached
<1>5. ASSUME NEW i \in C, NEW x \in f[i], k \in WaitsFor(x), x \in WaitsFor(k)
      PROVE  i \in load[x].parents /\ load[i].parents \subseteq load[x].parents
  <2>1. i \in Entries /\ x \in load[i].futures /\ Open(i) /\ Open(x) /\ x \in Entries
    BY <1>4, <1>1, <1>2, <1>5 DEF Open, Running, Pending, Reached, Loads
  <2>2. x \notin load[i].parents /\ x # i
    BY <2>1 DEF TreesInv, AsksBelow, Parents
  <2>3. x \notin StartedUnder(i)
    BY <2>1, <2>2, StartedUnderIsParent
  <2>4. i \in StartedUnder(x)
    <3>1. ~Apart(i, x)
      BY <1>3, <1>5
    <3>2. \/ i \in StartedUnder(x)
          \/ load[i].tree = load[x].tree /\ NoneAtOnce(i) /\ NoneAtOnce(x)
      BY <2>2, <2>3, <3>1 DEF Apart, NoneAtOnce
    <3>3. Running(i) /\ Running(x)
      BY <1>4, <1>5
    <3> QED
      BY <2>1, <2>2, <2>3, <3>2, <3>3, OnOnePath
  <2> QED
    BY <2>1, <2>4, StartedUnderIsParent
<1> HIDE DEF f
<1>6. f[k] \subseteq S
  <2> SUFFICES ASSUME NEW x \in f[k]
               PROVE  x \in S
    OBVIOUS
  <2>1. x \in WaitsFor(k)
    BY <1>2, ReachedSteps
  <2> QED
    BY <2>1, <1>3, <1>4, <1>5
<1>7. ASSUME NEW i \in S
      PROVE  f[i] \subseteq S
  <2> SUFFICES ASSUME NEW x \in f[i]
               PROVE  x \in S
    OBVIOUS
  <2>1. i \in Entries /\ x \in Entries
    BY <1>2
  <2>2. x \in WaitsFor(k) /\ (k \in WaitsFor(x) => k \in WaitsFor(i))
    BY <1>2, <1>7, <2>1, ReachedSteps
  <2> QED
    BY <2>2, <1>4, <1>5, <1>7
<1>8. S \in SUBSET Entries
  OBVIOUS
<1>9. k \in S
  <2> HIDE DEF S
  <2> QED
    BY <1>2, <1>3, <1>6, <1>7, <1>8 DEF Reached
<1> QED
  BY <1>9, <1>3 DEF TreesInv, AsksBelow

\* Loads wait for one another in a circle only if two of them were started apart:
\* for two requests, or below a loader that asks for several resources at once.
\* Every other circle is found by the check of get_with_loader, however loads
\* fail, are joined or started anew meanwhile.
THEOREM CirclesOnlyAcross == TreesSpec => []CirclesCross
<1>1. TreesInit => TreesInv /\ ChainInv
  <2> SUFFICES ASSUME TreesInit
               PROVE  TreesInv /\ ChainInv
    OBVIOUS
  <2>1. \A k \in Entries : ~Running(k) /\ load[k].futures = {}
    BY LoadFields DEF TreesInit, Running
  <2>2. AskersOK
    BY DEF TreesInit, AskersOK
  <2> QED
    BY <2>1, <2>2, TreesInvInit DEF ChainInv, AwaitsChild, OneFuture, Rooted
<1>2. TreesInv /\ ChainInv /\ [TreesNext]_treeVars => TreesInv' /\ ChainInv'
  BY ChainInvStep
<1>3. TreesInv /\ ChainInv => CirclesCross
  BY CirclesAcross
<1> QED
  BY <1>1, <1>2, <1>3, PTL DEF TreesSpec
=============================================================================
