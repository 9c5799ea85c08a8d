---------------------------- MODULE MCResourceUpdates ----------------------------
(***************************************************************************)
(* An instance of ResourceUpdates for TLC.  Five plans, of which each      *)
(* behaviour follows one, bound what may happen at the same time.          *)
(***************************************************************************)
EXTENDS ResourceUpdates, TLC

CONSTANTS kA, kB, kC, kD, a, b, c, f1, f2, x, y

\* kC is made from kB alone, kB sometimes with the help of kA or of kD, which
\* have the same id.
MCIdOf == [k \in Keys |-> CASE k \in {kA, kD} -> a [] k = kB -> b [] k = kC -> c]

MCNeeds == [k \in Keys |-> CASE k \in {kA, kD} -> {{}} [] k = kB -> {{}, {kA}, {kD}} [] k = kC -> {{kB}}]

\* Both files may have a: see update.rs on resources that change together.
MCProvides == [f \in Files |-> {a}]

VARIABLE plan

\* So many loads and updates are under way, but for those of virtual loaders.
Busy(n) == Cardinality({k \in Keys \ Virtual : step[k] \notin {"rest", "held"}}) <= n

Kept(K) == \A k \in K : entry[k] # "expired"

\* Two resources of one id, while sources come, go and change.
OfOneId == \A k \in {kB, kC} : entry[k] = "none"

\* Three resources made of one another, while the one source changes.
InAChain ==
  /\ entry[kD] = "none"
  /\ \E f \in Files : /\ Contained = <<f>> /\ data[f][a] # None
                      /\ \A g \in Files \ {f} : data[g][a] = None

Follows ==
  CASE plan = "changes"  -> OfOneId /\ Busy(1) /\ Kept(Keys)
    [] plan = "overlaps" -> OfOneId /\ Busy(2) /\ Kept(Keys) /\ Len(Contained) <= 1
    [] plan = "expiries" -> OfOneId /\ Busy(1) /\ changes <= 2 /\ Len(Contained) <= changes
    [] plan = "chain"    -> InAChain /\ Busy(1) /\ Kept({kA}) /\ changes <= 2
    [] plan = "reloads"  -> InAChain /\ Busy(1) /\ Kept({kC}) /\ changes <= 1

MCInit ==
  /\ plan \in {"changes", "overlaps", "expiries", "chain", "reloads"}
  /\ Init /\ Follows

MCSpec == MCInit /\ [][Next /\ UNCHANGED plan /\ Follows']_<<resourceVars, plan>>

\* Files, hashes and the two resources of one id are not told apart.
MCSymmetry ==
  Permutations({f1, f2}) \cup Permutations({x, y}) \cup Permutations({kA, kD})
=============================================================================
