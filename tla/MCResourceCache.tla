-------------------------- MODULE MCResourceCache --------------------------
(***************************************************************************)
(* Loads as they are seen from one entry, with all its tasks and futures   *)
(* (ResourceFutures), and as they are seen from the trees that loads of    *)
(* several entries make (LoadTrees).  A behaviour is of one of the two.    *)
(***************************************************************************)
EXTENDS ResourceFutures, LoadTrees, TLC

CONSTANTS x, y, dflt, ka, kb, kc

VARIABLE part   \* which of the two this is: "entry" or "trees"

\* Three loaders that may ask for each other.
MCWants == ka :> {kb, kc} @@ kb :> {ka, kc} @@ kc :> {ka, kb}

MCInit ==
  /\ FuturesInit /\ TreesInit
  /\ part = "entry" \/ (part = "trees" /\ ~other)

MCNext ==
  /\ UNCHANGED part
  /\ \/ part = "entry" /\ FuturesNext /\ UNCHANGED treeVars
     \/ part = "trees" /\ TreesNext /\ UNCHANGED futureVars

MCSpec == MCInit /\ [][MCNext]_<<futureVars, treeVars, part>>

\* The last source has x, the others have nothing.
MCFirst == [s \in Sources |-> IF s = NumSources THEN x ELSE None]

\* Everybody ends with a default, after another resource was asked for,
\* and passes a fallback that is not for what is missing.
MCFallbacks == [u \in Users |-> <<OrGet("All"), OrGet("ReadError"), OrDefault("NotFound")>>]

UserSymmetry == Permutations(Users)
=============================================================================
