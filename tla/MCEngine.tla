------------------------------- MODULE MCEngine -------------------------------
(* An engine, the thread that owns it and one that registers handlers. *)
EXTENDS Engine

CONSTANTS d, own, r, hu, h1, o1

MCThreads == {d, own, r}
MCStoppers == {own}
MCHandlers == {hu, h1}
MCWeakHandlers == {h1}
MCOnces == {o1}
MCRegistrar == h1 :> r @@ o1 :> r
MCTickTypes == { <<"rate", 2>>, <<"minDuration", 2>> }
=============================================================================
