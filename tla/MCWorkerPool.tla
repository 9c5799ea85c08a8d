---------------------------- MODULE MCWorkerPool ----------------------------
(***************************************************************************)
(* Instances of WorkerPool for TLC: the safety runs keep the history of    *)
(* the scans (OrderSpec), the liveness runs go without it.                 *)
(***************************************************************************)
EXTENDS WorkerPool, TLC

CONSTANTS w1, w2, w3, i1, i2, i3, q1, q2

\* Two sources; q2 is in the bucket of higher priority.
MCPriorityOf == [s \in Sources |-> IF s = q1 THEN 1 ELSE 2]

\* i1 goes to the low source, everything else to the high one.
MCTargetOf == [i \in Items |-> IF i = i1 THEN q1 ELSE q2]

\* All items go to the one source that is inserted late.
MCTargetLate == [i \in Items |-> q2]

\* Everything goes to the source that is there from the start.
MCTargetEarly == [i \in Items |-> q1]

WorkerSymmetry == Permutations(Workers)

\* Without the history, for liveness.
LiveInit == Init /\ atScan = {}
LiveSpec == LiveInit /\ [][Next /\ UNCHANGED atScan]_orderVars /\ Fairness
=============================================================================
