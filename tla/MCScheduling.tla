---------------------------- MODULE MCScheduling -----------------------------
(* Instances of Scheduling for TLC. *)
EXTENDS Scheduling, TLC

CONSTANTS w1, w2, t1, t2, t3

\* The second executor of the bucket has no tasks.
MCExecutor == t1 :> 1 @@ t2 :> 1 @@ t3 :> 1

\* Neither the workers nor the tasks are told apart.
MCSymmetry == Permutations({w1, w2}) \cup Permutations({t1, t2, t3})
=============================================================================
