---------------------------- MODULE WorkDispatch ----------------------------
(***************************************************************************)
(* What a worker pool promises about the work items handed to its sources, *)
(* whatever locks, wakers and sleeping threads it is built from: an item   *)
(* is queued once, run by one worker from start to end, or dropped while   *)
(* it is still queued; it is never run twice, never run after it was       *)
(* dropped, and a worker runs one item at a time.                          *)
(***************************************************************************)
CONSTANTS Workers, Items, None

VARIABLES
  status,   \* item -> "new", "queued", "running", "done" or "cancelled"
  running   \* worker -> the item it runs, or None

vars == <<status, running>>

Init ==
  /\ status = [i \in Items |-> "new"]
  /\ running = [w \in Workers |-> None]

Submit(i) ==
  /\ status[i] = "new"
  /\ status' = [status EXCEPT ![i] = "queued"]
  /\ UNCHANGED running

Start(w, i) ==
  /\ status[i] = "queued" /\ running[w] = None
  /\ status' = [status EXCEPT ![i] = "running"]
  /\ running' = [running EXCEPT ![w] = i]

Finish(w) ==
  /\ running[w] \in Items
  /\ status' = [status EXCEPT ![running[w]] = "done"]
  /\ running' = [running EXCEPT ![w] = None]

\* All the items of one source go at once.
Cancel(C) ==
  /\ \A i \in C : status[i] = "queued"
  /\ status' = [i \in Items |-> IF i \in C THEN "cancelled" ELSE status[i]]
  /\ UNCHANGED running

Next ==
  \/ \E i \in Items : Submit(i)
  \/ \E w \in Workers : Finish(w) \/ \E i \in Items : Start(w, i)
  \/ \E C \in SUBSET Items : Cancel(C)

Spec == Init /\ [][Next]_vars
=============================================================================
