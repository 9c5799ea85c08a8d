---------------------------- MODULE MCNetworking ----------------------------
(* A client that connects twice, a push, and each style of application, one of  *)
(* them with other clients whose requests fill the queue.                        *)
EXTENDS Networking

MCConns == {1, 2}
Twice == [connects |-> 2, faults |-> FALSE, cancels |-> FALSE, inline |-> FALSE, polls |-> FALSE,
          others |-> 0]
Once == [Twice EXCEPT !.connects = 1]
MCStyles == {Twice, [Once EXCEPT !.faults = TRUE], [Once EXCEPT !.cancels = TRUE],
             [Once EXCEPT !.inline = TRUE], [Once EXCEPT !.polls = TRUE],
             [Once EXCEPT !.others = 2]}
=============================================================================
