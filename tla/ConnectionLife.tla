---------------------------- MODULE ConnectionLife ----------------------------
(***************************************************************************)
(* What a networking stack promises of its connections (net/mod.rs): each  *)
(* is announced before it opens, and when it ends, for whatever reason, it *)
(* is disconnected once and never comes back.                              *)
(***************************************************************************)
CONSTANT Conns

VARIABLES open, ended    \* the connections that are, and those that were

Init == open = {} /\ ended = {}

Open(c) ==
  /\ c \notin open \cup ended
  /\ open' = open \cup {c} /\ UNCHANGED ended

End(gone) ==
  /\ gone \subseteq open
  /\ open' = open \ gone /\ ended' = ended \cup gone

Next == (\E c \in Conns : Open(c)) \/ (\E gone \in (SUBSET Conns) \ {{}} : End(gone))

Spec == Init /\ [][Next]_<<open, ended>>
=============================================================================
