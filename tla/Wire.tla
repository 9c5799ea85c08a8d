--------------------------------- MODULE Wire ---------------------------------
(***************************************************************************)
(* The sockets of the Game Networking Sockets library, as net/gns.rs uses  *)
(* them: a connection between a client and the server that carries         *)
(* messages in order, those without the Reliable flag perhaps not at all,  *)
(* and whose ends hear of its opening and of its end by events.            *)
(***************************************************************************)
EXTENDS Naturals, Sequences, SeqFold

CONSTANTS
  Conns,       \* 1..n: the connections the client makes, one after the other
  PollLimit,   \* how many messages one tick dispatches
  None

VARIABLES
  style,       \* how the applications use their stacks; see Networking
  listening,   \* the server has a socket
  link,        \* connection -> "none", "connecting", "open", "clientGone", "serverGone", "lost"
  up, down,    \* connection -> the messages on the way to the server, to the client
  cEvents,     \* connection -> the events the client has not polled
  sEvents      \* the events the server has not polled

wireVars == <<listening, link, up, down, cEvents, sEvents>>

\* Message::new, set_msg_num and reply: a message has a key and, when it is
\* sent, a number; a reply carries the number of the message it replies to.
Message(key) == [key |-> key, num |-> None, reply |-> None]
Numbered(m, num) == [m EXCEPT !.num = num]
Reply(m) == [Message("reply") EXCEPT !.reply = m.num]

\* MessageBody::flags
Reliable(m) == m.key # "push"

ReliableOf(msgs) == Picked(msgs, {i \in DOMAIN msgs : Reliable(msgs[i])})

WireInit ==
  /\ listening = TRUE
  /\ link = [c \in Conns |-> "none"]
  /\ up = [c \in Conns |-> <<>>] /\ down = [c \in Conns |-> <<>>]
  /\ cEvents = [c \in Conns |-> <<>>]
  /\ sEvents = <<>>

\* GnsSocket::connect; without a server there is a problem instead.
WireConnect(c) ==
  /\ link' = [link EXCEPT ![c] = IF listening THEN "connecting" ELSE "lost"]
  /\ sEvents' = IF listening THEN Append(sEvents, [conn |-> c, event |-> "Connecting"]) ELSE sEvents
  /\ cEvents' = IF listening THEN cEvents ELSE [cEvents EXCEPT ![c] = <<"Problem">>]
  /\ UNCHANGED <<listening, up, down>>

Alive(c) == link[c] \in {"connecting", "open"}

\* The client drops its socket; messages under way may be dropped with it.
WireClientGone(c) ==
  /\ IF Alive(c)
     THEN /\ link' = [link EXCEPT ![c] = "clientGone"]
          /\ sEvents' = Append(sEvents, [conn |-> c, event |-> "ClosedByPeer"])
     ELSE UNCHANGED <<link, sEvents>>
  /\ \/ link[c] # "connecting" /\ UNCHANGED up
     \/ (up[c] # <<>> \/ link[c] = "connecting") /\ up' = [up EXCEPT ![c] = <<>>]
  /\ down' = [down EXCEPT ![c] = <<>>]
  /\ cEvents' = [cEvents EXCEPT ![c] = <<>>]
  /\ UNCHANGED listening

\* The server closes connections; nothing of theirs reaches it any more.
WireServerGone(gone, why) ==
  /\ link' = [c \in Conns |-> IF c \in gone /\ Alive(c) THEN "serverGone" ELSE link[c]]
  /\ cEvents' = [c \in Conns |-> IF c \in gone /\ Alive(c) THEN Append(cEvents[c], why) ELSE cEvents[c]]
  /\ up' = [c \in Conns |-> IF c \in gone THEN <<>> ELSE up[c]]

\* The connection breaks.
Lose(c) ==
  /\ style.faults /\ Alive(c)
  /\ link' = [link EXCEPT ![c] = "lost"]
  /\ sEvents' = Append(sEvents, [conn |-> c, event |-> "Problem"])
  /\ cEvents' = [cEvents EXCEPT ![c] = Append(@, "Problem")]
  /\ UNCHANGED <<listening, up, down>>

\* What goes out over a connection, and what of it may come through.
Sent(c, pipe, msgs) == IF Alive(c) THEN pipe[c] \o msgs ELSE pipe[c]
Deliverable(msgs) == {msgs, ReliableOf(msgs)}
=============================================================================
