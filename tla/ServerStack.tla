----------------------------- MODULE ServerStack -----------------------------
(***************************************************************************)
(* A server's networking stack over the GNS driver (net/gns.rs), which     *)
(* listens.  Its application pushes to all clients, closes connections and *)
(* closes the stack.  Requests are answered by their handler, or put into  *)
(* a MessageQueue that another thread of the application works through.    *)
(* Other clients ask it for things too.                                    *)
(***************************************************************************)
EXTENDS Wire, FiniteSets

CONSTANTS
  QueueSize,     \* the capacity of the MessageQueue
  MaxPushes      \* bound: pushes of the application

VARIABLES
  sApp,          \* the application's thread: "idle", "locking", "closing", "closed"
  pushes,        \* the pushes so far
  kicker,        \* its thread that closes a connection: "idle", "waits", "done", "panicked"
  sHandle,       \* GnsServerDriver::handle is there
  sCommands,     \* the commands on the way to the GnsServer
  server,        \* the GnsServer: "up", "gone", or its thread has panicked
  sClosed,       \* the Close command has been replied to
  clients,       \* GnsServer::clients: the connections it tracks
  queue,         \* the MessageQueue: requests and where they came from
  refused,       \* from where requests came that found it full
  others,        \* the requests of other clients so far
  sTick,         \* the subsystem's thread
  sInfos, sEnded \* as in ClientStack

serverApp == <<sApp, pushes, kicker, sHandle>>
queueVars == <<queue, refused, others>>
serverVars == <<serverApp, sCommands, server, sClosed, clients, queueVars, sTick, sInfos, sEnded>>

SResting == [at |-> "rest", left |-> 0, out |-> <<>>, closing |-> {}, got |-> None]

ServerInit ==
  /\ sApp = "idle" /\ pushes = 0 /\ kicker = "idle"
  /\ sHandle = TRUE /\ sCommands = <<>> /\ server = "up" /\ sClosed = FALSE
  /\ clients = {} /\ queue = <<>> /\ refused = {} /\ others = 0 /\ sTick = SResting /\ sInfos = {} /\ sEnded = {}

SCommand(cmd) == sCommands' = Append(sCommands, cmd)

\* GnsServerDriver::close holds the lock of the handle until there is a reply,
\* and no one reads the handle while it waits for that lock.
HandleLocked == sApp \in {"locking", "closing"}

Disconnected(gone) ==
  /\ sInfos' = sInfos \ gone
  /\ sEnded' = sEnded \cup (sInfos \cap gone)

-----------------------------------------------------------------------------
(* The application's threads *)

\* What broadcast and send_to hand to the driver.  Nobody looks at the number
\* of an answer.
Push == [kind |-> "broadcast", msg |-> Numbered(Message("push"), pushes + 1)]
Answer(request) == [kind |-> "sendTo", to |-> request.from, msg |-> Reply(request.msg)]

\* Networking::broadcast
Broadcast ==
  /\ sApp = "idle" /\ pushes < MaxPushes
  /\ pushes' = pushes + 1
  /\ IF server = "up" THEN SCommand(Push) ELSE UNCHANGED sCommands
  /\ UNCHANGED <<wireVars, style, sApp, kicker, sHandle, server, sClosed, clients, queueVars, sTick, sInfos, sEnded>>

\* Networking::close_connection: the thread reads the handle until it is answered.
CloseConnection(c) ==
  /\ style.faults /\ sApp = "idle" /\ kicker = "idle" /\ c \in sInfos
  /\ IF server = "up"
     THEN kicker' = "waits" /\ SCommand([kind |-> "kick", conn |-> c])
     ELSE kicker' = "done" /\ UNCHANGED sCommands
  /\ UNCHANGED <<wireVars, style, sApp, pushes, sHandle, server, sClosed, clients, queueVars, sTick, sInfos, sEnded>>

\* The server is gone, and the request with it: an error like any other, or Closed.
KickReturns ==
  /\ kicker = "waits" /\ server # "up"
  /\ kicker' \in {"done", "panicked"}
  /\ UNCHANGED <<wireVars, style, sApp, pushes, sHandle, sCommands, server, sClosed, clients, queueVars,
                 sTick, sInfos, sEnded>>

\* Networking::close
LockHandle ==
  /\ sApp = "idle"
  /\ sApp' = "locking"
  /\ UNCHANGED <<wireVars, style, pushes, kicker, sHandle, sCommands, server, sClosed, clients, queueVars,
                 sTick, sInfos, sEnded>>

CloseServer ==
  /\ sApp = "locking" /\ kicker # "waits"
  /\ sApp' = "closing"
  /\ IF server = "up" THEN SCommand([kind |-> "close"]) ELSE UNCHANGED sCommands
  /\ UNCHANGED <<wireVars, style, pushes, kicker, sHandle, server, sClosed, clients, queueVars, sTick, sInfos, sEnded>>

ServerClosed ==
  /\ sApp = "closing" /\ (sClosed \/ server # "up")
  /\ sApp' = "closed" /\ sHandle' = FALSE
  /\ UNCHANGED <<wireVars, style, pushes, kicker, sCommands, server, sClosed, clients, queueVars, sTick, sInfos, sEnded>>

\* GnsServerDriver::send_to reads the handle, and the clients it tracks.  The
\* answer to another client is not followed.
SendReply(request) ==
  /\ ~HandleLocked
  /\ IF sHandle /\ server = "up" /\ request.from \in Conns \cap clients
     THEN SCommand(Answer(request))
     ELSE UNCHANGED sCommands

\* The thread that pops the MessageQueue.
Work ==
  /\ queue # <<>>
  /\ SendReply(Head(queue))
  /\ queue' = Tail(queue)
  /\ UNCHANGED <<refused, others, wireVars, style, serverApp, server, sClosed, clients, sTick, sInfos, sEnded>>

-----------------------------------------------------------------------------
(* The subsystem's thread *)

SAsked(kind) == Picked(sCommands, {i \in DOMAIN sCommands : sCommands[i].kind = kind})

\* Mutant: the connections are closed, and that is all.
CloseAllSilently ==
  /\ clients' = {} /\ Disconnected(clients)
  /\ UNCHANGED <<wireVars, server, sClosed>>

\* GnsServer::close
CloseAll ==
  /\ server' = "gone" /\ sClosed' = TRUE
  /\ clients' = {} /\ Disconnected(clients)
  /\ WireServerGone(Conns, "ClosedByPeer") /\ listening' = FALSE /\ sEvents' = <<>>
  /\ UNCHANGED down

\* A tick takes all commands.  Close is obeyed at once.  The context of the reply
\* to who closes a connection is dropped, and the error is one it does not expect.
STakeCommands ==
  /\ server = "up" /\ sTick.at = "rest"
  /\ IF SAsked("close") # <<>>
     THEN CloseAll /\ UNCHANGED sTick
     ELSE /\ sTick' = [SResting EXCEPT !.at = "messages", !.left = PollLimit,
                         !.out = SAsked("sendTo") \o SAsked("broadcast"),
                         !.closing = {SAsked("kick")[i].conn : i \in DOMAIN SAsked("kick")}]
          /\ UNCHANGED <<wireVars, server, sClosed, clients, sInfos, sEnded>>
  /\ sCommands' = <<>>
  /\ kicker' = IF SAsked("kick") = <<>> THEN kicker ELSE "panicked"
  /\ UNCHANGED <<style, sApp, pushes, sHandle, queueVars>>

\* A connection carries messages once the server has accepted it.
Arrived(c) == up[c] # <<>> /\ link[c] # "connecting"

\* poll_messages; those of a connection that is not tracked are dropped.
STakeMessage(c) ==
  /\ sTick.at = "messages" /\ sTick.left > 0 /\ Arrived(c) /\ server = "up"
  /\ up' = [up EXCEPT ![c] = Tail(@)]
  /\ sTick' = [sTick EXCEPT !.left = @ - 1, !.got = [from |-> c, msg |-> Head(up[c])],
                            !.at = IF c \in clients THEN "handle" ELSE "messages"]
  /\ UNCHANGED <<style, serverApp, sCommands, server, sClosed, clients, queueVars, sInfos, sEnded,
                 listening, link, down, cEvents, sEvents>>

\* A request of another client, whose connection is not modelled; bounded by the style.
OtherRequest == [from |-> None, msg |-> None]

OthersAsk ==
  /\ sTick.at = "messages" /\ sTick.left > 0 /\ server = "up" /\ others < style.others
  /\ others' = others + 1
  /\ sTick' = [sTick EXCEPT !.left = @ - 1, !.got = OtherRequest, !.at = "handle"]
  /\ UNCHANGED <<wireVars, style, serverApp, sCommands, server, sClosed, clients, queue, refused, sInfos, sEnded>>

\* MessageQueue::handle refuses what finds it full; the tick logs it.
Enqueue(request) ==
  IF Len(queue) < QueueSize
  THEN queue' = Append(queue, request) /\ UNCHANGED refused
  ELSE refused' = refused \cup {request.from} /\ UNCHANGED queue

HandleRequest ==
  /\ sTick.at = "handle"
  /\ IF style.inline
     THEN SendReply(sTick.got) /\ UNCHANGED <<queue, refused>>
     ELSE Enqueue(sTick.got) /\ UNCHANGED sCommands
  /\ sTick' = [sTick EXCEPT !.at = "messages", !.got = None]
  /\ UNCHANGED <<others, wireVars, style, serverApp, server, sClosed, clients, sInfos, sEnded>>

\* A thread that panics takes its sockets with it.
Panic ==
  /\ server' = "panicked"
  /\ listening' = FALSE /\ sEvents' = <<>>
  /\ WireServerGone(Conns, "Problem")
  /\ UNCHANGED <<down, clients, sInfos, sEnded>>

\* poll_event: a client is accepted and, unless a handler cancels, tracked.
AcceptClient(c) ==
  /\ \/ /\ link[c] = "connecting"
        /\ clients' = clients \cup {c} /\ sInfos' = sInfos \cup {c}
     \/ /\ link[c] # "connecting" \/ style.cancels
        /\ UNCHANGED <<clients, sInfos>>
  /\ link' = IF link[c] = "connecting" THEN [link EXCEPT ![c] = "open"] ELSE link
  /\ sEvents' = Tail(sEvents)
  /\ UNCHANGED <<listening, up, down, cEvents, server, sEnded>>

\* A client that is gone must be tracked.
DropClient(c) ==
  IF c \notin clients THEN Panic
  ELSE /\ clients' = clients \ {c} /\ Disconnected({c})
       /\ WireServerGone({c}, "ClosedByPeer")
       /\ sEvents' = Tail(sEvents)
       /\ UNCHANGED <<listening, down, server>>

SPollEvents ==
  /\ sTick.at = "messages" /\ server = "up" /\ sEvents # <<>>
  /\ sTick.left = 0 \/ \A c \in Conns : ~Arrived(c)
  /\ IF Head(sEvents).event = "Connecting"
     THEN AcceptClient(Head(sEvents).conn)
     ELSE DropClient(Head(sEvents).conn)
  /\ sTick' = [sTick EXCEPT !.left = 0]
  /\ UNCHANGED <<style, serverApp, sCommands, sClosed, queueVars>>

\* The connections the application asked to close.
CloseClients(gone) ==
  /\ clients' = clients \ gone /\ Disconnected(gone)
  /\ WireServerGone(gone, "ClosedByPeer")

\* The messages go out, to the clients that are tracked; then connections are
\* closed.
For(c) ==
  LET out == Picked(sTick.out, {i \in DOMAIN sTick.out : sTick.out[i].kind = "broadcast" \/ sTick.out[i].to = c})
  IN [i \in DOMAIN out |-> out[i].msg]

SSend ==
  /\ sTick.at = "messages" /\ server = "up" /\ sEvents = <<>>
  /\ sTick.left = 0 \/ \A c \in Conns : ~Arrived(c)
  /\ \E lost \in SUBSET clients :
       down' = [c \in Conns |->
         IF c \notin clients THEN down[c]
         ELSE Sent(c, down, IF c \in lost THEN ReliableOf(For(c)) ELSE For(c))]
  /\ CloseClients(sTick.closing \cap clients)
  /\ sTick' = SResting
  /\ UNCHANGED <<style, serverApp, sCommands, server, sClosed, queueVars, listening, sEvents>>

ServerTick ==
  \/ STakeCommands \/ (\E c \in Conns : STakeMessage(c)) \/ OthersAsk \/ HandleRequest \/ SPollEvents \/ SSend

\* What the application's thread has begun.
ServerGoesOn == CloseServer \/ ServerClosed \/ KickReturns

ServerStep ==
  \/ Broadcast \/ (\E c \in Conns : CloseConnection(c)) \/ LockHandle \/ ServerGoesOn \/ Work
  \/ ServerTick
=============================================================================
