--------------------------- MODULE NetworkingProofs ---------------------------
(***************************************************************************)
(* Proofs about Networking, for any number of connections, any sizes of    *)
(* buffers and queues and any behaviour of the applications.               *)
(*   ConnectionsOpenAndEndOnce: each of the two stacks announces a         *)
(* connection once and ends it once, however the two interleave and the    *)
(* wire breaks.  ClientInv and ServerInv say which connections there are.  *)
(*   MessagesFindHandlers: no message comes to a dispatch that has no      *)
(* handler for it.  HandledInv follows the one request that is under way,  *)
(* or its answer, through the nine places where it may be.                 *)
(***************************************************************************)
EXTENDS Networking, SequenceTheorems, WellFoundedInduction, TLAPS

\* Where the application's thread is with a connection it has announced and
\* not asked the driver for yet.
Unasked ==
  \/ app.at \in {"intercept", "close", "create"}
  \/ app.at = "closing" /\ app.conn # None
  \/ app.at = "creating" /\ create # None

\* The client numbers its connections: those that it knows, and those there
\* is a link for, have a number it has given, and the one being made has the
\* last and no link.
ClientInv ==
  /\ style \in Styles
  /\ attempts \in 0..style.connects
  /\ infos \cup ended \subseteq 1..attempts
  /\ app = [at |-> app.at, conn |-> app.conn]
  /\ \A c \in Conns : link[c] # "none" => c \in 1..attempts
  /\ Unasked => app.conn = attempts /\ attempts \in 1..style.connects /\ link[attempts] = "none"
  /\ create # None => app.at = "creating" /\ create = app.conn
  /\ client # None => client \in Conns
  /\ tick.at # "rest" => client # None

WireEvents == [conn : Conns, event : {"Connecting", "ClosedByPeer", "Problem"}]

\* The server hears of a connection once: it accepts one that is connecting,
\* and what it has accepted is so no more.
ServerInv ==
  /\ link \in [Conns -> {"none", "connecting", "open", "clientGone", "serverGone", "lost"}]
  /\ sEvents \in Seq(WireEvents)
  /\ sInfos \cup sEnded \subseteq Conns
  /\ \A c \in sInfos \cup sEnded : link[c] \notin {"none", "connecting"}
ClientKeeps == ClientInv' /\ [ClientLife!Next]_<<infos, ended>>
ServerKeeps == ServerInv' /\ [ServerLife!Next]_<<sInfos, sEnded>>

-----------------------------------------------------------------------------
(* The application's thread of the client *)

LEMMA ConnectKeeps ==
  ASSUME ClientInv, Connect
  PROVE  ClientKeeps
<1>1. /\ app.at = "idle" /\ attempts < style.connects /\ attempts' = attempts + 1
      /\ UNCHANGED <<link, style, create, client, ended, tick>>
      /\ \/ infos' = infos \cup {attempts + 1} /\ app' = [at |-> "intercept", conn |-> attempts + 1]
         \/ UNCHANGED <<infos, app>>
  BY DEF Connect, wireVars, driverVars
<1>2. style.connects \in Nat /\ attempts \in Nat /\ 1..style.connects \subseteq Conns
  BY NetworkingAssumption DEF ClientInv
<1>3. /\ attempts' \in 1..style.connects /\ attempts' \in Conns /\ attempts' \notin 1..attempts
      /\ 1..attempts \subseteq 1..attempts'
  BY <1>1, <1>2
<1>4. link[attempts'] = "none"
  BY <1>3 DEF ClientInv
<1>5. ~Unasked /\ create = None
  BY <1>1 DEF Unasked, ClientInv
<1>6. ClientInv'
  <2>1. /\ style' \in Styles /\ attempts' \in 0..style'.connects
        /\ \A c \in Conns : link'[c] # "none" => c \in 1..attempts'
        /\ infos' \cup ended' \subseteq 1..attempts'
    BY <1>1, <1>2, <1>3 DEF ClientInv
  <2>2. app' = [at |-> app'.at, conn |-> app'.conn]
    BY <1>1 DEF ClientInv
  <2>3. Unasked' => app'.conn = attempts'
    BY <1>1, <1>5 DEF Unasked
  <2>4. QED  BY <1>1, <1>3, <1>4, <1>5, <2>1, <2>2, <2>3 DEF ClientInv
<1>7. CASE infos' = infos \cup {attempts'}
  <2>1. ClientLife!Open(attempts')
    BY <1>1, <1>3, <1>7 DEF ClientInv, ClientLife!Open
  <2>2. QED  BY <1>3, <1>6, <2>1 DEF ClientKeeps, ClientLife!Next
<1>8. QED  BY <1>1, <1>6, <1>7 DEF ClientKeeps

\* The steps that take a connection to the driver.
LEMMA AskingKeeps ==
  ASSUME ClientInv, Intercept \/ Close \/ Closed \/ Create \/ Created
  PROVE  ClientKeeps
<1> USE DEF wireVars, driverVars, apiVars
<1>0. app = [at |-> app.at, conn |-> app.conn] /\ UNCHANGED <<link, style, client, tick, attempts, infos, ended>>
  BY DEF ClientInv, Intercept, Close, Closed, Create, Created
<1>1. ASSUME NEW at, Go(at)
      PROVE  app'.at = at /\ app'.conn = app.conn /\ app' = [at |-> app'.at, conn |-> app'.conn]
  BY <1>0, <1>1 DEF Go
<1>2. /\ app' = [at |-> app'.at, conn |-> app'.conn]
      /\ Unasked' => Unasked /\ app'.conn = app.conn
      /\ create' # None => app'.at = "creating" /\ create' = app'.conn
  <2>1. CASE Intercept
    BY <1>1, <2>1 DEF Intercept, Unasked, ClientInv
  <2>2. CASE Close
    <3>1. create' = create /\ app.at \in {"close", "idle"}
      BY <2>2 DEF Close
    <3>2. create = None
      BY <3>1 DEF ClientInv
    <3>3. CASE handle = None
      BY <1>1, <2>2, <3>1, <3>2, <3>3 DEF Close, Unasked
    <3>4. CASE app' = [at |-> "closing", conn |-> IF app.at = "idle" THEN None ELSE app.conn]
      BY <3>1, <3>2, <3>4 DEF Unasked
    <3>5. QED  BY <2>2, <3>3, <3>4 DEF Close
  <2>3. CASE Closed
    BY <1>1, <2>3 DEF Closed, Unasked, ClientInv
  <2>4. CASE Create
    BY <1>1, <2>4 DEF Create, Unasked
  <2>5. CASE Created
    BY <1>1, <2>5 DEF Created, Unasked
  <2>6. QED  BY <2>1, <2>2, <2>3, <2>4, <2>5
<1>3. ClientInv'
  BY <1>0, <1>2 DEF ClientInv
<1>4. QED  BY <1>0, <1>3 DEF ClientKeeps

\* What the thread does with its request, its handler and its context.
LEMMA UsingKeeps ==
  ASSUME ClientInv,
         \/ RegisterReply \/ InsertReply \/ SendRequest \/ Wait \/ Poll \/ Park
         \/ InsertHandler \/ DropContext \/ Drain
  PROVE  ClientKeeps
<1> USE DEF wireVars, driverVars, apiVars
<1>1. /\ app.at \in {"request", "register", "send", "wait", "poll", "park", "parked", "install", "drop", "drain"}
      /\ UNCHANGED <<link, style, client, tick, attempts, infos, ended, create>>
  BY DEF RegisterReply, InsertReply, SendRequest, Wait, Poll, Park, InsertHandler, DropContext, Drain
<1>2. app = [at |-> app.at, conn |-> app.conn] /\ create = None
  BY <1>1 DEF ClientInv
<1>3. /\ app' = [at |-> app'.at, conn |-> app'.conn]
      /\ app'.at \in {"register", "send", "wait", "poll", "install", "park", "parked", "drop", "idle", "drain"}
  BY <1>1, <1>2 DEF Go, RegisterReply, InsertReply, SendRequest, Wait, Poll, Park, InsertHandler, DropContext, Drain
<1>4. ~Unasked'
  BY <1>3 DEF Unasked
<1>5. ClientInv'
  BY <1>1, <1>2, <1>3, <1>4 DEF ClientInv
<1>6. QED  BY <1>1, <1>5 DEF ClientKeeps

-----------------------------------------------------------------------------
(* The client's end of the wire *)

\* The only link that starts to connect is the one the client asks for, and
\* it did not exist.
LEMMA WireConnectKeeps ==
  ASSUME ServerInv, NEW c \in Conns, link[c] = "none", WireConnect(c), UNCHANGED <<sInfos, sEnded>>
  PROVE  ServerKeeps /\ \A d \in Conns : d # c => link'[d] = link[d]
<1>1. link' = [link EXCEPT ![c] = IF listening THEN "connecting" ELSE "lost"]
  BY DEF WireConnect
<1>2. /\ link' \in [Conns -> {"none", "connecting", "open", "clientGone", "serverGone", "lost"}]
      /\ \A d \in Conns : d # c => link'[d] = link[d]
  BY <1>1 DEF ServerInv
<1>3. sEvents' \in Seq(WireEvents)
  <2>1. [conn |-> c, event |-> "Connecting"] \in WireEvents
    BY DEF WireEvents
  <2>2. sEvents' = sEvents \/ sEvents' = Append(sEvents, [conn |-> c, event |-> "Connecting"])
    BY DEF WireConnect
  <2>3. QED  BY <2>1, <2>2, AppendProperties DEF ServerInv
<1>4. c \notin sInfos \cup sEnded
  BY DEF ServerInv
<1>5. ServerInv'
  BY <1>2, <1>3, <1>4 DEF ServerInv
<1>6. QED  BY <1>2, <1>5 DEF ServerKeeps

LEMMA WireClientGoneKeeps ==
  ASSUME ServerInv, NEW c \in Conns, WireClientGone(c), UNCHANGED <<sInfos, sEnded>>
  PROVE  ServerKeeps /\ \A d \in Conns : link[d] = "none" => link'[d] = "none"
<1>1. CASE Alive(c)
  <2>1. link' = [link EXCEPT ![c] = "clientGone"] /\ link[c] # "none"
        /\ sEvents' = Append(sEvents, [conn |-> c, event |-> "ClosedByPeer"])
    BY <1>1 DEF WireClientGone, Alive
  <2>2. sEvents' \in Seq(WireEvents)
    BY <2>1 DEF ServerInv, WireEvents
  <2>3. QED  BY <2>1, <2>2 DEF ServerInv, ServerKeeps
<1>2. CASE ~Alive(c)
  BY <1>2 DEF WireClientGone, ServerInv, ServerKeeps
<1>3. QED  BY <1>1, <1>2

LEMMA LoseKeeps ==
  ASSUME ClientInv, ServerInv, NEW c \in Conns, Lose(c), UNCHANGED <<clientVars, serverVars>>
  PROVE  ClientKeeps /\ ServerKeeps
<1> USE DEF clientVars, serverVars, driverVars, apiVars
<1>1. link' = [link EXCEPT ![c] = "lost"] /\ link[c] \notin {"none"}
      /\ sEvents' = Append(sEvents, [conn |-> c, event |-> "Problem"])
  BY DEF Lose, Alive
<1>2. sEvents' \in Seq(WireEvents)
  BY <1>1 DEF ServerInv, WireEvents
<1>3. ServerKeeps
  BY <1>1, <1>2 DEF ServerInv, ServerKeeps
<1>4. \A d \in Conns : link'[d] # "none" => link[d] # "none"
  BY <1>1 DEF ServerInv
<1>5. Unasked' => Unasked /\ attempts \in Conns
  BY NetworkingAssumption DEF Unasked, ClientInv
<1>6. Unasked => link'[attempts] = "none"
  BY <1>1, <1>4, <1>5 DEF ClientInv, ServerInv
<1>7. ClientInv'
  BY <1>4, <1>5, <1>6 DEF ClientInv
<1>8. QED  BY <1>3, <1>7 DEF ClientKeeps
-----------------------------------------------------------------------------
(* The client's subsystem thread *)

\* The client forgets its connection and tells of it, if it had announced it.
LEMMA CloseClientKeeps ==
  ASSUME ClientInv, ServerInv, client # None, CloseClient,
         UNCHANGED <<style, app, create, sInfos, sEnded>>
  PROVE  ClientKeeps /\ ServerKeeps
<1>1. /\ client' = None /\ tick'.at = "rest" /\ attempts' = attempts
      /\ infos' = infos \ {client}
      /\ ended' = IF client \in infos THEN ended \cup {client} ELSE ended
      /\ WireClientGone(client)
  BY DEF CloseClient, Resting
<1>2. client \in Conns
  BY DEF ClientInv
<1>3. ServerKeeps /\ \A d \in Conns : link[d] = "none" => link'[d] = "none"
  BY <1>1, <1>2, WireClientGoneKeeps
<1>4. Unasked' <=> Unasked
  BY DEF Unasked
<1>5. 1..style.connects \subseteq Conns /\ style.connects \in Nat
  BY NetworkingAssumption DEF ClientInv
<1>6. ClientInv'
  BY <1>1, <1>3, <1>4, <1>5 DEF ClientInv
<1>7. [ClientLife!Next]_<<infos, ended>>
  <2>1. CASE client \in infos
    <3>1. ClientLife!End({client})
      BY <1>1, <2>1 DEF ClientLife!End
    <3>2. QED  BY <1>2, <3>1 DEF ClientLife!Next
  <2>2. CASE client \notin infos
    BY <1>1, <2>2
  <2>3. QED  BY <2>1, <2>2
<1>8. QED  BY <1>3, <1>6, <1>7 DEF ClientKeeps

LEMMA ClientTickKeeps ==
  ASSUME ClientInv, ServerInv, ClientTick, UNCHANGED serverVars
  PROVE  ClientKeeps /\ ServerKeeps
<1> USE DEF serverVars, driverVars, apiVars, wireVars
<1>1. CASE CreateClient
  <2>1. /\ tick.at = "rest" /\ create # None /\ create' = None
        /\ UNCHANGED <<style, app, attempts, infos, ended, tick>>
        /\ \/ client' = create /\ WireConnect(create)
           \/ UNCHANGED <<client, link, sEvents>>
    BY <1>1 DEF CreateClient
  <2>2. app.at = "creating" /\ create = attempts /\ Unasked /\ ~Unasked'
    BY <2>1 DEF ClientInv, Unasked
  <2>3. create \in Conns /\ link[create] = "none" /\ create \in 1..attempts
    BY <2>2, NetworkingAssumption DEF ClientInv
  <2>4. ServerKeeps /\ \A d \in Conns : d # create => link'[d] = link[d]
    <3>1. CASE WireConnect(create)
      BY <2>3, <3>1, WireConnectKeeps
    <3>2. CASE UNCHANGED <<link, sEvents>>
      BY <3>2 DEF ServerKeeps, ServerInv
    <3>3. QED  BY <2>1, <3>1, <3>2
  <2>5. ClientInv'
    BY <2>1, <2>2, <2>3, <2>4 DEF ClientInv
  <2>6. QED  BY <2>1, <2>4, <2>5 DEF ClientKeeps
<1>2. ASSUME UNCHANGED <<style, app, attempts, infos, ended, create, client, link, sEvents>>,
             tick.at # "rest" \/ client # None
      PROVE  ClientKeeps /\ ServerKeeps
  <2>1. Unasked' <=> Unasked
    BY <1>2 DEF Unasked
  <2>2. ClientInv' /\ ServerInv'
    BY <1>2, <2>1 DEF ClientInv, ServerInv
  <2>3. QED  BY <1>2, <2>2 DEF ClientKeeps, ServerKeeps
<1>3. CASE TakeCommands
  <2>1. CASE CloseClient
    BY <1>3, <2>1, CloseClientKeeps DEF TakeCommands
  <2>2. QED  BY <1>2, <1>3, <2>1 DEF TakeCommands
<1>4. CASE TakeMessage \/ Accept \/ DeliverMessage
  BY <1>2, <1>4 DEF TakeMessage, Accept, DeliverMessage
<1>5. CASE PollEvents
  <2>1. client # None
    BY <1>5 DEF PollEvents, ClientInv
  <2>2. CASE CloseClient
    BY <1>5, <2>1, <2>2, CloseClientKeeps DEF PollEvents
  <2>3. QED  BY <1>2, <1>5, <2>1, <2>2 DEF PollEvents
<1>6. QED  BY <1>1, <1>3, <1>4, <1>5 DEF ClientTick

LEMMA ClientStepKeeps ==
  ASSUME ClientInv, ServerInv, ClientStep, UNCHANGED serverVars
  PROVE  ClientKeeps /\ ServerKeeps
<1>1. CASE ClientTick
  BY <1>1, ClientTickKeeps
<1>2. CASE Connect \/ Close \/ InContext
  <2>1. ClientKeeps
    BY <1>2, ConnectKeeps, AskingKeeps, UsingKeeps DEF InContext
  <2>2. UNCHANGED <<link, sEvents, sInfos, sEnded>>
    BY <1>2 DEF InContext, serverVars, wireVars, Connect, Intercept, Close, Closed, Create, Created,
       RegisterReply, InsertReply, SendRequest, Wait, Poll, Park, InsertHandler, DropContext, Drain
  <2>3. QED  BY <2>1, <2>2 DEF ServerInv, ServerKeeps
<1>3. QED  BY <1>1, <1>2 DEF ClientStep

-----------------------------------------------------------------------------
(* The server *)

\* Connections that end were there, and are told of if they had been announced.
LEMMA DisconnectedKeeps ==
  ASSUME ServerInv, NEW gone, Disconnected(gone)
  PROVE  /\ [ServerLife!Next]_<<sInfos, sEnded>>
         /\ sInfos' \cup sEnded' \subseteq sInfos \cup sEnded
<1>1. sInfos' = sInfos \ gone /\ sEnded' = sEnded \cup (sInfos \cap gone)
  BY DEF Disconnected
<1>2. CASE sInfos \cap gone = {}
  BY <1>1, <1>2
<1>3. CASE sInfos \cap gone # {}
  <2> DEFINE g == sInfos \cap gone
  <2>1. g \in (SUBSET Conns) \ {{}} /\ ServerLife!End(g)
    BY <1>1, <1>3 DEF ServerInv, ServerLife!End
  <2>2. QED  BY <1>1, <2>1 DEF ServerLife!Next
<1>4. QED  BY <1>2, <1>3

\* The server closes links; none of them starts to connect by that.
LEMMA WireServerGoneLinks ==
  ASSUME ServerInv, NEW gone, NEW why, WireServerGone(gone, why)
  PROVE  /\ link' \in [Conns -> {"none", "connecting", "open", "clientGone", "serverGone", "lost"}]
         /\ \A c \in Conns : link[c] = "none" <=> link'[c] = "none"
         /\ \A c \in Conns : link'[c] = "connecting" => link[c] = "connecting"
BY DEF WireServerGone, ServerInv, Alive

LEMMA LinksKeep ==
  ASSUME ClientInv, UNCHANGED <<clientVars>>, \A c \in Conns : link[c] = "none" <=> link'[c] = "none"
  PROVE  ClientKeeps
<1> USE DEF clientVars, driverVars, apiVars
<1>1. Unasked' <=> Unasked
  BY DEF Unasked
<1>2. 1..style.connects \subseteq Conns
  BY NetworkingAssumption DEF ClientInv
<1>3. Unasked => link'[attempts] = "none"
  BY <1>2 DEF ClientInv
<1>4. ClientInv'
  BY <1>1, <1>3 DEF ClientInv
<1>5. QED  BY <1>4 DEF ClientKeeps
\* A step of the server that closes links, and no others, of connections it
\* may have announced, and forgets events.
LEMMA ClosingKeeps ==
  ASSUME ServerInv, NEW gone, NEW why, WireServerGone(gone, why),
         [ServerLife!Next]_<<sInfos, sEnded>>, sInfos' \cup sEnded' \subseteq sInfos \cup sEnded,
         sEvents' \in Seq(WireEvents)
  PROVE  ServerKeeps /\ \A c \in Conns : link[c] = "none" <=> link'[c] = "none"
<1>1. /\ link' \in [Conns -> {"none", "connecting", "open", "clientGone", "serverGone", "lost"}]
      /\ \A c \in Conns : link[c] = "none" <=> link'[c] = "none"
      /\ \A c \in Conns : link'[c] = "connecting" => link[c] = "connecting"
  BY WireServerGoneLinks
<1>2. ServerInv'
  BY <1>1 DEF ServerInv
<1>3. QED  BY <1>1, <1>2 DEF ServerKeeps

\* A connection is accepted when it connects, which it does once.
LEMMA AcceptKeeps ==
  ASSUME ServerInv, NEW c \in Conns, AcceptClient(c), sEvents # <<>>
  PROVE  ServerKeeps /\ \A d \in Conns : link[d] = "none" <=> link'[d] = "none"
<1>1. sEvents' \in Seq(WireEvents)
  BY DEF AcceptClient, ServerInv
<1>2. CASE link[c] = "connecting" /\ sInfos' = sInfos \cup {c}
  <2>1. link' = [link EXCEPT ![c] = "open"] /\ sEnded' = sEnded
    BY <1>2 DEF AcceptClient
  <2>2. c \notin sInfos \cup sEnded
    BY <1>2 DEF ServerInv
  <2>3. ServerInv'
    BY <1>1, <1>2, <2>1 DEF ServerInv
  <2>4. ServerLife!Open(c)
    BY <1>2, <2>1, <2>2 DEF ServerLife!Open
  <2>5. QED  BY <1>2, <2>1, <2>3, <2>4 DEF ServerKeeps, ServerLife!Next, ServerInv
<1>3. CASE UNCHANGED sInfos
  <2>1. link' = (IF link[c] = "connecting" THEN [link EXCEPT ![c] = "open"] ELSE link) /\ sEnded' = sEnded
    BY DEF AcceptClient
  <2>2. ServerInv' /\ \A d \in Conns : link[d] = "none" <=> link'[d] = "none"
    BY <1>1, <1>3, <2>1 DEF ServerInv
  <2>3. QED  BY <1>3, <2>1, <2>2 DEF ServerKeeps
<1>4. QED  BY <1>2, <1>3 DEF AcceptClient

LEMMA ServerTickKeeps ==
  ASSUME ServerInv, ServerTick
  PROVE  ServerKeeps /\ \A c \in Conns : link[c] = "none" <=> link'[c] = "none"
<1>1. ASSUME UNCHANGED <<link, sEvents, sInfos, sEnded>>
      PROVE  ServerKeeps /\ \A c \in Conns : link[c] = "none" <=> link'[c] = "none"
  BY <1>1 DEF ServerKeeps, ServerInv
<1>2. CASE STakeCommands
  <2>1. CASE CloseAll
    <3>1. Disconnected(clients) /\ WireServerGone(Conns, "ClosedByPeer") /\ sEvents' = <<>>
      BY <2>1 DEF CloseAll
    <3>2. <<>> \in Seq(WireEvents)
      OBVIOUS
    <3>3. QED  BY <3>1, <3>2, DisconnectedKeeps, ClosingKeeps
  <2>2. CASE UNCHANGED <<wireVars, server, sClosed, clients, sInfos, sEnded>>
    BY <1>1, <2>2 DEF wireVars
  <2>3. QED  BY <1>2, <2>1, <2>2 DEF STakeCommands
<1>3. ASSUME NEW c \in Conns, STakeMessage(c)
      PROVE  ServerKeeps /\ \A d \in Conns : link[d] = "none" <=> link'[d] = "none"
  BY <1>1, <1>3 DEF STakeMessage
<1>4. CASE HandleRequest
  BY <1>1, <1>4 DEF HandleRequest, wireVars
<1>8. CASE OthersAsk
  BY <1>1, <1>8 DEF OthersAsk, wireVars
<1>5. CASE SPollEvents
  <2> DEFINE c == Head(sEvents).conn
  <2>1. sEvents # <<>> /\ (AcceptClient(c) \/ DropClient(c))
    BY <1>5 DEF SPollEvents
  <2>2. c \in Conns /\ Tail(sEvents) \in Seq(WireEvents)
    <3>1. Head(sEvents) \in WireEvents /\ Tail(sEvents) \in Seq(WireEvents)
      BY <2>1, HeadTailProperties DEF ServerInv
    <3>2. QED  BY <3>1 DEF WireEvents
  <2>3. CASE Panic
    <3>1. sEvents' = <<>> /\ WireServerGone(Conns, "Problem") /\ UNCHANGED <<sInfos, sEnded>>
      BY <2>3 DEF Panic
    <3>2. sEvents' \in Seq(WireEvents)
      BY <3>1
    <3>3. QED  BY <3>1, <3>2, ClosingKeeps
  <2> HIDE DEF c
  <2>4. CASE Disconnected({c}) /\ WireServerGone({c}, "ClosedByPeer") /\ sEvents' = Tail(sEvents)
    BY <2>2, <2>4, DisconnectedKeeps, ClosingKeeps
  <2>5. CASE AcceptClient(c)
    BY <2>1, <2>2, <2>5, AcceptKeeps
  <2>6. QED  BY <2>1, <2>3, <2>4, <2>5 DEF DropClient
<1>6. CASE SSend
  <2> DEFINE gone == sTick.closing \cap clients
  <2>1. CloseClients(gone) /\ UNCHANGED sEvents
    BY <1>6 DEF SSend
  <2> HIDE DEF gone
  <2>2. Disconnected(gone) /\ WireServerGone(gone, "ClosedByPeer") /\ sEvents' \in Seq(WireEvents)
    BY <2>1 DEF CloseClients, ServerInv
  <2>3. QED  BY <2>2, DisconnectedKeeps, ClosingKeeps
<1>7. QED  BY <1>2, <1>3, <1>4, <1>5, <1>6, <1>8 DEF ServerTick

LEMMA ServerStepKeeps ==
  ASSUME ServerInv, ServerStep
  PROVE  ServerKeeps /\ \A c \in Conns : link[c] = "none" <=> link'[c] = "none"
<1>1. CASE ServerTick
  BY <1>1, ServerTickKeeps
<1>2. CASE Broadcast \/ (\E c \in Conns : CloseConnection(c)) \/ LockHandle \/ ServerGoesOn \/ Work
  <2>1. UNCHANGED <<link, sEvents, sInfos, sEnded>>
    BY <1>2 DEF Broadcast, CloseConnection, LockHandle, ServerGoesOn, CloseServer, ServerClosed, KickReturns, Work, wireVars
  <2>2. QED  BY <2>1 DEF ServerKeeps, ServerInv
<1>3. QED  BY <1>1, <1>2 DEF ServerStep

-----------------------------------------------------------------------------

LEMMA StackStep ==
  ASSUME ClientInv, ServerInv, [Next]_vars
  PROVE  ClientKeeps /\ ServerKeeps
<1>1. CASE ClientMoves
  BY <1>1, ClientStepKeeps DEF ClientMoves
<1>2. CASE ServerMoves
  <2>1. style' = style
    BY <1>2 DEF ServerMoves, ServerStep, Broadcast, CloseConnection, LockHandle, ServerGoesOn, CloseServer,
       ServerClosed, KickReturns, Work, ServerTick, STakeCommands, STakeMessage, OthersAsk, HandleRequest,
       SPollEvents, SSend
  <2>2. UNCHANGED clientVars
    BY <1>2, <2>1 DEF ServerMoves, clientVars
  <2>3. QED  BY <1>2, <2>2, ServerStepKeeps, LinksKeep DEF ServerMoves
<1>3. CASE Breaks
  BY <1>3, LoseKeeps DEF Breaks
<1>4. CASE Rest \/ UNCHANGED vars
  <2>1. UNCHANGED clientVars /\ UNCHANGED <<link, sEvents, sInfos, sEnded>>
    BY <1>4 DEF Rest, vars, wireVars, serverVars
  <2>2. ClientKeeps
    BY <2>1, LinksKeep
  <2>3. QED  BY <2>1, <2>2 DEF ServerKeeps, ServerInv
<1>5. QED  BY <1>1, <1>2, <1>3, <1>4 DEF Next

\* Each stack announces a connection once, before it opens, and ends it once;
\* no connection comes back, whichever side or the wire ends it and however
\* the commands, events and ticks of the two sides interleave
\* (mod.rs:365-403; gns.rs, GnsClient::close, GnsServer::poll_event).
THEOREM ConnectionsOpenAndEndOnce == Spec => ConnectionsEndOnce
<1>1. Init => ClientInv /\ ServerInv /\ ClientLife!Init /\ ServerLife!Init
  <2> SUFFICES ASSUME Init PROVE ClientInv /\ ServerInv /\ ClientLife!Init /\ ServerLife!Init
    OBVIOUS
  <2>1. /\ style \in Styles /\ link = [c \in Conns |-> "none"] /\ sEvents = <<>>
        /\ app = [at |-> "idle", conn |-> None] /\ attempts = 0
        /\ infos = {} /\ ended = {} /\ sInfos = {} /\ sEnded = {}
        /\ create = None /\ client = None /\ tick.at = "rest"
    BY DEF Init, WireInit, ClientInit, ServerInit, Resting
  <2>2. ~Unasked /\ app = [at |-> app.at, conn |-> app.conn]
    BY <2>1 DEF Unasked
  <2>3. ClientInv
    BY <2>1, <2>2, NetworkingAssumption DEF ClientInv
  <2>4. QED
    BY <2>1, <2>3 DEF ServerInv, ClientLife!Init, ServerLife!Init
<1>2. ClientInv /\ ServerInv /\ [Next]_vars
        => /\ ClientInv' /\ ServerInv'
           /\ [ClientLife!Next]_<<infos, ended>> /\ [ServerLife!Next]_<<sInfos, sEnded>>
  BY StackStep DEF ClientKeeps, ServerKeeps
<1>3. QED
  BY <1>1, <1>2, PTL DEF Spec, ConnectionsEndOnce, ClientLife!Spec, ServerLife!Spec
-----------------------------------------------------------------------------
(* Numbers and sequences.                                                   *)

\* A set of natural numbers that is not empty has a least element.
LEMMA LeastNumber ==
  ASSUME NEW T \in SUBSET Nat, T # {}
  PROVE  \E n \in T : \A m \in T : n <= m
<1> DEFINE R == OpToRel(<, Nat)
<1>1. PICK n \in T : \A m \in T : ~ (<<m, n>> \in R)
  <2>1. IsWellFoundedOn(R, Nat)
    BY NatLessThanWellFounded
  <2> HIDE DEF R
  <2> QED
    BY <2>1, WFMin
<1>2. \A m, q \in Nat : m < q => <<m, q>> \in R
  BY DEF OpToRel
<1>3. \A m \in T : n <= m
  <2> HIDE DEF R
  <2> SUFFICES ASSUME NEW m \in T
               PROVE  n <= m
    OBVIOUS
  <2>1. ~ (m < n)
    BY <1>1, <1>2
  <2> QED
    BY <2>1
<1> QED
  BY <1>3

\* What Picked goes through: the first i members of s, of which those at some
\* positions are taken.
Picks(f, s, at, n) ==
  /\ DOMAIN f = 0 .. n /\ f[0] = <<>>
  /\ \A i \in 1 .. n : f[i] = IF i \in at THEN Append(f[i - 1], s[i]) ELSE f[i - 1]

LEMMA PicksExist ==
  ASSUME NEW s, NEW at, NEW n \in Nat
  PROVE  \E f : Picks(f, s, at, n)
<1> DEFINE Without == {m \in Nat : ~\E f : Picks(f, s, at, m)}
<1>1. Without = {}
  <2> SUFFICES ASSUME Without # {}
               PROVE  FALSE
    OBVIOUS
  <2>1. PICK m \in Without : \A k \in Without : m <= k
    <3>1. Without \in SUBSET Nat
      OBVIOUS
    <3> HIDE DEF Without
    <3> QED
      BY <3>1, LeastNumber
  <2>2. m # 0
    <3>1. Picks([i \in 0 .. 0 |-> <<>>], s, at, 0)
      BY DEF Picks
    <3> QED
      BY <2>1, <3>1
  <2>3. m - 1 \in Nat /\ m - 1 \notin Without
    BY <2>1, <2>2
  <2>4. PICK f : Picks(f, s, at, m - 1)
    BY <2>3
  <2> DEFINE next == IF m \in at THEN Append(f[m - 1], s[m]) ELSE f[m - 1]
             h == [i \in 0 .. m |-> IF i = m THEN next ELSE f[i]]
  <2>5. Picks(h, s, at, m)
    <3>1. DOMAIN h = 0 .. m /\ h[0] = <<>>
      BY <2>1, <2>2, <2>4 DEF Picks
    <3>2. ASSUME NEW i \in 1 .. m
          PROVE  h[i] = IF i \in at THEN Append(h[i - 1], s[i]) ELSE h[i - 1]
      <4>1. i - 1 \in 0 .. m /\ i - 1 # m /\ i \in 0 .. m /\ h[i - 1] = f[i - 1]
        BY <2>1
      <4>2. CASE i = m
        BY <4>1, <4>2
      <4>3. CASE i # m
        <5>1. i \in 1 .. m - 1 /\ h[i] = f[i]
          BY <2>1, <4>1, <4>3
        <5> QED
          BY <2>4, <4>1, <5>1 DEF Picks
      <4> QED
        BY <4>2, <4>3
    <3> QED
      BY <3>1, <3>2 DEF Picks
  <2> QED
    BY <2>1, <2>5
<1> QED
  BY <1>1

\* Sequence q has members of s, each from a position of its own, of those in
\* at up to i.
From(q, s, at, i, S) ==
  /\ q \in Seq(S)
  /\ \E e \in [DOMAIN q -> at \cap (1 .. i)] :
       /\ \A j \in DOMAIN q : q[j] = s[e[j]]
       /\ \A j, k \in DOMAIN q : e[j] = e[k] => j = k

LEMMA PicksFrom ==
  ASSUME NEW S, NEW s \in Seq(S), NEW at, NEW f, Picks(f, s, at, Len(s))
  PROVE  \A i \in 0 .. Len(s) : From(f[i], s, at, i, S)
<1> DEFINE Wrong == {i \in 0 .. Len(s) : ~From(f[i], s, at, i, S)}
<1> SUFFICES ASSUME Wrong # {}
             PROVE  FALSE
  OBVIOUS
<1>1. PICK n \in Wrong : \A m \in Wrong : n <= m
  <2>1. Wrong \in SUBSET Nat
    OBVIOUS
  <2> HIDE DEF Wrong
  <2> QED
    BY <2>1, LeastNumber
<1>2. n # 0
  <2>1. From(<<>>, s, at, 0, S)
    <3> DEFINE q == <<>>
    <3>1. q \in Seq(S) /\ DOMAIN q = {}
      OBVIOUS
    <3> HIDE DEF q
    <3> DEFINE e == [j \in DOMAIN q |-> 0]
    <3>2. e \in [DOMAIN q -> at \cap (1 .. 0)]
      BY <3>1
    <3> HIDE DEF e
    <3>3. From(q, s, at, 0, S)
      BY <3>1, <3>2 DEF From
    <3> QED
      BY <3>3 DEF q
  <2>2. f[0] = <<>>
    BY DEF Picks
  <2> QED
    BY <1>1, <2>1, <2>2
<1>3. n \in 1 .. Len(s) /\ n - 1 \in 0 .. Len(s) /\ n - 1 \notin Wrong
  BY <1>1, <1>2
<1>4. From(f[n - 1], s, at, n - 1, S)
  BY <1>3
<1> DEFINE q == f[n - 1]
<1>5. PICK e \in [DOMAIN q -> at \cap (1 .. (n - 1))] :
        /\ \A j \in DOMAIN q : q[j] = s[e[j]]
        /\ \A j, k \in DOMAIN q : e[j] = e[k] => j = k
  BY <1>4 DEF From
<1>6. q \in Seq(S)
  BY <1>4 DEF From
<1> HIDE DEF q
<1>7. CASE n \notin at
  <2>1. f[n] = q
    BY <1>3, <1>7 DEF Picks, q
  <2>2. e \in [DOMAIN q -> at \cap (1 .. n)]
    BY <1>3, <1>5
  <2>3. From(q, s, at, n, S)
    BY <1>5, <1>6, <2>2 DEF From
  <2> QED
    BY <1>1, <2>1, <2>3
<1>8. CASE n \in at
  <2> DEFINE p == Append(q, s[n])
             h == [j \in DOMAIN p |-> IF j = Len(q) + 1 THEN n ELSE e[j]]
  <2>1. f[n] = p
    BY <1>3, <1>8 DEF Picks, q
  <2>2. s[n] \in S
    BY <1>3
  <2>3. /\ p \in Seq(S) /\ DOMAIN q = 1 .. Len(q) /\ DOMAIN p = 1 .. Len(q) + 1 /\ Len(q) \in Nat
        /\ p[Len(q) + 1] = s[n] /\ \A j \in DOMAIN q : p[j] = q[j]
    BY <1>6, <2>2
  <2> HIDE DEF p
  <2>4. h \in [DOMAIN p -> at \cap (1 .. n)]
    BY <1>3, <1>5, <1>8, <2>3
  <2>5. \A j \in DOMAIN p : p[j] = s[h[j]]
    BY <1>5, <2>3
  <2>6. \A j, k \in DOMAIN p : h[j] = h[k] => j = k
    <3>1. \A j \in DOMAIN q : e[j] # n
      BY <1>3, <1>5
    <3> QED
      BY <1>5, <2>3, <3>1
  <2> HIDE DEF h
  <2>7. From(p, s, at, n, S)
    BY <2>3, <2>4, <2>5, <2>6 DEF From
  <2> QED
    BY <1>1, <2>1, <2>7
<1> QED
  BY <1>7, <1>8

\* Picked members come from positions of their own.
LEMMA PickedFrom ==
  ASSUME NEW S, NEW s \in Seq(S), NEW at
  PROVE  /\ Picked(s, at) \in Seq(S)
         /\ \E e \in [DOMAIN Picked(s, at) -> at \cap DOMAIN s] :
              /\ \A j \in DOMAIN Picked(s, at) : Picked(s, at)[j] = s[e[j]]
              /\ \A j, k \in DOMAIN Picked(s, at) : e[j] = e[k] => j = k
<1> DEFINE n == Len(s)
           Solves(f) == f = [i \in 0 .. n |->
                              CASE i = 0 -> <<>>
                                [] i > 0 /\ i \in at -> Append(f[i - 1], s[i])
                                [] OTHER -> f[i - 1]]
           done == CHOOSE f : Solves(f)
<1>1. n \in Nat /\ DOMAIN s = 1 .. n
  OBVIOUS
<1>2. PICK f : Picks(f, s, at, n)
  BY <1>1, PicksExist
<1>3. Picks([i \in 0 .. n |-> f[i]], s, at, n)
  <2> DEFINE g == [i \in 0 .. n |-> f[i]]
  <2>1. DOMAIN g = 0 .. n /\ g[0] = <<>>
    BY <1>1, <1>2 DEF Picks
  <2>2. \A i \in 1 .. n : i \in 0 .. n /\ i - 1 \in 0 .. n
    BY <1>1
  <2>3. \A i \in 1 .. n : g[i] = f[i] /\ g[i - 1] = f[i - 1]
    BY <2>2
  <2> HIDE DEF g
  <2>4. \A i \in 1 .. n : g[i] = IF i \in at THEN Append(g[i - 1], s[i]) ELSE g[i - 1]
    BY <1>2, <2>3 DEF Picks
  <2>5. Picks(g, s, at, n)
    BY <2>1, <2>4 DEF Picks
  <2> QED
    BY <2>5 DEF g
<1>4. \E g : Solves(g)
  <2> DEFINE g == [i \in 0 .. n |-> f[i]]
  <2>1. Picks(g, s, at, n) /\ g = [i \in 0 .. n |-> g[i]]
    BY <1>3
  <2> HIDE DEF g
  <2>2. ASSUME NEW i \in 0 .. n
        PROVE  g[i] = CASE i = 0 -> <<>>
                        [] i > 0 /\ i \in at -> Append(g[i - 1], s[i])
                        [] OTHER -> g[i - 1]
    <3>1. CASE i = 0
      BY <2>1, <3>1 DEF Picks
    <3>2. CASE i # 0
      <4>1. i \in 1 .. n /\ i > 0
        BY <1>1, <3>2
      <4> QED
        BY <2>1, <3>2, <4>1 DEF Picks
    <3> QED
      BY <3>1, <3>2
  <2>3. Solves(g)
    BY <2>1, <2>2
  <2> QED
    BY <2>3
<1>5. Solves(done)
  BY <1>4
<1>6. Picked(s, at) = done[n]
  BY DEF Picked
<1> HIDE DEF done
<1>7. Picks(done, s, at, n)
  <2>1. DOMAIN done = 0 .. n
    BY <1>5
  <2>2. \A i \in 0 .. n : done[i] = CASE i = 0 -> <<>>
                                      [] i > 0 /\ i \in at -> Append(done[i - 1], s[i])
                                      [] OTHER -> done[i - 1]
    BY <1>5
  <2>3. done[0] = <<>>
    BY <1>1, <2>2
  <2>4. \A i \in 1 .. n : done[i] = IF i \in at THEN Append(done[i - 1], s[i]) ELSE done[i - 1]
    BY <1>1, <2>2
  <2> QED
    BY <2>1, <2>3, <2>4 DEF Picks
<1>8. From(done[n], s, at, n, S)
  BY <1>1, <1>7, PicksFrom
<1> QED
  BY <1>1, <1>6, <1>8 DEF From

-----------------------------------------------------------------------------
(* What messages there are, and where.                                      *)

Ask(n) == Numbered(Message("request"), n)
AnswerOf(n) == Reply(Ask(n))
PushMessages == [key : {"push"}, num : Nat, reply : {None}]

Outgoing(n) == [kind : {"broadcast"}, msg : PushMessages] \cup [kind : {"sendTo"}, to : Conns, msg : {AnswerOf(n)}]
Orders(n) == {[kind |-> "close"], [kind |-> "send", msg |-> Ask(n)]}
ServerOrders(n) == Outgoing(n) \cup [kind : {"kick"}, conn : Conns] \cup {[kind |-> "close"]}

\* The requests and answers that there are have number n.
ClientTyped(n) ==
  /\ commands = [c \in Conns |-> commands[c]] /\ \A c \in Conns : commands[c] \in Seq(Orders(n))
  /\ DOMAIN tick = {"at", "left", "out", "msg"} /\ tick.out \in Seq({Ask(n)})
  /\ tick.at \in {"accept", "deliver"} => tick.msg \in PushMessages \cup {AnswerOf(n)}

WireTyped(n) ==
  /\ up = [c \in Conns |-> up[c]] /\ \A c \in Conns : up[c] \in Seq({Ask(n)})
  /\ down = [c \in Conns |-> down[c]] /\ \A c \in Conns : down[c] \in Seq(PushMessages \cup {AnswerOf(n)})

Requests(n) == [from : Conns, msg : {Ask(n)}] \cup {OtherRequest}

ServerTyped(n) ==
  /\ pushes \in Nat
  /\ sCommands \in Seq(ServerOrders(n)) /\ queue \in Seq(Requests(n))
  /\ DOMAIN sTick = {"at", "left", "out", "closing", "got"} /\ sTick.out \in Seq(Outgoing(n))
  /\ sTick.at = "handle" => sTick.got \in Requests(n)

\* The places where a request, or its answer, can be.
InCommands == UNION {{<<c, i>> : i \in {j \in DOMAIN commands[c] : commands[c][j].kind = "send"}} : c \in Conns}
InOut      == DOMAIN tick.out
InUp       == UNION {{<<c, i>> : i \in DOMAIN up[c]} : c \in Conns}
InHand     == {x \in {1} : sTick.at = "handle" /\ sTick.got.from # None}
InQueue    == {i \in DOMAIN queue : queue[i].from # None}
InAnswers  == {i \in DOMAIN sCommands : sCommands[i].kind = "sendTo"}
InSending  == {i \in DOMAIN sTick.out : sTick.out[i].kind = "sendTo"}
InDown     == UNION {{<<c, i>> : i \in {j \in DOMAIN down[c] : down[c][j].key = "reply"}} : c \in Conns}
InMessage  == {x \in {1} : tick.at \in {"accept", "deliver"} /\ tick.msg.key = "reply"}

\* None, one, or more.
Few(S) == IF S = {} THEN 0 ELSE IF \A x, y \in S : x = y THEN 1 ELSE 2

UnderWay ==
  Few(InCommands) + Few(InOut) + Few(InUp) + Few(InHand) + Few(InQueue)
    + Few(InAnswers) + Few(InSending) + Few(InDown) + Few(InMessage)

Waiting == app.at \in {"wait", "poll", "park", "parked"}
Asking == app.at \in {"request", "register", "send", "install"} \/ Waiting
Fresh == Unasked \/ app.at \in {"creating", "request", "register", "send"}

\* A request is under way once, while the application waits for its answer,
\* which the dispatch and the buffer know of.
AskInv ==
  /\ UnderWay \in {0, 1}
  /\ UnderWay = 1 => /\ Waiting /\ app.conn \in replies /\ app.conn \notin answered
                     /\ app.conn \in buffer.active \/ (InMessage # {} /\ tick.at = "deliver")
  /\ Fresh => app.conn \notin answered
  /\ app.at \in {"register", "send"} => app.conn \in buffer.active
  /\ app.at = "send" => app.conn \in replies
  /\ app.conn \in (1 .. attempts) \cup {None} /\ (Asking \/ app.at = "creating" => app.conn # None)
  /\ replies \subseteq Conns /\ buffer.active \subseteq Conns /\ answered \subseteq 1 .. attempts

\* A client that is connected before there is a handler.
Holding == Asking \/ (app.at = "creating" /\ create = None /\ made)

\* As long as there is no handler, the buffer is in the way of what comes.
BufferInv ==
  /\ DOMAIN buffer = {"conn", "msgs", "active"} /\ buffer.msgs \in Seq(PushMessages)
  /\ Asking \/ app.at \in {"close", "create", "creating"} \/ (app.at = "closing" /\ app.conn # None)
       => context = app.conn /\ buffer.conn = app.conn
  /\ Asking => handle = app.conn
  /\ installed \/ client = None \/ (Holding /\ client = app.conn)
  /\ installed \/ Holding \/ buffer.msgs = <<>>
  /\ installed \/ tick.at # "deliver" \/ InMessage # {}

TypedFor(n) == ClientTyped(n) /\ WireTyped(n) /\ ServerTyped(n)

\* n is the application's connection, and the number of its request.
Handled(n) == n = app.conn /\ TypedFor(n) /\ AskInv /\ BufferInv /\ NothingUnhandled

HandledInv == ClientInv /\ \E n : Handled(n)

-----------------------------------------------------------------------------
(* Counting.                                                                *)

LEMMA FewIs ==
  ASSUME NEW S
  PROVE  /\ Few(S) \in {0, 1, 2}
         /\ Few(S) = 0 <=> S = {}
         /\ Few(S) <= 1 <=> \A x, y \in S : x = y
  BY DEF Few

\* What was in one place is in one of two.
LEMMA FewSplit ==
  ASSUME NEW S, NEW R, NEW Q, Few(S) <= 1,
         S = {} => R = {} /\ Q = {},
         \A x, y \in R : x = y, \A x, y \in Q : x = y, R = {} \/ Q = {}
  PROVE  Few(R) + Few(Q) <= Few(S)
<1>1. Few(R) \in {0, 1} /\ Few(Q) \in {0, 1} /\ Few(S) \in {0, 1}
  BY FewIs DEF Few
<1>2. Few(R) = 0 \/ Few(Q) = 0
  BY FewIs
<1>3. Few(S) = 0 => Few(R) = 0 /\ Few(Q) = 0
  BY FewIs
<1> HIDE DEF Few
<1> QED
  BY <1>1, <1>2, <1>3

\* What was in one of two places is in one.
LEMMA FewMerge ==
  ASSUME NEW S, NEW T, NEW R, Few(S) + Few(T) <= 1,
         S = {} /\ T = {} => R = {},
         S = {} \/ T = {} => \A x, y \in R : x = y
  PROVE  Few(R) <= Few(S) + Few(T)
<1>1. /\ Few(R) \in {0, 1, 2} /\ Few(S) \in {0, 1, 2} /\ Few(T) \in {0, 1, 2}
      /\ Few(R) = 0 <=> R = {}
      /\ Few(S) = 0 <=> S = {}
      /\ Few(T) = 0 <=> T = {}
      /\ Few(R) <= 1 <=> \A x, y \in R : x = y
  BY FewIs
<1> QED
  BY <1>1

\* The steps of a sequence's members.
LEMMA Members ==
  ASSUME NEW A, NEW B, NEW s \in Seq(A), \A i \in DOMAIN s : s[i] \in B
  PROVE  s \in Seq(B)
  OBVIOUS

LEMMA Tails ==
  ASSUME NEW A, NEW s \in Seq(A), s # <<>>
  PROVE  /\ Tail(s) \in Seq(A) /\ Head(s) \in A /\ Head(s) = s[1] /\ 1 \in DOMAIN s
         /\ \A i \in DOMAIN Tail(s) : i + 1 \in DOMAIN s /\ i + 1 # 1 /\ i \in Nat /\ Tail(s)[i] = s[i + 1]
  OBVIOUS

LEMMA Appends ==
  ASSUME NEW A, NEW s \in Seq(A), NEW x \in A
  PROVE  /\ Append(s, x) \in Seq(A)
         /\ DOMAIN Append(s, x) = DOMAIN s \cup {Len(s) + 1} /\ Len(s) + 1 \notin DOMAIN s
         /\ Append(s, x)[Len(s) + 1] = x
         /\ \A i \in DOMAIN s : Append(s, x)[i] = s[i]
  OBVIOUS

\* Each place is in one variable.
LEMMA PlacesStay ==
  /\ UNCHANGED commands => InCommands' = InCommands
  /\ UNCHANGED tick => InOut' = InOut /\ InMessage' = InMessage
  /\ UNCHANGED up => InUp' = InUp
  /\ UNCHANGED sTick => InHand' = InHand /\ InSending' = InSending
  /\ UNCHANGED queue => InQueue' = InQueue
  /\ UNCHANGED sCommands => InAnswers' = InAnswers
  /\ UNCHANGED down => InDown' = InDown
  BY DEF InCommands, InOut, InMessage, InUp, InHand, InSending, InQueue, InAnswers, InDown

LEMMA UnderWayIs ==
  /\ UnderWay \in Nat /\ UnderWay' \in Nat
<1>1. /\ Few(InCommands) \in Nat /\ Few(InOut) \in Nat /\ Few(InMessage) \in Nat
      /\ Few(InUp) \in Nat /\ Few(InHand) \in Nat /\ Few(InQueue) \in Nat
      /\ Few(InAnswers) \in Nat /\ Few(InSending) \in Nat /\ Few(InDown) \in Nat
  BY DEF Few
<1>2. /\ Few(InCommands') \in Nat /\ Few(InOut') \in Nat /\ Few(InMessage') \in Nat
      /\ Few(InUp') \in Nat /\ Few(InHand') \in Nat /\ Few(InQueue') \in Nat
      /\ Few(InAnswers') \in Nat /\ Few(InSending') \in Nat /\ Few(InDown') \in Nat
  BY DEF Few
<1>3. UnderWay \in Nat
  BY <1>1 DEF UnderWay
<1>4. UnderWay' \in Nat
  BY <1>2 DEF UnderWay
<1> QED
  BY <1>3, <1>4

\* A request or answer that is under way is nowhere else.
LEMMA InOnePlace ==
  ASSUME UnderWay \in {0, 1}
  PROVE  /\ Few(InCommands) + Few(InOut) <= 1 /\ Few(InOut) + Few(InUp) <= 1
         /\ Few(InUp) + Few(InHand) <= 1
         /\ Few(InHand) + Few(InQueue) <= 1 /\ Few(InHand) + Few(InAnswers) <= 1
         /\ Few(InQueue) + Few(InAnswers) <= 1 /\ Few(InAnswers) + Few(InSending) <= 1
         /\ Few(InSending) + Few(InDown) <= 1 /\ Few(InDown) + Few(InMessage) <= 1
         /\ InMessage # {} => InDown = {}
         /\ UnderWay = 0 <=> /\ InCommands = {} /\ InOut = {} /\ InUp = {} /\ InHand = {} /\ InQueue = {}
                             /\ InAnswers = {} /\ InSending = {} /\ InDown = {} /\ InMessage = {}
<1>1. /\ Few(InCommands) \in {0, 1, 2} /\ Few(InOut) \in {0, 1, 2} /\ Few(InUp) \in {0, 1, 2}
      /\ Few(InHand) \in {0, 1, 2} /\ Few(InQueue) \in {0, 1, 2} /\ Few(InAnswers) \in {0, 1, 2}
      /\ Few(InSending) \in {0, 1, 2} /\ Few(InDown) \in {0, 1, 2} /\ Few(InMessage) \in {0, 1, 2}
  BY FewIs
<1>2. /\ Few(InCommands) = 0 <=> InCommands = {}
      /\ Few(InOut) = 0 <=> InOut = {}
      /\ Few(InUp) = 0 <=> InUp = {}
      /\ Few(InHand) = 0 <=> InHand = {}
      /\ Few(InQueue) = 0 <=> InQueue = {}
      /\ Few(InAnswers) = 0 <=> InAnswers = {}
      /\ Few(InSending) = 0 <=> InSending = {}
      /\ Few(InDown) = 0 <=> InDown = {}
      /\ Few(InMessage) = 0 <=> InMessage = {}
  BY FewIs
<1>3. Few(InDown) + Few(InMessage) <= 1
  BY <1>1 DEF UnderWay
<1>4. InMessage # {} => InDown = {}
  BY <1>1, <1>2, <1>3
<1>5. UnderWay = 0 <=> /\ Few(InCommands) = 0 /\ Few(InOut) = 0 /\ Few(InUp) = 0 /\ Few(InHand) = 0 /\ Few(InQueue) = 0
                       /\ Few(InAnswers) = 0 /\ Few(InSending) = 0 /\ Few(InDown) = 0 /\ Few(InMessage) = 0
  BY <1>1 DEF UnderWay
<1>6. QED
  BY <1>1, <1>2, <1>3, <1>4, <1>5 DEF UnderWay

-----------------------------------------------------------------------------
(* The request and the answer on the side of the server.                    *)

\* They are what they were, and not more.
KeepsPlaces(n) == ServerTyped(n)' /\ WireTyped(n)' /\ UnderWay' <= UnderWay

LEMMA FewerPlaces ==
  ASSUME NEW S, NEW R, R \subseteq S
  PROVE  Few(R) <= Few(S)
<1>1. /\ Few(R) \in {0, 1, 2} /\ Few(S) \in {0, 1, 2}
      /\ Few(R) = 0 <=> R = {}
      /\ Few(S) = 0 <=> S = {}
      /\ Few(R) <= 1 <=> \A x, y \in R : x = y
      /\ Few(S) <= 1 <=> \A x, y \in S : x = y
  BY FewIs
<1> QED
  BY <1>1

LEMMA ServerCounts ==
  ASSUME UNCHANGED <<commands, tick>>,
         Few(InUp') + Few(InHand') + Few(InQueue') + Few(InAnswers') + Few(InSending') + Few(InDown')
           <= Few(InUp) + Few(InHand) + Few(InQueue) + Few(InAnswers) + Few(InSending) + Few(InDown)
  PROVE  UnderWay' <= UnderWay
<1>1. InCommands' = InCommands /\ InOut' = InOut /\ InMessage' = InMessage
  BY PlacesStay
<1>2. /\ Few(InCommands) \in Int /\ Few(InOut) \in Int /\ Few(InMessage) \in Int
      /\ Few(InUp) \in Int /\ Few(InHand) \in Int /\ Few(InQueue) \in Int
      /\ Few(InAnswers) \in Int /\ Few(InSending) \in Int /\ Few(InDown) \in Int
      /\ Few(InUp') \in Int /\ Few(InHand') \in Int /\ Few(InQueue') \in Int
      /\ Few(InAnswers') \in Int /\ Few(InSending') \in Int /\ Few(InDown') \in Int
  BY DEF Few
<1>3. UnderWay = Few(InCommands) + Few(InOut) + Few(InUp) + Few(InHand) + Few(InQueue)
                   + Few(InAnswers) + Few(InSending) + Few(InDown) + Few(InMessage)
  BY DEF UnderWay
<1>4. UnderWay' = Few(InCommands') + Few(InOut') + Few(InUp') + Few(InHand') + Few(InQueue')
                   + Few(InAnswers') + Few(InSending') + Few(InDown') + Few(InMessage')
  BY DEF UnderWay
<1> QED
  BY <1>1, <1>2, <1>3, <1>4

\* A command for the server.
LEMMA OrderTyped ==
  ASSUME NEW n, ServerTyped(n), NEW o \in ServerOrders(n), sCommands' = Append(sCommands, o)
  PROVE  /\ sCommands' \in Seq(ServerOrders(n))
         /\ o.kind # "sendTo" => InAnswers' = InAnswers
         /\ InAnswers = {} => \A x, y \in InAnswers' : x = y
<1> DEFINE k == Len(sCommands) + 1
<1>1. /\ sCommands \in Seq(ServerOrders(n)) /\ sCommands' \in Seq(ServerOrders(n))
      /\ DOMAIN sCommands' = DOMAIN sCommands \cup {k} /\ k \notin DOMAIN sCommands
      /\ sCommands'[k] = o /\ \A i \in DOMAIN sCommands : sCommands'[i] = sCommands[i]
  <2>1. sCommands \in Seq(ServerOrders(n))
    BY DEF ServerTyped
  <2> QED
    BY <2>1, Appends
<1> HIDE DEF k
<1>2. InAnswers' = {i \in DOMAIN sCommands' : sCommands'[i].kind = "sendTo"}
  BY DEF InAnswers
<1> QED
  BY <1>1, <1>2 DEF InAnswers

LEMMA OrdersStay ==
  ASSUME NEW n, ServerTyped(n), WireTyped(n), UNCHANGED <<commands, tick>>,
         UNCHANGED <<wireVars, queue, sTick>>, pushes' \in Nat,
         \/ UNCHANGED sCommands
         \/ \E o \in ServerOrders(n) : o.kind # "sendTo" /\ sCommands' = Append(sCommands, o)
  PROVE  KeepsPlaces(n)
<1>1. sCommands' \in Seq(ServerOrders(n)) /\ InAnswers' = InAnswers
  <2>1. CASE UNCHANGED sCommands
    BY <2>1, PlacesStay DEF ServerTyped
  <2>2. CASE \E o \in ServerOrders(n) : o.kind # "sendTo" /\ sCommands' = Append(sCommands, o)
    BY <2>2, OrderTyped
  <2> QED
    BY <2>1, <2>2
<1>2. ServerTyped(n)'
  BY <1>1 DEF ServerTyped
<1>3. WireTyped(n)'
  BY DEF WireTyped, wireVars
<1>4. /\ InUp' = InUp /\ InHand' = InHand /\ InSending' = InSending /\ InQueue' = InQueue /\ InDown' = InDown
      /\ InCommands' = InCommands /\ InOut' = InOut /\ InMessage' = InMessage
  BY PlacesStay DEF wireVars
<1>5. UnderWay' = UnderWay
  BY <1>1, <1>4 DEF UnderWay
<1>6. UnderWay \in Nat
  BY UnderWayIs
<1> QED
  BY <1>2, <1>3, <1>5, <1>6 DEF KeepsPlaces

\* Pushing, and asking to close a connection or the stack.
LEMMA ServerAsksKeeps ==
  ASSUME NEW n, ServerTyped(n), WireTyped(n), UNCHANGED <<commands, tick>>,
         Broadcast \/ (\E c \in Conns : CloseConnection(c)) \/ LockHandle \/ ServerGoesOn
  PROVE  KeepsPlaces(n)
<1>1. pushes \in Nat
  BY DEF ServerTyped
<1>2. CASE Broadcast
  <2>1. Push \in ServerOrders(n) /\ Push.kind # "sendTo"
    BY <1>1 DEF Push, ServerOrders, Outgoing, PushMessages, Numbered, Message
  <2>2. /\ UNCHANGED <<wireVars, queue, sTick>> /\ pushes' \in Nat
        /\ UNCHANGED sCommands \/ sCommands' = Append(sCommands, Push)
    BY <1>1, <1>2 DEF Broadcast, SCommand, queueVars
  <2> QED
    BY <2>1, <2>2, OrdersStay
<1>3. ASSUME NEW c \in Conns, CloseConnection(c)
      PROVE  KeepsPlaces(n)
  <2> DEFINE kick == [kind |-> "kick", conn |-> c]
  <2>1. kick \in ServerOrders(n) /\ kick.kind # "sendTo"
    BY DEF ServerOrders
  <2>2. /\ UNCHANGED <<wireVars, queue, sTick>> /\ pushes' \in Nat
        /\ UNCHANGED sCommands \/ sCommands' = Append(sCommands, kick)
    BY <1>1, <1>3 DEF CloseConnection, SCommand, queueVars
  <2> QED
    BY <2>1, <2>2, OrdersStay
<1>4. CASE CloseServer
  <2> DEFINE close == [kind |-> "close"]
  <2>1. close \in ServerOrders(n) /\ close.kind # "sendTo"
    BY DEF ServerOrders
  <2>2. /\ UNCHANGED <<wireVars, queue, sTick>> /\ pushes' \in Nat
        /\ UNCHANGED sCommands \/ sCommands' = Append(sCommands, close)
    BY <1>1, <1>4 DEF CloseServer, SCommand, queueVars
  <2> QED
    BY <2>1, <2>2, OrdersStay
<1>5. CASE LockHandle \/ ServerClosed \/ KickReturns
  BY <1>1, <1>5, OrdersStay DEF LockHandle, ServerClosed, KickReturns, queueVars
<1> QED
  BY <1>2, <1>3, <1>4, <1>5 DEF ServerGoesOn

\* A request that is worked on becomes an answer, or nothing.
LEMMA SendReplyKeeps ==
  ASSUME NEW n, ServerTyped(n), NEW request \in Requests(n), SendReply(request), InAnswers = {}
  PROVE  /\ sCommands' \in Seq(ServerOrders(n))
         /\ \A x, y \in InAnswers' : x = y
<1>1. CASE UNCHANGED sCommands
  BY <1>1, PlacesStay DEF ServerTyped
<1>2. CASE request.from \in Conns /\ sCommands' = Append(sCommands, Answer(request))
  <2>1. request \in [from : Conns, msg : {Ask(n)}]
    BY <1>2, NetworkingAssumption DEF Requests, OtherRequest
  <2>2. Answer(request) \in ServerOrders(n)
    BY <2>1 DEF Answer, ServerOrders, Outgoing, AnswerOf
  <2> QED
    BY <1>2, <2>2, OrderTyped
<1> QED
  BY <1>1, <1>2 DEF SendReply, SCommand

\* Another client's request is answered elsewhere.
LEMMA OtherAnswered ==
  ASSUME NEW request, request.from = None, SendReply(request)
  PROVE  UNCHANGED sCommands
BY NetworkingAssumption DEF SendReply

\* Who is ahead in the queue.
LEMMA QueueMoves ==
  ASSUME NEW n, ServerTyped(n), queue # <<>>, queue' = Tail(queue)
  PROVE  /\ queue' \in Seq(Requests(n)) /\ Head(queue) \in Requests(n)
         /\ Head(queue).from # None => 1 \in InQueue
         /\ \A i \in InQueue' : i \in Nat /\ i + 1 \in InQueue /\ i + 1 # 1
<1>1. queue \in Seq(Requests(n))
  BY DEF ServerTyped
<1>2. /\ queue' \in Seq(Requests(n)) /\ Head(queue) \in Requests(n) /\ Head(queue) = queue[1] /\ 1 \in DOMAIN queue
      /\ \A i \in DOMAIN queue' : i + 1 \in DOMAIN queue /\ i + 1 # 1 /\ i \in Nat /\ queue'[i] = queue[i + 1]
  BY <1>1, Tails
<1>3. \A i : i \in InQueue' <=> i \in DOMAIN queue' /\ queue'[i].from # None
  BY DEF InQueue
<1> QED
  BY <1>2, <1>3 DEF InQueue

LEMMA WorkKeeps ==
  ASSUME NEW n, ServerTyped(n), WireTyped(n), UnderWay \in {0, 1}, UNCHANGED <<commands, tick>>, Work
  PROVE  KeepsPlaces(n)
<1>1. /\ queue # <<>> /\ queue' = Tail(queue) /\ SendReply(Head(queue))
      /\ UNCHANGED <<wireVars, sTick, pushes>>
  BY DEF Work, serverApp
<1>2. /\ queue' \in Seq(Requests(n)) /\ Head(queue) \in Requests(n)
      /\ Head(queue).from # None => 1 \in InQueue
      /\ \A i \in InQueue' : i \in Nat /\ i + 1 \in InQueue /\ i + 1 # 1
  BY <1>1, QueueMoves
<1>3. Few(InQueue) + Few(InAnswers) <= 1
  BY InOnePlace
<1>4. /\ Few(InQueue) \in {0, 1, 2} /\ Few(InAnswers) \in {0, 1, 2}
      /\ Few(InQueue') \in {0, 1, 2} /\ Few(InAnswers') \in {0, 1, 2}
      /\ Few(InAnswers) = 0 => InAnswers = {}
  BY FewIs
<1>5. sCommands' \in Seq(ServerOrders(n)) /\ Few(InQueue') + Few(InAnswers') <= Few(InQueue) + Few(InAnswers)
  <2>1. CASE Head(queue).from # None
    <3>1. Few(InQueue) # 0 /\ (Few(InQueue) <= 1 => InQueue' = {})
      BY <1>2, <2>1, FewIs
    <3>2. InAnswers = {} /\ InQueue' = {} /\ Few(InQueue) = 1 /\ Few(InAnswers) = 0
      BY <1>3, <1>4, <3>1
    <3>3. sCommands' \in Seq(ServerOrders(n)) /\ \A x, y \in InAnswers' : x = y
      BY <1>1, <1>2, <3>2, SendReplyKeeps
    <3>4. Few(InQueue') = 0 /\ Few(InAnswers') <= 1
      BY <3>2, <3>3, FewIs
    <3> QED
      BY <1>4, <3>2, <3>3, <3>4
  <2>2. CASE Head(queue).from = None
    <3>1. UNCHANGED sCommands
      BY <1>1, <2>2, OtherAnswered
    <3>2. Few(InAnswers') = Few(InAnswers)
      BY <3>1, PlacesStay
    <3>3. Few(InQueue') <= Few(InQueue)
      <4>1. Few(InQueue) <= 1
        BY <1>3, <1>4
      <4>2. InQueue = {} => InQueue' = {}
        BY <1>2
      <4>3. \A x, y \in InQueue' : x = y
        <5> SUFFICES ASSUME NEW x \in InQueue', NEW y \in InQueue'
                     PROVE  x = y
          OBVIOUS
        <5>1. x + 1 = y + 1 /\ x \in Nat /\ y \in Nat
          BY <1>2, <4>1, FewIs
        <5> QED
          BY <5>1
      <4>4. Few(InQueue') <= 1 /\ (Few(InQueue) = 0 => Few(InQueue') = 0)
        BY <4>2, <4>3, FewIs
      <4> QED
        BY <1>4, <4>4
    <3>4. sCommands' \in Seq(ServerOrders(n))
      BY <3>1 DEF ServerTyped
    <3> QED
      BY <1>4, <3>2, <3>3, <3>4
  <2> QED
    BY <2>1, <2>2
<1>6. InUp' = InUp /\ InHand' = InHand /\ InSending' = InSending /\ InDown' = InDown
  BY <1>1, PlacesStay DEF wireVars
<1>7. UnderWay' <= UnderWay
  <2>1. /\ Few(InUp) \in {0, 1, 2} /\ Few(InHand) \in {0, 1, 2} /\ Few(InSending) \in {0, 1, 2}
        /\ Few(InDown) \in {0, 1, 2}
    BY FewIs
  <2> QED
    BY <1>4, <1>5, <1>6, <2>1, ServerCounts
<1>8. ServerTyped(n)' /\ WireTyped(n)'
  BY <1>1, <1>2, <1>5 DEF ServerTyped, WireTyped, wireVars
<1> QED
  BY <1>7, <1>8 DEF KeepsPlaces

LEMMA InUpIs ==
  /\ \A x \in InUp : \E c \in Conns : \E i : x = <<c, i>>
  /\ \A c, i : <<c, i>> \in InUp <=> c \in Conns /\ i \in DOMAIN up[c]
  BY DEF InUp

LEMMA InUpNext ==
  /\ \A x \in InUp' : \E c \in Conns : \E i : x = <<c, i>>
  /\ \A c, i : <<c, i>> \in InUp' <=> c \in Conns /\ i \in DOMAIN up'[c]
  BY DEF InUp

LEMMA STakeMessageKeeps ==
  ASSUME NEW n, ServerTyped(n), WireTyped(n), UnderWay \in {0, 1}, UNCHANGED <<commands, tick>>,
         NEW c \in Conns, STakeMessage(c)
  PROVE  KeepsPlaces(n)
<1>1. /\ sTick.at = "messages" /\ up[c] # <<>> /\ up' = [up EXCEPT ![c] = Tail(@)]
      /\ sTick' = [sTick EXCEPT !.left = @ - 1, !.got = [from |-> c, msg |-> Head(up[c])],
                                !.at = IF c \in clients THEN "handle" ELSE "messages"]
      /\ UNCHANGED <<queue, sCommands, down, pushes>>
  BY DEF STakeMessage, Arrived, serverApp, queueVars
<1>2. up = [d \in Conns |-> up[d]] /\ \A d \in Conns : up[d] \in Seq({Ask(n)})
  BY DEF WireTyped
<1>3. /\ up'[c] = Tail(up[c]) /\ \A d \in Conns \ {c} : up'[d] = up[d]
      /\ up' = [d \in Conns |-> up'[d]]
  BY <1>1, <1>2
<1>4. /\ Tail(up[c]) \in Seq({Ask(n)}) /\ Head(up[c]) = Ask(n) /\ 1 \in DOMAIN up[c]
      /\ \A i \in DOMAIN Tail(up[c]) : i + 1 \in DOMAIN up[c] /\ i + 1 # 1
  BY <1>1, <1>2, Tails
<1>5. <<c, 1>> \in InUp
  BY <1>4, InUpIs
<1>6. Few(InUp) <= 1 /\ Few(InUp) \in {0, 1} /\ Few(InUp) # 0
  <2>1. Few(InUp) + Few(InHand) <= 1 /\ Few(InUp) \in {0, 1, 2} /\ Few(InHand) \in {0, 1, 2}
    BY InOnePlace, FewIs
  <2> QED
    BY <1>5, <2>1, FewIs
<1>7. InUp' = {}
  <2> SUFFICES ASSUME NEW x \in InUp'
               PROVE  FALSE
    OBVIOUS
  <2>1. PICK d, i : d \in Conns /\ x = <<d, i>> /\ i \in DOMAIN up'[d]
    BY InUpNext
  <2>2. \A y \in InUp : y = <<c, 1>>
    BY <1>5, <1>6, FewIs
  <2>3. CASE d = c
    <3>1. <<c, i + 1>> \in InUp /\ i + 1 # 1
      BY <1>3, <1>4, <2>1, <2>3, InUpIs
    <3> QED
      BY <2>2, <3>1
  <2>4. CASE d # c
    <3>1. <<d, i>> \in InUp
      BY <1>3, <2>1, <2>4, InUpIs
    <3> QED
      BY <2>2, <2>4, <3>1
  <2> QED
    BY <2>3, <2>4
<1>8. Few(InHand) = 0 /\ Few(InHand') \in {0, 1} /\ Few(InUp') = 0 /\ Few(InUp) = 1
  <2>1. InHand = {} /\ \A x, y \in InHand' : x = y
    BY <1>1 DEF InHand
  <2> QED
    BY <1>6, <1>7, <2>1, FewIs
<1>9. InSending' = InSending /\ InQueue' = InQueue /\ InAnswers' = InAnswers /\ InDown' = InDown
  <2>1. sTick'.out = sTick.out
    BY <1>1
  <2> QED
    BY <1>1, <2>1, PlacesStay DEF InSending
<1>10. UnderWay' <= UnderWay
  <2>1. /\ Few(InQueue) \in {0, 1, 2} /\ Few(InAnswers) \in {0, 1, 2} /\ Few(InSending) \in {0, 1, 2}
        /\ Few(InDown) \in {0, 1, 2}
    BY FewIs
  <2> QED
    BY <1>8, <1>9, <2>1, ServerCounts
<1>11. WireTyped(n)'
  <2>1. \A d \in Conns : up'[d] \in Seq({Ask(n)})
    BY <1>2, <1>3, <1>4
  <2> QED
    BY <1>1, <1>3, <2>1 DEF WireTyped
<1>12. ServerTyped(n)'
  <2>1. DOMAIN sTick' = DOMAIN sTick /\ sTick'.out = sTick.out
    BY <1>1
  <2>2. sTick'.at = "handle" => sTick'.got \in Requests(n)
    <3>1. DOMAIN sTick = {"at", "left", "out", "closing", "got"}
      BY DEF ServerTyped
    <3>2. sTick'.got = [from |-> c, msg |-> Head(up[c])]
      BY <1>1, <3>1
    <3> QED
      BY <1>4, <3>2 DEF Requests
  <2> QED
    BY <1>1, <2>1, <2>2 DEF ServerTyped
<1> QED
  BY <1>10, <1>11, <1>12 DEF KeepsPlaces

LEMMA OthersAskKeeps ==
  ASSUME NEW n, ServerTyped(n), WireTyped(n), UnderWay \in {0, 1}, UNCHANGED <<commands, tick>>, OthersAsk
  PROVE  KeepsPlaces(n)
<1>1. /\ sTick.at = "messages" /\ UNCHANGED <<wireVars, sCommands, queue, pushes>>
      /\ sTick' = [sTick EXCEPT !.left = @ - 1, !.got = OtherRequest, !.at = "handle"]
  BY DEF OthersAsk, serverApp
<1>2. DOMAIN sTick = {"at", "left", "out", "closing", "got"}
  BY DEF ServerTyped
<1>3. /\ sTick'.got = OtherRequest /\ sTick'.out = sTick.out /\ DOMAIN sTick' = DOMAIN sTick
      /\ sTick'.got.from = None
  BY <1>1, <1>2 DEF OtherRequest
<1>4. InHand = {} /\ InHand' = {} /\ InSending' = InSending
  BY <1>1, <1>3 DEF InHand, InSending
<1>5. InUp' = InUp /\ InQueue' = InQueue /\ InAnswers' = InAnswers /\ InDown' = InDown
  BY <1>1, PlacesStay DEF wireVars
<1>6. InCommands' = InCommands /\ InOut' = InOut /\ InMessage' = InMessage
  BY PlacesStay
<1>7. UnderWay' <= UnderWay
  <2>1. UnderWay' = UnderWay
    BY <1>4, <1>5, <1>6 DEF UnderWay
  <2> QED
    BY <2>1, UnderWayIs
<1>8. ServerTyped(n)' /\ WireTyped(n)'
  BY <1>1, <1>3 DEF ServerTyped, WireTyped, wireVars, Requests
<1> QED
  BY <1>7, <1>8 DEF KeepsPlaces

LEMMA HandleRequestKeeps ==
  ASSUME NEW n, ServerTyped(n), WireTyped(n), UnderWay \in {0, 1}, UNCHANGED <<commands, tick>>, HandleRequest
  PROVE  KeepsPlaces(n)
<1>1. /\ sTick.at = "handle" /\ sTick' = [sTick EXCEPT !.at = "messages", !.got = None]
      /\ UNCHANGED <<wireVars, pushes>>
      /\ \/ SendReply(sTick.got) /\ UNCHANGED queue
         \/ Enqueue(sTick.got) /\ UNCHANGED sCommands
  BY DEF HandleRequest, serverApp
<1>2. sTick.got \in Requests(n) /\ DOMAIN sTick = {"at", "left", "out", "closing", "got"}
  BY <1>1 DEF ServerTyped
<1>3. sTick'.at = "messages" /\ sTick'.out = sTick.out /\ DOMAIN sTick' = DOMAIN sTick
  BY <1>1, <1>2
<1>4. InHand' = {} /\ InSending' = InSending /\ Few(InHand') = 0
  BY <1>3, FewIs DEF InHand, InSending
<1>5. InUp' = InUp /\ InDown' = InDown
  BY <1>1, PlacesStay DEF wireVars
<1>6. sCommands \in Seq(ServerOrders(n)) /\ queue \in Seq(Requests(n))
  BY DEF ServerTyped
<1>7. /\ Few(InQueue) \in {0, 1, 2} /\ Few(InAnswers) \in {0, 1, 2} /\ Few(InHand) \in {0, 1, 2}
      /\ Few(InQueue') \in {0, 1, 2} /\ Few(InAnswers') \in {0, 1, 2}
  BY FewIs
<1>8. CASE Enqueue(sTick.got) /\ UNCHANGED sCommands
  <2>1. queue' = queue \/ queue' = Append(queue, sTick.got)
    BY <1>8 DEF Enqueue
  <2>2. /\ queue' \in Seq(Requests(n)) /\ DOMAIN queue' \subseteq DOMAIN queue \cup {Len(queue) + 1}
        /\ \A i \in DOMAIN queue : queue'[i] = queue[i] /\ i \in DOMAIN queue'
        /\ Len(queue) + 1 \in DOMAIN queue' => queue'[Len(queue) + 1] = sTick.got
        /\ Len(queue) + 1 \notin DOMAIN queue
    <3>1. CASE queue' = queue
      BY <1>6, <3>1
    <3>2. CASE queue' = Append(queue, sTick.got)
      BY <1>2, <1>6, <3>2, Appends
    <3> QED
      BY <2>1, <3>1, <3>2
  <2>3. \A i : i \in InQueue' <=> i \in DOMAIN queue' /\ queue'[i].from # None
    BY DEF InQueue
  <2>4. InQueue' \subseteq InQueue \cup {Len(queue) + 1} /\ (sTick.got.from = None => InQueue' = InQueue)
    BY <2>2, <2>3 DEF InQueue
  <2>5. Few(InAnswers') = Few(InAnswers)
    BY <1>8, PlacesStay
  <2>6. Few(InQueue') <= Few(InQueue) + Few(InHand)
    <3>1. CASE sTick.got.from = None
      BY <1>7, <2>4, <3>1
    <3>2. CASE sTick.got.from # None
      <4>1. InHand = {1}
        BY <1>1, <3>2 DEF InHand
      <4>2. Few(InHand) = 1
        BY <4>1 DEF Few
      <4>3. Few(InQueue) = 0
        BY <1>7, <4>2, InOnePlace
      <4>4. InQueue' \subseteq {Len(queue) + 1}
        BY <2>4, <4>3, FewIs
      <4>5. Few(InQueue') <= 1
        BY <4>4, FewIs
      <4> QED
        BY <4>2, <4>3, <4>5
    <3> QED
      BY <3>1, <3>2
  <2>7. UnderWay' <= UnderWay
    <3>1. /\ Few(InUp) \in {0, 1, 2} /\ Few(InDown) \in {0, 1, 2} /\ Few(InSending) \in {0, 1, 2}
      BY FewIs
    <3> QED
      BY <1>4, <1>5, <1>7, <2>5, <2>6, <3>1, ServerCounts
  <2>8. ServerTyped(n)' /\ WireTyped(n)'
    BY <1>1, <1>3, <1>6, <1>8, <2>2 DEF ServerTyped, WireTyped, wireVars
  <2> QED
    BY <2>7, <2>8 DEF KeepsPlaces
<1>9. CASE SendReply(sTick.got) /\ UNCHANGED queue
  <2>1. Few(InQueue') = Few(InQueue)
    BY <1>9, PlacesStay
  <2>2. sCommands' \in Seq(ServerOrders(n)) /\ Few(InAnswers') <= Few(InAnswers) + Few(InHand)
    <3>1. CASE sTick.got.from = None
      <4>1. UNCHANGED sCommands
        BY <1>9, <3>1, OtherAnswered
      <4> QED
        BY <1>6, <1>7, <4>1, PlacesStay
    <3>2. CASE sTick.got.from # None
      <4>1. InHand = {1}
        BY <1>1, <3>2 DEF InHand
      <4>2. Few(InHand) = 1
        BY <4>1 DEF Few
      <4>3. Few(InAnswers) = 0 /\ InAnswers = {}
        BY <1>7, <4>2, InOnePlace, FewIs
      <4>4. sCommands' \in Seq(ServerOrders(n)) /\ \A x, y \in InAnswers' : x = y
        BY <1>2, <1>9, <4>3, SendReplyKeeps
      <4>5. Few(InAnswers') <= 1
        BY <4>4, FewIs
      <4> QED
        BY <4>2, <4>3, <4>4, <4>5
    <3> QED
      BY <3>1, <3>2
  <2>3. UnderWay' <= UnderWay
    <3>1. /\ Few(InUp) \in {0, 1, 2} /\ Few(InDown) \in {0, 1, 2} /\ Few(InSending) \in {0, 1, 2}
      BY FewIs
    <3> QED
      BY <1>4, <1>5, <1>7, <2>1, <2>2, <3>1, ServerCounts
  <2>4. ServerTyped(n)' /\ WireTyped(n)'
    BY <1>1, <1>3, <1>6, <1>9, <2>2 DEF ServerTyped, WireTyped, wireVars
  <2> QED
    BY <2>3, <2>4 DEF KeepsPlaces
<1> QED
  BY <1>1, <1>8, <1>9

\* A connection the server closes loses what is under way to the server.
LEMMA ServerGoneKeeps ==
  ASSUME NEW n, WireTyped(n), NEW gone, NEW why, WireServerGone(gone, why)
  PROVE  /\ up' = [c \in Conns |-> up'[c]] /\ \A c \in Conns : up'[c] \in Seq({Ask(n)})
         /\ Few(InUp') <= Few(InUp)
<1>1. up' = [c \in Conns |-> IF c \in gone THEN <<>> ELSE up[c]]
  BY DEF WireServerGone
<1>2. \A c \in Conns : up'[c] = <<>> \/ up'[c] = up[c]
  BY <1>1
<1>3. \A c \in Conns : up'[c] \in Seq({Ask(n)})
  <2>1. \A c \in Conns : up[c] \in Seq({Ask(n)})
    BY DEF WireTyped
  <2>2. <<>> \in Seq({Ask(n)})
    OBVIOUS
  <2> QED
    BY <1>2, <2>1, <2>2
<1>4. InUp' \subseteq InUp
  <2> SUFFICES ASSUME NEW x \in InUp'
               PROVE  x \in InUp
    OBVIOUS
  <2>1. PICK c, i : c \in Conns /\ x = <<c, i>> /\ i \in DOMAIN up'[c]
    BY InUpNext
  <2>2. up'[c] = up[c]
    BY <1>2, <2>1
  <2> QED
    BY <2>1, <2>2, InUpIs
<1> QED
  BY <1>1, <1>3, <1>4, FewerPlaces

LEMMA SPollEventsKeeps ==
  ASSUME NEW n, ServerTyped(n), WireTyped(n), UnderWay \in {0, 1}, UNCHANGED <<commands, tick>>, SPollEvents
  PROVE  KeepsPlaces(n)
<1>1. /\ sTick.at = "messages" /\ sTick' = [sTick EXCEPT !.left = 0]
      /\ UNCHANGED <<sCommands, queue, pushes, down>>
      /\ \/ UNCHANGED up
         \/ \E gone, why : WireServerGone(gone, why)
  BY DEF SPollEvents, AcceptClient, DropClient, Panic, serverApp, queueVars
<1>2. sTick'.at = sTick.at /\ sTick'.out = sTick.out /\ DOMAIN sTick' = DOMAIN sTick /\ sTick'.got = sTick.got
  BY <1>1
<1>3. InHand' = InHand /\ InSending' = InSending /\ InQueue' = InQueue /\ InAnswers' = InAnswers /\ InDown' = InDown
  BY <1>1, <1>2, PlacesStay DEF InHand, InSending
<1>4. /\ up' = [c \in Conns |-> up'[c]] /\ \A c \in Conns : up'[c] \in Seq({Ask(n)})
      /\ Few(InUp') <= Few(InUp)
  <2>1. CASE UNCHANGED up
    BY <2>1, PlacesStay, FewerPlaces DEF WireTyped
  <2>2. CASE \E gone, why : WireServerGone(gone, why)
    BY <2>2, ServerGoneKeeps
  <2> QED
    BY <1>1, <2>1, <2>2
<1>5. UnderWay' <= UnderWay
  <2>1. /\ Few(InUp) \in {0, 1, 2} /\ Few(InDown) \in {0, 1, 2} /\ Few(InSending) \in {0, 1, 2}
        /\ Few(InQueue) \in {0, 1, 2} /\ Few(InAnswers) \in {0, 1, 2} /\ Few(InUp') \in {0, 1, 2}
        /\ Few(InHand) \in {0, 1, 2}
    BY FewIs
  <2> QED
    BY <1>3, <1>4, <2>1, ServerCounts
<1>6. ServerTyped(n)' /\ WireTyped(n)'
  BY <1>1, <1>2, <1>4 DEF ServerTyped, WireTyped
<1> QED
  BY <1>5, <1>6 DEF KeepsPlaces

\* What the server finds among its commands.
LEMMA SAskedFrom ==
  ASSUME NEW n, ServerTyped(n), NEW kind
  PROVE  /\ SAsked(kind) \in Seq(ServerOrders(n))
         /\ \E e \in [DOMAIN SAsked(kind) -> DOMAIN sCommands] :
              /\ \A j \in DOMAIN SAsked(kind) : SAsked(kind)[j] = sCommands[e[j]] /\ SAsked(kind)[j].kind = kind
              /\ \A j, k \in DOMAIN SAsked(kind) : e[j] = e[k] => j = k
<1> DEFINE at == {i \in DOMAIN sCommands : sCommands[i].kind = kind}
           asked == Picked(sCommands, at)
<1>1. asked = SAsked(kind)
  BY DEF SAsked
<1>2. sCommands \in Seq(ServerOrders(n))
  BY DEF ServerTyped
<1>3. at \subseteq DOMAIN sCommands /\ \A i \in at : sCommands[i].kind = kind
  OBVIOUS
<1> HIDE DEF at
<1>4. /\ asked \in Seq(ServerOrders(n))
      /\ \E e \in [DOMAIN asked -> at \cap DOMAIN sCommands] :
           /\ \A j \in DOMAIN asked : asked[j] = sCommands[e[j]]
           /\ \A j, k \in DOMAIN asked : e[j] = e[k] => j = k
  BY <1>2, PickedFrom
<1> HIDE DEF asked
<1>5. PICK e \in [DOMAIN asked -> at \cap DOMAIN sCommands] :
           /\ \A j \in DOMAIN asked : asked[j] = sCommands[e[j]]
           /\ \A j, k \in DOMAIN asked : e[j] = e[k] => j = k
  BY <1>4
<1>6. e \in [DOMAIN asked -> DOMAIN sCommands] /\ \A j \in DOMAIN asked : e[j] \in at
  BY <1>5
<1>7. \A j \in DOMAIN asked : asked[j].kind = kind
  BY <1>3, <1>5, <1>6
<1> QED
  BY <1>1, <1>4, <1>5, <1>6, <1>7

LEMMA Concats ==
  ASSUME NEW A, NEW s \in Seq(A), NEW t \in Seq(A)
  PROVE  /\ s \o t \in Seq(A)
         /\ \A i \in DOMAIN (s \o t) :
              \/ i \in DOMAIN s /\ (s \o t)[i] = s[i]
              \/ i - Len(s) \in DOMAIN t /\ i \in Int /\ (s \o t)[i] = t[i - Len(s)]
  OBVIOUS

LEMMA STakeCommandsKeeps ==
  ASSUME NEW n, ServerTyped(n), WireTyped(n), UnderWay \in {0, 1}, UNCHANGED <<commands, tick>>, STakeCommands
  PROVE  KeepsPlaces(n)
<1>1. sTick.at = "rest" /\ sCommands' = <<>> /\ UNCHANGED <<queue, pushes>>
  BY DEF STakeCommands, serverApp, queueVars
<1>2. /\ InHand = {} /\ InAnswers' = {} /\ InQueue' = InQueue
      /\ sCommands' \in Seq(ServerOrders(n))
  <2>1. DOMAIN sCommands' = {} /\ sCommands' \in Seq(ServerOrders(n))
    BY <1>1
  <2> QED
    BY <1>1, <2>1 DEF InHand, InAnswers, InQueue
<1>3. Few(InHand) = 0 /\ Few(InAnswers') = 0
  BY <1>2, FewIs
<1>4. /\ Few(InUp) \in {0, 1, 2} /\ Few(InDown) \in {0, 1, 2} /\ Few(InSending) \in {0, 1, 2}
      /\ Few(InQueue) \in {0, 1, 2} /\ Few(InAnswers) \in {0, 1, 2} /\ Few(InUp') \in {0, 1, 2}
      /\ Few(InSending') \in {0, 1, 2}
  BY FewIs
<1>5. CASE CloseAll /\ UNCHANGED sTick
  <2>1. WireServerGone(Conns, "ClosedByPeer") /\ UNCHANGED down
    BY <1>5 DEF CloseAll
  <2>2. /\ up' = [c \in Conns |-> up'[c]] /\ \A c \in Conns : up'[c] \in Seq({Ask(n)})
        /\ Few(InUp') <= Few(InUp)
    BY <2>1, ServerGoneKeeps
  <2>3. InHand' = InHand /\ InSending' = InSending /\ InDown' = InDown
    BY <1>5, <2>1, PlacesStay
  <2>4. UnderWay' <= UnderWay
    BY <1>2, <1>3, <1>4, <2>2, <2>3, ServerCounts
  <2>5. ServerTyped(n)' /\ WireTyped(n)'
    BY <1>1, <1>2, <1>5, <2>1, <2>2 DEF ServerTyped, WireTyped
  <2> QED
    BY <2>4, <2>5 DEF KeepsPlaces
<1> DEFINE answers == SAsked("sendTo")
           news == SAsked("broadcast")
<1>6. CASE /\ sTick' = [SResting EXCEPT !.at = "messages", !.left = PollLimit,
                         !.out = answers \o news,
                         !.closing = {SAsked("kick")[i].conn : i \in DOMAIN SAsked("kick")}]
           /\ UNCHANGED wireVars
  <2>1. /\ answers \in Seq(ServerOrders(n))
        /\ \A j \in DOMAIN answers : answers[j].kind = "sendTo"
        /\ news \in Seq(ServerOrders(n))
        /\ \A j \in DOMAIN news : news[j].kind = "broadcast"
    BY SAskedFrom
  <2>2. PICK e \in [DOMAIN answers -> DOMAIN sCommands] :
              /\ \A j \in DOMAIN answers : answers[j] = sCommands[e[j]] /\ answers[j].kind = "sendTo"
              /\ \A j, k \in DOMAIN answers : e[j] = e[k] => j = k
    BY SAskedFrom
  <2> HIDE DEF answers, news
  <2> DEFINE sent == answers \o news
  <2>3. \A o \in ServerOrders(n) : o.kind \in {"sendTo", "broadcast"} => o \in Outgoing(n)
    BY DEF ServerOrders
  <2>4. answers \in Seq(Outgoing(n)) /\ news \in Seq(Outgoing(n))
    BY <2>1, <2>3, Members
  <2>5. /\ sent \in Seq(Outgoing(n))
        /\ \A i \in DOMAIN sent : sent[i].kind = "sendTo" => i \in DOMAIN answers
    BY <2>1, <2>4, Concats
  <2> HIDE DEF sent
  <2>6. /\ sTick'.at = "messages" /\ sTick'.out = sent
        /\ DOMAIN sTick' = {"at", "left", "out", "closing", "got"}
    BY <1>6 DEF SResting, sent
  <2>7. InHand' = {} /\ Few(InHand') = 0
    <3>1. InHand' = {}
      BY <2>6 DEF InHand
    <3> QED
      BY <3>1, FewIs
  <2>8. \A i \in InSending' : i \in DOMAIN answers /\ e[i] \in InAnswers
    <3>1. InSending' = {i \in DOMAIN sent : sent[i].kind = "sendTo"}
      BY <2>6 DEF InSending
    <3> QED
      BY <2>2, <2>5, <3>1 DEF InAnswers
  <2>9. Few(InSending') <= Few(InAnswers)
    <3>1. Few(InAnswers) <= 1
      BY <1>4, InOnePlace
    <3>2. InAnswers = {} => InSending' = {}
      BY <2>8
    <3>3. \A x, y \in InSending' : x = y
      <4>1. \A x, y \in InAnswers : x = y
        BY <3>1, FewIs
      <4> QED
        BY <2>2, <2>8, <4>1
    <3>4. Few(InSending') <= 1
      BY <3>3, FewIs
    <3>5. InAnswers = {} => Few(InSending') = 0
      BY <3>2, FewIs
    <3>6. Few(InAnswers) = 0 => InAnswers = {}
      BY FewIs
    <3> QED
      BY <1>4, <3>4, <3>5, <3>6
  <2>10. InUp' = InUp /\ InDown' = InDown
    BY <1>6, PlacesStay DEF wireVars
  <2>11. UnderWay' <= UnderWay
    <3>1. Few(InHand') \in {0, 1, 2} /\ Few(InAnswers') \in {0, 1, 2}
      BY <1>3, <2>7
    <3> QED
      BY <1>2, <1>3, <1>4, <2>7, <2>9, <2>10, ServerCounts
  <2>12. ServerTyped(n)' /\ WireTyped(n)'
    BY <1>1, <1>2, <1>6, <2>5, <2>6 DEF ServerTyped, WireTyped, wireVars
  <2> QED
    BY <2>11, <2>12 DEF KeepsPlaces
<1> QED
  BY <1>5, <1>6 DEF STakeCommands

LEMMA InDownIs ==
  /\ \A x \in InDown : \E c \in Conns : \E i : x = <<c, i>>
  /\ \A c, i : <<c, i>> \in InDown <=> c \in Conns /\ i \in DOMAIN down[c] /\ down[c][i].key = "reply"
  BY DEF InDown

LEMMA InDownNext ==
  /\ \A x \in InDown' : \E c \in Conns : \E i : x = <<c, i>>
  /\ \A c, i : <<c, i>> \in InDown' <=> c \in Conns /\ i \in DOMAIN down'[c] /\ down'[c][i].key = "reply"
  BY DEF InDown

Coming(n) == PushMessages \cup {AnswerOf(n)}

\* Each answer among some messages for connection c is one of those the server
\* is sending to it.
AnswersSent(c, msgs) ==
  \E e \in [DOMAIN msgs -> DOMAIN sTick.out] :
    /\ \A j \in DOMAIN msgs : msgs[j].key = "reply" => sTick.out[e[j]].kind = "sendTo" /\ sTick.out[e[j]].to = c
    /\ \A j, k \in DOMAIN msgs : e[j] = e[k] => j = k

LEMMA ForSent ==
  ASSUME NEW n, ServerTyped(n), NEW c \in Conns
  PROVE  For(c) \in Seq(Coming(n)) /\ AnswersSent(c, For(c))
<1> DEFINE at == {i \in DOMAIN sTick.out : sTick.out[i].kind = "broadcast" \/ sTick.out[i].to = c}
           out == Picked(sTick.out, at)
           msgs == [i \in DOMAIN out |-> out[i].msg]
<1>1. msgs = For(c)
  BY DEF For
<1>2. sTick.out \in Seq(Outgoing(n))
  BY DEF ServerTyped
<1>3. \A i \in at : sTick.out[i].kind = "broadcast" \/ sTick.out[i].to = c
  OBVIOUS
<1> HIDE DEF at
<1>4. /\ out \in Seq(Outgoing(n))
      /\ \E e \in [DOMAIN out -> at \cap DOMAIN sTick.out] :
           /\ \A j \in DOMAIN out : out[j] = sTick.out[e[j]]
           /\ \A j, k \in DOMAIN out : e[j] = e[k] => j = k
  BY <1>2, PickedFrom
<1> HIDE DEF out
<1>5. PICK e \in [DOMAIN out -> at \cap DOMAIN sTick.out] :
           /\ \A j \in DOMAIN out : out[j] = sTick.out[e[j]]
           /\ \A j, k \in DOMAIN out : e[j] = e[k] => j = k
  BY <1>4
<1>6. \A o \in Outgoing(n) : o.msg \in Coming(n) /\ (o.msg.key = "reply" => o.kind = "sendTo")
  BY DEF Outgoing, Coming, PushMessages
<1>7. msgs \in Seq(Coming(n)) /\ DOMAIN msgs = DOMAIN out /\ \A j \in DOMAIN msgs : msgs[j] = out[j].msg
  <2>1. DOMAIN out = 1 .. Len(out) /\ Len(out) \in Nat /\ \A j \in DOMAIN out : out[j] \in Outgoing(n)
    BY <1>4
  <2>2. \A j \in 1 .. Len(out) : out[j].msg \in Coming(n)
    BY <1>6, <2>1
  <2>3. msgs = [j \in 1 .. Len(out) |-> out[j].msg]
    BY <2>1
  <2> QED
    BY <2>1, <2>2, <2>3
<1> HIDE DEF msgs
<1>8. ASSUME NEW j \in DOMAIN msgs, msgs[j].key = "reply"
      PROVE  sTick.out[e[j]].kind = "sendTo" /\ sTick.out[e[j]].to = c
  <2>1. j \in DOMAIN out /\ out[j] = sTick.out[e[j]] /\ e[j] \in at /\ out[j] \in Outgoing(n) /\ msgs[j] = out[j].msg
    BY <1>4, <1>5, <1>7
  <2>2. out[j].kind = "sendTo"
    BY <1>6, <1>8, <2>1
  <2> QED
    BY <1>3, <2>1, <2>2
<1>9. e \in [DOMAIN msgs -> DOMAIN sTick.out] /\ \A j, k \in DOMAIN msgs : e[j] = e[k] => j = k
  BY <1>5, <1>7
<1>10. AnswersSent(c, msgs)
  BY <1>8, <1>9 DEF AnswersSent
<1> QED
  BY <1>1, <1>7, <1>10

\* Some of the messages may not come through.
LEMMA ReliableSent ==
  ASSUME NEW n, NEW c, NEW msgs \in Seq(Coming(n)), AnswersSent(c, msgs)
  PROVE  ReliableOf(msgs) \in Seq(Coming(n)) /\ AnswersSent(c, ReliableOf(msgs))
<1> DEFINE at == {i \in DOMAIN msgs : Reliable(msgs[i])}
           some == Picked(msgs, at)
<1>1. some = ReliableOf(msgs)
  BY DEF ReliableOf
<1> HIDE DEF at
<1>2. /\ some \in Seq(Coming(n))
      /\ \E e \in [DOMAIN some -> at \cap DOMAIN msgs] :
           /\ \A j \in DOMAIN some : some[j] = msgs[e[j]]
           /\ \A j, k \in DOMAIN some : e[j] = e[k] => j = k
  BY PickedFrom
<1> HIDE DEF some
<1>3. PICK e \in [DOMAIN some -> at \cap DOMAIN msgs] :
           /\ \A j \in DOMAIN some : some[j] = msgs[e[j]]
           /\ \A j, k \in DOMAIN some : e[j] = e[k] => j = k
  BY <1>2
<1>4. PICK h \in [DOMAIN msgs -> DOMAIN sTick.out] :
           /\ \A j \in DOMAIN msgs : msgs[j].key = "reply" => sTick.out[h[j]].kind = "sendTo" /\ sTick.out[h[j]].to = c
           /\ \A j, k \in DOMAIN msgs : h[j] = h[k] => j = k
  BY DEF AnswersSent
<1> DEFINE g == [j \in DOMAIN some |-> h[e[j]]]
<1>5. \A j \in DOMAIN some : e[j] \in DOMAIN msgs
  BY <1>3
<1>6. g \in [DOMAIN some -> DOMAIN sTick.out] /\ \A j \in DOMAIN some : g[j] = h[e[j]]
  BY <1>4, <1>5
<1> HIDE DEF g
<1>7. AnswersSent(c, some)
  <2>1. \A j \in DOMAIN some : some[j].key = "reply" => sTick.out[g[j]].kind = "sendTo" /\ sTick.out[g[j]].to = c
    BY <1>3, <1>4, <1>5, <1>6
  <2>2. \A j, k \in DOMAIN some : g[j] = g[k] => j = k
    BY <1>3, <1>4, <1>5, <1>6
  <2> QED
    BY <1>6, <2>1, <2>2 DEF AnswersSent
<1> QED
  BY <1>1, <1>2, <1>7

LEMMA SSendKeeps ==
  ASSUME NEW n, ServerTyped(n), WireTyped(n), UnderWay \in {0, 1}, UNCHANGED <<commands, tick>>, SSend
  PROVE  KeepsPlaces(n)
<1>1. /\ sTick.at = "messages" /\ sTick' = SResting
      /\ UNCHANGED <<sCommands, queue, pushes>>
      /\ \E gone, why : WireServerGone(gone, why)
  BY DEF SSend, CloseClients, serverApp, queueVars
<1>2. /\ up' = [c \in Conns |-> up'[c]] /\ \A c \in Conns : up'[c] \in Seq({Ask(n)})
      /\ Few(InUp') <= Few(InUp)
  BY <1>1, ServerGoneKeeps
<1>3. PICK lost \in SUBSET clients :
        down' = [c \in Conns |->
          IF c \notin clients THEN down[c]
          ELSE Sent(c, down, IF c \in lost THEN ReliableOf(For(c)) ELSE For(c))]
  BY DEF SSend
<1>4. ASSUME NEW c \in Conns
      PROVE  \/ down'[c] = down[c]
             \/ \E msgs \in Seq(Coming(n)) : AnswersSent(c, msgs) /\ down'[c] = down[c] \o msgs
  <2>1. For(c) \in Seq(Coming(n)) /\ AnswersSent(c, For(c))
    BY ForSent
  <2>2. ReliableOf(For(c)) \in Seq(Coming(n)) /\ AnswersSent(c, ReliableOf(For(c)))
    BY <2>1, ReliableSent
  <2>3. \/ down'[c] = down[c]
        \/ down'[c] = down[c] \o ReliableOf(For(c))
        \/ down'[c] = down[c] \o For(c)
    BY <1>3 DEF Sent
  <2> QED
    BY <2>1, <2>2, <2>3
<1>5. \A c \in Conns : down[c] \in Seq(Coming(n))
  BY DEF WireTyped, Coming
<1>6. ASSUME NEW c \in Conns
      PROVE  down'[c] \in Seq(Coming(n))
  <2>1. down[c] \in Seq(Coming(n))
    BY <1>5
  <2>2. ASSUME NEW msgs \in Seq(Coming(n))
        PROVE  down[c] \o msgs \in Seq(Coming(n))
    BY <2>1, Concats
  <2> QED
    BY <1>4, <2>1, <2>2
\* An answer that is on the way now was on the way, or is one that is sent.
<1>7. ASSUME NEW c \in Conns, NEW i, NEW h, <<c, i>> \in InDown' \ InDown, <<c, h>> \in InDown' \ InDown,
             \A k, l \in InSending : k = l
      PROVE  i = h /\ \E k \in InSending : sTick.out[k].to = c
  <2>1. /\ i \in DOMAIN down'[c] /\ down'[c][i].key = "reply"
        /\ h \in DOMAIN down'[c] /\ down'[c][h].key = "reply"
    BY <1>7, InDownNext
  <2>2. down'[c] # down[c]
    BY <1>7, <2>1, InDownIs
  <2>3. PICK msgs \in Seq(Coming(n)) : AnswersSent(c, msgs) /\ down'[c] = down[c] \o msgs
    BY <1>4, <2>2
  <2>4. PICK e \in [DOMAIN msgs -> DOMAIN sTick.out] :
          /\ \A j \in DOMAIN msgs : msgs[j].key = "reply" => sTick.out[e[j]].kind = "sendTo" /\ sTick.out[e[j]].to = c
          /\ \A j, k \in DOMAIN msgs : e[j] = e[k] => j = k
    BY <2>3 DEF AnswersSent
  <2>5. ASSUME NEW j \in DOMAIN down'[c], down'[c][j].key = "reply", <<c, j>> \notin InDown
        PROVE  /\ j - Len(down[c]) \in DOMAIN msgs /\ j \in Int
               /\ e[j - Len(down[c])] \in InSending /\ sTick.out[e[j - Len(down[c])]].to = c
    <3>1. ~(j \in DOMAIN down[c] /\ down'[c][j] = down[c][j])
      BY <2>5, InDownIs
    <3>2. j - Len(down[c]) \in DOMAIN msgs /\ j \in Int /\ down'[c][j] = msgs[j - Len(down[c])]
      BY <1>5, <2>3, <3>1, Concats
    <3> QED
      BY <2>4, <2>5, <3>2 DEF InSending
  <2>6. i - Len(down[c]) = h - Len(down[c]) /\ i \in Int /\ h \in Int
    BY <1>7, <2>1, <2>4, <2>5
  <2>7. Len(down[c]) \in Nat
    BY <1>5
  <2> QED
    BY <1>7, <2>1, <2>5, <2>6, <2>7
<1>8. InSending' = {} /\ InHand' = {} /\ InHand = {}
  <2>1. sTick'.out = <<>> /\ sTick'.at = "rest"
    BY <1>1 DEF SResting
  <2> QED
    BY <1>1, <2>1 DEF InSending, InHand
<1>9. Few(InDown') <= Few(InSending) + Few(InDown)
  <2>1. Few(InSending) + Few(InDown) <= 1
    BY InOnePlace
  <2>2. InSending = {} => InDown' \subseteq InDown
    <3> SUFFICES ASSUME InSending = {}, NEW x \in InDown', x \notin InDown
                 PROVE  FALSE
      OBVIOUS
    <3>1. PICK c, i : c \in Conns /\ x = <<c, i>>
      BY InDownNext
    <3> QED
      BY <1>7, <3>1
  <2>3. Few(InSending) \in {0, 1, 2} /\ Few(InDown) \in {0, 1, 2}
    BY FewIs
  <2>4. /\ Few(InDown) <= 1 => \A x, y \in InDown : x = y
        /\ Few(InSending) <= 1 => \A x, y \in InSending : x = y
    BY FewIs
  <2>5. ASSUME InDown = {}, NEW x \in InDown', NEW y \in InDown'
        PROVE  x = y
    <3>1. PICK c, i : c \in Conns /\ x = <<c, i>>
      BY InDownNext
    <3>2. PICK d, h : d \in Conns /\ y = <<d, h>>
      BY InDownNext
    <3>3. \A k, l \in InSending : k = l
      BY <2>1, <2>3, <2>4
    <3>4. /\ \E k \in InSending : sTick.out[k].to = c
          /\ \E k \in InSending : sTick.out[k].to = d
      BY <1>7, <2>5, <3>1, <3>2, <3>3
    <3>5. c = d
      BY <3>3, <3>4
    <3> QED
      BY <1>7, <2>5, <3>1, <3>2, <3>3, <3>5
  <2>6. InSending = {} => \A x, y \in InDown' : x = y
    BY <2>1, <2>2, <2>3, <2>4
  <2> HIDE DEF Few
  <2> QED
    BY <2>1, <2>2, <2>5, <2>6, FewMerge
<1>10. UnderWay' <= UnderWay
  <2>1. /\ Few(InUp) \in {0, 1, 2} /\ Few(InDown) \in {0, 1, 2} /\ Few(InSending) \in {0, 1, 2}
        /\ Few(InQueue) \in {0, 1, 2} /\ Few(InAnswers) \in {0, 1, 2} /\ Few(InUp') \in {0, 1, 2}
        /\ Few(InDown') \in {0, 1, 2} /\ Few(InHand) = 0 /\ Few(InHand') = 0 /\ Few(InSending') = 0
    BY <1>8, FewIs
  <2>2. InQueue' = InQueue /\ InAnswers' = InAnswers
    BY <1>1, PlacesStay
  <2> QED
    BY <1>2, <1>9, <2>1, <2>2, ServerCounts
<1>11. WireTyped(n)'
  <2>1. down' = [c \in Conns |-> down'[c]]
    BY <1>3
  <2> QED
    BY <1>2, <1>6, <2>1 DEF WireTyped, Coming
<1>12. ServerTyped(n)'
  <2>1. /\ DOMAIN sTick' = {"at", "left", "out", "closing", "got"} /\ sTick'.out \in Seq(Outgoing(n))
        /\ sTick'.at = "rest"
    BY <1>1 DEF SResting
  <2> QED
    BY <1>1, <2>1 DEF ServerTyped
<1> QED
  BY <1>10, <1>11, <1>12 DEF KeepsPlaces

LEMMA ServerTickPlaces ==
  ASSUME NEW n, ServerTyped(n), WireTyped(n), UnderWay \in {0, 1}, UNCHANGED <<commands, tick>>, ServerStep
  PROVE  KeepsPlaces(n)
<1>1. CASE Broadcast \/ (\E c \in Conns : CloseConnection(c)) \/ LockHandle \/ ServerGoesOn
  BY <1>1, ServerAsksKeeps
<1>8. CASE OthersAsk
  BY <1>8, OthersAskKeeps
<1>2. CASE Work
  BY <1>2, WorkKeeps
<1>3. CASE STakeCommands
  BY <1>3, STakeCommandsKeeps
<1>4. CASE \E c \in Conns : STakeMessage(c)
  BY <1>4, STakeMessageKeeps
<1>5. CASE HandleRequest
  BY <1>5, HandleRequestKeeps
<1>6. CASE SPollEvents
  BY <1>6, SPollEventsKeeps
<1>7. CASE SSend
  BY <1>7, SSendKeeps
<1> QED
  BY <1>1, <1>2, <1>3, <1>4, <1>5, <1>6, <1>7, <1>8 DEF ServerStep, ServerTick

\* What does not touch the client leaves it as it is.
LEMMA ElsewhereKeeps ==
  ASSUME ClientInv, NEW n, Handled(n), UnderWay' \in {0, 1}, UnderWay' <= UnderWay,
         UNCHANGED <<app, dispatchVars, bufferVars, driverVars, apiVars, tick>>,
         ServerTyped(n)', WireTyped(n)'
  PROVE  Handled(n)'
<1>1. InMessage' = InMessage
  BY PlacesStay
<1>2. UnderWay' = 1 => UnderWay = 1
  BY DEF Handled, AskInv
<1>3. AskInv'
  BY <1>1, <1>2 DEF Handled, AskInv, Waiting, Asking, Fresh, Unasked, dispatchVars, bufferVars, driverVars, apiVars
<1>4. BufferInv'
  BY <1>1 DEF Handled, BufferInv, Holding, Asking, Waiting, dispatchVars, bufferVars, driverVars, apiVars
<1>5. ClientTyped(n)'
  BY DEF Handled, TypedFor, ClientTyped, driverVars
<1> QED
  BY <1>3, <1>4, <1>5 DEF Handled, TypedFor, NothingUnhandled, dispatchVars

LEMMA ServerMovesHandled ==
  ASSUME ClientInv, NEW n, Handled(n), ServerMoves
  PROVE  Handled(n)'
<1>1. ServerStep /\ UNCHANGED <<app, dispatchVars, bufferVars, driverVars, apiVars, tick>> /\ UNCHANGED commands
  BY DEF ServerMoves, driverVars
<1>2. UnderWay \in {0, 1} /\ ServerTyped(n) /\ WireTyped(n)
  BY DEF Handled, AskInv, TypedFor
<1>3. KeepsPlaces(n)
  BY <1>1, <1>2, ServerTickPlaces
<1>4. UnderWay' \in {0, 1}
  BY <1>2, <1>3, UnderWayIs DEF KeepsPlaces
<1> QED
  BY <1>1, <1>3, <1>4, ElsewhereKeeps DEF KeepsPlaces

LEMMA BreaksHandled ==
  ASSUME ClientInv, NEW n, Handled(n), Breaks \/ Rest \/ UNCHANGED vars
  PROVE  Handled(n)'
<1>1. UNCHANGED <<up, down>> /\ UNCHANGED <<clientVars, serverVars>>
  BY DEF Breaks, Lose, Rest, vars, wireVars
<1>2. /\ UNCHANGED <<app, dispatchVars, bufferVars, driverVars, apiVars, tick>>
      /\ UNCHANGED <<commands, tick, queue, sCommands, sTick, pushes>>
  BY <1>1 DEF clientVars, serverVars, serverApp, queueVars, driverVars
<1>3. UnderWay' = UnderWay
  BY <1>1, <1>2, PlacesStay DEF UnderWay
<1>4. UnderWay' \in {0, 1} /\ UnderWay' <= UnderWay
  BY <1>3 DEF Handled, AskInv
<1>5. ServerTyped(n)' /\ WireTyped(n)'
  BY <1>1, <1>2 DEF Handled, TypedFor, ServerTyped, WireTyped
<1> QED
  BY <1>2, <1>4, <1>5, ElsewhereKeeps

-----------------------------------------------------------------------------
(* The request and the answer on the side of the client.                    *)

LEMMA Unmoved ==
  ASSUME NEW n, TypedFor(n), UNCHANGED <<wireVars, serverVars, commands, tick>>
  PROVE  TypedFor(n)' /\ UnderWay' = UnderWay /\ InMessage' = InMessage
<1>1. UNCHANGED <<up, down, queue, sCommands, sTick, pushes>>
  BY DEF wireVars, serverVars, serverApp, queueVars
<1>2. TypedFor(n)'
  BY <1>1 DEF TypedFor, ClientTyped, WireTyped, ServerTyped
<1>3. UnderWay' = UnderWay
  BY <1>1, PlacesStay DEF UnderWay
<1> QED
  BY <1>2, <1>3, PlacesStay

\* When nothing is under way, the next request may have any number.
LEMMA Retype ==
  ASSUME NEW n, NEW m, TypedFor(n), UnderWay = 0
  PROVE  TypedFor(m)
<1>1. /\ InCommands = {} /\ InOut = {} /\ InUp = {} /\ InHand = {} /\ InQueue = {}
      /\ InAnswers = {} /\ InSending = {} /\ InDown = {} /\ InMessage = {}
  BY InOnePlace
<1>2. ASSUME NEW c \in Conns
      PROVE  commands[c] \in Seq(Orders(m)) /\ up[c] \in Seq({Ask(m)}) /\ down[c] \in Seq(Coming(m))
  <2>1. commands[c] \in Seq(Orders(n)) /\ up[c] \in Seq({Ask(n)}) /\ down[c] \in Seq(Coming(n))
    BY DEF TypedFor, ClientTyped, WireTyped, Coming
  <2>2. \A i \in DOMAIN commands[c] : commands[c][i] \in Orders(m)
    <3> SUFFICES ASSUME NEW i \in DOMAIN commands[c]
                 PROVE  commands[c][i] \in Orders(m)
      OBVIOUS
    <3>1. commands[c][i] \in Orders(n)
      BY <2>1
    <3>2. commands[c][i].kind # "send"
      <4>1. commands[c][i].kind = "send" => <<c, i>> \in InCommands
        BY DEF InCommands
      <4> QED
        BY <1>1, <4>1
    <3> QED
      BY <3>1, <3>2 DEF Orders
  <2>3. \A i \in DOMAIN up[c] : up[c][i] \in {Ask(m)}
    BY <1>1, InUpIs
  <2>4. \A i \in DOMAIN down[c] : down[c][i] \in Coming(m)
    <3> SUFFICES ASSUME NEW i \in DOMAIN down[c]
                 PROVE  down[c][i] \in Coming(m)
      OBVIOUS
    <3>1. down[c][i] \in Coming(n)
      BY <2>1
    <3>2. down[c][i].key # "reply"
      BY <1>1, InDownIs
    <3>3. AnswerOf(n).key = "reply"
      BY DEF AnswerOf, Reply, Message
    <3> QED
      BY <3>1, <3>2, <3>3 DEF Coming
  <2> QED
    BY <2>1, <2>2, <2>3, <2>4, Members
<1>0. \A x \in Requests(n) : x.from = None => x \in Requests(m)
  BY NetworkingAssumption DEF Requests
<1>3. tick.out \in Seq({Ask(m)}) /\ queue \in Seq(Requests(m))
  <2>1. DOMAIN tick.out = {} /\ \A i \in DOMAIN queue : queue[i].from = None
    BY <1>1 DEF InOut, InQueue
  <2>2. tick.out \in Seq({Ask(n)}) /\ queue \in Seq(Requests(n))
    BY DEF TypedFor, ClientTyped, ServerTyped
  <2>3. /\ \A i \in DOMAIN tick.out : tick.out[i] \in {Ask(m)}
        /\ \A i \in DOMAIN queue : queue[i] \in Requests(m)
    BY <1>0, <2>1, <2>2
  <2> QED
    BY <2>2, <2>3, Members
<1>4. tick.at \in {"accept", "deliver"} => tick.msg \in PushMessages \cup {AnswerOf(m)}
  <2> SUFFICES ASSUME tick.at \in {"accept", "deliver"}
               PROVE  tick.msg \in PushMessages
    OBVIOUS
  <2>1. tick.msg \in PushMessages \cup {AnswerOf(n)}
    BY DEF TypedFor, ClientTyped
  <2>2. tick.msg.key # "reply"
    BY <1>1 DEF InMessage
  <2>3. AnswerOf(n).key = "reply"
    BY DEF AnswerOf, Reply, Message
  <2> QED
    BY <2>1, <2>2, <2>3
<1>5. sCommands \in Seq(ServerOrders(m)) /\ sTick.out \in Seq(Outgoing(m))
  <2>1. sCommands \in Seq(ServerOrders(n)) /\ sTick.out \in Seq(Outgoing(n))
    BY DEF TypedFor, ServerTyped
  <2>2. \A i \in DOMAIN sTick.out : sTick.out[i] \in Outgoing(m)
    <3> SUFFICES ASSUME NEW i \in DOMAIN sTick.out
                 PROVE  sTick.out[i] \in Outgoing(m)
      OBVIOUS
    <3>1. sTick.out[i] \in Outgoing(n) /\ sTick.out[i].kind # "sendTo"
      BY <1>1, <2>1 DEF InSending
    <3> QED
      BY <3>1 DEF Outgoing
  <2>3. \A i \in DOMAIN sCommands : sCommands[i] \in ServerOrders(m)
    <3> SUFFICES ASSUME NEW i \in DOMAIN sCommands
                 PROVE  sCommands[i] \in ServerOrders(m)
      OBVIOUS
    <3>1. sCommands[i] \in ServerOrders(n) /\ sCommands[i].kind # "sendTo"
      BY <1>1, <2>1 DEF InAnswers
    <3> QED
      BY <3>1 DEF ServerOrders, Outgoing
  <2> QED
    BY <2>1, <2>2, <2>3, Members
<1>6. sTick.at = "handle" => sTick.got \in Requests(m)
  BY <1>0, <1>1 DEF InHand, TypedFor, ServerTyped
<1>7. ClientTyped(m)
  BY <1>2, <1>3, <1>4 DEF TypedFor, ClientTyped
<1>8. WireTyped(m)
  BY <1>2 DEF TypedFor, WireTyped, Coming
<1>9. ServerTyped(m)
  BY <1>3, <1>5, <1>6 DEF TypedFor, ServerTyped
<1> QED
  BY <1>7, <1>8, <1>9 DEF TypedFor

\* The connection the application is about.
LEMMA OwnConnection ==
  ASSUME ClientInv, AskInv
  PROVE  /\ 1 .. attempts \subseteq Conns /\ None \notin Conns /\ attempts \in Nat
         /\ app.conn # None => app.conn \in Conns
         /\ DOMAIN app = {"at", "conn"}
<1>1. style.connects \in Nat /\ 1 .. style.connects \subseteq Conns /\ None \notin Conns
  BY NetworkingAssumption DEF ClientInv
<1>2. attempts \in 0 .. style.connects
  BY DEF ClientInv
<1>3. 1 .. attempts \subseteq Conns /\ attempts \in Nat
  BY <1>1, <1>2
<1>4. DOMAIN app = {"at", "conn"}
  BY DEF ClientInv
<1> QED
  BY <1>1, <1>3, <1>4 DEF AskInv

LEMMA ConnectHandled ==
  ASSUME ClientInv, NEW n, Handled(n), UNCHANGED serverVars, Connect
  PROVE  \E m : Handled(m)'
<1>1. /\ app.at = "idle" /\ attempts' = attempts + 1
      /\ UNCHANGED <<wireVars, dispatchVars, bufferVars, driverVars, tick>>
      /\ app' = [at |-> "intercept", conn |-> attempts + 1] \/ UNCHANGED app
  BY DEF Connect
<1>2. UnderWay = 0
  BY <1>1 DEF Handled, AskInv, Waiting
<1>3. attempts \in Nat /\ TypedFor(n) /\ 1 .. attempts \subseteq 1 .. attempts'
  BY <1>1, OwnConnection DEF Handled
<1>4. TypedFor(n)' /\ UnderWay' = 0 /\ InMessage' = InMessage
  BY <1>1, <1>2, <1>3, Unmoved DEF driverVars
<1>5. BufferInv'
  BY <1>1, <1>4 DEF Handled, BufferInv, Asking, Waiting, Holding, dispatchVars, bufferVars, driverVars
<1>6. CASE app' = [at |-> "intercept", conn |-> attempts + 1]
  <2>1. app'.at = "intercept" /\ app'.conn = attempts' /\ app'.conn \in 1 .. attempts'
    BY <1>1, <1>3, <1>6
  <2>2. app'.conn \notin answered /\ answered \subseteq 1 .. attempts'
    BY <1>1, <1>3, <2>1 DEF Handled, AskInv
  <2>3. AskInv'
    BY <1>1, <1>3, <1>4, <2>1, <2>2 DEF Handled, AskInv, Waiting, Asking, Fresh, Unasked, dispatchVars, bufferVars
  <2>4. PICK m : m = app'.conn
    OBVIOUS
  <2>5. TypedFor(m)
    BY <1>2, <1>3, Retype
  <2>6. TypedFor(m)'
    BY <1>1, <2>5, Unmoved DEF driverVars
  <2>7. Handled(m)'
    BY <1>1, <1>5, <2>3, <2>4, <2>6 DEF Handled, NothingUnhandled, dispatchVars
  <2> QED
    BY <2>7
<1>7. CASE UNCHANGED app
  <2>1. AskInv'
    BY <1>1, <1>2, <1>3, <1>4, <1>7 DEF Handled, AskInv, Waiting, Asking, Fresh, Unasked, dispatchVars, bufferVars, driverVars
  <2> QED
    BY <1>1, <1>4, <1>5, <1>7, <2>1 DEF Handled, NothingUnhandled, dispatchVars
<1> QED
  BY <1>1, <1>6, <1>7

\* What the application does before it asks.
LEMMA OpeningHandled ==
  ASSUME ClientInv, NEW n, Handled(n), UNCHANGED serverVars, Intercept \/ Closed \/ Create \/ Created
  PROVE  Handled(n)'
<1>1. UNCHANGED <<wireVars, commands, tick, attempts, dispatchVars>>
  BY DEF Intercept, Closed, Create, Created, apiVars, driverVars
<1>2. TypedFor(n)' /\ UnderWay' = UnderWay /\ InMessage' = InMessage
  BY <1>1, Unmoved DEF Handled
<1>3. UnderWay = 0
  BY DEF Handled, AskInv, Waiting, Intercept, Closed, Create, Created
<1>4. DOMAIN app = {"at", "conn"} /\ (app.conn # None => app.conn \in Conns)
  BY OwnConnection DEF Handled
<1>5. CASE Intercept
  <2>1. app.at = "intercept" /\ app'.at = "close" /\ app'.conn = app.conn
    BY <1>4, <1>5 DEF Intercept, Go
  <2>2. /\ context' = app.conn /\ buffer' = [conn |-> app.conn, msgs |-> <<>>, active |-> {}]
        /\ UNCHANGED driverVars
    BY <1>5 DEF Intercept
  <2>3. AskInv'
    BY <1>1, <1>2, <1>3, <2>1, <2>2 DEF Handled, AskInv, Waiting, Asking, Fresh, Unasked, dispatchVars, driverVars
  <2>4. BufferInv'
    <3>1. <<>> \in Seq(PushMessages)
      OBVIOUS
    <3> QED
      BY <1>1, <1>2, <2>1, <2>2, <3>1 DEF Handled, BufferInv, Asking, Waiting, Holding, dispatchVars, driverVars
  <2> QED
    BY <1>1, <1>2, <2>1, <2>3, <2>4 DEF Handled, NothingUnhandled, dispatchVars
<1>6. CASE Closed
  <2>1. /\ app.at = "closing" /\ app'.conn = app.conn /\ app'.at = IF app.conn = None THEN "idle" ELSE "create"
        /\ UNCHANGED <<bufferVars, create, made, client>>
    BY <1>4, <1>6 DEF Closed, Go
  <2>2. AskInv'
    BY <1>1, <1>2, <1>3, <2>1 DEF Handled, AskInv, Waiting, Asking, Fresh, Unasked, dispatchVars, bufferVars
  <2>3. BufferInv'
    BY <1>1, <1>2, <2>1 DEF Handled, BufferInv, Asking, Waiting, Holding, dispatchVars, bufferVars
  <2> QED
    BY <1>1, <1>2, <2>1, <2>2, <2>3 DEF Handled, NothingUnhandled, dispatchVars
<1>7. CASE Create
  <2>1. /\ app.at = "create" /\ app'.conn = app.conn /\ app'.at = "creating" /\ create' = app.conn
        /\ UNCHANGED <<bufferVars, made, client>>
    BY <1>4, <1>7 DEF Create, Go
  <2>2. app.conn # None
    BY <2>1, NetworkingAssumption, OwnConnection DEF Handled, ClientInv, Unasked
  <2>3. AskInv'
    BY <1>1, <1>2, <1>3, <2>1, <2>2 DEF Handled, AskInv, Waiting, Asking, Fresh, Unasked, dispatchVars, bufferVars
  <2>4. BufferInv'
    BY <1>1, <1>2, <2>1, <2>2 DEF Handled, BufferInv, Asking, Waiting, Holding, dispatchVars, bufferVars
  <2> QED
    BY <1>1, <1>2, <2>1, <2>3, <2>4 DEF Handled, NothingUnhandled, dispatchVars
<1>8. CASE Created
  <2>1. /\ app.at = "creating" /\ create = None /\ app'.conn = app.conn /\ app'.at = IF made THEN "request" ELSE "drop"
        /\ handle' = (IF made THEN app.conn ELSE handle) /\ UNCHANGED <<bufferVars, create, made, client>>
    BY <1>4, <1>8 DEF Created, Go
  <2>2. app.conn # None
    BY <2>1 DEF Handled, AskInv
  <2>3. AskInv'
    BY <1>1, <1>2, <1>3, <2>1, <2>2 DEF Handled, AskInv, Waiting, Asking, Fresh, Unasked, dispatchVars, bufferVars
  <2>4. BufferInv'
    BY <1>1, <1>2, <2>1 DEF Handled, BufferInv, Asking, Waiting, Holding, dispatchVars, bufferVars
  <2> QED
    BY <1>1, <1>2, <2>1, <2>3, <2>4 DEF Handled, NothingUnhandled, dispatchVars
<1> QED
  BY <1>5, <1>6, <1>7, <1>8

LEMMA InCommandsIs ==
  /\ \A x \in InCommands : \E c \in Conns : \E i : x = <<c, i>>
  /\ \A c, i : <<c, i>> \in InCommands <=> c \in Conns /\ i \in DOMAIN commands[c] /\ commands[c][i].kind = "send"
  BY DEF InCommands

LEMMA InCommandsNext ==
  /\ \A x \in InCommands' : \E c \in Conns : \E i : x = <<c, i>>
  /\ \A c, i : <<c, i>> \in InCommands' <=> c \in Conns /\ i \in DOMAIN commands'[c] /\ commands'[c][i].kind = "send"
  BY DEF InCommands

\* A command for a client.
LEMMA CommandTyped ==
  ASSUME NEW n, ClientTyped(n), NEW c \in Conns, NEW o \in Orders(n), Command(c, o)
  PROVE  /\ commands' = [d \in Conns |-> commands'[d]] /\ \A d \in Conns : commands'[d] \in Seq(Orders(n))
         /\ o.kind # "send" => InCommands' = InCommands
         /\ InCommands = {} => \A x, y \in InCommands' : x = y
<1> DEFINE k == Len(commands[c]) + 1
<1>1. commands = [d \in Conns |-> commands[d]] /\ \A d \in Conns : commands[d] \in Seq(Orders(n))
  BY DEF ClientTyped
<1>2. /\ commands'[c] = Append(commands[c], o) /\ \A d \in Conns \ {c} : commands'[d] = commands[d]
      /\ commands' = [d \in Conns |-> commands'[d]]
  BY <1>1 DEF Command
<1>3. /\ commands'[c] \in Seq(Orders(n))
      /\ DOMAIN commands'[c] = DOMAIN commands[c] \cup {k} /\ k \notin DOMAIN commands[c]
      /\ commands'[c][k] = o /\ \A i \in DOMAIN commands[c] : commands'[c][i] = commands[c][i]
  BY <1>1, <1>2, Appends
<1> HIDE DEF k
<1>4. ASSUME NEW d, NEW i, <<d, i>> \in InCommands'
      PROVE  <<d, i>> \in InCommands \/ (d = c /\ i = k /\ o.kind = "send")
  <2>1. d \in Conns /\ i \in DOMAIN commands'[d] /\ commands'[d][i].kind = "send"
    BY <1>4, InCommandsNext
  <2>2. (i \in DOMAIN commands[d] /\ commands'[d][i] = commands[d][i]) \/ (d = c /\ i = k)
    BY <1>2, <1>3, <2>1
  <2> QED
    BY <1>3, <2>1, <2>2, InCommandsIs
<1>5. ASSUME NEW d, NEW i, <<d, i>> \in InCommands
      PROVE  <<d, i>> \in InCommands'
  <2>1. d \in Conns /\ i \in DOMAIN commands[d] /\ commands[d][i].kind = "send"
    BY <1>5, InCommandsIs
  <2>2. i \in DOMAIN commands'[d] /\ commands'[d][i] = commands[d][i]
    BY <1>2, <1>3, <2>1
  <2> QED
    BY <2>1, <2>2, InCommandsNext
<1>6. o.kind # "send" => InCommands' = InCommands
  <2>1. ASSUME o.kind # "send", NEW x \in InCommands' PROVE x \in InCommands
    <3>1. PICK d, i : x = <<d, i>>
      BY <2>1, InCommandsNext
    <3> QED
      BY <1>4, <2>1, <3>1
  <2>2. ASSUME NEW x \in InCommands PROVE x \in InCommands'
    <3>1. PICK d, i : x = <<d, i>>
      BY <2>2, InCommandsIs
    <3> QED
      BY <1>5, <2>2, <3>1
  <2> QED
    BY <2>1, <2>2
<1>7. InCommands = {} => \A x, y \in InCommands' : x = y
  BY <1>4, InCommandsNext
<1> QED
  BY <1>1, <1>2, <1>3, <1>6, <1>7

\* Whatever the client does to its commands, if it does nothing else.
LEMMA CommandMoves ==
  ASSUME NEW n, TypedFor(n), UNCHANGED <<wireVars, serverVars, tick>>,
         commands' = [d \in Conns |-> commands'[d]], \A d \in Conns : commands'[d] \in Seq(Orders(n)),
         UnderWay = 0
  PROVE  TypedFor(n)' /\ UnderWay' = Few(InCommands') /\ InMessage' = InMessage
<1>1. UNCHANGED <<up, down, queue, sCommands, sTick, pushes>>
  BY DEF wireVars, serverVars, serverApp, queueVars
<1>2. TypedFor(n)'
  BY <1>1 DEF TypedFor, ClientTyped, WireTyped, ServerTyped
<1>3. /\ InOut' = {} /\ InUp' = {} /\ InHand' = {} /\ InQueue' = {}
      /\ InAnswers' = {} /\ InSending' = {} /\ InDown' = {} /\ InMessage' = {} /\ InMessage = {}
  BY <1>1, PlacesStay, InOnePlace
<1>4. /\ Few(InOut') = 0 /\ Few(InUp') = 0 /\ Few(InHand') = 0 /\ Few(InQueue') = 0
      /\ Few(InAnswers') = 0 /\ Few(InSending') = 0 /\ Few(InDown') = 0 /\ Few(InMessage') = 0
  BY <1>3, FewIs
<1>5. Few(InCommands') \in {0, 1, 2}
  BY FewIs
<1>6. UnderWay' = Few(InCommands')
  BY <1>4, <1>5 DEF UnderWay
<1> QED
  BY <1>2, <1>3, <1>6

LEMMA CloseHandled ==
  ASSUME ClientInv, NEW n, Handled(n), UNCHANGED serverVars, Close
  PROVE  \E m : Handled(m)'
<1>1. /\ app.at = "close" \/ app.at = "idle"
      /\ UNCHANGED <<wireVars, tick, attempts, dispatchVars, bufferVars, create, made, client>>
      /\ \/ app' = [app EXCEPT !.at = "create"] /\ UNCHANGED commands
         \/ /\ app' = [at |-> "closing", conn |-> IF app.at = "idle" THEN None ELSE app.conn]
            /\ \/ client = handle /\ handle # None /\ Command(handle, [kind |-> "close"])
               \/ UNCHANGED commands
      /\ app' = [app EXCEPT !.at = "create"] => app.at = "close"
  BY DEF Close, apiVars, Go
<1>2. UnderWay = 0 /\ \A m : TypedFor(m)
  <2>1. UnderWay = 0 /\ TypedFor(n)
    BY <1>1 DEF Handled, AskInv, Waiting
  <2> QED
    BY <2>1, Retype
<1>3. DOMAIN app = {"at", "conn"} /\ (app.conn # None => app.conn \in Conns)
  BY OwnConnection DEF Handled
<1>4. ASSUME NEW m
      PROVE  TypedFor(m)' /\ UnderWay' = 0 /\ InMessage' = InMessage
  <2>1. CASE UNCHANGED commands
    BY <1>1, <1>2, <2>1, Unmoved
  <2>2. CASE client = handle /\ handle # None /\ Command(handle, [kind |-> "close"])
    <3> DEFINE o == [kind |-> "close"]
    <3>1. o \in Orders(m) /\ o.kind # "send" /\ handle \in Conns
      BY <2>2 DEF Orders, ClientInv
    <3> HIDE DEF o
    <3>2. ClientTyped(m) /\ InCommands = {} /\ Command(handle, o)
      BY <1>2, <2>2, InOnePlace DEF TypedFor, o
    <3>3. /\ commands' = [d \in Conns |-> commands'[d]] /\ \A d \in Conns : commands'[d] \in Seq(Orders(m))
          /\ InCommands' = {}
      BY <3>1, <3>2, CommandTyped
    <3>4. Few(InCommands') = 0
      BY <3>3, FewIs
    <3> QED
      BY <1>1, <1>2, <3>3, <3>4, CommandMoves
  <2> QED
    BY <1>1, <2>1, <2>2
<1>5. CASE app' = [app EXCEPT !.at = "create"] /\ app.at = "close"
  <2>1. app'.at = "create" /\ app'.conn = app.conn
    BY <1>3, <1>5
  <2>2. AskInv'
    BY <1>1, <1>4, <1>5, <2>1 DEF Handled, AskInv, Waiting, Asking, Fresh, Unasked, dispatchVars, bufferVars
  <2>3. BufferInv'
    BY <1>1, <1>4, <1>5, <2>1 DEF Handled, BufferInv, Asking, Waiting, Holding, dispatchVars, bufferVars
  <2>4. Handled(n)'
    BY <1>1, <1>4, <2>1, <2>2, <2>3 DEF Handled, NothingUnhandled, dispatchVars
  <2> QED
    BY <2>4
<1>6. CASE app' = [at |-> "closing", conn |-> app.conn] /\ app.at = "close"
  <2>1. app'.at = "closing" /\ app'.conn = app.conn
    BY <1>3, <1>6
  <2>2. AskInv'
    BY <1>1, <1>4, <1>6, <2>1 DEF Handled, AskInv, Waiting, Asking, Fresh, Unasked, dispatchVars, bufferVars
  <2>3. BufferInv'
    BY <1>1, <1>4, <1>6, <2>1 DEF Handled, BufferInv, Asking, Waiting, Holding, dispatchVars, bufferVars
  <2>4. Handled(n)'
    BY <1>1, <1>4, <2>1, <2>2, <2>3 DEF Handled, NothingUnhandled, dispatchVars
  <2> QED
    BY <2>4
<1>7. CASE app' = [at |-> "closing", conn |-> None] /\ app.at = "idle"
  <2>1. app'.at = "closing" /\ app'.conn = None
    BY <1>7
  <2>2. None \notin answered
    BY OwnConnection DEF Handled, AskInv
  <2>3. AskInv'
    BY <1>1, <1>4, <1>7, <2>1, <2>2 DEF Handled, AskInv, Waiting, Asking, Fresh, Unasked, dispatchVars, bufferVars
  <2>4. BufferInv'
    BY <1>1, <1>4, <1>7, <2>1 DEF Handled, BufferInv, Asking, Waiting, Holding, dispatchVars, bufferVars
  <2>5. Handled(None)'
    BY <1>1, <1>4, <2>1, <2>3, <2>4 DEF Handled, NothingUnhandled, dispatchVars
  <2> QED
    BY <2>5
<1> QED
  BY <1>1, <1>5, <1>6, <1>7

\* The application asks: the buffer and the dispatch know of the reply before
\* the request is under way.
LEMMA SendHandled ==
  ASSUME ClientInv, NEW n, Handled(n), UNCHANGED serverVars, SendRequest
  PROVE  Handled(n)'
<1>1. /\ app.at = "send"
      /\ UNCHANGED <<wireVars, tick, attempts, dispatchVars, bufferVars, handle, create, made, client>>
      /\ \/ /\ client = handle /\ Command(handle, [kind |-> "send", msg |-> Request])
            /\ \E at \in {"poll", "wait"} : app' = [app EXCEPT !.at = at]
         \/ UNCHANGED commands /\ app' = [app EXCEPT !.at = "install"]
  BY DEF SendRequest, apiVars, Go
<1>2. UnderWay = 0 /\ TypedFor(n) /\ n = app.conn
  BY <1>1 DEF Handled, AskInv, Waiting
<1>3. DOMAIN app = {"at", "conn"} /\ app.conn # None /\ app.conn \in Conns
  BY <1>1, OwnConnection DEF Handled, AskInv, Asking
<1>4. app'.conn = app.conn
  BY <1>1, <1>3
<1>5. CASE UNCHANGED commands /\ app' = [app EXCEPT !.at = "install"]
  <2>1. app'.at = "install"
    BY <1>3, <1>5
  <2>2. TypedFor(n)' /\ UnderWay' = 0 /\ InMessage' = InMessage
    BY <1>1, <1>2, <1>5, Unmoved
  <2>3. AskInv'
    BY <1>1, <1>3, <1>4, <2>1, <2>2 DEF Handled, AskInv, Waiting, Asking, Fresh, Unasked, dispatchVars, bufferVars
  <2>4. BufferInv'
    BY <1>1, <1>4, <2>1, <2>2 DEF Handled, BufferInv, Asking, Waiting, Holding, dispatchVars, bufferVars
  <2> QED
    BY <1>1, <1>2, <1>4, <2>2, <2>3, <2>4 DEF Handled, NothingUnhandled, dispatchVars
<1>6. CASE /\ client = handle /\ Command(handle, [kind |-> "send", msg |-> Request])
           /\ \E at \in {"poll", "wait"} : app' = [app EXCEPT !.at = at]
  <2>1. app'.at \in {"poll", "wait"}
    BY <1>3, <1>6
  <2> DEFINE o == [kind |-> "send", msg |-> Request]
  <2>2. client \in Conns
    BY <1>1, <1>3, <1>6 DEF Handled, BufferInv, Asking
  <2>3. o \in Orders(n) /\ Command(client, o)
    BY <1>2, <1>6 DEF Orders, Ask, Request
  <2> HIDE DEF o
  <2>4. ClientTyped(n) /\ InCommands = {}
    BY <1>2, InOnePlace DEF TypedFor
  <2>5. /\ commands' = [d \in Conns |-> commands'[d]] /\ \A d \in Conns : commands'[d] \in Seq(Orders(n))
        /\ \A x, y \in InCommands' : x = y
    BY <2>2, <2>3, <2>4, CommandTyped
  <2>6. TypedFor(n)' /\ UnderWay' = Few(InCommands') /\ InMessage' = InMessage
    BY <1>1, <1>2, <2>5, CommandMoves
  <2>7. UnderWay' \in {0, 1}
    <3>1. Few(InCommands') \in {0, 1, 2} /\ Few(InCommands') <= 1
      BY <2>5, FewIs
    <3> QED
      BY <2>6, <3>1
  <2>8. app.conn \in replies /\ app.conn \notin answered /\ app.conn \in buffer.active
    BY <1>1 DEF Handled, AskInv, Fresh
  <2>9. AskInv'
    BY <1>1, <1>3, <1>4, <2>1, <2>6, <2>7, <2>8 DEF Handled, AskInv, Waiting, Asking, Fresh, Unasked, dispatchVars, bufferVars
  <2>10. BufferInv'
    BY <1>1, <1>4, <2>1, <2>6 DEF Handled, BufferInv, Asking, Waiting, Holding, dispatchVars, bufferVars
  <2> QED
    BY <1>1, <1>2, <1>4, <2>6, <2>9, <2>10 DEF Handled, NothingUnhandled, dispatchVars
<1> QED
  BY <1>1, <1>5, <1>6

\* What the application does in its context besides.
LEMMA AskingHandled ==
  ASSUME ClientInv, NEW n, Handled(n), UNCHANGED serverVars,
         RegisterReply \/ InsertReply \/ Wait \/ Poll \/ Park \/ InsertHandler \/ DropContext
  PROVE  Handled(n)'
<1>1. UNCHANGED <<wireVars, driverVars, commands, tick, attempts, answered, unhandled>>
  BY DEF RegisterReply, InsertReply, Wait, Poll, Park, InsertHandler, DropContext, apiVars, driverVars, dispatchVars
<1>2. TypedFor(n)' /\ UnderWay' = UnderWay /\ InMessage' = InMessage
  BY <1>1, Unmoved DEF Handled
<1>3. DOMAIN app = {"at", "conn"} /\ (app.conn # None => app.conn \in Conns)
  BY OwnConnection DEF Handled
<1>4. Request.num = app.conn /\ n = app.conn
  BY DEF Request, Numbered, Message, Handled
<1>5. ASSUME AskInv', BufferInv', app'.conn = app.conn
      PROVE  Handled(n)'
  BY <1>1, <1>2, <1>4, <1>5 DEF Handled, NothingUnhandled
<1>6. CASE RegisterReply
  <2>1. /\ app.at = "request" /\ app'.at = "register" /\ app'.conn = app.conn
        /\ buffer' = [buffer EXCEPT !.active = @ \cup {app.conn}]
        /\ UNCHANGED <<dispatchVars, context>>
    BY <1>3, <1>4, <1>6 DEF RegisterReply, Go
  <2>2. /\ buffer'.active = buffer.active \cup {app.conn} /\ buffer'.conn = buffer.conn /\ buffer'.msgs = buffer.msgs
        /\ DOMAIN buffer' = DOMAIN buffer
    BY <2>1 DEF Handled, BufferInv
  <2>3. app.conn \in Conns
    BY <1>3, <2>1 DEF Handled, AskInv, Asking
  <2>4. AskInv'
    BY <1>1, <1>2, <2>1, <2>2, <2>3 DEF Handled, AskInv, Waiting, Asking, Fresh, Unasked, dispatchVars, driverVars
  <2>5. BufferInv'
    BY <1>1, <1>2, <2>1, <2>2 DEF Handled, BufferInv, Asking, Waiting, Holding, dispatchVars, driverVars
  <2> QED
    BY <1>5, <2>1, <2>4, <2>5
<1>7. CASE InsertReply
  <2>1. /\ app.at = "register" /\ app'.at = "send" /\ app'.conn = app.conn
        /\ replies' = replies \cup {app.conn} /\ UNCHANGED <<installed, bufferVars>>
    BY <1>3, <1>4, <1>7 DEF InsertReply, Go
  <2>2. app.conn \in Conns
    BY <1>3, <2>1 DEF Handled, AskInv, Asking
  <2>3. AskInv'
    BY <1>1, <1>2, <2>1, <2>2 DEF Handled, AskInv, Waiting, Asking, Fresh, Unasked, bufferVars, driverVars
  <2>4. BufferInv'
    BY <1>1, <1>2, <2>1 DEF Handled, BufferInv, Asking, Waiting, Holding, bufferVars, driverVars
  <2> QED
    BY <1>5, <2>1, <2>3, <2>4
<1>8. CASE Wait \/ Poll
  <2>1. /\ Waiting /\ app'.conn = app.conn /\ UNCHANGED <<replies, installed, bufferVars>>
        /\ app'.at = "install" \/ app'.at = "park"
        /\ app'.at = "install" => app.conn \in answered
    BY <1>3, <1>4, <1>8 DEF Wait, Poll, Go, Waiting, dispatchVars
  <2>2. AskInv'
    BY <1>1, <1>2, <2>1 DEF Handled, AskInv, Waiting, Asking, Fresh, Unasked, bufferVars, driverVars
  <2>3. BufferInv'
    BY <1>1, <1>2, <2>1 DEF Handled, BufferInv, Asking, Waiting, Holding, bufferVars, driverVars
  <2> QED
    BY <1>5, <2>1, <2>2, <2>3
<1>9. CASE Park
  <2>1. /\ app.at = "park" /\ app'.at = "parked" /\ app'.conn = app.conn
        /\ UNCHANGED <<replies, installed, bufferVars>>
    BY <1>3, <1>9 DEF Park, Go
  <2>2. AskInv'
    BY <1>1, <1>2, <2>1 DEF Handled, AskInv, Waiting, Asking, Fresh, Unasked, bufferVars, driverVars
  <2>3. BufferInv'
    BY <1>1, <1>2, <2>1 DEF Handled, BufferInv, Asking, Waiting, Holding, bufferVars, driverVars
  <2> QED
    BY <1>5, <2>1, <2>2, <2>3
<1>10. CASE InsertHandler
  <2>1. /\ app.at = "install" /\ app'.at = "drop" /\ app'.conn = app.conn
        /\ UNCHANGED <<replies, bufferVars>> /\ installed' = TRUE
    BY <1>3, <1>10 DEF InsertHandler, Go
  <2>2. AskInv'
    BY <1>1, <1>2, <2>1 DEF Handled, AskInv, Waiting, Asking, Fresh, Unasked, bufferVars, driverVars
  <2>3. BufferInv'
    BY <1>1, <1>2, <2>1 DEF Handled, BufferInv, Asking, Waiting, Holding, bufferVars, driverVars
  <2> QED
    BY <1>5, <2>1, <2>2, <2>3
<1>11. CASE DropContext
  <2>1. /\ app.at = "drop" /\ app'.at \in {"idle", "drain"} /\ app'.conn = app.conn
        /\ UNCHANGED <<dispatchVars, buffer>>
    BY <1>3, <1>11 DEF DropContext, Go
  <2>2. AskInv'
    BY <1>1, <1>2, <2>1 DEF Handled, AskInv, Waiting, Asking, Fresh, Unasked, dispatchVars, driverVars
  <2>3. BufferInv'
    BY <1>1, <1>2, <2>1 DEF Handled, BufferInv, Asking, Waiting, Holding, dispatchVars, driverVars
  <2> QED
    BY <1>5, <2>1, <2>2, <2>3
<1> QED
  BY <1>6, <1>7, <1>8, <1>9, <1>10, <1>11

\* What the buffer held finds the handler.
LEMMA DrainHandled ==
  ASSUME ClientInv, NEW n, Handled(n), UNCHANGED serverVars, Drain
  PROVE  \E m : Handled(m)'
<1>1. app.at = "drain" /\ UNCHANGED <<wireVars, driverVars, commands, tick, attempts, context>>
  BY DEF Drain, apiVars, driverVars
<1>2. UnderWay = 0 /\ \A m : TypedFor(m)
  <2>1. UnderWay = 0 /\ TypedFor(n)
    BY <1>1 DEF Handled, AskInv, Waiting
  <2> QED
    BY <2>1, Retype
<1>3. ASSUME NEW m
      PROVE  TypedFor(m)' /\ UnderWay' = 0 /\ InMessage' = InMessage
  BY <1>1, <1>2, Unmoved
<1>4. None \notin replies /\ None \notin answered
  BY OwnConnection DEF Handled, AskInv
<1>5. CASE app' = [at |-> "idle", conn |-> None] /\ UNCHANGED <<buffer, dispatchVars>>
  <2>1. app'.at = "idle" /\ app'.conn = None
    BY <1>5
  <2>2. AskInv'
    BY <1>1, <1>3, <1>4, <1>5, <2>1 DEF Handled, AskInv, Waiting, Asking, Fresh, Unasked, dispatchVars, driverVars
  <2>3. BufferInv'
    BY <1>1, <1>3, <1>5, <2>1 DEF Handled, BufferInv, Asking, Waiting, Holding, dispatchVars, driverVars
  <2>4. Handled(None)'
    BY <1>3, <1>5, <2>1, <2>2, <2>3 DEF Handled, NothingUnhandled, dispatchVars
  <2> QED
    BY <2>4
<1>6. CASE /\ buffer.msgs # <<>> /\ Deliver(Head(buffer.msgs))
           /\ buffer' = [buffer EXCEPT !.msgs = Tail(@)] /\ UNCHANGED app
  <2>1. installed /\ buffer.msgs \in Seq(PushMessages) /\ DOMAIN buffer = {"conn", "msgs", "active"}
    BY <1>1, <1>6 DEF Handled, BufferInv, Holding, Asking, Waiting
  <2>2. Head(buffer.msgs) \in PushMessages /\ Tail(buffer.msgs) \in Seq(PushMessages)
    BY <1>6, <2>1, Tails
  <2>3. Head(buffer.msgs).key = "push" /\ Head(buffer.msgs).reply = None
    BY <2>2 DEF PushMessages
  <2>4. UNCHANGED <<replies, answered, waker, installed, unhandled>>
    BY <1>4, <1>6, <2>1, <2>3 DEF Deliver
  <2>5. /\ buffer'.msgs = Tail(buffer.msgs) /\ buffer'.conn = buffer.conn /\ buffer'.active = buffer.active
        /\ DOMAIN buffer' = DOMAIN buffer
    BY <1>6, <2>1
  <2>6. AskInv'
    BY <1>1, <1>3, <1>6, <2>4, <2>5 DEF Handled, AskInv, Waiting, Asking, Fresh, Unasked, driverVars
  <2>7. BufferInv'
    BY <1>1, <1>3, <1>6, <2>1, <2>2, <2>4, <2>5 DEF Handled, BufferInv, Asking, Waiting, Holding, driverVars
  <2>8. Handled(n)'
    BY <1>3, <1>6, <2>4, <2>6, <2>7 DEF Handled, NothingUnhandled
  <2> QED
    BY <2>8
<1> QED
  BY <1>5, <1>6 DEF Drain

-----------------------------------------------------------------------------
(* The thread that ticks the client.                                        *)

LEMMA ClientCounts ==
  ASSUME UNCHANGED serverVars,
         Few(InCommands') + Few(InOut') + Few(InUp') + Few(InDown') + Few(InMessage')
           <= Few(InCommands) + Few(InOut) + Few(InUp) + Few(InDown) + Few(InMessage)
  PROVE  UnderWay' <= UnderWay
<1>1. InHand' = InHand /\ InQueue' = InQueue /\ InAnswers' = InAnswers /\ InSending' = InSending
  BY PlacesStay DEF serverVars, queueVars
<1>2. /\ Few(InCommands) \in Int /\ Few(InOut) \in Int /\ Few(InMessage) \in Int
      /\ Few(InUp) \in Int /\ Few(InHand) \in Int /\ Few(InQueue) \in Int
      /\ Few(InAnswers) \in Int /\ Few(InSending) \in Int /\ Few(InDown) \in Int
      /\ Few(InCommands') \in Int /\ Few(InOut') \in Int /\ Few(InUp') \in Int /\ Few(InDown') \in Int
      /\ Few(InMessage') \in Int
  BY DEF Few
<1>3. UnderWay = Few(InCommands) + Few(InOut) + Few(InUp) + Few(InHand) + Few(InQueue)
                   + Few(InAnswers) + Few(InSending) + Few(InDown) + Few(InMessage)
  BY DEF UnderWay
<1>4. UnderWay' = Few(InCommands') + Few(InOut') + Few(InUp') + Few(InHand') + Few(InQueue')
                   + Few(InAnswers') + Few(InSending') + Few(InDown') + Few(InMessage')
  BY DEF UnderWay
<1> QED
  BY <1>1, <1>2, <1>3, <1>4

\* A step of this thread that dispatches nothing.
LEMMA TickKeeps ==
  ASSUME ClientInv, NEW n, Handled(n), UNCHANGED <<serverVars, app, dispatchVars, context, buffer, attempts, handle>>,
         ClientTyped(n)', WireTyped(n)', UnderWay' <= UnderWay, InMessage = {},
         \/ UNCHANGED <<create, made>> /\ client' \in {client, None}
         \/ /\ create # None /\ create' = None
            /\ (made' = TRUE /\ client' = create) \/ (made' = FALSE /\ client' = client),
         installed \/ tick'.at # "deliver" \/ InMessage' # {}
  PROVE  Handled(n)'
<1>1. UnderWay \in {0, 1} /\ UnderWay' \in {0, 1} /\ (UnderWay' = 1 => UnderWay = 1)
  BY UnderWayIs DEF Handled, AskInv
<1>2. UnderWay = 1 => app.conn \in buffer.active
  BY DEF Handled, AskInv
<1>3. create # None => app.at = "creating" /\ create = app.conn
  BY DEF ClientInv
<1>4. AskInv'
  BY <1>1, <1>2, <1>3 DEF Handled, AskInv, Waiting, Asking, Fresh, Unasked, dispatchVars
<1>5. BufferInv'
  BY <1>3 DEF Handled, BufferInv, Asking, Waiting, Holding, dispatchVars
<1>6. ServerTyped(n)'
  BY DEF Handled, TypedFor, ServerTyped, serverVars, serverApp, queueVars
<1> QED
  BY <1>4, <1>5, <1>6 DEF Handled, TypedFor, NothingUnhandled, dispatchVars

LEMMA CreateClientHandled ==
  ASSUME ClientInv, NEW n, Handled(n), UNCHANGED serverVars, CreateClient
  PROVE  Handled(n)'
<1>1. /\ tick.at = "rest" /\ create # None /\ create' = None
      /\ (made' = TRUE /\ client' = create) \/ (made' = FALSE /\ client' = client)
      /\ UNCHANGED <<app, dispatchVars, context, buffer, attempts, handle, commands, tick, up, down>>
  BY DEF CreateClient, WireConnect, wireVars, bufferVars, apiVars
<1>2. ClientTyped(n)' /\ WireTyped(n)'
  BY <1>1 DEF Handled, TypedFor, ClientTyped, WireTyped
<1>3. InMessage = {}
  BY <1>1 DEF InMessage
<1>4. UnderWay' <= UnderWay
  <2>1. InCommands' = InCommands /\ InOut' = InOut /\ InUp' = InUp /\ InDown' = InDown /\ InMessage' = InMessage
    BY <1>1, PlacesStay
  <2>2. /\ Few(InCommands) \in Int /\ Few(InOut) \in Int /\ Few(InUp) \in Int /\ Few(InDown) \in Int /\ Few(InMessage) \in Int
    BY DEF Few
  <2> QED
    BY <2>1, <2>2, ClientCounts
<1> QED
  BY <1>1, <1>2, <1>3, <1>4, TickKeeps

\* Nothing is left in the connection's commands, or nobody looks at them, when
\* the client closes.
LEMMA CloseClientPlaces ==
  ASSUME ClientInv, NEW n, Handled(n), UNCHANGED <<serverVars, app, dispatchVars, context, buffer, handle, create, made>>,
         client # None, tick.at \in {"rest", "messages"}, CloseClient,
         UNCHANGED commands \/ commands' = [commands EXCEPT ![client] = <<>>]
  PROVE  Handled(n)'
<1>1. client \in Conns /\ attempts' = attempts /\ client' = None /\ tick' = Resting
  BY DEF ClientInv, CloseClient
<1>2. /\ up' = up \/ up' = [up EXCEPT ![client] = <<>>]
      /\ down' = [down EXCEPT ![client] = <<>>]
  BY DEF CloseClient, WireClientGone
<1>3. /\ commands = [c \in Conns |-> commands[c]] /\ up = [c \in Conns |-> up[c]] /\ down = [c \in Conns |-> down[c]]
      /\ \A c \in Conns : commands[c] \in Seq(Orders(n)) /\ up[c] \in Seq({Ask(n)}) /\ down[c] \in Seq(Coming(n))
  BY DEF Handled, TypedFor, ClientTyped, WireTyped, Coming
<1>4. \A c \in Conns : /\ commands'[c] \in {commands[c], <<>>}
                       /\ up'[c] \in {up[c], <<>>}
                       /\ down'[c] \in {down[c], <<>>}
  BY <1>1, <1>2, <1>3
<1>5. <<>> \in Seq(Orders(n)) /\ <<>> \in Seq({Ask(n)}) /\ <<>> \in Seq(Coming(n)) /\ DOMAIN <<>> = {}
  OBVIOUS
<1>6. WireTyped(n)'
  <2>1. \A c \in Conns : up'[c] \in Seq({Ask(n)}) /\ down'[c] \in Seq(Coming(n))
    BY <1>3, <1>4, <1>5
  <2>2. up' = [c \in Conns |-> up'[c]] /\ down' = [c \in Conns |-> down'[c]]
    BY <1>2, <1>3
  <2> QED
    BY <2>1, <2>2 DEF WireTyped, Coming
<1>7. ClientTyped(n)'
  <2>1. \A c \in Conns : commands'[c] \in Seq(Orders(n))
    BY <1>3, <1>4, <1>5
  <2>2. commands' = [c \in Conns |-> commands'[c]]
    BY <1>3
  <2>3. DOMAIN tick' = {"at", "left", "out", "msg"} /\ tick'.out \in Seq({Ask(n)}) /\ tick'.at = "rest"
    BY <1>1, <1>5 DEF Resting
  <2> QED
    BY <2>1, <2>2, <2>3 DEF ClientTyped
<1>8. InCommands' \subseteq InCommands /\ InUp' \subseteq InUp /\ InDown' \subseteq InDown
  <2>1. ASSUME NEW x \in InCommands' PROVE x \in InCommands
    <3>1. PICK c, i : c \in Conns /\ x = <<c, i>> /\ i \in DOMAIN commands'[c] /\ commands'[c][i].kind = "send"
      BY InCommandsNext
    <3>2. commands'[c] = commands[c]
      BY <1>4, <1>5, <3>1
    <3> QED
      BY <3>1, <3>2, InCommandsIs
  <2>2. ASSUME NEW x \in InUp' PROVE x \in InUp
    <3>1. PICK c, i : c \in Conns /\ x = <<c, i>> /\ i \in DOMAIN up'[c]
      BY InUpNext
    <3>2. up'[c] = up[c]
      BY <1>4, <1>5, <3>1
    <3> QED
      BY <3>1, <3>2, InUpIs
  <2>3. ASSUME NEW x \in InDown' PROVE x \in InDown
    <3>1. PICK c, i : c \in Conns /\ x = <<c, i>> /\ i \in DOMAIN down'[c] /\ down'[c][i].key = "reply"
      BY InDownNext
    <3>2. down'[c] = down[c]
      BY <1>4, <1>5, <3>1
    <3> QED
      BY <3>1, <3>2, InDownIs
  <2> QED
    BY <2>1, <2>2, <2>3
<1>9. InOut' = {} /\ InMessage' = {} /\ InMessage = {}
  BY <1>1, <1>5 DEF Resting, InOut, InMessage
<1>10. UnderWay' <= UnderWay
  <2>1. Few(InCommands') <= Few(InCommands) /\ Few(InUp') <= Few(InUp) /\ Few(InDown') <= Few(InDown)
    BY <1>8, FewerPlaces
  <2>2. Few(InOut') = 0 /\ Few(InMessage') = 0 /\ Few(InMessage) = 0
    BY <1>9, FewIs
  <2>3. /\ Few(InCommands) \in Nat /\ Few(InOut) \in Nat /\ Few(InUp) \in Nat /\ Few(InDown) \in Nat
        /\ Few(InCommands') \in Nat /\ Few(InUp') \in Nat /\ Few(InDown') \in Nat
    BY DEF Few
  <2> QED
    BY <2>1, <2>2, <2>3, ClientCounts
<1>11. tick'.at # "deliver"
  BY <1>1 DEF Resting
<1> QED
  BY <1>1, <1>6, <1>7, <1>9, <1>10, <1>11, TickKeeps

LEMMA TakeCommandsHandled ==
  ASSUME ClientInv, NEW n, Handled(n), UNCHANGED serverVars, TakeCommands
  PROVE  Handled(n)'
<1>1. /\ tick.at = "rest" /\ client # None /\ client \in Conns
      /\ commands' = [commands EXCEPT ![client] = <<>>]
      /\ UNCHANGED <<app, dispatchVars, context, buffer, handle, create, made>>
  BY DEF TakeCommands, bufferVars, ClientInv
<1>2. CASE CloseClient
  BY <1>1, <1>2, CloseClientPlaces
<1>3. CASE /\ ~Asked("close")
           /\ tick' = [Resting EXCEPT !.at = "messages", !.left = PollLimit,
                                      !.out = [i \in DOMAIN commands[client] |-> commands[client][i].msg]]
           /\ UNCHANGED <<up, down, attempts, client>>
  <2>1. /\ commands = [c \in Conns |-> commands[c]]
        /\ \A c \in Conns : commands[c] \in Seq(Orders(n))
    BY DEF Handled, TypedFor, ClientTyped
  <2> DEFINE taken == commands[client]
             out == [i \in DOMAIN taken |-> taken[i].msg]
  <2>2. ASSUME NEW i \in DOMAIN taken
        PROVE  taken[i].kind = "send" /\ taken[i].msg = Ask(n)
    <3>1. taken[i] \in Orders(n) /\ taken[i].kind # "close"
      BY <1>1, <1>3, <2>1 DEF Asked
    <3> QED
      BY <3>1 DEF Orders
  <2>3. out \in Seq({Ask(n)}) /\ DOMAIN out = DOMAIN taken
    <3>1. DOMAIN taken = 1 .. Len(taken) /\ Len(taken) \in Nat
      BY <1>1, <2>1
    <3> HIDE DEF taken
    <3> QED
      BY <2>2, <3>1
  <2>4. /\ tick'.at = "messages" /\ tick'.out = out /\ DOMAIN tick' = {"at", "left", "out", "msg"}
    BY <1>3 DEF Resting
  <2>5. /\ \A c \in Conns \ {client} : commands'[c] = commands[c]
        /\ commands'[client] = <<>> /\ commands' = [c \in Conns |-> commands'[c]]
    BY <1>1, <2>1
  <2>6. ClientTyped(n)'
    <3>1. \A c \in Conns : commands'[c] \in Seq(Orders(n))
      <4>1. <<>> \in Seq(Orders(n))
        OBVIOUS
      <4> QED
        BY <2>1, <2>5, <4>1
    <3> HIDE DEF out
    <3> QED
      BY <2>3, <2>4, <2>5, <3>1 DEF ClientTyped
  <2>7. WireTyped(n)'
    BY <1>3 DEF Handled, TypedFor, WireTyped
  <2>8. InMessage = {} /\ InMessage' = {}
    BY <1>1, <2>4 DEF InMessage
  <2>9. /\ \A x \in InCommands' : x \in InCommands /\ \A i : x # <<client, i>>
        /\ \A i \in InOut' : <<client, i>> \in InCommands
    <3>1. \A i \in InOut' : <<client, i>> \in InCommands
      BY <1>1, <2>2, <2>3, <2>4, InCommandsIs DEF InOut
    <3>2. ASSUME NEW x \in InCommands'
          PROVE  x \in InCommands /\ \A i : x # <<client, i>>
      <4>1. PICK c, i : c \in Conns /\ x = <<c, i>> /\ i \in DOMAIN commands'[c] /\ commands'[c][i].kind = "send"
        BY InCommandsNext
      <4>2. c # client
        BY <2>5, <4>1
      <4> QED
        BY <2>5, <4>1, <4>2, InCommandsIs
    <3> QED
      BY <3>1, <3>2
  <2>10. Few(InCommands') + Few(InOut') <= Few(InCommands)
    <3>1. Few(InCommands) <= 1 /\ \A x, y \in InCommands : x = y
      <4>1. Few(InCommands) + Few(InOut) <= 1 /\ Few(InCommands) \in {0, 1, 2} /\ Few(InOut) \in {0, 1, 2}
        BY InOnePlace, FewIs DEF Handled, AskInv
      <4>2. Few(InCommands) <= 1
        BY <4>1
      <4> QED
        BY <4>2, FewIs
    <3>2. InCommands = {} => InCommands' = {} /\ InOut' = {}
      BY <2>9
    <3>3. \A x, y \in InCommands' : x = y
      BY <2>9, <3>1
    <3>4. \A x, y \in InOut' : x = y
      <4> SUFFICES ASSUME NEW x \in InOut', NEW y \in InOut'
                   PROVE  x = y
        OBVIOUS
      <4>1. <<client, x>> = <<client, y>>
        BY <2>9, <3>1
      <4> QED
        BY <4>1
    <3>5. InCommands' = {} \/ InOut' = {}
      <4> SUFFICES ASSUME NEW x \in InCommands', NEW i \in InOut'
                   PROVE  FALSE
        OBVIOUS
      <4>1. x = <<client, i>>
        BY <2>9, <3>1
      <4> QED
        BY <2>9, <4>1
    <3> QED
      BY <3>1, <3>2, <3>3, <3>4, <3>5, FewSplit
  <2>11. UnderWay' <= UnderWay
    <3>1. InUp' = InUp /\ InDown' = InDown /\ Few(InMessage') = Few(InMessage)
      BY <1>3, <2>8, PlacesStay
    <3>2. /\ Few(InCommands) \in Nat /\ Few(InOut) \in Nat /\ Few(InUp) \in Nat /\ Few(InDown) \in Nat
          /\ Few(InCommands') \in Nat /\ Few(InOut') \in Nat /\ Few(InMessage) \in Nat
      BY DEF Few
    <3> QED
      BY <2>10, <3>1, <3>2, ClientCounts
  <2> QED
    BY <1>1, <1>3, <2>4, <2>6, <2>7, <2>8, <2>11, TickKeeps
<1> QED
  BY <1>2, <1>3 DEF TakeCommands, wireVars, apiVars

LEMMA TakeMessageHandled ==
  ASSUME ClientInv, NEW n, Handled(n), UNCHANGED serverVars, TakeMessage
  PROVE  Handled(n)'
<1>1. /\ tick.at = "messages" /\ down[client] # <<>>
      /\ tick' = [tick EXCEPT !.msg = Head(down[client]), !.left = @ - 1,
                              !.at = IF context # None THEN "accept" ELSE "deliver"]
      /\ down' = [down EXCEPT ![client] = Tail(@)]
      /\ UNCHANGED <<app, dispatchVars, context, buffer, attempts, handle, create, made, client, commands, up>>
  BY DEF TakeMessage, driverVars, apiVars
<1>2. client \in Conns /\ client # None
  BY <1>1 DEF ClientInv
<1>3. /\ down = [c \in Conns |-> down[c]] /\ \A c \in Conns : down[c] \in Seq(Coming(n))
      /\ DOMAIN tick = {"at", "left", "out", "msg"} /\ tick.out \in Seq({Ask(n)})
      /\ \A c \in Conns : commands[c] \in Seq(Orders(n))
  BY DEF Handled, TypedFor, ClientTyped, WireTyped, Coming
<1>4. /\ down'[client] = Tail(down[client]) /\ \A c \in Conns \ {client} : down'[c] = down[c]
      /\ down' = [c \in Conns |-> down'[c]]
  BY <1>1, <1>2, <1>3
<1>5. /\ Tail(down[client]) \in Seq(Coming(n)) /\ Head(down[client]) \in Coming(n)
      /\ Head(down[client]) = down[client][1] /\ 1 \in DOMAIN down[client]
      /\ \A i \in DOMAIN Tail(down[client]) :
           i + 1 \in DOMAIN down[client] /\ i + 1 # 1 /\ i \in Nat /\ Tail(down[client])[i] = down[client][i + 1]
  BY <1>1, <1>2, <1>3, Tails
<1>6. /\ tick'.msg = down[client][1] /\ tick'.out = tick.out /\ DOMAIN tick' = DOMAIN tick
      /\ tick'.at = IF context # None THEN "accept" ELSE "deliver"
  BY <1>1, <1>3, <1>5
<1>7. ClientTyped(n)'
  BY <1>1, <1>3, <1>5, <1>6 DEF Handled, TypedFor, ClientTyped, Coming
<1>8. WireTyped(n)'
  <2>1. \A c \in Conns : down'[c] \in Seq(Coming(n))
    BY <1>3, <1>4, <1>5
  <2> QED
    BY <1>1, <1>4, <2>1 DEF Handled, TypedFor, WireTyped, Coming
<1>9. InMessage = {} /\ InOut' = InOut /\ InCommands' = InCommands /\ InUp' = InUp
  BY <1>1, <1>6, PlacesStay DEF InMessage, InOut
<1>10. Few(InDown) \in {0, 1} /\ \A x, y \in InDown : x = y
  <2>1. Few(InDown) + Few(InMessage) <= 1 /\ Few(InDown) \in {0, 1, 2} /\ Few(InMessage) \in {0, 1, 2}
    BY InOnePlace, FewIs DEF Handled, AskInv
  <2>2. Few(InDown) \in {0, 1}
    BY <2>1
  <2>3. Few(InDown) <= 1
    BY <2>2
  <2> QED
    BY <2>2, <2>3, FewIs
\* What is left of the messages has moved up.
<1>11. ASSUME NEW x \in InDown'
       PROVE  (\E y \in InDown : y # <<client, 1>>) /\ (\A z \in InDown' : z = x)
  <2>1. PICK c, i : c \in Conns /\ x = <<c, i>> /\ i \in DOMAIN down'[c] /\ down'[c][i].key = "reply"
    BY InDownNext
  <2> DEFINE Before(d, j) == IF d = client THEN <<d, j + 1>> ELSE <<d, j>>
  <2>2. ASSUME NEW d \in Conns, NEW j \in DOMAIN down'[d], down'[d][j].key = "reply"
        PROVE  Before(d, j) \in InDown /\ Before(d, j) # <<client, 1>>
    <3>1. CASE d = client
      <4>1. j + 1 \in DOMAIN down[client] /\ j + 1 # 1 /\ down[client][j + 1].key = "reply"
        BY <1>4, <1>5, <2>2, <3>1
      <4> QED
        BY <1>2, <3>1, <4>1, InDownIs
    <3>2. CASE d # client
      BY <1>4, <2>2, <3>2, InDownIs
    <3> QED
      BY <3>1, <3>2
  <2>3. ASSUME NEW z \in InDown'
        PROVE  z = x
    <3>1. PICK d, j : d \in Conns /\ z = <<d, j>> /\ j \in DOMAIN down'[d] /\ down'[d][j].key = "reply"
      BY InDownNext
    <3>2. Before(d, j) = Before(c, i)
      BY <1>10, <2>1, <2>2, <3>1
    <3>3. d = client => j \in Nat
      BY <1>4, <1>5, <3>1
    <3>4. c = client => i \in Nat
      BY <1>4, <1>5, <2>1
    <3> QED
      BY <2>1, <3>1, <3>2, <3>3, <3>4
  <2>4. Before(c, i) \in InDown /\ Before(c, i) # <<client, 1>>
    BY <2>1, <2>2
  <2> HIDE DEF Before
  <2> QED
    BY <2>3, <2>4
<1>12. Few(InDown') + Few(InMessage') <= Few(InDown)
  <2>1. \A x, y \in InDown' : x = y
    BY <1>10, <1>11
  <2>2. \A x, y \in InMessage' : x = y
    BY DEF InMessage
  <2>3. InMessage' # {} => <<client, 1>> \in InDown
    BY <1>2, <1>5, <1>6, InDownIs DEF InMessage
  <2>4. InDown' = {} \/ InMessage' = {}
    BY <1>10, <1>11, <2>3
  <2>5. InDown = {} => InDown' = {} /\ InMessage' = {}
    BY <1>11, <2>3
  <2>6. Few(InDown) <= 1
    BY <1>10
  <2> QED
    BY <2>1, <2>2, <2>4, <2>5, <2>6, FewSplit
<1>13. UnderWay' <= UnderWay
  <2>1. Few(InMessage) = 0
    BY <1>9, FewIs
  <2>2. /\ Few(InCommands) \in Nat /\ Few(InOut) \in Nat /\ Few(InUp) \in Nat /\ Few(InDown) \in Nat
        /\ Few(InDown') \in Nat /\ Few(InMessage') \in Nat
    BY DEF Few
  <2> QED
    BY <1>9, <1>12, <2>1, <2>2, ClientCounts
<1>14. installed \/ tick'.at # "deliver"
  <2> SUFFICES ASSUME ~installed
               PROVE  context # None
    BY <1>6
  <2>1. Holding /\ client = app.conn
    BY <1>2 DEF Handled, BufferInv
  <2>2. context = app.conn
    BY <2>1 DEF Handled, BufferInv, Holding
  <2> QED
    BY <1>2, <2>1, <2>2
<1> QED
  BY <1>1, <1>7, <1>8, <1>9, <1>13, <1>14, TickKeeps

LEMMA ReliableFrom ==
  ASSUME NEW S, NEW msgs \in Seq(S)
  PROVE  /\ ReliableOf(msgs) \in Seq(S)
         /\ \E e \in [DOMAIN ReliableOf(msgs) -> DOMAIN msgs] :
              \A j, k \in DOMAIN ReliableOf(msgs) : e[j] = e[k] => j = k
<1> DEFINE at == {i \in DOMAIN msgs : Reliable(msgs[i])}
           some == Picked(msgs, at)
<1>1. some = ReliableOf(msgs)
  BY DEF ReliableOf
<1> HIDE DEF at
<1>2. /\ some \in Seq(S)
      /\ \E e \in [DOMAIN some -> at \cap DOMAIN msgs] :
           /\ \A j \in DOMAIN some : some[j] = msgs[e[j]]
           /\ \A j, k \in DOMAIN some : e[j] = e[k] => j = k
  BY PickedFrom
<1> HIDE DEF some
<1>3. PICK e \in [DOMAIN some -> at \cap DOMAIN msgs] : \A j, k \in DOMAIN some : e[j] = e[k] => j = k
  BY <1>2
<1>4. e \in [DOMAIN some -> DOMAIN msgs]
  BY <1>3
<1> QED
  BY <1>1, <1>2, <1>3, <1>4

LEMMA PollEventsHandled ==
  ASSUME ClientInv, NEW n, Handled(n), UNCHANGED serverVars, PollEvents
  PROVE  Handled(n)'
<1>1. /\ tick.at = "messages" /\ client # None /\ client \in Conns
      /\ UNCHANGED <<app, dispatchVars, context, buffer, handle, create, made, commands>>
  BY DEF PollEvents, bufferVars, ClientInv
<1>2. CASE CloseClient
  BY <1>1, <1>2, CloseClientPlaces
<1>3. CASE /\ \E msgs \in Deliverable(tick.out) : up' = [up EXCEPT ![client] = Sent(client, up, msgs)]
           /\ tick' = Resting /\ UNCHANGED <<attempts, client, down>>
  <2>1. /\ up = [c \in Conns |-> up[c]] /\ \A c \in Conns : up[c] \in Seq({Ask(n)})
        /\ tick.out \in Seq({Ask(n)})
    BY DEF Handled, TypedFor, ClientTyped, WireTyped
  <2>2. PICK msgs \in Deliverable(tick.out) : up' = [up EXCEPT ![client] = Sent(client, up, msgs)]
    BY <1>3
  <2>3. /\ msgs \in Seq({Ask(n)})
        /\ \E e \in [DOMAIN msgs -> DOMAIN tick.out] : \A j, k \in DOMAIN msgs : e[j] = e[k] => j = k
    <3>1. CASE msgs = tick.out
      <4> DEFINE e == [j \in DOMAIN msgs |-> j]
      <4>1. e \in [DOMAIN msgs -> DOMAIN tick.out] /\ \A j, k \in DOMAIN msgs : e[j] = e[k] => j = k
        BY <3>1
      <4> HIDE DEF e
      <4> QED
        BY <2>1, <3>1, <4>1
    <3>2. CASE msgs = ReliableOf(tick.out)
      BY <2>1, <3>2, ReliableFrom
    <3> QED
      BY <3>1, <3>2 DEF Deliverable
  <2>4. PICK e \in [DOMAIN msgs -> DOMAIN tick.out] : \A j, k \in DOMAIN msgs : e[j] = e[k] => j = k
    BY <2>3
  <2>5. /\ up'[client] = up[client] \/ up'[client] = up[client] \o msgs
        /\ \A c \in Conns \ {client} : up'[c] = up[c]
        /\ up' = [c \in Conns |-> up'[c]]
    BY <1>1, <2>1, <2>2 DEF Sent
  <2>6. WireTyped(n)'
    <3>1. \A c \in Conns : up'[c] \in Seq({Ask(n)})
      <4> DEFINE A == {Ask(n)}
      <4>1. up[client] \in Seq(A) /\ msgs \in Seq(A)
        BY <1>1, <2>1, <2>3
      <4> HIDE DEF A
      <4>2. up[client] \o msgs \in Seq(A)
        BY <4>1
      <4> QED
        BY <1>1, <2>1, <2>5, <4>2 DEF A
    <3> QED
      BY <1>3, <2>5, <3>1 DEF Handled, TypedFor, WireTyped
  <2>7. ClientTyped(n)'
    <3>1. <<>> \in Seq({Ask(n)})
      OBVIOUS
    <3>2. DOMAIN tick' = {"at", "left", "out", "msg"} /\ tick'.out \in Seq({Ask(n)}) /\ tick'.at = "rest"
      BY <1>3, <3>1 DEF Resting
    <3> QED
      BY <1>1, <3>2 DEF Handled, TypedFor, ClientTyped
  <2>8. InMessage = {} /\ InMessage' = {} /\ InOut' = {} /\ InCommands' = InCommands /\ InDown' = InDown
    BY <1>1, <1>3, PlacesStay DEF Resting, InMessage, InOut
\* What has gone out was waiting to.
  <2>9. ASSUME NEW c \in Conns, NEW i, i \in DOMAIN up'[c], <<c, i>> \notin InUp
        PROVE  /\ c = client /\ i \in Int
               /\ i - Len(up[client]) \in DOMAIN msgs /\ e[i - Len(up[client])] \in InOut
    <3>1. i \notin DOMAIN up[c]
      BY <2>9, InUpIs
    <3>2. c = client /\ up'[client] = up[client] \o msgs
      BY <2>5, <2>9, <3>1
    <3>3. i - Len(up[client]) \in DOMAIN msgs /\ i \in Int
      BY <1>1, <2>1, <2>3, <2>9, <3>1, <3>2, Concats
    <3> QED
      BY <2>4, <3>2, <3>3 DEF InOut
  <2>10. Few(InUp') <= Few(InUp) + Few(InOut)
    <3>1. Few(InUp) + Few(InOut) <= 1 /\ Few(InUp) \in {0, 1, 2} /\ Few(InOut) \in {0, 1, 2}
      <4>1. Few(InOut) + Few(InUp) <= 1 /\ Few(InUp) \in {0, 1, 2} /\ Few(InOut) \in {0, 1, 2}
        BY InOnePlace, FewIs DEF Handled, AskInv
      <4> QED
        BY <4>1
    <3>2. (\A x, y \in InUp : x = y) /\ (\A x, y \in InOut : x = y)
      <4>1. Few(InUp) <= 1 /\ Few(InOut) <= 1
        BY <3>1
      <4> QED
        BY <4>1, FewIs
    <3>3. InOut = {} => InUp' \subseteq InUp
      <4> SUFFICES ASSUME InOut = {}, NEW x \in InUp', x \notin InUp
                   PROVE  FALSE
        OBVIOUS
      <4>1. PICK c, i : c \in Conns /\ x = <<c, i>> /\ i \in DOMAIN up'[c]
        BY InUpNext
      <4> QED
        BY <2>9, <4>1
    <3>4. ASSUME InUp = {}, NEW x \in InUp', NEW y \in InUp'
          PROVE  x = y
      <4>1. PICK c, i : c \in Conns /\ x = <<c, i>> /\ i \in DOMAIN up'[c]
        BY InUpNext
      <4>2. PICK d, h : d \in Conns /\ y = <<d, h>> /\ h \in DOMAIN up'[d]
        BY InUpNext
      <4>3. /\ c = client /\ i \in Int /\ i - Len(up[client]) \in DOMAIN msgs /\ e[i - Len(up[client])] \in InOut
            /\ d = client /\ h \in Int /\ h - Len(up[client]) \in DOMAIN msgs /\ e[h - Len(up[client])] \in InOut
        BY <2>9, <3>4, <4>1, <4>2
      <4>4. i - Len(up[client]) = h - Len(up[client])
        BY <2>4, <3>2, <4>3
      <4>5. Len(up[client]) \in Nat
        BY <1>1, <2>1
      <4> QED
        BY <4>1, <4>2, <4>3, <4>4, <4>5
    <3>5. InOut = {} => \A x, y \in InUp' : x = y
      BY <3>2, <3>3
    <3> QED
      BY <3>1, <3>3, <3>4, <3>5, FewMerge
  <2>11. UnderWay' <= UnderWay
    <3>1. Few(InOut') = 0 /\ Few(InMessage') = 0 /\ Few(InMessage) = 0
      BY <2>8, FewIs
    <3>2. /\ Few(InCommands) \in Nat /\ Few(InOut) \in Nat /\ Few(InUp) \in Nat /\ Few(InDown) \in Nat
          /\ Few(InUp') \in Nat
      BY DEF Few
    <3> QED
      BY <2>8, <2>10, <3>1, <3>2, ClientCounts
  <2>12. tick'.at # "deliver"
    BY <1>3 DEF Resting
  <2> QED
    BY <1>1, <1>3, <2>6, <2>7, <2>8, <2>11, <2>12, TickKeeps
<1> QED
  BY <1>2, <1>3 DEF PollEvents, apiVars

\* The connect buffer holds a push and lets the answer through.
LEMMA AcceptHandled ==
  ASSUME ClientInv, NEW n, Handled(n), UNCHANGED serverVars, Accept
  PROVE  Handled(n)'
<1> DEFINE m == tick.msg
           asked == m.reply \in buffer.active
           passes == buffer.conn # client \/ asked
           room == Len(buffer.msgs) < BufferSize
           held == [buffer EXCEPT !.active = IF passes /\ asked THEN @ \ {m.reply} ELSE @,
                                  !.msgs = IF ~passes /\ room THEN Append(@, m) ELSE @]
<1>1. /\ tick.at = "accept" /\ buffer' = held
      /\ tick' = [tick EXCEPT !.at = IF context = None /\ held.msgs # <<>> THEN "stuck"
                                     ELSE IF passes THEN "deliver" ELSE "messages"]
      /\ UNCHANGED <<wireVars, app, dispatchVars, context, driverVars, apiVars>>
  BY DEF Accept
<1>2. client # None /\ client \in Conns
  BY <1>1 DEF ClientInv
<1>3. /\ DOMAIN tick = {"at", "left", "out", "msg"} /\ m \in PushMessages \cup {AnswerOf(n)}
      /\ DOMAIN buffer = {"conn", "msgs", "active"} /\ buffer.msgs \in Seq(PushMessages)
      /\ n = app.conn /\ UnderWay \in {0, 1}
  BY <1>1 DEF Handled, TypedFor, ClientTyped, BufferInv, AskInv
<1>4. /\ tick'.msg = m /\ tick'.out = tick.out /\ DOMAIN tick' = DOMAIN tick
      /\ tick'.at = IF context = None /\ held.msgs # <<>> THEN "stuck" ELSE IF passes THEN "deliver" ELSE "messages"
  BY <1>1, <1>3
<1>5. TypedFor(n)'
  <2>1. UNCHANGED <<up, down, queue, sCommands, sTick, pushes, commands>>
    BY <1>1 DEF wireVars, serverVars, serverApp, queueVars, driverVars
  <2> QED
    BY <1>1, <1>3, <1>4, <2>1 DEF Handled, TypedFor, ClientTyped, WireTyped, ServerTyped
<1>6. /\ InCommands' = InCommands /\ InOut' = InOut /\ InUp' = InUp /\ InHand' = InHand /\ InQueue' = InQueue
      /\ InAnswers' = InAnswers /\ InSending' = InSending /\ InDown' = InDown
  BY <1>1, <1>4, PlacesStay DEF InOut, wireVars, serverVars, queueVars, driverVars
<1>7. replies \subseteq Conns /\ buffer.active \subseteq Conns /\ None \notin Conns
  BY OwnConnection DEF Handled, AskInv
<1>8. ~installed => Holding /\ client = app.conn /\ context = app.conn /\ buffer.conn = app.conn
  <2>1. ~installed => Holding /\ client = app.conn
    BY <1>2 DEF Handled, BufferInv
  <2> QED
    BY <2>1 DEF Handled, BufferInv, Holding
<1>9. CASE m \in PushMessages
  <2>1. m.reply = None /\ m.key = "push" /\ ~asked
    BY <1>7, <1>9 DEF PushMessages
  <2>2. InMessage = {} /\ InMessage' = {}
    BY <1>4, <2>1 DEF InMessage
  <2>3. UnderWay' = UnderWay
    BY <1>6, <2>2 DEF UnderWay
  <2>4. /\ buffer'.active = buffer.active /\ buffer'.conn = buffer.conn /\ DOMAIN buffer' = DOMAIN buffer
        /\ buffer'.msgs \in Seq(PushMessages)
    BY <1>1, <1>3, <1>9, <2>1, Appends
  <2>5. AskInv'
    BY <1>1, <2>2, <2>3, <2>4 DEF Handled, AskInv, Waiting, Asking, Fresh, Unasked, dispatchVars, driverVars, apiVars
  <2>6. ~installed => tick'.at # "deliver"
    BY <1>2, <1>4, <1>8, <2>1
  <2>7. BufferInv'
    BY <1>1, <1>8, <2>4, <2>6 DEF Handled, BufferInv, Asking, Waiting, Holding, dispatchVars, driverVars
  <2> QED
    BY <1>1, <1>3, <1>5, <2>5, <2>7 DEF Handled, NothingUnhandled, dispatchVars
<1>10. CASE m = AnswerOf(n)
  <2>1. m.reply = n /\ m.key = "reply"
    BY <1>10 DEF AnswerOf, Ask, Reply, Numbered, Message
  <2>2. InMessage = {1}
    BY <1>1, <2>1 DEF InMessage
  <2>3. UnderWay = 1 /\ Few(InMessage) = 1
    BY <1>3, <2>2, InOnePlace DEF Few
  <2>4. Waiting /\ app.conn \in replies /\ app.conn \notin answered /\ app.conn \in buffer.active
    BY <1>1, <2>3 DEF Handled, AskInv
  <2>5. context # None
    BY <2>4 DEF Handled, AskInv, BufferInv, Asking
  <2>6. passes /\ asked
    BY <1>3, <2>1, <2>4
  <2>7. tick'.at = "deliver"
    BY <1>4, <2>5, <2>6
  <2>8. InMessage' = {1}
    BY <1>4, <2>1, <2>7 DEF InMessage
  <2>9. UnderWay' = UnderWay
    BY <1>6, <2>2, <2>8 DEF UnderWay
  <2>10. /\ buffer'.active = buffer.active \ {n} /\ buffer'.conn = buffer.conn /\ DOMAIN buffer' = DOMAIN buffer
         /\ buffer'.msgs = buffer.msgs
    BY <1>1, <1>3, <2>1, <2>6
  <2>11. app.at \notin {"register", "send"}
    BY <2>4 DEF Waiting
  <2>12. AskInv'
    BY <1>1, <2>3, <2>4, <2>7, <2>8, <2>9, <2>10, <2>11
       DEF Handled, AskInv, Waiting, Asking, Fresh, Unasked, dispatchVars, driverVars, apiVars
  <2>13. BufferInv'
    BY <1>1, <2>8, <2>10 DEF Handled, BufferInv, Asking, Waiting, Holding, dispatchVars, driverVars
  <2> QED
    BY <1>1, <1>3, <1>5, <2>12, <2>13 DEF Handled, NothingUnhandled, dispatchVars
<1> QED
  BY <1>3, <1>9, <1>10

LEMMA DeliverHandled ==
  ASSUME ClientInv, NEW n, Handled(n), UNCHANGED serverVars, DeliverMessage
  PROVE  Handled(n)'
<1> DEFINE m == tick.msg
<1>1. /\ tick.at = "deliver" /\ Deliver(m) /\ tick' = [tick EXCEPT !.at = "messages", !.msg = None]
      /\ UNCHANGED <<wireVars, app, bufferVars, driverVars, apiVars>>
  BY DEF DeliverMessage
<1>2. /\ DOMAIN tick = {"at", "left", "out", "msg"} /\ m \in PushMessages \cup {AnswerOf(n)}
      /\ n = app.conn /\ UnderWay \in {0, 1}
  BY <1>1 DEF Handled, TypedFor, ClientTyped, AskInv
<1>3. tick'.at = "messages" /\ tick'.out = tick.out /\ DOMAIN tick' = DOMAIN tick
  BY <1>1, <1>2
<1>4. TypedFor(n)'
  <2>1. UNCHANGED <<up, down, queue, sCommands, sTick, pushes, commands>>
    BY <1>1 DEF wireVars, serverVars, serverApp, queueVars, driverVars
  <2> QED
    BY <1>1, <1>3, <2>1 DEF Handled, TypedFor, ClientTyped, WireTyped, ServerTyped
<1>5. /\ InCommands' = InCommands /\ InOut' = InOut /\ InUp' = InUp /\ InHand' = InHand /\ InQueue' = InQueue
      /\ InAnswers' = InAnswers /\ InSending' = InSending /\ InDown' = InDown
      /\ InMessage' = {}
  BY <1>1, <1>3, PlacesStay DEF InOut, InMessage, wireVars, serverVars, queueVars, driverVars
<1>6. None \notin replies /\ 1 .. attempts \subseteq Conns
  BY OwnConnection DEF Handled, AskInv
<1>7. CASE m \in PushMessages
  <2>1. m.reply = None /\ m.key = "push"
    BY <1>7 DEF PushMessages
  <2>2. InMessage = {}
    BY <2>1 DEF InMessage
  <2>3. installed
    BY <1>1, <2>2 DEF Handled, BufferInv
  <2>4. UNCHANGED <<replies, answered, installed, unhandled>>
    BY <1>1, <1>6, <2>1, <2>3 DEF Deliver
  <2>5. UnderWay' = UnderWay
    BY <1>5, <2>2 DEF UnderWay
  <2>6. AskInv'
    BY <1>1, <1>5, <2>2, <2>4, <2>5 DEF Handled, AskInv, Waiting, Asking, Fresh, Unasked, bufferVars, driverVars, apiVars
  <2>7. BufferInv'
    BY <1>1, <1>3, <2>4 DEF Handled, BufferInv, Asking, Waiting, Holding, bufferVars, driverVars
  <2> QED
    BY <1>1, <1>2, <1>4, <2>4, <2>6, <2>7 DEF Handled, NothingUnhandled
<1>8. CASE m = AnswerOf(n)
  <2>1. m.reply = n /\ m.key = "reply"
    BY <1>8 DEF AnswerOf, Ask, Reply, Numbered, Message
  <2>2. InMessage = {1}
    BY <1>1, <2>1 DEF InMessage
  <2>3. UnderWay = 1
    BY <1>2, <2>2, InOnePlace
  <2>4. Waiting /\ app.conn \in replies /\ app.conn \notin answered /\ app.conn \in 1 .. attempts
    BY <2>3 DEF Handled, AskInv, Asking
  <2>5. replies' = replies \ {n} /\ answered' = answered \cup {n} /\ UNCHANGED <<installed, unhandled>>
    BY <1>1, <1>2, <2>1, <2>4 DEF Deliver
  <2>6. UnderWay' = 0
    <3>1. Few(InMessage) = 1 /\ Few(InMessage') = 0
      BY <1>5, <2>2 DEF Few
    <3>2. /\ Few(InCommands) \in Nat /\ Few(InOut) \in Nat /\ Few(InUp) \in Nat /\ Few(InHand) \in Nat
          /\ Few(InQueue) \in Nat /\ Few(InAnswers) \in Nat /\ Few(InSending) \in Nat /\ Few(InDown) \in Nat
      BY DEF Few
    <3> QED
      BY <1>5, <2>3, <3>1, <3>2 DEF UnderWay
  <2>7. ~Fresh /\ app.at # "send"
    BY <2>4 DEF Waiting, Fresh, Unasked
  <2>8. AskInv'
    BY <1>1, <2>4, <2>5, <2>6, <2>7, <1>2
       DEF Handled, AskInv, Waiting, Asking, Fresh, Unasked, bufferVars, driverVars, apiVars
  <2>9. BufferInv'
    BY <1>1, <1>3, <2>5 DEF Handled, BufferInv, Asking, Waiting, Holding, bufferVars, driverVars
  <2> QED
    BY <1>1, <1>2, <1>4, <2>5, <2>8, <2>9 DEF Handled, NothingUnhandled
<1> QED
  BY <1>2, <1>7, <1>8

LEMMA HandledInitially == Init => HandledInv
<1> SUFFICES ASSUME Init
             PROVE  HandledInv
  OBVIOUS
<1>1. /\ style \in Styles /\ link = [c \in Conns |-> "none"]
      /\ up = [c \in Conns |-> <<>>] /\ down = [c \in Conns |-> <<>>] /\ commands = [c \in Conns |-> <<>>]
      /\ app = [at |-> "idle", conn |-> None] /\ attempts = 0
      /\ infos = {} /\ ended = {} /\ create = None /\ client = None
      /\ tick = Resting /\ sTick = SResting /\ sCommands = <<>> /\ queue = <<>> /\ pushes = 0
      /\ buffer = [conn |-> None, msgs |-> <<>>, active |-> {}]
      /\ replies = {} /\ answered = {} /\ unhandled = {} /\ made = FALSE
  BY DEF Init, WireInit, ClientInit, ServerInit
<1>2. ~Unasked /\ app = [at |-> app.at, conn |-> app.conn] /\ tick.at = "rest"
  BY <1>1 DEF Unasked, Resting
<1>3. ClientInv
  BY <1>1, <1>2, NetworkingAssumption DEF ClientInv
<1>4. TypedFor(None)
  <2>1. <<>> \in Seq(Orders(None)) /\ <<>> \in Seq({Ask(None)}) /\ <<>> \in Seq(Coming(None))
    OBVIOUS
  <2>2. /\ <<>> \in Seq(ServerOrders(None)) /\ <<>> \in Seq([from : Conns, msg : {Ask(None)}])
        /\ <<>> \in Seq(Outgoing(None))
    OBVIOUS
  <2>3. ClientTyped(None)
    BY <1>1, <2>1 DEF ClientTyped, Resting
  <2>4. WireTyped(None)
    BY <1>1, <2>1 DEF WireTyped, Coming
  <2>5. ServerTyped(None)
    BY <1>1, <2>2 DEF ServerTyped, SResting
  <2> QED
    BY <2>3, <2>4, <2>5 DEF TypedFor
<1>5. UnderWay = 0
  <2>1. DOMAIN <<>> = {}
    OBVIOUS
  <2>2. /\ InCommands = {} /\ InOut = {} /\ InUp = {} /\ InHand = {} /\ InQueue = {}
        /\ InAnswers = {} /\ InSending = {} /\ InDown = {} /\ InMessage = {}
    BY <1>1, <2>1 DEF InCommands, InOut, InUp, InHand, InQueue, InAnswers, InSending, InDown, InMessage, Resting, SResting
  <2>3. Few({}) = 0
    BY DEF Few
  <2> QED
    BY <2>2, <2>3 DEF UnderWay
<1>6. AskInv
  BY <1>1, <1>2, <1>5 DEF AskInv, Waiting, Asking, Fresh, Unasked
<1>7. BufferInv
  <2>1. <<>> \in Seq(PushMessages)
    OBVIOUS
  <2> QED
    BY <1>1, <1>2, <2>1 DEF BufferInv, Asking, Waiting, Holding, Resting
<1>8. Handled(None)
  BY <1>1, <1>4, <1>6, <1>7 DEF Handled, NothingUnhandled
<1> QED
  BY <1>3, <1>8 DEF HandledInv

LEMMA ClientStepHandled ==
  ASSUME ClientInv, NEW n, Handled(n), UNCHANGED serverVars, ClientStep
  PROVE  \E m : Handled(m)'
<1>1. CASE Connect
  BY <1>1, ConnectHandled
<1>2. CASE Close
  BY <1>2, CloseHandled
<1>3. CASE Intercept \/ Closed \/ Create \/ Created
  BY <1>3, OpeningHandled
<1>4. CASE SendRequest
  BY <1>4, SendHandled
<1>5. CASE RegisterReply \/ InsertReply \/ Wait \/ Poll \/ Park \/ InsertHandler \/ DropContext
  BY <1>5, AskingHandled
<1>6. CASE Drain
  BY <1>6, DrainHandled
<1>7. CASE CreateClient
  BY <1>7, CreateClientHandled
<1>8. CASE TakeCommands
  BY <1>8, TakeCommandsHandled
<1>9. CASE TakeMessage
  BY <1>9, TakeMessageHandled
<1>10. CASE Accept
  BY <1>10, AcceptHandled
<1>11. CASE DeliverMessage
  BY <1>11, DeliverHandled
<1>12. CASE PollEvents
  BY <1>12, PollEventsHandled
<1> QED
  BY <1>1, <1>2, <1>3, <1>4, <1>5, <1>6, <1>7, <1>8, <1>9, <1>10, <1>11, <1>12
     DEF ClientStep, InContext, ClientTick

\* No message is ever without a handler: pushes that come before the
\* application has inserted the handler wait in the buffer, which lets the
\* reply through that the application waits for, and a reply comes at most
\* once, while it is registered (mod.rs:503-597; message/mod.rs:430-445).
THEOREM MessagesFindHandlers == Spec => []NothingUnhandled
<1>1. Init => HandledInv /\ ServerInv
  <2>1. Init => ServerInv
    BY DEF Init, WireInit, ServerInit, ServerInv
  <2> QED
    BY <2>1, HandledInitially
<1>2. HandledInv /\ ServerInv /\ [Next]_vars => HandledInv' /\ ServerInv'
  <2> SUFFICES ASSUME HandledInv, ServerInv, [Next]_vars
               PROVE  HandledInv' /\ ServerInv'
    OBVIOUS
  <2>1. ClientInv /\ ClientInv' /\ ServerInv'
    BY StackStep DEF HandledInv, ClientKeeps, ServerKeeps
  <2>2. PICK n : Handled(n)
    BY DEF HandledInv
  <2>3. CASE ClientMoves
    <3>1. \E m : Handled(m)'
      BY <2>1, <2>2, <2>3, ClientStepHandled DEF ClientMoves
    <3> QED
      BY <2>1, <3>1 DEF HandledInv
  <2>4. CASE ServerMoves
    <3>1. Handled(n)'
      BY <2>1, <2>2, <2>4, ServerMovesHandled
    <3> QED
      BY <2>1, <3>1 DEF HandledInv
  <2>5. CASE Breaks \/ Rest \/ UNCHANGED vars
    <3>1. Handled(n)'
      BY <2>1, <2>2, <2>5, BreaksHandled
    <3> QED
      BY <2>1, <3>1 DEF HandledInv
  <2> QED
    BY <2>3, <2>4, <2>5 DEF Next
<1>3. HandledInv => NothingUnhandled
  BY DEF HandledInv, Handled
<1> QED
  BY <1>1, <1>2, <1>3, PTL DEF Spec
=============================================================================
