----------------------------- MODULE ClientStack -----------------------------
(***************************************************************************)
(* A client's networking stack over the GNS driver (net/mod.rs, net/gns.rs,*)
(* net/message).  One thread of the application connects, asks the server  *)
(* for something in the context of the connection, waits for the reply,    *)
(* inserts the handler for what the server pushes and drops the context.   *)
(* The subsystem's thread ticks the client: it takes the application's     *)
(* commands, dispatches messages, sees to events and sends.                *)
(***************************************************************************)
EXTENDS Wire, FiniteSets

CONSTANT BufferSize   \* CONNECT_BUFFER_SIZE

VARIABLES
  app,         \* the application's thread: where it is, and its connection
  attempts,    \* NetworkingApi::next_connect_id
  context,     \* the connection whose ClientConnectContext lives, or None
  buffer,      \* the ConnectBuffer: connection, messages, active_replies
  shared,      \* the subsystem's thread has upgraded its reference to it
  replies,     \* MessageDispatch::reply_handlers, by message number
  answered,    \* the numbers whose MessageReplyContext has a value
  waker,       \* the waker in it: "none", "stored", "woken"
  installed,   \* MessageDispatch::handlers has the one for pushes
  unhandled,   \* messages for which no handler was found
  handle,      \* GnsClientDriver::handle
  create,      \* the connection a GnsClient is asked for, or None
  made,        \* the last such request succeeded
  commands,    \* connection -> the commands on the way to its GnsClient
  client,      \* the connection of the GnsClient that is alive, or None
  closed,      \* a Close command has been replied to
  tick,        \* the subsystem's thread
  infos, ended \* connection_infos, and those a disconnect event was fired for

dispatchVars == <<replies, answered, waker, installed, unhandled>>
bufferVars == <<context, buffer, shared>>
driverVars == <<handle, create, made, commands, client, closed>>
apiVars == <<attempts, infos, ended>>
clientVars == <<style, app, dispatchVars, bufferVars, driverVars, apiVars, tick>>

Resting == [at |-> "rest", left |-> 0, out |-> <<>>, msg |-> None]

ClientInit ==
  /\ app = [at |-> "idle", conn |-> None]
  /\ attempts = 0 /\ infos = {} /\ ended = {}
  /\ context = None /\ shared = FALSE
  /\ buffer = [conn |-> None, msgs |-> <<>>, active |-> {}]
  /\ replies = {} /\ answered = {} /\ waker = "none" /\ installed = FALSE /\ unhandled = {}
  /\ handle = None /\ create = None /\ made = FALSE /\ client = None /\ closed = FALSE
  /\ commands = [c \in Conns |-> <<>>]
  /\ tick = Resting

Go(at) == app' = [app EXCEPT !.at = at]
Command(c, cmd) == commands' = [commands EXCEPT ![c] = Append(@, cmd)]

-----------------------------------------------------------------------------
(* MessageDispatch *)

\* dispatch_parsed behind the intercept handlers: a registered reply is taken,
\* wakes who waits for it; another message goes to the handler of its key.
Deliver(m) ==
  IF m.reply \in replies
  THEN /\ replies' = replies \ {m.reply}
       /\ answered' = answered \cup {m.reply}
       /\ waker' = IF waker = "stored" THEN "woken" ELSE waker
       /\ UNCHANGED <<installed, unhandled>>
  ELSE /\ unhandled' = IF m.key = "push" /\ installed THEN unhandled ELSE unhandled \cup {m}
       /\ UNCHANGED <<replies, answered, waker, installed>>

\* The subsystem's thread holds MessageDispatch::intercept_handlers.
InterceptLocked == tick.at \in {"accept", "stuck"}

-----------------------------------------------------------------------------
(* The application's thread *)

\* Networking::connect fires the event, which a handler may cancel.
Connect ==
  /\ app.at = "idle" /\ attempts < style.connects
  /\ LET c == attempts + 1
     IN /\ attempts' = c
        /\ \/ /\ infos' = infos \cup {c}
              /\ app' = [at |-> "intercept", conn |-> c]
           \/ style.cancels /\ UNCHANGED <<infos, app>>
  /\ UNCHANGED <<wireVars, style, dispatchVars, bufferVars, driverVars, ended, tick>>

\* Mutant: the buffer comes after the connection.
InterceptLate ==
  /\ app.at = "intercept"
  /\ Go("close")
  /\ UNCHANGED <<wireVars, style, dispatchVars, bufferVars, driverVars, apiVars, tick>>

\* The buffer is in place before the driver connects; inserting it takes the
\* lock of the intercept handlers.
Intercept ==
  /\ app.at = "intercept" /\ ~InterceptLocked
  /\ context' = app.conn
  /\ buffer' = [conn |-> app.conn, msgs |-> <<>>, active |-> {}]
  /\ Go("close")
  /\ UNCHANGED <<wireVars, style, dispatchVars, shared, driverVars, apiVars, tick>>

\* GnsClientDriver::close, on its own or for connect: takes the handle and asks
\* the client to close, under the handle's lock until there is a reply.
Close ==
  /\ \/ app.at = "close"
     \/ app.at = "idle" /\ handle # None
  /\ IF handle = None
     THEN Go("create") /\ UNCHANGED <<commands, closed>>
     ELSE /\ app' = [at |-> "closing", conn |-> IF app.at = "idle" THEN None ELSE app.conn]
          /\ closed' = FALSE
          /\ IF client = handle THEN Command(handle, [kind |-> "close"]) ELSE UNCHANGED commands
  /\ UNCHANGED <<wireVars, style, dispatchVars, bufferVars, handle, create, made, client, apiVars, tick>>

Closed ==
  /\ app.at = "closing" /\ (closed \/ client # handle)
  /\ handle' = None
  /\ Go(IF app.conn = None THEN "idle" ELSE "create")
  /\ UNCHANGED <<wireVars, style, dispatchVars, bufferVars, create, made, commands, client, closed, apiVars, tick>>

\* GnsSubsystem::connect_client
Create ==
  /\ app.at = "create"
  /\ create' = app.conn
  /\ Go("creating")
  /\ UNCHANGED <<wireVars, style, dispatchVars, bufferVars, handle, made, commands, client, closed, apiVars, tick>>

\* A client that could not be made: connect() fails, the context goes, and the
\* ConnectionInfo stays.
Created ==
  /\ app.at = "creating" /\ create = None
  /\ handle' = IF made THEN app.conn ELSE handle
  /\ Go(IF made THEN "request" ELSE "drop")
  /\ UNCHANGED <<wireVars, style, dispatchVars, bufferVars, create, made, commands, client, closed, apiVars, tick>>

\* The request of the application: one for each connection, so that the number
\* of the connection will do as MessageDispatch::gen_msg_num.
Request == Numbered(Message("request"), app.conn)

\* Mutant: the buffer is not told of the reply.
RegisterNothing ==
  /\ app.at = "request"
  /\ Go("register")
  /\ UNCHANGED <<wireVars, style, dispatchVars, bufferVars, driverVars, apiVars, tick>>

\* send_recv: the reply is announced to the buffer, whose lock a dispatch may
\* have, then to the dispatch, and only then is the message sent.
RegisterReply ==
  /\ app.at = "request" /\ ~InterceptLocked
  /\ buffer' = [buffer EXCEPT !.active = @ \cup {Request.num}]
  /\ Go("register")
  /\ UNCHANGED <<wireVars, style, dispatchVars, context, shared, driverVars, apiVars, tick>>

InsertReply ==
  /\ app.at = "register"
  /\ replies' = replies \cup {Request.num}
  /\ Go("send")
  /\ UNCHANGED <<wireVars, style, answered, waker, installed, unhandled, bufferVars, driverVars, apiVars, tick>>

\* GnsClientDriver::send; it fails if the client is gone.
SendRequest ==
  /\ app.at = "send"
  /\ IF client = handle
     THEN /\ Command(handle, [kind |-> "send", msg |-> Request])
          /\ Go(IF style.polls THEN "poll" ELSE "wait")
     ELSE Go("install") /\ UNCHANGED commands
  /\ UNCHANGED <<wireVars, style, dispatchVars, bufferVars, handle, create, made, client, closed, apiVars, tick>>

\* MessageReplyFuture::wait looks and waits under one lock.
Wait ==
  /\ app.at = "wait" /\ Request.num \in answered
  /\ Go("install")
  /\ UNCHANGED <<wireVars, style, dispatchVars, bufferVars, driverVars, apiVars, tick>>

\* poll looks for the value under its lock, and stores the waker after it.
Poll ==
  /\ app.at = "poll" \/ (app.at = "parked" /\ waker = "woken")
  /\ Go(IF Request.num \in answered THEN "install" ELSE "park")
  /\ waker' = IF app.at = "parked" THEN "none" ELSE waker
  /\ UNCHANGED <<wireVars, style, replies, answered, installed, unhandled, bufferVars, driverVars, apiVars, tick>>

Park ==
  /\ app.at = "park"
  /\ waker' = "stored"
  /\ Go("parked")
  /\ UNCHANGED <<wireVars, style, replies, answered, installed, unhandled, bufferVars, driverVars, apiVars, tick>>

\* insert_msg_handler
InsertHandler ==
  /\ app.at = "install"
  /\ installed' = TRUE
  /\ Go("drop")
  /\ UNCHANGED <<wireVars, style, replies, answered, waker, unhandled, bufferVars, driverVars, apiVars, tick>>

\* The context goes.  The buffer goes with it, unless the subsystem's thread
\* holds it just now.
DropContext ==
  /\ app.at = "drop"
  /\ context' = None
  /\ Go(IF shared THEN "idle" ELSE "drain")
  /\ UNCHANGED <<wireVars, style, dispatchVars, buffer, shared, driverVars, apiVars, tick>>

\* ConnectBuffer::drop dispatches what it holds, message by message, while the
\* subsystem's thread may dispatch newer ones.
Drain ==
  /\ app.at = "drain"
  /\ IF buffer.msgs = <<>>
     THEN app' = [at |-> "idle", conn |-> None] /\ UNCHANGED <<buffer, dispatchVars>>
     ELSE /\ Deliver(Head(buffer.msgs))
          /\ buffer' = [buffer EXCEPT !.msgs = Tail(@)]
          /\ UNCHANGED app
  /\ UNCHANGED <<wireVars, style, context, shared, driverVars, apiVars, tick>>

InContext ==
  \/ Intercept \/ (app.at = "close" /\ Close) \/ Closed \/ Create \/ Created
  \/ RegisterReply \/ InsertReply \/ SendRequest \/ Wait \/ Poll \/ Park
  \/ InsertHandler \/ DropContext \/ Drain

-----------------------------------------------------------------------------
(* The subsystem's thread *)

\* GnsSubsystem::tick creates clients; an address may be invalid.
CreateClient ==
  /\ tick.at = "rest" /\ create # None
  /\ create' = None
  /\ \/ /\ made' = TRUE /\ client' = create
        /\ WireConnect(create)
     \/ made' = FALSE /\ UNCHANGED <<client, wireVars>>
  /\ UNCHANGED <<style, app, dispatchVars, bufferVars, handle, commands, closed, apiVars, tick>>

\* Mutant: the stack is told, but keeps the ConnectionInfo.
CloseClientHalf ==
  /\ client' = None
  /\ WireClientGone(client)
  /\ ended' = IF client \in infos THEN ended \cup {client} ELSE ended
  /\ tick' = Resting
  /\ UNCHANGED <<attempts, infos>>

\* GnsClient::close drops the socket before the stack is told.
CloseClient ==
  /\ client' = None
  /\ WireClientGone(client)
  /\ infos' = infos \ {client}
  /\ ended' = IF client \in infos THEN ended \cup {client} ELSE ended
  /\ tick' = Resting
  /\ UNCHANGED attempts

Asked(kind) == \E i \in DOMAIN commands[client] : commands[client][i].kind = kind

\* A tick takes all commands.  Close is obeyed at once: what was to be sent in
\* the same tick is forgotten.
TakeCommands ==
  /\ tick.at = "rest" /\ create = None /\ client # None
  /\ IF Asked("close")
     THEN CloseClient /\ closed' = TRUE
     ELSE /\ tick' = [Resting EXCEPT !.at = "messages", !.left = PollLimit, !.out = [i \in DOMAIN commands[client] |-> commands[client][i].msg]]
          /\ UNCHANGED <<wireVars, apiVars, client, closed>>
  /\ commands' = [commands EXCEPT ![client] = <<>>]
  /\ UNCHANGED <<style, app, dispatchVars, bufferVars, handle, create, made>>

\* poll_messages; dispatch_parsed upgrades the reference to a buffer that
\* lives, under the lock of the intercept handlers.
TakeMessage ==
  /\ tick.at = "messages" /\ tick.left > 0 /\ down[client] # <<>>
  /\ tick' = [tick EXCEPT !.msg = Head(down[client]), !.left = @ - 1,
                          !.at = IF context # None THEN "accept" ELSE "deliver"]
  /\ shared' = (context # None)
  /\ down' = [down EXCEPT ![client] = Tail(@)]
  /\ UNCHANGED <<style, app, dispatchVars, context, buffer, driverVars, apiVars,
                 listening, link, up, cEvents, sEvents>>

\* ConnectBuffer::accept keeps what is for its connection, but for the replies
\* asked for.  If the context went in the meantime, the buffer is dropped here,
\* and dispatches what it holds under the lock that dispatching takes.
Accept ==
  /\ tick.at = "accept"
  /\ LET m == tick.msg
         asked == m.reply \in buffer.active
         passes == buffer.conn # client \/ asked
         room == Len(buffer.msgs) < BufferSize
         held == [buffer EXCEPT !.active = IF passes /\ asked THEN @ \ {m.reply} ELSE @,
                                !.msgs = IF ~passes /\ room THEN Append(@, m) ELSE @]
     IN /\ buffer' = held
        /\ shared' = FALSE
        /\ tick' = [tick EXCEPT !.at = IF context = None /\ held.msgs # <<>> THEN "stuck"
                                       ELSE IF passes THEN "deliver" ELSE "messages"]
  /\ UNCHANGED <<wireVars, style, app, dispatchVars, context, driverVars, apiVars>>

DeliverMessage ==
  /\ tick.at = "deliver"
  /\ Deliver(tick.msg)
  /\ tick' = [tick EXCEPT !.at = "messages", !.msg = None]
  /\ UNCHANGED <<wireVars, style, app, bufferVars, driverVars, apiVars>>

\* poll_event; then the messages go out.
PollEvents ==
  /\ tick.at = "messages" /\ (tick.left = 0 \/ down[client] = <<>>)
  /\ IF cEvents[client] # <<>>
     THEN CloseClient
     ELSE /\ \E msgs \in Deliverable(tick.out) : up' = [up EXCEPT ![client] = Sent(client, up, msgs)]
          /\ tick' = Resting
          /\ UNCHANGED <<apiVars, client, listening, link, down, cEvents, sEvents>>
  /\ UNCHANGED <<style, app, dispatchVars, bufferVars, handle, create, made, commands, closed>>

ClientTick == CreateClient \/ TakeCommands \/ TakeMessage \/ Accept \/ DeliverMessage \/ PollEvents

ClientStep == Connect \/ (app.at = "idle" /\ Close) \/ InContext \/ ClientTick
=============================================================================
