----------------------------- MODULE Networking -----------------------------
(***************************************************************************)
(* A client and a server, each a process with a networking stack over the  *)
(* GNS driver, and the connections between them, which may break.          *)
(***************************************************************************)
EXTENDS ClientStack, ServerStack

CONSTANT Styles   \* what the applications do: how often the client connects,
                  \* whether connections break or are closed by the
                  \* server ("faults"), connects may be cancelled, handlers send replies themselves ("inline"),
                  \* replies are awaited by a task ("polls"), how often other clients ask ("others")

ASSUME NetworkingAssumption ==
  /\ \A s \in Styles : s.connects \in Nat /\ 1..s.connects \subseteq Conns
  /\ None \notin Conns

vars == <<wireVars, clientVars, serverVars>>

Init ==
  /\ style \in Styles
  /\ WireInit /\ ClientInit /\ ServerInit

ClientMoves == ClientStep /\ UNCHANGED serverVars
ServerMoves == ServerStep /\ UNCHANGED <<app, dispatchVars, bufferVars, driverVars, apiVars, tick>>

Breaks == (\E c \in Conns : Lose(c)) /\ UNCHANGED <<clientVars, serverVars>>

\* Both may have nothing left to do.
Rest == app.at = "idle" /\ sApp = "closed" /\ UNCHANGED vars

Next == ClientMoves \/ ServerMoves \/ Breaks \/ Rest

\* Threads are scheduled; an application goes on with what it has begun.
Spec ==
  /\ Init /\ [][Next]_vars
  /\ WF_vars(InContext /\ UNCHANGED serverVars) /\ WF_vars(ClientTick /\ UNCHANGED serverVars)
  /\ WF_vars(ServerGoesOn /\ UNCHANGED <<app, dispatchVars, bufferVars, driverVars, apiVars, tick>>)
  /\ WF_vars(Work /\ UNCHANGED <<app, dispatchVars, bufferVars, driverVars, apiVars, tick>>)
  /\ WF_vars(ServerTick /\ UNCHANGED <<app, dispatchVars, bufferVars, driverVars, apiVars, tick>>)

-----------------------------------------------------------------------------
(* Properties *)

ClientLife == INSTANCE ConnectionLife WITH open <- infos, ended <- ended
ServerLife == INSTANCE ConnectionLife WITH open <- sInfos, ended <- sEnded

\* However the application, the other side and the network end a connection,
\* and in whatever order, each stack announces it once and ends it once
\* (mod.rs:365-403).
ConnectionsEndOnce == ClientLife!Spec /\ ServerLife!Spec

\* What the context promises (mod.rs:583-597): messages that come before the
\* application has inserted its handlers wait for them, but the reply it waits
\* for itself comes through.
NothingUnhandled == unhandled = {}

\* A request whose connection stays is answered, whichever way the sending,
\* the registration and the ticks of both sides interleave, when the reply is
\* awaited by wait() and its handler may send (message/mod.rs:430-445).  The
\* exception is the request that finds the MessageQueue full of other requests:
\* the tick logs the refusal (gns.rs:359-366), the connection stays, and who
\* asked waits for ever.
RepliesArrive ==
  \A c \in Conns :
    app.at = "wait" /\ app.conn = c
    ~> app.at # "wait" \/ ~Alive(c) \/ (link[c] = "open" /\ c \notin clients)
         \/ (style.inline /\ HandleLocked) \/ c \in refused

\* close() returns, if no handler sends (gns.rs:648-661, 730-743) and the
\* subsystem's thread does not drop a ConnectBuffer (mod.rs:563-577), and also
\* when another thread has just asked to close a connection and holds the handle.
CloseReturns ==
  /\ (app.at = "closing" ~> app.at # "closing" \/ tick.at = "stuck")
  /\ (HandleLocked /\ ~style.inline ~> sApp = "closed")
=============================================================================
