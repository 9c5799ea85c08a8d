------------------------------ MODULE ReversiGame -----------------------------
(***************************************************************************)
(* A game of the Reversi example over its network: the controller of the   *)
(* board (board/controller.rs), the players and spectators that come and   *)
(* go (server.rs), the threads of the bots (bot/mod.rs), and what each     *)
(* client sees and clicks (client.rs, board/view.rs).                      *)
(*                                                                         *)
(* Handlers of messages and of disconnections run on one thread of the     *)
(* server, Net; every bot has its own.  Each of these threads holds the    *)
(* lock of the board for one step at a time, and between two such steps    *)
(* the others move.  A bot's player is shared: whoever drops it last stops *)
(* its thread and waits for it.                                            *)
(***************************************************************************)
EXTENDS ReversiBoard

CONSTANTS
  Net,        \* the thread of the server that handles messages
  Bots,       \* the threads of bots, numbers
  Clients,    \* each connects once
  Requested,  \* the name a client asks for, a sequence
  MaxClicks,  \* bound: how often each client clicks
  Leavers     \* bound: the clients that leave

Threads == {Net} \cup Bots

ASSUME GameAssumption ==
  /\ Bots \subseteq Nat /\ {1, 2} \subseteq Bots
  /\ Net \notin Bots /\ Nothing \notin Bots \cup Clients /\ Bots \cap Clients = {}
  /\ MaxDepth \in Nat /\ MaxClicks \in [Clients -> Nat] /\ Leavers \subseteq Clients

VARIABLES
  board,      \* BoardControllerState::board
  seats,      \* BoardControllerState::players: a bot or a client, which is the valid connection
  remote,     \* PlayerManagerState::players, the seat of a connection
  spectators, \* PlayerManagerState::spectators
  threads,    \* what each thread of the server does
  pending,    \* the requests that wait for a bot
  up, down,   \* what is on its way to the server and to a client
  client,     \* what a client does, and what it sees
  clicks

serverVars == <<board, seats, remote, spectators, threads, pending>>
gameVars == <<serverVars, up, down, client, clicks>>

IsBot(player) == player \in Bots

\* A thread that does nothing.
Resting == [pc |-> "Idle", move |-> Nothing, other |-> Nothing, holds |-> {}]

\* BoardController::new: nobody is told to begin.
GameInit ==
  /\ board = SetPlayers(NewBoard, << <<"Bot1">>, <<"Bot2">> >>)
  /\ seats = [i \in {0, 1} |-> i + 1]
  /\ remote = [c \in {} |-> Nothing] /\ spectators = [c \in {} |-> <<>>]
  /\ threads = [t \in Threads |-> [Resting EXCEPT !.pc = IF t \in {Net, 1, 2} THEN "Idle" ELSE "Unborn"]]
  /\ pending = [b \in Bots |-> <<>>]
  /\ up = [c \in Clients |-> <<>>] /\ down = [c \in Clients |-> <<>>]
  /\ client = [c \in Clients |-> [pc |-> "New", view |-> Nothing, selected |-> Nothing, seat |-> Nothing, kept |-> <<>>]]
  /\ clicks = [c \in Clients |-> 0]

-----------------------------------------------------------------------------
(* The controller of the board. *)

Connected == {c \in Clients : client[c].pc \notin {"New", "Gone"}}

Broadcast(b) ==
  down' = [c \in Clients |-> IF c \in Connected THEN Append(down[c], [kind |-> "Update", board |-> b]) ELSE down[c]]

Become(t, pc, other, holds) ==
  threads' = [threads EXCEPT ![t] = [Resting EXCEPT !.pc = pc, !.other = other, !.holds = holds]]

\* Telling a player to begin: of a bot it is asked, and then let go of.
Begin(t, player) == IF IsBot(player) THEN Become(t, "Ask", player, {player}) ELSE Become(t, "Idle", Nothing, {})

\* Mutant: clients are told of the board before the turn ends.
PlayTellsEarly(t) ==
  LET next == Moved(board, threads[t].move) IN
  /\ threads[t].pc = "Play"
  /\ IF ValidSelection(board, threads[t].move)
     THEN /\ board' = next /\ Broadcast(Place(board, threads[t].move))
          /\ IF next.game = "InProgress" THEN Begin(t, seats[next.current]) ELSE Become(t, "Idle", Nothing, {})
     ELSE Become(t, "Idle", Nothing, {}) /\ UNCHANGED <<board, down>>
  /\ UNCHANGED <<seats, remote, spectators, pending, up, client, clicks>>

\* play() on thread t, from the lock of the board to the next player.
Play(t) ==
  LET next == Moved(board, threads[t].move) IN
  /\ threads[t].pc = "Play"
  /\ IF ValidSelection(board, threads[t].move)
     THEN /\ board' = next /\ Broadcast(next)
          /\ IF next.game = "InProgress" THEN Begin(t, seats[next.current]) ELSE Become(t, "Idle", Nothing, {})
     ELSE Become(t, "Idle", Nothing, {}) /\ UNCHANGED <<board, down>>
  /\ UNCHANGED <<seats, remote, spectators, pending, up, client, clicks>>

\* The part of replace_player() that is under the lock.
Replace(seat, player, name) ==
  LET next == SetPlayers(board, [board.players EXCEPT ![seat + 1] = name]) IN
  seats' = [seats EXCEPT ![seat] = player] /\ board' = next /\ Broadcast(next)

-----------------------------------------------------------------------------
(* The threads of the bots. *)

\* A request is sent, and the sender waits for its answer.
AskBot(t) ==
  LET b == threads[t].other IN
  /\ threads[t].pc \in {"Ask", "Stop"}
  /\ pending' = [pending EXCEPT ![b] = Append(@, [what |-> threads[t].pc, from |-> t])]
  /\ threads' = [threads EXCEPT ![t].pc = "Wait"]
  /\ UNCHANGED <<board, seats, remote, spectators, up, down, client, clicks>>

\* A bot answers a request before it does what it is asked.
Answer(b) ==
  LET request == Head(pending[b]) IN
  /\ threads[b].pc = "Idle" /\ pending[b] # <<>>
  /\ pending' = [pending EXCEPT ![b] = Tail(@)]
  /\ threads' = [threads EXCEPT ![request.from].pc = "Drop",
                              ![request.from].holds = IF request.what = "Stop" THEN @ \ {b} ELSE @,
                              ![b].pc = IF request.what = "Stop" THEN "Ended" ELSE "Think"]
  /\ UNCHANGED <<board, seats, remote, spectators, up, down, client, clicks>>

\* A copy of the board is taken and searched without its lock.
Think(b) ==
  LET play == FindBestPlay(board) IN
  /\ threads[b].pc = "Think"
  /\ threads' = [threads EXCEPT ![b] = IF play = Nothing THEN Resting ELSE [Resting EXCEPT !.pc = "Play", !.move = play]]
  /\ UNCHANGED <<board, seats, remote, spectators, pending, up, down, client, clicks>>

HeldElsewhere(t, b) == (\E i \in DOMAIN seats : seats[i] = b) \/ \E u \in Threads \ {t} : b \in threads[u].holds

\* The players are let go of; the last to hold a bot stops its thread.
LetGo(t) ==
  LET last == {b \in threads[t].holds : ~HeldElsewhere(t, b)} IN
  /\ threads[t].pc = "Drop"
  /\ IF last = {} THEN Become(t, "Idle", Nothing, {})
     ELSE \E b \in last : Become(t, "Stop", b, last)
  /\ UNCHANGED <<board, seats, remote, spectators, pending, up, down, client, clicks>>

-----------------------------------------------------------------------------
(* The players and spectators. *)

CheckName(name) ==
  /\ \A c \in DOMAIN remote : board.players[remote[c] + 1] # name
  /\ \A c \in DOMAIN spectators : spectators[c] # name

\* The name asked for, or that name with the first number that makes it unique.
Name(c) ==
  LET Numbered(n) == Requested[c] \o <<n>>
      free == {n \in 1 .. Cardinality(Clients) : CheckName(Numbered(n))}
  IN IF CheckName(Requested[c]) THEN Requested[c] ELSE Numbered(CHOOSE n \in free : \A k \in free : n <= k)

Entered(map, c, x) == [d \in DOMAIN map \cup {c} |-> IF d = c THEN x ELSE map[d]]
Without(map, c) == [d \in DOMAIN map \ {c} |-> map[d]]

Received(c, kind) == threads[Net].pc = "Idle" /\ up[c] # <<>> /\ Head(up[c]).kind = kind /\ up' = [up EXCEPT ![c] = Tail(@)]

\* The handler of PlayerConnect, up to its answer.
PlayerConnect(c) ==
  LET replaceable == {i \in DOMAIN seats : IsBot(seats[i])}
      seat == CHOOSE i \in replaceable : \A j \in replaceable : i <= j
  IN /\ Received(c, "Connect")
     /\ Become(Net, "Reply", c, {seats[i] : i \in replaceable})
     /\ IF replaceable = {}
        THEN spectators' = Entered(spectators, c, Name(c)) /\ UNCHANGED <<board, seats, remote, down>>
        ELSE /\ remote' = Entered(remote, c, seat)
             /\ Replace(seat, c, Name(c)) /\ UNCHANGED spectators
     /\ UNCHANGED <<pending, client, clicks>>

\* The answer has the board as it is by now.
Reply ==
  LET c == threads[Net].other IN
  /\ threads[Net].pc = "Reply"
  /\ threads' = [threads EXCEPT ![Net].pc = "Drop"]
  /\ down' = IF c \notin Connected THEN down
             ELSE [down EXCEPT ![c] = Append(@, [kind |-> "Reply", board |-> board,
                                                 seat |-> IF c \in DOMAIN remote THEN remote[c] ELSE Nothing])]
  /\ UNCHANGED <<board, seats, remote, spectators, pending, up, client, clicks>>

\* The bots that may still be made, a bound.
Unborn == {b \in Bots : threads[b].pc = "Unborn"}

\* Mutant: the bot that takes the seat is not told to begin.
DisconnectedSilent(c) ==
  LET bot == CHOOSE b \in Unborn : \A a \in Unborn : b <= a IN
  /\ Received(c, "Gone") /\ Unborn # {}
  /\ spectators' = Without(spectators, c)
  /\ IF c \notin DOMAIN remote THEN UNCHANGED <<board, seats, remote, down, threads>>
     ELSE /\ remote' = Without(remote, c)
          /\ Replace(remote[c], bot, <<"Bot", remote[c]>>)
          /\ threads' = [threads EXCEPT ![bot].pc = "Idle"]
  /\ UNCHANGED <<pending, client, clicks>>

\* The handler of NetworkingDisconnectEvent: a bot takes the seat.
Disconnected(c) ==
  LET bot == CHOOSE b \in Unborn : \A a \in Unborn : b <= a
      seat == remote[c]
      begins == seat = board.current
  IN /\ Received(c, "Gone") /\ Unborn # {}
     /\ spectators' = Without(spectators, c)
     /\ IF c \notin DOMAIN remote THEN UNCHANGED <<board, seats, remote, down, threads>>
        ELSE /\ remote' = Without(remote, c)
             /\ Replace(seat, bot, <<"Bot", seat>>)
             /\ threads' = [threads EXCEPT ![bot].pc = "Idle",
                             ![Net] = IF begins THEN [Resting EXCEPT !.pc = "Ask", !.other = bot, !.holds = {bot}]
                                                ELSE Resting]
     /\ UNCHANGED <<pending, client, clicks>>

\* Mutant: a message may come when the turn is over.
CheckSeatOnly(c) ==
  LET msg == Head(up[c]) IN
  /\ Received(c, "Play")
  /\ threads' = IF seats[msg.player] = c
               THEN [threads EXCEPT ![Net].pc = "Play", ![Net].move = msg.pos, ![Net].other = c]
               ELSE threads
  /\ UNCHANGED <<board, seats, remote, spectators, pending, down, client, clicks>>

\* The checks of the handler of MessagePlay: the lock is let go of before play().
CheckPlay(c) ==
  LET msg == Head(up[c]) IN
  /\ Received(c, "Play")
  /\ threads' = IF msg.player = board.current /\ seats[msg.player] = c
               THEN [threads EXCEPT ![Net].pc = "Play", ![Net].move = msg.pos, ![Net].other = c]
               ELSE threads
  /\ UNCHANGED <<board, seats, remote, spectators, pending, down, client, clicks>>

-----------------------------------------------------------------------------
(* The clients. *)

\* connect(): PlayerConnect is sent, and messages without a handler are kept.
Connect(c) ==
  /\ client[c].pc = "New"
  /\ client' = [client EXCEPT ![c].pc = "Connecting"]
  /\ up' = [up EXCEPT ![c] = Append(@, [kind |-> "Connect"])]
  /\ UNCHANGED <<serverVars, down, clicks>>

\* The view that is made of the answer; its handler takes what arrives from now on.
OpenView(c) ==
  LET reply == Head(down[c]) IN
  /\ client[c].pc = "Connecting" /\ down[c] # <<>> /\ reply.kind = "Reply"
  /\ client' = [client EXCEPT ![c].pc = "Opening", ![c].view = reply.board, ![c].seat = reply.seat]
  /\ down' = [down EXCEPT ![c] = Tail(@)]
  /\ UNCHANGED <<serverVars, up, clicks>>

\* The handler of MessageUpdateBoard.
Updated(k, b) ==
  IF b.version <= k.view.version THEN k
  ELSE [k EXCEPT !.view = b,
                 !.selected = IF @ # Nothing /\ b.owner[@] = Nothing /\ b.current = k.seat THEN @ ELSE Nothing]

\* An update that arrives while the connection is being made is kept.
Keep(c) ==
  /\ client[c].pc \in {"Connecting", "Opening"} /\ down[c] # <<>> /\ Head(down[c]).kind = "Update"
  /\ client' = [client EXCEPT ![c].kept = Append(@, Head(down[c]).board)]
  /\ down' = [down EXCEPT ![c] = Tail(@)]
  /\ UNCHANGED <<serverVars, up, clicks>>

\* The context of connect() is dropped; from now on updates go to the view.
EndConnect(c) ==
  /\ client[c].pc = "Opening"
  /\ client' = [client EXCEPT ![c].pc = "Open"]
  /\ UNCHANGED <<serverVars, up, down, clicks>>

Deliver(c) ==
  /\ client[c].pc = "Open" /\ down[c] # <<>> /\ Head(down[c]).kind = "Update"
  /\ client' = [client EXCEPT ![c] = Updated(@, Head(down[c]).board)]
  /\ down' = [down EXCEPT ![c] = Tail(@)]
  /\ UNCHANGED <<serverVars, up, clicks>>

\* What was kept is delivered too, and newer updates may come first.
DeliverKept(c) ==
  LET k == client[c] IN
  /\ k.pc = "Open" /\ k.kept # <<>>
  /\ client' = [client EXCEPT ![c] = [Updated(k, Head(k.kept)) EXCEPT !.kept = Tail(@)]]
  /\ UNCHANGED <<serverVars, up, down, clicks>>

Viewing(c) == client[c].pc \in {"Opening", "Open"}
LocalTurn(k) == k.seat # Nothing /\ k.view.current = k.seat

\* The cursor is moved onto a tile.
Select(c) ==
  /\ Viewing(c) /\ clicks[c] < MaxClicks[c]
  /\ \E pos \in Tiles :
       client' = [client EXCEPT ![c].selected =
                    IF LocalTurn(client[c]) /\ ValidSelection(client[c].view, pos) THEN pos ELSE Nothing]
  /\ UNCHANGED <<serverVars, up, down, clicks>>

Click(c) ==
  /\ Viewing(c) /\ clicks[c] < MaxClicks[c]
  /\ LocalTurn(client[c]) /\ client[c].selected # Nothing
  /\ up' = [up EXCEPT ![c] = Append(@, [kind |-> "Play", player |-> client[c].seat, pos |-> client[c].selected])]
  /\ clicks' = [clicks EXCEPT ![c] = @ + 1]
  /\ UNCHANGED <<serverVars, down, client>>

\* close(), or a connection that breaks: what was sent arrives or is lost.
Leave(c) ==
  /\ c \in Connected \cap Leavers
  /\ client' = [client EXCEPT ![c] = [@ EXCEPT !.pc = "Gone", !.view = Nothing, !.selected = Nothing, !.seat = Nothing, !.kept = <<>>]]
  /\ \E sent \in {up[c], <<>>} : up' = [up EXCEPT ![c] = Append(sent, [kind |-> "Gone"])]
  /\ down' = [down EXCEPT ![c] = <<>>]
  /\ UNCHANGED <<serverVars, clicks>>

-----------------------------------------------------------------------------

ServerMoves(t) ==
  \/ Play(t) \/ AskBot(t) \/ LetGo(t)
  \/ t \in Bots /\ (Answer(t) \/ Think(t))
  \/ t = Net /\ (Reply \/ \E c \in Clients : PlayerConnect(c) \/ Disconnected(c) \/ CheckPlay(c))

ClientReceives(c) == OpenView(c) \/ Keep(c) \/ EndConnect(c) \/ Deliver(c) \/ DeliverKept(c)

UserMoves(c) == Connect(c) \/ Select(c) \/ Click(c) \/ Leave(c)

GameNext ==
  \/ \E t \in Threads : ServerMoves(t)
  \/ \E c \in Clients : ClientReceives(c) \/ UserMoves(c)

\* A thread that has something to do, and needs nobody for it.
Working(t) == threads[t].pc \in {"Think", "Play", "Ask", "Stop", "Drop", "Reply"}
Called(t) == threads[t].pc = "Idle" /\ IF t = Net THEN \E c \in Clients : up[c] # <<>> ELSE pending[t] # <<>>

\* Threads are scheduled, which is written without ENABLED for the sake of the
\* search in Think: nothing else ends Working and Called, and no thread can be
\* Working for ever.  What is sent over a connection arrives.
Fairness ==
  /\ \A t \in Threads : []<>~Working(t) /\ []<>~Called(t)
  /\ \A c \in Clients : WF_gameVars(ClientReceives(c))

GameSpec == GameInit /\ [][GameNext]_gameVars /\ Fairness

-----------------------------------------------------------------------------

(* A turn adds one piece, and after the opening takes at least one from    *)
(* the opponent; the score and the winner are those of the pieces.         *)
TurnsCapture ==
  [][board'.turn_no # board.turn_no =>
     LET Pieces(b, p) == Cardinality({pos \in Tiles : b.owner[pos] = p})
         mover == board.current
         other == board'.current
         taken == Pieces(board, other) - Pieces(board', other)
     IN /\ Pieces(board', mover) = Pieces(board, mover) + taken + 1
        /\ board.turn_no > 4 => taken > 0
        /\ \A p \in {mover, other} : board'.score[p] = Pieces(board', p)
        /\ board'.game # "InProgress" =>
             board'.game = IF taken + taken + 1 + Pieces(board, mover) = Pieces(board, other) THEN "Draw"
                           ELSE <<"PlayerWon", CHOOSE p \in {mover, other} :
                                   \A q \in {mover, other} : Pieces(board', q) <= Pieces(board', p)>>]_board

(* The threads that are about to ask a bot to begin, to search, or to play, *)
(* and the requests to begin that wait for a bot.                          *)
Busy == {t \in Threads : threads[t].pc \in {"Ask", "Think", "Play"}}
Calls == {call \in UNION {{b} \X DOMAIN pending[b] : b \in Bots} : pending[call[1]][call[2]].what = "Ask"}

PlaysFor(t) == IF t = Net \/ threads[t].pc = "Ask" THEN threads[t].other ELSE t

(* One alone takes the turn, and it is the player whose turn it is.        *)
OneTakesTurn ==
  /\ \A t \in Busy : PlaysFor(t) = seats[board.current]
  /\ \A call \in Calls : call[1] = seats[board.current]
  /\ Busy = {} \/ Calls = {}
  /\ (\A t, u \in Busy : t = u) /\ \A call, other \in Calls : call = other

(* Whoever plays plays for its own seat: between the checks of a message   *)
(* and the lock of the board, or while a bot searches a copy of it, nobody *)
(* else takes the turn, unless a bot is replaced that has begun to take    *)
(* it, which goes on (controller.rs:181-209).                              *)
OwnSeatPlayed ==
  [][OneTakesTurn => \/ OneTakesTurn'
                     \/ seats'[board.current] # seats[board.current] /\ (Busy # {} \/ Calls # {})]_gameVars

(* When nothing is on its way to a client, its view shows the board,       *)
(* whatever arrived while the view was being made.                         *)
ViewsCatchUp ==
  \A c \in Clients :
    client[c].pc = "Open" /\ down[c] = <<>> /\ client[c].kept = <<>> => client[c].view = board

(* A bot that has been replaced waits to hand over the turn to the one     *)
(* that waits for it to stop, or a bot waits for itself.                   *)
Entangled ==
  \E b, d \in Bots : /\ threads[b].pc = "Wait" /\ threads[b].other = d
                     /\ threads[d].pc = "Wait" /\ threads[d].other = b
                     /\ b = d \/ \A i \in DOMAIN seats : seats[i] # b

(* A bot whose turn it is plays, unless it is replaced, and a game has no  *)
(* endless number of turns: while a remote player has a seat it is never a *)
(* bot's turn for ever.  (Without one nobody need have begun the first     *)
(* turn: a message of a client does, at its arrival and at its leave.)     *)
(* Then only bots that wait for each other can keep a bot from playing: it *)
(* takes a bot that was replaced at work: the one that stops it is the one *)
(* it hands the turn to, or the turn it took makes a bot the next after    *)
(* itself (bot/mod.rs:71-89).                                              *)
BotsMove ==
  []<>~(board.game = "InProgress" /\ IsBot(seats[board.current]) /\ DOMAIN remote # {} /\ ~Entangled)
=============================================================================
