----------------------------- MODULE ReversiBoard -----------------------------
(***************************************************************************)
(* The rules of the Reversi example (examples/reversi, board/mod.rs): a    *)
(* board with the caches it keeps of its valid moves and of the score, and *)
(* what a move and the end of a turn make of it.  Players are numbered     *)
(* from 0.  Captures run along rows and columns only.  Then the search of  *)
(* the example's bot.                                                      *)
(***************************************************************************)
EXTENDS Integers, Sequences, FiniteSets, SeqFold

CONSTANTS
  Size,     \* <<width, height>> of the board
  MaxDepth, \* how many plays the bot looks ahead
  Nothing   \* the owner of a free tile

ASSUME SizeAssumption == Size \in (Nat \ {0, 1}) \X (Nat \ {0, 1}) /\ Nothing \notin Nat

Tiles == (0 .. Size[1] - 1) \X (0 .. Size[2] - 1)

\* The order in which the loops over x and y visit the tiles.
InOrder == [i \in 1 .. Size[1] * Size[2] |-> <<(i - 1) \div Size[2], (i - 1) % Size[2]>>]

Directions == {<<0, 1>>, <<0, -1>>, <<-1, 0>>, <<1, 0>>}

\* The tiles that follow one, up to the edge of the board.
Line ==
  LET At(pos, dir, i) == <<pos[1] + i * dir[1], pos[2] + i * dir[2]>>
      Steps(pos, dir) == {i \in 1 .. Size[1] + Size[2] : At(pos, dir, i) \in Tiles}
  IN [pos \in Tiles |-> [dir \in Directions |->
       [i \in 1 .. Cardinality(Steps(pos, dir)) |-> At(pos, dir, i)]]]

\* The first n tiles of a line belong to others.
Foreign(owner, line, n, player) == \A i \in 1 .. n : owner[line[i]] \notin {Nothing, player}

\* Mutant: two pieces of one player next to each other are a capture.
FlipAnyway(owner, pos, dir, player) ==
  LET line == Line[pos][dir] IN
  \E n \in 1 .. Len(line) : owner[line[n]] = player /\ Foreign(owner, line, n - 1, player)

ValidForFlip(owner, pos, dir, player) ==
  LET line == Line[pos][dir] IN
  \E n \in 2 .. Len(line) : owner[line[n]] = player /\ Foreign(owner, line, n - 1, player)

\* The tiles that flip() gives to the player.
Flipped(owner, pos, dir, player) ==
  LET line == Line[pos][dir] IN
  {line[n] : n \in {n \in DOMAIN line : Foreign(owner, line, n, player)}}

Central(pos) == \A i \in 1 .. 2 : pos[i] \in {Size[i] \div 2, (Size[i] \div 2) - 1}

ValidSelection(b, pos) ==
  /\ b.game = "InProgress"
  /\ pos \in Tiles /\ b.owner[pos] = Nothing
  /\ IF b.turn_no <= 4
     THEN Central(pos)
     ELSE \E dir \in Directions : ValidForFlip(b.owner, pos, dir, b.current)

ValidMoves(b) == SelectSeq(InOrder, LAMBDA pos : ValidSelection(b, pos))

Score(b) ==
  [p \in 0 .. Len(b.players) - 1 |-> Cardinality({pos \in Tiles : b.owner[pos] = p})]

UpdateCaches(b) == [b EXCEPT !.moves = ValidMoves(b), !.score = Score(b)]

NewBoard ==
  UpdateCaches([version |-> 0, owner |-> [pos \in Tiles |-> Nothing], players |-> <<>>,
                current |-> 0, turn_no |-> 1, moves |-> <<>>, score |-> <<>>, game |-> "InProgress"])

SetPlayers(b, players) == [b EXCEPT !.players = players, !.version = @ + 1]

\* set() on a tile of the board, for one of its players.
Set(b, pos, player) ==
  LET owner == [b.owner EXCEPT ![pos] = player]
      flips == UNION {Flipped(owner, pos, dir, player) :
                        dir \in {d \in Directions : ValidForFlip(owner, pos, d, player)}}
  IN [b EXCEPT !.owner = [p \in Tiles |-> IF p \in flips THEN player ELSE owner[p]],
               !.version = @ + 1]

Place(b, pos) == IF ValidSelection(b, pos) THEN Set(b, pos, b.current) ELSE b

EndGame(b) ==
  LET best == {p \in DOMAIN b.score : \A q \in DOMAIN b.score : b.score[q] <= b.score[p]} IN
  [b EXCEPT !.game = IF Cardinality(best) = 1 THEN <<"PlayerWon", CHOOSE p \in best : TRUE>> ELSE "Draw",
            !.version = @ + 1]

EndTurn(b) ==
  LET next == UpdateCaches([b EXCEPT !.current = (@ + 1) % Len(b.players), !.turn_no = @ + 1]) IN
  IF next.moves = <<>> THEN EndGame(next) ELSE [next EXCEPT !.version = @ + 1]

\* A move and the end of the turn it was made in.
Moved(b, pos) == EndTurn(Place(b, pos))

-----------------------------------------------------------------------------
(* The bot (bot/minimax.rs): a search with alpha-beta pruning over the     *)
(* boards that plays lead to.                                              *)

Infinity == 1000000

Heuristic(b, player, endgame) ==
  LET corners == {0, Size[1] - 1} \X {0, Size[2] - 1}
      Held(set) == Cardinality({c \in corners : b.owner[c] \in set})
      all == FromLeft(+, 0, [i \in 1 .. Len(b.players) |-> b.score[i - 1]])
      pieces == 2 * b.score[player] - all
  IN 16 * IF endgame THEN pieces
          ELSE pieces + 4 * (Held({player}) - Held(DOMAIN b.score \ {player}))

\* find_best_play_score of the board that some plays lead to, for the player
\* whose turn it is on b.  The loop over the moves is left as soon as beta <= alpha.
PlayScore(b) ==
  LET score[search \in Seq(Tiles) \X Int \X Int] ==
        LET plays == search[1]
            now == FromLeft(Moved, b, plays)
            none == [best |-> IF now.current = b.current THEN -Infinity ELSE Infinity,
                     alpha |-> search[2], beta |-> search[3]]
            Consider(found, move) ==
              LET child == score[<<Append(plays, move), found.alpha, found.beta>>] IN
              CASE found.beta <= found.alpha -> found
                [] found.beta > found.alpha /\ now.current = b.current /\ child > found.best ->
                     [found EXCEPT !.best = child, !.alpha = IF child > @ THEN child ELSE @]
                [] found.beta > found.alpha /\ now.current # b.current /\ child < found.best ->
                     [found EXCEPT !.best = child, !.beta = IF child < @ THEN child ELSE @]
                [] OTHER -> found
        IN CASE Len(plays) >= MaxDepth -> Heuristic(now, b.current, FALSE)
             [] Len(plays) < MaxDepth /\ now.moves = <<>> -> Heuristic(now, b.current, TRUE)
             [] Len(plays) < MaxDepth /\ now.moves # <<>> -> FromLeft(Consider, none, now.moves).best
  IN score

MoveScore(b, move) == PlayScore(b)[<< <<move>>, -Infinity, Infinity>>]

\* The last of the best moves, or Nothing.
FindBestPlay(b) ==
  LET Better(found, move) ==
        LET score == MoveScore(b, move)
        IN IF score >= found.score THEN [move |-> move, score |-> score] ELSE found
  IN FromLeft(Better, [move |-> Nothing, score |-> -Infinity], b.moves).move
=============================================================================
