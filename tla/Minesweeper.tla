---------------------------- MODULE Minesweeper ----------------------------
(***************************************************************************)
(* src/minesweeper: the board of minesweeper.cpp and the event hook of       *)
(* main.cpp.  The window manager tells it where the buttons go down and up;  *)
(* a press is not always followed by its release, which another window may   *)
(* get.  A field of the tiles is the set of tiles that have it.              *)
(***************************************************************************)
EXTENDS Integers, FiniteSets, FiniteSetsExt

CONSTANTS
  Width, Height, BombCount,  \* game_config_t
  TileSize, BoardTop,        \* tile_size and board_offsety, in pixels
  SmileyLeft, SmileyTop,     \* smileyx and smileyy, above the board
  SmileySize,                \* sprite_size of the smiley
  MaxMarks,                  \* bound: right clicks of a game
  MaxPresses                 \* bound: presses of the left button of a game

ASSUME MinesweeperAssumption ==
  /\ Width \in Nat \ {0} /\ Height \in Nat \ {0} /\ BombCount \in 0 .. Width * Height
  /\ TileSize \in Nat \ {0} /\ SmileyTop \in Nat /\ SmileySize \in Nat
  /\ BoardTop \in Nat /\ SmileyTop + SmileySize <= BoardTop

VARIABLES
  bombs, revealed, marked, peeking, clicked,  \* game_board
  isRunning, hasWon,
  crashed,        \* it used memory it has not got: the process is gone
  everMarked,     \* tiles that have carried a mark in this game
  marks, presses  \* counts against the bounds

gameVars == <<bombs, revealed, marked, peeking, clicked, isRunning, hasWon, crashed, everMarked, marks, presses>>

-----------------------------------------------------------------------------
(* The board.                                                                *)
Tiles == (0 .. Width - 1) \X (0 .. Height - 1)
NeighbourTiles == [t \in Tiles |-> {u \in Tiles \ {t} : u[1] - t[1] \in -1 .. 1 /\ u[2] - t[2] \in -1 .. 1}]
BombsAround(t) == Cardinality(NeighbourTiles[t] \cap bombs)

TileFromPos(x, y) ==
  {t \in Tiles : x \div TileSize = t[1] /\ y \div TileSize = t[2]}

(* Mutant: a number one does not stop the reveal. *)
StopsLate(t) == BombsAround(t) >= 2

Stops(t) == BombsAround(t) >= 1

(* tile_reveal, ring by ring instead of tile by tile.                        *)
RECURSIVE Reveal(_, _)
Reveal(todo, open) ==
  LET new == todo \ (open \union marked)
  IN IF new = {} THEN open
     ELSE Reveal(UNION {NeighbourTiles[t] \ bombs : t \in {u \in new : u \notin bombs /\ ~Stops(u)}},
                 open \union new)

BombChoices == kSubset(BombCount, Tiles)

(* game_board_create: bomb_count different tiles, whichever.  When the heap   *)
(* has no room for the board its FALSE is not looked at, and when it has none *)
(* for the positions that is not noticed: the process ends at a null pointer. *)
NewBoard ==
  /\ \/ bombs' \in BombChoices /\ UNCHANGED crashed
     \/ bombs' = {} /\ crashed' = TRUE
  /\ revealed' = {} /\ marked' = {} /\ peeking' = {} /\ clicked' = {}

GameInit ==
  /\ bombs \in BombChoices
  /\ revealed = {} /\ marked = {} /\ peeking = {} /\ clicked = {}
  /\ isRunning = TRUE /\ hasWon = FALSE /\ crashed = FALSE
  /\ everMarked = {} /\ marks = 0 /\ presses = 0

-----------------------------------------------------------------------------
(* The event hook.                                                           *)
LmbDown(x, y) ==
  /\ presses < MaxPresses /\ presses' = presses + 1
  /\ peeking' = IF isRunning
                  THEN peeking \union UNION {IF t \in revealed THEN NeighbourTiles[t] \ (revealed \union marked)
                                             ELSE {t} : t \in TileFromPos(x, y - BoardTop)}
                  ELSE peeking
  /\ UNCHANGED <<bombs, revealed, marked, clicked, isRunning, hasWon, crashed, everMarked, marks>>

(* A tile stops peeking when a tile without a bomb is next to it.            *)
StillPeeking == peeking \ UNION {NeighbourTiles[t] : t \in Tiles \ bombs}

(* minesweeper_end_game shows every bomb that carries no mark.  The count is *)
(* taken after a bomb has ended the game, too.                               *)
RevealTile(t) ==
  LET open == Reveal({t}, revealed)
      hit == t \in bombs \ (revealed \union marked)
      shown == IF hit THEN open \union (bombs \ marked) ELSE open
      wins == Cardinality(Tiles \ shown) = BombCount
  IN /\ clicked' = clicked \union {t}
     /\ revealed' = IF wins THEN shown \union (bombs \ marked) ELSE shown
     /\ isRunning' = (~hit /\ ~wins)
     /\ hasWon' = IF wins THEN TRUE ELSE IF hit THEN FALSE ELSE hasWon
     /\ peeking' = StillPeeking
     /\ UNCHANGED <<bombs, marked, crashed, everMarked, marks, presses>>

PressSmiley ==
  /\ NewBoard
  /\ isRunning' = TRUE /\ hasWon' = FALSE
  /\ everMarked' = {} /\ marks' = 0 /\ presses' = 0

OnSmiley(x, y) ==
  x \in SmileyLeft .. SmileyLeft + SmileySize - 1 /\ y \in SmileyTop .. SmileyTop + SmileySize - 1

(* y is compared as u32, so above the window's inside it counts as below.    *)
LmbUp(x, y) ==
  IF y \in 0 .. BoardTop - 1
  THEN OnSmiley(x, y) /\ PressSmiley
  ELSE isRunning /\ \E t \in TileFromPos(x, y - BoardTop) : RevealTile(t)

TileMark(t) ==
  /\ marked' = IF t \in revealed THEN marked
               ELSE IF t \in marked THEN marked \ {t} ELSE marked \union {t}
  /\ everMarked' = everMarked \union marked'

RmbUp(x, y) ==
  /\ isRunning /\ marks < MaxMarks /\ marks' = marks + 1
  /\ \E t \in TileFromPos(x, y - BoardTop) : TileMark(t)
  /\ UNCHANGED <<bombs, revealed, peeking, clicked, isRunning, hasWon, crashed, presses>>

(* Places to click: on every tile, on the smiley, beside it and around the    *)
(* board.                                                                    *)
Places ==
  {<<TileSize * t[1], BoardTop + TileSize * t[2]>> : t \in Tiles}
  \union {<<SmileyLeft, SmileyTop>>, <<SmileyLeft, SmileyTop + SmileySize>>, <<SmileyLeft + SmileySize, SmileyTop>>,
          <<0, -1>>, <<-1, BoardTop>>, <<TileSize * Width, BoardTop>>, <<0, BoardTop + TileSize * Height>>}

GameNext ==
  ~crashed /\ \E at \in Places : LmbDown(at[1], at[2]) \/ LmbUp(at[1], at[2]) \/ RmbUp(at[1], at[2])

-----------------------------------------------------------------------------
(* tile_get_sprite: what the player sees of a tile.                          *)
Sprite(t) ==
  IF t \in peeking THEN "empty"
  ELSE IF t \notin revealed
    THEN IF t \notin marked THEN "unrevealed"
         ELSE IF ~isRunning /\ t \notin bombs THEN "marked wrong" ELSE "marked"
  ELSE IF t \in bombs THEN IF t \in clicked THEN "bomb exploded" ELSE "bomb"
  ELSE IF BombsAround(t) = 0 THEN "empty" ELSE "number"

BombHit == clicked \cap revealed \cap bombs # {}

(* While a game runs no bomb has been shown.  What is open was clicked or    *)
(* lies next to an open tile without bombs around, and next to such a tile   *)
(* everything is open that never carried a mark.  The game ends exactly when *)
(* a bomb is hit or the last tile without one is opened, and it is won only  *)
(* then, except that a lost one may be counted as won                        *)
(* (minesweeper_handle_lmb_up counts after tile_reveal has ended it).  At    *)
(* the end every bomb without a mark is shown, unless it still looks pressed,*)
(* which only a tile does that has nothing but bombs around.                *)
GameIsFair ==
  LET safe == revealed \ bombs
      clear == {t \in safe : NeighbourTiles[t] \cap bombs = {}}
  IN /\ isRunning => revealed \cap bombs = {}
     /\ \A t \in safe : t \in clicked \/ NeighbourTiles[t] \cap clear # {}
     /\ \A t \in clear : NeighbourTiles[t] \ everMarked \subseteq revealed
     /\ isRunning <=> ~BombHit /\ ~(Tiles \ bombs \subseteq revealed)
     /\ hasWon => BombHit \/ Tiles \ bombs \subseteq revealed
     /\ (Tiles \ bombs \subseteq revealed /\ ~BombHit) => hasWon
     /\ ~isRunning => \A t \in bombs \ marked :
          Sprite(t) \in {"bomb", "bomb exploded"} \/ NeighbourTiles[t] \subseteq bombs

=============================================================================
