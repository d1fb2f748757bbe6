--------------------------- MODULE TicTacToeRules ---------------------------
(***************************************************************************)
(* What a game of the Jeux server promises its two players (spec.md 4.6): *)
(* X and O alternately put their mark on an empty cell of a 3x3 board, X  *)
(* first; the game ends when a player completes a line, when the board is  *)
(* full, or when a player resigns; nothing happens to a board after the    *)
(* game has ended.  Cells are named by the board coordinates game.c uses.  *)
(***************************************************************************)
EXTENDS Integers

VARIABLES board, next, ended

Pos   == {0, 2, 4}
Cells == Pos \X Pos
Marks == {"X", "O"}
Other(m) == IF m = "X" THEN "O" ELSE "X"

\* The eight lines of three cells: rows, columns and the two diagonals.
Lines ==
  {{<<i, j>> : j \in Pos} : i \in Pos} \cup {{<<i, j>> : i \in Pos} : j \in Pos}
    \cup {{<<k, k>> : k \in Pos}, {<<k, 4 - k>> : k \in Pos}}

HasLine(b, m) == \E l \in Lines : \A c \in l : b[c] = m
Full(b)       == \A c \in Cells : b[c] # " "

Init ==
  /\ board = [c \in Cells |-> " "]
  /\ next = "X"
  /\ ended = FALSE

Mark(m, c) ==
  /\ ~ended /\ next = m /\ board[c] = " "
  /\ board' = [board EXCEPT ![c] = m]
  /\ next' = Other(m)
  /\ ended' = (HasLine(board', m) \/ Full(board'))

Resign(m) ==
  /\ ~ended
  /\ ended' = TRUE
  /\ UNCHANGED <<board, next>>

Next == \E m \in Marks : Resign(m) \/ \E c \in Cells : Mark(m, c)

Spec == Init /\ [][Next]_<<board, next, ended>>
=============================================================================
