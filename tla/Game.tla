-------------------------------- MODULE Game --------------------------------
(***************************************************************************)
(* One GAME of game.c, played by the service threads of its two players.  *)
(* The board is the 5x5 character grid of game_create, of which the cells  *)
(* at even coordinates hold marks (the separators never change and are not *)
(* modelled).  The turn, the status and the winner each have their own     *)
(* mutex, and the board has another; game_apply_move and game_resign take  *)
(* them one at a time, so their checks and their updates are separate      *)
(* steps.  A resignation also holds the invitation's state_mutex through   *)
(* inv_close, which serialises it with another resignation.                *)
(*                                                                         *)
(* After game_apply_move returns, client_make_move asks game_is_over and,  *)
(* if the game is over, posts the winner it reads; client_resign_game      *)
(* posts the winner after inv_close.  results records what was posted.     *)
(***************************************************************************)
EXTENDS Integers, Sequences, FiniteSets, FiniteSetsExt

VARIABLES
  board,      \* game->board at the mark cells
  turn,       \* game->cur_turn
  status,     \* game->game_status: "running" or "terminated"
  winner,     \* game->winner: NULL_ROLE, FIRST or SECOND
  stateLock,  \* the invitation's state_mutex: its holder, or 0
  resigned,   \* the role whose resignation closed the invitation, or 0
  pc, lCell, lRet,   \* per-role service thread locals
  results     \* the winners passed to player_post_result, in order

vars == <<board, turn, status, winner, stateLock, resigned, pc, lCell, lRet, results>>

NULL_ROLE == 0
FIRST_PLAYER_ROLE == 1
SECOND_PLAYER_ROLE == 2
Roles == {FIRST_PLAYER_ROLE, SECOND_PLAYER_ROLE}
OtherRole(r) == 3 - r
MarkOf(r) == IF r = FIRST_PLAYER_ROLE THEN "X" ELSE "O"
RoleOfMark(m) == IF m = "X" THEN FIRST_PLAYER_ROLE ELSE SECOND_PLAYER_ROLE

Pos   == {0, 2, 4}
Cells == Pos \X Pos
NO_LINE == "none"  \* verify_board's 0: no complete line
FULL    == "full"  \* apply_and_verify_safe's 33 ('!'): the board is full

\* The rules module, for its definitions of a line and a full board.
Rules == INSTANCE TicTacToeRules WITH next <- "X", ended <- FALSE

-----------------------------------------------------------------------------
(* The move text of a MOVE packet: a digit 1-9, optionally followed by     *)
(* "<-X" or "<-O".  is_valid_move_str accepts the digit alone, or with the *)
(* mark of the mover's role; game_parse_move turns it into coordinates.    *)
MoveTexts == [num : 1 .. 9, suffix : {"", "X", "O"}]

is_valid_move_str(role, t) == t.suffix = "" \/ t.suffix = MarkOf(role)

ParseCoord(n) == <<((n - 1) \div 3) * 2, ((n - 1) % 3) * 2>>

\* The lines in the order verify_board scans them: rows, columns, the main
\* diagonal and the anti-diagonal, each from the cell whose mark it reads.
ScanLines ==
  <<<<<<0, 0>>, <<0, 2>>, <<0, 4>>>>, <<<<2, 0>>, <<2, 2>>, <<2, 4>>>>,
    <<<<4, 0>>, <<4, 2>>, <<4, 4>>>>,
    <<<<0, 0>>, <<2, 0>>, <<4, 0>>>>, <<<<0, 2>>, <<2, 2>>, <<4, 2>>>>,
    <<<<0, 4>>, <<2, 4>>, <<4, 4>>>>,
    <<<<0, 0>>, <<2, 2>>, <<4, 4>>>>, <<<<0, 4>>, <<2, 2>>, <<4, 0>>>>>>

Complete(b, l) == b[l[1]] # " " /\ \A k \in 1 .. 3 : b[l[k]] = b[l[1]]

\* Mutant: verify_board without its anti-diagonal block.
VerifyBoardNoAntiDiagonal(b) ==
  LET found == {k \in 1 .. 7 : Complete(b, ScanLines[k])}
  IN  IF found = {} THEN NO_LINE ELSE b[ScanLines[Min(found)][1]]

\* verify_board: the mark of the first complete line it scans, or NO_LINE.
VerifyBoard(b) ==
  LET found == {k \in 1 .. 8 : Complete(b, ScanLines[k])}
  IN  IF found = {} THEN NO_LINE ELSE b[ScanLines[Min(found)][1]]

SpaceExists(b) == \E c \in Cells : b[c] = " "

\* Mutant: the full-board test is made before the line test.
ApplyFullCheckFirst(b, c, m) ==
  IF ~SpaceExists(b) THEN <<b, FULL>>
  ELSE LET nb == [b EXCEPT ![c] = m] IN
       IF ~SpaceExists(nb) THEN <<nb, FULL>>
       ELSE IF VerifyBoard(nb) # NO_LINE THEN <<nb, VerifyBoard(nb)>> ELSE <<nb, NO_LINE>>

\* apply_and_verify_safe: the new board and its result (NO_LINE, a winning mark,
\* or FULL), all under board_mutex.
ApplyAndVerify(b, c, m) ==
  IF ~SpaceExists(b) THEN <<b, FULL>>
  ELSE LET nb == [b EXCEPT ![c] = m] IN
       IF VerifyBoard(nb) # NO_LINE THEN <<nb, VerifyBoard(nb)>>
       ELSE IF ~SpaceExists(nb) THEN <<nb, FULL>> ELSE <<nb, NO_LINE>>

-----------------------------------------------------------------------------
\* game_create, and both service threads waiting for a request.
Init ==
  /\ board = [c \in Cells |-> " "]
  /\ turn = FIRST_PLAYER_ROLE
  /\ status = "running"
  /\ winner = NULL_ROLE
  /\ stateLock = 0
  /\ resigned = 0
  /\ pc = [r \in Roles |-> "idle"]
  /\ lCell = [r \in Roles |-> <<0, 0>>]
  /\ lRet = [r \in Roles |-> NO_LINE]
  /\ results = <<>>

(* MOVE: game_parse_move checks the turn and the text, then               *)
(* game_apply_move checks game_is_over and that the cell is empty.  Only   *)
(* the mover's own thread changes the turn and the board between these     *)
(* reads, so they are one step.  A failed check changes nothing.           *)
\* game_apply_move's checks: the game is not over and the cell is empty.
ApplyMoveChecks(c) == status = "running" /\ board[c] = " "

\* Mutant: game_parse_move without its turn check.
MoveCheckNoTurn(r, t) ==
  /\ pc[r] = "idle"
  /\ is_valid_move_str(r, t)
  /\ ApplyMoveChecks(ParseCoord(t.num))
  /\ pc' = [pc EXCEPT ![r] = "apply"]
  /\ lCell' = [lCell EXCEPT ![r] = ParseCoord(t.num)]
  /\ UNCHANGED <<board, turn, status, winner, stateLock, resigned, lRet, results>>

MoveCheck(r, t) ==
  /\ pc[r] = "idle"
  /\ r = turn
  /\ is_valid_move_str(r, t)
  /\ ApplyMoveChecks(ParseCoord(t.num))
  /\ pc' = [pc EXCEPT ![r] = "apply"]
  /\ lCell' = [lCell EXCEPT ![r] = ParseCoord(t.num)]
  /\ UNCHANGED <<board, turn, status, winner, stateLock, resigned, lRet, results>>

MoveApply(r) ==
  LET res == ApplyAndVerify(board, lCell[r], MarkOf(r)) IN
  /\ pc[r] = "apply"
  /\ board' = res[1]
  /\ lRet' = [lRet EXCEPT ![r] = res[2]]
  /\ pc' = [pc EXCEPT ![r] = "turn"]
  /\ UNCHANGED <<turn, status, winner, stateLock, resigned, lCell, results>>

\* Mutant: the turn is computed as C's logical negation of the role, !gr.
MoveSetTurnNegated(r) ==
  /\ pc[r] = "turn"
  /\ turn' = IF r = 0 THEN 1 ELSE 0
  /\ pc' = [pc EXCEPT ![r] = IF lRet[r] # NO_LINE THEN "status" ELSE "over"]
  /\ UNCHANGED <<board, status, winner, stateLock, resigned, lCell, lRet, results>>

\* set_game_move: the turn passes to the other role before the status is set.
MoveSetTurn(r) ==
  /\ pc[r] = "turn"
  /\ turn' = OtherRole(r)
  /\ pc' = [pc EXCEPT ![r] = IF lRet[r] # NO_LINE THEN "status" ELSE "over"]
  /\ UNCHANGED <<board, status, winner, stateLock, resigned, lCell, lRet, results>>

MoveSetStatus(r) ==
  /\ pc[r] = "status"
  /\ status' = "terminated"
  /\ pc' = [pc EXCEPT ![r] = IF lRet[r] = FULL THEN "over" ELSE "winner"]
  /\ UNCHANGED <<board, turn, winner, stateLock, resigned, lCell, lRet, results>>

MoveSetWinner(r) ==
  /\ pc[r] = "winner"
  /\ winner' = RoleOfMark(lRet[r])
  /\ pc' = [pc EXCEPT ![r] = "over"]
  /\ UNCHANGED <<board, turn, status, stateLock, resigned, lCell, lRet, results>>

\* client_make_move after the MOVED packet: a finished game is posted.
MoveEnd(r) ==
  /\ pc[r] = "over"
  /\ results' = IF status = "terminated" THEN Append(results, winner) ELSE results
  /\ pc' = [pc EXCEPT ![r] = "idle"]
  /\ UNCHANGED <<board, turn, status, winner, stateLock, resigned, lCell, lRet>>

(* RESIGN: inv_close takes the state_mutex and finds the invitation open   *)
(* or accepted, game_resign finds the game running, sets the status and    *)
(* then the winner, and inv_close marks the invitation closed.  A failed   *)
(* check releases the lock and changes nothing.                            *)
ResignBegin(r) ==
  /\ pc[r] = "idle" /\ stateLock = 0 /\ resigned = 0 /\ status = "running"
  /\ stateLock' = r
  /\ pc' = [pc EXCEPT ![r] = "rs_status"]
  /\ UNCHANGED <<board, turn, status, winner, resigned, lCell, lRet, results>>

ResignSetStatus(r) ==
  /\ pc[r] = "rs_status"
  /\ status' = "terminated"
  /\ pc' = [pc EXCEPT ![r] = "rs_winner"]
  /\ UNCHANGED <<board, turn, winner, stateLock, resigned, lCell, lRet, results>>

\* Mutant: game_resign names the resigning role as the winner.
ResignWinnerSelf(r) ==
  /\ pc[r] = "rs_winner"
  /\ winner' = r
  /\ resigned' = r
  /\ stateLock' = 0
  /\ pc' = [pc EXCEPT ![r] = "rs_post"]
  /\ UNCHANGED <<board, turn, status, lCell, lRet, results>>

ResignWinner(r) ==
  /\ pc[r] = "rs_winner"
  /\ winner' = OtherRole(r)
  /\ resigned' = r
  /\ stateLock' = 0
  /\ pc' = [pc EXCEPT ![r] = "rs_post"]
  /\ UNCHANGED <<board, turn, status, lCell, lRet, results>>

\* client_resign_game posts game_get_winner after removing the invitation.
ResignPost(r) ==
  /\ pc[r] = "rs_post"
  /\ results' = Append(results, winner)
  /\ pc' = [pc EXCEPT ![r] = "idle"]
  /\ UNCHANGED <<board, turn, status, winner, stateLock, resigned, lCell, lRet>>

Next ==
  \E r \in Roles :
    \/ \E t \in MoveTexts : MoveCheck(r, t)
    \/ MoveApply(r) \/ MoveSetTurn(r) \/ MoveSetStatus(r) \/ MoveSetWinner(r) \/ MoveEnd(r)
    \/ ResignBegin(r) \/ ResignSetStatus(r) \/ ResignWinner(r) \/ ResignPost(r)

Spec == Init /\ [][Next]_vars

-----------------------------------------------------------------------------
(* Properties.                                                             *)

TypeOK ==
  /\ board \in [Cells -> {" ", "X", "O"}]
  /\ turn \in Roles /\ status \in {"running", "terminated"}
  /\ winner \in Roles \cup {NULL_ROLE} /\ stateLock \in Roles \cup {0}
  /\ resigned \in Roles \cup {0}
  /\ pc \in [Roles -> {"idle", "apply", "turn", "status", "winner", "over",
                       "rs_status", "rs_winner", "rs_post"}]
  /\ lRet \in [Roles -> {NO_LINE, "X", "O", FULL}]
  /\ results \in Seq(Roles \cup {NULL_ROLE})

Quiescent == \A r \in Roles : pc[r] = "idle"

(* verify_board agrees with the definition of a win: on every board the    *)
(* game reaches it returns no mark exactly when no line is complete, and        *)
(* otherwise a mark that has a complete line.                             *)
VerifyBoardCorrect ==
  LET v == VerifyBoard(board) IN
  IF v = NO_LINE THEN ~Rules!HasLine(board, "X") /\ ~Rules!HasLine(board, "O")
           ELSE Rules!HasLine(board, v)

(* The players' marks alternate, X first, even when a move races with the *)
(* other player's move or resignation: set_game_move runs only after the  *)
(* mark is on the board, and game_parse_move refuses the other role.       *)
MarksAlternate ==
  LET nx == Cardinality({c \in Cells : board[c] = "X"})
      no == Cardinality({c \in Cells : board[c] = "O"})
  IN  nx - no \in {0, 1}

(* Between requests, a recorded winner has earned it: it has a complete   *)
(* line, or the other player resigned.                                    *)
WinnerEarned ==
  (Quiescent /\ winner # NULL_ROLE)
    => Rules!HasLine(board, MarkOf(winner)) \/ resigned = OtherRole(winner)

(* Between requests, a finished game without a winner is a draw: the      *)
(* board is full and nobody has a line.                                   *)
DrawOnlyWhenNoLine ==
  (Quiescent /\ status = "terminated" /\ winner = NULL_ROLE)
    => ~SpaceExists(board) /\ ~Rules!HasLine(board, "X") /\ ~Rules!HasLine(board, "O")

(* The game follows the rules of tic-tac-toe (TicTacToeRules): a mark is  *)
(* placed only on an empty cell, by the player to move, while the game has *)
(* not ended.  A move is taken at apply_and_verify_safe, a resignation at *)
(* the setting of the status.                                             *)
RulesNext == IF \E r \in Roles : pc[r] = "turn"
             THEN MarkOf(OtherRole(turn)) ELSE MarkOf(turn)
RulesEnded == \/ status = "terminated" \/ ~SpaceExists(board)
              \/ Rules!HasLine(board, "X") \/ Rules!HasLine(board, "O")
R == INSTANCE TicTacToeRules WITH next <- RulesNext, ended <- RulesEnded
FollowsRules == R!Spec
=============================================================================
