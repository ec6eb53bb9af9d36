---------------------------- MODULE ResultBoard ----------------------------
(***************************************************************************)
(* What a capture run promises whoever watches it: every pair of a device  *)
(* and a capture type goes from nothing to running to one verdict that is  *)
(* never taken back, and once the board is closed nothing is running and   *)
(* nothing moves.  CaptureRun and CaptureEngine implement it with their    *)
(* rows, RunBridge with the table the window shows.                        *)
(***************************************************************************)
CONSTANTS Cells, Verdicts, absent, running

VARIABLES board, closed

bvars == <<board, closed>>

BoardInit == board = [c \in Cells |-> absent] /\ closed = FALSE

\* One cell's legal moves: a verdict may come without the running state having
\* been seen, and a cell may stay where it is.
Moves(from, to) ==
  \/ to = from
  \/ from = absent /\ to \in Verdicts \cup {running}
  \/ from = running /\ to \in Verdicts

Advance ==
  /\ ~closed
  /\ board' \in [Cells -> Verdicts \cup {absent, running}]
  /\ \A c \in Cells : Moves(board[c], board'[c])
  /\ closed' \in BOOLEAN
  /\ closed' => \A c \in Cells : board'[c] # running

BoardSpec == BoardInit /\ [][Advance]_bvars
=============================================================================
