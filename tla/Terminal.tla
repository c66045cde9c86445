------------------------------ MODULE Terminal ------------------------------
(***************************************************************************)
(* What a text console promises the code that prints on it: a grid that    *)
(* shows, in each cell, the character last printed there, a cursor that    *)
(* wraps after a full row, and two colours whose change alters no text.    *)
(* There are no pixels here.  TTYTerminal shows that TTY implements this   *)
(* for the callers that keep the two colours apart.                        *)
(***************************************************************************)
EXTENDS Integers

CONSTANTS Rows, Cols, Characters, LineFeed, Space, Colours

VARIABLES grid, row, col, paper, pen

tvars == <<grid, row, col, paper, pen>>

Positions == (0 .. Rows - 1) \X (0 .. Cols - 1)

TInit ==
  /\ grid = [p \in Positions |-> Space]
  /\ row = 0 /\ col = 0
  /\ paper \in Colours /\ pen = paper

Feed ==
  /\ row' = row + 1 /\ col' = 0
  /\ UNCHANGED <<grid, paper, pen>>

\* A character printed below the last row is lost; nothing scrolls.
Put(ch) ==
  LET full == col = Cols
      r == IF full THEN row + 1 ELSE row
      c == IF full THEN 0 ELSE col
  IN  /\ pen # paper
      /\ grid' = [p \in Positions |-> IF p = <<r, c>> THEN ch ELSE grid[p]]
      /\ row' = r /\ col' = c + 1
      /\ UNCHANGED <<paper, pen>>

Recolor ==
  /\ paper' \in Colours /\ pen' \in Colours /\ pen' # paper'
  /\ UNCHANGED <<grid, row, col>>

Erase ==
  /\ grid' = [p \in Positions |-> Space]
  /\ UNCHANGED <<row, col, paper, pen>>

TNext ==
  \/ Feed
  \/ \E ch \in Characters \ {LineFeed} : Put(ch)
  \/ Recolor
  \/ Erase

TSpec == TInit /\ [][TNext]_tvars

=============================================================================
