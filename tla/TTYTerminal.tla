---------------------------- MODULE TTYTerminal ----------------------------
(***************************************************************************)
(* The refinement of Terminal by TTY.  The grid is decoded from the        *)
(* framebuffer: a cell shows the character whose glyph is exactly the      *)
(* pattern of foreground pixels in it.                                     *)
(***************************************************************************)
EXTENDS TTY

CONSTANT SpaceChar       \* ' ', whose glyph has no stroke

\* What the promise takes: cells as wide as what PutChar draws in them (the
\* ten pixel wide font that the README asks for), glyphs that tell the printed
\* characters apart and a blank one for the space, and a cursor that stays
\* above the row whose offsets wrap around uint32_t to the top of the screen.
ASSUME TerminalAssumption ==
  /\ DrawnWidth <= glyphWidth
  /\ SpaceChar \in Printable
  /\ \A r \in 0 .. glyphHeight - 1, c \in 0 .. DrawnWidth - 1 :
       ~Lit(SpaceChar, r, c)
  /\ \A ch1, ch2 \in Printable : ch1 # ch2 =>
       \E r \in 0 .. glyphHeight - 1, c \in 0 .. DrawnWidth - 1 :
         ~(Lit(ch1, r, c) <=> Lit(ch2, r, c))
  /\ (MaxPosY + 1) * glyphHeight * pixelsPerScanLine <= Word

\* The character that reads off the cell at column posX, row posY.
Decode(posX, posY) ==
  CHOOSE ch \in Printable :
    \A a \in Cell(posX, posY) :
      frameBuffer[a] = IF a \in Strokes(ch, posX, posY) THEN m_fgColor
                                                         ELSE m_bgColor

\* Before the first SetBackgroundColor the screen shows no text.
Shown ==
  [p \in (0 .. m_numCharRows - 1) \X (0 .. m_numCharCols - 1) |->
     IF Distinct THEN Decode(p[2], p[1]) ELSE SpaceChar]

Console == INSTANCE Terminal WITH
  Rows <- m_numCharRows, Cols <- m_numCharCols,
  Characters <- Chars, LineFeed <- NewLineChar, Space <- SpaceChar,
  Colours <- Colors,
  grid <- Shown, row <- m_currentCharPosY, col <- m_currentCharPosX,
  paper <- m_bgColor, pen <- m_fgColor

\* For callers like kmain the console is a terminal: a printed character is
\* read back from the pixels of its own cell until that cell is printed on
\* again or cleared, whatever is printed elsewhere and however the colours
\* are changed, and Puts is nothing but its characters one after the other.
ImplementsTerminal == Console!TSpec

=============================================================================
