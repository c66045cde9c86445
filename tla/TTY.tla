-------------------------------- MODULE TTY --------------------------------
(***************************************************************************)
(* The kernel's text console, class TTY of lanternOS/kernel: a cursor over *)
(* a grid of character cells, two current colours, and a linear            *)
(* framebuffer that every operation paints pixel by pixel.  The class has  *)
(* no locks and the kernel has one thread, so a method is one action; only *)
(* Puts, a loop over PutChar, is split at its iterations.                  *)
(*                                                                         *)
(* A colour is a member of Colors, a font is the bits of its glyphs, and   *)
(* the framebuffer is a function on the words that belong to it.  The      *)
(* widths 8 and 2 that PutChar hard-codes are ByteBits and TailBits.       *)
(***************************************************************************)
EXTENDS Integers, Sequences

CONSTANTS
  Word,                  \* 2^32, the modulus of uint32_t
  horizontalResolution, verticalResolution, pixelsPerScanLine,
  glyphWidth, glyphHeight, glyphSizeInBytes,
  ByteBits, TailBits,    \* bits PutChar draws from a row's first, second byte
  FontBuffer,            \* FontBuffer[i]: which bits of byte i are set
  NewLineChar, Chars,    \* '\n' and the characters callers print
  Strings,               \* the non-empty strings callers hand to Puts
  Colors, Black,         \* pixel values; Black is the value 0
  BootScreens,           \* what the framebuffer may hold when kmain starts
  MaxPosY                \* bound on the cursor's row

m_numCharCols == horizontalResolution \div glyphWidth
m_numCharRows == verticalResolution \div glyphHeight

\* Columns of pixels PutChar paints for a glyph, whatever glyphWidth is.
DrawnWidth == ByteBits + TailBits

Printable == Chars \ {NewLineChar}

\* Words of the framebuffer, and what UEFI's description of it guarantees.
FbWords == 0 .. pixelsPerScanLine * verticalResolution - 1

ASSUME GeometryAssumption ==
  /\ {horizontalResolution, verticalResolution, pixelsPerScanLine,
      glyphWidth, glyphHeight, glyphSizeInBytes,
      ByteBits, TailBits, Word} \subseteq Nat \ {0}
  /\ horizontalResolution <= pixelsPerScanLine
  /\ pixelsPerScanLine * verticalResolution <= Word
  /\ glyphWidth <= horizontalResolution
  /\ glyphHeight <= verticalResolution
  /\ DrawnWidth <= pixelsPerScanLine

ASSUME DataAssumption ==
  /\ Chars \subseteq Nat
  /\ NewLineChar \in Chars
  /\ Strings \subseteq Seq(Chars) \ {<<>>}
  /\ Black \in Colors
  /\ BootScreens \subseteq [FbWords -> Colors]
  /\ MaxPosY \in Nat

VARIABLES
  frameBuffer,           \* m_framebuf.frameBufferAddress[0 .. ]
  m_currentCharPosX, m_currentCharPosY,
  m_bgColor, m_fgColor,
  puts,                  \* the running Puts: rest of the string, colours
  \* History variables, read by no action.
  ink,                   \* words last painted as the "1" bits of a glyph
  line,                  \* first row and length of the line being printed
  stray                  \* a pixel off the screen was plotted

cursor == <<m_currentCharPosX, m_currentCharPosY>>
colors == <<m_bgColor, m_fgColor>>
vars == <<frameBuffer, cursor, colors, puts, ink, line, stray>>

NoCall == [str |-> <<>>, fg |-> Black, bg |-> Black]
Idle == puts = NoCall

-----------------------------------------------------------------------------
(* Pixels *)

\* PlotPixel and GetPixelColor compute the index in uint32_t.
Offset(x, y) == (y * pixelsPerScanLine + x) % Word

Screen == {Offset(x, y) : x \in 0 .. horizontalResolution - 1,
                          y \in 0 .. verticalResolution - 1}

\* The bit that PutChar tests for pixel (c, r) of a glyph: two bytes a row.
Lit(ch, r, c) ==
  LET row == ch * glyphSizeInBytes + 2 * r
  IN  IF c < ByteBits THEN c \in FontBuffer[row]
                      ELSE c - ByteBits \in FontBuffer[row + 1]

\* Mutant: the loops over x run to and including their bounds.
CellOneWider(posX, posY) ==
  {Offset(posX * glyphWidth + c, posY * glyphHeight + r) :
     c \in 0 .. DrawnWidth, r \in 0 .. glyphHeight - 1}

\* What PutChar writes with the cursor at (posX, posY), and the part of it
\* that it writes in the foreground colour.
Cell(posX, posY) ==
  {Offset(posX * glyphWidth + c, posY * glyphHeight + r) :
     c \in 0 .. DrawnWidth - 1, r \in 0 .. glyphHeight - 1}

Strokes(ch, posX, posY) ==
  {Offset(posX * glyphWidth + rc[2], posY * glyphHeight + rc[1]) :
     rc \in {rc \in (0 .. glyphHeight - 1) \X (0 .. DrawnWidth - 1) :
               Lit(ch, rc[1], rc[2])}}

\* Some pixel of the cell has a coordinate that is not on the screen.
OffScreen(posX, posY) ==
  \/ posX * glyphWidth + DrawnWidth > horizontalResolution
  \/ posY * glyphHeight + glyphHeight > verticalResolution

\* Rows that a line of n characters takes.
RowsOf(n) == IF n = 0 THEN 1 ELSE (n + m_numCharCols - 1) \div m_numCharCols

-----------------------------------------------------------------------------
(* Bodies of the methods, without the bookkeeping of a running Puts *)

\* Mutant: NewLine leaves the column alone.
StartLineKeepsColumn ==
  /\ m_currentCharPosY' = m_currentCharPosY + 1
  /\ line' = [start |-> line.start + RowsOf(line.len), len |-> 0]
  /\ UNCHANGED <<frameBuffer, m_currentCharPosX, colors, ink, stray>>

StartLine ==
  /\ m_currentCharPosX' = 0
  /\ m_currentCharPosY' = m_currentCharPosY + 1
  /\ line' = [start |-> line.start + RowsOf(line.len), len |-> 0]
  /\ UNCHANGED <<frameBuffer, colors, ink, stray>>

\* Mutants: the wrap comes one character late, one character early.
LineIsFullLate == m_currentCharPosX > m_numCharCols % Word
LineIsFullEarly == m_currentCharPosX >= (m_numCharCols - 1) % Word

\* m_currentCharPosX > m_numCharCols - 1, the right side in uint32_t.
LineIsFull == m_currentCharPosX > (m_numCharCols - 1) % Word

\* The position of the glyph, after the wrap that a full line causes.
DrawX == IF LineIsFull THEN 0 ELSE m_currentCharPosX
DrawY == IF LineIsFull THEN m_currentCharPosY + 1 ELSE m_currentCharPosY

DrawGlyph(ch, foreground, background) ==
  LET cell == Cell(DrawX, DrawY)
      strokes == Strokes(ch, DrawX, DrawY)
  IN  /\ frameBuffer' = [a \in FbWords |->
                           IF a \in strokes THEN foreground
                           ELSE IF a \in cell THEN background
                           ELSE frameBuffer[a]]
      /\ ink' = (ink \ cell) \cup (strokes \cap FbWords)
      /\ stray' = (stray \/ OffScreen(DrawX, DrawY))
      /\ m_currentCharPosX' = DrawX + 1
      /\ m_currentCharPosY' = DrawY
      /\ line' = [line EXCEPT !.len = @ + 1]
      /\ UNCHANGED colors

PutCharBody(ch, foreground, background) ==
  \/ ch = NewLineChar /\ StartLine
  \/ ch # NewLineChar /\ DrawGlyph(ch, foreground, background)

-----------------------------------------------------------------------------
(* The public methods *)

\* The TTY constructor on the framebuffer the loader hands over.
Init ==
  /\ frameBuffer \in BootScreens
  /\ m_currentCharPosX = 0 /\ m_currentCharPosY = 0
  /\ m_bgColor = Black /\ m_fgColor = Black
  /\ puts = NoCall
  /\ ink = {} /\ line = [start |-> 0, len |-> 0] /\ stray = FALSE

SetBackgroundColor(pixelColor) ==
  /\ Idle
  /\ frameBuffer' = [a \in FbWords |->
       IF a \in Screen /\ (m_bgColor = m_fgColor \/ frameBuffer[a] # m_fgColor)
       THEN pixelColor ELSE frameBuffer[a]]
  /\ m_bgColor' = pixelColor
  /\ UNCHANGED <<cursor, m_fgColor, puts, ink, line, stray>>

\* Mutant: what was printed before is not repainted.
SetForegroundColorOfNewText(pixelColor) ==
  /\ Idle
  /\ m_fgColor' = pixelColor
  /\ UNCHANGED <<frameBuffer, cursor, m_bgColor, puts, ink, line, stray>>

SetForegroundColor(pixelColor) ==
  /\ Idle
  /\ frameBuffer' = [a \in FbWords |->
       IF a \in Screen /\ frameBuffer[a] = m_fgColor
       THEN pixelColor ELSE frameBuffer[a]]
  /\ m_fgColor' = pixelColor
  /\ UNCHANGED <<cursor, m_bgColor, puts, ink, line, stray>>

ClearScreen ==
  /\ Idle
  /\ frameBuffer' = [a \in FbWords |->
                       IF a \in Screen THEN m_bgColor ELSE frameBuffer[a]]
  /\ ink' = ink \ Screen
  /\ UNCHANGED <<cursor, colors, puts, line, stray>>

NewLine ==
  /\ Idle
  /\ m_currentCharPosY < MaxPosY
  /\ StartLine
  /\ UNCHANGED puts

PutChar(ch, foreground, background) ==
  /\ Idle
  /\ m_currentCharPosY < MaxPosY
  /\ PutCharBody(ch, foreground, background)
  /\ UNCHANGED puts

\* Puts is called: nothing is drawn before the loop's first iteration.
PutsCall(str, fg, bg) ==
  /\ Idle
  /\ m_currentCharPosY + Len(str) <= MaxPosY
  /\ puts' = [str |-> str, fg |-> fg, bg |-> bg]
  /\ UNCHANGED <<frameBuffer, cursor, colors, ink, line, stray>>

\* One iteration of its loop; the call returns after the last character.
PutsStep ==
  /\ ~Idle
  /\ PutCharBody(Head(puts.str), puts.fg, puts.bg)
  /\ puts' = IF Len(puts.str) = 1 THEN NoCall
                                  ELSE [puts EXCEPT !.str = Tail(@)]

Next ==
  \/ \E c \in Colors : SetBackgroundColor(c) \/ SetForegroundColor(c)
  \/ ClearScreen
  \/ NewLine
  \/ \E ch \in Chars, f, b \in Colors : PutChar(ch, f, b)
  \/ \E s \in Strings, f, b \in Colors : PutsCall(s, f, b)
  \/ PutsStep

Spec == Init /\ [][Next]_vars

-----------------------------------------------------------------------------
(* The callers kmain is one of: they set the background before they print  *)
(* anything, keep the two colours apart, and print in the current colours  *)
(* (the overloads of PutChar and Puts without colour arguments, kprintf).  *)

Distinct == m_fgColor # m_bgColor

PlainNext ==
  \/ \E c \in Colors \ {m_fgColor} : SetBackgroundColor(c)
  \/ \E c \in Colors \ {m_bgColor} : Distinct /\ SetForegroundColor(c)
  \/ ClearScreen
  \/ NewLine
  \/ \E ch \in Chars : Distinct /\ PutChar(ch, m_fgColor, m_bgColor)
  \/ \E s \in Strings : Distinct /\ PutsCall(s, m_fgColor, m_bgColor)
  \/ PutsStep

PlainSpec == Init /\ [][PlainNext]_vars

-----------------------------------------------------------------------------
(* Properties *)

\* Types, and the bound: a running Puts never takes the cursor past MaxPosY.
TypeOK ==
  /\ frameBuffer \in [FbWords -> Colors]
  /\ m_currentCharPosX \in 0 .. m_numCharCols
  /\ m_currentCharPosY \in Nat
  /\ m_currentCharPosY + Len(puts.str) <= MaxPosY
  /\ m_bgColor \in Colors /\ m_fgColor \in Colors
  /\ puts \in [str : Seq(Chars), fg : Colors, bg : Colors]
  /\ puts.str = <<>> => Idle
  /\ ink \subseteq FbWords
  /\ line \in [start : Nat, len : Nat]
  /\ stray \in BOOLEAN

\* PutChar wraps late: it is the character after a full line that moves the
\* cursor down, so that a line of exactly m_numCharCols characters followed
\* by '\n' leaves no empty row.  Whatever mixture of calls printed it, a line
\* of n characters occupies RowsOf(n) rows and the cursor is after the last.
LineLayout ==
  /\ m_currentCharPosY = line.start + RowsOf(line.len) - 1
  /\ m_currentCharPosX = line.len - (RowsOf(line.len) - 1) * m_numCharCols

\* With the ten pixel wide font the README asks for, every pixel PutChar
\* plots has valid coordinates until the cursor has run off the bottom row:
\* neither the wrap at the right margin nor a mixture of calls loses it first.
ClippedOnlyBelow ==
  glyphWidth = DrawnWidth /\ stray => m_currentCharPosY >= m_numCharRows

\* The words between the end of a scan line and the start of the next
\* (pixelsPerScanLine exceeds horizontalResolution on many adapters) are not
\* written while all coordinates are valid.
PaddingUntouched ==
  [][~stray' => \A a \in FbWords \ Screen : frameBuffer'[a] = frameBuffer[a]]_vars

\* For callers like kmain the framebuffer is at all times the text on the
\* background: the colour a pixel has is decided by whether it belongs to a
\* stroke, through every later SetBackgroundColor and SetForegroundColor,
\* which tell strokes from background by comparing colours only.
Rendered ==
  Distinct => \A a \in Screen :
                frameBuffer[a] = IF a \in ink THEN m_fgColor ELSE m_bgColor

=============================================================================
