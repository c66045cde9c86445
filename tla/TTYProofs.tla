----------------------------- MODULE TTYProofs -----------------------------
(***************************************************************************)
(* Proofs about TTY for every screen, font and set of strings that satisfy *)
(* the module's assumptions.                                               *)
(***************************************************************************)
EXTENDS TTYTerminal, TLAPS

-----------------------------------------------------------------------------
(* Geometry *)

\* At least one cell fits on the screen, and the cells do not exceed it.
LEMMA GridFits ==
  /\ m_numCharCols \in Nat \ {0}
  /\ m_numCharRows \in Nat \ {0}
  /\ m_numCharCols * glyphWidth <= horizontalResolution
  /\ m_numCharRows * glyphHeight <= verticalResolution
  /\ m_numCharCols <= Word
<1>1. ASSUME NEW n \in Nat, NEW d \in Nat \ {0}, d <= n
      PROVE  n \div d \in Nat \ {0} /\ (n \div d) * d <= n /\ n \div d <= n
  BY <1>1
<1>2. pixelsPerScanLine <= pixelsPerScanLine * verticalResolution
  BY GeometryAssumption
<1>3. horizontalResolution <= Word
  BY <1>2, GeometryAssumption
<1>4. /\ m_numCharCols \in Nat \ {0}
      /\ m_numCharCols * glyphWidth <= horizontalResolution
      /\ m_numCharCols <= horizontalResolution
  BY <1>1, GeometryAssumption DEF m_numCharCols
<1>5. /\ m_numCharRows \in Nat \ {0}
      /\ m_numCharRows * glyphHeight <= verticalResolution
  BY <1>1, GeometryAssumption DEF m_numCharRows
<1>6. QED
  BY <1>3, <1>4, <1>5, GeometryAssumption

\* The unsigned subtraction of PutChar does not wrap: a line is full exactly
\* when the cursor is one past its last column.
LEMMA FullIsPastTheEnd ==
  ASSUME m_currentCharPosX \in 0 .. m_numCharCols
  PROVE  LineIsFull <=> m_currentCharPosX = m_numCharCols
<1>1. \A n \in Nat : n < Word => n % Word = n
  BY GeometryAssumption
<1>2. QED
  BY <1>1, GridFits, GeometryAssumption DEF LineIsFull

\* One more character on a line of n takes a new row when the last one is full.
LEMMA RowsStep ==
  ASSUME NEW n \in Nat
  PROVE  /\ RowsOf(n) \in Nat \ {0}
         /\ n - (RowsOf(n) - 1) * m_numCharCols \in 0 .. m_numCharCols
         /\ RowsOf(n + 1) =
              IF n - (RowsOf(n) - 1) * m_numCharCols = m_numCharCols
              THEN RowsOf(n) + 1 ELSE RowsOf(n)
<1> DEFINE N == m_numCharCols
           q == (n + N - 1) \div N
<1>0. N \in Nat \ {0}
  BY GridFits
<1> HIDE DEF N
<1>1. q \in Nat /\ q * N <= n + N - 1 /\ n + N - 1 < q * N + N
  BY <1>0
<1>2. ASSUME NEW k \in Nat, k * N <= n + N, n + N < k * N + N
      PROVE  (n + N) \div N = k
  BY <1>0, <1>2
<1>3. RowsOf(n + 1) = (n + N) \div N
  BY <1>0 DEF RowsOf, N
<1>4. CASE n = 0
  <2>1. (n + N) \div N = 1
    BY <1>0, <1>2, <1>4
  <2>2. RowsOf(n) = 1
    BY <1>4 DEF RowsOf
  <2>3. n - (RowsOf(n) - 1) * N = 0
    BY <1>0, <1>4, <2>2
  <2>4. RowsOf(n + 1) = 1
    BY <1>3, <2>1
  <2>5. QED
    BY <1>0, <2>2, <2>3, <2>4 DEF N
<1>5. CASE n # 0
  <2>1. RowsOf(n) = q
    BY <1>5 DEF RowsOf, N
  <2>2. q # 0
    BY <1>0, <1>1, <1>5
  <2>3. n - (q - 1) * N = n - q * N + N
    BY <1>0, <1>1
  <2>4. n - (q - 1) * N \in 0 .. N
    BY <1>0, <1>1, <2>3
  <2>5. (q + 1) * N = q * N + N
    BY <1>0, <1>1
  <2>6. CASE n - (q - 1) * N = N
    BY <1>0, <1>1, <1>2, <1>3, <2>1, <2>2, <2>3, <2>4, <2>5, <2>6 DEF N
  <2>7. CASE n - (q - 1) * N # N
    BY <1>0, <1>1, <1>2, <1>3, <2>1, <2>2, <2>3, <2>4, <2>7 DEF N
  <2>8. QED
    BY <2>6, <2>7
<1>6. QED
  BY <1>4, <1>5

-----------------------------------------------------------------------------
(* Types *)

\* What the two bodies of PutChar do to the types and to the cursor's row.
LEMMA PutCharTypes ==
  ASSUME TypeOK,
         NEW ch \in Chars, NEW f \in Colors, NEW b \in Colors,
         PutCharBody(ch, f, b)
  PROVE  /\ frameBuffer' \in [FbWords -> Colors]
         /\ m_currentCharPosX' \in 0 .. m_numCharCols
         /\ m_currentCharPosY' \in Nat
         /\ m_currentCharPosY' <= m_currentCharPosY + 1
         /\ UNCHANGED colors
         /\ ink' \subseteq FbWords
         /\ line' \in [start : Nat, len : Nat]
         /\ stray' \in BOOLEAN
<1>1. CASE ch = NewLineChar /\ StartLine
  <2>1. RowsOf(line.len) \in Nat
    BY RowsStep DEF TypeOK
  <2>2. QED
    BY <1>1, <2>1, GridFits DEF StartLine, TypeOK, colors
<1>2. CASE ch # NewLineChar /\ DrawGlyph(ch, f, b)
  <2>1. /\ DrawX \in 0 .. m_numCharCols - 1
        /\ DrawY \in Nat /\ DrawY <= m_currentCharPosY + 1
    BY FullIsPastTheEnd, GridFits DEF DrawX, DrawY, TypeOK
  <2>2. /\ m_currentCharPosX' \in 0 .. m_numCharCols
        /\ m_currentCharPosY' \in Nat
        /\ m_currentCharPosY' <= m_currentCharPosY + 1
        /\ UNCHANGED colors
        /\ line' \in [start : Nat, len : Nat]
    BY <1>2, <2>1, GridFits DEF DrawGlyph, TypeOK
  <2>3. frameBuffer' \in [FbWords -> Colors] /\ ink' \subseteq FbWords
    BY <1>2 DEF DrawGlyph, TypeOK
  <2>4. stray' \in BOOLEAN
    BY <1>2 DEF DrawGlyph, OffScreen
  <2>5. QED
    BY <2>2, <2>3, <2>4
<1>3. QED
  BY <1>1, <1>2 DEF PutCharBody

\* The rest of a running Puts.
LEMMA PutsRest ==
  ASSUME TypeOK, ~Idle
  PROVE  /\ Head(puts.str) \in Chars
         /\ Len(puts.str) \in Nat \ {0}
         /\ Len(puts.str) # 1 =>
              /\ Tail(puts.str) \in Seq(Chars) /\ Tail(puts.str) # <<>>
              /\ Len(Tail(puts.str)) = Len(puts.str) - 1
<1>1. puts.str \in Seq(Chars) /\ puts.str # <<>>
  BY DEF TypeOK
<1>2. \A s \in Seq(Chars) : s # <<>> =>
        /\ Head(s) \in Chars /\ Len(s) \in Nat \ {0}
        /\ Tail(s) \in Seq(Chars) /\ Len(Tail(s)) = Len(s) - 1
  OBVIOUS
<1>3. ASSUME Len(puts.str) # 1
      PROVE  Tail(puts.str) # <<>>
  <2>1. Len(Tail(puts.str)) # 0
    BY <1>1, <1>2, <1>3
  <2>2. Len(<<>>) = 0
    OBVIOUS
  <2>3. QED
    BY <2>1, <2>2
<1>4. /\ Head(puts.str) \in Chars
      /\ Len(puts.str) \in Nat \ {0}
      /\ Tail(puts.str) \in Seq(Chars)
      /\ Len(Tail(puts.str)) = Len(puts.str) - 1
  BY <1>1, <1>2
<1>5. QED
  BY <1>3, <1>4

\* The constructor's values have their types.
LEMMA InitTypes == Init => TypeOK
<1> SUFFICES ASSUME Init PROVE TypeOK
  OBVIOUS
<1>1. 0 \in 0 .. m_numCharCols
  BY GridFits
<1>2. Len(<<>>) = 0 /\ <<>> \in Seq(Chars)
  OBVIOUS
<1>3. /\ puts \in [str : Seq(Chars), fg : Colors, bg : Colors]
      /\ Len(puts.str) = 0 /\ Idle
  BY <1>2, DataAssumption DEF Init, NoCall, Idle
<1>4. m_currentCharPosY + Len(puts.str) <= MaxPosY
  BY <1>3, DataAssumption DEF Init
<1>5. line \in [start : Nat, len : Nat] /\ ink \subseteq FbWords /\ stray \in BOOLEAN
  BY DEF Init
<1>6. QED
  BY <1>1, <1>3, <1>4, <1>5, DataAssumption DEF Init, TypeOK

\* Each method keeps them, Puts with the rest of its string counted.
LEMMA NextTypes == TypeOK /\ [Next]_vars => TypeOK'
<1> SUFFICES ASSUME TypeOK, [Next]_vars PROVE TypeOK'
  OBVIOUS
<1>1. ASSUME NEW c \in Colors, SetBackgroundColor(c) PROVE TypeOK'
  BY <1>1 DEF SetBackgroundColor, TypeOK, cursor, Idle
<1>2. ASSUME NEW c \in Colors, SetForegroundColor(c) PROVE TypeOK'
  BY <1>2 DEF SetForegroundColor, TypeOK, cursor, Idle
<1>3. CASE ClearScreen
  BY <1>3 DEF ClearScreen, TypeOK, cursor, colors, Idle
<1>4. CASE NewLine
  <2>1. PutCharBody(NewLineChar, m_fgColor, m_bgColor)
    BY <1>4 DEF NewLine, PutCharBody
  <2>2. puts' = puts /\ Len(puts.str) = 0 /\ m_currentCharPosY < MaxPosY
    BY <1>4 DEF NewLine, Idle, NoCall
  <2>3. QED
    BY <2>1, <2>2, PutCharTypes, DataAssumption DEF TypeOK, colors, Idle
<1>5. ASSUME NEW ch \in Chars, NEW f \in Colors, NEW b \in Colors,
             PutChar(ch, f, b)
      PROVE  TypeOK'
  <2>1. puts' = puts /\ Len(puts.str) = 0 /\ m_currentCharPosY < MaxPosY
    BY <1>5 DEF PutChar, Idle, NoCall
  <2>2. QED
    BY <1>5, <2>1, PutCharTypes, DataAssumption
    DEF PutChar, TypeOK, colors, Idle
<1>6. ASSUME NEW s \in Strings, NEW f \in Colors, NEW b \in Colors,
             PutsCall(s, f, b)
      PROVE  TypeOK'
  BY <1>6, DataAssumption DEF PutsCall, TypeOK, cursor, colors, Idle
<1>7. CASE PutsStep
  <2>1. PutCharBody(Head(puts.str), puts.fg, puts.bg) /\ ~Idle
    BY <1>7 DEF PutsStep
  <2>2. puts.fg \in Colors /\ puts.bg \in Colors
    BY DEF TypeOK
  <2>3. /\ puts' \in [str : Seq(Chars), fg : Colors, bg : Colors]
        /\ puts'.str = <<>> => Idle'
        /\ Len(puts'.str) = Len(puts.str) - 1
    <3>1. CASE Len(puts.str) = 1
      <4>1. puts' = NoCall
        BY <1>7, <3>1 DEF PutsStep
      <4>2. NoCall \in [str : Seq(Chars), fg : Colors, bg : Colors]
        BY DataAssumption DEF NoCall
      <4>3. Len(puts'.str) = 0
        BY <4>1 DEF NoCall
      <4>4. QED
        BY <3>1, <4>1, <4>2, <4>3 DEF Idle
    <3>2. CASE Len(puts.str) # 1
      <4>1. puts' = [puts EXCEPT !.str = Tail(@)]
        BY <1>7, <3>2 DEF PutsStep
      <4>2. /\ puts' \in [str : Seq(Chars), fg : Colors, bg : Colors]
            /\ puts'.str = Tail(puts.str)
        BY <2>1, <3>2, <4>1, PutsRest DEF TypeOK
      <4>3. QED
        BY <2>1, <3>2, <4>2, PutsRest
    <3>3. QED
      BY <3>1, <3>2
  <2>4. m_currentCharPosY' + Len(puts'.str) <= MaxPosY
    <3>1. /\ m_currentCharPosY' \in Nat
          /\ m_currentCharPosY' <= m_currentCharPosY + 1
      BY <2>1, <2>2, PutCharTypes, PutsRest
    <3>2. /\ m_currentCharPosY \in Nat /\ Len(puts.str) \in Nat
          /\ m_currentCharPosY + Len(puts.str) <= MaxPosY
      BY <2>1, PutsRest DEF TypeOK
    <3>3. QED
      BY <2>3, <3>1, <3>2, DataAssumption
  <2>5. QED
    BY <2>1, <2>2, <2>3, <2>4, PutCharTypes, PutsRest DEF TypeOK, colors
<1>8. CASE UNCHANGED vars
  BY <1>8 DEF vars, cursor, colors, TypeOK, Idle
<1>9. QED
  BY <1>1, <1>2, <1>3, <1>4, <1>5, <1>6, <1>7, <1>8 DEF Next

\* Type correctness of the console, for any caller of its methods; with it
\* the bound on the cursor's row holds in the middle of a Puts as well.
THEOREM TypeCorrect == Spec => []TypeOK
<1>1. QED
  BY InitTypes, NextTypes, PTL DEF Spec

-----------------------------------------------------------------------------
(* Lines *)

\* A step leaves the cursor, the line and the history of stray pixels alone,
\* or is the body of PutChar for some character.
LEMMA StepKinds ==
  ASSUME TypeOK, [Next]_vars
  PROVE  \/ UNCHANGED <<cursor, line, stray>>
         \/ \E ch \in Chars, f, b \in Colors : PutCharBody(ch, f, b)
<1>1. CASE NewLine
  <2>1. PutCharBody(NewLineChar, m_fgColor, m_bgColor)
    BY <1>1 DEF NewLine, PutCharBody
  <2>2. QED
    BY <2>1, DataAssumption DEF TypeOK
<1>2. ASSUME NEW ch \in Chars, NEW f \in Colors, NEW b \in Colors,
             PutChar(ch, f, b)
      PROVE  PutCharBody(ch, f, b)
  BY <1>2 DEF PutChar
<1>3. CASE PutsStep
  <2>1. PutCharBody(Head(puts.str), puts.fg, puts.bg) /\ ~Idle
    BY <1>3 DEF PutsStep
  <2>2. /\ Head(puts.str) \in Chars
        /\ puts.fg \in Colors /\ puts.bg \in Colors
    BY <2>1, PutsRest DEF TypeOK
  <2>3. QED
    BY <2>1, <2>2
<1>4. ASSUME \/ \E c \in Colors : SetBackgroundColor(c) \/ SetForegroundColor(c)
             \/ ClearScreen
             \/ \E s \in Strings, f, b \in Colors : PutsCall(s, f, b)
             \/ UNCHANGED vars
      PROVE  UNCHANGED <<cursor, line, stray>>
  BY <1>4 DEF SetBackgroundColor, SetForegroundColor, ClearScreen, PutsCall,
              vars, cursor
<1>5. QED
  BY <1>1, <1>2, <1>3, <1>4 DEF Next

\* Where PutChar puts the glyph: on the grid, unless below its last row.
LEMMA DrawPosition ==
  ASSUME TypeOK
  PROVE  /\ DrawX \in 0 .. m_numCharCols - 1
         /\ DrawY \in Nat
         /\ DrawX = IF m_currentCharPosX = m_numCharCols
                    THEN 0 ELSE m_currentCharPosX
         /\ DrawY = IF m_currentCharPosX = m_numCharCols
                    THEN m_currentCharPosY + 1 ELSE m_currentCharPosY
BY FullIsPastTheEnd, GridFits DEF DrawX, DrawY, TypeOK

\* Each method keeps the rows of the line.
LEMMA LineLayoutStep ==
  TypeOK /\ LineLayout /\ [Next]_vars => LineLayout'
<1> SUFFICES ASSUME TypeOK, LineLayout, [Next]_vars PROVE LineLayout'
  OBVIOUS
<1>1. CASE UNCHANGED <<cursor, line, stray>>
  BY <1>1 DEF LineLayout, cursor, RowsOf
<1>2. ASSUME NEW ch \in Chars, NEW f \in Colors, NEW b \in Colors,
             PutCharBody(ch, f, b)
      PROVE  LineLayout'
  <2> DEFINE n == line.len
             N == m_numCharCols
             k == RowsOf(n)
  <2>1. /\ n \in Nat /\ line.start \in Nat /\ N \in Nat \ {0}
        /\ m_currentCharPosX \in 0 .. N /\ m_currentCharPosY \in Nat
    BY GridFits DEF TypeOK
  <2>2. /\ k \in Nat \ {0}
        /\ RowsOf(n + 1) = IF m_currentCharPosX = N THEN k + 1 ELSE k
        /\ m_currentCharPosX = n - (k - 1) * N
        /\ m_currentCharPosY = line.start + k - 1
    BY <2>1, RowsStep DEF LineLayout
  <2>3. CASE StartLine
    <3>1. /\ line'.start = line.start + k /\ line'.len = 0
          /\ m_currentCharPosX' = 0
          /\ m_currentCharPosY' = m_currentCharPosY + 1
      BY <2>3 DEF StartLine
    <3>2. RowsOf(0) = 1
      BY DEF RowsOf
    <3>3. m_numCharCols' = N
      BY DEF m_numCharCols
    <3>4. RowsOf(line.len)' = RowsOf(0)
      BY <3>1, <3>3 DEF RowsOf
    <3>5. (1 - 1) * N = 0
      BY <2>1
    <3>6. QED
      BY <2>1, <2>2, <3>1, <3>2, <3>3, <3>4, <3>5 DEF LineLayout
  <2>4. CASE DrawGlyph(ch, f, b)
    <3>1. /\ line'.start = line.start /\ line'.len = n + 1
          /\ m_currentCharPosX' = DrawX + 1 /\ m_currentCharPosY' = DrawY
      BY <2>4 DEF DrawGlyph, TypeOK
    <3>2. RowsOf(line.len)' = RowsOf(n + 1)
      BY <3>1 DEF RowsOf, m_numCharCols
    <3>3. ((k + 1) - 1) * N = (k - 1) * N + N
      BY <2>1, <2>2
    <3>4. m_currentCharPosX' = (n + 1) - (RowsOf(n + 1) - 1) * N
      <4> HIDE DEF n, N, k
      <4>1. CASE m_currentCharPosX = N
        BY <2>1, <2>2, <3>1, <3>3, <4>1, DrawPosition DEF N
      <4>2. CASE m_currentCharPosX # N
        <5>1. RowsOf(n + 1) = k /\ m_currentCharPosX' = m_currentCharPosX + 1
          BY <2>2, <3>1, <4>2, DrawPosition DEF N
        <5>2. (k - 1) * N \in Int
          BY <2>1, <2>2
        <5>3. QED
          BY <2>1, <2>2, <5>1, <5>2
      <4>3. QED
        BY <4>1, <4>2
    <3>5. m_currentCharPosY' = line.start + RowsOf(n + 1) - 1
      BY <2>1, <2>2, <3>1, DrawPosition
    <3>6. QED
      BY <3>1, <3>2, <3>4, <3>5 DEF LineLayout, m_numCharCols
  <2>5. QED
    BY <1>2, <2>3, <2>4 DEF PutCharBody
<1>3. QED
  BY <1>1, <1>2, StepKinds

\* PutChar's late wrap and NewLine keep one layout: whatever mixture of calls
\* printed a line, it has RowsOf(its length) rows, for every screen and font.
THEOREM LinesAreLaidOut == Spec => []LineLayout
<1>1. Init => LineLayout
  <2> SUFFICES ASSUME Init PROVE LineLayout
    OBVIOUS
  <2>1. RowsOf(line.len) = 1 /\ line.start = 0 /\ line.len = 0
    BY DEF Init, RowsOf
  <2>2. (1 - 1) * m_numCharCols = 0
    BY GridFits
  <2>3. QED
    BY <2>1, <2>2 DEF Init, LineLayout
<1>2. QED
  BY <1>1, LineLayoutStep, TypeCorrect, PTL DEF Spec

-----------------------------------------------------------------------------
(* Where pixels go *)

\* Each method plots on the screen while the cursor is on it, with cells that
\* are as wide as what is drawn.
LEMMA ClippedStep ==
  TypeOK /\ ClippedOnlyBelow /\ [Next]_vars => ClippedOnlyBelow'
<1> SUFFICES ASSUME TypeOK, ClippedOnlyBelow, [Next]_vars,
                    glyphWidth = DrawnWidth, stray'
             PROVE  m_currentCharPosY' >= m_numCharRows
  BY DEF ClippedOnlyBelow, DrawnWidth, m_numCharRows
<1>1. CASE UNCHANGED <<cursor, line, stray>>
  BY <1>1 DEF ClippedOnlyBelow, cursor
<1>2. ASSUME NEW ch \in Chars, NEW f \in Colors, NEW b \in Colors,
             PutCharBody(ch, f, b)
      PROVE  m_currentCharPosY' >= m_numCharRows
  <2>1. m_currentCharPosY \in Nat /\ m_numCharRows \in Nat
    BY GridFits DEF TypeOK
  <2>2. CASE StartLine
    BY <2>1, <2>2 DEF StartLine, ClippedOnlyBelow
  <2>3. CASE DrawGlyph(ch, f, b)
    <3>1. m_currentCharPosY' = DrawY /\ (stray \/ OffScreen(DrawX, DrawY))
      BY <2>3 DEF DrawGlyph
    <3>2. CASE stray
      BY <2>1, <3>1, <3>2, DrawPosition DEF ClippedOnlyBelow
    <3>3. CASE OffScreen(DrawX, DrawY)
      <4>1. \A x \in 0 .. m_numCharCols - 1 :
              x * glyphWidth + glyphWidth <= m_numCharCols * glyphWidth
        BY GridFits, GeometryAssumption
      <4>2. DrawX * glyphWidth + DrawnWidth <= horizontalResolution
        BY <4>1, DrawPosition, GridFits, GeometryAssumption DEF DrawnWidth
      <4>3. DrawX * glyphWidth \in Nat /\ DrawnWidth \in Nat
        BY DrawPosition, GeometryAssumption DEF DrawnWidth
      <4>4. DrawY * glyphHeight + glyphHeight > verticalResolution
        BY <3>3, <4>2, <4>3, GeometryAssumption DEF OffScreen
      <4>5. \A y \in Nat : y < m_numCharRows =>
              y * glyphHeight + glyphHeight <= m_numCharRows * glyphHeight
        BY GridFits, GeometryAssumption
      <4>6. ~(DrawY < m_numCharRows)
        BY <4>4, <4>5, DrawPosition, GridFits, GeometryAssumption
      <4>7. QED
        BY <2>1, <3>1, <4>6, DrawPosition
    <3>4. QED
      BY <3>1, <3>2, <3>3
  <2>4. QED
    BY <1>2, <2>2, <2>3 DEF PutCharBody
<1>3. QED
  BY <1>1, <1>2, StepKinds

\* A console whose font is as wide as PutChar assumes plots no pixel off the
\* screen before its cursor has left the bottom row, on every screen.
THEOREM ClippingIsBelow == Spec => []ClippedOnlyBelow
<1>1. Init => ClippedOnlyBelow
  BY DEF Init, ClippedOnlyBelow
<1>2. QED
  BY <1>1, ClippedStep, TypeCorrect, PTL DEF Spec

\* The words of a glyph drawn inside the screen are words of the screen.
LEMMA CellOnScreen ==
  ASSUME TypeOK, ~OffScreen(DrawX, DrawY)
  PROVE  Cell(DrawX, DrawY) \subseteq Screen
<1> SUFFICES ASSUME NEW c \in 0 .. DrawnWidth - 1,
                    NEW r \in 0 .. glyphHeight - 1
             PROVE  Offset(DrawX * glyphWidth + c, DrawY * glyphHeight + r)
                      \in Screen
  BY DEF Cell
<1>1. DrawX * glyphWidth \in Nat /\ DrawY * glyphHeight \in Nat
  BY DrawPosition, GeometryAssumption
<1>2. /\ DrawX * glyphWidth + c \in 0 .. horizontalResolution - 1
      /\ DrawY * glyphHeight + r \in 0 .. verticalResolution - 1
  BY <1>1, GeometryAssumption DEF OffScreen, DrawnWidth
<1>3. QED
  BY <1>2 DEF Screen

\* The pixels of a glyph are pixels of its cell.
LEMMA StrokesInCell ==
  ASSUME NEW ch, NEW posX, NEW posY
  PROVE  Strokes(ch, posX, posY) \subseteq Cell(posX, posY)
BY DEF Strokes, Cell

\* The padding between scan lines is safe while coordinates are valid, under
\* every sequence of calls on every framebuffer.
THEOREM PaddingIsUntouched == Spec => PaddingUntouched
<1> DEFINE Safe == ~stray' => \A a \in FbWords \ Screen :
                                frameBuffer'[a] = frameBuffer[a]
<1>1. TypeOK /\ [Next]_vars => [Safe]_vars
  <2> SUFFICES ASSUME TypeOK, Next, ~stray',
                      NEW a \in FbWords, a \notin Screen
               PROVE  frameBuffer'[a] = frameBuffer[a]
    OBVIOUS
  <2>1. CASE UNCHANGED frameBuffer
    BY <2>1
  <2>2. ASSUME NEW ch, NEW f, NEW b, DrawGlyph(ch, f, b)
        PROVE  frameBuffer'[a] = frameBuffer[a]
    <3>1. ~OffScreen(DrawX, DrawY)
      BY <2>2 DEF DrawGlyph
    <3>2. a \notin Cell(DrawX, DrawY) /\ a \notin Strokes(ch, DrawX, DrawY)
      BY <3>1, CellOnScreen, StrokesInCell
    <3>3. QED
      BY <2>2, <3>2 DEF DrawGlyph
  <2>3. ASSUME NEW ch, NEW f, NEW b, PutCharBody(ch, f, b)
        PROVE  frameBuffer'[a] = frameBuffer[a]
    BY <2>1, <2>2, <2>3 DEF PutCharBody, StartLine
  <2>4. ASSUME NEW c \in Colors, SetBackgroundColor(c) \/ SetForegroundColor(c)
        PROVE  frameBuffer'[a] = frameBuffer[a]
    BY <2>4 DEF SetBackgroundColor, SetForegroundColor
  <2>5. CASE ClearScreen
    BY <2>5 DEF ClearScreen
  <2>6. CASE NewLine
    BY <2>1, <2>6 DEF NewLine, StartLine
  <2>7. CASE \E s \in Strings, f, b \in Colors : PutsCall(s, f, b)
    BY <2>1, <2>7 DEF PutsCall
  <2>8. QED
    BY <2>3, <2>4, <2>5, <2>6, <2>7 DEF Next, PutChar, PutsStep
<1>2. QED
  BY <1>1, TypeCorrect, PTL DEF Spec, PaddingUntouched

-----------------------------------------------------------------------------
(* Text and background *)

\* The invariant of the callers like kmain: the framebuffer shows the ink,
\* there is none before the colours differ, and a running Puts prints in the
\* current colours, so that no later recolouring loses what it prints.
PlainInv ==
  /\ TypeOK
  /\ Rendered
  /\ ~Distinct => ink = {}
  /\ ~Idle => Distinct /\ puts.fg = m_fgColor /\ puts.bg = m_bgColor

\* Pixels of the screen are words of the framebuffer.
LEMMA ScreenInFramebuffer == Screen \subseteq FbWords
<1> SUFFICES ASSUME NEW x \in 0 .. horizontalResolution - 1,
                    NEW y \in 0 .. verticalResolution - 1
             PROVE  Offset(x, y) \in FbWords
  BY DEF Screen
<1> DEFINE p == pixelsPerScanLine
<1>1. p \in Nat \ {0} /\ x < p /\ x \in Nat /\ y \in Nat
      /\ verticalResolution \in Nat
  BY GeometryAssumption
<1>2. y * p + p <= verticalResolution * p
  BY <1>1
<1>3. verticalResolution * p = p * verticalResolution
  BY <1>1
<1>4. y * p + x \in Nat /\ y * p + x < p * verticalResolution
  BY <1>1, <1>2, <1>3
<1>5. \A n \in Nat : n < Word => n % Word = n
  BY GeometryAssumption
<1>6. Offset(x, y) = y * p + x
  BY <1>1, <1>4, <1>5, GeometryAssumption DEF Offset
<1>7. QED
  BY <1>1, <1>4, <1>6 DEF FbWords

\* The discipline of kmain is a way of using the class.
LEMMA PlainIsNext == TypeOK /\ [PlainNext]_vars => [Next]_vars
<1> SUFFICES ASSUME TypeOK, PlainNext PROVE Next
  OBVIOUS
<1>1. m_fgColor \in Colors /\ m_bgColor \in Colors
  BY DEF TypeOK
<1>2. QED
  BY <1>1 DEF PlainNext, Next

\* A glyph drawn in the current colours keeps the screen rendered.
LEMMA DrawRenders ==
  ASSUME TypeOK, Rendered, Distinct, NEW ch, DrawGlyph(ch, m_fgColor, m_bgColor)
  PROVE  Rendered' /\ Distinct'
<1>1. UNCHANGED colors
  BY DEF DrawGlyph
<1>2. ASSUME NEW a \in Screen
      PROVE  frameBuffer'[a] = IF a \in ink' THEN m_fgColor ELSE m_bgColor
  <2> DEFINE cell == Cell(DrawX, DrawY)
             strokes == Strokes(ch, DrawX, DrawY)
  <2>1. a \in FbWords /\ strokes \subseteq cell
    BY ScreenInFramebuffer, StrokesInCell
  <2>2. ink' = (ink \ cell) \cup (strokes \cap FbWords)
    BY DEF DrawGlyph
  <2>3. frameBuffer'[a] = IF a \in strokes THEN m_fgColor
                          ELSE IF a \in cell THEN m_bgColor
                          ELSE frameBuffer[a]
    BY <2>1 DEF DrawGlyph
  <2>4. frameBuffer[a] = IF a \in ink THEN m_fgColor ELSE m_bgColor
    BY DEF Rendered
  <2>5. QED
    BY <2>1, <2>2, <2>3, <2>4
<1>3. Screen' = Screen
  BY DEF Screen, Offset
<1>4. QED
  BY <1>1, <1>2, <1>3 DEF Rendered, Distinct, colors

\* Callers like kmain keep the text and its colours.
LEMMA PlainStep == PlainInv /\ [PlainNext]_vars => PlainInv'
<1> SUFFICES ASSUME PlainInv, [PlainNext]_vars PROVE PlainInv'
  OBVIOUS
<1>1. TypeOK'
  BY PlainIsNext, NextTypes DEF PlainInv
<1>2. TypeOK /\ Screen' = Screen
  BY DEF PlainInv, Screen, Offset
<1>3. ASSUME NEW c \in Colors \ {m_fgColor}, SetBackgroundColor(c)
      PROVE  PlainInv'
  <2>1. \A a \in Screen : frameBuffer'[a] = IF a \in ink' THEN m_fgColor ELSE c
    <3> SUFFICES ASSUME NEW a \in Screen
                 PROVE  frameBuffer'[a] = IF a \in ink' THEN m_fgColor ELSE c
      OBVIOUS
    <3>1. /\ frameBuffer'[a] = IF ~Distinct \/ frameBuffer[a] # m_fgColor
                               THEN c ELSE frameBuffer[a]
          /\ ink' = ink
      BY <1>3, ScreenInFramebuffer DEF SetBackgroundColor, Distinct
    <3>2. CASE Distinct
      BY <3>1, <3>2 DEF PlainInv, Rendered, Distinct
    <3>3. CASE ~Distinct
      BY <3>1, <3>3 DEF PlainInv
    <3>4. QED
      BY <3>2, <3>3
  <2>2. m_bgColor' = c /\ m_fgColor' = m_fgColor /\ puts' = puts /\ Idle
    BY <1>3 DEF SetBackgroundColor
  <2>3. Distinct' /\ Idle'
    BY <2>2 DEF Distinct, Idle
  <2>4. QED
    BY <1>1, <1>2, <2>1, <2>2, <2>3 DEF PlainInv, Rendered
<1>4. ASSUME NEW c \in Colors \ {m_bgColor}, Distinct, SetForegroundColor(c)
      PROVE  PlainInv'
  <2>1. \A a \in Screen : frameBuffer'[a] = IF a \in ink' THEN c ELSE m_bgColor
    <3> SUFFICES ASSUME NEW a \in Screen
                 PROVE  frameBuffer'[a] = IF a \in ink' THEN c ELSE m_bgColor
      OBVIOUS
    <3>1. /\ frameBuffer'[a] = IF frameBuffer[a] = m_fgColor
                               THEN c ELSE frameBuffer[a]
          /\ ink' = ink
      BY <1>4, ScreenInFramebuffer DEF SetForegroundColor
    <3>2. QED
      BY <1>4, <3>1 DEF PlainInv, Rendered, Distinct
  <2>2. m_fgColor' = c /\ m_bgColor' = m_bgColor /\ puts' = puts /\ Idle
    BY <1>4 DEF SetForegroundColor
  <2>3. Distinct' /\ Idle'
    BY <2>2 DEF Distinct, Idle
  <2>4. QED
    BY <1>1, <1>2, <2>1, <2>2, <2>3 DEF PlainInv, Rendered
<1>5. CASE ClearScreen
  <2>1. \A a \in Screen : frameBuffer'[a] = m_bgColor /\ a \notin ink'
    BY <1>5, ScreenInFramebuffer DEF ClearScreen
  <2>2. UNCHANGED <<m_bgColor, m_fgColor, puts>> /\ ink' \subseteq ink
    BY <1>5 DEF ClearScreen, colors
  <2>3. QED
    BY <1>1, <1>2, <2>1, <2>2 DEF PlainInv, Rendered, Distinct, Idle
<1>6. CASE NewLine
  BY <1>1, <1>2, <1>6 DEF NewLine, StartLine, colors, PlainInv, Rendered,
                          Distinct, Idle
<1>7. ASSUME NEW ch \in Chars, Distinct, PutChar(ch, m_fgColor, m_bgColor)
      PROVE  PlainInv'
  <2>1. puts' = puts /\ Idle /\ PutCharBody(ch, m_fgColor, m_bgColor)
    BY <1>7 DEF PutChar
  <2>2. Rendered' /\ Distinct'
    BY <1>2, <1>7, <2>1, DrawRenders
    DEF PutCharBody, StartLine, colors, PlainInv, Rendered, Distinct
  <2>3. QED
    BY <1>1, <2>1, <2>2 DEF PlainInv, Idle
<1>8. ASSUME NEW s \in Strings, Distinct, PutsCall(s, m_fgColor, m_bgColor)
      PROVE  PlainInv'
  <2>1. /\ puts' = [str |-> s, fg |-> m_fgColor, bg |-> m_bgColor]
        /\ UNCHANGED <<frameBuffer, m_bgColor, m_fgColor, ink>>
    BY <1>8 DEF PutsCall, colors
  <2>2. QED
    BY <1>1, <1>2, <1>8, <2>1 DEF PlainInv, Rendered, Distinct
<1>9. CASE PutsStep
  <2>1. ~Idle /\ Distinct /\ PutCharBody(Head(puts.str), m_fgColor, m_bgColor)
    BY <1>9 DEF PutsStep, PlainInv
  <2>2. Rendered' /\ Distinct' /\ UNCHANGED <<m_bgColor, m_fgColor>>
    BY <1>2, <2>1, DrawRenders
    DEF PutCharBody, DrawGlyph, StartLine, colors, PlainInv, Rendered, Distinct
  <2>3. \/ puts' = NoCall
        \/ puts'.fg = puts.fg /\ puts'.bg = puts.bg
    BY <1>2, <1>9 DEF PutsStep, TypeOK
  <2>4. QED
    BY <1>1, <2>1, <2>2, <2>3 DEF PlainInv, Idle
<1>10. CASE UNCHANGED vars
  BY <1>1, <1>2, <1>10 DEF vars, colors, PlainInv, Rendered, Distinct, Idle
<1>11. QED
  BY <1>3, <1>4, <1>5, <1>6, <1>7, <1>8, <1>9, <1>10 DEF PlainNext

\* For every screen, font, text and choice of colours: as long as callers keep
\* the two colours apart, comparing pixels with the foreground colour is
\* enough for the setters to tell text from background.
THEOREM TextStaysRendered == PlainSpec => []Rendered
<1>1. Init => PlainInv
  BY InitTypes DEF Init, PlainInv, Rendered, Distinct, Idle
<1>2. PlainInv => Rendered
  BY DEF PlainInv
<1>3. QED
  BY <1>1, <1>2, PlainStep, PTL DEF PlainSpec

-----------------------------------------------------------------------------
(* Cells *)

\* Quotient and remainder are unique.
LEMMA OneQuotient ==
  ASSUME NEW d \in Nat, NEW q1 \in Nat, NEW q2 \in Nat,
         NEW r1 \in 0 .. d - 1, NEW r2 \in 0 .. d - 1,
         q1 * d + r1 = q2 * d + r2
  PROVE  q1 = q2 /\ r1 = r2
<1>1. ASSUME NEW m \in Nat, NEW n \in Nat, m < n
      PROVE  m * d + d <= n * d
  <2>1. (m + 1) * d <= n * d
    BY <1>1
  <2>2. (m + 1) * d = m * d + d
    OBVIOUS
  <2>3. QED
    BY <2>1, <2>2
<1>2. q1 * d \in Nat /\ q2 * d \in Nat
  OBVIOUS
<1>3. ~(q1 < q2) /\ ~(q2 < q1)
  BY <1>1, <1>2
<1>4. QED
  BY <1>2, <1>3

\* The rows of cells whose offsets do not wrap around.
Unwrapped(posY) == (posY + 1) * glyphHeight * pixelsPerScanLine <= Word

\* The rows on the screen and the rows the cursor reaches are among them.
LEMMA RowsAreUnwrapped ==
  ASSUME NEW posY \in Nat, posY < m_numCharRows \/ posY <= MaxPosY
  PROVE  Unwrapped(posY)
<1> DEFINE h == glyphHeight
           w == pixelsPerScanLine
<1>0. h \in Nat /\ w \in Nat /\ Word \in Nat /\ MaxPosY \in Nat
      /\ verticalResolution \in Nat
  BY GeometryAssumption, DataAssumption
<1>1. ASSUME NEW m \in Nat, NEW n \in Nat, m <= n
      PROVE  m * h <= n * h /\ m * w <= n * w /\ m * h \in Nat /\ n * h \in Nat
  BY <1>0, <1>1
<1>2. CASE posY <= MaxPosY
  <2>1. (posY + 1) * h <= (MaxPosY + 1) * h
        /\ (posY + 1) * h \in Nat /\ (MaxPosY + 1) * h \in Nat
    BY <1>0, <1>1, <1>2
  <2>2. (posY + 1) * h * w <= (MaxPosY + 1) * h * w
    BY <1>1, <2>1
  <2>3. (posY + 1) * h * w \in Nat /\ (MaxPosY + 1) * h * w \in Nat
    BY <1>0, <2>1
  <2>4. QED
    BY <1>0, <2>2, <2>3, TerminalAssumption DEF Unwrapped
<1>3. CASE posY < m_numCharRows
  <2>1. (posY + 1) * h <= m_numCharRows * h
        /\ (posY + 1) * h \in Nat /\ m_numCharRows * h \in Nat
    BY <1>1, <1>3, GridFits
  <2>2. (posY + 1) * h <= verticalResolution
    BY <1>0, <2>1, GridFits
  <2>3. (posY + 1) * h * w <= verticalResolution * w
    BY <1>0, <1>1, <2>1, <2>2
  <2>4. verticalResolution * w = w * verticalResolution
    BY <1>0
  <2>5. (posY + 1) * h * w \in Nat /\ w * verticalResolution \in Nat
    BY <1>0, <2>1
  <2>6. QED
    BY <1>0, <2>3, <2>4, <2>5, GeometryAssumption DEF Unwrapped
<1>4. QED
  BY <1>2, <1>3

\* The index of pixel (c, r) of a cell.
LEMMA PixelIndex ==
  ASSUME NEW posX \in 0 .. m_numCharCols - 1,
         NEW posY \in Nat, Unwrapped(posY),
         NEW c \in 0 .. DrawnWidth - 1, NEW r \in 0 .. glyphHeight - 1
  PROVE  /\ posX * glyphWidth + c \in 0 .. horizontalResolution - 1
         /\ posX * glyphWidth + c \in 0 .. pixelsPerScanLine - 1
         /\ posY * glyphHeight + r \in Nat
         /\ Offset(posX * glyphWidth + c, posY * glyphHeight + r)
              = (posY * glyphHeight + r) * pixelsPerScanLine
                  + (posX * glyphWidth + c)
<1> DEFINE x == posX * glyphWidth + c
           y == posY * glyphHeight + r
           w == pixelsPerScanLine
<1>0. /\ w \in Nat \ {0} /\ Word \in Nat \ {0} /\ glyphHeight \in Nat \ {0}
      /\ glyphWidth \in Nat \ {0} /\ DrawnWidth \in Nat
      /\ horizontalResolution \in Nat /\ m_numCharCols \in Nat
  BY GeometryAssumption, GridFits DEF DrawnWidth
<1>1. posX * glyphWidth \in Nat
      /\ posX * glyphWidth + glyphWidth <= m_numCharCols * glyphWidth
  <2>1. (posX + 1) * glyphWidth <= m_numCharCols * glyphWidth
    BY <1>0
  <2>2. (posX + 1) * glyphWidth = posX * glyphWidth + glyphWidth
    BY <1>0
  <2>3. QED
    BY <1>0, <2>1, <2>2
<1>2. x \in 0 .. horizontalResolution - 1
  BY <1>0, <1>1, GridFits, TerminalAssumption
<1>3. x \in 0 .. w - 1
  BY <1>0, <1>2, GeometryAssumption
<1>4. y \in Nat /\ y + 1 <= (posY + 1) * glyphHeight
      /\ (posY + 1) * glyphHeight \in Nat
  <2>1. (posY + 1) * glyphHeight = posY * glyphHeight + glyphHeight
        /\ posY * glyphHeight \in Nat
    BY <1>0
  <2>2. QED
    BY <1>0, <2>1
<1>5. y * w + x \in Nat /\ y * w + x < Word
  <2> DEFINE t == (posY + 1) * glyphHeight
  <2>1. t * w <= Word /\ t \in Nat
    BY <1>4 DEF Unwrapped
  <2> HIDE DEF x, y, t, w
  <2>2. (y + 1) * w <= t * w /\ (y + 1) * w = y * w + w /\ y * w \in Nat
        /\ t * w \in Nat
    BY <1>0, <1>4, <2>1 DEF t
  <2>3. QED
    BY <1>0, <1>3, <2>1, <2>2
<1>6. \A n \in Nat : n < Word => n % Word = n
  BY <1>0
<1>7. Offset(x, y) = y * w + x
  BY <1>5, <1>6 DEF Offset
<1>8. QED
  BY <1>2, <1>3, <1>4, <1>7

\* Different pixels of cells have different indices.
LEMMA PixelsApart ==
  ASSUME NEW x1 \in 0 .. m_numCharCols - 1, NEW y1 \in Nat, Unwrapped(y1),
         NEW x2 \in 0 .. m_numCharCols - 1, NEW y2 \in Nat, Unwrapped(y2),
         NEW c1 \in 0 .. DrawnWidth - 1, NEW r1 \in 0 .. glyphHeight - 1,
         NEW c2 \in 0 .. DrawnWidth - 1, NEW r2 \in 0 .. glyphHeight - 1,
         Offset(x1 * glyphWidth + c1, y1 * glyphHeight + r1)
           = Offset(x2 * glyphWidth + c2, y2 * glyphHeight + r2)
  PROVE  x1 = x2 /\ y1 = y2 /\ c1 = c2 /\ r1 = r2
<1> DEFINE px1 == x1 * glyphWidth + c1
           py1 == y1 * glyphHeight + r1
           px2 == x2 * glyphWidth + c2
           py2 == y2 * glyphHeight + r2
<1>1. /\ px1 \in 0 .. pixelsPerScanLine - 1 /\ py1 \in Nat
      /\ Offset(px1, py1) = py1 * pixelsPerScanLine + px1
  BY PixelIndex
<1>2. /\ px2 \in 0 .. pixelsPerScanLine - 1 /\ py2 \in Nat
      /\ Offset(px2, py2) = py2 * pixelsPerScanLine + px2
  BY PixelIndex
<1>3. px1 = px2 /\ py1 = py2
  <2>1. py1 * pixelsPerScanLine + px1 = py2 * pixelsPerScanLine + px2
    BY <1>1, <1>2
  <2>2. pixelsPerScanLine \in Nat
    BY GeometryAssumption
  <2> HIDE DEF px1, py1, px2, py2
  <2>3. QED
    BY <1>1, <1>2, <2>1, <2>2, OneQuotient
<1>4. /\ glyphWidth \in Nat /\ c1 \in 0 .. glyphWidth - 1
      /\ c2 \in 0 .. glyphWidth - 1 /\ glyphHeight \in Nat
      /\ x1 \in Nat /\ x2 \in Nat
  BY GeometryAssumption, TerminalAssumption, GridFits DEF DrawnWidth
<1>5. x1 = x2 /\ c1 = c2
  BY <1>3, <1>4, OneQuotient
<1>6. y1 = y2 /\ r1 = r2
  BY <1>3, <1>4, OneQuotient
<1>7. QED
  BY <1>5, <1>6

\* Cells do not overlap, neither with each other nor with what is printed
\* below the last row.
LEMMA CellsApart ==
  ASSUME NEW x1 \in 0 .. m_numCharCols - 1, NEW y1 \in Nat, Unwrapped(y1),
         NEW x2 \in 0 .. m_numCharCols - 1, NEW y2 \in Nat, Unwrapped(y2),
         ~(x1 = x2 /\ y1 = y2)
  PROVE  Cell(x1, y1) \cap Cell(x2, y2) = {}
<1> SUFFICES ASSUME NEW c1 \in 0 .. DrawnWidth - 1,
                    NEW r1 \in 0 .. glyphHeight - 1,
                    NEW c2 \in 0 .. DrawnWidth - 1,
                    NEW r2 \in 0 .. glyphHeight - 1,
                    Offset(x1 * glyphWidth + c1, y1 * glyphHeight + r1)
                      = Offset(x2 * glyphWidth + c2, y2 * glyphHeight + r2)
             PROVE  FALSE
  BY DEF Cell
<1>1. QED
  BY PixelsApart

\* The cells of the grid are on the screen.
LEMMA GridOnScreen ==
  ASSUME NEW posX \in 0 .. m_numCharCols - 1, NEW posY \in 0 .. m_numCharRows - 1
  PROVE  Cell(posX, posY) \subseteq Screen
<1> SUFFICES ASSUME NEW c \in 0 .. DrawnWidth - 1,
                    NEW r \in 0 .. glyphHeight - 1
             PROVE  Offset(posX * glyphWidth + c, posY * glyphHeight + r)
                      \in Screen
  BY DEF Cell
<1>1. posY \in Nat /\ Unwrapped(posY) /\ posY + 1 <= m_numCharRows
  BY RowsAreUnwrapped, GridFits
<1>2. posX * glyphWidth + c \in 0 .. horizontalResolution - 1
  BY <1>1, PixelIndex
<1>3. posY * glyphHeight + r \in 0 .. verticalResolution - 1
  <2>1. (posY + 1) * glyphHeight <= m_numCharRows * glyphHeight
    BY <1>1, GridFits, GeometryAssumption
  <2>2. (posY + 1) * glyphHeight = posY * glyphHeight + glyphHeight
        /\ posY * glyphHeight \in Nat /\ m_numCharRows * glyphHeight \in Nat
    BY <1>1, GridFits, GeometryAssumption
  <2>3. QED
    BY <2>1, <2>2, GridFits, GeometryAssumption
<1>4. QED
  BY <1>2, <1>3 DEF Screen

\* A pixel of a cell is a pixel of the glyph exactly when its bit is set.
LEMMA StrokeIsLit ==
  ASSUME NEW posX \in 0 .. m_numCharCols - 1, NEW posY \in Nat, Unwrapped(posY),
         NEW ch, NEW c \in 0 .. DrawnWidth - 1, NEW r \in 0 .. glyphHeight - 1
  PROVE  Offset(posX * glyphWidth + c, posY * glyphHeight + r)
           \in Strokes(ch, posX, posY) <=> Lit(ch, r, c)
<1> DEFINE o == Offset(posX * glyphWidth + c, posY * glyphHeight + r)
<1>1. ASSUME Lit(ch, r, c) PROVE o \in Strokes(ch, posX, posY)
  <2>1. <<r, c>> \in {rc \in (0 .. glyphHeight - 1) \X (0 .. DrawnWidth - 1) :
                        Lit(ch, rc[1], rc[2])}
    BY <1>1
  <2>2. QED
    BY <2>1 DEF Strokes
<1>2. ASSUME o \in Strokes(ch, posX, posY) PROVE Lit(ch, r, c)
  <2>1. PICK rc \in (0 .. glyphHeight - 1) \X (0 .. DrawnWidth - 1) :
          /\ Lit(ch, rc[1], rc[2])
          /\ o = Offset(posX * glyphWidth + rc[2], posY * glyphHeight + rc[1])
    BY <1>2 DEF Strokes
  <2>2. rc[1] \in 0 .. glyphHeight - 1 /\ rc[2] \in 0 .. DrawnWidth - 1
    BY <2>1
  <2>3. rc[1] = r /\ rc[2] = c
    BY <2>1, <2>2, PixelsApart
  <2>4. QED
    BY <2>1, <2>3
<1>3. QED
  BY <1>1, <1>2

\* No two printed characters have the same pixels.
LEMMA GlyphsDiffer ==
  ASSUME NEW posX \in 0 .. m_numCharCols - 1, NEW posY \in Nat, Unwrapped(posY),
         NEW ch1 \in Printable, NEW ch2 \in Printable,
         Strokes(ch1, posX, posY) = Strokes(ch2, posX, posY)
  PROVE  ch1 = ch2
<1> SUFFICES ASSUME ch1 # ch2 PROVE FALSE
  OBVIOUS
<1>1. PICK r \in 0 .. glyphHeight - 1, c \in 0 .. DrawnWidth - 1 :
        ~(Lit(ch1, r, c) <=> Lit(ch2, r, c))
  BY TerminalAssumption
<1>2. QED
  BY <1>1, StrokeIsLit

\* The space has no pixel.
LEMMA SpaceIsBlank ==
  ASSUME NEW posX, NEW posY
  PROVE  Strokes(SpaceChar, posX, posY) = {}
<1>1. ASSUME NEW rc \in (0 .. glyphHeight - 1) \X (0 .. DrawnWidth - 1)
      PROVE  ~Lit(SpaceChar, rc[1], rc[2])
  BY TerminalAssumption
<1>2. QED
  BY <1>1 DEF Strokes

-----------------------------------------------------------------------------
(* The console is a terminal *)

\* The grid of cells, rows first.
Grid == (0 .. m_numCharRows - 1) \X (0 .. m_numCharCols - 1)

\* The pixels painted last as strokes are, in each cell of the grid, those of
\* one printed character.
Legible ==
  \A p \in Grid : \E ch \in Printable :
    Strokes(ch, p[2], p[1]) = ink \cap Cell(p[2], p[1])

\* In the framebuffer, with colours that differ, these pixels can be read off.
LEMMA OnePattern ==
  ASSUME NEW p \in Grid, NEW ch1 \in Printable, NEW ch2 \in Printable,
         NEW fb, NEW fg, NEW bg, fg # bg,
         \A a \in Cell(p[2], p[1]) :
           fb[a] = IF a \in Strokes(ch1, p[2], p[1]) THEN fg ELSE bg,
         \A a \in Cell(p[2], p[1]) :
           fb[a] = IF a \in Strokes(ch2, p[2], p[1]) THEN fg ELSE bg
  PROVE  ch1 = ch2
<1>1. p[2] \in 0 .. m_numCharCols - 1 /\ p[1] \in Nat /\ Unwrapped(p[1])
  BY RowsAreUnwrapped, GridFits DEF Grid
<1>2. Strokes(ch1, p[2], p[1]) = Strokes(ch2, p[2], p[1])
  BY StrokesInCell
<1>3. QED
  BY <1>1, <1>2, GlyphsDiffer

\* The grid shows, in each cell, the character whose strokes are its ink.
GridShowsInk ==
  \A p \in Grid : \A ch \in Printable :
    Strokes(ch, p[2], p[1]) = ink \cap Cell(p[2], p[1]) => Shown[p] = ch

\* The states of the callers like kmain are read off this way.
LEMMA ShownIsInk == PlainInv => GridShowsInk
<1> SUFFICES ASSUME PlainInv, NEW p \in Grid, NEW ch \in Printable,
                    Strokes(ch, p[2], p[1]) = ink \cap Cell(p[2], p[1])
             PROVE  Shown[p] = ch
  BY DEF GridShowsInk
<1>1. p[2] \in 0 .. m_numCharCols - 1 /\ p[1] \in 0 .. m_numCharRows - 1
  BY DEF Grid
<1>2. CASE Distinct
  <2>1. Cell(p[2], p[1]) \subseteq Screen
    BY <1>1, GridOnScreen
  <2>2. \A a \in Cell(p[2], p[1]) :
          frameBuffer[a] = IF a \in Strokes(ch, p[2], p[1])
                           THEN m_fgColor ELSE m_bgColor
    BY <1>2, <2>1 DEF PlainInv, Rendered
  <2>3. /\ Decode(p[2], p[1]) \in Printable
        /\ \A a \in Cell(p[2], p[1]) :
             frameBuffer[a] = IF a \in Strokes(Decode(p[2], p[1]), p[2], p[1])
                              THEN m_fgColor ELSE m_bgColor
    BY <2>2 DEF Decode
  <2>4. Decode(p[2], p[1]) = ch
    BY <1>2, <2>2, <2>3, OnePattern DEF Distinct
  <2>5. QED
    BY <1>2, <2>4 DEF Shown, Grid
<1>3. CASE ~Distinct
  <2>1. Strokes(ch, p[2], p[1]) = Strokes(SpaceChar, p[2], p[1])
    BY <1>3, SpaceIsBlank DEF PlainInv
  <2>2. p[1] \in Nat /\ Unwrapped(p[1]) /\ SpaceChar \in Printable
    BY <1>1, RowsAreUnwrapped, GridFits, TerminalAssumption
  <2>3. ch = SpaceChar
    BY <1>1, <2>1, <2>2, GlyphsDiffer
  <2>4. QED
    BY <1>3, <2>3 DEF Shown, Grid
<1>4. QED
  BY <1>2, <1>3

\* Ink that stays in the cells leaves the text alone.
LEMMA SameText ==
  ASSUME PlainInv, PlainInv', Legible,
         \A p \in Grid :
           ink' \cap Cell(p[2], p[1]) = ink \cap Cell(p[2], p[1])
  PROVE  Legible' /\ Shown' = Shown
<1>1. GridShowsInk /\ GridShowsInk'
  BY ShownIsInk, PTL
<1>2. ASSUME NEW p \in Grid
      PROVE  /\ \E ch \in Printable :
                  Strokes(ch, p[2], p[1]) = ink' \cap Cell(p[2], p[1])
             /\ Shown'[p] = Shown[p]
  <2>1. PICK ch \in Printable :
          Strokes(ch, p[2], p[1]) = ink \cap Cell(p[2], p[1])
    BY DEF Legible
  <2>2. Strokes(ch, p[2], p[1]) = ink' \cap Cell(p[2], p[1])
    BY <2>1
  <2>3. Shown[p] = ch
    BY <1>1, <2>1 DEF GridShowsInk
  <2>4. Shown'[p] = ch
    BY <1>1, <2>2 DEF GridShowsInk, Grid, Cell, Strokes, Offset, Lit, Printable, DrawnWidth, m_numCharCols, m_numCharRows
  <2>5. QED
    BY <2>2, <2>3, <2>4
<1>3. Legible'
  BY <1>2 DEF Legible, Grid, Cell, Strokes, Offset, Lit, Printable, DrawnWidth, m_numCharCols, m_numCharRows
<1>4. Shown' = Shown
  BY <1>2 DEF Shown, Grid, m_numCharCols, m_numCharRows
<1>5. QED
  BY <1>3, <1>4

\* A glyph in the current colours puts its character into the cell of the grid
\* it is drawn in, if it is drawn in one, and leaves every other cell as it is.
LEMMA DrawIsPut ==
  ASSUME PlainInv, PlainInv', Legible, Distinct,
         NEW ch \in Printable, DrawGlyph(ch, m_fgColor, m_bgColor),
         DrawY <= MaxPosY
  PROVE  Legible' /\ Console!Put(ch)
<1> DEFINE cell == Cell(DrawX, DrawY)
           strokes == Strokes(ch, DrawX, DrawY)
<1>1. GridShowsInk /\ GridShowsInk'
  BY ShownIsInk, PTL
<1>2. /\ DrawX \in 0 .. m_numCharCols - 1 /\ DrawY \in Nat
      /\ DrawX = IF m_currentCharPosX = m_numCharCols
                 THEN 0 ELSE m_currentCharPosX
      /\ DrawY = IF m_currentCharPosX = m_numCharCols
                 THEN m_currentCharPosY + 1 ELSE m_currentCharPosY
      /\ Unwrapped(DrawY)
  BY DrawPosition, RowsAreUnwrapped DEF PlainInv
<1>3. ink' = (ink \ cell) \cup (strokes \cap FbWords)
  BY DEF DrawGlyph
<1>4. ASSUME NEW p \in Grid
      PROVE  /\ \E c \in Printable :
                  Strokes(c, p[2], p[1]) = ink' \cap Cell(p[2], p[1])
             /\ Shown'[p] = IF p = <<DrawY, DrawX>> THEN ch ELSE Shown[p]
  <2>1. /\ p[2] \in 0 .. m_numCharCols - 1 /\ p[1] \in 0 .. m_numCharRows - 1
        /\ p[1] \in Nat /\ Unwrapped(p[1]) /\ p = <<p[1], p[2]>>
    BY RowsAreUnwrapped, GridFits DEF Grid
  <2>2. ASSUME NEW c \in Printable,
               Strokes(c, p[2], p[1]) = ink' \cap Cell(p[2], p[1])
        PROVE  Shown'[p] = c
    BY <1>1, <2>2 DEF GridShowsInk, Grid, Cell, Strokes, Offset, Lit,
                      Printable, DrawnWidth, m_numCharCols, m_numCharRows
  <2>3. CASE p = <<DrawY, DrawX>>
    <3>1. p[1] = DrawY /\ p[2] = DrawX
      BY <2>3
    <3>2. cell \subseteq FbWords /\ strokes \subseteq cell
      BY <2>1, <3>1, GridOnScreen, ScreenInFramebuffer, StrokesInCell
    <3>3. strokes = ink' \cap cell
      BY <1>3, <3>2
    <3>4. QED
      BY <2>2, <2>3, <3>1, <3>3
  <2>4. CASE p # <<DrawY, DrawX>>
    <3>1. ~(p[2] = DrawX /\ p[1] = DrawY)
      BY <2>1, <2>4
    <3>2. Cell(p[2], p[1]) \cap cell = {}
      BY <1>2, <2>1, <3>1, CellsApart
    <3>3. ink' \cap Cell(p[2], p[1]) = ink \cap Cell(p[2], p[1])
      BY <1>3, <3>2, StrokesInCell
    <3>4. PICK c \in Printable :
            Strokes(c, p[2], p[1]) = ink \cap Cell(p[2], p[1])
      BY DEF Legible
    <3>5. Shown[p] = c
      BY <1>1, <3>4 DEF GridShowsInk
    <3>6. QED
      BY <2>2, <2>4, <3>3, <3>4, <3>5
  <2>5. QED
    BY <2>3, <2>4
<1>5. Legible'
  BY <1>4 DEF Legible, Grid, Cell, Strokes, Offset, Lit, Printable,
              DrawnWidth, m_numCharCols, m_numCharRows
<1>6. Shown' = [p \in Grid |-> IF p = <<DrawY, DrawX>> THEN ch ELSE Shown[p]]
  BY <1>4 DEF Shown, Grid, m_numCharCols, m_numCharRows
<1>7. /\ m_currentCharPosX' = DrawX + 1 /\ m_currentCharPosY' = DrawY
      /\ UNCHANGED <<m_bgColor, m_fgColor>>
  BY DEF DrawGlyph, colors
<1>8. Console!Put(ch)
  BY <1>2, <1>6, <1>7 DEF Console!Put, Console!Positions, Grid, Distinct
<1>9. QED
  BY <1>5, <1>8

\* Every step of the callers like kmain is a step of the terminal, or none.
LEMMA TerminalStep ==
  PlainInv /\ PlainInv' /\ Legible /\ [PlainNext]_vars
    => Legible' /\ [Console!TNext]_Console!tvars
<1> SUFFICES ASSUME PlainInv, PlainInv', Legible, [PlainNext]_vars
             PROVE  Legible' /\ [Console!TNext]_Console!tvars
  OBVIOUS
<1>1. TypeOK
  BY DEF PlainInv
<1>2. ASSUME ink' = ink
      PROVE  Legible' /\ Shown' = Shown
  BY <1>2, SameText
<1>3. ASSUME UNCHANGED <<ink, cursor, colors>>
      PROVE  Legible' /\ UNCHANGED Console!tvars
  BY <1>2, <1>3 DEF cursor, colors, Console!tvars
<1>4. ASSUME UNCHANGED <<ink, cursor>>, m_bgColor' \in Colors,
             m_fgColor' \in Colors, m_fgColor' # m_bgColor'
      PROVE  Legible' /\ Console!TNext
  BY <1>2, <1>4 DEF cursor, Console!TNext, Console!Recolor
<1>5. ASSUME StartLine
      PROVE  Legible' /\ Console!TNext
  BY <1>2, <1>5 DEF StartLine, colors, Console!TNext, Console!Feed
<1>6. ASSUME NEW ch \in Chars, Distinct, m_currentCharPosY < MaxPosY,
             PutCharBody(ch, m_fgColor, m_bgColor)
      PROVE  Legible' /\ Console!TNext
  <2>1. CASE ch # NewLineChar /\ DrawGlyph(ch, m_fgColor, m_bgColor)
    <3>1. DrawY <= MaxPosY
      BY <1>1, <1>6, DrawPosition, DataAssumption DEF TypeOK
    <3>2. ch \in Printable
      BY <2>1 DEF Printable
    <3>3. QED
      BY <1>6, <2>1, <3>1, <3>2, DrawIsPut DEF Console!TNext, Printable
  <2>2. QED
    BY <1>5, <1>6, <2>1 DEF PutCharBody
<1>7. ASSUME NEW c \in Colors \ {m_fgColor}, SetBackgroundColor(c)
      PROVE  Legible' /\ Console!TNext
  BY <1>1, <1>4, <1>7 DEF SetBackgroundColor, TypeOK
<1>8. ASSUME NEW c \in Colors \ {m_bgColor}, SetForegroundColor(c)
      PROVE  Legible' /\ Console!TNext
  BY <1>1, <1>4, <1>8 DEF SetForegroundColor, TypeOK
<1>9. CASE ClearScreen
  <2>1. GridShowsInk'
    BY ShownIsInk, PTL
  <2>2. ink' = ink \ Screen /\ UNCHANGED <<cursor, colors>>
    BY <1>9 DEF ClearScreen
  <2>3. ASSUME NEW p \in Grid
        PROVE  /\ Strokes(SpaceChar, p[2], p[1]) = ink' \cap Cell(p[2], p[1])
               /\ Shown'[p] = SpaceChar
    <3>1. Cell(p[2], p[1]) \subseteq Screen
      BY GridOnScreen DEF Grid
    <3>2. Strokes(SpaceChar, p[2], p[1]) = ink' \cap Cell(p[2], p[1])
      BY <2>2, <3>1, SpaceIsBlank
    <3>3. QED
      BY <2>1, <3>2, TerminalAssumption
      DEF GridShowsInk, Grid, Cell, Strokes, Offset, Lit, Printable,
          DrawnWidth, m_numCharCols, m_numCharRows
  <2>4. Legible'
    BY <2>3, TerminalAssumption
    DEF Legible, Grid, Cell, Strokes, Offset, Lit, Printable, DrawnWidth,
        m_numCharCols, m_numCharRows
  <2>5. Shown' = [p \in Grid |-> SpaceChar]
    BY <2>3 DEF Shown, Grid, m_numCharCols, m_numCharRows
  <2>6. QED
    BY <2>2, <2>4, <2>5
    DEF cursor, colors, Grid, Console!TNext, Console!Erase, Console!Positions
<1>10. CASE NewLine
  BY <1>5, <1>10 DEF NewLine
<1>11. ASSUME NEW ch \in Chars, Distinct, PutChar(ch, m_fgColor, m_bgColor)
       PROVE  Legible' /\ Console!TNext
  BY <1>6, <1>11 DEF PutChar
<1>12. CASE \E s \in Strings : PutsCall(s, m_fgColor, m_bgColor)
  BY <1>3, <1>12 DEF PutsCall
<1>13. CASE PutsStep
  <2>1. ~Idle /\ Distinct /\ PutCharBody(Head(puts.str), m_fgColor, m_bgColor)
    BY <1>13 DEF PutsStep, PlainInv
  <2>2. Head(puts.str) \in Chars /\ Len(puts.str) \in Nat \ {0}
    BY <1>1, <2>1, PutsRest
  <2>3. m_currentCharPosY < MaxPosY
    BY <1>1, <2>2, DataAssumption DEF TypeOK
  <2>4. QED
    BY <1>6, <2>1, <2>2, <2>3
<1>14. CASE UNCHANGED vars
  BY <1>3, <1>14 DEF vars
<1>15. QED
  BY <1>7, <1>8, <1>9, <1>10, <1>11, <1>12, <1>13, <1>14 DEF PlainNext

\* Before anything is printed the terminal is empty, whatever the framebuffer
\* holds.
LEMMA TerminalInit == Init => PlainInv /\ Legible /\ Console!TInit
<1> SUFFICES ASSUME Init PROVE PlainInv /\ Legible /\ Console!TInit
  OBVIOUS
<1>1. PlainInv
  BY InitTypes DEF Init, PlainInv, Rendered, Distinct, Idle
<1>2. Legible
  BY SpaceIsBlank, TerminalAssumption DEF Init, Legible
<1>3. Shown = [p \in Grid |-> SpaceChar]
  BY DEF Init, Distinct, Shown, Grid
<1>4. QED
  BY <1>1, <1>2, <1>3, DataAssumption
  DEF Init, Console!TInit, Console!Positions, Grid

\* For every screen, font and text that satisfy the assumptions, and every
\* use of the class that keeps the two colours apart, TTY is the terminal its
\* callers expect: a cell reads as the character last printed there, until it
\* is printed on again or cleared, through every recolouring.
THEOREM TheConsoleIsATerminal == PlainSpec => ImplementsTerminal
<1>1. QED
  BY TerminalInit, TerminalStep, PlainStep, PTL
  DEF PlainSpec, ImplementsTerminal, Console!TSpec

=============================================================================
