\* Callers like kmain: two rows of cells, and part of a third row of pixels
\* below them.
CONSTANTS
  Word = 256
  horizontalResolution = 4
  verticalResolution = 5
  pixelsPerScanLine = 5
  glyphWidth = 2
  glyphHeight = 2
  glyphSizeInBytes = 4
  ByteBits = 1
  TailBits = 1
  FontBuffer <- MCFontTwoRows
  NewLineChar = 3
  Chars <- MCTwoGlyphs
  Strings <- MCLongStrings
  Colors <- MCThreeColors
  Black = Black
  Red = Red
  Green = Green
  BootScreens <- MCLeftover
  MaxPosY = 3
  SpaceChar = 0
SPECIFICATION PlainSpec
INVARIANT Rendered
PROPERTY ImplementsTerminal
