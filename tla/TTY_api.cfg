\* Any caller of the public methods, on a 2 x 2 console with one spare word
\* at the end of each scan line.
CONSTANTS
  Word = 256
  horizontalResolution = 4
  verticalResolution = 2
  pixelsPerScanLine = 5
  glyphWidth = 2
  glyphHeight = 1
  glyphSizeInBytes = 2
  ByteBits = 1
  TailBits = 1
  FontBuffer <- MCFontOneRow
  NewLineChar = 3
  Chars <- MCChars
  Strings <- MCStrings
  Colors <- MCColors
  Black = Black
  Red = Red
  Green = Green
  BootScreens <- MCBlank
  MaxPosY = 4
  SpaceChar = 0
SPECIFICATION Spec
INVARIANTS TypeOK LineLayout ClippedOnlyBelow
PROPERTY PaddingUntouched
