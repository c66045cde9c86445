\* The formats of kmain: a field width in an earlier conversion.
CONSTANTS
  Formats <- MCKmainFormats
  Itoa <- MCItoa
  Ints <- MCInts
  Uints <- MCUints
  Texts <- MCTexts
  Letters <- MCLetters
SPECIFICATION Spec
INVARIANT OnlyRequestedPadding
CHECK_DEADLOCK FALSE
