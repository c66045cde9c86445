\* Every modifier, two conversions, and short formats of any characters.
CONSTANTS
  Formats <- MCFormats
  Itoa <- MCItoa
  Ints <- MCInts
  Uints <- MCUints
  Texts <- MCTexts
  Letters <- MCLetters
SPECIFICATION FairSpec
INVARIANTS TypeOK MatchesC OverreadsOnlyIfCutOff
PROPERTY Terminates
CHECK_DEADLOCK FALSE
