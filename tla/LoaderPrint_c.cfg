\* Formats of up to five characters; 7 characters fit in the buffer.
CONSTANTS
  Characters <- MCCharacters
  Formats <- MCFormats
  Arguments <- MCArguments
  IntRange = 128
  Uint64Range = 16384
  MaxChars = 7
  MaxNumericLength = 3
SPECIFICATION FairSpec
INVARIANTS TypeOK MatchesC OverrunsOnlyIfCWould
PROPERTY Terminates
CHECK_DEADLOCK FALSE
