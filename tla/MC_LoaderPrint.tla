--------------------------- MODULE MC_LoaderPrint ---------------------------
(***************************************************************************)
(* All formats of up to five of four characters, ints of seven bits in      *)
(* arguments of fourteen, and a buffer that the longer texts exceed.       *)
(***************************************************************************)
EXTENDS LoaderPrint

MCCharacters ==
  {NUL, "%", "\n", "\r", "-", "?", "{", "}", "a", "d", "x"} \cup
  {Digit(d) : d \in 0 .. 15} \cup {"E", "R"}

MCFormats == SeqOf({"%", "d", "x", "a"}, 5)

\* Zero, one digit, a digit that is a letter, the greatest and the least int,
\* minus one, and a pointer whose low half is a small negative number.
MCArguments == {0, 7, 43, 63, 64, 127, 8192 + 74}

=============================================================================
