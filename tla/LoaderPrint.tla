----------------------------- MODULE LoaderPrint -----------------------------
(***************************************************************************)
(* The loader's print and println: print_internal walks a format and fills *)
(* a buffer of fixed size on the stack, itoa writes a numeral backwards to *)
(* another one and reverses it.                                            *)
(*                                                                         *)
(* bufferPos and itoa's bufPos are the lengths of the two sequences.       *)
(***************************************************************************)
EXTENDS Integers, Sequences, SequencesExt

CONSTANTS
  Characters,            \* CHAR16: one-letter strings, and the terminator
  Formats,               \* the formats callers pass
  Arguments,             \* the bit patterns callers pass, pointers included
  IntRange,              \* how many values an int has: 2 ^ 32
  Uint64Range,           \* how many values a UINT64 has: 2 ^ 64
  MaxChars,              \* MAX_CHARS
  MaxNumericLength       \* MAX_NUMERIC_LENGTH

NUL == "NUL"

VARIABLES
  fmt, addEOL,           \* the parameters
  fmtPosition, buffer,   \* buffer up to bufferPos
  value, base, valcopy, intBuffer,   \* itoa
  pc,
  reached,               \* history: how far into buffer was written
  passed                 \* history: the arguments taken from the list

itoaVars == <<value, base, valcopy, intBuffer>>
vars == <<fmt, addEOL, fmtPosition, buffer, itoaVars, pc, reached, passed>>

-----------------------------------------------------------------------------
(* Numbers *)

IntMin == -(IntRange \div 2)

\* va_arg(args, int): the low part of what was passed, with a sign.
AsInt(bits) == ((bits - IntMin) % IntRange) + IntMin

\* The conversion of an int to the UINT64 parameter.
AsUINT64(n) == n % Uint64Range

\* ASCII from '0' on, with the gap of seven before the letters skipped.
Digit(d) == <<"0", "1", "2", "3", "4", "5", "6", "7", "8", "9",
              "A", "B", "C", "D", "E", "F">>[d + 1]

\* The numeral of a number that an int or an unsigned int can be.
Numeral(n, b) ==
  LET numeral[k \in 0 .. IntRange] ==
        IF k < b THEN <<Digit(k)>>
        ELSE Append(numeral[k \div b], Digit(k % b))
  IN  numeral[n]

Magnitude(n) == IF n < 0 THEN -n ELSE n

\* An int is two's complement, and its numeral fits in itoa's buffer: one of
\* 32 bits has 10 digits, and the buffer 24 places.
ASSUME LoaderPrintAssumption ==
  /\ {NUL, "%", "\n", "\r", "-", "?", "{", "E", "R", "}"} \subseteq Characters
  /\ \A d \in 0 .. 15 : Digit(d) \in Characters
  /\ Formats \subseteq Seq(Characters \ {NUL})
  /\ IntRange \in Nat \ {0} /\ IntRange % 2 = 0
  /\ Uint64Range \in Nat \ {0} /\ IntRange <= Uint64Range
  /\ Arguments \subseteq 0 .. Uint64Range - 1
  /\ MaxChars \in Nat \ {0} /\ MaxNumericLength \in Nat \ {0}
  /\ \A n \in IntMin .. -IntMin, b \in {10, 16} :
       Len(Numeral(Magnitude(n), b)) <= MaxNumericLength

At(pos) == IF pos < Len(fmt) THEN fmt[pos + 1] ELSE NUL

-----------------------------------------------------------------------------
(* print_internal *)

Init ==
  /\ fmt \in Formats /\ addEOL \in BOOLEAN
  /\ fmtPosition = 0 /\ buffer = <<>>
  /\ value = 0 /\ base = 10 /\ valcopy = 0 /\ intBuffer = <<>>
  /\ pc = "text" /\ reached = 0 /\ passed = <<>>

\* text is written at bufferPos; the position moves behind it.
Put(text) ==
  /\ buffer' = buffer \o text
  /\ reached' = IF Len(buffer') > reached THEN Len(buffer') ELSE reached

PutLiteral ==
  /\ pc = "text" /\ At(fmtPosition) \notin {"%", NUL}
  /\ Put(<<At(fmtPosition)>>)
  /\ fmtPosition' = fmtPosition + 1
  /\ UNCHANGED <<fmt, addEOL, itoaVars, pc, passed>>

PutPercent ==
  /\ pc = "text" /\ At(fmtPosition) = "%" /\ At(fmtPosition + 1) = "%"
  /\ Put(<<"%">>)
  /\ fmtPosition' = fmtPosition + 2
  /\ UNCHANGED <<fmt, addEOL, itoaVars, pc, passed>>

\* Mutant: what follows the '%' is skipped as well, the terminator too.
SkipUnknown ==
  /\ pc = "text" /\ At(fmtPosition) = "%"
  /\ At(fmtPosition + 1) \notin {"%", "d", "x"}
  /\ fmtPosition' = fmtPosition + 2
  /\ UNCHANGED <<fmt, addEOL, buffer, itoaVars, pc, reached, passed>>

\* Mutant: only the cases of the switch move the position.
DropPercentStays ==
  /\ pc = "text" /\ At(fmtPosition) = "%"
  /\ At(fmtPosition + 1) \notin {"%", "d", "x"}
  /\ UNCHANGED vars

\* The switch has no default: the '%' is dropped and the character behind it
\* is the next one of the text, or its end.
DropPercent ==
  /\ pc = "text" /\ At(fmtPosition) = "%"
  /\ At(fmtPosition + 1) \notin {"%", "d", "x"}
  /\ fmtPosition' = fmtPosition + 1
  /\ UNCHANGED <<fmt, addEOL, buffer, itoaVars, pc, reached, passed>>

\* Mutant: the line's end goes behind the terminator.
FinishBehindTerminator ==
  /\ pc = "text" /\ At(fmtPosition) = NUL
  /\ Put(<<NUL>> \o (IF addEOL THEN <<"\n", "\r", NUL>> ELSE <<>>))
  /\ pc' = "done"
  /\ UNCHANGED <<fmt, addEOL, fmtPosition, itoaVars, passed>>

\* The line's end takes the place of the terminator; OutputString prints.
Finish ==
  /\ pc = "text" /\ At(fmtPosition) = NUL
  /\ Put(IF addEOL THEN <<"\n", "\r", NUL>> ELSE <<NUL>>)
  /\ pc' = "done"
  /\ UNCHANGED <<fmt, addEOL, fmtPosition, itoaVars, passed>>

-----------------------------------------------------------------------------
(* itoa *)

\* __builtin_abs takes the value back to an int.  Of the least int it has no
\* result: a build either keeps it, and finds no digit to write, or assumes
\* that it is positive, and writes the remainders of a negative number.
OpenNumber ==
  /\ pc = "text" /\ At(fmtPosition) = "%" /\ At(fmtPosition + 1) \in {"d", "x"}
  /\ fmtPosition' = fmtPosition + 1
  /\ base' = IF At(fmtPosition + 1) = "d" THEN 10 ELSE 16
  /\ \E bits \in Arguments :
       LET n == AsInt(bits)
       IN  /\ passed' = Append(passed, bits)
           /\ value' = AsUINT64(n)
           /\ valcopy' = IF n = IntMin THEN n ELSE Magnitude(n)
           /\ intBuffer' = IF n = 0 THEN <<"0">> ELSE <<>>
           /\ \/ pc' = IF n = 0 THEN "copy" ELSE "digits"
              \/ n = IntMin /\ pc' = "remainders"
  /\ UNCHANGED <<fmt, addEOL, buffer, reached>>

\* Another turn of the loop: a digit, or a message in place of a numeral that
\* is too long for its buffer, which is not reversed.
AddDigit(ch, quotient) ==
  /\ IF Len(intBuffer) > MaxNumericLength
     THEN /\ intBuffer' = <<"{", "E", "R", "R", "}">>
          /\ pc' = "copy" /\ UNCHANGED valcopy
     ELSE /\ intBuffer' = Append(intBuffer, ch)
          /\ valcopy' = quotient /\ UNCHANGED pc
  /\ UNCHANGED <<fmt, addEOL, fmtPosition, buffer, value, base, reached, passed>>

\* Mutant: the division that gives the digit is done twice.
PutDigitOfQuotient ==
  /\ pc = "digits" /\ valcopy > 0
  /\ AddDigit(Digit((valcopy \div base) % base), valcopy \div base)

PutDigit ==
  /\ pc = "digits" /\ valcopy > 0
  /\ AddDigit(Digit(valcopy % base), valcopy \div base)

\* 48 plus a remainder that is not positive: "?" stands for what that prints.
PutRemainder ==
  pc = "remainders" /\ valcopy # 0 /\ AddDigit("?", -((-valcopy) \div base))

\* The sign is for a value below zero, which a UINT64 never is.
FinishNumeral ==
  /\ \/ pc = "digits" /\ valcopy <= 0
     \/ pc = "remainders" /\ valcopy = 0
  /\ intBuffer' = Reverse(intBuffer \o IF base = 10 /\ value < 0
                                       THEN <<"-">> ELSE <<>>)
  /\ pc' = "copy"
  /\ UNCHANGED <<fmt, addEOL, fmtPosition, buffer, value, base, valcopy,
                 reached, passed>>

CopyNumeral ==
  /\ pc = "copy"
  /\ Put(intBuffer)
  /\ fmtPosition' = fmtPosition + 1
  /\ pc' = "text"
  /\ UNCHANGED <<fmt, addEOL, itoaVars, passed>>

Next == \/ PutLiteral \/ PutPercent \/ DropPercent \/ OpenNumber
        \/ PutDigit \/ PutRemainder \/ FinishNumeral
        \/ CopyNumeral \/ Finish

Spec == Init /\ [][Next]_vars

\* Nothing else runs while the loader prints.
FairSpec == Spec /\ WF_vars(Next)

-----------------------------------------------------------------------------
(* What C's printf prints for the same call, with its X for print's x      *)

\* print's %x has "the letters A...F", as C's %X has; C's %x has a...f.
InC(conversion) == IF conversion = "x" THEN "X" ELSE conversion

\* The numerals of C's conversions d and X.
CNumeral(conversion, bits) ==
  LET n == AsInt(bits)
  IN  IF conversion = "X" THEN Numeral(n % IntRange, 16)
      ELSE IF n >= 0 THEN Numeral(n, 10)
      ELSE <<"-">> \o Numeral(-n, 10)

\* What printf prints from a position of the format on, after a number of the
\* arguments, if the format has X where it now has x.  A '%' that starts no
\* conversion is left out, as print_internal does.
CTextFrom(args) ==
  LET from[pos \in 0 .. Len(fmt)] == [used \in Nat |->
        IF At(pos) = NUL THEN IF addEOL THEN <<"\n", "\r">> ELSE <<>>
        ELSE IF At(pos) # "%" THEN <<At(pos)>> \o from[pos + 1][used]
        ELSE IF At(pos + 1) = "%" THEN <<"%">> \o from[pos + 2][used]
        ELSE IF At(pos + 1) \in {"d", "x"}
             THEN CNumeral(InC(At(pos + 1)), args[used + 1])
                    \o from[pos + 2][used + 1]
        ELSE from[pos + 1][used]]
  IN  from

CText == CTextFrom(passed)[0][0]

-----------------------------------------------------------------------------
(* Properties *)

\* The positions stay in the format and in itoa's buffer: no int has a numeral
\* in base 10 or 16 that reaches the test for MAX_NUMERIC_LENGTH.
TypeOK ==
  /\ fmt \in Formats /\ addEOL \in BOOLEAN
  /\ fmtPosition \in 0 .. Len(fmt)
  /\ buffer \in Seq(Characters) /\ reached \in Nat
  /\ base \in {10, 16} /\ value \in 0 .. Uint64Range - 1
  /\ valcopy \in IntMin .. -IntMin - 1
  /\ intBuffer \in Seq(Characters) /\ Len(intBuffer) <= MaxNumericLength
  /\ pc \in {"text", "digits", "remainders", "copy", "done"}

\* For ints that are not negative, print prints what printf prints for the
\* format with X in place of x (the letters of a hexadecimal numeral are
\* capitals), with the console's line end behind it if there is one, and the
\* terminator last.
MatchesC ==
  (pc = "done" /\ \A n \in DOMAIN passed : AsInt(passed[n]) >= 0) =>
    buffer = Append(CText, NUL)

\* Nothing is written beyond the buffer of MAX_CHARS (the TODO at print_internal
\* names the hazard) unless printf's text would not fit there either, whatever
\* pointers and negative numbers are passed.
OverrunsOnlyIfCWould ==
  pc = "done" => reached <= MaxChars \/ Len(CText) + 1 > MaxChars

\* Every call comes to its end, itoa's loop included.
Terminates == <>(pc = "done")

=============================================================================
