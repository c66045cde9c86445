------------------------------ MODULE Kprintf ------------------------------
(***************************************************************************)
(* TTY::kprintf and PrintFormattedWithModifiers: one pass over a format    *)
(* that hands characters to PutChar.  The stages of a conversion           *)
(* specification are pc = "flags", "precision" and "convert"; the modifiers *)
(* they read are variables of the whole call, as in the code.              *)
(*                                                                         *)
(* Characters are one-letter strings, but for BLANK and NUL, which stands  *)
(* for what is behind the last one.  libk's itoa is the constant Itoa,     *)
(* strtol is Number.                                                       *)
(***************************************************************************)
EXTENDS Integers, Sequences

CONSTANTS
  Formats,               \* the formats callers pass
  Itoa(_, _),            \* the numeral of a value in a base
  Ints, Uints,           \* the values of int and unsigned arguments
  Texts, Letters         \* the values of arguments for %s and %c

Digits == {"0", "1", "2", "3", "4", "5", "6", "7", "8", "9"}
Blank == "BLANK"
FlagChars == {"-", "#", "0", Blank, "+"}
NUL == "NUL"

ASSUME KprintfAssumption ==
  /\ Formats \subseteq Seq(STRING \ {NUL})
  /\ \A v \in Ints \cup Uints, b \in {8, 10, 16} :
       Itoa(v, b) \in Seq(STRING) \ {<<>>}
  /\ Ints \subseteq Int /\ Uints \subseteq Nat
  /\ Texts \subseteq Seq(STRING) /\ Letters \subseteq STRING

VARIABLES
  format,                \* the parameter
  bufPos, totalPadding, totalPrecision, leftAdjusted, useAlternateForm,
  pc,
  out,                   \* what was handed to PutChar
  passed                 \* history: the arguments taken from the list

modifiers == <<totalPadding, totalPrecision, leftAdjusted, useAlternateForm>>
vars == <<format, bufPos, modifiers, pc, out, passed>>

-----------------------------------------------------------------------------
(* The characters of the format *)

At(pos) == IF pos < Len(format) THEN format[pos + 1] ELSE NUL

\* The end of the digits at pos, and their value.
DigitsEnd(pos) ==
  CHOOSE end \in pos .. Len(format) :
    /\ \A n \in pos .. end - 1 : At(n) \in Digits
    /\ At(end) \notin Digits

DigitValue(d) ==
  CHOOSE n \in 0 .. 9 :
    d = <<"0", "1", "2", "3", "4", "5", "6", "7", "8", "9">>[n + 1]

Decimal(pos) ==
  LET value[end \in pos .. DigitsEnd(pos)] ==
        IF end = pos THEN 0 ELSE 10 * value[end - 1] + DigitValue(At(end - 1))
  IN  value[DigitsEnd(pos)]

\* strtol at pos, in base 10: its result and where it stops.  Blanks and a
\* sign may precede the digits, and count only if there are digits.
Number(pos) ==
  LET afterBlanks == CHOOSE n \in pos .. Len(format) :
                       At(n) # Blank /\ \A k \in pos .. n - 1 : At(k) = Blank
      start == IF At(afterBlanks) \in {"-", "+"} THEN afterBlanks + 1
                                                 ELSE afterBlanks
      sign == IF At(afterBlanks) = "-" THEN -1 ELSE 1
  IN  IF At(start) \in Digits
      THEN [value |-> sign * Decimal(start), end |-> DigitsEnd(start)]
      ELSE [value |-> 0, end |-> pos]

-----------------------------------------------------------------------------
(* PrintFormattedWithModifiers *)

Repeat(ch, n) == [k \in 1 .. n |-> ch]

\* precisionAmount >= strlen(str) compares as unsigned: a negative precision
\* passes, and makes the number of zeroes negative.
NumZeroes(str) ==
  IF totalPrecision < 0 \/ totalPrecision >= Len(str)
  THEN totalPrecision - Len(str) ELSE 0

\* Mutant: the zeroes are not taken off the spaces.
NumSpacesOfNumeral(str) ==
  IF totalPadding > Len(str) THEN totalPadding - Len(str) ELSE 0

\* paddingAmount > strlen(str) + numZeroes, unsigned again: a negative sum is
\* larger than any padding.
NumSpaces(str) ==
  LET used == Len(str) + NumZeroes(str)
  IN  IF used >= 0 /\ totalPadding > used THEN totalPadding - used ELSE 0

\* What is printed for the numeral str.  The sign of a negative number is
\* taken off the zeroes and the spaces, and stays behind the zeroes; the sign
\* of the alternate form (hexSign, octalZero) is not counted at all.
Formatted(str, hexSign, octalZero) ==
  LET minus == IF str[1] = "-" THEN 1 ELSE 0
      spaces == Repeat(Blank, NumSpaces(str) - minus)
      number == hexSign \o Repeat("0", NumZeroes(str) - minus)
                  \o octalZero \o str
  IN  IF leftAdjusted THEN number \o spaces ELSE spaces \o number

Alternate(prefix) == IF useAlternateForm THEN prefix ELSE <<>>

-----------------------------------------------------------------------------
(* kprintf *)

Init ==
  /\ format \in Formats
  /\ bufPos = 0 /\ totalPadding = 0 /\ totalPrecision = 0
  /\ leftAdjusted = FALSE /\ useAlternateForm = FALSE
  /\ pc = "text" /\ out = <<>> /\ passed = <<>>

Finish ==
  /\ pc = "text" /\ At(bufPos) = NUL
  /\ pc' = "done"
  /\ UNCHANGED <<format, bufPos, modifiers, out, passed>>

PrintLiteral ==
  /\ pc = "text" /\ At(bufPos) \notin {"%", NUL}
  /\ out' = Append(out, At(bufPos))
  /\ bufPos' = bufPos + 1
  /\ UNCHANGED <<format, modifiers, pc, passed>>

OpenConversion ==
  /\ pc = "text" /\ At(bufPos) = "%"
  /\ bufPos' = bufPos + 1 /\ pc' = "flags"
  /\ UNCHANGED <<format, modifiers, out, passed>>

\* Mutant: the loop over the flags does not advance.
FlagStays ==
  /\ pc = "flags" /\ At(bufPos) \in FlagChars
  /\ leftAdjusted' = (leftAdjusted \/ At(bufPos) = "-")
  /\ useAlternateForm' = (useAlternateForm \/ At(bufPos) = "#")
  /\ UNCHANGED <<format, bufPos, totalPadding, totalPrecision, pc, out, passed>>

\* One flag; '0', ' ' and '+' are accepted and forgotten.
Flag ==
  /\ pc = "flags" /\ At(bufPos) \in FlagChars
  /\ leftAdjusted' = (leftAdjusted \/ At(bufPos) = "-")
  /\ useAlternateForm' = (useAlternateForm \/ At(bufPos) = "#")
  /\ bufPos' = bufPos + 1
  /\ UNCHANGED <<format, totalPadding, totalPrecision, pc, out, passed>>

\* Mutant: one more than the digits of the padding is skipped.
PaddingSkipsOneMore ==
  /\ pc = "flags" /\ At(bufPos) \notin FlagChars
  /\ IF At(bufPos) \in Digits
     THEN /\ totalPadding' = Number(bufPos).value
          /\ bufPos' = Number(bufPos).end + 1
     ELSE UNCHANGED <<totalPadding, bufPos>>
  /\ pc' = "precision"
  /\ UNCHANGED <<format, totalPrecision, leftAdjusted, useAlternateForm, out,
                 passed>>

\* "Determine requested padding, if any": if none, the one before stays.
Padding ==
  /\ pc = "flags" /\ At(bufPos) \notin FlagChars
  /\ IF At(bufPos) \in Digits
     THEN /\ totalPadding' = Number(bufPos).value
          /\ bufPos' = Number(bufPos).end
     ELSE UNCHANGED <<totalPadding, bufPos>>
  /\ pc' = "precision"
  /\ UNCHANGED <<format, totalPrecision, leftAdjusted, useAlternateForm, out,
                 passed>>

Precision ==
  /\ pc = "precision"
  /\ IF At(bufPos) = "."
     THEN /\ totalPrecision' = Number(bufPos + 1).value
          /\ bufPos' = Number(bufPos + 1).end
     ELSE UNCHANGED <<totalPrecision, bufPos>>
  /\ pc' = "convert"
  /\ UNCHANGED <<format, totalPadding, leftAdjusted, useAlternateForm, out,
                 passed>>

\* va_arg: the caller passed val; what is printed for it is text.
Take(val, text) == passed' = Append(passed, val) /\ out' = out \o text

ConvertNumber ==
  \/ /\ At(bufPos) \in {"d", "i"}
     /\ \E val \in Ints : Take(val, Formatted(Itoa(val, 10), <<>>, <<>>))
  \/ /\ At(bufPos) = "u"
     /\ \E val \in Uints : Take(val, Formatted(Itoa(val, 10), <<>>, <<>>))
  \/ /\ At(bufPos) = "o"
     /\ \E val \in Uints :
          Take(val, Formatted(Itoa(val, 8), <<>>, Alternate(<<"0">>)))
  \/ /\ At(bufPos) \in {"x", "X"}
     /\ \E val \in Uints :
          Take(val, Formatted(Itoa(val, 16), Alternate(<<"0", "x">>), <<>>))
  \/ /\ At(bufPos) = "p"
     /\ \E val \in Uints : Take(val, Formatted(Itoa(val, 16), <<>>, <<>>))

\* Padding and precision do not apply; any other character prints nothing.
ConvertText ==
  \/ At(bufPos) = "c" /\ \E val \in Letters : Take(val, <<val>>)
  \/ At(bufPos) = "s" /\ \E val \in Texts : Take(val, val)
  \/ At(bufPos) = "%" /\ out' = Append(out, "%") /\ UNCHANGED passed
  \/ /\ At(bufPos) \notin {"c", "s", "%", "d", "i", "u", "o", "x", "X", "p"}
     /\ UNCHANGED <<out, passed>>

\* The character after the conversion is looked at next even if the
\* conversion character was the terminator; nothing is known of what follows.
Convert ==
  /\ pc = "convert"
  /\ ConvertNumber \/ ConvertText
  /\ bufPos' = bufPos + 1
  /\ pc' = IF At(bufPos) = NUL THEN "beyond" ELSE "text"
  /\ UNCHANGED <<format, modifiers>>

Next == \/ Finish \/ PrintLiteral \/ OpenConversion
        \/ Flag \/ Padding \/ Precision \/ Convert

Spec == Init /\ [][Next]_vars

\* kprintf is a loop that nothing else runs beside.
FairSpec == Spec /\ WF_vars(Next)

-----------------------------------------------------------------------------
(* Properties *)

TypeOK ==
  /\ format \in Formats
  /\ bufPos \in 0 .. Len(format) + 1
  /\ totalPadding \in Nat /\ totalPrecision \in Int
  /\ leftAdjusted \in BOOLEAN /\ useAlternateForm \in BOOLEAN
  /\ pc \in {"text", "flags", "precision", "convert", "done", "beyond"}

\* The format stops inside a conversion: after its last '%' come only
\* characters that may precede the conversion character.
ModifierChars == FlagChars \cup Digits \cup {"."}

CutOff ==
  \E n \in 0 .. Len(format) - 1 :
    /\ At(n) = "%"
    /\ \A k \in n + 1 .. Len(format) - 1 : At(k) \in ModifierChars

\* kprintf advances once more after the switch whatever it found there, and
\* strtol moves by any distance; still it reads past the terminator only of
\* a format that is cut off, and no format makes it jump over the terminator.
OverreadsOnlyIfCutOff ==
  /\ pc # "beyond" => bufPos <= Len(format)
  /\ pc = "beyond" => CutOff

\* Every call returns, or has left the format for good.
Terminates == <>(pc \in {"done", "beyond"})

=============================================================================
