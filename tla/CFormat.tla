------------------------------ MODULE CFormat ------------------------------
(***************************************************************************)
(* What the C standard says fprintf prints, for the conversions kprintf    *)
(* has, and the part of it that kprintf implements.  Written from the      *)
(* standard kprintf's comment refers to, not from kprintf's code: a        *)
(* conversion specification is read as a whole, and its modifiers are its  *)
(* own.                                                                    *)
(***************************************************************************)
EXTENDS Kprintf

Capitals == {"A", "B", "C", "D", "E", "F"}

\* libk's itoa gives the usual numerals: in small letters, with no minus sign for
\* a number that is not negative, no zero in front of the first digit, and a
\* negative number's is that of its magnitude behind a minus sign.
ASSUME CFormatAssumption ==
  /\ \A v \in Ints \cup Uints, b \in {8, 10, 16} :
       /\ \A n \in 1 .. Len(Itoa(v, b)) : Itoa(v, b)[n] \notin Capitals
       /\ v >= 0 => Itoa(v, b)[1] # "-"
       /\ v > 0 => Itoa(v, b)[1] # "0"
  /\ \A v \in Ints :
       v < 0 => /\ Itoa(-v, 10) \in Seq(STRING) \ {<<>>}
                /\ Itoa(v, 10) = <<"-">> \o Itoa(-v, 10)

\* The end of the flags behind the '%' at pos.
FlagsEnd(pos) ==
  CHOOSE e \in pos + 1 .. Len(format) :
    /\ At(e) \notin FlagChars
    /\ \A k \in pos + 1 .. e - 1 : At(k) \in FlagChars

\* The conversion specification whose '%' is at pos.
Specification(pos) ==
  LET widthEnd == DigitsEnd(FlagsEnd(pos))
      precise == At(widthEnd) = "."
      end == IF precise THEN DigitsEnd(widthEnd + 1) ELSE widthEnd
  IN  [flags |-> {At(k) : k \in pos + 1 .. FlagsEnd(pos) - 1},
       width |-> Decimal(FlagsEnd(pos)),
       precise |-> precise,
       precision |-> IF precise THEN Decimal(widthEnd + 1) ELSE 1,
       conversion |-> At(end),
       end |-> end]

Numeric == {"d", "i", "u", "o", "x", "X", "p"}
Arguments == Numeric \cup {"c", "s"}

Most(a, b) == IF a >= b THEN a ELSE b
Magnitude(val) == IF val < 0 THEN -val ELSE val
Base(conversion) ==
  CASE conversion = "o" -> 8
    [] conversion \in {"x", "X", "p"} -> 16
    [] OTHER -> 10

\* "The letters abcdef are used for x conversion and the letters ABCDEF for X."
Capital(digit) ==
  CASE digit = "a" -> "A" [] digit = "b" -> "B" [] digit = "c" -> "C"
    [] digit = "d" -> "D" [] digit = "e" -> "E" [] digit = "f" -> "F"
    [] OTHER -> digit

CNumeral(conversion, val) ==
  LET numeral == Itoa(Magnitude(val), Base(conversion))
  IN  IF conversion = "X" THEN [n \in DOMAIN numeral |-> Capital(numeral[n])]
      ELSE numeral

\* The precision is the least number of digits, and zero has none of its own.
CDigits(spec, val) ==
  LET numeral == IF val = 0 /\ spec.precision = 0 THEN <<>>
                 ELSE CNumeral(spec.conversion, val)
      digits == Repeat("0", spec.precision - Len(numeral)) \o numeral
      octal == "#" \in spec.flags /\ spec.conversion = "o"
  IN  IF octal /\ (digits = <<>> \/ digits[1] # "0") THEN <<"0">> \o digits
                                                     ELSE digits

CSign(spec, val) ==
  IF val < 0 THEN <<"-">>
  ELSE IF "+" \in spec.flags /\ spec.conversion \in {"d", "i"} THEN <<"+">>
  ELSE IF Blank \in spec.flags /\ spec.conversion \in {"d", "i"} THEN <<Blank>>
  ELSE IF "#" \in spec.flags /\ spec.conversion \in {"x", "X"} /\ val # 0
       THEN <<"0", spec.conversion>>
  ELSE <<>>

\* What one conversion prints for val, in a field of the width.
CConversion(spec, val) ==
  LET sign == IF spec.conversion \in Numeric THEN CSign(spec, val) ELSE <<>>
      body == IF spec.conversion \in Numeric THEN CDigits(spec, val)
              ELSE IF spec.conversion = "c" THEN <<val>>
              ELSE IF spec.precise
                   THEN SubSeq(val, 1, IF spec.precision < Len(val)
                                       THEN spec.precision ELSE Len(val))
                   ELSE val
      missing == spec.width - Len(sign) - Len(body)
      zeroes == /\ "0" \in spec.flags /\ ~spec.precise
                /\ spec.conversion \in Numeric
  IN  IF "-" \in spec.flags THEN sign \o body \o Repeat(Blank, missing)
      ELSE IF zeroes THEN sign \o Repeat("0", missing) \o body
      ELSE Repeat(Blank, missing) \o sign \o body

\* The text for the format from a position on, after a number of arguments.  A
\* specification that the end of the format cuts off has no text.
CTextFrom(args) ==
  LET from[pos \in 0 .. Len(format)] == [used \in Nat |->
        IF At(pos) = NUL THEN <<>>
        ELSE IF At(pos) # "%" THEN <<At(pos)>> \o from[pos + 1][used]
        ELSE LET spec == Specification(pos)
             IN  IF spec.conversion = NUL THEN <<>>
                 ELSE IF spec.conversion = "%"
                 THEN <<"%">> \o from[spec.end + 1][used]
                 ELSE CConversion(spec, args[used + 1])
                        \o from[spec.end + 1][used + 1]]
  IN  from

CText == CTextFrom(passed)[0][0]

-----------------------------------------------------------------------------
(* The part of it that kprintf implements *)

\* One conversion: numbers that are not negative, right or left in their
\* field, with a precision; '#' where the field is not wider than the number; a
\* negative number that fills its field and its precision by itself.  kprintf has
\* one form for x and X, which is C's for X only if there are no letters in it.
Implemented(spec, val) ==
  \/ spec.conversion = "%" /\ spec.flags = {} /\ spec.width = 0 /\ ~spec.precise
  \/ spec.conversion = "c" /\ spec.width <= 1
  \/ spec.conversion = "s" /\ spec.width <= Len(val) /\ ~spec.precise
  \/ /\ spec.conversion \in Numeric
     /\ spec.flags \subseteq {"-", "#"}
     /\ \/ val > 0
        \/ val = 0 /\ spec.precision > 0
        \/ /\ val < 0 /\ spec.conversion \in {"d", "i"}
           /\ spec.width <= Len(Itoa(val, 10))
           /\ spec.precision < Len(Itoa(val, 10))
     /\ spec.conversion = "X" => CNumeral("X", val) = Itoa(val, 16)
     /\ "#" \in spec.flags =>
          LET digits == Len(Itoa(val, Base(spec.conversion)))
          IN  /\ spec.conversion \in {"o", "x"}
              /\ val > 0
              /\ spec.width <= Most(digits, spec.precision)
              /\ spec.conversion = "o" => spec.precision <= digits

\* What a specification asks for and kprintf keeps for the ones behind it.
Requests == {"-", "#", "width", "precision"}

Requested(spec) ==
  (spec.flags \cap {"-", "#"})
    \cup (IF spec.width > 0 THEN {"width"} ELSE {})
    \cup (IF spec.precise THEN {"precision"} ELSE {})

\* The conversions from a position of the format on, each with its argument
\* and what those before it have asked for.
ConversionsFrom ==
  LET from[pos \in 0 .. Len(format)] ==
        [used \in Nat |-> [asked \in SUBSET Requests |->
          IF At(pos) = NUL THEN {}
          ELSE IF At(pos) # "%" THEN from[pos + 1][used][asked]
          ELSE LET spec == Specification(pos)
                   next == IF spec.conversion = "%" THEN used ELSE used + 1
               IN  {[spec |-> spec, argument |-> used + 1, asked |-> asked]}
                     \cup IF spec.conversion = NUL THEN {}
                          ELSE from[spec.end + 1][next]
                                   [asked \cup Requested(spec)]]]
  IN  from

\* Every conversion is one of these, and whatever an earlier one asks for, a
\* later numeric one asks for as well.
InImplementedPart(args) ==
  \A c \in ConversionsFrom[0][0][{}] :
    /\ c.spec.conversion \in Arguments \cup {"%"}
    /\ Implemented(c.spec, args[c.argument])
    /\ c.spec.conversion \in Numeric => c.asked \subseteq Requested(c.spec)

\* In that part kprintf prints what C's printf prints: every conversion gets
\* its own argument and its own modifiers, and padding, precision and prefix
\* come in C's order.
MatchesC == pc = "done" /\ InImplementedPart(passed) => out = CText

\* "Determine requested padding, if any": a conversion that requests none gets
\* none, wherever in the format it stands.
OnlyRequestedPadding ==
  pc = "convert" =>
    LET start == CHOOSE n \in 0 .. bufPos - 1 :
                   /\ At(n) = "%"
                   /\ \A k \in n + 1 .. bufPos - 1 : At(k) # "%"
        spec == Specification(start)
    IN  totalPadding = spec.width

=============================================================================
