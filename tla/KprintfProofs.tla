---------------------------- MODULE KprintfProofs ----------------------------
(***************************************************************************)
(* Proofs about Kprintf for every format, every argument and every itoa.   *)
(***************************************************************************)
EXTENDS CFormat, SequenceTheorems, WellFoundedInduction, TLAPS

-----------------------------------------------------------------------------
(* Where strtol and the loops over the digits stop *)

\* A set of positions that is not empty has a first one.
LEMMA First ==
  ASSUME NEW T \in SUBSET Nat, T # {}
  PROVE  \E n \in T : \A k \in T : n <= k
<1> DEFINE R == OpToRel(<, Nat)
<1>1. \E n \in T : \A k \in T : <<k, n>> \notin R
  BY WFMin, NatLessThanWellFounded
<1>2. \A k, n \in Nat : <<k, n>> \in R <=> k < n
  BY DEF OpToRel
<1> HIDE DEF R
<1>3. PICK n \in T : \A k \in T : <<k, n>> \notin R
  BY <1>1
<1>4. ASSUME NEW k \in T PROVE n <= k
  <2>1. n \in Nat /\ k \in Nat /\ <<k, n>> \notin R
    BY <1>3
  <2>2. ~ (k < n)
    BY <1>2, <2>1
  <2> QED
    BY <2>1, <2>2
<1> QED
  BY <1>3, <1>4

\* Behind the format there is a terminator, and none within.
LEMMA Terminator ==
  ASSUME format \in Formats
  PROVE  /\ Len(format) \in Nat
         /\ At(Len(format)) = NUL
         /\ \A n \in 0 .. Len(format) - 1 : At(n) # NUL
<1>1. format \in Seq(STRING \ {NUL})
  BY KprintfAssumption
<1>2. Len(format) \in Nat
  BY <1>1
<1>3. At(Len(format)) = NUL
  BY <1>2 DEF At
<1>4. ASSUME NEW n \in 0 .. Len(format) - 1 PROVE At(n) # NUL
  <2>1. n + 1 \in 1 .. Len(format)
    BY <1>2
  <2>2. format[n + 1] \in STRING \ {NUL}
    BY <1>1, <2>1
  <2> QED
    BY <1>2, <2>2 DEF At
<1> QED
  BY <1>2, <1>3, <1>4

\* The digits end within the format.
LEMMA DigitsEndFacts ==
  ASSUME format \in Formats, NEW pos \in 0 .. Len(format)
  PROVE  /\ DigitsEnd(pos) \in pos .. Len(format)
         /\ \A n \in pos .. DigitsEnd(pos) - 1 : At(n) \in Digits
<1> DEFINE T == {n \in pos .. Len(format) : At(n) \notin Digits}
<1>1. Len(format) \in Nat /\ At(Len(format)) = NUL
  BY Terminator
<1>2. NUL \notin Digits
  BY DEF NUL, Digits
<1>3. Len(format) \in T /\ T \in SUBSET Nat
  BY <1>1, <1>2
<1>4. PICK end \in T : \A k \in T : end <= k
  <2> HIDE DEF T
  <2> QED
    BY <1>3, First
<1>5. /\ end \in pos .. Len(format) /\ At(end) \notin Digits
      /\ \A n \in pos .. end - 1 : At(n) \in Digits
  BY <1>1, <1>4
<1> QED
  BY <1>5 DEF DigitsEnd

\* strtol moves over blanks, a sign and digits, and never over the terminator.
LEMMA NumberFacts ==
  ASSUME format \in Formats, NEW pos \in 0 .. Len(format)
  PROVE  /\ Number(pos).end \in pos .. Len(format)
         /\ \A n \in pos .. Number(pos).end - 1 :
              At(n) \in FlagChars \cup Digits
<1> DEFINE T == {n \in pos .. Len(format) : At(n) # Blank}
           blanks(n) == /\ n \in pos .. Len(format)
                        /\ At(n) # Blank /\ \A k \in pos .. n - 1 : At(k) = Blank
           afterBlanks == CHOOSE n \in pos .. Len(format) :
                       At(n) # Blank /\ \A k \in pos .. n - 1 : At(k) = Blank
           start == IF At(afterBlanks) \in {"-", "+"} THEN afterBlanks + 1
                                                      ELSE afterBlanks
<1>1. Len(format) \in Nat /\ At(Len(format)) = NUL
  BY Terminator
<1>2. Len(format) \in T /\ T \in SUBSET Nat
  BY <1>1 DEF NUL, Blank
<1>3. PICK first \in T : \A k \in T : first <= k
  <2> HIDE DEF T
  <2> QED
    BY <1>2, First
<1>4. blanks(first)
  BY <1>1, <1>3
<1>5. blanks(afterBlanks)
  BY <1>4
<1> HIDE DEF afterBlanks
<1>6. /\ start \in pos .. Len(format)
      /\ \A n \in pos .. start - 1 : At(n) \in FlagChars
  BY <1>1, <1>5 DEF FlagChars, NUL, Blank
<1>7. Number(pos).end = IF At(start) \in Digits THEN DigitsEnd(start) ELSE pos
  BY DEF Number, afterBlanks
<1>8. /\ DigitsEnd(start) \in start .. Len(format)
      /\ \A n \in start .. DigitsEnd(start) - 1 : At(n) \in Digits
  BY <1>6, DigitsEndFacts
<1> HIDE DEF start
<1> QED
  BY <1>1, <1>6, <1>7, <1>8

-----------------------------------------------------------------------------
(* What strtol returns *)

\* A digit has its value.
LEMMA DigitValueType ==
  ASSUME NEW d \in Digits
  PROVE  DigitValue(d) \in 0 .. 9
<1> DEFINE t == <<"0", "1", "2", "3", "4", "5", "6", "7", "8", "9">>
<1>1. \E n \in 0 .. 9 : d = t[n + 1]
  <2>1. /\ t[0 + 1] = "0" /\ t[1 + 1] = "1" /\ t[2 + 1] = "2" /\ t[3 + 1] = "3"
        /\ t[4 + 1] = "4" /\ t[5 + 1] = "5" /\ t[6 + 1] = "6" /\ t[7 + 1] = "7"
        /\ t[8 + 1] = "8" /\ t[9 + 1] = "9"
    OBVIOUS
  <2> HIDE DEF t
  <2> QED
    BY <2>1 DEF Digits
<1> QED
  BY <1>1 DEF DigitValue

\* A function that satisfies the recursion of Decimal up to end.
DecimalsUpTo(f, pos, end) ==
  f = [k \in pos .. end |->
         IF k = pos THEN 0 ELSE 10 * f[k - 1] + DigitValue(At(k - 1))]

\* There is one for the digits that stand at pos: by the first end for which
\* there were none.
LEMMA DecimalsExist ==
  ASSUME format \in Formats, NEW pos \in 0 .. Len(format)
  PROVE  \E f : DecimalsUpTo(f, pos, DigitsEnd(pos))
<1>1. /\ Len(format) \in Nat /\ pos \in Nat
      /\ DigitsEnd(pos) \in pos .. Len(format)
  BY Terminator, DigitsEndFacts
<1> DEFINE last == DigitsEnd(pos)
           Good(end) == \E f : DecimalsUpTo(f, pos, end)
           Bad == {end \in pos .. last : ~ Good(end)}
<1>2. last \in Nat /\ pos <= last
  BY <1>1
<1> HIDE DEF last
<1>3. Bad = {}
  <2> SUFFICES ASSUME Bad # {} PROVE FALSE
    OBVIOUS
  <2>1. PICK end \in Bad : \A k \in Bad : end <= k
    <3>1. Bad \in SUBSET Nat
      BY <1>1, <1>2
    <3> HIDE DEF Bad
    <3> QED BY <3>1, First
  <2>2. end \in pos .. last /\ end \in Nat
    BY <1>1, <1>2
  <2>3. end # pos
    <3> DEFINE e == [k \in pos .. pos |-> 0]
    <3>1. \A f : \A k \in pos .. pos :
            0 = IF k = pos THEN 0 ELSE 10 * f[k - 1] + DigitValue(At(k - 1))
      BY <1>1
    <3>2. DecimalsUpTo(e, pos, pos)
      BY <1>1, <3>1 DEF DecimalsUpTo
    <3>3. Good(pos)
      <4> HIDE DEF e
      <4> QED BY <3>2
    <3> QED
      BY <2>1, <3>3
  <2>4. end - 1 \in pos .. last /\ ~ (end <= end - 1) /\ end - 1 \in Nat
    BY <1>1, <1>2, <2>2, <2>3
  <2>5. PICK f : DecimalsUpTo(f, pos, end - 1)
    BY <2>1, <2>4
  <2> DEFINE h == [k \in pos .. end |->
                     IF k = end THEN 10 * f[end - 1] + DigitValue(At(end - 1))
                     ELSE f[k]]
  <2>6. ASSUME NEW k \in pos .. end
        PROVE  h[k] = IF k = pos THEN 0 ELSE 10 * h[k - 1] + DigitValue(At(k - 1))
    <3>1. CASE k = end
      <4>1. end - 1 \in pos .. end /\ end - 1 # end
        BY <1>1, <2>2, <2>3
      <4>2. h[end - 1] = f[end - 1]
        BY <4>1
      <4>3. h[end] = 10 * f[end - 1] + DigitValue(At(end - 1))
        BY <2>2
      <4> HIDE DEF h
      <4> QED BY <2>3, <3>1, <4>2, <4>3
    <3>2. CASE k # end
      <4>1. k \in pos .. end - 1 /\ (k # pos => k - 1 \in pos .. end /\ k - 1 # end)
        BY <1>1, <2>2, <3>2
      <4>2. f[k] = IF k = pos THEN 0 ELSE 10 * f[k - 1] + DigitValue(At(k - 1))
        BY <2>5, <4>1 DEF DecimalsUpTo
      <4>3. h[k] = f[k] /\ (k # pos => h[k - 1] = f[k - 1])
        BY <3>2, <4>1
      <4> HIDE DEF h
      <4> QED BY <4>2, <4>3
    <3> QED
      BY <3>1, <3>2
  <2>7. DecimalsUpTo(h, pos, end)
    <3>1. h = [k \in pos .. end |-> h[k]]
      OBVIOUS
    <3> HIDE DEF h
    <3> QED BY <2>6, <3>1 DEF DecimalsUpTo
  <2>8. Good(end)
    <3> HIDE DEF h
    <3> QED BY <2>7
  <2> QED
    BY <2>1, <2>8
<1>4. last \in pos .. last
  BY <1>1, <1>2
<1>5. Good(last)
  BY <1>3, <1>4
<1> QED
  BY <1>5 DEF last

\* The value of digits is a number: by the first digit with which it were none.
LEMMA DecimalType ==
  ASSUME format \in Formats, NEW pos \in 0 .. Len(format)
  PROVE  Decimal(pos) \in Nat
<1> DEFINE last == DigitsEnd(pos)
           g == CHOOSE f : f = [end \in pos .. last |->
                  IF end = pos THEN 0 ELSE 10 * f[end - 1] + DigitValue(At(end - 1))]
           Bad == {k \in pos .. last : g[k] \notin Nat}
<1>1. /\ pos \in Nat /\ last \in pos .. Len(format) /\ last \in Nat /\ pos <= last
      /\ \A n \in pos .. last - 1 : At(n) \in Digits
  BY Terminator, DigitsEndFacts
<1>2. g = [k \in pos .. last |->
             IF k = pos THEN 0 ELSE 10 * g[k - 1] + DigitValue(At(k - 1))]
  BY DecimalsExist DEF DecimalsUpTo
<1>3. Decimal(pos) = g[last]
  BY DEF Decimal
<1> HIDE DEF g, last
<1>4. Bad = {}
  <2> SUFFICES ASSUME Bad # {} PROVE FALSE
    OBVIOUS
  <2>1. PICK k \in Bad : \A j \in Bad : k <= j
    <3>1. Bad \in SUBSET Nat
      BY <1>1
    <3> HIDE DEF Bad
    <3> QED BY <3>1, First
  <2>2. k \in pos .. last /\ k \in Nat /\ g[k] \notin Nat
    BY <1>1
  <2>3. g[k] = IF k = pos THEN 0 ELSE 10 * g[k - 1] + DigitValue(At(k - 1))
    BY <1>2, <2>2
  <2>4. k # pos
    BY <2>2, <2>3
  <2>5. k - 1 \in pos .. last /\ k - 1 \in pos .. last - 1 /\ ~ (k <= k - 1)
    BY <1>1, <2>2, <2>4
  <2>6. g[k - 1] \in Nat
    BY <2>1, <2>5
  <2>7. DigitValue(At(k - 1)) \in Nat
    BY <1>1, <2>5, DigitValueType
  <2> QED
    BY <2>2, <2>3, <2>4, <2>6, <2>7
<1>5. last \in pos .. last
  BY <1>1
<1> QED
  BY <1>3, <1>4, <1>5

\* strtol returns an int, and where a digit stands one that is not negative.
LEMMA NumberValue ==
  ASSUME format \in Formats, NEW pos \in 0 .. Len(format)
  PROVE  /\ Number(pos).value \in Int
         /\ At(pos) \in Digits => Number(pos).value \in Nat
<1> DEFINE blanks(n) == /\ n \in pos .. Len(format)
                        /\ At(n) # Blank /\ \A k \in pos .. n - 1 : At(k) = Blank
           afterBlanks == CHOOSE n \in pos .. Len(format) :
                       At(n) # Blank /\ \A k \in pos .. n - 1 : At(k) = Blank
           start == IF At(afterBlanks) \in {"-", "+"} THEN afterBlanks + 1
                                                      ELSE afterBlanks
           sign == IF At(afterBlanks) = "-" THEN -1 ELSE 1
           T == {n \in pos .. Len(format) : At(n) # Blank}
<1>1. Len(format) \in Nat /\ At(Len(format)) = NUL /\ pos \in Nat
  BY Terminator
<1>2. Len(format) \in T /\ T \in SUBSET Nat
  BY <1>1 DEF NUL, Blank
<1>3. PICK first \in T : \A k \in T : first <= k
  <2> HIDE DEF T
  <2> QED
    BY <1>2, First
<1>4. blanks(first)
  BY <1>1, <1>3
<1>5. blanks(afterBlanks)
  BY <1>4
<1>6. Number(pos).value = IF At(start) \in Digits THEN sign * Decimal(start) ELSE 0
  BY DEF Number
<1>7. At(pos) \in Digits => afterBlanks = pos
  <2> SUFFICES ASSUME At(pos) \in Digits PROVE afterBlanks = pos
    OBVIOUS
  <2>1. At(pos) # Blank
    BY DEF Digits, Blank
  <2> HIDE DEF afterBlanks
  <2> QED
    BY <1>1, <1>5, <2>1
<1> HIDE DEF afterBlanks
<1>8. start \in 0 .. Len(format)
  BY <1>1, <1>5 DEF NUL
<1>9. Decimal(start) \in Nat
  BY <1>8, DecimalType
<1>10. At(pos) \in Digits => sign = 1
  <2>1. "-" \notin Digits
    BY DEF Digits
  <2> QED
    BY <1>7, <2>1
<1> HIDE DEF start
<1> QED
  BY <1>6, <1>9, <1>10

-----------------------------------------------------------------------------
(* The position and the conversion it is in *)

\* Within a conversion specification there is nothing between its '%' and the
\* position but characters that may stand there, and the terminator is not
\* passed; the text goes on behind a conversion character, and "beyond" is
\* reached only from a specification that the terminator cut off.
InConversion ==
  \E n \in 0 .. bufPos - 1 :
    /\ At(n) = "%"
    /\ \A k \in n + 1 .. bufPos - 1 : At(k) \in ModifierChars

Inv ==
  /\ format \in Formats
  /\ pc \in {"text", "flags", "precision", "convert", "done", "beyond"}
  /\ bufPos \in Nat
  /\ pc # "beyond" => bufPos <= Len(format)
  /\ pc \in {"flags", "precision", "convert"} => InConversion
  /\ pc = "beyond" => bufPos <= Len(format) + 1 /\ CutOff

\* The positions behind n and before a later position c.
LEMMA Between ==
  ASSUME NEW b \in Nat, NEW c \in Nat, b <= c, NEW n \in 0 .. b - 1
  PROVE  /\ n \in 0 .. c - 1
         /\ \A k \in n + 1 .. c - 1 : k \in n + 1 .. b - 1 \/ k \in b .. c - 1
  OBVIOUS

\* To move on over characters that may stand in a specification is to stay
\* in it.
LEMMA StaysInConversion ==
  ASSUME format \in Formats, bufPos \in Nat, InConversion,
         format' = format, bufPos' \in Nat, bufPos <= bufPos',
         \A k \in bufPos .. bufPos' - 1 : At(k) \in ModifierChars
  PROVE  InConversion'
<1>1. PICK n \in 0 .. bufPos - 1 :
        /\ At(n) = "%"
        /\ \A k \in n + 1 .. bufPos - 1 : At(k) \in ModifierChars
  BY DEF InConversion
<1>3. n \in 0 .. bufPos' - 1
  BY Between
<1>4. \A k \in n + 1 .. bufPos' - 1 : At(k) \in ModifierChars
  <2> SUFFICES ASSUME NEW k \in n + 1 .. bufPos' - 1
               PROVE  At(k) \in ModifierChars
    OBVIOUS
  <2>1. k \in n + 1 .. bufPos - 1 \/ k \in bufPos .. bufPos' - 1
    BY Between
  <2> QED
    BY <1>1, <2>1
<1> QED
  BY <1>1, <1>3, <1>4 DEF InConversion, At

\* The invariant holds at the first character and is kept by every step.
LEMMA InvInit == Init => Inv
  BY Terminator DEF Init, Inv

\* No step leaves the format, but from a conversion that is cut off.
LEMMA InvStep == Inv /\ [Next]_vars => Inv'
<1> SUFFICES ASSUME Inv, [Next]_vars PROVE Inv'
  OBVIOUS
<1>1. /\ format \in Formats /\ bufPos \in Nat
      /\ Len(format) \in Nat /\ At(Len(format)) = NUL
      /\ pc # "beyond" => bufPos \in 0 .. Len(format)
      /\ At(bufPos) # NUL /\ pc # "beyond" => bufPos + 1 \in 0 .. Len(format)
  BY Terminator DEF Inv
<1>2. CASE Finish
  BY <1>1, <1>2 DEF Finish, Inv
<1>3. CASE PrintLiteral
  BY <1>1, <1>3 DEF PrintLiteral, Inv
<1>4. CASE OpenConversion
  <2>1. /\ At(bufPos) = "%" /\ bufPos' = bufPos + 1
        /\ format' = format /\ pc' = "flags" /\ pc = "text"
    BY <1>4 DEF OpenConversion
  <2>2. InConversion'
    BY <1>1, <2>1 DEF InConversion, At
  <2> QED
    BY <1>1, <2>1, <2>2 DEF Inv, NUL
<1>5. CASE Flag
  <2>1. /\ pc = "flags" /\ pc' = "flags" /\ format' = format
        /\ At(bufPos) \in FlagChars /\ bufPos' = bufPos + 1
    BY <1>5 DEF Flag
  <2>2. InConversion'
    BY <1>1, <2>1, StaysInConversion DEF Inv, ModifierChars, FlagChars, NUL, Blank
  <2> QED
    BY <1>1, <2>1, <2>2 DEF Inv, FlagChars, NUL, Blank
<1>6. CASE Padding
  <2>1. /\ pc = "flags" /\ pc' = "precision" /\ format' = format
        /\ bufPos' \in {bufPos, Number(bufPos).end}
    BY <1>6 DEF Padding
  <2>2. /\ bufPos' \in Nat /\ bufPos <= bufPos' /\ bufPos' <= Len(format)
        /\ \A k \in bufPos .. bufPos' - 1 : At(k) \in ModifierChars
    <3>1. CASE bufPos' = bufPos
      BY <1>1, <2>1, <3>1
    <3>2. CASE bufPos' = Number(bufPos).end
      <4>1. /\ Number(bufPos).end \in bufPos .. Len(format)
            /\ \A n \in bufPos .. Number(bufPos).end - 1 :
                 At(n) \in FlagChars \cup Digits
        BY <1>1, <2>1, NumberFacts
      <4> QED
        BY <1>1, <3>2, <4>1 DEF ModifierChars
    <3> QED
      BY <2>1, <3>1, <3>2
  <2> QED
    BY <1>1, <2>1, <2>2, StaysInConversion DEF Inv
<1>7. CASE Precision
  <2>1. /\ pc = "precision" /\ pc' = "convert" /\ format' = format
        /\ \/ bufPos' = bufPos
           \/ At(bufPos) = "." /\ bufPos' = Number(bufPos + 1).end
    BY <1>7 DEF Precision
  <2>2. /\ bufPos' \in Nat /\ bufPos <= bufPos' /\ bufPos' <= Len(format)
        /\ \A k \in bufPos .. bufPos' - 1 : At(k) \in ModifierChars
    BY <1>1, <2>1, NumberFacts DEF ModifierChars, NUL
  <2> QED
    BY <1>1, <2>1, <2>2, StaysInConversion DEF Inv
<1>8. CASE Convert
  <2>1. /\ pc = "convert" /\ format' = format /\ bufPos' = bufPos + 1
        /\ pc' = IF At(bufPos) = NUL THEN "beyond" ELSE "text"
    BY <1>8 DEF Convert
  <2>2. At(bufPos) = NUL => bufPos = Len(format)
    BY <1>1, <2>1, Terminator
  <2>3. At(bufPos) = NUL => CutOff'
    BY <1>1, <2>1, <2>2 DEF Inv, InConversion, CutOff, At
  <2> QED
    BY <1>1, <2>1, <2>3 DEF Inv
<1>9. CASE UNCHANGED vars
  BY <1>9 DEF vars, modifiers, Inv, InConversion, CutOff, At
<1> QED
  BY <1>2, <1>3, <1>4, <1>5, <1>6, <1>7, <1>8, <1>9 DEF Next

\* The modifiers: a padding comes from a digit on, so that strtol's sign never
\* makes it negative; a precision may be.
Modifiers ==
  /\ totalPadding \in Nat /\ totalPrecision \in Int
  /\ leftAdjusted \in BOOLEAN /\ useAlternateForm \in BOOLEAN

\* Each step keeps them so.
LEMMA ModifiersStep == Inv /\ Modifiers /\ [Next]_vars => Modifiers'
<1> SUFFICES ASSUME Inv, Modifiers, [Next]_vars PROVE Modifiers'
  OBVIOUS
<1>1. /\ Len(format) \in Nat /\ At(Len(format)) = NUL /\ bufPos \in Nat
      /\ format \in Formats
      /\ pc # "beyond" => bufPos \in 0 .. Len(format)
      /\ pc # "beyond" /\ At(bufPos) # NUL => bufPos + 1 \in 0 .. Len(format)
  BY Terminator DEF Inv
<1>2. CASE Finish \/ PrintLiteral \/ OpenConversion \/ Convert \/ UNCHANGED vars
  BY <1>2 DEF Finish, PrintLiteral, OpenConversion, Convert, vars, modifiers, Modifiers
<1>3. CASE Flag
  BY <1>3 DEF Flag, Modifiers
<1>4. CASE Padding
  <2>1. pc = "flags"
    BY <1>4 DEF Padding
  <2>2. At(bufPos) \in Digits => Number(bufPos).value \in Nat
    <3>1. bufPos \in 0 .. Len(format) /\ format \in Formats
      BY <1>1, <2>1
    <3> QED BY <3>1, NumberValue
  <2> QED
    BY <1>4, <2>2 DEF Padding, Modifiers
<1>5. CASE Precision
  <2>1. pc = "precision"
    BY <1>5 DEF Precision
  <2>2. At(bufPos) = "." => Number(bufPos + 1).value \in Int
    <3>1. At(bufPos) = "." => bufPos + 1 \in 0 .. Len(format)
      BY <1>1, <2>1 DEF NUL
    <3> QED BY <1>1, <3>1, NumberValue
  <2> QED
    BY <1>5, <2>2 DEF Precision, Modifiers
<1> QED
  BY <1>2, <1>3, <1>4, <1>5 DEF Next

\* The position stays within one of the format's end, and no format asks for a
\* padding below zero.
THEOREM TypesHold == Spec => []TypeOK
<1>1. Init => Modifiers
  <2> SUFFICES ASSUME Init PROVE Modifiers
    OBVIOUS
  <2>1. totalPadding \in Nat /\ totalPrecision \in Int
    BY DEF Init
  <2>2. leftAdjusted \in BOOLEAN /\ useAlternateForm \in BOOLEAN
    BY DEF Init
  <2> QED
    BY <2>1, <2>2 DEF Modifiers
<1>2. ASSUME Inv, Modifiers PROVE TypeOK
  <2>1. Len(format) \in Nat
    BY <1>2, Terminator DEF Inv
  <2> QED
    BY <1>2, <2>1 DEF Inv, Modifiers, TypeOK
<1> QED
  BY <1>1, <1>2, InvInit, InvStep, ModifiersStep, PTL DEF Spec

\* kprintf never reads behind the terminator of a format that ends outside a
\* conversion specification, however long the format is and whatever stands
\* in its flags, padding and precision.
THEOREM ReadsWithinFormat == Spec => []OverreadsOnlyIfCutOff
<1>1. Inv => OverreadsOnlyIfCutOff
  BY DEF Inv, OverreadsOnlyIfCutOff
<1> QED
  BY <1>1, InvInit, InvStep, PTL DEF Spec

-----------------------------------------------------------------------------
(* The parts of a conversion specification *)

\* A character of the format is a string, and there is one more position
\* behind it.
LEMMA AtFacts ==
  ASSUME format \in Formats, NEW pos \in 0 .. Len(format)
  PROVE  /\ At(pos) # NUL => pos + 1 \in 0 .. Len(format)
         /\ At(pos) # NUL => At(pos) \in STRING
<1>1. Len(format) \in Nat /\ At(Len(format)) = NUL
  BY Terminator
<1>2. At(pos) # NUL => pos \in 0 .. Len(format) - 1
  BY <1>1
<1>3. pos \in 0 .. Len(format) - 1 => format[pos + 1] \in STRING
  BY <1>1, KprintfAssumption
<1> QED
  BY <1>1, <1>2, <1>3 DEF At

\* The digits at a position end at one place only.
LEMMA DigitsEndIs ==
  ASSUME format \in Formats, NEW pos \in 0 .. Len(format)
  PROVE  /\ At(DigitsEnd(pos)) \notin Digits
         /\ \A end \in pos .. Len(format) :
              /\ \A n \in pos .. end - 1 : At(n) \in Digits
              /\ At(end) \notin Digits
              => DigitsEnd(pos) = end
<1> DEFINE T == {n \in pos .. Len(format) : At(n) \notin Digits}
           ends(e) == /\ e \in pos .. Len(format)
                      /\ \A n \in pos .. e - 1 : At(n) \in Digits
                      /\ At(e) \notin Digits
<1>1. Len(format) \in Nat /\ At(Len(format)) = NUL /\ pos \in Nat
  BY Terminator
<1>2. Len(format) \in T /\ T \in SUBSET Nat
  BY <1>1 DEF NUL, Digits
<1>3. PICK first \in T : \A k \in T : first <= k
  <2> HIDE DEF T
  <2> QED
    BY <1>2, First
<1>4. ends(first)
  BY <1>1, <1>3
<1>5. ends(DigitsEnd(pos))
  BY <1>4 DEF DigitsEnd
<1>6. ASSUME NEW d, NEW e, ends(d), ends(e) PROVE d = e
  <2>1. ~ (d < e) /\ ~ (e < d)
    BY <1>1, <1>6
  <2> QED
    BY <1>1, <1>6, <2>1
<1> QED
  BY <1>5, <1>6

\* The same of the flags.
LEMMA FlagsEndIs ==
  ASSUME format \in Formats, NEW pos \in 0 .. Len(format), At(pos) # NUL
  PROVE  /\ FlagsEnd(pos) \in pos + 1 .. Len(format)
         /\ At(FlagsEnd(pos)) \notin FlagChars
         /\ \A e \in pos + 1 .. Len(format) :
              /\ At(e) \notin FlagChars
              /\ \A k \in pos + 1 .. e - 1 : At(k) \in FlagChars
              => FlagsEnd(pos) = e
<1> DEFINE T == {n \in pos + 1 .. Len(format) : At(n) \notin FlagChars}
           ends(e) == /\ e \in pos + 1 .. Len(format)
                      /\ At(e) \notin FlagChars
                      /\ \A k \in pos + 1 .. e - 1 : At(k) \in FlagChars
<1>1. /\ Len(format) \in Nat /\ At(Len(format)) = NUL /\ pos \in Nat
      /\ pos + 1 \in 0 .. Len(format)
  BY Terminator, AtFacts
<1>2. Len(format) \in T /\ T \in SUBSET Nat
  BY <1>1 DEF NUL, FlagChars, Blank
<1>3. PICK first \in T : \A k \in T : first <= k
  <2> HIDE DEF T
  <2> QED
    BY <1>2, First
<1>4. ends(first)
  BY <1>1, <1>3
<1>5. ends(FlagsEnd(pos))
  BY <1>4 DEF FlagsEnd
<1>6. ASSUME NEW d, NEW e, ends(d), ends(e) PROVE d = e
  <2>1. ~ (d < e) /\ ~ (e < d)
    BY <1>1, <1>6
  <2> QED
    BY <1>1, <1>6, <2>1
<1> QED
  BY <1>5, <1>6

\* Where there is no digit the number of them is zero, and so is their value.
LEMMA NoDigits ==
  ASSUME format \in Formats, NEW pos \in 0 .. Len(format), At(pos) \notin Digits
  PROVE  DigitsEnd(pos) = pos /\ Decimal(pos) = 0
<1>1. Len(format) \in Nat /\ pos \in Nat
  BY Terminator
<1>2. DigitsEnd(pos) = pos
  BY <1>1, DigitsEndIs
<1> DEFINE g == CHOOSE f : f = [end \in pos .. DigitsEnd(pos) |->
             IF end = pos THEN 0 ELSE 10 * f[end - 1] + DigitValue(At(end - 1))]
<1>3. g = [k \in pos .. DigitsEnd(pos) |->
             IF k = pos THEN 0 ELSE 10 * g[k - 1] + DigitValue(At(k - 1))]
  BY DecimalsExist DEF DecimalsUpTo
<1>4. Decimal(pos) = g[DigitsEnd(pos)]
  BY DEF Decimal
<1> HIDE DEF g
<1>5. pos \in pos .. DigitsEnd(pos)
  BY <1>1, <1>2
<1>6. g[pos] = 0
  BY <1>3, <1>5
<1> QED
  BY <1>2, <1>4, <1>6

\* strtol reads the digits at a position, if no blank and no sign stands there.
LEMMA NumberIsDecimal ==
  ASSUME format \in Formats, NEW pos \in 0 .. Len(format),
         At(pos) \notin {Blank, "-", "+"}
  PROVE  Number(pos) = [value |-> Decimal(pos), end |-> DigitsEnd(pos)]
<1> DEFINE blanks(n) == /\ n \in pos .. Len(format)
                        /\ At(n) # Blank /\ \A k \in pos .. n - 1 : At(k) = Blank
           afterBlanks == CHOOSE n \in pos .. Len(format) :
                       At(n) # Blank /\ \A k \in pos .. n - 1 : At(k) = Blank
           start == IF At(afterBlanks) \in {"-", "+"} THEN afterBlanks + 1
                                                      ELSE afterBlanks
           sign == IF At(afterBlanks) = "-" THEN -1 ELSE 1
<1>1. Len(format) \in Nat /\ pos \in Nat
  BY Terminator
<1>2. blanks(pos)
  BY <1>1
<1>3. blanks(afterBlanks)
  BY <1>2
<1>4. afterBlanks = pos
  <2> HIDE DEF afterBlanks
  <2> QED BY <1>1, <1>3
<1>5. Number(pos) = IF At(start) \in Digits
                    THEN [value |-> sign * Decimal(start), end |-> DigitsEnd(start)]
                    ELSE [value |-> 0, end |-> pos]
  BY DEF Number
<1> HIDE DEF afterBlanks
<1>6. start = pos /\ sign = 1
  BY <1>4
<1> HIDE DEF start, sign
<1>7. Decimal(pos) \in Nat
  BY DecimalType
<1>8. sign * Decimal(start) = Decimal(pos)
  BY <1>6, <1>7
<1> QED
  BY <1>5, <1>6, <1>8, NoDigits

\* A specification is part of the format, and has numbers for its width and
\* its precision.
LEMMA SpecificationFacts ==
  ASSUME format \in Formats, NEW pos \in 0 .. Len(format), At(pos) = "%"
  PROVE  LET spec == Specification(pos)
         IN  /\ spec.end \in pos + 1 .. Len(format)
             /\ spec.conversion = At(spec.end)
             /\ spec.conversion # NUL => spec.end + 1 \in pos + 1 .. Len(format)
             /\ spec.width \in Nat /\ spec.precision \in Nat
             /\ spec.precise \in BOOLEAN
             /\ ~ spec.precise => spec.precision = 1
<1> DEFINE spec == Specification(pos)
           f == FlagsEnd(pos)
           w == DigitsEnd(f)
<1>1. Len(format) \in Nat /\ pos \in Nat /\ At(pos) # NUL
  BY Terminator DEF NUL
<1>2. f \in pos + 1 .. Len(format) /\ f \in 0 .. Len(format)
  BY <1>1, FlagsEndIs
<1>3. w \in f .. Len(format) /\ Decimal(f) \in Nat
  BY <1>2, DigitsEndFacts, DecimalType
<1>4. w \in pos + 1 .. Len(format) /\ w \in 0 .. Len(format)
  BY <1>1, <1>2, <1>3
<1>5. ASSUME At(w) = "."
      PROVE  w + 1 \in 0 .. Len(format) /\ Decimal(w + 1) \in Nat
             /\ DigitsEnd(w + 1) \in pos + 1 .. Len(format)
  <2>1. w + 1 \in 0 .. Len(format)
    BY <1>4, <1>5, AtFacts DEF NUL
  <2> HIDE DEF w
  <2>2. DigitsEnd(w + 1) \in w + 1 .. Len(format) /\ Decimal(w + 1) \in Nat
    BY <2>1, DigitsEndFacts, DecimalType
  <2> QED
    BY <1>1, <1>4, <2>1, <2>2
<1>6. /\ spec.end = IF At(w) = "." THEN DigitsEnd(w + 1) ELSE w
      /\ spec.conversion = At(spec.end)
      /\ spec.width = Decimal(f) /\ spec.precise \in BOOLEAN
      /\ spec.precise <=> At(w) = "."
      /\ spec.precision = IF At(w) = "." THEN Decimal(w + 1) ELSE 1
  BY DEF Specification
<1> HIDE DEF spec, f, w
<1>7. spec.end \in pos + 1 .. Len(format) /\ spec.end \in 0 .. Len(format)
  BY <1>1, <1>4, <1>5, <1>6
<1>8. spec.conversion # NUL => spec.end + 1 \in pos + 1 .. Len(format)
  BY <1>1, <1>6, <1>7, AtFacts
<1>9. /\ spec.width \in Nat /\ spec.precision \in Nat
      /\ ~ spec.precise => spec.precision = 1
  BY <1>3, <1>5, <1>6
<1>10. spec.precise \in BOOLEAN
  BY <1>6
<1> QED
  BY <1>6, <1>7, <1>8, <1>9, <1>10 DEF spec

-----------------------------------------------------------------------------
(* One number *)

\* What is printed: the characters of formats, numerals and arguments, and
\* those of padding, precision and prefixes.
Printed == STRING \cup {"0", "x", "%", "-", Blank}
Text == Seq(Printed)

\* Pieces of text, one behind the other.
LEMMA Joined ==
  ASSUME NEW s \in Text, NEW t \in Text
  PROVE  /\ s \o t \in Text /\ Len(s \o t) = Len(s) + Len(t)
         /\ Len(s) \in Nat /\ Len(t) \in Nat
         /\ <<>> \o s = s /\ s \o <<>> = s /\ <<>> \in Text
BY EmptySeq, ConcatProperties, ConcatEmptySeq DEF Text

\* How three pieces are joined makes no difference.
LEMMA Associative ==
  ASSUME NEW s \in Text, NEW t \in Text, NEW u \in Text
  PROVE  (s \o t) \o u = s \o (t \o u)
BY ConcatAssociative DEF Text

\* A character repeated a negative number of times is nothing.
LEMMA RepeatFacts ==
  ASSUME NEW ch \in Printed, NEW n \in Int
  PROVE  /\ Repeat(ch, n) \in Text
         /\ n <= 0 => Repeat(ch, n) = <<>>
         /\ n >= 0 => Len(Repeat(ch, n)) = n
<1>1. CASE n >= 0
  <2>1. n \in Nat /\ \A k \in 1 .. n : ch \in Printed
    BY <1>1
  <2>2. Repeat(ch, n) \in Seq(Printed) /\ Len(Repeat(ch, n)) = n
    BY <2>1 DEF Repeat
  <2>3. n = 0 => Repeat(ch, n) = <<>>
    BY <2>2, EmptySeq
  <2> QED
    BY <1>1, <2>2, <2>3 DEF Text
<1>2. CASE n < 0
  <2>1. 1 .. n = 1 .. 0
    BY <1>2
  <2>2. Repeat(ch, n) = [k \in 1 .. 0 |-> ch]
    BY <2>1 DEF Repeat
  <2>3. [k \in 1 .. 0 |-> ch] \in Seq(Printed) /\ Len([k \in 1 .. 0 |-> ch]) = 0
    OBVIOUS
  <2>4. Repeat(ch, n) \in Text /\ Repeat(ch, n) = <<>>
    BY <2>2, <2>3, EmptySeq DEF Text
  <2> QED
    BY <1>2, <2>4
<1> QED
  BY <1>1, <1>2

\* In the part of printf that kprintf implements, and with the modifiers of
\* the specification, PrintFormattedWithModifiers prints a number that is not
\* negative as C does.
LEMMA NumberPrinted ==
  ASSUME NEW spec, NEW val \in Ints \cup Uints, val >= 0,
         spec.conversion \in Numeric, Implemented(spec, val),
         spec.width \in Nat, spec.precision \in Nat, spec.precise \in BOOLEAN,
         ~ spec.precise => spec.precision = 1,
         leftAdjusted <=> "-" \in spec.flags,
         totalPadding = spec.width,
         totalPrecision = IF spec.precise THEN spec.precision ELSE 0
  PROVE  LET str == Itoa(val, Base(spec.conversion))
             alternate == "#" \in spec.flags
             hex == IF alternate /\ spec.conversion \in {"x", "X"}
                    THEN <<"0", "x">> ELSE <<>>
             octal == IF alternate /\ spec.conversion = "o" THEN <<"0">> ELSE <<>>
         IN  /\ Formatted(str, hex, octal) = CConversion(spec, val)
             /\ CConversion(spec, val) \in Text
<1> DEFINE b == Base(spec.conversion)
           str == Itoa(val, b)
           alternate == "#" \in spec.flags
           hex == IF alternate /\ spec.conversion \in {"x", "X"}
                  THEN <<"0", "x">> ELSE <<>>
           octal == IF alternate /\ spec.conversion = "o" THEN <<"0">> ELSE <<>>
           prec == spec.precision
           width == spec.width
           zeroes == Repeat("0", NumZeroes(str))
           spaces == Repeat(Blank, NumSpaces(str))
           sign == CSign(spec, val)
           body == CDigits(spec, val)
           missing == width - Len(sign) - Len(body)
<1>1. /\ spec.conversion \notin {"%", "c", "s"}
      /\ spec.flags \subseteq {"-", "#"}
      /\ val > 0 \/ (val = 0 /\ prec > 0)
      /\ alternate =>
           /\ spec.conversion \in {"o", "x"}
           /\ val > 0
           /\ width <= Most(Len(str), prec)
           /\ spec.conversion = "o" => prec <= Len(str)
      /\ spec.conversion = "X" => CNumeral("X", val) = Itoa(val, 16)
  <2>1. spec.conversion \notin {"%", "c", "s"}
    BY DEF Numeric
  <2>2. val \in Int
    BY KprintfAssumption
  <2> QED
    BY <2>1, <2>2 DEF Implemented
<1>2. b \in {8, 10, 16} /\ val \in Int /\ val >= 0
  <2>1. b \in {8, 10, 16}
    BY DEF Base
  <2>2. val \in Int
    BY KprintfAssumption
  <2> QED
    BY <1>1, <2>1, <2>2
<1>3. /\ str \in Seq(STRING) /\ str # <<>> /\ str[1] # "-"
      /\ val > 0 => str[1] # "0"
  BY <1>2, KprintfAssumption, CFormatAssumption
<1>4. str \in Text /\ Len(str) \in Nat \ {0}
  <2>1. Len(str) \in Nat /\ (Len(str) = 0 => str = <<>>)
    BY <1>3, EmptySeq
  <2>2. str \in Seq(Printed)
    <3>1. STRING \subseteq Printed
      BY DEF Printed
    <3> HIDE DEF str, Printed
    <3> QED
      BY <1>3, <3>1, SeqMonotonic
  <2> QED
    BY <1>3, <2>1, <2>2 DEF Text
<1> HIDE DEF str, b
<1> DEFINE L == Len(str)
           z == NumZeroes(str)
<1>5. /\ z \in Nat /\ L \in Nat \ {0} /\ prec \in Nat /\ width \in Nat
      /\ z = IF prec >= L THEN prec - L ELSE 0
  BY <1>4 DEF NumZeroes
<1>6. /\ NumSpaces(str) \in Nat
      /\ NumSpaces(str) = IF width > L + z THEN width - (L + z) ELSE 0
  BY <1>5 DEF NumSpaces
<1>7. "0" \in Printed /\ Blank \in Printed /\ <<"0">> \in Text /\ <<"0", "x">> \in Text
      /\ <<>> \in Text
  <2>1. "0" \in Printed /\ Blank \in Printed /\ "x" \in Printed
    BY DEF Printed
  <2>2. <<"0">> \in Text /\ <<"0", "x">> \in Text
    BY <2>1 DEF Text
  <2> QED
    BY <2>1, <2>2, EmptySeq DEF Text
<1>8. /\ zeroes \in Text /\ Len(zeroes) = z /\ (z = 0 => zeroes = <<>>)
      /\ Repeat("0", prec - L) = zeroes
  <2>1. zeroes \in Text /\ Len(zeroes) = z /\ (z = 0 => zeroes = <<>>)
    BY <1>5, <1>7, RepeatFacts
  <2>2. prec >= L => Repeat("0", prec - L) = zeroes
    BY <1>5
  <2>3. prec < L => Repeat("0", prec - L) = <<>>
    BY <1>5, <1>7, RepeatFacts
  <2> QED
    BY <1>5, <2>1, <2>2, <2>3
<1>9. spaces \in Text /\ (NumSpaces(str) = 0 => spaces = <<>>)
  BY <1>6, <1>7, RepeatFacts
<1>10. Formatted(str, hex, octal)
         = LET number == ((hex \o zeroes) \o octal) \o str
           IN  IF leftAdjusted THEN number \o spaces ELSE spaces \o number
  <2>1. NumSpaces(str) - 0 = NumSpaces(str) /\ NumZeroes(str) - 0 = NumZeroes(str)
    BY <1>5, <1>6
  <2> QED
    BY <1>3, <2>1 DEF Formatted
<1>11. /\ zeroes \o str \in Text /\ Len(zeroes \o str) = z + L
       /\ <<"0">> \o str \in Text /\ Len(<<"0">> \o str) = 1 + L
       /\ <<>> \o (zeroes \o str) = zeroes \o str
       /\ <<>> \o str = str
  <2>1. zeroes \o str \in Text /\ Len(zeroes \o str) = z + L
    BY <1>4, <1>8, Joined
  <2>2. <<"0">> \o str \in Text /\ Len(<<"0">> \o str) = Len(<<"0">>) + L
    BY <1>4, <1>7, Joined
  <2>3. Len(<<"0">>) = 1
    OBVIOUS
  <2>4. <<>> \o (zeroes \o str) = zeroes \o str
    <3> DEFINE t == zeroes \o str
    <3> HIDE DEF t
    <3>1. t \in Text
      BY <2>1 DEF t
    <3>2. <<>> \o t = t
      BY <3>1, Joined
    <3> QED BY <3>2 DEF t
  <2>5. <<>> \o str = str
    BY <1>4, Joined
  <2> QED
    BY <2>1, <2>2, <2>3, <2>4, <2>5
<1>12. body = IF alternate /\ spec.conversion = "o" THEN <<"0">> \o str
                                                  ELSE zeroes \o str
  <2>1. CNumeral(spec.conversion, val) = str
    <3>1. Magnitude(val) = val
      BY <1>2 DEF Magnitude
    <3>2. CASE spec.conversion = "X"
      <4>1. b = 16
        BY <3>2 DEF b, Base
      <4> QED
        BY <1>1, <3>2, <4>1 DEF str
    <3>3. CASE spec.conversion # "X"
      BY <3>1, <3>3 DEF CNumeral, str, b
    <3> QED
      BY <3>2, <3>3
  <2>2. ~ (val = 0 /\ prec = 0)
    BY <1>1, <1>2
  <2>3. body = LET digits == zeroes \o str
               IN  IF /\ alternate /\ spec.conversion = "o"
                      /\ digits = <<>> \/ digits[1] # "0"
                   THEN <<"0">> \o digits ELSE digits
    BY <1>8, <2>1, <2>2 DEF CDigits
  <2>4. ASSUME alternate, spec.conversion = "o"
        PROVE  zeroes \o str = str /\ str[1] # "0"
    <3>1. prec <= L /\ val > 0
      BY <1>1, <2>4
    <3>2. z = 0
      BY <1>5, <3>1
    <3> QED
      BY <1>3, <1>8, <1>11, <3>1, <3>2
  <2> QED
    BY <2>3, <2>4
<1>13. sign = hex
  <2>1. /\ ~ (val < 0) /\ "+" \notin spec.flags /\ Blank \notin spec.flags
        /\ (alternate => val # 0)
    BY <1>1, <1>2 DEF Blank
  <2>2. CASE ~ alternate
    BY <2>1, <2>2 DEF CSign
  <2>3. CASE alternate /\ spec.conversion = "o"
    BY <2>1, <2>3 DEF CSign
  <2>4. CASE alternate /\ spec.conversion = "x"
    BY <2>1, <2>4 DEF CSign
  <2> QED
    BY <1>1, <2>2, <2>3, <2>4
<1>14. CConversion(spec, val)
         = IF leftAdjusted THEN (sign \o body) \o Repeat(Blank, missing)
           ELSE (Repeat(Blank, missing) \o sign) \o body
  <2>1. "0" \notin spec.flags
    BY <1>1
  <2> QED
    BY <2>1 DEF CConversion
<1>15. CASE ~ alternate
  <2>1. hex = <<>> /\ octal = <<>> /\ sign = <<>> /\ body = zeroes \o str
    BY <1>12, <1>13, <1>15
  <2>2. missing = width - (L + z) /\ missing \in Int
    <3>1. Len(<<>>) = 0
      BY EmptySeq
    <3> HIDE DEF sign, body
    <3> QED BY <1>5, <1>11, <2>1, <3>1
  <2>3. Repeat(Blank, missing) = spaces
    <3>1. CASE width > L + z
      BY <1>6, <2>2, <3>1
    <3>2. CASE ~ (width > L + z)
      <4>1. missing <= 0
        BY <1>5, <2>2, <3>2
      <4>2. Repeat(Blank, missing) = <<>>
        <5> HIDE DEF missing
        <5> QED BY <1>7, <2>2, <4>1, RepeatFacts
      <4> QED BY <1>6, <1>9, <3>2, <4>2
    <3> QED
      BY <3>1, <3>2
  <2>4. ((hex \o zeroes) \o octal) \o str = body
    <3>1. <<>> \o zeroes = zeroes /\ zeroes \o <<>> = zeroes
      BY <1>8, Joined
    <3> QED BY <2>1, <3>1
  <2>5. sign \o body = body /\ spaces \o sign = spaces /\ body \in Text
    <3>1. spaces \o <<>> = spaces
      BY <1>9, Joined
    <3> QED BY <1>11, <2>1, <3>1
  <2>6. body \o spaces \in Text /\ spaces \o body \in Text
    BY <1>9, <2>5, Joined
  <2> HIDE DEF hex, octal, sign, body, spaces, zeroes, missing
  <2>7. Formatted(str, hex, octal) = CConversion(spec, val)
    BY <1>10, <1>14, <2>3, <2>4, <2>5
  <2>8. CConversion(spec, val) \in Text
    BY <1>14, <2>3, <2>5, <2>6
  <2> QED
    BY <2>7, <2>8 DEF hex, octal, str, b
<1>16. CASE alternate
  <2>1. /\ spec.conversion \in {"o", "x"} /\ width <= Most(L, prec)
        /\ spec.conversion = "o" => prec <= L
    BY <1>1, <1>16
  <2>2. width <= L + z
    BY <1>5, <2>1 DEF Most
  <2>3. spaces = <<>>
    BY <1>5, <1>6, <1>9, <2>2
  <2>4. /\ ((hex \o zeroes) \o octal) \o str = hex \o body
        /\ body \in Text /\ hex \in Text /\ Len(body) >= L + z /\ Len(body) \in Nat
    <3>1. CASE spec.conversion = "o"
      <4>1. hex = <<>> /\ octal = <<"0">> /\ body = <<"0">> \o str /\ z = 0
            /\ zeroes = <<>>
        <5>1. hex = <<>> /\ octal = <<"0">> /\ body = <<"0">> \o str
          BY <1>12, <1>16, <3>1
        <5>2. z = 0
          BY <1>5, <2>1, <3>1
        <5> QED
          BY <1>8, <5>1, <5>2
      <4>2. <<>> \o <<>> = <<>> /\ <<>> \o <<"0">> = <<"0">>
        BY <1>7, Joined
      <4>3. <<>> \o (<<"0">> \o str) = <<"0">> \o str
        <5> DEFINE t == <<"0">> \o str
        <5> HIDE DEF t
        <5>1. t \in Text
          BY <1>11 DEF t
        <5>2. <<>> \o t = t
          BY <5>1, Joined
        <5> QED BY <5>2 DEF t
      <4> HIDE DEF hex, octal, body, zeroes
      <4>4. ((hex \o zeroes) \o octal) \o str = hex \o body
        BY <4>1, <4>2, <4>3
      <4>5. Len(body) = 1 + L /\ 1 + L >= L + z /\ 1 + L \in Nat
        BY <1>5, <1>11, <4>1
      <4> QED
        BY <1>7, <1>11, <4>1, <4>4, <4>5
    <3>2. CASE spec.conversion = "x"
      <4>1. hex = <<"0", "x">> /\ octal = <<>> /\ body = zeroes \o str
        BY <1>12, <1>16, <3>2
      <4> HIDE DEF hex, octal, body, zeroes
      <4>2. hex \in Text
        BY <1>7, <4>1
      <4>3. hex \o zeroes \in Text
        BY <1>8, <4>2, Joined
      <4>4. (hex \o zeroes) \o <<>> = hex \o zeroes
        <5> DEFINE t == hex \o zeroes
        <5> HIDE DEF t
        <5>1. t \in Text
          BY <4>3 DEF t
        <5>2. t \o <<>> = t
          BY <5>1, Joined
        <5> QED BY <5>2 DEF t
      <4>5. (hex \o zeroes) \o str = hex \o (zeroes \o str)
        BY <1>4, <1>8, <4>2, Associative
      <4>6. z + L >= L + z /\ z + L \in Nat
        BY <1>5
      <4> QED
        BY <1>11, <4>1, <4>2, <4>4, <4>5, <4>6
    <3> QED
      BY <2>1, <3>1, <3>2
  <2>5. Repeat(Blank, missing) = <<>>
    <3>1. Len(sign) \in Nat
      <4> HIDE DEF sign, hex
      <4> QED BY <1>13, <2>4, Joined
    <3>2. missing \in Int /\ missing <= 0
      <4> HIDE DEF sign, body
      <4> QED BY <1>5, <2>2, <2>4, <3>1
    <3> HIDE DEF missing
    <3> QED
      BY <1>7, <3>2, RepeatFacts
  <2>6. hex \o body \in Text
    BY <2>4, Joined
  <2>7. (hex \o body) \o <<>> = hex \o body /\ <<>> \o (hex \o body) = hex \o body
        /\ <<>> \o hex = hex
    <3> DEFINE t == hex \o body
    <3> HIDE DEF t
    <3>1. t \in Text
      BY <2>6 DEF t
    <3>2. t \o <<>> = t /\ <<>> \o t = t
      BY <3>1, Joined
    <3>3. <<>> \o hex = hex
      BY <2>4, Joined
    <3> QED BY <3>2, <3>3 DEF t
  <2> HIDE DEF hex, octal, sign, body, spaces, zeroes, missing
  <2>8. Formatted(str, hex, octal) = hex \o body
    BY <1>10, <2>3, <2>4, <2>7
  <2>9. CConversion(spec, val) = hex \o body
    BY <1>13, <1>14, <2>5, <2>7
  <2> QED
    BY <2>6, <2>8, <2>9 DEF hex, octal, str, b
<1> QED
  BY <1>15, <1>16

\* A negative number that fills its field and its precision is printed as C
\* does: what is taken off the zeroes and the spaces for the sign was nothing.
LEMMA NegativePrinted ==
  ASSUME NEW spec, NEW val \in Ints, val < 0,
         spec.conversion \in Numeric, Implemented(spec, val),
         spec.width \in Nat, spec.precision \in Nat, spec.precise \in BOOLEAN,
         totalPadding = spec.width,
         totalPrecision = IF spec.precise THEN spec.precision ELSE 0
  PROVE  LET str == Itoa(val, Base(spec.conversion))
         IN  /\ "#" \notin spec.flags
             /\ Formatted(str, <<>>, <<>>) = CConversion(spec, val)
             /\ CConversion(spec, val) \in Text
<1> DEFINE str == Itoa(val, 10)
           digits == Itoa(-val, 10)
           L == Len(str)
           prec == spec.precision
           width == spec.width
<1>1. /\ spec.flags \subseteq {"-", "#"} /\ "#" \notin spec.flags
      /\ spec.conversion \in {"d", "i"} /\ width <= L /\ prec < L /\ val \in Int
  <2>1. spec.conversion \notin {"%", "c", "s"}
    BY DEF Numeric
  <2>2. val \in Int /\ ~ (val > 0) /\ val # 0
    BY KprintfAssumption
  <2> QED
    BY <2>1, <2>2 DEF Implemented
<1>2. Base(spec.conversion) = 10
  BY <1>1 DEF Base
<1>3. digits \in Seq(STRING) \ {<<>>} /\ str = <<"-">> \o digits
  BY CFormatAssumption
<1> HIDE DEF str, digits
<1>4. /\ digits \in Text /\ Len(digits) \in Nat \ {0} /\ <<"-">> \in Text
      /\ str \in Text /\ L = 1 + Len(digits) /\ str[1] = "-"
  <2>1. STRING \subseteq Printed /\ "-" \in Printed
    <3>1. STRING \subseteq Printed
      BY DEF Printed
    <3>2. "-" \in Printed
      BY DEF Printed
    <3> QED BY <3>1, <3>2
  <2>2. digits \in Text
    <3> HIDE DEF Printed
    <3> QED BY <1>3, <2>1, SeqMonotonic DEF Text
  <2>3. Len(digits) \in Nat /\ (Len(digits) = 0 => digits = <<>>)
    BY <1>3, EmptySeq
  <2>4. <<"-">> \in Text /\ Len(<<"-">>) = 1
    <3> HIDE DEF Printed
    <3> QED BY <2>1 DEF Text
  <2>5. str \in Text /\ Len(str) = Len(<<"-">>) + Len(digits)
    BY <1>3, <2>2, <2>4, Joined
  <2>6. str[1] = "-"
    BY <1>3
  <2> QED
    BY <1>3, <2>2, <2>3, <2>4, <2>5, <2>6
<1>5. NumZeroes(str) = 0 /\ NumSpaces(str) = 0
  <2>1. NumZeroes(str) = 0
    BY <1>1, <1>4 DEF NumZeroes
  <2> QED
    BY <1>1, <1>4, <2>1 DEF NumSpaces
<1>6. \A n \in Int : \A ch : n <= 0 => Repeat(ch, n) = <<>>
  BY DEF Repeat
<1>7. <<>> \o <<>> = <<>> /\ <<>> \o str = str /\ str \o <<>> = str
      /\ <<>> \o digits = digits /\ <<>> \o <<"-">> = <<"-">>
  BY <1>4, EmptySeq, Joined DEF Text
<1>8. Formatted(str, <<>>, <<>>) = str
  <2>1. Repeat(Blank, NumSpaces(str) - 1) = <<>> /\ Repeat("0", NumZeroes(str) - 1) = <<>>
    BY <1>5, <1>6
  <2> QED
    BY <1>4, <1>7, <2>1 DEF Formatted
<1>9. CSign(spec, val) = <<"-">>
  BY DEF CSign
<1>10. CDigits(spec, val) = digits
  <2>1. CNumeral(spec.conversion, val) = digits
    BY <1>1, <1>2 DEF CNumeral, Magnitude, digits
  <2>2. Repeat("0", prec - Len(digits)) = <<>>
    BY <1>1, <1>4, <1>6
  <2>3. ~ (val = 0 /\ prec = 0)
    BY <1>1
  <2> QED
    BY <1>1, <1>7, <2>1, <2>2, <2>3 DEF CDigits
<1>11. CConversion(spec, val) = str
  <2> DEFINE missing == width - Len(<<"-">>) - Len(digits)
  <2>1. Repeat(Blank, missing) = <<>>
    <3>1. Len(<<"-">>) = 1
      OBVIOUS
    <3>2. missing \in Int /\ missing <= 0
      BY <1>1, <1>4, <3>1
    <3> QED BY <1>6, <3>2
  <2>2. "0" \notin spec.flags
    BY <1>1
  <2>3. CConversion(spec, val)
          = IF "-" \in spec.flags
            THEN (<<"-">> \o digits) \o Repeat(Blank, missing)
            ELSE (Repeat(Blank, missing) \o <<"-">>) \o digits
    BY <1>9, <1>10, <2>2 DEF CConversion
  <2> HIDE DEF missing
  <2> QED
    BY <1>3, <1>7, <2>1, <2>3
<1> QED
  BY <1>1, <1>2, <1>4, <1>8, <1>11 DEF str

-----------------------------------------------------------------------------
(* The text and the conversions from a position on *)

\* One turn of the recursion of CTextFrom, for the texts f behind the position.
TextAt(f, args, pos, used) ==
  IF At(pos) = NUL THEN <<>>
  ELSE IF At(pos) # "%" THEN <<At(pos)>> \o f[pos + 1][used]
  ELSE LET spec == Specification(pos)
       IN  IF spec.conversion = NUL THEN <<>>
           ELSE IF spec.conversion = "%" THEN <<"%">> \o f[spec.end + 1][used]
           ELSE CConversion(spec, args[used + 1]) \o f[spec.end + 1][used + 1]

\* A function that satisfies the recursion from a position on.
TextsFrom(f, args, start) ==
  f = [pos \in start .. Len(format) |-> [used \in Nat |-> TextAt(f, args, pos, used)]]

\* There is one for the whole format: by the shortest end of it for which
\* there were none.
LEMMA TextsExist ==
  ASSUME format \in Formats, NEW args
  PROVE  \E f : TextsFrom(f, args, 0)
<1>1. Len(format) \in Nat
  BY Terminator
<1> DEFINE Bad == {m \in 0 .. Len(format) : \A f : ~ TextsFrom(f, args, Len(format) - m)}
<1>2. Bad = {}
  <2> SUFFICES ASSUME Bad # {} PROVE FALSE
    OBVIOUS
  <2>1. PICK m \in Bad : \A k \in Bad : m <= k
    <3>1. Bad \in SUBSET Nat
      BY <1>1
    <3> HIDE DEF Bad
    <3> QED BY <3>1, First
  <2> DEFINE n == Len(format) - m
  <2>2. m \in 0 .. Len(format) /\ n \in 0 .. Len(format) /\ m \in Nat /\ n \in Nat
    BY <1>1
  <2>3. \A f : ~ TextsFrom(f, args, n)
    BY <2>1
  <2>4. m # 0
    <3> SUFFICES ASSUME m = 0 PROVE FALSE
      OBVIOUS
    <3> DEFINE e == [pos \in n .. Len(format) |->
                     [used \in Nat |-> <<>>]]
    <3>1. \A pos \in n .. Len(format) : At(pos) = NUL
      <4>1. \A pos \in n .. Len(format) : pos = Len(format)
        BY <1>1, <2>2
      <4> QED BY <1>1, <4>1, Terminator
    <3>2. \A f, pos, used : pos \in n .. Len(format) =>
            TextAt(f, args, pos, used) = <<>>
      BY <3>1 DEF TextAt
    <3>3. TextsFrom(e, args, n)
      <4> HIDE DEF n
      <4> QED BY <3>2 DEF TextsFrom
    <3> QED
      BY <2>3, <3>3
  <2>5. PICK f : TextsFrom(f, args, n + 1)
    <3>1. /\ m - 1 \in 0 .. Len(format) /\ ~ (m <= m - 1)
          /\ Len(format) - (m - 1) = n + 1
      BY <1>1, <2>2, <2>4
    <3>2. \E f : TextsFrom(f, args, Len(format) - (m - 1))
      <4> HIDE DEF n
      <4> QED BY <2>1, <3>1
    <3> QED
      BY <3>1, <3>2
  <2> HIDE DEF n, Bad
  <2> DEFINE h == [pos \in n .. Len(format) |->
                     IF pos = n THEN [used \in Nat |-> TextAt(f, args, n, used)]
                     ELSE f[pos]]
  <2>6. ASSUME NEW pos \in n .. Len(format)
        PROVE  h[pos] = [used \in Nat |-> TextAt(f, args, pos, used)]
    <3>1. pos # n => f[pos] = [used \in Nat |-> TextAt(f, args, pos, used)]
      <4>1. pos # n => pos \in n + 1 .. Len(format)
        BY <1>1, <2>2
      <4> QED BY <2>5, <4>1 DEF TextsFrom
    <3> QED BY <3>1
  <2>7. ASSUME NEW pos \in n .. Len(format), NEW used \in Nat
        PROVE  TextAt(h, args, pos, used) = TextAt(f, args, pos, used)
    <3>1. pos \in 0 .. Len(format) /\ pos \in Nat
      BY <1>1, <2>2
    <3>2. At(pos) # NUL => pos + 1 \in n + 1 .. Len(format)
      BY <1>1, <2>2, <3>1, AtFacts
    <3>3. At(pos) # NUL => h[pos + 1] = f[pos + 1]
      BY <1>1, <2>2, <3>1, <3>2
    <3> DEFINE end == Specification(pos).end
    <3>4. At(pos) = "%" /\ Specification(pos).conversion # NUL =>
            end + 1 \in n + 1 .. Len(format) /\ end + 1 # n
      <4>1. At(pos) = "%" /\ Specification(pos).conversion # NUL =>
              end + 1 \in pos + 1 .. Len(format)
        BY <3>1, SpecificationFacts
      <4> HIDE DEF end
      <4> QED BY <1>1, <2>2, <3>1, <4>1
    <3>5. At(pos) = "%" /\ Specification(pos).conversion # NUL =>
            h[end + 1] = f[end + 1]
      <4> HIDE DEF end
      <4> QED BY <1>1, <2>2, <3>4
    <3> HIDE DEF h
    <3> QED
      BY <3>3, <3>5 DEF TextAt
  <2>8. TextsFrom(h, args, n)
    <3>1. h = [pos \in n .. Len(format) |-> h[pos]]
      OBVIOUS
    <3> HIDE DEF h
    <3>2. \A pos \in n .. Len(format) :
            h[pos] = [used \in Nat |-> TextAt(h, args, pos, used)]
      BY <2>6, <2>7
    <3>3. h = [pos \in n .. Len(format) |->
                     [used \in Nat |-> TextAt(h, args, pos, used)]]
      BY <3>1, <3>2
    <3> QED
      BY <3>3 DEF TextsFrom
  <2> QED
    BY <2>3, <2>8
<1>3. \E f : TextsFrom(f, args, Len(format) - Len(format))
  <2>1. Len(format) \in 0 .. Len(format)
    BY <1>1
  <2> HIDE DEF TextsFrom
  <2> QED
    BY <1>2, <2>1
<1>4. Len(format) - Len(format) = 0
  BY <1>1
<1> QED
  BY <1>3, <1>4

\* The equation of CTextFrom.
LEMMA CTextIs ==
  ASSUME format \in Formats, NEW args,
         NEW pos \in 0 .. Len(format), NEW used \in Nat
  PROVE  CTextFrom(args)[pos][used] = TextAt(CTextFrom(args), args, pos, used)
<1> DEFINE g == CHOOSE f : f = [p \in 0 .. Len(format) |-> [u \in Nat |->
                  TextAt(f, args, p, u)]]
<1>1. g = [p \in 0 .. Len(format) |-> [u \in Nat |-> TextAt(g, args, p, u)]]
  BY TextsExist DEF TextsFrom
<1>2. CTextFrom(args) = g
  BY DEF CTextFrom, TextAt
<1> HIDE DEF g
<1>3. g[pos] = [u \in Nat |-> TextAt(g, args, pos, u)]
  BY <1>1, Zenon
<1>4. g[pos][used] = TextAt(g, args, pos, used)
  BY <1>3
<1> QED
  BY <1>2, <1>4

\* One turn of the recursion of ConversionsFrom.
ConversionsAt(f, pos, used, asked) ==
  IF At(pos) = NUL THEN {}
  ELSE IF At(pos) # "%" THEN f[pos + 1][used][asked]
  ELSE LET spec == Specification(pos)
           next == IF spec.conversion = "%" THEN used ELSE used + 1
       IN  {[spec |-> spec, argument |-> used + 1, asked |-> asked]}
             \cup IF spec.conversion = NUL THEN {}
                  ELSE f[spec.end + 1][next][asked \cup Requested(spec)]

ConversionsUpFrom(f, start) ==
  f = [pos \in start .. Len(format) |-> [used \in Nat |->
         [asked \in SUBSET Requests |-> ConversionsAt(f, pos, used, asked)]]]

\* A function satisfies it, as above.
LEMMA ConversionsExist ==
  ASSUME format \in Formats
  PROVE  \E f : ConversionsUpFrom(f, 0)
<1>1. Len(format) \in Nat
  BY Terminator
<1> DEFINE Bad == {m \in 0 .. Len(format) : \A f : ~ ConversionsUpFrom(f, Len(format) - m)}
<1>2. Bad = {}
  <2> SUFFICES ASSUME Bad # {} PROVE FALSE
    OBVIOUS
  <2>1. PICK m \in Bad : \A k \in Bad : m <= k
    <3>1. Bad \in SUBSET Nat
      BY <1>1
    <3> HIDE DEF Bad
    <3> QED BY <3>1, First
  <2> DEFINE n == Len(format) - m
  <2>2. m \in 0 .. Len(format) /\ n \in 0 .. Len(format) /\ m \in Nat /\ n \in Nat
    BY <1>1
  <2>3. \A f : ~ ConversionsUpFrom(f, n)
    BY <2>1
  <2>4. m # 0
    <3> SUFFICES ASSUME m = 0 PROVE FALSE
      OBVIOUS
    <3> DEFINE e == [pos \in n .. Len(format) |->
                     [used \in Nat |->
                     [asked \in SUBSET Requests |-> {}]]]
    <3>1. \A pos \in n .. Len(format) : At(pos) = NUL
      <4>1. \A pos \in n .. Len(format) : pos = Len(format)
        BY <1>1, <2>2
      <4> QED BY <1>1, <4>1, Terminator
    <3>2. \A f, pos, used, asked : pos \in n .. Len(format) =>
            ConversionsAt(f, pos, used, asked) = {}
      BY <3>1 DEF ConversionsAt
    <3>3. ConversionsUpFrom(e, n)
      <4> HIDE DEF n
      <4> QED BY <3>2 DEF ConversionsUpFrom
    <3> QED
      BY <2>3, <3>3
  <2>5. PICK f : ConversionsUpFrom(f, n + 1)
    <3>1. /\ m - 1 \in 0 .. Len(format) /\ ~ (m <= m - 1)
          /\ Len(format) - (m - 1) = n + 1
      BY <1>1, <2>2, <2>4
    <3>2. \E f : ConversionsUpFrom(f, Len(format) - (m - 1))
      <4> HIDE DEF n
      <4> QED BY <2>1, <3>1
    <3> QED
      BY <3>1, <3>2
  <2> HIDE DEF n, Bad
  <2> DEFINE h == [pos \in n .. Len(format) |->
                     IF pos = n THEN [used \in Nat |->
                     [asked \in SUBSET Requests |-> ConversionsAt(f, n, used, asked)]]
                     ELSE f[pos]]
  <2>6. ASSUME NEW pos \in n .. Len(format)
        PROVE  h[pos] = [used \in Nat |->
                     [asked \in SUBSET Requests |-> ConversionsAt(f, pos, used, asked)]]
    <3>1. pos # n => f[pos] = [used \in Nat |->
                     [asked \in SUBSET Requests |-> ConversionsAt(f, pos, used, asked)]]
      <4>1. pos # n => pos \in n + 1 .. Len(format)
        BY <1>1, <2>2
      <4> QED BY <2>5, <4>1 DEF ConversionsUpFrom
    <3> QED BY <3>1
  <2>7. ASSUME NEW pos \in n .. Len(format), NEW used \in Nat,
               NEW asked \in SUBSET Requests
        PROVE  ConversionsAt(h, pos, used, asked) = ConversionsAt(f, pos, used, asked)
    <3>1. pos \in 0 .. Len(format) /\ pos \in Nat
      BY <1>1, <2>2
    <3>2. At(pos) # NUL => pos + 1 \in n + 1 .. Len(format)
      BY <1>1, <2>2, <3>1, AtFacts
    <3>3. At(pos) # NUL => h[pos + 1] = f[pos + 1]
      BY <1>1, <2>2, <3>1, <3>2
    <3> DEFINE end == Specification(pos).end
    <3>4. At(pos) = "%" /\ Specification(pos).conversion # NUL =>
            end + 1 \in n + 1 .. Len(format) /\ end + 1 # n
      <4>1. At(pos) = "%" /\ Specification(pos).conversion # NUL =>
              end + 1 \in pos + 1 .. Len(format)
        BY <3>1, SpecificationFacts
      <4> HIDE DEF end
      <4> QED BY <1>1, <2>2, <3>1, <4>1
    <3>5. At(pos) = "%" /\ Specification(pos).conversion # NUL =>
            h[end + 1] = f[end + 1]
      <4> HIDE DEF end
      <4> QED BY <1>1, <2>2, <3>4
    <3> HIDE DEF h
    <3> QED
      BY <3>3, <3>5 DEF ConversionsAt
  <2>8. ConversionsUpFrom(h, n)
    <3>1. h = [pos \in n .. Len(format) |-> h[pos]]
      OBVIOUS
    <3> HIDE DEF h
    <3>2. \A pos \in n .. Len(format) :
            h[pos] = [used \in Nat |->
                     [asked \in SUBSET Requests |-> ConversionsAt(h, pos, used, asked)]]
      BY <2>6, <2>7
    <3>3. h = [pos \in n .. Len(format) |->
                     [used \in Nat |->
                     [asked \in SUBSET Requests |-> ConversionsAt(h, pos, used, asked)]]]
      BY <3>1, <3>2
    <3> QED
      BY <3>3 DEF ConversionsUpFrom
  <2> QED
    BY <2>3, <2>8
<1>3. \E f : ConversionsUpFrom(f, Len(format) - Len(format))
  <2>1. Len(format) \in 0 .. Len(format)
    BY <1>1
  <2> HIDE DEF ConversionsUpFrom
  <2> QED
    BY <1>2, <2>1
<1>4. Len(format) - Len(format) = 0
  BY <1>1
<1> QED
  BY <1>3, <1>4

\* The equation of ConversionsFrom.
LEMMA ConversionsAre ==
  ASSUME format \in Formats, NEW pos \in 0 .. Len(format), NEW used \in Nat,
         NEW asked \in SUBSET Requests
  PROVE  ConversionsFrom[pos][used][asked]
           = ConversionsAt(ConversionsFrom, pos, used, asked)
<1> DEFINE g == CHOOSE f : f = [p \in 0 .. Len(format) |-> [u \in Nat |->
                  [a \in SUBSET Requests |-> ConversionsAt(f, p, u, a)]]]
<1>1. g = [p \in 0 .. Len(format) |-> [u \in Nat |->
             [a \in SUBSET Requests |-> ConversionsAt(g, p, u, a)]]]
  BY ConversionsExist DEF ConversionsUpFrom
<1>2. ConversionsFrom = g
  BY DEF ConversionsFrom, ConversionsAt
<1> HIDE DEF g
<1>3. g[pos] = [u \in Nat |-> [a \in SUBSET Requests |-> ConversionsAt(g, pos, u, a)]]
  BY <1>1, Zenon
<1>4. g[pos][used] = [a \in SUBSET Requests |-> ConversionsAt(g, pos, used, a)]
  BY <1>3, Zenon
<1>5. g[pos][used][asked] = ConversionsAt(g, pos, used, asked)
  BY <1>4, Zenon
<1> QED
  BY <1>2, <1>5

-----------------------------------------------------------------------------
(* What kprintf has printed, and what C has printed by then *)

Values == Ints \cup Uints \cup Texts \cup Letters

\* Lists of arguments that begin with those that were taken.
Extends(args) == \A n \in 1 .. Len(passed) : args[n] = passed[n]

\* Every conversion is one of C's; that much of the implemented part does not
\* depend on the arguments.
Readable ==
  \A c \in ConversionsFrom[0][0][{}] : c.spec.conversion \in Arguments \cup {"%"}

\* C prints text for the format up to pos.  Where the arguments do not reach,
\* the rest of the format has no text.
Ends(args, pos, used, text) ==
  /\ text \in Text
  /\ CTextFrom(args)[pos][used] \in Text =>
       CTextFrom(args)[0][0] = text \o CTextFrom(args)[pos][used]

\* pos is a position that C's reading of the format comes to, with the
\* arguments that were taken and the modifiers asked for before it, and what
\* was printed is what C prints up to there, whatever arguments follow.
Reached(pos, asked) ==
  ConversionsFrom[pos][Len(passed)][asked] \subseteq ConversionsFrom[0][0][{}]

Continues(pos) ==
  \A args : Extends(args) /\ InImplementedPart(args) =>
              Ends(args, pos, Len(passed), out)

\* The modifiers are those of the specification as far as it is read, or were
\* asked for by one before it.
Flagged(asked, flags) ==
  /\ leftAdjusted => "-" \in asked \cup flags
  /\ useAlternateForm => "#" \in asked \cup flags
  /\ "-" \in flags => leftAdjusted
  /\ "#" \in flags => useAlternateForm

Padded(asked, width) == totalPadding = width \/ (width = 0 /\ "width" \in asked)

PrecisionKept(asked) == totalPrecision = 0 \/ "precision" \in asked

FlagsRead(n) == {At(k) : k \in n + 1 .. bufPos - 1}

\* The stages of the loop.
InText(asked) ==
  /\ Reached(bufPos, asked) /\ Continues(bufPos)
  /\ Flagged(asked, {}) /\ Padded(asked, 0) /\ PrecisionKept(asked)

Opened(n, asked) ==
  /\ n < bufPos /\ At(n) = "%" /\ Reached(n, asked) /\ Continues(n)

InFlags(n, asked) ==
  /\ Opened(n, asked)
  /\ \A k \in n + 1 .. bufPos - 1 : At(k) \in FlagChars
  /\ Flagged(asked, FlagsRead(n)) /\ Padded(asked, 0) /\ PrecisionKept(asked)

AtPrecision(n, asked) ==
  /\ Opened(n, asked)
  /\ bufPos = DigitsEnd(FlagsEnd(n))
  /\ Flagged(asked, Specification(n).flags)
  /\ Padded(asked, Specification(n).width)
  /\ PrecisionKept(asked)

AtConversion(n, asked) ==
  /\ Opened(n, asked)
  /\ bufPos = Specification(n).end
  /\ Flagged(asked, Specification(n).flags)
  /\ Padded(asked, Specification(n).width)
  /\ IF Specification(n).precise
     THEN totalPrecision = Specification(n).precision
     ELSE PrecisionKept(asked)

\* kprintf and C are at the same place, as long as C can read the format.
Together ==
  /\ pc = "text" => \E asked \in SUBSET Requests : InText(asked)
  /\ pc = "flags" => \E n \in Nat, asked \in SUBSET Requests : InFlags(n, asked)
  /\ pc = "precision" =>
       \E n \in Nat, asked \in SUBSET Requests : AtPrecision(n, asked)
  /\ pc = "convert" =>
       \E n \in Nat, asked \in SUBSET Requests : AtConversion(n, asked)
  /\ pc = "done" /\ InImplementedPart(passed) => out = CText

TextInv ==
  /\ Inv /\ Modifiers
  /\ passed \in Seq(Values)
  /\ Readable => Together

\* The reading of the format does not change while it is walked.
LEMMA SameReading ==
  ASSUME format' = format
  PROVE  /\ \A n : At(n)' = At(n)
         /\ \A n : FlagsEnd(n)' = FlagsEnd(n)
         /\ \A n : DigitsEnd(n)' = DigitsEnd(n)
         /\ \A n : Decimal(n)' = Decimal(n)
         /\ \A n : Specification(n)' = Specification(n)
<1>1. \A n : At(n)' = At(n)
  BY DEF At
<1>2. \A n : FlagsEnd(n)' = FlagsEnd(n)
  BY DEF FlagsEnd, At
<1>3. \A n : DigitsEnd(n)' = DigitsEnd(n)
  BY DEF DigitsEnd, At
<1>4. \A n : Decimal(n)' = Decimal(n)
  BY DEF Decimal, DigitsEnd, At
<1>5. \A n : Specification(n)' = Specification(n)
  BY DEF Specification, FlagsEnd, Decimal, DigitsEnd, At
<1> QED
  BY <1>1, <1>2, <1>3, <1>4, <1>5

\* Nor do the texts and the conversions that C reads in it.
LEMMA SameTexts ==
  ASSUME format' = format
  PROVE  /\ \A args : CTextFrom(args)' = CTextFrom(args)
         /\ ConversionsFrom' = ConversionsFrom
         /\ \A args : InImplementedPart(args)' <=> InImplementedPart(args)
         /\ Readable' <=> Readable
<1>1. \A args : CTextFrom(args)' = CTextFrom(args)
  BY DEF CTextFrom, Specification, FlagsEnd, Decimal, DigitsEnd, At
<1>2. ConversionsFrom' = ConversionsFrom
  BY DEF ConversionsFrom, Specification, FlagsEnd, Decimal, DigitsEnd, At
<1>3. \A args : InImplementedPart(args)' <=> InImplementedPart(args)
  BY <1>2 DEF InImplementedPart
<1>4. Readable' <=> Readable
  BY <1>2 DEF Readable
<1> QED
  BY <1>1, <1>2, <1>3, <1>4

\* Nor does the place, while nothing is printed and no argument is taken.
LEMMA SamePlace ==
  ASSUME UNCHANGED <<format, passed, out>>, NEW pos, NEW asked
  PROVE  /\ Reached(pos, asked) => Reached(pos, asked)'
         /\ Continues(pos) => Continues(pos)'
<1>1. ConversionsFrom' = ConversionsFrom
  BY SameTexts
<1>2. Reached(pos, asked) => Reached(pos, asked)'
  BY <1>1 DEF Reached
<1>3. ASSUME NEW args
      PROVE  Ends(args, pos, Len(passed), out) => Ends(args, pos, Len(passed), out)'
  <2>1. CTextFrom(args)' = CTextFrom(args)
    BY SameTexts
  <2> QED
    BY <2>1 DEF Ends, Text, Printed
<1>4. \A args : Extends(args)' => Extends(args)
  BY DEF Extends
<1>5. \A args : InImplementedPart(args)' => InImplementedPart(args)
  BY SameTexts
<1> QED
  BY <1>2, <1>3, <1>4, <1>5 DEF Continues

\* A piece of the format more is a piece of the text more.
LEMMA Advance ==
  ASSUME NEW text, NEW piece \in Text, NEW args,
         NEW pos, NEW used, NEW p, NEW u, Ends(args, pos, used, text),
         CTextFrom(args)[p][u] \in Text =>
           CTextFrom(args)[pos][used] = piece \o CTextFrom(args)[p][u]
  PROVE  Ends(args, p, u, text \o piece)
<1> DEFINE old == CTextFrom(args)[pos][used]
           new == CTextFrom(args)[p][u]
           all == CTextFrom(args)[0][0]
<1>1. /\ text \in Text
      /\ old \in Text => all = text \o old
      /\ new \in Text => old = piece \o new
  BY DEF Ends
<1>2. text \o piece \in Text
  BY <1>1, Joined
<1> SUFFICES ASSUME new \in Text PROVE all = (text \o piece) \o new
  BY <1>2 DEF Ends
<1> HIDE DEF old, new, all
<1>3. old \in Text
  BY <1>1, Joined
<1>4. (text \o piece) \o new = text \o (piece \o new)
  BY <1>1, Associative
<1> QED
  BY <1>1, <1>3, <1>4

\* Where the position is, whatever the stage.
LEMMA Here ==
  ASSUME TextInv, pc # "beyond"
  PROVE  /\ format \in Formats /\ Len(format) \in Nat
         /\ bufPos \in 0 .. Len(format) /\ bufPos \in Nat
         /\ passed \in Seq(Values) /\ Len(passed) \in Nat
         /\ At(bufPos) # NUL => At(bufPos) \in STRING
<1>1. format \in Formats /\ bufPos \in Nat /\ bufPos <= Len(format)
      /\ passed \in Seq(Values)
  BY DEF TextInv, Inv
<1>2. Len(format) \in Nat /\ Len(passed) \in Nat
  BY <1>1, Terminator
<1>3. bufPos \in 0 .. Len(format)
  BY <1>1, <1>2
<1> QED
  BY <1>1, <1>2, <1>3, AtFacts

\* A conversion C reads from here is one of the whole format's.
LEMMA ThisConversion ==
  ASSUME format \in Formats, Len(passed) \in Nat,
         NEW n \in 0 .. Len(format), NEW asked \in SUBSET Requests,
         At(n) = "%", Reached(n, asked)
  PROVE  LET spec == Specification(n)
             next == IF spec.conversion = "%" THEN Len(passed) ELSE Len(passed) + 1
         IN  /\ [spec |-> spec, argument |-> Len(passed) + 1, asked |-> asked]
                  \in ConversionsFrom[0][0][{}]
             /\ spec.conversion # NUL =>
                  ConversionsFrom[spec.end + 1][next][asked \cup Requested(spec)]
                    \subseteq ConversionsFrom[0][0][{}]
<1>1. ConversionsFrom[n][Len(passed)][asked]
        = ConversionsAt(ConversionsFrom, n, Len(passed), asked)
  BY ConversionsAre
<1>2. ConversionsAt(ConversionsFrom, n, Len(passed), asked)
        \subseteq ConversionsFrom[0][0][{}]
  BY <1>1 DEF Reached
<1>3. At(n) # NUL
  BY DEF NUL
<1> QED
  BY <1>2, <1>3 DEF ConversionsAt

\* At its start kprintf is where C starts.
LEMMA TextInit == Init => TextInv
<1> SUFFICES ASSUME Init PROVE TextInv
  OBVIOUS
<1>1. Inv /\ Modifiers
  <2>1. totalPadding \in Nat /\ totalPrecision \in Int
    BY DEF Init
  <2>2. leftAdjusted \in BOOLEAN /\ useAlternateForm \in BOOLEAN
    BY DEF Init
  <2> QED
    BY <2>1, <2>2, InvInit DEF Modifiers
<1>2. passed = <<>> /\ passed \in Seq(Values) /\ Len(passed) = 0 /\ out = <<>>
      /\ bufPos = 0 /\ pc = "text"
  BY EmptySeq DEF Init
<1>3. Reached(0, {}) /\ {} \in SUBSET Requests
  BY <1>2 DEF Reached
<1>4. Continues(0)
  <2>1. <<>> \in Text /\ \A t \in Text : <<>> \o t = t
    BY Joined, EmptySeq DEF Text
  <2> QED
    BY <1>2, <2>1 DEF Continues, Ends
<1>5. Flagged({}, {}) /\ Padded({}, 0) /\ PrecisionKept({})
  BY DEF Init, Flagged, Padded, PrecisionKept
<1>6. InText({})
  BY <1>2, <1>3, <1>4, <1>5 DEF InText
<1> QED
  BY <1>1, <1>2, <1>3, <1>6 DEF TextInv, Together

\* The format's end is the text's.
LEMMA FinishTogether ==
  ASSUME TextInv, Readable, Finish
  PROVE  Together'
<1>1. /\ pc = "text" /\ pc' = "done" /\ At(bufPos) = NUL
      /\ UNCHANGED <<format, passed, out>>
  BY DEF Finish
<1>2. PICK asked \in SUBSET Requests : InText(asked)
  BY <1>1 DEF TextInv, Together
<1>3. ASSUME InImplementedPart(passed) PROVE out = CText
  <2>1. Ends(passed, bufPos, Len(passed), out)
    BY <1>2, <1>3 DEF InText, Continues, Extends
  <2>2. CTextFrom(passed)[bufPos][Len(passed)] = <<>>
    <3>1. CTextFrom(passed)[bufPos][Len(passed)]
            = TextAt(CTextFrom(passed), passed, bufPos, Len(passed))
      BY <1>1, Here, CTextIs
    <3> QED
      BY <1>1, <3>1 DEF TextAt
  <2>3. <<>> \in Text /\ out \in Text /\ out \o <<>> = out
    BY <2>1, Joined, EmptySeq DEF Ends
  <2> QED
    BY <2>1, <2>2, <2>3 DEF Ends, CText
<1>4. InImplementedPart(passed)' => InImplementedPart(passed)
  <2>1. PICK args : args = passed
    OBVIOUS
  <2>2. InImplementedPart(args)' => InImplementedPart(args)
    BY <1>1, SameTexts
  <2> QED
    BY <1>1, <2>1, <2>2 DEF InImplementedPart
<1>5. CText' = CText
  <2>1. PICK args : args = passed
    OBVIOUS
  <2>2. CTextFrom(args)' = CTextFrom(args)
    BY <1>1, SameTexts
  <2>3. passed' = args
    BY <1>1, <2>1
  <2>4. CTextFrom(passed)' = CTextFrom(passed)
    BY <2>1, <2>2, <2>3
  <2> QED
    BY <2>4 DEF CText
<1> QED
  BY <1>1, <1>3, <1>4, <1>5 DEF Together

\* A character of the format is printed as it is.
LEMMA LiteralTogether ==
  ASSUME TextInv, Readable, PrintLiteral
  PROVE  Together'
<1> DEFINE c == At(bufPos)
           u == Len(passed)
<1>1. /\ pc = "text" /\ pc' = "text" /\ c \notin {"%", NUL}
      /\ UNCHANGED <<format, passed, modifiers>>
      /\ out' = Append(out, c) /\ bufPos' = bufPos + 1
  BY DEF PrintLiteral
<1>2. PICK asked \in SUBSET Requests : InText(asked)
  BY <1>1 DEF TextInv, Together
<1>3. /\ format \in Formats /\ bufPos \in 0 .. Len(format) /\ u \in Nat
      /\ c \in STRING /\ bufPos + 1 \in 0 .. Len(format)
  BY <1>1, Here, AtFacts
<1>4. <<c>> \in Text
  <2>1. c \in Printed
    BY <1>3 DEF Printed
  <2> HIDE DEF c
  <2> QED BY <2>1 DEF Text
<1>5. Reached(bufPos + 1, asked)
  <2>1. ConversionsFrom[bufPos][u][asked]
          = ConversionsAt(ConversionsFrom, bufPos, u, asked)
    BY <1>3, ConversionsAre
  <2>2. ConversionsFrom[bufPos][u][asked] = ConversionsFrom[bufPos + 1][u][asked]
    BY <1>1, <2>1 DEF ConversionsAt
  <2> QED
    BY <1>2, <2>2 DEF InText, Reached
<1>6. ASSUME NEW args, Extends(args), InImplementedPart(args)
      PROVE  Ends(args, bufPos + 1, u, out \o <<c>>) /\ out \in Text
  <2>1. Ends(args, bufPos, u, out)
    BY <1>2, <1>6 DEF InText, Continues
  <2>2. CTextFrom(args)[bufPos][u] = TextAt(CTextFrom(args), args, bufPos, u)
    BY <1>3, CTextIs
  <2>3. CTextFrom(args)[bufPos][u] = <<c>> \o CTextFrom(args)[bufPos + 1][u]
    BY <1>1, <2>2 DEF TextAt
  <2> DEFINE piece == <<c>>
  <2> HIDE DEF c, u, piece
  <2>4. piece \in Text
    BY <1>4 DEF piece
  <2>5. Ends(args, bufPos + 1, u, out \o piece)
    BY <2>1, <2>3, <2>4, Advance DEF piece
  <2> QED
    BY <2>1, <2>5 DEF Ends, piece
<1>7. Continues(bufPos)'
  <2>1. \A args : CTextFrom(args)' = CTextFrom(args)
    BY <1>1, SameTexts
  <2>2. \A args : InImplementedPart(args)' => InImplementedPart(args)
    BY <1>1, SameTexts
  <2>3. ASSUME NEW args, Extends(args), InImplementedPart(args)
        PROVE  out' = out \o <<c>>
    <3>1. out \in Seq(Printed) /\ c \in Printed
      BY <1>3, <1>6, <2>3 DEF Text, Printed
    <3> HIDE DEF c
    <3> QED BY <1>1, <3>1, AppendIsConcat
  <2> SUFFICES ASSUME NEW args, Extends(args)', InImplementedPart(args)'
               PROVE  Ends(args, bufPos, Len(passed), out)'
    BY DEF Continues
  <2>4. Extends(args) /\ InImplementedPart(args)
    BY <1>1, <2>2 DEF Extends
  <2>5. Ends(args, bufPos + 1, u, out \o <<c>>) /\ out' = out \o <<c>>
    BY <1>6, <2>3, <2>4
  <2> QED
    BY <1>1, <2>1, <2>5 DEF Ends, Text, Printed
<1>8. Reached(bufPos, asked)'
  BY <1>1, <1>5, SameTexts DEF Reached
<1>9. InText(asked)'
  BY <1>1, <1>2, <1>7, <1>8
  DEF InText, Flagged, Padded, PrecisionKept, modifiers
<1> QED
  BY <1>1, <1>9 DEF Together

\* A '%' opens a specification, of which nothing is read yet.
LEMMA OpenTogether ==
  ASSUME TextInv, Readable, OpenConversion
  PROVE  Together'
<1>1. /\ pc = "text" /\ pc' = "flags" /\ At(bufPos) = "%" /\ bufPos' = bufPos + 1
      /\ UNCHANGED <<format, passed, out, modifiers>>
  BY DEF OpenConversion
<1>2. PICK asked \in SUBSET Requests : InText(asked)
  BY <1>1 DEF TextInv, Together
<1>3. bufPos \in Nat
  BY <1>1, Here
<1>4. PICK n \in Nat : n = bufPos
  BY <1>3
<1>5. Opened(n, asked)'
  <2>1. Reached(n, asked) /\ Continues(n)
    BY <1>2, <1>4 DEF InText
  <2>2. At(n)' = At(n)
    BY <1>1, SameReading
  <2>3. n < bufPos'
    BY <1>1, <1>4
  <2> QED
    BY <1>1, <1>4, <2>1, <2>2, <2>3, SamePlace DEF Opened
<1>6. \A k \in n + 1 .. bufPos' - 1 : FALSE
  BY <1>1, <1>4
<1>7. Flagged(asked, FlagsRead(n))' /\ Padded(asked, 0)' /\ PrecisionKept(asked)'
  <2>1. FlagsRead(n)' = {}
    BY <1>6 DEF FlagsRead
  <2> QED
    BY <1>1, <1>2, <2>1 DEF InText, Flagged, Padded, PrecisionKept, modifiers
<1>8. InFlags(n, asked)'
  BY <1>5, <1>6, <1>7 DEF InFlags
<1> QED
  BY <1>1, <1>8 DEF Together

\* A flag more.
LEMMA FlagTogether ==
  ASSUME TextInv, Readable, Flag
  PROVE  Together'
<1>1. /\ pc = "flags" /\ pc' = "flags" /\ At(bufPos) \in FlagChars
      /\ bufPos' = bufPos + 1 /\ UNCHANGED <<format, passed, out>>
      /\ leftAdjusted' = (leftAdjusted \/ At(bufPos) = "-")
      /\ useAlternateForm' = (useAlternateForm \/ At(bufPos) = "#")
      /\ UNCHANGED <<totalPadding, totalPrecision>>
  BY DEF Flag
<1>2. PICK n \in Nat, asked \in SUBSET Requests : InFlags(n, asked)
  BY <1>1 DEF TextInv, Together
<1>3. bufPos \in Nat /\ n < bufPos
  BY <1>1, <1>2, Here DEF InFlags, Opened
<1>4. \A k : At(k)' = At(k)
  BY <1>1, SameReading
<1>5. \A k : k \in n + 1 .. bufPos' - 1 <=> k \in n + 1 .. bufPos - 1 \/ k = bufPos
  BY <1>1, <1>3
<1>6. Opened(n, asked)'
  <2>1. n < bufPos'
    BY <1>1, <1>3
  <2> QED
    BY <1>1, <1>2, <1>4, <2>1, SamePlace DEF InFlags, Opened
<1>7. \A k \in n + 1 .. bufPos' - 1 : At(k)' \in FlagChars
  BY <1>1, <1>2, <1>4, <1>5 DEF InFlags
<1>8. FlagsRead(n)' = FlagsRead(n) \cup {At(bufPos)}
  BY <1>4, <1>5 DEF FlagsRead
<1>9. Flagged(asked, FlagsRead(n))'
  <2>1. Flagged(asked, FlagsRead(n))
    BY <1>2 DEF InFlags
  <2>2. /\ leftAdjusted' <=> leftAdjusted \/ At(bufPos) = "-"
        /\ useAlternateForm' <=> useAlternateForm \/ At(bufPos) = "#"
    BY <1>1
  <2> QED
    BY <1>8, <2>1, <2>2 DEF Flagged
<1>10. Padded(asked, 0)' /\ PrecisionKept(asked)'
  BY <1>1, <1>2 DEF InFlags, Padded, PrecisionKept
<1>11. InFlags(n, asked)'
  BY <1>6, <1>7, <1>9, <1>10 DEF InFlags
<1> QED
  BY <1>1, <1>11 DEF Together

\* The padding is the specification's width, if it has one.
LEMMA PaddingTogether ==
  ASSUME TextInv, Readable, Padding
  PROVE  Together'
<1>1. /\ pc = "flags" /\ pc' = "precision" /\ At(bufPos) \notin FlagChars
      /\ UNCHANGED <<format, passed, out>>
      /\ UNCHANGED <<totalPrecision, leftAdjusted, useAlternateForm>>
      /\ IF At(bufPos) \in Digits
         THEN /\ totalPadding' = Number(bufPos).value
              /\ bufPos' = Number(bufPos).end
         ELSE UNCHANGED <<totalPadding, bufPos>>
  BY DEF Padding
<1>2. PICK n \in Nat, asked \in SUBSET Requests : InFlags(n, asked)
  BY <1>1 DEF TextInv, Together
<1>3. /\ format \in Formats /\ Len(format) \in Nat
      /\ bufPos \in 0 .. Len(format) /\ bufPos \in Nat
      /\ n < bufPos /\ At(n) = "%" /\ n \in 0 .. Len(format)
  <2>1. /\ format \in Formats /\ Len(format) \in Nat
        /\ bufPos \in 0 .. Len(format) /\ bufPos \in Nat
    BY <1>1, Here
  <2> QED
    BY <1>2, <2>1 DEF InFlags, Opened
<1>4. FlagsEnd(n) = bufPos
  <2>1. bufPos \in n + 1 .. Len(format)
    BY <1>3
  <2>2. \A k \in n + 1 .. bufPos - 1 : At(k) \in FlagChars
    BY <1>2 DEF InFlags
  <2>3. At(n) # NUL
    BY <1>3 DEF NUL
  <2> QED
    BY <1>1, <1>3, <2>1, <2>2, <2>3, FlagsEndIs
<1>5. /\ Specification(n).flags = FlagsRead(n)
      /\ Specification(n).width = Decimal(bufPos)
  BY <1>4 DEF Specification, FlagsRead
<1>6. /\ bufPos' = DigitsEnd(bufPos)
      /\ totalPadding' = Decimal(bufPos)
           \/ (totalPadding' = totalPadding /\ Decimal(bufPos) = 0)
  <2>1. CASE At(bufPos) \in Digits
    <3>1. At(bufPos) \notin {Blank, "-", "+"}
      BY <1>1 DEF FlagChars
    <3>2. Number(bufPos) = [value |-> Decimal(bufPos), end |-> DigitsEnd(bufPos)]
      BY <1>3, <3>1, NumberIsDecimal
    <3> QED
      BY <1>1, <2>1, <3>2
  <2>2. CASE At(bufPos) \notin Digits
    BY <1>1, <1>3, <2>2, NoDigits
  <2> QED
    BY <2>1, <2>2
<1>7. Opened(n, asked)'
  <2>1. DigitsEnd(bufPos) \in bufPos .. Len(format)
    BY <1>3, DigitsEndFacts
  <2>2. n < bufPos'
    BY <1>3, <1>6, <2>1
  <2>3. At(n)' = At(n)
    BY <1>1, SameReading
  <2> QED
    BY <1>1, <1>2, <2>2, <2>3, SamePlace DEF InFlags, Opened
<1>8. /\ bufPos' = DigitsEnd(FlagsEnd(n))
      /\ Flagged(asked, Specification(n).flags)'
      /\ Padded(asked, Specification(n).width)'
      /\ PrecisionKept(asked)'
  <2>1. Specification(n)' = Specification(n)
    BY <1>1, SameReading
  <2>2. Flagged(asked, FlagsRead(n)) /\ Padded(asked, 0) /\ PrecisionKept(asked)
    BY <1>2 DEF InFlags
  <2>3. Flagged(asked, Specification(n).flags)'
    BY <1>1, <1>5, <2>1, <2>2 DEF Flagged
  <2>4. Padded(asked, Specification(n).width)'
    BY <1>5, <1>6, <2>1, <2>2 DEF Padded
  <2>5. PrecisionKept(asked)'
    BY <1>1, <2>2 DEF PrecisionKept
  <2> QED
    BY <1>4, <1>6, <2>3, <2>4, <2>5
<1>9. AtPrecision(n, asked)'
  <2>1. DigitsEnd(FlagsEnd(n))' = DigitsEnd(FlagsEnd(n))
    <3>1. FlagsEnd(n)' = FlagsEnd(n) /\ \A m : DigitsEnd(m)' = DigitsEnd(m)
      BY <1>1, SameReading
    <3>2. PICK m : m = FlagsEnd(n)
      OBVIOUS
    <3>3. m = FlagsEnd(n)'
      BY <3>1, <3>2
    <3> QED
      BY <3>1, <3>2, <3>3
  <2> QED
    BY <1>7, <1>8, <2>1 DEF AtPrecision
<1> QED
  BY <1>1, <1>9 DEF Together

\* The precision is the specification's: strtol would take a blank or a sign
\* before the digits, but then C could not read the format.
LEMMA PrecisionTogether ==
  ASSUME TextInv, Readable, Precision
  PROVE  Together'
<1>1. /\ pc = "precision" /\ pc' = "convert"
      /\ UNCHANGED <<format, passed, out>>
      /\ UNCHANGED <<totalPadding, leftAdjusted, useAlternateForm>>
      /\ IF At(bufPos) = "."
         THEN /\ totalPrecision' = Number(bufPos + 1).value
              /\ bufPos' = Number(bufPos + 1).end
         ELSE UNCHANGED <<totalPrecision, bufPos>>
  BY DEF Precision
<1>2. PICK n \in Nat, asked \in SUBSET Requests : AtPrecision(n, asked)
  BY <1>1 DEF TextInv, Together
<1> DEFINE spec == Specification(n)
<1>3. /\ format \in Formats /\ Len(format) \in Nat /\ Len(passed) \in Nat
      /\ bufPos \in 0 .. Len(format) /\ bufPos \in Nat
      /\ n < bufPos /\ At(n) = "%" /\ n \in 0 .. Len(format)
      /\ bufPos = DigitsEnd(FlagsEnd(n))
  <2>1. /\ format \in Formats /\ Len(format) \in Nat /\ Len(passed) \in Nat
        /\ bufPos \in 0 .. Len(format) /\ bufPos \in Nat
    BY <1>1, Here
  <2> QED
    BY <1>2, <2>1 DEF AtPrecision, Opened
<1>4. /\ spec.precise <=> At(bufPos) = "."
      /\ spec.precision = IF At(bufPos) = "." THEN Decimal(bufPos + 1) ELSE 1
      /\ spec.end = IF At(bufPos) = "." THEN DigitsEnd(bufPos + 1) ELSE bufPos
      /\ spec.conversion = At(spec.end)
  BY <1>3 DEF Specification
<1>5. spec.conversion \in Arguments \cup {"%"}
  <2>1. [spec |-> spec, argument |-> Len(passed) + 1, asked |-> asked]
          \in ConversionsFrom[0][0][{}]
    BY <1>2, <1>3, ThisConversion DEF AtPrecision, Opened
  <2> QED
    BY <2>1 DEF Readable
<1> HIDE DEF spec
<1>6. ASSUME At(bufPos) = "."
      PROVE  /\ bufPos + 1 \in 0 .. Len(format)
             /\ Number(bufPos + 1)
                  = [value |-> Decimal(bufPos + 1), end |-> DigitsEnd(bufPos + 1)]
             /\ DigitsEnd(bufPos + 1) \in bufPos + 1 .. Len(format)
  <2>1. bufPos + 1 \in 0 .. Len(format)
    BY <1>3, <1>6, AtFacts DEF NUL
  <2>2. At(bufPos + 1) \notin {Blank, "-", "+"}
    <3> SUFFICES ASSUME At(bufPos + 1) \in {Blank, "-", "+"} PROVE FALSE
      OBVIOUS
    <3>1. At(bufPos + 1) \notin Digits
      BY DEF Digits, Blank
    <3>2. DigitsEnd(bufPos + 1) = bufPos + 1
      BY <1>3, <2>1, <3>1, NoDigits
    <3>3. spec.conversion \in {Blank, "-", "+"}
      BY <1>4, <1>6, <3>2
    <3> QED
      BY <1>5, <3>3 DEF Arguments, Numeric, Blank
  <2>3. DigitsEnd(bufPos + 1) \in bufPos + 1 .. Len(format)
    BY <1>3, <2>1, DigitsEndFacts
  <2> QED
    BY <1>3, <2>1, <2>2, <2>3, NumberIsDecimal
<1>7. /\ bufPos' = spec.end /\ bufPos <= bufPos' /\ bufPos' \in Nat
      /\ At(bufPos) = "." => totalPrecision' = spec.precision
      /\ At(bufPos) # "." => totalPrecision' = totalPrecision
  <2>1. CASE At(bufPos) = "."
    <3>1. bufPos' = DigitsEnd(bufPos + 1) /\ totalPrecision' = Decimal(bufPos + 1)
      BY <1>1, <1>6, <2>1
    <3> QED
      BY <1>3, <1>4, <1>6, <2>1, <3>1
  <2>2. CASE At(bufPos) # "."
    BY <1>1, <1>3, <1>4, <2>2
  <2> QED
    BY <2>1, <2>2
<1>8. Specification(n)' = spec
  BY <1>1, SameReading DEF spec
<1>9. Opened(n, asked)'
  <2>1. n < bufPos'
    BY <1>3, <1>7
  <2>2. At(n)' = At(n)
    BY <1>1, SameReading
  <2> QED
    BY <1>1, <1>2, <2>1, <2>2, SamePlace DEF AtPrecision, Opened
<1>10. Flagged(asked, Specification(n).flags)'
  BY <1>1, <1>2, <1>8 DEF AtPrecision, Flagged, spec
<1>11. Padded(asked, Specification(n).width)'
  BY <1>1, <1>2, <1>8 DEF AtPrecision, Padded, spec
<1>12. IF spec.precise THEN totalPrecision' = spec.precision
       ELSE PrecisionKept(asked)'
  BY <1>2, <1>4, <1>7 DEF AtPrecision, PrecisionKept
<1>13. AtConversion(n, asked)'
  BY <1>7, <1>8, <1>9, <1>10, <1>11, <1>12 DEF AtConversion
<1> QED
  BY <1>1, <1>13 DEF Together

\* Behind a conversion the format is read on, with what the conversion asked
\* for added to what is asked; its text is what C prints for it.
LEMMA ConversionTogether ==
  ASSUME TextInv, Readable,
         NEW n \in Nat, NEW asked \in SUBSET Requests, AtConversion(n, asked),
         pc = "convert", pc' = "text", bufPos' = bufPos + 1,
         UNCHANGED <<format, modifiers>>,
         Len(passed') = IF Specification(n).conversion = "%"
                        THEN Len(passed) ELSE Len(passed) + 1,
         \A k \in 1 .. Len(passed) : passed'[k] = passed[k],
         NEW text, out \in Text => out' = out \o text,
         \A args : (\A k \in 1 .. Len(passed') : args[k] = passed'[k])
                     /\ InImplementedPart(args) =>
           /\ text \in Text
           /\ text = IF Specification(n).conversion = "%" THEN <<"%">>
                     ELSE CConversion(Specification(n), args[Len(passed) + 1])
  PROVE  Together'
<1> DEFINE spec == Specification(n)
           u == Len(passed)
           next == IF spec.conversion = "%" THEN u ELSE u + 1
<1> PICK more \in SUBSET Requests : more = asked \cup Requested(spec)
  BY DEF Requested, Requests
<1>1. /\ format \in Formats /\ u \in Nat /\ next \in Nat /\ n \in 0 .. Len(format)
      /\ At(n) = "%" /\ bufPos = spec.end /\ Len(passed') = next
      /\ Reached(n, asked) /\ Continues(n)
  <2>1. format \in Formats /\ u \in Nat /\ bufPos \in 0 .. Len(format)
        /\ Len(format) \in Nat
    BY Here
  <2>2. n < bufPos /\ At(n) = "%" /\ bufPos = spec.end
        /\ Reached(n, asked) /\ Continues(n)
    BY DEF AtConversion, Opened
  <2>3. n \in 0 .. Len(format) /\ next \in Nat
    BY <2>1, <2>2
  <2> QED
    BY <2>1, <2>2, <2>3
<1>2. [spec |-> spec, argument |-> u + 1, asked |-> asked]
        \in ConversionsFrom[0][0][{}]
  BY <1>1, ThisConversion
<1>3. spec.conversion \in Arguments \cup {"%"}
  BY <1>2 DEF Readable
<1>4. spec.conversion # NUL
  BY <1>3 DEF Arguments, Numeric, NUL
<1>5. ConversionsFrom[spec.end + 1][next][more] \subseteq ConversionsFrom[0][0][{}]
  BY <1>1, <1>4, ThisConversion
<1> HIDE DEF spec
<1>7. Reached(bufPos, more)'
  <2>1. ConversionsFrom' = ConversionsFrom
    BY SameTexts
  <2> QED
    BY <1>1, <1>5, <2>1 DEF Reached
<1>8. Continues(bufPos)'
  <2>1. /\ \A args : CTextFrom(args)' = CTextFrom(args)
        /\ \A args : InImplementedPart(args)' => InImplementedPart(args)
    BY SameTexts
  <2> SUFFICES ASSUME NEW args, Extends(args)', InImplementedPart(args)'
               PROVE  Ends(args, bufPos, Len(passed), out)'
    BY DEF Continues
  <2>2. InImplementedPart(args) /\ \A k \in 1 .. Len(passed') : args[k] = passed'[k]
    BY <2>1 DEF Extends
  <2>3. Extends(args)
    <3>1. \A k \in 1 .. Len(passed) : k \in 1 .. Len(passed')
      BY <1>1
    <3> QED
      BY <2>2, <3>1 DEF Extends
  <2>4. /\ text \in Text
        /\ text = IF spec.conversion = "%" THEN <<"%">>
                  ELSE CConversion(spec, args[u + 1])
    BY <2>2 DEF spec
  <2>5. Ends(args, n, u, out)
    BY <1>1, <2>2, <2>3 DEF Continues
  <2>6. CTextFrom(args)[n][u] = text \o CTextFrom(args)[spec.end + 1][next]
    <3>1. CTextFrom(args)[n][u] = TextAt(CTextFrom(args), args, n, u)
      BY <1>1, CTextIs
    <3>2. At(n) # NUL
      BY <1>1 DEF NUL
    <3> QED
      BY <1>1, <1>4, <2>4, <3>1, <3>2 DEF TextAt, spec
  <2>7. Ends(args, spec.end + 1, next, out \o text)
    <3> HIDE DEF u, next
    <3> QED BY <2>4, <2>5, <2>6, Advance
  <2>8. out' = out \o text
    BY <2>5 DEF Ends
  <2> QED
    BY <1>1, <2>1, <2>7, <2>8 DEF Ends, Text, Printed
<1>9. Flagged(more, {})' /\ Padded(more, 0)' /\ PrecisionKept(more)'
  <2>1. Flagged(asked, spec.flags) /\ Padded(asked, spec.width)
        /\ IF spec.precise THEN totalPrecision = spec.precision
           ELSE PrecisionKept(asked)
    BY DEF AtConversion, spec
  <2>2. spec.width \in Nat
    BY <1>1, SpecificationFacts DEF spec
  <2>3. /\ "-" \in spec.flags => "-" \in more
        /\ "#" \in spec.flags => "#" \in more
        /\ asked \subseteq more
        /\ spec.width > 0 => "width" \in more
        /\ spec.precise => "precision" \in more
    BY DEF Requested
  <2>4. UNCHANGED <<totalPadding, totalPrecision, leftAdjusted, useAlternateForm>>
    BY DEF modifiers
  <2>5. Flagged(more, {})'
    BY <2>1, <2>3, <2>4 DEF Flagged
  <2>6. Padded(more, 0)'
    BY <2>1, <2>2, <2>3, <2>4 DEF Padded
  <2>7. PrecisionKept(more)'
    BY <2>1, <2>3, <2>4 DEF PrecisionKept
  <2> QED
    BY <2>5, <2>6, <2>7
<1>10. InText(more)'
  BY <1>7, <1>8, <1>9 DEF InText
<1> QED
  BY <1>10 DEF Together

\* Where an earlier specification asks for nothing this one does not ask for,
\* the modifiers are this one's own.
LEMMA OwnModifiers ==
  ASSUME TextInv, pc = "convert",
         NEW n \in Nat, NEW asked \in SUBSET Requests, AtConversion(n, asked),
         asked \subseteq Requested(Specification(n))
  PROVE  LET spec == Specification(n)
         IN  /\ leftAdjusted <=> "-" \in spec.flags
             /\ useAlternateForm <=> "#" \in spec.flags
             /\ totalPadding = spec.width
             /\ totalPrecision = IF spec.precise THEN spec.precision ELSE 0
<1> DEFINE spec == Specification(n)
<1>1. spec.width \in Nat
  <2>1. format \in Formats /\ Len(format) \in Nat /\ bufPos \in 0 .. Len(format)
    BY Here
  <2>2. At(n) = "%" /\ n < bufPos
    BY DEF AtConversion, Opened
  <2>3. n \in 0 .. Len(format)
    BY <2>1, <2>2
  <2> QED
    BY <2>1, <2>2, <2>3, SpecificationFacts
<1>2. /\ Flagged(asked, spec.flags) /\ Padded(asked, spec.width)
      /\ IF spec.precise THEN totalPrecision = spec.precision
         ELSE PrecisionKept(asked)
  BY DEF AtConversion
<1> HIDE DEF spec
<1>3. asked \subseteq Requested(spec)
  BY DEF spec
<1>4. /\ "-" \in asked => "-" \in spec.flags
      /\ "#" \in asked => "#" \in spec.flags
      /\ "width" \in asked => spec.width > 0
      /\ "precision" \in asked => spec.precise
  BY <1>3 DEF Requested
<1>5. (leftAdjusted <=> "-" \in spec.flags) /\ (useAlternateForm <=> "#" \in spec.flags)
  BY <1>2, <1>4 DEF Flagged
<1>6. totalPadding = spec.width
  BY <1>1, <1>2, <1>4 DEF Padded
<1>7. totalPrecision = IF spec.precise THEN spec.precision ELSE 0
  BY <1>2, <1>4 DEF PrecisionKept
<1> QED
  BY <1>5, <1>6, <1>7 DEF spec

\* A conversion that takes an argument keeps kprintf and C together, if it
\* prints what C prints for the arguments that are in the implemented part.
LEMMA TakeTogether ==
  ASSUME TextInv, Readable,
         NEW n \in Nat, NEW asked \in SUBSET Requests, AtConversion(n, asked),
         pc = "convert", pc' = "text", bufPos' = bufPos + 1,
         UNCHANGED <<format, modifiers>>,
         Specification(n).conversion # "%",
         NEW val \in Values, NEW text, Take(val, text),
         /\ Implemented(Specification(n), val)
         /\ Specification(n).conversion \in Numeric =>
              asked \subseteq Requested(Specification(n))
         => text \in Text /\ text = CConversion(Specification(n), val)
  PROVE  Together'
<1> DEFINE spec == Specification(n)
           u == Len(passed)
<1>1. /\ format \in Formats /\ passed \in Seq(Values) /\ u \in Nat
      /\ n \in 0 .. Len(format) /\ At(n) = "%" /\ Reached(n, asked)
  <2>1. format \in Formats /\ Len(format) \in Nat /\ bufPos \in 0 .. Len(format)
        /\ passed \in Seq(Values) /\ u \in Nat
    BY Here
  <2>2. At(n) = "%" /\ n < bufPos /\ Reached(n, asked)
    BY DEF AtConversion, Opened
  <2>3. n \in 0 .. Len(format)
    BY <2>1, <2>2
  <2> QED
    BY <2>1, <2>2, <2>3
<1>2. /\ Len(passed') = u + 1 /\ passed'[u + 1] = val
      /\ \A k \in 1 .. u : passed'[k] = passed[k]
  <2>1. passed' = Append(passed, val)
    BY DEF Take
  <2> HIDE DEF Values
  <2> QED
    BY <1>1, <2>1, AppendProperties
<1>3. ASSUME NEW args, InImplementedPart(args),
             \A k \in 1 .. Len(passed') : args[k] = passed'[k]
      PROVE  text \in Text /\ text = CConversion(spec, args[u + 1])
  <2>1. args[u + 1] = val
    BY <1>1, <1>2, <1>3
  <2> DEFINE c == [spec |-> spec, argument |-> u + 1, asked |-> asked]
  <2>2. c \in ConversionsFrom[0][0][{}]
    BY <1>1, ThisConversion
  <2>3. /\ Implemented(c.spec, args[c.argument])
        /\ c.spec.conversion \in Numeric => c.asked \subseteq Requested(c.spec)
    <3> HIDE DEF c
    <3> QED BY <1>3, <2>2 DEF InImplementedPart
  <2>4. Implemented(spec, val)
    BY <2>1, <2>3
  <2>5. spec.conversion \in Numeric => asked \subseteq Requested(spec)
    BY <2>3
  <2> QED
    BY <2>1, <2>4, <2>5
<1>4. out' = out \o text
  BY DEF Take
<1>5. Len(passed') = IF spec.conversion = "%" THEN u ELSE u + 1
  BY <1>2
<1>6. \A args : (\A k \in 1 .. Len(passed') : args[k] = passed'[k])
                  /\ InImplementedPart(args) =>
        /\ text \in Text
        /\ text = IF spec.conversion = "%" THEN <<"%">>
                  ELSE CConversion(spec, args[u + 1])
  BY <1>3
<1> QED
  BY <1>2, <1>4, <1>5, <1>6, ConversionTogether

\* What a numeric conversion prints, with or without a prefix.
LEMMA NumberText ==
  ASSUME TextInv, pc = "convert",
         NEW n \in Nat, NEW asked \in SUBSET Requests, AtConversion(n, asked),
         NEW val \in Ints \cup Uints,
         Specification(n).conversion \in Numeric,
         Implemented(Specification(n), val),
         asked \subseteq Requested(Specification(n))
  PROVE  LET conversion == Specification(n).conversion
             str == Itoa(val, Base(conversion))
             hex == IF conversion \in {"x", "X"} THEN Alternate(<<"0", "x">>)
                    ELSE <<>>
             octal == IF conversion = "o" THEN Alternate(<<"0">>) ELSE <<>>
         IN  /\ Formatted(str, hex, octal) = CConversion(Specification(n), val)
             /\ CConversion(Specification(n), val) \in Text
<1> DEFINE spec == Specification(n)
           str == Itoa(val, Base(spec.conversion))
           hex == IF "#" \in spec.flags /\ spec.conversion \in {"x", "X"}
                  THEN <<"0", "x">> ELSE <<>>
           octal == IF "#" \in spec.flags /\ spec.conversion = "o"
                    THEN <<"0">> ELSE <<>>
<1>1. /\ format \in Formats /\ n \in 0 .. Len(format) /\ At(n) = "%"
  <2>1. format \in Formats /\ Len(format) \in Nat /\ bufPos \in 0 .. Len(format)
    BY Here
  <2>2. At(n) = "%" /\ n < bufPos
    BY DEF AtConversion, Opened
  <2> QED
    BY <2>1, <2>2
<1>2. /\ spec.width \in Nat /\ spec.precision \in Nat /\ spec.precise \in BOOLEAN
      /\ ~ spec.precise => spec.precision = 1
  BY <1>1, SpecificationFacts
<1>3. /\ leftAdjusted <=> "-" \in spec.flags
      /\ useAlternateForm <=> "#" \in spec.flags
      /\ totalPadding = spec.width
      /\ totalPrecision = IF spec.precise THEN spec.precision ELSE 0
  BY OwnModifiers
<1>4. /\ Formatted(str, hex, octal) = CConversion(spec, val)
      /\ CConversion(spec, val) \in Text
  <2>1. spec.conversion \in Numeric /\ Implemented(spec, val) /\ val \in Int
    BY KprintfAssumption
  <2> HIDE DEF spec
  <2>2. CASE val >= 0
    BY <1>2, <1>3, <2>1, <2>2, NumberPrinted
  <2>3. CASE val < 0
    <3>1. val \in Ints
      BY <2>3, KprintfAssumption
    <3>2. /\ "#" \notin spec.flags
          /\ Formatted(str, <<>>, <<>>) = CConversion(spec, val)
          /\ CConversion(spec, val) \in Text
      BY <1>2, <1>3, <2>1, <2>3, <3>1, NegativePrinted
    <3> QED
      BY <3>2
  <2> QED
    BY <2>1, <2>2, <2>3
<1>5. /\ hex = IF spec.conversion \in {"x", "X"} THEN Alternate(<<"0", "x">>)
               ELSE <<>>
      /\ octal = IF spec.conversion = "o" THEN Alternate(<<"0">>) ELSE <<>>
  BY <1>3 DEF Alternate
<1> QED
  BY <1>4, <1>5

\* A conversion prints what C prints for it.
LEMMA ConvertTogether ==
  ASSUME TextInv, Readable, Convert
  PROVE  Together'
<1> DEFINE ch == At(bufPos)
<1>1. /\ pc = "convert" /\ bufPos' = bufPos + 1 /\ UNCHANGED <<format, modifiers>>
      /\ ConvertNumber \/ ConvertText
      /\ pc' = IF ch = NUL THEN "beyond" ELSE "text"
  BY DEF Convert
<1>2. PICK n \in Nat, asked \in SUBSET Requests : AtConversion(n, asked)
  BY <1>1 DEF TextInv, Together
<1> DEFINE spec == Specification(n)
<1>3. /\ format \in Formats /\ Len(format) \in Nat /\ Len(passed) \in Nat
      /\ n \in 0 .. Len(format) /\ At(n) = "%" /\ Reached(n, asked)
      /\ bufPos = spec.end
  <2>1. /\ format \in Formats /\ Len(format) \in Nat /\ Len(passed) \in Nat
        /\ bufPos \in 0 .. Len(format)
    BY <1>1, Here
  <2>2. At(n) = "%" /\ n < bufPos /\ Reached(n, asked) /\ bufPos = spec.end
    BY <1>2 DEF AtConversion, Opened
  <2>3. n \in 0 .. Len(format)
    BY <2>1, <2>2
  <2> QED
    BY <2>1, <2>2, <2>3
<1>4. spec.conversion = ch
  BY <1>3, SpecificationFacts
<1>5. ch \in Arguments \cup {"%"}
  <2>1. [spec |-> spec, argument |-> Len(passed) + 1, asked |-> asked]
          \in ConversionsFrom[0][0][{}]
    BY <1>3, ThisConversion
  <2> QED
    BY <1>4, <2>1 DEF Readable
<1>6. pc' = "text"
  BY <1>1, <1>5 DEF Arguments, Numeric, NUL
<1> HIDE DEF ch
<1>7. ASSUME NEW val \in Values, NEW text, Take(val, text), ch # "%",
             /\ Implemented(spec, val)
             /\ ch \in Numeric => asked \subseteq Requested(spec)
             => text \in Text /\ text = CConversion(spec, val)
      PROVE  Together'
  BY <1>1, <1>2, <1>4, <1>6, <1>7, TakeTogether
<1>8. ASSUME NEW val \in Ints \cup Uints, NEW text, Take(val, text), ch \in Numeric,
             text = Formatted(Itoa(val, Base(ch)),
                      IF ch \in {"x", "X"} THEN Alternate(<<"0", "x">>) ELSE <<>>,
                      IF ch = "o" THEN Alternate(<<"0">>) ELSE <<>>)
      PROVE  Together'
  <2>1. ch # "%" /\ val \in Values
    BY <1>8 DEF Numeric, Values
  <2>2. ASSUME Implemented(spec, val), asked \subseteq Requested(spec)
        PROVE  text \in Text /\ text = CConversion(spec, val)
    BY <1>1, <1>2, <1>4, <1>8, <2>2, NumberText
  <2> QED
    BY <1>7, <1>8, <2>1, <2>2
<1>9. ASSUME ConvertNumber PROVE Together'
  <2>1. CASE ch \in {"d", "i"} /\ \E val \in Ints :
               Take(val, Formatted(Itoa(val, 10), <<>>, <<>>))
    <3>1. Base(ch) = 10 /\ ch \in Numeric /\ ch \notin {"x", "X", "o"}
      BY <2>1 DEF Base, Numeric
    <3> QED
      BY <1>8, <2>1, <3>1
  <2>2. CASE ch = "u" /\ \E val \in Uints :
               Take(val, Formatted(Itoa(val, 10), <<>>, <<>>))
    <3>1. Base(ch) = 10 /\ ch \in Numeric /\ ch \notin {"x", "X", "o"}
      BY <2>2 DEF Base, Numeric
    <3> QED
      BY <1>8, <2>2, <3>1
  <2>3. CASE ch = "o" /\ \E val \in Uints :
               Take(val, Formatted(Itoa(val, 8), <<>>, Alternate(<<"0">>)))
    <3>1. Base(ch) = 8 /\ ch \in Numeric /\ ch \notin {"x", "X"}
      BY <2>3 DEF Base, Numeric
    <3> QED
      BY <1>8, <2>3, <3>1
  <2>4. CASE ch \in {"x", "X"} /\ \E val \in Uints :
               Take(val, Formatted(Itoa(val, 16), Alternate(<<"0", "x">>), <<>>))
    <3>1. Base(ch) = 16 /\ ch \in Numeric /\ ch # "o"
      BY <2>4 DEF Base, Numeric
    <3> QED
      BY <1>8, <2>4, <3>1
  <2>5. CASE ch = "p" /\ \E val \in Uints :
               Take(val, Formatted(Itoa(val, 16), <<>>, <<>>))
    <3>1. Base(ch) = 16 /\ ch \in Numeric /\ ch \notin {"x", "X", "o"}
      BY <2>5 DEF Base, Numeric
    <3> QED
      BY <1>8, <2>5, <3>1
  <2> QED
    BY <1>9, <2>1, <2>2, <2>3, <2>4, <2>5 DEF ConvertNumber, ch
<1>10. CASE ch = "c" /\ \E val \in Letters : Take(val, <<val>>)
  <2>1. PICK val \in Letters : Take(val, <<val>>)
    BY <1>10
  <2>2. ASSUME Implemented(spec, val)
        PROVE  <<val>> \in Text /\ <<val>> = CConversion(spec, val)
    <3>1. spec.conversion = "c" /\ spec.width <= 1 /\ spec.conversion \notin Numeric
      BY <1>4, <1>10, <2>2 DEF Implemented, Numeric
    <3>2. val \in Printed
      BY KprintfAssumption DEF Printed
    <3>3. <<val>> \in Text /\ Len(<<val>>) = 1 /\ Len(<<>>) = 0
      BY <3>2, EmptySeq DEF Text
    <3>4. spec.width \in Nat
      BY <1>3, SpecificationFacts
    <3> DEFINE blanks == Repeat(Blank, spec.width - Len(<<>>) - Len(<<val>>))
    <3>5. blanks = <<>>
      <4>1. spec.width - Len(<<>>) - Len(<<val>>) \in Int
            /\ spec.width - Len(<<>>) - Len(<<val>>) <= 0
        BY <3>1, <3>3, <3>4
      <4>2. Blank \in Printed
        BY DEF Printed
      <4> QED
        BY <4>1, <4>2, RepeatFacts
    <3>6. CConversion(spec, val) = IF "-" \in spec.flags
                                   THEN (<<>> \o <<val>>) \o blanks
                                   ELSE (blanks \o <<>>) \o <<val>>
      BY <3>1 DEF CConversion
    <3>7. <<>> \o <<val>> = <<val>> /\ <<val>> \o <<>> = <<val>> /\ <<>> \o <<>> = <<>>
      <4> DEFINE t == <<val>>
      <4> HIDE DEF t
      <4>1. t \in Text
        BY <3>3 DEF t
      <4>2. <<>> \o t = t /\ t \o <<>> = t /\ <<>> \o <<>> = <<>>
        BY <4>1, Joined
      <4> QED
        BY <4>2 DEF t
    <3> HIDE DEF blanks
    <3> QED
      BY <3>3, <3>5, <3>6, <3>7
  <2>3. val \in Values /\ ch # "%" /\ ch \notin Numeric
    BY <1>10 DEF Values, Numeric
  <2> QED
    BY <1>7, <2>1, <2>2, <2>3
<1>11. CASE ch = "s" /\ \E val \in Texts : Take(val, val)
  <2>1. PICK val \in Texts : Take(val, val)
    BY <1>11
  <2>2. ASSUME Implemented(spec, val)
        PROVE  val \in Text /\ val = CConversion(spec, val)
    <3>1. /\ spec.conversion = "s" /\ spec.width <= Len(val) /\ ~ spec.precise
          /\ spec.conversion \notin Numeric
      BY <1>4, <1>11, <2>2 DEF Implemented, Numeric
    <3>2. val \in Text
      <4>1. STRING \subseteq Printed
        BY DEF Printed
      <4>2. val \in Seq(STRING)
        BY KprintfAssumption
      <4> HIDE DEF Printed
      <4> QED
        BY <4>1, <4>2, SeqMonotonic DEF Text
    <3>3. Len(val) \in Nat /\ Len(<<>>) = 0
      BY <3>2, Joined, EmptySeq
    <3>4. spec.width \in Nat
      BY <1>3, SpecificationFacts
    <3> DEFINE blanks == Repeat(Blank, spec.width - Len(<<>>) - Len(val))
    <3>5. blanks = <<>>
      <4>1. spec.width - Len(<<>>) - Len(val) \in Int
            /\ spec.width - Len(<<>>) - Len(val) <= 0
        BY <3>1, <3>3, <3>4
      <4>2. Blank \in Printed
        BY DEF Printed
      <4> QED
        BY <4>1, <4>2, RepeatFacts
    <3>6. CConversion(spec, val) = IF "-" \in spec.flags
                                   THEN (<<>> \o val) \o blanks
                                   ELSE (blanks \o <<>>) \o val
      BY <3>1 DEF CConversion
    <3>7. <<>> \o val = val /\ val \o <<>> = val /\ <<>> \o <<>> = <<>>
      BY <3>2, Joined
    <3> HIDE DEF blanks
    <3> QED
      BY <3>2, <3>5, <3>6, <3>7
  <2>3. val \in Values /\ ch # "%" /\ ch \notin Numeric
    BY <1>11 DEF Values, Numeric
  <2> QED
    BY <1>7, <2>1, <2>2, <2>3
<1>12. CASE ch = "%" /\ out' = Append(out, "%") /\ UNCHANGED passed
  <2>1. "%" \in Printed
    BY DEF Printed
  <2>2. <<"%">> \in Text
    BY <2>1 DEF Text
  <2>3. out \in Text => out' = out \o <<"%">>
    BY <1>12, <2>1, AppendIsConcat DEF Text
  <2>4. Len(passed') = IF spec.conversion = "%" THEN Len(passed) ELSE Len(passed) + 1
    BY <1>4, <1>12
  <2>5. \A k \in 1 .. Len(passed) : passed'[k] = passed[k]
    BY <1>12
  <2>6. \A args : (\A k \in 1 .. Len(passed') : args[k] = passed'[k])
                    /\ InImplementedPart(args) =>
          /\ <<"%">> \in Text
          /\ <<"%">> = IF spec.conversion = "%" THEN <<"%">>
                       ELSE CConversion(spec, args[Len(passed) + 1])
    BY <1>4, <1>12, <2>2
  <2> QED
    BY <1>1, <1>2, <1>6, <2>3, <2>4, <2>5, <2>6, ConversionTogether
<1>13. ch \in {"c", "s", "%", "d", "i", "u", "o", "x", "X", "p"}
  BY <1>5 DEF Arguments, Numeric
<1> QED
  BY <1>1, <1>9, <1>10, <1>11, <1>12, <1>13 DEF ConvertText, ch

\* The arguments that were taken are some the caller can pass.
LEMMA PassedStep ==
  ASSUME passed \in Seq(Values), [Next]_vars
  PROVE  passed' \in Seq(Values)
<1>1. ASSUME NEW val \in Values, NEW text, Take(val, text)
      PROVE  passed' \in Seq(Values)
  <2>1. passed' = Append(passed, val)
    BY <1>1 DEF Take
  <2> HIDE DEF Values
  <2> QED
    BY <2>1, AppendProperties
<1>2. CASE UNCHANGED passed
  BY <1>2
<1>3. CASE Convert
  <2>1. ASSUME ConvertNumber PROVE passed' \in Seq(Values)
    BY <1>1, <2>1 DEF ConvertNumber, Values
  <2>2. ASSUME ConvertText PROVE passed' \in Seq(Values)
    BY <1>1, <1>2, <2>2 DEF ConvertText, Values
  <2> QED
    BY <1>3, <2>1, <2>2 DEF Convert
<1> QED
  BY <1>2, <1>3 DEF Next, vars, Finish, PrintLiteral, OpenConversion, Flag,
                    Padding, Precision

\* Nothing of this changes where nothing changes.
LEMMA Unmoved ==
  ASSUME UNCHANGED <<format, bufPos, totalPadding, totalPrecision, leftAdjusted,
                     useAlternateForm, pc, out, passed>>,
         Together
  PROVE  Together'
<1>1. \A pos, asked : /\ Reached(pos, asked) => Reached(pos, asked)'
                      /\ Continues(pos) => Continues(pos)'
  BY SamePlace
<1>2. PICK p : p = bufPos
  OBVIOUS
<1>3. \A asked, flags :
        /\ Flagged(asked, flags) => Flagged(asked, flags)'
        /\ PrecisionKept(asked) => PrecisionKept(asked)'
  BY DEF Flagged, PrecisionKept
<1>4. \A asked, width : Padded(asked, width) => Padded(asked, width)'
  BY DEF Padded
<1>5. /\ \A n : At(n)' = At(n) /\ FlagsRead(n)' = FlagsRead(n)
      /\ \A n : Specification(n)' = Specification(n)
      /\ \A n : DigitsEnd(n)' = DigitsEnd(n) /\ FlagsEnd(n)' = FlagsEnd(n)
  BY SameReading DEF FlagsRead
<1>6. \A n, asked : Opened(n, asked) => Opened(n, asked)'
  BY <1>1, <1>5 DEF Opened
<1>7. \A asked : InText(asked) => InText(asked)'
  <2>1. \A asked : /\ Reached(p, asked) => Reached(p, asked)'
                   /\ Continues(p) => Continues(p)'
    BY <1>1
  <2>2. bufPos' = p
    BY <1>2
  <2> QED
    BY <1>2, <1>3, <1>4, <2>1, <2>2 DEF InText
<1>8. \A n, asked : InFlags(n, asked) => InFlags(n, asked)'
  <2>1. ASSUME NEW n, NEW asked, InFlags(n, asked) PROVE InFlags(n, asked)'
    <3>1. Opened(n, asked)'
      BY <1>6, <2>1 DEF InFlags
    <3>2. Flagged(asked, FlagsRead(n))'
      BY <1>5, <2>1 DEF InFlags, Flagged
    <3>3. Padded(asked, 0)' /\ PrecisionKept(asked)'
      BY <1>3, <1>4, <2>1 DEF InFlags
    <3>4. \A k \in n + 1 .. bufPos' - 1 : At(k)' \in FlagChars
      BY <1>5, <2>1 DEF InFlags
    <3> QED
      BY <3>1, <3>2, <3>3, <3>4 DEF InFlags
  <2> QED BY <2>1
<1>9. \A n, asked : AtPrecision(n, asked) => AtPrecision(n, asked)'
  <2>1. ASSUME NEW n, NEW asked, AtPrecision(n, asked) PROVE AtPrecision(n, asked)'
    <3>1. Opened(n, asked)'
      BY <1>6, <2>1 DEF AtPrecision
    <3>2. Flagged(asked, Specification(n).flags)'
      BY <1>5, <2>1 DEF AtPrecision, Flagged
    <3>3. Padded(asked, Specification(n).width)' /\ PrecisionKept(asked)'
      BY <1>3, <1>5, <2>1 DEF AtPrecision, Padded
    <3>4. bufPos' = DigitsEnd(FlagsEnd(n))'
      BY <2>1 DEF AtPrecision, DigitsEnd, FlagsEnd, At
    <3> QED
      BY <3>1, <3>2, <3>3, <3>4 DEF AtPrecision
  <2> QED BY <2>1
<1>10. \A n, asked : AtConversion(n, asked) => AtConversion(n, asked)'
  <2>1. ASSUME NEW n, NEW asked, AtConversion(n, asked)
        PROVE  AtConversion(n, asked)'
    <3>1. Opened(n, asked)'
      BY <1>6, <2>1 DEF AtConversion
    <3>2. Flagged(asked, Specification(n).flags)'
      BY <1>5, <2>1 DEF AtConversion, Flagged
    <3>3. Padded(asked, Specification(n).width)'
      BY <1>5, <2>1 DEF AtConversion, Padded
    <3>4. bufPos' = Specification(n).end'
      BY <1>5, <2>1 DEF AtConversion
    <3>5. IF Specification(n).precise'
          THEN totalPrecision' = Specification(n).precision'
          ELSE PrecisionKept(asked)'
      BY <1>3, <1>5, <2>1 DEF AtConversion
    <3> QED
      BY <3>1, <3>2, <3>3, <3>4, <3>5 DEF AtConversion
  <2> QED BY <2>1
<1>11. (pc = "done" /\ InImplementedPart(passed) => out = CText)'
  <2>1. PICK args : args = passed
    OBVIOUS
  <2>2. CTextFrom(args)' = CTextFrom(args)
        /\ (InImplementedPart(args)' => InImplementedPart(args))
    BY SameTexts
  <2>3. passed' = args
    BY <2>1
  <2>4. CTextFrom(passed)' = CTextFrom(passed)
    BY <2>1, <2>2, <2>3
  <2>5. InImplementedPart(passed)' => InImplementedPart(passed)
    BY <2>1, <2>2, <2>3 DEF InImplementedPart
  <2> QED
    BY <2>4, <2>5 DEF CText, Together
<1> QED
  BY <1>7, <1>8, <1>9, <1>10, <1>11 DEF Together

\* No step loses what TextInv says.
LEMMA TextStep == TextInv /\ [Next]_vars => TextInv'
<1> SUFFICES ASSUME TextInv, [Next]_vars PROVE TextInv'
  OBVIOUS
<1>1. Inv' /\ Modifiers' /\ passed' \in Seq(Values)
  BY InvStep, ModifiersStep, PassedStep DEF TextInv
<1>2. format' = format
  BY DEF Next, vars, Finish, PrintLiteral, OpenConversion, Flag, Padding,
         Precision, Convert
<1>3. ASSUME Readable PROVE Together'
  <2>1. ASSUME UNCHANGED vars PROVE Together'
    <3>1. Together
      BY <1>3 DEF TextInv
    <3>2. UNCHANGED <<format, bufPos, totalPadding, totalPrecision, leftAdjusted,
                      useAlternateForm, pc, out, passed>>
      BY <2>1 DEF vars, modifiers
    <3> QED
      BY <3>1, <3>2, Unmoved
  <2> QED
    BY <1>3, <2>1, FinishTogether, LiteralTogether, OpenTogether, FlagTogether,
       PaddingTogether, PrecisionTogether, ConvertTogether DEF Next
<1> QED
  BY <1>1, <1>2, <1>3, SameTexts DEF TextInv

\* In the part of printf that it implements, kprintf prints what C's printf
\* prints, for every format, every argument and every itoa: though the
\* modifiers are variables of the whole call, each conversion gets the ones of
\* its own specification and its own argument.
THEOREM PrintsLikeC == Spec => []MatchesC
<1>1. TextInv => MatchesC
  <2> SUFFICES ASSUME TextInv, pc = "done", InImplementedPart(passed)
               PROVE  out = CText
    BY DEF MatchesC
  <2>1. Readable
    BY DEF Readable, InImplementedPart
  <2> QED
    BY <2>1 DEF TextInv, Together
<1> QED
  BY <1>1, TextInit, TextStep, PTL DEF Spec

=============================================================================
