------------------------- MODULE LoaderPrintProofs -------------------------
(***************************************************************************)
(* Proofs about LoaderPrint for every format, every argument and every     *)
(* size of the two buffers.                                                *)
(***************************************************************************)
EXTENDS LoaderPrint, SequenceTheorems, WellFoundedInduction, TLAPS

-----------------------------------------------------------------------------
(* Numbers and sequences *)

\* A set of numbers that is not empty has a least one.
LEMMA First ==
  ASSUME NEW T \in SUBSET Nat, T # {}
  PROVE  \E n \in T : \A k \in T : n <= k
<1> DEFINE R == OpToRel(<, Nat)
<1>1. \E n \in T : \A k \in T : <<k, n>> \notin R
  BY WFMin, NatLessThanWellFounded
<1>2. \A k, n \in Nat : <<k, n>> \in R <=> k < n
  BY DEF OpToRel
<1> HIDE DEF R
<1>3. PICK n \in T : \A k \in T : <<k, n>> \notin R
  BY <1>1
<1>4. ASSUME NEW k \in T PROVE n <= k
  <2>1. n \in Nat /\ k \in Nat /\ <<k, n>> \notin R
    BY <1>3
  <2>2. ~ (k < n)
    BY <1>2, <2>1
  <2> QED
    BY <2>1, <2>2
<1> QED
  BY <1>3, <1>4

\* What the assumption says of the range of an int.
LEMMA Ranges ==
  /\ IntRange \in Nat \ {0} /\ Uint64Range \in Nat \ {0}
  /\ IntMin \in Int /\ IntMin < 0 /\ IntRange = -2 * IntMin
<1>1. IntRange \in Nat \ {0} /\ IntRange % 2 = 0 /\ Uint64Range \in Nat \ {0}
  BY LoaderPrintAssumption
<1> QED
  BY <1>1 DEF IntMin

\* A remainder is below the divisor.
LEMMA Remainder ==
  ASSUME NEW n \in Int, NEW d \in Nat \ {0}
  PROVE  n % d \in 0 .. d - 1
OBVIOUS

\* What va_arg gives is an int.
LEMMA AsIntType ==
  ASSUME NEW bits \in Arguments
  PROVE  AsInt(bits) \in IntMin .. -IntMin - 1
<1>1. bits \in Int
  <2>1. Arguments \subseteq 0 .. Uint64Range - 1
    BY LoaderPrintAssumption
  <2> QED
    BY <2>1, Ranges
<1> DEFINE r == (bits - IntMin) % IntRange
<1>2. r \in 0 .. IntRange - 1
  BY <1>1, Ranges, Remainder
<1>3. AsInt(bits) = r + IntMin
  BY DEF AsInt
<1> HIDE DEF r
<1> QED
  BY <1>2, <1>3, Ranges

\* The bases of print: the quotient is smaller, the remainder has a digit.
LEMMA Quotient ==
  ASSUME NEW n \in Nat, NEW b \in {10, 16}
  PROVE  /\ n \div b \in Nat /\ n % b \in 0 .. b - 1
         /\ n > 0 => n \div b < n
         /\ n < b => n \div b = 0 /\ n % b = n
         /\ n >= b => n \div b > 0
<1>1. CASE b = 10
  BY <1>1
<1>2. CASE b = 16
  BY <1>2
<1> QED
  BY <1>1, <1>2

\* The quotient of a greater number is not smaller.
LEMMA QuotientGrows ==
  ASSUME NEW m \in Nat, NEW n \in Nat, m <= n, NEW b \in {10, 16}
  PROVE  m \div b <= n \div b
<1>1. CASE b = 10
  BY <1>1
<1>2. CASE b = 16
  BY <1>2
<1> QED
  BY <1>1, <1>2

\* Sequences put one behind the other.
LEMMA Joined ==
  ASSUME NEW S, NEW s \in Seq(S), NEW t \in Seq(S)
  PROVE  /\ s \o t \in Seq(S) /\ Len(s \o t) = Len(s) + Len(t)
         /\ \A n \in 1 .. Len(s) : (s \o t)[n] = s[n]
         /\ \A n \in Len(s) + 1 .. Len(s) + Len(t) : (s \o t)[n] = t[n - Len(s)]
         /\ <<>> \o s = s /\ s \o <<>> = s
BY EmptySeq, ConcatProperties, ConcatEmptySeq

\* Sequences of the same length with the same elements are the same.
LEMMA SameSeq ==
  ASSUME NEW S, NEW s \in Seq(S), NEW t \in Seq(S), Len(s) = Len(t),
         \A n \in 1 .. Len(s) : s[n] = t[n]
  PROVE  s = t
BY SeqEqual

\* How three sequences are joined makes no difference.
LEMMA Associative ==
  ASSUME NEW S, NEW s \in Seq(S), NEW t \in Seq(S), NEW u \in Seq(S)
  PROVE  (s \o t) \o u = s \o (t \o u)
BY ConcatAssociative

\* The sequences of characters.
Text == Seq(Characters)

\* What the assumption says of characters and formats.
LEMMA CharacterFacts ==
  /\ \A c \in {NUL, "%", "\n", "\r", "-", "?", "{", "E", "R", "}"} : c \in Characters
  /\ \A d \in 0 .. 15 : Digit(d) \in Characters
  /\ <<>> \in Text /\ \A c \in Characters : <<c>> \in Text /\ Len(<<c>>) = 1
<1>1. \A c \in Characters : <<c>> \in Text /\ Len(<<c>>) = 1
  BY DEF Text
<1> QED
  BY <1>1, LoaderPrintAssumption, EmptySeq DEF Text

\* Pieces of text, one behind the other.
LEMMA JoinedText ==
  ASSUME NEW s \in Text, NEW t \in Text
  PROVE  s \o t \in Text /\ Len(s \o t) = Len(s) + Len(t) /\ Len(s) \in Nat
BY Joined DEF Text

\* Reversed, a sequence has the same length; its last character is the first.
LEMMA ReverseFacts ==
  ASSUME NEW s \in Text
  PROVE  /\ Reverse(s) \in Text /\ Len(Reverse(s)) = Len(s)
         /\ \A c \in Characters : Reverse(Append(s, c)) = <<c>> \o Reverse(s)
<1>1. \A t \in Text : Reverse(t) \in Text /\ Len(Reverse(t)) = Len(t)
                      /\ \A i \in 1 .. Len(t) : Reverse(t)[i] = t[Len(t) + 1 - i]
  <2> TAKE t \in Text
  <2>1. Len(t) \in Nat /\ \A i \in 1 .. Len(t) : t[i] \in Characters
    BY ElementOfSeq DEF Text
  <2>2. Reverse(t) = [i \in 1 .. Len(t) |-> t[(Len(t) - i) + 1]]
    BY DEF Reverse
  <2>3. \A i \in 1 .. Len(t) : /\ (Len(t) - i) + 1 \in 1 .. Len(t)
                               /\ Len(t) + 1 - i = (Len(t) - i) + 1
    BY <2>1
  <2>4. Reverse(t) \in [1 .. Len(t) -> Characters]
    BY <2>1, <2>2, <2>3
  <2>5. Reverse(t) \in Seq(Characters) /\ Len(Reverse(t)) = Len(t)
    <3> DEFINE r == Reverse(t)
    <3>1. r \in [1 .. Len(t) -> Characters]
      BY <2>4
    <3> HIDE DEF r
    <3>2. r \in Seq(Characters) /\ DOMAIN r = 1 .. Len(t)
      BY <2>1, <3>1
    <3>3. Len(r) = Len(t)
      BY <2>1, <3>2
    <3> QED BY <3>2, <3>3 DEF r
  <2> QED
    BY <2>2, <2>3, <2>5 DEF Text
<1>2. ASSUME NEW c \in Characters PROVE Reverse(Append(s, c)) = <<c>> \o Reverse(s)
  <2> DEFINE u == Append(s, c)
             v == <<c>>
  <2>1. /\ s \in Seq(Characters) /\ Len(s) \in Nat
        /\ u \in Seq(Characters) /\ Len(u) = Len(s) + 1 /\ u[Len(s) + 1] = c
        /\ \A i \in 1 .. Len(s) : u[i] = s[i]
    BY AppendProperties DEF Text
  <2>2. v \in Seq(Characters) /\ Len(v) = 1 /\ v[1] = c
    OBVIOUS
  <2> HIDE DEF u, v
  <2> DEFINE l == Reverse(u)
             r == v \o Reverse(s)
  <2>3. /\ l \in Seq(Characters) /\ Len(l) = Len(s) + 1
        /\ \A i \in 1 .. Len(s) + 1 : l[i] = u[Len(s) + 2 - i]
    <3>1. u \in Text
      BY <2>1 DEF Text
    <3>2. l \in Text /\ Len(l) = Len(u)
          /\ \A i \in 1 .. Len(u) : l[i] = u[Len(u) + 1 - i]
      BY <1>1, <3>1
    <3>3. \A i \in 1 .. Len(s) + 1 : Len(s) + 2 - i = Len(u) + 1 - i
      BY <2>1
    <3> QED BY <2>1, <3>2, <3>3 DEF Text
  <2>4. /\ Reverse(s) \in Seq(Characters) /\ Len(Reverse(s)) = Len(s)
        /\ \A i \in 1 .. Len(s) : Reverse(s)[i] = s[Len(s) + 1 - i]
    BY <1>1 DEF Text
  <2>5. /\ r \in Seq(Characters) /\ Len(r) = Len(s) + 1
        /\ r[1] = c
        /\ \A i \in 2 .. Len(s) + 1 : r[i] = Reverse(s)[i - 1]
    <3>1. /\ r \in Seq(Characters) /\ Len(r) = Len(v) + Len(Reverse(s))
          /\ \A n \in 1 .. Len(v) : r[n] = v[n]
          /\ \A n \in Len(v) + 1 .. Len(v) + Len(Reverse(s)) :
               r[n] = Reverse(s)[n - Len(v)]
      <4> DEFINE t == Reverse(s)
      <4>1. t \in Seq(Characters)
        BY <2>4
      <4> HIDE DEF t
      <4>2. /\ v \o t \in Seq(Characters) /\ Len(v \o t) = Len(v) + Len(t)
            /\ \A n \in 1 .. Len(v) : (v \o t)[n] = v[n]
            /\ \A n \in Len(v) + 1 .. Len(v) + Len(t) : (v \o t)[n] = t[n - Len(v)]
        BY <2>2, <4>1, Joined
      <4> QED BY <4>2 DEF t
    <3> HIDE DEF r
    <3> QED BY <2>1, <2>2, <2>4, <3>1
  <2> HIDE DEF l, r
  <2>6. \A i \in 1 .. Len(s) + 1 : l[i] = r[i]
    <3> TAKE i \in 1 .. Len(s) + 1
    <3>1. CASE i = 1
      BY <2>1, <2>3, <2>5, <3>1
    <3>2. CASE i # 1
      <4>1. i \in 2 .. Len(s) + 1 /\ i - 1 \in 1 .. Len(s)
        BY <2>1, <3>2
      <4>2. Len(s) + 2 - i \in 1 .. Len(s) /\ Len(s) + 1 - (i - 1) = Len(s) + 2 - i
        BY <2>1, <4>1
      <4>3. l[i] = s[Len(s) + 2 - i]
        BY <2>1, <2>3, <4>2
      <4>4. r[i] = s[Len(s) + 1 - (i - 1)]
        BY <2>4, <2>5, <4>1
      <4> QED BY <4>2, <4>3, <4>4
    <3> QED BY <3>1, <3>2
  <2>7. l = r
    BY <2>1, <2>3, <2>5, <2>6, SameSeq
  <2> QED
    BY <2>7 DEF l, r, u, v
<1> QED
  BY <1>1, <1>2

-----------------------------------------------------------------------------
(* Numerals *)

\* A function that satisfies the recursion of Numeral up to n.
NumeralsUpTo(f, b, n) ==
  f = [k \in 0 .. n |-> IF k < b THEN <<Digit(k)>>
                        ELSE Append(f[k \div b], Digit(k % b))]

\* There is one for the range of an int: by the least n for which there were
\* none.
LEMMA NumeralsExist ==
  ASSUME NEW b \in {10, 16}
  PROVE  \E f : NumeralsUpTo(f, b, IntRange)
<1> DEFINE Bad == {n \in 0 .. IntRange : \A f : ~ NumeralsUpTo(f, b, n)}
<1>1. Bad = {}
  <2> SUFFICES ASSUME Bad # {} PROVE FALSE
    OBVIOUS
  <2>1. PICK n \in Bad : \A k \in Bad : n <= k
    <3>1. Bad \in SUBSET Nat
      BY Ranges
    <3> HIDE DEF Bad
    <3> QED BY <3>1, First
  <2>2. n \in Nat /\ n \in 0 .. IntRange
    BY Ranges
  <2>3. n # 0
    <3>1. NumeralsUpTo([k \in 0 .. 0 |-> <<Digit(0)>>], b, 0)
      <4>1. \A k \in 0 .. 0 : k = 0 /\ k < b
        OBVIOUS
      <4> QED BY <4>1 DEF NumeralsUpTo
    <3> QED BY <3>1
  <2>4. PICK f : NumeralsUpTo(f, b, n - 1)
    <3>1. n - 1 \in 0 .. IntRange /\ ~ (n <= n - 1)
      BY <2>2, <2>3, Ranges
    <3> QED
      BY <2>1, <3>1
  <2> DEFINE Body(g, k) == IF k < b THEN <<Digit(k)>>
                           ELSE Append(g[k \div b], Digit(k % b))
             h == [k \in 0 .. n |-> IF k = n THEN Body(f, n) ELSE f[k]]
  <2>5. ASSUME NEW k \in 0 .. n PROVE h[k] = Body(h, k)
    <3>1. h[k] = IF k = n THEN Body(f, n) ELSE f[k]
      OBVIOUS
    <3>2. k # n => f[k] = Body(f, k)
      <4>1. k # n => k \in 0 .. n - 1
        BY <2>2
      <4> QED BY <2>4, <4>1 DEF NumeralsUpTo
    <3>3. h[k] = Body(f, k)
      <4> HIDE DEF Body, h
      <4> QED BY <3>1, <3>2
    <3>4. k >= b => h[k \div b] = f[k \div b]
      <4>1. k \in Nat /\ k <= n
        BY <2>2
      <4>2. k >= b => k \div b \in 0 .. n /\ k \div b # n
        BY <2>2, <4>1, Quotient
      <4> QED BY <4>2
    <3>5. k \in Int /\ b \in Int
      BY <2>2
    <3> HIDE DEF h
    <3> QED BY <3>3, <3>4, <3>5
  <2>6. NumeralsUpTo(h, b, n)
    <3>1. h = [k \in 0 .. n |-> h[k]]
      OBVIOUS
    <3>2. h = [k \in 0 .. n |-> Body(h, k)]
      <4> HIDE DEF Body, h
      <4> QED BY <2>5, <3>1
    <3> HIDE DEF h
    <3> QED BY <3>2 DEF NumeralsUpTo
  <2> QED
    BY <2>6
<1>2. IntRange \in 0 .. IntRange
  BY Ranges
<1> HIDE DEF NumeralsUpTo
<1> QED
  BY <1>1, <1>2

\* The equation of Numeral.
LEMMA NumeralIs ==
  ASSUME NEW b \in {10, 16}, NEW n \in 0 .. IntRange
  PROVE  Numeral(n, b) = IF n < b THEN <<Digit(n)>>
                         ELSE Append(Numeral(n \div b, b), Digit(n % b))
<1> DEFINE g == CHOOSE f : f = [k \in 0 .. IntRange |->
                  IF k < b THEN <<Digit(k)>> ELSE Append(f[k \div b], Digit(k % b))]
<1>1. g = [k \in 0 .. IntRange |->
            IF k < b THEN <<Digit(k)>> ELSE Append(g[k \div b], Digit(k % b))]
  BY NumeralsExist DEF NumeralsUpTo
<1>2. \A k : Numeral(k, b) = g[k]
  BY DEF Numeral
<1> HIDE DEF g
<1>3. g[n] = IF n < b THEN <<Digit(n)>> ELSE Append(g[n \div b], Digit(n % b))
  BY <1>1
<1> QED
  BY <1>2, <1>3

\* A numeral is a text of at least one character.
LEMMA NumeralType ==
  ASSUME NEW b \in {10, 16}, NEW n \in 0 .. IntRange
  PROVE  Numeral(n, b) \in Text /\ Len(Numeral(n, b)) > 0
<1> DEFINE Good(k) == Numeral(k, b) \in Text /\ Len(Numeral(k, b)) > 0
           Bad == {k \in 0 .. IntRange : ~ Good(k)}
<1>1. Bad = {}
  <2> SUFFICES ASSUME Bad # {} PROVE FALSE
    OBVIOUS
  <2>1. PICK k \in Bad : \A j \in Bad : k <= j
    <3>1. Bad \in SUBSET Nat
      BY Ranges
    <3> HIDE DEF Bad
    <3> QED BY <3>1, First
  <2>2. k \in Nat /\ k \in 0 .. IntRange
    BY Ranges
  <2>3. /\ k \div b \in Nat /\ k % b \in 0 .. 15
        /\ k > 0 => k \div b < k
        /\ k < b => k \in 0 .. 15
    BY <2>2, Quotient
  <2>4. CASE k < b
    <3>1. Numeral(k, b) = <<Digit(k)>>
      BY <2>2, <2>4, NumeralIs
    <3>2. Digit(k) \in Characters
      BY <2>3, <2>4, CharacterFacts
    <3>3. <<Digit(k)>> \in Text /\ Len(<<Digit(k)>>) = 1
      BY <3>2, CharacterFacts
    <3>4. Good(k)
      <4>1. Numeral(k, b) \in Text /\ Len(Numeral(k, b)) = 1
        BY <3>1, <3>3
      <4> QED BY <4>1
    <3> QED
      BY <2>1, <3>4
  <2>5. CASE k >= b
    <3>1. k > 0
      BY <2>2, <2>5
    <3>2. k \div b \in 0 .. IntRange /\ k \div b < k
      BY <2>2, <2>3, <3>1, Ranges
    <3>3. Good(k \div b)
      <4>1. k \div b \notin Bad
        BY <2>1, <2>2, <2>3, <3>2
      <4> QED BY <3>2, <4>1
    <3>4. Numeral(k, b) = Append(Numeral(k \div b, b), Digit(k % b))
      <4>1. ~ (k < b)
        BY <2>2, <2>5
      <4> QED BY <2>2, <4>1, NumeralIs
    <3>5. Digit(k % b) \in Characters
      BY <2>3, CharacterFacts
    <3>6. Good(k)
      BY <3>3, <3>4, <3>5, AppendProperties DEF Text
    <3> QED
      BY <2>1, <3>6
  <2> QED
    BY <2>2, <2>4, <2>5
<1> QED
  BY <1>1

\* The digits a number still has to give: zero, and what is below it, none.
Left(n, b) == IF n > 0 THEN Numeral(n, b) ELSE <<>>

\* A digit is taken from the end.
LEMMA LeftStep ==
  ASSUME NEW b \in {10, 16}, NEW n \in 1 .. IntRange
  PROVE  /\ n \div b \in 0 .. n - 1 /\ n % b \in 0 .. 15
         /\ Digit(n % b) \in Characters
         /\ Left(n \div b, b) \in Text
         /\ Left(n, b) = Left(n \div b, b) \o <<Digit(n % b)>>
         /\ Len(Left(n, b)) = Len(Left(n \div b, b)) + 1
<1>1. n \in Nat /\ n > 0 /\ n \in 0 .. IntRange
  BY Ranges
<1>2. /\ n \div b \in 0 .. n - 1 /\ n % b \in 0 .. 15
      /\ n < b => n \div b = 0 /\ n % b = n
      /\ n >= b => n \div b > 0
  BY <1>1, Quotient
<1>3. n \div b \in 0 .. IntRange
  BY <1>1, <1>2, Ranges
<1>4. Digit(n % b) \in Characters
  BY <1>2, CharacterFacts
<1>5. Left(n \div b, b) \in Text
  BY <1>3, NumeralType, CharacterFacts DEF Left
<1>6. Left(n, b) = Left(n \div b, b) \o <<Digit(n % b)>>
  <2>1. CASE n < b
    <3>1. Left(n, b) = <<Digit(n)>> /\ Left(n \div b, b) = <<>>
      BY <1>1, <1>2, <2>1, NumeralIs DEF Left
    <3> QED
      BY <1>2, <1>4, <2>1, <3>1, CharacterFacts, Joined DEF Text
  <2>2. CASE n >= b
    <3>1. Left(n, b) = Append(Left(n \div b, b), Digit(n % b))
      BY <1>1, <1>2, <2>2, NumeralIs DEF Left
    <3> QED
      BY <1>4, <1>5, <3>1, AppendIsConcat DEF Text
  <2> QED
    BY <1>1, <2>1, <2>2
<1>7. Len(Left(n, b)) = Len(Left(n \div b, b)) + 1
  <2>1. <<Digit(n % b)>> \in Text /\ Len(<<Digit(n % b)>>) = 1
    BY <1>4, CharacterFacts
  <2> QED
    BY <1>5, <1>6, <2>1, Joined DEF Text
<1> QED
  BY <1>2, <1>4, <1>5, <1>6, <1>7

\* The numeral of a greater number is not shorter: by the least number for
\* which one below it has a longer numeral.
LEMMA NumeralGrows ==
  ASSUME NEW b \in {10, 16}, NEW n \in 0 .. IntRange, NEW m \in 0 .. n
  PROVE  Len(Numeral(m, b)) <= Len(Numeral(n, b))
<1> DEFINE Length(k) == Len(Left(k, b))
           Bad == {k \in 0 .. IntRange : \E j \in 0 .. k : Length(j) > Length(k)}
<1>1. \A k \in 0 .. IntRange : Left(k, b) \in Text /\ Length(k) \in Nat
      /\ (k > 0 => Length(k) = Length(k \div b) + 1 /\ Length(k) > 0)
      /\ Length(0) = 0
  <2> TAKE k \in 0 .. IntRange
  <2>1. Left(k, b) \in Text
    BY NumeralType, CharacterFacts DEF Left
  <2>2. Length(k) \in Nat /\ Length(0) = 0
    BY <2>1 DEF Text, Left
  <2>3. ASSUME k > 0 PROVE Length(k) = Length(k \div b) + 1 /\ Length(k) > 0
    <3>1. k \in 1 .. IntRange
      BY <2>3, Ranges
    <3>2. Left(k \div b, b) \in Text /\ Length(k) = Length(k \div b) + 1
      BY <3>1, LeftStep
    <3>3. Length(k \div b) \in Nat
      BY <3>2 DEF Text
    <3> QED
      BY <3>2, <3>3
  <2> QED
    BY <2>1, <2>2, <2>3
<1>2. Bad = {}
  <2> SUFFICES ASSUME Bad # {} PROVE FALSE
    OBVIOUS
  <2>1. PICK k \in Bad : \A j \in Bad : k <= j
    <3>1. Bad \in SUBSET Nat
      BY Ranges
    <3> HIDE DEF Bad
    <3> QED BY <3>1, First
  <2>2. PICK j \in 0 .. k : Length(j) > Length(k)
    BY <2>1
  <2>3. k \in 0 .. IntRange /\ k \in Nat /\ j \in 0 .. IntRange /\ j \in Nat /\ j <= k
    BY <2>2, Ranges
  <2> HIDE DEF Length, Bad
  <2>4. j > 0 /\ k > 0
    BY <1>1, <2>2, <2>3
  <2>5. /\ k \div b \in Nat /\ k \div b < k /\ j \div b \in Nat
        /\ j \div b <= k \div b
    BY <2>3, <2>4, Quotient, QuotientGrows
  <2>6. /\ k \div b \in 0 .. IntRange /\ j \div b \in 0 .. IntRange
        /\ j \div b \in 0 .. (k \div b)
    BY <2>3, <2>5, Ranges
  <2>7. /\ Length(k) = Length(k \div b) + 1 /\ Length(j) = Length(j \div b) + 1
        /\ Length(k \div b) \in Nat /\ Length(j \div b) \in Nat
    BY <1>1, <2>3, <2>4, <2>6
  <2>8. k \div b \in Bad
    BY <2>2, <2>6, <2>7 DEF Bad
  <2> QED
    BY <2>1, <2>3, <2>5, <2>8
<1>3. Length(m) <= Length(n) /\ n \in Nat /\ m \in Nat
  <2>1. n \in Nat /\ m \in Nat /\ m \in 0 .. IntRange
    BY Ranges
  <2>2. Length(m) \in Nat /\ Length(n) \in Nat
    BY <1>1, <2>1
  <2>3. ~ (Length(m) > Length(n))
    BY <1>2
  <2> HIDE DEF Length
  <2> QED
    BY <2>1, <2>2, <2>3
<1>4. CASE m > 0
  <2>1. n > 0
    BY <1>3, <1>4
  <2> QED
    BY <1>3, <1>4, <2>1 DEF Left
<1>5. CASE m = 0
  <2>1. Numeral(0, b) = <<Digit(0)>>
    BY NumeralIs, Ranges
  <2>2. Len(Numeral(m, b)) = 1
    BY <1>5, <2>1
  <2>3. Numeral(n, b) \in Text /\ Len(Numeral(n, b)) > 0
    BY NumeralType
  <2>4. Len(Numeral(n, b)) \in Nat
    BY <2>3 DEF Text
  <2> QED
    BY <2>2, <2>3, <2>4
<1> QED
  BY <1>3, <1>4, <1>5

\* The magnitude of an int is in the range of the numerals, and its numeral
\* fits.
LEMMA Fits ==
  ASSUME NEW n \in IntMin .. -IntMin - 1, NEW b \in {10, 16}
  PROVE  /\ Magnitude(n) \in 0 .. -IntMin /\ Magnitude(n) \in 0 .. IntRange
         /\ Len(Numeral(Magnitude(n), b)) <= MaxNumericLength
<1>1. n \in IntMin .. -IntMin
  BY Ranges
<1>2. Len(Numeral(Magnitude(n), b)) <= MaxNumericLength
  BY <1>1, LoaderPrintAssumption
<1>3. Magnitude(n) \in 0 .. -IntMin
  BY Ranges DEF Magnitude
<1> QED
  BY <1>2, <1>3, Ranges

\* An int taken for an unsigned int.
LEMMA Unsigned ==
  ASSUME NEW n \in IntMin .. -IntMin - 1
  PROVE  /\ n % IntRange \in 0 .. IntRange
         /\ n >= 0 => n % IntRange = n
         /\ Magnitude(n) <= n % IntRange
<1>1. n \in Int /\ IntRange \in Nat \ {0} /\ -IntRange < n /\ n < IntRange
  BY Ranges
<1>2. CASE n >= 0
  <2>1. n % IntRange = n
    BY <1>1, <1>2
  <2> QED
    BY <1>1, <1>2, <2>1 DEF Magnitude
<1>3. CASE n < 0
  <2>1. n % IntRange = n + IntRange
    BY <1>1, <1>3
  <2> QED
    BY <1>1, <1>3, <2>1, Ranges DEF Magnitude
<1> QED
  BY <1>1, <1>2, <1>3

\* printf's numeral is at least as long as the one of the magnitude, and is
\* this one for an int that is not negative.
LEMMA CNumeralFacts ==
  ASSUME NEW bits \in Arguments, NEW b \in {10, 16}, NEW c,
         c = IF b = 10 THEN "d" ELSE "X"
  PROVE  /\ CNumeral(c, bits) \in Text
         /\ Len(Numeral(Magnitude(AsInt(bits)), b)) <= Len(CNumeral(c, bits))
         /\ AsInt(bits) >= 0 => CNumeral(c, bits) = Numeral(AsInt(bits), b)
<1> DEFINE n == AsInt(bits)
<1>1. n \in IntMin .. -IntMin - 1 /\ n \in Int
  BY AsIntType, Ranges
<1> HIDE DEF n
<1>2. /\ Magnitude(n) \in 0 .. IntRange
      /\ n % IntRange \in 0 .. IntRange
      /\ n >= 0 => n % IntRange = n /\ Magnitude(n) = n
      /\ n < 0 => Magnitude(n) = -n
      /\ Magnitude(n) \in 0 .. n % IntRange
  <2>1. n >= 0 \/ n < 0
    BY <1>1
  <2>2. /\ n >= 0 => Magnitude(n) = n
        /\ n < 0 => Magnitude(n) = -n
    BY <1>1 DEF Magnitude
  <2>3. /\ n % IntRange \in 0 .. IntRange
        /\ n >= 0 => n % IntRange = n
        /\ Magnitude(n) <= n % IntRange
    BY <1>1, Unsigned
  <2>4. Magnitude(n) \in Nat /\ Magnitude(n) \in 0 .. IntRange
    <3>1. Magnitude(n) \in 0 .. IntRange
      BY <1>1, Fits
    <3> QED BY <3>1, Ranges
  <2>5. Magnitude(n) \in 0 .. n % IntRange
    BY <2>3, <2>4, Ranges
  <2> QED
    BY <2>2, <2>3, <2>4, <2>5
<1>3. Numeral(Magnitude(n), b) \in Text /\ Numeral(n % IntRange, b) \in Text
  BY <1>2, NumeralType
<1>4. CASE b = 16
  <2>1. CNumeral(c, bits) = Numeral(n % IntRange, 16)
    BY <1>4 DEF CNumeral, n
  <2>2. Len(Numeral(Magnitude(n), 16)) <= Len(Numeral(n % IntRange, 16))
    BY <1>2, NumeralGrows
  <2> QED
    BY <1>2, <1>3, <1>4, <2>1, <2>2 DEF n
<1>5. CASE b = 10 /\ n >= 0
  <2>1. CNumeral(c, bits) = Numeral(n, 10) /\ Magnitude(n) = n
    BY <1>2, <1>5 DEF CNumeral, n
  <2>2. Len(Numeral(Magnitude(n), b)) \in Nat
    BY <1>3 DEF Text
  <2> QED
    BY <1>3, <1>5, <2>1, <2>2 DEF n
<1>6. CASE b = 10 /\ ~ (n >= 0)
  <2> DEFINE sign == <<"-">>
  <2>1. CNumeral(c, bits) = sign \o Numeral(Magnitude(n), b)
    BY <1>1, <1>2, <1>6 DEF CNumeral, n
  <2>2. sign \in Text /\ Len(sign) = 1
    BY CharacterFacts
  <2> HIDE DEF sign
  <2>3. /\ CNumeral(c, bits) \in Text
        /\ Len(CNumeral(c, bits)) = 1 + Len(Numeral(Magnitude(n), b))
    <3>1. sign \in Seq(Characters) /\ Numeral(Magnitude(n), b) \in Seq(Characters)
      BY <1>3, <2>2 DEF Text
    <3> DEFINE numeral == Numeral(Magnitude(n), b)
    <3> HIDE DEF numeral
    <3>2. sign \o numeral \in Text /\ Len(sign \o numeral) = Len(sign) + Len(numeral)
      <4>1. sign \in Seq(Characters) /\ numeral \in Seq(Characters)
        BY <3>1 DEF numeral
      <4> QED
        BY <4>1, Joined DEF Text
    <3> QED
      BY <2>1, <2>2, <3>2 DEF numeral
  <2>4. Len(Numeral(Magnitude(n), b)) \in Nat
    BY <1>3 DEF Text
  <2> QED
    BY <1>6, <2>3, <2>4 DEF n
<1> QED
  BY <1>4, <1>5, <1>6

-----------------------------------------------------------------------------
(* The types, and the number that is being written *)

\* The terminator is behind the format and not in it.
LEMMA AtFacts ==
  ASSUME fmt \in Formats, NEW pos \in Nat
  PROVE  /\ Len(fmt) \in Nat
         /\ At(pos) \in Characters
         /\ At(pos) # NUL <=> pos < Len(fmt)
<1>1. fmt \in Seq(Characters \ {NUL})
  BY LoaderPrintAssumption
<1>2. Len(fmt) \in Nat
  BY <1>1
<1>3. CASE pos < Len(fmt)
  <2>1. pos + 1 \in 1 .. Len(fmt)
    BY <1>2, <1>3
  <2>2. fmt[pos + 1] \in Characters \ {NUL}
    BY <1>1, <2>1, ElementOfSeq
  <2> QED
    BY <1>2, <1>3, <2>2 DEF At
<1>4. CASE ~ (pos < Len(fmt))
  BY <1>2, <1>4, CharacterFacts DEF At
<1> QED
  BY <1>3, <1>4

\* itoa runs for the last argument taken; the position is at its conversion.
Converting == pc \in {"digits", "remainders", "copy"}

Types ==
  /\ fmt \in Formats /\ addEOL \in BOOLEAN
  /\ fmtPosition \in 0 .. Len(fmt)
  /\ buffer \in Text /\ reached = Len(buffer)
  /\ base \in {10, 16} /\ value \in 0 .. Uint64Range - 1
  /\ valcopy \in IntMin .. -IntMin - 1
  /\ intBuffer \in Text /\ Len(intBuffer) <= MaxNumericLength
  /\ pc \in {"text", "digits", "remainders", "copy", "done"}
  /\ passed \in Seq(Arguments)
  /\ Converting => /\ Len(passed) > 0
                   /\ fmtPosition > 0 /\ At(fmtPosition - 1) = "%"
                   /\ At(fmtPosition) = IF base = 10 THEN "d" ELSE "x"

Number == AsInt(passed[Len(passed)])

\* The digits that are written and those that are left are no more than the
\* number has, and for a number that is not negative they are its own.
Numbers ==
  /\ pc = "digits" =>
       /\ Len(Left(valcopy, base)) + Len(intBuffer)
            <= Len(Numeral(Magnitude(Number), base))
       /\ Number >= 0 =>
            Numeral(Number, base) = Left(valcopy, base) \o Reverse(intBuffer)
  /\ pc = "remainders" =>
       /\ valcopy <= 0
       /\ Len(Left(-valcopy, base)) + Len(intBuffer)
            <= Len(Numeral(Magnitude(Number), base))
       /\ Number < 0
  /\ pc = "copy" =>
       /\ Len(intBuffer) <= Len(Numeral(Magnitude(Number), base))
       /\ Number >= 0 => intBuffer = Numeral(Number, base)

NumberInv == Types /\ Numbers

\* A call starts outside a number.
LEMMA NumberInit == Init => NumberInv
<1> SUFFICES ASSUME Init PROVE NumberInv
  OBVIOUS
<1>1. Len(fmt) \in Nat
  BY AtFacts DEF Init
<1>2. <<>> \in Text /\ Len(<<>>) = 0 /\ <<>> \in Seq(Arguments)
  BY CharacterFacts, EmptySeq
<1>3. MaxNumericLength \in Nat
  BY LoaderPrintAssumption
<1> QED
  BY <1>1, <1>2, <1>3, Ranges DEF Init, NumberInv, Types, Numbers, Converting

\* What Put does to the buffer, and to how far it was written.
LEMMA PutFacts ==
  ASSUME Types, NEW text \in Text, Put(text)
  PROVE  /\ buffer' = buffer \o text /\ buffer' \in Text /\ reached' = Len(buffer')
         /\ Len(buffer') = Len(buffer) + Len(text)
<1>1. buffer \in Text /\ reached = Len(buffer)
  BY DEF Types
<1>2. buffer' = buffer \o text
  BY DEF Put
<1>3. buffer' \in Text /\ Len(buffer') = Len(buffer) + Len(text)
      /\ Len(buffer) \in Nat /\ Len(text) \in Nat
  BY <1>1, <1>2, JoinedText DEF Text
<1> QED
  BY <1>1, <1>2, <1>3 DEF Put

\* The facts the steps of itoa start from.
LEMMA NumberFacts ==
  ASSUME NumberInv, Converting
  PROVE  /\ Number \in IntMin .. -IntMin - 1
         /\ Magnitude(Number) \in 0 .. IntRange
         /\ Numeral(Magnitude(Number), base) \in Text
         /\ Len(Numeral(Magnitude(Number), base)) \in Nat
         /\ Len(Numeral(Magnitude(Number), base)) <= MaxNumericLength
<1>1. passed \in Seq(Arguments) /\ Len(passed) > 0 /\ base \in {10, 16}
  BY DEF NumberInv, Types
<1>2. passed[Len(passed)] \in Arguments
  <2>1. Len(passed) \in 1 .. Len(passed)
    BY <1>1
  <2> QED BY <1>1, <2>1, ElementOfSeq
<1>3. Number \in IntMin .. -IntMin - 1
  BY <1>2, AsIntType DEF Number
<1>4. Magnitude(Number) \in 0 .. IntRange
      /\ Len(Numeral(Magnitude(Number), base)) <= MaxNumericLength
  BY <1>1, <1>3, Fits
<1>5. Numeral(Magnitude(Number), base) \in Text
  BY <1>1, <1>4, NumeralType
<1> QED
  BY <1>3, <1>4, <1>5 DEF Text

\* The steps that only write to the buffer, or to nothing.
LEMMA TextStepNumbers ==
  ASSUME NumberInv, PutLiteral \/ PutPercent \/ DropPercent \/ CopyNumeral \/ Finish
  PROVE  NumberInv'
<1>1. Types /\ fmt \in Formats /\ fmtPosition \in Nat /\ Len(fmt) \in Nat
      /\ fmtPosition <= Len(fmt)
  BY AtFacts DEF NumberInv, Types
<1>2. /\ At(fmtPosition) \in Characters /\ At(fmtPosition + 1) \in Characters
      /\ At(fmtPosition) # NUL => fmtPosition + 1 <= Len(fmt)
      /\ At(fmtPosition + 1) # NUL => fmtPosition + 2 <= Len(fmt)
  BY <1>1, AtFacts
<1>3. "%" # NUL /\ "d" # NUL /\ "x" # NUL
  BY DEF NUL
<1>4. CASE PutLiteral
  <2>1. Put(<<At(fmtPosition)>>) /\ <<At(fmtPosition)>> \in Text
    BY <1>2, <1>4, CharacterFacts DEF PutLiteral
  <2>2. buffer' \in Text /\ reached' = Len(buffer')
    BY <1>1, <2>1, PutFacts
  <2> QED
    BY <1>1, <1>2, <1>4, <2>2
    DEF PutLiteral, NumberInv, Types, Numbers, Converting, itoaVars
<1>5. CASE PutPercent
  <2>1. Put(<<"%">>) /\ <<"%">> \in Text
    BY <1>5, CharacterFacts DEF PutPercent
  <2>2. buffer' \in Text /\ reached' = Len(buffer')
    BY <1>1, <2>1, PutFacts
  <2> QED
    BY <1>1, <1>2, <1>3, <1>5, <2>2
    DEF PutPercent, NumberInv, Types, Numbers, Converting, itoaVars
<1>6. CASE DropPercent
  BY <1>1, <1>2, <1>3, <1>6
  DEF DropPercent, NumberInv, Types, Numbers, Converting, itoaVars
<1>7. CASE CopyNumeral
  <2>1. Put(intBuffer) /\ intBuffer \in Text /\ pc = "copy"
    BY <1>1, <1>7 DEF CopyNumeral, Types
  <2>2. buffer' \in Text /\ reached' = Len(buffer')
    BY <1>1, <2>1, PutFacts
  <2>3. At(fmtPosition) # NUL
    BY <1>1, <1>3, <2>1 DEF Types, Converting
  <2> QED
    BY <1>1, <1>2, <1>7, <2>2, <2>3
    DEF CopyNumeral, NumberInv, Types, Numbers, Converting, itoaVars
<1>8. CASE Finish
  <2> DEFINE text == IF addEOL THEN <<"\n", "\r", NUL>> ELSE <<NUL>>
  <2>1. Put(text) /\ text \in Text
    <3>1. "\n" \in Characters /\ "\r" \in Characters /\ NUL \in Characters
      BY CharacterFacts
    <3> QED BY <1>8, <3>1 DEF Finish, Text
  <2>2. buffer' \in Text /\ reached' = Len(buffer')
    <3> HIDE DEF text
    <3> QED BY <1>1, <2>1, PutFacts
  <2> QED
    BY <1>1, <1>8, <2>2
    DEF Finish, NumberInv, Types, Numbers, Converting, itoaVars
<1> QED
  BY <1>4, <1>5, <1>6, <1>7, <1>8

\* A conversion starts: nothing is written yet, or the zero.
LEMMA OpenNumbers ==
  ASSUME NumberInv, OpenNumber
  PROVE  NumberInv'
<1>1. Types /\ fmt \in Formats /\ fmtPosition \in Nat /\ Len(fmt) \in Nat
  BY AtFacts DEF NumberInv, Types
<1>2. PICK bits \in Arguments :
        /\ passed' = Append(passed, bits)
        /\ value' = AsUINT64(AsInt(bits))
        /\ valcopy' = IF AsInt(bits) = IntMin THEN AsInt(bits) ELSE Magnitude(AsInt(bits))
        /\ intBuffer' = IF AsInt(bits) = 0 THEN <<"0">> ELSE <<>>
        /\ \/ pc' = IF AsInt(bits) = 0 THEN "copy" ELSE "digits"
           \/ AsInt(bits) = IntMin /\ pc' = "remainders"
  BY DEF OpenNumber
<1> DEFINE n == AsInt(bits)
<1>3. n \in IntMin .. -IntMin - 1 /\ n \in Int
  BY AsIntType, Ranges
<1>4. /\ passed' \in Seq(Arguments) /\ Len(passed') > 0 /\ Number' = n
  <2>1. passed \in Seq(Arguments)
    BY <1>1 DEF Types
  <2>2. /\ passed' \in Seq(Arguments) /\ Len(passed') = Len(passed) + 1
        /\ passed'[Len(passed) + 1] = bits /\ Len(passed) \in Nat
    BY <1>2, <2>1, AppendProperties
  <2>3. Number' = AsInt(passed'[Len(passed')])
    BY DEF Number, AsInt, IntMin
  <2> QED
    BY <2>2, <2>3
<1> HIDE DEF n
<1>5. /\ base' \in {10, 16} /\ base' = (IF At(fmtPosition + 1) = "d" THEN 10 ELSE 16)
      /\ fmtPosition' = fmtPosition + 1 /\ fmtPosition' \in 0 .. Len(fmt)
      /\ At(fmtPosition) = "%" /\ At(fmtPosition + 1) \in {"d", "x"}
  <2>1. At(fmtPosition + 1) # NUL
    BY DEF OpenNumber, NUL
  <2>2. fmtPosition + 1 <= Len(fmt)
    BY <1>1, <2>1, AtFacts
  <2> QED
    BY <1>1, <2>2 DEF OpenNumber
<1>6. Converting' => /\ Len(passed') > 0
                     /\ fmtPosition' > 0 /\ At(fmtPosition - 1)' = "%"
                     /\ At(fmtPosition)' = IF base' = 10 THEN "d" ELSE "x"
  <2>1. fmt' = fmt
    BY DEF OpenNumber
  <2>2. At(fmtPosition - 1)' = At(fmtPosition) /\ At(fmtPosition)' = At(fmtPosition + 1)
    <3>1. fmtPosition' - 1 = fmtPosition
      BY <1>1, <1>5
    <3> QED BY <1>5, <2>1, <3>1 DEF At
  <2> QED
    BY <1>1, <1>4, <1>5, <2>2
<1>7. value' \in 0 .. Uint64Range - 1
  BY <1>2, <1>3, Ranges, Remainder DEF AsUINT64, n
<1>8. /\ Magnitude(n) \in 0 .. -IntMin /\ Magnitude(n) \in 0 .. IntRange
      /\ n # IntMin => Magnitude(n) \in 0 .. -IntMin - 1
      /\ n >= 0 => Magnitude(n) = n
      /\ n # 0 => Magnitude(n) > 0
      /\ valcopy' = IF n = IntMin THEN n ELSE Magnitude(n)
      /\ valcopy' \in IntMin .. -IntMin - 1
  <2>1. Magnitude(n) \in 0 .. -IntMin /\ Magnitude(n) \in 0 .. IntRange
    BY <1>3, Fits
  <2>2. /\ n # IntMin => Magnitude(n) \in 0 .. -IntMin - 1
        /\ n >= 0 => Magnitude(n) = n
        /\ n # 0 => Magnitude(n) > 0
    BY <1>3, Ranges DEF Magnitude
  <2>3. valcopy' = IF n = IntMin THEN n ELSE Magnitude(n)
    BY <1>2 DEF n
  <2> QED
    BY <1>3, <2>1, <2>2, <2>3, Ranges
<1> DEFINE numeral == Numeral(Magnitude(n), base')
<1>9. numeral \in Text /\ Len(numeral) \in Nat /\ Len(numeral) > 0
  <2>1. numeral \in Text /\ Len(numeral) > 0
    BY <1>5, <1>8, NumeralType
  <2> HIDE DEF numeral
  <2> QED BY <2>1 DEF Text
<1>10. intBuffer' = (IF n = 0 THEN <<"0">> ELSE <<>>)
       /\ Digit(0) = "0" /\ <<"0">> \in Text /\ Len(<<"0">>) = 1
       /\ <<>> \in Text /\ Len(<<>>) = 0
  <2>1. Digit(0) = "0"
    BY DEF Digit
  <2>2. "0" \in Characters
    <3>1. Digit(0) \in Characters
      <4>1. 0 \in 0 .. 15
        OBVIOUS
      <4> QED BY <4>1, CharacterFacts, Zenon
    <3> QED BY <2>1, <3>1
  <2>3. <<"0">> \in Text /\ Len(<<"0">>) = 1
    BY <2>2, CharacterFacts
  <2> QED
    BY <1>2, <2>1, <2>3, CharacterFacts DEF n
<1>11. intBuffer' \in Text /\ Len(intBuffer') <= MaxNumericLength
  <2>1. MaxNumericLength \in Nat \ {0}
    BY LoaderPrintAssumption
  <2> QED
    BY <1>10, <2>1
<1>12. Types'
  <2>1. /\ fmt' = fmt /\ addEOL' = addEOL /\ buffer' = buffer /\ reached' = reached
    BY DEF OpenNumber
  <2>2. pc' \in {"copy", "digits", "remainders"}
    BY <1>2
  <2> QED
    BY <1>1, <1>4, <1>5, <1>6, <1>7, <1>8, <1>11, <2>1, <2>2 DEF Types
<1>13. Numbers'
  <2>1. /\ Left(valcopy, base)' = Left(valcopy', base')
        /\ Left(-valcopy, base)' = Left(-valcopy', base')
        /\ Numeral(Magnitude(Number), base)' = numeral
        /\ Numeral(Number, base)' = Numeral(n, base')
        /\ Reverse(intBuffer)' = Reverse(intBuffer')
    BY <1>4 DEF Left, Numeral, Digit, Magnitude, Reverse
  <2> HIDE DEF numeral
  <2>2. CASE n = 0
    <3>1. pc' = "copy" /\ intBuffer' = <<"0">>
      BY <1>2, <1>10, <2>2, Ranges DEF n
    <3>2. Numeral(n, base') = <<"0">> /\ numeral = <<"0">>
      BY <1>5, <1>8, <1>10, <2>2, NumeralIs, Ranges DEF numeral
    <3> QED
      BY <1>10, <2>1, <3>1, <3>2 DEF Numbers
  <2>3. CASE n # 0 /\ pc' = "digits"
    <3>1. intBuffer' = <<>> /\ Reverse(intBuffer') = <<>>
      <4>1. Reverse(<<>>) = <<>>
        BY EmptySeq DEF Reverse
      <4> QED BY <1>10, <2>3, <4>1
    <3>2. CASE n = IntMin
      <4>1. Left(valcopy', base') = <<>> /\ ~ (n >= 0)
        BY <1>3, <1>8, <3>2, Ranges DEF Left
      <4> QED
        BY <1>4, <1>9, <1>10, <2>1, <2>3, <3>1, <4>1 DEF Numbers
    <3>3. CASE n # IntMin
      <4>1. Left(valcopy', base') = numeral
        BY <1>8, <2>3, <3>3 DEF Left, numeral
      <4>2. n >= 0 => Numeral(n, base') = numeral
        BY <1>8 DEF numeral
      <4>3. numeral \o <<>> = numeral
        BY <1>9, Joined DEF Text
      <4>4. Len(Left(valcopy', base')) + Len(intBuffer') <= Len(numeral)
        BY <1>9, <1>10, <3>1, <4>1
      <4>5. n >= 0 => Numeral(n, base') = Left(valcopy', base') \o Reverse(intBuffer')
        BY <3>1, <4>1, <4>2, <4>3
      <4> QED
        BY <1>4, <2>1, <2>3, <4>4, <4>5 DEF Numbers
    <3> QED
      BY <3>2, <3>3
  <2>4. CASE n # 0 /\ pc' = "remainders"
    <3>1. n = IntMin /\ intBuffer' = <<>>
      BY <1>2, <1>10, <2>4 DEF n
    <3>2. valcopy' <= 0 /\ n < 0 /\ -valcopy' = Magnitude(n)
      BY <1>3, <1>8, <3>1, Ranges DEF Magnitude
    <3>3. Left(-valcopy', base') = numeral
      BY <1>8, <2>4, <3>2 DEF Left, numeral
    <3> QED
      BY <1>4, <1>9, <1>10, <2>1, <2>4, <3>1, <3>2, <3>3 DEF Numbers
  <2> QED
    BY <1>2, <2>2, <2>3, <2>4 DEF n
<1> QED
  BY <1>12, <1>13 DEF NumberInv

\* A turn of itoa's loop takes a digit from what is left; there is room for it.
LEMMA DigitNumbers ==
  ASSUME NumberInv, PutDigit \/ PutRemainder
  PROVE  NumberInv'
<1> DEFINE v == IF pc = "digits" THEN valcopy ELSE -valcopy
           ch == IF pc = "digits" THEN Digit(v % base) ELSE "?"
<1>1. /\ Types /\ Numbers /\ base \in {10, 16} /\ intBuffer \in Text
      /\ valcopy \in IntMin .. -IntMin - 1 /\ Len(intBuffer) <= MaxNumericLength
      /\ MaxNumericLength \in Nat
  BY LoaderPrintAssumption DEF NumberInv, Types
<1>2. /\ pc \in {"digits", "remainders"}
      /\ v \in 1 .. IntRange
      /\ intBuffer' = Append(intBuffer, ch)
      /\ valcopy' = (IF pc = "digits" THEN v \div base ELSE -(v \div base))
      /\ pc' = pc
  <2>1. ~ (Len(intBuffer) > MaxNumericLength)
    BY <1>1 DEF Text
  <2>2. CASE PutDigit
    <3>1. pc = "digits" /\ v = valcopy /\ valcopy > 0
      BY <2>2 DEF PutDigit
    <3> QED
      BY <1>1, <2>1, <2>2, <3>1, Ranges DEF PutDigit, AddDigit
  <2>3. CASE PutRemainder
    <3>1. pc = "remainders" /\ v = -valcopy /\ valcopy # 0 /\ valcopy <= 0
      BY <1>1, <2>3 DEF PutRemainder, Numbers
    <3>2. v \in 1 .. IntRange
      BY <1>1, <3>1, Ranges
    <3> QED
      BY <2>1, <2>3, <3>1, <3>2 DEF PutRemainder, AddDigit
  <2> QED
    BY <2>2, <2>3
<1>3. Converting
  BY <1>2 DEF Converting
<1>4. /\ UNCHANGED <<fmt, addEOL, fmtPosition, buffer, value, base, reached, passed>>
      /\ Number' = Number
  BY DEF PutDigit, PutRemainder, AddDigit, Number, AsInt, IntMin
<1> DEFINE q == v \div base
           numeral == Numeral(Magnitude(Number), base)
<1>5. /\ q \in 0 .. v - 1 /\ Digit(v % base) \in Characters
      /\ Left(q, base) \in Text
      /\ Left(v, base) = Left(q, base) \o <<Digit(v % base)>>
      /\ Len(Left(v, base)) = Len(Left(q, base)) + 1
  BY <1>1, <1>2, LeftStep
<1>6. ch \in Characters
  BY <1>5, CharacterFacts
<1>7. numeral \in Text /\ Len(numeral) \in Nat /\ Len(numeral) <= MaxNumericLength
      /\ Number \in Int
  BY <1>3, NumberFacts, Ranges DEF NumberInv
<1> HIDE DEF numeral, v, ch, q
<1>8. Len(Left(v, base)) + Len(intBuffer) <= Len(numeral)
  BY <1>1, <1>2 DEF Numbers, v, numeral
<1>9. intBuffer' \in Text /\ Len(intBuffer') = Len(intBuffer) + 1 /\ Len(intBuffer) \in Nat
  BY <1>1, <1>2, <1>6, AppendProperties DEF Text
<1>10. Len(Left(q, base)) \in Nat /\ Len(Left(q, base)) + Len(intBuffer') <= Len(numeral)
       /\ Len(intBuffer') <= MaxNumericLength
  <2>1. Len(Left(q, base)) \in Nat
    BY <1>5 DEF Text
  <2> QED
    BY <1>1, <1>5, <1>7, <1>8, <1>9, <2>1
<1>11. valcopy' \in IntMin .. -IntMin - 1 /\ (pc = "remainders" => valcopy' <= 0)
       /\ v \in Int /\ q \in Int /\ valcopy' = (IF pc = "digits" THEN q ELSE -q)
  <2>1. v \in Int /\ q \in Int /\ 0 <= q /\ q < v
    BY <1>2, <1>5, Ranges
  <2>2. v <= -IntMin /\ (pc = "digits" => v <= -IntMin - 1)
    BY <1>1, <2>1, Ranges DEF v
  <2>3. valcopy' = IF pc = "digits" THEN q ELSE -q
    BY <1>2 DEF q
  <2> QED
    BY <1>2, <2>1, <2>2, <2>3, Ranges
<1>12. Types'
  <2>1. At(fmtPosition)' = At(fmtPosition) /\ At(fmtPosition - 1)' = At(fmtPosition - 1)
        /\ Converting' = Converting
    BY <1>2, <1>4 DEF At, Converting
  <2> QED
    BY <1>1, <1>2, <1>4, <1>9, <1>10, <1>11, <2>1 DEF Types
<1>13. /\ Left(valcopy, base)' = Left(valcopy', base)
       /\ Left(-valcopy, base)' = Left(-valcopy', base)
       /\ Numeral(Magnitude(Number), base)' = numeral
       /\ Numeral(Number, base)' = Numeral(Number, base)
       /\ Reverse(intBuffer)' = Reverse(intBuffer')
  BY <1>4 DEF Left, Numeral, Digit, Magnitude, Reverse, numeral
<1>14. CASE pc = "digits"
  <2>1. ASSUME Number >= 0
        PROVE  Numeral(Number, base) = Left(q, base) \o Reverse(intBuffer')
    <3> DEFINE d == <<ch>>
    <3>1. Numeral(Number, base) = Left(v, base) \o Reverse(intBuffer)
      BY <1>1, <1>14, <2>1 DEF Numbers, v
    <3>2. Left(v, base) = Left(q, base) \o d
      BY <1>5, <1>14 DEF ch
    <3>3. Reverse(intBuffer') = d \o Reverse(intBuffer) /\ Reverse(intBuffer) \in Text
      BY <1>1, <1>2, <1>6, ReverseFacts
    <3>4. d \in Text
      BY <1>6, CharacterFacts
    <3> HIDE DEF d
    <3>5. (Left(q, base) \o d) \o Reverse(intBuffer)
            = Left(q, base) \o (d \o Reverse(intBuffer))
      BY <1>5, <3>3, <3>4, Associative DEF Text
    <3> QED
      BY <3>1, <3>2, <3>3, <3>5
  <2>2. valcopy' = q
    BY <1>11, <1>14
  <2> QED
    BY <1>2, <1>4, <1>10, <1>12, <1>13, <1>14, <2>1, <2>2 DEF NumberInv, Numbers
<1>15. CASE pc = "remainders"
  <2>1. -valcopy' = q /\ valcopy' <= 0
    BY <1>11, <1>15
  <2>2. Number < 0
    BY <1>1, <1>15 DEF Numbers
  <2> QED
    BY <1>2, <1>4, <1>10, <1>12, <1>13, <1>15, <2>1, <2>2 DEF NumberInv, Numbers
<1> QED
  BY <1>2, <1>14, <1>15

\* The numeral is complete: reversed, it is in the order of its digits.
LEMMA FinishNumbers ==
  ASSUME NumberInv, FinishNumeral
  PROVE  NumberInv'
<1> DEFINE numeral == Numeral(Magnitude(Number), base)
<1>1. /\ Types /\ Numbers /\ base \in {10, 16} /\ intBuffer \in Text
      /\ Len(intBuffer) <= MaxNumericLength /\ value \in 0 .. Uint64Range - 1
      /\ valcopy \in IntMin .. -IntMin - 1
  BY DEF NumberInv, Types
<1>2. Converting /\ pc' = "copy" /\ Len(intBuffer) \in Nat
  BY <1>1 DEF FinishNumeral, Converting, Text
<1>3. /\ UNCHANGED <<fmt, addEOL, fmtPosition, buffer, value, base, valcopy, reached, passed>>
      /\ Number' = Number
  BY DEF FinishNumeral, Number, AsInt, IntMin
<1>4. numeral \in Text /\ Len(numeral) \in Nat /\ Number \in Int
  BY <1>2, NumberFacts, Ranges DEF NumberInv
<1> HIDE DEF numeral
<1>5. intBuffer' = Reverse(intBuffer) /\ intBuffer' \in Text
      /\ Len(intBuffer') = Len(intBuffer)
  <2>1. ~ (value < 0)
    BY <1>1, Ranges
  <2>2. intBuffer' = Reverse(intBuffer \o <<>>)
    BY <2>1 DEF FinishNumeral
  <2>3. intBuffer \o <<>> = intBuffer
    BY <1>1, Joined DEF Text
  <2> QED
    BY <1>1, <2>2, <2>3, ReverseFacts
<1>6. Types'
  <2>1. At(fmtPosition)' = At(fmtPosition) /\ At(fmtPosition - 1)' = At(fmtPosition - 1)
    BY <1>3 DEF At
  <2> QED
    BY <1>1, <1>2, <1>3, <1>5, <2>1 DEF Types
<1>7. /\ Len(intBuffer) <= Len(numeral)
      /\ Number >= 0 => Numeral(Number, base) = Reverse(intBuffer)
  <2>1. CASE pc = "digits"
    <3>1. Left(valcopy, base) = <<>>
      BY <1>1, <2>1, Ranges DEF FinishNumeral, Left
    <3>2. Len(<<>>) + Len(intBuffer) <= Len(numeral)
      BY <1>1, <2>1, <3>1 DEF Numbers, numeral
    <3>3. <<>> \o Reverse(intBuffer) = Reverse(intBuffer)
      BY <1>1, ReverseFacts, Joined DEF Text
    <3> QED
      BY <1>1, <1>2, <2>1, <3>1, <3>2, <3>3 DEF Numbers
  <2>2. CASE pc = "remainders"
    <3>1. valcopy = 0
      BY <2>2 DEF FinishNumeral
    <3>2. Left(-valcopy, base) = <<>>
      BY <3>1 DEF Left
    <3>3. Len(<<>>) + Len(intBuffer) <= Len(numeral) /\ Number < 0
      BY <1>1, <2>2, <3>2 DEF Numbers, numeral
    <3> QED
      BY <1>2, <1>4, <3>3
  <2> QED
    BY <2>1, <2>2 DEF FinishNumeral
<1>8. /\ Numeral(Magnitude(Number), base)' = numeral
      /\ Numeral(Number, base)' = Numeral(Number, base)
  BY <1>3 DEF Numeral, Digit, Magnitude, numeral
<1> QED
  BY <1>2, <1>3, <1>5, <1>6, <1>7, <1>8 DEF NumberInv, Numbers

\* Every step keeps the types and what is said of the number.
LEMMA NumberStep == NumberInv /\ [Next]_vars => NumberInv'
<1> SUFFICES ASSUME NumberInv, [Next]_vars PROVE NumberInv'
  OBVIOUS
<1>1. CASE PutLiteral \/ PutPercent \/ DropPercent \/ CopyNumeral \/ Finish
  BY <1>1, TextStepNumbers
<1>2. CASE OpenNumber
  BY <1>2, OpenNumbers
<1>3. CASE PutDigit \/ PutRemainder
  BY <1>3, DigitNumbers
<1>4. CASE FinishNumeral
  BY <1>4, FinishNumbers
<1>5. CASE UNCHANGED vars
  <2>1. Types' /\ Numbers'
    BY <1>5 DEF vars, itoaVars, NumberInv, Types, Numbers, Converting, At, Number,
       AsInt, IntMin, Left, Numeral, Digit, Magnitude, Reverse
  <2> QED
    BY <2>1 DEF NumberInv
<1> QED
  BY <1>1, <1>2, <1>3, <1>4, <1>5 DEF Next

\* The positions stay in the format and in itoa's buffer, for every format and
\* every argument: the message for a numeral that is too long is never written.
THEOREM TypesHold == Spec => []TypeOK
<1>1. ASSUME NumberInv PROVE TypeOK
  <2>1. Types /\ Len(buffer) \in Nat
    BY <1>1 DEF NumberInv, Types, Text
  <2> QED
    BY <2>1 DEF Types, TypeOK, Text
<1> QED
  BY <1>1, NumberInit, NumberStep, PTL DEF Spec

-----------------------------------------------------------------------------
(* What printf prints from a position on *)

\* One turn of the recursion of CTextFrom, for the texts f behind the position.
TextAt(f, args, pos, used) ==
  IF At(pos) = NUL THEN IF addEOL THEN <<"\n", "\r">> ELSE <<>>
  ELSE IF At(pos) # "%" THEN <<At(pos)>> \o f[pos + 1][used]
  ELSE IF At(pos + 1) = "%" THEN <<"%">> \o f[pos + 2][used]
  ELSE IF At(pos + 1) \in {"d", "x"}
       THEN CNumeral(InC(At(pos + 1)), args[used + 1]) \o f[pos + 2][used + 1]
  ELSE f[pos + 1][used]

\* A function that satisfies the recursion from a position on.
TextsFrom(f, args, start) ==
  f = [pos \in start .. Len(fmt) |-> [used \in Nat |-> TextAt(f, args, pos, used)]]

\* There is one for the whole format: by the shortest end of it for which
\* there were none.
LEMMA TextsExist ==
  ASSUME fmt \in Formats, NEW args
  PROVE  \E f : TextsFrom(f, args, 0)
<1>1. Len(fmt) \in Nat
  BY AtFacts
<1> DEFINE Bad == {m \in 0 .. Len(fmt) : \A f : ~ TextsFrom(f, args, Len(fmt) - m)}
<1>2. Bad = {}
  <2> SUFFICES ASSUME Bad # {} PROVE FALSE
    OBVIOUS
  <2>1. PICK m \in Bad : \A k \in Bad : m <= k
    <3>1. Bad \in SUBSET Nat
      BY <1>1
    <3> HIDE DEF Bad
    <3> QED BY <3>1, First
  <2> DEFINE n == Len(fmt) - m
  <2>2. m \in 0 .. Len(fmt) /\ n \in 0 .. Len(fmt) /\ m \in Nat /\ n \in Nat
    BY <1>1
  <2>3. \A f : ~ TextsFrom(f, args, n)
    BY <2>1
  <2>4. m # 0
    <3> SUFFICES ASSUME m = 0 PROVE FALSE
      OBVIOUS
    <3> DEFINE e == [pos \in n .. Len(fmt) |-> [used \in Nat |->
                       IF addEOL THEN <<"\n", "\r">> ELSE <<>>]]
    <3>1. \A pos \in n .. Len(fmt) : At(pos) = NUL
      <4>1. \A pos \in n .. Len(fmt) : pos = Len(fmt)
        BY <1>1, <2>2
      <4> QED BY <1>1, <4>1, AtFacts
    <3>2. \A f, pos, used : pos \in n .. Len(fmt) =>
            TextAt(f, args, pos, used) = IF addEOL THEN <<"\n", "\r">> ELSE <<>>
      BY <3>1 DEF TextAt
    <3>3. TextsFrom(e, args, n)
      <4> HIDE DEF n
      <4> QED BY <3>2 DEF TextsFrom
    <3> QED
      BY <2>3, <3>3
  <2>5. PICK f : TextsFrom(f, args, n + 1)
    <3>1. m - 1 \in 0 .. Len(fmt) /\ ~ (m <= m - 1) /\ Len(fmt) - (m - 1) = n + 1
      BY <1>1, <2>2, <2>4
    <3>2. \E f : TextsFrom(f, args, Len(fmt) - (m - 1))
      <4> HIDE DEF n
      <4> QED BY <2>1, <3>1
    <3> QED
      BY <3>1, <3>2
  <2> HIDE DEF n, Bad
  <2> DEFINE h == [pos \in n .. Len(fmt) |->
                     IF pos = n THEN [used \in Nat |-> TextAt(f, args, n, used)]
                     ELSE f[pos]]
  <2>6. ASSUME NEW pos \in n .. Len(fmt)
        PROVE  h[pos] = [used \in Nat |-> TextAt(f, args, pos, used)]
    <3>1. pos # n => f[pos] = [used \in Nat |-> TextAt(f, args, pos, used)]
      <4>1. pos # n => pos \in n + 1 .. Len(fmt)
        BY <1>1, <2>2
      <4> QED BY <2>5, <4>1 DEF TextsFrom
    <3> QED BY <3>1
  <2>7. ASSUME NEW pos \in n .. Len(fmt), NEW used \in Nat
        PROVE  TextAt(h, args, pos, used) = TextAt(f, args, pos, used)
    <3>1. pos \in Nat /\ pos + 1 \in Nat
      BY <2>2
    <3>2. At(pos) # NUL => pos + 1 \in n + 1 .. Len(fmt)
      BY <1>1, <2>2, <3>1, AtFacts
    <3>3. At(pos) # NUL => h[pos + 1] = f[pos + 1]
      BY <1>1, <2>2, <3>1, <3>2
    <3>4. At(pos + 1) # NUL => pos + 2 \in n + 1 .. Len(fmt)
      BY <1>1, <2>2, <3>1, AtFacts
    <3>5. At(pos + 1) # NUL => h[pos + 2] = f[pos + 2]
      BY <1>1, <2>2, <3>1, <3>4
    <3>6. "%" # NUL /\ "d" # NUL /\ "x" # NUL
      BY DEF NUL
    <3> HIDE DEF h
    <3> QED
      BY <3>3, <3>5, <3>6 DEF TextAt
  <2>8. TextsFrom(h, args, n)
    <3>1. h = [pos \in n .. Len(fmt) |-> h[pos]]
      OBVIOUS
    <3> HIDE DEF h
    <3>2. \A pos \in n .. Len(fmt) : h[pos] = [used \in Nat |-> TextAt(h, args, pos, used)]
      BY <2>6, <2>7
    <3>3. h = [pos \in n .. Len(fmt) |-> [used \in Nat |-> TextAt(h, args, pos, used)]]
      BY <3>1, <3>2
    <3> QED
      BY <3>3 DEF TextsFrom
  <2> QED
    BY <2>3, <2>8
<1>3. \E f : TextsFrom(f, args, Len(fmt) - Len(fmt))
  <2>1. Len(fmt) \in 0 .. Len(fmt)
    BY <1>1
  <2> HIDE DEF TextsFrom
  <2> QED
    BY <1>2, <2>1
<1>4. Len(fmt) - Len(fmt) = 0
  BY <1>1
<1> QED
  BY <1>3, <1>4

\* The equation of CTextFrom.
LEMMA CTextIs ==
  ASSUME fmt \in Formats, NEW args, NEW pos \in 0 .. Len(fmt), NEW used \in Nat
  PROVE  CTextFrom(args)[pos][used] = TextAt(CTextFrom(args), args, pos, used)
<1> DEFINE g == CHOOSE f : f = [p \in 0 .. Len(fmt) |-> [u \in Nat |->
                  TextAt(f, args, p, u)]]
<1>1. g = [p \in 0 .. Len(fmt) |-> [u \in Nat |-> TextAt(g, args, p, u)]]
  BY TextsExist DEF TextsFrom
<1>2. CTextFrom(args) = g
  BY DEF CTextFrom, TextAt
<1> HIDE DEF g
<1>3. g[pos] = [u \in Nat |-> TextAt(g, args, pos, u)]
  BY <1>1, Zenon
<1>4. g[pos][used] = TextAt(g, args, pos, used)
  BY <1>3
<1> QED
  BY <1>2, <1>4

\* The text does not change while the format is walked.
LEMMA SameTexts ==
  ASSUME fmt' = fmt, addEOL' = addEOL, NEW args
  PROVE  CTextFrom(args)' = CTextFrom(args)
BY DEF CTextFrom, At

-----------------------------------------------------------------------------
(* What is written, and what printf has written by then *)

\* Where the part of the format starts that is not written yet, and how many
\* arguments are.
Start == IF Converting THEN fmtPosition - 1 ELSE fmtPosition
Used == IF Converting THEN Len(passed) - 1 ELSE Len(passed)

\* Lists of arguments that begin with those that were taken.
Extends(args) ==
  /\ args \in Seq(Arguments) /\ Len(passed) <= Len(args)
  /\ \A n \in 1 .. Len(passed) : args[n] = passed[n]

NoneNegative == \A n \in DOMAIN passed : AsInt(passed[n]) >= 0

\* printf prints text for the format up to pos.  Where the arguments do not
\* reach, the rest of the format has no text.
Ends(args, pos, used, text) ==
  CTextFrom(args)[pos][used] \in Text =>
    CTextFrom(args)[0][0] = text \o CTextFrom(args)[pos][used]

\* The buffer is no longer than what printf prints for the part of the format
\* that is done, and without a negative number it is the same, whatever
\* arguments follow.
Written ==
  /\ pc # "done" => \E text \in Text :
       /\ Len(buffer) <= Len(text)
       /\ NoneNegative => buffer = text
       /\ \A args : Extends(args) => Ends(args, Start, Used, text)
  /\ pc = "done" =>
       /\ CText \in Text /\ Len(buffer) <= Len(CText) + 1
       /\ NoneNegative => buffer = Append(CText, NUL)

WrittenInv == NumberInv /\ Written

\* A piece of the format more is a piece of the text more.
LEMMA Advance ==
  ASSUME NEW text \in Text, NEW piece \in Text, NEW args,
         NEW pos, NEW used, NEW p, NEW u, Ends(args, pos, used, text),
         CTextFrom(args)[p][u] \in Text =>
           CTextFrom(args)[pos][used] = piece \o CTextFrom(args)[p][u]
  PROVE  Ends(args, p, u, text \o piece)
<1> DEFINE old == CTextFrom(args)[pos][used]
           new == CTextFrom(args)[p][u]
           all == CTextFrom(args)[0][0]
<1>1. (old \in Text => all = text \o old) /\ (new \in Text => old = piece \o new)
  BY DEF Ends
<1> SUFFICES ASSUME new \in Text PROVE all = (text \o piece) \o new
  BY DEF Ends
<1> HIDE DEF old, new, all
<1>2. old \in Text
  BY <1>1, JoinedText
<1>3. (text \o piece) \o new = text \o (piece \o new)
  BY Associative DEF Text
<1> QED
  BY <1>1, <1>2, <1>3

\* A call starts with nothing written, where C starts.
LEMMA WrittenInit == Init => WrittenInv
<1> SUFFICES ASSUME Init PROVE WrittenInv
  OBVIOUS
<1>1. NumberInv
  BY NumberInit
<1>2. <<>> \in Text /\ Len(<<>>) <= Len(<<>>)
  <2>1. Len(<<>>) = 0 /\ 0 <= 0
    BY EmptySeq
  <2> QED BY <2>1, CharacterFacts
<1>3. Start = 0 /\ Used = 0 /\ buffer = <<>> /\ pc = "text"
  BY EmptySeq DEF Init, Start, Used, Converting
<1>4. \A args : Ends(args, 0, 0, <<>>)
  BY Joined DEF Ends, Text
<1> QED
  BY <1>1, <1>2, <1>3, <1>4 DEF WrittenInv, Written

\* The steps of itoa write nothing to the buffer.
LEMMA ItoaStepWritten ==
  ASSUME WrittenInv, OpenNumber \/ PutDigit \/ PutRemainder \/ FinishNumeral
  PROVE  Written'
<1>1. pc # "done" /\ pc' # "done"
  BY DEF OpenNumber, PutDigit, PutRemainder, AddDigit, FinishNumeral
<1>2. PICK text \in Text :
        /\ Len(buffer) <= Len(text)
        /\ NoneNegative => buffer = text
        /\ \A args : Extends(args) => Ends(args, Start, Used, text)
  BY <1>1 DEF WrittenInv, Written
<1>3. buffer' = buffer /\ fmt' = fmt /\ addEOL' = addEOL
  BY DEF OpenNumber, PutDigit, PutRemainder, AddDigit, FinishNumeral
<1>4. passed \in Seq(Arguments) /\ Len(passed) \in Nat /\ fmtPosition \in Int
  <2>1. fmt \in Formats /\ fmtPosition \in 0 .. Len(fmt) /\ passed \in Seq(Arguments)
    BY DEF WrittenInv, NumberInv, Types
  <2>2. Len(fmt) \in Nat
    BY <2>1, AtFacts
  <2> QED
    BY <2>1, <2>2
<1>5. Start' = Start /\ Used' = Used
      /\ (NoneNegative' => NoneNegative)
      /\ \A args : Extends(args)' => Extends(args)
  <2>1. CASE OpenNumber
    <3>1. PICK bits \in Arguments : passed' = Append(passed, bits)
      BY <2>1 DEF OpenNumber
    <3>2. /\ passed' \in Seq(Arguments) /\ Len(passed') = Len(passed) + 1
          /\ \A n \in 1 .. Len(passed) : passed'[n] = passed[n]
          /\ DOMAIN passed = 1 .. Len(passed) /\ DOMAIN passed' = 1 .. Len(passed) + 1
      BY <1>4, <3>1, AppendProperties, LenProperties
    <3>3. pc = "text" /\ pc' \in {"copy", "digits", "remainders"}
          /\ fmtPosition' = fmtPosition + 1
      BY <2>1 DEF OpenNumber
    <3>4. Start' = Start /\ Used' = Used
      BY <1>4, <3>2, <3>3 DEF Start, Used, Converting
    <3>5. \A n \in 1 .. Len(passed) : n \in 1 .. Len(passed')
      BY <1>4, <3>2
    <3>6. NoneNegative' => NoneNegative
      BY <1>4, <3>2, <3>5 DEF NoneNegative, AsInt, IntMin
    <3>7. ASSUME NEW args, Extends(args)' PROVE Extends(args)
      <4>1. /\ args \in Seq(Arguments) /\ Len(passed') <= Len(args)
            /\ \A n \in 1 .. Len(passed') : args[n] = passed'[n]
        BY <3>7 DEF Extends
      <4>2. Len(args) \in Nat
        BY <4>1
      <4> QED
        BY <1>4, <3>2, <3>5, <4>1, <4>2 DEF Extends
    <3> QED
      BY <3>4, <3>6, <3>7
  <2>2. CASE ~ OpenNumber
    <3>1. passed' = passed /\ fmtPosition' = fmtPosition /\ Converting /\ Converting'
      BY <2>2 DEF PutDigit, PutRemainder, AddDigit, FinishNumeral, Converting
    <3> QED
      BY <3>1 DEF Start, Used, NoneNegative, Extends, AsInt, IntMin
  <2> QED
    BY <2>1, <2>2
<1>6. ASSUME NEW args PROVE Ends(args, Start, Used, text)' = Ends(args, Start, Used, text)
  <2>1. CTextFrom(args)' = CTextFrom(args)
    BY <1>3, SameTexts
  <2> QED
    BY <1>5, <2>1 DEF Ends, Text
<1> QED
  BY <1>1, <1>2, <1>3, <1>5, <1>6 DEF Written

\* A step that writes a piece of the text, or less than that when a number was
\* negative.
LEMMA PieceWritten ==
  ASSUME WrittenInv, pc # "done", NumberInv', ~ Converting',
         UNCHANGED <<fmt, addEOL, passed>>,
         NEW piece \in Text, NEW put \in Text,
         buffer' = buffer \o put, Len(put) <= Len(piece),
         NoneNegative => put = piece,
         \A args : Extends(args) =>
           (CTextFrom(args)[fmtPosition'][Len(passed)] \in Text =>
              CTextFrom(args)[Start][Used]
                = piece \o CTextFrom(args)[fmtPosition'][Len(passed)]),
         pc' # "done"
  PROVE  WrittenInv'
<1>1. PICK text \in Text :
        /\ Len(buffer) <= Len(text)
        /\ NoneNegative => buffer = text
        /\ \A args : Extends(args) => Ends(args, Start, Used, text)
  BY DEF WrittenInv, Written
<1>2. buffer \in Text /\ Len(buffer) \in Nat
  BY DEF WrittenInv, NumberInv, Types, Text
<1>3. /\ text \o piece \in Text /\ Len(text \o piece) = Len(text) + Len(piece)
      /\ Len(buffer') = Len(buffer) + Len(put)
      /\ Len(text) \in Nat /\ Len(piece) \in Nat /\ Len(put) \in Nat
  <2>1. text \o piece \in Text /\ Len(text \o piece) = Len(text) + Len(piece)
    BY JoinedText
  <2>2. Len(buffer') = Len(buffer) + Len(put)
    BY <1>2, JoinedText
  <2> QED
    BY <2>1, <2>2 DEF Text
<1>4. Len(buffer') <= Len(text \o piece)
  BY <1>1, <1>2, <1>3
<1>5. /\ Start' = fmtPosition' /\ Used' = Len(passed)
      /\ NoneNegative' = NoneNegative
      /\ \A args : Extends(args)' = Extends(args)
  BY DEF Start, Used, NoneNegative, Extends, AsInt, IntMin
<1>6. ASSUME NEW args, Extends(args)
      PROVE  Ends(args, Start, Used, text \o piece)'
  <2> DEFINE p == fmtPosition'
             u == Len(passed)
  <2>1. Ends(args, Start, Used, text)
    BY <1>1, <1>6
  <2>2. CTextFrom(args)[p][u] \in Text =>
          CTextFrom(args)[Start][Used] = piece \o CTextFrom(args)[p][u]
    BY <1>6
  <2> HIDE DEF p, u
  <2>3. Ends(args, p, u, text \o piece)
    BY <2>1, <2>2, Advance
  <2>4. CTextFrom(args)' = CTextFrom(args)
    BY SameTexts
  <2> QED
    BY <1>5, <2>3, <2>4 DEF Ends, p, u, Text
<1> QED
  BY <1>1, <1>3, <1>4, <1>5, <1>6 DEF WrittenInv, Written

\* The characters of the format are printed as they are, "%%" as one, and a
\* '%' that starts no conversion not at all.
LEMMA LiteralWritten ==
  ASSUME WrittenInv, PutLiteral \/ PutPercent \/ DropPercent
  PROVE  WrittenInv'
<1>1. /\ NumberInv' /\ pc = "text" /\ pc' = "text" /\ ~ Converting /\ ~ Converting'
      /\ UNCHANGED <<fmt, addEOL, passed>>
      /\ Start = fmtPosition /\ Used = Len(passed)
  <2>1. NumberInv'
    BY TextStepNumbers DEF WrittenInv
  <2> QED
    BY <2>1 DEF PutLiteral, PutPercent, DropPercent, Converting, Start, Used
<1>2. /\ fmt \in Formats /\ fmtPosition \in 0 .. Len(fmt) /\ fmtPosition \in Nat
      /\ Len(passed) \in Nat /\ Types /\ buffer \in Text
  <2>1. fmt \in Formats /\ fmtPosition \in 0 .. Len(fmt) /\ passed \in Seq(Arguments)
    BY DEF WrittenInv, NumberInv, Types
  <2>2. Len(fmt) \in Nat
    BY <2>1, AtFacts
  <2> QED
    BY <2>1, <2>2 DEF WrittenInv, NumberInv, Types
<1>3. \A args : CTextFrom(args)[fmtPosition][Len(passed)]
                  = TextAt(CTextFrom(args), args, fmtPosition, Len(passed))
  BY <1>2, CTextIs
<1>4. CASE PutLiteral
  <2> DEFINE piece == <<At(fmtPosition)>>
  <2>1. piece \in Text
    BY <1>2, AtFacts, CharacterFacts
  <2>2. Put(piece) /\ fmtPosition' = fmtPosition + 1
    BY <1>4 DEF PutLiteral
  <2>3. \A args : CTextFrom(args)[fmtPosition][Len(passed)]
                    = piece \o CTextFrom(args)[fmtPosition + 1][Len(passed)]
    BY <1>3, <1>4 DEF PutLiteral, TextAt
  <2> HIDE DEF piece
  <2>4. buffer' = buffer \o piece /\ Len(piece) <= Len(piece)
    BY <1>2, <2>1, <2>2, PutFacts DEF Text
  <2> QED
    BY <1>1, <2>1, <2>2, <2>3, <2>4, PieceWritten
<1>5. CASE PutPercent
  <2> DEFINE piece == <<"%">>
  <2>1. piece \in Text
    BY CharacterFacts
  <2>2. Put(piece) /\ fmtPosition' = fmtPosition + 2
    BY <1>5 DEF PutPercent
  <2>3. \A args : CTextFrom(args)[fmtPosition][Len(passed)]
                    = piece \o CTextFrom(args)[fmtPosition + 2][Len(passed)]
    BY <1>3, <1>5 DEF PutPercent, TextAt, NUL
  <2> HIDE DEF piece
  <2>4. buffer' = buffer \o piece /\ Len(piece) <= Len(piece)
    BY <1>2, <2>1, <2>2, PutFacts DEF Text
  <2> QED
    BY <1>1, <2>1, <2>2, <2>3, <2>4, PieceWritten
<1>6. CASE DropPercent
  <2> DEFINE piece == <<>>
  <2>1. piece \in Text
    BY CharacterFacts
  <2>2. buffer' = buffer /\ fmtPosition' = fmtPosition + 1
    BY <1>6 DEF DropPercent
  <2>3. \A args : CTextFrom(args)[fmtPosition][Len(passed)]
                    = CTextFrom(args)[fmtPosition + 1][Len(passed)]
    BY <1>3, <1>6 DEF DropPercent, TextAt, NUL
  <2>4. \A text \in Text : piece \o text = text /\ text \o piece = text
    BY Joined DEF Text
  <2> HIDE DEF piece
  <2>5. buffer' = buffer \o piece /\ Len(piece) <= Len(piece)
    BY <1>2, <2>1, <2>2, <2>4 DEF Text
  <2>6. \A args : CTextFrom(args)[fmtPosition'][Len(passed)] \in Text =>
          CTextFrom(args)[Start][Used]
            = piece \o CTextFrom(args)[fmtPosition'][Len(passed)]
    BY <1>1, <2>2, <2>3, <2>4
  <2> QED
    BY <1>1, <2>1, <2>5, <2>6, PieceWritten
<1> QED
  BY <1>4, <1>5, <1>6

\* A numeral is copied: printf's, or a shorter one for a negative number.
LEMMA NumeralWritten ==
  ASSUME WrittenInv, CopyNumeral
  PROVE  WrittenInv'
<1>1. /\ NumberInv' /\ pc = "copy" /\ pc' = "text" /\ Converting /\ ~ Converting'
      /\ UNCHANGED <<fmt, addEOL, passed>>
      /\ Start = fmtPosition - 1 /\ Used = Len(passed) - 1
      /\ fmtPosition' = fmtPosition + 1 /\ Put(intBuffer)
  <2>1. NumberInv'
    BY TextStepNumbers DEF WrittenInv
  <2> QED
    BY <2>1 DEF CopyNumeral, Converting, Start, Used
<1>2. /\ fmt \in Formats /\ fmtPosition \in 0 .. Len(fmt) /\ fmtPosition \in Nat
      /\ Len(fmt) \in Nat /\ Types /\ Numbers /\ NumberInv
      /\ passed \in Seq(Arguments) /\ Len(passed) \in Nat /\ Len(passed) > 0
      /\ fmtPosition > 0 /\ At(fmtPosition - 1) = "%" /\ base \in {10, 16}
      /\ At(fmtPosition) = IF base = 10 THEN "d" ELSE "x"
      /\ intBuffer \in Text
  <2>1. fmt \in Formats /\ fmtPosition \in 0 .. Len(fmt) /\ passed \in Seq(Arguments)
    BY DEF WrittenInv, NumberInv, Types
  <2>2. Len(fmt) \in Nat
    BY <2>1, AtFacts
  <2> QED
    BY <1>1, <2>1, <2>2 DEF WrittenInv, NumberInv, Types
<1> DEFINE last == passed[Len(passed)]
           c == InC(At(fmtPosition))
           piece == CNumeral(c, last)
<1>3. last \in Arguments
  <2>1. Len(passed) \in 1 .. Len(passed)
    BY <1>2
  <2> QED BY <1>2, <2>1, ElementOfSeq
<1>4. /\ piece \in Text
      /\ Len(Numeral(Magnitude(Number), base)) <= Len(piece)
      /\ Number >= 0 => piece = Numeral(Number, base)
  <2>1. c = IF base = 10 THEN "d" ELSE "X"
    BY <1>2 DEF InC
  <2> HIDE DEF c
  <2> QED
    BY <1>2, <1>3, <2>1, CNumeralFacts DEF Number
<1>5. /\ Len(intBuffer) <= Len(Numeral(Magnitude(Number), base))
      /\ Number >= 0 => intBuffer = Numeral(Number, base)
  BY <1>1, <1>2 DEF Numbers
<1>6. buffer' = buffer \o intBuffer
  BY <1>1, <1>2, PutFacts
<1>7. Len(intBuffer) <= Len(piece)
  <2>1. Len(Numeral(Magnitude(Number), base)) \in Nat
    BY <1>1, <1>2, NumberFacts
  <2>2. Len(intBuffer) \in Nat /\ Len(piece) \in Nat
    <3> HIDE DEF piece
    <3> QED BY <1>2, <1>4 DEF Text
  <2> HIDE DEF piece
  <2> QED BY <1>4, <1>5, <2>1, <2>2
<1>8. NoneNegative => intBuffer = piece
  <2>1. Len(passed) \in DOMAIN passed
    BY <1>2
  <2>2. NoneNegative => Number >= 0
    BY <2>1 DEF NoneNegative, Number
  <2> HIDE DEF piece
  <2> QED BY <1>4, <1>5, <2>2
<1>9. ASSUME NEW args, Extends(args)
      PROVE  CTextFrom(args)[Start][Used]
               = piece \o CTextFrom(args)[fmtPosition'][Len(passed)]
  <2>1. Start \in 0 .. Len(fmt) /\ Used \in Nat
        /\ Start + 1 = fmtPosition /\ Start + 2 = fmtPosition + 1
        /\ Used + 1 = Len(passed)
    BY <1>1, <1>2
  <2>2. CTextFrom(args)[Start][Used] = TextAt(CTextFrom(args), args, Start, Used)
    BY <1>2, <2>1, CTextIs
  <2>3. args[Len(passed)] = last
    <3>1. Len(passed) \in 1 .. Len(passed)
      BY <1>2
    <3> QED BY <1>9, <3>1 DEF Extends
  <2>4. At(Start) = "%" /\ "%" # NUL /\ InC(At(Start + 1)) = c
        /\ At(Start + 1) # "%" /\ At(Start + 1) \in {"d", "x"}
    BY <1>1, <1>2, <2>1 DEF NUL
  <2>5. TextAt(CTextFrom(args), args, Start, Used)
          = CNumeral(InC(At(Start + 1)), args[Used + 1])
              \o CTextFrom(args)[Start + 2][Used + 1]
    BY <2>4 DEF TextAt
  <2> QED
    BY <1>1, <2>1, <2>2, <2>3, <2>4, <2>5
<1>10. pc # "done" /\ pc' # "done"
  BY <1>1
<1> HIDE DEF piece
<1> QED
  BY <1>1, <1>2, <1>4, <1>6, <1>7, <1>8, <1>9, <1>10, PieceWritten

\* At the format's end the text is printf's, and the terminator comes last.
LEMMA FinishWritten ==
  ASSUME WrittenInv, Finish
  PROVE  WrittenInv'
<1> DEFINE eol == IF addEOL THEN <<"\n", "\r">> ELSE <<>>
           nul == <<NUL>>
           put == IF addEOL THEN <<"\n", "\r", NUL>> ELSE <<NUL>>
<1>1. /\ NumberInv' /\ pc = "text" /\ pc' = "done" /\ ~ Converting
      /\ UNCHANGED <<fmt, addEOL, passed, fmtPosition>>
      /\ Start = fmtPosition /\ Used = Len(passed)
      /\ At(fmtPosition) = NUL /\ Put(put)
  <2>1. NumberInv'
    BY TextStepNumbers DEF WrittenInv
  <2> QED
    BY <2>1 DEF Finish, Converting, Start, Used
<1>2. /\ fmt \in Formats /\ fmtPosition \in 0 .. Len(fmt) /\ Types
      /\ passed \in Seq(Arguments) /\ Len(passed) \in Nat
      /\ buffer \in Text /\ Len(buffer) \in Nat
  <2>1. passed \in Seq(Arguments) /\ buffer \in Text
    BY DEF WrittenInv, NumberInv, Types
  <2> QED
    BY <2>1 DEF WrittenInv, NumberInv, Types, Text
<1>3. /\ eol \in Text /\ nul \in Text /\ Len(nul) = 1 /\ NUL \in Characters
      /\ put = eol \o nul
  <2>1. "\n" \in Characters /\ "\r" \in Characters /\ NUL \in Characters
    BY CharacterFacts
  <2>2. CASE addEOL
    BY <2>1, <2>2 DEF Text
  <2>3. CASE ~ addEOL
    <3>1. nul \in Text /\ Len(nul) = 1 /\ <<>> \in Text
      BY <2>1, CharacterFacts
    <3>2. <<>> \o nul = nul
      <4> HIDE DEF nul
      <4> QED BY <3>1, Joined DEF Text
    <3>3. eol = <<>> /\ put = nul
      BY <2>3
    <3> QED
      BY <2>1, <3>1, <3>2, <3>3
  <2> QED
    BY <2>2, <2>3
<1>4. CTextFrom(passed)[Start][Used] = eol
  <2>1. CTextFrom(passed)[Start][Used] = TextAt(CTextFrom(passed), passed, Start, Used)
    BY <1>1, <1>2, CTextIs
  <2> QED
    BY <1>1, <2>1 DEF TextAt
<1> HIDE DEF eol, nul, put
<1>5. PICK text \in Text :
        /\ Len(buffer) <= Len(text)
        /\ NoneNegative => buffer = text
        /\ \A args : Extends(args) => Ends(args, Start, Used, text)
  BY <1>1 DEF WrittenInv, Written
<1>6. CText = text \o eol
  <2>1. Extends(passed)
    BY <1>2 DEF Extends
  <2>2. Ends(passed, Start, Used, text)
    BY <1>5, <2>1
  <2> QED
    BY <1>3, <1>4, <2>2 DEF Ends, CText
<1>7. CText \in Text /\ Len(CText) = Len(text) + Len(eol)
      /\ Len(text) \in Nat /\ Len(eol) \in Nat
  BY <1>3, <1>6, JoinedText DEF Text
<1>8. put \in Text /\ Len(put) = Len(eol) + 1
  BY <1>3, JoinedText
<1>9. buffer' = buffer \o put /\ Len(buffer') = Len(buffer) + Len(put)
  BY <1>1, <1>2, <1>8, PutFacts
<1>10. Len(buffer') <= Len(CText) + 1
  BY <1>2, <1>5, <1>7, <1>8, <1>9
<1>11. Append(CText, NUL) = text \o put
  <2>1. Append(CText, NUL) = (text \o eol) \o nul
    BY <1>3, <1>6, <1>7, AppendIsConcat DEF Text, nul
  <2>2. (text \o eol) \o nul = text \o (eol \o nul)
    BY <1>3, Associative DEF Text
  <2> QED
    BY <1>3, <2>1, <2>2
<1>12. CText' = CText /\ (NoneNegative' => NoneNegative)
  <2>1. CTextFrom(passed)' = CTextFrom(passed)
    <3>1. PICK args : args = passed
      OBVIOUS
    <3>2. CTextFrom(args)' = CTextFrom(args)
      BY <1>1, SameTexts
    <3>3. passed' = args
      BY <1>1, <3>1
    <3> QED
      BY <3>1, <3>2, <3>3
  <2> QED
    BY <1>1, <2>1 DEF CText, NoneNegative, AsInt, IntMin
<1> QED
  BY <1>1, <1>5, <1>7, <1>9, <1>10, <1>11, <1>12 DEF WrittenInv, Written, Text

\* Every step keeps the buffer beside printf's text.
LEMMA WrittenStep == WrittenInv /\ [Next]_vars => WrittenInv'
<1> SUFFICES ASSUME WrittenInv, [Next]_vars PROVE WrittenInv'
  OBVIOUS
<1>1. CASE PutLiteral \/ PutPercent \/ DropPercent
  BY <1>1, LiteralWritten
<1>2. CASE OpenNumber \/ PutDigit \/ PutRemainder \/ FinishNumeral
  BY <1>2, ItoaStepWritten, NumberStep DEF WrittenInv
<1>3. CASE CopyNumeral
  BY <1>3, NumeralWritten
<1>4. CASE Finish
  BY <1>4, FinishWritten
<1>5. CASE UNCHANGED vars
  <2>1. NumberInv'
    BY <1>5, NumberStep DEF WrittenInv
  <2>2. /\ Start' = Start /\ Used' = Used /\ NoneNegative' = NoneNegative
        /\ \A args : Extends(args)' = Extends(args)
        /\ UNCHANGED <<fmt, addEOL, passed, buffer, pc>>
    BY <1>5 DEF vars, Start, Used, Converting, NoneNegative, Extends, AsInt, IntMin
  <2>3. ASSUME NEW args PROVE CTextFrom(args)' = CTextFrom(args)
    BY <2>2, SameTexts
  <2>4. CText' = CText
    <3>1. PICK args : args = passed
      OBVIOUS
    <3>2. CTextFrom(passed)' = CTextFrom(passed)
      BY <2>2, <2>3, <3>1
    <3> QED
      BY <3>2 DEF CText
  <2>5. ASSUME NEW text \in Text, NEW args
        PROVE  Ends(args, Start, Used, text)' = Ends(args, Start, Used, text)
    BY <2>2, <2>3 DEF Ends, Text
  <2>6. CASE pc # "done"
    <3>1. PICK text \in Text :
            /\ Len(buffer) <= Len(text)
            /\ NoneNegative => buffer = text
            /\ \A args : Extends(args) => Ends(args, Start, Used, text)
      BY <2>6 DEF WrittenInv, Written
    <3> QED
      BY <2>1, <2>2, <2>5, <2>6, <3>1 DEF WrittenInv, Written
  <2>7. CASE pc = "done"
    BY <2>1, <2>2, <2>4, <2>7 DEF WrittenInv, Written, Text
  <2> QED
    BY <2>6, <2>7
<1> QED
  BY <1>1, <1>2, <1>3, <1>4, <1>5 DEF Next

\* With no negative number among its arguments print prints what printf prints
\* for d and X where the format has d and x, for every format.
THEOREM PrintsLikeC == Spec => []MatchesC
<1>1. WrittenInv => MatchesC
  BY DEF WrittenInv, Written, MatchesC, NoneNegative
<1> QED
  BY <1>1, WrittenInit, WrittenStep, PTL DEF Spec

\* Nothing is written beyond MAX_CHARS for which printf's text would not be too
\* long as well: no number, no pointer and no unknown conversion adds to it.
THEOREM OverrunsAreCs == Spec => []OverrunsOnlyIfCWould
<1>1. ASSUME WrittenInv PROVE OverrunsOnlyIfCWould
  <2> SUFFICES ASSUME pc = "done"
               PROVE  reached <= MaxChars \/ Len(CText) + 1 > MaxChars
    BY DEF OverrunsOnlyIfCWould
  <2>1. /\ reached = Len(buffer) /\ buffer \in Text /\ CText \in Text
        /\ Len(buffer) <= Len(CText) + 1
    BY <1>1 DEF WrittenInv, Written, NumberInv, Types
  <2>2. Len(buffer) \in Nat /\ Len(CText) \in Nat /\ MaxChars \in Nat
    <3>1. Len(buffer) \in Nat /\ Len(CText) \in Nat
      BY <2>1 DEF Text
    <3>2. MaxChars \in Nat
      BY LoaderPrintAssumption
    <3> QED BY <3>1, <3>2
  <2> QED
    BY <2>1, <2>2
<1> QED
  BY <1>1, WrittenInit, WrittenStep, PTL DEF Spec

=============================================================================
