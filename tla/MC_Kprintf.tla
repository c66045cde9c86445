----------------------------- MODULE MC_Kprintf -----------------------------
(***************************************************************************)
(* Formats of up to two conversions with every modifier, and all short     *)
(* sequences of a few characters, most of which no caller would write.     *)
(***************************************************************************)
EXTENDS CFormat, SequencesExt

\* Numerals in bases 8, 10 and 16 for values up to 16^2 - 1.
MCItoa(val, base) ==
  LET digit == <<"0", "1", "2", "3", "4", "5", "6", "7", "8", "9",
                 "a", "b", "c", "d", "e", "f">>
      magnitude == Magnitude(val)
      numeral[n \in 0 .. magnitude] ==
        IF n < base THEN <<digit[n + 1]>>
        ELSE numeral[n \div base] \o <<digit[(n % base) + 1]>>
  IN  (IF val < 0 THEN <<"-">> ELSE <<>>) \o numeral[magnitude]

MCInts == {-3, 0, 12}
MCUints == {0, 9, 11}
MCTexts == {<<"a", "b">>}
MCLetters == {"b"}

Pieces(flags, widths, precisions, conversions) ==
  {<<"%">> \o f \o w \o p \o c :
     f \in flags, w \in widths, p \in precisions, c \in conversions}

Rich == Pieces({<<>>, <<"-">>, <<"#">>, <<"0">>, <<"+">>, <<Blank>>,
                <<"-", "#">>},
               {<<>>, <<"1">>, <<"4">>},
               {<<>>, <<".">>, <<".", "3">>},
               {<<"d">>, <<"o">>, <<"x">>, <<"X">>, <<"s">>, <<"c">>, <<"%">>})

Second == Pieces({<<>>, <<"-">>}, {<<>>, <<"3">>}, {<<>>}, {<<"u">>, <<"p">>})
            \cup {<<"a">>, <<"%">>, <<"%", "1", "0">>, <<"%", ".", "-", "2", "i">>}

MCFormats ==
  {r \o s : r \in Rich, s \in Second}
    \cup SeqOf({"%", "-", "2", ".", "d", "a"}, 4)

\* kmain's format for an address, and one with two conversions.
MCKmainFormats ==
  {<<"a", "%", "#", ".", "8", "x", "a">>,
   <<"%", "4", "d", "a", "%", "u">>}

=============================================================================
