----------------------------- MODULE ChineseNumbers -----------------------------
(***************************************************************************)
(* Numbers in a Chinese text, written out: temperatures first, percentages *)
(* next, and whatever digits are left last.  A character is a symbol;      *)
(* "wN" is the word for N, and the words around a value, several           *)
(* characters each, are one symbol.  Both minus signs are "-", both        *)
(* percent signs "%".                                                      *)
(***************************************************************************)
EXTENDS TextPieces

Digits    == <<"0", "1", "2", "3", "4", "5", "6", "7", "8", "9">>
Words     == <<"w0", "w1", "w2", "w3", "w4", "w5", "w6", "w7", "w8", "w9">>
Ten       == "w10"
IsDigit(c) == \E k \in DOMAIN Digits : Digits[k] = c
ValueOf(c) == (CHOOSE k \in DOMAIN Digits : Digits[k] = c) - 1
WordOf(n)  == Words[n + 1]

Value(digits) == FoldLeft(LAMBDA n, c : 10 * n + ValueOf(c), 0, digits)

(* Slip: the digit of the tens is never said. *)
FormatSmallNumberTeens(n) ==
  IF n < 10 THEN <<WordOf(n)>>
  ELSE <<Ten>> \o (IF n % 10 > 0 THEN <<WordOf(n % 10)>> ELSE <<>>)

FormatSmallNumber(n) ==
  IF n < 10 THEN <<WordOf(n)>>
  ELSE (IF n \div 10 > 1 THEN <<WordOf(n \div 10)>> ELSE <<>>)
       \o <<Ten>> \o (IF n % 10 > 0 THEN <<WordOf(n % 10)>> ELSE <<>>)

FormatFractionDigits(digits) == [k \in DOMAIN digits |-> WordOf(ValueOf(digits[k]))]

(* A number too long to parse is over a hundred in any case. *)
FormatInteger(digits) ==
  IF Value(digits) < 100 THEN FormatSmallNumber(Value(digits)) ELSE FormatFractionDigits(digits)

Sign(s, i, word) == IF s[i] = "-" THEN <<word>> ELSE <<>>
ValueAt(s, i)    == IF s[i] = "-" THEN i + 1 ELSE i

NormalizeTemperatures(s) ==
  LET Taken(i) ==
        LET start == ValueAt(s, i)
            stop  == PastAll(s, start, IsDigit)
            k     == PastAll(s, stop, LAMBDA c : c = " ")
            width == CASE k <= Len(s) /\ s[k] = "degC" -> 1
                       [] k < Len(s) /\ s[k] = "deg" /\ s[k + 1] = "C" -> 2
                       [] OTHER -> 0
        IN IF stop > start /\ width > 0
             THEN [words |-> Sign(s, i, "below zero") \o FormatInteger(SubSeq(s, start, stop - 1))
                             \o <<"degrees">>,
                   next  |-> k + width]
             ELSE Kept(s, i)
  IN Rewritten(s, Taken)

NormalizePercentages(s) ==
  LET Taken(i) ==
        LET start    == ValueAt(s, i)
            whole    == PastAll(s, start, IsDigit)
            point    == whole > start /\ whole <= Len(s) /\ s[whole] = "."
            end      == IF point THEN PastAll(s, whole + 1, IsDigit) ELSE whole
            fraction == end > whole + 1
            stop     == IF fraction THEN end ELSE whole
        IN IF whole > start /\ stop <= Len(s) /\ s[stop] = "%"
             THEN [words |-> Sign(s, i, "minus") \o <<"percent of">>
                             \o FormatInteger(SubSeq(s, start, whole - 1))
                             \o (IF fraction
                                   THEN <<"point">> \o FormatFractionDigits(SubSeq(s, whole + 1, end - 1))
                                   ELSE <<>>),
                   next  |-> stop + 1]
             ELSE Kept(s, i)
  IN Rewritten(s, Taken)

NormalizePlainDigits(s) ==
  LET Taken(i) ==
        LET stop == PastAll(s, i, IsDigit)
        IN IF stop > i THEN [words |-> FormatInteger(SubSeq(s, i, stop - 1)), next |-> stop]
                       ELSE Kept(s, i)
  IN Rewritten(s, Taken)

NormalizeNumbers(s) == NormalizePlainDigits(NormalizePercentages(NormalizeTemperatures(s)))

-----------------------------------------------------------------------------
(* A listener: the numbers heard in the words, each as its value, with the *)
(* number of digits of those said after "point".                           *)
Numeral(c) == c = Ten \/ \E k \in DOMAIN Words : Words[k] = c

Heard(run) ==
  LET Digit(c) == (CHOOSE k \in DOMAIN Words : Words[k] = c) - 1
      ten      == SelectInSeq(run, LAMBDA c : c = Ten)
  IN IF ten = 0 THEN FoldLeft(LAMBDA n, c : 10 * n + Digit(c), 0, run)
     ELSE 10 * (IF ten = 1 THEN 1 ELSE Digit(run[1]))
          + (IF ten = Len(run) THEN 0 ELSE Digit(run[ten + 1]))

(* Where a maximal run of Test begins, with its values. *)
Runs(s, Test(_)) ==
  At([i \in DOMAIN s |-> [at |-> i, run |-> SubSeq(s, i, PastAll(s, i, Test) - 1)]],
     LAMBDA i : Test(s[i]) /\ (i = 1 \/ ~Test(s[i - 1])))

NumbersHeard(words) ==
  LET runs == Runs(words, Numeral)
      After(i, c) == i > 1 /\ words[i - 1] = c
  IN [k \in DOMAIN runs |->
       [value    |-> Heard(runs[k].run),
        fraction |-> IF After(runs[k].at, "point") THEN Len(runs[k].run) ELSE 0]]

(* The digits after the point of a percentage. *)
IsFractionOfPercent(s, i) ==
  /\ i > 2 /\ s[i - 1] = "." /\ IsDigit(s[i - 2])
  /\ PastAll(s, i, IsDigit) <= Len(s) /\ s[PastAll(s, i, IsDigit)] = "%"

NumbersWritten(s) ==
  LET runs == Runs(s, IsDigit)
  IN [k \in DOMAIN runs |->
       [value    |-> Value(runs[k].run),
        fraction |-> IF IsFractionOfPercent(s, runs[k].at) THEN Len(runs[k].run) ELSE 0]]

(* A percentage is said before what follows it, so a number that follows   *)
(* its sign at once is heard as more digits of it.                         *)
NumbersTouch(s) ==
  \E i \in 2..(Len(s) - 1) : s[i] = "%" /\ IsDigit(s[i - 1]) /\ IsDigit(s[i + 1])

(* Numerals that a text has of its own are heard as digits, too, and those *)
(* beside them as one number with them.                                    *)
HasNumerals(s) == \E i \in DOMAIN s : Numeral(s[i]) \/ s[i] = "point"
=============================================================================
