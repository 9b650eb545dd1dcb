------------------------------- MODULE Formats -------------------------------
(***************************************************************************)
(* Phone numbers and amounts on their way through the browser: the masks   *)
(* of the forms (Alpine.js, in the templates), what the server makes of    *)
(* what they send, and how it shows it.  Texts are sequences of            *)
(* characters.                                                             *)
(***************************************************************************)
EXTENDS Integers, SequencesExt

DigitChars == <<"0", "1", "2", "3", "4", "5", "6", "7", "8", "9">>

\* The digit d, and the digit a character stands for.
Char(d) == DigitChars[d + 1]
DigitOf(c) == CHOOSE d \in 0..9 : Char(d) = c

Digits == {Char(d) : d \in 0..9}

Comma == ","

\* What the fields of the forms see.
Characters == Digits \cup {"+", "-", Comma}

\* Every character of text that is not in kept is replaced by nothing.
Only(text, kept) ==
  LET only[n \in 0..Len(text)] ==
        IF n = 0 THEN <<>>
        ELSE IF text[n] \in kept THEN Append(only[n - 1], text[n]) ELSE only[n - 1]
  IN  only[Len(text)]

\* \D is replaced by nothing.
DigitsOnly(text) == Only(text, Digits)

\* s.slice(from, to), to the end at most.
Slice(s, from, to) == SubSeq(s, from + 1, IF to < Len(s) THEN to ELSE Len(s))

-----------------------------------------------------------------------------
(* Phone numbers.                                                          *)

\* formatPhone of the form for new members, run after every key: eleven
\* digits, with dashes after the third and the seventh.
MaskPhone(text) ==
  LET s == Slice(DigitsOnly(text), 0, 11)
  IN  IF Len(s) >= 8
      THEN Slice(s, 0, 3) \o <<"-">> \o Slice(s, 3, 7) \o <<"-">> \o Slice(s, 7, 11)
      ELSE IF Len(s) >= 4 THEN Slice(s, 0, 3) \o <<"-">> \o Slice(s, 3, 7)
      ELSE s

\* NormalizePhone: the country code 82 stands for the leading 0.
NormalizePhone(text) ==
  LET digits == DigitsOnly(text)
  IN  IF IsPrefix(<<"8", "2">>, digits) /\ Len(digits) >= 11
      THEN <<"0">> \o Slice(digits, 2, Len(digits)) ELSE digits

\* Mutant of FormatPhone: the groups of eleven digits used for ten as well.
FormatPhoneOfMobile(raw) ==
  LET d == NormalizePhone(raw)
  IN  IF Len(d) \in {10, 11}
      THEN Slice(d, 0, 3) \o <<"-">> \o Slice(d, 3, 7) \o <<"-">> \o Slice(d, Len(d) - 4, 11)
      ELSE raw

\* FormatPhone: other lengths are shown as they are.
FormatPhone(raw) ==
  LET d == NormalizePhone(raw)
  IN  CASE Len(d) = 11 -> Slice(d, 0, 3) \o <<"-">> \o Slice(d, 3, 7) \o <<"-">> \o Slice(d, 7, 11)
        [] Len(d) = 10 -> Slice(d, 0, 3) \o <<"-">> \o Slice(d, 3, 6) \o <<"-">> \o Slice(d, 6, 10)
        [] OTHER -> raw

-----------------------------------------------------------------------------
(* Amounts.                                                                *)

\* The number a text of digits stands for.
ValueOf(digits) ==
  LET value[n \in 0..Len(digits)] ==
        IF n = 0 THEN 0 ELSE 10 * value[n - 1] + DigitOf(digits[n])
  IN  value[Len(digits)]

\* v without its last k digits.
Shifted(v, k) ==
  LET shifted[n \in 0..k] == IF n = 0 THEN v ELSE shifted[n - 1] \div 10
  IN  shifted[k]

\* The digit of v that k others follow.
DigitAt(v, k) == Char(Shifted(v, k) % 10)

\* How many digits %d writes; an int64 has nineteen at most.
DigitCount(v) == CHOOSE k \in 1..19 : Shifted(v, k) = 0 /\ (k = 1 \/ Shifted(v, k - 1) > 0)

\* %d of a number that is not negative.
Decimal(v) == [i \in 1..DigitCount(v) |-> DigitAt(v, DigitCount(v) - i)]

\* Mutant of CommaAfter: counted from the left.
CommaAfterThird(i, n) == i < n /\ i % 3 = 0

\* rem > 0 && rem%3 == 0
CommaAfter(i, n) == n - i > 0 /\ (n - i) % 3 = 0

\* FormatKRW without its sign, for amounts and balances, which are not
\* negative; fmtKRW of the messages is the same loop.
FormatKRW(v) ==
  LET s == Decimal(v)
      out[i \in 0..Len(s)] ==
        IF i = 0 THEN <<>>
        ELSE out[i - 1] \o (IF CommaAfter(i, Len(s)) THEN <<s[i], Comma>> ELSE <<s[i]>>)
  IN  out[Len(s)]

\* toLocaleString: from the right, every fourth character is a comma.
LocaleString(v) ==
  LET n == DigitCount(v)
      length == n + (n - 1) \div 3
      char(k) == IF k % 4 = 3 THEN Comma ELSE DigitAt(v, k - k \div 4)
  IN  [i \in 1..length |-> char(length - i)]

\* The input handler of the amount fields: digits only, grouped, and nothing
\* for 0.
MaskAmount(text) ==
  LET v == ValueOf(DigitsOnly(text)) IN IF v > 0 THEN LocaleString(v) ELSE <<>>

\* The handlers: commas are stripped, then ParseInt; 0 stands for a refusal.
ParseAmount(text) ==
  LET s == Only(text, Characters \ {Comma})
  IN  IF s # <<>> /\ \A i \in DOMAIN s : s[i] \in Digits THEN ValueOf(s) ELSE 0
=============================================================================
