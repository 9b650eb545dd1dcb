------------------------------- MODULE Screens -------------------------------
(***************************************************************************)
(* An operator at the screens of the administration: typing a phone        *)
(* number, typing an amount, or looking at the reports as time goes by.    *)
(* Formats and Periods say what the code makes of it.                      *)
(***************************************************************************)
EXTENDS Formats, Periods

CONSTANTS PhoneNumbers,   \* national numbers, as sequences of digits
          AmountKeys,     \* digits typed into an amount field
          MaxKeys,        \* bound: keys typed into an amount field
          MaxDashes,      \* bound: dashes typed into a phone field
          Moments,        \* minutes of a day at which a page is looked at
          FirstDay,       \* the first day of the walk through the calendar
          LastDay,        \* bound: the last one
          Offsets         \* offsets of the server's zone, in minutes

\* A national number has eleven digits at most, and a number of JavaScript is
\* exact up to fifteen.  The calendar goes past the last day by one, which may be
\* today in the zone of the server.
ASSUME ScreensAssumption ==
  /\ PhoneNumbers \subseteq {n \in Seq(Digits) : Len(n) \in 1..11 /\ n[1] = "0"}
  /\ AmountKeys \subseteq Digits
  /\ MaxKeys \in 0..15
  /\ Moments \subseteq 0..1439
  /\ FirstDay \in Nat /\ LastDay \in Nat /\ FirstDay <= LastDay
  /\ \E y \in Years : LastDay + 1 < YearStart(y + 1)
  /\ Offsets \subseteq 0..840

VARIABLE screen  \* what the operator has in front of them

\* Two fields being typed into: what was meant, the keys so far or still to
\* come, and what the field shows; and a page looked at.
EmptyPhone == [kind |-> "phone", number |-> <<>>, code |-> FALSE, rest |-> <<>>,
               dashes |-> 0, field |-> <<>>]
EmptyAmount == [kind |-> "amount", keys |-> <<>>, field |-> <<>>]
Report(t) == [kind |-> "report", now |-> t]

Opened == {EmptyPhone, EmptyAmount} \cup {Report(1440 * FirstDay + m) : m \in Moments}

ScreensInit == screen \in Opened

\* The operator is going to type a number as it is, or with the country code.
PickNumber(number, code) ==
  /\ screen = EmptyPhone
  /\ screen' = [screen EXCEPT
       !.number = number, !.code = code,
       !.rest = IF code THEN <<"+", "8", "2">> \o Tail(number) ELSE number]

\* A dash in between, or the next character; then the mask runs on the field.
TypePhone(dash) ==
  /\ screen.kind = "phone"
  /\ screen.rest # <<>>
  /\ dash => screen.dashes < MaxDashes
  /\ screen' = [screen EXCEPT
       !.field = MaskPhone(Append(@, IF dash THEN "-" ELSE Head(screen.rest))),
       !.rest = IF dash THEN @ ELSE Tail(@),
       !.dashes = IF dash THEN @ + 1 ELSE @]

TypeAmount(key) ==
  /\ screen.kind = "amount"
  /\ Len(screen.keys) < MaxKeys
  /\ screen' = [screen EXCEPT !.keys = Append(@, key),
                              !.field = MaskAmount(Append(@, key))]

\* The page is looked at again, later this day or on the next.
LookAgain(days, moment) ==
  /\ screen.kind = "report"
  /\ LET t == 1440 * (DayOf(screen.now) + days) + moment
     IN  t > screen.now /\ DayOf(t) <= LastDay /\ screen' = Report(t)

\* The form is sent or left, the page left: anything may be next.
Leave ==
  /\ screen \notin Opened
  /\ screen' \in Opened

ScreensNext ==
  \/ \E number \in PhoneNumbers, code \in BOOLEAN : PickNumber(number, code)
  \/ \E dash \in BOOLEAN : TypePhone(dash)
  \/ \E key \in AmountKeys : TypeAmount(key)
  \/ \E days \in {0, 1}, moment \in Moments : LookAgain(days, moment)
  \/ Leave

ScreensSpec == ScreensInit /\ [][ScreensNext]_screen

-----------------------------------------------------------------------------
(* Properties.                                                             *)

\* All keys of a number are typed.
Typed == screen.kind = "phone" /\ screen.number # <<>> /\ screen.rest = <<>>

\* The digits of a phone number are its key (UNIQUE(phone), messages, search):
\* a number typed without country code, with dashes anywhere, comes through
\* mask and NormalizePhone as its own digits, the page shows a form of it that
\* leads back to it, and so does the form shown again after an error.
PhoneIsKey ==
  Typed /\ ~screen.code =>
    LET stored == NormalizePhone(screen.field)
    IN  /\ stored = screen.number
        /\ NormalizePhone(FormatPhone(stored)) = stored
        /\ MaskPhone(screen.field) = screen.field

\* format.go:51 says that a mobile number with the country code becomes the
\* national one.
CountryCodeUnderstood ==
  Typed /\ screen.code /\ Len(screen.number) = 11 =>
    NormalizePhone(screen.field) = screen.number

\* The amount that is posted is the one that was typed, although the field is
\* grouped anew after every key; and the page groups it the way the form did.
AmountAsTyped ==
  screen.kind = "amount" =>
    LET typed == ValueOf(screen.keys)
    IN  /\ ParseAmount(screen.field) = typed
        /\ typed > 0 => screen.field = FormatKRW(typed)

\* Moments at which a row may have been written: the last five weeks, and a
\* year ago.
Written ==
  LET today == DayOf(screen.now)
      days == (today - 35)..today \cup {today - 366, today - 365}
  IN  {t \in {1440 * d + m : d \in days, m \in Moments} : 0 <= t /\ t <= screen.now}

\* Of what was written so far, each period holds what the calendar says: the
\* same day, the week from Monday to Sunday, the same month of the same year,
\* everything (transaction.go:29-52), at the ends of month and year too.
PeriodsMatchCalendar ==
  screen.kind = "report" =>
    LET now == screen.now
        week(t) == \E monday \in (DayOf(now) - 6)..DayOf(now) :
                     /\ Weekday(monday) = 1
                     /\ {DayOf(t), DayOf(now)} \subseteq monday..(monday + 6)
        month(t) == [Date(DayOf(t)) EXCEPT !.day = 0] = [Date(DayOf(now)) EXCEPT !.day = 0]
    IN  \A t \in Written :
          /\ InPeriod("today", now, t) <=> DayOf(t) = DayOf(now)
          /\ InPeriod("week", now, t) <=> week(t)
          /\ InPeriod("month", now, t) <=> month(t)
          /\ InPeriod("all", now, t)

\* A row that the page shows with a time, as one of today, is counted under
\* today as well, although the one is decided in the server's zone and the other
\* in UTC: from the hour on at which the day of UTC begins there, which is 9 in
\* the morning in Korea (dashboard.go:43-45, transaction.go:30-34).
ShownTodayIsCounted ==
  screen.kind = "report" =>
    \A t \in Written, offset \in Offsets :
      ShowsTime(TimeShort(t, screen.now, offset)) /\ MinuteOf(t + offset) >= offset =>
        InPeriod("today", screen.now, t)
=============================================================================
