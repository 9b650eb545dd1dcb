\* Thirteen months that hold two ends of a year and a leap day, at midnight of
\* UTC, midnight of Korea and the minutes before.
SPECIFICATION ScreensSpec
CONSTANTS
  PhoneNumbers <- MCPhoneNumbers
  AmountKeys = {"0", "1", "9"}
  MaxKeys = 7
  MaxDashes = 2
  Years <- MCYears
  Moments = {0, 899, 900, 1439}
  FirstDay = 1430
  LastDay = 1830
  Offsets = {0, 540}
INVARIANTS
  PhoneIsKey
  AmountAsTyped
  PeriodsMatchCalendar
  ShownTodayIsCounted
