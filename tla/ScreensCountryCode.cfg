\* format.go:51, a mobile number with the country code becomes the national one.
SPECIFICATION ScreensSpec
CONSTANTS
  PhoneNumbers <- MCPhoneNumbers
  AmountKeys = {"0", "1", "9"}
  MaxKeys = 2
  MaxDashes = 0
  Years <- MCYears
  Moments = {0}
  FirstDay = 1430
  LastDay = 1440
  Offsets = {540}
INVARIANTS
  CountryCodeUnderstood
