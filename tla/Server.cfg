\* Two administrators and two PINs: an address that changes from one start to
\* the next, a PIN that changes, a PIN that two of them share.  Two requests at
\* a time and two sessions.
SPECIFICATION Spec
CONSTANTS
  Addresses = {a1, a2}
  Pins = {p1, p2}
  BadPin = BadPin
  NoPin = NoPin
  NoEmail = NoEmail
  Requests = {r1, r2}
  NoRequest = NoRequest
  Lifetime = 3
  IdleTimeout = 2
  MaxLogins = 2
  UsedConfigs <- MCUsedConfigs
SYMMETRY Symmetric
INVARIANTS
  TypeOK
  OneRowPerAddress
  ConfiguredPinWorks
  SessionLimits
  ActiveUseStaysLoggedIn
  LogoutIsFinal
PROPERTIES
  OnlyNamedPinChanges
