\* Two handlers at work on one member; the amounts tell the rows apart.
SPECIFICATION Spec
CONSTANTS
  MemberIDs = {m1}
  Requests = {r1, r2}
  Amounts = {1, 2}
  MaxInt64 = 4
  ListLimit = 2
  MaxRows = 3
  NoRow = NoRow
  NoJob = NoJob
SYMMETRY Symmetric
INVARIANTS
  TypeOK
  AnnouncedWasPosted
  FirstQuotesOwnRow
  ReplyTellsOutcome
  PageShowsOwnRow
