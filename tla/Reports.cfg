\* Two members, so that a search can tell them apart and that the members looked
\* through leave one out; moments 1 and 2 are the end of a day and the start of
\* the next; one page at a time, since pages only read.
SPECIFICATION Spec
CONSTANTS
  MemberIDs = {m1, m2}
  Requests = {r1}
  Amounts = {1}
  MaxInt64 = 3
  Moments = {1, 2}
  DayLength = 2
  Minute = 1
  ListLimit = 1
  SearchLimit = 1
  MaxRows = 2
  NoRow = NoRow
  NoQuery = NoQuery
  NoFilter = NoFilter
SYMMETRY Symmetric
INVARIANTS
  TypeOK
  NeverOverdrawn
  TotalsMatchList
  SearchListsMatches
