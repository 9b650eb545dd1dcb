\* transaction.go:142, the list is filtered by member search.
SPECIFICATION Spec
CONSTANTS
  MemberIDs = {m1, m2}
  Requests = {r1}
  Amounts = {1}
  MaxInt64 = 3
  Moments = {1, 2}
  DayLength = 2
  Minute = 1
  ListLimit = 1
  SearchLimit = 1
  MaxRows = 2
  NoRow = NoRow
  NoQuery = NoQuery
  NoFilter = NoFilter
INVARIANTS
  SearchFilters
