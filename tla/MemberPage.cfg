\* Two members share the table.  Three rows in all against a limit of two: a
\* list that is cut off; three moments: rows in order, out of order, and tied.
SPECIFICATION Spec
CONSTANTS
  MemberIDs = {m1, m2}
  Amounts = {1, 2}
  MaxInt64 = 2
  NoRow = NoRow
  ListLimit = 2
  MaxTime = 2
  MaxRows = 3
SYMMETRY Symmetric
INVARIANTS
  TypeOK
  TotalsExplainBalance
  LastRowsAreNewest
PROPERTIES
  ImplementsWallet
