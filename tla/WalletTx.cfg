\* Two members, two requests: one more of each adds no new interleaving over
\* one connection.  3 + 1 overflows, 3 can be deducted from 3 only.  No
\* symmetry, since liveness is checked too.
SPECIFICATION FairSpec
CONSTANTS
  MemberIDs = {m1, m2}
  Requests = {r1, r2}
  Amounts = {1, 3}
  MaxInt64 = 3
  MaxRows = 2
  NoRow = NoRow
  NoRequest = NoRequest
  NoJob = NoJob
  NoView = NoView
INVARIANTS
  TypeOK
  CommitsWhatItRead
  RowsChain
  LedgerExplainsBalance
PROPERTIES
  EveryRequestReturns
  LedgerSpec
  AppendOnly
  BlockedBalanceFrozen
