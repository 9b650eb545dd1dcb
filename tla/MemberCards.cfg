\* Three members, two cards, and a list that holds two of them; one customer tags
\* (a second one would add nothing: the page only reads).
SPECIFICATION Spec
CONSTANTS
  MemberIDs = {m1, m2, m3}
  Requests = {r1}
  Numbers = {n1, n2, n3}
  Cards = {c1, c2}
  Amounts = {1, 2}
  MaxInt64 = 3
  LowBalanceThreshold = 1
  SearchLimit = 2
  MaxRows = 1
  NoRow = NoRow
  NoCard = NoCard
SYMMETRY Symmetric
INVARIANTS
  TypeOK
  BalanceNeedsActiveCard
  ActiveCardShowsBalance
  LostCardShowsBlocked
