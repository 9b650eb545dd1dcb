\* README.md:73, a message on every charge and deduct.
SPECIFICATION Spec
CONSTANTS
  MemberIDs = {m1}
  Requests = {r1, r2}
  Amounts = {1}
  MaxInt64 = 3
  ListLimit = 2
  MaxRows = 2
  NoRow = NoRow
  NoJob = NoJob
PROPERTIES
  EveryPostingAnnounced
