\* Three members: one migrated, one not, one beyond the limit. The server
\* starts and stops as often as it likes, with and without the key.
SPECIFICATION Spec
CONSTANTS
  MemberIDs = {m1, m2, m3}
  Numbers = {n1, n2}
  Memos = {"note"}
  ListLimit = 2
  NoMemo = NoMemo
  NoRow = NoRow
SYMMETRY Symmetric
INVARIANTS
  TypeOK
  NameAndPhoneTogether
PROPERTIES
  CompletedCoversList
  NeverWrittenInClear
