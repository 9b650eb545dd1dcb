\* member.go:190, only plain records are encrypted.
SPECIFICATION Spec
CONSTANTS
  MemberIDs = {m1, m2}
  Numbers = {n1, n2}
  Memos = {"note"}
  ListLimit = 2
  NoMemo = NoMemo
  NoRow = NoRow
INVARIANTS
  MemosStayReadable
