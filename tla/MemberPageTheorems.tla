-------------------------- MODULE MemberPageTheorems --------------------------
(***************************************************************************)
(* The shared table implements the wallet, and the two pages tell what the *)
(* ledgers say, for any number of members and rows and any clock.          *)
(***************************************************************************)
EXTENDS MemberPage, SequenceTheorems, FiniteSetTheorems, TLAPS

\* What is proved of ledgers and of sums, for the tables read as ledgers.
Facts == INSTANCE WalletLedgerTheorems WITH
  members <- Members, transactions <- Transactions

\* The assumption of WalletLedger holds of the tables read as ledgers.
LEMMA FactsApply == Facts!LedgerAssumption
  BY MemberPageAssumption DEF Facts!LedgerAssumption, Facts!MemberRow

\* A set that holds 0, and n + 1 with every n, holds every number.
LEMMA Induction ==
  ASSUME NEW T, 0 \in T, \A n \in Nat : n \in T => n + 1 \in T
  PROVE  Nat \subseteq T
  BY FactsApply, Facts!Induction

\* A sequence without elements.
LEMMA NoElements ==
  ASSUME NEW S, NEW s \in Seq(S), ~ \E i \in DOMAIN s : TRUE
  PROVE  s = <<>>
<1>1. Len(s) \in Nat /\ DOMAIN s = 1..Len(s)
  OBVIOUS
<1>2. 1 \notin DOMAIN s
  OBVIOUS
<1>3. Len(s) = 0
  BY <1>1, <1>2
<1>4. QED
  BY <1>3

\* A set of sequences that holds the empty one, and with each the longer ones.
LEMMA SequenceInduction ==
  ASSUME NEW S, NEW X, <<>> \in X,
         \A s \in Seq(S) : s \in X => \A e \in S : Append(s, e) \in X
  PROVE  Seq(S) \subseteq X
<1> DEFINE T == {n \in Nat : \A s \in Seq(S) : Len(s) = n => s \in X}
<1>1. 0 \in T
  OBVIOUS
<1>2. ASSUME NEW n \in Nat, n \in T PROVE n + 1 \in T
  <2> SUFFICES ASSUME NEW s \in Seq(S), Len(s) = n + 1 PROVE s \in X
    OBVIOUS
  <2> DEFINE front == SubSeq(s, 1, n)
  <2>1. /\ front \in Seq(S) /\ Len(front) = n
        /\ \A i \in 1..n : front[i] = s[i]
    OBVIOUS
  <2>2. s[n + 1] \in S
    OBVIOUS
  <2> HIDE DEF front
  <2>3. s = Append(front, s[n + 1])
    BY <2>1, <2>2
  <2>4. QED
    BY <1>2, <2>1, <2>2, <2>3
<1> HIDE DEF T
<1>3. Nat \subseteq T
  BY <1>1, <1>2, Induction
<1>4. QED
  BY <1>3 DEF T

-----------------------------------------------------------------------------
(* The rows of some members.                                               *)

\* g is kept, of Kept, for the first n rows of the table.
Keeps(table, who, n, g) ==
  \A i \in 0..n :
    g[i] = IF i = 0 THEN <<>>
           ELSE IF table[i].member \in who THEN Append(g[i - 1], table[i])
           ELSE g[i - 1]

\* Some function does that.
LEMMA KeepsExists ==
  ASSUME NEW S, NEW table \in Seq(S), NEW who
  PROVE  \E g \in [0..Len(table) -> Seq(S)] : Keeps(table, who, Len(table), g)
<1> DEFINE T == {n \in Nat : n <= Len(table) =>
                               \E g \in [0..n -> Seq(S)] : Keeps(table, who, n, g)}
<1>1. 0 \in T
  <2> DEFINE g == [i \in 0..0 |-> <<>>]
  <2>1. g \in [0..0 -> Seq(S)] /\ Keeps(table, who, 0, g)
    BY DEF Keeps
  <2> HIDE DEF g
  <2>2. QED
    BY <2>1
<1>2. ASSUME NEW n \in Nat, n \in T PROVE n + 1 \in T
  <2> SUFFICES ASSUME n + 1 <= Len(table)
               PROVE  \E g \in [0..(n + 1) -> Seq(S)] : Keeps(table, who, n + 1, g)
    OBVIOUS
  <2>1. PICK h \in [0..n -> Seq(S)] : Keeps(table, who, n, h)
    BY <1>2
  <2> DEFINE last == IF table[n + 1].member \in who THEN Append(h[n], table[n + 1]) ELSE h[n]
             g == [i \in 0..(n + 1) |-> IF i = n + 1 THEN last ELSE h[i]]
  <2>2. last \in Seq(S)
    <3>1. table[n + 1] \in S /\ h[n] \in Seq(S)
      OBVIOUS
    <3>2. QED
      BY <3>1
  <2>3. /\ \A i \in 0..n : g[i] = h[i]
        /\ g[n + 1] = last /\ g \in [0..(n + 1) -> Seq(S)]
    <3> HIDE DEF last
    <3>1. QED
      BY <2>2
  <2> HIDE DEF g
  <2>4. Keeps(table, who, n + 1, g)
    <3> SUFFICES ASSUME NEW i \in 0..(n + 1)
                 PROVE  g[i] = IF i = 0 THEN <<>>
                               ELSE IF table[i].member \in who THEN Append(g[i - 1], table[i])
                               ELSE g[i - 1]
      BY DEF Keeps
    <3>1. CASE i = n + 1
      BY <2>3, <3>1
    <3>2. CASE i \in 0..n
      <4>1. i # 0 => i - 1 \in 0..n
        BY <3>2
      <4>2. QED
        BY <2>1, <2>3, <3>2, <4>1 DEF Keeps
    <3>3. QED
      BY <3>1, <3>2
  <2>5. QED
    BY <2>3, <2>4
<1>3. Nat \subseteq T
  <2> HIDE DEF T
  <2>1. QED
    BY <1>1, <1>2, Induction
<1>4. Len(table) \in T
  BY <1>3
<1>5. QED
  BY <1>4

\* Kept computes it.
LEMMA KeptKeeps ==
  ASSUME NEW S, NEW table \in Seq(S), NEW who
  PROVE  \E g : /\ Keeps(table, who, Len(table), g)
               /\ Kept(table, who) = g[Len(table)]
<1> DEFINE F(g) == [n \in 0..Len(table) |->
                      IF n = 0 THEN <<>>
                      ELSE IF table[n].member \in who THEN Append(g[n - 1], table[n])
                      ELSE g[n - 1]]
<1>1. PICK h \in [0..Len(table) -> Seq(S)] : Keeps(table, who, Len(table), h)
  BY KeepsExists
<1>2. h = F(h)
  BY <1>1 DEF Keeps
<1> DEFINE g == CHOOSE f : f = F(f)
<1>3. g = F(g)
  BY <1>2
<1>4. Kept(table, who) = g[Len(table)]
  BY DEF Kept
<1> HIDE DEF g
<1>5. Keeps(table, who, Len(table), g)
  BY <1>3 DEF Keeps
<1>6. QED
  BY <1>4, <1>5

\* There is only one.
LEMMA KeepsUnique ==
  ASSUME NEW S, NEW table \in Seq(S), NEW who, NEW g, Keeps(table, who, Len(table), g),
         NEW other \in Seq(S), Len(other) <= Len(table),
         \A i \in 1..Len(other) : other[i] = table[i],
         NEW h, Keeps(other, who, Len(other), h)
  PROVE  h[Len(other)] = g[Len(other)]
<1> DEFINE T == {n \in Nat : n <= Len(other) => h[n] = g[n]}
<1>1. 0 \in T
  BY DEF Keeps
<1>2. ASSUME NEW n \in Nat, n \in T PROVE n + 1 \in T
  <2> SUFFICES ASSUME n + 1 <= Len(other) PROVE h[n + 1] = g[n + 1]
    OBVIOUS
  <2>1. h[n] = g[n] /\ other[n + 1] = table[n + 1]
    BY <1>2
  <2>2. n + 1 \in 0..Len(other) /\ n + 1 \in 0..Len(table) /\ n + 1 # 0 /\ (n + 1) - 1 = n
    OBVIOUS
  <2>3. QED
    BY <2>1, <2>2 DEF Keeps
<1> HIDE DEF T
<1>3. Nat \subseteq T
  BY <1>1, <1>2, Induction
<1>4. QED
  BY <1>3 DEF T

\* Nothing is kept of an empty table.
LEMMA KeptOfNone ==
  ASSUME NEW who
  PROVE  Kept(<<>>, who) = <<>>
<1>1. <<>> \in Seq({}) /\ Len(<<>>) = 0
  OBVIOUS
<1>2. PICK g : Keeps(<<>>, who, Len(<<>>), g) /\ Kept(<<>>, who) = g[Len(<<>>)]
  BY <1>1, KeptKeeps
<1>3. QED
  BY <1>1, <1>2 DEF Keeps

\* One more row.
LEMMA KeptOfAppend ==
  ASSUME NEW S, NEW table \in Seq(S), NEW row \in S, NEW who
  PROVE  Kept(Append(table, row), who) =
           IF row.member \in who THEN Append(Kept(table, who), row) ELSE Kept(table, who)
<1> DEFINE longer == Append(table, row)
<1>1. /\ longer \in Seq(S) /\ Len(longer) = Len(table) + 1
      /\ longer[Len(longer)] = row
      /\ \A i \in 1..Len(table) : table[i] = longer[i]
  OBVIOUS
<1> HIDE DEF longer
<1>2. PICK g : Keeps(longer, who, Len(longer), g) /\ Kept(longer, who) = g[Len(longer)]
  BY <1>1, KeptKeeps
<1>3. PICK h : Keeps(table, who, Len(table), h) /\ Kept(table, who) = h[Len(table)]
  BY KeptKeeps
<1>4. h[Len(table)] = g[Len(table)]
  BY <1>1, <1>2, <1>3, KeepsUnique
<1>5. Len(longer) \in 0..Len(longer) /\ Len(longer) # 0 /\ Len(longer) - 1 = Len(table)
  BY <1>1
<1>6. QED
  BY <1>1, <1>2, <1>3, <1>4, <1>5 DEF Keeps, longer

\* Rows that are kept are rows of the table, and of those members.
AreKept(kept, table, who) ==
  \A i \in DOMAIN kept : /\ kept[i].member \in who
                         /\ \E j \in DOMAIN table : kept[i] = table[j]

\* What is kept are rows of the table, of the members asked for.
LEMMA KeptRows ==
  ASSUME NEW S, NEW table \in Seq(S), NEW who
  PROVE  Kept(table, who) \in Seq(S) /\ AreKept(Kept(table, who), table, who)
<1> DEFINE X == {t \in Seq(S) : Kept(t, who) \in Seq(S) /\ AreKept(Kept(t, who), t, who)}
<1>1. <<>> \in X
  <2>1. AreKept(<<>>, <<>>, who) /\ <<>> \in Seq(S)
    BY DEF AreKept
  <2>2. QED
    BY <2>1, KeptOfNone
<1>2. ASSUME NEW t \in Seq(S), t \in X, NEW e \in S PROVE Append(t, e) \in X
  <2> DEFINE kept == Kept(t, who)
             longer == Append(t, e)
  <2>1. kept \in Seq(S) /\ AreKept(kept, t, who)
    BY <1>2
  <2>2. Kept(longer, who) = IF e.member \in who THEN Append(kept, e) ELSE kept
    BY KeptOfAppend
  <2>3. /\ longer \in Seq(S) /\ Len(longer) \in DOMAIN longer /\ longer[Len(longer)] = e
        /\ \A j \in DOMAIN t : j \in DOMAIN longer /\ longer[j] = t[j]
    OBVIOUS
  <2> HIDE DEF longer, kept
  <2>4. AreKept(kept, longer, who)
    BY <2>1, <2>3 DEF AreKept
  <2>5. CASE e.member \notin who
    BY <2>1, <2>2, <2>3, <2>4, <2>5 DEF longer
  <2>6. CASE e.member \in who
    <3> DEFINE more == Append(kept, e)
    <3>1. /\ more \in Seq(S)
          /\ \A i \in DOMAIN more : \/ i \in DOMAIN kept /\ more[i] = kept[i]
                                    \/ more[i] = e
      BY <2>1
    <3> HIDE DEF more
    <3>2. Kept(longer, who) = more
      BY <2>2, <2>6 DEF more
    <3>3. AreKept(more, longer, who)
      BY <2>3, <2>4, <2>6, <3>1 DEF AreKept
    <3>4. QED
      BY <2>3, <3>1, <3>2, <3>3 DEF longer
  <2>7. QED
    BY <2>5, <2>6
<1> HIDE DEF X
<1>3. Seq(S) \subseteq X
  BY <1>1, <1>2, SequenceInduction
<1>4. QED
  BY <1>3 DEF X

\* Rows kept of rows kept.
LEMMA KeptTwice ==
  ASSUME NEW S, NEW table \in Seq(S), NEW A, NEW B
  PROVE  Kept(Kept(table, A), B) = Kept(table, A \cap B)
<1> DEFINE X == {t \in Seq(S) : Kept(Kept(t, A), B) = Kept(t, A \cap B)}
<1>1. <<>> \in X
  BY KeptOfNone
<1>2. ASSUME NEW t \in Seq(S), t \in X, NEW e \in S PROVE Append(t, e) \in X
  <2>1. Kept(t, A) \in Seq(S)
    BY KeptRows
  <2>2. Kept(Append(t, e), A) = IF e.member \in A THEN Append(Kept(t, A), e) ELSE Kept(t, A)
    BY KeptOfAppend
  <2>3. Kept(Append(t, e), A \cap B) =
          IF e.member \in A \cap B THEN Append(Kept(t, A \cap B), e) ELSE Kept(t, A \cap B)
    <3> DEFINE C == A \cap B
    <3> HIDE DEF C
    <3>1. Kept(Append(t, e), C) = IF e.member \in C THEN Append(Kept(t, C), e) ELSE Kept(t, C)
      BY KeptOfAppend
    <3>2. QED
      BY <3>1 DEF C
  <2>4. Kept(Append(Kept(t, A), e), B) =
          IF e.member \in B THEN Append(Kept(Kept(t, A), B), e) ELSE Kept(Kept(t, A), B)
    <3> DEFINE k == Kept(t, A)
    <3>1. k \in Seq(S)
      BY <2>1
    <3> HIDE DEF k
    <3>2. Kept(Append(k, e), B) = IF e.member \in B THEN Append(Kept(k, B), e) ELSE Kept(k, B)
      BY <3>1, KeptOfAppend
    <3>3. QED
      BY <3>2 DEF k
  <2>5. Kept(Kept(t, A), B) = Kept(t, A \cap B)
    BY <1>2
  <2>6. Kept(Kept(Append(t, e), A), B) = Kept(Append(t, e), A \cap B)
    <3>1. CASE e.member \in A
      <4>1. Kept(Append(t, e), A) = Append(Kept(t, A), e)
        BY <2>2, <3>1
      <4>2. QED
        BY <2>3, <2>4, <2>5, <3>1, <4>1
    <3>2. CASE e.member \notin A
      <4>1. Kept(Append(t, e), A) = Kept(t, A)
        BY <2>2, <3>2
      <4>2. QED
        BY <2>3, <2>5, <3>2, <4>1
    <3>3. QED
      BY <3>1, <3>2
  <2>7. QED
    BY <2>6
<1> HIDE DEF X
<1>3. Seq(S) \subseteq X
  BY <1>1, <1>2, SequenceInduction
<1>4. QED
  BY <1>3 DEF X

-----------------------------------------------------------------------------
(* The tables.                                                             *)

\* Ids are a key of members, and every row of transactions has its member.
TablesOK ==
  /\ memberTable \subseteq MemberRow
  /\ \A row, other \in memberTable : row.id = other.id => row = other
  /\ txTable \in Seq(TxRow)
  /\ \A i \in DOMAIN txTable : txTable[i].member \in Ids
  /\ Ids \subseteq issuedIDs /\ issuedIDs \subseteq MemberIDs
  /\ now \in 0..MaxTime

\* RowOf finds the row of a member.
LEMMA RowOfMember ==
  ASSUME TablesOK
  PROVE  /\ \A m \in Ids : RowOf(m) \in memberTable /\ RowOf(m) \in MemberRow /\ RowOf(m).id = m
         /\ \A row \in memberTable : row.id \in Ids /\ RowOf(row.id) = row
<1>1. ASSUME NEW m \in Ids
      PROVE  RowOf(m) \in memberTable /\ RowOf(m) \in MemberRow /\ RowOf(m).id = m
  <2>1. \E row \in memberTable : row.id = m
    BY DEF Ids
  <2>2. RowOf(m) \in memberTable /\ RowOf(m).id = m
    BY <2>1 DEF RowOf
  <2>3. QED
    BY <2>2 DEF TablesOK
<1>2. ASSUME NEW row \in memberTable PROVE row.id \in Ids /\ RowOf(row.id) = row
  <2>1. row.id \in Ids
    BY DEF Ids
  <2>2. RowOf(row.id) \in memberTable /\ RowOf(row.id).id = row.id
    BY <1>1, <2>1
  <2>3. QED
    BY <2>1, <2>2 DEF TablesOK
<1>3. QED
  BY <1>1, <1>2

\* The row of m is replaced by another one.
LEMMA RowReplaced ==
  ASSUME TablesOK, NEW m \in Ids, NEW row \in MemberRow, row.id = m,
         memberTable' = (memberTable \ {RowOf(m)}) \cup {row}
  PROVE  /\ Ids' = Ids
         /\ memberTable' \subseteq MemberRow
         /\ \A one, other \in memberTable' : one.id = other.id => one = other
         /\ RowOf(m)' = row
         /\ \A k \in Ids \ {m} : RowOf(k)' = RowOf(k)
<1>1. \A one \in memberTable \ {RowOf(m)} : one.id # m
  BY RowOfMember
<1>2. \A one, other \in memberTable' : one.id = other.id => one = other
  BY <1>1 DEF TablesOK
<1>3. Ids' = Ids
  <2>1. ASSUME NEW k \in Ids PROVE k \in Ids'
    <3>1. CASE k = m
      BY <3>1 DEF Ids
    <3>2. CASE k # m
      <4>1. RowOf(k) \in memberTable' /\ RowOf(k).id = k
        BY <3>2, RowOfMember
      <4>2. QED
        BY <4>1 DEF Ids
    <3>3. QED
      BY <3>1, <3>2
  <2>2. Ids' \subseteq Ids
    BY DEF Ids
  <2>3. QED
    BY <2>1, <2>2
<1>4. \A one \in memberTable' : RowOf(one.id)' = one
  BY <1>2 DEF RowOf
<1>5. RowOf(m)' = row
  BY <1>4
<1>6. \A k \in Ids \ {m} : RowOf(k)' = RowOf(k)
  <2> SUFFICES ASSUME NEW k \in Ids \ {m} PROVE RowOf(k)' = RowOf(k)
    OBVIOUS
  <2>1. RowOf(k) \in memberTable' /\ RowOf(k).id = k
    BY RowOfMember
  <2>2. QED
    BY <1>4, <2>1
<1>7. QED
  BY <1>2, <1>3, <1>5, <1>6 DEF TablesOK

\* A row is added.
LEMMA RowInserted ==
  ASSUME TablesOK, NEW row \in MemberRow, row.id \notin Ids,
         memberTable' = memberTable \cup {row}
  PROVE  /\ Ids' = Ids \cup {row.id}
         /\ memberTable' \subseteq MemberRow
         /\ \A one, other \in memberTable' : one.id = other.id => one = other
         /\ RowOf(row.id)' = row
         /\ \A k \in Ids : RowOf(k)' = RowOf(k)
<1>1. \A one \in memberTable : one.id # row.id
  BY DEF Ids
<1>2. \A one, other \in memberTable' : one.id = other.id => one = other
  BY <1>1 DEF TablesOK
<1>3. Ids' = Ids \cup {row.id}
  BY DEF Ids
<1>4. \A one \in memberTable' : RowOf(one.id)' = one
  BY <1>2 DEF RowOf
<1>5. \A k \in Ids : RowOf(k)' = RowOf(k)
  <2> SUFFICES ASSUME NEW k \in Ids PROVE RowOf(k)' = RowOf(k)
    OBVIOUS
  <2>1. RowOf(k) \in memberTable' /\ RowOf(k).id = k
    BY RowOfMember
  <2>2. QED
    BY <1>4, <2>1
<1>6. QED
  BY <1>2, <1>3, <1>4, <1>5 DEF TablesOK

\* A row is deleted.
LEMMA RowDeleted ==
  ASSUME TablesOK, NEW m \in Ids, memberTable' = memberTable \ {RowOf(m)}
  PROVE  /\ Ids' = Ids \ {m}
         /\ memberTable' \subseteq MemberRow
         /\ \A one, other \in memberTable' : one.id = other.id => one = other
         /\ \A k \in Ids \ {m} : RowOf(k)' = RowOf(k)
<1>1. \A one \in memberTable' : one.id # m
  BY RowOfMember
<1>2. \A one, other \in memberTable' : one.id = other.id => one = other
  BY DEF TablesOK
<1>3. \A k \in Ids \ {m} : RowOf(k) \in memberTable' /\ RowOf(k).id = k
  BY RowOfMember
<1>4. Ids' = Ids \ {m}
  <2>1. Ids' \subseteq Ids \ {m}
    BY <1>1 DEF Ids
  <2>2. ASSUME NEW k \in Ids \ {m} PROVE k \in Ids'
    BY <1>3 DEF Ids
  <2>3. QED
    BY <2>1, <2>2
<1>5. \A one \in memberTable' : RowOf(one.id)' = one
  BY <1>2 DEF RowOf
<1>6. \A k \in Ids \ {m} : RowOf(k)' = RowOf(k)
  <2> SUFFICES ASSUME NEW k \in Ids \ {m} PROVE RowOf(k)' = RowOf(k)
    OBVIOUS
  <2>1. QED
    BY <1>3, <1>5
<1>7. QED
  BY <1>2, <1>4, <1>6 DEF TablesOK

\* A ledger holds rows of its member only.
LEMMA LedgerRows ==
  ASSUME TablesOK, NEW m
  PROVE  /\ LedgerOf(m) \in Seq(TxRow)
         /\ m \notin Ids => LedgerOf(m) = <<>>
<1> DEFINE who == {m}
<1> HIDE DEF who
<1>1. txTable \in Seq(TxRow)
  BY DEF TablesOK
<1>2. Kept(txTable, who) \in Seq(TxRow) /\ AreKept(Kept(txTable, who), txTable, who)
  BY <1>1, KeptRows
<1>3. LedgerOf(m) = Kept(txTable, who)
  BY DEF LedgerOf, who
<1>4. ASSUME m \notin Ids, NEW i \in DOMAIN LedgerOf(m) PROVE FALSE
  <2>1. PICK j \in DOMAIN txTable : LedgerOf(m)[i] = txTable[j]
    BY <1>2, <1>3, <1>4 DEF AreKept
  <2>2. LedgerOf(m)[i].member = m
    BY <1>2, <1>3, <1>4 DEF AreKept, who
  <2>3. QED
    BY <1>4, <2>1, <2>2 DEF TablesOK
<1>5. m \notin Ids => LedgerOf(m) = <<>>
  <2>1. LedgerOf(m) \in Seq(TxRow)
    BY <1>2, <1>3
  <2>2. QED
    BY <1>4, <2>1, NoElements
<1>6. QED
  BY <1>2, <1>3, <1>5

\* INSERT INTO transactions puts the row at the end of one ledger.
LEMMA LedgersAfterPost ==
  ASSUME TablesOK, NEW row \in TxRow, txTable' = Append(txTable, row)
  PROVE  /\ LedgerOf(row.member)' = Append(LedgerOf(row.member), row)
         /\ \A k : k # row.member => LedgerOf(k)' = LedgerOf(k)
<1>1. txTable \in Seq(TxRow)
  BY DEF TablesOK
<1>2. ASSUME NEW k
      PROVE  LedgerOf(k)' = IF row.member = k THEN Append(LedgerOf(k), row) ELSE LedgerOf(k)
  <2> DEFINE who == {k}
  <2> HIDE DEF who
  <2>1. Kept(Append(txTable, row), who) =
          IF row.member \in who THEN Append(Kept(txTable, who), row) ELSE Kept(txTable, who)
    BY <1>1, KeptOfAppend
  <2>2. QED
    BY <2>1 DEF LedgerOf, who
<1>3. QED
  BY <1>2

\* DELETE FROM transactions WHERE member_id = m empties one ledger.
LEMMA LedgersAfterDelete ==
  ASSUME TablesOK, NEW m, txTable' = Kept(txTable, MemberIDs \ {m})
  PROVE  /\ LedgerOf(m)' = <<>>
         /\ \A k \in MemberIDs \ {m} : LedgerOf(k)' = LedgerOf(k)
         /\ txTable' \in Seq(TxRow)
         /\ \A i \in DOMAIN txTable' : /\ txTable'[i].member \in Ids
                                       /\ txTable'[i].member # m
<1> DEFINE rest == MemberIDs \ {m}
<1>1. txTable \in Seq(TxRow)
  BY DEF TablesOK
<1>2. txTable' = Kept(txTable, rest)
  OBVIOUS
<1> HIDE DEF rest
<1>3. txTable' \in Seq(TxRow) /\ AreKept(txTable', txTable, rest)
  BY <1>1, <1>2, KeptRows
<1>4. \A i \in DOMAIN txTable' : txTable'[i].member \in Ids /\ txTable'[i].member # m
  BY <1>3 DEF AreKept, TablesOK, rest
<1>5. ASSUME NEW k, NEW who, who = rest \cap {k} PROVE LedgerOf(k)' = Kept(txTable, who)
  <2> DEFINE one == {k}
  <2> HIDE DEF one
  <2>1. Kept(Kept(txTable, rest), one) = Kept(txTable, rest \cap one)
    BY <1>1, KeptTwice
  <2>2. QED
    BY <1>2, <1>5, <2>1 DEF LedgerOf, one
<1>6. LedgerOf(m)' = <<>>
  <2> DEFINE none == rest \cap {m}
  <2>1. none = {}
    BY DEF rest
  <2> HIDE DEF none
  <2>2. LedgerOf(m)' = Kept(txTable, none)
    BY <1>5 DEF none
  <2>3. Kept(txTable, none) \in Seq(TxRow) /\ AreKept(Kept(txTable, none), txTable, none)
    BY <1>1, KeptRows
  <2>4. ~ \E i \in DOMAIN Kept(txTable, none) : TRUE
    BY <2>1, <2>3 DEF AreKept
  <2>5. QED
    BY <2>2, <2>3, <2>4, NoElements
<1>7. ASSUME NEW k \in MemberIDs \ {m} PROVE LedgerOf(k)' = LedgerOf(k)
  BY <1>5 DEF LedgerOf, rest
<1>8. QED
  BY <1>3, <1>4, <1>6, <1>7

-----------------------------------------------------------------------------
(* Each action keeps the tables as they should be, and does what the       *)
(* wallet allows.                                                          *)

\* What a step may do to the tables.
WalletStep == Wallet!LedgerNext \/ UNCHANGED Wallet!ledgerVars

\* The columns of the wallet, and what a row of its ledger is.
LEMMA MappedMembers ==
  /\ Members = [m \in MemberIDs |->
       IF m \in Ids THEN [balance |-> RowOf(m).balance, isActive |-> RowOf(m).isActive]
       ELSE NoRow]
  /\ Members' = [m \in MemberIDs |->
       IF m \in Ids' THEN [balance |-> RowOf(m)'.balance, isActive |-> RowOf(m)'.isActive]
       ELSE NoRow]
  BY DEF Members

AsRow(row) ==
  [type |-> row.type, amount |-> row.amount, balanceAfter |-> row.balanceAfter]
AsLedger(ledger) == [i \in DOMAIN ledger |-> AsRow(ledger[i])]

\* The ledgers of the wallet, before and after a step.
LEMMA MappedTransactions ==
  /\ Transactions = [m \in MemberIDs |-> AsLedger(LedgerOf(m))]
  /\ Transactions' = [m \in MemberIDs |-> AsLedger(LedgerOf(m)')]
  BY DEF Transactions, AsLedger, AsRow

\* A row more in the table is a row more in the ledger of the wallet.
LEMMA AsLedgerOfAppend ==
  ASSUME NEW S, NEW ledger \in Seq(S), NEW row \in S
  PROVE  AsLedger(Append(ledger, row)) = Append(AsLedger(ledger), AsRow(row))
<1> DEFINE T == {AsRow(r) : r \in S}
           longer == Append(ledger, row)
           more == Append(AsLedger(ledger), AsRow(row))
<1>1. /\ longer \in Seq(S) /\ Len(longer) = Len(ledger) + 1
      /\ longer[Len(longer)] = row
      /\ \A i \in 1..Len(ledger) : longer[i] = ledger[i]
  OBVIOUS
<1>2. /\ AsLedger(ledger) \in Seq(T)
      /\ Len(AsLedger(ledger)) = Len(ledger)
      /\ \A i \in 1..Len(ledger) : AsLedger(ledger)[i] = AsRow(ledger[i])
  BY DEF AsLedger
<1>3. AsRow(row) \in T
  OBVIOUS
<1>4. /\ more \in Seq(T) /\ Len(more) = Len(ledger) + 1
      /\ more[Len(ledger) + 1] = AsRow(row)
      /\ \A i \in 1..Len(ledger) : more[i] = AsRow(ledger[i])
  <2> HIDE DEF T
  <2>1. QED
    BY <1>2, <1>3
<1> HIDE DEF longer, more, T
<1>5. /\ AsLedger(longer) = [i \in 1..Len(longer) |-> AsRow(longer[i])]
  BY <1>1 DEF AsLedger
<1>6. \A i \in 1..Len(longer) : more[i] = AsRow(longer[i])
  BY <1>1, <1>4
<1>7. more = [i \in 1..Len(longer) |-> more[i]]
  BY <1>1, <1>4
<1>8. QED
  BY <1>5, <1>6, <1>7 DEF longer, more

\* A new member has a fresh id, balance 0 and no rows.
LEMMA CreateKeepsTables ==
  ASSUME TablesOK, NEW m \in MemberIDs, Create(m)
  PROVE  /\ TablesOK' /\ WalletStep
         /\ m \notin Ids /\ Ids' = Ids \cup {m} /\ RowOf(m)'.balance = 0
         /\ \A k \in Ids : RowOf(k)' = RowOf(k)
<1> DEFINE row == [id |-> m, balance |-> 0, isActive |-> TRUE]
<1>1. /\ m \notin issuedIDs /\ issuedIDs' = issuedIDs \cup {m}
      /\ memberTable' = memberTable \cup {row}
      /\ UNCHANGED <<txTable, now>>
  BY DEF Create
<1>2. row \in MemberRow /\ row.id = m /\ row.balance = 0 /\ row.isActive = TRUE
  BY MemberPageAssumption DEF MemberRow
<1>3. m \notin Ids
  BY <1>1 DEF TablesOK
<1> HIDE DEF row
<1>4. /\ Ids' = Ids \cup {m}
      /\ memberTable' \subseteq MemberRow
      /\ \A one, other \in memberTable' : one.id = other.id => one = other
      /\ RowOf(m)' = row
      /\ \A k \in Ids : RowOf(k)' = RowOf(k)
  BY <1>1, <1>2, <1>3, RowInserted
<1>5. TablesOK'
  BY <1>1, <1>4 DEF TablesOK
<1>6. Members' = [Members EXCEPT ![m] = [balance |-> 0, isActive |-> TRUE]]
  BY <1>2, <1>3, <1>4, MappedMembers
<1>7. Transactions' = Transactions
  BY <1>1 DEF Transactions, LedgerOf
<1>8. Wallet!Register(m)
  BY <1>1, <1>6, <1>7 DEF Wallet!Register
<1>9. QED
  BY <1>2, <1>3, <1>4, <1>5, <1>8 DEF WalletStep, Wallet!LedgerNext

\* A posting moves one balance and adds one row to one ledger.
LEMMA PostKeepsTables ==
  ASSUME TablesOK, NEW m \in MemberIDs, NEW type \in {"charge", "deduct"},
         NEW amount \in Amounts, ChargeOrDeduct(m, type, amount)
  PROVE  /\ TablesOK' /\ WalletStep
         /\ m \in Ids /\ Ids' = Ids
         /\ RowOf(m)'.balance =
              RowOf(m).balance + (IF type = "charge" THEN amount ELSE -amount)
         /\ \A k \in Ids \ {m} : RowOf(k)' = RowOf(k)
         /\ \E tx \in TxRow : /\ tx.type = type /\ tx.amount = amount
                             /\ LedgerOf(m)' = Append(LedgerOf(m), tx)
         /\ \A k : k # m => LedgerOf(k)' = LedgerOf(k)
<1> DEFINE after == RowOf(m).balance + (IF type = "charge" THEN amount ELSE -amount)
           row == [RowOf(m) EXCEPT !.balance = after]
           tx == [member |-> m, type |-> type, amount |-> amount,
                  balanceAfter |-> after, createdAt |-> now]
<1>1. /\ m \in Ids /\ RowOf(m).isActive /\ after \in 0..MaxInt64
      /\ memberTable' = (memberTable \ {RowOf(m)}) \cup {row}
      /\ txTable' = Append(txTable, tx)
      /\ UNCHANGED <<issuedIDs, now>>
  BY DEF ChargeOrDeduct
<1>2. RowOf(m) \in MemberRow /\ RowOf(m).id = m
  BY <1>1, RowOfMember
<1>3. after = Wallet!Applied(RowOf(m).balance, type, amount)
  <2>1. RowOf(m).balance \in Int /\ amount \in Int
    BY <1>2, MemberPageAssumption DEF MemberRow
  <2>2. QED
    BY <2>1 DEF Wallet!Applied
<1> HIDE DEF after
<1>4. /\ row \in MemberRow /\ row.id = m
      /\ row.balance = after /\ row.isActive = RowOf(m).isActive
  BY <1>1, <1>2 DEF MemberRow
<1>5. /\ tx \in TxRow /\ tx.member = m
      /\ AsRow(tx) = [type |-> type, amount |-> amount, balanceAfter |-> after]
  BY <1>1 DEF TxRow, AsRow, TablesOK
<1> HIDE DEF row, tx
<1>6. /\ Ids' = Ids
      /\ memberTable' \subseteq MemberRow
      /\ \A one, other \in memberTable' : one.id = other.id => one = other
      /\ RowOf(m)' = row
      /\ \A k \in Ids \ {m} : RowOf(k)' = RowOf(k)
  BY <1>1, <1>4, RowReplaced
<1>7. /\ LedgerOf(m)' = Append(LedgerOf(m), tx)
      /\ \A k : k # m => LedgerOf(k)' = LedgerOf(k)
  BY <1>1, <1>5, LedgersAfterPost
<1>8. TablesOK'
  <2>1. txTable' \in Seq(TxRow) /\ \A i \in DOMAIN txTable' : txTable'[i].member \in Ids
    <3>1. txTable \in Seq(TxRow) /\ \A i \in DOMAIN txTable : txTable[i].member \in Ids
      BY DEF TablesOK
    <3>2. /\ txTable' \in Seq(TxRow)
          /\ \A i \in DOMAIN txTable' : \/ i \in DOMAIN txTable /\ txTable'[i] = txTable[i]
                                        \/ txTable'[i] = tx
      BY <1>1, <1>5, <3>1
    <3>3. QED
      BY <1>1, <1>5, <3>1, <3>2
  <2>2. QED
    BY <1>1, <1>6, <2>1 DEF TablesOK
<1>9. Members[m] = [balance |-> RowOf(m).balance, isActive |-> RowOf(m).isActive]
  BY <1>1, MappedMembers
<1>10. Members' = [Members EXCEPT ![m].balance = after]
  <2>1. Members'[m] = [balance |-> after, isActive |-> RowOf(m).isActive]
    BY <1>1, <1>4, <1>6, MappedMembers
  <2>2. [Members[m] EXCEPT !.balance = after] = Members'[m]
    BY <1>9, <2>1
  <2>3. \A k \in MemberIDs \ {m} : Members'[k] = Members[k]
    BY <1>6, MappedMembers
  <2>4. Members' = [k \in MemberIDs |-> Members'[k]] /\ Members = [k \in MemberIDs |-> Members[k]]
    BY MappedMembers
  <2>5. QED
    BY <2>2, <2>3, <2>4
<1>11. Transactions' = [Transactions EXCEPT ![m] = Append(@, AsRow(tx))]
  <2>1. LedgerOf(m) \in Seq(TxRow)
    BY LedgerRows
  <2>2. AsLedger(LedgerOf(m)') = Append(AsLedger(LedgerOf(m)), AsRow(tx))
    BY <1>5, <1>7, <2>1, AsLedgerOfAppend
  <2>3. QED
    BY <1>7, <2>2, MappedTransactions
<1>12. Members[m] # NoRow
  <2>1. Members[m] \in [balance : 0..MaxInt64, isActive : BOOLEAN]
    BY <1>2, <1>9 DEF MemberRow
  <2>2. QED
    BY <2>1, MemberPageAssumption
<1>13. Wallet!Post(m, type, amount)
  BY <1>1, <1>3, <1>5, <1>9, <1>10, <1>11, <1>12 DEF Wallet!Post
<1>14. WalletStep
  BY <1>13 DEF WalletStep, Wallet!LedgerNext
<1>15. RowOf(m)'.balance = RowOf(m).balance + (IF type = "charge" THEN amount ELSE -amount)
  BY <1>4, <1>6 DEF after
<1>16. tx.type = type /\ tx.amount = amount
  BY DEF tx
<1>17. QED
  BY <1>1, <1>5, <1>6, <1>7, <1>8, <1>14, <1>15, <1>16

\* Blocking and unblocking moves no balance.
LEMMA SetActiveKeepsTables ==
  ASSUME TablesOK, NEW m \in MemberIDs, NEW isActive \in BOOLEAN, SetMemberActive(m, isActive)
  PROVE  /\ TablesOK' /\ WalletStep
         /\ Ids' = Ids /\ \A k \in Ids : RowOf(k)'.balance = RowOf(k).balance
<1> DEFINE row == [RowOf(m) EXCEPT !.isActive = isActive]
<1>1. /\ m \in Ids
      /\ memberTable' = (memberTable \ {RowOf(m)}) \cup {row}
      /\ UNCHANGED <<txTable, issuedIDs, now>>
  BY DEF SetMemberActive
<1>2. RowOf(m) \in MemberRow /\ RowOf(m).id = m
  BY <1>1, RowOfMember
<1>3. /\ row \in MemberRow /\ row.id = m
      /\ row.balance = RowOf(m).balance /\ row.isActive = isActive
  BY <1>2 DEF MemberRow
<1> HIDE DEF row
<1>4. /\ Ids' = Ids
      /\ memberTable' \subseteq MemberRow
      /\ \A one, other \in memberTable' : one.id = other.id => one = other
      /\ RowOf(m)' = row
      /\ \A k \in Ids \ {m} : RowOf(k)' = RowOf(k)
  BY <1>1, <1>3, RowReplaced
<1>5. TablesOK'
  BY <1>1, <1>4 DEF TablesOK
<1>6. Members[m] = [balance |-> RowOf(m).balance, isActive |-> RowOf(m).isActive]
  BY <1>1, MappedMembers
<1>7. Members' = [Members EXCEPT ![m].isActive = isActive]
  BY <1>1, <1>3, <1>4, <1>6, MappedMembers
<1>8. Members[m] # NoRow
  <2>1. Members[m] \in [balance : 0..MaxInt64, isActive : BOOLEAN]
    BY <1>2, <1>6 DEF MemberRow
  <2>2. QED
    BY <2>1, MemberPageAssumption
<1>9. Transactions' = Transactions
  BY <1>1 DEF Transactions, LedgerOf
<1>10. Wallet!SetActive(m, isActive)
  BY <1>1, <1>7, <1>8, <1>9 DEF Wallet!SetActive
<1>11. \A k \in Ids : RowOf(k)'.balance = RowOf(k).balance
  BY <1>3, <1>4
<1>12. QED
  BY <1>4, <1>5, <1>10, <1>11 DEF WalletStep, Wallet!LedgerNext

\* A deletion takes one member away and leaves the other ledgers alone.
LEMMA DeleteKeepsTables ==
  ASSUME TablesOK, NEW m \in MemberIDs, Delete(m)
  PROVE  /\ TablesOK' /\ WalletStep
         /\ m \in Ids /\ Ids' = Ids \ {m}
         /\ \A k \in Ids' : RowOf(k)' = RowOf(k) /\ LedgerOf(k)' = LedgerOf(k)
<1>1. /\ m \in Ids /\ memberTable' = memberTable \ {RowOf(m)}
      /\ txTable' = Kept(txTable, MemberIDs \ {m})
      /\ UNCHANGED <<issuedIDs, now>>
  BY DEF Delete
<1>2. /\ Ids' = Ids \ {m}
      /\ memberTable' \subseteq MemberRow
      /\ \A one, other \in memberTable' : one.id = other.id => one = other
      /\ \A k \in Ids \ {m} : RowOf(k)' = RowOf(k)
  BY <1>1, RowDeleted
<1>3. /\ LedgerOf(m)' = <<>>
      /\ \A k \in MemberIDs \ {m} : LedgerOf(k)' = LedgerOf(k)
      /\ txTable' \in Seq(TxRow)
      /\ \A i \in DOMAIN txTable' : /\ txTable'[i].member \in Ids
                                    /\ txTable'[i].member # m
  BY <1>1, LedgersAfterDelete
<1>4. TablesOK'
  BY <1>1, <1>2, <1>3 DEF TablesOK
<1>5. Members' = [Members EXCEPT ![m] = NoRow]
  BY <1>2, MappedMembers
<1>6. Transactions' = [Transactions EXCEPT ![m] = <<>>]
  <2>1. AsLedger(LedgerOf(m)') = <<>>
    BY <1>3 DEF AsLedger
  <2>2. QED
    BY <1>3, <2>1, MappedTransactions
<1>7. Wallet!RemoveMember(m)
  BY <1>1, <1>5, <1>6 DEF Wallet!RemoveMember
<1>8. WalletStep
  BY <1>7 DEF WalletStep, Wallet!LedgerNext
<1>9. ASSUME NEW k \in Ids' PROVE RowOf(k)' = RowOf(k) /\ LedgerOf(k)' = LedgerOf(k)
  BY <1>2, <1>3 DEF TablesOK
<1>10. QED
  BY <1>1, <1>2, <1>4, <1>8, <1>9

\* Whatever leaves the tables alone.
LEMMA TablesKept ==
  ASSUME TablesOK, UNCHANGED <<memberTable, txTable, issuedIDs>>, now' \in 0..MaxTime
  PROVE  TablesOK' /\ WalletStep
<1>1. TablesOK'
  BY DEF TablesOK, Ids
<1>2. UNCHANGED Wallet!ledgerVars
  BY DEF Wallet!ledgerVars, Members, Transactions, LedgerOf, Ids, RowOf
<1>3. QED
  BY <1>1, <1>2 DEF WalletStep

\* Every step keeps the tables, and is one the wallet allows or leaves it alone.
LEMMA TablesStep == TablesOK /\ [Next]_vars => TablesOK' /\ WalletStep
<1> SUFFICES ASSUME TablesOK, [Next]_vars PROVE TablesOK' /\ WalletStep
  OBVIOUS
<1>1. now \in 0..MaxTime
  BY DEF TablesOK
<1>2. CASE Close \/ ListFails \/ List \/ UNCHANGED vars
  BY <1>1, <1>2, TablesKept DEF Close, ListFails, List, Answer, vars
<1>3. CASE ClockChanges
  BY <1>3, TablesKept DEF ClockChanges
<1>4. ASSUME NEW m \in MemberIDs, NEW kind \in {"detail", "card"}, Get(kind, m)
      PROVE  TablesOK' /\ WalletStep
  BY <1>1, <1>4, TablesKept DEF Get
<1>5. QED
  BY <1>2, <1>3, <1>4, CreateKeepsTables, PostKeepsTables, SetActiveKeepsTables,
     DeleteKeepsTables DEF Next

\* So do the initial states.
LEMMA TablesStart == Init => TablesOK /\ Wallet!LedgerInit
<1> SUFFICES ASSUME Init PROVE TablesOK /\ Wallet!LedgerInit
  OBVIOUS
<1>1. TablesOK
  BY MemberPageAssumption DEF Init, TablesOK, Ids
<1>2. Members = [m \in MemberIDs |-> NoRow]
  BY DEF Init, Members, Ids
<1>3. Transactions = [m \in MemberIDs |-> <<>>]
  <2>1. \A m \in MemberIDs : AsLedger(LedgerOf(m)) = <<>>
    BY KeptOfNone DEF Init, LedgerOf, AsLedger
  <2>2. QED
    BY <2>1, MappedTransactions
<1>4. QED
  BY <1>1, <1>2, <1>3 DEF Init, Wallet!LedgerInit

\* Ids stay a key of members, and no row of transactions loses its member.
THEOREM TablesInvariant == Spec => []TablesOK
  BY TablesStart, TablesStep, PTL DEF Spec

\* The shared table is, for each member, a ledger as the wallet promises it:
\* inserts, deletes and what the clock does to created_at included.
THEOREM PageImplementsWallet == Spec => ImplementsWallet
<1>1. TablesOK /\ [Next]_vars => [Wallet!LedgerNext]_(Wallet!ledgerVars)
  BY TablesStep DEF WalletStep
<1>2. QED
  BY <1>1, TablesStart, TablesInvariant, PTL DEF Spec, ImplementsWallet, Wallet!LedgerSpec

-----------------------------------------------------------------------------
(* Places in a list.                                                       *)

\* Min and Max of places are places.
LEMMA MinOfPlaces ==
  ASSUME NEW n \in Nat, NEW T \in SUBSET (1..n), T # {}
  PROVE  Min(T) \in T /\ \A i \in T : Min(T) <= i
<1>1. T \subseteq Nat
  OBVIOUS
<1>2. \E i \in T : \A j \in T : i <= j
  BY <1>1, FactsApply, Facts!LeastNumber
<1>3. QED
  BY <1>2 DEF Min

\* The same backwards.
LEMMA MaxOfPlaces ==
  ASSUME NEW n \in Nat, NEW T \in SUBSET (1..n), T # {}
  PROVE  Max(T) \in T /\ \A i \in T : i <= Max(T)
<1> DEFINE R == {n + 1 - i : i \in T}
<1>1. R \in SUBSET (1..n) /\ R # {}
  <2>1. \A i \in T : i \in 1..n
    OBVIOUS
  <2>2. \A i \in 1..n : n + 1 - i \in 1..n
    OBVIOUS
  <2>3. QED
    BY <2>1, <2>2
<1> HIDE DEF R
<1>2. Min(R) \in R /\ \A i \in R : Min(R) <= i
  BY <1>1, MinOfPlaces
<1>3. PICK k \in T : Min(R) = n + 1 - k
  BY <1>2 DEF R
<1>4. \A i \in T : n + 1 - k <= n + 1 - i
  BY <1>2, <1>3 DEF R
<1>5. \A i \in T : k >= i
  <2>1. k \in 1..n /\ \A i \in T : i \in 1..n
    OBVIOUS
  <2>2. QED
    BY <1>4, <2>1
<1>6. Max(T) \in T /\ \A i \in T : Max(T) >= i
  BY <1>5 DEF Max
<1>7. QED
  BY <1>6

-----------------------------------------------------------------------------
(* Totals.                                                                 *)

SumOf(w, S) == Facts!SumFunctionOnSet(w, S)

\* The places of a list are finitely many.
LEMMA PlacesFinite ==
  ASSUME NEW n \in Nat
  PROVE  Facts!IsFiniteSet(1..n)
<1>1. IsFiniteSet(1..n)
  BY FS_Interval
<1>2. QED
  BY <1>1 DEF IsFiniteSet, Facts!IsFiniteSet

\* The sum of w over a part of S, one element after the other.
SumsUp(w, S) ==
  /\ \A T \in SUBSET S : SumOf(w, T) \in Int
  /\ SumOf(w, {}) = 0
  /\ \A T \in SUBSET S : \A i \in T : SumOf(w, T) = w[i] + SumOf(w, T \ {i})

\* SumOf does that.
LEMMA SumRemoves ==
  ASSUME NEW S, Facts!IsFiniteSet(S), NEW w, \A i \in S : w[i] \in Int
  PROVE  SumsUp(w, S)
  BY FactsApply, Facts!SumRemoves DEF SumOf, SumsUp

\* Induction on the places of a list.
LEMMA PlacesInduction ==
  ASSUME NEW n \in Nat, NEW X,
         \A T \in SUBSET (1..n) : (\A i \in T : T \ {i} \in X) => T \in X
  PROVE  1..n \in X
<1> DEFINE S == 1..n
<1>1. Facts!IsFiniteSet(S) /\ \A T \in SUBSET S : (\A i \in T : T \ {i} \in X) => T \in X
  BY PlacesFinite
<1> HIDE DEF S
<1>2. \A T \in SUBSET S : T \in X
  BY <1>1, FactsApply, Facts!SetInduction
<1>3. QED
  BY <1>2 DEF S

\* The columns of a row that the totals read.
LEMMA AmountOfRow ==
  ASSUME NEW row \in TxRow
  PROVE  row.amount \in Nat /\ row.type \in {"charge", "deduct"}
<1>1. row.amount \in Amounts /\ row.type \in {"charge", "deduct"}
  BY DEF TxRow
<1>2. row.amount \in 1..MaxInt64 /\ MaxInt64 \in Nat
  BY <1>1, MemberPageAssumption
<1>3. QED
  BY <1>1, <1>2

\* What a row adds to the total of a type.
OfType(type, rows) ==
  [i \in DOMAIN rows |-> IF rows[i].type = type THEN rows[i].amount ELSE 0]

\* The loop of buildMemberView adds up the rows of a type.
LEMMA TotalIsSum ==
  ASSUME NEW rows \in Seq(TxRow), NEW type
  PROVE  Total(type, rows) = SumOf(OfType(type, rows), DOMAIN rows)
<1> DEFINE n == Len(rows)
           w == OfType(type, rows)
           F(h) == [T \in SUBSET DOMAIN rows |->
                      IF T = {} THEN 0
                      ELSE LET x == Max(T)
                           IN  IF rows[x].type = type THEN h[T \ {x}] + rows[x].amount
                               ELSE h[T \ {x}]]
           g == [T \in SUBSET DOMAIN rows |-> SumOf(w, T)]
<1>1. n \in Nat /\ DOMAIN rows = 1..n
  OBVIOUS
<1>2. \A i \in 1..n : /\ w[i] \in Int
                      /\ w[i] = IF rows[i].type = type THEN rows[i].amount ELSE 0
  <2>1. \A i \in 1..n : rows[i] \in TxRow
    OBVIOUS
  <2>2. \A i \in 1..n : rows[i].amount \in Nat
    BY <2>1, AmountOfRow
  <2>3. QED
    BY <1>1, <2>2 DEF OfType
<1> HIDE DEF n, w
<1>3. /\ \A T \in SUBSET (1..n) : SumOf(w, T) \in Int
      /\ SumOf(w, {}) = 0
      /\ \A T \in SUBSET (1..n) : \A i \in T : SumOf(w, T) = w[i] + SumOf(w, T \ {i})
  <2> DEFINE S == 1..n
  <2>1. \A i \in S : w[i] \in Int
    BY <1>2
  <2>2. Facts!IsFiniteSet(S)
    BY <1>1, PlacesFinite
  <2> HIDE DEF S, F, g
  <2>3. SumsUp(w, S)
    BY <2>1, <2>2, SumRemoves
  <2>4. QED
    BY <2>3 DEF S, SumsUp
<1>4. ASSUME NEW T \in SUBSET (1..n), T # {}, NEW h, h[T \ {Max(T)}] = SumOf(w, T \ {Max(T)})
      PROVE  SumOf(w, T) = IF rows[Max(T)].type = type
                           THEN h[T \ {Max(T)}] + rows[Max(T)].amount
                           ELSE h[T \ {Max(T)}]
  <2> DEFINE x == Max(T)
  <2>1. x \in T
    BY <1>1, <1>4, MaxOfPlaces
  <2> HIDE DEF x
  <2>2. /\ SumOf(w, T) = w[x] + SumOf(w, T \ {x})
        /\ SumOf(w, T \ {x}) \in Int /\ x \in 1..n
    BY <1>3, <2>1
  <2>3. h[T \ {x}] = SumOf(w, T \ {x})
    BY <1>4 DEF x
  <2>4. SumOf(w, T) = IF rows[x].type = type THEN h[T \ {x}] + rows[x].amount
                      ELSE h[T \ {x}]
    BY <1>2, <2>2, <2>3
  <2>5. QED
    BY <2>4 DEF x
<1>5. g = F(g)
  <2> SUFFICES ASSUME NEW T \in SUBSET DOMAIN rows PROVE g[T] = F(g)[T]
    OBVIOUS
  <2>1. CASE T = {}
    BY <1>3, <2>1
  <2>2. CASE T # {}
    <3>1. g[T \ {Max(T)}] = SumOf(w, T \ {Max(T)})
      OBVIOUS
    <3>2. T \in SUBSET (1..n)
      BY <1>1
    <3>3. g[T] = SumOf(w, T)
      OBVIOUS
    <3> HIDE DEF g
    <3>4. QED
      BY <1>4, <2>2, <3>1, <3>2, <3>3
  <2>3. QED
    BY <2>1, <2>2
<1> DEFINE h == CHOOSE f : f = F(f)
<1>6. h = F(h)
  BY <1>5
<1>7. Total(type, rows) = h[DOMAIN rows]
  BY DEF Total, FoldLeft, MapThenFoldSet
<1> DEFINE X == {T \in SUBSET (1..n) : h[T] = SumOf(w, T)}
<1>8. ASSUME NEW T \in SUBSET (1..n), \A i \in T : T \ {i} \in X PROVE T \in X
  <2> HIDE DEF h
  <2>1. CASE T = {}
    BY <1>1, <1>3, <1>6, <2>1
  <2>2. CASE T # {}
    <3>1. Max(T) \in T
      BY <1>1, <2>2, MaxOfPlaces
    <3>2. h[T \ {Max(T)}] = SumOf(w, T \ {Max(T)})
      BY <1>8, <3>1
    <3>3. h[T] = IF rows[Max(T)].type = type THEN h[T \ {Max(T)}] + rows[Max(T)].amount
                 ELSE h[T \ {Max(T)}]
      BY <1>1, <1>6, <2>2
    <3>4. QED
      BY <1>4, <2>2, <3>2, <3>3
  <2>3. QED
    BY <2>1, <2>2
<1>9. 1..n \in X
  <2> HIDE DEF X
  <2>1. QED
    BY <1>1, <1>8, PlacesInduction
<1>10. QED
  BY <1>1, <1>7, <1>9 DEF w

\* What a row adds is a number.
LEMMA OfTypeValues ==
  ASSUME NEW rows \in Seq(TxRow), NEW type, NEW i \in 1..Len(rows)
  PROVE  /\ OfType(type, rows)[i] \in Nat
         /\ OfType(type, rows)[i] = IF rows[i].type = type THEN rows[i].amount ELSE 0
<1>1. rows[i] \in TxRow
  OBVIOUS
<1>2. rows[i].amount \in Nat
  BY <1>1, AmountOfRow
<1>3. QED
  BY <1>2 DEF OfType

\* No rows, no total.
LEMMA TotalOfNone ==
  ASSUME NEW type
  PROVE  Total(type, <<>>) = 0
<1> DEFINE none == <<>>
<1>1. none \in Seq(TxRow) /\ DOMAIN none = {}
  OBVIOUS
<1>2. SumOf(OfType(type, none), {}) = 0
  <2> DEFINE S == 1..0
             w == OfType(type, none)
  <2>1. Facts!IsFiniteSet(S) /\ S = {}
    BY PlacesFinite
  <2> HIDE DEF S, w
  <2>2. \A i \in S : w[i] \in Int
    BY <2>1
  <2>3. QED
    BY <2>1, <2>2, SumRemoves DEF w, SumsUp
<1> HIDE DEF none
<1>3. Total(type, none) = 0
  BY <1>1, <1>2, TotalIsSum
<1>4. QED
  BY <1>3 DEF none

\* A total is a number.
LEMMA TotalIsNat ==
  ASSUME NEW rows \in Seq(TxRow), NEW type
  PROVE  Total(type, rows) \in Nat
<1> DEFINE S == DOMAIN rows
           w == OfType(type, rows)
<1>1. Facts!IsFiniteSet(S)
  BY PlacesFinite
<1>2. \A i \in S : w[i] \in Nat
  BY OfTypeValues
<1>3. Total(type, rows) = SumOf(w, S)
  BY TotalIsSum
<1> HIDE DEF S, w
<1>4. S \in SUBSET S
  OBVIOUS
<1>5. Facts!SumFunctionOnSet(w, S) \in Nat
  BY <1>1, <1>2, <1>4, FactsApply, Facts!SumGrows
<1>6. QED
  BY <1>3, <1>5 DEF SumOf

\* A row more adds its amount to the total of its type.
LEMMA TotalOfAppend ==
  ASSUME NEW rows \in Seq(TxRow), NEW row \in TxRow, NEW type
  PROVE  Total(type, Append(rows, row)) =
           Total(type, rows) + (IF row.type = type THEN row.amount ELSE 0)
<1> DEFINE more == Append(rows, row)
           last == Len(rows) + 1
           S == 1..Len(rows)
           w == OfType(type, rows)
           v == OfType(type, more)
<1>1. /\ more \in Seq(TxRow) /\ Len(more) = last /\ more[last] = row
      /\ \A i \in S : more[i] = rows[i]
  OBVIOUS
<1>2. /\ DOMAIN rows = S /\ DOMAIN more = S \cup {last} /\ last \notin S
      /\ last \in 1..Len(more) /\ \A i \in S : i \in 1..Len(more)
  BY <1>1
<1>3. Facts!IsFiniteSet(S)
  BY PlacesFinite
<1>4. Total(type, rows) = SumOf(w, S)
  BY <1>2, TotalIsSum
<1>5. \A i \in S : w[i] \in Nat /\ w[i] = IF rows[i].type = type THEN rows[i].amount ELSE 0
  BY OfTypeValues
<1> HIDE DEF w, more
<1>6. Total(type, more) = SumOf(v, S \cup {last})
  BY <1>1, <1>2, TotalIsSum
<1>7. \A i \in S \cup {last} :
        v[i] \in Nat /\ v[i] = IF more[i].type = type THEN more[i].amount ELSE 0
  BY <1>1, <1>2, OfTypeValues
<1> HIDE DEF v, S, last
<1>8. \A i \in S : w[i] \in Int /\ w[i] = v[i]
  BY <1>1, <1>5, <1>7
<1>9. Facts!SumFunctionOnSet(v, S) = Facts!SumFunctionOnSet(w, S)
  BY <1>3, <1>8, FactsApply, Facts!SumSameValues
<1>10. v[last] \in Int /\ \A i \in S : v[i] \in Int
  BY <1>7
<1>11. /\ Facts!SumFunctionOnSet(v, S) \in Int
       /\ Facts!SumFunctionOnSet(v, S \cup {last}) = v[last] + Facts!SumFunctionOnSet(v, S)
  BY <1>2, <1>3, <1>10, FactsApply, Facts!SumAdds
<1>12. v[last] = IF row.type = type THEN row.amount ELSE 0
  BY <1>1, <1>7
<1>13. Total(type, more) = Total(type, rows) + v[last]
  BY <1>4, <1>6, <1>9, <1>10, <1>11 DEF SumOf
<1>14. QED
  BY <1>12, <1>13 DEF more

\* An order of the places of a list reaches each of them.
LEMMA OrderReachesAll ==
  ASSUME NEW n \in Nat, NEW s \in [1..n -> 1..n], \A i, j \in 1..n : i # j => s[i] # s[j]
  PROVE  \A j \in 1..n : \E i \in 1..n : s[i] = j
<1> DEFINE S == 1..n
<1>1. IsFiniteSet(S)
  BY FS_Interval
<1>2. s \in Injection(S, S)
  BY DEF Injection, IsInjective
<1> HIDE DEF S
<1>3. s \in Surjection(S, S)
  BY <1>1, <1>2, FS_Injection
<1>4. \A j \in S : \E i \in S : s[i] = j
  BY <1>3 DEF Surjection
<1>5. QED
  BY <1>4 DEF S

\* The totals do not depend on the order.
LEMMA TotalOfOrder ==
  ASSUME NEW ledger \in Seq(TxRow), NEW rows \in Seq(TxRow), Len(rows) = Len(ledger),
         NEW s \in [1..Len(ledger) -> 1..Len(ledger)],
         \A i, j \in 1..Len(ledger) : i # j => s[i] # s[j],
         \A i \in 1..Len(ledger) : rows[i] = ledger[s[i]],
         NEW type
  PROVE  Total(type, rows) = Total(type, ledger)
<1> DEFINE S == 1..Len(ledger)
           w == OfType(type, ledger)
           v == OfType(type, rows)
           at(T) == {i \in S : s[i] \in T}
           h == [T \in SUBSET S |-> SumOf(v, at(T))]
<1>1. Len(ledger) \in Nat /\ DOMAIN ledger = S /\ DOMAIN rows = S
  OBVIOUS
<1>2. Facts!IsFiniteSet(S)
  BY PlacesFinite
<1>3. Total(type, ledger) = SumOf(w, S) /\ Total(type, rows) = SumOf(v, S)
  BY <1>1, TotalIsSum
<1>4. \A i \in S : s[i] \in S /\ w[i] \in Int /\ v[i] \in Int /\ v[i] = w[s[i]]
  <2>1. \A i \in S : s[i] \in S
    OBVIOUS
  <2>2. \A i \in S : w[i] \in Nat /\ w[i] = IF ledger[i].type = type THEN ledger[i].amount ELSE 0
    BY OfTypeValues
  <2>3. \A i \in S : v[i] \in Nat /\ v[i] = IF rows[i].type = type THEN rows[i].amount ELSE 0
    BY OfTypeValues
  <2>4. \A i \in S : rows[i] = ledger[s[i]]
    OBVIOUS
  <2> HIDE DEF w, v, S
  <2>5. \A i \in S : v[i] = w[s[i]]
    BY <2>1, <2>2, <2>3, <2>4
  <2>6. QED
    BY <2>1, <2>2, <2>3, <2>5
<1>5. \A j \in S : \E i \in S : s[i] = j
  BY <1>1, OrderReachesAll
<1>6. \A i, j \in S : s[i] = s[j] => i = j
  OBVIOUS
<1> HIDE DEF S, w, v
<1>7. \A i \in S : v[i] \in Int
  BY <1>4
<1>8. /\ SumOf(v, {}) = 0
      /\ \A T \in SUBSET S : \A i \in T : SumOf(v, T) = v[i] + SumOf(v, T \ {i})
  <2>1. SumsUp(v, S)
    BY <1>2, <1>7, SumRemoves
  <2>2. QED
    BY <2>1 DEF SumsUp
<1>9. ASSUME NEW T \in SUBSET S, T # {} PROVE \E j \in T : h[T] = w[j] + h[T \ {j}]
  <2>1. PICK j \in T : TRUE
    BY <1>9
  <2>2. PICK i \in S : s[i] = j
    BY <1>5, <2>1
  <2>3. i \in at(T) /\ at(T) \in SUBSET S
    BY <2>2
  <2>4. at(T \ {j}) = at(T) \ {i}
    BY <1>6, <2>2
  <2>5. v[i] = w[j]
    BY <1>4, <2>2
  <2>6. h[T] = SumOf(v, at(T)) /\ h[T \ {j}] = SumOf(v, at(T) \ {i})
    BY <2>4
  <2> HIDE DEF h, at
  <2>7. SumOf(v, at(T)) = v[i] + SumOf(v, at(T) \ {i})
    BY <1>8, <2>3
  <2>8. QED
    BY <2>5, <2>6, <2>7
<1>10. h[{}] = 0
  <2>1. at({}) = {}
    OBVIOUS
  <2> HIDE DEF at
  <2>2. QED
    BY <1>8, <2>1
<1>11. h[S] = SumOf(v, S)
  <2>1. at(S) = S
    BY <1>4
  <2> HIDE DEF at
  <2>2. QED
    BY <2>1
<1> HIDE DEF h
<1>12. \A i \in S : w[i] \in Int
  BY <1>4
<1>13. h[S] = Facts!SumFunctionOnSet(w, S)
  BY <1>2, <1>9, <1>10, <1>12, FactsApply, Facts!AnyOrderSums
<1>14. QED
  BY <1>3, <1>11, <1>13 DEF SumOf

-----------------------------------------------------------------------------
(* The rows a page gets.                                                   *)

\* s is one of the orders of a ledger, newest first, that SQLite may give.
IsOrder(s, ledger) ==
  /\ s \in [1..Len(ledger) -> 1..Len(ledger)]
  /\ \A i, j \in 1..Len(ledger) : i # j => s[i] # s[j]
  /\ \A i \in 1..(Len(ledger) - 1) : InOrder(ledger[s[i]], ledger[s[i + 1]])

\* rows are a list of a ledger, cut off at the limit.
AreListed(rows, ledger) ==
  /\ rows \in Seq(TxRow)
  /\ Len(rows) = IF Len(ledger) < ListLimit THEN Len(ledger) ELSE ListLimit
  /\ \E s : IsOrder(s, ledger) /\ \A i \in 1..Len(rows) : rows[i] = ledger[s[i]]

\* That is what ListTransactionsByMember answers.
LEMMA ListedRows ==
  ASSUME NEW m, LedgerOf(m) \in Seq(TxRow), NEW rows \in ListTransactionsByMember(m)
  PROVE  AreListed(rows, LedgerOf(m))
<1> DEFINE ledger == LedgerOf(m)
           n == Len(ledger)
           limit == IF n < ListLimit THEN n ELSE ListLimit
<1>1. ledger \in Seq(TxRow) /\ n \in Nat /\ DOMAIN ledger = 1..n
  OBVIOUS
<1>2. PICK s \in SetToSeqs(DOMAIN ledger) :
        /\ \A i \in 1..(Len(s) - 1) : InOrder(ledger[s[i]], ledger[s[i + 1]])
        /\ rows = [i \in 1..limit |-> ledger[s[i]]]
  BY DEF ListTransactionsByMember
<1> HIDE DEF ledger
<1> HIDE DEF n
<1>3. Cardinality(1..n) = n
  <2> HIDE DEF limit
  <2>1. 1 \in Int /\ n \in Int
    BY <1>1
  <2>2. Cardinality(1..n) = IF 1 > n THEN 0 ELSE n - 1 + 1
    BY ONLY <2>1, FS_Interval
  <2>3. QED
    BY <1>1, <2>2
<1>4. s \in [1..n -> 1..n] /\ \A i, j \in 1..n : i # j => s[i] # s[j]
  BY <1>1, <1>2, <1>3 DEF SetToSeqs
<1>5. Len(s) = n
  BY <1>1, <1>4
<1>6. limit \in 0..n
  BY <1>1, MemberPageAssumption
<1> HIDE DEF limit
<1>7. \A i \in 1..limit : s[i] \in 1..n
  BY <1>1, <1>4, <1>6
<1>8. \A i \in 1..limit : ledger[s[i]] \in TxRow
  <2>1. \A j \in 1..n : ledger[j] \in TxRow
    BY <1>1
  <2>2. QED
    BY <1>7, <2>1
<1>9. /\ rows \in Seq(TxRow) /\ Len(rows) = limit
      /\ \A i \in 1..limit : rows[i] = ledger[s[i]]
  BY <1>1, <1>2, <1>6, <1>8
<1>10. IsOrder(s, ledger)
  BY <1>2, <1>4, <1>5 DEF IsOrder, n
<1>11. QED
  BY <1>9, <1>10 DEF AreListed, limit, n, ledger

\* A list that is not cut off has the totals of the ledger.
LEMMA ListTotals ==
  ASSUME NEW ledger \in Seq(TxRow), NEW rows, AreListed(rows, ledger),
         Len(rows) < ListLimit, NEW type
  PROVE  Total(type, rows) = Total(type, ledger)
<1>1. Len(ledger) \in Nat /\ ListLimit \in Nat
  BY MemberPageAssumption
<1>2. rows \in Seq(TxRow) /\ Len(rows) = Len(ledger)
  BY <1>1 DEF AreListed
<1>3. PICK s : IsOrder(s, ledger) /\ \A i \in 1..Len(rows) : rows[i] = ledger[s[i]]
  BY DEF AreListed
<1>4. /\ s \in [1..Len(ledger) -> 1..Len(ledger)]
      /\ \A i, j \in 1..Len(ledger) : i # j => s[i] # s[j]
      /\ \A i \in 1..Len(ledger) : rows[i] = ledger[s[i]]
  BY <1>2, <1>3 DEF IsOrder
<1>5. QED
  BY <1>2, <1>4, TotalOfOrder

\* What grows from one place to the next grows from each to each later one.
LEMMA Increasing ==
  ASSUME NEW n \in Nat, NEW c, \A i \in 1..n : c[i] \in Int,
         \A i \in 1..(n - 1) : c[i] < c[i + 1]
  PROVE  \A i, j \in 1..n : i < j => c[i] < c[j]
<1> DEFINE T == {k \in Nat : \A i \in 1..n : i + k + 1 <= n => c[i] < c[i + k + 1]}
<1>1. 0 \in T
  OBVIOUS
<1>2. ASSUME NEW k \in Nat, k \in T PROVE k + 1 \in T
  <2> SUFFICES ASSUME NEW i \in 1..n, i + (k + 1) + 1 <= n
               PROVE  c[i] < c[i + (k + 1) + 1]
    OBVIOUS
  <2> DEFINE j == i + k + 1
  <2>1. j \in 1..(n - 1) /\ j \in 1..n /\ j + 1 \in 1..n /\ i + (k + 1) + 1 = j + 1
    OBVIOUS
  <2>2. c[i] < c[j]
    BY <1>2, <2>1
  <2> HIDE DEF j
  <2>3. c[j] < c[j + 1]
    BY <2>1
  <2>4. c[i] \in Int /\ c[j] \in Int /\ c[j + 1] \in Int
    BY <2>1
  <2>5. c[i] < c[j + 1]
    BY <2>2, <2>3, <2>4
  <2>6. QED
    BY <2>1, <2>5
<1> HIDE DEF T
<1>3. Nat \subseteq T
  BY <1>1, <1>2, Induction
<1>4. ASSUME NEW i \in 1..n, NEW j \in 1..n, i < j PROVE c[i] < c[j]
  <2> DEFINE k == j - i - 1
  <2>1. k \in Nat /\ i + k + 1 = j
    BY <1>4
  <2>2. k \in T
    BY <1>3, <2>1
  <2> HIDE DEF k
  <2>3. i + k + 1 <= n => c[i] < c[i + k + 1]
    BY <2>2 DEF T
  <2>4. QED
    BY <2>1, <2>3
<1>5. QED
  BY <1>4

\* Numbers from 1 to n that fall n - 1 times fall by one each time.
LEMMA Falling ==
  ASSUME NEW n \in Nat, NEW s \in [1..n -> 1..n], \A i \in 1..(n - 1) : s[i + 1] < s[i]
  PROVE  \A i \in 1..n : s[i] = n + 1 - i
<1>1. \A i \in 1..n : s[i] \in Int /\ 1 <= s[i] /\ s[i] <= n
  OBVIOUS
<1> DEFINE U == {k \in Nat : k + 1 <= n => s[k + 1] <= n - k}
           D == {k \in Nat : k + 1 <= n => s[n - k] >= k + 1}
<1>2. 0 \in U /\ 0 \in D
  BY <1>1
<1>3. ASSUME NEW k \in Nat, k \in U PROVE k + 1 \in U
  <2> SUFFICES ASSUME (k + 1) + 1 <= n PROVE s[(k + 1) + 1] <= n - (k + 1)
    OBVIOUS
  <2>1. k + 1 \in 1..(n - 1) /\ k + 1 \in 1..n /\ (k + 1) + 1 \in 1..n
    OBVIOUS
  <2>2. s[k + 1] <= n - k
    BY <1>3
  <2>3. s[(k + 1) + 1] < s[k + 1]
    BY <2>1
  <2>4. s[k + 1] \in Int /\ s[(k + 1) + 1] \in Int
    BY <1>1, <2>1
  <2>5. QED
    BY <2>2, <2>3, <2>4
<1>4. ASSUME NEW k \in Nat, k \in D PROVE k + 1 \in D
  <2> SUFFICES ASSUME (k + 1) + 1 <= n PROVE s[n - (k + 1)] >= (k + 1) + 1
    OBVIOUS
  <2> DEFINE j == n - (k + 1)
  <2>1. j \in 1..(n - 1) /\ j \in 1..n /\ j + 1 \in 1..n /\ n - k = j + 1
    OBVIOUS
  <2>2. s[n - k] >= k + 1
    BY <1>4
  <2> HIDE DEF j
  <2>3. s[j + 1] < s[j]
    BY <2>1
  <2>4. s[j] \in Int /\ s[j + 1] \in Int
    BY <1>1, <2>1
  <2>5. s[j] >= (k + 1) + 1
    BY <2>1, <2>2, <2>3, <2>4
  <2>6. QED
    BY <2>5 DEF j
<1> HIDE DEF U, D
<1>5. Nat \subseteq U
  BY <1>2, <1>3, Induction
<1>6. Nat \subseteq D
  BY <1>2, <1>4, Induction
<1>7. ASSUME NEW i \in 1..n PROVE s[i] = n + 1 - i
  <2> DEFINE u == i - 1
             d == n - i
  <2>1. /\ u \in Nat /\ d \in Nat /\ u + 1 = i /\ n - d = i
        /\ u + 1 <= n /\ d + 1 <= n /\ n - u = n + 1 - i /\ d + 1 = n + 1 - i
    OBVIOUS
  <2>2. u \in U /\ d \in D
    BY <1>5, <1>6, <2>1
  <2> HIDE DEF u, d
  <2>3. s[u + 1] <= n - u /\ s[n - d] >= d + 1
    BY <2>1, <2>2 DEF U, D
  <2>4. s[i] <= n + 1 - i /\ s[i] >= n + 1 - i
    BY <2>1, <2>3
  <2>5. QED
    BY <1>1, <2>4
<1>8. QED
  BY <1>7

\* If the clock moved on between the rows, there is one order: backwards.
LEMMA OrderIsReverse ==
  ASSUME NEW ledger \in Seq(TxRow), Ordered(ledger), NEW s, IsOrder(s, ledger)
  PROVE  \A i \in 1..Len(ledger) : s[i] = Len(ledger) + 1 - i
<1> DEFINE n == Len(ledger)
           c == [i \in 1..n |-> ledger[i].createdAt]
<1>1. n \in Nat /\ \A i \in 1..n : ledger[i] \in TxRow
  OBVIOUS
<1>2. /\ s \in [1..n -> 1..n]
      /\ \A i, j \in 1..n : i # j => s[i] # s[j]
      /\ \A i \in 1..(n - 1) : InOrder(ledger[s[i]], ledger[s[i + 1]])
  BY DEF IsOrder
<1>3. \A i \in 1..(n - 1) : ledger[i].createdAt < ledger[i + 1].createdAt
  BY DEF Ordered
<1> HIDE DEF n
<1>4. \A i \in 1..n : c[i] \in Int /\ c[i] = ledger[i].createdAt
  BY <1>1, MemberPageAssumption DEF TxRow
<1>5. \A i \in 1..(n - 1) : i \in 1..n /\ i + 1 \in 1..n
  BY <1>1
<1> HIDE DEF c
<1>6. \A i \in 1..(n - 1) : c[i] < c[i + 1]
  BY <1>3, <1>4, <1>5
<1>7. \A i, j \in 1..n : i < j => c[i] < c[j]
  BY <1>1, <1>4, <1>6, Increasing
<1>8. ASSUME NEW i \in 1..(n - 1) PROVE s[i + 1] < s[i]
  <2>1. i \in 1..n /\ i + 1 \in 1..n /\ i # i + 1
    BY <1>5
  <2>2. s[i] \in 1..n /\ s[i + 1] \in 1..n /\ s[i] # s[i + 1]
    BY <1>2, <2>1
  <2>3. c[s[i]] >= c[s[i + 1]]
    BY <1>2, <1>4, <2>2 DEF InOrder
  <2>4. ~ (s[i] < s[i + 1])
    BY <1>4, <1>7, <2>2, <2>3
  <2>5. QED
    BY <2>2, <2>4
<1>9. \A i \in 1..n : s[i] = n + 1 - i
  BY <1>1, <1>2, <1>8, Falling
<1>10. QED
  BY <1>9 DEF n

\* The first row of a type, and the last one.
IsFirst(row, type, rows) ==
  \/ row = NoRow /\ \A i \in 1..Len(rows) : rows[i].type # type
  \/ \E i \in 1..Len(rows) :
       /\ row = rows[i] /\ rows[i].type = type
       /\ \A j \in 1..Len(rows) : rows[j].type = type => i <= j

IsLast(row, type, rows) ==
  \/ row = NoRow /\ \A i \in 1..Len(rows) : rows[i].type # type
  \/ \E i \in 1..Len(rows) :
       /\ row = rows[i] /\ rows[i].type = type
       /\ \A j \in 1..Len(rows) : rows[j].type = type => j <= i

\* First finds the first one.
LEMMA FirstIsFirst ==
  ASSUME NEW rows \in Seq(TxRow), NEW type
  PROVE  IsFirst(First(type, rows), type, rows) /\ First(type, rows) \in TxRow \cup {NoRow}
<1> DEFINE n == Len(rows)
           T == {i \in 1..n : rows[i].type = type}
<1>1. n \in Nat /\ T \in SUBSET (1..n) /\ \A i \in 1..n : rows[i] \in TxRow
  OBVIOUS
<1>2. CASE T = {}
  <2>1. First(type, rows) = NoRow
    BY <1>2 DEF First, SelectInSeq
  <2>2. QED
    BY <1>2, <2>1 DEF IsFirst
<1>3. CASE T # {}
  <2> DEFINE i == Min(T)
  <2>1. i \in T /\ \A j \in T : i <= j
    <3> HIDE DEF T, n
    <3>1. QED
      BY <1>1, <1>3, MinOfPlaces
  <2>2. First(type, rows) = IF i = 0 THEN NoRow ELSE rows[i]
    BY <1>3 DEF First, SelectInSeq
  <2> HIDE DEF i
  <2>3. i # 0 /\ i \in 1..n
    BY <2>1
  <2>4. First(type, rows) = rows[i]
    BY <2>2, <2>3
  <2>5. QED
    BY <1>1, <2>1, <2>3, <2>4 DEF IsFirst
<1>4. QED
  BY <1>2, <1>3

\* LastOf finds the last one.
LEMMA LastIsLast ==
  ASSUME NEW rows \in Seq(TxRow), NEW type
  PROVE  IsLast(LastOf(type, rows), type, rows)
<1> DEFINE n == Len(rows)
           T == {i \in 1..n : rows[i].type = type}
<1>1. n \in Nat /\ T \in SUBSET (1..n)
  OBVIOUS
<1>2. CASE T = {}
  <2>1. LastOf(type, rows) = NoRow
    BY <1>2 DEF LastOf, SelectLastInSeq
  <2>2. QED
    BY <1>2, <2>1 DEF IsLast
<1>3. CASE T # {}
  <2> DEFINE i == Max(T)
  <2>1. i \in T /\ \A j \in T : j <= i
    <3> HIDE DEF T, n
    <3>1. QED
      BY <1>1, <1>3, MaxOfPlaces
  <2>2. LastOf(type, rows) = IF i = 0 THEN NoRow ELSE rows[i]
    BY <1>3 DEF LastOf, SelectLastInSeq
  <2> HIDE DEF i
  <2>3. i # 0 /\ i \in 1..n
    BY <2>1
  <2>4. LastOf(type, rows) = rows[i]
    BY <2>2, <2>3
  <2>5. QED
    BY <1>1, <2>1, <2>3, <2>4 DEF IsLast
<1>4. QED
  BY <1>2, <1>3

\* There is one last row of a type.
LEMMA LastIsUnique ==
  ASSUME NEW rows \in Seq(TxRow), NEW type, NEW one, NEW other,
         IsLast(one, type, rows), IsLast(other, type, rows)
  PROVE  one = other
<1>1. Len(rows) \in Nat
  OBVIOUS
<1>2. CASE \A i \in 1..Len(rows) : rows[i].type # type
  BY <1>2 DEF IsLast
<1>3. CASE ~ \A i \in 1..Len(rows) : rows[i].type # type
  <2>1. PICK i \in 1..Len(rows) :
          /\ one = rows[i] /\ rows[i].type = type
          /\ \A j \in 1..Len(rows) : rows[j].type = type => j <= i
    BY <1>3 DEF IsLast
  <2>2. PICK k \in 1..Len(rows) :
          /\ other = rows[k] /\ rows[k].type = type
          /\ \A j \in 1..Len(rows) : rows[j].type = type => j <= k
    BY <1>3 DEF IsLast
  <2>3. i <= k /\ k <= i
    BY <2>1, <2>2
  <2>4. QED
    BY <2>1, <2>2, <2>3
<1>4. QED
  BY <1>2, <1>3

\* The first row of a type in the list is the last one of the ledger.
LEMMA FirstListedIsLast ==
  ASSUME NEW ledger \in Seq(TxRow), Ordered(ledger), NEW rows, AreListed(rows, ledger),
         NEW type
  PROVE  \/ First(type, rows) = LastOf(type, ledger)
         \/ First(type, rows) = NoRow /\ Len(rows) = ListLimit
<1> DEFINE n == Len(ledger)
           row == First(type, rows)
<1>1. n \in Nat /\ ListLimit \in Nat /\ rows \in Seq(TxRow)
  BY MemberPageAssumption DEF AreListed
<1>2. Len(rows) \in Nat /\ Len(rows) <= n /\ (Len(rows) = n \/ Len(rows) = ListLimit)
  BY <1>1 DEF AreListed
<1>3. PICK s : IsOrder(s, ledger) /\ \A i \in 1..Len(rows) : rows[i] = ledger[s[i]]
  BY DEF AreListed
<1>4. \A i \in 1..n : s[i] = n + 1 - i
  BY <1>3, OrderIsReverse
<1>5. IsFirst(row, type, rows)
  BY <1>1, FirstIsFirst
<1> HIDE DEF row, n
<1>6. \A i \in 1..Len(rows) : i \in 1..n /\ n + 1 - i \in 1..n /\ rows[i] = ledger[n + 1 - i]
  BY <1>1, <1>2, <1>3, <1>4
<1>7. CASE row = NoRow /\ \A i \in 1..Len(rows) : rows[i].type # type
  <2>1. CASE Len(rows) = n
    <3>1. ASSUME NEW j \in 1..n PROVE ledger[j].type # type
      <4> DEFINE i == n + 1 - j
      <4>1. i \in 1..Len(rows) /\ n + 1 - i = j
        BY <1>1, <2>1
      <4> HIDE DEF i
      <4>2. QED
        BY <1>6, <1>7, <4>1
    <3>2. IsLast(row, type, ledger)
      BY <1>7, <3>1 DEF IsLast, n
    <3>3. QED
      BY <3>2, LastIsLast, LastIsUnique DEF row
  <2>2. QED
    BY <1>2, <1>7, <2>1 DEF row
<1>8. ASSUME NEW i \in 1..Len(rows), row = rows[i], rows[i].type = type,
             \A j \in 1..Len(rows) : rows[j].type = type => i <= j
      PROVE  IsLast(row, type, ledger)
  <2>1. n + 1 - i \in 1..n /\ row = ledger[n + 1 - i] /\ ledger[n + 1 - i].type = type
    BY <1>6, <1>8
  <2>2. ASSUME NEW j \in 1..n, ledger[j].type = type, ~ (j <= n + 1 - i) PROVE FALSE
    <3> DEFINE k == n + 1 - j
    <3>1. k \in 1..Len(rows) /\ k < i /\ n + 1 - k = j
      BY <1>1, <1>2, <2>2
    <3> HIDE DEF k
    <3>2. rows[k].type = type
      BY <1>6, <2>2, <3>1
    <3>3. QED
      BY <1>2, <1>8, <3>1, <3>2
  <2> DEFINE p == n + 1 - i
  <2>3. /\ p \in 1..n /\ row = ledger[p] /\ ledger[p].type = type
        /\ \A j \in 1..n : ledger[j].type = type => j <= p
    BY <2>1, <2>2
  <2> HIDE DEF p
  <2>4. QED
    BY <2>3 DEF IsLast, n
<1>9. CASE IsLast(row, type, ledger)
  BY <1>9, LastIsLast, LastIsUnique DEF row
<1>10. QED
  BY <1>5, <1>7, <1>8, <1>9 DEF IsFirst

-----------------------------------------------------------------------------
(* The inductive invariant of the pages.                                   *)

\* The balance of a member is what came in less what went out.
LedgersAddUp ==
  \A m \in Ids :
    RowOf(m).balance = Total("charge", LedgerOf(m)) - Total("deduct", LedgerOf(m))

\* A page request knows what happened to its member since it was read.
RequestOK ==
  /\ request \in Request \cup {Idle}
  /\ request # Idle =>
       LET m == request.row.id
       IN  /\ m \in issuedIDs
           /\ request.gone <=> m \notin Ids
           /\ ~request.gone => RowOf(m).balance = request.row.balance + request.since

PageOK ==
  /\ page \in Page
  /\ TotalsExplainBalance
  /\ LastRowsAreNewest

PageInv ==
  /\ TablesOK
  /\ LedgersAddUp
  /\ RequestOK
  /\ PageOK

\* Balances and ledgers are numbers and rows.
LEMMA BalanceIsNat ==
  ASSUME TablesOK, NEW m \in Ids
  PROVE  RowOf(m).balance \in 0..MaxInt64 /\ RowOf(m).balance \in Int /\ LedgerOf(m) \in Seq(TxRow)
<1>1. RowOf(m) \in MemberRow
  BY RowOfMember
<1>2. RowOf(m).balance \in 0..MaxInt64
  BY <1>1 DEF MemberRow
<1>3. QED
  BY <1>2, LedgerRows

\* The request in progress, if there is one.
LEMMA RequestTyped ==
  ASSUME RequestOK, request # Idle
  PROVE  /\ request \in Request /\ request.row \in MemberRow
         /\ request.row.balance \in 0..MaxInt64 /\ request.row.balance \in Int
         /\ request.since \in Int
<1>1. request \in Request
  BY DEF RequestOK
<1>2. request.row \in MemberRow /\ request.since \in -MaxInt64..MaxInt64
  BY <1>1 DEF Request
<1>3. QED
  BY <1>1, <1>2 DEF MemberRow

\* A step that leaves the member of the request alone.
LEMMA RequestSame ==
  ASSUME RequestOK, request' = request, issuedIDs \subseteq issuedIDs',
         \A k \in issuedIDs : k \in Ids' <=> k \in Ids,
         \A k \in Ids : RowOf(k)'.balance = RowOf(k).balance
  PROVE  RequestOK'
<1>1. CASE request = Idle
  BY <1>1 DEF RequestOK, Request, MemberRow
<1>2. CASE request # Idle
  <2>1. PICK m : m = request.row.id
    OBVIOUS
  <2>2. /\ m \in issuedIDs /\ (request.gone <=> m \notin Ids)
        /\ ~request.gone => RowOf(m).balance = request.row.balance + request.since
    BY <1>2, <2>1 DEF RequestOK
  <2>3. m \in issuedIDs' /\ (request.gone <=> m \notin Ids')
    BY <2>2
  <2>4. ~request.gone => RowOf(m)'.balance = request.row.balance + request.since
    BY <2>2
  <2>5. request \in Request
    BY <1>2, RequestTyped
  <2>6. QED
    BY <2>1, <2>3, <2>4, <2>5 DEF RequestOK, Request, MemberRow
<1>3. QED
  BY <1>1, <1>2

\* A step that posts to m, or deletes it.
LEMMA RequestNoted ==
  ASSUME TablesOK, RequestOK, NEW m \in Ids, NEW change \in Int, NEW gone \in BOOLEAN,
         Noted(m, change, gone), TablesOK', issuedIDs' = issuedIDs,
         Ids' = IF gone THEN Ids \ {m} ELSE Ids,
         gone => change = 0,
         ~gone => RowOf(m)'.balance = RowOf(m).balance + change,
         \A k \in Ids \ {m} : RowOf(k)' = RowOf(k)
  PROVE  RequestOK'
<1>1. CASE ~ (request # Idle /\ request.row.id = m)
  <2>1. request' = request
    BY <1>1 DEF Noted
  <2>2. CASE request = Idle
    BY <2>1, <2>2 DEF RequestOK, Request, MemberRow
  <2>3. CASE request # Idle
    <3>1. PICK k : k = request.row.id
      OBVIOUS
    <3>2. /\ k # m /\ k \in issuedIDs /\ (request.gone <=> k \notin Ids)
          /\ ~request.gone => RowOf(k).balance = request.row.balance + request.since
      BY <1>1, <2>3, <3>1 DEF RequestOK
    <3>3. k \in issuedIDs' /\ (request.gone <=> k \notin Ids')
      BY <3>2
    <3>4. ~request.gone => RowOf(k)'.balance = request.row.balance + request.since
      BY <3>2
    <3>5. request \in Request
      BY <2>3, RequestTyped
    <3>6. QED
      BY <2>1, <3>1, <3>3, <3>4, <3>5 DEF RequestOK, Request, MemberRow
  <2>4. QED
    BY <2>2, <2>3
<1>2. CASE request # Idle /\ request.row.id = m
  <2>1. /\ request \in Request /\ request.row \in MemberRow
        /\ request.row.balance \in 0..MaxInt64 /\ request.row.balance \in Int
        /\ request.since \in Int
    BY <1>2, RequestTyped
  <2>2. request' = [request EXCEPT !.since = @ + change, !.gone = @ \/ gone]
    BY <1>2 DEF Noted
  <2>3. ~request.gone /\ m \in issuedIDs
        /\ RowOf(m).balance = request.row.balance + request.since
    BY <1>2 DEF RequestOK
  <2>4. /\ request'.kind = request.kind /\ request'.row = request.row
        /\ request'.since = request.since + change /\ request'.gone = gone
    BY <2>1, <2>2, <2>3 DEF Request
  <2>5. request.since + change \in -MaxInt64..MaxInt64
    <3>1. CASE gone
      BY <2>1, <3>1 DEF Request
    <3>2. CASE ~gone
      <4>1. m \in Ids'
        BY <3>2
      <4>2. RowOf(m)'.balance \in 0..MaxInt64
        <5>1. RowOf(m)' \in memberTable' /\ memberTable' \subseteq MemberRow
          <6>1. \E row \in memberTable' : row.id = m
            BY <4>1 DEF Ids
          <6>2. QED
            BY <6>1 DEF RowOf, TablesOK
        <5>2. QED
          BY <5>1 DEF MemberRow
      <4>3. RowOf(m).balance \in Int
        BY BalanceIsNat
      <4>4. RowOf(m)'.balance = request.row.balance + (request.since + change)
        BY <2>1, <2>3, <3>2, <4>3
      <4>5. QED
        BY <2>1, <4>2, <4>4, MemberPageAssumption
    <3>3. QED
      BY <3>1, <3>2
  <2>6. request' \in Request
    BY <2>1, <2>2, <2>3, <2>5 DEF Request
  <2>7. gone <=> m \notin Ids'
    OBVIOUS
  <2>8. ~gone => RowOf(m)'.balance = request.row.balance + (request.since + change)
    <3>1. RowOf(m).balance \in Int
      BY BalanceIsNat
    <3>2. QED
      BY <2>1, <2>3, <3>1
  <2>9. QED
    BY <1>2, <2>3, <2>4, <2>6, <2>7, <2>8 DEF RequestOK
<1>3. QED
  BY <1>1, <1>2

\* A new member: nothing came in, nothing went out.
LEMMA CreateKeepsSums ==
  ASSUME TablesOK, LedgersAddUp, RequestOK, NEW m \in MemberIDs, Create(m)
  PROVE  LedgersAddUp' /\ RequestOK'
<1>1. /\ m \notin issuedIDs /\ issuedIDs' = issuedIDs \cup {m}
      /\ UNCHANGED <<txTable, request>>
  BY DEF Create
<1>2. /\ m \notin Ids /\ Ids' = Ids \cup {m} /\ RowOf(m)'.balance = 0
      /\ \A k \in Ids : RowOf(k)' = RowOf(k)
  BY CreateKeepsTables
<1>3. \A k : LedgerOf(k)' = LedgerOf(k)
  BY <1>1 DEF LedgerOf
<1>4. LedgerOf(m)' = <<>>
  BY <1>2, <1>3, LedgerRows
<1>5. Total("charge", <<>>) = 0 /\ Total("deduct", <<>>) = 0
  BY TotalOfNone
<1>6. RowOf(m)'.balance = Total("charge", LedgerOf(m)') - Total("deduct", LedgerOf(m)')
  BY <1>2, <1>4, <1>5
<1>7. ASSUME NEW k \in Ids
      PROVE  RowOf(k)'.balance = Total("charge", LedgerOf(k)') - Total("deduct", LedgerOf(k)')
  BY <1>2, <1>3 DEF LedgersAddUp
<1>8. LedgersAddUp'
  BY <1>2, <1>6, <1>7 DEF LedgersAddUp
<1>9. RequestOK'
  BY <1>1, <1>2, RequestSame
<1>10. QED
  BY <1>8, <1>9

\* A posting moves the balance by what it adds to the totals.
LEMMA PostKeepsSums ==
  ASSUME TablesOK, LedgersAddUp, RequestOK, NEW m \in MemberIDs,
         NEW type \in {"charge", "deduct"}, NEW amount \in Amounts,
         ChargeOrDeduct(m, type, amount)
  PROVE  LedgersAddUp' /\ RequestOK'
<1> DEFINE change == IF type = "charge" THEN amount ELSE -amount
<1>1. Noted(m, change, FALSE) /\ UNCHANGED issuedIDs
  BY DEF ChargeOrDeduct
<1>2. /\ TablesOK' /\ m \in Ids /\ Ids' = Ids
      /\ RowOf(m)'.balance = RowOf(m).balance + change
      /\ \A k \in Ids \ {m} : RowOf(k)' = RowOf(k)
      /\ \A k : k # m => LedgerOf(k)' = LedgerOf(k)
  BY PostKeepsTables
<1>3. PICK tx \in TxRow : /\ tx.type = type /\ tx.amount = amount
                          /\ LedgerOf(m)' = Append(LedgerOf(m), tx)
  BY PostKeepsTables
<1>4. amount \in Int
  BY MemberPageAssumption
<1>5. /\ RowOf(m).balance \in Int /\ LedgerOf(m) \in Seq(TxRow)
      /\ RowOf(m).balance = Total("charge", LedgerOf(m)) - Total("deduct", LedgerOf(m))
  BY <1>2, BalanceIsNat DEF LedgersAddUp
<1>6. \A t \in {"charge", "deduct"} :
        /\ Total(t, LedgerOf(m)) \in Int
        /\ Total(t, LedgerOf(m)') = Total(t, LedgerOf(m)) + (IF type = t THEN amount ELSE 0)
  BY <1>3, <1>5, TotalOfAppend, TotalIsNat
<1>7. RowOf(m)'.balance = Total("charge", LedgerOf(m)') - Total("deduct", LedgerOf(m)')
  BY <1>2, <1>4, <1>5, <1>6
<1>8. ASSUME NEW k \in Ids \ {m}
      PROVE  RowOf(k)'.balance = Total("charge", LedgerOf(k)') - Total("deduct", LedgerOf(k)')
  BY <1>2 DEF LedgersAddUp
<1>9. LedgersAddUp'
  BY <1>2, <1>7, <1>8 DEF LedgersAddUp
<1>10. change \in Int
  BY <1>4
<1> HIDE DEF change
<1>11. RequestOK'
  BY <1>1, <1>2, <1>10, RequestNoted
<1>12. QED
  BY <1>9, <1>11

\* A deletion is noted by the request about that member.
LEMMA DeleteKeepsSums ==
  ASSUME TablesOK, LedgersAddUp, RequestOK, NEW m \in MemberIDs, Delete(m)
  PROVE  LedgersAddUp' /\ RequestOK'
<1>1. Noted(m, 0, TRUE) /\ UNCHANGED issuedIDs
  BY DEF Delete
<1>2. /\ TablesOK' /\ m \in Ids /\ Ids' = Ids \ {m}
      /\ \A k \in Ids' : RowOf(k)' = RowOf(k) /\ LedgerOf(k)' = LedgerOf(k)
  BY DeleteKeepsTables
<1>3. LedgersAddUp'
  BY <1>2 DEF LedgersAddUp
<1> DEFINE change == 0
           gone == TRUE
<1>4. Noted(m, change, gone)
  BY <1>1
<1>5. change \in Int /\ gone \in BOOLEAN /\ (gone => change = 0)
  OBVIOUS
<1>6. Ids' = IF gone THEN Ids \ {m} ELSE Ids
  BY <1>2
<1>7. ~gone => RowOf(m)'.balance = RowOf(m).balance + change
  OBVIOUS
<1>8. \A k \in Ids \ {m} : RowOf(k)' = RowOf(k)
  BY <1>2
<1> HIDE DEF change, gone
<1>9. RequestOK'
  BY <1>1, <1>2, <1>4, <1>5, <1>6, <1>7, <1>8, RequestNoted
<1>10. QED
  BY <1>3, <1>9

\* Blocking and unblocking changes no sum.
LEMMA SetActiveKeepsSums ==
  ASSUME TablesOK, LedgersAddUp, RequestOK, NEW m \in MemberIDs, NEW isActive \in BOOLEAN,
         SetMemberActive(m, isActive)
  PROVE  LedgersAddUp' /\ RequestOK'
<1>1. UNCHANGED <<txTable, issuedIDs, request>>
  BY DEF SetMemberActive
<1>2. Ids' = Ids /\ \A k \in Ids : RowOf(k)'.balance = RowOf(k).balance
  BY SetActiveKeepsTables
<1>3. \A k : LedgerOf(k)' = LedgerOf(k)
  BY <1>1 DEF LedgerOf
<1>4. LedgersAddUp'
  BY <1>2, <1>3 DEF LedgersAddUp
<1>5. RequestOK'
  BY <1>1, <1>2, RequestSame
<1>6. QED
  BY <1>4, <1>5

\* Whatever leaves the tables alone.
LEMMA SumsKept ==
  ASSUME LedgersAddUp, RequestOK, UNCHANGED <<memberTable, txTable, issuedIDs>>
  PROVE  LedgersAddUp' /\ (request' \in {request, Idle} => RequestOK')
<1>1. Ids' = Ids /\ \A k : RowOf(k)' = RowOf(k) /\ LedgerOf(k)' = LedgerOf(k)
  BY DEF Ids, RowOf, LedgerOf
<1>2. LedgersAddUp'
  BY <1>1 DEF LedgersAddUp
<1>3. request' = request => RequestOK'
  BY <1>1, RequestSame
<1>4. request' = Idle => RequestOK'
  BY DEF RequestOK, Request, MemberRow
<1>5. QED
  BY <1>2, <1>3, <1>4

\* The first query of a page reads the balance there is.
LEMMA GetKeepsSums ==
  ASSUME TablesOK, LedgersAddUp, RequestOK, NEW m \in MemberIDs,
         NEW kind \in {"detail", "card"}, Get(kind, m)
  PROVE  LedgersAddUp' /\ RequestOK'
<1>1. /\ UNCHANGED <<memberTable, txTable, issuedIDs>> /\ m \in Ids
      /\ request' = [kind |-> kind, row |-> RowOf(m), since |-> 0, gone |-> FALSE]
  BY DEF Get
<1>2. LedgersAddUp'
  BY <1>1, SumsKept
<1>3. RowOf(m) \in MemberRow /\ RowOf(m).id = m /\ RowOf(m).balance \in Int
  BY <1>1, RowOfMember, BalanceIsNat
<1>4. request' \in Request
  BY <1>1, <1>3, MemberPageAssumption DEF Request
<1>5. Ids' = Ids /\ RowOf(m)' = RowOf(m) /\ m \in issuedIDs'
  BY <1>1 DEF Ids, RowOf, TablesOK
<1>6. /\ request'.row = RowOf(m) /\ request'.row.id = m /\ request'.gone = FALSE
      /\ request'.since = 0
  BY <1>1, <1>3
<1>7. RowOf(m)'.balance = request'.row.balance + request'.since
  BY <1>3, <1>5, <1>6
<1>8. RequestOK'
  BY <1>1, <1>4, <1>5, <1>6, <1>7 DEF RequestOK
<1>9. QED
  BY <1>2, <1>8

-----------------------------------------------------------------------------
(* What a page says.                                                       *)

\* What is rendered is a page.
LEMMA RenderedIsPage ==
  ASSUME RequestOK, request # Idle, NEW rows \in Seq(TxRow), NEW ledger \in Seq(TxRow)
  PROVE  Rendered(rows, ledger) \in Page
<1>1. /\ request.kind \in {"detail", "card"} /\ request.row.balance \in 0..MaxInt64
      /\ request.since \in -MaxInt64..MaxInt64 /\ request.gone \in BOOLEAN
  BY RequestTyped DEF Request
<1>2. Total("charge", rows) \in Nat /\ Total("deduct", rows) \in Nat
  BY TotalIsNat
<1>3. First("charge", rows) \in TxRow \cup {NoRow} /\ First("deduct", rows) \in TxRow \cup {NoRow}
  BY FirstIsFirst
<1>4. QED
  BY <1>1, <1>2, <1>3 DEF Rendered, Page

\* The page of a list that came.
LEMMA ListKeepsPage ==
  ASSUME TablesOK, LedgersAddUp, RequestOK, List
  PROVE  PageOK'
<1>1. request # Idle
  BY DEF List
<1>2. PICK m : m = request.row.id
  OBVIOUS
<1>3. PICK rows \in ListTransactionsByMember(m) : page' = Rendered(rows, LedgerOf(m))
  BY <1>2 DEF List, Answer
<1>4. LedgerOf(m) \in Seq(TxRow)
  BY LedgerRows
<1>5. AreListed(rows, LedgerOf(m))
  BY <1>3, <1>4, ListedRows
<1>6. rows \in Seq(TxRow)
  BY <1>5 DEF AreListed
<1>7. PICK ledger \in Seq(TxRow) : ledger = LedgerOf(m)
  BY <1>4
<1>8. page' \in Page
  BY <1>1, <1>3, <1>4, <1>6, RenderedIsPage
<1>9. /\ page'.listed = rows /\ page'.ledger = ledger
      /\ page'.totalIn = Total("charge", rows) /\ page'.totalOut = Total("deduct", rows)
      /\ page'.lastCharge = First("charge", rows) /\ page'.lastVisit = First("deduct", rows)
      /\ page'.balance = request.row.balance /\ page'.since = request.since
      /\ page'.gone = request.gone
  BY <1>3, <1>7 DEF Rendered
<1>10. ASSUME Len(rows) < ListLimit, ~request.gone
       PROVE  Total("charge", rows) - Total("deduct", rows) = request.row.balance + request.since
  <2>1. Total("charge", rows) = Total("charge", ledger)
    BY <1>5, <1>7, <1>10, ListTotals
  <2>2. Total("deduct", rows) = Total("deduct", ledger)
    BY <1>5, <1>7, <1>10, ListTotals
  <2>3. m \in Ids /\ RowOf(m).balance = request.row.balance + request.since
    BY <1>1, <1>2, <1>10 DEF RequestOK
  <2>4. RowOf(m).balance = Total("charge", ledger) - Total("deduct", ledger)
    BY <1>7, <2>3 DEF LedgersAddUp
  <2>5. QED
    BY <2>1, <2>2, <2>3, <2>4
<1>11. TotalsExplainBalance'
  BY <1>9, <1>10 DEF TotalsExplainBalance
<1>12. ASSUME Ordered(ledger), NEW type
       PROVE  \/ First(type, rows) = LastOf(type, ledger)
              \/ First(type, rows) = NoRow /\ Len(rows) = ListLimit
  BY <1>5, <1>7, <1>12, FirstListedIsLast
<1>13. LastRowsAreNewest'
  BY <1>9, <1>12 DEF LastRowsAreNewest
<1>14. QED
  BY <1>8, <1>11, <1>13 DEF PageOK

\* The page of a list that failed.
LEMMA ListFailsKeepsPage ==
  ASSUME TablesOK, RequestOK, ListFails
  PROVE  PageOK'
<1>1. CASE page' = Blank
  BY <1>1 DEF PageOK, Page, TotalsExplainBalance, LastRowsAreNewest
<1>2. CASE page' # Blank
  <2>1. request # Idle /\ request.kind = "card"
    BY <1>2 DEF ListFails, Answer
  <2>2. PICK m : m = request.row.id
    OBVIOUS
  <2>3. page' = Rendered(<<>>, LedgerOf(m))
    BY <2>1, <2>2 DEF ListFails, Answer
  <2>4. LedgerOf(m) \in Seq(TxRow)
    BY LedgerRows
  <2>5. PICK rows \in Seq(TxRow) : rows = <<>>
    <3>1. <<>> \in Seq(TxRow)
      OBVIOUS
    <3>2. QED
      BY <3>1, Zenon
  <2>6. page' = Rendered(rows, LedgerOf(m))
    BY <2>3, <2>5
  <2>7. page' \in Page
    BY <2>1, <2>4, <2>6, RenderedIsPage
  <2>8. ASSUME NEW type PROVE First(type, rows) = NoRow
    <3>1. Len(rows) = 0
      BY <2>5
    <3>2. IsFirst(First(type, rows), type, rows)
      BY FirstIsFirst
    <3>3. QED
      BY <3>1, <3>2 DEF IsFirst
  <2>9. /\ page'.view = "card" /\ page'.listed = <<>>
        /\ page'.lastCharge = NoRow /\ page'.lastVisit = NoRow
    BY <2>1, <2>5, <2>6, <2>8 DEF Rendered
  <2>10. TotalsExplainBalance'
    BY <2>9 DEF TotalsExplainBalance
  <2>11. LastRowsAreNewest'
    BY <2>9 DEF LastRowsAreNewest
  <2>12. QED
    BY <2>7, <2>10, <2>11 DEF PageOK
<1>3. QED
  BY <1>1, <1>2

\* A page that is not touched still says so.
LEMMA PageKept ==
  ASSUME PageOK, page' \in {page, Blank}
  PROVE  PageOK'
<1>1. CASE page' = page
  <2>1. page' \in Page
    BY <1>1 DEF PageOK
  <2>2. TotalsExplainBalance'
    BY <1>1 DEF PageOK, TotalsExplainBalance
  <2>3. LastRowsAreNewest'
    BY <1>1 DEF PageOK, LastRowsAreNewest
  <2>4. QED
    BY <2>1, <2>2, <2>3 DEF PageOK
<1>2. CASE page' = Blank
  BY <1>2 DEF PageOK, Page, TotalsExplainBalance, LastRowsAreNewest
<1>3. QED
  BY <1>1, <1>2

\* The invariant holds at the start, and every step keeps it.
LEMMA PageInvStarts == Init => PageInv
<1> SUFFICES ASSUME Init PROVE PageInv
  OBVIOUS
<1>1. TablesOK
  BY TablesStart
<1>2. LedgersAddUp
  BY DEF Init, LedgersAddUp, Ids
<1>3. RequestOK
  BY DEF Init, RequestOK
<1>4. PageOK
  BY DEF Init, PageOK, Page, TotalsExplainBalance, LastRowsAreNewest
<1>5. QED
  BY <1>1, <1>2, <1>3, <1>4 DEF PageInv

LEMMA PageInvKept == PageInv /\ [Next]_vars => PageInv'
<1> SUFFICES ASSUME PageInv, [Next]_vars PROVE PageInv'
  OBVIOUS
<1>1. TablesOK /\ LedgersAddUp /\ RequestOK /\ PageOK
  BY DEF PageInv
<1>2. TablesOK'
  BY <1>1, TablesStep
<1>3. CASE List
  <2>1. LedgersAddUp' /\ RequestOK'
    BY <1>1, <1>3, SumsKept DEF List, Answer
  <2>2. PageOK'
    BY <1>1, <1>3, ListKeepsPage
  <2>3. QED
    BY <1>2, <2>1, <2>2 DEF PageInv
<1>4. CASE ListFails
  <2>1. LedgersAddUp' /\ RequestOK'
    BY <1>1, <1>4, SumsKept DEF ListFails, Answer
  <2>2. PageOK'
    BY <1>1, <1>4, ListFailsKeepsPage
  <2>3. QED
    BY <1>2, <2>1, <2>2 DEF PageInv
<1>5. CASE Close \/ ClockChanges \/ UNCHANGED vars
  <2>1. LedgersAddUp' /\ RequestOK'
    BY <1>1, <1>5, SumsKept DEF Close, ClockChanges, vars
  <2>2. PageOK'
    BY <1>1, <1>5, PageKept DEF Close, ClockChanges, vars
  <2>3. QED
    BY <1>2, <2>1, <2>2 DEF PageInv
<1>6. ASSUME NEW m \in MemberIDs,
             \/ Create(m)
             \/ \E type \in {"charge", "deduct"}, amount \in Amounts :
                  ChargeOrDeduct(m, type, amount)
             \/ \E isActive \in BOOLEAN : SetMemberActive(m, isActive)
             \/ Delete(m)
             \/ \E kind \in {"detail", "card"} : Get(kind, m)
      PROVE  PageInv'
  <2>1. LedgersAddUp' /\ RequestOK'
    BY <1>1, <1>6, CreateKeepsSums, PostKeepsSums, SetActiveKeepsSums, DeleteKeepsSums,
       GetKeepsSums
  <2>2. page' = page
    BY <1>6 DEF Create, ChargeOrDeduct, SetMemberActive, Delete, Get
  <2>3. PageOK'
    BY <1>1, <2>2, PageKept
  <2>4. QED
    BY <1>2, <2>1, <2>3 DEF PageInv
<1>7. QED
  BY <1>3, <1>4, <1>5, <1>6 DEF Next

\* The tables, the request and the page stay as they should be: no posting,
\* deletion or set clock between the two queries of a page breaks them.
THEOREM PageInvariant == Spec => []PageInv
  BY PageInvStarts, PageInvKept, PTL DEF Spec

\* Every variable keeps its type, and every row its member (the foreign key).
THEOREM PageTypes == Spec => []TypeOK
<1>1. PageInv => TypeOK
  BY DEF PageInv, TablesOK, RequestOK, PageOK, TypeOK
<1>2. QED
  BY <1>1, PageInvariant, PTL

\* The totals of the detail page explain its balance (members.go:149-160), up to
\* what was posted between its two queries, for a list that is not cut off.
THEOREM PageTotals == Spec => []TotalsExplainBalance
<1>1. PageInv => TotalsExplainBalance
  BY DEF PageInv, PageOK
<1>2. QED
  BY <1>1, PageInvariant, PTL

\* Last charge and last visit are the newest rows of their type, if the clock
\* moved on between the rows; a dash is an absent, failed or cut-off list.
THEOREM PageLastRows == Spec => []LastRowsAreNewest
<1>1. PageInv => LastRowsAreNewest
  BY DEF PageInv, PageOK
<1>2. QED
  BY <1>1, PageInvariant, PTL
=============================================================================
