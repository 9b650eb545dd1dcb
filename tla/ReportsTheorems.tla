---------------------------- MODULE ReportsTheorems ----------------------------
(***************************************************************************)
(* The figures of the two pages, for any number of members, rows, requests *)
(* and moments, and for any limits of the list and of the search.          *)
(*                                                                         *)
(* The rows of a member add up to its balance, which is never negative.  A *)
(* period that reaches back to the start and ends at any moment holds the  *)
(* first rows of each member, so that what a page sums as deducted is      *)
(* covered by the charges there are at that moment; until the charges are  *)
(* summed, rows are only added.  What was listed stays explained in the    *)
(* same way: rows are only added, and those are noted.                     *)
(***************************************************************************)
EXTENDS Reports, WalletLedgerTheorems

Labels == {"idle", "resolveList", "list", "listDone", "firstSum", "secondSum",
           "done", "failed"}

\* The tables: there are finitely many members, and each row has its moment.
TablesOK ==
  /\ LedgerInv
  /\ IsFiniteSet(issuedIDs)
  /\ createdAt \in [MemberIDs -> Seq(Nat)]
  /\ \A m \in MemberIDs : Len(createdAt[m]) = Len(transactions[m])
  /\ newest \in Seq(MemberIDs)
  /\ now \in Moments

PageTypes ==
  /\ pc \in [Requests -> Labels]
  /\ filter \in [Requests -> Filter \cup {NoFilter}]
  /\ \A r \in Requests : (filter[r] = NoFilter) <=> (pc[r] = "idle")
  /\ range \in [Requests -> [from : Int, to : Int]]
  /\ scope \in [Requests -> SUBSET MemberIDs]
  /\ sums \in [Requests -> [Types -> Nat]]
  /\ DOMAIN listed = Requests
  /\ DOMAIN events = Requests /\ DOMAIN listRange = Requests /\ DOMAIN since = Requests

\* The rows of a type that request r sums, as they are now.
RowsNow(r, type) == OfType(RowsIn(range[r], scope[r]), type)

\* Over the whole history, the deductions already summed are covered by the
\* charges there are now, or by those that were summed.
Covered(r) ==
  pc[r] # "idle" /\ filter[r].period = "all" =>
    /\ range[r].from = 0
    /\ TimeOrdered /\ "delete" \notin events[r] =>
         /\ pc[r] = "secondSum" => sums[r]["deduct"] <= Total(RowsNow(r, "charge"))
         /\ pc[r] = "done" => sums[r]["deduct"] <= sums[r]["charge"]

\* A request on its way through the transactions page that nothing has disturbed.
OnPage(r, labels) ==
  pc[r] \in labels /\ filter[r].page = "transactions" /\ Undisturbed(r)

\* A search resolves to the same members as when it was resolved.
ScopeKept(r) ==
  /\ OnPage(r, {"list"}) => scope[r] = ListScope(filter[r].q)
  /\ OnPage(r, {"firstSum", "secondSum"}) => scope[r] = SumScope(filter[r].q)

\* The rows the list was to show, as they are now.
Wanted(r) == OfFilter(RowsIn(listRange[r], ListScope(filter[r].q)), filter[r].type)

\* The list shows wanted rows, and all of them but those that are past its limit
\* and those that are new.
ListKept(r) ==
  OnPage(r, {"listDone", "firstSum", "secondSum"}) =>
    /\ listed[r] \subseteq Wanted(r)
    /\ \A row \in Wanted(r) \ (listed[r] \cup since[r]) : PastLimit(r, row)

\* The rows of TotalsMatchList.
Shown(r, type) == {row \in OfType(listed[r], type) : Within(row, range[r])}
Counted(r, type) == OfType(RowsIn(range[r], ListScope(filter[r].q)), type)
Explained(r, type) ==
  {row \in Counted(r, type) : \/ row \in listed[r] \cup since[r]
                              \/ PastLimit(r, row)
                              \/ ~Within(row, listRange[r])}

\* A total lies between what is shown of its rows and what explains them.
Matches(r, type) ==
  /\ \/ OnPage(r, {"done"})
     \/ OnPage(r, {"secondSum"}) /\ type = "deduct"
  /\ withKey \/ filter[r].q = NoQuery
  /\ filter[r].type \in {"", type}
  => Total(Shown(r, type)) <= sums[r][type] /\ sums[r][type] <= Total(Explained(r, type))

PageOK(r) ==
  /\ Covered(r)
  /\ ScopeKept(r)
  /\ ListKept(r)
  /\ \A type \in Types : Matches(r, type)

\* The inductive invariant.
ReportsInv ==
  /\ TablesOK
  /\ PageTypes
  /\ \A r \in Requests : PageOK(r)

-----------------------------------------------------------------------------
(* Totals.                                                                 *)

\* COALESCE(SUM(amount), 0) is a sum in the sense of the lemmas.
LEMMA TotalIsSum ==
  ASSUME NEW S, IsFiniteSet(S), NEW w, \A row \in S : w[row] = row.amount /\ w[row] \in Nat
  PROVE  Total(S) = SumFunctionOnSet(w, S)
<1> DEFINE F(h) == [T \in SUBSET S |->
                      IF T = {} THEN 0
                      ELSE LET x == CHOOSE y \in T : TRUE IN x.amount + h[T \ {x}]]
           g == [T \in SUBSET S |-> SumFunctionOnSet(w, T)]
<1>1. /\ SumFunctionOnSet(w, {}) = 0
      /\ \A T \in SUBSET S : \A x \in T :
           SumFunctionOnSet(w, T) = w[x] + SumFunctionOnSet(w, T \ {x})
  <2>1. \A x \in S : w[x] \in Int
    OBVIOUS
  <2>2. QED
    BY <2>1, SumRemoves
<1>2. g = F(g)
  <2> SUFFICES ASSUME NEW T \in SUBSET S PROVE g[T] = F(g)[T]
    OBVIOUS
  <2>1. CASE T = {}
    BY <1>1, <2>1
  <2>2. CASE T # {}
    <3> DEFINE x == CHOOSE y \in T : TRUE
    <3>1. x \in T
      BY <2>2
    <3>2. F(g)[T] = x.amount + g[T \ {x}]
      BY <2>2
    <3> HIDE DEF x
    <3>3. QED
      BY <1>1, <3>1, <3>2
  <2>3. QED
    BY <2>1, <2>2
<1> DEFINE h == CHOOSE f : f = F(f)
<1> HIDE DEF g
<1>3. h = F(h)
  BY <1>2
<1>4. Total(S) = h[S]
  BY DEF Total, MapThenSumSet, MapThenFoldSet
<1> HIDE DEF h
<1>5. h[{}] = 0
  BY <1>3
<1>6. ASSUME NEW T \in SUBSET S, T # {} PROVE \E x \in T : h[T] = w[x] + h[T \ {x}]
  <2> DEFINE x == CHOOSE y \in T : TRUE
  <2>1. x \in T
    BY <1>6
  <2>2. h[T] = x.amount + h[T \ {x}]
    BY <1>3, <1>6
  <2> HIDE DEF x
  <2>3. QED
    BY <2>1, <2>2
<1>7. \A x \in S : w[x] \in Int
  OBVIOUS
<1>8. h[S] = SumFunctionOnSet(w, S)
  BY <1>5, <1>6, <1>7, AnyOrderSums
<1>9. QED
  BY <1>4, <1>8

\* A total is a natural number, and grows with the rows.
LEMMA TotalGrows ==
  ASSUME NEW S, IsFiniteSet(S), \A row \in S : row.amount \in Nat, NEW T \in SUBSET S
  PROVE  Total(T) \in Nat /\ Total(S) \in Nat /\ Total(T) <= Total(S)
<1> DEFINE w == [row \in S |-> row.amount]
<1>1. \A row \in S : w[row] = row.amount /\ w[row] \in Nat
  OBVIOUS
<1> HIDE DEF w
<1>2. IsFiniteSet(T)
  BY FS_Subset
<1>3. Total(S) = SumFunctionOnSet(w, S) /\ Total(T) = SumFunctionOnSet(w, T)
  BY <1>1, <1>2, TotalIsSum
<1>4. QED
  BY <1>1, <1>3, SumGrows

\* The total of rows that come in two parts.
LEMMA TotalOfUnion ==
  ASSUME NEW S, IsFiniteSet(S), NEW T, IsFiniteSet(T), S \cap T = {},
         \A row \in S \cup T : row.amount \in Nat
  PROVE  Total(S \cup T) = Total(S) + Total(T)
<1> DEFINE w == [row \in S \cup T |-> row.amount]
<1>1. \A row \in S \cup T : w[row] = row.amount /\ w[row] \in Nat
  OBVIOUS
<1> HIDE DEF w
<1>2. IsFiniteSet(S \cup T)
  BY FS_Union
<1>3. /\ Total(S \cup T) = SumFunctionOnSet(w, S \cup T)
      /\ Total(S) = SumFunctionOnSet(w, S)
      /\ Total(T) = SumFunctionOnSet(w, T)
  BY <1>1, <1>2, TotalIsSum
<1>4. \A row \in S \cup T : w[row] \in Int
  BY <1>1
<1>5. QED
  BY <1>3, <1>4, SumOfUnion

\* No rows, and one row.
LEMMA TotalOfFew ==
  /\ Total({}) = 0
  /\ \A row : row.amount \in Nat => Total({row}) = row.amount
<1>1. Total({}) = 0
  <2> DEFINE w == [row \in {} |-> row.amount]
  <2>1. IsFiniteSet({}) /\ \A x \in {} : w[x] \in Int
    BY FS_EmptySet
  <2>2. Total({}) = SumFunctionOnSet(w, {})
    BY <2>1, TotalIsSum
  <2> HIDE DEF w
  <2>3. QED
    BY <2>1, <2>2, SumRemoves
<1>2. ASSUME NEW row, row.amount \in Nat PROVE Total({row}) = row.amount
  <2> DEFINE w == [x \in {row} |-> x.amount]
  <2>1. IsFiniteSet({row}) /\ \A x \in {row} : w[x] = x.amount /\ w[x] \in Nat
    BY <1>2, FS_Singleton
  <2> HIDE DEF w
  <2>2. Total({row}) = SumFunctionOnSet(w, {row})
    BY <2>1, TotalIsSum
  <2>3. /\ SumFunctionOnSet(w, {}) = 0
        /\ SumFunctionOnSet(w, {row}) = w[row] + SumFunctionOnSet(w, {row} \ {row})
    <3>1. \A x \in {row} : w[x] \in Int
      BY <2>1
    <3>2. QED
      BY <2>1, <3>1, SumRemoves
  <2>4. {row} \ {row} = {}
    OBVIOUS
  <2>5. QED
    BY <2>1, <2>2, <2>3, <2>4
<1>3. QED
  BY <1>1, <1>2

-----------------------------------------------------------------------------
(* Rows.                                                                   *)

\* The i-th row of m, as a query returns it.
RowAt(m, i) == [member |-> m, row |-> i, type |-> transactions[m][i].type,
                amount |-> transactions[m][i].amount, createdAt |-> createdAt[m][i]]

LEMMA RowsFound ==
  ASSUME NEW period, NEW who, NEW row
  PROVE  row \in RowsIn(period, who) <=>
           /\ Within(row, period)
           /\ \E m \in who : \E i \in DOMAIN transactions[m] : row = RowAt(m, i)
BY DEF RowsIn, RowsOf, RowAt

\* The rows of a member: finitely many, each with a type, an amount, a moment.
LEMMA RowsOfMember ==
  ASSUME TablesOK, NEW m \in MemberIDs
  PROVE  /\ DOMAIN transactions[m] = 1..Len(transactions[m])
         /\ Len(transactions[m]) \in Nat
         /\ \A i \in DOMAIN transactions[m] :
              /\ transactions[m][i] \in TxRow
              /\ RowAt(m, i).type \in Types
              /\ RowAt(m, i).amount \in Nat
              /\ createdAt[m][i] \in Nat
         /\ RowsOf(m) = {RowAt(m, i) : i \in 1..Len(transactions[m])}
         /\ IsFiniteSet(RowsOf(m))
         /\ transactions[m] # <<>> => m \in issuedIDs
<1>1. /\ transactions[m] \in Seq(TxRow) /\ createdAt[m] \in Seq(Nat)
      /\ Len(createdAt[m]) = Len(transactions[m])
      /\ transactions[m] # <<>> => m \in issuedIDs
  BY DEF TablesOK, LedgerInv, LedgerTypeOK, NoOrphanRows
<1>2. /\ DOMAIN transactions[m] = 1..Len(transactions[m]) /\ Len(transactions[m]) \in Nat
      /\ \A i \in DOMAIN transactions[m] : /\ transactions[m][i] \in TxRow
                                           /\ createdAt[m][i] \in Nat
  BY <1>1
<1>3. \A i \in DOMAIN transactions[m] :
        RowAt(m, i).type \in Types /\ RowAt(m, i).amount \in Nat
  BY <1>2, LedgerAssumption DEF RowAt, TxRow, Types
<1>4. RowsOf(m) = {RowAt(m, i) : i \in 1..Len(transactions[m])}
  BY <1>2 DEF RowsOf, RowAt
<1> DEFINE rowAt == [i \in 1..Len(transactions[m]) |-> RowAt(m, i)]
<1>5. rowAt \in Surjection(1..Len(transactions[m]), RowsOf(m))
  BY <1>4 DEF Surjection
<1> HIDE DEF rowAt
<1>6. IsFiniteSet(RowsOf(m))
  <2>1. IsFiniteSet(1..Len(transactions[m]))
    BY <1>2, FS_Interval
  <2>2. QED
    BY <1>5, <2>1, FS_Surjection
<1>7. QED
  BY <1>1, <1>2, <1>3, <1>4, <1>6

LEMMA RowsOfQuery ==
  ASSUME TablesOK, NEW period, NEW who \in SUBSET MemberIDs
  PROVE  /\ \A row \in RowsIn(period, who) :
              row.member \in who /\ row.type \in Types /\ row.amount \in Nat
         /\ RowsIn(period, who) = RowsIn(period, who \cap issuedIDs)
         /\ IsFiniteSet(RowsIn(period, who))
<1>1. ASSUME NEW row \in RowsIn(period, who)
      PROVE  /\ row.member \in who /\ row.type \in Types /\ row.amount \in Nat
             /\ row \in RowsIn(period, who \cap issuedIDs)
  <2>1. PICK m \in who : \E i \in DOMAIN transactions[m] : row = RowAt(m, i)
    BY RowsFound
  <2>2. PICK i \in DOMAIN transactions[m] : row = RowAt(m, i)
    BY <2>1
  <2>3. row.type \in Types /\ row.amount \in Nat
    BY <2>2, RowsOfMember
  <2>4. row.member = m
    BY <2>2 DEF RowAt
  <2>5. m \in issuedIDs
    <3>1. DOMAIN transactions[m] = 1..Len(transactions[m]) /\ Len(<<>>) = 0
      BY RowsOfMember
    <3>2. QED
      BY <2>2, <3>1, RowsOfMember
  <2>6. row \in RowsIn(period, who \cap issuedIDs)
    BY <2>2, <2>5, RowsFound
  <2>7. QED
    BY <2>3, <2>4, <2>6
<1>2. RowsIn(period, who \cap issuedIDs) \subseteq RowsIn(period, who)
  BY DEF RowsIn
<1>3. IsFiniteSet(UNION {RowsOf(m) : m \in who \cap issuedIDs})
  <2> DEFINE S == who \cap issuedIDs
             rowsOf == [m \in S |-> RowsOf(m)]
             T == {RowsOf(m) : m \in S}
  <2>1. IsFiniteSet(S)
    BY FS_Subset DEF TablesOK
  <2>2. rowsOf \in Surjection(S, T)
    BY DEF Surjection
  <2>3. \A R \in T : IsFiniteSet(R)
    BY RowsOfMember
  <2> HIDE DEF S, T, rowsOf
  <2>4. IsFiniteSet(T)
    BY <2>1, <2>2, FS_Surjection
  <2>5. IsFiniteSet(UNION T)
    BY <2>3, <2>4, FS_UNION
  <2>6. QED
    BY <2>5 DEF S, T
<1>4. RowsIn(period, who \cap issuedIDs) \in SUBSET UNION {RowsOf(m) : m \in who \cap issuedIDs}
  BY DEF RowsIn
<1>5. IsFiniteSet(RowsIn(period, who \cap issuedIDs))
  BY <1>3, <1>4, FS_Subset
<1>6. QED
  BY <1>1, <1>2, <1>5

\* The first n rows of m.
FirstRows(m, n) == {RowAt(m, i) : i \in 1..n}

LEMMA FirstRowsFinite ==
  ASSUME TablesOK, NEW m \in MemberIDs, NEW n \in 0..Len(transactions[m])
  PROVE  /\ IsFiniteSet(FirstRows(m, n))
         /\ \A row \in FirstRows(m, n) : row.amount \in Nat
<1>1. /\ DOMAIN transactions[m] = 1..Len(transactions[m]) /\ Len(transactions[m]) \in Nat
      /\ RowsOf(m) = {RowAt(m, i) : i \in 1..Len(transactions[m])}
      /\ IsFiniteSet(RowsOf(m))
      /\ \A i \in DOMAIN transactions[m] : RowAt(m, i).amount \in Nat
  BY RowsOfMember
<1>2. FirstRows(m, n) \in SUBSET RowsOf(m)
  BY <1>1 DEF FirstRows
<1>3. QED
  BY <1>1, <1>2, FS_Subset

\* The rows of a member add up to its balance, from the first to any other.
LEMMA RowsExplainBalance ==
  ASSUME TablesOK, NEW m \in MemberIDs
  PROVE  \A n \in 0..Len(transactions[m]) :
           Total(OfType(FirstRows(m, n), "charge")) - Total(OfType(FirstRows(m, n), "deduct"))
             = BalanceAt(m, n)
<1> DEFINE of(n, type) == OfType(FirstRows(m, n), type)
           len == Len(transactions[m])
           X == {n \in Nat : n \in 0..len =>
                   Total(of(n, "charge")) - Total(of(n, "deduct")) = BalanceAt(m, n)}
<1>1. len \in Nat /\ transactions[m] \in Seq(TxRow)
  BY DEF TablesOK, LedgerInv, LedgerTypeOK
<1>2. ASSUME NEW n \in 0..len, NEW type \in Types
      PROVE  /\ IsFiniteSet(of(n, type))
             /\ \A row \in of(n, type) : row.amount \in Nat
             /\ Total(of(n, type)) \in Nat
  <2>1. IsFiniteSet(FirstRows(m, n)) /\ \A row \in FirstRows(m, n) : row.amount \in Nat
    BY FirstRowsFinite
  <2>2. of(n, type) \in SUBSET FirstRows(m, n)
    BY DEF OfType
  <2> HIDE DEF of
  <2>3. QED
    BY <2>1, <2>2, FS_Subset, TotalGrows
<1>3. 0 \in X
  <2>1. FirstRows(m, 0) = {}
    BY DEF FirstRows
  <2>2. of(0, "charge") = {} /\ of(0, "deduct") = {}
    BY <2>1 DEF OfType
  <2> HIDE DEF of
  <2>3. BalanceAt(m, 0) = 0
    BY DEF BalanceAt
  <2>4. Total({}) = 0
    BY TotalOfFew
  <2>5. Total(of(0, "charge")) - Total(of(0, "deduct")) = BalanceAt(m, 0)
    BY <2>2, <2>3, <2>4
  <2>6. QED
    BY <2>5
<1>4. ASSUME NEW n \in Nat, n \in X PROVE n + 1 \in X
  <2> SUFFICES ASSUME n + 1 \in 0..len
               PROVE  Total(of(n + 1, "charge")) - Total(of(n + 1, "deduct"))
                        = BalanceAt(m, n + 1)
    OBVIOUS
  <2> DEFINE new == RowAt(m, n + 1)
  <2>1. /\ n \in 0..len /\ n + 1 \in 1..len
        /\ Total(of(n, "charge")) - Total(of(n, "deduct")) = BalanceAt(m, n)
    BY <1>1, <1>4
  <2>2. FirstRows(m, n + 1) = FirstRows(m, n) \cup {new}
    <3>1. 1..(n + 1) = 1..n \cup {n + 1}
      OBVIOUS
    <3>2. QED
      BY <3>1 DEF FirstRows
  <2>3. new \notin FirstRows(m, n)
    <3>1. \A i \in 1..n : RowAt(m, i).row = i /\ i # n + 1
      BY DEF RowAt
    <3>2. new.row = n + 1
      BY DEF RowAt
    <3> HIDE DEF new
    <3>3. QED
      BY <3>1, <3>2 DEF FirstRows
  <2>4. /\ new.type = transactions[m][n + 1].type
        /\ new.amount = transactions[m][n + 1].amount
        /\ new.type \in Types /\ new.amount \in Nat
    <3>1. transactions[m][n + 1] \in TxRow
      BY <1>1, <2>1
    <3>2. QED
      BY <3>1, LedgerAssumption DEF RowAt, TxRow, Types
  <2>5. BalanceAt(m, n + 1) = Applied(BalanceAt(m, n), new.type, new.amount)
    <3>1. n + 1 \in DOMAIN transactions[m] /\ (n + 1) - 1 = n /\ n + 1 # 0
      BY <1>1, <2>1
    <3>2. QED
      BY <2>4, <3>1 DEF TablesOK, LedgerInv, RowsChain, BalanceAt
  <2> HIDE DEF new
  <2>6. ASSUME NEW type \in Types
        PROVE  Total(of(n + 1, type)) =
                 IF new.type = type THEN Total(of(n, type)) + new.amount
                 ELSE Total(of(n, type))
    <3>1. CASE new.type = type
      <4>1. of(n + 1, type) = of(n, type) \cup {new} /\ of(n, type) \cap {new} = {}
        BY <2>2, <2>3, <3>1 DEF OfType
      <4>2. IsFiniteSet({new}) /\ Total({new}) = new.amount
        BY <2>4, FS_Singleton, TotalOfFew
      <4>3. IsFiniteSet(of(n, type)) /\ \A row \in of(n, type) \cup {new} : row.amount \in Nat
        BY <1>2, <2>1, <2>4
      <4> HIDE DEF of
      <4>4. Total(of(n, type) \cup {new}) = Total(of(n, type)) + Total({new})
        BY <4>1, <4>2, <4>3, TotalOfUnion
      <4>5. QED
        BY <3>1, <4>1, <4>2, <4>4
    <3>2. CASE new.type # type
      <4>1. of(n + 1, type) = of(n, type)
        BY <2>2, <3>2 DEF OfType
      <4>2. QED
        BY <3>2, <4>1
    <3>3. QED
      BY <3>1, <3>2
  <2>7. \A type \in Types : Total(of(n, type)) \in Nat
    BY <1>2, <2>1
  <2> HIDE DEF of
  <2>8. BalanceAt(m, n) = Total(of(n, "charge")) - Total(of(n, "deduct"))
    BY <2>1
  <2>9. CASE new.type = "charge"
    <3>1. /\ Total(of(n + 1, "charge")) = Total(of(n, "charge")) + new.amount
          /\ Total(of(n + 1, "deduct")) = Total(of(n, "deduct"))
          /\ BalanceAt(m, n + 1) = BalanceAt(m, n) + new.amount
      BY <2>5, <2>6, <2>9 DEF Types, Applied
    <3>2. QED
      BY <2>4, <2>7, <2>8, <3>1 DEF Types
  <2>10. CASE new.type = "deduct"
    <3>1. /\ Total(of(n + 1, "charge")) = Total(of(n, "charge"))
          /\ Total(of(n + 1, "deduct")) = Total(of(n, "deduct")) + new.amount
          /\ BalanceAt(m, n + 1) = BalanceAt(m, n) - new.amount
      BY <2>5, <2>6, <2>10 DEF Types, Applied
    <3>2. QED
      BY <2>4, <2>7, <2>8, <3>1 DEF Types
  <2>11. QED
    BY <2>4, <2>9, <2>10 DEF Types
<1> HIDE DEF X
<1>5. Nat \subseteq X
  BY <1>3, <1>4, Induction
<1>6. QED
  BY <1>1, <1>5 DEF X

\* A period from the start holds the first rows of a member, if the clock was not
\* set back between them.
LEMMA FirstRowsOfPeriod ==
  ASSUME TablesOK, TimeOrdered, NEW m \in MemberIDs,
         NEW period \in [from : Int, to : Int], period.from = 0
  PROVE  \E n \in 0..Len(transactions[m]) : RowsIn(period, {m}) = FirstRows(m, n)
<1> DEFINE len == Len(transactions[m])
           before(n) == {RowAt(m, i) : i \in {j \in 1..n : createdAt[m][j] < period.to}}
           X == {n \in Nat : n \in 0..len => \E k \in 0..n : before(n) = FirstRows(m, k)}
<1>1. /\ len \in Nat /\ DOMAIN transactions[m] = 1..len
      /\ \A i \in 1..len : createdAt[m][i] \in Nat
      /\ DOMAIN createdAt[m] = 1..len
  <2>1. createdAt[m] \in Seq(Nat) /\ Len(createdAt[m]) = len
    BY DEF TablesOK
  <2>2. QED
    BY <2>1, RowsOfMember
<1>2. 0 \in X
  <2>1. before(0) = FirstRows(m, 0)
    BY DEF FirstRows
  <2> HIDE DEF before
  <2>2. QED
    BY <2>1
<1>3. ASSUME NEW n \in Nat, n \in X PROVE n + 1 \in X
  <2> SUFFICES ASSUME n + 1 \in 0..len
               PROVE  \E k \in 0..(n + 1) : before(n + 1) = FirstRows(m, k)
    OBVIOUS
  <2>1. n \in 0..len /\ n + 1 \in 1..len
    BY <1>1
  <2>2. CASE createdAt[m][n + 1] < period.to
    <3>1. \A j \in 1..(n + 1) : createdAt[m][j] < period.to
      <4> TAKE j \in 1..(n + 1)
      <4>1. j \in 1..len /\ (j < n + 1 \/ j = n + 1)
        BY <1>1, <2>1
      <4>2. createdAt[m][j] <= createdAt[m][n + 1]
        BY <1>1, <2>1, <4>1 DEF TimeOrdered
      <4>3. QED
        BY <1>1, <2>1, <2>2, <4>1, <4>2
    <3>2. before(n + 1) = FirstRows(m, n + 1)
      BY <3>1 DEF FirstRows
    <3> HIDE DEF before
    <3>3. QED
      BY <3>2
  <2>3. CASE ~(createdAt[m][n + 1] < period.to)
    <3>1. {j \in 1..(n + 1) : createdAt[m][j] < period.to}
            = {j \in 1..n : createdAt[m][j] < period.to}
      BY <2>3
    <3>2. before(n + 1) = before(n)
      BY <3>1
    <3>3. PICK k \in 0..n : before(n) = FirstRows(m, k)
      BY <1>3, <2>1
    <3> HIDE DEF before
    <3>4. QED
      BY <3>2, <3>3
  <2>4. QED
    BY <2>2, <2>3
<1> HIDE DEF X
<1>4. Nat \subseteq X
  BY <1>2, <1>3, Induction
<1>5. \E k \in 0..len : before(len) = FirstRows(m, k)
  <2>1. len \in X /\ len \in 0..len
    BY <1>1, <1>4
  <2> HIDE DEF before, len
  <2>2. QED
    BY <2>1 DEF X
<1>6. RowsIn(period, {m}) = before(len)
  <2>1. \A i \in 1..len : Within(RowAt(m, i), period) <=> createdAt[m][i] < period.to
    BY <1>1 DEF Within, RowAt
  <2>2. \A row : row \in RowsIn(period, {m}) <=>
                   Within(row, period) /\ \E i \in 1..len : row = RowAt(m, i)
    BY <1>1, RowsFound
  <2> HIDE DEF len
  <2>3. \A row : row \in before(len) <=>
                   \E i \in 1..len : createdAt[m][i] < period.to /\ row = RowAt(m, i)
    OBVIOUS
  <2> HIDE DEF before
  <2>4. QED
    BY <2>1, <2>2, <2>3
<1>7. QED
  BY <1>5, <1>6

\* The totals of a query are natural numbers.
LEMMA TotalOfQuery ==
  ASSUME TablesOK, NEW period, NEW who \in SUBSET MemberIDs, NEW type
  PROVE  /\ IsFiniteSet(OfType(RowsIn(period, who), type))
         /\ \A row \in OfType(RowsIn(period, who), type) : row.amount \in Nat
         /\ Total(OfType(RowsIn(period, who), type)) \in Nat
<1> DEFINE rows == RowsIn(period, who)
<1>1. IsFiniteSet(rows) /\ \A row \in rows : row.amount \in Nat
  BY RowsOfQuery
<1>2. OfType(rows, type) \in SUBSET rows
  BY DEF OfType
<1> HIDE DEF rows
<1>3. IsFiniteSet(OfType(rows, type)) /\ Total(OfType(rows, type)) \in Nat
  BY <1>1, <1>2, FS_Subset, TotalGrows
<1>4. QED
  BY <1>1, <1>2, <1>3 DEF rows

\* Nobody has spent more than was charged.
LEMMA MemberCovered ==
  ASSUME TablesOK, TimeOrdered, NEW m \in MemberIDs,
         NEW period \in [from : Int, to : Int], period.from = 0
  PROVE  Total(OfType(RowsIn(period, {m}), "deduct"))
           <= Total(OfType(RowsIn(period, {m}), "charge"))
<1> DEFINE rows == RowsIn(period, {m})
<1>1. PICK n \in 0..Len(transactions[m]) : rows = FirstRows(m, n)
  BY FirstRowsOfPeriod
<1>2. Total(OfType(rows, "charge")) - Total(OfType(rows, "deduct")) = BalanceAt(m, n)
  BY <1>1, RowsExplainBalance
<1>3. BalanceAt(m, n) \in Nat
  <2>1. n # 0 => n \in DOMAIN transactions[m]
    BY RowsOfMember
  <2>2. n # 0 => transactions[m][n] \in TxRow
    BY <2>1, RowsOfMember
  <2>3. QED
    BY <2>2, LedgerAssumption DEF BalanceAt, TxRow
<1>4. Total(OfType(rows, "charge")) \in Nat /\ Total(OfType(rows, "deduct")) \in Nat
  BY TotalOfQuery
<1>5. QED
  BY <1>2, <1>3, <1>4

\* Members taken together have not spent more than was charged, either.
LEMMA DeductionsCovered ==
  ASSUME TablesOK, TimeOrdered, NEW who \in SUBSET MemberIDs,
         NEW period \in [from : Int, to : Int], period.from = 0
  PROVE  Total(OfType(RowsIn(period, who), "deduct"))
           <= Total(OfType(RowsIn(period, who), "charge"))
<1> DEFINE of(T, type) == OfType(RowsIn(period, T), type)
           S == who \cap issuedIDs
           X == {T \in SUBSET S : Total(of(T, "deduct")) <= Total(of(T, "charge"))}
<1>1. IsFiniteSet(S) /\ S \in SUBSET MemberIDs
  BY FS_Subset DEF TablesOK
<1>2. ASSUME NEW T \in SUBSET S, \A x \in T : T \ {x} \in X PROVE T \in X
  <2>1. CASE T = {}
    <3>1. of(T, "deduct") = {} /\ of(T, "charge") = {}
      BY <2>1 DEF RowsIn, OfType
    <3>2. Total({}) <= Total({})
      BY TotalOfFew
    <3> HIDE DEF of
    <3>3. QED
      BY <3>1, <3>2
  <2>2. CASE T # {}
    <3>1. PICK x \in T : TRUE
      BY <2>2
    <3>2. T \ {x} \in SUBSET MemberIDs /\ {x} \in SUBSET MemberIDs /\ x \in MemberIDs
      BY <1>1, <3>1
    <3>3. ASSUME NEW type
          PROVE  /\ of(T, type) = of(T \ {x}, type) \cup of({x}, type)
                 /\ of(T \ {x}, type) \cap of({x}, type) = {}
      <4>1. RowsIn(period, T) = RowsIn(period, T \ {x}) \cup RowsIn(period, {x})
        BY <3>1 DEF RowsIn
      <4>2. \A row \in RowsIn(period, T \ {x}) : row.member # x
        BY RowsFound DEF RowAt
      <4>3. \A row \in RowsIn(period, {x}) : row.member = x
        BY RowsFound DEF RowAt
      <4>4. QED
        BY <4>1, <4>2, <4>3 DEF OfType
    <3>4. ASSUME NEW type
          PROVE  /\ Total(of(T, type)) = Total(of(T \ {x}, type)) + Total(of({x}, type))
                 /\ Total(of(T \ {x}, type)) \in Nat /\ Total(of({x}, type)) \in Nat
      <4>1. /\ IsFiniteSet(of(T \ {x}, type)) /\ Total(of(T \ {x}, type)) \in Nat
            /\ \A row \in of(T \ {x}, type) : row.amount \in Nat
        BY <3>2, TotalOfQuery
      <4>2. /\ IsFiniteSet(of({x}, type)) /\ Total(of({x}, type)) \in Nat
            /\ \A row \in of({x}, type) : row.amount \in Nat
        BY <3>2, TotalOfQuery
      <4> HIDE DEF of
      <4>3. Total(of(T, type)) = Total(of(T \ {x}, type)) + Total(of({x}, type))
        BY <3>3, <4>1, <4>2, TotalOfUnion
      <4>4. QED
        BY <4>1, <4>2, <4>3
    <3>5. Total(of({x}, "deduct")) <= Total(of({x}, "charge"))
      BY <3>2, MemberCovered
    <3> HIDE DEF of
    <3>6. Total(of(T \ {x}, "deduct")) <= Total(of(T \ {x}, "charge"))
      BY <1>2, <3>1
    <3>7. Total(of(T, "deduct")) <= Total(of(T, "charge"))
      BY <3>4, <3>5, <3>6
    <3>8. QED
      BY <3>7
  <2>3. QED
    BY <2>1, <2>2
<1> HIDE DEF X, S
<1>3. \A T \in SUBSET S : T \in X
  BY <1>1, <1>2, SetInduction
<1>4. Total(of(S, "deduct")) <= Total(of(S, "charge"))
  BY <1>3 DEF X
<1>5. RowsIn(period, S) = RowsIn(period, who)
  BY RowsOfQuery DEF S
<1>6. QED
  BY <1>4, <1>5

-----------------------------------------------------------------------------
(* The tables.                                                             *)

\* Every step is a step of the ledger.
LEMMA ReportsLedgerStep ==
  ASSUME [Next]_vars
  PROVE  [LedgerNext]_ledgerVars
<1>1. ASSUME NEW m \in MemberIDs, Create(m) PROVE LedgerNext
  BY <1>1 DEF Create, LedgerNext
<1>2. ASSUME NEW m \in MemberIDs, NEW type \in Types, NEW amount \in Amounts,
             ChargeOrDeduct(m, type, amount)
      PROVE  LedgerNext
  BY <1>2 DEF ChargeOrDeduct, LedgerNext, Types
<1>3. ASSUME NEW m \in MemberIDs, Delete(m) PROVE LedgerNext
  BY <1>3 DEF Delete, LedgerNext
<1>4. CASE ClockChanges
  BY <1>4 DEF ClockChanges
<1>5. ASSUME NEW r \in Requests,
             \/ \E f \in Filter : Arrive(r, f)
             \/ ResolveList(r) \/ List(r) \/ ResolveSums(r) \/ FirstSum(r)
             \/ SecondSum(r) \/ SumFails(r) \/ Leave(r)
      PROVE  UNCHANGED ledgerVars
  BY <1>5 DEF Arrive, ResolveList, List, ResolveSums, FirstSum, SecondSum, QuerySum,
              SumFails, Leave, tableVars
<1>6. CASE UNCHANGED vars
  BY <1>6 DEF vars, tableVars
<1>7. QED
  BY <1>1, <1>2, <1>3, <1>4, <1>5, <1>6 DEF Next

LEMMA CreateKeepsTables ==
  ASSUME TablesOK, LedgerInv', NEW m \in MemberIDs, Create(m)
  PROVE  TablesOK'
<1>1. issuedIDs' = issuedIDs \cup {m} /\ UNCHANGED <<transactions, createdAt, now>>
  BY DEF Create, Register
<1>2. IsFiniteSet(issuedIDs')
  BY <1>1, FS_AddElement DEF TablesOK
<1>3. newest' \in Seq(MemberIDs)
  <2>1. newest \in Seq(MemberIDs) /\ Len(newest) \in Nat
    BY DEF TablesOK
  <2>2. PICK i \in 1..Len(newest) + 1 : newest' = InsertAt(newest, i, m)
    BY DEF Create
  <2>3. /\ SubSeq(newest, 1, i - 1) \in Seq(MemberIDs)
        /\ SubSeq(newest, i, Len(newest)) \in Seq(MemberIDs)
    BY <2>1
  <2>4. QED
    BY <2>2, <2>3 DEF InsertAt
<1>4. QED
  BY <1>1, <1>2, <1>3 DEF TablesOK

LEMMA PostKeepsTables ==
  ASSUME TablesOK, LedgerInv', NEW m \in MemberIDs, NEW type \in Types,
         NEW amount \in Amounts, ChargeOrDeduct(m, type, amount)
  PROVE  TablesOK'
<1>1. /\ createdAt' = [createdAt EXCEPT ![m] = Append(@, now)]
      /\ UNCHANGED <<issuedIDs, newest, now>>
      /\ Post(m, type, amount)
      /\ type \in {"charge", "deduct"}
  BY DEF ChargeOrDeduct, Post, Types
<1>2. /\ Len(transactions'[m]) = Len(transactions[m]) + 1
      /\ \A k \in MemberIDs : k # m => transactions'[k] = transactions[k]
  <2>1. LedgerInv
    BY DEF TablesOK
  <2>2. Len(transactions'[m]) = Len(transactions[m]) + 1
    BY <1>1, <2>1, PostedRows
  <2>3. QED
    BY <1>1, <2>1, <2>2 DEF Post, LedgerInv, LedgerTypeOK
<1>3. /\ createdAt'[m] \in Seq(Nat)
      /\ Len(createdAt'[m]) = Len(createdAt[m]) + 1
      /\ \A k \in MemberIDs : k # m => createdAt'[k] = createdAt[k]
  <2>1. now \in Nat
    BY ReportsAssumption DEF TablesOK
  <2>2. QED
    BY <1>1, <2>1 DEF TablesOK
<1>4. createdAt' \in [MemberIDs -> Seq(Nat)]
  BY <1>1, <1>3 DEF TablesOK
<1>5. \A k \in MemberIDs : Len(createdAt'[k]) = Len(transactions'[k])
  BY <1>2, <1>3 DEF TablesOK
<1>6. QED
  BY <1>1, <1>4, <1>5 DEF TablesOK

LEMMA DeleteKeepsTables ==
  ASSUME TablesOK, LedgerInv', NEW m \in MemberIDs, Delete(m)
  PROVE  TablesOK'
<1>1. /\ transactions' = [transactions EXCEPT ![m] = <<>>]
      /\ createdAt' = [createdAt EXCEPT ![m] = <<>>]
      /\ UNCHANGED <<issuedIDs, now>>
  BY DEF Delete, RemoveMember
<1>2. \A k \in MemberIDs :
        /\ createdAt'[k] = IF k = m THEN <<>> ELSE createdAt[k]
        /\ transactions'[k] = IF k = m THEN <<>> ELSE transactions[k]
  BY <1>1 DEF TablesOK, LedgerInv, LedgerTypeOK
<1>3. newest' \in Seq(MemberIDs)
  <2>1. newest \in Seq(MemberIDs) /\ Len(newest) \in Nat
    BY DEF TablesOK
  <2>2. PICK i \in DOMAIN newest : newest' = RemoveAt(newest, i)
    BY DEF Delete
  <2>3. /\ SubSeq(newest, 1, i - 1) \in Seq(MemberIDs)
        /\ SubSeq(newest, i + 1, Len(newest)) \in Seq(MemberIDs)
    BY <2>1
  <2>4. QED
    BY <2>2, <2>3 DEF RemoveAt
<1>4. createdAt' \in [MemberIDs -> Seq(Nat)]
  BY <1>1 DEF TablesOK
<1>5. \A k \in MemberIDs : Len(createdAt'[k]) = Len(transactions'[k])
  BY <1>2 DEF TablesOK
<1>6. QED
  BY <1>1, <1>3, <1>4, <1>5 DEF TablesOK

LEMMA TablesKept ==
  ASSUME TablesOK, [Next]_vars
  PROVE  TablesOK'
<1>1. LedgerInv'
  BY ReportsLedgerStep, LedgerNextInv DEF TablesOK
<1>2. ASSUME NEW m \in MemberIDs, Create(m) PROVE TablesOK'
  BY <1>1, <1>2, CreateKeepsTables
<1>3. ASSUME NEW m \in MemberIDs, NEW type \in Types, NEW amount \in Amounts,
             ChargeOrDeduct(m, type, amount)
      PROVE  TablesOK'
  BY <1>1, <1>3, PostKeepsTables
<1>4. ASSUME NEW m \in MemberIDs, Delete(m) PROVE TablesOK'
  BY <1>1, <1>4, DeleteKeepsTables
<1>5. CASE ClockChanges
  <2>1. now' \in Moments /\ UNCHANGED <<issuedIDs, transactions, createdAt, newest>>
    BY <1>5 DEF ClockChanges, ledgerVars
  <2>2. QED
    BY <1>1, <2>1 DEF TablesOK
<1>6. ASSUME UNCHANGED tableVars PROVE TablesOK'
  BY <1>1, <1>6 DEF TablesOK, tableVars, ledgerVars
<1>7. ASSUME NEW r \in Requests,
             \/ \E f \in Filter : Arrive(r, f)
             \/ ResolveList(r) \/ List(r) \/ ResolveSums(r) \/ FirstSum(r)
             \/ SecondSum(r) \/ SumFails(r) \/ Leave(r)
      PROVE  UNCHANGED tableVars
  BY <1>7 DEF Arrive, ResolveList, List, ResolveSums, FirstSum, SecondSum, QuerySum,
              SumFails, Leave
<1>8. CASE UNCHANGED vars
  BY <1>6, <1>8 DEF vars
<1>9. QED
  BY <1>2, <1>3, <1>4, <1>5, <1>6, <1>7, <1>8 DEF Next

-----------------------------------------------------------------------------
(* The pages: types.                                                       *)

\* Queries ask for members, and for periods.
LEMMA QueryTypes ==
  ASSUME TablesOK, NEW f \in Filter
  PROVE  /\ f # NoFilter
         /\ f.page \in {"dashboard", "transactions"}
         /\ f.page = "dashboard" => f.q = NoQuery
         /\ PeriodRange(f.period) \in [from : Int, to : Int]
         /\ f.period = "all" => PeriodRange(f.period).from = 0
         /\ f.q # NoQuery => f.q \in SUBSET MemberIDs
         /\ ListScope(f.q) \in SUBSET MemberIDs
         /\ SumScope(f.q) \in SUBSET MemberIDs
<1>1. f # NoFilter
  BY ReportsAssumption
<1>2. /\ f.page \in {"dashboard", "transactions"}
      /\ f.page = "dashboard" => f.q = NoQuery
      /\ f.q \in {NoQuery} \cup SUBSET MemberIDs
  BY DEF Filter
<1>3. now \in Nat /\ now % DayLength \in Int /\ Minute \in Nat
  <2>1. now \in Nat /\ DayLength \in Nat \ {0} /\ Minute \in Nat
    BY ReportsAssumption DEF TablesOK
  <2>2. QED
    BY <2>1
<1>4. /\ PeriodRange(f.period) \in [from : Int, to : Int]
      /\ f.period = "all" => PeriodRange(f.period).from = 0
  BY <1>3 DEF PeriodRange
<1>5. f.q # NoQuery => Resolved(f.q) \in SUBSET MemberIDs
  BY <1>2 DEF Resolved, Found
<1>6. QED
  BY <1>1, <1>2, <1>4, <1>5 DEF ListScope, SumScope

\* A request that is not idle asks for something.
LEMMA FilterOfRequest ==
  ASSUME PageTypes, NEW r \in Requests, pc[r] # "idle"
  PROVE  filter[r] \in Filter
BY DEF PageTypes

\* Steps of the tables leave the types of the pages alone.
LEMMA NotesKeepTypes ==
  ASSUME PageTypes, UNCHANGED pageVars,
         NoteCreate \/ NoteDelete \/ (\E rows : NoteRows(rows)) \/ UNCHANGED historyVars
  PROVE  PageTypes'
<1>1. UNCHANGED <<pc, filter, range, scope, sums, listed>>
  BY DEF pageVars
<1>2. DOMAIN events' = Requests /\ DOMAIN listRange' = Requests /\ DOMAIN since' = Requests
  BY DEF PageTypes, NoteCreate, NoteDelete, NoteRows, historyVars
<1>3. QED
  BY <1>1, <1>2 DEF PageTypes

\* The steps of a request.
LEMMA PagesKeepTypes ==
  ASSUME TablesOK, PageTypes, NEW r \in Requests,
         \/ \E f \in Filter : Arrive(r, f)
         \/ ResolveList(r) \/ List(r) \/ ResolveSums(r) \/ FirstSum(r)
         \/ SecondSum(r) \/ SumFails(r) \/ Leave(r)
  PROVE  PageTypes'
<1> USE DEF PageTypes, Goto, Labels, historyVars
<1>1. pc[r] # "idle" => filter[r] \in Filter
  BY FilterOfRequest
<1>2. NoSums \in [Types -> Nat] /\ NoRange \in [from : Int, to : Int]
  BY DEF NoSums, NoRange
<1>3. ASSUME NEW f \in Filter, Arrive(r, f) PROVE PageTypes'
  <2>1. PeriodRange(f.period) \in [from : Int, to : Int] /\ f # NoFilter
    BY QueryTypes
  <2>2. QED
    BY <1>3, <2>1 DEF Arrive
<1>4. CASE ResolveList(r)
  <2>1. pc[r] = "resolveList"
    BY <1>4 DEF ResolveList
  <2>2. /\ PeriodRange(filter[r].period) \in [from : Int, to : Int]
        /\ ListScope(filter[r].q) \in SUBSET MemberIDs
    BY <1>1, <2>1, QueryTypes
  <2>3. QED
    BY <1>4, <2>1, <2>2 DEF ResolveList
<1>5. CASE List(r)
  <2>1. \E few : listed' = [listed EXCEPT ![r] = few]
    BY <1>5 DEF List
  <2>2. QED
    BY <1>2, <1>5, <2>1 DEF List
<1>6. CASE ResolveSums(r)
  <2>1. pc[r] = "listDone"
    BY <1>6 DEF ResolveSums
  <2>2. /\ PeriodRange(filter[r].period) \in [from : Int, to : Int]
        /\ SumScope(filter[r].q) \in SUBSET MemberIDs
    BY <1>1, <2>1, QueryTypes
  <2>3. scope' \in [Requests -> SUBSET MemberIDs]
    <3>1. \E who \in SUBSET MemberIDs : scope' = [scope EXCEPT ![r] = who]
      BY <1>6, <2>2 DEF ResolveSums
    <3>2. QED
      BY <3>1
  <2>4. DOMAIN events' = Requests
    BY <1>6 DEF ResolveSums
  <2>5. /\ pc' = [pc EXCEPT ![r] = "firstSum"]
        /\ range' = [range EXCEPT ![r] = PeriodRange(filter[r].period)]
        /\ UNCHANGED <<filter, listed, sums, listRange, since>>
    BY <1>6 DEF ResolveSums
  <2>6. QED
    BY <2>1, <2>2, <2>3, <2>4, <2>5
<1>7. ASSUME NEW label \in {"firstSum", "secondSum"}, NEW type \in Types,
             NEW next \in {"secondSum", "done"}, QuerySum(r, label, type, next)
      PROVE  PageTypes'
  <2>1. Total(OfType(RowsIn(range[r], scope[r]), type)) \in Nat
    BY TotalOfQuery
  <2>2. sums' \in [Requests -> [Types -> Nat]]
    BY <1>7, <2>1 DEF QuerySum
  <2>3. QED
    BY <1>7, <2>2 DEF QuerySum
<1>8. CASE FirstSum(r)
  BY <1>7, <1>8 DEF FirstSum, SumOrder, Types
<1>9. CASE SecondSum(r)
  BY <1>7, <1>9 DEF SecondSum, SumOrder, Types
<1>10. CASE SumFails(r)
  BY <1>2, <1>10 DEF SumFails
<1>11. CASE Leave(r)
  BY <1>2, <1>11 DEF Leave
<1>12. QED
  BY <1>3, <1>4, <1>5, <1>6, <1>8, <1>9, <1>10, <1>11

-----------------------------------------------------------------------------
(* The pages: figures.                                                     *)

\* The tables stay as they are, and so does whatever a query would find.
LEMMA SameTables ==
  ASSUME UNCHANGED tableVars
  PROVE  /\ \A period, who : RowsIn(period, who)' = RowsIn(period, who)
         /\ \A period : PeriodRange(period)' = PeriodRange(period)
         /\ \A q : ListScope(q)' = ListScope(q) /\ SumScope(q)' = SumScope(q)
         /\ TimeOrdered' = TimeOrdered
         /\ UNCHANGED withKey
<1> USE DEF tableVars, ledgerVars
<1>1. \A period, who : RowsIn(period, who)' = RowsIn(period, who)
  BY DEF RowsIn, RowsOf, Within
<1>2. \A period : PeriodRange(period)' = PeriodRange(period)
  BY DEF PeriodRange
<1>3. \A q : ListScope(q)' = ListScope(q) /\ SumScope(q)' = SumScope(q)
  BY DEF ListScope, SumScope, Resolved, Found
<1>4. TimeOrdered' = TimeOrdered
  BY DEF TimeOrdered
<1>5. QED
  BY <1>1, <1>2, <1>3, <1>4

\* What a request was shown, and what explains its totals, stays as it is.
LEMMA SameFigures ==
  ASSUME NEW r \in Requests, UNCHANGED tableVars,
         UNCHANGED <<filter[r], range[r], listed[r], listRange[r], since[r]>>
  PROVE  /\ Wanted(r)' = Wanted(r)
         /\ \A row : PastLimit(r, row)' = PastLimit(r, row)
         /\ \A type : Shown(r, type)' = Shown(r, type)
         /\ \A type : Explained(r, type)' = Explained(r, type)
<1>1. /\ \A period, who : RowsIn(period, who)' = RowsIn(period, who)
      /\ \A q : ListScope(q)' = ListScope(q)
  BY SameTables
<1>2. Wanted(r)' = Wanted(r)
  BY <1>1 DEF Wanted, OfFilter, OfType
<1>3. \A row : PastLimit(r, row)' = PastLimit(r, row)
  BY DEF PastLimit
<1>4. \A type : Shown(r, type)' = Shown(r, type)
  BY DEF Shown, OfType, Within
<1>5. \A type : Counted(r, type)' = Counted(r, type)
  BY <1>1 DEF Counted, OfType
<1>6. \A type : Explained(r, type)' = Explained(r, type)
  BY <1>3, <1>5 DEF Explained, Within
<1>7. QED
  BY <1>2, <1>3, <1>4, <1>6

\* A request that does not move while another one does.
LEMMA OthersKept ==
  ASSUME NEW r \in Requests, PageOK(r), UNCHANGED tableVars,
         UNCHANGED <<pc[r], filter[r], range[r], scope[r], listed[r], sums[r],
                     events[r], listRange[r], since[r]>>
  PROVE  PageOK(r)'
<1>1. /\ \A period, who : RowsIn(period, who)' = RowsIn(period, who)
      /\ \A q : ListScope(q)' = ListScope(q) /\ SumScope(q)' = SumScope(q)
      /\ TimeOrdered' = TimeOrdered /\ withKey' = withKey
  BY SameTables
<1>2. /\ Wanted(r)' = Wanted(r)
      /\ \A row : PastLimit(r, row)' = PastLimit(r, row)
      /\ \A type : Shown(r, type)' = Shown(r, type)
      /\ \A type : Explained(r, type)' = Explained(r, type)
  BY SameFigures
<1>3. \A labels : OnPage(r, labels)' = OnPage(r, labels)
  BY <1>1 DEF OnPage, Undisturbed
<1>4. Covered(r)'
  <2>1. Total(RowsNow(r, "charge"))' = Total(RowsNow(r, "charge"))
    BY <1>1 DEF RowsNow, OfType
  <2>2. QED
    BY <1>1, <2>1 DEF PageOK, Covered
<1>5. ScopeKept(r)'
  BY <1>1, <1>3 DEF PageOK, ScopeKept
<1>6. ListKept(r)'
  BY <1>2, <1>3 DEF PageOK, ListKept
<1>7. \A type \in Types : Matches(r, type)'
  <2> TAKE type \in Types
  <2>1. Total(Shown(r, type))' = Total(Shown(r, type))
    BY <1>2
  <2>2. Total(Explained(r, type))' = Total(Explained(r, type))
    BY <1>2
  <2>3. QED
    BY <1>1, <1>3, <2>1, <2>2 DEF PageOK, Matches
<1>8. QED
  BY <1>4, <1>5, <1>6, <1>7 DEF PageOK

\* More rows make a larger total.
LEMMA TotalOfMore ==
  ASSUME NEW S, IsFiniteSet(S), \A row \in S : row.amount \in Nat,
         NEW N, IsFiniteSet(N), \A row \in N : row.amount \in Nat,
         NEW A, NEW B, A \subseteq B, B \subseteq S \cup N
  PROVE  Total(A) \in Nat /\ Total(B) \in Nat /\ Total(A) <= Total(B)
<1>1. IsFiniteSet(S \cup N) /\ \A row \in S \cup N : row.amount \in Nat
  BY FS_Union
<1>2. IsFiniteSet(B) /\ \A row \in B : row.amount \in Nat
  BY <1>1, FS_Subset
<1>3. QED
  BY <1>2, TotalGrows

\* A posting adds one row to those of its member.
LEMMA PostedRow ==
  ASSUME TablesOK, NEW m \in MemberIDs, NEW type \in Types, NEW amount \in Amounts,
         ChargeOrDeduct(m, type, amount)
  PROVE  /\ \E new : new.amount \in Nat /\ RowsOf(m)' = RowsOf(m) \cup {new}
         /\ \A k \in MemberIDs : k # m => RowsOf(k)' = RowsOf(k)
         /\ TimeOrdered' => TimeOrdered
<1> DEFINE n == Len(transactions[m])
           new == [member |-> m, row |-> n + 1, type |-> type, amount |-> amount,
                   createdAt |-> now]
<1>1. /\ transactions[m] \in Seq(TxRow) /\ n \in Nat
      /\ createdAt[m] \in Seq(Nat) /\ Len(createdAt[m]) = n
      /\ now \in Nat
  BY ReportsAssumption DEF TablesOK, LedgerInv, LedgerTypeOK
<1>2. /\ DOMAIN transactions'[m] = 1..(n + 1)
      /\ \A i \in 1..n : transactions'[m][i] = transactions[m][i]
      /\ transactions'[m][n + 1].type = type
      /\ transactions'[m][n + 1].amount = amount
      /\ \A k \in MemberIDs : k # m => transactions'[k] = transactions[k]
  <2>1. LedgerInv /\ Post(m, type, amount) /\ type \in {"charge", "deduct"}
    BY DEF TablesOK, ChargeOrDeduct, Types
  <2>2. /\ transactions'[m] \in Seq(TxRow)
        /\ Len(transactions'[m]) = Len(transactions[m]) + 1
        /\ transactions'[m][Len(transactions[m]) + 1] =
             [type |-> type, amount |-> amount,
              balanceAfter |-> Applied(members[m].balance, type, amount)]
        /\ \A i \in DOMAIN transactions[m] : transactions'[m][i] = transactions[m][i]
    BY <2>1, PostedRows
  <2>3. \A k \in MemberIDs : k # m => transactions'[k] = transactions[k]
    BY <2>1 DEF Post, LedgerInv, LedgerTypeOK
  <2>4. QED
    BY <1>1, <2>2, <2>3
<1>3. /\ createdAt' = [createdAt EXCEPT ![m] = Append(@, now)]
      /\ createdAt \in [MemberIDs -> Seq(Nat)]
  BY DEF ChargeOrDeduct, TablesOK
<1>4. /\ \A i \in 1..n : createdAt'[m][i] = createdAt[m][i]
      /\ createdAt'[m][n + 1] = now
      /\ DOMAIN createdAt'[m] = 1..(n + 1)
      /\ \A k \in MemberIDs : k # m => createdAt'[k] = createdAt[k]
  BY <1>1, <1>3
<1>5. DOMAIN transactions[m] = 1..n /\ DOMAIN createdAt[m] = 1..n
  BY <1>1
<1>6. RowsOf(m)' = {[member |-> m, row |-> i, type |-> transactions'[m][i].type,
                     amount |-> transactions'[m][i].amount,
                     createdAt |-> createdAt'[m][i]] : i \in 1..(n + 1)}
  BY <1>2 DEF RowsOf
<1>7. RowsOf(m) = {[member |-> m, row |-> i, type |-> transactions[m][i].type,
                    amount |-> transactions[m][i].amount,
                    createdAt |-> createdAt[m][i]] : i \in 1..n}
  BY <1>5 DEF RowsOf
<1>8. 1..(n + 1) = 1..n \cup {n + 1}
  BY <1>1
<1> HIDE DEF n
<1>9. RowsOf(m)' = RowsOf(m) \cup {new}
  BY <1>2, <1>4, <1>6, <1>7, <1>8
<1>10. \A k \in MemberIDs : k # m => RowsOf(k)' = RowsOf(k)
  BY <1>2, <1>4 DEF RowsOf
<1>11. TimeOrdered' => TimeOrdered
  <2> SUFFICES ASSUME TimeOrdered', NEW k \in MemberIDs,
                      NEW i \in DOMAIN createdAt[k], NEW j \in DOMAIN createdAt[k], i < j
               PROVE  createdAt[k][i] <= createdAt[k][j]
    BY DEF TimeOrdered
  <2>1. /\ i \in DOMAIN createdAt'[k] /\ j \in DOMAIN createdAt'[k]
        /\ createdAt'[k][i] = createdAt[k][i] /\ createdAt'[k][j] = createdAt[k][j]
    BY <1>4, <1>5, <1>8
  <2>2. QED
    BY <2>1 DEF TimeOrdered
<1>12. new.amount \in Nat
  BY LedgerAssumption
<1> HIDE DEF new
<1>13. QED
  BY <1>9, <1>10, <1>11, <1>12

\* The rows N are added to the tables, and noted by every request that has its list.
RowsAdded(N) ==
  /\ IsFiniteSet(N) /\ \A row \in N : row.amount \in Nat
  /\ \A period : \A who \in SUBSET MemberIDs :
       /\ RowsIn(period, who) \subseteq RowsIn(period, who)'
       /\ RowsIn(period, who)' \subseteq RowsIn(period, who) \cup N
  /\ \A r \in Requests :
       /\ since[r] \subseteq since'[r]
       /\ pc[r] \in {"listDone", "firstSum", "secondSum"} => N \subseteq since'[r]
  /\ UNCHANGED listRange
  /\ TimeOrdered' => TimeOrdered

\* Unless a member goes, rows are only added.
LEMMA RowsGrow ==
  ASSUME TablesOK,
         \/ \E m \in MemberIDs :
              \/ Create(m)
              \/ \E type \in Types, amount \in Amounts : ChargeOrDeduct(m, type, amount)
         \/ ClockChanges
  PROVE  \E N : RowsAdded(N)
<1>1. ASSUME NEW m \in MemberIDs, NEW type \in Types, NEW amount \in Amounts,
             ChargeOrDeduct(m, type, amount)
      PROVE  \E N : RowsAdded(N)
  <2> DEFINE N == RowsOf(m)' \ RowsOf(m)
  <2>1. PICK new : new.amount \in Nat /\ RowsOf(m)' = RowsOf(m) \cup {new}
    BY <1>1, PostedRow
  <2>2. N \in SUBSET {new}
    BY <2>1
  <2>3. IsFiniteSet(N) /\ \A row \in N : row.amount \in Nat
    BY <2>1, <2>2, FS_Singleton, FS_Subset
  <2>4. \A k \in MemberIDs : RowsOf(k) \subseteq RowsOf(k)' /\ RowsOf(k)' \subseteq RowsOf(k) \cup N
    BY <1>1, <2>1, PostedRow
  <2>5. /\ \A r \in Requests :
             /\ since[r] \subseteq since'[r]
             /\ pc[r] \in {"listDone", "firstSum", "secondSum"} => N \subseteq since'[r]
        /\ UNCHANGED listRange
    BY <1>1 DEF ChargeOrDeduct, NoteRows
  <2>6. TimeOrdered' => TimeOrdered
    BY <1>1, PostedRow
  <2> HIDE DEF N
  <2>7. ASSUME NEW period, NEW who \in SUBSET MemberIDs
        PROVE  /\ RowsIn(period, who) \subseteq RowsIn(period, who)'
               /\ RowsIn(period, who)' \subseteq RowsIn(period, who) \cup N
    <3>1. \A row : row \in RowsIn(period, who) <=>
                     Within(row, period) /\ \E k \in who : row \in RowsOf(k)
      BY DEF RowsIn
    <3>2. \A row : row \in RowsIn(period, who)' <=>
                     Within(row, period) /\ \E k \in who : row \in RowsOf(k)'
      BY DEF RowsIn, Within
    <3>3. QED
      BY <2>4, <3>1, <3>2
  <2>8. QED
    BY <2>3, <2>5, <2>6, <2>7 DEF RowsAdded
<1>2. CASE (\E m \in MemberIDs : Create(m)) \/ ClockChanges
  <2>1. UNCHANGED <<transactions, createdAt, listRange, since>>
    BY <1>2 DEF Create, Register, NoteCreate, ClockChanges, ledgerVars, historyVars
  <2>2. \A period, who : RowsIn(period, who)' = RowsIn(period, who)
    BY <2>1 DEF RowsIn, RowsOf, Within
  <2>3. TimeOrdered' = TimeOrdered
    BY <2>1 DEF TimeOrdered
  <2>4. IsFiniteSet({})
    BY FS_EmptySet
  <2>5. RowsAdded({})
    BY <2>1, <2>2, <2>3, <2>4 DEF RowsAdded
  <2>6. QED
    BY <2>5
<1>3. QED
  BY <1>1, <1>2

\* What the tables do to a request in progress: either a member went, and little
\* is asked of it any more, or rows were only added.
LEMMA TablesKeepPage ==
  ASSUME TablesOK, PageTypes, NEW r \in Requests, PageOK(r), UNCHANGED pageVars,
         \/ \E m \in MemberIDs :
              \/ Create(m)
              \/ \E type \in Types, amount \in Amounts : ChargeOrDeduct(m, type, amount)
              \/ Delete(m)
         \/ ClockChanges
  PROVE  PageOK(r)'
<1>1. UNCHANGED <<pc, filter, range, scope, listed, sums>>
  BY DEF pageVars
<1>2. CASE pc[r] = "idle"
  BY <1>1, <1>2 DEF PageOK, Covered, ScopeKept, ListKept, Matches, OnPage
<1>3. CASE pc[r] # "idle" /\ \E m \in MemberIDs : Delete(m)
  <2>1. "delete" \in events'[r]
    BY <1>3 DEF Delete, NoteDelete
  <2>2. \A labels : ~OnPage(r, labels)'
    BY <2>1 DEF OnPage, Undisturbed
  <2>3. QED
    BY <1>1, <1>3, <2>1, <2>2 DEF PageOK, Covered, ScopeKept, ListKept, Matches
<1>4. ASSUME pc[r] # "idle",
             \/ \E m \in MemberIDs :
                  \/ Create(m)
                  \/ \E type \in Types, amount \in Amounts : ChargeOrDeduct(m, type, amount)
             \/ ClockChanges
      PROVE  PageOK(r)'
  <2>1. PICK N : RowsAdded(N)
    BY <1>4, RowsGrow
  <2>2. /\ events[r] \subseteq events'[r] /\ withKey' = withKey
        /\ \/ "create" \in events'[r]
           \/ UNCHANGED newest
    BY <1>4 DEF Create, NoteCreate, ChargeOrDeduct, NoteRows, ClockChanges, historyVars
  <2>3. Undisturbed(r)' =>
          /\ Undisturbed(r)
          /\ ListScope(filter[r].q)' = ListScope(filter[r].q)
          /\ SumScope(filter[r].q)' = SumScope(filter[r].q)
    BY <1>1, <2>2 DEF Undisturbed, ListScope, SumScope, Resolved, Found
  <2>4. filter[r] \in Filter /\ scope[r] \in SUBSET MemberIDs
    BY <1>4, FilterOfRequest DEF PageTypes
  <2>5. ListScope(filter[r].q) \in SUBSET MemberIDs
    BY <2>4, QueryTypes
  <2>6. ASSUME NEW period, NEW who \in SUBSET MemberIDs
        PROVE  /\ IsFiniteSet(RowsIn(period, who))
               /\ \A row \in RowsIn(period, who) : row.amount \in Nat
    BY RowsOfQuery
  <2>7. Covered(r)'
    <3>1. PICK S : S = RowsIn(range[r], scope[r])
      OBVIOUS
    <3>2. PICK T : T = RowsIn(range[r], scope[r])'
      OBVIOUS
    <3>3. S \subseteq T /\ T \subseteq S \cup N
      <4>1. PICK who \in SUBSET MemberIDs : who = scope[r]
        BY <2>4
      <4>2. PICK period : period = range[r]
        OBVIOUS
      <4>3. S = RowsIn(period, who)
        BY <3>1, <4>1, <4>2
      <4>4. T = RowsIn(period, who)'
        BY <1>1, <3>2, <4>1, <4>2 DEF RowsIn, RowsOf, Within
      <4>5. QED
        BY <2>1, <4>3, <4>4 DEF RowsAdded
    <3>4. /\ Total(OfType(S, "charge")) \in Nat /\ Total(OfType(T, "charge")) \in Nat
          /\ Total(OfType(S, "charge")) <= Total(OfType(T, "charge"))
      <4>1. /\ OfType(S, "charge") \subseteq OfType(T, "charge")
            /\ OfType(T, "charge") \subseteq S \cup N
        BY <3>3 DEF OfType
      <4>2. IsFiniteSet(S) /\ \A row \in S : row.amount \in Nat
        BY <2>4, <2>6, <3>1
      <4>3. QED
        BY <2>1, <4>1, <4>2, TotalOfMore DEF RowsAdded
    <3>5. RowsNow(r, "charge") = OfType(S, "charge")
      BY <3>1 DEF RowsNow
    <3>6. RowsNow(r, "charge")' = OfType(T, "charge")
      BY <3>2 DEF RowsNow, OfType
    <3>7. Total(RowsNow(r, "charge"))' = Total(OfType(T, "charge"))
      BY <3>6
    <3>8. sums[r]["deduct"] \in Nat
      BY DEF PageTypes, Types
    <3>9. /\ pc[r] = "secondSum" /\ filter[r].period = "all"
          /\ TimeOrdered' /\ "delete" \notin events'[r]
          => sums[r]["deduct"] <= Total(RowsNow(r, "charge"))'
      BY <2>1, <2>2, <3>4, <3>5, <3>7, <3>8 DEF PageOK, Covered, RowsAdded
    <3>10. QED
      BY <1>1, <2>1, <2>2, <3>9 DEF PageOK, Covered, RowsAdded
  <2>8. ScopeKept(r)'
    BY <1>1, <2>3 DEF PageOK, ScopeKept, OnPage
  <2>9. ASSUME NEW W, W = RowsIn(listRange[r], ListScope(filter[r].q)), Undisturbed(r)',
               NEW V, V = RowsIn(listRange[r], ListScope(filter[r].q))'
        PROVE  W \subseteq V /\ V \subseteq W \cup N
    <3>1. PICK who \in SUBSET MemberIDs : who = ListScope(filter[r].q)
      BY <2>5
    <3>2. PICK period : period = listRange[r]
      OBVIOUS
    <3>3. W = RowsIn(period, who)
      BY <2>9, <3>1, <3>2
    <3>4. who = ListScope(filter[r].q)' /\ period = listRange'[r]
      BY <2>1, <2>3, <2>9, <3>1, <3>2 DEF RowsAdded
    <3>5. V = RowsIn(period, who)'
      BY <2>9, <3>4 DEF RowsIn, RowsOf, Within
    <3>6. QED
      BY <2>1, <3>3, <3>5 DEF RowsAdded
  <2>10. ASSUME NEW S, S = RowsIn(range[r], ListScope(filter[r].q)), Undisturbed(r)',
                NEW T, T = RowsIn(range[r], ListScope(filter[r].q))'
         PROVE  S \subseteq T /\ T \subseteq S \cup N
    <3>1. PICK who \in SUBSET MemberIDs : who = ListScope(filter[r].q)
      BY <2>5
    <3>2. PICK period : period = range[r]
      OBVIOUS
    <3>3. S = RowsIn(period, who)
      BY <2>10, <3>1, <3>2
    <3>4. who = ListScope(filter[r].q)' /\ period = range'[r]
      BY <1>1, <2>3, <2>10, <3>1, <3>2
    <3>5. T = RowsIn(period, who)'
      BY <2>10, <3>4 DEF RowsIn, RowsOf, Within
    <3>6. QED
      BY <2>1, <3>3, <3>5 DEF RowsAdded
  <2>11. \A row : PastLimit(r, row)' = PastLimit(r, row)
    BY <1>1 DEF PastLimit
  <2>12. ListKept(r)'
    <3> SUFFICES ASSUME OnPage(r, {"listDone", "firstSum", "secondSum"})'
                 PROVE  /\ listed[r] \subseteq Wanted(r)'
                        /\ \A row \in Wanted(r)' : row \notin listed[r] \cup since'[r] =>
                             PastLimit(r, row)
      BY <1>1, <2>11 DEF ListKept
    <3>1. /\ OnPage(r, {"listDone", "firstSum", "secondSum"}) /\ Undisturbed(r)'
          /\ pc[r] \in {"listDone", "firstSum", "secondSum"}
      BY <1>1, <2>3 DEF OnPage
    <3>2. PICK W : W = RowsIn(listRange[r], ListScope(filter[r].q))
      OBVIOUS
    <3>3. PICK V : V = RowsIn(listRange[r], ListScope(filter[r].q))'
      OBVIOUS
    <3>4. W \subseteq V /\ V \subseteq W \cup N
      BY <2>9, <3>1, <3>2, <3>3
    <3>5. Wanted(r) = OfFilter(W, filter[r].type)
      BY <3>2 DEF Wanted
    <3>6. Wanted(r)' = OfFilter(V, filter[r].type)
      BY <1>1, <3>3 DEF Wanted, OfFilter, OfType
    <3>7. N \subseteq since'[r] /\ since[r] \subseteq since'[r]
      BY <2>1, <3>1 DEF RowsAdded
    <3>8. /\ listed[r] \subseteq Wanted(r)
          /\ \A row \in Wanted(r) \ (listed[r] \cup since[r]) : PastLimit(r, row)
      BY <3>1 DEF PageOK, ListKept
    <3>9. QED
      BY <3>4, <3>5, <3>6, <3>7, <3>8 DEF OfFilter, OfType
  <2>13. ASSUME NEW type \in Types, Undisturbed(r)'
         PROVE  /\ Shown(r, type)' = Shown(r, type)
                /\ Total(Explained(r, type)) \in Nat /\ Total(Explained(r, type)') \in Nat
                /\ Total(Explained(r, type)) <= Total(Explained(r, type)')
    <3>1. Shown(r, type)' = Shown(r, type)
      BY <1>1 DEF Shown, OfType, Within
    <3>2. PICK S : S = RowsIn(range[r], ListScope(filter[r].q))
      OBVIOUS
    <3>3. PICK T : T = RowsIn(range[r], ListScope(filter[r].q))'
      OBVIOUS
    <3>4. S \subseteq T /\ T \subseteq S \cup N
      BY <2>10, <2>13, <3>2, <3>3
    <3>5. Counted(r, type) = OfType(S, type)
      BY <3>2 DEF Counted
    <3>6. Counted(r, type)' = OfType(T, type)
      BY <3>3 DEF Counted, OfType
    <3>7. Explained(r, type) \subseteq Explained(r, type)' /\ Explained(r, type)' \subseteq S \cup N
      <4>1. listRange' = listRange /\ since[r] \subseteq since'[r]
        BY <2>1 DEF RowsAdded
      <4>2. Counted(r, type) \subseteq Counted(r, type)' /\ Counted(r, type)' \subseteq S \cup N
        BY <3>4, <3>5, <3>6 DEF OfType
      <4>3. \A row : Within(row, listRange[r])' = Within(row, listRange[r])
        BY <4>1 DEF Within
      <4>4. QED
        BY <1>1, <2>11, <4>1, <4>2, <4>3 DEF Explained
    <3>8. IsFiniteSet(S) /\ \A row \in S : row.amount \in Nat
      BY <2>5, <2>6, <3>2
    <3>9. QED
      BY <2>1, <3>1, <3>7, <3>8, TotalOfMore DEF RowsAdded
  <2>14. ASSUME NEW type \in Types PROVE Matches(r, type)'
    <3>1. sums[r][type] \in Nat /\ sums'[r] = sums[r] /\ filter'[r] = filter[r] /\ pc'[r] = pc[r]
      BY <1>1 DEF PageTypes
    <3>2. Matches(r, type)
      BY DEF PageOK
    <3>3. \A labels : OnPage(r, labels)' => OnPage(r, labels) /\ Undisturbed(r)'
      BY <2>3, <3>1 DEF OnPage
    <3>4. Undisturbed(r)' /\ Total(Shown(r, type)) <= sums[r][type]
                         /\ sums[r][type] <= Total(Explained(r, type))
            => /\ Total(Shown(r, type)') <= sums[r][type]
               /\ sums[r][type] <= Total(Explained(r, type)')
      BY <2>13, <3>1
    <3>5. QED
      BY <2>2, <3>1, <3>2, <3>3, <3>4 DEF Matches
  <2>15. QED
    BY <2>7, <2>8, <2>12, <2>14 DEF PageOK
<1>5. QED
  BY <1>2, <1>3, <1>4

\* Whoever answers a request of the transactions page undisturbed sums the members
\* the list let through: the sum has every row that is shown, and is explained.
LEMMA SumMatches ==
  ASSUME TablesOK, PageTypes, NEW r \in Requests, NEW type \in Types, PageOK(r),
         OnPage(r, {"firstSum", "secondSum"}),
         withKey \/ filter[r].q = NoQuery, filter[r].type \in {"", type}
  PROVE  /\ Total(Shown(r, type)) <= Total(RowsNow(r, type))
         /\ Total(RowsNow(r, type)) <= Total(Explained(r, type))
<1>1. filter[r] \in Filter /\ scope[r] \in SUBSET MemberIDs
  BY FilterOfRequest DEF PageTypes, OnPage
<1>2. scope[r] = ListScope(filter[r].q)
  BY DEF PageOK, ScopeKept, ListScope, SumScope
<1>3. RowsNow(r, type) = Counted(r, type)
  BY <1>2 DEF RowsNow, Counted
<1>4. /\ listed[r] \subseteq Wanted(r)
      /\ \A row \in Wanted(r) \ (listed[r] \cup since[r]) : PastLimit(r, row)
  BY DEF PageOK, ListKept, OnPage
<1>5. \A row : row \in RowsIn(listRange[r], ListScope(filter[r].q)) /\ row.type = type
                 => row \in Wanted(r)
  BY DEF Wanted, OfFilter, OfType
<1>6. \A row : row \in Wanted(r) => row \in RowsIn(listRange[r], ListScope(filter[r].q))
  BY DEF Wanted, OfFilter, OfType
<1>7. \A period, row : row \in RowsIn(period, ListScope(filter[r].q)) <=>
        Within(row, period) /\ row \in UNION {RowsOf(m) : m \in ListScope(filter[r].q)}
  BY DEF RowsIn
<1>8. Shown(r, type) \subseteq Counted(r, type)
  BY <1>4, <1>6, <1>7 DEF Shown, Counted, OfType
<1>9. Counted(r, type) \subseteq Explained(r, type) /\ Explained(r, type) \subseteq Counted(r, type)
  BY <1>4, <1>5, <1>7 DEF Explained, Counted, OfType
<1>10. /\ IsFiniteSet(Counted(r, type)) /\ \A row \in Counted(r, type) : row.amount \in Nat
       /\ Total(Counted(r, type)) \in Nat
  <2>1. Counted(r, type) = OfType(RowsIn(range[r], scope[r]), type)
    BY <1>2 DEF Counted
  <2>2. /\ IsFiniteSet(OfType(RowsIn(range[r], scope[r]), type))
        /\ \A row \in OfType(RowsIn(range[r], scope[r]), type) : row.amount \in Nat
        /\ Total(OfType(RowsIn(range[r], scope[r]), type)) \in Nat
    BY <1>1, TotalOfQuery
  <2>3. QED
    BY <2>1, <2>2
<1>11. Total(Shown(r, type)) <= Total(Counted(r, type))
  BY <1>8, <1>10, TotalGrows
<1>12. Total(Counted(r, type)) <= Total(Explained(r, type))
  <2>1. /\ IsFiniteSet(Explained(r, type))
        /\ \A row \in Explained(r, type) : row.amount \in Nat
    BY <1>9, <1>10, FS_Subset
  <2>2. QED
    BY <1>9, <2>1, TotalGrows
<1>13. Total(RowsNow(r, type)) = Total(Counted(r, type))
  BY <1>3
<1>14. QED
  BY <1>11, <1>12, <1>13

\* SELECT of the list: what it leaves out is past its limit.
LEMMA ListQueried ==
  ASSUME PageTypes, NEW r \in Requests, PageOK(r), List(r)
  PROVE  PageOK(r)'
<1> DEFINE rows == OfFilter(RowsIn(range[r], scope[r]), filter[r].type)
<1>1. /\ pc[r] = "list" /\ pc'[r] = "listDone"
      /\ listRange'[r] = range[r] /\ since'[r] = {}
      /\ UNCHANGED <<tableVars, filter, sums, events>>
      /\ range'[r] = NoRange
  BY DEF List, Goto, PageTypes
<1>2. PICK few \in SUBSET rows : FirstByDate(rows, few) /\ listed'[r] = few
  BY DEF List, PageTypes
<1>3. /\ \A period, who : RowsIn(period, who)' = RowsIn(period, who)
      /\ \A q : ListScope(q)' = ListScope(q)
  BY <1>1, SameTables
<1>4. OnPage(r, {"listDone", "firstSum", "secondSum"})' => OnPage(r, {"list"})
  BY <1>1 DEF OnPage, Undisturbed, tableVars
<1>5. scope[r] = ListScope(filter[r].q) => Wanted(r)' = rows
  <2>1. PICK W : W = RowsIn(range[r], ListScope(filter[r].q))
    OBVIOUS
  <2>2. RowsIn(listRange[r], ListScope(filter[r].q))' = W
    BY <1>1, <1>3, <2>1
  <2>3. Wanted(r)' = OfFilter(W, filter[r].type)
    BY <1>1, <2>2 DEF Wanted, OfFilter, OfType
  <2>4. QED
    BY <2>1, <2>3
<1> HIDE DEF rows
<1>6. \A row \in rows \ few : PastLimit(r, row)'
  BY <1>2 DEF PastLimit, FirstByDate
<1>7. ListKept(r)'
  <2> SUFFICES ASSUME OnPage(r, {"listDone", "firstSum", "secondSum"})'
               PROVE  /\ listed'[r] \subseteq Wanted(r)'
                      /\ \A row \in Wanted(r)' : row \notin listed'[r] => PastLimit(r, row)'
    BY <1>1 DEF ListKept
  <2>1. Wanted(r)' = rows
    BY <1>4, <1>5 DEF PageOK, ScopeKept
  <2>2. QED
    BY <1>2, <1>6, <2>1
<1>8. Covered(r)'
  <2>1. range'[r].from = 0
    BY <1>1 DEF NoRange
  <2>2. QED
    BY <1>1, <2>1 DEF Covered
<1>9. ScopeKept(r)' /\ \A type \in Types : Matches(r, type)'
  BY <1>1 DEF ScopeKept, Matches, OnPage
<1>10. QED
  BY <1>7, <1>8, <1>9 DEF PageOK

\* A range is computed anew, and the search resolved.
LEMMA ResolvedAnew ==
  ASSUME TablesOK, PageTypes, NEW r \in Requests, PageOK(r), ResolveList(r) \/ ResolveSums(r)
  PROVE  PageOK(r)'
<1>1. /\ <<pc[r], pc'[r]>> \in {<<"resolveList", "list">>, <<"listDone", "firstSum">>}
      /\ UNCHANGED <<tableVars, filter, listed, sums, listRange, since>>
      /\ range'[r] = PeriodRange(filter[r].period)
      /\ pc[r] # "idle"
  <2>1. /\ \/ pc[r] = "resolveList" /\ pc' = [pc EXCEPT ![r] = "list"]
           \/ pc[r] = "listDone" /\ pc' = [pc EXCEPT ![r] = "firstSum"]
        /\ range' = [range EXCEPT ![r] = PeriodRange(filter[r].period)]
        /\ UNCHANGED <<tableVars, filter, listed, sums, listRange, since>>
    BY DEF ResolveList, ResolveSums, Goto
  <2>2. QED
    BY <2>1 DEF PageTypes
<1>2. filter[r] \in Filter
  BY <1>1, FilterOfRequest
<1>3. Covered(r)'
  BY <1>1, <1>2, QueryTypes DEF Covered
<1>4. \/ events' = events
      \/ "failure" \in events'[r]
  BY DEF ResolveList, ResolveSums, PageTypes
<1>5. \/ "failure" \in events'[r]
      \/ pc'[r] = "list" /\ scope'[r] = ListScope(filter[r].q)
      \/ pc'[r] = "firstSum" /\ scope'[r] = SumScope(filter[r].q)
  BY DEF ResolveList, ResolveSums, PageTypes, Goto
<1>6. \A labels : OnPage(r, labels)' =>
        /\ "failure" \notin events'[r] /\ events' = events /\ pc'[r] \in labels
        /\ filter[r].page = "transactions" /\ Undisturbed(r)
  BY <1>1, <1>4 DEF OnPage, Undisturbed, tableVars
<1>7. ScopeKept(r)'
  <2>1. \A q : ListScope(q)' = ListScope(q) /\ SumScope(q)' = SumScope(q)
    BY <1>1, SameTables
  <2>2. QED
    BY <1>1, <1>5, <1>6, <2>1 DEF ScopeKept
<1>8. ListKept(r)'
  <2>1. /\ Wanted(r)' = Wanted(r)
        /\ \A row : PastLimit(r, row)' = PastLimit(r, row)
    <3>1. PICK W : W = RowsIn(listRange[r], ListScope(filter[r].q))
      OBVIOUS
    <3>2. RowsIn(listRange[r], ListScope(filter[r].q))' = W
      BY <1>1, <3>1, SameTables
    <3>3. QED
      BY <1>1, <3>1, <3>2 DEF Wanted, OfFilter, OfType, PastLimit
  <2>2. OnPage(r, {"listDone", "firstSum", "secondSum"})' =>
          OnPage(r, {"listDone", "firstSum", "secondSum"})
    BY <1>1, <1>6 DEF OnPage
  <2>3. QED
    BY <1>1, <2>1, <2>2 DEF PageOK, ListKept
<1>9. \A type \in Types : Matches(r, type)'
  BY <1>1 DEF Matches, OnPage
<1>10. QED
  BY <1>3, <1>7, <1>8, <1>9 DEF PageOK

\* A request comes or goes.
LEMMA ArrivedOrLeft ==
  ASSUME TablesOK, PageTypes, NEW r \in Requests, PageOK(r),
         (\E f \in Filter : Arrive(r, f)) \/ Leave(r)
  PROVE  PageOK(r)'
<1>1. ASSUME NEW f \in Filter, Arrive(r, f) PROVE PageOK(r)'
  <2>1. /\ pc'[r] = IF f.page = "dashboard" THEN "firstSum" ELSE "resolveList"
        /\ filter'[r] = f /\ range'[r] = PeriodRange(f.period)
    BY <1>1 DEF Arrive, Goto, PageTypes
  <2>2. Covered(r)'
    BY <2>1, QueryTypes DEF Covered
  <2>3. ~OnPage(r, {"list"})' /\ ~OnPage(r, {"firstSum", "secondSum"})'
        /\ ~OnPage(r, {"listDone", "firstSum", "secondSum"})'
        /\ ~OnPage(r, {"done"})' /\ ~OnPage(r, {"secondSum"})'
    BY <2>1 DEF OnPage
  <2>4. QED
    BY <2>2, <2>3 DEF PageOK, ScopeKept, ListKept, Matches
<1>2. CASE Leave(r)
  <2>1. pc'[r] = "idle"
    BY <1>2 DEF Leave, Goto, PageTypes
  <2>2. QED
    BY <2>1 DEF PageOK, Covered, ScopeKept, ListKept, Matches, OnPage
<1>3. QED
  BY <1>1, <1>2

\* A total is summed.
LEMMA SummedPage ==
  ASSUME TablesOK, PageTypes, NEW r \in Requests, PageOK(r), FirstSum(r) \/ SecondSum(r)
  PROVE  PageOK(r)'
<1>1. \E next \in {"secondSum", "done"} :
        /\ IF next = "secondSum" THEN QuerySum(r, "firstSum", "deduct", next)
                                 ELSE QuerySum(r, "secondSum", "charge", next)
  BY DEF FirstSum, SecondSum, SumOrder
<1>2. PICK next \in {"secondSum", "done"}, of \in {"deduct", "charge"} :
        /\ next = "secondSum" <=> of = "deduct"
        /\ pc[r] = IF of = "deduct" THEN "firstSum" ELSE "secondSum"
        /\ pc'[r] = next
        /\ UNCHANGED <<tableVars, filter, range, scope, listed, historyVars>>
        /\ sums' = [sums EXCEPT ![r][of] = Total(RowsNow(r, of))]
  BY <1>1 DEF QuerySum, Goto, RowsNow, PageTypes
<1>3. /\ sums'[r][of] = Total(RowsNow(r, of))
      /\ \A type \in Types : type # of => sums'[r][type] = sums[r][type]
  BY <1>2 DEF PageTypes, Types
<1>4. /\ \A period, who : RowsIn(period, who)' = RowsIn(period, who)
      /\ \A q : ListScope(q)' = ListScope(q) /\ SumScope(q)' = SumScope(q)
      /\ TimeOrdered' = TimeOrdered /\ withKey' = withKey
  BY <1>2, SameTables
<1>5. /\ Wanted(r)' = Wanted(r)
      /\ \A row : PastLimit(r, row)' = PastLimit(r, row)
      /\ \A type : Shown(r, type)' = Shown(r, type)
      /\ \A type : Explained(r, type)' = Explained(r, type)
  BY <1>2, SameFigures DEF historyVars
<1>6. Undisturbed(r)' = Undisturbed(r) /\ filter' = filter /\ events' = events
  BY <1>2, <1>4 DEF Undisturbed, historyVars
<1>7. filter[r] \in Filter /\ scope[r] \in SUBSET MemberIDs /\ range[r] \in [from : Int, to : Int]
  BY <1>2, FilterOfRequest DEF PageTypes
<1>8. Covered(r)'
  <2> SUFFICES ASSUME filter[r].period = "all"
               PROVE  /\ range[r].from = 0
                      /\ TimeOrdered /\ "delete" \notin events[r] =>
                           /\ next = "secondSum" =>
                                sums'[r]["deduct"] <= Total(RowsNow(r, "charge"))'
                           /\ next = "done" => sums'[r]["deduct"] <= sums'[r]["charge"]
    BY <1>2, <1>4, <1>6 DEF Covered
  <2>1. range[r].from = 0
    BY <1>2 DEF PageOK, Covered
  <2>2. Total(RowsNow(r, "charge"))' = Total(RowsNow(r, "charge"))
    <3>1. RowsNow(r, "charge")' = RowsNow(r, "charge")
      BY <1>2, <1>4 DEF RowsNow, OfType
    <3>2. QED
      BY <3>1
  <2>3. TimeOrdered /\ next = "secondSum" => sums'[r]["deduct"] <= Total(RowsNow(r, "charge"))
    BY <1>2, <1>3, <1>7, <2>1, DeductionsCovered DEF RowsNow
  <2>4. TimeOrdered /\ "delete" \notin events[r] /\ next = "done" =>
          sums'[r]["deduct"] <= sums'[r]["charge"]
    BY <1>2, <1>3 DEF PageOK, Covered, Types
  <2>5. QED
    BY <2>1, <2>2, <2>3, <2>4
<1>9. ScopeKept(r)' /\ ListKept(r)'
  BY <1>2, <1>4, <1>5, <1>6 DEF PageOK, ScopeKept, ListKept, OnPage, historyVars
<1>10. ASSUME NEW type \in Types PROVE Matches(r, type)'
  <2>1. Total(Shown(r, type))' = Total(Shown(r, type))
    BY <1>5
  <2>2. Total(Explained(r, type))' = Total(Explained(r, type))
    BY <1>5
  <2> SUFFICES ASSUME \/ OnPage(r, {"done"})'
                      \/ OnPage(r, {"secondSum"})' /\ type = "deduct",
                      withKey \/ filter[r].q = NoQuery, filter[r].type \in {"", type}
               PROVE  /\ Total(Shown(r, type)) <= sums'[r][type]
                      /\ sums'[r][type] <= Total(Explained(r, type))
    BY <1>4, <1>6, <2>1, <2>2 DEF Matches
  <2>3. OnPage(r, {"firstSum", "secondSum"})
    BY <1>2, <1>6 DEF OnPage
  <2>4. CASE type = of
    BY <1>3, <2>3, <2>4, SumMatches
  <2>5. CASE type # of
    <3>1. type = "deduct" /\ OnPage(r, {"secondSum"})
      BY <1>2, <1>6, <2>5 DEF OnPage, Types
    <3>2. Matches(r, type)
      BY DEF PageOK
    <3>3. QED
      BY <1>3, <2>5, <3>1, <3>2 DEF Matches
  <2>6. QED
    BY <2>4, <2>5
<1>11. QED
  BY <1>8, <1>9, <1>10 DEF PageOK

LEMMA SumFailedPage ==
  ASSUME PageTypes, NEW r \in Requests, PageOK(r), SumFails(r)
  PROVE  PageOK(r)'
<1>1. /\ pc[r] \in {"firstSum", "secondSum"} /\ pc'[r] \in {"failed", "done"}
      /\ sums'[r] = NoSums /\ "failure" \in events'[r]
      /\ UNCHANGED <<filter, range>>
  BY DEF SumFails, Goto, PageTypes
<1>2. \A labels : ~OnPage(r, labels)'
  BY <1>1 DEF OnPage, Undisturbed
<1>3. Covered(r)'
  BY <1>1 DEF PageOK, Covered, NoSums, Types
<1>4. QED
  BY <1>2, <1>3 DEF PageOK, ScopeKept, ListKept, Matches

-----------------------------------------------------------------------------
(* The invariant.                                                          *)

LEMMA ReportsInitInv == Init => ReportsInv
<1> SUFFICES ASSUME Init PROVE ReportsInv
  OBVIOUS
<1>1. LedgerInv
  BY LedgerInitInv DEF Init
<1>2. TablesOK
  BY <1>1, FS_EmptySet DEF Init, LedgerInit, TablesOK
<1>3. PageTypes
  BY ReportsAssumption DEF Init, PageTypes, Labels, NoSums, NoRange
<1>4. \A r \in Requests : PageOK(r)
  BY DEF Init, PageOK, Covered, ScopeKept, ListKept, Matches, OnPage
<1>5. QED
  BY <1>2, <1>3, <1>4 DEF ReportsInv

LEMMA ReportsNextInv == ReportsInv /\ [Next]_vars => ReportsInv'
<1> SUFFICES ASSUME ReportsInv, [Next]_vars PROVE ReportsInv'
  OBVIOUS
<1> USE DEF ReportsInv
<1>1. TablesOK'
  BY TablesKept
<1>2. ASSUME UNCHANGED pageVars,
             NoteCreate \/ NoteDelete \/ (\E rows : NoteRows(rows)) \/ UNCHANGED historyVars,
             \/ \E m \in MemberIDs :
                  \/ Create(m)
                  \/ \E type \in Types, amount \in Amounts : ChargeOrDeduct(m, type, amount)
                  \/ Delete(m)
             \/ ClockChanges
      PROVE  ReportsInv'
  <2>1. PageTypes'
    BY <1>2, NotesKeepTypes
  <2>2. \A r \in Requests : PageOK(r)'
    BY <1>2, TablesKeepPage
  <2>3. QED
    BY <1>1, <2>1, <2>2
<1>3. ASSUME NEW r \in Requests,
             \/ \E f \in Filter : Arrive(r, f)
             \/ ResolveList(r) \/ List(r) \/ ResolveSums(r) \/ FirstSum(r)
             \/ SecondSum(r) \/ SumFails(r) \/ Leave(r)
      PROVE  ReportsInv'
  <2>1. PageTypes'
    BY <1>3, PagesKeepTypes
  <2>2. PageOK(r)'
    BY <1>3, ArrivedOrLeft, ResolvedAnew, ListQueried, SummedPage, SumFailedPage
  <2>3. UNCHANGED tableVars
    BY <1>3 DEF Arrive, ResolveList, List, ResolveSums, FirstSum, SecondSum, QuerySum,
                SumFails, Leave
  <2>4. ASSUME NEW k \in Requests, k # r
        PROVE  UNCHANGED <<pc[k], filter[k], range[k], scope[k], listed[k], sums[k],
                           events[k], listRange[k], since[k]>>
    <3>1. UNCHANGED <<pc[k], filter[k], range[k], sums[k], listRange[k], since[k]>>
      BY <1>3, <2>4 DEF PageTypes, Arrive, ResolveList, List, ResolveSums, FirstSum,
                        SecondSum, QuerySum, SumFails, Leave, Goto, historyVars
    <3>2. UNCHANGED <<scope[k], listed[k], events[k]>>
      BY <1>3, <2>4 DEF PageTypes, Arrive, ResolveList, List, ResolveSums, FirstSum,
                        SecondSum, QuerySum, SumFails, Leave, historyVars
    <3>3. QED
      BY <3>1, <3>2
  <2>5. ASSUME NEW k \in Requests, k # r PROVE PageOK(k)'
    BY <2>3, <2>4, <2>5, OthersKept
  <2>6. QED
    BY <1>1, <2>1, <2>2, <2>5
<1>4. CASE UNCHANGED vars
  <2>1. PageTypes'
    BY <1>4 DEF vars, pageVars, historyVars, PageTypes
  <2>2. ASSUME NEW r \in Requests PROVE PageOK(r)'
    BY <1>4, OthersKept DEF vars, pageVars, historyVars
  <2>3. QED
    BY <1>1, <2>1, <2>2
<1>5. ASSUME \/ \E m \in MemberIDs :
                  \/ Create(m)
                  \/ \E type \in Types, amount \in Amounts : ChargeOrDeduct(m, type, amount)
                  \/ Delete(m)
             \/ ClockChanges
      PROVE  /\ UNCHANGED pageVars
             /\ NoteCreate \/ NoteDelete \/ (\E rows : NoteRows(rows)) \/ UNCHANGED historyVars
  BY <1>5 DEF Create, ChargeOrDeduct, Delete, ClockChanges
<1>6. QED
  BY <1>2, <1>3, <1>4, <1>5 DEF Next

\* The inductive invariant holds throughout.
THEOREM ReportsInvariant == Spec => []ReportsInv
<1>1. ReportsInv /\ [Next]_vars => ReportsInv'
  BY ReportsNextInv
<1>2. QED
  BY <1>1, ReportsInitInv, PTL DEF Spec

-----------------------------------------------------------------------------
(* What follows from it.                                                   *)

\* The tables and the requests are well-formed, and every row has its moment.
THEOREM ReportsTypesHold == Spec => []TypeOK
<1>1. ReportsInv => TypeOK
  <2> SUFFICES ASSUME ReportsInv PROVE TypeOK
    OBVIOUS
  <2>1. ASSUME NEW m \in MemberIDs PROVE DOMAIN createdAt[m] = DOMAIN transactions[m]
    <3>1. createdAt[m] \in Seq(Nat) /\ Len(createdAt[m]) = Len(transactions[m])
      BY DEF ReportsInv, TablesOK
    <3>2. QED
      BY <3>1, RowsOfMember DEF ReportsInv
  <2>2. QED
    BY <2>1 DEF ReportsInv, TablesOK, LedgerInv, PageTypes, TypeOK
<1>2. QED
  BY <1>1, ReportsInvariant, PTL

\* No page shows more deducted than was ever charged, however the two sums and
\* the postings of others are interleaved, and wherever the clock goes, as long as
\* the rows of each member are in its order.
THEOREM ReportsNeverOverdrawn == Spec => []NeverOverdrawn
<1>1. ReportsInv => NeverOverdrawn
  <2> SUFFICES ASSUME ReportsInv, TimeOrdered, NEW r \in Requests, pc[r] = "done",
                      filter[r].period = "all", "delete" \notin events[r]
               PROVE  sums[r]["deduct"] <= sums[r]["charge"]
    BY DEF NeverOverdrawn
  <2>1. QED
    BY DEF ReportsInv, PageOK, Covered
<1>2. QED
  BY <1>1, ReportsInvariant, PTL

\* The totals of a transactions page count every listed row of their period, and
\* nothing but what is listed, past the limit, new, or outside of the period of
\* the list.
THEOREM ReportsTotalsMatchList == Spec => []TotalsMatchList
<1>1. ReportsInv => TotalsMatchList
  <2> SUFFICES ASSUME ReportsInv, NEW r \in Requests, NEW type \in Types,
                      pc[r] = "done", filter[r].page = "transactions", Undisturbed(r),
                      withKey \/ filter[r].q = NoQuery,
                      filter[r].type \in {"", type}
               PROVE  Total(Shown(r, type)) <= sums[r][type]
                      /\ sums[r][type] <= Total(Explained(r, type))
    BY DEF TotalsMatchList, Shown, Explained, Counted
  <2>1. OnPage(r, {"done"})
    BY DEF OnPage
  <2>2. QED
    BY <2>1 DEF ReportsInv, PageOK, Matches
<1>2. QED
  BY <1>1, ReportsInvariant, PTL

\* With or without the key, a search lists the newest rows of the members it
\* matches, and of nobody else.
THEOREM ReportsSearchListsMatches == Spec => []SearchListsMatches
<1>1. ReportsInv => SearchListsMatches
  <2> SUFFICES ASSUME ReportsInv, NEW r \in Requests,
                      pc[r] = "listDone", filter[r].q # NoQuery, Undisturbed(r),
                      NEW matched,
                      matched = IF withKey THEN Found(filter[r].q) ELSE filter[r].q
               PROVE  /\ \A row \in OfFilter(RowsIn(listRange[r], matched), filter[r].type)
                                      \ (listed[r] \cup since[r]) : PastLimit(r, row)
                      /\ \A row \in listed[r] :
                           row.member \in matched \/ (withKey /\ matched = {})
    BY DEF SearchListsMatches
  <2>1. filter[r] \in Filter
    BY FilterOfRequest DEF ReportsInv
  <2>2. OnPage(r, {"listDone", "firstSum", "secondSum"})
    BY <2>1, QueryTypes DEF OnPage, ReportsInv
  <2>3. /\ listed[r] \subseteq Wanted(r)
        /\ \A row \in Wanted(r) \ (listed[r] \cup since[r]) : PastLimit(r, row)
    BY <2>2 DEF ReportsInv, PageOK, ListKept
  <2>4. ListScope(filter[r].q) \in SUBSET MemberIDs
    BY <2>1, QueryTypes DEF ReportsInv
  <2>5. CASE withKey /\ matched = {}
    <3>1. RowsIn(listRange[r], matched) = {}
      BY <2>5 DEF RowsIn
    <3>2. QED
      BY <2>5, <3>1 DEF OfFilter, OfType
  <2>6. CASE ~(withKey /\ matched = {})
    <3>1. ListScope(filter[r].q) = matched
      BY <2>6 DEF ListScope, Resolved
    <3>2. Wanted(r) = OfFilter(RowsIn(listRange[r], matched), filter[r].type)
      BY <3>1 DEF Wanted
    <3>3. \A row \in RowsIn(listRange[r], matched) : row.member \in matched
      BY <2>4, <3>1, RowsOfQuery DEF ReportsInv
    <3>4. \A row \in Wanted(r) : row \in RowsIn(listRange[r], matched)
      BY <3>2 DEF OfFilter, OfType
    <3>5. QED
      BY <2>3, <3>2, <3>3, <3>4
  <2>7. QED
    BY <2>5, <2>6
<1>2. QED
  BY <1>1, ReportsInvariant, PTL
=============================================================================
