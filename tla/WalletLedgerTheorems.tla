------------------------- MODULE WalletLedgerTheorems -------------------------
(***************************************************************************)
(* LedgerInv holds in every behaviour of LedgerSpec, for every set of      *)
(* members and amounts: it is inductive as it stands.                      *)
(*                                                                         *)
(* And sums over finite sets, as SQLite and the pages add up the rows of   *)
(* ledgers, with the induction that reasoning about them needs: it comes   *)
(* from the fact that < is well founded on Nat.                            *)
(***************************************************************************)
EXTENDS WalletLedger, SequencesExt, FiniteSetTheorems, WellFoundedInduction, TLAPS

\* The empty tables satisfy the invariant.
LEMMA LedgerInitInv == LedgerInit => LedgerInv
<1> SUFFICES ASSUME LedgerInit PROVE LedgerInv
  OBVIOUS
<1> USE DEF LedgerInit
<1>1. LedgerTypeOK
  BY DEF LedgerTypeOK
<1>2. RowsChain
  BY DEF RowsChain
<1>3. LedgerExplainsBalance
  BY DEF LedgerExplainsBalance
<1>4. NoOrphanRows
  BY DEF NoOrphanRows
<1>5. QED
  BY <1>1, <1>2, <1>3, <1>4 DEF LedgerInv

\* A fresh member has balance 0 and an empty ledger.
LEMMA RegisterKeepsInv ==
  ASSUME LedgerInv, NEW m \in MemberIDs, Register(m)
  PROVE  LedgerInv'
<1> USE LedgerAssumption DEF LedgerInv, Register
<1>1. LedgerTypeOK'
  BY DEF LedgerTypeOK, MemberRow
<1>2. RowsChain'
  BY DEF RowsChain, BalanceAt
<1>3. transactions[m] = <<>>
  BY DEF NoOrphanRows
<1>4. LedgerExplainsBalance'
  BY <1>3 DEF LedgerExplainsBalance, LedgerTypeOK, BalanceAt
<1>5. NoOrphanRows'
  BY DEF NoOrphanRows, LedgerTypeOK, MemberRow
<1>6. QED
  BY <1>1, <1>2, <1>4, <1>5

\* What a posting does to the ledger of its member, row by row.
LEMMA PostedRows ==
  ASSUME LedgerInv, NEW m \in MemberIDs, NEW type \in {"charge", "deduct"},
         NEW amount \in Amounts, Post(m, type, amount)
  PROVE  LET after == Applied(members[m].balance, type, amount)
             row == [type |-> type, amount |-> amount, balanceAfter |-> after]
         IN  /\ row \in TxRow
             /\ transactions' = [transactions EXCEPT ![m] = Append(@, row)]
             /\ transactions'[m] \in Seq(TxRow)
             /\ Len(transactions'[m]) = Len(transactions[m]) + 1
             /\ transactions'[m][Len(transactions[m]) + 1] = row
             /\ \A i \in DOMAIN transactions[m] :
                  transactions'[m][i] = transactions[m][i]
<1> DEFINE row == [type |-> type, amount |-> amount,
                   balanceAfter |-> Applied(members[m].balance, type, amount)]
<1>1. row \in TxRow
  BY LedgerAssumption DEF Post, TxRow
<1>2. transactions[m] \in Seq(TxRow)
  BY DEF LedgerInv, LedgerTypeOK
<1>3. transactions' = [transactions EXCEPT ![m] = Append(@, row)]
  BY DEF Post
<1>4. transactions'[m] = Append(transactions[m], row)
  BY <1>3 DEF LedgerInv, LedgerTypeOK
<1> HIDE DEF row
<1>5. /\ transactions'[m] \in Seq(TxRow)
      /\ Len(transactions'[m]) = Len(transactions[m]) + 1
      /\ transactions'[m][Len(transactions[m]) + 1] = row
      /\ \A i \in DOMAIN transactions[m] : transactions'[m][i] = transactions[m][i]
  BY <1>1, <1>2, <1>4
<1>6. QED
  BY <1>1, <1>3, <1>5 DEF row

\* The new row continues the chain, and the new balance is its balance_after.
LEMMA PostKeepsInv ==
  ASSUME LedgerInv, NEW m \in MemberIDs, NEW type \in {"charge", "deduct"},
         NEW amount \in Amounts, Post(m, type, amount)
  PROVE  LedgerInv'
<1> DEFINE after == Applied(members[m].balance, type, amount)
           row == [type |-> type, amount |-> amount, balanceAfter |-> after]
<1> USE LedgerAssumption
<1> PICK n : n = Len(transactions[m])  \* a constant: it must not be primed
  OBVIOUS
<1>1. /\ members[m] # NoRow
      /\ after \in 0..MaxInt64
      /\ members' = [members EXCEPT ![m].balance = after]
      /\ issuedIDs' = issuedIDs
  BY DEF Post
<1>2. /\ row \in TxRow
      /\ transactions' = [transactions EXCEPT ![m] = Append(@, row)]
      /\ transactions'[m] \in Seq(TxRow)
      /\ Len(transactions'[m]) = n + 1
      /\ transactions'[m][n + 1] = row
      /\ \A i \in DOMAIN transactions[m] : transactions'[m][i] = transactions[m][i]
  BY PostedRows
<1>3. LedgerTypeOK /\ RowsChain /\ LedgerExplainsBalance /\ NoOrphanRows
  BY DEF LedgerInv
<1>4. /\ transactions[m] \in Seq(TxRow)
      /\ n \in Nat
      /\ DOMAIN transactions[m] = 1..n
      /\ DOMAIN transactions'[m] = 1..(n + 1)
  BY <1>2, <1>3 DEF LedgerTypeOK
<1>5. members[m] \in MemberRow
  BY <1>1, <1>3 DEF LedgerTypeOK
<1>6. members[m].balance = BalanceAt(m, n)
  BY <1>1, <1>3 DEF LedgerExplainsBalance
<1> HIDE DEF row, after
<1>7. LedgerTypeOK'
  BY <1>1, <1>2, <1>3, <1>5 DEF LedgerTypeOK, MemberRow
<1>8. RowsChain'
  <2> SUFFICES ASSUME NEW k \in MemberIDs, NEW i \in DOMAIN transactions'[k]
               PROVE  transactions'[k][i].balanceAfter =
                        Applied(BalanceAt(k, i - 1)', transactions'[k][i].type,
                                transactions'[k][i].amount)
    BY DEF RowsChain
  <2>1. CASE k # m
    <3>1. transactions'[k] = transactions[k]
      BY <1>2, <2>1, <1>3 DEF LedgerTypeOK
    <3>2. QED
      BY <1>3, <3>1 DEF RowsChain, BalanceAt
  <2>2. CASE k = m /\ i \in 1..n
    <3>1. BalanceAt(m, i - 1)' = BalanceAt(m, i - 1)
      BY <1>2, <1>4, <2>2 DEF BalanceAt
    <3>2. QED
      BY <1>2, <1>3, <1>4, <2>2, <3>1 DEF RowsChain
  <2>3. CASE k = m /\ i = n + 1
    <3>1. BalanceAt(m, n)' = BalanceAt(m, n)
      BY <1>2, <1>4 DEF BalanceAt
    <3>2. row.balanceAfter = Applied(BalanceAt(m, n), row.type, row.amount)
      BY <1>6 DEF row, after
    <3>3. QED
      BY <1>2, <1>4, <2>3, <3>1, <3>2
  <2>4. QED
    BY <1>4, <2>1, <2>2, <2>3
<1>9. LedgerExplainsBalance'
  <2>1. members'[m].balance = BalanceAt(m, n + 1)'
    BY <1>1, <1>2, <1>3, <1>4, <1>5 DEF BalanceAt, row, LedgerTypeOK, MemberRow
  <2>2. ASSUME NEW k \in MemberIDs, k # m
        PROVE  members'[k] = members[k] /\ transactions'[k] = transactions[k]
    BY <1>1, <1>2, <1>3, <2>2 DEF LedgerTypeOK
  <2>3. QED
    BY <1>2, <1>3, <2>1, <2>2 DEF LedgerExplainsBalance, BalanceAt
<1>10. NoOrphanRows'
  <2>1. members'[m] # NoRow
    BY <1>1, <1>3, <1>5 DEF LedgerTypeOK, MemberRow
  <2>2. m \in issuedIDs
    BY <1>1, <1>3 DEF NoOrphanRows
  <2>3. QED
    BY <1>1, <1>2, <1>3, <2>1, <2>2 DEF NoOrphanRows, LedgerTypeOK
<1>11. QED
  BY <1>7, <1>8, <1>9, <1>10 DEF LedgerInv

\* Blocking and unblocking leave balance and ledger alone.
LEMMA SetActiveKeepsInv ==
  ASSUME LedgerInv, NEW m \in MemberIDs, NEW isActive \in BOOLEAN,
         SetActive(m, isActive)
  PROVE  LedgerInv'
<1> USE LedgerAssumption DEF LedgerInv, SetActive
<1>1. members[m] \in MemberRow
  BY DEF LedgerTypeOK
<1>2. /\ members'[m] \in MemberRow
      /\ members'[m].balance = members[m].balance
  BY <1>1 DEF LedgerTypeOK, MemberRow
<1>3. LedgerTypeOK'
  BY <1>1, <1>2 DEF LedgerTypeOK
<1>4. RowsChain'
  BY DEF RowsChain, BalanceAt
<1>5. LedgerExplainsBalance'
  BY <1>2 DEF LedgerExplainsBalance, BalanceAt, LedgerTypeOK
<1>6. NoOrphanRows'
  BY <1>2 DEF NoOrphanRows, LedgerTypeOK
<1>7. QED
  BY <1>3, <1>4, <1>5, <1>6

\* Row and ledger go together.
LEMMA RemoveKeepsInv ==
  ASSUME LedgerInv, NEW m \in MemberIDs, RemoveMember(m)
  PROVE  LedgerInv'
<1> USE LedgerAssumption DEF LedgerInv, RemoveMember
<1>1. LedgerTypeOK'
  BY DEF LedgerTypeOK
<1>2. RowsChain'
  BY DEF RowsChain, BalanceAt, LedgerTypeOK
<1>3. LedgerExplainsBalance'
  BY DEF LedgerExplainsBalance, BalanceAt, LedgerTypeOK
<1>4. NoOrphanRows'
  BY DEF NoOrphanRows, LedgerTypeOK
<1>5. QED
  BY <1>1, <1>2, <1>3, <1>4

\* Every step of the ledger, stuttering included, preserves the invariant.
LEMMA LedgerNextInv ==
  ASSUME LedgerInv, [LedgerNext]_ledgerVars
  PROVE  LedgerInv'
<1>1. CASE UNCHANGED ledgerVars
  BY <1>1 DEF ledgerVars, LedgerInv, LedgerTypeOK, RowsChain,
             LedgerExplainsBalance, NoOrphanRows, BalanceAt
<1>2. ASSUME NEW m \in MemberIDs, Register(m) PROVE LedgerInv'
  BY <1>2, RegisterKeepsInv
<1>3. ASSUME NEW m \in MemberIDs, NEW type \in {"charge", "deduct"},
             NEW amount \in Amounts, Post(m, type, amount)
      PROVE  LedgerInv'
  BY <1>3, PostKeepsInv
<1>4. ASSUME NEW m \in MemberIDs, NEW isActive \in BOOLEAN, SetActive(m, isActive)
      PROVE  LedgerInv'
  BY <1>4, SetActiveKeepsInv
<1>5. ASSUME NEW m \in MemberIDs, RemoveMember(m) PROVE LedgerInv'
  BY <1>5, RemoveKeepsInv
<1>6. QED
  BY <1>1, <1>2, <1>3, <1>4, <1>5 DEF LedgerNext

\* The audit trail explains every balance, in every reachable state.
THEOREM LedgerInvariant == LedgerSpec => []LedgerInv
<1>1. LedgerInit => LedgerInv
  BY LedgerInitInv
<1>2. LedgerInv /\ [LedgerNext]_ledgerVars => LedgerInv'
  BY LedgerNextInv
<1>3. QED
  BY <1>1, <1>2, PTL DEF LedgerSpec

\* No step of the ledger rewrites what was posted.
LEMMA LedgerNextAppends ==
  ASSUME LedgerInv, [LedgerNext]_ledgerVars
  PROVE  [Appends]_ledgerVars
<1> USE DEF Appends
<1>1. CASE UNCHANGED ledgerVars
  BY <1>1
<1>2. ASSUME NEW m \in MemberIDs, Register(m) PROVE Appends
  BY <1>2 DEF Register, LedgerInv, LedgerTypeOK
<1>3. ASSUME NEW m \in MemberIDs, NEW type \in {"charge", "deduct"},
             NEW amount \in Amounts, Post(m, type, amount)
      PROVE  Appends
  <2>1. /\ Len(transactions'[m]) = Len(transactions[m]) + 1
        /\ \A i \in DOMAIN transactions[m] : transactions'[m][i] = transactions[m][i]
    BY <1>3, PostedRows
  <2>2. ASSUME NEW k \in MemberIDs, k # m PROVE transactions'[k] = transactions[k]
    BY <1>3, <2>2 DEF Post, LedgerInv, LedgerTypeOK
  <2>3. \A k \in MemberIDs : Len(transactions[k]) \in Nat
    BY DEF LedgerInv, LedgerTypeOK
  <2>4. QED
    BY <2>1, <2>2, <2>3
<1>4. ASSUME NEW m \in MemberIDs, NEW isActive \in BOOLEAN, SetActive(m, isActive)
      PROVE  Appends
  BY <1>4 DEF SetActive, LedgerInv, LedgerTypeOK
<1>5. ASSUME NEW m \in MemberIDs, RemoveMember(m) PROVE Appends
  BY <1>5 DEF RemoveMember, LedgerInv, LedgerTypeOK
<1>6. QED
  BY <1>1, <1>2, <1>3, <1>4, <1>5 DEF LedgerNext

\* A step of the ledger moves a balance only by posting to an active member.
LEMMA LedgerNextPosts ==
  ASSUME LedgerInv, [LedgerNext]_ledgerVars
  PROVE  [PostsWhatItMoves]_ledgerVars
<1> USE DEF PostsWhatItMoves
<1>1. CASE UNCHANGED ledgerVars
  BY <1>1
<1>2. ASSUME NEW m \in MemberIDs, Register(m) PROVE PostsWhatItMoves
  BY <1>2 DEF Register, LedgerInv, LedgerTypeOK, NoOrphanRows
<1>3. ASSUME NEW m \in MemberIDs, NEW type \in {"charge", "deduct"},
             NEW amount \in Amounts, Post(m, type, amount)
      PROVE  PostsWhatItMoves
  <2>1. Len(transactions'[m]) = Len(transactions[m]) + 1
    BY <1>3, PostedRows
  <2>2. ASSUME NEW k \in MemberIDs, k # m PROVE members'[k] = members[k]
    BY <1>3, <2>2 DEF Post, LedgerInv, LedgerTypeOK
  <2>3. members[m].isActive
    BY <1>3 DEF Post
  <2>4. QED
    BY <2>1, <2>2, <2>3
<1>4. ASSUME NEW m \in MemberIDs, NEW isActive \in BOOLEAN, SetActive(m, isActive)
      PROVE  PostsWhatItMoves
  <2>1. members[m] \in MemberRow
    BY <1>4 DEF SetActive, LedgerInv, LedgerTypeOK
  <2>2. \A k \in MemberIDs :
          members[k] # NoRow => members'[k].balance = members[k].balance
    BY <1>4, <2>1 DEF SetActive, LedgerInv, LedgerTypeOK, MemberRow
  <2>3. QED
    BY <2>2
<1>5. ASSUME NEW m \in MemberIDs, RemoveMember(m) PROVE PostsWhatItMoves
  BY <1>5 DEF RemoveMember, LedgerInv, LedgerTypeOK
<1>6. QED
  BY <1>1, <1>2, <1>3, <1>4, <1>5 DEF LedgerNext

\* The ledger of a member is append-only.
THEOREM LedgerAppendOnly == LedgerSpec => AppendOnly
<1>1. LedgerInv /\ [LedgerNext]_ledgerVars => [Appends]_ledgerVars
  BY LedgerNextAppends
<1>2. QED
  BY <1>1, LedgerInvariant, PTL DEF LedgerSpec, AppendOnly

\* The balance of a blocked member does not move.
THEOREM LedgerFrozen == LedgerSpec => BlockedBalanceFrozen
<1>1. LedgerInv /\ [LedgerNext]_ledgerVars => [PostsWhatItMoves]_ledgerVars
  BY LedgerNextPosts
<1>2. QED
  BY <1>1, LedgerInvariant, PTL DEF LedgerSpec, BlockedBalanceFrozen

-----------------------------------------------------------------------------
(* Induction.                                                              *)

\* The least of some numbers.
LEMMA LeastNumber ==
  ASSUME NEW S, S \subseteq Nat, S # {}
  PROVE  \E i \in S : \A j \in S : i <= j
<1> DEFINE R == OpToRel(<, Nat)
<1>1. IsWellFoundedOn(R, Nat)
  BY NatLessThanWellFounded
<1>2. PICK i \in S : \A j \in S : ~ (<<j, i>> \in R)
  BY <1>1, WFMin
<1>3. \A j \in S : ~ (j < i)
  BY <1>2 DEF OpToRel
<1>4. QED
  BY <1>3

\* A set that holds 0, and n + 1 with every n, holds every number.
LEMMA Induction ==
  ASSUME NEW T, 0 \in T, \A n \in Nat : n \in T => n + 1 \in T
  PROVE  Nat \subseteq T
<1> SUFFICES ASSUME NEW k \in Nat, k \notin T PROVE FALSE
  OBVIOUS
<1> DEFINE missing == {n \in Nat : n \notin T}
<1>1. PICK n \in missing : \A i \in missing : n <= i
  <2>1. missing \subseteq Nat /\ missing # {}
    OBVIOUS
  <2> HIDE DEF missing
  <2>2. QED
    BY <2>1, LeastNumber
<1>2. n # 0 /\ n - 1 \in Nat /\ n - 1 \notin missing
  BY <1>1
<1>3. (n - 1) + 1 \in T
  BY <1>2
<1>4. QED
  BY <1>1, <1>3

\* Induction on the subsets of a finite set.
LEMMA SetInduction ==
  ASSUME NEW S, IsFiniteSet(S), NEW X,
         \A T \in SUBSET S : (\A x \in T : T \ {x} \in X) => T \in X
  PROVE  \A T \in SUBSET S : T \in X
<1> DEFINE small(n) == {T \in SUBSET S : Cardinality(T) <= n}
           good == {n \in Nat : small(n) \subseteq X}
<1>1. \A T \in SUBSET S : /\ IsFiniteSet(T) /\ Cardinality(T) \in Nat
                          /\ Cardinality(T) = 0 <=> T = {}
  BY FS_Subset, FS_CardinalityType, FS_EmptySet
<1>2. 0 \in good
  <2>1. \A T \in small(0) : T = {}
    BY <1>1
  <2>2. QED
    BY <2>1
<1>3. ASSUME NEW n \in Nat, n \in good PROVE n + 1 \in good
  <2> SUFFICES ASSUME NEW T \in SUBSET S, Cardinality(T) <= n + 1 PROVE T \in X
    OBVIOUS
  <2>1. ASSUME NEW x \in T PROVE T \ {x} \in X
    <3>1. Cardinality(T \ {x}) = Cardinality(T) - 1
      BY <1>1, FS_RemoveElement
    <3>2. QED
      BY <1>1, <1>3, <3>1
  <2>2. QED
    BY <2>1
<1>4. Nat \subseteq good
  <2> HIDE DEF good
  <2>1. QED
    BY <1>2, <1>3, Induction
<1>5. QED
  BY <1>1, <1>4

-----------------------------------------------------------------------------
(* Sums.                                                                   *)

\* h[T] is the sum of w over T, computed by taking out one element after the
\* other.
Sums(w, h, D) ==
  \A T \in D :
    h[T] = IF T = {} THEN 0 ELSE LET x == CHOOSE y \in T : TRUE IN w[x] + h[T \ {x}]

\* There is such a function.
LEMMA SumsExist ==
  ASSUME NEW S, IsFiniteSet(S), NEW w, \A x \in S : w[x] \in Int
  PROVE  \E h \in [SUBSET S -> Int] : Sums(w, h, SUBSET S)
<1> DEFINE small(n) == {T \in SUBSET S : Cardinality(T) <= n}
           good == {n \in Nat : \E h \in [small(n) -> Int] : Sums(w, h, small(n))}
<1>1. \A T \in SUBSET S : /\ IsFiniteSet(T) /\ Cardinality(T) \in Nat
                          /\ Cardinality(T) = 0 <=> T = {}
  BY FS_Subset, FS_CardinalityType, FS_EmptySet
<1>2. 0 \in good
  <2>1. \A T \in small(0) : T = {}
    BY <1>1
  <2> DEFINE g == [T \in small(0) |-> 0]
  <2>2. Sums(w, g, small(0))
    BY <2>1 DEF Sums
  <2>3. g \in [small(0) -> Int]
    OBVIOUS
  <2> HIDE DEF g, small
  <2>4. QED
    BY <2>2, <2>3
<1>3. ASSUME NEW n \in Nat, n \in good PROVE n + 1 \in good
  <2>1. PICK g \in [small(n) -> Int] : Sums(w, g, small(n))
    BY <1>3
  <2> DEFINE pick(T) == CHOOSE y \in T : TRUE
             h == [T \in small(n + 1) |->
                     IF T = {} THEN 0 ELSE w[pick(T)] + g[T \ {pick(T)}]]
  <2>2. ASSUME NEW T \in small(n + 1), T # {}
        PROVE  pick(T) \in S /\ T \ {pick(T)} \in small(n)
    <3>1. pick(T) \in T
      BY <2>2
    <3> HIDE DEF pick
    <3>2. Cardinality(T \ {pick(T)}) = Cardinality(T) - 1
      BY <1>1, <3>1, FS_RemoveElement
    <3>3. QED
      BY <1>1, <3>1, <3>2
  <2>3. \A T \in small(n) : T \in small(n + 1)
    BY <1>1
  <2>4. h \in [small(n + 1) -> Int]
    <3> HIDE DEF pick
    <3>1. QED
      BY <2>1, <2>2
  <2>5. \A T \in small(n) : h[T] = g[T]
    BY <2>1, <2>3 DEF Sums
  <2>6. \A T \in small(n + 1) :
          h[T] = IF T = {} THEN 0 ELSE w[pick(T)] + h[T \ {pick(T)}]
    <3> SUFFICES ASSUME NEW T \in small(n + 1), T # {}
                 PROVE  h[T] = w[pick(T)] + h[T \ {pick(T)}]
      OBVIOUS
    <3>1. h[T \ {pick(T)}] = g[T \ {pick(T)}]
      <4> HIDE DEF pick, h, small
      <4>1. QED
        BY <2>2, <2>5
    <3> HIDE DEF pick
    <3>2. QED
      BY <3>1
  <2>7. Sums(w, h, small(n + 1))
    BY <2>6 DEF Sums
  <2> HIDE DEF h, small
  <2>8. QED
    BY <2>4, <2>7
<1>4. Nat \subseteq good
  <2> HIDE DEF good
  <2>1. QED
    BY <1>2, <1>3, Induction
<1>5. Cardinality(S) \in good
  BY <1>1, <1>4
<1>6. small(Cardinality(S)) = SUBSET S
  BY <1>1, FS_Subset
<1>7. QED
  BY <1>5, <1>6

\* There is only one.
LEMMA SumsUnique ==
  ASSUME NEW S, IsFiniteSet(S), NEW w, NEW v, \A x \in S : w[x] = v[x],
         NEW g, NEW h, Sums(w, g, SUBSET S), Sums(v, h, SUBSET S)
  PROVE  \A T \in SUBSET S : g[T] = h[T]
<1> DEFINE X == {T \in SUBSET S : g[T] = h[T]}
<1>1. ASSUME NEW T \in SUBSET S, \A x \in T : T \ {x} \in X PROVE T \in X
  <2>1. CASE T = {}
    BY <2>1 DEF Sums
  <2>2. CASE T # {}
    <3> DEFINE x == CHOOSE y \in T : TRUE
    <3>1. x \in T
      BY <2>2
    <3>2. g[T] = w[x] + g[T \ {x}] /\ h[T] = v[x] + h[T \ {x}]
      BY <2>2 DEF Sums
    <3> HIDE DEF x
    <3>3. g[T \ {x}] = h[T \ {x}]
      BY <1>1, <3>1
    <3>4. QED
      BY <3>1, <3>2, <3>3
  <2>3. QED
    BY <2>1, <2>2
<1> HIDE DEF X
<1>2. \A T \in SUBSET S : T \in X
  BY <1>1, SetInduction
<1>3. QED
  BY <1>2 DEF X

\* SumFunctionOnSet computes it.
LEMMA SumIsSums ==
  ASSUME NEW S, IsFiniteSet(S), NEW w, \A x \in S : w[x] \in Int
  PROVE  \E h : Sums(w, h, SUBSET S) /\ SumFunctionOnSet(w, S) = h[S]
<1> DEFINE F(h) == [T \in SUBSET S |->
                      IF T = {} THEN 0
                      ELSE LET x == CHOOSE y \in T : TRUE IN w[x] + h[T \ {x}]]
<1>1. PICK g \in [SUBSET S -> Int] : Sums(w, g, SUBSET S)
  BY SumsExist
<1>2. g = F(g)
  BY <1>1 DEF Sums
<1> DEFINE h == CHOOSE f : f = F(f)
<1>3. h = F(h)
  BY <1>2
<1>4. SumFunctionOnSet(w, S) = h[S]
  BY DEF SumFunctionOnSet, FoldFunctionOnSet, MapThenFoldSet
<1> HIDE DEF h
<1>5. Sums(w, h, SUBSET S)
  BY <1>3 DEF Sums
<1>6. QED
  BY <1>4, <1>5

\* It does not matter which element is taken out of a sum.
LEMMA SumRemoves ==
  ASSUME NEW S, IsFiniteSet(S), NEW w, \A x \in S : w[x] \in Int
  PROVE  /\ \A T \in SUBSET S : SumFunctionOnSet(w, T) \in Int
         /\ SumFunctionOnSet(w, {}) = 0
         /\ \A T \in SUBSET S : \A x \in T :
              SumFunctionOnSet(w, T) = w[x] + SumFunctionOnSet(w, T \ {x})
<1> DEFINE sum(T) == SumFunctionOnSet(w, T)
           pick(T) == CHOOSE y \in T : TRUE
<1>1. PICK h \in [SUBSET S -> Int] : Sums(w, h, SUBSET S)
  BY SumsExist
<1>2. ASSUME NEW T \in SUBSET S PROVE sum(T) = h[T]
  <2>1. IsFiniteSet(T)
    BY FS_Subset
  <2>2. PICK g : Sums(w, g, SUBSET T) /\ sum(T) = g[T]
    BY <2>1, SumIsSums
  <2>3. Sums(w, h, SUBSET T)
    BY <1>1 DEF Sums
  <2>4. QED
    BY <2>1, <2>2, <2>3, SumsUnique
<1>3. sum({}) = 0
  BY <1>1, <1>2 DEF Sums
<1>4. ASSUME NEW T \in SUBSET S, T # {}
      PROVE  pick(T) \in T /\ sum(T) = w[pick(T)] + sum(T \ {pick(T)})
  <2>1. pick(T) \in T
    BY <1>4
  <2>2. h[T] = w[pick(T)] + h[T \ {pick(T)}]
    BY <1>1, <1>4 DEF Sums
  <2> HIDE DEF pick, sum
  <2>3. QED
    BY <1>2, <2>1, <2>2
<1> HIDE DEF sum, pick
<1>5. \A T \in SUBSET S : sum(T) \in Int
  BY <1>2
<1> DEFINE X == {T \in SUBSET S : \A x \in T : sum(T) = w[x] + sum(T \ {x})}
<1>6. ASSUME NEW T \in SUBSET S, \A x \in T : T \ {x} \in X PROVE T \in X
  <2> SUFFICES ASSUME NEW x \in T PROVE sum(T) = w[x] + sum(T \ {x})
    OBVIOUS
  <2> DEFINE y == pick(T)
  <2>1. y \in T /\ sum(T) = w[y] + sum(T \ {y})
    BY <1>4
  <2> HIDE DEF y
  <2>2. CASE x = y
    BY <2>1, <2>2
  <2>3. CASE x # y
    <3>1. x \in T \ {y} /\ y \in T \ {x} /\ (T \ {x}) \ {y} = (T \ {y}) \ {x}
      BY <2>1, <2>3
    <3>2. sum(T \ {y}) = w[x] + sum((T \ {y}) \ {x})
      BY <1>6, <2>1, <3>1
    <3>3. sum(T \ {x}) = w[y] + sum((T \ {y}) \ {x})
      BY <1>6, <3>1
    <3>4. w[x] \in Int /\ w[y] \in Int /\ sum((T \ {y}) \ {x}) \in Int
      BY <1>5, <2>1
    <3>5. QED
      BY <2>1, <3>2, <3>3, <3>4
  <2>4. QED
    BY <2>2, <2>3
<1> HIDE DEF X
<1>7. \A T \in SUBSET S : T \in X
  BY <1>6, SetInduction
<1>8. QED
  BY <1>3, <1>5, <1>7 DEF X, sum

\* Nor does the order in which another fold takes them out.
LEMMA AnyOrderSums ==
  ASSUME NEW S, IsFiniteSet(S), NEW w, \A x \in S : w[x] \in Int,
         NEW h, h[{}] = 0,
         \A T \in SUBSET S : T # {} => \E x \in T : h[T] = w[x] + h[T \ {x}]
  PROVE  h[S] = SumFunctionOnSet(w, S)
<1> DEFINE sum(T) == SumFunctionOnSet(w, T)
           X == {T \in SUBSET S : h[T] = sum(T)}
<1>1. sum({}) = 0 /\ \A T \in SUBSET S : \A x \in T : sum(T) = w[x] + sum(T \ {x})
  BY SumRemoves
<1> HIDE DEF sum
<1>2. ASSUME NEW T \in SUBSET S, \A x \in T : T \ {x} \in X PROVE T \in X
  <2>1. CASE T = {}
    BY <1>1, <2>1
  <2>2. CASE T # {}
    <3>1. PICK x \in T : h[T] = w[x] + h[T \ {x}]
      BY <2>2
    <3>2. h[T \ {x}] = sum(T \ {x})
      BY <1>2
    <3>3. QED
      BY <1>1, <3>1, <3>2
  <2>3. QED
    BY <2>1, <2>2
<1> HIDE DEF X
<1>3. \A T \in SUBSET S : T \in X
  BY <1>2, SetInduction
<1>4. QED
  BY <1>3 DEF X, sum

\* Only the values on the set count.
LEMMA SumSameValues ==
  ASSUME NEW S, IsFiniteSet(S), NEW w, NEW v,
         \A x \in S : w[x] \in Int /\ w[x] = v[x]
  PROVE  SumFunctionOnSet(v, S) = SumFunctionOnSet(w, S)
<1> DEFINE h == [T \in SUBSET S |-> SumFunctionOnSet(v, T)]
<1>1. /\ SumFunctionOnSet(v, {}) = 0
      /\ \A T \in SUBSET S : \A x \in T :
           SumFunctionOnSet(v, T) = v[x] + SumFunctionOnSet(v, T \ {x})
  <2>1. \A x \in S : v[x] \in Int
    OBVIOUS
  <2>2. QED
    BY <2>1, SumRemoves
<1>2. h[{}] = 0 /\ h[S] = SumFunctionOnSet(v, S)
  BY <1>1
<1>3. ASSUME NEW T \in SUBSET S, T # {} PROVE \E x \in T : h[T] = w[x] + h[T \ {x}]
  BY <1>1, <1>3
<1> HIDE DEF h
<1>4. h[S] = SumFunctionOnSet(w, S)
  BY <1>2, <1>3, AnyOrderSums
<1>5. QED
  BY <1>2, <1>4

\* One more element.
LEMMA SumAdds ==
  ASSUME NEW S, IsFiniteSet(S), NEW x, x \notin S,
         NEW w, w[x] \in Int, \A y \in S : w[y] \in Int
  PROVE  /\ SumFunctionOnSet(w, S) \in Int
         /\ SumFunctionOnSet(w, S \cup {x}) = w[x] + SumFunctionOnSet(w, S)
<1> DEFINE R == S \cup {x}
<1>1. IsFiniteSet(R) /\ \A y \in R : w[y] \in Int
  BY FS_AddElement
<1>2. x \in R /\ R \ {x} = S /\ S \in SUBSET R /\ R \in SUBSET R
  OBVIOUS
<1> HIDE DEF R
<1>3. /\ \A T \in SUBSET R : SumFunctionOnSet(w, T) \in Int
      /\ \A T \in SUBSET R : \A y \in T :
           SumFunctionOnSet(w, T) = w[y] + SumFunctionOnSet(w, T \ {y})
  BY <1>1, SumRemoves
<1>4. QED
  BY <1>2, <1>3 DEF R

\* The sum over two sets that have no element in common.
LEMMA SumOfUnion ==
  ASSUME NEW A, IsFiniteSet(A), NEW B, IsFiniteSet(B), A \cap B = {},
         NEW w, \A x \in A \cup B : w[x] \in Int
  PROVE  /\ SumFunctionOnSet(w, A) \in Int
         /\ SumFunctionOnSet(w, B) \in Int
         /\ SumFunctionOnSet(w, A \cup B) = SumFunctionOnSet(w, A) + SumFunctionOnSet(w, B)
<1> DEFINE sum(T) == SumFunctionOnSet(w, T)
           S == A \cup B
           X == {T \in SUBSET B : sum(A \cup T) = sum(A) + sum(T)}
<1>1. IsFiniteSet(S) /\ \A x \in S : w[x] \in Int
  BY FS_Union
<1>2. A \in SUBSET S /\ \A T \in SUBSET B : T \in SUBSET S /\ A \cup T \in SUBSET S
  OBVIOUS
<1>3. A \cap B = {}
  OBVIOUS
<1>4. /\ sum({}) = 0
      /\ \A T \in SUBSET S : sum(T) \in Int
      /\ \A T \in SUBSET S : \A x \in T : sum(T) = w[x] + sum(T \ {x})
  <2> HIDE DEF S
  <2>1. QED
    BY <1>1, SumRemoves
<1> HIDE DEF sum
<1>5. ASSUME NEW T \in SUBSET B, \A x \in T : T \ {x} \in X PROVE T \in X
  <2>1. CASE T = {}
    <3>1. A \cup T = A
      BY <2>1
    <3>2. QED
      BY <1>2, <1>4, <2>1, <3>1
  <2>2. CASE T # {}
    <3>1. PICK x \in T : TRUE
      BY <2>2
    <3>2. /\ T \ {x} \in SUBSET B /\ x \in S /\ x \in A \cup T
          /\ (A \cup T) \ {x} = A \cup (T \ {x})
      BY <1>3, <3>1
    <3>3. sum(A \cup (T \ {x})) = sum(A) + sum(T \ {x})
      BY <1>5, <3>1
    <3>4. sum(A \cup T) = w[x] + sum(A \cup (T \ {x}))
      BY <1>2, <1>4, <3>2
    <3>5. sum(T) = w[x] + sum(T \ {x})
      BY <1>2, <1>4, <3>1
    <3>6. sum(A) \in Int /\ sum(T \ {x}) \in Int /\ w[x] \in Int
      BY <1>1, <1>2, <1>4, <3>2
    <3>7. QED
      BY <3>3, <3>4, <3>5, <3>6
  <2>3. QED
    BY <2>1, <2>2
<1> HIDE DEF X
<1>6. \A T \in SUBSET B : T \in X
  BY <1>5, SetInduction
<1>7. sum(A) \in Int /\ sum(B) \in Int
  BY <1>2, <1>4
<1>8. sum(A \cup B) = sum(A) + sum(B)
  BY <1>6 DEF X
<1>9. QED
  BY <1>7, <1>8 DEF sum

\* A sum of natural numbers is one, and grows with the set.
LEMMA SumGrows ==
  ASSUME NEW S, IsFiniteSet(S), NEW w, \A x \in S : w[x] \in Nat, NEW T \in SUBSET S
  PROVE  /\ SumFunctionOnSet(w, T) \in Nat
         /\ SumFunctionOnSet(w, S) \in Nat
         /\ SumFunctionOnSet(w, T) <= SumFunctionOnSet(w, S)
<1> DEFINE sum(R) == SumFunctionOnSet(w, R)
           X == {R \in SUBSET S : sum(R) \in Nat}
<1>1. /\ sum({}) = 0
      /\ \A R \in SUBSET S : \A x \in R : sum(R) = w[x] + sum(R \ {x})
  <2>1. \A x \in S : w[x] \in Int
    OBVIOUS
  <2>2. QED
    BY <2>1, SumRemoves
<1> HIDE DEF sum
<1>2. ASSUME NEW R \in SUBSET S, \A x \in R : R \ {x} \in X PROVE R \in X
  <2>1. CASE R = {}
    BY <1>1, <2>1
  <2>2. CASE R # {}
    <3>1. PICK x \in R : TRUE
      BY <2>2
    <3>2. sum(R) = w[x] + sum(R \ {x}) /\ w[x] \in Nat /\ sum(R \ {x}) \in Nat
      BY <1>1, <1>2, <3>1
    <3>3. QED
      BY <3>2
  <2>3. QED
    BY <2>1, <2>2
<1> HIDE DEF X
<1>3. \A R \in SUBSET S : R \in X
  BY <1>2, SetInduction
<1>4. \A R \in SUBSET S : sum(R) \in Nat
  BY <1>3 DEF X
<1>5. sum(S) = sum(T) + sum(S \ T)
  <2>1. T \cup (S \ T) = S /\ T \cap (S \ T) = {} /\ S \ T \in SUBSET S
    OBVIOUS
  <2>2. IsFiniteSet(T) /\ IsFiniteSet(S \ T)
    BY FS_Subset
  <2>3. \A x \in T \cup (S \ T) : w[x] \in Int
    OBVIOUS
  <2>4. QED
    BY <2>1, <2>2, <2>3, SumOfUnion DEF sum
<1>6. QED
  BY <1>4, <1>5 DEF sum

=============================================================================
