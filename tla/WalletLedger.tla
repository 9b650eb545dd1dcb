---------------------------- MODULE WalletLedger ----------------------------
(***************************************************************************)
(* What the wallet promises.  Two SQLite tables, members and transactions, *)
(* change in steps that are never seen half done: a member is registered,  *)
(* an amount is posted (the balance and its ledger row together), a member *)
(* is blocked or unblocked, a member goes away with all of its rows.       *)
(*                                                                         *)
(* The columns kept are those the wallet reads or writes.  Rows of         *)
(* transactions are kept per member, oldest first, which is the order of   *)
(* created_at.  The type 'refund' of the schema has no caller.             *)
(***************************************************************************)
EXTENDS Integers, Sequences

CONSTANTS MemberIDs,  \* ids util.NewID can return
          Amounts,    \* amounts the wallet forms can submit
          MaxInt64,   \* the largest int64
          NoRow       \* "no such row"

MemberRow == [balance : 0..MaxInt64, isActive : BOOLEAN]

TxRow == [type : {"charge", "deduct"}, amount : 1..MaxInt64,
          balanceAfter : 0..MaxInt64]

\* strconv.ParseInt bounds what a form can submit, and the handlers refuse
\* amounts that are not positive.
ASSUME LedgerAssumption ==
  /\ MaxInt64 \in Nat
  /\ Amounts \subseteq 1..MaxInt64
  /\ NoRow \notin MemberRow

VARIABLES members,       \* members[m]: the row with id m, or NoRow
          transactions,  \* transactions[m]: the rows with member_id m
          issuedIDs      \* ids already used for a member: never used again

ledgerVars == <<members, transactions, issuedIDs>>

-----------------------------------------------------------------------------

\* The balance a charge or a deduction of amount leads to.
Applied(balance, type, amount) ==
  IF type = "charge" THEN balance + amount ELSE balance - amount

LedgerInit ==
  /\ members = [m \in MemberIDs |-> NoRow]
  /\ transactions = [m \in MemberIDs |-> <<>>]
  /\ issuedIDs = {}

\* INSERT INTO members: balance 0 and is_active 1, under an id that is fresh.
Register(m) ==
  /\ m \notin issuedIDs
  /\ issuedIDs' = issuedIDs \cup {m}
  /\ members' = [members EXCEPT ![m] = [balance |-> 0, isActive |-> TRUE]]
  /\ UNCHANGED transactions

\* A charge or a deduction: refused for a blocked member, and for a balance
\* that would leave the range of the column.
Post(m, type, amount) ==
  LET after == Applied(members[m].balance, type, amount)
  IN  /\ members[m] # NoRow
      /\ members[m].isActive
      /\ after \in 0..MaxInt64
      /\ members' = [members EXCEPT ![m].balance = after]
      /\ transactions' = [transactions EXCEPT ![m] =
           Append(@, [type |-> type, amount |-> amount, balanceAfter |-> after])]
      /\ UNCHANGED issuedIDs

\* UPDATE members SET is_active: touches nothing when there is no such row.
SetActive(m, isActive) ==
  /\ members[m] # NoRow
  /\ members' = [members EXCEPT ![m].isActive = isActive]
  /\ UNCHANGED <<transactions, issuedIDs>>

\* The ledger rows of a member go with the member.
RemoveMember(m) ==
  /\ members' = [members EXCEPT ![m] = NoRow]
  /\ transactions' = [transactions EXCEPT ![m] = <<>>]
  /\ UNCHANGED issuedIDs

LedgerNext ==
  \E m \in MemberIDs :
    \/ Register(m)
    \/ \E type \in {"charge", "deduct"}, amount \in Amounts : Post(m, type, amount)
    \/ \E isActive \in BOOLEAN : SetActive(m, isActive)
    \/ RemoveMember(m)

LedgerSpec == LedgerInit /\ [][LedgerNext]_ledgerVars

-----------------------------------------------------------------------------

\* Every column of the two tables has its type; balance and balance_after stay
\* within the CHECK constraints and within int64.
LedgerTypeOK ==
  /\ members \in [MemberIDs -> MemberRow \cup {NoRow}]
  /\ transactions \in [MemberIDs -> Seq(TxRow)]
  /\ issuedIDs \in SUBSET MemberIDs

\* The balance of m once its first i ledger rows are applied.
BalanceAt(m, i) == IF i = 0 THEN 0 ELSE transactions[m][i].balanceAfter

\* Each ledger row takes the balance_after of the row before it to its own by
\* exactly its amount: no row is lost, doubled or computed from a stale read.
RowsChain ==
  \A m \in MemberIDs : \A i \in DOMAIN transactions[m] :
    LET row == transactions[m][i]
    IN  row.balanceAfter = Applied(BalanceAt(m, i - 1), row.type, row.amount)

\* The balance shown for a member is the one its ledger explains
\* ("balance_after" is kept for audit, migrations/00001_init.sql).
LedgerExplainsBalance ==
  \A m \in MemberIDs :
    members[m] # NoRow =>
      members[m].balance = BalanceAt(m, Len(transactions[m]))

\* The foreign key: no ledger row outlives its member, and an id that was
\* never used has none.
NoOrphanRows ==
  \A m \in MemberIDs :
    /\ members[m] = NoRow => transactions[m] = <<>>
    /\ m \notin issuedIDs => members[m] = NoRow

LedgerInv ==
  /\ LedgerTypeOK
  /\ RowsChain
  /\ LedgerExplainsBalance
  /\ NoOrphanRows

\* A step that leaves m in place keeps what was posted for m as it was posted.
Appends ==
  \A m \in MemberIDs :
    members'[m] # NoRow =>
      /\ Len(transactions[m]) <= Len(transactions'[m])
      /\ \A i \in DOMAIN transactions[m] :
           transactions'[m][i] = transactions[m][i]

\* A step that moves the balance of m finds m active and posts one row.
PostsWhatItMoves ==
  \A m \in MemberIDs :
    members[m] # NoRow /\ members'[m] # NoRow
      /\ members'[m].balance # members[m].balance =>
        /\ members[m].isActive
        /\ Len(transactions'[m]) = Len(transactions[m]) + 1

\* transactions is append-only (migrations/00001_init.sql:41): no row of a
\* member that still exists is ever changed or dropped.
AppendOnly == [][Appends]_ledgerVars

\* Reporting a card lost blocks charging and deducting at once
\* (MemberService.ReportLost): a charge that is already under way does not
\* move the balance of a member that is blocked by now.
BlockedBalanceFrozen == [][PostsWhatItMoves]_ledgerVars
=============================================================================
