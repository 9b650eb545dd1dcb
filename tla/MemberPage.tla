------------------------------ MODULE MemberPage ------------------------------
(***************************************************************************)
(* The two pages about one member: the administrator's MemberDetailGet and *)
(* the customer's CustomerCard.  Each reads the member, then its newest    *)
(* ledger rows, in two queries with other requests in between, and         *)
(* computes totals, last charge and last visit from the rows it got.       *)
(*                                                                         *)
(* The tables are as SQLite has them: one table transactions for all       *)
(* members, in the order of insertion, with a created_at that comes from   *)
(* the wall clock.  The clock may stand still, run, or be set back, and    *)
(* rows of one millisecond come in any order.  Ledger is the mapping to    *)
(* what the wallet promises (WalletLedger).                                *)
(***************************************************************************)
EXTENDS Integers, SequencesExt

CONSTANTS MemberIDs,  \* ids util.NewID can return
          Amounts,    \* amounts the wallet forms can submit
          MaxInt64,   \* the largest int64
          NoRow,      \* "no such row"; the dash of a page
          ListLimit,  \* LIMIT of ListTransactionsByMember, 50 in the source
          MaxTime,    \* bound: the wall clock
          MaxRows     \* bound: rows of transactions

MemberRow == [id : MemberIDs, balance : 0..MaxInt64, isActive : BOOLEAN]

TxRow == [member : MemberIDs, type : {"charge", "deduct"}, amount : Amounts,
          balanceAfter : 0..MaxInt64, createdAt : 0..MaxTime]

ASSUME MemberPageAssumption ==
  /\ MaxInt64 \in Nat
  /\ Amounts \subseteq 1..MaxInt64
  /\ NoRow \notin [balance : 0..MaxInt64, isActive : BOOLEAN]
  /\ ListLimit \in Nat \ {0}
  /\ MaxTime \in Nat
  /\ MaxRows \in Nat

VARIABLES memberTable,  \* the rows of members
          txTable,      \* the rows of transactions, in the order of insertion
          issuedIDs,    \* ids already used for a member
          now,          \* the wall clock, in milliseconds
          request,      \* the page request in progress
          page          \* the page last rendered

vars == <<memberTable, txTable, issuedIDs, now, request, page>>

\* A request between its two queries: the member it has read and, as history,
\* what was posted to that member since, and whether it was deleted.
Request == [kind : {"detail", "card"}, row : MemberRow,
            since : -MaxInt64..MaxInt64, gone : BOOLEAN]

Idle == [kind |-> "idle"]
Blank == [view |-> "none"]

Init ==
  /\ memberTable = {}
  /\ txTable = <<>>
  /\ issuedIDs = {}
  /\ now = 0
  /\ request = Idle
  /\ page = Blank

-----------------------------------------------------------------------------
(* Queries.                                                                *)

Ids == {row.id : row \in memberTable}
RowOf(m) == CHOOSE row \in memberTable : row.id = m

\* The rows of table that are of one of the members, in the same order.
Kept(table, who) ==
  LET kept[n \in 0..Len(table)] ==
        IF n = 0 THEN <<>>
        ELSE IF table[n].member \in who THEN Append(kept[n - 1], table[n])
        ELSE kept[n - 1]
  IN  kept[Len(table)]

\* The ledger of m, oldest insertion first.
LedgerOf(m) == Kept(txTable, {m})

\* ORDER BY created_at DESC.
InOrder(row, next) == row.createdAt >= next.createdAt

\* ListTransactionsByMember: every answer SQLite may give.
ListTransactionsByMember(m) ==
  LET ledger == LedgerOf(m)
      orders == {s \in SetToSeqs(DOMAIN ledger) :
                   \A i \in 1..(Len(s) - 1) : InOrder(ledger[s[i]], ledger[s[i + 1]])}
      limit == IF Len(ledger) < ListLimit THEN Len(ledger) ELSE ListLimit
  IN  {[i \in 1..limit |-> ledger[s[i]]] : s \in orders}

-----------------------------------------------------------------------------
(* What the pages compute from the rows they got.                          *)

\* totalIn and totalOut of buildMemberView.
Total(type, rows) ==
  FoldLeft(LAMBDA sum, row : IF row.type = type THEN sum + row.amount ELSE sum, 0, rows)

\* The last row of that type.  Also the mutant of First: without the test for
\* the dash, every later row would overwrite the one before.
LastOf(type, rows) ==
  LET i == SelectLastInSeq(rows, LAMBDA row : row.type = type)
  IN  IF i = 0 THEN NoRow ELSE rows[i]

\* LastCharge and LastVisit of CustomerCard: the first row of that type.
First(type, rows) ==
  LET i == SelectInSeq(rows, LAMBDA row : row.type = type)
  IN  IF i = 0 THEN NoRow ELSE rows[i]

\* The page, and as history the ledger of its member at the second query.
Rendered(rows, ledger) ==
  [view |-> request.kind, balance |-> request.row.balance, listed |-> rows,
   totalIn |-> Total("charge", rows), totalOut |-> Total("deduct", rows),
   lastCharge |-> First("charge", rows), lastVisit |-> First("deduct", rows),
   since |-> request.since, gone |-> request.gone, ledger |-> ledger]

-----------------------------------------------------------------------------
(* The tables and the clock.                                               *)

Noted(m, amount, gone) ==
  request' = IF request # Idle /\ request.row.id = m
             THEN [request EXCEPT !.since = @ + amount, !.gone = @ \/ gone]
             ELSE request

\* INSERT INTO members.
Create(m) ==
  /\ m \notin issuedIDs
  /\ issuedIDs' = issuedIDs \cup {m}
  /\ memberTable' = memberTable \cup {[id |-> m, balance |-> 0, isActive |-> TRUE]}
  /\ UNCHANGED <<txTable, now, request, page>>

\* Charge and Deduct, committed (WalletTx has their statements).  created_at is
\* the clock of the INSERT.
ChargeOrDeduct(m, type, amount) ==
  LET row == RowOf(m)
      change == IF type = "charge" THEN amount ELSE -amount
      after == row.balance + change
  IN  /\ m \in Ids
      /\ row.isActive
      /\ Len(txTable) < MaxRows
      /\ after \in 0..MaxInt64
      /\ memberTable' = (memberTable \ {row}) \cup {[row EXCEPT !.balance = after]}
      /\ txTable' = Append(txTable, [member |-> m, type |-> type, amount |-> amount,
                                     balanceAfter |-> after, createdAt |-> now])
      /\ Noted(m, change, FALSE)
      /\ UNCHANGED <<issuedIDs, now, page>>

\* SetMemberActive.
SetMemberActive(m, isActive) ==
  /\ m \in Ids
  /\ memberTable' = (memberTable \ {RowOf(m)}) \cup {[RowOf(m) EXCEPT !.isActive = isActive]}
  /\ UNCHANGED <<txTable, issuedIDs, now, request, page>>

\* Mutant of Delete: DELETE FROM transactions without WHERE.
DeleteEveryRow(m) ==
  /\ m \in Ids
  /\ memberTable' = memberTable \ {RowOf(m)}
  /\ txTable' = <<>>
  /\ Noted(m, 0, TRUE)
  /\ UNCHANGED <<issuedIDs, now, page>>

\* Mutant of Delete: the rows of the ledger stay.
DeleteMemberOnly(m) ==
  /\ m \in Ids
  /\ memberTable' = memberTable \ {RowOf(m)}
  /\ Noted(m, 0, TRUE)
  /\ UNCHANGED <<txTable, issuedIDs, now, page>>

\* MemberService.Delete: rows of transactions, then the member, in one
\* transaction.
Delete(m) ==
  /\ m \in Ids
  /\ memberTable' = memberTable \ {RowOf(m)}
  /\ txTable' = Kept(txTable, MemberIDs \ {m})
  /\ Noted(m, 0, TRUE)
  /\ UNCHANGED <<issuedIDs, now, page>>

\* Time passes, or the clock is set.
ClockChanges ==
  /\ now' \in 0..MaxTime \ {now}
  /\ UNCHANGED <<memberTable, txTable, issuedIDs, request, page>>

-----------------------------------------------------------------------------
(* The pages.                                                              *)

Answer(result) ==
  /\ request' = Idle
  /\ page' = result
  /\ UNCHANGED <<memberTable, txTable, issuedIDs, now>>

\* Member.Get; GetByCardUUID finds active members only (MemberCards has the
\* cards, and what a page without an active member looks like).
Get(kind, m) ==
  /\ request = Idle
  /\ m \in Ids
  /\ kind = "card" => RowOf(m).isActive
  /\ request' = [kind |-> kind, row |-> RowOf(m), since |-> 0, gone |-> FALSE]
  /\ UNCHANGED <<memberTable, txTable, issuedIDs, now, page>>

\* Mutant of ListFails: the detail page goes on with no rows, too.
ListFailsUnnoticed ==
  /\ request # Idle
  /\ Answer(Rendered(<<>>, LedgerOf(request.row.id)))

\* ListByMember returns an error: 500 for the administrator, while the
\* customer's page goes on with no rows.
ListFails ==
  /\ request # Idle
  /\ Answer(IF request.kind = "card" THEN Rendered(<<>>, LedgerOf(request.row.id))
            ELSE Blank)

List ==
  /\ request # Idle
  /\ \E rows \in ListTransactionsByMember(request.row.id) :
       Answer(Rendered(rows, LedgerOf(request.row.id)))

\* The page is closed.  It holds all that is said about it, so nothing else has
\* to happen while it is open.
Close ==
  /\ page # Blank
  /\ page' = Blank
  /\ UNCHANGED <<memberTable, txTable, issuedIDs, now, request>>

Next ==
  \/ Close
  \/ /\ page = Blank
     /\ \/ \E m \in MemberIDs :
             \/ Create(m)
             \/ \E type \in {"charge", "deduct"}, amount \in Amounts :
                  ChargeOrDeduct(m, type, amount)
             \/ \E isActive \in BOOLEAN : SetMemberActive(m, isActive)
             \/ Delete(m)
             \/ \E kind \in {"detail", "card"} : Get(kind, m)
        \/ ClockChanges
        \/ ListFails
        \/ List

Spec == Init /\ [][Next]_vars

-----------------------------------------------------------------------------
(* Properties.                                                             *)

Page == {Blank} \cup
  [view : {"detail", "card"}, balance : 0..MaxInt64, listed : Seq(TxRow),
   totalIn : Nat, totalOut : Nat, lastCharge : TxRow \cup {NoRow},
   lastVisit : TxRow \cup {NoRow}, since : -MaxInt64..MaxInt64, gone : BOOLEAN,
   ledger : Seq(TxRow)]

\* Types; ids are a key of members, and no row of transactions is without its
\* member (the foreign key).
TypeOK ==
  /\ memberTable \subseteq MemberRow
  /\ \A row, other \in memberTable : row.id = other.id => row = other
  /\ txTable \in Seq(TxRow)
  /\ \A i \in DOMAIN txTable : txTable[i].member \in Ids
  /\ Ids \subseteq issuedIDs /\ issuedIDs \subseteq MemberIDs
  /\ now \in 0..MaxTime
  /\ request \in Request \cup {Idle}
  /\ page \in Page

\* The tables, read as a wallet of one member after the other.
Members ==
  [m \in MemberIDs |->
     IF m \in Ids THEN [balance |-> RowOf(m).balance, isActive |-> RowOf(m).isActive]
     ELSE NoRow]
Transactions ==
  [m \in MemberIDs |->
     LET ledger == LedgerOf(m)
     IN  [i \in DOMAIN ledger |->
            [type |-> ledger[i].type, amount |-> ledger[i].amount,
             balanceAfter |-> ledger[i].balanceAfter]]]
Wallet == INSTANCE WalletLedger WITH members <- Members, transactions <- Transactions

\* The shared table keeps the promise made for each member: whatever the
\* clock does, and whoever else is posted to or deleted, the rows of one
\* member are what WalletLedger allows.
ImplementsWallet == Wallet!LedgerSpec

\* As long as the list is not cut off, the two totals of the member page
\* explain the balance above them, up to what was posted to this member
\* between the two queries (members.go:149-160, 172-184).
TotalsExplainBalance ==
  page # Blank /\ page.view = "detail" /\ Len(page.listed) < ListLimit /\ ~page.gone =>
    page.totalIn - page.totalOut = page.balance + page.since

\* The clock moved on between any two rows of the ledger.
Ordered(ledger) ==
  \A i \in 1..(Len(ledger) - 1) : ledger[i].createdAt < ledger[i + 1].createdAt

\* What the customer reads as last charge and last visit is the last one, if
\* the clock moved on between the rows; a dash stands for "none", for a list
\* that failed, or for one filled up by rows of the other type alone.
LastRowsAreNewest ==
  page # Blank /\ Ordered(page.ledger) =>
    \A type \in {"charge", "deduct"} :
      LET shown == IF type = "charge" THEN page.lastCharge ELSE page.lastVisit
      IN  \/ shown = LastOf(type, page.ledger)
          \/ /\ shown = NoRow
             /\ page.listed = <<>> \/ Len(page.listed) = ListLimit
=============================================================================
