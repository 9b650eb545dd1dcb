------------------------------ MODULE WalletTx ------------------------------
(***************************************************************************)
(* The statements of WalletService.mutate and MemberService.Delete, as     *)
(* concurrent requests run them over the one connection db.Open allows.    *)
(*                                                                         *)
(* BeginTx(ctx, nil) is a deferred BEGIN: the transaction has no snapshot  *)
(* before its first statement, and no write lock before its first write.   *)
(* Another process may commit in between ("make seed" opens the same       *)
(* file); SQLite then fails the write (SQLITE_BUSY_SNAPSHOT).  Statements  *)
(* outside a transaction (INSERT and UPDATE of members) are one step each, *)
(* and wait for the connection.  Any statement may fail (error, cancelled  *)
(* request, busy timeout), and the server may stop between two statements. *)
(***************************************************************************)
EXTENDS WalletLedger, FiniteSets

CONSTANTS Requests,   \* HTTP requests in progress, one goroutine each
          MaxRows,    \* bound: ledger rows per member
          NoRequest,  \* the connection is idle
          NoJob,      \* the goroutine serves no request
          NoView      \* no transaction has a snapshot

Job == [op : {"charge", "deduct", "delete"}, member : MemberIDs,
        amount : Amounts]

View == [members : [MemberIDs -> MemberRow \cup {NoRow}],
         transactions : [MemberIDs -> Seq(TxRow)]]

ASSUME WalletTxAssumption ==
  /\ NoRequest \notin Requests
  /\ NoJob \notin Job
  /\ NoView \notin View
  /\ MaxRows \in Nat

VARIABLES pc,          \* pc[r]: the statement request r runs next
          job,         \* job[r]: what r was asked to do
          newBalance,  \* newBalance[r]: the local variable of mutate
          conn,        \* the request that holds the connection
          view         \* the tables as the open transaction sees them

txVars == <<pc, job, newBalance, conn, view>>
vars == <<ledgerVars, txVars>>

\* A transaction is open in these states, and has written in WriteStates.
WriteStates == {"insert", "delMember", "commit"}
TxStates == {"select", "update", "delTxs"} \cup WriteStates

Init ==
  /\ LedgerInit
  /\ pc = [r \in Requests |-> "idle"]
  /\ job = [r \in Requests |-> NoJob]
  /\ newBalance = [r \in Requests |-> 0]
  /\ conn = NoRequest
  /\ view = NoView

-----------------------------------------------------------------------------
(* What a statement computes, and when SQLite lets it through.             *)

\* The delta Charge and Deduct hand to mutate.
Delta(j) == IF j.op = "charge" THEN j.amount ELSE -j.amount

\* Mutant of Wrap64: arithmetic that does not wrap.
Unwrapped(n) == n

\* int64 addition of two values that are not negative.
Wrap64(n) == IF n > MaxInt64 THEN n - 2 * (MaxInt64 + 1) ELSE n

BalanceAfter(row, j) == Wrap64(row.balance + Delta(j))

\* Mutant of Refused: is_active is not looked at.
RefusedIfPoor(row, j) ==
  IF row = NoRow THEN TRUE ELSE BalanceAfter(row, j) < 0

\* ErrNotFound, ErrInactive and ErrInsufficient, in this order.
Refused(row, j) ==
  IF row = NoRow THEN TRUE ELSE ~row.isActive \/ BalanceAfter(row, j) < 0

\* Mutant of LedgerRow: balance_after is the balance read, not the new one.
LedgerRowOfRead(j, after) ==
  [type |-> j.op, amount |-> j.amount, balanceAfter |-> after - Delta(j)]

\* The row mutate inserts.
LedgerRow(j, after) ==
  [type |-> j.op, amount |-> j.amount, balanceAfter |-> after]

\* db.Open: SetMaxOpenConns(1).
ConnFree == conn = NoRequest

\* Mutant of SnapshotFresh: a stale snapshot may still be written to.
SnapshotNeverChecked == TRUE

\* Nothing was committed since the snapshot was taken; otherwise the first
\* write of the transaction fails.
SnapshotFresh == view.members = members /\ view.transactions = transactions

\* Mutant of WriteLocked: the first write takes no lock.
NeverWriteLocked == FALSE

\* SQLite has one writer: from its first write on, the transaction keeps other
\* processes from committing.
WriteLocked == \E r \in Requests : pc[r] \in WriteStates

\* The next statement of r.
Goto(r, label) == pc' = [pc EXCEPT ![r] = label]

\* r returns: the deferred Rollback, or Commit, has given the connection back.
Return(r) ==
  /\ Goto(r, "idle")
  /\ job' = [job EXCEPT ![r] = NoJob]
  /\ newBalance' = [newBalance EXCEPT ![r] = 0]

\* Mutant of ReleaseConn: mutate returns without Rollback.
KeepConn == UNCHANGED <<conn, view>>

ReleaseConn == conn' = NoRequest /\ view' = NoView

\* Mutant of RollBack: the statements ran outside the transaction.
KeepWrites ==
  IF view = NoView THEN UNCHANGED ledgerVars
  ELSE /\ members' = view.members
       /\ transactions' = view.transactions
       /\ UNCHANGED issuedIDs

\* A rollback leaves the tables as they were committed last.
RollBack == UNCHANGED ledgerVars

PendingRows(m) ==
  Cardinality({r \in Requests : job[r] # NoJob /\ job[r].member = m})

-----------------------------------------------------------------------------
(* Requests.                                                               *)

\* A goroutine enters Charge, Deduct or Delete.
Submit(r, j) ==
  /\ pc[r] = "idle"
  /\ j.op # "delete" => Len(transactions[j.member]) + PendingRows(j.member) < MaxRows
  /\ Goto(r, "begin")
  /\ job' = [job EXCEPT ![r] = j]
  /\ UNCHANGED <<ledgerVars, newBalance, conn, view>>

\* The pool hands out its connection.  BEGIN is deferred: it reads nothing.
BeginTx(r) ==
  /\ pc[r] = "begin"
  /\ ConnFree
  /\ conn' = r
  /\ Goto(r, IF job[r].op = "delete" THEN "delTxs" ELSE "select")
  /\ UNCHANGED <<ledgerVars, job, newBalance, view>>

\* SELECT takes the snapshot; the row is checked and the balance computed.
GetMember(r) ==
  LET row == members[job[r].member]
  IN  /\ pc[r] = "select"
      /\ ~Refused(row, job[r])
      /\ view' = [members |-> members, transactions |-> transactions]
      /\ newBalance' = [newBalance EXCEPT ![r] = BalanceAfter(row, job[r])]
      /\ Goto(r, "update")
      /\ UNCHANGED <<ledgerVars, job, conn>>

\* mutate returns ErrNotFound, ErrInactive or ErrInsufficient.
Refuse(r) ==
  /\ pc[r] = "select"
  /\ Refused(members[job[r].member], job[r])
  /\ Return(r)
  /\ ReleaseConn
  /\ RollBack

\* UPDATE members SET balance = balance + delta, under CHECK (balance >= 0).
AddToBalance(r) ==
  LET m == job[r].member
      updated == [view.members EXCEPT ![m].balance = @ + Delta(job[r])]
  IN  /\ pc[r] = "update"
      /\ SnapshotFresh
      /\ updated[m].balance >= 0
      /\ view' = [view EXCEPT !.members = updated]
      /\ Goto(r, "insert")
      /\ UNCHANGED <<ledgerVars, job, newBalance, conn>>

\* INSERT INTO transactions, with the balance computed before the UPDATE.
InsertTransaction(r) ==
  LET m == job[r].member
  IN  /\ pc[r] = "insert"
      /\ view.members[m] # NoRow
      /\ view' = [view EXCEPT !.transactions[m] =
                    Append(@, LedgerRow(job[r], newBalance[r]))]
      /\ Goto(r, "commit")
      /\ UNCHANGED <<ledgerVars, job, newBalance, conn>>

\* Mutant of DeleteTransactionsByMember: Delete commits before DeleteMember.
DeleteTransactionsOnly(r) ==
  /\ pc[r] = "delTxs"
  /\ view' = [members |-> members,
              transactions |-> [transactions EXCEPT ![job[r].member] = <<>>]]
  /\ Goto(r, "commit")
  /\ UNCHANGED <<ledgerVars, job, newBalance, conn>>

\* The first statement of Delete writes: snapshot and write lock come together.
DeleteTransactionsByMember(r) ==
  LET m == job[r].member
  IN  /\ pc[r] = "delTxs"
      /\ view' = [members |-> members,
                  transactions |-> [transactions EXCEPT ![m] = <<>>]]
      /\ Goto(r, "delMember")
      /\ UNCHANGED <<ledgerVars, job, newBalance, conn>>

\* ON DELETE RESTRICT: only a member without ledger rows can go.
DeleteMember(r) ==
  LET m == job[r].member
  IN  /\ pc[r] = "delMember"
      /\ view.transactions[m] = <<>>
      /\ view' = [view EXCEPT !.members[m] = NoRow]
      /\ Goto(r, "commit")
      /\ UNCHANGED <<ledgerVars, job, newBalance, conn>>

\* COMMIT: what the transaction wrote is what everyone reads from here on.
Commit(r) ==
  /\ pc[r] = "commit"
  /\ members' = view.members
  /\ transactions' = view.transactions
  /\ Return(r)
  /\ ReleaseConn
  /\ UNCHANGED issuedIDs

\* A statement returns an error, or the context of the request is cancelled:
\* the deferred Rollback runs.
Fail(r) ==
  /\ pc[r] \in TxStates
  /\ Return(r)
  /\ ReleaseConn
  /\ RollBack

\* The request is cancelled while it waits for the connection.
GiveUp(r) ==
  /\ pc[r] = "begin"
  /\ Return(r)
  /\ UNCHANGED <<ledgerVars, conn, view>>

-----------------------------------------------------------------------------
(* Statements of their own, other processes, and the server stopping.      *)

\* MemberService.Create: one INSERT, outside any transaction.
CreateMember(m) ==
  /\ ConnFree
  /\ Register(m)
  /\ UNCHANGED txVars

\* MemberService.ReportLost and Reactivate: one UPDATE each.
UpdateActive(m, isActive) ==
  /\ ConnFree
  /\ SetActive(m, isActive)
  /\ UNCHANGED txVars

\* Another process inserts a member (scripts/seed.sql) and commits.
SeedMember(m) ==
  /\ ~WriteLocked
  /\ Register(m)
  /\ UNCHANGED txVars

\* The process ends (SIGKILL, panic, the end of Shutdown's grace period).
Crash ==
  /\ \E r \in Requests : pc[r] # "idle"
  /\ pc' = [r \in Requests |-> "idle"]
  /\ job' = [r \in Requests |-> NoJob]
  /\ newBalance' = [r \in Requests |-> 0]
  /\ ReleaseConn
  /\ RollBack

\* One statement of an open transaction, or its failure.
Statement(r) ==
  \/ GetMember(r)
  \/ Refuse(r)
  \/ AddToBalance(r)
  \/ InsertTransaction(r)
  \/ DeleteTransactionsByMember(r)
  \/ DeleteMember(r)
  \/ Commit(r)
  \/ Fail(r)

Next ==
  \/ \E r \in Requests :
       \/ \E j \in Job : Submit(r, j)
       \/ BeginTx(r)
       \/ Statement(r)
       \/ GiveUp(r)
  \/ \E m \in MemberIDs :
       \/ CreateMember(m)
       \/ \E isActive \in BOOLEAN : UpdateActive(m, isActive)
       \/ SeedMember(m)
  \/ Crash

Spec == Init /\ [][Next]_vars

\* Statements end: SQLite answers or busy_timeout does.  The pool picks one of
\* the waiting requests at random each time it gets its connection back, so
\* none of them is passed over forever.
Fairness ==
  \A r \in Requests : WF_vars(Statement(r)) /\ SF_vars(BeginTx(r))

FairSpec == Spec /\ Fairness

-----------------------------------------------------------------------------
(* Properties.                                                             *)

\* Types, with newBalance within int64 whatever the amounts.
TypeOK ==
  /\ LedgerTypeOK
  /\ pc \in [Requests -> {"idle", "begin"} \cup TxStates]
  /\ job \in [Requests -> Job \cup {NoJob}]
  /\ \A r \in Requests : (job[r] = NoJob) <=> (pc[r] = "idle")
  /\ newBalance \in [Requests -> 0..MaxInt64]
  /\ conn \in Requests \cup {NoRequest}
  /\ view \in View \cup {NoView}

\* No request is inside a transaction without the connection, none keeps the
\* connection after it has returned: the check of the balance and its update
\* (wallet.go:64-88) are never interleaved with another request's.
OneTransaction == \A r \in Requests : (pc[r] \in TxStates) <=> (conn = r)

\* What the open transaction has computed, statement by statement, relative
\* to the tables as they are committed.
ViewAt(r) ==
  LET j == job[r]
      m == j.member
  IN  /\ pc[r] \in WriteStates \cup {"update"} => view \in View
      /\ pc[r] \in {"select", "update", "insert"} => j.op # "delete"
      /\ pc[r] \in {"delTxs", "delMember"} => j.op = "delete"
      /\ pc[r] = "update" =>
           /\ view.members[m] # NoRow
           /\ view.members[m].isActive
           /\ newBalance[r] = view.members[m].balance + Delta(j)
      /\ pc[r] \in {"insert", "commit"} /\ j.op # "delete" =>
           /\ members[m] # NoRow
           /\ members[m].isActive
           /\ newBalance[r] = members[m].balance + Delta(j)
           /\ view.members = [members EXCEPT ![m].balance = newBalance[r]]
      /\ pc[r] = "insert" => view.transactions = transactions
      /\ pc[r] = "commit" /\ j.op # "delete" =>
           view.transactions = [transactions EXCEPT ![m] =
             Append(@, LedgerRow(j, newBalance[r]))]
      /\ pc[r] = "delMember" => view.members = members
      /\ pc[r] = "commit" /\ j.op = "delete" =>
           view.members = [members EXCEPT ![m] = NoRow]
      /\ pc[r] \in {"delMember", "commit"} /\ j.op = "delete" =>
           view.transactions = [transactions EXCEPT ![m] = <<>>]

\* The inductive invariant of this module: what is about to be committed is
\* one posting, or one removal, computed from the tables as they still are.
CommitsWhatItRead ==
  /\ TypeOK
  /\ OneTransaction
  /\ \A r \in Requests : ViewAt(r)

\* Every request that waits for the connection gets its turn and returns: no
\* path out of mutate or Delete keeps the connection.
EveryRequestReturns ==
  \A r \in Requests : pc[r] = "begin" ~> pc[r] = "idle"
=============================================================================
