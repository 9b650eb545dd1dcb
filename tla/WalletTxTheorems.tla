--------------------------- MODULE WalletTxTheorems ---------------------------
(***************************************************************************)
(* The transaction code implements WalletLedger for every set of members,  *)
(* amounts and requests.  What makes it so is CommitsWhatItRead: whatever  *)
(* is about to be committed was computed from the tables as they still     *)
(* are, because one connection serialises the requests and SQLite refuses  *)
(* a write on a stale snapshot.                                            *)
(***************************************************************************)
EXTENDS WalletTx, WalletLedgerTheorems

\* A request outside any transaction owes nothing to the view.
LEMMA IdleView ==
  ASSUME NEW r \in Requests, pc'[r] \notin TxStates
  PROVE  ViewAt(r)'
BY DEF ViewAt, TxStates, WriteStates

\* The connection keeps requests apart.
LEMMA OneHolder ==
  ASSUME OneTransaction, NEW r \in Requests, pc[r] \in TxStates
  PROVE  conn = r /\ \A q \in Requests \ {r} : pc[q] \notin TxStates
BY DEF OneTransaction

\* A request that is not idle has a job.
LEMMA JobOfRequest ==
  ASSUME TypeOK, NEW r \in Requests, pc[r] # "idle"
  PROVE  /\ job[r] \in Job
         /\ job[r].member \in MemberIDs
         /\ job[r].amount \in 1..MaxInt64
         /\ job[r].op \in {"charge", "deduct", "delete"}
         /\ Delta(job[r]) \in Int
<1>1. job[r] \in Job
  BY DEF TypeOK
<1>2. job[r].amount \in 1..MaxInt64 /\ MaxInt64 \in Nat
  BY <1>1, LedgerAssumption DEF Job
<1>3. QED
  BY <1>1, <1>2 DEF Job, Delta

\* A row GetMember accepts yields a balance the column can hold, and the
\* addition has not wrapped.
LEMMA AcceptedBalance ==
  ASSUME NEW row \in MemberRow \cup {NoRow}, NEW j \in Job, ~Refused(row, j)
  PROVE  /\ row \in MemberRow
         /\ row.isActive
         /\ BalanceAfter(row, j) = row.balance + Delta(j)
         /\ BalanceAfter(row, j) \in 0..MaxInt64
<1>1. row \in MemberRow /\ row.isActive /\ ~(BalanceAfter(row, j) < 0)
  BY DEF Refused, MemberRow
<1>2. row.balance \in 0..MaxInt64 /\ j.amount \in 1..MaxInt64 /\ MaxInt64 \in Nat
  BY <1>1, LedgerAssumption DEF MemberRow, Job
<1>3. QED
  BY <1>1, <1>2 DEF BalanceAfter, Wrap64, Delta

\* A request that returns from its transaction leaves nobody in one.
LEMMA ReturnKeepsInv ==
  ASSUME CommitsWhatItRead, LedgerTypeOK', NEW r \in Requests,
         pc[r] \in TxStates, Return(r), ReleaseConn
  PROVE  CommitsWhatItRead'
<1> USE DEF CommitsWhatItRead
<1>1. \A q \in Requests : pc'[q] \notin TxStates
  BY OneHolder DEF Return, Goto, TypeOK, TxStates, WriteStates
<1>2. TypeOK'
  BY LedgerAssumption DEF TypeOK, Return, Goto, ReleaseConn
<1>3. OneTransaction'
  BY <1>1, WalletTxAssumption DEF OneTransaction, ReleaseConn
<1>4. \A q \in Requests : ViewAt(q)'
  BY <1>1, IdleView
<1>5. QED
  BY <1>2, <1>3, <1>4

\* A statement of r inside its transaction concerns no other request.
LEMMA StatementKeepsInv ==
  ASSUME CommitsWhatItRead, NEW r \in Requests, pc[r] \in TxStates,
         NEW label \in TxStates, Goto(r, label), ViewAt(r)',
         view' \in View \cup {NoView}, newBalance' \in [Requests -> 0..MaxInt64],
         UNCHANGED <<ledgerVars, job, conn>>
  PROVE  CommitsWhatItRead'
<1> USE DEF CommitsWhatItRead
<1>1. \A q \in Requests \ {r} : pc'[q] \notin TxStates
  BY OneHolder DEF Goto, TypeOK
<1>2. pc'[r] = label
  BY DEF Goto, TypeOK
<1>3. TypeOK'
  BY <1>2 DEF TypeOK, Goto, ledgerVars, LedgerTypeOK, TxStates, WriteStates
<1>4. OneTransaction'
  BY <1>1, <1>2, OneHolder DEF OneTransaction
<1>5. \A q \in Requests : ViewAt(q)'
  BY <1>1, IdleView
<1>6. QED
  BY <1>3, <1>4, <1>5

\* The transaction starts without a snapshot.
LEMMA BeginTxKeepsInv ==
  ASSUME CommitsWhatItRead, NEW r \in Requests, BeginTx(r)
  PROVE  CommitsWhatItRead'
<1> USE DEF CommitsWhatItRead
<1>1. \A q \in Requests : pc[q] \notin TxStates
  BY WalletTxAssumption DEF BeginTx, ConnFree, OneTransaction
<1>2. /\ pc' = [pc EXCEPT ![r] = IF job[r].op = "delete" THEN "delTxs" ELSE "select"]
      /\ conn' = r
      /\ UNCHANGED <<ledgerVars, job, newBalance, view>>
  BY DEF BeginTx, Goto
<1>3. TypeOK'
  BY <1>2 DEF TypeOK, BeginTx, ledgerVars, LedgerTypeOK, TxStates, WriteStates
<1>4. OneTransaction'
  BY <1>1, <1>2 DEF OneTransaction, TypeOK, TxStates
<1>5. ASSUME NEW q \in Requests PROVE ViewAt(q)'
  <2>1. CASE q = r
    BY <1>2, <2>1 DEF ViewAt, TypeOK, WriteStates
  <2>2. CASE q # r
    BY <1>1, <1>2, <2>2, IdleView DEF TypeOK
  <2>3. QED
    BY <2>1, <2>2
<1>6. QED
  BY <1>3, <1>4, <1>5

\* The row the snapshot shows was accepted.
LEMMA GetMemberKeepsInv ==
  ASSUME CommitsWhatItRead, NEW r \in Requests, GetMember(r)
  PROVE  CommitsWhatItRead'
<1> DEFINE m == job[r].member
<1> USE DEF CommitsWhatItRead
<1>1. /\ pc[r] = "select"
      /\ ~Refused(members[m], job[r])
      /\ view' = [members |-> members, transactions |-> transactions]
      /\ newBalance' = [newBalance EXCEPT ![r] = BalanceAfter(members[m], job[r])]
      /\ Goto(r, "update")
      /\ UNCHANGED <<ledgerVars, job, conn>>
  BY DEF GetMember
<1>2. /\ job[r] \in Job /\ m \in MemberIDs
  BY <1>1, JobOfRequest
<1>3. /\ members[m] \in MemberRow
      /\ members[m].isActive
      /\ BalanceAfter(members[m], job[r]) = members[m].balance + Delta(job[r])
      /\ BalanceAfter(members[m], job[r]) \in 0..MaxInt64
  BY <1>1, <1>2, AcceptedBalance DEF TypeOK, LedgerTypeOK
<1>4. view' \in View
  BY <1>1 DEF View, TypeOK, LedgerTypeOK
<1>5. newBalance' \in [Requests -> 0..MaxInt64]
  BY <1>1, <1>3 DEF TypeOK
<1>6. pc'[r] = "update" /\ job'[r].op # "delete"
  BY <1>1 DEF Goto, TypeOK, ViewAt
<1>7. /\ view'.members[m] # NoRow
      /\ view'.members[m].isActive
      /\ newBalance'[r] = view'.members[m].balance + Delta(job[r])
  BY <1>1, <1>3, LedgerAssumption DEF TypeOK
<1>8. ViewAt(r)'
  BY <1>1, <1>4, <1>6, <1>7 DEF ViewAt, WriteStates, Delta
<1>9. QED
  BY <1>1, <1>4, <1>5, <1>8, StatementKeepsInv DEF TxStates

\* A fresh snapshot: the updated view is the committed tables with one new
\* balance, the one mutate has computed.
LEMMA AddToBalanceKeepsInv ==
  ASSUME CommitsWhatItRead, NEW r \in Requests, AddToBalance(r)
  PROVE  CommitsWhatItRead'
<1> DEFINE m == job[r].member
<1> USE DEF CommitsWhatItRead
<1>1. /\ pc[r] = "update"
      /\ view.members = members
      /\ view.transactions = transactions
      /\ view' = [view EXCEPT !.members =
                    [view.members EXCEPT ![m].balance = @ + Delta(job[r])]]
      /\ Goto(r, "insert")
      /\ UNCHANGED <<ledgerVars, job, newBalance, conn>>
  BY DEF AddToBalance, SnapshotFresh
<1>2. job[r] \in Job /\ m \in MemberIDs
  BY <1>1, JobOfRequest
<1>3. /\ view \in View
      /\ job[r].op # "delete"
      /\ members[m] # NoRow
      /\ members[m].isActive
      /\ newBalance[r] = members[m].balance + Delta(job[r])
  BY <1>1 DEF ViewAt
<1>4. members[m] \in MemberRow /\ newBalance[r] \in 0..MaxInt64
  BY <1>2, <1>3 DEF TypeOK, LedgerTypeOK
<1>5. /\ view'.members = [members EXCEPT ![m].balance = newBalance[r]]
      /\ view'.transactions = transactions
  BY <1>1, <1>2, <1>3 DEF View
<1>6. view' \in View
  <2>1. view'.members \in [MemberIDs -> MemberRow \cup {NoRow}]
    BY <1>4, <1>5 DEF TypeOK, LedgerTypeOK, MemberRow
  <2>2. view' = [members |-> view'.members, transactions |-> transactions]
    BY <1>1, <1>3 DEF View
  <2>3. QED
    BY <2>1, <2>2 DEF View, TypeOK, LedgerTypeOK
<1>7. pc'[r] = "insert"
  BY <1>1 DEF Goto, TypeOK
<1>8. ViewAt(r)'
  BY <1>1, <1>3, <1>5, <1>6, <1>7 DEF ViewAt, WriteStates, Delta, ledgerVars
<1>9. QED
  BY <1>1, <1>6, <1>8, StatementKeepsInv DEF TxStates, WriteStates, TypeOK

\* The row goes after the rows of the committed tables, with the balance the
\* view already shows.
LEMMA InsertTransactionKeepsInv ==
  ASSUME CommitsWhatItRead, NEW r \in Requests, InsertTransaction(r)
  PROVE  CommitsWhatItRead'
<1> DEFINE m == job[r].member
           row == LedgerRow(job[r], newBalance[r])
<1> USE DEF CommitsWhatItRead
<1>1. /\ pc[r] = "insert"
      /\ view' = [view EXCEPT !.transactions[m] = Append(@, row)]
      /\ Goto(r, "commit")
      /\ UNCHANGED <<ledgerVars, job, newBalance, conn>>
  BY DEF InsertTransaction
<1>2. job[r] \in Job /\ m \in MemberIDs /\ job[r].amount \in 1..MaxInt64
  BY <1>1, JobOfRequest
<1>3. /\ view \in View
      /\ job[r].op # "delete"
      /\ members[m] # NoRow
      /\ members[m].isActive
      /\ newBalance[r] = members[m].balance + Delta(job[r])
      /\ view.members = [members EXCEPT ![m].balance = newBalance[r]]
      /\ view.transactions = transactions
  BY <1>1 DEF ViewAt, WriteStates
<1>4. row \in TxRow
  <2>1. job[r].op \in {"charge", "deduct"}
    BY <1>1, <1>3, JobOfRequest
  <2>2. newBalance[r] \in 0..MaxInt64
    BY DEF TypeOK
  <2>3. QED
    BY <1>2, <2>1, <2>2 DEF LedgerRow, TxRow
<1> HIDE DEF row
<1>5. /\ view'.members = view.members
      /\ view'.transactions = [transactions EXCEPT ![m] = Append(@, row)]
  BY <1>1, <1>3 DEF View
<1>6. view' \in View
  <2>1. transactions \in [MemberIDs -> Seq(TxRow)]
    BY DEF TypeOK, LedgerTypeOK
  <2>2. Append(transactions[m], row) \in Seq(TxRow)
    BY <1>2, <1>4, <2>1
  <2>3. [transactions EXCEPT ![m] = Append(@, row)] \in [MemberIDs -> Seq(TxRow)]
    BY <2>1, <2>2
  <2>4. view.members \in [MemberIDs -> MemberRow \cup {NoRow}]
    BY <1>3 DEF View
  <2>5. view' = [members |-> view.members,
                 transactions |-> [transactions EXCEPT ![m] = Append(@, row)]]
    BY <1>1, <1>3 DEF View
  <2>6. QED
    BY <2>3, <2>4, <2>5 DEF View
<1>7. pc'[r] = "commit"
  BY <1>1 DEF Goto, TypeOK
<1>8. ViewAt(r)'
  BY <1>1, <1>3, <1>5, <1>6, <1>7 DEF row, ViewAt, WriteStates, Delta, LedgerRow, ledgerVars
<1>9. QED
  BY <1>1, <1>6, <1>8, StatementKeepsInv DEF TxStates, WriteStates, TypeOK

\* Delete: the ledger of the member is gone in the view, the rest is as it is.
LEMMA DeleteTransactionsKeepsInv ==
  ASSUME CommitsWhatItRead, NEW r \in Requests, DeleteTransactionsByMember(r)
  PROVE  CommitsWhatItRead'
<1> DEFINE m == job[r].member
<1> USE DEF CommitsWhatItRead
<1>1. /\ pc[r] = "delTxs"
      /\ view' = [members |-> members,
                  transactions |-> [transactions EXCEPT ![m] = <<>>]]
      /\ Goto(r, "delMember")
      /\ UNCHANGED <<ledgerVars, job, newBalance, conn>>
  BY DEF DeleteTransactionsByMember
<1>2. view' \in View
  <2>1. [transactions EXCEPT ![m] = <<>>] \in [MemberIDs -> Seq(TxRow)]
    <3>1. transactions \in [MemberIDs -> Seq(TxRow)] /\ <<>> \in Seq(TxRow)
      BY DEF TypeOK, LedgerTypeOK
    <3>2. QED
      BY <3>1
  <2>2. members \in [MemberIDs -> MemberRow \cup {NoRow}]
    BY DEF TypeOK, LedgerTypeOK
  <2>3. QED
    BY <1>1, <2>1, <2>2 DEF View
<1>3. pc'[r] = "delMember" /\ job'[r].op = "delete"
  BY <1>1 DEF Goto, TypeOK, ViewAt
<1>4. ViewAt(r)'
  BY <1>1, <1>2, <1>3 DEF ViewAt, WriteStates, ledgerVars
<1>5. QED
  BY <1>1, <1>2, <1>4, StatementKeepsInv DEF TxStates, WriteStates, TypeOK

\* Delete: the member is gone in the view as well.
LEMMA DeleteMemberKeepsInv ==
  ASSUME CommitsWhatItRead, NEW r \in Requests, DeleteMember(r)
  PROVE  CommitsWhatItRead'
<1> DEFINE m == job[r].member
<1> USE DEF CommitsWhatItRead
<1>1. /\ pc[r] = "delMember"
      /\ view' = [view EXCEPT !.members[m] = NoRow]
      /\ Goto(r, "commit")
      /\ UNCHANGED <<ledgerVars, job, newBalance, conn>>
  BY DEF DeleteMember
<1>2. /\ view \in View
      /\ job[r].op = "delete"
      /\ view.members = members
      /\ view.transactions = [transactions EXCEPT ![m] = <<>>]
  BY <1>1 DEF ViewAt, WriteStates
<1>3. /\ view'.members = [members EXCEPT ![m] = NoRow]
      /\ view'.transactions = view.transactions
  BY <1>1, <1>2 DEF View
<1>4. view' \in View
  <2>1. view'.members \in [MemberIDs -> MemberRow \cup {NoRow}]
    BY <1>3 DEF TypeOK, LedgerTypeOK
  <2>2. view' = [members |-> view'.members, transactions |-> view.transactions]
    BY <1>1, <1>2 DEF View
  <2>3. QED
    BY <1>2, <2>1, <2>2 DEF View
<1>5. pc'[r] = "commit"
  BY <1>1 DEF Goto, TypeOK
<1>6. ViewAt(r)'
  BY <1>1, <1>2, <1>3, <1>4, <1>5 DEF ViewAt, WriteStates, ledgerVars
<1>7. QED
  BY <1>1, <1>4, <1>6, StatementKeepsInv DEF TxStates, WriteStates, TypeOK

\* COMMIT publishes a typed view.
LEMMA CommitKeepsInv ==
  ASSUME CommitsWhatItRead, NEW r \in Requests, Commit(r)
  PROVE  CommitsWhatItRead'
<1>1. pc[r] = "commit" /\ view \in View
  BY DEF Commit, CommitsWhatItRead, ViewAt, WriteStates
<1>2. LedgerTypeOK'
  BY <1>1 DEF Commit, LedgerTypeOK, View, CommitsWhatItRead, TypeOK
<1>3. QED
  BY <1>1, <1>2, ReturnKeepsInv DEF Commit, TxStates, WriteStates

\* A step outside every transaction, or of a process that cannot write while
\* the tables are locked, leaves each view what it was.
LEMMA TablesKeepInv ==
  ASSUME CommitsWhatItRead, LedgerTypeOK', ~WriteLocked, UNCHANGED txVars
  PROVE  CommitsWhatItRead'
<1> USE DEF CommitsWhatItRead
<1>1. TypeOK'
  BY DEF TypeOK, txVars
<1>2. OneTransaction'
  BY DEF OneTransaction, txVars
<1>3. ASSUME NEW r \in Requests PROVE ViewAt(r)'
  BY <1>3 DEF ViewAt, txVars, WriteLocked, WriteStates
<1>4. QED
  BY <1>1, <1>2, <1>3

\* With the connection idle nobody has written.
LEMMA ConnFreeUnlocked ==
  ASSUME CommitsWhatItRead, ConnFree
  PROVE  ~WriteLocked
BY WalletTxAssumption DEF CommitsWhatItRead, OneTransaction, ConnFree, WriteLocked,
                         TxStates

\* Entering a handler, or leaving the queue for the connection.
LEMMA QueueKeepsInv ==
  ASSUME CommitsWhatItRead, NEW r \in Requests, pc[r] \in {"idle", "begin"},
         NEW label \in {"idle", "begin"}, Goto(r, label),
         \A q \in Requests \ {r} : job'[q] = job[q],
         job' \in [Requests -> Job \cup {NoJob}],
         job'[r] = NoJob <=> label = "idle",
         newBalance' \in [Requests -> 0..MaxInt64],
         \A q \in Requests \ {r} : newBalance'[q] = newBalance[q],
         UNCHANGED <<ledgerVars, conn, view>>
  PROVE  CommitsWhatItRead'
<1> USE DEF CommitsWhatItRead
<1>1. /\ pc'[r] = label
      /\ \A q \in Requests \ {r} : pc'[q] = pc[q]
      /\ pc[r] \notin TxStates /\ pc'[r] \notin TxStates
  BY DEF Goto, TypeOK, TxStates, WriteStates
<1>2. TypeOK'
  BY <1>1 DEF TypeOK, Goto, ledgerVars, LedgerTypeOK
<1>3. OneTransaction'
  BY <1>1 DEF OneTransaction
<1>4. ASSUME NEW q \in Requests PROVE ViewAt(q)'
  <2>1. CASE q = r
    BY <1>1, <2>1, IdleView
  <2>2. CASE q # r
    <3>1. /\ pc'[q] = pc[q]
          /\ job'[q] = job[q]
          /\ newBalance'[q] = newBalance[q]
          /\ members' = members
          /\ transactions' = transactions
          /\ view' = view
      BY <1>1, <2>2 DEF ledgerVars
    <3>2. ViewAt(q)
      OBVIOUS
    <3>3. QED
      BY <3>1, <3>2 DEF ViewAt, Delta, LedgerRow
  <2>3. QED
    BY <2>1, <2>2
<1>5. QED
  BY <1>2, <1>3, <1>4

\* Statements of their own change one row of members, to a typed one.
LEMMA RowStepTyped ==
  ASSUME LedgerTypeOK, NEW m \in MemberIDs,
         Register(m) \/ \E isActive \in BOOLEAN : SetActive(m, isActive)
  PROVE  LedgerTypeOK'
<1>1. CASE Register(m)
  BY <1>1, LedgerAssumption DEF Register, LedgerTypeOK, MemberRow
<1>2. ASSUME NEW isActive \in BOOLEAN, SetActive(m, isActive) PROVE LedgerTypeOK'
  <2>1. members[m] \in MemberRow
    BY <1>2 DEF SetActive, LedgerTypeOK
  <2>2. [members[m] EXCEPT !.isActive = isActive] \in MemberRow
    BY <2>1 DEF MemberRow
  <2>3. QED
    BY <1>2, <2>1, <2>2 DEF SetActive, LedgerTypeOK
<1>3. QED
  BY <1>1, <1>2

\* The empty state of the server.
LEMMA TxInitInv == Init => CommitsWhatItRead
<1> SUFFICES ASSUME Init PROVE CommitsWhatItRead
  OBVIOUS
<1>1. TypeOK
  BY LedgerInitInv, LedgerAssumption DEF Init, TypeOK, LedgerInv
<1>2. OneTransaction
  BY WalletTxAssumption DEF Init, OneTransaction, TxStates, WriteStates
<1>3. \A r \in Requests : ViewAt(r)
  BY DEF Init, ViewAt, WriteStates
<1>4. QED
  BY <1>1, <1>2, <1>3 DEF CommitsWhatItRead

\* CommitsWhatItRead is inductive: one case per action.
LEMMA TxNextInv ==
  ASSUME CommitsWhatItRead, [Next]_vars
  PROVE  CommitsWhatItRead'
<1>1. CASE UNCHANGED vars
  BY <1>1 DEF vars, ledgerVars, txVars, CommitsWhatItRead, TypeOK, LedgerTypeOK,
             OneTransaction, ViewAt, Delta, LedgerRow
<1>2. ASSUME NEW r \in Requests, NEW j \in Job, Submit(r, j)
      PROVE  CommitsWhatItRead'
  <2>1. j # NoJob
    BY WalletTxAssumption
  <2>2. /\ pc[r] = "idle"
        /\ Goto(r, "begin")
        /\ job' = [job EXCEPT ![r] = j]
        /\ newBalance' = newBalance
        /\ UNCHANGED <<ledgerVars, conn, view>>
    BY <1>2 DEF Submit
  <2>3. /\ job \in [Requests -> Job \cup {NoJob}]
        /\ newBalance \in [Requests -> 0..MaxInt64]
    BY DEF CommitsWhatItRead, TypeOK
  <2>4. QED
    BY <2>1, <2>2, <2>3, QueueKeepsInv
<1>3. ASSUME NEW r \in Requests, BeginTx(r) PROVE CommitsWhatItRead'
  BY <1>3, BeginTxKeepsInv
<1>4. ASSUME NEW r \in Requests, GetMember(r) PROVE CommitsWhatItRead'
  BY <1>4, GetMemberKeepsInv
<1>5. ASSUME NEW r \in Requests, Refuse(r) \/ Fail(r) PROVE CommitsWhatItRead'
  <2>1. LedgerTypeOK'
    BY <1>5 DEF Refuse, Fail, RollBack, ledgerVars, CommitsWhatItRead, TypeOK,
               LedgerTypeOK
  <2>2. QED
    BY <1>5, <2>1, ReturnKeepsInv DEF Refuse, Fail, TxStates
<1>6. ASSUME NEW r \in Requests, AddToBalance(r) PROVE CommitsWhatItRead'
  BY <1>6, AddToBalanceKeepsInv
<1>7. ASSUME NEW r \in Requests, InsertTransaction(r) PROVE CommitsWhatItRead'
  BY <1>7, InsertTransactionKeepsInv
<1>8. ASSUME NEW r \in Requests, DeleteTransactionsByMember(r)
      PROVE  CommitsWhatItRead'
  BY <1>8, DeleteTransactionsKeepsInv
<1>9. ASSUME NEW r \in Requests, DeleteMember(r) PROVE CommitsWhatItRead'
  BY <1>9, DeleteMemberKeepsInv
<1>10. ASSUME NEW r \in Requests, Commit(r) PROVE CommitsWhatItRead'
  BY <1>10, CommitKeepsInv
<1>11. ASSUME NEW r \in Requests, GiveUp(r) PROVE CommitsWhatItRead'
  <2>1. /\ pc[r] = "begin"
        /\ Goto(r, "idle")
        /\ job' = [job EXCEPT ![r] = NoJob]
        /\ newBalance' = [newBalance EXCEPT ![r] = 0]
        /\ UNCHANGED <<ledgerVars, conn, view>>
    BY <1>11 DEF GiveUp, Return
  <2>2. /\ job \in [Requests -> Job \cup {NoJob}]
        /\ newBalance \in [Requests -> 0..MaxInt64]
        /\ MaxInt64 \in Nat
    BY LedgerAssumption DEF CommitsWhatItRead, TypeOK
  <2>3. newBalance' \in [Requests -> 0..MaxInt64]
    BY <2>1, <2>2
  <2>4. QED
    BY <2>1, <2>2, <2>3, QueueKeepsInv
<1>12. ASSUME NEW m \in MemberIDs,
              \/ CreateMember(m)
              \/ \E isActive \in BOOLEAN : UpdateActive(m, isActive)
              \/ SeedMember(m)
       PROVE  CommitsWhatItRead'
  <2>1. LedgerTypeOK'
    BY <1>12, RowStepTyped DEF CreateMember, UpdateActive, SeedMember,
                               CommitsWhatItRead, TypeOK
  <2>2. ~WriteLocked
    BY <1>12, ConnFreeUnlocked DEF CreateMember, UpdateActive, SeedMember
  <2>3. QED
    BY <1>12, <2>1, <2>2, TablesKeepInv DEF CreateMember, UpdateActive, SeedMember
<1>13. CASE Crash
  <2>1. TypeOK'
    BY <1>13, LedgerAssumption DEF Crash, ReleaseConn, RollBack, ledgerVars,
                                  CommitsWhatItRead, TypeOK, LedgerTypeOK
  <2>2. OneTransaction'
    BY <1>13, WalletTxAssumption DEF Crash, ReleaseConn, OneTransaction, TxStates,
                                    WriteStates
  <2>3. \A r \in Requests : ViewAt(r)'
    BY <1>13, IdleView DEF Crash, TxStates, WriteStates
  <2>4. QED
    BY <2>1, <2>2, <2>3 DEF CommitsWhatItRead
<1>14. QED
  BY <1>1, <1>2, <1>3, <1>4, <1>5, <1>6, <1>7, <1>8, <1>9, <1>10, <1>11, <1>12,
     <1>13 DEF Next, Statement

-----------------------------------------------------------------------------

\* COMMIT is one posting or one removal of the abstract ledger.
LEMMA CommitRefines ==
  ASSUME CommitsWhatItRead, NEW r \in Requests, Commit(r)
  PROVE  LedgerNext
<1> DEFINE j == job[r]
           m == job[r].member
<1>1. /\ pc[r] = "commit"
      /\ members' = view.members
      /\ transactions' = view.transactions
      /\ issuedIDs' = issuedIDs
      /\ ViewAt(r)
  BY DEF Commit, CommitsWhatItRead
<1>2. /\ j \in Job
      /\ m \in MemberIDs
      /\ j.op \in {"charge", "deduct", "delete"}
  BY <1>1, JobOfRequest DEF CommitsWhatItRead
<1>3. CASE j.op = "delete"
  <2>1. RemoveMember(m)
    BY <1>1, <1>3 DEF ViewAt, RemoveMember
  <2>2. QED
    BY <1>2, <2>1 DEF LedgerNext
<1>4. CASE j.op # "delete"
  <2>1. /\ members[m] # NoRow
        /\ members[m].isActive
        /\ newBalance[r] = members[m].balance + Delta(j)
        /\ members' = [members EXCEPT ![m].balance = newBalance[r]]
        /\ transactions' = [transactions EXCEPT ![m] =
             Append(@, LedgerRow(j, newBalance[r]))]
    BY <1>1, <1>4 DEF ViewAt
  <2>2. newBalance[r] \in 0..MaxInt64
    BY DEF CommitsWhatItRead, TypeOK
  <2>3. j.op \in {"charge", "deduct"} /\ j.amount \in Amounts
    BY <1>2, <1>4 DEF Job
  <2>4. Applied(members[m].balance, j.op, j.amount) = newBalance[r]
    <3>1. members[m].balance \in Int /\ j.amount \in Int
      BY <1>2, <2>1, <2>3, LedgerAssumption
         DEF CommitsWhatItRead, TypeOK, LedgerTypeOK, MemberRow
    <3>2. QED
      BY <2>1, <2>3, <3>1 DEF Applied, Delta
  <2>5. Post(m, j.op, j.amount)
    BY <1>1, <2>1, <2>2, <2>4 DEF Post, LedgerRow
  <2>6. QED
    BY <1>2, <2>3, <2>5 DEF LedgerNext
<1>5. QED
  BY <1>3, <1>4

\* Every step of the server is a step of the ledger or leaves it alone.
LEMMA TxNextRefines ==
  ASSUME CommitsWhatItRead, [Next]_vars
  PROVE  [LedgerNext]_ledgerVars
<1>1. CASE UNCHANGED vars
  BY <1>1 DEF vars
<1>2. ASSUME NEW r \in Requests, Commit(r) PROVE [LedgerNext]_ledgerVars
  BY <1>2, CommitRefines
<1>3. ASSUME NEW m \in MemberIDs, CreateMember(m) \/ SeedMember(m)
      PROVE  [LedgerNext]_ledgerVars
  BY <1>3 DEF CreateMember, SeedMember, LedgerNext
<1>4. ASSUME NEW m \in MemberIDs, NEW isActive \in BOOLEAN, UpdateActive(m, isActive)
      PROVE  [LedgerNext]_ledgerVars
  BY <1>4 DEF UpdateActive, LedgerNext
<1>5. ASSUME NEW r \in Requests,
             \/ \E j \in Job : Submit(r, j)
             \/ BeginTx(r) \/ GetMember(r) \/ Refuse(r) \/ AddToBalance(r)
             \/ InsertTransaction(r) \/ DeleteTransactionsByMember(r)
             \/ DeleteMember(r) \/ Fail(r) \/ GiveUp(r)
      PROVE  UNCHANGED ledgerVars
  BY <1>5 DEF Submit, BeginTx, GetMember, Refuse, AddToBalance, InsertTransaction,
             DeleteTransactionsByMember, DeleteMember, Fail, GiveUp, RollBack
<1>6. CASE Crash
  BY <1>6 DEF Crash, RollBack
<1>7. QED
  BY <1>1, <1>2, <1>3, <1>4, <1>5, <1>6 DEF Next, Statement

-----------------------------------------------------------------------------

\* What an open transaction is about to commit was computed from the tables
\* as they still are.
THEOREM TxCommitsWhatItRead == Spec => []CommitsWhatItRead
<1>1. CommitsWhatItRead /\ [Next]_vars => CommitsWhatItRead'
  BY TxNextInv
<1>2. QED
  BY <1>1, TxInitInv, PTL DEF Spec

\* Types hold, and no two requests are ever inside a transaction.
THEOREM TxSafety == Spec => [](TypeOK /\ OneTransaction)
<1>1. CommitsWhatItRead => TypeOK /\ OneTransaction
  BY DEF CommitsWhatItRead
<1>2. QED
  BY <1>1, TxCommitsWhatItRead, PTL

\* The transaction code implements the abstract ledger.
THEOREM TxImplementsLedger == Spec => LedgerSpec
<1>1. Init => LedgerInit
  BY DEF Init
<1>2. CommitsWhatItRead /\ [Next]_vars => [LedgerNext]_ledgerVars
  BY TxNextRefines
<1>3. QED
  BY <1>1, <1>2, TxCommitsWhatItRead, PTL DEF Spec, LedgerSpec

\* Therefore the ledger explains every balance, whatever is interleaved, fails
\* or crashes, ...
THEOREM TxLedgerExplainsBalance == Spec => []LedgerExplainsBalance
<1>1. LedgerInv => LedgerExplainsBalance
  BY DEF LedgerInv
<1>2. QED
  BY <1>1, TxImplementsLedger, LedgerInvariant, PTL

\* ... each row follows from the one before it, ...
THEOREM TxRowsChain == Spec => []RowsChain
<1>1. LedgerInv => RowsChain
  BY DEF LedgerInv
<1>2. QED
  BY <1>1, TxImplementsLedger, LedgerInvariant, PTL

\* ... no posted row is rewritten, ...
THEOREM TxAppendOnly == Spec => AppendOnly
BY TxImplementsLedger, LedgerAppendOnly

\* ... and the balance of a blocked member does not move.
THEOREM TxBlockedBalanceFrozen == Spec => BlockedBalanceFrozen
BY TxImplementsLedger, LedgerFrozen
=============================================================================
