------------------------- MODULE WalletSubmitTheorems -------------------------
(***************************************************************************)
(* The handlers of WalletSubmit implement the ledger, and what they tell   *)
(* operator and customers is true, for any number of requests, members,    *)
(* amounts and rows.                                                       *)
(*                                                                         *)
(* What is told refers to a row of a ledger.  Rows stay as they are while  *)
(* their member is there, and the id of a member that is gone never comes  *)
(* back: so what is true when it is read stays true (KeepsTold), and       *)
(* SubmitInv says of each handler and message which row it speaks about.   *)
(***************************************************************************)
EXTENDS WalletSubmit, WalletLedgerTheorems

\* Row i of member m is a posting of this type and amount, if m is still there.
Told(m, i, type, amount) ==
  /\ m \in issuedIDs
  /\ members[m] # NoRow =>
       /\ i \in DOMAIN transactions[m]
       /\ transactions[m][i].type = type
       /\ transactions[m][i].amount = amount

\* The ledger of m has held this balance since row i.
Held(m, i, balance) ==
  members[m] # NoRow =>
    \E k \in i..Len(transactions[m]) : balance = transactions[m][k].balanceAfter

TypeOf(template) == IF template = "deduct" THEN "deduct" ELSE "charge"

\* A handler at work on request r.
AtWork(r) ==
  /\ pc[r] # "idle" => job[r] \in Job /\ reply[r].status = "none"
  /\ pc[r] \in {"mutate", "get", "list"} => job[r].kind \in {"charge", "deduct"}
  /\ pc[r] = "initialCharge" => job[r].amount \in Amounts
  /\ pc[r] \in {"mutate", "create", "initialCharge"} => posted[r] = 0
  /\ pc[r] \in {"get", "list"} =>
       /\ posted[r] > 0
       /\ Told(job[r].member, posted[r], job[r].kind, job[r].amount)
  /\ pc[r] = "list" => Held(job[r].member, posted[r], shown[r])

\* A message, sent or on its way.
MessageTold(s) ==
  /\ Told(s.member, s.row, TypeOf(s.template), s.amount)
  /\ Held(s.member, s.row, s.balance)
  /\ s.template = "first" /\ members[s.member] # NoRow =>
       s.balance = transactions[s.member][s.row].balanceAfter

\* ReplyTellsOutcome and PageShowsOwnRow, for one request.
AnswerTold(r) ==
  /\ reply[r].status = "ok" => posted[r] > 0
  /\ reply[r].status = "refused" => posted[r] = 0
  /\ reply[r].status = "ok" /\ reply[r].listed # {} =>
       /\ posted[r] \in DOMAIN reply[r].ledger
       /\ reply[r].ledger[posted[r]].amount = job[r].amount
       /\ \E i \in posted[r]..Len(reply[r].ledger) :
            reply[r].balance = reply[r].ledger[i].balanceAfter
       /\ posted[r] \in reply[r].listed \/ Cardinality(reply[r].listed) = ListLimit

\* The inductive invariant.
SubmitInv ==
  /\ LedgerInv
  /\ TypeOK
  /\ \A r \in Requests : AtWork(r) /\ AnswerTold(r)
  /\ \A s \in outbox \cup inbox : MessageTold(s)

-----------------------------------------------------------------------------
(* The tables.                                                             *)

\* Each step of a handler is one of the ledger, or none.
LEMMA SubmitRefines ==
  ASSUME SubmitInv, [Next]_vars
  PROVE  [LedgerNext]_ledgerVars
<1> USE DEF LedgerNext
<1>1. ASSUME NEW r \in Requests, Mutate(r) PROVE LedgerNext
  BY <1>1 DEF Mutate, SubmitInv, AtWork, Job
<1>2. ASSUME NEW r \in Requests, Create(r) PROVE LedgerNext
  BY <1>2 DEF Create, SubmitInv, AtWork, Job
<1>3. ASSUME NEW r \in Requests, InitialCharge(r) PROVE LedgerNext
  BY <1>3 DEF InitialCharge, SubmitInv, AtWork, Job
<1>4. ASSUME NEW m \in MemberIDs, OtherRequest(m) PROVE LedgerNext
  BY <1>4 DEF OtherRequest
<1>5. ASSUME NEW m \in MemberIDs, NEW op \in {"charge", "deduct"}, NEW amount \in Amounts,
             DebugWalletOp(m, op, amount)
      PROVE  LedgerNext
  BY <1>5 DEF DebugWalletOp
<1>6. ASSUME NEW r \in Requests,
             \/ \E j \in Job : Submit(r, j)
             \/ MutateFails(r) \/ Get(r) \/ GetFails(r) \/ List(r)
             \/ CreateFails(r) \/ InitialChargeFails(r)
      PROVE  UNCHANGED ledgerVars
  BY <1>6 DEF Submit, MutateFails, Get, GetFails, List, CreateFails, InitialChargeFails
<1>7. ASSUME NEW s \in outbox, SmsSent(s) \/ SmsFails(s) PROVE UNCHANGED ledgerVars
  BY <1>7 DEF SmsSent, SmsFails
<1>8. CASE Crash
  BY <1>8 DEF Crash
<1>9. CASE UNCHANGED vars
  BY <1>9 DEF vars
<1>10. QED
  BY <1>1, <1>2, <1>3, <1>4, <1>5, <1>6, <1>7, <1>8, <1>9 DEF Next

\* Ids are given out once.
LEMMA IssuedOnce ==
  ASSUME LedgerInv, [LedgerNext]_ledgerVars
  PROVE  \A m \in issuedIDs : /\ m \in MemberIDs
                              /\ m \in issuedIDs'
                              /\ members'[m] # NoRow => members[m] # NoRow
<1> USE DEF LedgerInv, LedgerTypeOK
<1>1. CASE UNCHANGED ledgerVars
  BY <1>1 DEF ledgerVars
<1>2. ASSUME NEW k \in MemberIDs, Register(k)
      PROVE  \A m \in issuedIDs : /\ m \in issuedIDs'
                                  /\ members'[m] # NoRow => members[m] # NoRow
  BY <1>2 DEF Register
<1>3. ASSUME NEW k \in MemberIDs, NEW type \in {"charge", "deduct"},
             NEW amount \in Amounts, Post(k, type, amount)
      PROVE  \A m \in issuedIDs : /\ m \in issuedIDs'
                                  /\ members'[m] # NoRow => members[m] # NoRow
  BY <1>3 DEF Post
<1>4. ASSUME NEW k \in MemberIDs, NEW isActive \in BOOLEAN, SetActive(k, isActive)
      PROVE  \A m \in issuedIDs : /\ m \in issuedIDs'
                                  /\ members'[m] # NoRow => members[m] # NoRow
  BY <1>4 DEF SetActive
<1>5. ASSUME NEW k \in MemberIDs, RemoveMember(k)
      PROVE  \A m \in issuedIDs : /\ m \in issuedIDs'
                                  /\ members'[m] # NoRow => members[m] # NoRow
  BY <1>5 DEF RemoveMember
<1>6. QED
  BY <1>1, <1>2, <1>3, <1>4, <1>5 DEF LedgerNext

\* What is true of a row stays true.
LEMMA KeepsTold ==
  ASSUME LedgerInv, [LedgerNext]_ledgerVars
  PROVE  \A m \in issuedIDs : members'[m] # NoRow =>
           /\ members[m] # NoRow
           /\ Len(transactions[m]) \in Nat
           /\ Len(transactions'[m]) \in Nat
           /\ Len(transactions[m]) <= Len(transactions'[m])
           /\ DOMAIN transactions[m] = 1..Len(transactions[m])
           /\ DOMAIN transactions'[m] = 1..Len(transactions'[m])
           /\ \A i \in 1..Len(transactions[m]) : transactions'[m][i] = transactions[m][i]
<1> SUFFICES ASSUME NEW m \in issuedIDs, members'[m] # NoRow
             PROVE  /\ members[m] # NoRow
                    /\ Len(transactions[m]) \in Nat
                    /\ Len(transactions'[m]) \in Nat
                    /\ Len(transactions[m]) <= Len(transactions'[m])
                    /\ DOMAIN transactions[m] = 1..Len(transactions[m])
                    /\ DOMAIN transactions'[m] = 1..Len(transactions'[m])
                    /\ \A i \in 1..Len(transactions[m]) :
                         transactions'[m][i] = transactions[m][i]
  OBVIOUS
<1>1. m \in MemberIDs /\ members[m] # NoRow
  BY IssuedOnce
<1>2. LedgerInv'
  BY LedgerNextInv
<1>3. transactions[m] \in Seq(TxRow) /\ transactions'[m] \in Seq(TxRow)
  BY <1>1, <1>2 DEF LedgerInv, LedgerTypeOK
<1>4. CASE UNCHANGED ledgerVars
  BY <1>1, <1>3, <1>4 DEF ledgerVars
<1>5. CASE Appends
  BY <1>1, <1>3, <1>5 DEF Appends
<1>6. QED
  BY <1>4, <1>5, LedgerNextAppends

\* A posting adds the row NextRow names, with the balance it leads to.
LEMMA PostTells ==
  ASSUME LedgerInv, NEW m \in MemberIDs, NEW type \in {"charge", "deduct"},
         NEW amount \in Amounts, Post(m, type, amount)
  PROVE  /\ m \in issuedIDs'
         /\ NextRow(m) \in Nat \ {0}
         /\ NextRow(m) \in DOMAIN transactions'[m]
         /\ NextRow(m) = Len(transactions'[m])
         /\ transactions'[m][NextRow(m)].type = type
         /\ transactions'[m][NextRow(m)].amount = amount
         /\ transactions'[m][NextRow(m)].balanceAfter =
              Applied(members[m].balance, type, amount)
         /\ Applied(members[m].balance, type, amount) \in 0..MaxInt64
<1> DEFINE row == [type |-> type, amount |-> amount,
                   balanceAfter |-> Applied(members[m].balance, type, amount)]
<1>1. transactions[m] \in Seq(TxRow) /\ m \in issuedIDs
  BY DEF LedgerInv, LedgerTypeOK, NoOrphanRows, Post
<1>2. transactions'[m] = Append(transactions[m], row)
  BY DEF Post, LedgerInv, LedgerTypeOK
<1>3. issuedIDs' = issuedIDs /\ Applied(members[m].balance, type, amount) \in 0..MaxInt64
  BY DEF Post
<1>4. row \in TxRow
  BY <1>3, LedgerAssumption DEF TxRow
<1>5. QED
  BY <1>1, <1>2, <1>3, <1>4 DEF NextRow

-----------------------------------------------------------------------------
(* What a step leaves alone.                                               *)

\* A request that has no part in a step goes on as before.
LEMMA OthersAtWork ==
  ASSUME SubmitInv, [LedgerNext]_ledgerVars, NEW q \in Requests,
         pc'[q] = pc[q], job'[q] = job[q], posted'[q] = posted[q],
         shown'[q] = shown[q], reply'[q] = reply[q]
  PROVE  AtWork(q)'
<1>1. LedgerInv /\ AtWork(q)
  BY DEF SubmitInv
<1>2. posted[q] \in Nat
  BY DEF SubmitInv, TypeOK
<1>3. ASSUME pc[q] \in {"get", "list"}
      PROVE  Told(job[q].member, posted[q], job[q].kind, job[q].amount)'
  <2>1. Told(job[q].member, posted[q], job[q].kind, job[q].amount)
    BY <1>1, <1>3 DEF AtWork
  <2>2. job[q].member \in issuedIDs'
    BY <1>1, <2>1, IssuedOnce DEF Told
  <2>3. QED
    BY <1>1, <1>2, <2>1, <2>2, KeepsTold DEF Told
<1>4. ASSUME pc[q] = "list" PROVE Held(job[q].member, posted[q], shown[q])'
  <2>1. /\ Held(job[q].member, posted[q], shown[q])
        /\ job[q].member \in issuedIDs
        /\ posted[q] > 0
    BY <1>1, <1>4 DEF AtWork, Told
  <2>2. QED
    BY <1>1, <1>2, <2>1, KeepsTold DEF Held
<1>5. QED
  BY <1>1, <1>3, <1>4 DEF AtWork

\* A message stays as true as it was.
LEMMA MessagesStayTrue ==
  ASSUME SubmitInv, [LedgerNext]_ledgerVars
  PROVE  \A s \in outbox \cup inbox : MessageTold(s)'
<1> SUFFICES ASSUME NEW s \in outbox \cup inbox PROVE MessageTold(s)'
  OBVIOUS
<1>1. LedgerInv /\ MessageTold(s)
  BY DEF SubmitInv
<1>2. s.member \in issuedIDs /\ s.row \in Nat
  BY <1>1 DEF SubmitInv, TypeOK, Sms, MessageTold, Told
<1>3. s.member \in issuedIDs'
  BY <1>1, <1>2, IssuedOnce
<1>4. Told(s.member, s.row, TypeOf(s.template), s.amount)'
  BY <1>1, <1>2, <1>3, KeepsTold DEF MessageTold, Told
<1>5. ASSUME members'[s.member] # NoRow PROVE s.row \in 1..Len(transactions[s.member])
  BY <1>1, <1>2, <1>5, KeepsTold DEF MessageTold, Told
<1>6. Held(s.member, s.row, s.balance)'
  BY <1>1, <1>2, <1>5, KeepsTold DEF MessageTold, Held
<1>7. s.template = "first" /\ members'[s.member] # NoRow =>
        s.balance = transactions'[s.member][s.row].balanceAfter
  BY <1>1, <1>2, <1>5, KeepsTold DEF MessageTold
<1>8. QED
  BY <1>4, <1>6, <1>7 DEF MessageTold

\* A step of request r keeps the invariant if it does so for r and for the
\* message it adds.
LEMMA StepOfRequest ==
  ASSUME SubmitInv, [LedgerNext]_ledgerVars, TypeOK', NEW r \in Requests,
         \A q \in Requests \ {r} :
           /\ pc'[q] = pc[q] /\ job'[q] = job[q] /\ posted'[q] = posted[q]
           /\ shown'[q] = shown[q] /\ reply'[q] = reply[q],
         AtWork(r)', AnswerTold(r)',
         \A s \in outbox' \cup inbox' : s \in outbox \cup inbox \/ MessageTold(s)'
  PROVE  SubmitInv'
<1>1. LedgerInv'
  BY LedgerNextInv DEF SubmitInv
<1>2. ASSUME NEW q \in Requests, q # r PROVE AtWork(q)' /\ AnswerTold(q)'
  <2>1. AtWork(q)'
    BY <1>2, OthersAtWork
  <2>2. AnswerTold(q)'
    BY <1>2 DEF SubmitInv, AnswerTold
  <2>3. QED
    BY <2>1, <2>2
<1>3. \A s \in outbox' \cup inbox' : MessageTold(s)'
  BY MessagesStayTrue
<1>4. QED
  BY <1>1, <1>2, <1>3 DEF SubmitInv

\* A step of the tables alone, or of the messages alone, keeps the invariant.
LEMMA StepOfOthers ==
  ASSUME SubmitInv, [LedgerNext]_ledgerVars, TypeOK',
         UNCHANGED <<job, posted, shown, reply>>,
         \A r \in Requests : pc'[r] \in {pc[r], "idle"},
         outbox' \cup inbox' \subseteq outbox \cup inbox
  PROVE  SubmitInv'
<1>1. LedgerInv'
  BY LedgerNextInv DEF SubmitInv
<1>2. ASSUME NEW q \in Requests PROVE AtWork(q)' /\ AnswerTold(q)'
  <2>1. AnswerTold(q)'
    BY DEF SubmitInv, AnswerTold
  <2>2. CASE pc'[q] = pc[q]
    <3>1. /\ job'[q] = job[q] /\ posted'[q] = posted[q]
          /\ shown'[q] = shown[q] /\ reply'[q] = reply[q]
      OBVIOUS
    <3>2. AtWork(q)'
      BY <2>2, <3>1, OthersAtWork
    <3>3. QED
      BY <2>1, <3>2
  <2>3. CASE pc'[q] = "idle"
    <3>1. AtWork(q)'
      BY <2>3 DEF AtWork
    <3>2. QED
      BY <2>1, <3>1
  <2>4. QED
    BY <2>2, <2>3
<1>3. \A s \in outbox' \cup inbox' : MessageTold(s)'
  BY MessagesStayTrue
<1>4. QED
  BY <1>1, <1>2, <1>3 DEF SubmitInv

-----------------------------------------------------------------------------
(* The steps.                                                              *)

\* An answer without a page is an answer.
LEMMA RepliedIsReply ==
  \A status \in {"none", "ok", "refused", "error", "redirect"} : Replied(status) \in Reply
BY LedgerAssumption DEF Replied, Reply

LEMMA SubmitKeeps ==
  ASSUME SubmitInv, NEW r \in Requests, NEW j \in Job, Submit(r, j)
  PROVE  SubmitInv'
<1> USE DEF Submit, SubmitInv, TypeOK, Goto, Replied
<1>1. TypeOK'
  BY WalletSubmitAssumption, LedgerAssumption DEF Reply, ledgerVars, LedgerTypeOK
<1>2. AtWork(r)'
  BY DEF AtWork, Job
<1>3. AnswerTold(r)'
  BY DEF AnswerTold
<1>4. QED
  BY <1>1, <1>2, <1>3, StepOfRequest DEF ledgerVars

LEMMA MutateKeeps ==
  ASSUME SubmitInv, NEW r \in Requests, Mutate(r)
  PROVE  SubmitInv'
<1> DEFINE j == job[r]
<1>1. /\ j \in Job /\ j.kind \in {"charge", "deduct"}
      /\ reply[r].status = "none" /\ posted[r] = 0
  BY DEF SubmitInv, AtWork, Mutate
<1>2. j.member \in MemberIDs /\ j.amount \in Amounts
  BY <1>1, LedgerAssumption DEF Job
<1>3. [LedgerNext]_ledgerVars
  BY <1>1, <1>2 DEF Mutate, LedgerNext
<1>4. LedgerInv'
  BY <1>3, LedgerNextInv DEF SubmitInv
<1>5. /\ j.member \in issuedIDs'
      /\ NextRow(j.member) \in Nat \ {0}
      /\ NextRow(j.member) \in DOMAIN transactions'[j.member]
      /\ transactions'[j.member][NextRow(j.member)].type = j.kind
      /\ transactions'[j.member][NextRow(j.member)].amount = j.amount
  <2>1. PICK m \in MemberIDs, type \in {"charge", "deduct"}, amount \in Amounts :
          m = j.member /\ type = j.kind /\ amount = j.amount
    BY <1>1, <1>2
  <2>2. Post(m, type, amount)
    BY <2>1 DEF Mutate, Post
  <2>3. /\ m \in issuedIDs'
        /\ NextRow(m) \in Nat \ {0}
        /\ NextRow(m) \in DOMAIN transactions'[m]
        /\ transactions'[m][NextRow(m)].type = type
        /\ transactions'[m][NextRow(m)].amount = amount
    BY <2>2, PostTells DEF SubmitInv
  <2>4. QED
    BY <2>1, <2>3 DEF NextRow
<1>6. TypeOK'
  BY <1>1, <1>4, <1>5, WalletSubmitAssumption DEF Mutate, SubmitInv, TypeOK, LedgerInv, Goto
<1>7. /\ pc'[r] = "get" /\ posted'[r] = NextRow(j.member)
      /\ job' = job /\ reply' = reply
  BY DEF Mutate, Goto, SubmitInv, TypeOK
<1>8. AtWork(r)'
  BY <1>1, <1>5, <1>7 DEF AtWork, Told
<1>9. AnswerTold(r)'
  BY <1>1, <1>7 DEF AnswerTold
<1>10. QED
  BY <1>3, <1>6, <1>8, <1>9, StepOfRequest DEF Mutate, Goto, SubmitInv, TypeOK

LEMMA GetKeeps ==
  ASSUME SubmitInv, NEW r \in Requests, Get(r)
  PROVE  SubmitInv'
<1> DEFINE m == job[r].member
<1>1. /\ job[r] \in Job /\ job[r].kind \in {"charge", "deduct"}
      /\ reply[r].status = "none" /\ posted[r] > 0
      /\ Told(m, posted[r], job[r].kind, job[r].amount)
  BY DEF SubmitInv, AtWork, Get
<1>2. m \in MemberIDs /\ members[m] \in MemberRow
  BY <1>1 DEF Job, Get, SubmitInv, LedgerInv, LedgerTypeOK
<1>3. transactions[m] \in Seq(TxRow) /\ posted[r] \in 1..Len(transactions[m])
  BY <1>1, <1>2 DEF SubmitInv, LedgerInv, LedgerTypeOK, Told, Get
<1>4. members[m].balance = transactions[m][Len(transactions[m])].balanceAfter
  BY <1>2, <1>3 DEF SubmitInv, LedgerInv, LedgerExplainsBalance, BalanceAt, Get
<1>5. Held(m, posted[r], members[m].balance)
  BY <1>3, <1>4 DEF Held
<1>6. TypeOK'
  BY <1>1, <1>2, WalletSubmitAssumption
     DEF Get, SubmitInv, TypeOK, LedgerTypeOK, ledgerVars, Goto, MemberRow
<1>7. /\ pc'[r] = "list" /\ shown'[r] = members[m].balance
      /\ UNCHANGED <<ledgerVars, job, posted, reply>>
  BY DEF Get, Goto, SubmitInv, TypeOK
<1>8. AtWork(r)'
  BY <1>1, <1>5, <1>7 DEF AtWork, Told, Held, ledgerVars
<1>9. AnswerTold(r)'
  BY <1>1, <1>7 DEF AnswerTold
<1>10. QED
  BY <1>6, <1>8, <1>9, StepOfRequest DEF Get, Goto, SubmitInv, TypeOK

\* A handler ends without having posted anything more.
LEMMA FailsKeeps ==
  ASSUME SubmitInv, NEW r \in Requests,
         MutateFails(r) \/ GetFails(r) \/ CreateFails(r) \/ InitialChargeFails(r)
  PROVE  SubmitInv'
<1> USE DEF MutateFails, GetFails, CreateFails, InitialChargeFails, Respond, Goto, Replied
<1>1. TypeOK'
  <2>1. /\ pc' = [pc EXCEPT ![r] = "idle"]
        /\ \E status \in {"none", "ok", "refused", "error", "redirect"} :
             reply' = [reply EXCEPT ![r] = Replied(status)]
        /\ UNCHANGED <<ledgerVars, job, posted, shown, outbox, inbox>>
    BY DEF Replied
  <2>2. reply' \in [Requests -> Reply]
    BY <2>1, RepliedIsReply DEF SubmitInv, TypeOK
  <2>3. QED
    BY <2>1, <2>2 DEF SubmitInv, TypeOK, LedgerTypeOK, ledgerVars
<1>2. /\ pc'[r] = "idle" /\ posted' = posted /\ UNCHANGED ledgerVars
      /\ reply'[r].status \in {"refused", "error", "redirect"}
      /\ reply'[r].status = "refused" => pc[r] \in {"mutate", "create"}
  BY DEF SubmitInv, TypeOK
<1>3. AtWork(r)'
  BY <1>2 DEF AtWork
<1>4. AnswerTold(r)'
  BY <1>2 DEF AnswerTold, SubmitInv, AtWork
<1>5. QED
  BY <1>1, <1>2, <1>3, <1>4, StepOfRequest DEF SubmitInv, TypeOK

LEMMA ListKeeps ==
  ASSUME SubmitInv, NEW r \in Requests, List(r)
  PROVE  SubmitInv'
<1> DEFINE m == job[r].member
           s == SubmitMessage(r)
<1>1. /\ job[r] \in Job /\ job[r].kind \in {"charge", "deduct"}
      /\ posted[r] \in Nat /\ posted[r] > 0 /\ shown[r] \in 0..MaxInt64
      /\ Told(m, posted[r], job[r].kind, job[r].amount)
      /\ Held(m, posted[r], shown[r])
  BY DEF SubmitInv, AtWork, List, TypeOK
<1>2. m \in MemberIDs /\ job[r].amount \in Amounts
  BY <1>1, LedgerAssumption DEF Job
<1>3. transactions[m] \in Seq(TxRow)
  BY <1>2 DEF SubmitInv, LedgerInv, LedgerTypeOK
<1>4. PICK rows \in {transactions[m], <<>>} :
        \E few \in Listings(rows) : reply' = [reply EXCEPT ![r] = ResultPage(r, rows, few)]
  BY DEF List, Respond
<1>5. PICK few \in Listings(rows) : reply' = [reply EXCEPT ![r] = ResultPage(r, rows, few)]
  BY <1>4
<1>6. /\ pc' = [pc EXCEPT ![r] = "idle"] /\ outbox' = outbox \cup {s}
      /\ UNCHANGED <<ledgerVars, job, posted, shown, inbox>>
  BY DEF List, Respond, Goto, Spawn
<1>7. s \in Sms
  BY <1>1, <1>2 DEF SubmitMessage, Sms
<1>8. TypeOK'
  <2>1. ResultPage(r, rows, few) \in Reply
    <3>1. <<>> \in Seq(TxRow)
      OBVIOUS
    <3>2. rows \in Seq(TxRow)
      BY <1>3, <3>1
    <3>3. few \in SUBSET Nat
      BY <3>2 DEF Listings
    <3>4. QED
      BY <1>1, <3>2, <3>3 DEF ResultPage, Reply
  <2>2. reply' \in [Requests -> Reply]
    BY <1>5, <2>1 DEF SubmitInv, TypeOK
  <2>3. outbox' \cup inbox' \subseteq Sms
    BY <1>6, <1>7 DEF SubmitInv, TypeOK
  <2>4. QED
    BY <1>6, <2>2, <2>3 DEF SubmitInv, TypeOK, LedgerTypeOK, ledgerVars
<1>9. MessageTold(s)'
  <2>1. /\ s.member = m /\ s.row = posted[r] /\ s.amount = job[r].amount
        /\ s.balance = shown[r] /\ s.template = job[r].kind
    BY DEF SubmitMessage
  <2>2. TypeOf(s.template) = job[r].kind /\ s.template # "first"
    BY <1>1, <2>1 DEF TypeOf
  <2>3. MessageTold(s)
    BY <1>1, <2>1, <2>2 DEF MessageTold, Told, Held
  <2>4. QED
    BY <1>6, <2>3 DEF MessageTold, Told, Held, ledgerVars, SubmitMessage
<1>10. AtWork(r)'
  BY <1>6 DEF AtWork, SubmitInv, TypeOK
<1>11. AnswerTold(r)'
  <2>1. /\ reply'[r] = [status |-> "ok", balance |-> shown[r], ledger |-> rows,
                       listed |-> few]
        /\ posted' = posted /\ job' = job
    BY <1>5, <1>6 DEF ResultPage, SubmitInv, TypeOK
  <2>2. ASSUME few # {}
        PROVE  /\ posted[r] \in DOMAIN rows /\ rows[posted[r]].amount = job[r].amount
               /\ \E i \in posted[r]..Len(rows) : shown[r] = rows[i].balanceAfter
               /\ posted[r] \in few \/ Cardinality(few) = ListLimit
    <3>1. rows # <<>>
      BY <1>5, <2>2 DEF Listings
    <3>2. rows = transactions[m] /\ members[m] # NoRow
      BY <1>2, <3>1 DEF SubmitInv, LedgerInv, NoOrphanRows
    <3>3. /\ posted[r] \in DOMAIN rows /\ rows[posted[r]].amount = job[r].amount
          /\ \E i \in posted[r]..Len(rows) : shown[r] = rows[i].balanceAfter
      BY <1>1, <3>2 DEF Told, Held
    <3>4. QED
      BY <1>5, <3>3 DEF Listings
  <2>3. QED
    BY <1>1, <2>1, <2>2 DEF AnswerTold
<1>12. \A q \in Requests \ {r} :
         /\ pc'[q] = pc[q] /\ job'[q] = job[q] /\ posted'[q] = posted[q]
         /\ shown'[q] = shown[q] /\ reply'[q] = reply[q]
  BY <1>5, <1>6 DEF SubmitInv, TypeOK
<1>13. \A t \in outbox' \cup inbox' : t \in outbox \cup inbox \/ MessageTold(t)'
  <2>1. ASSUME NEW t \in outbox' \cup inbox', t \notin outbox \cup inbox PROVE MessageTold(t)'
    <3>1. t = s
      BY <1>6, <2>1
    <3>2. s' = s
      BY <1>6 DEF SubmitMessage
    <3>3. QED
      BY <1>9, <3>1, <3>2 DEF MessageTold, Told, Held
  <2>2. QED
    BY <2>1
<1>14. QED
  BY <1>6, <1>8, <1>10, <1>11, <1>12, <1>13, StepOfRequest

LEMMA CreateKeeps ==
  ASSUME SubmitInv, NEW r \in Requests, Create(r)
  PROVE  SubmitInv'
<1> DEFINE m == job[r].member
<1>1. job[r] \in Job /\ reply[r].status = "none" /\ posted[r] = 0
  BY DEF SubmitInv, AtWork, Create
<1>2. m \in MemberIDs /\ job[r].amount \in Amounts \cup {0}
  BY <1>1 DEF Job
<1>3. [LedgerNext]_ledgerVars
  BY <1>2 DEF Create, LedgerNext
<1>4. LedgerInv'
  BY <1>3, LedgerNextInv DEF SubmitInv
<1>5. TypeOK'
  <2>1. /\ \E label \in {"initialCharge", "idle"} : pc' = [pc EXCEPT ![r] = label]
        /\ reply' = reply \/ reply' = [reply EXCEPT ![r] = Replied("redirect")]
        /\ UNCHANGED <<job, posted, shown, outbox, inbox>>
    BY DEF Create, Goto, Respond
  <2>2. reply' \in [Requests -> Reply]
    BY <2>1, RepliedIsReply DEF SubmitInv, TypeOK
  <2>3. /\ pc' \in [Requests -> {"idle", "mutate", "get", "list", "create", "initialCharge"}]
        /\ \A q \in Requests : pc'[q] # "idle" => job'[q] # NoJob
    BY <1>1, <2>1, WalletSubmitAssumption DEF SubmitInv, TypeOK
  <2>4. QED
    BY <1>4, <2>1, <2>2, <2>3 DEF SubmitInv, TypeOK, LedgerInv
<1>6. /\ pc'[r] = "initialCharge" => job[r].amount \in Amounts /\ reply' = reply
      /\ pc'[r] \in {"initialCharge", "idle"}
      /\ reply'[r].status \in {"none", "redirect"}
      /\ UNCHANGED <<job, posted, shown, outbox, inbox>>
  BY <1>1, <1>2 DEF Create, SubmitInv, TypeOK, Goto, Respond, Replied
<1>7. AtWork(r)'
  BY <1>1, <1>6 DEF AtWork
<1>8. AnswerTold(r)'
  BY <1>1, <1>6 DEF AnswerTold
<1>9. QED
  BY <1>3, <1>5, <1>6, <1>7, <1>8, StepOfRequest
     DEF Create, Goto, Respond, SubmitInv, TypeOK

LEMMA InitialChargeKeeps ==
  ASSUME SubmitInv, NEW r \in Requests, InitialCharge(r)
  PROVE  SubmitInv'
<1> DEFINE s == FirstMessage(r, members[job[r].member].balance + job[r].amount)
<1>1. job[r] \in Job /\ job[r].amount \in Amounts /\ posted[r] = 0
  BY DEF SubmitInv, AtWork, InitialCharge
<1>2. PICK m \in MemberIDs, amount \in Amounts : m = job[r].member /\ amount = job[r].amount
  BY <1>1 DEF Job
<1>3. Post(m, "charge", amount)
  BY <1>2 DEF InitialCharge, Post
<1>4. [LedgerNext]_ledgerVars
  BY <1>3 DEF LedgerNext
<1>5. LedgerInv'
  BY <1>4, LedgerNextInv DEF SubmitInv
<1>6. /\ m \in issuedIDs'
      /\ NextRow(m) \in Nat \ {0}
      /\ NextRow(m) \in DOMAIN transactions'[m]
      /\ NextRow(m) = Len(transactions'[m])
      /\ transactions'[m][NextRow(m)].type = "charge"
      /\ transactions'[m][NextRow(m)].amount = amount
      /\ transactions'[m][NextRow(m)].balanceAfter = members[m].balance + amount
      /\ members[m].balance + amount \in 0..MaxInt64
  BY <1>3, PostTells DEF SubmitInv, Applied
<1>7. s = [template |-> "first", member |-> m, row |-> NextRow(m), amount |-> amount,
           balance |-> members[m].balance + amount]
  BY <1>2 DEF FirstMessage
<1>8. /\ pc' = [pc EXCEPT ![r] = "idle"] /\ outbox' = outbox \cup {s}
      /\ posted' = [posted EXCEPT ![r] = NextRow(m)]
      /\ reply' = [reply EXCEPT ![r] = Replied("redirect")]
      /\ UNCHANGED <<job, shown, inbox>>
  BY <1>2 DEF InitialCharge, Respond, Goto, Spawn
<1>9. TypeOK'
  <2>1. reply' \in [Requests -> Reply]
    BY <1>8, RepliedIsReply DEF SubmitInv, TypeOK
  <2>2. s \in Sms
    BY <1>6, <1>7 DEF Sms
  <2>3. outbox' \cup inbox' \subseteq Sms
    BY <1>8, <2>2 DEF SubmitInv, TypeOK
  <2>4. posted' \in [Requests -> Nat]
    BY <1>6, <1>8 DEF SubmitInv, TypeOK
  <2>5. QED
    BY <1>5, <1>8, <2>1, <2>3, <2>4 DEF SubmitInv, TypeOK, LedgerInv
<1>10. ASSUME NEW t, t = s PROVE MessageTold(t)'
  <2>1. /\ t.member = m /\ t.row = NextRow(m) /\ t.amount = amount
        /\ t.balance = members[m].balance + amount /\ t.template = "first"
    BY <1>7, <1>10
  <2>2. t.balance = transactions'[t.member][t.row].balanceAfter
    BY <1>6, <2>1
  <2>3. Told(t.member, t.row, TypeOf(t.template), t.amount)'
    BY <1>6, <2>1 DEF Told, TypeOf
  <2>4. Held(t.member, t.row, t.balance)'
    BY <1>6, <2>1, <2>2 DEF Held
  <2>5. QED
    BY <2>2, <2>3, <2>4 DEF MessageTold
<1>11. AtWork(r)' /\ AnswerTold(r)'
  BY <1>8 DEF AtWork, AnswerTold, Replied, SubmitInv, TypeOK
<1>12. \A q \in Requests \ {r} :
         /\ pc'[q] = pc[q] /\ job'[q] = job[q] /\ posted'[q] = posted[q]
         /\ shown'[q] = shown[q] /\ reply'[q] = reply[q]
  BY <1>8 DEF SubmitInv, TypeOK
<1>13. \A t \in outbox' \cup inbox' : t \in outbox \cup inbox \/ MessageTold(t)'
  <2>1. ASSUME NEW t \in outbox' \cup inbox', t \notin outbox \cup inbox PROVE MessageTold(t)'
    BY <1>8, <1>10, <2>1
  <2>2. QED
    BY <2>1
<1>14. QED
  BY <1>4, <1>9, <1>11, <1>12, <1>13, StepOfRequest

\* Goroutines, other requests, the debug endpoints, the process that ends, and
\* a step of nobody here.
LEMMA OthersKeep ==
  ASSUME SubmitInv,
         \/ \E s \in outbox : SmsSent(s) \/ SmsFails(s)
         \/ \E m \in MemberIDs :
              \/ OtherRequest(m)
              \/ \E op \in {"charge", "deduct"}, amount \in Amounts : DebugWalletOp(m, op, amount)
         \/ Crash
         \/ UNCHANGED vars
  PROVE  SubmitInv'
<1>1. [LedgerNext]_ledgerVars
  BY SubmitRefines DEF Next
<1>2. LedgerInv'
  BY <1>1, LedgerNextInv DEF SubmitInv
<1>3. /\ UNCHANGED <<job, posted, shown, reply>>
      /\ pc' = pc \/ pc' = [r \in Requests |-> "idle"]
      /\ outbox' \cup inbox' \subseteq outbox \cup inbox
  BY DEF SmsSent, SmsFails, OtherRequest, DebugWalletOp, Crash, vars, submitVars
<1>4. TypeOK'
  BY <1>2, <1>3 DEF SubmitInv, TypeOK, LedgerInv
<1>5. QED
  BY <1>1, <1>3, <1>4, StepOfOthers

-----------------------------------------------------------------------------
(* The theorems.                                                           *)

\* Nothing is told at first.
LEMMA SubmitInitInv == Init => SubmitInv
<1> SUFFICES ASSUME Init PROVE SubmitInv
  OBVIOUS
<1>1. LedgerInv
  BY LedgerInitInv DEF Init
<1>2. TypeOK
  BY <1>1, RepliedIsReply, LedgerAssumption DEF Init, TypeOK, LedgerInv
<1>3. \A r \in Requests : AtWork(r) /\ AnswerTold(r)
  BY DEF Init, AtWork, AnswerTold, Replied
<1>4. QED
  BY <1>1, <1>2, <1>3 DEF Init, SubmitInv

LEMMA SubmitNextInv ==
  ASSUME SubmitInv, [Next]_vars
  PROVE  SubmitInv'
BY SubmitKeeps, MutateKeeps, GetKeeps, ListKeeps, CreateKeeps, InitialChargeKeeps,
   FailsKeeps, OthersKeep DEF Next

\* SubmitInv holds: rows, answers and messages stay in step, for any number of
\* requests.
THEOREM SubmitInvariant == Spec => []SubmitInv
<1>1. Init => SubmitInv
  BY SubmitInitInv
<1>2. SubmitInv /\ [Next]_vars => SubmitInv'
  BY SubmitNextInv
<1>3. QED
  BY <1>1, <1>2, PTL DEF Spec

\* The handlers implement the ledger: they post, register and remove only as
\* WalletLedger allows (wallet.go:122-128, members.go:100-121).
THEOREM SubmitImplementsLedger == Spec => LedgerSpec
<1>1. Init => LedgerInit
  BY DEF Init
<1>2. SubmitInv /\ [Next]_vars => [LedgerNext]_ledgerVars
  BY SubmitRefines
<1>3. QED
  BY <1>1, <1>2, SubmitInvariant, PTL DEF Spec, LedgerSpec

\* Messages quote rows that are there, and numbers stay in their ranges.
THEOREM SubmitTypes == Spec => []TypeOK
<1>1. SubmitInv => TypeOK
  BY DEF SubmitInv
<1>2. QED
  BY <1>1, SubmitInvariant, PTL

\* A customer is only ever told of what was committed ...
THEOREM SubmitAnnouncedWasPosted == Spec => []AnnouncedWasPosted
<1>1. SubmitInv => AnnouncedWasPosted
  BY DEF SubmitInv, MessageTold, Told, Held, TypeOf, AnnouncedWasPosted
<1>2. QED
  BY <1>1, SubmitInvariant, PTL

\* ... and the message for a first charge quotes the balance right after it.
THEOREM SubmitFirstQuotesOwnRow == Spec => []FirstQuotesOwnRow
<1>1. SubmitInv => FirstQuotesOwnRow
  BY DEF SubmitInv, MessageTold, Told, TypeOf, FirstQuotesOwnRow
<1>2. QED
  BY <1>1, SubmitInvariant, PTL

\* An answer of 200 or 400 tells the operator what was committed ...
THEOREM SubmitReplyTellsOutcome == Spec => []ReplyTellsOutcome
<1>1. SubmitInv => ReplyTellsOutcome
  BY DEF SubmitInv, AnswerTold, ReplyTellsOutcome
<1>2. QED
  BY <1>1, SubmitInvariant, PTL

\* ... and the page of a posting lists it.
THEOREM SubmitPageShowsOwnRow == Spec => []PageShowsOwnRow
<1>1. SubmitInv => PageShowsOwnRow
  BY DEF SubmitInv, AnswerTold, PageShowsOwnRow
<1>2. QED
  BY <1>1, SubmitInvariant, PTL
=============================================================================
