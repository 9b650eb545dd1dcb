---------------------------- MODULE WalletSubmit ----------------------------
(***************************************************************************)
(* The handlers walletSubmit and NewMemberPost: what the operator is told  *)
(* and what the customer is told (an SMS sent by a goroutine of its own),  *)
(* against what was committed.  A wallet transaction is one step here      *)
(* (WalletTx shows that it is), but a handler runs several of them and     *)
(* reads the tables again in between, while other requests go on.          *)
(***************************************************************************)
EXTENDS WalletLedger, FiniteSets

CONSTANTS Requests,  \* HTTP requests in progress
          ListLimit, \* LIMIT 50 of ListTransactionsByMember
          MaxRows,   \* bound: ledger rows per member
          NoJob      \* a request slot that was never used

\* What a form asks for.  For "register", member is the id NewID returns and
\* amount 0 stands for no initial charge.
Job == [kind : {"charge", "deduct"}, member : MemberIDs, amount : Amounts]
         \cup [kind : {"register"}, member : MemberIDs, amount : Amounts \cup {0}]

\* What the client got: the status, and of a WalletResult page the balance
\* card and the rows listed, by their index in the ledger as it was when the
\* list was read (which is history: no client sees more of it).
Reply == [status : {"none", "ok", "refused", "error", "redirect"},
          balance : 0..MaxInt64, ledger : Seq(TxRow), listed : SUBSET Nat]

\* A message to a customer: about row i of member's ledger.
Sms == [template : {"charge", "deduct", "first"}, member : MemberIDs,
        row : Nat, amount : Amounts, balance : 0..MaxInt64]

ASSUME WalletSubmitAssumption ==
  NoJob \notin Job /\ MaxRows \in Nat /\ ListLimit \in Nat \ {0}

VARIABLES pc,      \* pc[r]: where the handler of r is
          job,     \* job[r]: the form r was sent
          posted,  \* posted[r]: index of the row r has committed, 0 for none
          shown,   \* shown[r]: m.BalanceInt, the balance walletSubmit read again
          reply,   \* reply[r]: what the client got
          outbox,  \* goroutines that are sending a message
          inbox    \* messages customers have received

submitVars == <<pc, job, posted, shown, reply, outbox, inbox>>
vars == <<ledgerVars, submitVars>>

Replied(status) == [status |-> status, balance |-> 0, ledger |-> <<>>, listed |-> {}]

Init ==
  /\ LedgerInit
  /\ pc = [r \in Requests |-> "idle"]
  /\ job = [r \in Requests |-> NoJob]
  /\ posted = [r \in Requests |-> 0]
  /\ shown = [r \in Requests |-> 0]
  /\ reply = [r \in Requests |-> Replied("none")]
  /\ outbox = {}
  /\ inbox = {}

Goto(r, label) == pc' = [pc EXCEPT ![r] = label]

Respond(r, answer) ==
  /\ Goto(r, "idle")
  /\ reply' = [reply EXCEPT ![r] = answer]

\* go func() { ... h.SMS.Send(...) }
Spawn(message) == outbox' = outbox \cup {message}

\* The index of the row a posting to m is about to add.
NextRow(m) == Len(transactions[m]) + 1

-----------------------------------------------------------------------------
(* walletSubmit: Charge or Deduct, then Get, then ListByMember.            *)

\* ParseInt has accepted the amount: amt > 0.
Submit(r, j) ==
  /\ pc[r] = "idle"
  /\ Len(transactions[j.member]) < MaxRows
  /\ Goto(r, IF j.kind = "register" THEN "create" ELSE "mutate")
  /\ job' = [job EXCEPT ![r] = j]
  /\ posted' = [posted EXCEPT ![r] = 0]
  /\ shown' = [shown EXCEPT ![r] = 0]
  /\ reply' = [reply EXCEPT ![r] = Replied("none")]
  /\ UNCHANGED <<ledgerVars, outbox, inbox>>

\* Charge or Deduct has returned nil: its transaction is committed.
Mutate(r) ==
  LET j == job[r]
  IN  /\ pc[r] = "mutate"
      /\ NextRow(j.member) <= MaxRows
      /\ Post(j.member, j.kind, j.amount)
      /\ posted' = [posted EXCEPT ![r] = NextRow(j.member)]
      /\ Goto(r, "get")
      /\ UNCHANGED <<job, shown, reply, outbox, inbox>>

\* Mutant of MutateFails: the error is dropped.
MutateFailsUnnoticed(r) ==
  /\ pc[r] = "mutate"
  /\ Goto(r, "get")
  /\ UNCHANGED <<ledgerVars, job, posted, shown, reply, outbox, inbox>>

\* Charge or Deduct has returned an error, of whatever kind: 400, and the
\* tables are as they were.
MutateFails(r) ==
  /\ pc[r] = "mutate"
  /\ Respond(r, Replied("refused"))
  /\ UNCHANGED <<ledgerVars, job, posted, shown, outbox, inbox>>

\* Member.Get, after the commit: it may read what others have written since.
Get(r) ==
  LET row == members[job[r].member]
  IN  /\ pc[r] = "get"
      /\ row # NoRow
      /\ shown' = [shown EXCEPT ![r] = row.balance]
      /\ Goto(r, "list")
      /\ UNCHANGED <<ledgerVars, job, posted, reply, outbox, inbox>>

\* Mutant of GetFails: it answers 400, like a refusal.
GetFailsAsRefusal(r) ==
  /\ pc[r] = "get"
  /\ Respond(r, Replied("refused"))
  /\ UNCHANGED <<ledgerVars, job, posted, shown, outbox, inbox>>

\* Member.Get fails (the member is gone, or the client is and the context is
\* cancelled): 500, although the wallet operation is committed.
GetFails(r) ==
  /\ pc[r] = "get"
  /\ Respond(r, Replied("error"))
  /\ UNCHANGED <<ledgerVars, job, posted, shown, outbox, inbox>>

\* The message walletSubmit sends: the balance is the one Get has read.
SubmitMessage(r) ==
  [template |-> job[r].kind, member |-> job[r].member, row |-> posted[r],
   amount |-> job[r].amount, balance |-> shown[r]]

\* Mutant of Listings: a full list is one row short.
ListingsOneShort(rows) ==
  {few \in SUBSET DOMAIN rows :
     /\ Cardinality(few) < ListLimit
     /\ few = DOMAIN rows \/ Cardinality(few) = ListLimit - 1}

\* ORDER BY created_at DESC LIMIT 50: the rows a list may show.  created_at has no
\* part here, and the clock may have been set back between two rows: any
\* ListLimit of them may be the newest.
Listings(rows) ==
  {few \in SUBSET DOMAIN rows :
     /\ Cardinality(few) <= ListLimit
     /\ few = DOMAIN rows \/ Cardinality(few) = ListLimit}

\* The balance card shows what Get has read, the list what is there now.
ResultPage(r, rows, few) ==
  [status |-> "ok", balance |-> shown[r], ledger |-> rows, listed |-> few]

\* ListByMember; its error is ignored, and leaves the list empty.
List(r) ==
  /\ pc[r] = "list"
  /\ \E rows \in {transactions[job[r].member], <<>>} : \E few \in Listings(rows) :
       Respond(r, ResultPage(r, rows, few))
  /\ Spawn(SubmitMessage(r))
  /\ UNCHANGED <<ledgerVars, job, posted, shown, inbox>>

-----------------------------------------------------------------------------
(* NewMemberPost: Create, then Charge.                                     *)

\* Create has inserted the member.
Create(r) ==
  LET j == job[r]
  IN  /\ pc[r] = "create"
      /\ Register(j.member)
      /\ IF j.amount > 0
         THEN Goto(r, "initialCharge") /\ UNCHANGED reply
         ELSE Respond(r, Replied("redirect"))
      /\ UNCHANGED <<job, posted, shown, outbox, inbox>>

\* Duplicate phone or card, or any other error: the form again, with 422.
CreateFails(r) ==
  /\ pc[r] = "create"
  /\ Respond(r, Replied("refused"))
  /\ UNCHANGED <<ledgerVars, job, posted, shown, outbox, inbox>>

\* Mutants of FirstMessage: the amount is added once more; the balance is that
\* of the row Create returned.
FirstMessageAddsAgain(r, balance) ==
  [template |-> "first", member |-> job[r].member, row |-> NextRow(job[r].member),
   amount |-> job[r].amount, balance |-> balance + job[r].amount]
FirstMessageOfCreated(r, balance) ==
  [template |-> "first", member |-> job[r].member, row |-> NextRow(job[r].member),
   amount |-> job[r].amount, balance |-> 0]

\* The message NewMemberPost sends: the balance is the one Charge returned.
FirstMessage(r, balance) ==
  [template |-> "first", member |-> job[r].member, row |-> NextRow(job[r].member),
   amount |-> job[r].amount, balance |-> balance]

\* Charge has returned nil.
InitialCharge(r) ==
  LET j == job[r]
  IN  /\ pc[r] = "initialCharge"
      /\ NextRow(j.member) <= MaxRows
      /\ Post(j.member, "charge", j.amount)
      /\ posted' = [posted EXCEPT ![r] = NextRow(j.member)]
      /\ Spawn(FirstMessage(r, members[j.member].balance + j.amount))
      /\ Respond(r, Replied("redirect"))
      /\ UNCHANGED <<job, shown, inbox>>

\* Charge has returned an error: it is logged, and the answer is the same.
InitialChargeFails(r) ==
  /\ pc[r] = "initialCharge"
  /\ Respond(r, Replied("redirect"))
  /\ UNCHANGED <<ledgerVars, job, posted, shown, outbox, inbox>>

-----------------------------------------------------------------------------
(* Goroutines, other requests, and the server stopping.                    *)

\* Aligo accepts the message; goroutines finish in any order.
SmsSent(s) ==
  /\ s \in outbox
  /\ outbox' = outbox \ {s}
  /\ inbox' = inbox \cup {s}
  /\ UNCHANGED <<ledgerVars, pc, job, posted, shown, reply>>

\* Timeout or an error of the API: logged, never tried again.
SmsFails(s) ==
  /\ s \in outbox
  /\ outbox' = outbox \ {s}
  /\ UNCHANGED <<ledgerVars, pc, job, posted, shown, reply, inbox>>

\* Requests of other handlers: block, unblock or delete a member.
OtherRequest(m) ==
  /\ \/ \E isActive \in BOOLEAN : SetActive(m, isActive)
     \/ RemoveMember(m)
  /\ UNCHANGED submitVars

\* walletOp of the debug endpoints (not in production): Charge or Deduct, an
\* answer in JSON from what it returned, and no message.
DebugWalletOp(m, op, amount) ==
  /\ NextRow(m) <= MaxRows
  /\ Post(m, op, amount)
  /\ UNCHANGED submitVars

\* The process ends; Shutdown waits for handlers at best, never for the
\* goroutines they have started.
Crash ==
  /\ outbox # {} \/ \E r \in Requests : pc[r] # "idle"
  /\ pc' = [r \in Requests |-> "idle"]
  /\ outbox' = {}
  /\ UNCHANGED <<ledgerVars, job, posted, shown, reply, inbox>>

Next ==
  \/ \E r \in Requests :
       \/ \E j \in Job : Submit(r, j)
       \/ Mutate(r) \/ MutateFails(r)
       \/ Get(r) \/ GetFails(r)
       \/ List(r)
       \/ Create(r) \/ CreateFails(r)
       \/ InitialCharge(r) \/ InitialChargeFails(r)
  \/ \E s \in outbox : SmsSent(s) \/ SmsFails(s)
  \/ \E m \in MemberIDs :
       \/ OtherRequest(m)
       \/ \E op \in {"charge", "deduct"}, amount \in Amounts : DebugWalletOp(m, op, amount)
  \/ Crash

Spec == Init /\ [][Next]_vars

-----------------------------------------------------------------------------
(* Properties.                                                             *)

TypeOK ==
  /\ LedgerTypeOK
  /\ pc \in [Requests -> {"idle", "mutate", "get", "list", "create", "initialCharge"}]
  /\ job \in [Requests -> Job \cup {NoJob}]
  /\ \A r \in Requests : pc[r] # "idle" => job[r] # NoJob
  /\ posted \in [Requests -> Nat]
  /\ shown \in [Requests -> 0..MaxInt64]
  /\ reply \in [Requests -> Reply]
  /\ outbox \cup inbox \subseteq Sms

\* Whatever the interleaving, a customer is only told of an amount that was
\* committed, under the right sign, and of a balance that the ledger has held
\* since: never one from before the operation, never one that was computed
\* but not committed (wallet.go:144-161 runs after the reads of 136-142).
AnnouncedWasPosted ==
  \A s \in outbox \cup inbox :
    members[s.member] # NoRow =>
      /\ s.row \in DOMAIN transactions[s.member]
      /\ transactions[s.member][s.row].amount = s.amount
      /\ transactions[s.member][s.row].type =
           (IF s.template = "deduct" THEN "deduct" ELSE "charge")
      /\ \E i \in s.row..Len(transactions[s.member]) :
           s.balance = transactions[s.member][i].balanceAfter

\* The welcome message quotes the balance its own charge led to, even when
\* the new member is charged or deducted elsewhere at the same time.
FirstQuotesOwnRow ==
  \A s \in outbox \cup inbox :
    s.template = "first" /\ members[s.member] # NoRow =>
      s.balance = transactions[s.member][s.row].balanceAfter

\* The operator can trust 200 and 400: a result page means that the amount is
\* committed, a refusal that nothing is, so that trying again is safe.
ReplyTellsOutcome ==
  \A r \in Requests :
    /\ reply[r].status = "ok" => posted[r] > 0
    /\ reply[r].status = "refused" => posted[r] = 0

\* A result page that lists rows lists the one just posted, unless the list is
\* full; and its balance card, although read apart, is never behind that row nor
\* ahead of the ledger the list was read from.
PageShowsOwnRow ==
  \A r \in Requests :
    reply[r].status = "ok" /\ reply[r].listed # {} =>
      LET ledger == reply[r].ledger
      IN  /\ posted[r] \in DOMAIN ledger
          /\ ledger[posted[r]].amount = job[r].amount
          /\ \E i \in posted[r]..Len(ledger) : reply[r].balance = ledger[i].balanceAfter
          /\ posted[r] \in reply[r].listed \/ Cardinality(reply[r].listed) = ListLimit

\* README.md:73 says the customer gets a message on every charge and deduct:
\* when the client has its answer, the goroutine has been started.
EveryPostingAnnounced ==
  [][\A r \in Requests :
       reply[r].status = "none" /\ reply'[r].status # "none" /\ posted'[r] > 0 =>
         \E s \in outbox' : s.member = job[r].member /\ s.row = posted'[r]]_vars
=============================================================================
