------------------------------- MODULE Reports -------------------------------
(***************************************************************************)
(* The figures an administrator reads: the dashboard (Stats.Dashboard) and *)
(* the transactions page (ListInPeriod, then SumsInPeriod).  Each is       *)
(* several queries, none of them in a transaction, while members come and  *)
(* go, amounts are posted and the clock runs on or is set back.            *)
(*                                                                         *)
(* A search text q stands for the set of members whose name or number      *)
(* contains it.  With ENCRYPTION_KEY the columns hold ciphertext, and      *)
(* resolveQ turns q into a list of ids before the query is built: those    *)
(* among the newest SearchLimit members.  The list shows the newest        *)
(* ListLimit rows; the totals have no limit.                               *)
(* is_active plays no part in these sums, and stays TRUE here.             *)
(*                                                                         *)
(* A moment is a time of the UTC clock, counted from the start of 2020,    *)
(* where "all" begins.                                                     *)
(***************************************************************************)
EXTENDS WalletLedger, FiniteSetsExt, SequencesExt

CONSTANTS Requests,     \* page requests in progress
          Moments,      \* times the clock can show
          DayLength,    \* moments of a day
          Minute,       \* moments of a minute: how far a period reaches ahead
          ListLimit,    \* LIMIT 500 of ListInPeriod
          SearchLimit,  \* LIMIT 500 of ListAllMembers
          MaxRows,      \* bound: ledger rows altogether
          NoQuery,      \* the search field is empty
          NoFilter      \* a request slot that was never used

Types == {"charge", "deduct"}

\* Queries of the two pages.  "week" and "month" differ from "today" in when
\* they start only.
Filter == [page : {"dashboard"}, period : {"today", "all"}, type : {""}, q : {NoQuery}]
            \cup [page : {"transactions"}, period : {"today", "all"},
                  type : Types \cup {""}, q : {NoQuery} \cup SUBSET MemberIDs]

ASSUME ReportsAssumption ==
  /\ NoFilter \notin Filter
  /\ \A q \in SUBSET MemberIDs : q # NoQuery
  /\ Moments \subseteq Nat
  /\ {DayLength, Minute, ListLimit, SearchLimit} \subseteq Nat \ {0}

VARIABLES createdAt,  \* createdAt[m][i]: created_at of the i-th row of m
          newest,     \* the members, ORDER BY created_at DESC
          now,        \* what the clock shows
          withKey,    \* ENCRYPTION_KEY is set
          pc,         \* pc[r]: the query r runs next
          filter,     \* filter[r]: what r asks for
          range,      \* range[r]: the period, of the last Range
          scope,      \* scope[r]: the members the WHERE clause lets through
          listed,     \* listed[r]: the rows of the list
          sums        \* sums[r]: the two totals

\* History variables, which no action of the program reads.
VARIABLES events,     \* events[r]: what has happened since r arrived
          listRange,  \* listRange[r]: the period the list was read for
          since       \* since[r]: the rows posted since it was read

tableVars == <<ledgerVars, createdAt, newest, now, withKey>>
pageVars == <<pc, filter, range, scope, listed, sums>>
historyVars == <<events, listRange, since>>
vars == <<tableVars, pageVars, historyVars>>

NoSums == [type \in Types |-> 0]
NoRange == [from |-> 0, to |-> 0]

Init ==
  /\ LedgerInit
  /\ createdAt = [m \in MemberIDs |-> <<>>]
  /\ newest = <<>>
  /\ now \in Moments
  /\ withKey \in BOOLEAN
  /\ pc = [r \in Requests |-> "idle"]
  /\ filter = [r \in Requests |-> NoFilter]
  /\ range = [r \in Requests |-> NoRange]
  /\ scope = [r \in Requests |-> {}]
  /\ listed = [r \in Requests |-> {}]
  /\ sums = [r \in Requests |-> NoSums]
  /\ events = [r \in Requests |-> {}]
  /\ listRange = [r \in Requests |-> NoRange]
  /\ since = [r \in Requests |-> {}]

-----------------------------------------------------------------------------
(* Queries.                                                                *)

\* Period.Range: up to a minute from now.
PeriodRange(period) ==
  [from |-> IF period = "all" THEN 0 ELSE now - (now % DayLength), to |-> now + Minute]

Within(row, period) == period.from <= row.createdAt /\ row.createdAt < period.to

RowsOf(m) ==
  {[member |-> m, row |-> i, type |-> transactions[m][i].type,
    amount |-> transactions[m][i].amount, createdAt |-> createdAt[m][i]] :
     i \in DOMAIN transactions[m]}

\* The rows of members in who, of a period.
RowsIn(period, who) == {row \in UNION {RowsOf(m) : m \in who} : Within(row, period)}

OfType(rows, type) == {row \in rows : row.type = type}

\* The type chip of the page; "" is both.
OfFilter(rows, type) == IF type = "" THEN rows ELSE OfType(rows, type)

\* Mutant of Total: SUM of no rows is NULL.
TotalOrNull(rows) ==
  IF rows = {} THEN NoRow ELSE MapThenSumSet(LAMBDA row : row.amount, rows)

\* COALESCE(SUM(amount), 0).
Total(rows) == MapThenSumSet(LAMBDA row : row.amount, rows)

\* ORDER BY created_at DESC LIMIT: few is what it keeps of rows.  Rows of the
\* same moment may come in any order.
FirstByDate(rows, few) ==
  /\ few \subseteq rows
  /\ few = rows \/ Cardinality(few) = ListLimit
  /\ Cardinality(few) <= ListLimit
  /\ \A row \in few, other \in rows \ few : other.createdAt <= row.createdAt

\* With a key: the members whose decrypted name or number contains q, among
\* those ListAllMembers returns.
Found(q) == {m \in q : \E i \in DOMAIN newest : i <= SearchLimit /\ newest[i] = m}

\* resolveQ with a key.  No id leaves no condition: whereClause asks for
\* len(memberIDs) > 0, and Q is empty by then.
Resolved(q) == IF Found(q) = {} THEN MemberIDs ELSE Found(q)

\* Mutant of ListScope: q is matched against the stored texts, key or not.
ListScopeUnresolved(q) ==
  IF q = NoQuery THEN MemberIDs ELSE IF withKey THEN {} ELSE q

\* The members ListInPeriod lets through; without a key, LIKE does it.
ListScope(q) ==
  IF q = NoQuery THEN MemberIDs ELSE IF withKey THEN Resolved(q) ELSE q

\* Mutant of SumScope: SumsInPeriod does not resolve q.
SumScopeUnresolved(q) == MemberIDs

\* The members SumsInPeriod lets through: it keeps the ids, and drops q.
SumScope(q) ==
  IF q # NoQuery /\ withKey THEN Resolved(q) ELSE MemberIDs

\* Mutant of SumOrder: charges first.
ChargesFirst == <<"charge", "deduct">>

\* The order in which the two totals are queried, on both pages.
SumOrder == <<"deduct", "charge">>

-----------------------------------------------------------------------------
(* The tables change.                                                      *)

\* Every request in progress notes that a member came; a request that has its
\* list notes the rows that are new; one that may have lost rows notes just that.
NoteCreate ==
  /\ events' = [r \in Requests |->
                  IF pc[r] = "idle" THEN {} ELSE events[r] \cup {"create"}]
  /\ UNCHANGED <<listRange, since>>
NoteRows(rows) ==
  /\ since' = [r \in Requests |->
                  IF pc[r] \in {"listDone", "firstSum", "secondSum"}
                  THEN since[r] \cup rows ELSE since[r]]
  /\ UNCHANGED <<events, listRange>>
NoteDelete ==
  /\ events' = [r \in Requests |-> IF pc[r] = "idle" THEN {} ELSE {"delete"}]
  /\ listRange' = [r \in Requests |-> NoRange]
  /\ since' = [r \in Requests |-> {}]

\* The clock may have been set, so a new member can come anywhere in the order.
Create(m) ==
  /\ Register(m)
  /\ \E i \in 1..Len(newest) + 1 : newest' = InsertAt(newest, i, m)
  /\ NoteCreate
  /\ UNCHANGED <<createdAt, now, withKey, pageVars>>

\* Charge and Deduct.
ChargeOrDeduct(m, type, amount) ==
  /\ Cardinality(UNION {RowsOf(k) : k \in MemberIDs}) < MaxRows
  /\ Post(m, type, amount)
  /\ createdAt' = [createdAt EXCEPT ![m] = Append(@, now)]
  /\ NoteRows(RowsOf(m)' \ RowsOf(m))
  /\ UNCHANGED <<newest, now, withKey, pageVars>>

Delete(m) ==
  /\ RemoveMember(m)
  /\ createdAt' = [createdAt EXCEPT ![m] = <<>>]
  /\ \E i \in DOMAIN newest : newest[i] = m /\ newest' = RemoveAt(newest, i)
  /\ NoteDelete
  /\ UNCHANGED <<now, withKey, pageVars>>

\* Time passes, or the clock of the machine is set, forward or back.
ClockChanges ==
  /\ now' \in Moments
  /\ UNCHANGED <<ledgerVars, createdAt, newest, withKey, pageVars, historyVars>>

-----------------------------------------------------------------------------
(* The pages.                                                              *)

Goto(r, label) == pc' = [pc EXCEPT ![r] = label]

\* A request arrives; Dashboard computes its range here, once.
Arrive(r, f) ==
  /\ pc[r] = "idle"
  /\ Goto(r, IF f.page = "dashboard" THEN "firstSum" ELSE "resolveList")
  /\ filter' = [filter EXCEPT ![r] = f]
  /\ range' = [range EXCEPT ![r] = PeriodRange(f.period)]
  /\ scope' = [scope EXCEPT ![r] = MemberIDs]
  /\ UNCHANGED <<tableVars, listed, sums, historyVars>>

\* resolveQ of ListInPeriod, and whereClause with the range of that moment.  An
\* error of ListAllMembers is ignored: q is compared with ciphertext.
ResolveList(r) ==
  /\ pc[r] = "resolveList"
  /\ range' = [range EXCEPT ![r] = PeriodRange(filter[r].period)]
  /\ Goto(r, "list")
  /\ \/ scope' = [scope EXCEPT ![r] = ListScope(filter[r].q)] /\ UNCHANGED events
     \/ /\ withKey /\ filter[r].q # NoQuery
        /\ \E who \in SUBSET MemberIDs : scope' = [scope EXCEPT ![r] = who]
        /\ events' = [events EXCEPT ![r] = @ \cup {"failure"}]
  /\ UNCHANGED <<tableVars, filter, listed, sums, listRange, since>>

\* SELECT, and ListInPeriod returns, its locals with it; the partial page is done
\* now (HX-Trigger-Name is q).
List(r) ==
  LET rows == OfFilter(RowsIn(range[r], scope[r]), filter[r].type)
  IN  /\ pc[r] = "list"
      /\ \E few \in SUBSET rows :
           /\ FirstByDate(rows, few)
           /\ listed' = [listed EXCEPT ![r] = few]
      /\ listRange' = [listRange EXCEPT ![r] = range[r]]
      /\ since' = [since EXCEPT ![r] = {}]
      /\ range' = [range EXCEPT ![r] = NoRange]
      /\ scope' = [scope EXCEPT ![r] = {}]
      /\ Goto(r, "listDone")
      /\ UNCHANGED <<tableVars, filter, sums, events>>

\* resolveQ and whereClause of SumsInPeriod, once for both sums.
ResolveSums(r) ==
  /\ pc[r] = "listDone"
  /\ range' = [range EXCEPT ![r] = PeriodRange(filter[r].period)]
  /\ Goto(r, "firstSum")
  /\ \/ scope' = [scope EXCEPT ![r] = SumScope(filter[r].q)] /\ UNCHANGED events
     \/ /\ withKey /\ filter[r].q # NoQuery
        /\ scope' = [scope EXCEPT ![r] = MemberIDs]
        /\ events' = [events EXCEPT ![r] = @ \cup {"failure"}]
  /\ UNCHANGED <<tableVars, filter, listed, sums, listRange, since>>

\* One of the two SELECT COALESCE(SUM(amount), 0).
QuerySum(r, label, type, next) ==
  /\ pc[r] = label
  /\ sums' = [sums EXCEPT ![r][type] = Total(OfType(RowsIn(range[r], scope[r]), type))]
  /\ Goto(r, next)
  /\ UNCHANGED <<tableVars, filter, range, scope, listed, historyVars>>

FirstSum(r) == QuerySum(r, "firstSum", SumOrder[1], "secondSum")
SecondSum(r) == QuerySum(r, "secondSum", SumOrder[2], "done")

\* A sum fails: the dashboard answers 500; the transactions page ignores the
\* error and shows zeros.
SumFails(r) ==
  /\ pc[r] \in {"firstSum", "secondSum"}
  /\ Goto(r, IF filter[r].page = "dashboard" THEN "failed" ELSE "done")
  /\ sums' = [sums EXCEPT ![r] = NoSums]
  /\ events' = [events EXCEPT ![r] = @ \cup {"failure"}]
  /\ UNCHANGED <<tableVars, filter, range, scope, listed, listRange, since>>

\* The page is rendered, whole or, after the list, its partial; or a query
\* fails whose error is a 500.  The slot is free again.
Leave(r) ==
  /\ pc[r] \in {"list", "listDone", "done", "failed"}
  /\ Goto(r, "idle")
  /\ filter' = [filter EXCEPT ![r] = NoFilter]
  /\ range' = [range EXCEPT ![r] = NoRange]
  /\ scope' = [scope EXCEPT ![r] = {}]
  /\ listed' = [listed EXCEPT ![r] = {}]
  /\ sums' = [sums EXCEPT ![r] = NoSums]
  /\ events' = [events EXCEPT ![r] = {}]
  /\ listRange' = [listRange EXCEPT ![r] = NoRange]
  /\ since' = [since EXCEPT ![r] = {}]
  /\ UNCHANGED tableVars

Next ==
  \/ \E m \in MemberIDs :
       \/ Create(m)
       \/ \E type \in Types, amount \in Amounts : ChargeOrDeduct(m, type, amount)
       \/ Delete(m)
  \/ ClockChanges
  \/ \E r \in Requests :
       \/ \E f \in Filter : Arrive(r, f)
       \/ ResolveList(r) \/ List(r)
       \/ ResolveSums(r) \/ FirstSum(r) \/ SecondSum(r) \/ SumFails(r)
       \/ Leave(r)

Spec == Init /\ [][Next]_vars

-----------------------------------------------------------------------------
(* Properties.                                                             *)

\* Types; every ledger row has its moment.
TypeOK ==
  /\ LedgerTypeOK
  /\ \A m \in MemberIDs : DOMAIN createdAt[m] = DOMAIN transactions[m]
  /\ newest \in Seq(MemberIDs)
  /\ now \in Moments
  /\ filter \in [Requests -> Filter \cup {NoFilter}]
  /\ \A r \in Requests : (filter[r] = NoFilter) <=> (pc[r] = "idle")
  /\ range \in [Requests -> [from : Int, to : Int]]
  /\ scope \in [Requests -> SUBSET MemberIDs]
  /\ sums \in [Requests -> [Types -> Nat]]

\* The clock was not set back between two rows of a member.
TimeOrdered ==
  \A m \in MemberIDs : \A i, j \in DOMAIN createdAt[m] :
    i < j => createdAt[m][i] <= createdAt[m][j]

\* No member went, no query failed, and no member came whom a search with the
\* key could find: what r asked for has only grown.
Undisturbed(r) ==
  /\ events[r] \cap {"delete", "failure"} = {}
  /\ withKey /\ filter[r].q # NoQuery => "create" \notin events[r]

\* The list of r is full, and none of its rows is older than this one.
PastLimit(r, row) ==
  /\ Cardinality(listed[r]) = ListLimit
  /\ \A other \in listed[r] : row.createdAt <= other.createdAt

\* Over the whole history, and although the two totals are read at different
\* moments, no page shows more deducted than was ever charged: deductions are
\* summed first (stats.go:36-41, transaction.go:189-194).  A member deleted in
\* between takes charges away, and a clock set back can leave a charge ahead of
\* the period (transaction.go:32), so both are left out.
NeverOverdrawn ==
  TimeOrdered =>
    \A r \in Requests :
      pc[r] = "done" /\ filter[r].period = "all" /\ "delete" \notin events[r] =>
        sums[r]["deduct"] <= sums[r]["charge"]

\* The list and the totals above it are built by different code at different
\* moments.  Whatever is posted in between, and wherever the clock goes, every
\* row listed is counted if the period of the totals still holds it; and a row
\* that is counted is listed, unless it is older than a list that is full, was
\* posted after the list was read, or was outside of the period of the list.
\* (Without a key the totals ignore the search.)
TotalsMatchList ==
  \A r \in Requests :
    /\ pc[r] = "done" /\ filter[r].page = "transactions" /\ Undisturbed(r)
    /\ withKey \/ filter[r].q = NoQuery
    => \A type \in Types :
         filter[r].type \in {"", type} =>
           LET shown == {row \in OfType(listed[r], type) : Within(row, range[r])}
               counted == OfType(RowsIn(range[r], ListScope(filter[r].q)), type)
               explained == {row \in counted : \/ row \in listed[r] \cup since[r]
                                               \/ PastLimit(r, row)
                                               \/ ~Within(row, listRange[r])}
           IN  Total(shown) <= sums[r][type] /\ sums[r][type] <= Total(explained)

\* With or without the key, a search lists the rows of the period that belong to
\* the members it matches, up to the limit the newest of them, and no others; a
\* row posted after the list was read need not be there.  With the key it matches
\* the newest SearchLimit members only (queries/members.sql:28), and lists
\* everybody when it matches none (transaction.go:121).
SearchListsMatches ==
  \A r \in Requests :
    pc[r] = "listDone" /\ filter[r].q # NoQuery /\ Undisturbed(r) =>
      LET matched == IF withKey THEN Found(filter[r].q) ELSE filter[r].q
          rows == OfFilter(RowsIn(listRange[r], matched), filter[r].type)
      IN  /\ \A row \in rows \ (listed[r] \cup since[r]) : PastLimit(r, row)
          /\ \A row \in listed[r] : row.member \in matched \/ (withKey /\ matched = {})

\* transaction.go:142 says ListInPeriod filters by member search: a row of a
\* member that does not match is not listed.
SearchFilters ==
  \A r \in Requests :
    pc[r] = "listDone" /\ filter[r].q # NoQuery /\ Undisturbed(r) =>
      \A row \in listed[r] : row.member \in filter[r].q
=============================================================================
