------------------------ MODULE MemberCardsTheorems ------------------------
(***************************************************************************)
(* Members, cards and the customer page, for any number of each and of     *)
(* requests that are computed at the same time.                            *)
(*                                                                         *)
(* The tables are those of the ledger, with two UNIQUE columns.  While a   *)
(* page is computed, the state its card has now is among those seen; a     *)
(* request that goes on to the ledger has seen the card active, and one    *)
(* that goes on to the blocked members has seen it otherwise.              *)
(***************************************************************************)
EXTENDS MemberCards, WalletLedgerTheorems

\* Phone and card of the members there are.
ColumnsOK ==
  /\ phone \in [MemberIDs -> Numbers \cup {NoRow}]
  /\ card \in [MemberIDs -> Cards \cup {NoCard}]
  /\ \A m \in MemberIDs : (phone[m] = NoRow) <=> (members[m] = NoRow)
  /\ \A m \in MemberIDs : card[m] # NoCard => members[m] # NoRow

\* No text of these columns belongs to two members.
UniqueOK ==
  \A m, k \in MemberIDs :
    m # k =>
      /\ card[m] = card[k] => card[m] = NoCard
      /\ phone[m] = phone[k] => phone[m] = NoRow

\* Of two members one is older.
OrderOK ==
  /\ older \in [MemberIDs -> SUBSET issuedIDs]
  /\ \A m, k \in Present : m \in older[k] \/ k \in older[m] \/ m = k

RequestTypes ==
  /\ pc \in [Requests -> {"idle", "getByCard", "findInactive", "listTxs"}]
  /\ page \in [Requests -> Pages]
  /\ uuid \in [Requests -> Cards \cup {NoCard}]
  /\ found \in [Requests -> [member : MemberIDs, balance : 0..MaxInt64] \cup {NoRow}]
  /\ seen \in [Requests -> SUBSET {"none", "active", "lost", "beyond", "failure"}]

\* What page request r has seen of its card.
PageOK(r) ==
  /\ pc[r] # "idle" =>
       uuid[r] \in Cards /\ page[r] = "none" /\ CardState(uuid[r]) \in seen[r]
  /\ pc[r] = "listTxs" => found[r] # NoRow /\ "active" \in seen[r]
  /\ pc[r] = "findInactive" => seen[r] # {"active"}
  /\ page[r] \in BalancePages => "active" \in seen[r]
  /\ page[r] \in {"Blocked", "NotFound"} => seen[r] # {"active"}
  /\ page[r] = "NotFound" => seen[r] # {"lost"}

\* The inductive invariant.
TablesInv == LedgerInv /\ ColumnsOK /\ OrderOK /\ UniqueOK
PagesInv == RequestTypes /\ \A r \in Requests : PageOK(r)
CardsInv == TablesInv /\ PagesInv

-----------------------------------------------------------------------------
(* The tables.                                                             *)

\* Every action is a step of the ledger, or leaves it alone.
LEMMA LedgerStep == [Next]_vars => [LedgerNext]_ledgerVars
<1> SUFFICES ASSUME [Next]_vars PROVE [LedgerNext]_ledgerVars
  OBVIOUS
<1>1. ASSUME NEW m \in MemberIDs, NEW number \in Numbers, NEW c \in Cards \cup {NoCard},
             Create(m, number, c)
      PROVE  LedgerNext
  BY <1>1 DEF Create, LedgerNext
<1>2. ASSUME NEW m \in MemberIDs, NEW c \in Cards, CardIssue(m, c)
      PROVE  UNCHANGED ledgerVars
  BY <1>2 DEF CardIssue
<1>3. ASSUME NEW m \in MemberIDs, NEW isActive \in BOOLEAN,
             ReportLostOrReactivate(m, isActive)
      PROVE  LedgerNext
  BY <1>3 DEF ReportLostOrReactivate, LedgerNext
<1>4. ASSUME NEW m \in MemberIDs, Delete(m) PROVE LedgerNext
  BY <1>4 DEF Delete, LedgerNext
<1>5. ASSUME NEW m \in MemberIDs, NEW type \in {"charge", "deduct"},
             NEW amount \in Amounts, ChargeOrDeduct(m, type, amount)
      PROVE  LedgerNext
  BY <1>5 DEF ChargeOrDeduct, LedgerNext
<1>6. ASSUME NEW r \in Requests,
             \/ \E c \in Cards : Tag(r, c)
             \/ GetByCardUUID(r) \/ FindInactive(r) \/ ListTxs(r)
      PROVE  UNCHANGED ledgerVars
  BY <1>6 DEF Tag, GetByCardUUID, FindInactive, ListTxs
<1>7. CASE UNCHANGED vars
  BY <1>7 DEF vars
<1>8. QED
  BY <1>1, <1>2, <1>3, <1>4, <1>5, <1>6, <1>7 DEF Next

LEMMA CreateKeepsTables ==
  ASSUME TablesInv, LedgerInv', NEW m \in MemberIDs, NEW number \in Numbers,
         NEW c \in Cards \cup {NoCard}, Create(m, number, c)
  PROVE  TablesInv'
<1>1. number \in Numbers /\ number # NoRow
  BY MemberCardsAssumption
<1>2. /\ members' = [members EXCEPT ![m] = [balance |-> 0, isActive |-> TRUE]]
      /\ phone' = [phone EXCEPT ![m] = number]
      /\ card' = [card EXCEPT ![m] = c]
      /\ older' = [older EXCEPT ![m] = issuedIDs]
      /\ issuedIDs' = issuedIDs \cup {m}
      /\ m \notin issuedIDs /\ PhoneFree(number, m) /\ CardFree(c, m)
  BY DEF Create, Register
<1>3. members[m] = NoRow
  BY <1>2 DEF TablesInv, LedgerInv, NoOrphanRows
<1>4. [balance |-> 0, isActive |-> TRUE] # NoRow
  <2>1. [balance |-> 0, isActive |-> TRUE] \in MemberRow
    BY LedgerAssumption DEF MemberRow
  <2>2. QED
    BY <2>1, LedgerAssumption
<1>5. \A k \in MemberIDs :
        members'[k] = IF k = m THEN [balance |-> 0, isActive |-> TRUE] ELSE members[k]
  BY <1>2 DEF TablesInv, LedgerInv, LedgerTypeOK
<1>6. \A k \in MemberIDs : /\ phone'[k] = IF k = m THEN number ELSE phone[k]
                           /\ card'[k] = IF k = m THEN c ELSE card[k]
  BY <1>2 DEF TablesInv, ColumnsOK
<1>7. ColumnsOK'
  BY <1>1, <1>2, <1>4, <1>5, <1>6 DEF TablesInv, ColumnsOK
<1>8. Present' = Present \cup {m} /\ m \notin Present
  BY <1>3, <1>4, <1>5 DEF Present
<1>9. OrderOK'
  <2>1. Present \subseteq issuedIDs /\ issuedIDs \subseteq MemberIDs
    BY DEF TablesInv, LedgerInv, LedgerTypeOK, NoOrphanRows, Present
  <2>2. \A k \in MemberIDs : older'[k] = IF k = m THEN issuedIDs ELSE older[k]
    BY <1>2 DEF TablesInv, OrderOK
  <2>3. older' \in [MemberIDs -> SUBSET issuedIDs']
    BY <1>2 DEF TablesInv, OrderOK
  <2>4. \A h, k \in Present' : h \in older'[k] \/ k \in older'[h] \/ h = k
    BY <1>8, <2>1, <2>2 DEF TablesInv, OrderOK, Present
  <2>5. QED
    BY <2>3, <2>4 DEF OrderOK
<1>10. UniqueOK'
  BY <1>2, <1>6 DEF TablesInv, UniqueOK, PhoneFree, CardFree
<1>11. QED
  BY <1>7, <1>9, <1>10 DEF TablesInv

LEMMA IssueKeepsTables ==
  ASSUME TablesInv, LedgerInv', NEW m \in MemberIDs, NEW c \in Cards, CardIssue(m, c)
  PROVE  TablesInv'
<1>1. /\ card' = [card EXCEPT ![m] = c]
      /\ UNCHANGED <<members, issuedIDs, phone, older>>
      /\ members[m] # NoRow /\ CardFree(c, m)
  BY DEF CardIssue, ledgerVars
<1>2. \A k \in MemberIDs : card'[k] = IF k = m THEN c ELSE card[k]
  BY <1>1 DEF TablesInv, ColumnsOK
<1>3. ColumnsOK'
  BY <1>1, <1>2 DEF TablesInv, ColumnsOK
<1>4. OrderOK'
  BY <1>1 DEF TablesInv, OrderOK, Present
<1>5. UniqueOK'
  BY <1>1, <1>2 DEF TablesInv, UniqueOK, CardFree
<1>6. QED
  BY <1>3, <1>4, <1>5 DEF TablesInv

\* A row that is changed is still there.
LEMMA RowsStay ==
  ASSUME TablesInv, LedgerInv', UNCHANGED <<cardVars, issuedIDs>>, Present' = Present
  PROVE  TablesInv'
<1>1. \A m \in MemberIDs : (members'[m] = NoRow) <=> (members[m] = NoRow)
  BY DEF Present
<1>2. UNCHANGED <<phone, card, older>>
  BY DEF cardVars
<1>3. ColumnsOK'
  BY <1>1, <1>2 DEF TablesInv, ColumnsOK
<1>4. OrderOK' /\ UniqueOK'
  BY <1>2 DEF TablesInv, OrderOK, UniqueOK
<1>5. QED
  BY <1>3, <1>4 DEF TablesInv

LEMMA SetActiveKeepsTables ==
  ASSUME TablesInv, LedgerInv', NEW m \in MemberIDs, NEW isActive \in BOOLEAN,
         ReportLostOrReactivate(m, isActive)
  PROVE  TablesInv'
<1>1. members[m] # NoRow /\ members' = [members EXCEPT ![m].isActive = isActive]
  BY DEF ReportLostOrReactivate, SetActive
<1>2. members[m] \in MemberRow
  BY <1>1 DEF TablesInv, LedgerInv, LedgerTypeOK
<1>3. members'[m] # NoRow /\ \A k \in MemberIDs \ {m} : members'[k] = members[k]
  BY <1>1, <1>2, LedgerAssumption DEF MemberRow, TablesInv, LedgerInv, LedgerTypeOK
<1>4. Present' = Present
  BY <1>1, <1>3 DEF Present
<1>5. QED
  BY <1>4, RowsStay DEF ReportLostOrReactivate, SetActive

\* A posting changes the balance and nothing else of the row.
LEMMA PostedRow ==
  ASSUME TablesInv, NEW m \in MemberIDs, NEW type \in {"charge", "deduct"},
         NEW amount \in Amounts, ChargeOrDeduct(m, type, amount)
  PROVE  /\ Present' = Present
         /\ \A k \in Present : members'[k].isActive = members[k].isActive
<1> DEFINE after == Applied(members[m].balance, type, amount)
<1>1. /\ members[m] # NoRow /\ after \in 0..MaxInt64
      /\ members' = [members EXCEPT ![m].balance = after]
  BY DEF ChargeOrDeduct, Post
<1> HIDE DEF after
<1>2. members[m] \in MemberRow
  BY <1>1 DEF TablesInv, LedgerInv, LedgerTypeOK
<1>3. /\ members'[m] # NoRow /\ members'[m].isActive = members[m].isActive
      /\ \A k \in MemberIDs \ {m} : members'[k] = members[k]
  BY <1>1, <1>2, LedgerAssumption DEF MemberRow, TablesInv, LedgerInv, LedgerTypeOK
<1>4. QED
  BY <1>1, <1>3 DEF Present

LEMMA DeleteKeepsTables ==
  ASSUME TablesInv, LedgerInv', NEW m \in MemberIDs, Delete(m)
  PROVE  TablesInv'
<1>1. UNCHANGED <<older, issuedIDs>>
  BY DEF Delete, RemoveMember
<1>2. /\ members' = [members EXCEPT ![m] = NoRow]
      /\ phone' = [phone EXCEPT ![m] = NoRow]
      /\ card' = [card EXCEPT ![m] = NoCard]
  BY DEF Delete, RemoveMember
<1>3. \A k \in MemberIDs : /\ members'[k] = IF k = m THEN NoRow ELSE members[k]
                           /\ phone'[k] = IF k = m THEN NoRow ELSE phone[k]
                           /\ card'[k] = IF k = m THEN NoCard ELSE card[k]
  BY <1>2 DEF TablesInv, LedgerInv, LedgerTypeOK, ColumnsOK
<1>4. ColumnsOK'
  BY <1>2, <1>3 DEF TablesInv, ColumnsOK
<1>5. Present' = Present \ {m}
  BY <1>3 DEF Present
<1>6. OrderOK'
  BY <1>1, <1>5 DEF TablesInv, OrderOK
<1>7. UniqueOK'
  BY <1>3 DEF TablesInv, UniqueOK
<1>8. QED
  BY <1>4, <1>6, <1>7 DEF TablesInv

-----------------------------------------------------------------------------
(* Pages.                                                                  *)

\* The state of a card is told by the one member that holds it.
LEMMA StateOfCard ==
  ASSUME TablesInv, NEW c \in Cards
  PROVE  /\ CardState(c) = "active" <=> ActiveHolders(c) # {}
         /\ CardState(c) = "lost" => FindInactiveByCard(c) # {}
<1> DEFINE holders == {m \in MemberIDs : card[m] = c}
<1>1. c # NoCard
  BY MemberCardsAssumption
<1>2. \A m \in holders : members[m] # NoRow
  BY <1>1 DEF TablesInv, ColumnsOK
<1>3. \A m, k \in holders : m = k
  BY <1>1 DEF TablesInv, UniqueOK
<1>4. ActiveHolders(c) = {m \in holders : members[m].isActive}
  BY <1>2 DEF ActiveHolders
<1>5. CardState(c) = "active" <=> holders # {} /\ \A m \in holders : members[m].isActive
  BY DEF CardState
<1>6. CardState(c) = "lost" => holders # {} /\ holders \subseteq SearchAll
  BY DEF CardState
<1>7. CardState(c) = "lost" => FindInactiveByCard(c) # {}
  BY <1>6 DEF FindInactiveByCard
<1> HIDE DEF holders
<1>8. QED
  BY <1>3, <1>4, <1>5, <1>7

\* A card is in one of these states, and stays in it with the tables.
LEMMA CardStates ==
  ASSUME NEW c
  PROVE  CardState(c) \in {"none", "active", "lost", "beyond"}
BY DEF CardState

LEMMA SameStates ==
  ASSUME UNCHANGED <<ledgerVars, cardVars>>
  PROVE  /\ \A c : CardState(c)' = CardState(c)
         /\ \A r \in Requests : uuid'[r] = uuid[r] =>
              CardState(uuid[r])' = CardState(uuid[r])
<1>1. SearchAll' = SearchAll
  BY DEF ledgerVars, cardVars, SearchAll, Present
<1>2. QED
  BY <1>1 DEF ledgerVars, cardVars, CardState

\* The administrator does something while pages are computed.
LEMMA ObserveKeepsPages ==
  ASSUME PagesInv, TablesInv', Observe, UNCHANGED <<pc, uuid, found, page>>
  PROVE  PagesInv'
<1> DEFINE now(r) == CardState(uuid[r])'
<1>1. /\ pc' = pc /\ uuid' = uuid /\ found' = found /\ page' = page
      /\ seen' = [r \in Requests |-> IF pc[r] = "idle" THEN seen[r]
                                     ELSE seen[r] \cup {now(r)}]
  BY DEF Observe
<1>2. ASSUME NEW r \in Requests, pc[r] # "idle"
      PROVE  /\ uuid'[r] \in Cards /\ now(r) \in {"none", "active", "lost", "beyond"}
  <2>1. uuid[r] \in Cards /\ uuid'[r] \in Cards
    BY <1>1, <1>2 DEF PagesInv, PageOK
  <2>2. now(r) \in {"none", "active", "lost", "beyond"}
    BY DEF CardState
  <2>3. QED
    BY <2>1, <2>2
<1>3. RequestTypes'
  BY <1>1, <1>2 DEF PagesInv, RequestTypes
<1>4. ASSUME NEW r \in Requests PROVE PageOK(r)'
  BY <1>1, <1>2 DEF PagesInv, PageOK
<1>5. QED
  BY <1>3, <1>4 DEF PagesInv

\* Tagging and the queries change nothing but the request itself.
RequestStep(r) ==
  /\ UNCHANGED <<ledgerVars, cardVars>>
  /\ \A q \in Requests \ {r} :
       /\ pc'[q] = pc[q] /\ uuid'[q] = uuid[q] /\ found'[q] = found[q]
       /\ page'[q] = page[q] /\ seen'[q] = seen[q]

LEMMA OneRequest ==
  ASSUME PagesInv, NEW r \in Requests, RequestStep(r), RequestTypes', PageOK(r)'
  PROVE  PagesInv'
<1>1. ASSUME NEW q \in Requests \ {r} PROVE PageOK(q)'
  <2>1. PageOK(q)
    BY DEF PagesInv
  <2>2. /\ pc'[q] = pc[q] /\ uuid'[q] = uuid[q] /\ found'[q] = found[q]
        /\ page'[q] = page[q] /\ seen'[q] = seen[q]
    BY DEF RequestStep
  <2>3. CardState(uuid[q])' = CardState(uuid[q])
    BY <2>2, SameStates DEF RequestStep
  <2>4. QED
    BY <2>1, <2>2, <2>3 DEF PageOK
<1>2. QED
  BY <1>1 DEF PagesInv

LEMMA TagKeepsPages ==
  ASSUME PagesInv, NEW r \in Requests, NEW c \in Cards, Tag(r, c)
  PROVE  PagesInv'
<1>1. /\ pc' = [pc EXCEPT ![r] = "getByCard"]
      /\ uuid' = [uuid EXCEPT ![r] = c]
      /\ found' = [found EXCEPT ![r] = NoRow]
      /\ page' = [page EXCEPT ![r] = "none"]
      /\ seen' = [seen EXCEPT ![r] = {CardState(c)}]
      /\ UNCHANGED <<ledgerVars, cardVars>>
  BY DEF Tag, Goto
<1>2. CardState(c) \in {"none", "active", "lost", "beyond"}
  BY CardStates
<1>3. CardState(c)' = CardState(c)
  BY <1>1, SameStates
<1>4. RequestTypes'
  BY <1>1, <1>2 DEF PagesInv, RequestTypes, Pages
<1>5. /\ pc'[r] = "getByCard" /\ uuid'[r] = c /\ page'[r] = "none"
      /\ seen'[r] = {CardState(c)}
  BY <1>1 DEF PagesInv, RequestTypes
<1>6. PageOK(r)'
  BY <1>3, <1>5 DEF PageOK, BalancePages, CardState
<1>7. RequestStep(r)
  BY <1>1 DEF RequestStep, PagesInv, RequestTypes
<1>8. QED
  BY <1>4, <1>6, <1>7, OneRequest

\* A page is rendered, and the request may have seen one thing more.
LEMMA RenderKeepsPages ==
  ASSUME PagesInv, NEW r \in Requests, NEW p \in Pages, Render(r, p),
         UNCHANGED <<ledgerVars, cardVars, uuid, found>>,
         seen' = seen \/ seen' = [seen EXCEPT ![r] = @ \cup {"failure"}],
         p \in BalancePages => "active" \in seen[r],
         p \in {"Blocked", "NotFound"} => seen[r] # {"active"},
         p = "NotFound" => seen'[r] # {"lost"}
  PROVE  PagesInv'
<1>1. /\ pc' = [pc EXCEPT ![r] = "idle"] /\ page' = [page EXCEPT ![r] = p]
      /\ UNCHANGED <<uuid, found>>
  BY DEF Render, Goto
<1>2. RequestTypes'
  BY <1>1 DEF PagesInv, RequestTypes
<1>3. pc'[r] = "idle" /\ page'[r] = p
  BY <1>1 DEF PagesInv, RequestTypes
<1>4. seen'[r] = seen[r] \/ ("failure" \in seen'[r] /\ seen[r] \subseteq seen'[r])
  BY DEF PagesInv, RequestTypes
<1>5. PageOK(r)'
  BY <1>3, <1>4 DEF PageOK
<1>6. RequestStep(r)
  BY <1>1 DEF RequestStep, PagesInv, RequestTypes
<1>7. QED
  BY <1>2, <1>5, <1>6, OneRequest

LEMMA GetByCardKeepsPages ==
  ASSUME TablesInv, PagesInv, NEW r \in Requests, GetByCardUUID(r)
  PROVE  PagesInv'
<1>1. /\ pc[r] = "getByCard" /\ uuid[r] \in Cards /\ page[r] = "none"
      /\ CardState(uuid[r]) \in seen[r]
      /\ UNCHANGED <<ledgerVars, cardVars, uuid, seen>>
  BY DEF GetByCardUUID, PagesInv, PageOK
<1>2. CardState(uuid[r]) = "active" <=> ActiveHolders(uuid[r]) # {}
  BY <1>1, StateOfCard
<1>3. CardState(uuid[r])' = CardState(uuid[r])
  BY <1>1, SameStates
<1>4. ASSUME NEW m \in ActiveHolders(uuid[r]),
             found' = [found EXCEPT ![r] = [member |-> m, balance |-> members[m].balance]],
             Goto(r, "listTxs"), UNCHANGED page
      PROVE  PagesInv'
  <2> DEFINE holder == [member |-> m, balance |-> members[m].balance]
  <2>1. m \in MemberIDs /\ members[m] \in MemberRow
    BY DEF ActiveHolders, TablesInv, LedgerInv, LedgerTypeOK
  <2>2. holder \in [member : MemberIDs, balance : 0..MaxInt64]
    BY <2>1 DEF MemberRow
  <2>3. holder # NoRow
    BY <2>2, MemberCardsAssumption
  <2>4. found' = [found EXCEPT ![r] = holder]
    BY <1>4
  <2> HIDE DEF holder
  <2>5. pc' = [pc EXCEPT ![r] = "listTxs"]
    BY <1>4 DEF Goto
  <2>6. RequestTypes'
    BY <1>1, <1>4, <2>2, <2>4, <2>5 DEF PagesInv, RequestTypes
  <2>7. pc'[r] = "listTxs" /\ found'[r] = holder /\ "active" \in seen[r]
    BY <1>1, <1>2, <2>4, <2>5 DEF PagesInv, RequestTypes
  <2>8. PageOK(r)'
    <3>1. CardState(uuid[r])' \in seen'[r] /\ uuid'[r] = uuid[r] /\ seen'[r] = seen[r]
      BY <1>1, <1>3
    <3>2. pc'[r] = "listTxs" /\ found'[r] # NoRow /\ "active" \in seen'[r]
      BY <2>3, <2>7, <3>1
    <3>3. uuid'[r] \in Cards /\ page'[r] = "none"
      BY <1>1, <1>4
    <3>4. QED
      BY <3>1, <3>2, <3>3 DEF PageOK, BalancePages, CardState
  <2>9. RequestStep(r)
    BY <1>1, <1>4, <2>4, <2>5 DEF RequestStep, PagesInv, RequestTypes
  <2>10. QED
    BY <2>6, <2>8, <2>9, OneRequest
<1>5. ASSUME ActiveHolders(uuid[r]) = {}, Goto(r, "findInactive"), UNCHANGED <<found, page>>
      PROVE  PagesInv'
  <2>1. pc' = [pc EXCEPT ![r] = "findInactive"]
    BY <1>5 DEF Goto
  <2>2. RequestTypes'
    BY <1>1, <1>5, <2>1 DEF PagesInv, RequestTypes
  <2>3. pc'[r] = "findInactive" /\ seen[r] # {"active"}
    BY <1>1, <1>2, <1>5, <2>1 DEF PagesInv, RequestTypes
  <2>4. CardState(uuid[r])' \in seen'[r] /\ uuid'[r] = uuid[r] /\ seen'[r] = seen[r]
    BY <1>1, <1>3
  <2>5. PageOK(r)'
    BY <1>1, <1>5, <2>3, <2>4 DEF PageOK, BalancePages, CardState
  <2>6. RequestStep(r)
    BY <1>1, <1>5, <2>1 DEF RequestStep, PagesInv, RequestTypes
  <2>7. QED
    BY <2>2, <2>5, <2>6, OneRequest
<1>6. CASE Render(r, "error") /\ UNCHANGED found
  BY <1>1, <1>6, RenderKeepsPages DEF Pages, BalancePages
<1>7. QED
  BY <1>4, <1>5, <1>6 DEF GetByCardUUID

LEMMA FindInactiveKeepsPages ==
  ASSUME TablesInv, PagesInv, NEW r \in Requests, FindInactive(r)
  PROVE  PagesInv'
<1>1. /\ seen[r] # {"active"} /\ uuid[r] \in Cards /\ CardState(uuid[r]) \in seen[r]
      /\ UNCHANGED <<ledgerVars, cardVars, uuid, found>>
  BY DEF FindInactive, PagesInv, PageOK
<1>2. CASE Render(r, "Blocked") /\ UNCHANGED seen
  BY <1>1, <1>2, RenderKeepsPages DEF Pages, BalancePages
<1>3. CASE FindInactiveByCard(uuid[r]) = {} /\ Render(r, "NotFound") /\ UNCHANGED seen
  <2>1. CardState(uuid[r]) # "lost"
    BY <1>1, <1>3, StateOfCard
  <2>2. seen'[r] # {"lost"}
    BY <1>1, <1>3, <2>1
  <2>3. QED
    BY <1>1, <1>3, <2>2, RenderKeepsPages DEF Pages, BalancePages
<1>4. CASE Render(r, "NotFound") /\ seen' = [seen EXCEPT ![r] = @ \cup {"failure"}]
  <2>1. seen'[r] # {"lost"}
    BY <1>4 DEF PagesInv, RequestTypes
  <2>2. QED
    BY <1>1, <1>4, <2>1, RenderKeepsPages DEF Pages, BalancePages
<1>5. QED
  BY <1>2, <1>3, <1>4 DEF FindInactive

LEMMA ListTxsKeepsPages ==
  ASSUME PagesInv, NEW r \in Requests, ListTxs(r)
  PROVE  PagesInv'
<1>1. "active" \in seen[r] /\ UNCHANGED <<ledgerVars, cardVars, uuid, found, seen>>
  BY DEF ListTxs, PagesInv, PageOK
<1>2. PICK count : Render(r, PageFor(found[r].balance, count))
  BY DEF ListTxs
<1>3. PageFor(found[r].balance, count) \in BalancePages
  BY DEF PageFor, BalancePages
<1>4. \A p \in BalancePages : p \in Pages /\ p \notin {"Blocked", "NotFound"}
  BY DEF Pages, BalancePages
<1>5. QED
  BY <1>1, <1>2, <1>3, <1>4, RenderKeepsPages

\* A posting leaves every card in its state.
LEMMA PostKeepsPages ==
  ASSUME TablesInv, PagesInv, NEW m \in MemberIDs, NEW type \in {"charge", "deduct"},
         NEW amount \in Amounts, ChargeOrDeduct(m, type, amount)
  PROVE  PagesInv'
<1>1. UNCHANGED <<card, pc, uuid, found, page, seen>>
  BY DEF ChargeOrDeduct, cardVars, pageVars
<1>2. \A k \in Present : members'[k].isActive = members[k].isActive
  BY PostedRow
<1>3. ASSUME NEW c \in Cards PROVE CardState(c)' = CardState(c)
  <2>1. \A k \in MemberIDs : card[k] = c => k \in Present
    BY MemberCardsAssumption DEF TablesInv, ColumnsOK, Present
  <2>2. SearchAll' = SearchAll
    BY <1>1, PostedRow DEF SearchAll, ChargeOrDeduct, cardVars
  <2>3. QED
    BY <1>1, <1>2, <2>1, <2>2 DEF CardState
<1>4. ASSUME NEW r \in Requests PROVE PageOK(r)'
  <2>1. PageOK(r)
    BY DEF PagesInv
  <2>2. pc[r] # "idle" => CardState(uuid[r])' = CardState(uuid[r])
    <3>1. pc[r] # "idle" => uuid'[r] = uuid[r] /\ uuid[r] \in Cards
      BY <1>1, <2>1 DEF PageOK
    <3>2. QED
      BY <1>3, <3>1 DEF CardState
  <2>3. CASE pc[r] = "idle"
    BY <1>1, <2>1, <2>3 DEF PageOK
  <2>4. CASE pc[r] # "idle"
    <3>1. /\ uuid[r] \in Cards /\ page[r] = "none"
          /\ CardState(uuid[r])' \in seen[r]
      BY <2>1, <2>2, <2>4 DEF PageOK
    <3>2. /\ pc'[r] = pc[r] /\ uuid'[r] = uuid[r] /\ found'[r] = found[r]
          /\ page'[r] = "none" /\ seen'[r] = seen[r] /\ page'[r] \notin BalancePages
      BY <1>1, <3>1 DEF BalancePages
    <3>3. CardState(uuid[r])' \in seen'[r]
      BY <3>1, <3>2
    <3>4. /\ pc[r] = "listTxs" => found[r] # NoRow /\ "active" \in seen[r]
          /\ pc[r] = "findInactive" => seen[r] # {"active"}
      BY <2>1 DEF PageOK
    <3>5. QED
      BY <3>1, <3>2, <3>3, <3>4 DEF PageOK, CardState
  <2>5. QED
    BY <2>3, <2>4
<1>5. QED
  BY <1>1, <1>4 DEF PagesInv, RequestTypes

-----------------------------------------------------------------------------
(* Theorems.                                                               *)

LEMMA CardsStart == Init => CardsInv
<1> SUFFICES ASSUME Init PROVE CardsInv
  OBVIOUS
<1>1. LedgerInv
  BY LedgerInitInv DEF Init
<1>2. Present = {}
  BY DEF Init, LedgerInit, Present
<1>3. ColumnsOK
  BY DEF Init, LedgerInit, ColumnsOK
<1>4. OrderOK
  BY <1>2 DEF Init, OrderOK
<1>5. UniqueOK
  BY DEF Init, UniqueOK
<1>6. PagesInv
  BY DEF Init, PagesInv, RequestTypes, Pages, PageOK, BalancePages
<1>7. QED
  BY <1>1, <1>3, <1>4, <1>5, <1>6 DEF CardsInv, TablesInv

LEMMA CardsStep == CardsInv /\ [Next]_vars => CardsInv'
<1> SUFFICES ASSUME CardsInv, [Next]_vars PROVE CardsInv'
  OBVIOUS
<1>1. LedgerInv'
  BY LedgerStep, LedgerNextInv DEF CardsInv, TablesInv
<1>2. TablesInv /\ PagesInv
  BY DEF CardsInv
<1>3. ASSUME NEW m \in MemberIDs, NEW number \in Numbers, NEW c \in Cards \cup {NoCard},
             Create(m, number, c)
      PROVE  CardsInv'
  <2>1. TablesInv'
    BY <1>1, <1>2, <1>3, CreateKeepsTables
  <2>2. QED
    BY <1>2, <1>3, <2>1, ObserveKeepsPages DEF Create, CardsInv
<1>4. ASSUME NEW m \in MemberIDs, NEW c \in Cards, CardIssue(m, c)
      PROVE  CardsInv'
  <2>1. TablesInv'
    BY <1>1, <1>2, <1>4, IssueKeepsTables
  <2>2. QED
    BY <1>2, <1>4, <2>1, ObserveKeepsPages DEF CardIssue, CardsInv
<1>5. ASSUME NEW m \in MemberIDs, NEW isActive \in BOOLEAN,
             ReportLostOrReactivate(m, isActive)
      PROVE  CardsInv'
  <2>1. TablesInv'
    BY <1>1, <1>2, <1>5, SetActiveKeepsTables
  <2>2. QED
    BY <1>2, <1>5, <2>1, ObserveKeepsPages DEF ReportLostOrReactivate, CardsInv
<1>6. ASSUME NEW m \in MemberIDs, Delete(m) PROVE CardsInv'
  <2>1. TablesInv'
    BY <1>1, <1>2, <1>6, DeleteKeepsTables
  <2>2. QED
    BY <1>2, <1>6, <2>1, ObserveKeepsPages DEF Delete, CardsInv
<1>7. ASSUME NEW m \in MemberIDs, NEW type \in {"charge", "deduct"},
             NEW amount \in Amounts, ChargeOrDeduct(m, type, amount)
      PROVE  CardsInv'
  <2>1. Present' = Present /\ UNCHANGED <<cardVars, issuedIDs>>
    BY <1>2, <1>7, PostedRow DEF ChargeOrDeduct, Post
  <2>2. TablesInv'
    BY <1>1, <1>2, <2>1, RowsStay
  <2>3. QED
    BY <1>2, <1>7, <2>2, PostKeepsPages DEF CardsInv
<1>8. ASSUME UNCHANGED <<ledgerVars, cardVars>> PROVE TablesInv'
  <2>1. Present' = Present
    BY <1>8 DEF ledgerVars, Present
  <2>2. QED
    BY <1>1, <1>2, <1>8, <2>1, RowsStay DEF ledgerVars
<1>9. ASSUME NEW r \in Requests,
             \/ \E c \in Cards : Tag(r, c)
             \/ GetByCardUUID(r) \/ FindInactive(r) \/ ListTxs(r)
      PROVE  CardsInv'
  <2>1. UNCHANGED <<ledgerVars, cardVars>>
    BY <1>9 DEF Tag, GetByCardUUID, FindInactive, ListTxs
  <2>2. PagesInv'
    BY <1>2, <1>9, TagKeepsPages, GetByCardKeepsPages, FindInactiveKeepsPages,
       ListTxsKeepsPages
  <2>3. QED
    BY <1>8, <2>1, <2>2 DEF CardsInv
<1>10. CASE UNCHANGED vars
  <2>1. TablesInv'
    BY <1>8, <1>10 DEF vars
  <2>2. PagesInv'
    <3>1. \A r \in Requests : CardState(uuid[r])' = CardState(uuid[r])
      BY <1>10, SameStates DEF vars, pageVars
    <3>2. UNCHANGED <<pc, uuid, found, page, seen>>
      BY <1>10 DEF vars, pageVars
    <3>3. QED
      BY <1>2, <3>1, <3>2 DEF PagesInv, RequestTypes, PageOK
  <2>3. QED
    BY <2>1, <2>2 DEF CardsInv
<1>11. QED
  BY <1>3, <1>4, <1>5, <1>6, <1>7, <1>9, <1>10 DEF Next

\* The inductive invariant, over every interleaving of administrators and
\* customers.
THEOREM CardsInvariant == Spec => []CardsInv
  BY CardsStart, CardsStep, PTL DEF Spec

\* Cards and pages leave the tables to the steps of the ledger.
THEOREM CardsImplementLedger == Spec => LedgerSpec
<1>1. Init => LedgerInit
  BY DEF Init
<1>2. QED
  BY <1>1, LedgerStep, PTL DEF Spec, LedgerSpec

\* Types; a member has a number, and the list holds each member once.
THEOREM CardsTypes == Spec => []TypeOK
<1>1. CardsInv => TypeOK
  BY DEF CardsInv, TablesInv, PagesInv, LedgerInv, ColumnsOK, OrderOK, Present,
         RequestTypes, PageOK, TypeOK
<1>2. QED
  BY <1>1, CardsInvariant, PTL

\* CustomerCard shows a balance only for a card that has been active while the
\* page was computed.
THEOREM BalancePagesNeedActiveCard == Spec => []BalanceNeedsActiveCard
<1>1. CardsInv => BalanceNeedsActiveCard
  BY DEF CardsInv, PagesInv, PageOK, BalanceNeedsActiveCard
<1>2. QED
  BY <1>1, CardsInvariant, PTL

\* A card active throughout is never answered with Blocked or NotFound.
THEOREM ActiveCardsShowBalance == Spec => []ActiveCardShowsBalance
<1>1. CardsInv => ActiveCardShowsBalance
  BY DEF CardsInv, PagesInv, RequestTypes, Pages, PageOK, BalancePages,
         ActiveCardShowsBalance
<1>2. QED
  BY <1>1, CardsInvariant, PTL

\* A card lost throughout, of one of the newest members, is answered with Blocked:
\* neither Create nor CardIssue gives it to a second member.
THEOREM LostCardsShowBlocked == Spec => []LostCardShowsBlocked
<1>1. CardsInv => LostCardShowsBlocked
  BY DEF CardsInv, PagesInv, RequestTypes, Pages, PageOK, BalancePages,
         LostCardShowsBlocked
<1>2. QED
  BY <1>1, CardsInvariant, PTL
=============================================================================
