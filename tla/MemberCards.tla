----------------------------- MODULE MemberCards -----------------------------
(***************************************************************************)
(* Members, their phone numbers and their NFC cards, and the page a        *)
(* customer gets by tagging a card.  CustomerCard runs up to three queries *)
(* with other requests in between: the active holder of the card, then     *)
(* either that member's ledger or, when there is no active holder, the     *)
(* newest members (LIMIT 500) to look for a blocked one.                   *)
(*                                                                         *)
(* A number is the text in the column phone: what NormalizePhone makes of  *)
(* the one typed in, encrypted if there is a key.  Two ways of typing a    *)
(* number need not give the same text (Screens, PiiMigration).             *)
(*                                                                         *)
(* seen[r] is a history variable: every state the card of page request r   *)
(* has been in since the request arrived.                                  *)
(***************************************************************************)
EXTENDS WalletLedger, FiniteSets

CONSTANTS Requests,             \* page requests in progress
          Numbers,              \* phone numbers, as they are stored
          Cards,                \* card uuids: typed in, or drawn by NewCardUUID
          LowBalanceThreshold,  \* customer.go:20
          SearchLimit,          \* LIMIT of SearchMembers and ListAllMembers
          MaxRows,              \* bound: ledger rows per member
          NoCard                \* card_uuid IS NULL

Pages == {"none", "Onboarding", "LowBalance", "Tagged", "Blocked", "NotFound", "error"}
BalancePages == {"Onboarding", "LowBalance", "Tagged"}

ASSUME MemberCardsAssumption ==
  /\ NoCard \notin Cards
  /\ NoRow \notin Numbers
  /\ NoRow \notin [member : MemberIDs, balance : 0..MaxInt64]
  /\ LowBalanceThreshold \in 0..MaxInt64
  /\ SearchLimit \in Nat \ {0}
  /\ MaxRows \in Nat

VARIABLES phone,    \* phone[m]: the number stored for m, or NoRow
          card,     \* card[m]: card_uuid of m, or NoCard
          older,    \* older[m]: the ids used when m was created, whose created_at is less
          pc,       \* pc[r]: the query request r runs next
          uuid,     \* uuid[r]: the card that was tagged
          found,    \* found[r]: the active holder and its balance, or NoRow
          page,     \* page[r]: the page r got
          seen      \* seen[r]: the states of uuid[r] since r arrived

cardVars == <<phone, card, older>>
pageVars == <<pc, uuid, found, page, seen>>
vars == <<ledgerVars, cardVars, pageVars>>

Init ==
  /\ LedgerInit
  /\ phone = [m \in MemberIDs |-> NoRow]
  /\ card = [m \in MemberIDs |-> NoCard]
  /\ older = [m \in MemberIDs |-> {}]
  /\ pc = [r \in Requests |-> "idle"]
  /\ uuid = [r \in Requests |-> NoCard]
  /\ found = [r \in Requests |-> NoRow]
  /\ page = [r \in Requests |-> "none"]
  /\ seen = [r \in Requests |-> {}]

-----------------------------------------------------------------------------
(* Queries.                                                                *)

\* Mutant of ActiveHolders: is_active is not part of the query.
AnyHolders(c) == {m \in MemberIDs : members[m] # NoRow /\ card[m] = c}

\* GetMemberByCardUUID: card_uuid = ? AND is_active = 1.
ActiveHolders(c) ==
  {m \in MemberIDs : members[m] # NoRow /\ card[m] = c /\ members[m].isActive}

\* Mutant of CardFree: the unique index covers active members only.
CardFreeOfActive(c, m) == c = NoCard \/ ActiveHolders(c) \subseteq {m}

\* UNIQUE constraints of members; NULL is distinct from NULL.
PhoneFree(number, m) == \A k \in MemberIDs \ {m} : phone[k] # number
CardFree(c, m) == c = NoCard \/ \A k \in MemberIDs \ {m} : card[k] # c

Present == {m \in MemberIDs : members[m] # NoRow}

\* Search(ctx, "", SortDefault): the newest members, blocked or not; those with
\* few newer ones.
SearchAll ==
  {m \in Present : Cardinality({k \in Present : m \in older[k]}) < SearchLimit}

\* findInactiveByCard: it does not look at is_active.
FindInactiveByCard(c) == {m \in SearchAll : card[m] = c}

\* The state of a card: nobody has it, its holder is active, or blocked; a blocked
\* one may be beyond the members that are searched.
CardState(c) ==
  LET holders == {m \in MemberIDs : card[m] = c}
  IN  IF holders = {} THEN "none"
      ELSE IF \A m \in holders : members[m].isActive THEN "active"
      ELSE IF holders \subseteq SearchAll THEN "lost" ELSE "beyond"

\* What a page request has seen once the tables are as they are now.
Observe ==
  seen' = [r \in Requests |->
             IF pc[r] = "idle" THEN seen[r] ELSE seen[r] \cup {CardState(uuid[r])'}]

-----------------------------------------------------------------------------
(* The administrator.                                                      *)

\* MemberService.Create.  The card is typed into the form, or left empty.
Create(m, number, c) ==
  /\ PhoneFree(number, m)
  /\ CardFree(c, m)
  /\ Register(m)
  /\ phone' = [phone EXCEPT ![m] = number]
  /\ card' = [card EXCEPT ![m] = c]
  /\ older' = [older EXCEPT ![m] = issuedIDs]
  /\ UNCHANGED <<pc, uuid, found, page>>
  /\ Observe

\* CardIssue: NewCardUUID has drawn c, and UPDATE finds m.  A card that is
\* taken changes nothing: 500, and no other card is drawn.
CardIssue(m, c) ==
  /\ members[m] # NoRow
  /\ CardFree(c, m)
  /\ card' = [card EXCEPT ![m] = c]
  /\ UNCHANGED <<ledgerVars, phone, older, pc, uuid, found, page>>
  /\ Observe

\* CardLost and CardReactivate: the card stays with the member.
ReportLostOrReactivate(m, isActive) ==
  /\ SetActive(m, isActive)
  /\ UNCHANGED <<cardVars, pc, uuid, found, page>>
  /\ Observe

\* MemberDelete: phone and card are free again.
Delete(m) ==
  /\ members[m] # NoRow
  /\ RemoveMember(m)
  /\ phone' = [phone EXCEPT ![m] = NoRow]
  /\ card' = [card EXCEPT ![m] = NoCard]
  /\ UNCHANGED <<older, pc, uuid, found, page>>
  /\ Observe

\* ChargeSubmit and DeductSubmit.
ChargeOrDeduct(m, type, amount) ==
  /\ Len(transactions[m]) < MaxRows
  /\ Post(m, type, amount)
  /\ UNCHANGED <<cardVars, pageVars>>

-----------------------------------------------------------------------------
(* CustomerCard.                                                           *)

Goto(r, label) == pc' = [pc EXCEPT ![r] = label]

\* The page is rendered.
Render(r, p) ==
  /\ Goto(r, "idle")
  /\ page' = [page EXCEPT ![r] = p]

Tag(r, c) ==
  /\ pc[r] = "idle"
  /\ Goto(r, "getByCard")
  /\ uuid' = [uuid EXCEPT ![r] = c]
  /\ found' = [found EXCEPT ![r] = NoRow]
  /\ page' = [page EXCEPT ![r] = "none"]
  /\ seen' = [seen EXCEPT ![r] = {CardState(c)}]
  /\ UNCHANGED <<ledgerVars, cardVars>>

\* Mutants of GetByCardUUID: the page goes on with the empty member when there
\* is no holder; the holder is searched among the newest members.
GetByCardUUIDUnchecked(r) ==
  /\ pc[r] = "getByCard"
  /\ Goto(r, "listTxs")
  /\ UNCHANGED <<ledgerVars, cardVars, uuid, found, page, seen>>
GetByCardUUIDOfNewest(r) ==
  LET holders == ActiveHolders(uuid[r]) \cap SearchAll
  IN  /\ pc[r] = "getByCard"
      /\ \/ \E m \in holders :
              /\ found' = [found EXCEPT ![r] =
                             [member |-> m, balance |-> members[m].balance]]
              /\ Goto(r, "listTxs")
         \/ holders = {} /\ Goto(r, "findInactive") /\ UNCHANGED found
      /\ UNCHANGED <<ledgerVars, cardVars, uuid, page, seen>>

\* GetByCardUUID finds the active holder, or nobody; or it fails: 500.
GetByCardUUID(r) ==
  /\ pc[r] = "getByCard"
  /\ \/ \E m \in ActiveHolders(uuid[r]) :
          /\ found' = [found EXCEPT ![r] = [member |-> m, balance |-> members[m].balance]]
          /\ Goto(r, "listTxs")
          /\ UNCHANGED page
     \/ /\ ActiveHolders(uuid[r]) = {}
        /\ Goto(r, "findInactive")
        /\ UNCHANGED <<found, page>>
     \/ Render(r, "error") /\ UNCHANGED found
  /\ UNCHANGED <<ledgerVars, cardVars, uuid, seen>>

\* Blocked when some member has the card by now, NotFound otherwise; an error
\* of Search counts as not found.
FindInactive(r) ==
  /\ pc[r] = "findInactive"
  /\ \/ FindInactiveByCard(uuid[r]) # {} /\ Render(r, "Blocked") /\ UNCHANGED seen
     \/ FindInactiveByCard(uuid[r]) = {} /\ Render(r, "NotFound") /\ UNCHANGED seen
     \/ /\ Render(r, "NotFound")
        /\ seen' = [seen EXCEPT ![r] = @ \cup {"failure"}]
  /\ UNCHANGED <<ledgerVars, cardVars, uuid, found>>

\* The switch at the end of CustomerCard.
PageFor(balance, rows) ==
  IF balance = 0 /\ rows = 0 THEN "Onboarding"
  ELSE IF balance <= LowBalanceThreshold THEN "LowBalance" ELSE "Tagged"

\* ListByMember of the holder found before; its error is ignored, and leaves
\* no rows.
ListTxs(r) ==
  /\ pc[r] = "listTxs"
  /\ \E rows \in {Len(transactions[found[r].member]), 0} :
       Render(r, PageFor(found[r].balance, rows))
  /\ UNCHANGED <<ledgerVars, cardVars, uuid, found, seen>>

Next ==
  \/ \E m \in MemberIDs :
       \/ \E number \in Numbers, c \in Cards \cup {NoCard} : Create(m, number, c)
       \/ \E c \in Cards : CardIssue(m, c)
       \/ \E isActive \in BOOLEAN : ReportLostOrReactivate(m, isActive)
       \/ Delete(m)
       \/ \E type \in {"charge", "deduct"}, amount \in Amounts :
            ChargeOrDeduct(m, type, amount)
  \/ \E r \in Requests :
       \/ \E c \in Cards : Tag(r, c)
       \/ GetByCardUUID(r)
       \/ FindInactive(r)
       \/ ListTxs(r)

Spec == Init /\ [][Next]_vars

-----------------------------------------------------------------------------
(* Properties.                                                             *)

TypeOK ==
  /\ LedgerTypeOK
  /\ phone \in [MemberIDs -> Numbers \cup {NoRow}]
  /\ card \in [MemberIDs -> Cards \cup {NoCard}]
  /\ \A m \in MemberIDs : (phone[m] = NoRow) <=> (members[m] = NoRow)
  /\ older \in [MemberIDs -> SUBSET issuedIDs]
  /\ \A m, k \in Present : m \in older[k] \/ k \in older[m] \/ m = k
  /\ pc \in [Requests -> {"idle", "getByCard", "findInactive", "listTxs"}]
  /\ page \in [Requests -> Pages]
  /\ \A r \in Requests : pc[r] = "listTxs" => found[r] # NoRow

\* A card without a member, or of a blocked one, never shows a balance, even
\* when it is issued, lost or freed while the page is computed: a balance page
\* means that the card was active at some moment of the request.
BalanceNeedsActiveCard ==
  \A r \in Requests : page[r] \in BalancePages => "active" \in seen[r]

\* A card that is active all along shows its balance, whatever else happens to
\* other members and cards (or the request fails).
ActiveCardShowsBalance ==
  \A r \in Requests :
    seen[r] = {"active"} => page[r] \in BalancePages \cup {"none", "error"}

\* Who tags a card that is lost all along is told so, and neither that it is
\* unknown nor what somebody else has: nobody is given the card of a blocked
\* member, and it is found among the newest SearchLimit members (unless the
\* search fails).
LostCardShowsBlocked ==
  \A r \in Requests :
    seen[r] = {"lost"} => page[r] \in {"Blocked", "none", "error"}
=============================================================================
