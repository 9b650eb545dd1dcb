# A verification of yuhada

yuhada is the prepaid-card server of a hair salon: an administrator registers
members, charges and deducts their balance and hands out NFC cards; a customer
who tags a card sees the balance; both are told of postings by SMS. It is one Go
process over one SQLite file. This directory models the parts of it where the
order of things matters, checks them with TLC and proves the central claims with
TLAPS.

The promise in one sentence: **whatever requests, failures, crashes and other
processes do, a balance is what its ledger rows explain, and rows are never lost
or changed.** `WalletLedger` states it, `WalletTx` is how the code keeps it,
`WalletTxTheorems` proves that it does. Around it, also proved: handlers and
messages tell the truth about what was committed (`WalletSubmitTheorems`), a
balance is shown only for an active card and a lost card is named as such
(`MemberCardsTheorems`), the pages about a member and the reports match the ledger,
within the limits of their lists, although they take several queries
(`MemberPageTheorems`, `ReportsTheorems`), a migration cut anywhere leaves no
half-encrypted row, numbers, amounts and dates survive the forms and the pages
(`TextTheorems`), and the administrator's PIN and sessions do what they are
configured to (`ServerTheorems`).

## Inventory

| Part | Code | State | Operations | What must hold | Module |
|---|---|---|---|---|---|
| Wallet | `internal/service/wallet.go`, `member.go` (Delete, ReportLost, Reactivate), `internal/db/db.go` | tables `members.balance`, `members.is_active`, `transactions`; the pool's one connection; per request the row read and `newBalance` | Charge, Deduct, Delete, ReportLost, Reactivate, Create | balance = newest `balance_after`; rows chain; append-only; nothing posted to a blocked member; every request returns | `WalletLedger`, `WalletTx` |
| Wallet and registration handlers, SMS | `internal/handler/wallet.go`, `members.go`, `debug.go`, `internal/sms/aligo.go` | per request: what was committed, what was read again; goroutines sending messages | ChargeSubmit, DeductSubmit, NewMemberPost, Send, walletOp | status, page and message agree with what was committed | `WalletSubmit` |
| Members, cards, customer page | `service/member.go`, `handler/customer.go`, `handler/wallet.go` (cards), `util/ids.go` | `phone`, `card_uuid` with UNIQUE; per page the holder found | Create, IssueCard, ReportLost, Reactivate, Delete, CustomerCard | a balance needs an active card, an active card shows it, a lost one is reported as blocked | `MemberCards` |
| Pages about one member | `handler/members.go`, `customer.go` | the shared table `transactions`, `created_at`; per page the member read | MemberDetailGet, CustomerCard | totals explain the balance; last charge and last visit are the last | `MemberPage` |
| Personal data at rest | `internal/crypto`, `MigrateEncryption`, `cmd/server/main.go` | `name`, `phone`, `memo` plain or encrypted; where the start of the server is | MigrateEncryption, Create, UpdateMemo, Delete, start, stop | no half-migrated row; no name or phone encrypted twice; never back to plain | `PiiMigration` |
| Reports | `service/transaction.go`, `stats.go`, `handler/transactions.go`, `dashboard.go` | none of its own; per page the figures read so far | Dashboard, ListInPeriod, SumsInPeriod, Range | totals match the list up to its limit; a search lists whom it matches; never more deducted than charged; periods are those of the calendar | `Reports`, `Periods` |
| Formats | `internal/util/format.go`, the masks in `view/page/new_member.templ`, `view/partial/modals.templ` | the text in a field | formatPhone, NormalizePhone, FormatPhone, FormatKRW, ParseInt | a number is the key it was typed as; the amount posted is the amount typed | `Formats`, `Screens` |
| Administrator | `service/admin.go` | `admin_users`; where the start of the server is | Bootstrap, VerifyPIN | the configured PIN works after a start that reports success; one row per address | `AdminBootstrap` |
| Sessions, role check | `internal/auth`, `handler/login.go`, `router.go` | table `sessions`, the browser's cookie, per request a copy of the row | LoginPost, LogoutPost, LoadAndSave around every page | sessions end at their limits, not before, and at logout | `Server` |
| Rate limit, Kakao, config, views, static files, deployment | | none that a request changes, or no caller | | | no |

**How they interact.** Handlers call services; services run SQL on one
`*sql.DB`. `db.Open` sets `SetMaxOpenConns(1)`, so every statement outside a
transaction waits for the transaction that holds the connection. Handlers run in
one goroutine per request, and take several service calls each: between two calls
any other request may run. Messages are sent by goroutines that outlive the
request. `main` runs Bootstrap and MigrateEncryption before it serves. `make
seed` and the goose migration of a deployment write to the same file from another
process.

**What is hard.** Check-then-act on a balance; a deferred BEGIN; reads after the
commit; messages nobody waits for; pages built from several queries; a migration
that may stop anywhere and runs again at the next start; two representations of a
phone number under one UNIQUE constraint; a clock that orders rows; sessions
that every answer writes back from a copy. `PROJECT.json` lists these as hazards
with their lines.

## Modules

```
WalletLedger            the promise: atomic steps on members and transactions
 |- WalletTx            statements of mutate and Delete; implements WalletLedger
 |- WalletSubmit        handlers around the wallet: answers and messages
 |- MemberCards         cards and the customer page
 |- Reports             dashboard and transactions page
MemberPage              the shared table and the pages about one member;
                        INSTANCE WalletLedger WITH ... : refines it
PiiMigration            texts at rest (stands alone: it shares no column)
AdminBootstrap          administrators over starts of the server
 |- Server              the same with sessions, logins, logouts, overlapping requests
Formats, Periods        pure functions: numbers, amounts, calendar
 |- Screens             an operator who types, or looks as time goes by
WalletLedgerTheorems, WalletTxTheorems, WalletSubmitTheorems,
MemberCardsTheorems, MemberPageTheorems, ReportsTheorems, ServerTheorems
                        proofs; the lemmas on sums and induction that several of
                        them need are at the end of WalletLedgerTheorems
TextTheorems            proofs about texts: PiiMigration, and Screens with
                        Formats and Periods
MC*                     instances for TLC (symmetry sets, inputs)
```

The modules that extend `WalletLedger` use its actions (`Register`, `Post`,
`SetActive`, `RemoveMember`) for what a committed transaction does to the tables,
and add their own steps around them. That a wallet transaction may be one step
there is what `WalletTx` establishes.

**WalletLedger.** `members[m]` is the row of a member (`balance`, `is_active`) or
`NoRow`; `transactions[m]` its ledger rows, oldest first; `issuedIDs` the UUIDs
used, since `util.NewID` never repeats one. The bound `MaxInt64` stands for 2^63-1.
The schema's type `refund` is written by nobody.

**WalletTx.** One variable per local thing of `mutate`: `pc` is the next
statement, `newBalance` the variable of that name, `conn` who has the connection,
`view` the tables as the open transaction sees them (`NoView` before its first
statement: BEGIN is deferred, `BeginTx(ctx, nil)`). Statement by statement:
`BeginTx`, `GetMember` (checks and `newBalance`, wrapping in int64),
`AddToBalance`, `InsertTransaction`, `Commit`; for Delete
`DeleteTransactionsByMember`, `DeleteMember`, `Commit`. `Fail` is an error or a
cancelled context at any statement, `GiveUp` a request cancelled while waiting,
`Crash` the end of the process. `SeedMember` is the other process; SQLite fails a
write on a stale snapshot (`SnapshotFresh`) and lets nobody else commit while a
transaction has written (`WriteLocked`). These two are facts about SQLite, not
code of the repository. `scripts/seed.sql` also inserts balances and rows with an
invented history; these are left out, since they explain nothing to begin with.

**WalletSubmit.** `posted[r]` is the row a request committed, `shown[r]` the
balance it read back, `reply[r]` the answer, `outbox` goroutines that are
sending, `inbox` what customers have. A result page lists at most `ListLimit` rows
(50 in the code); which ones the clock decides, so `Listings` allows any of them, and
`reply` also keeps the ledger the list was read from, as history. SMS is enabled; without it there is no
message to speak of. Each message is identified by the row it is about.
`DebugWalletOp` is the charge and deduction of `debug.go`, which are routed outside
production: they post and send nothing.

**MemberCards.** `phone[m]` is the text as it is stored, after `NormalizePhone`
and encryption: UNIQUE sees no more, and two ways of typing one number may give
two texts (`Screens`, and the deviations below). `seen[r]` is a history variable:
every state the tagged card has been in since the request arrived: `none`
(nobody has it), `active`, `lost` (its holder is blocked, and among the members a
search returns) or `beyond` (blocked, and older than those); and `failure` when the
search failed. Properties of a page that is computed in several queries can only be
stated over it. `older[m]` holds the ids used when m was created and says which
rows `ORDER BY created_at DESC LIMIT` returns; ids are drawn in the order of
`created_at` here, so the clock is taken not to be set back between two
registrations (in `Reports` and `MemberPage` it may be).

**PiiMigration.** A stored text is what was typed and how many layers of
encryption it has. Equal pairs are equal ciphertexts for the deterministic
encryption of phones; AES-GCM itself is taken as injective. There is one key, set
or not at each start. `older` orders the
rows as in `MemberCards`; `todo` is what is left of the rows listed. Migration
runs row by row, newest first, fails anywhere, and the server
serves afterwards in any case, as `main` does.

**Reports.** A search text stands for the set of members it matches. `scope[r]`
is what the WHERE clause lets through after `resolveQ`, `range[r]` the period that
was computed last (each query computes it again; the dashboard once). Every row has
its `createdAt`, and a period ends a minute after `now`, which `ClockChanges` moves
anywhere: after it is set back, rows lie ahead of every period. `newest` is the
order of `ListAllMembers`, into which `Create` puts a member anywhere, for the
same reason; `Found` looks at its first `SearchLimit` members. `FirstByDate` is
`ORDER BY created_at DESC LIMIT`, where rows of one moment come in any order.
History: `events[r]` is what has happened since the request arrived (a member came,
one went, a query failed), `listRange[r]` the period of its list, `since[r]` the rows
posted after that was read. Nobody is blocked here: `is_active` has no part in
these sums.

**MemberPage.** The tables as SQLite has them: `txTable` is one sequence for all
members, in the order of insertion, with a `createdAt` from the wall clock `now`,
which `ClockChanges` sets anywhere. `Kept` is `WHERE member_id`.
`ListTransactionsByMember` is the set of all
answers that `ORDER BY created_at DESC LIMIT 50` allows: rows of one millisecond
come in any order. A request has read its member and not yet its rows; `since`
and `gone` are history: what was posted to that member in between, and whether it
was deleted. `Wallet` maps the shared table to the ledgers of `WalletLedger`.

**AdminBootstrap.** `admins` are the rows in order of `created_at`, `target` the
id Bootstrap has in hand between two statements, `outcome` what it returned. A
PIN stands for its hash; bcrypt is taken as injective on PINs.

**Server** extends it. `sessions[t]` is the row of token t with what is left of
its deadline and its expiry (0: `Find` does not return it); `requests[r]` the copy
of the row that `LoadAndSave` put into the context of r. scs is modelled from how
it is configured and called: since `IdleTimeout` is set, every answer of a request
with a session commits the copy (`Save`), whatever the store has by then. `Tick`
takes one from everything that is left, while the server runs or not. `history` holds
age, time since the last answer, and whether somebody logged out with other
requests under way (`overlapped`) or without (`alone`). `NotSaved` is a wrong
PIN, a panic or a failing commit; `LogoutFails` a failing `Destroy`, after which scs
saves the session like any other.

**Formats, Periods, Screens.** Texts are sequences of characters, moments are
minutes since 2020 in UTC. The loops of the code are recursive functions: `Only`
is a replacement of characters by nothing, `ValueOf` what a parser reads, `Shifted`
what is left of a number without its last digits, `Decimal` what `%d` writes,
`FormatKRW` the loop that puts a comma after every third digit. `MaskPhone` and `MaskAmount` are the Alpine.js
handlers that run after every key, `NormalizePhone`, `FormatPhone`, `FormatKRW`,
`ParseAmount`, `RangeStart` and `TimeShort` the Go functions. package time and
`toLocaleString` are written from their documented meaning, apart from the code
that is compared with them. `Screens` types keys one by one, and walks through a
calendar day by day. Keys other than digits, "+" and "-" are what the masks drop
anyway; corrections in the middle of a field are left out.

## Runs

| Run | Shows | States |
|---|---|---|
| `wallet_tx` | all safety properties of the wallet, that it implements `WalletLedger`, and that every waiting request returns | 104312 |
| `wallet_submit` | answers, pages and messages agree with the ledger | 2849889 |
| `wallet_submit_announced` | violated: committed, and no message | |
| `member_cards` | balance pages need an active card and get one; lost cards show as blocked | 304006 |
| `member_page` | the shared table refines each member's wallet; totals and last rows of the pages | 467136 |
| `pii_migration` | rows are migrated as a whole, once, and never back | 5887 |
| `pii_migration_memos` | violated: a memo is encrypted twice | |
| `reports` | totals match the list, searches list whom they match, charges cover deductions | 2202126 |
| `reports_search` | violated: a search without a match lists everybody | |
| `server` | the configured PIN works, nobody is doubled or locked out; sessions end at their limits, not before, and at logout | 1797876 |
| `screens` | numbers and amounts from key to page; periods against the calendar | 5179 |
| `screens_country_code` | violated: +82 loses a digit | |

**Bounds, and why they are enough.** Two requests are enough for every race in
the wallet: what a request sees of the others is who has the connection and what
is committed, and a third adds no new kind of either (the theorems hold for any
number). Two members tell "this member" from "another". `wallet_tx` has amounts 1
and 3 with `MaxInt64 = 3`, so that balances reach zero, the maximum and beyond in
two postings, and refusals for lack of money and for wrapping both happen;
`wallet_submit` needs one member only, whose rows two handlers and others contend
for. `MaxRows` cuts ledgers at one to three rows, `Submit` and the postings refuse
more. Limits of the queries are small enough to bite: `SearchLimit = 2` (500 in
the code) and the migration's `ListLimit = 2` with three members, `ListLimit = 2`
(50) with three rows in `member_page` and `wallet_submit`. Three moments in
`member_page` give rows in order, out of order and tied. In `reports` both limits of
500 are 1, with two members and two rows, so that each leaves one out; the two
moments are the last of a day and the first of the next, and a minute is one moment:
midnight passes, and a clock set back leaves a row ahead of the period.

In `server`, `Lifetime = 3` and `IdleTimeout = 2` ticks let a session end either
way, be renewed, and be restored after some of its life is gone; two logins tell an old
token from a new one; two requests give every overlap of two answers. The
environments of servers the browser is used with (`UsedConfigs`) are those that
differ in what login sees; starts run with all of them. `screens` looks at
thirteen months that hold two ends of a year and a leap day, at midnight of UTC,
midnight of Korea and the minutes before; amounts have up to seven keys, which is two
commas; phone numbers are mobile (one with 82 inside), ten and nine digits, with
up to two dashes typed anywhere.

Deadlock is checked in every run.

**Symmetry.** Members, requests, numbers, cards, addresses and PINs are
interchangeable; symmetry sets are used in the runs without liveness only.

**Fairness** (`wallet_tx`): weak fairness of `Statement(r)`, since a
statement either returns or is ended by `busy_timeout` or the context; strong
fairness of `BeginTx(r)`, since `database/sql` hands a connection that comes back
to one of the waiting requests picked at random, so none that waits infinitely
often is passed over forever. Nothing is assumed of clients, crashes or failures.
The other modules promise nothing that must eventually happen: messages may be
lost, a migration that fails is tried at the next start only, and sessions end by
time.

## What the properties say

- `CommitsWhatItRead`: what a transaction is about to commit is one posting (or
  removal) computed from the tables as they still are, although BEGIN takes no lock.
- `RowsChain`, `LedgerExplainsBalance`: no lost update, no row without its
  balance, no `balance_after` from a stale read.
- `BlockedBalanceFrozen`: a charge queued behind "report lost" is refused.
- `AppendOnly`: rows change only by going with their member, all at once.
- `AnnouncedWasPosted`, `FirstQuotesOwnRow`: no customer is told of an amount that
  was not committed or a balance the ledger has not held since.
- `ReplyTellsOutcome`: 200 means committed and 400 means not, so that trying again
  after 400 is safe. After a 500 it is not: the commit may have happened.
- `PageShowsOwnRow`: the page of a posting lists it, unless the list is full, and
  its balance card lies between the posting and the list.
- `BalanceNeedsActiveCard`, `ActiveCardShowsBalance`: what the customer page shows
  was true at some moment of the request, and a card active throughout always works.
- `LostCardShowsBlocked`: a card lost throughout, of a member among the newest 500,
  is reported as such. It rests on card numbers being unique over blocked members
  too: a number given out again would show somebody else's balance.
- `ImplementsWallet`: with one table for all, and rows ordered by a clock, each
  member still has the ledger that `WalletLedger` promises.
- `TotalsExplainBalance`: a member page whose list is not cut off shows totals
  that differ from the balance above them by exactly what was posted in between.
- `LastRowsAreNewest`: last charge and last visit are the last ones whenever the
  clock moved on between rows; a dash may mean a failed query or a list full of
  the other type.
- `NameAndPhoneTogether`, `CompletedCoversList`, `NeverWrittenInClear`: the
  migration can be cut anywhere and resumed.
- `OneRowPerAddress`, `ConfiguredPinWorks`, `OnlyNamedPinChanges`: starts can be cut
  anywhere and follow each other in any order.
- `SessionLimits`, `ActiveUseStaysLoggedIn`, `LogoutIsFinal`: although every
  request writes back the copy it loaded, a session lives exactly as long as its
  limits say; a logout is final unless another request overlaps it.
- `NeverOverdrawn`: totals over the whole history, read at different moments, still
  never show more deducted than charged, because deductions are summed first. It
  assumes that the clock was not set back between two rows of one member, and
  that no member is deleted between the two queries.
- `TotalsMatchList`: totals and list are resolved and read apart. Every row listed
  is counted as long as the period of the totals holds it; a row that is
  counted is listed, unless the list is full of newer ones, it was posted in between,
  or the period of the list left it out (midnight, or a clock that was moved).
- `SearchListsMatches`: a search lists the rows of whom it matches and of nobody
  else, the newest when the list is full. With the key it matches among the
  newest 500 members only, and lists everybody when it finds none (the run
  `reports_search`).
- `PhoneIsKey`, `AmountAsTyped`: what is stored is what was typed, through mask,
  parser and formatter, and the forms of it lead back to it.
- `PeriodsMatchCalendar`, `ShownTodayIsCounted`: each period is that of the
  calendar (in UTC); rows shown as of today are counted under today once the day of
  UTC has begun.

## Disagreements with the documentation

Four are runs (see `findings` in `PROJECT.json`); three of them are defects: with a
key, a search that matches nobody lists everybody (`transaction.go:125`); a
memo saved while its row waits for migration is encrypted twice
(`member.go:208`); a phone number typed with +82 loses its last digit
(`new_member.templ:50`). The fourth, that every charge is announced, is a
sentence that says more than the code does.

Known deviations met while modelling that have no run of their own:

- The schema's comment has the wallet begin with BEGIN IMMEDIATE
  (`00001_init.sql:7`); `BeginTx(ctx, nil)` begins deferred (`wallet.go:50`), so
  another process can commit in between. `CommitsWhatItRead` holds all the same.
- The customer page reports a lost card also for one that was given to a member
  already blocked, and never lost (`customer.go:26,43`).
- `NewMemberPost` answers with success when the initial charge failed, and
  `Create` ignores `InitialCharge` (`members.go:121`, against `member.go:42`).
- The registration form that is shown again after an error has lost the amount:
  `AmountStr` is passed and never rendered (`members.go:85`, against
  `new_member.templ:16`).
- The totals of the member page are over the newest 50 rows, under the heading
  "누적" (cumulative, `member_detail.templ:21-22`): beyond 50 rows they say nothing
  of the balance.
- The day of joining is shown in UTC, the rows in the zone of the server
  (`dashboard.go:62-70` against `:43`).
- "Today" begins at midnight of UTC, nine in the morning in Korea
  (`transaction.go:31-36`); before that hour it holds yesterday's rows from nine on.
- A logout whose `Destroy` fails answers like one that worked (`login.go:72`); a
  request that overlaps a logout puts the session back.
- The result page's balance and list are two reads (`wallet.go:134,141`, against
  `member_detail.templ:258`); `PageShowsOwnRow` says what does hold.
- A lost card beyond the newest 500 members, or whose search fails, shows
  NotFound (`beyond` and `failure` in `MemberCards`) (`customer.go:49`, against `customer.go:25`).
- A failed ledger query shows the first-visit page (`customer.go:54`).
- A card number that is taken is not drawn again (`handler/wallet.go:25`, against
  `ids.go:20`).
- A number stored in the clear can be registered a second time encrypted
  (against `README.md:79` of the repository); the migration of the first row then
  fails on UNIQUE at every start.
- The migration stops at 500 members and each start lists the same ones
  (`members.sql:28`, against `main.go:74`).
- Without a key, totals of the transactions page ignore the search
  (`transaction.go:182`, against `:178`).
- With a key, a search of the transactions page finds nobody beyond the newest 500
  members (`transaction.go:96`, `members.sql:28`); without one it finds all.
- The list of the transactions page ends at 500 rows, its totals do not
  (`transaction.go:153`).
- After the clock was set back, rows already posted lie ahead of every period
  (`transaction.go:32`): they are neither listed nor summed until the clock has caught
  up, and the deductions of a page may then exceed its charges.
- After a 500 that follows a commit nothing tells a second submit from a new one:
  it posts again (`handler/wallet.go:137`).
- A search for a number as the list shows it, with dashes, finds nothing: the
  stored digits are compared with it as it is (`member.go:114,244`).

## Proofs

The theorem modules are checked by TLAPS for all values of the constants that
satisfy the named assumptions of the modules (amounts are positive and fit an
int64; model values are not data; limits of lists are positive; `IdleTimeout` is at
most `Lifetime`). They use no other assumption. Those of `Screens` are: a phone number
begins with 0 and has at most eleven digits, which is what a national number has;
an amount has at most fifteen keys, up to which a number of JavaScript is exact; the
calendar ends with 2099, because 2100 is not a leap year; the zone of the server is
UTC or up to fourteen hours east of it, as Korea is (west of it the hour that
`ShownTodayIsCounted` names would be one before midnight).

- *Ledger* (`WalletLedgerTheorems`). `LedgerInv` is inductive as it stands:
  types, the chain, the balance and `NoOrphanRows`. The last conjunct is needed
  for `Register`: a fresh id has no rows, otherwise a new member with balance 0
  would inherit some. `LedgerInvariant` proves it; `LedgerAppendOnly` and
  `LedgerFrozen` follow action by action.
- *Transactions* (`WalletTxTheorems`). `CommitsWhatItRead` is the inductive
  invariant: types, `OneTransaction`, and for each statement what `view` and
  `newBalance` are relative to the tables (`ViewAt`). It is needed because
  `Commit` replaces both tables by `view`: without it nothing relates the two.
  Between SELECT and UPDATE the tables may change (`SeedMember`), so there
  `ViewAt` speaks of `view` only; after the UPDATE, `SnapshotFresh` and
  `WriteLocked` tie it to the tables.
- *Refinement.* `TxImplementsLedger`: `Commit` maps to `Post` or `RemoveMember`,
  single statements to `Register` and `SetActive`, everything else to a
  stutter. The mapping is the identity on the tables. The ledger's theorems then
  hold of the code's transactions: `TxLedgerExplainsBalance`, `TxRowsChain`,
  `TxAppendOnly`, `TxBlockedBalanceFrozen`.
- *Handlers* (`WalletSubmitTheorems`). What is told refers to a row of a ledger.
  Rows stay while their member does and ids never come back, so what is true
  when it is read stays true (`KeepsTold`); `SubmitInv` says of each handler
  (`AtWork`), message (`MessageTold`) and answer (`AnswerTold`) which row it is
  about. The four properties of answers and messages, and `SubmitImplementsLedger`,
  follow, for any limit of the list.
- *Migration* (`TextTheorems`). `PiiInv`: name and phone of a row have the
  same number of layers, one at most; a memo may be ahead of them by one while they
  have none; of the rows listed, those not encrypted are still in `todo`. Without
  the last, nothing says what a migration has done when `todo` is empty. Types,
  `NameAndPhoneTogether`, `CompletedCoversList` and `NeverWrittenInClear` follow.
- *Cards* (`MemberCardsTheorems`). `CardsInv`: the ledger's invariant, that stored
  numbers and cards are keys, the order of the members, and for each page request
  (`PageOK`) that the state its card has now is among those seen, that a request on
  its way to the ledger has seen the card active, and one on its way to the blocked
  members has seen it otherwise. That is what makes two queries with anything in
  between as good as one. That cards are keys is needed for `LostCardShowsBlocked`:
  the one holder is the blocked one. `SearchLimit` (500 in the code) is any positive
  number. All properties of `MemberCards`, and `CardsImplementLedger`, follow.
- *Sums* (the end of `WalletLedgerTheorems`). A sum over a finite set of rows does
  not depend on the order in which they are added (`AnyOrderSums`), grows with the
  set, and splits over a union. The sums need induction. The library's induction
  theorems cannot be used (they take a predicate as an argument); but any set of
  numbers has a least one, since < is well founded, and this gives `Induction`
  over the numbers at which a claim holds, given as a set, and `SetInduction` over
  the subsets of a finite set.
- *Reports* (`ReportsTheorems`). The rows of a member add up to its balance
  (`RowsExplainBalance`, by induction along the chain), and so do its first rows up to
  any one, which is never negative. A period over the whole history holds
  the first rows of each member, if they are in the order of the clock: what one query
  sums as deducted is covered by the charges at that moment (`DeductionsCovered`), and
  until the charges are summed rows are only added, unless a member is deleted
  (`Covered`). For list and totals, as long as no member goes and no query fails: the
  search resolves to the same members as before (`ScopeKept`), every row the list
  should show is in it, new, or past its limit (`ListKept`), and a total lies between
  what is shown of its rows and what explains them (`Matches`). These, with types,
  are the inductive invariant `ReportsInv`; the properties of `Reports` follow, for any
  rows, members and requests. The two limits of 500, that of the list
  (`transaction.go:153`) and that of `ListAllMembers` (`members.sql:28`), are the
  constants `ListLimit` and `SearchLimit`, any positive numbers; the properties say
  what holds within them and what is left out beyond.
- *Member pages* (`MemberPageTheorems`). What `Kept` returns for a longer table, and
  for its own result, is shown by induction over sequences: an INSERT appends to one
  ledger and leaves the others, a DELETE empties one. With `TablesOK` (types, ids
  are a key, no row without its member) each step of the shared table is a step of
  `WalletLedger` or a stutter (`PageImplementsWallet`). For the pages `PageInv` adds
  `LedgersAddUp` (a balance is charges minus deductions), `RequestOK` (the row a
  request has read differs from the one there now by `since`, or is `gone`) and what
  is said of the page itself. A list that is not cut off is the ledger in some order,
  and totals do not depend on the order (`TotalOfOrder`), which gives
  `TotalsExplainBalance`; a strictly ordered ledger has one order by `created_at DESC`
  only, its reverse (`OrderIsReverse`), which gives `LastRowsAreNewest`. TLC checked
  each conjunct on the instance of `member_page` before it was proved.
- *Server* (`ServerTheorems`). `AdminInv` carries what one statement of Bootstrap
  has found to the next: no row for the address before the INSERT, the right
  row before the UPDATE. `SessionInv` says that a row of the store and every copy
  of it in a request depend on age and last use alone: that is why it does not
  matter which of several copies is written last, and why none outlives its limits.

- *Loops* (`TextTheorems`). A recursive function over 0..n is what its loop says
  (`OnlySteps`, `ValueSteps` and the like: `Computable` builds it step by step, and
  `CHOOSE` can only find that one). What a loop keeps or computes for every text
  then follows by induction (from the least counterexample, as for the sums; the
  module shares nothing with the ledger, so it has an `Induction` of its own): a set that holds the empty text, and with each text
  those longer by one, holds all of them (`TextInduction`). Characters that are
  dropped commute with concatenation (`OnlyOfConcat`); what `%d` writes is read as the
  same number (`ValueOfDecimal`).
- *Phone numbers* (`NumbersAreKeys`, `MobileWithCodeIsLost`). `PhoneOK` is the
  inductive invariant: the digits of the field followed by those still to come, cut
  to eleven, are those of the number, cut likewise, and the field is as the
  mask leaves it. The cut is what makes the step hold: each run of the mask cuts, and
  cutting twice with digits added in between is cutting once (`CutAgain`). All keys
  typed, the field holds the first eleven digits; without the country code that is
  the whole number, with it the last digit of a mobile number is gone.
- *Amounts* (`AmountsAreAsTyped`). `AmountOK`: the field is `Shown` of what the keys
  stand for. Mask and parser read back what is shown (`ShownAmount`), one more key
  multiplies by ten and adds (`MaskedAmount`); and the page, which counts digits
  from the left, puts its commas where the form does, which counts characters from
  the right (`FormatIsLocale`).
- *Calendar* (`PeriodsAreCalendar`, `ShownTodayCounts`). Years and months follow
  each other without a gap (`YearsFollow`, `MonthsOfYear`, `MonthsApart`), so every
  day has one year and one month and `Date` finds them (`DateOfDay`): the year of day
  d begins at or before it when it is 2020 + 4d / 1461. The days with the year and
  month of today are those from its first on, and the Monday of a week is the only
  one among the last seven days (`MondayBegins`).

Model-checked only: liveness (`EveryRequestReturns`; fairness and ENABLED are out
of the prover's reach). Of the runs that expect a violation, TLC shows the
counterexample; `MobileWithCodeIsLost` says in addition that it is no accident of
the numbers chosen.

## Not modelled

- The limit of ten logins a minute per address (httprate): it answers before
  anything happens.
- scs and sqlite3store themselves, the HTTP protocol of Aligo, bcrypt, AES-GCM:
  modelled as what the code relies on.
- HTML, HTTP details, message wording, configuration parsing; views without
  state; member and card lists, which are one read each; the four counts and the
  recent rows of the dashboard.
- Kakao, `Verify`, `Get` of the admin service, `IsRecent`, `NowISO`: no caller.
- Durability is taken from SQLite: a COMMIT that returned survives a crash of the
  process (with `synchronous(NORMAL)` it may not survive a power loss).
- `scripts/seed.sql` beyond the members it inserts.

## Plan

1. Done, with proofs: wallet; handlers and messages; cards; migration;
   administrators and sessions; reports; member pages as a refinement; formats and
   calendar.
2. Extend: member lists with sorting, if something ever depends on their order; the
   sums of `Reports` as int64, once a bound on amounts is decided.
