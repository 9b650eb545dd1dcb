---------------------------- MODULE PiiMigration ----------------------------
(***************************************************************************)
(* Names, phone numbers and memos at rest.  The server runs with or        *)
(* without ENCRYPTION_KEY; with it, MigrateEncryption encrypts the rows    *)
(* that are still plain, one UPDATE per row, before the server serves      *)
(* requests.  It stops at the first error (a timeout, a UNIQUE violation), *)
(* and the server goes on with the rows as they are.                       *)
(*                                                                         *)
(* A stored text is a pair: what was typed, and how many times it has been *)
(* encrypted.  EncryptDeterministic makes equal pairs equal ciphertexts,   *)
(* which is what UNIQUE compares.                                          *)
(***************************************************************************)
EXTENDS Integers, FiniteSets

CONSTANTS MemberIDs,  \* ids of members
          Numbers,    \* normalised phone numbers
          Memos,      \* texts of memos
          ListLimit,  \* LIMIT of ListAllMembers
          NoMemo,     \* memo IS NULL
          NoRow       \* no such member

\* Stored texts: layers is how often "enc:" would have to be removed.
Stored(texts) == [text : texts, layers : 0..2]

Row == [name : Stored(MemberIDs), phone : Stored(Numbers),
        memo : Stored(Memos) \cup {NoMemo}]

ASSUME PiiAssumption ==
  /\ NoMemo \notin Stored(Memos)
  /\ NoRow \notin Row
  /\ ListLimit \in Nat \ {0}

VARIABLES rows,    \* rows[m]: the row of members, or NoRow
          used,    \* ids used so far: NewID makes fresh ones
          older,   \* older[m]: the ids used when m was created, whose created_at is less
          key,     \* ENCRYPTION_KEY is set
          server,  \* where main is
          todo     \* of the rows ListAllMembers returned, those still to be looked at

tableVars == <<rows, used, older>>
vars == <<tableVars, key, server, todo>>

Init ==
  /\ rows = [m \in MemberIDs |-> NoRow]
  /\ used = {}
  /\ older = [m \in MemberIDs |-> {}]
  /\ key = FALSE
  /\ server = "down"
  /\ todo = {}

-----------------------------------------------------------------------------
(* crypto.Enc; a nil Enc leaves every text alone.                          *)

Encrypt(stored) == IF key THEN [stored EXCEPT !.layers = @ + 1] ELSE stored

IsEncrypted(stored) == stored.layers > 0

\* Decrypt removes one layer.
Decrypt(stored) ==
  IF key /\ IsEncrypted(stored) THEN [stored EXCEPT !.layers = @ - 1] ELSE stored

Plain(text) == [text |-> text, layers |-> 0]

\* What the pages show of a stored text.
Readable(stored) == Decrypt(stored).layers = 0

\* UNIQUE (phone).
PhoneFree(phone, m) ==
  \A k \in MemberIDs \ {m} : rows[k] # NoRow => rows[k].phone # phone

-----------------------------------------------------------------------------
(* Start of the server.                                                    *)

\* main opens the database and builds crypto.Enc from the configuration.
Boot(withKey) ==
  /\ server = "down"
  /\ key' = withKey
  /\ server' = "list"
  /\ UNCHANGED <<tableVars, todo>>

Members == {m \in MemberIDs : rows[m] # NoRow}

\* ORDER BY created_at DESC LIMIT 500: the members with few newer ones.
Listed ==
  {m \in Members : Cardinality({k \in Members : m \in older[k]}) < ListLimit}

\* Without a key there is nothing to do; with one, ListAllMembers returns the
\* newest rows.
ListAllMembers ==
  /\ server = "list"
  /\ IF key
     THEN /\ todo' = Listed
          /\ server' = "migrating"
     ELSE server' = "serving" /\ UNCHANGED todo
  /\ UNCHANGED <<tableVars, key>>

\* Mutants of AlreadyMigrated: no check at all; a check of another column.
NeverMigrated(row) == FALSE
MigratedByMemo(row) == row.memo # NoMemo /\ IsEncrypted(row.memo)

\* A row counts as migrated when its name is.
AlreadyMigrated(row) == IsEncrypted(row.name)

\* The rows come newest first.
IsNext(m) == m \in todo /\ todo \ {m} \subseteq older[m]

SkipRow(m) ==
  /\ server = "migrating"
  /\ IsNext(m)
  /\ AlreadyMigrated(rows[m])
  /\ todo' = todo \ {m}
  /\ UNCHANGED <<tableVars, key, server>>

\* Mutant of Migrated: the phone is left out.
MigratedNameOnly(row) == [row EXCEPT !.name = Encrypt(@)]

\* Name, phone and memo as MigrateEncryption writes them.
Migrated(row) ==
  [name |-> Encrypt(row.name), phone |-> Encrypt(row.phone),
   memo |-> IF row.memo = NoMemo THEN NoMemo ELSE Encrypt(row.memo)]

MigrateRow(m) ==
  /\ server = "migrating"
  /\ IsNext(m)
  /\ ~AlreadyMigrated(rows[m])
  /\ PhoneFree(Migrated(rows[m]).phone, m)
  /\ rows' = [rows EXCEPT ![m] = Migrated(@)]
  /\ todo' = todo \ {m}
  /\ UNCHANGED <<used, older, key, server>>

MigrationDone ==
  /\ server = "migrating"
  /\ todo = {}
  /\ server' = "serving"
  /\ UNCHANGED <<tableVars, key, todo>>

\* UNIQUE, the ten seconds of migrCtx, or any other error: logged as a warning.
MigrationFails ==
  /\ server \in {"list", "migrating"}
  /\ key
  /\ server' = "serving"
  /\ todo' = {}
  /\ UNCHANGED <<tableVars, key>>

\* The server stops or crashes, wherever it is.
Stop ==
  /\ server # "down"
  /\ server' = "down"
  /\ todo' = {}
  /\ UNCHANGED <<tableVars, key>>

-----------------------------------------------------------------------------
(* Requests.                                                               *)

\* encryptNullStr: an empty memo is NULL.
StoredMemo(memo) == IF memo = NoMemo THEN NoMemo ELSE Encrypt(Plain(memo))

\* MemberService.Create.
Create(m, number, memo) ==
  /\ server = "serving"
  /\ m \notin used
  /\ PhoneFree(Encrypt(Plain(number)), m)
  /\ rows' = [rows EXCEPT ![m] =
                [name |-> Encrypt(Plain(m)), phone |-> Encrypt(Plain(number)),
                 memo |-> StoredMemo(memo)]]
  /\ used' = used \cup {m}
  /\ older' = [older EXCEPT ![m] = used]
  /\ UNCHANGED <<key, server, todo>>

\* Mutant of UpdateMemo: the member that was loaded is saved as a whole.
UpdateMemoSavesAll(m, memo) ==
  /\ server = "serving"
  /\ rows[m] # NoRow
  /\ rows' = [rows EXCEPT ![m] = [name |-> Decrypt(@.name), phone |-> Decrypt(@.phone),
                                 memo |-> StoredMemo(memo)]]
  /\ UNCHANGED <<used, older, key, server, todo>>

\* MemberService.UpdateMemo: the other columns stay as they are.
UpdateMemo(m, memo) ==
  /\ server = "serving"
  /\ rows[m] # NoRow
  /\ rows' = [rows EXCEPT ![m].memo = StoredMemo(memo)]
  /\ UNCHANGED <<used, older, key, server, todo>>

\* MemberService.Delete.
Delete(m) ==
  /\ server = "serving"
  /\ rows[m] # NoRow
  /\ rows' = [rows EXCEPT ![m] = NoRow]
  /\ UNCHANGED <<used, older, key, server, todo>>

Next ==
  \/ \E withKey \in BOOLEAN : Boot(withKey)
  \/ ListAllMembers
  \/ MigrationDone
  \/ MigrationFails
  \/ Stop
  \/ \E m \in MemberIDs :
       \/ SkipRow(m)
       \/ MigrateRow(m)
       \/ \E number \in Numbers, memo \in Memos \cup {NoMemo} : Create(m, number, memo)
       \/ \E memo \in Memos \cup {NoMemo} : UpdateMemo(m, memo)
       \/ Delete(m)

Spec == Init /\ [][Next]_vars

-----------------------------------------------------------------------------
(* Properties.                                                             *)

TypeOK ==
  /\ rows \in [MemberIDs -> Row \cup {NoRow}]
  /\ Members \subseteq used /\ used \subseteq MemberIDs
  /\ older \in [MemberIDs -> SUBSET used]
  /\ \A m, k \in Members : m \in older[k] \/ k \in older[m] \/ m = k
  /\ key \in BOOLEAN
  /\ server \in {"down", "list", "migrating", "serving"}
  /\ todo \subseteq Members

\* However often the migration is cut short, resumed, or run on a mixture of
\* plain and encrypted rows, name and phone of a row go together and are never
\* encrypted twice: with the key they can be read.
NameAndPhoneTogether ==
  \A m \in Members :
    /\ rows[m].name.layers = rows[m].phone.layers
    /\ rows[m].name.layers <= 1

\* The rows that a completed migration has listed are encrypted, whatever
\* earlier attempts had left behind.
CompletedCoversList ==
  [][server = "migrating" /\ server' = "serving" /\ todo = {} =>
       \A m \in Listed : IsEncrypted(rows[m].name) \/ ~key]_vars

\* Once encrypted, a name or a number is never written in the clear again, not
\* even by a server that runs without the key.
NeverWrittenInClear ==
  [][\A m \in MemberIDs :
       rows[m] # NoRow /\ rows'[m] # NoRow =>
         /\ rows[m].name.layers <= rows'[m].name.layers
         /\ rows[m].phone.layers <= rows'[m].phone.layers]_vars

\* member.go:190 says MigrateEncryption encrypts plain records: a server with
\* the key can read every memo afterwards.
MemosStayReadable ==
  \A m \in Members :
    key /\ rows[m].memo # NoMemo => Readable(rows[m].memo)
=============================================================================
