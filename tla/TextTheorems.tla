--------------------------- MODULE TextTheorems ---------------------------
(***************************************************************************)
(* Texts: as they are stored, and as they are typed and shown.             *)
(*                                                                         *)
(* The migration, for any number of members, numbers, starts and stops.    *)
(* A name and a phone number have the same number of layers, one at most;  *)
(* a memo may be ahead of them by the one layer UpdateMemo gives it, and   *)
(* only while they have none.  What ListAllMembers has listed is encrypted *)
(* or still to be looked at.                                               *)
(*                                                                         *)
(* The screens, for every number, amount and moment.  A field holds the    *)
(* first eleven digits that were typed, or the amount they stand for; the  *)
(* calendar has one date for each day.  What the loops of the formats      *)
(* compute is shown by induction over texts and numbers.                   *)
(***************************************************************************)
EXTENDS PiiMigration, Screens, SequenceTheorems, WellFoundedInduction, TLAPS

-----------------------------------------------------------------------------
(* The migration.                                                          *)

\* A row that the migration may be run on.
RowOK(row) ==
  /\ row \in Row
  /\ row.name.layers = row.phone.layers
  /\ row.name.layers <= 1
  /\ row.name.layers = 0 /\ row.memo # NoMemo => row.memo.layers <= 1

RowsOK ==
  /\ rows \in [MemberIDs -> Row \cup {NoRow}]
  /\ \A m \in Members : RowOK(rows[m])

\* Of two members one is older.
OrderOK ==
  /\ Members \subseteq used /\ used \subseteq MemberIDs
  /\ older \in [MemberIDs -> SUBSET used]
  /\ \A m, k \in Members : m \in older[k] \/ k \in older[m] \/ m = k

\* Of the rows listed, those that are not encrypted are still to be looked at.
TodoOK ==
  /\ todo \subseteq Members
  /\ server # "migrating" => todo = {}
  /\ server = "migrating" =>
       /\ key
       /\ \A m \in Listed : IsEncrypted(rows[m].name) \/ m \in todo

\* The inductive invariant.
PiiInv ==
  /\ RowsOK
  /\ OrderOK
  /\ TodoOK
  /\ key \in BOOLEAN
  /\ server \in {"down", "list", "migrating", "serving"}

-----------------------------------------------------------------------------
(* Texts and rows.                                                         *)

\* With the key Encrypt adds a layer, without it nothing.
LEMMA EncryptLayers ==
  ASSUME NEW T, NEW stored \in Stored(T), stored.layers <= 1, key \in BOOLEAN
  PROVE  /\ Encrypt(stored) \in Stored(T)
         /\ Encrypt(stored).layers = IF key THEN stored.layers + 1 ELSE stored.layers
  BY DEF Encrypt, Stored

\* A text as it was typed has no layer.
LEMMA PlainLayers ==
  ASSUME NEW T, NEW text \in T
  PROVE  Plain(text) \in Stored(T) /\ Plain(text).layers = 0
  BY DEF Plain, Stored

\* A memo is stored with one layer at most.
LEMMA MemoLayers ==
  ASSUME NEW memo \in Memos \cup {NoMemo}, key \in BOOLEAN
  PROVE  /\ StoredMemo(memo) \in Stored(Memos) \cup {NoMemo}
         /\ StoredMemo(memo) # NoMemo => StoredMemo(memo).layers <= 1
<1>1. CASE memo = NoMemo
  BY <1>1 DEF StoredMemo
<1>2. CASE memo # NoMemo
  <2>1. Plain(memo) \in Stored(Memos) /\ Plain(memo).layers = 0
    BY <1>2, PlainLayers
  <2>2. /\ Encrypt(Plain(memo)) \in Stored(Memos)
        /\ Encrypt(Plain(memo)).layers <= 1
    BY <2>1, EncryptLayers
  <2>3. QED
    BY <1>2, <2>2 DEF StoredMemo
<1>3. QED
  BY <1>1, <1>2

\* MigrateEncryption encrypts name and phone of a plain row, both.
LEMMA MigratedRow ==
  ASSUME NEW row, RowOK(row), ~AlreadyMigrated(row), key = TRUE
  PROVE  RowOK(Migrated(row)) /\ Migrated(row).name.layers = 1
<1>1. /\ row.name \in Stored(MemberIDs) /\ row.phone \in Stored(Numbers)
      /\ row.memo \in Stored(Memos) \cup {NoMemo}
  BY DEF RowOK, Row
<1>2. row.name.layers = 0 /\ row.phone.layers = 0
  BY <1>1 DEF RowOK, AlreadyMigrated, IsEncrypted, Stored
<1>3. /\ Encrypt(row.name) \in Stored(MemberIDs) /\ Encrypt(row.name).layers = 1
      /\ Encrypt(row.phone) \in Stored(Numbers) /\ Encrypt(row.phone).layers = 1
  BY <1>1, <1>2, EncryptLayers
<1>4. row.memo # NoMemo => Encrypt(row.memo) \in Stored(Memos)
  <2> SUFFICES ASSUME row.memo # NoMemo PROVE Encrypt(row.memo) \in Stored(Memos)
    OBVIOUS
  <2>1. row.memo \in Stored(Memos) /\ row.memo.layers <= 1
    BY <1>1, <1>2 DEF RowOK
  <2>2. QED
    BY <2>1, EncryptLayers
<1>5. QED
  BY <1>3, <1>4 DEF Migrated, RowOK, Row

\* The row of a new member.
LEMMA CreatedRow ==
  ASSUME NEW m \in MemberIDs, NEW number \in Numbers, NEW memo \in Memos \cup {NoMemo},
         key \in BOOLEAN
  PROVE  RowOK([name |-> Encrypt(Plain(m)), phone |-> Encrypt(Plain(number)),
                memo |-> StoredMemo(memo)])
<1>1. /\ Plain(m) \in Stored(MemberIDs) /\ Plain(m).layers = 0
      /\ Plain(number) \in Stored(Numbers) /\ Plain(number).layers = 0
  BY PlainLayers
<1>2. /\ Encrypt(Plain(m)) \in Stored(MemberIDs)
      /\ Encrypt(Plain(number)) \in Stored(Numbers)
      /\ Encrypt(Plain(m)).layers = Encrypt(Plain(number)).layers
      /\ Encrypt(Plain(m)).layers <= 1
  BY <1>1, EncryptLayers
<1>3. QED
  BY <1>2, MemoLayers DEF RowOK, Row

\* A row with another memo.
LEMMA UpdatedRow ==
  ASSUME NEW row, RowOK(row), NEW memo \in Memos \cup {NoMemo}, key \in BOOLEAN
  PROVE  RowOK([row EXCEPT !.memo = StoredMemo(memo)])
  BY MemoLayers DEF RowOK, Row

\* One row is replaced by a row.
LEMMA RowReplaced ==
  ASSUME RowsOK, NEW m \in MemberIDs, NEW row, RowOK(row),
         rows' = [rows EXCEPT ![m] = row]
  PROVE  RowsOK' /\ Members' = Members \cup {m} /\ rows'[m] = row
<1>1. row \in Row /\ row # NoRow
  BY PiiAssumption DEF RowOK
<1>2. rows' \in [MemberIDs -> Row \cup {NoRow}]
  BY <1>1 DEF RowsOK
<1>3. \A k \in MemberIDs : rows'[k] = IF k = m THEN row ELSE rows[k]
  BY DEF RowsOK
<1>4. Members' = Members \cup {m}
  BY <1>1, <1>3 DEF Members
<1>5. \A k \in Members' : RowOK(rows'[k])
  BY <1>3, <1>4 DEF RowsOK, Members
<1>6. QED
  BY <1>2, <1>3, <1>4, <1>5 DEF RowsOK, RowOK

-----------------------------------------------------------------------------
(* Steps.                                                                  *)

\* Nothing but the migration looks at todo.
LEMMA Untouched ==
  ASSUME PiiInv, server # "migrating", server' # "migrating", todo' = {},
         server' \in {"down", "list", "serving"}, key' \in BOOLEAN,
         RowsOK', OrderOK'
  PROVE  PiiInv'
  BY DEF PiiInv, TodoOK

\* A start, a list that is empty or fails, the end of a migration, a stop.
LEMMA ServerKeeps ==
  ASSUME PiiInv,
         UNCHANGED tableVars, key' \in BOOLEAN, todo' = {},
         server' \in {"down", "list", "serving"}
  PROVE  PiiInv'
<1>1. RowsOK' /\ OrderOK' /\ Members' = Members
  BY DEF PiiInv, tableVars, RowsOK, RowOK, OrderOK, Members
<1>2. QED
  BY <1>1 DEF PiiInv, TodoOK

\* The migration begins, with every row it has listed to be looked at.
LEMMA ListKeeps == PiiInv /\ ListAllMembers => PiiInv'
<1> SUFFICES ASSUME PiiInv, ListAllMembers PROVE PiiInv'
  OBVIOUS
<1>1. CASE ~key
  <2>1. UNCHANGED <<tableVars, key, todo>> /\ server' = "serving" /\ todo = {}
    BY <1>1 DEF ListAllMembers, PiiInv, TodoOK
  <2>2. QED
    BY <2>1, ServerKeeps DEF PiiInv
<1>2. CASE key
  <2>1. /\ todo' = Listed /\ server' = "migrating"
        /\ UNCHANGED <<rows, used, older, key>>
    BY <1>2 DEF ListAllMembers, tableVars
  <2>2. RowsOK' /\ OrderOK' /\ Members' = Members /\ Listed' = Listed
    BY <2>1 DEF PiiInv, RowsOK, RowOK, OrderOK, Members, Listed
  <2>3. TodoOK'
    BY <1>2, <2>1, <2>2 DEF TodoOK, Listed
  <2>4. QED
    BY <2>1, <2>2, <2>3 DEF PiiInv
<1>3. QED
  BY <1>1, <1>2

\* A row is dropped from todo once it is encrypted; the others stay.
LEMMA TodoAdvances ==
  ASSUME PiiInv, server = "migrating", NEW m, todo' = todo \ {m},
         UNCHANGED <<used, older, key, server>>, RowsOK', Members' = Members,
         IsEncrypted(rows'[m].name),
         \A k \in Members \ {m} : rows'[k] = rows[k]
  PROVE  PiiInv'
<1>1. OrderOK' /\ Listed' = Listed
  BY DEF PiiInv, OrderOK, Listed
<1>2. Listed \subseteq Members
  BY DEF Listed
<1>3. TodoOK'
  BY <1>1, <1>2 DEF PiiInv, TodoOK
<1>4. QED
  BY <1>1, <1>3 DEF PiiInv

\* A row that is encrypted already is passed over.
LEMMA SkipKeeps ==
  ASSUME PiiInv, NEW m \in MemberIDs, SkipRow(m)
  PROVE  PiiInv'
<1>1. UNCHANGED <<rows, used, older, key, server>>
  BY DEF SkipRow, tableVars
<1>2. RowsOK' /\ Members' = Members
  BY <1>1 DEF PiiInv, RowsOK, RowOK, Members
<1>3. /\ IsEncrypted(rows'[m].name)
      /\ server = "migrating" /\ todo' = todo \ {m}
  BY <1>1 DEF SkipRow, AlreadyMigrated
<1>4. QED
  BY <1>1, <1>2, <1>3, TodoAdvances

\* One UPDATE of the migration.
LEMMA MigrateKeeps ==
  ASSUME PiiInv, NEW m \in MemberIDs, MigrateRow(m)
  PROVE  PiiInv'
<1>1. /\ server = "migrating" /\ todo' = todo \ {m} /\ m \in todo
      /\ ~AlreadyMigrated(rows[m])
      /\ rows' = [rows EXCEPT ![m] = Migrated(rows[m])]
      /\ UNCHANGED <<used, older, key, server>>
  BY DEF MigrateRow, IsNext
<1>2. m \in Members /\ RowOK(rows[m]) /\ key = TRUE
  BY <1>1 DEF PiiInv, RowsOK, TodoOK
<1>3. RowOK(Migrated(rows[m])) /\ Migrated(rows[m]).name.layers = 1
  BY <1>1, <1>2, MigratedRow
<1>4. RowsOK' /\ Members' = Members \cup {m} /\ rows'[m] = Migrated(rows[m])
  BY <1>1, <1>3, RowReplaced DEF PiiInv
<1>5. Members' = Members
  BY <1>2, <1>4
<1>6. IsEncrypted(rows'[m].name)
  BY <1>3, <1>4 DEF IsEncrypted
<1>7. \A k \in Members \ {m} : rows'[k] = rows[k]
  BY <1>1 DEF PiiInv, RowsOK, Members
<1>8. QED
  BY <1>1, <1>4, <1>5, <1>6, <1>7, TodoAdvances

\* A new member.
LEMMA CreateKeeps ==
  ASSUME PiiInv, NEW m \in MemberIDs, NEW number \in Numbers,
         NEW memo \in Memos \cup {NoMemo}, Create(m, number, memo)
  PROVE  PiiInv'
<1> DEFINE row == [name |-> Encrypt(Plain(m)), phone |-> Encrypt(Plain(number)),
                   memo |-> StoredMemo(memo)]
<1>1. RowOK(row)
  BY CreatedRow DEF PiiInv
<1>2. rows' = [rows EXCEPT ![m] = row]
  BY DEF Create
<1>3. RowsOK' /\ Members' = Members \cup {m}
  BY <1>1, <1>2, RowReplaced DEF PiiInv
<1>4. /\ m \notin used
      /\ used' = used \cup {m} /\ older' = [older EXCEPT ![m] = used]
  BY DEF Create
<1>5. OrderOK'
  <2>1. /\ Members' \subseteq used' /\ used' \subseteq MemberIDs
        /\ older' \in [MemberIDs -> SUBSET used']
    BY <1>3, <1>4 DEF PiiInv, OrderOK
  <2>2. \A k \in MemberIDs : older'[k] = IF k = m THEN used ELSE older[k]
    BY <1>4 DEF PiiInv, OrderOK
  <2>3. \A h, k \in Members' : h \in older'[k] \/ k \in older'[h] \/ h = k
    BY <1>3, <1>4, <2>2 DEF PiiInv, OrderOK, Members
  <2>4. QED
    BY <2>1, <2>3 DEF OrderOK
<1>6. server = "serving" /\ UNCHANGED <<key, server, todo>>
  BY DEF Create
<1>7. QED
  BY <1>3, <1>5, <1>6, Untouched DEF PiiInv, TodoOK

\* Another memo.
LEMMA UpdateKeeps ==
  ASSUME PiiInv, NEW m \in MemberIDs, NEW memo \in Memos \cup {NoMemo}, UpdateMemo(m, memo)
  PROVE  PiiInv'
<1>1. /\ server = "serving" /\ rows[m] # NoRow /\ m \in Members
      /\ rows' = [rows EXCEPT ![m] = [rows[m] EXCEPT !.memo = StoredMemo(memo)]]
      /\ UNCHANGED <<used, older, key, server, todo>>
  BY DEF UpdateMemo, Members, PiiInv, RowsOK
<1> DEFINE row == [rows[m] EXCEPT !.memo = StoredMemo(memo)]
<1>2. RowOK(row)
  BY <1>1, UpdatedRow DEF PiiInv, RowsOK
<1>3. RowsOK' /\ Members' = Members
  <2>1. rows' = [rows EXCEPT ![m] = row]
    BY <1>1
  <2> HIDE DEF row
  <2>2. RowsOK' /\ Members' = Members \cup {m}
    BY <1>2, <2>1, RowReplaced DEF PiiInv
  <2>3. QED
    BY <1>1, <2>2
<1>4. OrderOK'
  BY <1>1, <1>3 DEF PiiInv, OrderOK
<1>5. QED
  BY <1>1, <1>3, <1>4, Untouched DEF PiiInv, TodoOK

\* A member who goes.
LEMMA DeleteKeeps ==
  ASSUME PiiInv, NEW m \in MemberIDs, Delete(m)
  PROVE  PiiInv'
<1>1. /\ server = "serving" /\ rows' = [rows EXCEPT ![m] = NoRow]
      /\ UNCHANGED <<used, older, key, server, todo>>
  BY DEF Delete
<1>2. /\ rows' \in [MemberIDs -> Row \cup {NoRow}]
      /\ \A k \in MemberIDs : rows'[k] = IF k = m THEN NoRow ELSE rows[k]
  BY <1>1 DEF PiiInv, RowsOK
<1>3. Members' = Members \ {m}
  BY <1>2 DEF Members
<1>4. RowsOK'
  BY <1>2, <1>3 DEF PiiInv, RowsOK, RowOK, Members
<1>5. OrderOK'
  BY <1>1, <1>3 DEF PiiInv, OrderOK
<1>6. QED
  BY <1>1, <1>4, <1>5, Untouched DEF PiiInv, TodoOK

-----------------------------------------------------------------------------
(* Theorems.                                                               *)

\* No rows, to begin with.
LEMMA PiiStarts == Init => PiiInv
<1> SUFFICES ASSUME Init PROVE PiiInv
  OBVIOUS
<1>1. Members = {}
  BY DEF Init, Members
<1>2. RowsOK
  BY <1>1 DEF Init, RowsOK
<1>3. OrderOK
  BY <1>1 DEF Init, OrderOK
<1>4. TodoOK
  BY DEF Init, TodoOK
<1>5. QED
  BY <1>2, <1>3, <1>4 DEF Init, PiiInv

\* Every step keeps it.
LEMMA PiiStep == PiiInv /\ [Next]_vars => PiiInv'
<1> SUFFICES ASSUME PiiInv, [Next]_vars PROVE PiiInv'
  OBVIOUS
<1>1. ASSUME NEW withKey \in BOOLEAN, Boot(withKey) PROVE PiiInv'
  <2>1. todo = {}
    BY <1>1 DEF Boot, PiiInv, TodoOK
  <2>2. QED
    BY <1>1, <2>1, ServerKeeps DEF Boot
<1>2. CASE MigrationDone
  BY <1>2, ServerKeeps DEF MigrationDone, PiiInv
<1>3. CASE MigrationFails
  BY <1>3, ServerKeeps DEF MigrationFails, PiiInv
<1>4. CASE Stop
  BY <1>4, ServerKeeps DEF Stop, PiiInv
<1>5. CASE UNCHANGED vars
  BY <1>5 DEF vars, tableVars, PiiInv, RowsOK, RowOK, OrderOK, TodoOK, Members, Listed, IsEncrypted
<1>6. QED
  BY <1>1, <1>2, <1>3, <1>4, <1>5, ListKeeps, SkipKeeps, MigrateKeeps, CreateKeeps,
     UpdateKeeps, DeleteKeeps DEF Next

\* The inductive invariant, over every sequence of starts, stops, cut
\* migrations and requests.
THEOREM PiiInvariant == Spec => []PiiInv
  BY PiiStarts, PiiStep, PTL DEF Spec

\* Types (MigrateEncryption never makes a third layer); of two
\* members one is older.
THEOREM PiiTypes == Spec => []TypeOK
<1>1. PiiInv => TypeOK
  BY DEF PiiInv, RowsOK, OrderOK, TodoOK, TypeOK
<1>2. QED
  BY <1>1, PiiInvariant, PTL

\* Name and phone of every row are both plain or both encrypted once, wherever
\* MigrateEncryption was cut off.
THEOREM PiiNameAndPhone == Spec => []NameAndPhoneTogether
<1>1. PiiInv => NameAndPhoneTogether
  BY DEF PiiInv, RowsOK, RowOK, NameAndPhoneTogether
<1>2. QED
  BY <1>1, PiiInvariant, PTL

\* A migration that comes to its end has encrypted every row it has listed.
THEOREM PiiCompletedCoversList == Spec => CompletedCoversList
<1>1. ASSUME PiiInv, server = "migrating", todo = {}
      PROVE  \A m \in Listed : IsEncrypted(rows[m].name) \/ ~key
  BY <1>1 DEF PiiInv, TodoOK
<1>2. PiiInv /\ [Next]_vars =>
        [server = "migrating" /\ server' = "serving" /\ todo = {} =>
           \A m \in Listed : IsEncrypted(rows[m].name) \/ ~key]_vars
  BY <1>1
<1>3. QED
  BY <1>2, PiiInvariant, PTL DEF Spec, CompletedCoversList

\* No step takes a layer off a name or a number.
LEMMA StepAddsLayers ==
  ASSUME PiiInv, Next
  PROVE  \A m \in MemberIDs :
           rows[m] # NoRow /\ rows'[m] # NoRow =>
             /\ rows[m].name.layers <= rows'[m].name.layers
             /\ rows[m].phone.layers <= rows'[m].phone.layers
<1> SUFFICES ASSUME NEW m \in MemberIDs, rows[m] # NoRow, rows'[m] # NoRow
             PROVE  /\ rows[m].name.layers <= rows'[m].name.layers
                    /\ rows[m].phone.layers <= rows'[m].phone.layers
  OBVIOUS
<1>1. m \in Members /\ RowOK(rows[m]) /\ rows \in [MemberIDs -> Row \cup {NoRow}]
  BY DEF PiiInv, RowsOK, Members
<1>2. rows[m].name.layers \in 0..2 /\ rows[m].phone.layers \in 0..2
  BY <1>1 DEF RowOK, Row, Stored
<1>3. CASE rows' = rows
  BY <1>2, <1>3
<1>4. ASSUME NEW k \in MemberIDs, MigrateRow(k)
      PROVE  /\ rows[m].name.layers <= rows'[m].name.layers
             /\ rows[m].phone.layers <= rows'[m].phone.layers
  <2>1. /\ rows' = [rows EXCEPT ![k] = Migrated(rows[k])]
        /\ server = "migrating" /\ ~AlreadyMigrated(rows[k])
    BY <1>4 DEF MigrateRow
  <2>2. CASE m = k
    <3>1. RowOK(Migrated(rows[m])) /\ Migrated(rows[m]).name.layers = 1
      BY <1>1, <2>1, <2>2, MigratedRow DEF PiiInv, TodoOK
    <3>2. rows'[m] = Migrated(rows[m])
      BY <1>1, <2>1, <2>2
    <3>3. QED
      BY <1>1, <1>2, <3>1, <3>2 DEF RowOK
  <2>3. CASE m # k
    BY <1>1, <1>2, <2>1, <2>3
  <2>4. QED
    BY <2>2, <2>3
<1>5. ASSUME NEW k \in MemberIDs, NEW number \in Numbers, NEW memo \in Memos \cup {NoMemo},
             Create(k, number, memo)
      PROVE  rows'[m] = rows[m]
  <2>1. k # m
    BY <1>1, <1>5 DEF Create, PiiInv, OrderOK
  <2>2. QED
    BY <1>1, <1>5, <2>1 DEF Create
<1>6. ASSUME NEW k \in MemberIDs, NEW memo \in Memos \cup {NoMemo}, UpdateMemo(k, memo)
      PROVE  rows'[m].name = rows[m].name /\ rows'[m].phone = rows[m].phone
  BY <1>1, <1>6 DEF UpdateMemo, RowOK, Row
<1>7. ASSUME NEW k \in MemberIDs, Delete(k)
      PROVE  rows'[m] = rows[m]
  BY <1>1, <1>7 DEF Delete
<1>8. (\E withKey \in BOOLEAN : Boot(withKey)) \/ ListAllMembers
        \/ (\E k \in MemberIDs : SkipRow(k))
        \/ MigrationDone \/ MigrationFails \/ Stop => rows' = rows
  BY DEF Boot, ListAllMembers, SkipRow, MigrationDone, MigrationFails, Stop, tableVars
<1>9. QED
  BY <1>2, <1>3, <1>4, <1>5, <1>6, <1>7, <1>8 DEF Next

\* Once encrypted, never written in the clear again, by no server with or
\* without the key.
THEOREM PiiNeverWrittenInClear == Spec => NeverWrittenInClear
<1>1. PiiInv /\ [Next]_vars =>
        [\A m \in MemberIDs :
           rows[m] # NoRow /\ rows'[m] # NoRow =>
             /\ rows[m].name.layers <= rows'[m].name.layers
             /\ rows[m].phone.layers <= rows'[m].phone.layers]_vars
  BY StepAddsLayers
<1>2. QED
  BY <1>1, PiiInvariant, PTL DEF Spec, NeverWrittenInClear

-----------------------------------------------------------------------------
(* Induction, and functions that are computed from left to right.          *)

\* A set that holds 0, and n + 1 with every n, holds every number.
LEMMA Induction ==
  ASSUME NEW T, 0 \in T, \A n \in Nat : n \in T => n + 1 \in T
  PROVE  Nat \subseteq T
<1> SUFFICES ASSUME NEW k \in Nat, k \notin T PROVE FALSE
  OBVIOUS
<1> DEFINE missing == {n \in Nat : n \notin T}
           R == OpToRel(<, Nat)
<1>1. IsWellFoundedOn(R, Nat)
  BY NatLessThanWellFounded
<1>2. missing \subseteq Nat /\ missing # {}
  OBVIOUS
<1> HIDE DEF missing
<1>3. PICK n \in missing : \A i \in missing : ~ (<<i, n>> \in R)
  BY <1>1, <1>2, WFMin
<1>4. \A i \in missing : ~ (i < n)
  BY <1>2, <1>3 DEF OpToRel
<1>5. n # 0 /\ n - 1 \in Nat /\ n - 1 \notin missing
  BY <1>4 DEF missing
<1>6. (n - 1) + 1 \in T
  BY <1>5 DEF missing
<1>7. QED
  BY <1>5, <1>6 DEF missing

\* g goes through the steps from base on.
Goes(g, n, base, step) ==
  \A i \in 0..n : g[i] = IF i = 0 THEN base ELSE step[i][g[i - 1]]

\* Some function does.
LEMMA Computable ==
  ASSUME NEW S, NEW N \in Nat, NEW base \in S, NEW step,
         \A i \in 1..N : \A t \in S : step[i][t] \in S
  PROVE  \E g \in [0..N -> S] : Goes(g, N, base, step)
<1> DEFINE T == {n \in Nat : n <= N => \E g \in [0..n -> S] : Goes(g, n, base, step)}
<1>1. 0 \in T
  <2> DEFINE g == [i \in 0..0 |-> base]
  <2>1. g \in [0..0 -> S] /\ Goes(g, 0, base, step)
    BY DEF Goes
  <2> HIDE DEF g
  <2>2. QED
    BY <2>1
<1>2. ASSUME NEW n \in Nat, n \in T PROVE n + 1 \in T
  <2> SUFFICES ASSUME n + 1 <= N PROVE \E g \in [0..(n + 1) -> S] : Goes(g, n + 1, base, step)
    OBVIOUS
  <2>1. PICK h \in [0..n -> S] : Goes(h, n, base, step)
    BY <1>2
  <2> DEFINE last == step[n + 1][h[n]]
             g == [i \in 0..(n + 1) |-> IF i = n + 1 THEN last ELSE h[i]]
  <2>2. last \in S
    OBVIOUS
  <2> HIDE DEF last
  <2>3. /\ \A i \in 0..n : g[i] = h[i]
        /\ g[n + 1] = last /\ g \in [0..(n + 1) -> S]
    BY <2>2
  <2> HIDE DEF g
  <2>4. ASSUME NEW i \in 0..(n + 1)
        PROVE  g[i] = IF i = 0 THEN base ELSE step[i][g[i - 1]]
    <3>1. CASE i = n + 1
      <4>1. i # 0 /\ i - 1 = n /\ g[i - 1] = h[n]
        BY <2>3, <3>1
      <4>2. QED
        BY <2>3, <3>1, <4>1 DEF last
    <3>2. CASE i \in 0..n
      <4>1. i # 0 => i - 1 \in 0..n
        BY <3>2
      <4>2. g[i] = h[i] /\ (i # 0 => g[i - 1] = h[i - 1])
        BY <2>3, <3>2, <4>1
      <4>3. QED
        BY <2>1, <3>2, <4>2 DEF Goes
    <3>3. QED
      BY <3>1, <3>2
  <2>5. QED
    BY <2>3, <2>4 DEF Goes
<1>3. Nat \subseteq T
  <2> HIDE DEF T
  <2>1. QED
    BY <1>1, <1>2, Induction
<1>4. N \in T
  BY <1>3
<1>5. QED
  BY <1>4

\* g and h begin alike and go on alike.
Alike(g, h, N) ==
  g[0] = h[0] /\ \A i \in 1..N : g[i - 1] = h[i - 1] => g[i] = h[i]

\* They end alike.
LEMMA SameSteps ==
  ASSUME NEW N \in Nat, NEW g, NEW h, Alike(g, h, N)
  PROVE  g[N] = h[N]
<1> DEFINE T == {n \in Nat : n <= N => g[n] = h[n]}
<1>1. 0 \in T
  BY DEF Alike
<1>2. ASSUME NEW n \in Nat, n \in T PROVE n + 1 \in T
  <2> SUFFICES ASSUME n + 1 <= N PROVE g[n + 1] = h[n + 1]
    OBVIOUS
  <2>1. g[n] = h[n] /\ n + 1 \in 1..N /\ (n + 1) - 1 = n
    BY <1>2
  <2>2. QED
    BY <2>1 DEF Alike
<1> HIDE DEF T
<1>3. Nat \subseteq T
  BY <1>1, <1>2, Induction
<1>4. QED
  BY <1>3 DEF T

-----------------------------------------------------------------------------
(* The characters of a text that are kept.                                 *)

\* g is only, of Only.
KeepsOnly(g, text, kept) ==
  /\ g[0] = <<>>
  /\ \A i \in 1..Len(text) :
       g[i] = IF text[i] \in kept THEN Append(g[i - 1], text[i]) ELSE g[i - 1]

\* Only computes what its loop says.
LEMMA OnlySteps ==
  ASSUME NEW C, NEW text \in Seq(C), NEW kept
  PROVE  \E g : Only(text, kept) = g[Len(text)] /\ KeepsOnly(g, text, kept)
<1> DEFINE N == Len(text)
           F(g) == [n \in 0..N |->
                      IF n = 0 THEN <<>>
                      ELSE IF text[n] \in kept THEN Append(g[n - 1], text[n]) ELSE g[n - 1]]
           step == [i \in 1..N |-> [t \in Seq(C) |->
                      IF text[i] \in kept THEN Append(t, text[i]) ELSE t]]
<1>1. N \in Nat /\ <<>> \in Seq(C) /\ \A i \in 1..N : \A t \in Seq(C) : step[i][t] \in Seq(C)
  <2>1. N \in Nat /\ \A i \in 1..N : text[i] \in C
    OBVIOUS
  <2>2. \A i \in 1..N, t \in Seq(C) :
          (IF text[i] \in kept THEN Append(t, text[i]) ELSE t) \in Seq(C)
    BY <2>1
  <2>3. QED
    BY <2>1, <2>2
<1>2. PICK h \in [0..N -> Seq(C)] :
        \A i \in 0..N : h[i] = IF i = 0 THEN <<>> ELSE step[i][h[i - 1]]
  <2> DEFINE S == Seq(C)
             none == <<>>
  <2>1. N \in Nat /\ none \in S /\ \A i \in 1..N : \A t \in S : step[i][t] \in S
    BY <1>1
  <2> HIDE DEF S, N, step, none
  <2>2. \E h \in [0..N -> S] : Goes(h, N, none, step)
    BY <2>1, Computable
  <2>3. QED
    BY <2>2 DEF S, none, Goes
<1>3. h = F(h)
  <2>1. \A i \in 0..N : i # 0 => i - 1 \in 0..N /\ i \in 1..N /\ h[i - 1] \in Seq(C)
    BY <1>1
  <2>2. \A i \in 0..N : h[i] = F(h)[i]
    BY <1>2, <2>1
  <2>3. QED
    BY <2>2
<1> DEFINE g == CHOOSE f : f = F(f)
<1>4. g = F(g)
  BY <1>3
<1>5. Only(text, kept) = g[N]
  BY DEF Only
<1> HIDE DEF g
<1>6. g[0] = <<>> /\ \A i \in 1..N :
        g[i] = IF text[i] \in kept THEN Append(g[i - 1], text[i]) ELSE g[i - 1]
  <2>1. \A i \in 0..N : g[i] = F(g)[i]
    BY <1>4
  <2>2. 0 \in 0..N /\ \A i \in 1..N : i \in 0..N /\ i # 0
    BY <1>1
  <2>3. \A i \in 0..N :
          F(g)[i] = IF i = 0 THEN <<>>
                    ELSE IF text[i] \in kept THEN Append(g[i - 1], text[i]) ELSE g[i - 1]
    OBVIOUS
  <2> HIDE DEF F
  <2>4. QED
    BY <2>1, <2>2, <2>3
<1>7. QED
  BY <1>5, <1>6 DEF KeepsOnly

\* Nothing is left of an empty text.
LEMMA OnlyOfNone ==
  ASSUME NEW kept
  PROVE  Only(<<>>, kept) = <<>>
<1> DEFINE none == <<>>
           C == {}
<1>1. none \in Seq(C) /\ Len(none) = 0
  OBVIOUS
<1> HIDE DEF none, C
<1>2. PICK g : Only(none, kept) = g[Len(none)] /\ KeepsOnly(g, none, kept)
  BY <1>1, OnlySteps
<1>3. QED
  BY <1>1, <1>2 DEF none, KeepsOnly

\* One more character.
LEMMA OnlyOfAppend ==
  ASSUME NEW C, NEW text \in Seq(C), NEW c \in C, NEW kept
  PROVE  Only(Append(text, c), kept) =
           IF c \in kept THEN Append(Only(text, kept), c) ELSE Only(text, kept)
<1> DEFINE longer == Append(text, c)
           N == Len(text)
<1>1. /\ longer \in Seq(C) /\ Len(longer) = N + 1 /\ N \in Nat
      /\ longer[N + 1] = c
      /\ \A i \in 1..N : longer[i] = text[i]
  OBVIOUS
<1> HIDE DEF longer
<1>2. PICK g : Only(longer, kept) = g[Len(longer)] /\ KeepsOnly(g, longer, kept)
  BY <1>1, OnlySteps
<1>3. PICK h : Only(text, kept) = h[N] /\ KeepsOnly(h, text, kept)
  BY OnlySteps
<1>4. Alike(g, h, N)
  BY <1>1, <1>2, <1>3 DEF KeepsOnly, Alike
<1>5. g[N] = h[N]
  BY <1>1, <1>4, SameSteps
<1>6. g[N + 1] = IF c \in kept THEN Append(g[N], c) ELSE g[N]
  <2>1. N + 1 \in 1..Len(longer) /\ (N + 1) - 1 = N
    BY <1>1
  <2>2. QED
    BY <1>1, <1>2, <2>1 DEF KeepsOnly
<1>7. QED
  BY <1>1, <1>2, <1>3, <1>5, <1>6 DEF longer

\* A set of texts that holds the empty one, and with each the longer ones.
LEMMA TextInduction ==
  ASSUME NEW S, NEW X, <<>> \in X,
         \A s \in Seq(S) : s \in X => \A e \in S : Append(s, e) \in X
  PROVE  Seq(S) \subseteq X
<1> DEFINE T == {n \in Nat : \A s \in Seq(S) : Len(s) = n => s \in X}
<1>1. 0 \in T
  OBVIOUS
<1>2. ASSUME NEW n \in Nat, n \in T PROVE n + 1 \in T
  <2> SUFFICES ASSUME NEW s \in Seq(S), Len(s) = n + 1 PROVE s \in X
    OBVIOUS
  <2>1. PICK front \in Seq(S), e \in S : s = Append(front, e)
    <3>1. s # <<>>
      OBVIOUS
    <3>2. QED
      BY <3>1, SequenceEmptyOrAppend
  <2>2. Len(front) = n
    BY <2>1
  <2>3. QED
    BY <1>2, <2>1, <2>2
<1> HIDE DEF T
<1>3. Nat \subseteq T
  BY <1>1, <1>2, Induction
<1>4. QED
  BY <1>3 DEF T

\* What is left is a text of the characters that are kept.
LEMMA OnlyType ==
  ASSUME NEW C, NEW text \in Seq(C), NEW kept
  PROVE  Only(text, kept) \in Seq(C \cap kept)
<1> DEFINE X == {t \in Seq(C) : Only(t, kept) \in Seq(C \cap kept)}
<1>1. <<>> \in X
  <2>1. <<>> \in Seq(C) /\ <<>> \in Seq(C \cap kept)
    OBVIOUS
  <2>2. QED
    BY <2>1, OnlyOfNone
<1>2. ASSUME NEW s \in Seq(C), s \in X, NEW e \in C PROVE Append(s, e) \in X
  <2>1. Only(Append(s, e), kept) =
          IF e \in kept THEN Append(Only(s, kept), e) ELSE Only(s, kept)
    BY OnlyOfAppend
  <2>2. Only(s, kept) \in Seq(C \cap kept)
    BY <1>2
  <2>3. e \in kept => Append(Only(s, kept), e) \in Seq(C \cap kept)
    <3> DEFINE o == Only(s, kept)
               K == C \cap kept
    <3>1. o \in Seq(K) /\ (e \in kept => e \in K)
      BY <2>2
    <3> HIDE DEF o, K
    <3>2. e \in kept => Append(o, e) \in Seq(K)
      BY <3>1
    <3>3. QED
      BY <3>2 DEF o, K
  <2>4. Append(s, e) \in Seq(C)
    OBVIOUS
  <2>5. QED
    BY <2>1, <2>2, <2>3, <2>4
<1> HIDE DEF X
<1>3. Seq(C) \subseteq X
  BY <1>1, <1>2, TextInduction
<1>4. QED
  BY <1>3 DEF X

\* A text of such characters alone is left as it is.
LEMMA OnlyOfKept ==
  ASSUME NEW kept, NEW text \in Seq(kept)
  PROVE  Only(text, kept) = text
<1> DEFINE X == {t \in Seq(kept) : Only(t, kept) = t}
<1>1. <<>> \in X
  BY OnlyOfNone
<1>2. ASSUME NEW s \in Seq(kept), s \in X, NEW e \in kept PROVE Append(s, e) \in X
  <2>1. Only(Append(s, e), kept) = Append(Only(s, kept), e)
    BY OnlyOfAppend
  <2>2. QED
    BY <1>2, <2>1
<1> HIDE DEF X
<1>3. Seq(kept) \subseteq X
  BY <1>1, <1>2, TextInduction
<1>4. QED
  BY <1>3 DEF X

\* A text of two parts.
LEMMA OnlyOfConcat ==
  ASSUME NEW C, NEW s \in Seq(C), NEW t \in Seq(C), NEW kept
  PROVE  Only(s \o t, kept) = Only(s, kept) \o Only(t, kept)
<1> DEFINE X == {u \in Seq(C) : Only(s \o u, kept) = Only(s, kept) \o Only(u, kept)}
           K == C \cap kept
<1> HIDE DEF K
<1>0. Only(s, kept) \in Seq(K) /\ K \subseteq C
  BY OnlyType DEF K
<1>1. <<>> \in X
  <2>1. s \o <<>> = s /\ Only(s, kept) \o <<>> = Only(s, kept)
    <3> DEFINE o == Only(s, kept)
    <3>1. o \in Seq(K)
      BY <1>0
    <3> HIDE DEF o
    <3>2. s \o <<>> = s /\ o \o <<>> = o
      BY <3>1, ConcatEmptySeq
    <3>3. QED
      BY <3>2 DEF o
  <2>2. <<>> \in Seq(C) /\ Only(<<>>, kept) = <<>>
    BY OnlyOfNone
  <2>3. QED
    BY <2>1, <2>2
<1>2. ASSUME NEW u \in Seq(C), u \in X, NEW e \in C PROVE Append(u, e) \in X
  <2> DEFINE a == Only(s, kept)
             b == Only(u, kept)
  <2>1. s \o Append(u, e) = Append(s \o u, e) /\ s \o u \in Seq(C)
    OBVIOUS
  <2>2. Only(Append(s \o u, e), kept) =
          IF e \in kept THEN Append(Only(s \o u, kept), e) ELSE Only(s \o u, kept)
    BY <2>1, OnlyOfAppend
  <2>3. Only(Append(u, e), kept) = IF e \in kept THEN Append(b, e) ELSE b
    BY OnlyOfAppend
  <2>4. a \in Seq(K) /\ b \in Seq(K) /\ Only(s \o u, kept) = a \o b
    BY <1>0, <1>2, OnlyType DEF K
  <2> HIDE DEF a, b
  <2>5. e \in kept => a \o Append(b, e) = Append(a \o b, e)
    <3>1. e \in kept => e \in K
      BY DEF K
    <3>2. QED
      BY <2>4, <3>1
  <2>6. Only(s \o Append(u, e), kept) = a \o Only(Append(u, e), kept)
    BY <2>1, <2>2, <2>3, <2>4, <2>5
  <2>7. QED
    BY <2>6 DEF a
<1> HIDE DEF X
<1>3. Seq(C) \subseteq X
  BY <1>1, <1>2, TextInduction
<1>4. QED
  BY <1>3 DEF X

-----------------------------------------------------------------------------
(* Digits and numbers.                                                     *)

\* Each digit has a character, which stands for it.
LEMMA CharOfDigit ==
  ASSUME NEW d \in 0..9
  PROVE  Char(d) \in Digits /\ DigitOf(Char(d)) = d
<1>1. \A n, e \in 0..9 : Char(n) = Char(e) => n = e
  BY DEF Char, DigitChars
<1>2. DigitOf(Char(d)) = d
  BY <1>1 DEF DigitOf
<1>3. QED
  BY <1>2 DEF Digits

\* Each of those characters stands for its digit.
LEMMA DigitOfChar ==
  ASSUME NEW c \in Digits
  PROVE  DigitOf(c) \in 0..9 /\ Char(DigitOf(c)) = c
<1>1. PICK d \in 0..9 : c = Char(d)
  BY DEF Digits
<1>2. QED
  BY <1>1, CharOfDigit

\* Signs and commas are none.
LEMMA NoDigits == Comma \notin Digits /\ "-" \notin Digits /\ "+" \notin Digits
<1> SUFFICES ASSUME NEW d \in 0..9 PROVE Char(d) \notin {Comma, "-", "+"}
  BY DEF Digits
<1>1. d \in {0, 1, 2, 3, 4, 5, 6, 7, 8, 9}
  OBVIOUS
<1>2. Char(d) \in {"0", "1", "2", "3", "4", "5", "6", "7", "8", "9"}
  BY <1>1 DEF Char, DigitChars
<1>3. "," \notin {"0", "1", "2", "3", "4", "5", "6", "7", "8", "9"}
  BY Zenon
<1>4. QED
  BY <1>2, <1>3, Zenon DEF Comma

\* g is value, of ValueOf.
AddsDigits(g, digits) ==
  /\ g[0] = 0
  /\ \A i \in 1..Len(digits) : g[i] = 10 * g[i - 1] + DigitOf(digits[i])

\* ValueOf computes what its loop says.
LEMMA ValueSteps ==
  ASSUME NEW digits \in Seq(Digits)
  PROVE  \E g : ValueOf(digits) = g[Len(digits)] /\ AddsDigits(g, digits)
<1> DEFINE N == Len(digits)
           F(g) == [n \in 0..N |-> IF n = 0 THEN 0 ELSE 10 * g[n - 1] + DigitOf(digits[n])]
           step == [i \in 1..N |-> [v \in Nat |-> 10 * v + DigitOf(digits[i])]]
<1>1. N \in Nat /\ \A i \in 1..N : \A v \in Nat : step[i][v] \in Nat
  <2>1. N \in Nat /\ \A i \in 1..N : digits[i] \in Digits
    OBVIOUS
  <2>2. \A i \in 1..N : DigitOf(digits[i]) \in 0..9
    BY <2>1, DigitOfChar
  <2>3. QED
    BY <2>1, <2>2
<1>2. PICK h \in [0..N -> Nat] : Goes(h, N, 0, step)
  <2> HIDE DEF N, step
  <2>1. QED
    BY <1>1, Computable
<1>3. h = F(h)
  <2>1. \A i \in 0..N : i # 0 => i - 1 \in 0..N /\ i \in 1..N /\ h[i - 1] \in Nat
    BY <1>1
  <2>2. \A i \in 0..N : h[i] = F(h)[i]
    BY <1>2, <2>1 DEF Goes
  <2>3. QED
    BY <2>2
<1> DEFINE g == CHOOSE f : f = F(f)
<1>4. g = F(g)
  BY <1>3
<1>5. ValueOf(digits) = g[N]
  BY DEF ValueOf
<1> HIDE DEF g
<1>6. \A i \in 0..N : g[i] = F(g)[i]
  BY <1>4
<1>7. AddsDigits(g, digits)
  BY <1>1, <1>6 DEF AddsDigits
<1>8. QED
  BY <1>5, <1>7

\* No digits are worth nothing.
LEMMA ValueOfNone == ValueOf(<<>>) = 0
<1> DEFINE none == <<>>
<1>1. none \in Seq(Digits) /\ Len(none) = 0
  OBVIOUS
<1> HIDE DEF none
<1>2. PICK g : ValueOf(none) = g[Len(none)] /\ AddsDigits(g, none)
  BY <1>1, ValueSteps
<1>3. QED
  BY <1>1, <1>2 DEF none, AddsDigits

\* One more digit.
LEMMA ValueOfAppend ==
  ASSUME NEW digits \in Seq(Digits), NEW c \in Digits
  PROVE  ValueOf(Append(digits, c)) = 10 * ValueOf(digits) + DigitOf(c)
<1> DEFINE longer == Append(digits, c)
           N == Len(digits)
<1>1. /\ longer \in Seq(Digits) /\ Len(longer) = N + 1 /\ N \in Nat
      /\ longer[N + 1] = c
      /\ \A i \in 1..N : longer[i] = digits[i]
  OBVIOUS
<1> HIDE DEF longer
<1>2. PICK g : ValueOf(longer) = g[Len(longer)] /\ AddsDigits(g, longer)
  BY <1>1, ValueSteps
<1>3. PICK h : ValueOf(digits) = h[N] /\ AddsDigits(h, digits)
  BY ValueSteps
<1>4. Alike(g, h, N)
  BY <1>1, <1>2, <1>3 DEF AddsDigits, Alike
<1>5. g[N] = h[N]
  BY <1>1, <1>4, SameSteps
<1>6. g[N + 1] = 10 * g[N] + DigitOf(c)
  <2>1. N + 1 \in 1..Len(longer) /\ (N + 1) - 1 = N
    BY <1>1
  <2>2. QED
    BY <1>1, <1>2, <2>1 DEF AddsDigits
<1>7. QED
  BY <1>1, <1>2, <1>3, <1>5, <1>6 DEF longer

\* A text of digits is a number.
LEMMA ValueIsNat ==
  ASSUME NEW digits \in Seq(Digits)
  PROVE  ValueOf(digits) \in Nat
<1> DEFINE X == {t \in Seq(Digits) : ValueOf(t) \in Nat}
<1>1. <<>> \in X
  BY ValueOfNone
<1>2. ASSUME NEW s \in Seq(Digits), s \in X, NEW e \in Digits PROVE Append(s, e) \in X
  <2>1. ValueOf(Append(s, e)) = 10 * ValueOf(s) + DigitOf(e)
    BY ValueOfAppend
  <2>2. ValueOf(s) \in Nat /\ DigitOf(e) \in 0..9
    BY <1>2, DigitOfChar
  <2>3. QED
    BY <2>1, <2>2
<1> HIDE DEF X
<1>3. Seq(Digits) \subseteq X
  BY <1>1, <1>2, TextInduction
<1>4. QED
  BY <1>3 DEF X

\* g is shifted, of Shifted.
DropsDigits(g, v, k) == g[0] = v /\ \A i \in 1..k : g[i] = g[i - 1] \div 10

\* Shifted computes what its loop says.
LEMMA ShiftedSteps ==
  ASSUME NEW v \in Nat, NEW k \in Nat
  PROVE  \E g \in [0..k -> Nat] : Shifted(v, k) = g[k] /\ DropsDigits(g, v, k)
<1> DEFINE F(g) == [n \in 0..k |-> IF n = 0 THEN v ELSE g[n - 1] \div 10]
           step == [i \in 1..k |-> [x \in Nat |-> x \div 10]]
<1>1. \A i \in 1..k : \A x \in Nat : step[i][x] \in Nat
  OBVIOUS
<1>2. PICK h \in [0..k -> Nat] : Goes(h, k, v, step)
  <2> HIDE DEF step
  <2>1. QED
    BY <1>1, Computable
<1>3. h = F(h)
  <2>1. \A i \in 0..k : i # 0 => i - 1 \in 0..k /\ i \in 1..k /\ h[i - 1] \in Nat
    BY <1>1
  <2>2. \A i \in 0..k : h[i] = F(h)[i]
    BY <1>2, <2>1 DEF Goes
  <2>3. QED
    BY <2>2
<1> DEFINE g == CHOOSE f : f = F(f)
<1>4. g = F(g)
  BY <1>3
<1>5. Shifted(v, k) = g[k]
  BY DEF Shifted
<1> HIDE DEF g
<1>6. \A i \in 0..k : g[i] = F(g)[i]
  BY <1>4
<1>7. DropsDigits(g, v, k)
  BY <1>6 DEF DropsDigits
<1>8. DropsDigits(h, v, k)
  <2>1. \A i \in 1..k : i \in 0..k /\ i # 0 /\ i - 1 \in 0..k /\ h[i - 1] \in Nat
    OBVIOUS
  <2>2. \A i \in 1..k : h[i] = step[i][h[i - 1]]
    <3> HIDE DEF step
    <3>1. QED
      BY <1>2, <2>1 DEF Goes
  <2>3. \A i \in 1..k : h[i] = h[i - 1] \div 10
    BY <2>1, <2>2
  <2>4. h[0] = v
    <3>1. 0 \in 0..k
      OBVIOUS
    <3> HIDE DEF step
    <3>2. QED
      BY <1>2, <3>1 DEF Goes
  <2>5. QED
    BY <2>3, <2>4 DEF DropsDigits
<1>9. g[k] = h[k]
  <2>1. Alike(g, h, k)
    BY <1>7, <1>8 DEF DropsDigits, Alike
  <2>2. QED
    BY <2>1, SameSteps
<1>10. QED
  BY <1>5, <1>8, <1>9

\* A number without its last digits, one after the other.
LEMMA ShiftedDigits ==
  ASSUME NEW v \in Nat, NEW k \in Nat
  PROVE  /\ Shifted(v, 0) = v /\ Shifted(v, k) \in Nat
         /\ Shifted(v, k + 1) = Shifted(v, k) \div 10
<1>1. PICK z \in [0..0 -> Nat] : Shifted(v, 0) = z[0] /\ DropsDigits(z, v, 0)
  BY ShiftedSteps
<1>2. PICK h \in [0..k -> Nat] : Shifted(v, k) = h[k] /\ DropsDigits(h, v, k)
  BY ShiftedSteps
<1>3. PICK g \in [0..(k + 1) -> Nat] :
        Shifted(v, k + 1) = g[k + 1] /\ DropsDigits(g, v, k + 1)
  <2>1. k + 1 \in Nat
    OBVIOUS
  <2>2. QED
    BY <2>1, ShiftedSteps
<1>4. g[k] = h[k]
  <2>1. Alike(g, h, k)
    BY <1>2, <1>3 DEF DropsDigits, Alike
  <2>2. QED
    BY <2>1, SameSteps
<1>5. g[k + 1] = g[(k + 1) - 1] \div 10
  BY <1>3 DEF DropsDigits
<1>6. QED
  BY <1>1, <1>2, <1>3, <1>4, <1>5 DEF DropsDigits

\* A digit that is added is the first to go.
LEMMA ShiftedOfNext ==
  ASSUME NEW v \in Nat, NEW d \in 0..9, NEW k \in Nat
  PROVE  Shifted(10 * v + d, k + 1) = Shifted(v, k)
<1> DEFINE more == 10 * v + d
           T == {n \in Nat : Shifted(more, n + 1) = Shifted(v, n)}
<1>0. more \in Nat /\ more \div 10 = v
  OBVIOUS
<1> HIDE DEF more
<1>1. 0 \in T
  <2>1. Shifted(more, 0 + 1) = Shifted(more, 0) \div 10 /\ Shifted(more, 0) = more
    BY <1>0, ShiftedDigits
  <2>2. Shifted(v, 0) = v
    BY ShiftedDigits
  <2>3. QED
    BY <1>0, <2>1, <2>2
<1>2. ASSUME NEW n \in Nat, n \in T PROVE n + 1 \in T
  <2>1. n + 1 \in Nat
    OBVIOUS
  <2>2. Shifted(more, (n + 1) + 1) = Shifted(more, n + 1) \div 10
    BY <1>0, <2>1, ShiftedDigits
  <2>3. Shifted(v, n + 1) = Shifted(v, n) \div 10
    BY ShiftedDigits
  <2>4. QED
    BY <1>2, <2>1, <2>2, <2>3
<1> HIDE DEF T
<1>3. Nat \subseteq T
  BY <1>1, <1>2, Induction
<1>4. QED
  BY <1>3 DEF T, more

\* Nothing is left of 0.
LEMMA ShiftedOfZero ==
  ASSUME NEW k \in Nat
  PROVE  Shifted(0, k) = 0
<1> DEFINE T == {n \in Nat : Shifted(0, n) = 0}
<1>1. 0 \in T
  BY ShiftedDigits
<1>2. ASSUME NEW n \in Nat, n \in T PROVE n + 1 \in T
  <2>1. Shifted(0, n + 1) = Shifted(0, n) \div 10
    BY ShiftedDigits
  <2>2. QED
    BY <1>2, <2>1
<1> HIDE DEF T
<1>3. Nat \subseteq T
  BY <1>1, <1>2, Induction
<1>4. QED
  BY <1>3 DEF T

\* A number has no more digits than the text it was made of.
LEMMA ValueFits ==
  ASSUME NEW digits \in Seq(Digits), NEW k \in Nat, k >= Len(digits)
  PROVE  Shifted(ValueOf(digits), k) = 0
<1> DEFINE X == {t \in Seq(Digits) : \A n \in Nat : n >= Len(t) => Shifted(ValueOf(t), n) = 0}
<1>1. <<>> \in X
  BY ValueOfNone, ShiftedOfZero
<1>2. ASSUME NEW s \in Seq(Digits), s \in X, NEW e \in Digits PROVE Append(s, e) \in X
  <2> SUFFICES ASSUME NEW n \in Nat, n >= Len(Append(s, e))
               PROVE  Shifted(ValueOf(Append(s, e)), n) = 0
    OBVIOUS
  <2>1. n - 1 \in Nat /\ n - 1 >= Len(s) /\ (n - 1) + 1 = n
    OBVIOUS
  <2>2. ValueOf(s) \in Nat /\ DigitOf(e) \in 0..9
    BY ValueIsNat, DigitOfChar
  <2>3. Shifted(10 * ValueOf(s) + DigitOf(e), (n - 1) + 1) = Shifted(ValueOf(s), n - 1)
    BY <2>1, <2>2, ShiftedOfNext
  <2>4. Shifted(ValueOf(s), n - 1) = 0
    BY <1>2, <2>1
  <2>5. QED
    BY <2>1, <2>3, <2>4, ValueOfAppend
<1> HIDE DEF X
<1>3. Seq(Digits) \subseteq X
  BY <1>1, <1>2, TextInduction
<1>4. QED
  BY <1>3 DEF X

\* Numbers that have nineteen digits at most.
Writable == {v \in Nat : Shifted(v, 19) = 0}

\* DigitCount finds the length of a number.
LEMMA DigitsCounted ==
  ASSUME NEW v \in Writable
  PROVE  /\ DigitCount(v) \in 1..19 /\ Shifted(v, DigitCount(v)) = 0
         /\ DigitCount(v) = 1 \/ Shifted(v, DigitCount(v) - 1) > 0
<1> DEFINE Fits(k) == Shifted(v, k) = 0 /\ (k = 1 \/ Shifted(v, k - 1) > 0)
<1>0. v \in Nat /\ Shifted(v, 19) = 0 /\ \A k \in Nat : Shifted(v, k) \in Nat
  BY ShiftedDigits DEF Writable
<1>1. \E k \in 1..19 : Fits(k)
  <2> SUFFICES ASSUME \A k \in 1..19 : ~ Fits(k) PROVE FALSE
    OBVIOUS
  <2> DEFINE T == {n \in Nat : n + 1 <= 19 => Shifted(v, n + 1) > 0}
  <2>1. 0 \in T
    <3>1. 1 \in 1..19 /\ Shifted(v, 1) \in Nat
      BY <1>0
    <3>2. QED
      BY <3>1
  <2>2. ASSUME NEW n \in Nat, n \in T PROVE n + 1 \in T
    <3> SUFFICES ASSUME (n + 1) + 1 <= 19 PROVE Shifted(v, (n + 1) + 1) > 0
      OBVIOUS
    <3>1. /\ Shifted(v, n + 1) > 0 /\ (n + 1) + 1 \in 1..19
          /\ ((n + 1) + 1) - 1 = n + 1 /\ Shifted(v, (n + 1) + 1) \in Nat
      BY <1>0, <2>2
    <3>2. QED
      BY <3>1
  <2> HIDE DEF T
  <2>3. Nat \subseteq T
    BY <2>1, <2>2, Induction
  <2>4. 18 \in T
    BY <2>3
  <2>5. QED
    BY <1>0, <2>4 DEF T
<1>2. DigitCount(v) = CHOOSE k \in 1..19 : Fits(k)
  BY DEF DigitCount
<1> HIDE DEF Fits
<1>3. DigitCount(v) \in 1..19 /\ Fits(DigitCount(v))
  BY <1>1, <1>2
<1>4. QED
  BY <1>3 DEF Fits

\* The digits of a number.
LEMMA DecimalDigits ==
  ASSUME NEW v \in Writable
  PROVE  /\ Decimal(v) \in Seq(Digits) /\ Len(Decimal(v)) = DigitCount(v)
         /\ \A i \in 1..DigitCount(v) :
              /\ Decimal(v)[i] = DigitAt(v, DigitCount(v) - i)
              /\ DigitOf(Decimal(v)[i]) = Shifted(v, DigitCount(v) - i) % 10
<1> DEFINE n == DigitCount(v)
<1>1. n \in 1..19 /\ v \in Nat
  BY DigitsCounted DEF Writable
<1>2. Decimal(v) = [i \in 1..n |-> DigitAt(v, n - i)]
  BY DEF Decimal
<1> HIDE DEF n
<1>3. ASSUME NEW i \in 1..n
      PROVE  DigitAt(v, n - i) \in Digits /\ DigitOf(DigitAt(v, n - i)) = Shifted(v, n - i) % 10
  <2> DEFINE k == n - i
  <2>0. k \in Nat
    BY <1>1
  <2> HIDE DEF k
  <2>1. Shifted(v, k) \in Nat
    BY <1>1, <2>0, ShiftedDigits
  <2>2. Shifted(v, k) % 10 \in 0..9
    BY <2>1
  <2>3. DigitAt(v, k) \in Digits /\ DigitOf(DigitAt(v, k)) = Shifted(v, k) % 10
    BY <2>2, CharOfDigit DEF DigitAt
  <2>4. QED
    BY <2>3 DEF k
<1>4. Decimal(v) \in Seq(Digits) /\ Len(Decimal(v)) = n
  BY <1>1, <1>2, <1>3
<1>5. QED
  BY <1>2, <1>3, <1>4 DEF n

\* What %d writes is read as the same number.
LEMMA ValueOfDecimal ==
  ASSUME NEW v \in Writable
  PROVE  ValueOf(Decimal(v)) = v
<1> DEFINE n == DigitCount(v)
           s == Decimal(v)
<1>1. /\ n \in 1..19 /\ v \in Nat /\ Shifted(v, n) = 0
      /\ s \in Seq(Digits) /\ Len(s) = n
      /\ \A i \in 1..n : DigitOf(s[i]) = Shifted(v, n - i) % 10
  BY DigitsCounted, DecimalDigits DEF Writable
<1> HIDE DEF n, s
<1>2. PICK g : ValueOf(s) = g[n] /\ AddsDigits(g, s)
  BY <1>1, ValueSteps
<1> DEFINE T == {i \in Nat : i <= n => g[i] = Shifted(v, n - i)}
<1>3. 0 \in T
  BY <1>1, <1>2 DEF AddsDigits
<1>4. ASSUME NEW i \in Nat, i \in T PROVE i + 1 \in T
  <2> SUFFICES ASSUME i + 1 <= n PROVE g[i + 1] = Shifted(v, n - (i + 1))
    OBVIOUS
  <2> DEFINE k == n - (i + 1)
  <2>1. k \in Nat /\ k + 1 = n - i /\ i + 1 \in 1..n /\ (i + 1) - 1 = i /\ i <= n
    BY <1>1
  <2>2. g[i] = Shifted(v, k + 1)
    <3>1. g[i] = Shifted(v, n - i)
      BY <1>4, <2>1
    <3>2. QED
      BY <2>1, <3>1
  <2>3. g[i + 1] = 10 * g[i] + (Shifted(v, k) % 10)
    <3>1. DigitOf(s[i + 1]) = Shifted(v, k) % 10
      BY <1>1, <2>1
    <3>2. g[i + 1] = 10 * g[(i + 1) - 1] + DigitOf(s[i + 1])
      BY <1>1, <1>2, <2>1 DEF AddsDigits
    <3>3. QED
      BY <2>1, <3>1, <3>2
  <2>4. Shifted(v, k) \in Nat /\ Shifted(v, k + 1) = Shifted(v, k) \div 10
    BY <1>1, <2>1, ShiftedDigits
  <2> DEFINE x == Shifted(v, k)
  <2> HIDE DEF k, x
  <2>5. g[i + 1] = 10 * (x \div 10) + (x % 10) /\ x \in Nat
    BY <2>2, <2>3, <2>4 DEF x
  <2>6. \A y \in Nat : 10 * (y \div 10) + (y % 10) = y
    OBVIOUS
  <2>7. g[i + 1] = x
    BY <2>5, <2>6
  <2>8. QED
    BY <2>7 DEF x, k
<1> HIDE DEF T
<1>5. Nat \subseteq T
  BY <1>3, <1>4, Induction
<1>6. n \in T /\ n - n = 0
  BY <1>1, <1>5
<1>7. g[n] = Shifted(v, 0)
  BY <1>1, <1>6 DEF T
<1>8. QED
  BY <1>1, <1>2, <1>7, ShiftedDigits DEF s

-----------------------------------------------------------------------------
(* Amounts on the page.                                                    *)

\* What the loop of FormatKRW writes for the i-th digit.
Block(s, i) == IF CommaAfter(i, Len(s)) THEN <<s[i], Comma>> ELSE <<s[i]>>

\* g is out, of FormatKRW.
Groups(g, s) ==
  g[0] = <<>> /\ \A i \in 1..Len(s) : g[i] = g[i - 1] \o Block(s, i)

\* A block is a text, with one digit in it.
LEMMA BlockOfDigit ==
  ASSUME NEW s \in Seq(Digits), NEW i \in 1..Len(s)
  PROVE  /\ Block(s, i) \in Seq(Characters)
         /\ \A C : Digits \subseteq C /\ Comma \notin C => Only(Block(s, i), C) = <<s[i]>>
<1> DEFINE x == s[i]
           one == <<x>>
           two == <<x, Comma>>
<1>1. x \in Digits /\ x \in Characters /\ Comma \in Characters
  <2>1. x \in Digits
    OBVIOUS
  <2> HIDE DEF x
  <2>2. QED
    BY <2>1 DEF Characters
<1>2. /\ one \in Seq(Characters) /\ two \in Seq(Characters) /\ one \in Seq(Digits)
      /\ two = Append(one, Comma)
  <2> HIDE DEF x
  <2>1. one \in Seq(Characters) /\ one \in Seq(Digits)
    BY <1>1
  <2>2. two = Append(one, Comma) /\ two \in Seq(Characters)
    BY <1>1
  <2>3. QED
    BY <2>1, <2>2
<1>3. ASSUME NEW C, Digits \subseteq C, Comma \notin C
      PROVE  Only(one, C) = one /\ Only(two, C) = one
  <2> HIDE DEF one, two
  <2>1. one \in Seq(C)
    BY <1>2, <1>3, SeqMonotonic
  <2>2. Only(one, C) = one
    BY <2>1, OnlyOfKept
  <2>3. Only(Append(one, Comma), C) = Only(one, C)
    BY <1>1, <1>2, <1>3, OnlyOfAppend
  <2>4. QED
    BY <1>2, <2>2, <2>3
<1>4. QED
  BY <1>2, <1>3 DEF Block

\* FormatKRW computes what its loop says.
LEMMA FormatSteps ==
  ASSUME NEW v \in Writable
  PROVE  \E g \in [0..DigitCount(v) -> Seq(Characters)] :
           FormatKRW(v) = g[DigitCount(v)] /\ Groups(g, Decimal(v))
<1> DEFINE s == Decimal(v)
           N == Len(s)
           F(g) == [i \in 0..N |-> IF i = 0 THEN <<>> ELSE g[i - 1] \o Block(s, i)]
           step == [i \in 1..N |-> [t \in Seq(Characters) |-> t \o Block(s, i)]]
<1>1. s \in Seq(Digits) /\ N = DigitCount(v) /\ N \in Nat
  BY DecimalDigits, DigitsCounted
<1>2. FormatKRW(v) = (CHOOSE f : f = F(f))[N]
  BY DEF FormatKRW, Block
<1> HIDE DEF s
<1>3. \A i \in 1..N : Block(s, i) \in Seq(Characters)
  BY <1>1, BlockOfDigit
<1>4. \A i \in 1..N : \A t \in Seq(Characters) : step[i][t] \in Seq(Characters)
  BY <1>3
<1>5. PICK h \in [0..N -> Seq(Characters)] : Goes(h, N, <<>>, step)
  <2> DEFINE S == Seq(Characters)
             none == <<>>
  <2>1. N \in Nat /\ none \in S /\ \A i \in 1..N : \A t \in S : step[i][t] \in S
    BY <1>1, <1>4
  <2> HIDE DEF S, N, step, none
  <2>2. \E h \in [0..N -> S] : Goes(h, N, none, step)
    BY <2>1, Computable
  <2>3. QED
    BY <2>2 DEF S, none
<1>6. h[0] = <<>> /\ \A i \in 1..N : h[i] = h[i - 1] \o Block(s, i)
  <2>1. \A i \in 1..N : i \in 0..N /\ i # 0 /\ i - 1 \in 0..N /\ h[i - 1] \in Seq(Characters)
    BY <1>1
  <2>2. h[0] = <<>> /\ \A i \in 1..N : h[i] = step[i][h[i - 1]]
    <3>1. 0 \in 0..N
      BY <1>1
    <3> HIDE DEF step
    <3>2. QED
      BY <1>5, <2>1, <3>1 DEF Goes
  <2>3. QED
    BY <2>1, <2>2
<1>7. h = F(h)
  <2>1. \A i \in 0..N : h[i] = F(h)[i]
    BY <1>1, <1>6
  <2>2. QED
    BY <2>1
<1> DEFINE g == CHOOSE f : f = F(f)
<1>8. g = F(g)
  BY <1>7
<1> HIDE DEF g
<1>9. Groups(g, s)
  <2>1. \A i \in 0..N : g[i] = F(g)[i]
    BY <1>8
  <2>2. 0 \in 0..N /\ \A i \in 1..N : i \in 0..N /\ i # 0
    BY <1>1
  <2>3. g[0] = <<>> /\ \A i \in 1..N : g[i] = g[i - 1] \o Block(s, i)
    BY <2>1, <2>2
  <2>4. QED
    BY <2>3 DEF Groups
<1>10. Groups(h, s)
  BY <1>6 DEF Groups
<1>11. g[N] = h[N]
  <2>1. Alike(g, h, N)
    BY <1>9, <1>10 DEF Groups, Alike
  <2>2. QED
    BY <1>1, <2>1, SameSteps
<1>12. QED
  BY <1>1, <1>2, <1>5, <1>10, <1>11 DEF g, s

\* The text begins with one more element.
LEMMA LongerBegin ==
  ASSUME NEW S, NEW s \in Seq(S), NEW i \in 0..(Len(s) - 1)
  PROVE  /\ SubSeq(s, 1, i) \in Seq(S) /\ s[i + 1] \in S
         /\ SubSeq(s, 1, i) \o <<s[i + 1]>> = SubSeq(s, 1, i + 1)
<1>1. \A k \in 1..i : s[k] \in S
  OBVIOUS
<1>2. QED
  BY <1>1

\* The digits of a formatted amount.
LEMMA DigitsOfFormat ==
  ASSUME NEW v \in Writable, NEW C, Digits \subseteq C, Comma \notin C
  PROVE  Only(FormatKRW(v), C) = Decimal(v)
<1> DEFINE s == Decimal(v)
           n == DigitCount(v)
<1>1. s \in Seq(Digits) /\ Len(s) = n /\ n \in 1..19
  BY DecimalDigits, DigitsCounted
<1>2. PICK g \in [0..n -> Seq(Characters)] : FormatKRW(v) = g[n] /\ Groups(g, s)
  BY FormatSteps
<1> HIDE DEF s, n
<1> DEFINE T == {i \in Nat : i <= n => Only(g[i], C) = SubSeq(s, 1, i)}
<1>3. 0 \in T
  <2>1. SubSeq(s, 1, 0) = <<>>
    BY <1>1
  <2>2. g[0] = <<>>
    BY <1>2 DEF Groups
  <2>3. QED
    BY <2>1, <2>2, OnlyOfNone
<1>4. ASSUME NEW i \in Nat, i \in T PROVE i + 1 \in T
  <2> SUFFICES ASSUME i + 1 <= n PROVE Only(g[i + 1], C) = SubSeq(s, 1, i + 1)
    BY <1>1
  <2> DEFINE b == Block(s, i + 1)
  <2>1. i \in 0..n /\ i + 1 \in 1..Len(s) /\ (i + 1) - 1 = i /\ i \in 0..(Len(s) - 1) /\ i <= n
    <3>1. n \in Nat /\ Len(s) = n
      BY <1>1
    <3>2. QED
      BY <3>1
  <2>2. b \in Seq(Characters) /\ Only(b, C) = <<s[i + 1]>>
    BY <1>1, <2>1, BlockOfDigit
  <2>3. g[i + 1] = g[i] \o b /\ g[i] \in Seq(Characters)
    BY <1>2, <2>1 DEF Groups
  <2> DEFINE h == g[i]
  <2>4. Only(h \o b, C) = Only(h, C) \o Only(b, C)
    <3>1. h \in Seq(Characters) /\ b \in Seq(Characters)
      BY <2>2, <2>3
    <3> HIDE DEF b, h
    <3>2. QED
      BY <3>1, OnlyOfConcat
  <2> HIDE DEF b
  <2>5. SubSeq(s, 1, i) \o <<s[i + 1]>> = SubSeq(s, 1, i + 1)
    BY <1>1, <2>1, LongerBegin
  <2>6. Only(g[i], C) = SubSeq(s, 1, i)
    BY <1>4, <2>1
  <2>7. QED
    BY <2>2, <2>3, <2>4, <2>5, <2>6
<1> HIDE DEF T
<1>5. Nat \subseteq T
  BY <1>3, <1>4, Induction
<1>6. Only(g[n], C) = SubSeq(s, 1, n)
  <2>1. n \in Nat /\ n <= n
    BY <1>1
  <2>2. n \in T
    BY <1>5, <2>1
  <2>3. QED
    BY <2>1, <2>2 DEF T
<1>7. SubSeq(s, 1, n) = s
  BY <1>1
<1>8. QED
  BY <1>2, <1>6, <1>7 DEF s

\* How many characters r digits take that come last.
Rest(r) == IF r = 0 THEN 0 ELSE r + ((r - 1) \div 3)

\* The loop that counts the digits to come, and the comma at every fourth place
\* from the right, are the same.
LEMMA FormatIsLocale ==
  ASSUME NEW v \in Writable
  PROVE  LocaleString(v) = FormatKRW(v)
<1> DEFINE s == Decimal(v)
           n == DigitCount(v)
           L == n + ((n - 1) \div 3)
           char(k) == IF k % 4 = 3 THEN Comma ELSE DigitAt(v, k - (k \div 4))
           t == [j \in 1..L |-> char(L - j)]
<1>1. /\ s \in Seq(Digits) /\ Len(s) = n /\ n \in 1..19
      /\ \A i \in 1..n : s[i] = DigitAt(v, n - i)
  BY DecimalDigits, DigitsCounted
<1>2. PICK g \in [0..n -> Seq(Characters)] : FormatKRW(v) = g[n] /\ Groups(g, s)
  BY FormatSteps
<1>3. LocaleString(v) = t
  BY DEF LocaleString
<1> HIDE DEF s, n
<1>4. /\ L \in Nat
      /\ \A r \in 0..n : Rest(r) \in 0..L
      /\ Rest(n) = L /\ Rest(0) = 0
  BY <1>1 DEF Rest
<1>5. ASSUME NEW r \in 1..n
      PROVE  /\ t[L - Rest(r) + 1] = DigitAt(v, r - 1)
             /\ Rest(r) >= 1
             /\ CommaAfter(n - (r - 1), n) =>
                  t[L - Rest(r) + 2] = Comma /\ Rest(r - 1) = Rest(r) - 2 /\ Rest(r) >= 2
             /\ ~ CommaAfter(n - (r - 1), n) => Rest(r - 1) = Rest(r) - 1
  <2> DEFINE q == (r - 1) \div 3
             k == Rest(r) - 1
  <2>1. /\ q \in Nat /\ 3 * q <= r - 1 /\ r - 1 <= 3 * q + 2 /\ r - 1 \in Nat
        /\ Rest(r) = r + q
    BY <1>1, SMTT(20) DEF Rest
  <2>2. r - 1 = 3 * q \/ r - 1 = 3 * q + 1 \/ r - 1 = 3 * q + 2
    BY <2>1
  <2>3. k \in Nat /\ k % 4 # 3 /\ k - (k \div 4) = r - 1
    BY <2>1, <2>2
  <2>4. Rest(r) \in 1..L
    BY <1>4, <2>1
  <2>5. t[L - Rest(r) + 1] = DigitAt(v, r - 1)
    <3>1. L - Rest(r) + 1 \in 1..L /\ L - (L - Rest(r) + 1) = k
      BY <1>4, <2>4
    <3> HIDE DEF L, k
    <3>2. t[L - Rest(r) + 1] = char(k)
      BY <3>1
    <3>3. QED
      BY <2>3, <3>2
  <2>6. CommaAfter(n - (r - 1), n) <=> r - 1 > 0 /\ (r - 1) % 3 = 0
    <3>1. n - (n - (r - 1)) = r - 1
      BY <1>1
    <3>2. QED
      BY <3>1 DEF CommaAfter
  <2>7. CASE r - 1 > 0 /\ (r - 1) % 3 = 0
    <3>1. r - 1 = 3 * q /\ q >= 1
      BY <2>1, <2>2, <2>7
    <3>2. Rest(r - 1) = Rest(r) - 2
      BY <2>1, <3>1 DEF Rest
    <3>3. k - 1 \in Nat /\ (k - 1) % 4 = 3 /\ Rest(r) >= 2
      BY <2>1, <3>1
    <3>4. L - Rest(r) + 2 \in 1..L /\ L - (L - Rest(r) + 2) = k - 1
      BY <1>4, <2>4, <3>3
    <3>5. t[L - Rest(r) + 2] = Comma
      <4> HIDE DEF L, k
      <4>1. t[L - Rest(r) + 2] = char(k - 1)
        BY <3>4
      <4>2. QED
        BY <3>3, <4>1
    <3>6. QED
      BY <2>4, <2>5, <2>6, <2>7, <3>2, <3>3, <3>5
  <2>8. CASE ~ (r - 1 > 0 /\ (r - 1) % 3 = 0)
    <3>1. Rest(r - 1) = Rest(r) - 1
      BY <2>1, <2>2, <2>8 DEF Rest
    <3>2. QED
      BY <2>4, <2>5, <2>6, <2>8, <3>1
  <2>9. QED
    BY <2>7, <2>8
<1>6. t \in Seq(Characters) /\ Len(t) = L
  <2> SUFFICES ASSUME NEW j \in 1..L PROVE char(L - j) \in Characters
    BY <1>4
  <2> DEFINE k == L - j
             e == k - (k \div 4)
  <2>1. k \in Nat /\ e \in Nat
    BY <1>4
  <2> HIDE DEF e
  <2>2. Shifted(v, e) \in Nat
    BY <2>1, ShiftedDigits DEF Writable
  <2>3. Shifted(v, e) % 10 \in 0..9
    BY <2>2
  <2>4. DigitAt(v, e) \in Characters
    BY <2>3, CharOfDigit DEF DigitAt, Characters
  <2>5. QED
    BY <2>4 DEF e, Characters
<1> HIDE DEF L, t
<1> DEFINE T == {i \in Nat : i <= n => g[i] = SubSeq(t, 1, L - Rest(n - i))}
<1>7. 0 \in T
  <2>1. g[0] = <<>> /\ L - Rest(n - 0) = 0
    BY <1>1, <1>2, <1>4 DEF Groups
  <2>2. SubSeq(t, 1, 0) = <<>>
    BY <1>6
  <2>3. QED
    BY <2>1, <2>2
<1>8. ASSUME NEW i \in Nat, i \in T PROVE i + 1 \in T
  <2> SUFFICES ASSUME i + 1 <= n
               PROVE  g[i + 1] = SubSeq(t, 1, L - Rest(n - (i + 1)))
    OBVIOUS
  <2> DEFINE r == n - i
             a == L - Rest(r)
  <2>1. /\ r \in 1..n /\ n - (i + 1) = r - 1 /\ i + 1 = n - (r - 1) /\ r - 1 \in 0..n
        /\ i + 1 \in 1..Len(s) /\ (i + 1) - 1 = i /\ i \in 0..n /\ i <= n
    BY <1>1
  <2>2. g[i] = SubSeq(t, 1, a)
    BY <1>8, <2>1
  <2>3. g[i + 1] = g[i] \o Block(s, i + 1)
    BY <1>2, <2>1 DEF Groups
  <2>4. s[i + 1] = DigitAt(v, r - 1)
    BY <1>1, <2>1
  <2> HIDE DEF r
  <2>5. /\ t[a + 1] = DigitAt(v, r - 1) /\ Rest(r) \in 0..L /\ Rest(r) >= 1
        /\ CommaAfter(n - (r - 1), n) =>
                  t[a + 2] = Comma /\ Rest(r - 1) = Rest(r) - 2 /\ Rest(r) >= 2
        /\ ~ CommaAfter(n - (r - 1), n) => Rest(r - 1) = Rest(r) - 1
    BY <1>4, <1>5, <2>1
  <2>6. /\ a \in Nat /\ a \in 0..(Len(t) - 1) /\ L - Rest(r - 1) \in Nat
        /\ CommaAfter(n - (r - 1), n) => a + 1 \in 0..(Len(t) - 1) /\ L - Rest(r - 1) = (a + 1) + 1
        /\ ~ CommaAfter(n - (r - 1), n) => L - Rest(r - 1) = a + 1
    <3> DEFINE p == Rest(r)
               q == Rest(r - 1)
    <3>1. p \in 0..L /\ p >= 1 /\ q \in 0..L /\ L \in Nat /\ Len(t) = L /\ a = L - p
      BY <1>4, <1>6, <2>1, <2>5
    <3>2. /\ CommaAfter(n - (r - 1), n) => q = p - 2 /\ p >= 2
          /\ ~ CommaAfter(n - (r - 1), n) => q = p - 1
      BY <2>5
    <3> HIDE DEF p, q, a
    <3>3. CASE CommaAfter(n - (r - 1), n)
      <4>1. q = p - 2 /\ p >= 2
        BY <3>2, <3>3
      <4>2. QED
        BY <3>1, <3>3, <4>1 DEF q
    <3>4. CASE ~ CommaAfter(n - (r - 1), n)
      <4>1. q = p - 1
        BY <3>2, <3>4
      <4>2. QED
        BY <3>1, <3>4, <4>1 DEF q
    <3>5. QED
      BY <3>3, <3>4
  <2> HIDE DEF a
  <2>7. SubSeq(t, 1, a) \in Seq(Characters) /\ SubSeq(t, 1, a) \o <<t[a + 1]>> = SubSeq(t, 1, a + 1)
    BY <1>6, <2>6, LongerBegin
  <2>8. Len(s) = n /\ g[i + 1] = SubSeq(t, 1, a) \o Block(s, i + 1)
    BY <1>1, <2>2, <2>3
  <2>9. CASE CommaAfter(n - (r - 1), n)
    <3> DEFINE x == s[i + 1]
               b == SubSeq(t, 1, a)
    <3>1. Block(s, i + 1) = <<x, Comma>>
      BY <2>1, <2>8, <2>9 DEF Block
    <3>2. SubSeq(t, 1, a + 1) \o <<t[(a + 1) + 1]>> = SubSeq(t, 1, (a + 1) + 1)
      BY <1>6, <2>6, <2>9, LongerBegin
    <3>3. x \in Characters /\ Comma \in Characters /\ x = t[a + 1] /\ t[(a + 1) + 1] = Comma
      <4>1. (a + 1) + 1 = a + 2
        BY <2>6
      <4>2. s[i + 1] \in Digits
        BY <1>1, <2>1
      <4>3. QED
        BY <2>4, <2>5, <2>9, <4>1, <4>2 DEF Characters
    <3>4. b \in Seq(Characters) /\ b \o <<x>> = SubSeq(t, 1, a + 1)
      BY <2>7, <3>3
    <3> HIDE DEF x, b
    <3>5. b \o <<x, Comma>> = (b \o <<x>>) \o <<Comma>>
      BY <3>3, <3>4
    <3>6. g[i + 1] = b \o <<x, Comma>>
      BY <2>8, <3>1 DEF b
    <3>7. g[i + 1] = SubSeq(t, 1, (a + 1) + 1)
      BY <3>2, <3>3, <3>4, <3>5, <3>6
    <3>8. QED
      BY <2>1, <2>6, <2>9, <3>7
  <2>10. CASE ~ CommaAfter(n - (r - 1), n)
    <3>1. Block(s, i + 1) = <<s[i + 1]>>
      BY <2>1, <2>8, <2>10 DEF Block
    <3>2. g[i + 1] = SubSeq(t, 1, a + 1)
      BY <2>4, <2>5, <2>7, <2>8, <3>1
    <3>3. QED
      BY <2>1, <2>6, <2>10, <3>2
  <2>11. QED
    BY <2>9, <2>10
<1> HIDE DEF T
<1>9. Nat \subseteq T
  BY <1>7, <1>8, Induction
<1>10. g[n] = SubSeq(t, 1, L)
  <2>1. n \in T /\ n <= n /\ n - n = 0 /\ L - 0 = L
    BY <1>1, <1>4, <1>9
  <2>2. QED
    BY <1>4, <2>1 DEF T
<1>11. SubSeq(t, 1, L) = t
  BY <1>6
<1>12. QED
  BY <1>2, <1>3, <1>10, <1>11

\* What a field shows for the amount v.
Shown(v) == IF v > 0 THEN FormatKRW(v) ELSE <<>>

\* A field leads back to its amount, for the mask and for the handlers.
LEMMA ShownAmount ==
  ASSUME NEW v \in Writable
  PROVE  /\ Shown(v) \in Seq(Characters)
         /\ DigitsOnly(Shown(v)) \in Seq(Digits)
         /\ ValueOf(DigitsOnly(Shown(v))) = v
         /\ ParseAmount(Shown(v)) = v
<1> DEFINE C == Characters \ {Comma}
<1>1. v \in Nat /\ Digits \subseteq C /\ Comma \notin C /\ Comma \notin Digits
  BY NoDigits DEF Writable, Characters
<1>2. CASE v > 0
  <2> DEFINE f == FormatKRW(v)
             s == Decimal(v)
  <2>1. f \in Seq(Characters)
    <3>1. PICK g \in [0..DigitCount(v) -> Seq(Characters)] : f = g[DigitCount(v)]
      BY FormatSteps
    <3>2. DigitCount(v) \in 0..DigitCount(v)
      BY DigitsCounted
    <3>3. QED
      BY <3>1, <3>2
  <2>2. s \in Seq(Digits) /\ Len(s) \in 1..19 /\ ValueOf(s) = v
    BY DecimalDigits, DigitsCounted, ValueOfDecimal
  <2>3. Only(f, Digits) = s
    BY <1>1, DigitsOfFormat
  <2>4. Only(f, C) = s
    <3> HIDE DEF C
    <3>1. QED
      BY <1>1, DigitsOfFormat
  <2>5. s # <<>> /\ \A i \in DOMAIN s : s[i] \in Digits
    <3> HIDE DEF s
    <3>1. DOMAIN s = 1..Len(s) /\ \A i \in 1..Len(s) : s[i] \in Digits
      BY <2>2, LenProperties, ElementOfSeq
    <3> DEFINE none == <<>>
    <3>2. s # none
      <4>1. Len(none) = 0
        OBVIOUS
      <4>2. Len(s) # 0
        <5>1. \A k \in 1..19 : k # 0
          OBVIOUS
        <5>2. QED
          BY <2>2, <5>1, Zenon
      <4> HIDE DEF none
      <4>3. QED
        BY <4>1, <4>2, Zenon
    <3>3. QED
      BY <3>1, <3>2
  <2>6. ParseAmount(f) = v
    <3>1. ParseAmount(f) = IF s # <<>> /\ \A i \in DOMAIN s : s[i] \in Digits
                           THEN ValueOf(s) ELSE 0
      BY <2>4 DEF ParseAmount
    <3> HIDE DEF s
    <3>2. QED
      BY <2>2, <2>5, <3>1
  <2>7. Shown(v) = f
    BY <1>2 DEF Shown
  <2> HIDE DEF f, s
  <2>8. QED
    BY <2>1, <2>2, <2>3, <2>6, <2>7 DEF DigitsOnly
<1>3. CASE v = 0
  <2> DEFINE none == <<>>
  <2>1. Shown(v) = none /\ none \in Seq(Characters) /\ none \in Seq(Digits)
    BY <1>3 DEF Shown
  <2>2. DigitsOnly(none) = none /\ Only(none, C) = none
    BY OnlyOfNone DEF DigitsOnly
  <2>3. ParseAmount(none) = 0
    BY <2>2 DEF ParseAmount
  <2>4. ValueOf(none) = 0
    BY ValueOfNone
  <2> HIDE DEF none
  <2>5. QED
    BY <1>3, <2>1, <2>2, <2>3, <2>4
<1>4. QED
  BY <1>1, <1>2, <1>3

\* The mask after one more digit.
LEMMA MaskedAmount ==
  ASSUME NEW v \in Writable, NEW digit \in Digits, 10 * v + DigitOf(digit) \in Writable
  PROVE  MaskAmount(Append(Shown(v), digit)) = Shown(10 * v + DigitOf(digit))
<1> DEFINE f == Shown(v)
           w == 10 * v + DigitOf(digit)
           d == DigitsOnly(f)
<1>1. f \in Seq(Characters) /\ d \in Seq(Digits) /\ ValueOf(d) = v
  BY ShownAmount
<1>2. w \in Writable /\ LocaleString(w) = FormatKRW(w)
  <2>1. w \in Writable
    OBVIOUS
  <2> HIDE DEF w
  <2>2. QED
    BY <2>1, FormatIsLocale
<1>3. digit \in Characters
  BY DEF Characters
<1>4. DigitsOnly(Append(f, digit)) = Append(d, digit)
  <2> HIDE DEF f
  <2>1. Only(Append(f, digit), Digits) = Append(Only(f, Digits), digit)
    BY <1>1, <1>3, OnlyOfAppend
  <2>2. QED
    BY <2>1 DEF DigitsOnly
<1>5. ValueOf(Append(d, digit)) = w
  <2> HIDE DEF d
  <2>1. ValueOf(Append(d, digit)) = 10 * ValueOf(d) + DigitOf(digit)
    BY <1>1, ValueOfAppend
  <2>2. QED
    BY <1>1, <2>1
<1> HIDE DEF f, d, w
<1>6. MaskAmount(Append(f, digit)) = IF w > 0 THEN LocaleString(w) ELSE <<>>
  BY <1>4, <1>5 DEF MaskAmount
<1>7. MaskAmount(Append(f, digit)) = Shown(w)
  BY <1>2, <1>6 DEF Shown
<1>8. QED
  BY <1>7 DEF f, w

\* What up to fifteen keys stand for can be written.
LEMMA TypedIsWritable ==
  ASSUME NEW keys \in Seq(Digits), Len(keys) <= 15
  PROVE  ValueOf(keys) \in Writable
<1>1. 19 \in Nat /\ 19 >= Len(keys)
  OBVIOUS
<1>2. ValueOf(keys) \in Nat /\ Shifted(ValueOf(keys), 19) = 0
  BY <1>1, ValueIsNat, ValueFits
<1>3. QED
  BY <1>2 DEF Writable
-----------------------------------------------------------------------------
(* Phone numbers in a field.                                               *)

\* The first eleven digits, all that a field takes.
Cut(digits) == Slice(digits, 0, 11)

\* A text of digits that is cut.
LEMMA CutDigits ==
  ASSUME NEW digits \in Seq(Digits)
  PROVE  /\ Cut(digits) \in Seq(Digits)
         /\ Len(Cut(digits)) = IF 11 < Len(digits) THEN 11 ELSE Len(digits)
         /\ \A i \in 1..Len(Cut(digits)) : Cut(digits)[i] = digits[i]
         /\ Len(digits) <= 11 => Cut(digits) = digits
<1> DEFINE n == IF 11 < Len(digits) THEN 11 ELSE Len(digits)
           c == SubSeq(digits, 1, n)
<1>1. n \in Nat /\ n <= Len(digits) /\ (Len(digits) <= 11 => n = Len(digits))
  OBVIOUS
<1>2. Cut(digits) = c
  BY DEF Cut, Slice
<1>3. \A i \in 1..n : digits[i] \in Digits
  BY <1>1
<1> HIDE DEF n
<1>4. c \in Seq(Digits) /\ Len(c) = n /\ \A i \in 1..n : c[i] = digits[i]
  BY <1>1, <1>3, SubSeqProperties
<1>5. Len(digits) <= 11 => c = digits
  BY <1>1, SubSeqFull
<1> HIDE DEF c
<1>6. QED
  BY <1>2, <1>4, <1>5 DEF n

\* Cutting twice, with more digits in between, is cutting once.
LEMMA CutAgain ==
  ASSUME NEW a \in Seq(Digits), NEW b \in Seq(Digits)
  PROVE  Cut(Cut(a) \o b) = Cut(a \o b)
<1> DEFINE x == Cut(a)
           y == x \o b
           z == a \o b
<1>1. /\ x \in Seq(Digits) /\ Len(x) = (IF 11 < Len(a) THEN 11 ELSE Len(a))
      /\ \A i \in 1..Len(x) : x[i] = a[i]
  BY CutDigits
<1>2. CASE Len(a) <= 11
  BY <1>2, CutDigits
<1>3. CASE Len(a) > 11
  <2>1. Len(x) = 11
    BY <1>1, <1>3
  <2> HIDE DEF x
  <2>2. /\ y \in Seq(Digits) /\ Len(y) = 11 + Len(b) /\ \A i \in 1..11 : y[i] = x[i]
    <3>1. /\ y \in Seq(Digits) /\ Len(y) = Len(x) + Len(b)
          /\ \A i \in 1..(Len(x) + Len(b)) : y[i] = IF i <= Len(x) THEN x[i] ELSE b[i - Len(x)]
      BY <1>1, ConcatProperties
    <3>2. Len(b) \in Nat
      OBVIOUS
    <3> HIDE DEF y
    <3>3. QED
      BY <2>1, <3>1, <3>2
  <2>3. /\ z \in Seq(Digits) /\ Len(z) = Len(a) + Len(b) /\ \A i \in 1..11 : z[i] = a[i]
    <3>1. /\ z \in Seq(Digits) /\ Len(z) = Len(a) + Len(b)
          /\ \A i \in 1..(Len(a) + Len(b)) : z[i] = IF i <= Len(a) THEN a[i] ELSE b[i - Len(a)]
      BY ConcatProperties
    <3>2. Len(a) \in Nat /\ Len(b) \in Nat
      OBVIOUS
    <3> HIDE DEF z
    <3>3. QED
      BY <1>3, <3>1, <3>2
  <2>4. 11 + Len(b) >= 11 /\ Len(a) + Len(b) > 11
    BY <1>3
  <2> HIDE DEF y, z
  <2>5. /\ Cut(y) \in Seq(Digits) /\ Len(Cut(y)) = 11
        /\ \A i \in 1..Len(Cut(y)) : Cut(y)[i] = y[i]
    <3>1. Len(y) = 11 \/ 11 < Len(y)
      BY <2>2, <2>4
    <3>2. QED
      BY <2>2, <3>1, CutDigits
  <2>6. /\ Cut(z) \in Seq(Digits) /\ Len(Cut(z)) = 11
        /\ \A i \in 1..Len(Cut(z)) : Cut(z)[i] = z[i]
    <3>1. 11 < Len(z)
      BY <2>3, <2>4
    <3>2. QED
      BY <2>3, <3>1, CutDigits
  <2> DEFINE p == Cut(y)
             q == Cut(z)
  <2>7. \A i \in 1..11 : p[i] = q[i]
    <3>1. \A i \in 1..11 : p[i] = y[i]
      BY <2>5, Zenon
    <3>2. \A i \in 1..11 : q[i] = z[i]
      BY <2>6, Zenon
    <3>3. \A i \in 1..11 : x[i] = a[i]
      BY <1>1, <2>1, Zenon
    <3>4. QED
      BY <2>2, <2>3, <3>1, <3>2, <3>3, Zenon
  <2>8. p \in Seq(Digits) /\ q \in Seq(Digits) /\ Len(p) = 11 /\ Len(q) = 11
    BY <2>5, <2>6
  <2> HIDE DEF p, q
  <2>9. p = q
    BY <2>7, <2>8, SeqEqual
  <2>10. QED
    BY <2>9 DEF p, q, x, y, z
<1>4. QED
  BY <1>2, <1>3

\* A dash between two parts of a number.
LEMMA DigitsOfDashed ==
  ASSUME NEW x \in Seq(Characters), NEW b \in Seq(Digits)
  PROVE  /\ x \o <<"-">> \o b \in Seq(Characters)
         /\ DigitsOnly(x \o <<"-">> \o b) = DigitsOnly(x) \o b
<1> DEFINE dash == <<"-">>
           none == <<>>
           y == x \o dash
<1>1. /\ dash \in Seq(Characters) /\ none \in Seq(Characters)
      /\ dash = Append(none, "-") /\ "-" \in Characters
  BY DEF Characters
<1>2. b \in Seq(Characters) /\ Only(b, Digits) = b
  BY SeqMonotonic, OnlyOfKept DEF Characters
<1>3. Only(none, Digits) = none
  BY OnlyOfNone
<1> HIDE DEF dash, none
<1>4. Only(dash, Digits) = none
  <2>1. Only(Append(none, "-"), Digits) = Only(none, Digits)
    BY <1>1, NoDigits, OnlyOfAppend
  <2>2. QED
    BY <1>1, <1>3, <2>1
<1>5. y \in Seq(Characters) /\ Only(y, Digits) = Only(x, Digits) \o none
  <2>1. x \o dash \in Seq(Characters)
    BY <1>1, ConcatProperties
  <2>2. Only(x \o dash, Digits) = Only(x, Digits) \o Only(dash, Digits)
    <3> DEFINE D == Digits
    <3> HIDE DEF D
    <3>0. dash \in Seq(Characters)
      BY <1>1, Zenon
    <3>1. Only(x \o dash, D) = Only(x, D) \o Only(dash, D)
      BY <3>0, OnlyOfConcat
    <3>2. QED
      BY <3>1 DEF D
  <2>3. QED
    BY <1>4, <2>1, <2>2
<1>6. Only(x, Digits) \o none = Only(x, Digits)
  <2> DEFINE o == Only(x, Digits)
  <2>1. o \in Seq(Characters \cap Digits)
    BY OnlyType
  <2> HIDE DEF o
  <2>2. o \o none = o
    BY <2>1, ConcatEmptySeq DEF none
  <2>3. QED
    BY <2>2 DEF o
<1> HIDE DEF y
<1>7. y \o b \in Seq(Characters) /\ Only(y \o b, Digits) = Only(y, Digits) \o Only(b, Digits)
  <2>1. y \o b \in Seq(Characters)
    BY <1>2, <1>5, ConcatProperties
  <2>2. Only(y \o b, Digits) = Only(y, Digits) \o Only(b, Digits)
    <3> DEFINE D == Digits
    <3>1. y \in Seq(Characters) /\ b \in Seq(Characters)
      BY <1>2, <1>5
    <3> HIDE DEF D
    <3>2. Only(y \o b, D) = Only(y, D) \o Only(b, D)
      BY <3>1, OnlyOfConcat
    <3>3. QED
      BY <3>2 DEF D
  <2>3. QED
    BY <2>1, <2>2
<1>8. QED
  BY <1>2, <1>5, <1>6, <1>7 DEF y, dash, DigitsOnly
\* Parts of a number that follow each other.
LEMMA SliceJoined ==
  ASSUME NEW s \in Seq(Digits), NEW i \in Nat, NEW j \in Nat, NEW k \in Nat,
         i <= j, j <= k, j <= Len(s)
  PROVE  /\ Slice(s, i, j) \in Seq(Digits) /\ Slice(s, j, k) \in Seq(Digits)
         /\ Slice(s, i, j) \o Slice(s, j, k) = Slice(s, i, k)
<1> DEFINE m == i + 1
           n == IF k < Len(s) THEN k ELSE Len(s)
<1>1. /\ m \in 1..(Len(s) + 1) /\ j \in (m - 1)..Len(s) /\ n \in j..Len(s)
      /\ m \in Nat /\ n \in Nat /\ j \in Int /\ j + 1 \in Nat
  OBVIOUS
<1>2. /\ Slice(s, i, j) = SubSeq(s, m, j) /\ Slice(s, j, k) = SubSeq(s, j + 1, n)
      /\ Slice(s, i, k) = SubSeq(s, m, n)
  <2>1. (IF j < Len(s) THEN j ELSE Len(s)) = j
    OBVIOUS
  <2>2. QED
    BY <2>1 DEF Slice
<1>3. \A e \in 1..Len(s) : s[e] \in Digits
  OBVIOUS
<1>4. (\A e \in m..j : s[e] \in Digits) /\ (\A e \in (j + 1)..n : s[e] \in Digits)
  <2>1. (\A e \in m..j : e \in 1..Len(s)) /\ (\A e \in (j + 1)..n : e \in 1..Len(s))
    BY <1>1
  <2>2. QED
    BY <1>3, <2>1
<1> HIDE DEF m, n
<1>5. SubSeq(s, m, j) \in Seq(Digits)
  BY <1>1, <1>4, SubSeqProperties
<1> DEFINE o == j + 1
<1>6. SubSeq(s, o, n) \in Seq(Digits)
  <2>1. o \in Int /\ n \in Int /\ \A e \in o..n : s[e] \in Digits
    BY <1>1, <1>4
  <2> HIDE DEF o
  <2>2. QED
    BY <2>1, SubSeqProperties
<1>7. SubSeq(s, m, j) \o SubSeq(s, j + 1, n) = SubSeq(s, m, n)
  BY <1>1, ConcatAdjacentSubSeq
<1>8. QED
  BY <1>2, <1>5, <1>6, <1>7 DEF o

\* Two parts, with a dash.
LEMMA DigitsOfParts ==
  ASSUME NEW a \in Seq(Digits), NEW b \in Seq(Digits)
  PROVE  /\ DigitsOnly(a) = a /\ a \in Seq(Characters)
         /\ a \o <<"-">> \o b \in Seq(Characters)
         /\ DigitsOnly(a \o <<"-">> \o b) = a \o b
<1>1. a \in Seq(Characters)
  BY SeqMonotonic DEF Characters
<1>2. DigitsOnly(a) = a
  BY OnlyOfKept DEF DigitsOnly
<1>3. QED
  BY <1>1, <1>2, DigitsOfDashed

\* Three parts, with two dashes.
LEMMA DigitsOfThree ==
  ASSUME NEW a \in Seq(Digits), NEW b \in Seq(Digits), NEW c \in Seq(Digits)
  PROVE  /\ a \o <<"-">> \o b \o <<"-">> \o c \in Seq(Characters)
         /\ DigitsOnly(a \o <<"-">> \o b \o <<"-">> \o c) = (a \o b) \o c
<1> DEFINE x == a \o <<"-">> \o b
<1>1. x \in Seq(Characters) /\ DigitsOnly(x) = a \o b
  BY DigitsOfParts
<1> HIDE DEF x
<1>2. x \o <<"-">> \o c \in Seq(Characters) /\ DigitsOnly(x \o <<"-">> \o c) = DigitsOnly(x) \o c
  BY <1>1, DigitsOfDashed
<1>3. QED
  BY <1>1, <1>2 DEF x

\* The groups of the mask.
Grouped(s) ==
  IF Len(s) >= 8
  THEN Slice(s, 0, 3) \o <<"-">> \o Slice(s, 3, 7) \o <<"-">> \o Slice(s, 7, 11)
  ELSE IF Len(s) >= 4 THEN Slice(s, 0, 3) \o <<"-">> \o Slice(s, 3, 7)
  ELSE s

\* The dashes of the groups are all that is added.
LEMMA DigitsOfGrouped ==
  ASSUME NEW s \in Seq(Digits), Len(s) <= 11
  PROVE  Grouped(s) \in Seq(Characters) /\ DigitsOnly(Grouped(s)) = s
<1> DEFINE a == Slice(s, 0, 3)
           b == Slice(s, 3, 7)
           c == Slice(s, 7, 11)
<1>0. /\ \A k \in Nat : k >= Len(s) => Slice(s, 0, k) = s
      /\ Len(s) \in Nat
  <2> SUFFICES ASSUME NEW k \in Nat, k >= Len(s) PROVE Slice(s, 0, k) = s
    OBVIOUS
  <2>1. (IF k < Len(s) THEN k ELSE Len(s)) = Len(s) /\ 0 + 1 = 1
    OBVIOUS
  <2>2. QED
    BY <2>1, SubSeqFull DEF Slice
<1>1. CASE Len(s) >= 8
  <2>1. a \in Seq(Digits) /\ b \in Seq(Digits) /\ a \o b = Slice(s, 0, 7)
    BY <1>1, SliceJoined, SMTT(20)
  <2>2. c \in Seq(Digits) /\ Slice(s, 0, 7) \o c = Slice(s, 0, 11)
    <3>1. 0 \in Nat /\ 7 \in Nat /\ 11 \in Nat /\ 0 <= 7 /\ 7 <= 11 /\ 7 <= Len(s)
      BY <1>0, <1>1
    <3>2. QED
      BY <3>1, SliceJoined
  <2>3. Grouped(s) = a \o <<"-">> \o b \o <<"-">> \o c
    BY <1>1 DEF Grouped
  <2>4. Slice(s, 0, 11) = s
    BY <1>0
  <2> HIDE DEF a, b, c
  <2>5. /\ a \o <<"-">> \o b \o <<"-">> \o c \in Seq(Characters)
        /\ DigitsOnly(a \o <<"-">> \o b \o <<"-">> \o c) = (a \o b) \o c
    <3>1. a \in Seq(Digits) /\ b \in Seq(Digits) /\ c \in Seq(Digits)
      BY <2>1, <2>2
    <3>2. QED
      BY <3>1, DigitsOfThree, Zenon
  <2>6. QED
    BY <2>1, <2>2, <2>3, <2>4, <2>5
<1>2. CASE Len(s) >= 4 /\ ~ (Len(s) >= 8)
  <2>1. a \in Seq(Digits) /\ b \in Seq(Digits) /\ a \o b = Slice(s, 0, 7)
    <3>1. 0 \in Nat /\ 3 \in Nat /\ 7 \in Nat /\ 0 <= 3 /\ 3 <= 7 /\ 3 <= Len(s)
      BY <1>0, <1>2
    <3>2. QED
      BY <3>1, SliceJoined
  <2>2. Grouped(s) = a \o <<"-">> \o b
    BY <1>2 DEF Grouped
  <2>3. Slice(s, 0, 7) = s
    <3>1. 7 \in Nat /\ 7 >= Len(s)
      BY <1>0, <1>2
    <3>2. QED
      BY <1>0, <3>1
  <2> HIDE DEF a, b
  <2>4. a \o <<"-">> \o b \in Seq(Characters) /\ DigitsOnly(a \o <<"-">> \o b) = a \o b
    BY <2>1, DigitsOfParts
  <2>5. QED
    BY <2>1, <2>2, <2>3, <2>4
<1>3. CASE ~ (Len(s) >= 4)
  <2>1. Grouped(s) = s
    BY <1>0, <1>3 DEF Grouped
  <2>2. QED
    BY <2>1, DigitsOfParts
<1>4. QED
  BY <1>1, <1>2, <1>3

\* The mask keeps the first eleven digits, and run again it changes nothing.
LEMMA MaskedPhone ==
  ASSUME NEW text \in Seq(Characters)
  PROVE  /\ MaskPhone(text) \in Seq(Characters)
         /\ DigitsOnly(text) \in Seq(Digits)
         /\ DigitsOnly(MaskPhone(text)) = Cut(DigitsOnly(text))
         /\ MaskPhone(MaskPhone(text)) = MaskPhone(text)
<1> DEFINE d == DigitsOnly(text)
           c == Cut(d)
           m == MaskPhone(text)
<1>1. \A t : MaskPhone(t) = Grouped(Cut(DigitsOnly(t)))
  BY DEF MaskPhone, Grouped, Cut
<1>2. d \in Seq(Digits)
  <2>1. Only(text, Digits) \in Seq(Characters \cap Digits)
    BY OnlyType
  <2>2. Characters \cap Digits = Digits
    BY DEF Characters
  <2>3. QED
    BY <2>1, <2>2 DEF DigitsOnly
<1>3. m = Grouped(c)
  BY <1>1
<1> HIDE DEF d, m
<1>4. c \in Seq(Digits) /\ Len(c) <= 11
  <2>1. c \in Seq(Digits) /\ Len(c) = IF 11 < Len(d) THEN 11 ELSE Len(d)
    BY <1>2, CutDigits
  <2>2. Len(d) \in Nat
    BY <1>2
  <2>3. QED
    BY <2>1, <2>2
<1> HIDE DEF c
<1>5. m \in Seq(Characters) /\ DigitsOnly(m) = c
  BY <1>3, <1>4, DigitsOfGrouped
<1>6. Cut(c) = c
  BY <1>4, CutDigits
<1>7. MaskPhone(m) = m
  BY <1>1, <1>3, <1>5, <1>6
<1>8. QED
  BY <1>2, <1>5, <1>7 DEF c, d, m
\* A national number.
National(number) == number \in Seq(Digits) /\ Len(number) \in 1..11 /\ number[1] = "0"

\* The country code.
Code == <<"8", "2">>

\* What is a text of two characters before others.
LEMMA CodeIsPrefix ==
  /\ Code \in Seq(Digits) /\ Len(Code) = 2 /\ Code[1] = "8" /\ Code[2] = "2"
  /\ \A t \in Seq(Digits) :
       IsPrefix(Code, t) <=> Len(t) >= 2 /\ t[1] = "8" /\ t[2] = "2"
<1>1. "8" \in Digits /\ "2" \in Digits
  <2>1. Char(8) = "8" /\ Char(2) = "2"
    BY DEF Char, DigitChars
  <2>2. QED
    BY <2>1 DEF Digits
<1>2. Code \in Seq(Digits) /\ Len(Code) = 2 /\ Code[1] = "8" /\ Code[2] = "2"
  BY <1>1 DEF Code
<1>3. ASSUME NEW t \in Seq(Digits)
      PROVE  IsPrefix(Code, t) <=> Len(t) >= 2 /\ t[1] = "8" /\ t[2] = "2"
  <2> DEFINE p == SubSeq(t, 1, 2)
             c == Code
  <2>1. IsPrefix(c, t) <=> 2 <= Len(t) /\ SubSeq(c, 1, 2) = p
    BY <1>2 DEF IsPrefix
  <2>2. SubSeq(c, 1, 2) = c
    BY <1>2, SubSeqFull
  <2>3. CASE Len(t) >= 2
    <3>1. p \in Seq(Digits) /\ Len(p) = 2 /\ p[1] = t[1] /\ p[2] = t[2]
      BY <2>3
    <3> HIDE DEF p, c
    <3>2. p = c <=> p[1] = c[1] /\ p[2] = c[2]
      <4>1. ASSUME p[1] = c[1], p[2] = c[2] PROVE p = c
        <5>1. Len(p) = Len(c) /\ \A i \in 1..Len(p) : p[i] = c[i]
          <6>1. \A i \in 1..2 : i = 1 \/ i = 2
            OBVIOUS
          <6>2. \A i \in 1..2 : p[i] = c[i]
            BY <4>1, <6>1
          <6>3. QED
            BY <1>2, <3>1, <6>2 DEF c
        <5>2. c \in Seq(Digits)
          BY <1>2 DEF c
        <5>3. QED
          BY <3>1, <5>1, <5>2, SeqEqual
      <4>2. QED
        BY <4>1
    <3>3. QED
      BY <1>2, <2>1, <2>2, <2>3, <3>1, <3>2 DEF c
  <2>4. CASE ~ (Len(t) >= 2)
    BY <2>1, <2>4
  <2>5. QED
    BY <2>3, <2>4
<1>4. QED
  BY <1>2, <1>3

\* A text that has the digits of a national number stands for it.
LEMMA NormalizeNational ==
  ASSUME NEW number, National(number), NEW text, DigitsOnly(text) = number
  PROVE  NormalizePhone(text) = number
<1>1. ~ IsPrefix(Code, number)
  BY CodeIsPrefix DEF National
<1>2. QED
  BY <1>1 DEF NormalizePhone, Code

\* What the page shows of a number leads back to it.
LEMMA FormatLeadsBack ==
  ASSUME NEW number, National(number)
  PROVE  NormalizePhone(FormatPhone(number)) = number
<1>1. number \in Seq(Digits) /\ Len(number) \in Nat
  BY DEF National
<1>2. DigitsOnly(number) = number
  BY <1>1, DigitsOfParts
<1>3. NormalizePhone(number) = number
  BY <1>2, NormalizeNational
<1>4. ASSUME NEW j \in Nat, NEW k \in Nat, 3 <= j, j <= k, k = Len(number)
      PROVE  DigitsOnly(Slice(number, 0, 3) \o <<"-">> \o Slice(number, 3, j)
                          \o <<"-">> \o Slice(number, j, k)) = number
  <2> DEFINE a == Slice(number, 0, 3)
             b == Slice(number, 3, j)
             c == Slice(number, j, k)
  <2>1. a \in Seq(Digits) /\ b \in Seq(Digits) /\ a \o b = Slice(number, 0, j)
    <3>1. 0 \in Nat /\ 3 \in Nat /\ 0 <= 3 /\ 3 <= j /\ 3 <= Len(number)
      BY <1>1, <1>4
    <3>2. QED
      BY <1>1, <3>1, SliceJoined
  <2>2. c \in Seq(Digits) /\ Slice(number, 0, j) \o c = Slice(number, 0, k)
    <3>1. 0 \in Nat /\ 0 <= j /\ j <= k /\ j <= Len(number)
      BY <1>1, <1>4
    <3>2. QED
      BY <1>1, <3>1, SliceJoined
  <2>3. Slice(number, 0, k) = number
    <3>1. (IF k < Len(number) THEN k ELSE Len(number)) = Len(number) /\ 0 + 1 = 1
      BY <1>1, <1>4
    <3>2. QED
      BY <1>1, <3>1, SubSeqFull DEF Slice
  <2> HIDE DEF a, b, c
  <2>4. \A x, y, z \in Seq(Digits) :
          DigitsOnly(x \o <<"-">> \o y \o <<"-">> \o z) = (x \o y) \o z
    BY DigitsOfThree
  <2>5. DigitsOnly(a \o <<"-">> \o b \o <<"-">> \o c) = number
    <3>1. (a \o b) \o c = number
      BY <2>1, <2>2, <2>3
    <3>2. DigitsOnly(a \o <<"-">> \o b \o <<"-">> \o c) = (a \o b) \o c
      BY <2>1, <2>2, <2>4
    <3>3. QED
      BY <3>1, <3>2
  <2>6. QED
    BY <2>5 DEF a, b, c
<1>5. DigitsOnly(FormatPhone(number)) = number
  <2>1. CASE Len(number) = 11
    <3>1. FormatPhone(number) = Slice(number, 0, 3) \o <<"-">> \o Slice(number, 3, 7)
                                  \o <<"-">> \o Slice(number, 7, 11)
      BY <1>3, <2>1 DEF FormatPhone
    <3>2. QED
      BY <1>4, <2>1, <3>1
  <2>2. CASE Len(number) = 10
    <3>1. FormatPhone(number) = Slice(number, 0, 3) \o <<"-">> \o Slice(number, 3, 6)
                                  \o <<"-">> \o Slice(number, 6, 10)
      BY <1>3, <2>2 DEF FormatPhone
    <3>2. QED
      BY <1>4, <2>2, <3>1
  <2>3. CASE Len(number) \notin {10, 11}
    <3>1. FormatPhone(number) = number
      BY <1>3, <2>3 DEF FormatPhone
    <3>2. QED
      BY <1>2, <3>1
  <2>4. QED
    BY <2>1, <2>2, <2>3
<1>6. QED
  BY <1>5, NormalizeNational

\* With the country code the mask leaves enough of a number of ten digits, and
\* of no other.
LEMMA NormalizeWithCode ==
  ASSUME NEW number, National(number), NEW text,
         DigitsOnly(text) = Cut(Code \o Tail(number))
  PROVE  NormalizePhone(text) = number <=> Len(number) = 10
<1> DEFINE t == Tail(number)
           k == Code \o t
           c == Cut(k)
           n == Len(number)
<1>1. /\ number \in Seq(Digits) /\ n \in 1..11 /\ number[1] = "0"
      /\ t \in Seq(Digits) /\ Len(t) = n - 1
      /\ \A i \in 1..(n - 1) : t[i] = number[i + 1]
  <2>1. number \in Seq(Digits) /\ n \in 1..11 /\ number[1] = "0"
    BY DEF National
  <2>2. number # <<>>
    <3> DEFINE none == <<>>
    <3>1. Len(none) = 0 /\ \A e \in 1..11 : e # 0
      OBVIOUS
    <3> HIDE DEF none
    <3>2. number # none
      BY <2>1, <3>1, Zenon
    <3>3. QED
      BY <3>2 DEF none
  <2>3. QED
    BY <2>1, <2>2, HeadTailProperties
<1> HIDE DEF t, n
<1>2. /\ k \in Seq(Digits) /\ Len(k) = n + 1 /\ k[1] = "8" /\ k[2] = "2"
      /\ \A i \in 1..(n - 1) : k[i + 2] = t[i]
  <2> DEFINE b == Code
  <2>1. b \in Seq(Digits) /\ Len(b) = 2 /\ b[1] = "8" /\ b[2] = "2"
    BY CodeIsPrefix
  <2> HIDE DEF b
  <2>2. /\ b \o t \in Seq(Digits) /\ Len(b \o t) = Len(b) + Len(t)
        /\ \A i \in 1..(Len(b) + Len(t)) :
             (b \o t)[i] = IF i <= Len(b) THEN b[i] ELSE t[i - Len(b)]
    BY <1>1, <2>1, ConcatProperties
  <2> DEFINE w == b \o t
  <2>3. /\ w \in Seq(Digits) /\ Len(w) = n + 1
        /\ \A i \in 1..(n + 1) : w[i] = IF i <= 2 THEN b[i] ELSE t[i - 2]
    BY <1>1, <2>1, <2>2
  <2> HIDE DEF w
  <2>4. w[1] = "8" /\ w[2] = "2"
    BY <1>1, <2>1, <2>3
  <2>5. ASSUME NEW i \in 1..(n - 1) PROVE w[i + 2] = t[i]
    <3>1. i + 2 \in 1..(n + 1) /\ ~ (i + 2 <= 2) /\ (i + 2) - 2 = i
      BY <1>1
    <3>2. QED
      BY <2>3, <3>1
  <2>6. QED
    BY <2>3, <2>4, <2>5 DEF w, b
<1> HIDE DEF k
<1>3. /\ c \in Seq(Digits) /\ Len(c) = (IF 11 < n + 1 THEN 11 ELSE n + 1)
      /\ \A i \in 1..Len(c) : c[i] = k[i]
  BY <1>2, CutDigits
<1>4. DigitsOnly(text) = c
  BY DEF c, k, t
<1> HIDE DEF c
<1>5. Len(c) >= 2 /\ c[1] = "8" /\ c[2] = "2" /\ Len(c) \in Nat
  BY <1>1, <1>2, <1>3
<1>6. IsPrefix(Code, c)
  BY <1>3, <1>5, CodeIsPrefix
<1>7. NormalizePhone(text) = IF Len(c) >= 11 THEN <<"0">> \o Slice(c, 2, Len(c)) ELSE c
  BY <1>4, <1>6 DEF NormalizePhone, Code
<1> DEFINE r == Slice(c, 2, Len(c))
           z == <<"0">>
<1>8. z \in Seq(Digits) /\ Len(z) = 1 /\ z[1] = "0"
  <2>1. Char(0) = "0" /\ Char(0) \in Digits
    BY CharOfDigit DEF Char, DigitChars
  <2>2. QED
    BY <2>1
<1>9. /\ r \in Seq(Digits) /\ Len(r) = Len(c) - 2
      /\ \A i \in 1..(Len(c) - 2) : r[i] = c[i + 2]
  <2>1. r = SubSeq(c, 3, Len(c))
    BY <1>5 DEF Slice
  <2> DEFINE l == Len(c)
  <2>2. l \in Int /\ 3 \in Int /\ \A i \in 3..l : c[i] \in Digits
    BY <1>3, <1>5
  <2> HIDE DEF l
  <2>3. /\ SubSeq(c, 3, l) \in Seq(Digits) /\ Len(SubSeq(c, 3, l)) = (IF 3 <= l THEN (l - 3) + 1 ELSE 0)
        /\ \A i \in 1..((l - 3) + 1) : SubSeq(c, 3, l)[i] = c[(3 + i) - 1]
    BY <2>2, SubSeqProperties
  <2>4. (l - 3) + 1 = l - 2 /\ l >= 2 /\ \A i \in 1..(l - 2) : (3 + i) - 1 = i + 2
    BY <1>5, <2>2 DEF l
  <2>5. r = SubSeq(c, 3, l)
    BY <2>1 DEF l
  <2> HIDE DEF r
  <2>6. Len(r) = l - 2
    BY <2>2, <2>3, <2>4, <2>5
  <2>7. QED
    BY <2>3, <2>4, <2>5, <2>6 DEF l
<1> HIDE DEF r, z
<1> DEFINE x == z \o r
<1>10. /\ x \in Seq(Digits) /\ Len(x) = 1 + (Len(c) - 2)
       /\ \A i \in 1..(1 + (Len(c) - 2)) : x[i] = IF i <= 1 THEN z[i] ELSE r[i - 1]
  <2>1. /\ x \in Seq(Digits) /\ Len(x) = Len(z) + Len(r)
        /\ \A i \in 1..(Len(z) + Len(r)) : x[i] = IF i <= Len(z) THEN z[i] ELSE r[i - Len(z)]
    BY <1>8, <1>9, ConcatProperties
  <2> HIDE DEF x
  <2>2. QED
    BY <1>8, <1>9, <2>1
<1>11. NormalizePhone(text) = IF Len(c) >= 11 THEN x ELSE c
  BY <1>7 DEF r, z
<1> HIDE DEF x
<1>12. CASE n < 10
  <2>1. NormalizePhone(text) = c
    BY <1>1, <1>3, <1>11, <1>12
  <2>2. c # number
    <3>1. "8" # "0"
      OBVIOUS
    <3>2. QED
      BY <1>1, <1>5, <3>1, Zenon
  <2>3. n # 10
    BY <1>1, <1>12
  <2>4. QED
    BY <2>1, <2>2, <2>3, Zenon DEF n
<1>13. CASE n = 10
  <2>1. Len(c) = 11 /\ NormalizePhone(text) = x /\ Len(x) = 10
    BY <1>3, <1>10, <1>11, <1>13
  <2>2. ASSUME NEW i \in 1..10 PROVE x[i] = number[i]
    <3>1. CASE i = 1
      BY <1>1, <1>8, <1>10, <2>1, <3>1
    <3>2. CASE i > 1
      <4> DEFINE e == i - 1
      <4>1. e \in 1..9 /\ e + 2 \in 1..11 /\ e + 1 = i /\ ~ (i <= 1)
        BY <3>2
      <4>2. x[i] = r[e]
        BY <1>10, <2>1, <4>1
      <4> HIDE DEF e
      <4>3. r[e] = c[e + 2]
        BY <1>9, <2>1, <4>1
      <4>4. c[e + 2] = k[e + 2]
        BY <1>3, <2>1, <4>1
      <4>5. k[e + 2] = t[e] /\ t[e] = number[e + 1]
        <5>1. e \in 1..(n - 1)
          BY <1>13, <4>1
        <5>2. QED
          BY <1>1, <1>2, <5>1
      <4>6. QED
        BY <4>1, <4>2, <4>3, <4>4, <4>5
    <3>3. QED
      BY <3>1, <3>2
  <2>3. x = number
    BY <1>1, <1>10, <1>13, <2>1, <2>2, SeqEqual DEF n
  <2>4. QED
    BY <1>13, <2>1, <2>3 DEF n
<1>14. CASE n = 11
  <2>1. Len(c) = 11 /\ NormalizePhone(text) = x /\ Len(x) = 10
    BY <1>3, <1>10, <1>11, <1>14
  <2>2. Len(x) # Len(number) /\ n # 10
    BY <1>14, <2>1 DEF n
  <2>3. QED
    BY <2>1, <2>2 DEF n
<1>15. QED
  BY <1>1, <1>12, <1>13, <1>14
-----------------------------------------------------------------------------
(* What the operator has in front of them.                                 *)

\* The characters of a number that are typed, in the end.
Keyed(s) == IF s.code THEN Code \o Tail(s.number) ELSE s.number

\* The digits of the field and those still to come are the first eleven that
\* are typed, and the field is as the mask left it.
PhoneOK(s) ==
  /\ s \in [kind : {"phone"}, number : Seq(Digits), code : BOOLEAN,
            rest : Seq(Characters), dashes : Nat, field : Seq(Characters)]
  /\ (s.number = <<>> /\ ~ s.code) \/ National(s.number)
  /\ Cut(DigitsOnly(s.field) \o DigitsOnly(s.rest)) = Cut(Keyed(s))
  /\ MaskPhone(s.field) = s.field

\* The field shows what the keys stand for.
AmountOK(s) ==
  /\ s \in [kind : {"amount"}, keys : Seq(AmountKeys), field : Seq(Characters)]
  /\ Len(s.keys) <= MaxKeys
  /\ s.field = Shown(ValueOf(s.keys))

\* The calendar knows the day.
ReportOK(s) ==
  /\ s \in [kind : {"report"}, now : Nat]
  /\ DayOf(s.now) <= LastDay

ScreensInv == PhoneOK(screen) \/ AmountOK(screen) \/ ReportOK(screen)

\* Literal texts that grow.
LEMMA AppendToOne ==
  ASSUME NEW S, NEW x \in S, NEW y \in S
  PROVE  Append(<<x>>, y) = <<x, y>>
<1> DEFINE p == <<x>>
           q == Append(p, y)
           r == <<x, y>>
<1>1. p \in Seq(S) /\ Len(p) = 1 /\ p[1] = x
  OBVIOUS
<1>2. r \in Seq(S) /\ Len(r) = 2 /\ r[1] = x /\ r[2] = y
  OBVIOUS
<1> HIDE DEF p, r
<1>3. q \in Seq(S) /\ Len(q) = 2 /\ q[1] = x /\ q[2] = y
  <2>1. q \in Seq(S)
    BY <1>1, AppendProperties
  <2>2. Len(q) = Len(p) + 1 /\ q[Len(p) + 1] = y
    <3>1. y \in S
      OBVIOUS
    <3>2. QED
      BY <1>1, <3>1, AppendProperties, ZenonT(30)
  <2>3. \A i \in 1..Len(p) : q[i] = p[i]
    BY <1>1, AppendProperties, SMTT(20)
  <2> HIDE DEF q
  <2>4. QED
    BY <1>1, <2>1, <2>2, <2>3
<1> HIDE DEF q
<1>4. \A i \in 1..2 : i = 1 \/ i = 2
  OBVIOUS
<1>5. \A i \in 1..Len(q) : q[i] = r[i]
  BY <1>2, <1>3, <1>4
<1>6. q = r
  BY <1>2, <1>3, <1>5, SeqEqual
<1>7. QED
  BY <1>6 DEF q, p, r

\* Likewise from two elements.
LEMMA AppendToTwo ==
  ASSUME NEW S, NEW x \in S, NEW y \in S, NEW z \in S
  PROVE  Append(<<x, y>>, z) = <<x, y, z>>
<1> DEFINE p == <<x, y>>
           q == Append(p, z)
           r == <<x, y, z>>
<1>1. p \in Seq(S) /\ Len(p) = 2 /\ p[1] = x /\ p[2] = y
  OBVIOUS
<1>2. r \in Seq(S) /\ Len(r) = 3 /\ r[1] = x /\ r[2] = y /\ r[3] = z
  OBVIOUS
<1> HIDE DEF p, r
<1>3. q \in Seq(S) /\ Len(q) = 3 /\ q[1] = x /\ q[2] = y /\ q[3] = z
  <2>0. p \in Seq(S)
    BY <1>1
  <2>1. q \in Seq(S)
    BY <2>0, AppendProperties
  <2>2. Len(q) = Len(p) + 1 /\ q[Len(p) + 1] = z
    BY <2>0, AppendProperties
  <2>3. \A i \in 1..Len(p) : q[i] = p[i]
    BY <2>0, AppendProperties
  <2> HIDE DEF q
  <2>4. 1 \in 1..Len(p) /\ 2 \in 1..Len(p) /\ Len(p) + 1 = 3
    BY <1>1
  <2>5. q[1] = p[1] /\ q[2] = p[2]
    BY <2>3, <2>4
  <2>6. QED
    BY <1>1, <2>1, <2>2, <2>4, <2>5
<1> HIDE DEF q
<1>4. \A i \in 1..3 : i = 1 \/ i = 2 \/ i = 3
  OBVIOUS
<1>5. \A i \in 1..Len(q) : q[i] = r[i]
  BY <1>2, <1>3, <1>4
<1>6. q = r
  BY <1>2, <1>3, <1>5, SeqEqual
<1>7. QED
  BY <1>6 DEF q, p, r

\* The texts without characters.
LEMMA Nothing ==
  /\ \A S : <<>> \in Seq(S)
  /\ DigitsOnly(<<>>) = <<>> /\ MaskPhone(<<>>) = <<>> /\ Cut(<<>>) = <<>>
  /\ \A S : \A t \in Seq(S) : t \o <<>> = t
<1> DEFINE none == <<>>
<1>1. none \in Seq(Digits) /\ none \in Seq(Characters) /\ Len(none) = 0 /\ \A S : none \in Seq(S)
  OBVIOUS
<1>2. DigitsOnly(none) = none
  BY OnlyOfNone DEF DigitsOnly
<1> HIDE DEF none
<1>3. Cut(none) = none
  <2>1. none \in Seq(Digits) /\ Len(none) <= 11
    BY <1>1
  <2>2. QED
    BY <2>1, CutDigits
<1>4. MaskPhone(none) = none
  <2>1. MaskPhone(none) = Grouped(Cut(DigitsOnly(none)))
    BY DEF MaskPhone, Grouped, Cut
  <2>2. Grouped(none) = none
    BY <1>1 DEF Grouped
  <2>3. QED
    BY <1>2, <1>3, <2>1, <2>2
<1>5. \A S : \A t \in Seq(S) : t \o none = t
  BY ConcatEmptySeq DEF none
<1>6. QED
  BY <1>1, <1>2, <1>3, <1>4, <1>5 DEF none

\* The keys of the country code.
LEMMA DigitsOfCode ==
  LET plus == <<"+", "8", "2">>
  IN  plus \in Seq(Characters) /\ DigitsOnly(plus) = Code
<1> DEFINE none == <<>>
           p == Append(none, "+")
           q == Append(p, "8")
           r == Append(q, "2")
<1>1. "8" \in Digits /\ "2" \in Digits
  <2>1. Char(8) = "8" /\ Char(2) = "2"
    BY DEF Char, DigitChars
  <2>2. QED
    BY <2>1 DEF Digits
<1>2. "+" \in Characters /\ "8" \in Characters /\ "2" \in Characters
  BY <1>1 DEF Characters
<1>3. r = <<"+", "8", "2">> /\ Append(Append(none, "8"), "2") = Code
  <2>1. \A x : Append(none, x) = <<x>>
    OBVIOUS
  <2> HIDE DEF none
  <2>2. p = <<"+">> /\ Append(none, "8") = <<"8">>
    BY <2>1
  <2>3. Append(<<"8">>, "2") = <<"8", "2">> /\ Append(<<"+">>, "8") = <<"+", "8">>
    BY <1>2, AppendToOne
  <2>4. Append(<<"+", "8">>, "2") = <<"+", "8", "2">>
    BY <1>2, AppendToTwo
  <2>5. QED
    BY <2>2, <2>3, <2>4, Zenon DEF Code
<1>4. none \in Seq(Characters) /\ Only(none, Digits) = none
  BY OnlyOfNone
<1> HIDE DEF none
<1>5. p \in Seq(Characters) /\ Only(p, Digits) = none
  <2>1. Only(Append(none, "+"), Digits) = Only(none, Digits)
    BY <1>2, <1>4, NoDigits, OnlyOfAppend
  <2>2. QED
    BY <1>2, <1>4, <2>1, AppendProperties
<1> HIDE DEF p
<1>6. q \in Seq(Characters) /\ Only(q, Digits) = Append(none, "8")
  <2>1. Only(Append(p, "8"), Digits) = Append(Only(p, Digits), "8")
    BY <1>1, <1>2, <1>5, OnlyOfAppend
  <2>2. QED
    BY <1>2, <1>5, <2>1, AppendProperties
<1> HIDE DEF q
<1>7. r \in Seq(Characters) /\ Only(r, Digits) = Append(Append(none, "8"), "2")
  <2>1. Only(Append(q, "2"), Digits) = Append(Only(q, Digits), "2")
    BY <1>1, <1>2, <1>6, OnlyOfAppend
  <2>2. QED
    BY <1>2, <1>6, <2>1, AppendProperties
<1> HIDE DEF r
<1>8. QED
  BY <1>3, <1>7 DEF DigitsOnly

\* A page that is opened is such a page.
LEMMA OpenedOK ==
  ASSUME NEW s \in Opened
  PROVE  PhoneOK(s) \/ AmountOK(s) \/ ReportOK(s)
<1>1. CASE s = EmptyPhone
  <2> DEFINE none == <<>>
  <2>1. /\ none \in Seq(Digits) /\ none \in Seq(Characters)
        /\ DigitsOnly(none) = none /\ MaskPhone(none) = none /\ none \o none = none
    BY Nothing
  <2>2. s = [kind |-> "phone", number |-> none, code |-> FALSE, rest |-> none,
             dashes |-> 0, field |-> none]
    BY <1>1 DEF EmptyPhone
  <2>3. none = <<>>
    OBVIOUS
  <2> HIDE DEF none
  <2>4. /\ s \in [kind : {"phone"}, number : Seq(Digits), code : BOOLEAN,
                  rest : Seq(Characters), dashes : Nat, field : Seq(Characters)]
        /\ s.number = none /\ s.code = FALSE /\ s.rest = none /\ s.field = none
    BY <2>1, <2>2
  <2>5. Keyed(s) = none
    BY <2>4 DEF Keyed
  <2>6. QED
    BY <2>1, <2>3, <2>4, <2>5 DEF PhoneOK
<1>2. CASE s = EmptyAmount
  <2> DEFINE none == <<>>
  <2>1. none \in Seq(AmountKeys) /\ none \in Seq(Characters) /\ Len(none) = 0
    BY Nothing
  <2>2. s = [kind |-> "amount", keys |-> none, field |-> none]
    BY <1>2 DEF EmptyAmount
  <2>3. Shown(ValueOf(none)) = none
    BY ValueOfNone DEF Shown
  <2> HIDE DEF none
  <2>4. /\ s \in [kind : {"amount"}, keys : Seq(AmountKeys), field : Seq(Characters)]
        /\ s.keys = none /\ s.field = none
    BY <2>1, <2>2
  <2>5. Len(s.keys) <= MaxKeys
    BY <2>1, <2>4, ScreensAssumption
  <2>6. QED
    BY <2>3, <2>4, <2>5 DEF AmountOK
<1>3. ASSUME NEW m \in Moments, s = Report(1440 * FirstDay + m)
      PROVE  ReportOK(s)
  <2>1. m \in 0..1439 /\ FirstDay \in Nat /\ LastDay \in Nat /\ FirstDay <= LastDay
    BY ScreensAssumption
  <2> DEFINE t == 1440 * FirstDay + m
  <2>2. t \in Nat /\ t \div 1440 = FirstDay
    BY <2>1
  <2>3. s = [kind |-> "report", now |-> t]
    BY <1>3 DEF Report
  <2> HIDE DEF t
  <2>4. s \in [kind : {"report"}, now : Nat] /\ s.now = t
    BY <2>2, <2>3
  <2>5. DayOf(s.now) <= LastDay
    BY <2>1, <2>2, <2>4 DEF DayOf
  <2>6. QED
    BY <2>4, <2>5 DEF ReportOK
<1>4. QED
  BY <1>1, <1>2, <1>3 DEF Opened
\* Which page it is.
LEMMA Kinds ==
  ASSUME NEW s
  PROVE  /\ PhoneOK(s) => s.kind = "phone"
         /\ AmountOK(s) => s.kind = "amount"
         /\ ReportOK(s) => s.kind = "report"
BY DEF PhoneOK, AmountOK, ReportOK

\* A number is going to be typed.
LEMMA PickStep ==
  ASSUME NEW number \in PhoneNumbers, NEW code \in BOOLEAN
  PROVE  PhoneOK([EmptyPhone EXCEPT
           !.number = number, !.code = code,
           !.rest = IF code THEN <<"+", "8", "2">> \o Tail(number) ELSE number])
<1> DEFINE none == <<>>
           plus == <<"+", "8", "2">>
           t == Tail(number)
           rest == IF code THEN plus \o t ELSE number
           s == [EmptyPhone EXCEPT !.number = number, !.code = code, !.rest = rest]
<1>1. National(number) /\ number \in Seq(Digits) /\ Len(number) \in 1..11
  BY ScreensAssumption DEF National
<1>2. t \in Seq(Digits)
  <2>1. number # none
    <3>1. Len(none) = 0 /\ \A e \in 1..11 : e # 0
      OBVIOUS
    <3> HIDE DEF none
    <3>2. QED
      BY <1>1, <3>1, Zenon
  <2>2. QED
    BY <1>1, <2>1, HeadTailProperties
<1>3. \A u \in Seq(Digits) : u \in Seq(Characters) /\ DigitsOnly(u) = u
  BY DigitsOfParts
<1>4. plus \in Seq(Characters) /\ DigitsOnly(plus) = Code
  BY DigitsOfCode
<1> HIDE DEF t, plus
<1>5. plus \o t \in Seq(Characters) /\ DigitsOnly(plus \o t) = Code \o t
  <2>1. t \in Seq(Characters) /\ DigitsOnly(t) = t
    BY <1>2, <1>3
  <2> DEFINE D == Digits
  <2> HIDE DEF D
  <2>2. Only(plus \o t, D) = Only(plus, D) \o Only(t, D)
    BY <1>4, <2>1, OnlyOfConcat
  <2>3. plus \o t \in Seq(Characters)
    BY <1>4, <2>1, ConcatProperties
  <2>4. QED
    BY <1>4, <2>1, <2>2, <2>3 DEF D, DigitsOnly
<1>6. rest \in Seq(Characters) /\ DigitsOnly(rest) = IF code THEN Code \o t ELSE number
  BY <1>1, <1>3, <1>5
<1>7. /\ none \in Seq(Characters) /\ DigitsOnly(none) = none /\ MaskPhone(none) = none
      /\ \A u \in Seq(Digits) : none \o u = u
  BY Nothing, ConcatEmptySeq
<1>8. EmptyPhone \in [kind : {"phone"}, number : Seq(Digits), code : BOOLEAN,
                        rest : Seq(Characters), dashes : Nat, field : Seq(Characters)]
      /\ EmptyPhone.field = none
  BY Nothing DEF EmptyPhone, none
<1> HIDE DEF none, rest
<1>9. /\ s \in [kind : {"phone"}, number : Seq(Digits), code : BOOLEAN,
                rest : Seq(Characters), dashes : Nat, field : Seq(Characters)]
      /\ s.number = number /\ s.code = code /\ s.rest = rest /\ s.field = none
  BY <1>1, <1>6, <1>8
<1> HIDE DEF s
<1>10. Keyed(s) = IF code THEN Code \o t ELSE number
  BY <1>9 DEF Keyed, t
<1>11. DigitsOnly(rest) \in Seq(Digits) /\ DigitsOnly(rest) = Keyed(s)
  <2>1. Code \o t \in Seq(Digits)
    BY <1>2, CodeIsPrefix, ConcatProperties
  <2>2. QED
    BY <1>1, <1>6, <1>10, <2>1
<1>12. none \o DigitsOnly(rest) = Keyed(s)
  BY <1>7, <1>11
<1>13. PhoneOK(s)
  BY <1>1, <1>7, <1>9, <1>12 DEF PhoneOK
<1>14. QED
  BY <1>13 DEF s, rest, plus, t

\* One more key in the field for a phone number.
LEMMA PhoneStep ==
  ASSUME NEW s, PhoneOK(s), s.rest # <<>>, NEW dash \in BOOLEAN
  PROVE  PhoneOK([s EXCEPT
           !.field = MaskPhone(Append(@, IF dash THEN "-" ELSE Head(s.rest))),
           !.rest = IF dash THEN @ ELSE Tail(@),
           !.dashes = IF dash THEN @ + 1 ELSE @])
<1> DEFINE f == s.field
           r == s.rest
           h == Head(r)
           c == IF dash THEN "-" ELSE h
           typed == Append(f, c)
           g == MaskPhone(typed)
           q == IF dash THEN r ELSE Tail(r)
           n == IF dash THEN s.dashes + 1 ELSE s.dashes
           z == [s EXCEPT !.field = g, !.rest = q, !.dashes = n]
           D(t) == DigitsOnly(t)
<1>1. /\ s \in [kind : {"phone"}, number : Seq(Digits), code : BOOLEAN,
                rest : Seq(Characters), dashes : Nat, field : Seq(Characters)]
      /\ (s.number = <<>> /\ ~ s.code) \/ National(s.number)
      /\ Cut(D(f) \o D(r)) = Cut(Keyed(s))
  BY DEF PhoneOK
<1>2. f \in Seq(Characters) /\ r \in Seq(Characters) /\ r # <<>> /\ n \in Nat
  BY <1>1
<1>3. /\ h \in Characters /\ Tail(r) \in Seq(Characters) /\ r = <<h>> \o Tail(r)
      /\ "-" \in Characters /\ <<h>> \in Seq(Characters)
  <2>1. h \in Characters /\ Tail(r) \in Seq(Characters)
    BY <1>2, HeadTailProperties
  <2>2. r = <<h>> \o Tail(r)
    <3> HIDE DEF r
    <3>1. QED
      BY <1>2
  <2>3. "-" \in Characters
    BY DEF Characters
  <2> HIDE DEF h
  <2>4. <<h>> \in Seq(Characters)
    BY <2>1
  <2>5. QED
    BY <2>1, <2>2, <2>3, <2>4
<1>4. c \in Characters /\ q \in Seq(Characters)
  BY <1>2, <1>3
<1>5. typed \in Seq(Characters) /\ D(f) \in Seq(Digits) /\ D(q) \in Seq(Digits)
  BY <1>2, <1>4, AppendProperties, MaskedPhone
<1>6. D(typed) \o D(q) = D(f) \o D(r)
  <2>1. CASE dash
    <3>1. Only(Append(f, "-"), Digits) = Only(f, Digits)
      BY <1>2, <1>3, NoDigits, OnlyOfAppend
    <3>2. QED
      BY <2>1, <3>1 DEF DigitsOnly
  <2>2. CASE ~ dash
    <3> DEFINE one == <<h>>
               t == Tail(r)
               K == Digits
    <3>1. one \in Seq(Characters) /\ t \in Seq(Characters) /\ r = one \o t
      BY <1>3
    <3>2. typed = f \o one
      BY <1>2, <1>3, <2>2, AppendIsConcat
    <3>3. q = t
      BY <2>2
    <3> HIDE DEF f, r, one, t, K, typed, q
    <3>4. Only(one \o t, K) = Only(one, K) \o Only(t, K)
      BY <3>1, OnlyOfConcat
    <3>5. Only(f \o one, K) = Only(f, K) \o Only(one, K)
      BY <1>2, <3>1, OnlyOfConcat
    <3> DEFINE a == D(f)
               b == D(one)
               e == D(t)
    <3>6. a \in Seq(Digits) /\ b \in Seq(Digits) /\ e \in Seq(Digits)
      BY <1>2, <3>1, MaskedPhone
    <3>7. D(typed) = a \o b /\ D(r) = b \o e
      BY <3>1, <3>2, <3>4, <3>5 DEF DigitsOnly, K
    <3> HIDE DEF a, b, e
    <3>8. (a \o b) \o e = a \o (b \o e)
      BY <3>6, ConcatAssociative
    <3>9. QED
      BY <3>3, <3>7, <3>8 DEF a, e
  <2>3. QED
    BY <2>1, <2>2
<1> HIDE DEF f, r, typed, q, n
<1>7. /\ g \in Seq(Characters) /\ D(typed) \in Seq(Digits)
      /\ D(g) = Cut(D(typed)) /\ MaskPhone(g) = g
  BY <1>5, MaskedPhone
<1> HIDE DEF g
<1>8. Cut(D(g) \o D(q)) = Cut(D(typed) \o D(q))
  <2> DEFINE a == D(typed)
             b == D(q)
  <2>1. a \in Seq(Digits) /\ b \in Seq(Digits)
    BY <1>5, <1>7
  <2> HIDE DEF a, b
  <2>2. Cut(Cut(a) \o b) = Cut(a \o b)
    BY <2>1, CutAgain
  <2>3. QED
    BY <1>7, <2>2 DEF a, b
<1>9. /\ z \in [kind : {"phone"}, number : Seq(Digits), code : BOOLEAN,
                rest : Seq(Characters), dashes : Nat, field : Seq(Characters)]
      /\ z.number = s.number /\ z.code = s.code /\ z.rest = q /\ z.field = g
  BY <1>1, <1>2, <1>4, <1>7
<1>10. [s EXCEPT
           !.field = MaskPhone(Append(@, IF dash THEN "-" ELSE Head(s.rest))),
           !.rest = IF dash THEN @ ELSE Tail(@),
           !.dashes = IF dash THEN @ + 1 ELSE @] = z
  BY <1>1 DEF g, typed, q, n, f, r
<1> HIDE DEF z
<1>11. Keyed(z) = Keyed(s)
  BY <1>9 DEF Keyed
<1>12. PhoneOK(z)
  BY <1>1, <1>6, <1>7, <1>8, <1>9, <1>11 DEF PhoneOK
<1>13. QED
  BY <1>10, <1>12

\* One more digit in an amount field.
LEMMA AmountStep ==
  ASSUME NEW s, AmountOK(s), Len(s.keys) < MaxKeys, NEW digit \in AmountKeys
  PROVE  AmountOK([s EXCEPT !.keys = Append(@, digit),
                            !.field = MaskAmount(Append(@, digit))])
<1> DEFINE k == s.keys
           f == s.field
           l == Append(k, digit)
           g == MaskAmount(Append(f, digit))
           z == [s EXCEPT !.keys = l, !.field = g]
<1>1. /\ s \in [kind : {"amount"}, keys : Seq(AmountKeys), field : Seq(Characters)]
      /\ f = Shown(ValueOf(k))
  BY DEF AmountOK
<1>2. MaxKeys \in 0..15 /\ AmountKeys \subseteq Digits /\ digit \in Digits
  BY ScreensAssumption
<1>3. k \in Seq(AmountKeys) /\ Len(k) < MaxKeys
  BY <1>1
<1> HIDE DEF k, f
<1>4. k \in Seq(Digits) /\ Len(k) \in Nat
  BY <1>2, <1>3, SeqMonotonic
<1>5. l \in Seq(AmountKeys) /\ l \in Seq(Digits) /\ Len(l) = Len(k) + 1
  <2>1. l \in Seq(AmountKeys)
    BY <1>3, AppendProperties
  <2>2. l \in Seq(Digits) /\ Len(l) = Len(k) + 1
    BY <1>2, <1>4, AppendProperties
  <2>3. QED
    BY <2>1, <2>2
<1> HIDE DEF l
<1>6. Len(l) <= MaxKeys /\ Len(k) <= 15 /\ Len(l) <= 15
  BY <1>2, <1>3, <1>4, <1>5
<1>7. ValueOf(k) \in Writable /\ ValueOf(l) \in Writable
  BY <1>4, <1>5, <1>6, TypedIsWritable
<1>8. ValueOf(l) = 10 * ValueOf(k) + DigitOf(digit)
  BY <1>2, <1>4, ValueOfAppend DEF l
<1>9. g = Shown(ValueOf(l))
  <2> DEFINE v == ValueOf(k)
  <2>1. v \in Writable /\ 10 * v + DigitOf(digit) \in Writable
    BY <1>7, <1>8
  <2> HIDE DEF v
  <2>2. MaskAmount(Append(Shown(v), digit)) = Shown(10 * v + DigitOf(digit))
    BY <1>2, <2>1, MaskedAmount
  <2>3. QED
    BY <1>1, <1>8, <2>2 DEF v
<1>10. g \in Seq(Characters)
  BY <1>7, <1>9, ShownAmount
<1> HIDE DEF g
<1>11. /\ z \in [kind : {"amount"}, keys : Seq(AmountKeys), field : Seq(Characters)]
       /\ z.keys = l /\ z.field = g
  BY <1>1, <1>5, <1>10
<1>12. [s EXCEPT !.keys = Append(@, digit), !.field = MaskAmount(Append(@, digit))] = z
  BY <1>1 DEF l, g, k, f
<1> HIDE DEF z
<1>13. AmountOK(z)
  BY <1>6, <1>9, <1>11 DEF AmountOK
<1>14. QED
  BY <1>12, <1>13
\* The page looked at again.
LEMMA ReportStep ==
  ASSUME NEW s, ReportOK(s), NEW t \in Int, t > s.now, DayOf(t) <= LastDay
  PROVE  ReportOK(Report(t))
<1>1. s.now \in Nat
  BY DEF ReportOK
<1>2. t \in Nat
  BY <1>1
<1>3. Report(t) \in [kind : {"report"}, now : Nat] /\ Report(t).now = t
  BY <1>2 DEF Report
<1>4. QED
  BY <1>3 DEF ReportOK

\* Whatever is on the screen is as the handlers leave it.
THEOREM ScreensInvariant == ScreensSpec => []ScreensInv
<1>1. ScreensInit => ScreensInv
  BY OpenedOK DEF ScreensInit, ScreensInv
<1>2. ScreensInv /\ [ScreensNext]_screen => ScreensInv'
  <2> SUFFICES ASSUME ScreensInv, [ScreensNext]_screen PROVE ScreensInv'
    OBVIOUS
  <2>0. "phone" # "amount" /\ "phone" # "report" /\ "amount" # "report"
    OBVIOUS
  <2>1. ASSUME NEW number \in PhoneNumbers, NEW code \in BOOLEAN, PickNumber(number, code)
        PROVE  PhoneOK(screen')
    <3>1. screen' = [EmptyPhone EXCEPT
             !.number = number, !.code = code,
             !.rest = IF code THEN <<"+", "8", "2">> \o Tail(number) ELSE number]
      BY <2>1, Zenon DEF PickNumber
    <3>2. PhoneOK([EmptyPhone EXCEPT
             !.number = number, !.code = code,
             !.rest = IF code THEN <<"+", "8", "2">> \o Tail(number) ELSE number])
      BY PickStep
    <3>3. QED
      BY <3>1, <3>2, Zenon
  <2>2. ASSUME NEW dash \in BOOLEAN, TypePhone(dash) PROVE PhoneOK(screen')
    <3>1. screen.kind = "phone" /\ screen.rest # <<>>
      BY <2>2 DEF TypePhone
    <3>2. PhoneOK(screen)
      BY <2>0, <3>1, Kinds DEF ScreensInv
    <3>3. PhoneOK([screen EXCEPT
             !.field = MaskPhone(Append(@, IF dash THEN "-" ELSE Head(screen.rest))),
             !.rest = IF dash THEN @ ELSE Tail(@),
             !.dashes = IF dash THEN @ + 1 ELSE @])
      BY <3>1, <3>2, PhoneStep
    <3>4. QED
      BY <2>2, <3>3 DEF TypePhone
  <2>3. ASSUME NEW digit \in AmountKeys, TypeAmount(digit) PROVE AmountOK(screen')
    <3>1. screen.kind = "amount" /\ Len(screen.keys) < MaxKeys
      BY <2>3 DEF TypeAmount
    <3>2. AmountOK(screen)
      BY <2>0, <3>1, Kinds DEF ScreensInv
    <3>3. AmountOK([screen EXCEPT !.keys = Append(@, digit),
                                  !.field = MaskAmount(Append(@, digit))])
      BY <3>1, <3>2, AmountStep
    <3>4. QED
      BY <2>3, <3>3 DEF TypeAmount
  <2>4. ASSUME NEW days \in {0, 1}, NEW moment \in Moments, LookAgain(days, moment)
        PROVE  ReportOK(screen')
    <3> DEFINE t == 1440 * (DayOf(screen.now) + days) + moment
    <3>1. /\ screen.kind = "report"
          /\ t > screen.now /\ DayOf(t) <= LastDay /\ screen' = Report(t)
      BY <2>4 DEF LookAgain
    <3>2. ReportOK(screen)
      BY <2>0, <3>1, Kinds DEF ScreensInv
    <3>3. t \in Int
      <4>1. screen.now \in Nat /\ moment \in 0..1439
        BY <3>2, ScreensAssumption DEF ReportOK
      <4>2. DayOf(screen.now) \in Int
        BY <4>1 DEF DayOf
      <4>3. QED
        BY <4>1, <4>2
    <3> HIDE DEF t
    <3>4. ReportOK(Report(t))
      BY <3>1, <3>2, <3>3, ReportStep
    <3>5. QED
      BY <3>1, <3>4
  <2>5. CASE Leave
    BY <2>5, OpenedOK DEF Leave, ScreensInv
  <2>6. CASE UNCHANGED screen
    <3>1. screen' = screen
      BY <2>6
    <3>2. QED
      BY <3>1 DEF ScreensInv
  <2>7. QED
    BY <2>1, <2>2, <2>3, <2>4, <2>5, <2>6 DEF ScreensNext, ScreensInv
<1>3. QED
  BY <1>1, <1>2, PTL DEF ScreensSpec

\* All keys of a number typed, the field holds the first eleven digits of them.
LEMMA TypedDigits ==
  ASSUME PhoneOK(screen), Typed
  PROVE  /\ National(screen.number)
         /\ DigitsOnly(screen.field) = Cut(Keyed(screen))
         /\ MaskPhone(screen.field) = screen.field
<1> DEFINE f == screen.field
           d == DigitsOnly(f)
<1>1. /\ screen.number # <<>> /\ screen.rest = <<>>
      /\ f \in Seq(Characters) /\ MaskPhone(f) = f
      /\ (screen.number = <<>> /\ ~ screen.code) \/ National(screen.number)
      /\ Cut(d \o DigitsOnly(screen.rest)) = Cut(Keyed(screen))
  BY DEF Typed, PhoneOK
<1>2. d \in Seq(Digits) /\ d = Cut(d)
  <2>1. DigitsOnly(f) \in Seq(Digits) /\ DigitsOnly(MaskPhone(f)) = Cut(DigitsOnly(f))
    BY <1>1, MaskedPhone
  <2>2. QED
    BY <1>1, <2>1
<1> HIDE DEF d
<1>3. DigitsOnly(screen.rest) = <<>> /\ d \o <<>> = d
  <2>1. DigitsOnly(<<>>) = <<>>
    BY Nothing
  <2>2. d \o <<>> = d
    BY <1>2, ConcatEmptySeq
  <2>3. QED
    BY <1>1, <2>1, <2>2
<1>4. QED
  BY <1>1, <1>2, <1>3 DEF d

\* A number typed without country code is its key, on the way in and on the
\* page (member.go, format.go, the masks of the forms).
THEOREM NumbersAreKeys == ScreensSpec => []PhoneIsKey
<1>1. ScreensInv => PhoneIsKey
  <2> SUFFICES ASSUME ScreensInv, Typed, ~ screen.code
               PROVE  LET stored == NormalizePhone(screen.field)
                      IN  /\ stored = screen.number
                          /\ NormalizePhone(FormatPhone(stored)) = stored
                          /\ MaskPhone(screen.field) = screen.field
    BY DEF PhoneIsKey
  <2>1. PhoneOK(screen)
    <3>1. screen.kind = "phone" /\ "phone" # "amount" /\ "phone" # "report"
      BY DEF Typed
    <3>2. QED
      BY <3>1, Kinds DEF ScreensInv
  <2>2. /\ National(screen.number)
        /\ DigitsOnly(screen.field) = Cut(screen.number)
        /\ MaskPhone(screen.field) = screen.field
    BY <2>1, TypedDigits DEF Keyed
  <2>3. Cut(screen.number) = screen.number
    <3>1. ASSUME NEW n, National(n) PROVE Cut(n) = n
      <4>1. n \in Seq(Digits) /\ Len(n) <= 11
        <5>1. \A k \in 1..11 : k <= 11
          OBVIOUS
        <5>2. QED
          BY <3>1, <5>1, Zenon DEF National
      <4>2. QED
        BY <4>1, CutDigits
    <3>2. QED
      BY <2>2, <3>1
  <2>4. NormalizePhone(screen.field) = screen.number
    BY <2>2, <2>3, NormalizeNational
  <2>5. NormalizePhone(FormatPhone(screen.number)) = screen.number
    BY <2>2, FormatLeadsBack
  <2>6. QED
    BY <2>2, <2>4, <2>5
<1>2. QED
  BY <1>1, ScreensInvariant, PTL

\* With the country code only a number of ten digits comes through the mask of
\* the form: a mobile number, which has eleven, loses its last digit.
CodeTakesADigit ==
  Typed /\ screen.code =>
    (NormalizePhone(screen.field) = screen.number <=> Len(screen.number) = 10)

\* format.go:51 has the country code of a mobile number in mind, and the mask
\* leaves eleven digits of the twelve that are typed.
THEOREM MobileWithCodeIsLost == ScreensSpec => []CodeTakesADigit
<1>1. ScreensInv => CodeTakesADigit
  <2> SUFFICES ASSUME ScreensInv, Typed, screen.code
               PROVE  NormalizePhone(screen.field) = screen.number <=> Len(screen.number) = 10
    BY DEF CodeTakesADigit
  <2>1. PhoneOK(screen)
    <3>1. screen.kind = "phone" /\ "phone" # "amount" /\ "phone" # "report"
      BY DEF Typed
    <3>2. QED
      BY <3>1, Kinds DEF ScreensInv
  <2>2. /\ National(screen.number)
        /\ DigitsOnly(screen.field) = Cut(Code \o Tail(screen.number))
    BY <2>1, TypedDigits DEF Keyed
  <2>3. QED
    BY <2>2, NormalizeWithCode
<1>2. QED
  BY <1>1, ScreensInvariant, PTL

\* The amount that the handlers read is the one whose digits were typed, and
\* the form groups it as the page does.
THEOREM AmountsAreAsTyped == ScreensSpec => []AmountAsTyped
<1>1. ScreensInv => AmountAsTyped
  <2> SUFFICES ASSUME ScreensInv, screen.kind = "amount"
               PROVE  LET typed == ValueOf(screen.keys)
                      IN  /\ ParseAmount(screen.field) = typed
                          /\ typed > 0 => screen.field = FormatKRW(typed)
    BY DEF AmountAsTyped
  <2>1. AmountOK(screen)
    <3>1. "amount" # "phone" /\ "amount" # "report"
      OBVIOUS
    <3>2. QED
      BY <3>1, Kinds DEF ScreensInv
  <2> DEFINE k == screen.keys
             v == ValueOf(k)
  <2>2. k \in Seq(AmountKeys) /\ Len(k) <= MaxKeys /\ screen.field = Shown(v)
    BY <2>1 DEF AmountOK
  <2>3. MaxKeys \in 0..15 /\ AmountKeys \subseteq Digits
    BY ScreensAssumption
  <2> HIDE DEF k
  <2>4. k \in Seq(Digits) /\ Len(k) <= 15
    <3>1. k \in Seq(Digits)
      BY <2>2, <2>3, SeqMonotonic
    <3>2. Len(k) \in Nat
      BY <3>1
    <3>3. QED
      BY <2>2, <2>3, <3>1, <3>2
  <2>5. v \in Writable
    BY <2>4, TypedIsWritable
  <2>6. ParseAmount(Shown(v)) = v
    BY <2>5, ShownAmount
  <2>7. v > 0 => Shown(v) = FormatKRW(v)
    BY DEF Shown
  <2>8. QED
    BY <2>2, <2>6, <2>7 DEF k
<1>2. QED
  BY <1>1, ScreensInvariant, PTL
-----------------------------------------------------------------------------
(* The calendar.                                                           *)

\* The years follow each other, and the calendar has one for every day.
LEMMA YearsFollow ==
  /\ YearStart(2020) = 0
  /\ \A y \in Nat : YearStart(y) \in Int
  /\ \A y \in Nat : YearStart(y + 1) = YearStart(y) + 365 + (IF y % 4 = 0 THEN 1 ELSE 0)
  /\ \A y, z \in Nat : y < z => YearStart(y + 1) <= YearStart(z)
<1>1. YearStart(2020) = 0
  BY DEF YearStart
<1>2. ASSUME NEW y \in Nat PROVE YearStart(y) \in Int
  BY DEF YearStart
<1>3. ASSUME NEW y \in Nat
      PROVE  YearStart(y + 1) = YearStart(y) + 365 + (IF y % 4 = 0 THEN 1 ELSE 0)
  BY DEF YearStart
<1>4. ASSUME NEW y \in Nat, NEW z \in Nat, y < z PROVE YearStart(y + 1) <= YearStart(z)
  BY <1>4 DEF YearStart
<1>5. QED
  BY <1>1, <1>2, <1>3, <1>4

\* The days that the calendar is asked for.
Days == 0..(LastDay + 1)

\* Of every day there is a year.
LEMMA YearOfDay ==
  ASSUME NEW d \in Days
  PROVE  \E y \in Years : y \in Nat /\ YearStart(y) <= d /\ d < YearStart(y + 1)
<1>1. PICK z \in Years : LastDay + 1 < YearStart(z + 1)
  BY ScreensAssumption
<1>2. LastDay \in Nat /\ d \in Nat /\ d <= LastDay + 1
  BY ScreensAssumption DEF Days
<1> DEFINE n == (4 * d) \div 1461
           y == 2020 + n
<1>3. n \in Nat /\ 1461 * n <= 4 * d /\ 4 * d <= 1461 * n + 1460
  BY <1>2
<1> HIDE DEF n
<1>4. y \in Nat /\ y >= 2020 /\ YearStart(y) <= d /\ d < YearStart(y + 1)
  BY <1>2, <1>3 DEF YearStart
<1>5. z \in Nat
  BY PeriodsAssumption
<1> HIDE DEF y
<1>6. ~ (z < y)
  <2> SUFFICES ASSUME z < y PROVE FALSE
    OBVIOUS
  <2>1. YearStart(z + 1) <= YearStart(y)
    BY <1>4, <1>5, YearsFollow
  <2>2. YearStart(z + 1) \in Int /\ YearStart(y) \in Int
    BY <1>4, <1>5, YearsFollow
  <2>3. QED
    BY <1>1, <1>2, <1>4, <2>1, <2>2
<1>7. y \in 2020..z
  BY <1>4, <1>5, <1>6
<1>8. y \in Years
  BY <1>7, PeriodsAssumption
<1>9. QED
  BY <1>4, <1>8

\* The months of a year follow each other.
Leap(y) == IF y % 4 = 0 THEN 1 ELSE 0

\* Where the months of a year begin.
LEMMA MonthsOfYear ==
  ASSUME NEW y \in Nat
  PROVE  /\ YearStart(y) \in Int /\ Leap(y) \in 0..1
         /\ YearStart(y + 1) = YearStart(y) + 365 + Leap(y)
         /\ MonthStart(y, 1) = YearStart(y)
         /\ MonthStart(y, 2) = YearStart(y) + 31
         /\ MonthStart(y, 3) = YearStart(y) + 59 + Leap(y)
         /\ MonthStart(y, 4) = YearStart(y) + 90 + Leap(y)
         /\ MonthStart(y, 5) = YearStart(y) + 120 + Leap(y)
         /\ MonthStart(y, 6) = YearStart(y) + 151 + Leap(y)
         /\ MonthStart(y, 7) = YearStart(y) + 181 + Leap(y)
         /\ MonthStart(y, 8) = YearStart(y) + 212 + Leap(y)
         /\ MonthStart(y, 9) = YearStart(y) + 243 + Leap(y)
         /\ MonthStart(y, 10) = YearStart(y) + 273 + Leap(y)
         /\ MonthStart(y, 11) = YearStart(y) + 304 + Leap(y)
         /\ MonthStart(y, 12) = YearStart(y) + 334 + Leap(y)
<1> DEFINE days == <<0, 31, 59, 90, 120, 151, 181, 212, 243, 273, 304, 334>>
           s == YearStart(y)
<1>1. s \in Int /\ YearStart(y + 1) = s + 365 + Leap(y)
  BY YearsFollow DEF Leap
<1>2. Leap(y) \in 0..1
  BY DEF Leap
<1>3. /\ days[1] = 0 /\ days[2] = 31 /\ days[3] = 59 /\ days[4] = 90 /\ days[5] = 120
      /\ days[6] = 151 /\ days[7] = 181 /\ days[8] = 212 /\ days[9] = 243
      /\ days[10] = 273 /\ days[11] = 304 /\ days[12] = 334
  OBVIOUS
<1>4. \A m : MonthStart(y, m) = s + days[m] + (IF m > 2 /\ y % 4 = 0 THEN 1 ELSE 0)
  BY DEF MonthStart
<1> HIDE DEF days, s
<1>5. MonthStart(y, 1) = s /\ MonthStart(y, 2) = s + 31
  BY <1>1, <1>3, <1>4
<1>6. \A m \in 3..12 : MonthStart(y, m) = s + days[m] + Leap(y)
  <2> SUFFICES ASSUME NEW m \in 3..12 PROVE MonthStart(y, m) = s + days[m] + Leap(y)
    OBVIOUS
  <2>1. m > 2
    OBVIOUS
  <2>2. QED
    BY <1>4, <2>1 DEF Leap
<1>7. QED
  BY <1>1, <1>2, <1>3, <1>5, <1>6 DEF s
\* The first day after a month.
MonthEnd(y, m) == IF m = 12 THEN YearStart(y + 1) ELSE MonthStart(y, m + 1)

\* The months of a year do not overlap, and they fill it.
LEMMA MonthsApart ==
  ASSUME NEW y \in Nat
  PROVE  /\ \A m \in 1..12 : /\ MonthStart(y, m) \in Int /\ MonthEnd(y, m) \in Int
                             /\ YearStart(y) <= MonthStart(y, m)
                             /\ MonthStart(y, m) < MonthEnd(y, m)
                             /\ MonthEnd(y, m) <= YearStart(y + 1)
         /\ \A m, n \in 1..12 : m < n => MonthEnd(y, m) <= MonthStart(y, n)
         /\ \A d \in Int : YearStart(y) <= d /\ d < YearStart(y + 1) =>
              \E m \in 1..12 : MonthStart(y, m) <= d /\ d < MonthEnd(y, m)
<1> DEFINE s == YearStart(y)
           l == Leap(y)
           z == YearStart(y + 1)
           b(m) == MonthStart(y, m)
           e(m) == MonthEnd(y, m)
<1>1. /\ s \in Int /\ l \in 0..1 /\ z = s + 365 + l
      /\ b(1) = s /\ b(2) = s + 31 /\ b(3) = s + 59 + l /\ b(4) = s + 90 + l
      /\ b(5) = s + 120 + l /\ b(6) = s + 151 + l /\ b(7) = s + 181 + l
      /\ b(8) = s + 212 + l /\ b(9) = s + 243 + l /\ b(10) = s + 273 + l
      /\ b(11) = s + 304 + l /\ b(12) = s + 334 + l
  BY MonthsOfYear
<1>2. /\ e(1) = b(2) /\ e(2) = b(3) /\ e(3) = b(4) /\ e(4) = b(5) /\ e(5) = b(6)
      /\ e(6) = b(7) /\ e(7) = b(8) /\ e(8) = b(9) /\ e(9) = b(10) /\ e(10) = b(11)
      /\ e(11) = b(12) /\ e(12) = z
  BY DEF MonthEnd
<1> HIDE DEF s, l, z, b, e
<1>3. \A m \in 1..12 : m = 1 \/ m = 2 \/ m = 3 \/ m = 4 \/ m = 5 \/ m = 6 \/ m = 7
                         \/ m = 8 \/ m = 9 \/ m = 10 \/ m = 11 \/ m = 12
  OBVIOUS
<1>4. ASSUME NEW m \in 1..12
      PROVE  b(m) \in Int /\ e(m) \in Int /\ s <= b(m) /\ b(m) < e(m) /\ e(m) <= z
  BY <1>1, <1>2, <1>3
<1>5. \A m \in 1..11 : e(m) = b(m + 1)
  <2> SUFFICES ASSUME NEW m \in 1..11 PROVE e(m) = b(m + 1)
    OBVIOUS
  <2>1. m # 12
    OBVIOUS
  <2>2. QED
    BY <2>1 DEF e, b, MonthEnd
<1>6. ASSUME NEW m \in 1..12, NEW n \in 1..12, m < n PROVE e(m) <= b(n)
  <2>1. ASSUME NEW k \in 1..11, NEW i \in 1..12, i <= k PROVE b(i) <= b(k) /\ b(k) <= b(k + 1)
    <3>1. b(k) <= b(k + 1)
      <4>1. k \in 1..12
        OBVIOUS
      <4>2. b(k) < e(k) /\ b(k) \in Int /\ e(k) \in Int /\ e(k) = b(k + 1)
        BY <1>4, <1>5, <4>1
      <4>3. QED
        BY <4>2
    <3>2. b(i) <= b(k)
      BY <1>1, <1>3, <2>1
    <3>3. QED
      BY <3>1, <3>2
  <2>2. e(m) = b(m + 1) /\ m + 1 \in 1..12 /\ m + 1 <= n
    BY <1>5, <1>6
  <2>3. \A i, k \in 1..12 : i <= k => b(i) <= b(k)
    BY <1>1, <1>3
  <2>4. QED
    BY <2>2, <2>3
<1>7. ASSUME NEW d \in Int, s <= d, d < z PROVE \E m \in 1..12 : b(m) <= d /\ d < e(m)
  <2> SUFFICES ASSUME \A m \in 1..12 : b(m) <= d => ~ (d < e(m)) PROVE FALSE
    OBVIOUS
  <2>1. \A m \in 1..12 : b(m) \in Int /\ e(m) \in Int
    BY <1>4
  <2>2. b(1) <= d
    BY <1>1, <1>7
  <2>3. \A m \in 1..12 : b(m) <= d => e(m) <= d
    BY <2>1
  <2>4. b(2) <= d /\ b(3) <= d /\ b(4) <= d /\ b(5) <= d /\ b(6) <= d /\ b(7) <= d
    BY <1>2, <2>2, <2>3
  <2>5. b(8) <= d /\ b(9) <= d /\ b(10) <= d /\ b(11) <= d /\ b(12) <= d
    BY <1>2, <2>3, <2>4
  <2>6. z <= d
    BY <1>2, <2>3, <2>5
  <2>7. QED
    BY <1>1, <1>7, <2>6
<1>8. QED
  BY <1>4, <1>6, <1>7 DEF s, z, b, e

\* What Date finds for a day: its year and its month, and no other.
LEMMA DateOfDay ==
  ASSUME NEW d \in Days
  PROVE  LET y == Date(d).year
             m == Date(d).month
         IN  /\ y \in Nat /\ m \in 1..12
             /\ YearStart(y) <= d /\ d < YearStart(y + 1)
             /\ MonthStart(y, m) <= d /\ d < MonthEnd(y, m)
             /\ MonthStart(y, m) \in Int
             /\ Date(d) = [year |-> y, month |-> m, day |-> d - MonthStart(y, m) + 1]
<1> DEFINE InYear(z) == YearStart(z) <= d /\ d < YearStart(z + 1)
           y == CHOOSE z \in Years : InYear(z)
           InMonth(n) == MonthStart(y, n) <= d /\ (n = 12 \/ d < MonthStart(y, n + 1))
           m == CHOOSE n \in 1..12 : InMonth(n)
<1>0. d \in Int
  BY ScreensAssumption DEF Days
<1>1. y \in Years /\ InYear(y)
  <2>1. \E z \in Years : InYear(z)
    BY YearOfDay
  <2> HIDE DEF InYear
  <2>2. QED
    BY <2>1
<1>2. y \in Nat
  <2>1. Years \subseteq Nat
    BY PeriodsAssumption
  <2> HIDE DEF y
  <2>2. QED
    BY <1>1, <2>1
<1>3. Date(d) = [year |-> y, month |-> m, day |-> d - MonthStart(y, m) + 1]
  BY DEF Date
<1> HIDE DEF y
<1>4. m \in 1..12 /\ InMonth(m)
  <2>1. PICK n \in 1..12 : MonthStart(y, n) <= d /\ d < MonthEnd(y, n)
    BY <1>0, <1>1, <1>2, MonthsApart
  <2>2. InMonth(n)
    BY <2>1 DEF MonthEnd
  <2> HIDE DEF InMonth
  <2>3. QED
    BY <2>2
<1> HIDE DEF m
<1>5. MonthStart(y, m) <= d /\ d < MonthEnd(y, m) /\ MonthStart(y, m) \in Int
  BY <1>1, <1>2, <1>4, MonthsApart DEF MonthEnd
<1>6. Date(d).year = y /\ Date(d).month = m
  BY <1>3
<1>7. QED
  BY <1>1, <1>2, <1>3, <1>4, <1>5, <1>6

\* Two days of the same month have the same date but for the day.
LEMMA SameMonth ==
  ASSUME NEW d \in Days, NEW c \in Days,
         MonthStart(Date(d).year, Date(d).month) <= c, c <= d
  PROVE  Date(c).year = Date(d).year /\ Date(c).month = Date(d).month
<1> DEFINE y == Date(d).year
           m == Date(d).month
           z == Date(c).year
           n == Date(c).month
<1>0. c \in Int /\ d \in Int
  BY ScreensAssumption DEF Days
<1>1. /\ y \in Nat /\ m \in 1..12 /\ YearStart(y) <= d /\ d < YearStart(y + 1)
      /\ d < MonthEnd(y, m)
  BY DateOfDay
<1>2. /\ z \in Nat /\ n \in 1..12 /\ YearStart(z) <= c /\ c < YearStart(z + 1)
      /\ MonthStart(z, n) <= c /\ c < MonthEnd(z, n)
  BY DateOfDay
<1>3. MonthStart(y, m) <= c /\ c < MonthEnd(y, m) /\ c < YearStart(y + 1)
  <2>1. MonthEnd(y, m) \in Int /\ YearStart(y + 1) \in Int
    <3> HIDE DEF y, m
    <3>1. y \in Nat /\ y + 1 \in Nat /\ m \in 1..12
      BY <1>1
    <3>2. YearStart(y + 1) \in Int
      BY <3>1, YearsFollow
    <3>3. QED
      BY <3>1, <3>2, MonthsApart
  <2>2. QED
    BY <1>0, <1>1, <2>1
<1> HIDE DEF y, m, z, n
<1>4. YearStart(y) <= c
  <2>1. YearStart(y) <= MonthStart(y, m) /\ MonthStart(y, m) \in Int /\ YearStart(y) \in Int
    <3>1. YearStart(y) \in Int
      BY <1>1, YearsFollow
    <3>2. YearStart(y) <= MonthStart(y, m) /\ MonthStart(y, m) \in Int
      BY <1>1, MonthsApart
    <3>3. QED
      BY <3>1, <3>2
  <2>2. QED
    BY <1>0, <1>3, <2>1
<1>5. y = z
  <2>1. /\ YearStart(y) \in Int /\ YearStart(z) \in Int
        /\ YearStart(y + 1) \in Int /\ YearStart(z + 1) \in Int
        /\ y < z => YearStart(y + 1) <= YearStart(z)
        /\ z < y => YearStart(z + 1) <= YearStart(y)
    BY <1>1, <1>2, YearsFollow
  <2>2. ~ (y < z) /\ ~ (z < y)
    BY <1>0, <1>2, <1>3, <1>4, <2>1
  <2>3. QED
    BY <1>1, <1>2, <2>2
<1>6. m = n
  <2>1. /\ MonthStart(y, m) \in Int /\ MonthStart(y, n) \in Int
        /\ MonthEnd(y, m) \in Int /\ MonthEnd(y, n) \in Int
        /\ m < n => MonthEnd(y, m) <= MonthStart(y, n)
        /\ n < m => MonthEnd(y, n) <= MonthStart(y, m)
    BY <1>1, <1>2, MonthsApart
  <2>2. ~ (m < n) /\ ~ (n < m)
    BY <1>0, <1>2, <1>3, <1>5, <2>1
  <2>3. QED
    BY <1>1, <1>2, <2>2
<1>7. QED
  BY <1>5, <1>6 DEF y, m, z, n
\* Where the periods begin.
LEMMA PeriodsBegin ==
  ASSUME NEW now \in Nat, DayOf(now) \in Days
  PROVE  LET d == DayOf(now)
         IN  /\ RangeStart("today", now) = 1440 * d
             /\ RangeStart("week", now) = 1440 * (d - DaysIntoWeek(d) + 1)
             /\ RangeStart("month", now) = 1440 * MonthStart(Date(d).year, Date(d).month)
             /\ RangeStart("all", now) = 0
<1> DEFINE d == DayOf(now)
           y == Date(d).year
           m == Date(d).month
           k == DaysIntoWeek(d)
           b == MonthStart(y, m)
           D == Date(d)
<1>1. d \in Days /\ d \in Int
  BY DEF DayOf
<1>2. y \in Nat /\ m \in 1..12 /\ b \in Int /\ D = [year |-> y, month |-> m, day |-> (d - b) + 1]
  <2> HIDE DEF d
  <2>1. QED
    BY <1>1, DateOfDay
<1>3. k \in 1..7
  <2> HIDE DEF d
  <2>1. Weekday(d) \in 0..6
    BY <1>1 DEF Weekday
  <2>2. QED
    BY <2>1 DEF DaysIntoWeek
<1>4. D.year = y /\ D.month = m /\ D.day = (d - b) + 1
  <2> HIDE DEF y, m, b
  <2>1. QED
    BY <1>2
<1>5. /\ RangeStart("today", now) = Midnight(D.year, D.month, D.day)
      /\ RangeStart("week", now) = Midnight(D.year, D.month, D.day - k + 1)
      /\ RangeStart("month", now) = Midnight(D.year, D.month, 1)
      /\ RangeStart("all", now) = Midnight(2020, 1, 1)
  BY DEF RangeStart
<1>6. \A e : Midnight(y, m, e) = 1440 * (b + e - 1)
  BY DEF Midnight
<1>7. Midnight(2020, 1, 1) = 0
  <2>1. MonthStart(2020, 1) = YearStart(2020) /\ YearStart(2020) = 0
    BY MonthsOfYear, YearsFollow
  <2>2. QED
    BY <2>1 DEF Midnight
<1> HIDE DEF d, y, m, k, b, D
<1>8. RangeStart("today", now) = 1440 * d
  <2>1. b + ((d - b) + 1) - 1 = d
    BY <1>1, <1>2
  <2>2. RangeStart("today", now) = 1440 * (b + ((d - b) + 1) - 1)
    BY <1>4, <1>5, <1>6
  <2>3. QED
    BY <2>1, <2>2
<1>9. RangeStart("week", now) = 1440 * (d - k + 1)
  <2> DEFINE e == D.day
             f == (e - k) + 1
  <2>1. e = (d - b) + 1 /\ b + f - 1 = d - k + 1
    BY <1>1, <1>2, <1>3, <1>4
  <2>2. RangeStart("week", now) = Midnight(y, m, f)
    BY <1>4, <1>5
  <2> HIDE DEF f
  <2>3. Midnight(y, m, f) = 1440 * (b + f - 1)
    BY <1>6
  <2>4. QED
    BY <2>1, <2>2, <2>3
<1>10. RangeStart("month", now) = 1440 * b
  <2>1. b + 1 - 1 = b
    BY <1>2
  <2>2. RangeStart("month", now) = 1440 * (b + 1 - 1)
    BY <1>4, <1>5, <1>6
  <2>3. QED
    BY <2>1, <2>2
<1>11. QED
  BY <1>5, <1>7, <1>8, <1>9, <1>10 DEF b, y, m, k, d

\* The Monday of a week is the one among the last seven days.
LEMMA MondayBegins ==
  ASSUME NEW d \in Nat
  PROVE  LET k == DaysIntoWeek(d)
         IN  /\ k \in 1..7 /\ Weekday(d - k + 1) = 1
             /\ \A monday \in (d - 6)..d : Weekday(monday) = 1 => monday = d - k + 1
<1> DEFINE w == (d + 3) % 7
           k == DaysIntoWeek(d)
           q == (d + 3) \div 7
<1>1. w \in 0..6 /\ q \in Nat /\ d + 3 = 7 * q + w
  OBVIOUS
<1>2. k = (IF w = 0 THEN 7 ELSE w)
  BY DEF DaysIntoWeek, Weekday
<1> HIDE DEF w, q, k
<1>3. k \in 1..7
  BY <1>1, <1>2
<1>4. Weekday(d - k + 1) = 1
  <2> DEFINE x == (d - k + 1) + 3
  <2>1. x = 7 * q + 1 \/ x = 7 * (q - 1) + 1
    BY <1>1, <1>2
  <2>2. x % 7 = 1
    <3> HIDE DEF x
    <3>1. QED
      BY <1>1, <2>1
  <2>3. QED
    BY <2>2 DEF Weekday
<1>5. ASSUME NEW monday \in (d - 6)..d, Weekday(monday) = 1 PROVE monday = d - k + 1
  <2>1. monday \in Int /\ (monday + 3) % 7 = 1
    BY <1>5 DEF Weekday
  <2> DEFINE p == (monday + 3) \div 7
  <2>2. p \in Int /\ monday + 3 = 7 * p + 1
    BY <2>1
  <2> HIDE DEF p
  <2>3. monday <= d /\ d - 6 <= monday
    OBVIOUS
  <2>4. QED
    BY <1>1, <1>2, <2>2, <2>3
<1>6. QED
  BY <1>3, <1>4, <1>5 DEF k

\* What was written is a moment before now.
LEMMA WrittenBefore ==
  ASSUME ReportOK(screen), NEW t \in Written
  PROVE  /\ screen.now \in Nat /\ t \in Nat /\ t <= screen.now
         /\ DayOf(t) \in Nat /\ DayOf(screen.now) \in Nat /\ DayOf(t) <= DayOf(screen.now)
         /\ DayOf(screen.now) <= LastDay /\ LastDay \in Nat
         /\ DayOf(t) \in Days /\ DayOf(screen.now) \in Days
<1> DEFINE now == screen.now
           today == DayOf(now)
<1>1. now \in Nat /\ today <= LastDay /\ LastDay \in Nat
  BY ScreensAssumption DEF ReportOK
<1>2. today \in Nat
  BY <1>1 DEF DayOf
<1>3. PICK e \in (today - 35)..today \cup {today - 366, today - 365}, m \in Moments :
        t = 1440 * e + m /\ 0 <= t /\ t <= now
  BY DEF Written
<1>4. e \in Int /\ m \in Int
  BY <1>2, ScreensAssumption
<1> HIDE DEF now, today
<1>5. t \in Nat
  BY <1>3, <1>4
<1>6. DayOf(t) \in Nat /\ DayOf(t) <= today
  BY <1>1, <1>3, <1>5 DEF DayOf, today
<1>7. DayOf(t) \in Days /\ today \in Days
  BY <1>1, <1>2, <1>6 DEF Days
<1>8. QED
  BY <1>1, <1>2, <1>3, <1>5, <1>6, <1>7 DEF today, now
\* The days of a month are those with its year and its month.
LEMMA MonthOfDays ==
  ASSUME NEW d \in Days, NEW c \in Days, c <= d
  PROVE  [Date(c) EXCEPT !.day = 0] = [Date(d) EXCEPT !.day = 0]
           <=> MonthStart(Date(d).year, Date(d).month) <= c
<1> DEFINE y == Date(d).year
           m == Date(d).month
           z == Date(c).year
           n == Date(c).month
           a == d - MonthStart(y, m) + 1
           e == c - MonthStart(z, n) + 1
<1>1. Date(d) = [year |-> y, month |-> m, day |-> a]
  BY DateOfDay
<1>2. Date(c) = [year |-> z, month |-> n, day |-> e] /\ MonthStart(z, n) <= c
  BY DateOfDay
<1>3. MonthStart(y, m) <= c => z = y /\ n = m
  BY SameMonth
<1> HIDE DEF y, m, z, n, a, e
<1> DEFINE x == [year |-> y, month |-> m, day |-> 0]
           w == [year |-> z, month |-> n, day |-> 0]
<1>4. [Date(d) EXCEPT !.day = 0] = x /\ [Date(c) EXCEPT !.day = 0] = w
  BY <1>1, <1>2
<1>5. w = x <=> z = y /\ n = m
  <2>1. w.year = z /\ w.month = n /\ x.year = y /\ x.month = m
    OBVIOUS
  <2>2. z = y /\ n = m => w = x
    OBVIOUS
  <2> HIDE DEF w, x
  <2>3. QED
    BY <2>1, <2>2
<1> HIDE DEF x, w
<1>6. QED
  BY <1>2, <1>3, <1>4, <1>5 DEF y, m

\* The periods of the reports are those of the calendar (transaction.go), on
\* every day up to the year 2099.
THEOREM PeriodsAreCalendar == ScreensSpec => []PeriodsMatchCalendar
<1>1. ScreensInv => PeriodsMatchCalendar
  <2> DEFINE now == screen.now
             d == DayOf(now)
             k == DaysIntoWeek(d)
             y == Date(d).year
             m == Date(d).month
             week(t) == \E monday \in (d - 6)..d :
                          /\ Weekday(monday) = 1
                          /\ {DayOf(t), d} \subseteq monday..(monday + 6)
             month(t) == [Date(DayOf(t)) EXCEPT !.day = 0] = [Date(d) EXCEPT !.day = 0]
  <2> SUFFICES ASSUME ScreensInv, screen.kind = "report", NEW t \in Written
               PROVE  /\ InPeriod("today", now, t) <=> DayOf(t) = d
                      /\ InPeriod("week", now, t) <=> week(t)
                      /\ InPeriod("month", now, t) <=> month(t)
                      /\ InPeriod("all", now, t)
    BY DEF PeriodsMatchCalendar
  <2>1. ReportOK(screen)
    <3>1. "report" # "phone" /\ "report" # "amount"
      OBVIOUS
    <3>2. QED
      BY <3>1, Kinds DEF ScreensInv
  <2>2. /\ now \in Nat /\ t \in Nat /\ t <= now
        /\ DayOf(t) \in Nat /\ d \in Nat /\ DayOf(t) <= d
        /\ DayOf(t) \in Days /\ d \in Days
    BY <2>1, WrittenBefore
  <2>3. /\ RangeStart("today", now) = 1440 * d
        /\ RangeStart("week", now) = 1440 * (d - k + 1)
        /\ RangeStart("month", now) = 1440 * MonthStart(y, m)
        /\ RangeStart("all", now) = 0
    <3>1. QED
      BY <2>2, PeriodsBegin
  <2> HIDE DEF now
  <2> DEFINE c == DayOf(t)
             b == MonthStart(y, m)
  <2>4. c \in Nat /\ 1440 * c <= t /\ t < 1440 * (c + 1)
    BY <2>2 DEF DayOf
  <2>5. t < RangeEnd(now)
    BY <2>2 DEF RangeEnd
  <2>6. \A e \in Int : 1440 * e <= t <=> e <= c
    <3> HIDE DEF c
    <3>1. QED
      BY <2>2, <2>4
  <2>7. InPeriod("today", now, t) <=> c = d
    <3>1. InPeriod("today", now, t) <=> d <= c
      BY <2>2, <2>3, <2>5, <2>6 DEF InPeriod
    <3> HIDE DEF c, d
    <3>2. QED
      BY <2>2, <3>1 DEF c
  <2>8. InPeriod("week", now, t) <=> week(t)
    <3> DEFINE monday == d - k + 1
    <3>1. /\ k \in 1..7 /\ Weekday(monday) = 1
          /\ \A e \in (d - 6)..d : Weekday(e) = 1 => e = monday
      <4>1. d \in Nat
        BY <2>2
      <4> HIDE DEF d
      <4>2. QED
        BY <4>1, MondayBegins
    <3>2. d \in Nat /\ c \in Nat /\ c <= d
      BY <2>2
    <3> HIDE DEF k
    <3>3. monday \in Int /\ monday \in (d - 6)..d /\ d <= monday + 6
      <4> HIDE DEF d
      <4>1. QED
        BY <3>1, <3>2
    <3>4. InPeriod("week", now, t) <=> monday <= c
      BY <2>3, <2>5, <2>6, <3>3 DEF InPeriod
    <3>5. monday <= c <=> {c, d} \subseteq monday..(monday + 6)
      <4> HIDE DEF c, d, monday
      <4>1. QED
        BY <3>2, <3>3
    <3>6. week(t) <=> {c, d} \subseteq monday..(monday + 6)
      <4> HIDE DEF c, d, monday
      <4>1. QED
        BY <3>1, <3>3 DEF c
    <3>7. QED
      BY <3>4, <3>5, <3>6
  <2>9. InPeriod("month", now, t) <=> month(t)
    <3>1. b \in Int
      BY <2>2, DateOfDay
    <3>2. InPeriod("month", now, t) <=> b <= c
      BY <2>3, <2>5, <2>6, <3>1 DEF InPeriod
    <3>3. month(t) <=> b <= c
      BY <2>2, MonthOfDays
    <3>4. QED
      BY <3>2, <3>3
  <2>10. InPeriod("all", now, t)
    BY <2>2, <2>3, <2>5 DEF InPeriod
  <2>11. QED
    BY <2>7, <2>8, <2>9, <2>10
<1>2. QED
  BY <1>1, ScreensInvariant, PTL

\* A row that is shown with its time is one of today, from the hour on at which
\* the day of UTC begins in the zone of the server (dashboard.go,
\* transaction.go).
THEOREM ShownTodayCounts == ScreensSpec => []ShownTodayIsCounted
<1>1. ScreensInv => ShownTodayIsCounted
  <2> DEFINE now == screen.now
  <2> SUFFICES ASSUME ScreensInv, screen.kind = "report",
                      NEW t \in Written, NEW offset \in Offsets,
                      ShowsTime(TimeShort(t, now, offset)), MinuteOf(t + offset) >= offset
               PROVE  InPeriod("today", now, t)
    BY DEF ShownTodayIsCounted
  <2>1. ReportOK(screen)
    <3>1. "report" # "phone" /\ "report" # "amount"
      OBVIOUS
    <3>2. QED
      BY <3>1, Kinds DEF ScreensInv
  <2>2. /\ now \in Nat /\ t \in Nat /\ t <= now /\ DayOf(now) <= LastDay /\ LastDay \in Nat
        /\ DayOf(now) \in Days /\ DayOf(now) \in Nat
    BY <2>1, WrittenBefore
  <2>3. offset \in 0..840
    BY ScreensAssumption
  <2> HIDE DEF now
  <2> DEFINE a == DayOf(t + offset)
             b == DayOf(now + offset)
             ya == YearStart(Date(a).year)
             yb == YearStart(Date(b).year)
  <2>4. /\ a \in Nat /\ b \in Nat /\ a \in Days /\ b \in Days
        /\ 1440 * a <= t + offset /\ t + offset < 1440 * (a + 1)
        /\ 1440 * b <= now + offset /\ now + offset < 1440 * (b + 1)
    BY <2>2, <2>3 DEF DayOf, Days
  <2>5. SameLocalDay(t, now, offset)
    <3> SUFFICES ASSUME ~ SameLocalDay(t, now, offset) PROVE FALSE
      OBVIOUS
    <3>1. TimeShort(t, now, offset) = [month |-> Date(a).month, day |-> Date(a).day]
      BY DEF TimeShort
    <3>2. "pm" \notin DOMAIN [month |-> Date(a).month, day |-> Date(a).day]
      OBVIOUS
    <3>3. QED
      BY <3>1, <3>2 DEF ShowsTime
  <2>6. a = b
    <3>1. ya = yb /\ a - ya + 1 = b - yb + 1
      BY <2>5 DEF SameLocalDay, YearDay
    <3>2. ya \in Int
      <4>1. Date(a).year \in Nat
        BY <2>4, DateOfDay
      <4>2. QED
        BY <4>1, YearsFollow
    <3> HIDE DEF a, b, ya, yb
    <3>3. QED
      BY <2>4, <3>1, <3>2
  <2>7. 1440 * a <= t
    <3>1. MinuteOf(t + offset) = (t + offset) - 1440 * a
      BY <2>2, <2>3 DEF MinuteOf, DayOf
    <3> HIDE DEF a
    <3>2. QED
      BY <2>2, <2>3, <2>4, <3>1
  <2>8. DayOf(now) = a
    <3> HIDE DEF a, b
    <3>1. 1440 * a <= now /\ now < 1440 * (a + 1)
      BY <2>2, <2>3, <2>4, <2>6, <2>7
    <3>2. QED
      BY <2>2, <2>4, <3>1 DEF DayOf
  <2>9. RangeStart("today", now) = 1440 * DayOf(now)
    BY <2>2, PeriodsBegin
  <2>10. QED
    BY <2>2, <2>7, <2>8, <2>9 DEF InPeriod, RangeEnd
<1>2. QED
  BY <1>1, ScreensInvariant, PTL
=============================================================================
