--------------------------- MODULE MCPiiMigration ---------------------------
\* Small instances of PiiMigration.
EXTENDS PiiMigration, TLC

Symmetric == Permutations(MemberIDs) \cup Permutations(Numbers)
=============================================================================
