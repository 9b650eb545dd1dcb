--------------------------- MODULE MCWalletSubmit ---------------------------
\* Small instances of WalletSubmit.
EXTENDS WalletSubmit, TLC

Symmetric == Permutations(MemberIDs) \cup Permutations(Requests)
=============================================================================
