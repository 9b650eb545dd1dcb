----------------------------- MODULE MCWalletTx -----------------------------
\* Small instances of WalletTx.
EXTENDS WalletTx, TLC

\* Members are interchangeable, and so are requests: safety runs only.
Symmetric == Permutations(MemberIDs) \cup Permutations(Requests)
=============================================================================
