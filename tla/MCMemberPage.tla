---------------------------- MODULE MCMemberPage ----------------------------
\* Small instances of MemberPage.
EXTENDS MemberPage

Symmetric == Permutations(MemberIDs)
=============================================================================
