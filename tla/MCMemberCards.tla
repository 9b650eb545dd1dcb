---------------------------- MODULE MCMemberCards ----------------------------
\* Small instances of MemberCards.
EXTENDS MemberCards, TLC

Symmetric ==
  Permutations(MemberIDs) \cup Permutations(Numbers) \cup Permutations(Cards)
=============================================================================
