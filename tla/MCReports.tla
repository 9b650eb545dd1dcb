------------------------------ MODULE MCReports ------------------------------
\* Small instances of Reports.
EXTENDS Reports, TLC

Symmetric == Permutations(MemberIDs)
=============================================================================
