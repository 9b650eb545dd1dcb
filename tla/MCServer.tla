------------------------------ MODULE MCServer ------------------------------
\* Small instances of Server.
EXTENDS Server

\* The browser is used with servers that have no password, a PIN of six digits
\* or none, and an address in lower case: the others differ while they start.
MCUsedConfigs ==
  {c \in Config : ~c.pw /\ c.pin # BadPin /\ (c.email = NoEmail \/ ~c.email.mixedCase)}

Symmetric == Permutations(Addresses) \cup Permutations(Pins) \cup Permutations(Requests)
=============================================================================
