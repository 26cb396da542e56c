----------------------------- MODULE MCServLink -----------------------------
EXTENDS ServLink, TLC

Symm == Permutations(Clients) \cup Permutations(Workers) \cup Permutations(Handles)

\* The first link has up to MaxUnits messages, the others one at most.
FewUnits == \A l \in Links \ {1} : sendBuf[l] <= 1
=============================================================================
