------------------------------- MODULE MCRoom -------------------------------
(* Small instances of Room for TLC. *)
EXTENDS Room, TLC

CONSTANTS p1, p2, p3, s1, s2, s3

MCPids     == {p1, p2, p3}
MCSlots    == {s1, s2, s3}
MCRequests == SUBSET MCPids
MCPairRequests == SUBSET {p1, p2}

\* Players and pool slots are interchangeable: ids are only compared.
Symmetry == Permutations(MCPids) \cup Permutations(MCSlots)
=============================================================================
