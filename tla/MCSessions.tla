----------------------------- MODULE MCSessions -----------------------------
EXTENDS Sessions, TLC

CONSTANTS s1, s2, u1, a1, a2

MCUserOf == [s \in Session |-> u1]
Symmetry == Permutations(Session) \cup Permutations(Addr)
=============================================================================
