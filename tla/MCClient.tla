---- MODULE MCClient ----
EXTENDS Client, TLC
Symmetry == Permutations(Task) \cup Permutations(Crate) \cup Permutations(DConn) \cup Permutations(FConn)
====
