---- MODULE MCDocsfinder ----
EXTENDS Docsfinder, TLC
NoRejections == {{}}
Symmetry == Permutations(Task) \cup Permutations(Crate) \cup Permutations(DConn) \cup Permutations(FConn)
====
