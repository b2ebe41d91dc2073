--------------------------- MODULE MCRepositories ---------------------------
EXTENDS Repositories, TLC
CONSTANTS n1, n2, here, there, s1, s2, f1, r1, r2
\* Both paths are given one name, as are /a-b and /a_b.
KeyFileOf == here :> f1 @@ there :> f1
Symmetry == Permutations(Requests) \cup Permutations(Names) \cup Permutations(Secrets)
=============================================================================
