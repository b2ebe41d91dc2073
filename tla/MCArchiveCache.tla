--------------------------- MODULE MCArchiveCache ---------------------------
EXTENDS ArchiveCache, TLC
CONSTANTS a1, a2, p1, p2, r1, r2, etc, home, root
InRepo == a1 :> p1 @@ a2 :> p2
Browsed == {<<a1, etc>>, <<a1, home>>, <<a2, root>>}
Symmetry == Permutations(Requests) \cup Permutations({etc, home})
=============================================================================
