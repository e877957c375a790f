--------------------------- MODULE MCSendBuffers ---------------------------
(* SendBuffers with two threads that post messages of two kinds.           *)
EXTENDS SendBuffersRefinement, TLC

CONSTANTS t1, t2, o1, o2, o3, b1, b2, b3, m1, m2

MCThreads == {t1, t2}

MCObjects == {o1, o2, o3}

MCBlocks == {b1, b2, b3}

MCMessages == {m1, m2}

MCMaxPosts == 3

Symmetry == Permutations(MCObjects) \cup Permutations(MCBlocks)
              \cup Permutations(MCThreads)

=============================================================================
