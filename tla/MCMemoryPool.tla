---------------------------- MODULE MCMemoryPool ----------------------------
(* MemoryPoolRefinement on small instances. *)
EXTENDS MemoryPoolRefinement

CONSTANTS t1, t2, o1, o2, o3, fresh, used

MCThreads == {t1, t2}
MCObjects == {o1, o2, o3}
MCContents == {fresh, used}

=============================================================================
