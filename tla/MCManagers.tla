----------------------------- MODULE MCManagers -----------------------------
(* Managers with two threads; ids of rooms have one bit, the others two.    *)
EXTENDS ManagersRefinement, TLC

CONSTANTS t1, t2, a1, a2, a3

MCThreads == {t1, t2}

MCAddresses == {a1, a2, a3}

MCServed == {RoomManager, SessionManager}

Symmetry == Permutations(MCThreads) \cup Permutations(MCAddresses)

=============================================================================
