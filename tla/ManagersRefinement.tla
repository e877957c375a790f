-------------------------- MODULE ManagersRefinement --------------------------
(***************************************************************************)
(* Managers implements ObjectTables: a creation begins when it takes its   *)
(* id and ends when its object is in the table, and a pointer in a table   *)
(* stands for the creation of the object at its address.                   *)
(***************************************************************************)
EXTENDS Managers

\* The creations of m between the counter and the table.
Making(m) ==
    {call[t].n : t \in {u \in Threads : call[u].at = "insert" /\ call[u].by = m}}

ObjectAt(m, id) == IF table[m][id] = Null THEN 0 ELSE born[table[m][id]].n

Tables == INSTANCE ObjectTables WITH
    Managers <- Served,
    begun <- made,
    making <- [m \in Served |-> Making(m)],
    objects <- [m \in Served |-> [id \in Ids(m) |-> ObjectAt(m, id)]]

\* Though addresses are used again and other threads come between the counter and
\* the table, the managers are tables of objects: what is under an id stays the
\* object that a creation put there until that id is removed, each creation puts
\* one object there or none, and none displaces another before the ids come round.
TablesOfObjects == Tables!Spec

=============================================================================
