------------------------------ MODULE ObjectTables ------------------------------
(***************************************************************************)
(* What Managers promises the threads of the server: for each manager a    *)
(* table from ids to the objects it has made, with no addresses, pointers  *)
(* or counter.  An object is known by which creation made it; it comes     *)
(* under an id that nothing is under, as long as the ids have not come     *)
(* round, and only the removal of that id takes it away.                   *)
(***************************************************************************)
EXTENDS Naturals

CONSTANTS
    Managers,
    Ids(_),         \* the ids of a manager
    IdCount(_)      \* how many they are

VARIABLES
    begun,          \* the creations begun by each manager, numbered from one
    making,         \* those that have not ended
    objects         \* the creation of the object under each id, 0 for none

vars == <<begun, making, objects>>

Init ==
    /\ begun = [m \in Managers |-> 0]
    /\ making = [m \in Managers |-> {}]
    /\ objects = [m \in Managers |-> [id \in Ids(m) |-> 0]]

CameRound(m) == begun[m] > IdCount(m)

Begin(m) ==
    /\ begun' = [begun EXCEPT ![m] = @ + 1]
    /\ making' = [making EXCEPT ![m] = @ \cup {begun[m] + 1}]
    /\ UNCHANGED objects

Ends(m, n) ==
    /\ n \in making[m]
    /\ making' = [making EXCEPT ![m] = @ \ {n}]
    /\ UNCHANGED begun

Create(m, id, n) ==
    /\ Ends(m, n)
    /\ objects[m][id] = 0 \/ CameRound(m)
    /\ objects' = [objects EXCEPT ![m][id] = n]

\* The id was in use and the new object is given up.
Lose(m, n) ==
    /\ Ends(m, n) /\ CameRound(m)
    /\ UNCHANGED objects

Remove(m, id) ==
    /\ objects[m][id] # 0
    /\ objects' = [objects EXCEPT ![m][id] = 0]
    /\ UNCHANGED <<begun, making>>

Next ==
    \E m \in Managers :
        \/ Begin(m)
        \/ \E n \in making[m] : Lose(m, n) \/ \E id \in Ids(m) : Create(m, id, n)
        \/ \E id \in Ids(m) : Remove(m, id)

Spec == Init /\ [][Next]_vars

=============================================================================
