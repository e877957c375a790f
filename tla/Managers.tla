------------------------------ MODULE Managers ------------------------------
(***************************************************************************)
(* The three managers of Core/Managers.h: what each owns, the ids it hands *)
(* out, and the plain pointers its Find and Create return to the threads   *)
(* of the server.                                                          *)
(*                                                                         *)
(* Their methods have no body in the repository.  The declarations fix     *)
(* what is modelled: the table owns each object by unique_ptr under an id, *)
(* ids come from an atomic counter, the table's lock is private, so that   *)
(* no caller still holds it when a method has returned, and what is taken  *)
(* out of the table is destroyed.  Which of two objects stays under an id  *)
(* given twice is left open.                                               *)
(***************************************************************************)
EXTENDS Naturals

CONSTANTS
    Threads,
    Served,       \* the managers that threads call
    Addresses,    \* the addresses an object can have, whoever owns it
    Null,
    Scale,        \* bits of an id in the source for each bit here
    MaxCreates    \* bound: objects made by one manager in a behaviour

SessionManager      == [owns |-> "Session",          idBits |-> 64, firstId |-> 1]
RoomManager         == [owns |-> "ChatRoom",         idBits |-> 32, firstId |-> 1]
FileTransferManager == [owns |-> "FileTransferInfo", idBits |-> 64, firstId |-> 1]

IdCount(m) == 2 ^ (m.idBits \div Scale)

Ids(m) == 0..(IdCount(m) - 1)

ASSUME ManagersAssumption ==
    /\ Served \subseteq {SessionManager, RoomManager, FileTransferManager}
    /\ Null \notin Addresses \cup Served
    /\ Scale \in Nat \ {0} /\ MaxCreates \in Nat
    /\ \A m \in Served : IdCount(m) \in Nat /\ m.firstId \in Ids(m)

VARIABLES
    next,     \* next_session_id_, next_room_id_, next_upload_id_
    made,     \* how many objects each manager began to make
    table,    \* sessions_, rooms_, active_transfers_: the object of each id
    born,     \* the manager's creation that made the object at an address
    call,     \* where each thread is, with the object it has a pointer to
    kept      \* an id that a client remembers from the object's creation

vars == <<next, made, table, born, call, kept>>

Idle == [at |-> "idle"]

NoIds == [id |-> Null]

\* No object at an address.
Dead == [by |-> Null, n |-> 0]

Init ==
    /\ next = [m \in Served |-> m.firstId]
    /\ made = [m \in Served |-> 0]
    /\ table = [m \in Served |-> [id \in Ids(m) |-> Null]]
    /\ born = [a \in Addresses |-> Dead]
    /\ call = [t \in Threads |-> Idle]
    /\ kept = NoIds

-----------------------------------------------------------------------------

\* MUTANT: the counter is read and written, and another thread's write is lost.
TakeId_Plain(t, m) ==
    /\ call[t] = Idle /\ made[m] < MaxCreates
    /\ made' = [made EXCEPT ![m] = @ + 1]
    /\ next' \in {next, [next EXCEPT ![m] = (@ + 1) % IdCount(m)]}
    /\ call' = [call EXCEPT
         ![t] = [at |-> "insert", by |-> m, id |-> next[m], n |-> made[m] + 1]]
    /\ UNCHANGED <<table, born, kept>>

\* MUTANT: the counter is half as wide as the ids.
TakeId_Narrow(t, m) ==
    /\ call[t] = Idle /\ made[m] < MaxCreates
    /\ made' = [made EXCEPT ![m] = @ + 1]
    /\ next' = [next EXCEPT ![m] = (@ + 1) % (IdCount(m) \div 2)]
    /\ call' = [call EXCEPT
         ![t] = [at |-> "insert", by |-> m, id |-> next[m], n |-> made[m] + 1]]
    /\ UNCHANGED <<table, born, kept>>

\* The first step of a Create: the counter is incremented atomically.
TakeId(t, m) ==
    /\ call[t] = Idle /\ made[m] < MaxCreates
    /\ made' = [made EXCEPT ![m] = @ + 1]
    /\ next' = [next EXCEPT ![m] = (@ + 1) % IdCount(m)]
    /\ call' = [call EXCEPT
         ![t] = [at |-> "insert", by |-> m, id |-> next[m], n |-> made[m] + 1]]
    /\ UNCHANGED <<table, born, kept>>

\* The thread has a pointer to the object at a.
Points(t, a) ==
    call' = [call EXCEPT ![t] = [at |-> "use", obj |-> a, was |-> born'[a]]]

\* MUTANT: a table of plain pointers loses the object it had under the id.
Insert_Plain(t, a) ==
    LET m == call[t].by
        id == call[t].id
    IN  /\ call[t].at = "insert" /\ born[a] = Dead
        /\ table' = [table EXCEPT ![m][id] = a]
        /\ born' = [born EXCEPT ![a] = [by |-> m, n |-> call[t].n]]
        /\ Points(t, a)
        /\ kept' \in {kept, [by |-> m, id |-> id, n |-> call[t].n]}
        /\ UNCHANGED <<next, made>>

\* The new object enters the table and the caller gets a pointer to it.  If the
\* id is in use, the object that had it goes, or the new one does.
Insert(t, a) ==
    LET m   == call[t].by
        id  == call[t].id
        old == table[m][id]
    IN  /\ call[t].at = "insert" /\ born[a] = Dead
        /\ \/ /\ table' = [table EXCEPT ![m][id] = a]
              /\ born' = [b \in Addresses |->
                            IF b = a THEN [by |-> m, n |-> call[t].n]
                            ELSE IF b = old THEN Dead ELSE born[b]]
              /\ Points(t, a)
              /\ kept' \in {kept, [by |-> m, id |-> id, n |-> call[t].n]}
           \/ /\ old # Null
              /\ call' = [call EXCEPT ![t] = Idle]
              /\ UNCHANGED <<table, born, kept>>
        /\ UNCHANGED <<next, made>>

Find(t, m, id) ==
    /\ call[t] = Idle /\ table[m][id] # Null
    /\ UNCHANGED <<next, made, table, born, kept>>
    /\ Points(t, table[m][id])

\* The thread has done with its pointer.
Return(t) ==
    /\ call[t].at = "use"
    /\ call' = [call EXCEPT ![t] = Idle]
    /\ UNCHANGED <<next, made, table, born, kept>>

Remove(t, m, id) ==
    /\ call[t] = Idle /\ table[m][id] # Null
    /\ born' = [born EXCEPT ![table[m][id]] = Dead]
    /\ table' = [table EXCEPT ![m][id] = Null]
    /\ UNCHANGED <<next, made, call, kept>>

Next ==
    \E t \in Threads :
        \/ \E m \in Served : TakeId(t, m)
        \/ \E m \in Served : \E id \in Ids(m) : Find(t, m, id) \/ Remove(t, m, id)
        \/ \E a \in Addresses : Insert(t, a)
        \/ Return(t)

Spec == Init /\ [][Next]_vars

-----------------------------------------------------------------------------
(* Correctness.                                                            *)

\* Each object of a manager is in its table, once, and a table has no pointer
\* to what is gone.
OwnedOnce ==
    /\ \A m \in Served : \A id \in Ids(m) :
         table[m][id] # Null => born[table[m][id]].by = m
    /\ \A a \in Addresses, m \in Served : born[a].by = m =>
         \E id \in Ids(m) : \A i \in Ids(m) : table[m][i] = a <=> i = id

\* An id that a client kept names the object it was given for, or nothing: not
\* one made later, which may even be at the same address.  This holds until the
\* manager has given every id there is, which for a ChatRoom are 2^32.
IdNamesOne ==
    kept # NoIds /\ made[kept.by] <= IdCount(kept.by) =>
        LET a == table[kept.by][kept.id]
        IN  a # Null => born[a].n = kept.n

=============================================================================
