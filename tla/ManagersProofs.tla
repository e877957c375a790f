--------------------------- MODULE ManagersProofs ---------------------------
(***************************************************************************)
(* Each object of a manager is in its table once and nothing that is gone  *)
(* is, and an id that a client kept names one object until ids come round: *)
(* for any threads, managers, addresses and widths of ids.                 *)
(***************************************************************************)
EXTENDS ManagersRefinement, TLAPS

Owners == [by : Served \cup {Null}, n : Nat]

\* A thread is idle, in a Create with its id, or has a pointer.
Calls ==
    [at : {"idle"}]
    \cup [at : {"insert"}, by : Served, id : Nat, n : Nat]
    \cup [at : {"use"}, obj : Addresses, was : Owners]

\* The types of the counters, the tables and the calls; an id is of the width
\* of its manager's ids.
Typed ==
    /\ next = [m \in Served |-> next[m]]
    /\ \A m \in Served : next[m] \in Ids(m)
    /\ made \in [Served -> Nat]
    /\ table = [m \in Served |-> table[m]]
    /\ \A m \in Served : table[m] \in [Ids(m) -> Addresses \cup {Null}]
    /\ born \in [Addresses -> Owners]
    /\ call \in [Threads -> Calls]
    /\ \A t \in Threads : call[t].at = "insert" => call[t].id \in Ids(call[t].by)

\* What a table has is an object of its manager ...
Live ==
    \A m \in Served : \A id \in Ids(m) :
        table[m][id] # Null => born[table[m][id]].by = m

\* ... which the table has under one id alone ...
Single ==
    \A m \in Served : \A i, j \in Ids(m) :
        table[m][i] = table[m][j] /\ table[m][i] # Null => i = j

\* ... and it has all of them.
Present ==
    \A a \in Addresses, m \in Served :
        born[a].by = m => \E id \in Ids(m) : table[m][id] = a

\* The inductive invariant.
IInv == Typed /\ Live /\ Single /\ Present

-----------------------------------------------------------------------------

LEMMA InitCorrect == Init => IInv
<1> SUFFICES ASSUME Init PROVE IInv
  OBVIOUS
<1>1. \A m \in Served : m.firstId \in Ids(m)
  BY ManagersAssumption
<1>2. Dead \in Owners /\ Idle \in Calls /\ Idle.at = "idle" /\ Dead.by = Null
  BY DEF Dead, Owners, Idle, Calls
<1>3. \A m \in Served : \A id \in Ids(m) : table[m][id] = Null
  BY DEF Init
<1>4. Typed
  BY <1>1, <1>2, <1>3 DEF Init, Typed
<1>5. Present
  BY <1>2, ManagersAssumption DEF Init, Present
<1> QED
  BY <1>3, <1>4, <1>5 DEF IInv, Live, Single

\* What each kind of call has.
LEMMA CallFields ==
    ASSUME Typed, NEW t \in Threads
    PROVE  /\ call[t] \in Calls
           /\ call[t].at = "insert" =>
                /\ call[t].by \in Served
                /\ call[t].id \in Ids(call[t].by)
                /\ call[t].n \in Nat
BY DEF Typed, Calls

\* The counter comes round to an id of the same width.
LEMMA Counted ==
    ASSUME NEW m \in Served, NEW i \in Ids(m)
    PROVE  (i + 1) % IdCount(m) \in Ids(m)
<1>1. IdCount(m) \in Nat /\ i \in Nat /\ i < IdCount(m)
  BY ManagersAssumption DEF Ids
<1>2. IdCount(m) > 0
  BY <1>1
<1> HIDE DEF IdCount
<1>3. (i + 1) % IdCount(m) \in 0..(IdCount(m) - 1)
  BY <1>1, <1>2
<1> QED
  BY <1>3 DEF Ids

LEMMA TakeIdCorrect ==
    ASSUME IInv, NEW t \in Threads, NEW m \in Served, TakeId(t, m)
    PROVE  IInv'
<1> DEFINE c == [at |-> "insert", by |-> m, id |-> next[m], n |-> made[m] + 1]
<1>1. UNCHANGED <<table, born>>
  BY DEF TakeId
<1>2. /\ made' = [made EXCEPT ![m] = @ + 1]
      /\ next' = [next EXCEPT ![m] = (@ + 1) % IdCount(m)]
      /\ call' = [call EXCEPT ![t] = c]
  BY DEF TakeId
<1>3. next[m] \in Ids(m) /\ made[m] \in Nat
  BY DEF IInv, Typed
<1>4. c \in Calls /\ c.at = "insert" /\ c.id \in Ids(c.by)
  BY <1>3 DEF Calls, Ids
<1>5. (next[m] + 1) % IdCount(m) \in Ids(m)
  BY <1>3, Counted
<1>6. call' \in [Threads -> Calls]
  BY <1>2, <1>4 DEF IInv, Typed
<1>7. \A u \in Threads :
        call'[u].at = "insert" => call'[u].id \in Ids(call'[u].by)
  BY <1>2, <1>4 DEF IInv, Typed
<1>8. /\ next' = [k \in Served |-> next'[k]]
      /\ \A k \in Served : next'[k] \in Ids(k)
  BY <1>2, <1>5 DEF IInv, Typed
<1>9. made' \in [Served -> Nat]
  BY <1>2, <1>3 DEF IInv, Typed
<1>10. Typed'
  BY <1>1, <1>6, <1>7, <1>8, <1>9 DEF IInv, Typed
<1> QED
  BY <1>1, <1>10 DEF IInv, Live, Single, Present

\* A call that ends, or that begins to use an object, is a call of the type it
\* has to be of, and the rest is left.
LEMMA CallChanged ==
    ASSUME IInv, NEW t \in Threads, NEW c \in Calls, c.at # "insert",
           call' = [call EXCEPT ![t] = c], UNCHANGED <<next, made, table, born>>
    PROVE  IInv'
<1>1. call' \in [Threads -> Calls]
  BY DEF IInv, Typed
<1>2. \A u \in Threads :
        call'[u].at = "insert" => call'[u].id \in Ids(call'[u].by)
  BY DEF IInv, Typed
<1>3. Typed'
  BY <1>1, <1>2 DEF IInv, Typed
<1> QED
  BY <1>3 DEF IInv, Live, Single, Present

LEMMA FindCorrect ==
    ASSUME IInv, NEW t \in Threads, NEW m \in Served, NEW id \in Ids(m),
           Find(t, m, id)
    PROVE  IInv'
<1> DEFINE a == table[m][id]
           c == [at |-> "use", obj |-> a, was |-> born[a]]
<1>1. a \in Addresses /\ born[a] \in Owners
  BY DEF Find, IInv, Typed
<1>2. c \in Calls /\ c.at # "insert"
  BY <1>1 DEF Calls
<1>3. /\ call' = [call EXCEPT ![t] = c]
      /\ UNCHANGED <<next, made, table, born>>
  BY DEF Find, Points
<1> QED
  BY <1>2, <1>3, CallChanged

LEMMA ReturnCorrect ==
    ASSUME IInv, NEW t \in Threads, Return(t)
    PROVE  IInv'
<1>1. Idle \in Calls /\ Idle.at # "insert"
  BY DEF Idle, Calls
<1> QED
  BY <1>1, CallChanged DEF Return

\* An object taken out of the table is destroyed.
LEMMA RemoveCorrect ==
    ASSUME IInv, NEW t \in Threads, NEW m \in Served, NEW id \in Ids(m),
           Remove(t, m, id)
    PROVE  IInv'
<1> DEFINE old == table[m][id]
<1>1. /\ born' = [born EXCEPT ![old] = Dead]
      /\ table' = [table EXCEPT ![m][id] = Null]
      /\ UNCHANGED <<next, made, call>>
      /\ old # Null
  BY DEF Remove
<1>2. old \in Addresses /\ born[old].by = m
  BY <1>1 DEF IInv, Typed, Live
<1>3. Dead \in Owners /\ Dead.by = Null
  BY DEF Dead, Owners
<1>4. \A k \in Served : \A i \in Ids(k) :
        table'[k][i] = IF k = m /\ i = id THEN Null ELSE table[k][i]
  BY <1>1 DEF IInv, Typed
<1>5. \A b \in Addresses : born'[b] = IF b = old THEN Dead ELSE born[b]
  BY <1>1 DEF IInv, Typed
<1>6. Typed'
  <2>1. born' \in [Addresses -> Owners]
    BY <1>1, <1>3 DEF IInv, Typed
  <2>2. table' = [k \in Served |-> table'[k]]
    BY <1>1 DEF IInv, Typed
  <2>3. \A k \in Served : table'[k] \in [Ids(k) -> Addresses \cup {Null}]
    BY <1>1 DEF IInv, Typed
  <2> QED
    BY <1>1, <2>1, <2>2, <2>3 DEF IInv, Typed
<1>7. Live'
  <2> SUFFICES ASSUME NEW k \in Served, NEW i \in Ids(k), table'[k][i] # Null
               PROVE  born'[table'[k][i]].by = k
    BY DEF Live
  <2>1. /\ table'[k][i] = table[k][i] /\ ~(k = m /\ i = id)
        /\ table[k][i] \in Addresses
    BY <1>4 DEF IInv, Typed
  <2>2. born[table[k][i]].by = k
    BY <2>1 DEF IInv, Live
  <2>3. table[k][i] # old
    BY <1>1, <1>2, <2>1, <2>2 DEF IInv, Single
  <2> QED
    BY <1>5, <2>1, <2>2, <2>3
<1>8. Single'
  BY <1>4 DEF IInv, Single
<1>9. Present'
  <2> SUFFICES ASSUME NEW b \in Addresses, NEW k \in Served, born'[b].by = k
               PROVE  \E i \in Ids(k) : table'[k][i] = b
    BY DEF Present
  <2>1. b # old /\ born[b].by = k
    BY <1>3, <1>5, ManagersAssumption
  <2>2. PICK i \in Ids(k) : table[k][i] = b
    BY <2>1 DEF IInv, Present
  <2> QED
    BY <1>4, <2>1, <2>2
<1> QED
  BY <1>6, <1>7, <1>8, <1>9 DEF IInv

\* A new object takes its id, and the object that had the id, if any, goes.
LEMMA InsertedCorrect ==
    ASSUME IInv, NEW t \in Threads, NEW a \in Addresses,
           NEW m \in Served, NEW id \in Ids(m), NEW n \in Nat,
           born[a] = Dead,
           table' = [table EXCEPT ![m][id] = a],
           born' = [b \in Addresses |-> born'[b]],
           born'[a] = [by |-> m, n |-> n],
           \A b \in Addresses \ {a} :
               born'[b] = IF b = table[m][id] THEN Dead ELSE born[b],
           Points(t, a),
           UNCHANGED <<next, made>>
    PROVE  IInv'
<1> DEFINE old == table[m][id]
<1>1. Dead \in Owners /\ Dead.by = Null /\ [by |-> m, n |-> n] \in Owners
  BY DEF Dead, Owners
<1>2. Null \notin Served /\ Null \notin Addresses
  BY ManagersAssumption
<1>3. old # a
  <2>1. old # Null => born[old].by = m
    BY DEF IInv, Live
  <2> QED
    BY <1>1, <1>2, <2>1
<1>4. \A k \in Served : \A i \in Ids(k) :
        table'[k][i] = IF k = m /\ i = id THEN a ELSE table[k][i]
  BY DEF IInv, Typed
<1>5. /\ born'[a].by = m
      /\ \A b \in Addresses : b = old => born'[b] = Dead
      /\ \A b \in Addresses : b # old /\ b # a => born'[b] = born[b]
  BY <1>3
<1>6. born' \in [Addresses -> Owners]
  BY <1>1 DEF IInv, Typed
<1>7. Typed'
  <2> DEFINE c == [at |-> "use", obj |-> a, was |-> born'[a]]
  <2>1. c \in Calls /\ c.at # "insert"
    BY <1>6 DEF Calls
  <2>2. call' = [call EXCEPT ![t] = c]
    BY DEF Points
  <2>3. call' \in [Threads -> Calls]
    BY <2>1, <2>2 DEF IInv, Typed
  <2>4. \A u \in Threads :
          call'[u].at = "insert" => call'[u].id \in Ids(call'[u].by)
    BY <2>1, <2>2 DEF IInv, Typed
  <2>5. table' = [k \in Served |-> table'[k]]
    BY DEF IInv, Typed
  <2>6. \A k \in Served : table'[k] \in [Ids(k) -> Addresses \cup {Null}]
    BY DEF IInv, Typed
  <2> QED
    BY <1>6, <2>3, <2>4, <2>5, <2>6 DEF IInv, Typed
<1>8. \A k \in Served : \A i \in Ids(k) :
        table[k][i] # Null /\ ~(k = m /\ i = id) =>
          /\ table[k][i] \in Addresses
          /\ born[table[k][i]].by = k
          /\ table[k][i] # a
          /\ table[k][i] # old
  <2> SUFFICES ASSUME NEW k \in Served, NEW i \in Ids(k),
                      table[k][i] # Null, ~(k = m /\ i = id)
               PROVE  /\ table[k][i] \in Addresses
                      /\ born[table[k][i]].by = k
                      /\ table[k][i] # a
                      /\ table[k][i] # old
    OBVIOUS
  <2>1. table[k][i] \in Addresses
    BY DEF IInv, Typed
  <2>2. born[table[k][i]].by = k
    BY DEF IInv, Live
  <2>3. table[k][i] # a
    BY <1>1, <1>2, <2>2
  <2>4. ASSUME table[k][i] = old PROVE FALSE
    <3>1. born[old].by = m
      BY <2>4 DEF IInv, Live
    <3>2. k = m
      BY <2>2, <2>4, <3>1
    <3> QED
      BY <2>4, <3>2 DEF IInv, Single
  <2> QED
    BY <2>1, <2>2, <2>3, <2>4
<1>9. Live'
  BY <1>4, <1>5, <1>8 DEF Live
<1>10. Single'
  BY <1>4, <1>8 DEF IInv, Single
<1>11. Present'
  <2> SUFFICES ASSUME NEW b \in Addresses, NEW k \in Served, born'[b].by = k
               PROVE  \E i \in Ids(k) : table'[k][i] = b
    BY DEF Present
  <2>1. CASE b = a
    BY <1>4, <1>5, <2>1
  <2>2. CASE b # a
    <3>1. b # old /\ born[b].by = k
      BY <1>1, <1>2, <1>5, <2>2
    <3>2. PICK i \in Ids(k) : table[k][i] = b
      BY <3>1 DEF IInv, Present
    <3> QED
      BY <1>4, <3>1, <3>2
  <2> QED
    BY <2>1, <2>2
<1> QED
  BY <1>7, <1>9, <1>10, <1>11 DEF IInv

LEMMA InsertCorrect ==
    ASSUME IInv, NEW t \in Threads, NEW a \in Addresses, Insert(t, a)
    PROVE  IInv'
<1> DEFINE m   == call[t].by
           id  == call[t].id
           n   == call[t].n
           old == table[m][id]
<1>1. /\ m \in Served /\ id \in Ids(m) /\ n \in Nat
      /\ born[a] = Dead
      /\ UNCHANGED <<next, made>>
  BY CallFields DEF Insert, IInv
<1>2. CASE /\ table' = [table EXCEPT ![m][id] = a]
           /\ born' = [b \in Addresses |->
                         IF b = a THEN [by |-> m, n |-> n]
                         ELSE IF b = old THEN Dead ELSE born[b]]
           /\ Points(t, a)
  <2>1. born' = [b \in Addresses |-> born'[b]]
    BY <1>2
  <2>2. born'[a] = [by |-> m, n |-> n]
    BY <1>2
  <2>3. \A b \in Addresses \ {a} :
          born'[b] = IF b = table[m][id] THEN Dead ELSE born[b]
    BY <1>2
  <2> HIDE DEF m, id, n, old
  <2>4. table' = [table EXCEPT ![m][id] = a] /\ Points(t, a)
    BY <1>2
  <2> QED
    BY <1>1, <2>1, <2>2, <2>3, <2>4, InsertedCorrect
<1>3. CASE /\ call' = [call EXCEPT ![t] = Idle]
           /\ UNCHANGED <<table, born>>
  <2>1. Idle \in Calls /\ Idle.at # "insert"
    BY DEF Idle, Calls
  <2> QED
    BY <1>1, <1>3, <2>1, CallChanged
<1> QED
  BY <1>2, <1>3 DEF Insert

\* Every step of every thread, and none, keeps the invariant.
LEMMA StepCorrect == IInv /\ [Next]_vars => IInv'
<1> SUFFICES ASSUME IInv, [Next]_vars PROVE IInv'
  OBVIOUS
<1>1. CASE UNCHANGED vars
  <2>1. UNCHANGED <<next, made, table, born, call>>
    BY <1>1 DEF vars
  <2>2. Typed'
    BY <2>1 DEF IInv, Typed
  <2> QED
    BY <2>1, <2>2 DEF IInv, Live, Single, Present
<1> QED
  BY <1>1, TakeIdCorrect, InsertCorrect, FindCorrect, ReturnCorrect,
     RemoveCorrect DEF Next

\* So it holds always.
LEMMA Invariance == Spec => []IInv
BY InitCorrect, StepCorrect, PTL DEF Spec

-----------------------------------------------------------------------------
(* Which id each object was given.                                         *)

\* The id that the n-th Create of a manager gets, before ids come round to the
\* first one given.
IdOf(m, n) ==
    IF m.firstId + n <= IdCount(m) THEN m.firstId + n - 1
    ELSE m.firstId + n - 1 - IdCount(m)

\* Of so many Creates the n-th got this id.
Given(m, id, n, count) ==
    count <= IdCount(m) => n \in 1..count /\ id = IdOf(m, n)

\* The counter, the calls, the tables and the client's memory agree on that.
Numbered ==
    /\ \A m \in Served :
         made[m] <= IdCount(m) => next[m] = IdOf(m, made[m] + 1)
    /\ \A t \in Threads :
         call[t].at = "insert" =>
           Given(call[t].by, call[t].id, call[t].n, made[call[t].by])
    /\ \A m \in Served : \A id \in Ids(m) :
         table[m][id] # Null => Given(m, id, born[table[m][id]].n, made[m])
    /\ \/ kept = NoIds
       \/ /\ kept.by \in Served /\ kept.id \in Ids(kept.by) /\ kept.n \in Nat
          /\ Given(kept.by, kept.id, kept.n, made[kept.by])

\* Ids are numbers below IdCount, and so is the first.
LEMMA IdRange ==
    ASSUME NEW m \in Served
    PROVE  /\ IdCount(m) \in Nat /\ m.firstId \in Nat
           /\ m.firstId < IdCount(m)
BY ManagersAssumption DEF Ids

\* The atomic increment goes from one id to the next.
LEMMA NextId ==
    ASSUME NEW m \in Served, NEW n \in 1..IdCount(m)
    PROVE  (IdOf(m, n) + 1) % IdCount(m) = IdOf(m, n + 1)
<1> DEFINE C == IdCount(m)
           f == m.firstId
<1>1. C \in Nat /\ f \in Nat /\ f < C /\ n \in 1..C
  BY IdRange
<1>2. /\ IdOf(m, n) = IF f + n <= C THEN f + n - 1 ELSE f + n - 1 - C
      /\ IdOf(m, n + 1) = IF f + (n + 1) <= C THEN f + (n + 1) - 1
                                            ELSE f + (n + 1) - 1 - C
  BY DEF IdOf
<1> HIDE DEF C, f
<1>3. ASSUME NEW x \in 0..(C - 1) PROVE (x + 1) % C = IF x + 1 = C THEN 0 ELSE x + 1
  <2>1. CASE x + 1 = C
    BY <1>1, <2>1
  <2>2. CASE x + 1 # C
    BY <1>1, <2>2
  <2> QED
    BY <2>1, <2>2
<1>4. IdOf(m, n) \in 0..(C - 1)
  BY <1>1, <1>2
<1>5. (IdOf(m, n) + 1) % C =
        IF IdOf(m, n) + 1 = C THEN 0 ELSE IdOf(m, n) + 1
  BY <1>3, <1>4
<1>6. IdOf(m, n + 1) = IF IdOf(m, n) + 1 = C THEN 0 ELSE IdOf(m, n) + 1
  BY <1>1, <1>2
<1> QED
  BY <1>5, <1>6 DEF C

\* As many Creates as there are ids get different ones.
LEMMA DifferentIds ==
    ASSUME NEW m \in Served, NEW i \in 1..IdCount(m), NEW j \in 1..IdCount(m),
           IdOf(m, i) = IdOf(m, j)
    PROVE  i = j
<1> HIDE DEF IdCount
<1> QED
  BY IdRange DEF IdOf

\* What was given stays given.
LEMMA GivenStays ==
    ASSUME IInv, NEW k \in Served, NEW id, NEW n,
           made' = made \/ \E m \in Served : made' = [made EXCEPT ![m] = @ + 1],
           Given(k, id, n, made[k])
    PROVE  Given(k, id, n, made'[k])
<1>1. made[k] \in Nat /\ made'[k] \in {made[k], made[k] + 1}
  BY DEF IInv, Typed
<1>2. IdCount(k) \in Nat
  BY IdRange
<1> QED
  BY <1>1, <1>2 DEF Given

\* At first nothing was given and nobody remembers an id.
LEMMA NumberedInit == Init => Numbered
<1> SUFFICES ASSUME Init PROVE Numbered
  OBVIOUS
<1>1. \A m \in Served : next[m] = IdOf(m, made[m] + 1)
  <2> SUFFICES ASSUME NEW m \in Served PROVE next[m] = IdOf(m, made[m] + 1)
    OBVIOUS
  <2>1. next[m] = m.firstId /\ made[m] = 0
    BY DEF Init
  <2> QED
    BY <2>1, IdRange DEF IdOf
<1>2. \A t \in Threads : call[t].at = "idle"
  BY DEF Init, Idle
<1>3. \A m \in Served : \A id \in Ids(m) : table[m][id] = Null
  BY DEF Init
<1> QED
  BY <1>1, <1>2, <1>3 DEF Init, Numbered

\* The id taken is that of the Create that begins.
LEMMA TakeIdNumbers ==
    ASSUME IInv, Numbered, NEW t \in Threads, NEW m \in Served, TakeId(t, m)
    PROVE  Numbered'
<1> DEFINE c == [at |-> "insert", by |-> m, id |-> next[m], n |-> made[m] + 1]
<1>1. /\ made' = [made EXCEPT ![m] = @ + 1]
      /\ next' = [next EXCEPT ![m] = (@ + 1) % IdCount(m)]
      /\ call' = [call EXCEPT ![t] = c]
      /\ UNCHANGED <<table, born, kept>>
  BY DEF TakeId
<1>2. made[m] \in Nat /\ made'[m] = made[m] + 1 /\ IdCount(m) \in Nat
  BY <1>1, IdRange DEF IInv, Typed
<1>3. next'[m] = (next[m] + 1) % IdCount(m)
  BY <1>1 DEF IInv, Typed
<1>4. \A k \in Served : k # m => next'[k] = next[k] /\ made'[k] = made[k]
  BY <1>1 DEF IInv, Typed
<1>5. ASSUME made'[m] <= IdCount(m)
      PROVE  /\ next[m] = IdOf(m, made[m] + 1)
             /\ next'[m] = IdOf(m, made'[m] + 1)
  <2>1. next[m] = IdOf(m, made[m] + 1)
    BY <1>2, <1>5 DEF Numbered
  <2>2. made[m] + 1 \in 1..IdCount(m)
    BY <1>2, <1>5
  <2> QED
    BY <1>2, <1>3, <2>1, <2>2, NextId
<1>6. ASSUME made'[m] <= IdCount(m)
      PROVE  made[m] + 1 \in 1..made'[m] /\ next[m] = IdOf(m, made[m] + 1)
  BY <1>2, <1>5, <1>6
<1>7. \A k \in Served :
        made'[k] <= IdCount(k) => next'[k] = IdOf(k, made'[k] + 1)
  BY <1>4, <1>5 DEF Numbered
<1>8. \A u \in Threads :
        call'[u].at = "insert" =>
            Given(call'[u].by, call'[u].id, call'[u].n, made'[call'[u].by])
  <2> SUFFICES ASSUME NEW u \in Threads, call'[u].at = "insert"
               PROVE  Given(call'[u].by, call'[u].id, call'[u].n,
                            made'[call'[u].by])
    OBVIOUS
  <2>1. CASE u = t
    <3>1. /\ call'[u].by = m /\ call'[u].id = next[m]
          /\ call'[u].n = made[m] + 1
      BY <1>1, <2>1 DEF IInv, Typed
    <3> QED
      BY <1>6, <3>1 DEF Given
  <2>2. CASE u # t
    <3>1. call'[u] = call[u]
      BY <1>1, <2>2 DEF IInv, Typed
    <3>2. call[u].by \in Served
      BY <3>1, CallFields DEF IInv
    <3>3. Given(call[u].by, call[u].id, call[u].n, made[call[u].by])
      BY <3>1 DEF Numbered
    <3> QED
      BY <1>1, <3>1, <3>2, <3>3, GivenStays
  <2> QED
    BY <2>1, <2>2
<1>9. \A k \in Served : \A id \in Ids(k) :
        table[k][id] # Null =>
            Given(k, id, born[table[k][id]].n, made'[k])
  BY <1>1, GivenStays DEF Numbered
<1>10. \/ kept = NoIds
       \/ /\ kept.by \in Served /\ kept.id \in Ids(kept.by) /\ kept.n \in Nat
          /\ Given(kept.by, kept.id, kept.n, made'[kept.by])
  BY <1>1, GivenStays DEF Numbered
<1> QED
  BY <1>1, <1>7, <1>8, <1>9, <1>10 DEF Numbered

\* A call that ends, or that begins to use an object, gives no id.
LEMMA CallNumbers ==
    ASSUME IInv, Numbered, NEW t \in Threads, NEW c, c.at # "insert",
           call' = [call EXCEPT ![t] = c],
           UNCHANGED <<next, made, table, born, kept>>
    PROVE  Numbered'
<1>1. \A u \in Threads :
        call'[u].at = "insert" => call'[u] = call[u]
  BY DEF IInv, Typed
<1>2. \A u \in Threads :
        call'[u].at = "insert" =>
            Given(call'[u].by, call'[u].id, call'[u].n, made[call'[u].by])
  BY <1>1 DEF Numbered
<1> QED
  BY <1>2 DEF Numbered

LEMMA FindNumbers ==
    ASSUME IInv, Numbered, NEW t \in Threads, NEW m \in Served,
           NEW id \in Ids(m), Find(t, m, id)
    PROVE  Numbered'
<1> DEFINE c == [at |-> "use", obj |-> table[m][id], was |-> born[table[m][id]]]
<1>1. /\ call' = [call EXCEPT ![t] = c] /\ c.at # "insert"
      /\ UNCHANGED <<next, made, table, born, kept>>
  BY DEF Find, Points
<1> HIDE DEF c
<1> QED
  BY <1>1, CallNumbers

LEMMA ReturnNumbers ==
    ASSUME IInv, Numbered, NEW t \in Threads, Return(t)
    PROVE  Numbered'
<1>1. Idle.at # "insert"
  BY DEF Idle
<1> QED
  BY <1>1, CallNumbers DEF Return

\* The objects that stay keep their ids and their numbers.
LEMMA RemoveNumbers ==
    ASSUME IInv, Numbered, NEW t \in Threads, NEW m \in Served,
           NEW id \in Ids(m), Remove(t, m, id)
    PROVE  Numbered'
<1> DEFINE old == table[m][id]
<1>1. /\ born' = [born EXCEPT ![old] = Dead]
      /\ table' = [table EXCEPT ![m][id] = Null]
      /\ UNCHANGED <<next, made, call, kept>>
      /\ old # Null
  BY DEF Remove
<1>2. old \in Addresses /\ born[old].by = m
  BY <1>1 DEF IInv, Typed, Live
<1>3. ASSUME NEW k \in Served, NEW i \in Ids(k), table'[k][i] # Null
      PROVE  Given(k, i, born'[table'[k][i]].n, made[k])
  <2>1. /\ table'[k][i] = table[k][i] /\ ~(k = m /\ i = id)
        /\ table[k][i] \in Addresses
    BY <1>1, <1>3 DEF IInv, Typed
  <2>2. born[table[k][i]].by = k
    BY <1>3, <2>1 DEF IInv, Live
  <2>3. table[k][i] # old
    BY <1>1, <1>2, <2>1, <2>2 DEF IInv, Single
  <2>4. born'[table[k][i]] = born[table[k][i]]
    BY <1>1, <2>1, <2>3 DEF IInv, Typed
  <2> QED
    BY <1>3, <2>1, <2>4 DEF Numbered
<1> QED
  BY <1>1, <1>3 DEF Numbered

\* The new object has the number of its call, under the id of its call; what the
\* client remembers is that.
LEMMA InsertNumbers ==
    ASSUME IInv, Numbered, NEW t \in Threads, NEW a \in Addresses, Insert(t, a)
    PROVE  Numbered'
<1> DEFINE m   == call[t].by
           id  == call[t].id
           n   == call[t].n
           old == table[m][id]
<1>1. /\ m \in Served /\ id \in Ids(m) /\ n \in Nat
      /\ born[a] = Dead /\ call[t].at = "insert"
      /\ UNCHANGED <<next, made>>
  BY CallFields DEF Insert, IInv
<1>2. Given(m, id, n, made[m])
  BY <1>1 DEF Numbered
<1>3. CASE /\ table' = [table EXCEPT ![m][id] = a]
           /\ born' = [b \in Addresses |->
                         IF b = a THEN [by |-> m, n |-> n]
                         ELSE IF b = old THEN Dead ELSE born[b]]
           /\ Points(t, a)
           /\ kept' \in {kept, [by |-> m, id |-> id, n |-> n]}
  <2> HIDE DEF m, id, n, old
  <2>1. ASSUME NEW k \in Served, NEW i \in Ids(k), table'[k][i] # Null
        PROVE  Given(k, i, born'[table'[k][i]].n, made[k])
    <3>1. CASE k = m /\ i = id
      <4>1. table'[k][i] = a /\ born'[a].n = n
        BY <1>1, <1>3, <3>1 DEF IInv, Typed
      <4> QED
        BY <1>2, <3>1, <4>1
    <3>2. CASE ~(k = m /\ i = id)
      <4>1. table'[k][i] = table[k][i] /\ table[k][i] \in Addresses
        BY <1>1, <1>3, <2>1, <3>2 DEF IInv, Typed
      <4>2. born[table[k][i]].by = k
        BY <2>1, <4>1 DEF IInv, Live
      <4>3. table[k][i] # a
        BY <1>1, <4>2, ManagersAssumption DEF Dead
      <4>4. ASSUME table[k][i] = old PROVE FALSE
        <5>1. born[old].by = m
          BY <1>1, <2>1, <4>1, <4>4 DEF IInv, Live, old
        <5>2. k = m
          BY <4>2, <4>4, <5>1
        <5> QED
          BY <1>1, <2>1, <3>2, <4>1, <4>4, <5>2 DEF IInv, Single, old
      <4>5. born'[table[k][i]] = born[table[k][i]]
        BY <1>3, <4>1, <4>3, <4>4
      <4> QED
        BY <2>1, <4>1, <4>5 DEF Numbered
    <3> QED
      BY <3>1, <3>2
  <2>2. \A u \in Threads : call'[u].at = "insert" => call'[u] = call[u]
    BY <1>3 DEF IInv, Typed, Points
  <2>3. \A u \in Threads :
          call'[u].at = "insert" =>
              Given(call'[u].by, call'[u].id, call'[u].n, made[call'[u].by])
    BY <2>2 DEF Numbered
  <2>4. \/ kept' = NoIds
        \/ /\ kept'.by \in Served /\ kept'.id \in Ids(kept'.by) /\ kept'.n \in Nat
           /\ Given(kept'.by, kept'.id, kept'.n, made[kept'.by])
    <3>1. CASE kept' = kept
      BY <3>1 DEF Numbered
    <3>2. CASE kept' = [by |-> m, id |-> id, n |-> n]
      <4>1. kept'.by = m /\ kept'.id = id /\ kept'.n = n
        BY <3>2
      <4> QED
        BY <1>1, <1>2, <4>1
    <3> QED
      BY <1>3, <3>1, <3>2
  <2> QED
    BY <1>1, <2>1, <2>3, <2>4 DEF Numbered
<1>4. CASE /\ call' = [call EXCEPT ![t] = Idle]
           /\ UNCHANGED <<table, born, kept>>
  <2>1. Idle.at # "insert"
    BY DEF Idle
  <2> QED
    BY <1>1, <1>4, <2>1, CallNumbers
<1> QED
  BY <1>3, <1>4 DEF Insert

\* Every step, and none, keeps the numbers.
LEMMA NumberedStep == IInv /\ Numbered /\ [Next]_vars => Numbered'
<1> SUFFICES ASSUME IInv, Numbered, [Next]_vars PROVE Numbered'
  OBVIOUS
<1>1. CASE UNCHANGED vars
  BY <1>1 DEF vars, Numbered
<1> QED
  BY <1>1, TakeIdNumbers, InsertNumbers, FindNumbers, ReturnNumbers,
     RemoveNumbers DEF Next

\* So the numbers are right always.
LEMMA NumberedInvariance == Spec => [](IInv /\ Numbered)
BY InitCorrect, StepCorrect, NumberedInit, NumberedStep, PTL DEF Spec

\* Of one id, what a client remembers and what the table holds have one number.
LEMMA NumberedSuffices == IInv /\ Numbered => IdNamesOne
<1> SUFFICES ASSUME IInv, Numbered, kept # NoIds,
                    made[kept.by] <= IdCount(kept.by),
                    table[kept.by][kept.id] # Null
             PROVE  born[table[kept.by][kept.id]].n = kept.n
  BY DEF IdNamesOne
<1> DEFINE m == kept.by
           n == born[table[m][kept.id]].n
<1>1. /\ m \in Served /\ kept.id \in Ids(m)
      /\ Given(m, kept.id, kept.n, made[m])
      /\ Given(m, kept.id, n, made[m])
  BY DEF Numbered
<1>2. made[m] \in Nat /\ IdCount(m) \in Nat
  BY <1>1, IdRange DEF IInv, Typed
<1> HIDE DEF m, n
<1>3. made[m] <= IdCount(m)
  BY DEF m
<1>4. /\ kept.n \in 1..IdCount(m) /\ n \in 1..IdCount(m)
      /\ IdOf(m, kept.n) = IdOf(m, n)
  BY <1>1, <1>2, <1>3 DEF Given
<1>5. kept.n = n
  BY <1>1, <1>4, DifferentIds
<1> QED
  BY <1>5 DEF m, n

-----------------------------------------------------------------------------
(* The managers implement ObjectTables.                                    *)

\* Each creation makes one object: no two calls have one number, nor a call and
\* an object that is there.
Distinct ==
    /\ \A t \in Threads :
         call[t].at = "insert" => call[t].n \in 1..made[call[t].by]
    /\ \A t, u \in Threads :
         /\ call[t].at = "insert" /\ call[u].at = "insert"
         /\ call[t].by = call[u].by /\ call[t].n = call[u].n
         => t = u
    /\ \A a \in Addresses, m \in Served : born[a].by = m =>
         /\ born[a].n \in 1..made[m]
         /\ \A t \in Threads :
              call[t].at = "insert" /\ call[t].by = m => call[t].n # born[a].n

\* The number taken is above all others.
LEMMA TakeIdDistinct ==
    ASSUME IInv, Distinct, NEW t \in Threads, NEW m \in Served, TakeId(t, m)
    PROVE  Distinct'
<1> DEFINE c == [at |-> "insert", by |-> m, id |-> next[m], n |-> made[m] + 1]
<1>1. /\ made' = [made EXCEPT ![m] = @ + 1] /\ call' = [call EXCEPT ![t] = c]
      /\ born' = born
  BY DEF TakeId
<1>2. /\ \A k \in Served : made[k] \in Nat
      /\ made'[m] = made[m] + 1
      /\ \A k \in Served : k # m => made'[k] = made[k]
  BY <1>1 DEF IInv, Typed
<1>3. \A k \in Served : \A n \in 1..made[k] : n \in 1..made'[k]
  BY <1>2
<1>4. \A n \in 1..made[m] : n # made[m] + 1
  BY <1>2
<1>5. \A u \in Threads : u # t => call'[u] = call[u]
  BY <1>1 DEF IInv, Typed
<1>6. /\ call'[t].at = "insert" /\ call'[t].by = m
      /\ call'[t].n = made[m] + 1 /\ made[m] + 1 \in 1..made'[m]
  BY <1>1, <1>2 DEF IInv, Typed
<1>7. \A u \in Threads : u # t /\ call'[u].at = "insert" =>
        /\ call[u].at = "insert" /\ call[u] = call'[u]
        /\ call[u].by \in Served /\ call[u].n \in 1..made[call[u].by]
  BY <1>5, CallFields DEF IInv, Distinct
<1>8. \A u \in Threads :
        call'[u].at = "insert" => call'[u].n \in 1..made'[call'[u].by]
  BY <1>3, <1>6, <1>7
<1>9. ASSUME NEW u \in Threads, NEW v \in Threads,
             call'[u].at = "insert", call'[v].at = "insert",
             call'[u].by = call'[v].by, call'[u].n = call'[v].n
      PROVE  u = v
  BY <1>4, <1>6, <1>7, <1>9 DEF Distinct
<1>10. ASSUME NEW a \in Addresses, NEW k \in Served, born[a].by = k
       PROVE  /\ born[a].n \in 1..made'[k]
              /\ \A u \in Threads :
                   call'[u].at = "insert" /\ call'[u].by = k =>
                     call'[u].n # born[a].n
  <2>1. born[a].n \in 1..made[k]
    BY <1>10 DEF Distinct
  <2>2. ASSUME NEW u \in Threads, call'[u].at = "insert", call'[u].by = k
        PROVE  call'[u].n # born[a].n
    <3>1. CASE u = t
      BY <1>4, <1>6, <2>1, <2>2, <3>1
    <3>2. CASE u # t
      BY <1>7, <1>10, <2>2, <3>2 DEF Distinct
    <3> QED
      BY <3>1, <3>2
  <2> QED
    BY <1>3, <2>1, <2>2
<1> QED
  BY <1>1, <1>8, <1>9, <1>10 DEF Distinct

\* A step that begins no creation and makes no object.
LEMMA DistinctKept ==
    ASSUME Distinct, made' = made,
           \A t \in Threads : call'[t].at = "insert" => call'[t] = call[t],
           \A a \in Addresses : born'[a] = born[a] \/ born'[a] = Dead
    PROVE  Distinct'
<1>1. Dead.by \notin Served
  BY ManagersAssumption DEF Dead
<1>2. \A a \in Addresses, m \in Served : born'[a].by = m => born'[a] = born[a]
  BY <1>1
<1> QED
  BY <1>2 DEF Distinct

\* The number goes from the call to the object.
LEMMA InsertDistinct ==
    ASSUME IInv, Distinct, NEW t \in Threads, NEW a \in Addresses, Insert(t, a)
    PROVE  Distinct'
<1> DEFINE m   == call[t].by
           id  == call[t].id
           n   == call[t].n
           old == table[m][id]
<1>1. /\ m \in Served /\ n \in Nat /\ call[t].at = "insert"
      /\ made' = made /\ n \in 1..made[m]
  BY CallFields DEF Insert, IInv, Distinct
<1>2. CASE /\ table' = [table EXCEPT ![m][id] = a]
           /\ born' = [b \in Addresses |->
                         IF b = a THEN [by |-> m, n |-> n]
                         ELSE IF b = old THEN Dead ELSE born[b]]
           /\ Points(t, a)
  <2> HIDE DEF old, m, n, id
  <2>1. /\ \A u \in Threads : u # t => call'[u] = call[u]
        /\ call'[t].at = "use"
    BY <1>2 DEF IInv, Typed, Points
  <2>2. \A u \in Threads : call'[u].at = "insert" => u # t /\ call'[u] = call[u]
    BY <2>1
  <2>3. \A u \in Threads :
          call'[u].at = "insert" => call'[u].n \in 1..made[call'[u].by]
    BY <2>2 DEF Distinct
  <2>4. \A u, v \in Threads :
          /\ call'[u].at = "insert" /\ call'[v].at = "insert"
          /\ call'[u].by = call'[v].by /\ call'[u].n = call'[v].n
          => u = v
    BY <2>2 DEF Distinct
  <2>5. ASSUME NEW b \in Addresses, NEW k \in Served, born'[b].by = k
        PROVE  /\ born'[b].n \in 1..made[k]
               /\ \A u \in Threads :
                    call'[u].at = "insert" /\ call'[u].by = k =>
                      call'[u].n # born'[b].n
    <3>1. CASE b = a
      <4>1. born'[b] = [by |-> m, n |-> n]
        BY <1>2, <3>1
      <4>2. k = m /\ born'[b].n = n
        BY <2>5, <4>1
      <4>3. \A u \in Threads : call[u].at = "insert" /\ call[u].by = m /\ u # t =>
              call[u].n # n
        BY <1>1 DEF Distinct, m, n
      <4> QED
        BY <1>1, <2>2, <4>2, <4>3
    <3>2. CASE b # a
      <4>1. born'[b] = born[b]
        BY <1>2, <2>5, <3>2, ManagersAssumption DEF Dead
      <4> QED
        BY <2>2, <2>5, <4>1 DEF Distinct
    <3> QED
      BY <3>1, <3>2
  <2> QED
    BY <1>1, <2>3, <2>4, <2>5 DEF Distinct
<1>3. CASE /\ call' = [call EXCEPT ![t] = Idle]
           /\ UNCHANGED <<table, born, kept>>
  <2>1. \A u \in Threads : call'[u].at = "insert" => call'[u] = call[u]
    BY <1>3 DEF IInv, Typed, Idle
  <2> QED
    BY <1>1, <1>3, <2>1, DistinctKept
<1> QED
  BY <1>2, <1>3 DEF Insert

\* Every step, and none, keeps the creations apart.
LEMMA DistinctStep == IInv /\ Distinct /\ [Next]_vars => Distinct'
<1> SUFFICES ASSUME IInv, Distinct, [Next]_vars PROVE Distinct'
  OBVIOUS
<1>1. CASE UNCHANGED vars
  BY <1>1, DistinctKept DEF vars
<1>2. ASSUME NEW t \in Threads, NEW m \in Served, NEW id \in Ids(m),
             Find(t, m, id) \/ Remove(t, m, id)
      PROVE  Distinct'
  <2>1. CASE Find(t, m, id)
    BY <2>1, DistinctKept DEF Find, Points, IInv, Typed
  <2>2. CASE Remove(t, m, id)
    BY <2>2, DistinctKept DEF Remove, IInv, Typed
  <2> QED
    BY <1>2, <2>1, <2>2
<1>3. ASSUME NEW t \in Threads, Return(t) PROVE Distinct'
  BY <1>3, DistinctKept DEF Return, Idle, IInv, Typed
<1> QED
  BY <1>1, <1>2, <1>3, TakeIdDistinct, InsertDistinct DEF Next

\* At first there are no creations.
LEMMA DistinctInit == Init => Distinct
<1>1. Dead.by \notin Served /\ Idle.at # "insert"
  BY ManagersAssumption DEF Dead, Idle
<1> QED
  BY <1>1 DEF Init, Distinct

\* The tables, and the calls that are making an object, as the refinement has
\* them.
Objects == [m \in Served |-> [id \in Ids(m) |-> ObjectAt(m, id)]]
InMaking == [m \in Served |-> Making(m)]

\* All that the refinement needs to know of a state.
MInv == IInv /\ Numbered /\ Distinct

\* What an id has is a creation, and no id that has nothing is.
LEMMA ObjectThere ==
    ASSUME MInv, NEW m \in Served, NEW id \in Ids(m)
    PROVE  ObjectAt(m, id) \in Nat /\ (ObjectAt(m, id) = 0 <=> table[m][id] = Null)
<1>1. CASE table[m][id] = Null
  BY <1>1 DEF ObjectAt
<1>2. CASE table[m][id] # Null
  <2>1. table[m][id] \in Addresses /\ born[table[m][id]].by = m
    BY <1>2 DEF MInv, IInv, Typed, Live
  <2>2. born[table[m][id]].n \in 1..made[m] /\ made[m] \in Nat
    BY <2>1 DEF MInv, IInv, Typed, Distinct
  <2> QED
    BY <1>2, <2>2 DEF ObjectAt
<1> QED
  BY <1>1, <1>2

\* As long as the ids have not come round, the id of a creation has no object.
LEMMA IdIsFree ==
    ASSUME MInv, NEW t \in Threads, call[t].at = "insert",
           made[call[t].by] <= IdCount(call[t].by)
    PROVE  table[call[t].by][call[t].id] = Null
<1> DEFINE m  == call[t].by
           id == call[t].id
           a  == table[m][id]
<1>1. m \in Served /\ id \in Ids(m) /\ made[m] \in Nat /\ IdCount(m) \in Nat
  BY CallFields, IdRange DEF MInv, IInv, Typed
<1>2. SUFFICES ASSUME a # Null PROVE FALSE
  OBVIOUS
<1>3. a \in Addresses /\ born[a].by = m
  BY <1>1, <1>2 DEF MInv, IInv, Typed, Live
<1>4. call[t].n # born[a].n
  BY <1>1, <1>3 DEF MInv, Distinct
<1>5. Given(m, id, call[t].n, made[m]) /\ Given(m, id, born[a].n, made[m])
  BY <1>1, <1>2 DEF MInv, Numbered
<1> DEFINE i == call[t].n
           j == born[a].n
<1>6. made[m] <= IdCount(m) /\ Given(m, id, i, made[m]) /\ Given(m, id, j, made[m])
  BY <1>5
<1>7. i # j
  BY <1>4
<1> HIDE DEF m, id, a, i, j
<1>8. /\ i \in 1..IdCount(m) /\ j \in 1..IdCount(m)
      /\ IdOf(m, i) = IdOf(m, j)
  BY <1>1, <1>6 DEF Given
<1> QED
  BY <1>1, <1>7, <1>8, DifferentIds

\* Whether a manager's ids have come round.
LEMMA RoundIs ==
    ASSUME IInv, NEW m \in Served
    PROVE  Tables!CameRound(m) <=> ~(made[m] <= IdCount(m))
<1>1. made[m] \in Nat /\ IdCount(m) \in Nat
  BY IdRange DEF IInv, Typed
<1> QED
  BY <1>1 DEF Tables!CameRound

\* A creation begins with its number.
LEMMA TakeIdMaps ==
    ASSUME MInv, NEW t \in Threads, NEW m \in Served, TakeId(t, m)
    PROVE  Tables!Begin(m)
<1> DEFINE c == [at |-> "insert", by |-> m, id |-> next[m], n |-> made[m] + 1]
<1>1. /\ made' = [made EXCEPT ![m] = @ + 1] /\ call' = [call EXCEPT ![t] = c]
      /\ call[t] = Idle /\ UNCHANGED <<table, born>>
  BY DEF TakeId
<1>2. Objects' = Objects
  BY <1>1 DEF Objects, ObjectAt
<1>3. \A u \in Threads : u # t => call'[u] = call[u]
  BY <1>1 DEF MInv, IInv, Typed
<1>4. /\ call'[t].at = "insert" /\ call'[t].by = m /\ call'[t].n = made[m] + 1
      /\ call[t].at # "insert"
  BY <1>1 DEF MInv, IInv, Typed, Idle
<1>5. Making(m)' = Making(m) \cup {made[m] + 1}
  BY <1>3, <1>4 DEF Making
<1>6. \A k \in Served : k # m => Making(k)' = Making(k)
  BY <1>3, <1>4 DEF Making
<1>7. InMaking' = [InMaking EXCEPT ![m] = Making(m) \cup {made[m] + 1}]
  BY <1>5, <1>6 DEF InMaking
<1>8. InMaking[m] = Making(m)
  BY DEF InMaking
<1> QED
  BY <1>1, <1>2, <1>7, <1>8 DEF Tables!Begin, InMaking, Objects

\* A creation ends with its call.
LEMMA CallEnds ==
    ASSUME MInv, NEW t \in Threads, call[t].at = "insert", made' = made,
           NEW m, m = call[t].by, NEW n, n = call[t].n,
           \A u \in Threads : u # t => call'[u] = call[u], call'[t].at # "insert"
    PROVE  n \in Making(m) /\ Tables!Ends(m, n)
<1>1. m \in Served /\ n \in Making(m)
  BY CallFields DEF MInv, IInv, Making
<1>2. \A u \in Threads : call[u].at = "insert" /\ call[u].by = m /\ call[u].n = n => u = t
  BY DEF MInv, Distinct
<1>3. Making(m)' = Making(m) \ {n}
  <2>1. ASSUME NEW x \in Making(m)' PROVE x \in Making(m) \ {n}
    BY <1>2 DEF Making
  <2>2. ASSUME NEW x \in Making(m) \ {n} PROVE x \in Making(m)'
    BY DEF Making
  <2> QED
    BY <2>1, <2>2
<1>4. ASSUME NEW k \in Served, k # m PROVE Making(k)' = Making(k)
  BY <1>4 DEF Making
<1>5. InMaking' = [InMaking EXCEPT ![m] = Making(m) \ {n}]
  BY <1>3, <1>4 DEF InMaking
<1>6. InMaking[m] = Making(m)
  BY <1>1 DEF InMaking
<1>7. Tables!Ends(m, n)
  BY <1>1, <1>5, <1>6 DEF Tables!Ends, InMaking
<1> QED
  BY <1>1, <1>7

\* The new object comes under its id, and nothing else changes place; a creation
\* that gives its object up had an id that came round.
LEMMA InsertMaps ==
    ASSUME MInv, NEW t \in Threads, NEW a \in Addresses, Insert(t, a)
    PROVE  Tables!Next
<1> PICK m, id, n, old :
         /\ m = call[t].by /\ id = call[t].id /\ n = call[t].n
         /\ old = table[m][id]
  OBVIOUS
<1>1. /\ m \in Served /\ id \in Ids(m) /\ n \in Nat
      /\ call[t].at = "insert" /\ made' = made /\ born[a] = Dead
  BY CallFields DEF Insert, MInv, IInv
<1>2. old = Null \/ Tables!CameRound(m)
  BY <1>1, IdIsFree, RoundIs DEF MInv
<1>3. InMaking[m] = Making(m)
  BY <1>1 DEF InMaking
<1>4. CASE /\ table' = [table EXCEPT ![m][id] = a]
           /\ born' = [b \in Addresses |->
                         IF b = a THEN [by |-> m, n |-> n]
                         ELSE IF b = old THEN Dead ELSE born[b]]
           /\ Points(t, a)
  <2>1. n \in Making(m) /\ Tables!Ends(m, n)
    <3>1. /\ \A u \in Threads : u # t => call'[u] = call[u]
          /\ call'[t].at # "insert"
      BY <1>4 DEF MInv, IInv, Typed, Points
    <3> QED
      BY <1>1, <3>1, CallEnds
  <2>2. ObjectAt(m, id)' = n
    <3>1. table'[m][id] = a /\ born'[a].n = n
      BY <1>1, <1>4 DEF MInv, IInv, Typed
    <3>2. a # Null
      BY ManagersAssumption
    <3> QED
      BY <3>1, <3>2 DEF ObjectAt
  <2>3. ASSUME NEW k \in Served, NEW i \in Ids(k), ~(k = m /\ i = id)
        PROVE  ObjectAt(k, i)' = ObjectAt(k, i)
    <3>1. table'[k][i] = table[k][i]
      BY <1>1, <1>4, <2>3 DEF MInv, IInv, Typed
    <3>2. CASE table[k][i] = Null
      BY <3>1, <3>2 DEF ObjectAt
    <3>3. CASE table[k][i] # Null
      <4>1. table[k][i] \in Addresses /\ born[table[k][i]].by = k
        BY <3>3 DEF MInv, IInv, Typed, Live
      <4>2. table[k][i] # a
        BY <1>1, <4>1, ManagersAssumption DEF Dead
      <4>3. ASSUME table[k][i] = old PROVE FALSE
        <5>1. born[old].by = m
          BY <1>1, <3>3, <4>3 DEF MInv, IInv, Live
        <5>2. k = m
          BY <4>1, <4>3, <5>1
        <5> QED
          BY <1>1, <2>3, <3>3, <4>3, <5>2 DEF MInv, IInv, Single
      <4>4. born'[table[k][i]] = born[table[k][i]]
        BY <1>4, <4>1, <4>2, <4>3
      <4> QED
        BY <3>1, <4>4 DEF ObjectAt
    <3> QED
      BY <3>2, <3>3
  <2>4. Objects' = [Objects EXCEPT ![m][id] = n]
    BY <1>1, <2>2, <2>3 DEF Objects
  <2>5. Objects[m][id] = 0 \/ Tables!CameRound(m)
    <3>1. Objects[m][id] = ObjectAt(m, id)
      BY <1>1 DEF Objects
    <3> QED
      BY <1>2, <3>1 DEF ObjectAt
  <2>6. Tables!Create(m, id, n)
    BY <2>1, <2>4, <2>5 DEF Tables!Create, Objects
  <2> QED
    BY <1>1, <1>3, <2>1, <2>6 DEF Tables!Next, InMaking
<1>5. CASE /\ old # Null /\ call' = [call EXCEPT ![t] = Idle]
           /\ UNCHANGED <<table, born, kept>>
  <2>1. n \in Making(m) /\ Tables!Ends(m, n)
    <3>1. /\ \A u \in Threads : u # t => call'[u] = call[u]
          /\ call'[t].at # "insert"
      BY <1>5 DEF MInv, IInv, Typed, Idle
    <3> QED
      BY <1>1, <3>1, CallEnds
  <2>2. Objects' = Objects
    BY <1>5 DEF Objects, ObjectAt
  <2>3. Tables!Lose(m, n)
    BY <1>2, <1>5, <2>1, <2>2 DEF Tables!Lose, Objects
  <2> QED
    BY <1>1, <1>3, <2>1, <2>3 DEF Tables!Next, InMaking
<1> QED
  BY <1>4, <1>5 DEF Insert

\* What is removed goes from under its id, and nothing else does.
LEMMA RemoveMaps ==
    ASSUME MInv, NEW t \in Threads, NEW m \in Served, NEW id \in Ids(m),
           Remove(t, m, id)
    PROVE  Tables!Next
<1> DEFINE old == table[m][id]
<1>1. /\ born' = [born EXCEPT ![old] = Dead]
      /\ table' = [table EXCEPT ![m][id] = Null]
      /\ UNCHANGED <<made, call>>
      /\ old # Null
  BY DEF Remove
<1>2. old \in Addresses /\ born[old].by = m
  BY <1>1 DEF MInv, IInv, Typed, Live
<1>3. ObjectAt(m, id)' = 0
  BY <1>1 DEF MInv, IInv, Typed, ObjectAt
<1>4. ASSUME NEW k \in Served, NEW i \in Ids(k), ~(k = m /\ i = id)
      PROVE  ObjectAt(k, i)' = ObjectAt(k, i)
  <2>1. table'[k][i] = table[k][i]
    BY <1>1, <1>4 DEF MInv, IInv, Typed
  <2>2. CASE table[k][i] = Null
    BY <2>1, <2>2 DEF ObjectAt
  <2>3. CASE table[k][i] # Null
    <3>1. table[k][i] \in Addresses /\ born[table[k][i]].by = k
      BY <2>3 DEF MInv, IInv, Typed, Live
    <3>2. table[k][i] # old
      BY <1>1, <1>2, <1>4, <2>3, <3>1 DEF MInv, IInv, Single
    <3>3. born'[table[k][i]] = born[table[k][i]]
      BY <1>1, <3>1, <3>2 DEF MInv, IInv, Typed
    <3> QED
      BY <2>1, <3>3 DEF ObjectAt
  <2> QED
    BY <2>2, <2>3
<1>5. Objects' = [Objects EXCEPT ![m][id] = 0]
  BY <1>3, <1>4 DEF Objects
<1>6. Objects[m][id] # 0
  <2>1. Objects[m][id] = ObjectAt(m, id)
    BY DEF Objects
  <2> QED
    BY <1>1, <2>1, ObjectThere
<1>7. InMaking' = InMaking
  BY <1>1 DEF InMaking, Making
<1>8. Tables!Remove(m, id)
  BY <1>1, <1>5, <1>6, <1>7 DEF Tables!Remove, Objects, InMaking
<1> QED
  BY <1>8 DEF Tables!Next

\* To have a pointer shows in no table.
LEMMA UseStutters ==
    ASSUME MInv, NEW t \in Threads,
           Return(t) \/ \E m \in Served : \E id \in Ids(m) : Find(t, m, id)
    PROVE  UNCHANGED Tables!vars
<1>1. /\ UNCHANGED <<made, table, born>>
      /\ \A u \in Threads : u # t => call'[u] = call[u]
      /\ call[t].at # "insert" /\ call'[t].at # "insert"
  BY DEF Return, Find, Points, Idle, MInv, IInv, Typed
<1>2. Objects' = Objects
  BY <1>1 DEF Objects, ObjectAt
<1>3. \A m \in Served : Making(m)' = Making(m)
  BY <1>1 DEF Making
<1>4. InMaking' = InMaking
  BY <1>3 DEF InMaking
<1> QED
  BY <1>1, <1>2, <1>4 DEF Tables!vars, Objects, InMaking

\* Every step of the managers is one of the tables, or none.
LEMMA TablesStep == MInv /\ [Next]_vars => [Tables!Next]_(Tables!vars)
<1> SUFFICES ASSUME MInv, [Next]_vars
             PROVE  Tables!Next \/ UNCHANGED Tables!vars
  OBVIOUS
<1>1. CASE UNCHANGED vars
  BY <1>1 DEF vars, Tables!vars, Making, ObjectAt
<1>2. ASSUME NEW t \in Threads, NEW m \in Served, TakeId(t, m)
      PROVE  Tables!Next
  BY <1>2, TakeIdMaps DEF Tables!Next
<1> QED
  BY <1>1, <1>2, InsertMaps, RemoveMaps, UseStutters DEF Next

\* At first the tables are empty.
LEMMA TablesInit == Init => Tables!Init
<1> SUFFICES ASSUME Init PROVE Tables!Init
  OBVIOUS
<1>1. \A t \in Threads : call[t].at # "insert"
  BY DEF Init, Idle
<1>2. \A m \in Served : Making(m) = {}
  BY <1>1 DEF Making
<1>3. \A m \in Served : \A id \in Ids(m) : ObjectAt(m, id) = 0
  BY DEF Init, ObjectAt
<1> QED
  BY <1>2, <1>3 DEF Init, Tables!Init

-----------------------------------------------------------------------------

\* No table of the server loses an object, has one twice, or points to one that
\* is gone, however the threads' calls interleave and though ids come round.
THEOREM OwnershipCorrect == Spec => []OwnedOnce
<1>1. IInv => OwnedOnce
  <2> SUFFICES ASSUME IInv PROVE OwnedOnce
    OBVIOUS
  <2>1. ASSUME NEW a \in Addresses, NEW m \in Served, born[a].by = m
        PROVE  \E id \in Ids(m) : \A i \in Ids(m) : table[m][i] = a <=> i = id
    <3>1. PICK id \in Ids(m) : table[m][id] = a
      BY <2>1 DEF IInv, Present
    <3>2. a # Null
      BY ManagersAssumption
    <3> QED
      BY <3>1, <3>2 DEF IInv, Single
  <2> QED
    BY <2>1 DEF IInv, Live, OwnedOnce
<1> QED
  BY <1>1, Invariance, PTL

\* An id that a client kept names the object it was given for, or nothing,
\* until the manager has given every id there is.
THEOREM IdsNameOne == Spec => []IdNamesOne
BY NumberedInvariance, NumberedSuffices, PTL

\* The managers are tables from ids to objects: whatever addresses are used again
\* and however the threads' calls interleave, an object stays under its id until
\* that is removed, and no creation displaces another's object before the ids
\* have come round.
THEOREM ManagersImplementTables == Spec => TablesOfObjects
<1>1. Spec => []MInv
  <2>1. MInv <=> IInv /\ Numbered /\ Distinct
    BY DEF MInv
  <2>2. Spec => []Distinct
    BY DistinctInit, DistinctStep, Invariance, PTL DEF Spec
  <2> QED
    BY <2>1, <2>2, NumberedInvariance, PTL
<1> QED
  BY <1>1, TablesInit, TablesStep, PTL DEF Spec, TablesOfObjects, Tables!Spec

=============================================================================
