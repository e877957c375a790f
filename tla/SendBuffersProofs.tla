-------------------------- MODULE SendBuffersProofs --------------------------
(***************************************************************************)
(* SendBuffers, for any number of threads, objects, blocks and messages:   *)
(* the raw pointer of SendData has one owner, through exceptions and the   *)
(* end of the session, the messages are sent as they were posted, and all  *)
(* of it implements a queue of values.                                     *)
(***************************************************************************)
EXTENDS SendBuffersRefinement, SequenceTheorems, TLAPS

\* Which blocks are written, and that callers' buffers always are.
Written ==
    /\ \A t \in Threads : memory[t] \in Messages
    /\ \A t \in Threads :
         /\ pc[t] \in {"copy", "push"} => data[held[t]] \in Blocks
         /\ pc[t] = "push" => memory[data[held[t]]] \in Messages
    /\ \A i \in 1..Len(queue) : /\ data[queue[i]] \in Blocks
                                /\ memory[data[queue[i]]] \in Messages

\* What every step preserves.
IInv == TypeOK /\ OneOwner /\ Written

-----------------------------------------------------------------------------

\* A queue and what is put behind it.
LEMMA Appended ==
    ASSUME NEW S, NEW s \in Seq(S), NEW e \in S
    PROVE  /\ Append(s, e) \in Seq(S) /\ Len(Append(s, e)) = Len(s) + 1
           /\ \A i \in 1..Len(s) : Append(s, e)[i] = s[i]
           /\ Append(s, e)[Len(s) + 1] = e
OBVIOUS

\* A queue without its front.
LEMMA Shortened ==
    ASSUME NEW S, NEW s \in Seq(S), s # <<>>
    PROVE  /\ Tail(s) \in Seq(S) /\ Len(s) \in Nat \ {0}
           /\ Len(Tail(s)) = Len(s) - 1 /\ Head(s) = s[1]
           /\ \A i \in 1..Len(Tail(s)) : Tail(s)[i] = s[i + 1]
BY HeadTailProperties, EmptySeq

\* At first there are no objects.
LEMMA InitCorrect == Init => IInv
<1> SUFFICES ASSUME Init PROVE IInv
  OBVIOUS
<1> USE BufferAssumption DEF BufferAssumption
<1>1. TypeOK
  BY EmptySeq DEF Init, TypeOK
<1>2. OneOwner
  BY DEF Init, OneOwner, OneHolder
<1>3. Written
  BY DEF Init, Written
<1> QED
  BY <1>1, <1>2, <1>3 DEF IInv

\* A thread in a call has an object of its own, that is not in the queue.
LEMMA InCall ==
    ASSUME IInv, NEW t \in Threads, pc[t] # "idle"
    PROVE  /\ held[t] \in Objects /\ data[held[t]] \in Blocks \cup {Raw}
           /\ \A u \in Threads : held[u] = held[t] => u = t
           /\ \A i \in 1..Len(queue) : queue[i] # held[t]
<1>1. held[t] \in Objects /\ held[t] # Null
  BY DEF IInv, TypeOK
<1>2. data[held[t]] # Null
  BY <1>1 DEF IInv, OneOwner, OneHolder
<1> QED
  BY <1>1, <1>2 DEF IInv, TypeOK, OneOwner, OneHolder

\* The caller fills its buffer, which is no block.
LEMMA FillCorrect ==
    ASSUME IInv, NEW t \in Threads, NEW m \in Messages, Fill(t, m)
    PROVE  IInv'
<1> USE BufferAssumption DEF BufferAssumption
<1>1. /\ UNCHANGED <<pc, held, data, queue, open, accepted, sent>>
      /\ memory' = [memory EXCEPT ![t] = m]
  BY DEF Fill
<1>2. memory \in [Blocks \cup Threads -> Messages \cup {Raw, Free}]
  BY DEF IInv, TypeOK
<1>3. \A b \in Blocks : memory'[b] = memory[b]
  BY <1>1, <1>2
<1>4. TypeOK'
  BY <1>1, <1>2 DEF IInv, TypeOK
<1>5. OneOwner'
  BY <1>1, <1>3 DEF IInv, OneOwner, OneHolder
<1>6. Written'
  <2>1. \A u \in Threads : memory'[u] \in Messages
    BY <1>1, <1>2 DEF IInv, Written
  <2>2. \A u \in Threads :
          /\ pc[u] \in {"copy", "push"} => data[held[u]] \in Blocks
          /\ pc[u] = "push" => memory'[data[held[u]]] \in Messages
    BY <1>3 DEF IInv, Written
  <2>3. \A i \in 1..Len(queue) : /\ data[queue[i]] \in Blocks
                                 /\ memory'[data[queue[i]]] \in Messages
    BY <1>3 DEF IInv, Written
  <2> QED
    BY <1>1, <2>1, <2>2, <2>3 DEF Written
<1> QED
  BY <1>4, <1>5, <1>6 DEF IInv

\* A new object is the call's alone.
LEMMA MakeUniqueCorrect ==
    ASSUME IInv, NEW t \in Threads, NEW o \in Objects, MakeUnique(t, o)
    PROVE  IInv'
<1> USE BufferAssumption DEF BufferAssumption
<1>1. /\ UNCHANGED <<memory, queue, open, accepted, sent>>
      /\ pc[t] = "idle" /\ pc' = [pc EXCEPT ![t] = "new"]
      /\ data[o] = Null /\ data' = [data EXCEPT ![o] = Raw]
      /\ held' = [held EXCEPT ![t] = o]
  BY DEF MakeUnique, Goes
<1>2. /\ \A u \in Threads : held[u] # o
      /\ \A i \in 1..Len(queue) : queue[i] # o
  BY <1>1 DEF IInv, OneOwner, OneHolder
<1>3. \A i \in 1..Len(queue) : queue[i] \in Objects
  BY DEF IInv, TypeOK
<1>4. TypeOK'
  BY <1>1, <1>2 DEF IInv, TypeOK
<1>5. OneHolder'
  <2>1. held \in [Threads -> Objects \cup {Null}] /\ data \in [Objects -> Blocks \cup {Null, Raw}]
    BY DEF IInv, TypeOK
  <2>2. \A p \in Objects :
          data'[p] # Null <=> \/ \E u \in Threads : held'[u] = p
                              \/ \E i \in 1..Len(queue) : queue[i] = p
    <3>1. ASSUME NEW p \in Objects, p # o
          PROVE  (\E u \in Threads : held'[u] = p) <=> (\E u \in Threads : held[u] = p)
      BY <1>1, <2>1, <3>1 DEF IInv, TypeOK
    <3>2. \A p \in Objects : p # o => data'[p] = data[p]
      BY <1>1, <2>1
    <3>3. data'[o] # Null /\ held'[t] = o
      BY <1>1, <2>1
    <3> QED
      BY <3>1, <3>2, <3>3 DEF IInv, OneOwner, OneHolder
  <2>3. \A u, v \in Threads : held'[u] = held'[v] /\ held'[u] # Null => u = v
    BY <1>1, <1>2, <2>1 DEF IInv, OneOwner, OneHolder
  <2>4. \A u \in Threads, i \in 1..Len(queue) : held'[u] # queue[i]
    BY <1>1, <1>2, <2>1 DEF IInv, OneOwner, OneHolder
  <2> QED
    BY <1>1, <2>2, <2>3, <2>4 DEF IInv, OneOwner, OneHolder
<1>6. OneOwner'
  BY <1>1, <1>5 DEF IInv, TypeOK, OneOwner
<1>7. Written'
  BY <1>1, <1>2, <1>3 DEF IInv, TypeOK, Written
<1> QED
  BY <1>4, <1>6, <1>7 DEF IInv

\* The new block was no object's.
LEMMA NewBlockCorrect ==
    ASSUME IInv, NEW t \in Threads, NewBlock(t)
    PROVE  IInv'
<1> USE BufferAssumption DEF BufferAssumption
<1>1. PICK b \in Blocks : /\ memory[b] = Free
                          /\ data' = [data EXCEPT ![held[t]] = b]
                          /\ memory' = [memory EXCEPT ![b] = Raw]
  BY DEF NewBlock
<1>2. /\ UNCHANGED <<held, queue, open, accepted, sent>>
      /\ pc[t] = "new" /\ pc' = [pc EXCEPT ![t] = "copy"]
  BY DEF NewBlock, Goes
<1>3. /\ held[t] \in Objects /\ data[held[t]] = Raw
      /\ \A u \in Threads : held[u] = held[t] => u = t
      /\ \A i \in 1..Len(queue) : queue[i] # held[t]
  BY <1>2, InCall DEF IInv, TypeOK
<1>4. /\ data \in [Objects -> Blocks \cup {Null, Raw}]
      /\ memory \in [Blocks \cup Threads -> Messages \cup {Raw, Free}]
      /\ \A i \in 1..Len(queue) : queue[i] \in Objects
  BY DEF IInv, TypeOK
<1>5. \A p \in Objects : data[p] # b
  BY <1>1 DEF IInv, OneOwner
<1>6. TypeOK'
  BY <1>1, <1>2, <1>3, <1>4 DEF IInv, TypeOK
<1>7. OneHolder'
  <2>1. \A p \in Objects : data'[p] # Null <=> data[p] # Null
    BY <1>1, <1>3, <1>4
  <2> QED
    BY <1>2, <2>1 DEF IInv, OneOwner, OneHolder
<1>8. OneOwner'
  <2>1. \A o, p \in Objects : data'[o] = data'[p] /\ data'[o] \in Blocks => o = p
    BY <1>1, <1>4, <1>5 DEF IInv, OneOwner
  <2>2. ASSUME NEW c \in Blocks
        PROVE  memory'[c] # Free <=> \E o \in Objects : data'[o] = c
    <3>1. CASE c = b
      BY <1>1, <1>3, <1>4, <3>1
    <3>2. CASE c # b
      BY <1>1, <1>3, <1>4, <2>2, <3>2 DEF IInv, OneOwner
    <3> QED
      BY <3>1, <3>2
  <2> QED
    BY <1>7, <2>1, <2>2 DEF OneOwner
<1>9. Written'
  BY <1>1, <1>2, <1>3, <1>4, <1>5 DEF IInv, TypeOK, Written
<1> QED
  BY <1>6, <1>8, <1>9 DEF IInv

\* An object without a block goes without one.
LEMMA NewBlockThrowsCorrect ==
    ASSUME IInv, NEW t \in Threads, NewBlockThrows(t)
    PROVE  IInv'
<1> USE BufferAssumption DEF BufferAssumption
<1>1. /\ UNCHANGED <<memory, queue, open, accepted, sent>>
      /\ pc[t] = "new" /\ pc' = [pc EXCEPT ![t] = "idle"]
      /\ data' = [data EXCEPT ![held[t]] = Null]
      /\ held' = [held EXCEPT ![t] = Null]
  BY DEF NewBlockThrows, Goes
<1>2. /\ held[t] \in Objects /\ data[held[t]] = Raw
      /\ \A u \in Threads : held[u] = held[t] => u = t
      /\ \A i \in 1..Len(queue) : queue[i] # held[t]
  BY <1>1, InCall DEF IInv, TypeOK
<1>3. /\ held \in [Threads -> Objects \cup {Null}]
      /\ data \in [Objects -> Blocks \cup {Null, Raw}]
      /\ \A i \in 1..Len(queue) : queue[i] \in Objects
  BY DEF IInv, TypeOK
<1>4. TypeOK'
  BY <1>1, <1>2, <1>3 DEF IInv, TypeOK
<1>5. OneHolder'
  <2>1. ASSUME NEW p \in Objects
        PROVE  data'[p] # Null <=> \/ \E u \in Threads : held'[u] = p
                                   \/ \E i \in 1..Len(queue) : queue[i] = p
    <3>1. CASE p = held[t]
      BY <1>1, <1>2, <1>3, <3>1
    <3>2. CASE p # held[t]
      <4>1. data'[p] = data[p]
        BY <1>1, <1>3, <3>2
      <4>2. (\E u \in Threads : held'[u] = p) <=> (\E u \in Threads : held[u] = p)
        BY <1>1, <1>2, <1>3, <3>2
      <4> QED
        BY <4>1, <4>2 DEF IInv, OneOwner, OneHolder
    <3> QED
      BY <3>1, <3>2
  <2>2. \A u, v \in Threads : held'[u] = held'[v] /\ held'[u] # Null => u = v
    BY <1>1, <1>3 DEF IInv, OneOwner, OneHolder
  <2>3. \A u \in Threads, i \in 1..Len(queue) : held'[u] # queue[i]
    BY <1>1, <1>3 DEF IInv, OneOwner, OneHolder
  <2> QED
    BY <1>1, <2>1, <2>2, <2>3 DEF IInv, OneOwner, OneHolder
<1>6. OneOwner'
  <2>1. \A b \in Blocks : (\E o \in Objects : data'[o] = b)
                             <=> (\E o \in Objects : data[o] = b)
    BY <1>1, <1>2, <1>3
  <2>2. \A o, p \in Objects : data'[o] = data'[p] /\ data'[o] \in Blocks => o = p
    BY <1>1, <1>2, <1>3 DEF IInv, OneOwner
  <2> QED
    BY <1>1, <1>5, <2>1, <2>2 DEF IInv, OneOwner
<1>7. Written'
  BY <1>1, <1>2, <1>3 DEF IInv, TypeOK, Written
<1> QED
  BY <1>4, <1>6, <1>7 DEF IInv

\* The block of the call's object is written, and no other.
LEMMA CopyInCorrect ==
    ASSUME IInv, NEW t \in Threads, CopyIn(t)
    PROVE  IInv'
<1> USE BufferAssumption DEF BufferAssumption
<1>1. /\ UNCHANGED <<held, data, queue, open, accepted, sent>>
      /\ pc[t] = "copy" /\ pc' = [pc EXCEPT ![t] = "push"]
      /\ memory' = [memory EXCEPT ![data[held[t]]] = memory[t]]
  BY DEF CopyIn, Goes
<1>2. /\ held[t] \in Objects /\ data[held[t]] \in Blocks
      /\ memory[t] \in Messages
  BY <1>1, InCall DEF IInv, Written
<1>3. memory \in [Blocks \cup Threads -> Messages \cup {Raw, Free}]
  BY DEF IInv, TypeOK
<1>4. memory'[data[held[t]]] = memory[t] /\ memory[t] # Free
  BY <1>1, <1>2, <1>3
<1>5. \A a \in Blocks \cup Threads : a # data[held[t]] => memory'[a] = memory[a]
  BY <1>1, <1>2, <1>3
<1>6. TypeOK'
  BY <1>1, <1>2, <1>3 DEF IInv, TypeOK
<1>7. OneOwner'
  BY <1>1, <1>2, <1>4, <1>5 DEF IInv, OneOwner, OneHolder
<1>8. Written'
  <2>1. \A u \in Threads : memory'[u] \in Messages
    BY <1>2, <1>5 DEF IInv, Written
  <2>2. \A b \in Blocks : memory[b] \in Messages => memory'[b] \in Messages
    BY <1>2, <1>4, <1>5
  <2>3. pc \in [Threads -> {"idle", "new", "copy", "push"}]
    BY DEF IInv, TypeOK
  <2>4. \A u \in Threads :
          /\ pc'[u] \in {"copy", "push"} => data[held[u]] \in Blocks
          /\ pc'[u] = "push" => memory'[data[held[u]]] \in Messages
    BY <1>1, <1>2, <1>4, <2>2, <2>3 DEF IInv, Written
  <2> QED
    BY <1>1, <2>1, <2>2, <2>4 DEF IInv, Written
<1> QED
  BY <1>6, <1>7, <1>8 DEF IInv

\* The object goes from the call to the end of the queue.
LEMMA PushCorrect ==
    ASSUME IInv, NEW t \in Threads, Push(t)
    PROVE  IInv'
<1> USE BufferAssumption DEF BufferAssumption
<1>1. /\ UNCHANGED <<data, memory, open, sent>>
      /\ pc[t] = "push" /\ pc' = [pc EXCEPT ![t] = "idle"]
      /\ queue' = Append(queue, held[t])
      /\ held' = [held EXCEPT ![t] = Null]
      /\ accepted' = Append(accepted, memory[t])
  BY DEF Push, Goes, heap
<1>2. /\ held[t] \in Objects
      /\ \A u \in Threads : held[u] = held[t] => u = t
      /\ \A i \in 1..Len(queue) : queue[i] # held[t]
  BY <1>1, InCall
<1>3. /\ held \in [Threads -> Objects \cup {Null}] /\ queue \in Seq(Objects)
      /\ Len(queue) \in Nat
  BY DEF IInv, TypeOK
<1>4. /\ queue' \in Seq(Objects) /\ Len(queue') = Len(queue) + 1
      /\ \A i \in 1..Len(queue) : queue'[i] = queue[i]
      /\ queue'[Len(queue) + 1] = held[t]
  BY <1>1, <1>2, <1>3, Appended
<1>5. \A i \in 1..Len(queue') : i \in 1..Len(queue) \/ i = Len(queue) + 1
  BY <1>3, <1>4
<1>6. accepted' \in Seq(Messages)
  BY <1>1, Appended DEF IInv, TypeOK, Written
<1>7. TypeOK'
  BY <1>1, <1>2, <1>3, <1>4, <1>6 DEF IInv, TypeOK
<1>8. OneHolder'
  <2>1. ASSUME NEW p \in Objects
        PROVE  data[p] # Null <=> \/ \E u \in Threads : held'[u] = p
                                  \/ \E i \in 1..Len(queue') : queue'[i] = p
    <3>1. data[p] # Null <=> \/ \E u \in Threads : held[u] = p
                             \/ \E i \in 1..Len(queue) : queue[i] = p
      BY DEF IInv, OneOwner, OneHolder
    <3>2. (\E i \in 1..Len(queue') : queue'[i] = p)
             <=> (p = held[t] \/ \E i \in 1..Len(queue) : queue[i] = p)
      <4>1. Len(queue) + 1 \in 1..Len(queue')
            /\ \A i \in 1..Len(queue) : i \in 1..Len(queue')
        BY <1>3, <1>4
      <4> QED
        BY <1>4, <1>5, <4>1
    <3>3. p # held[t] => ((\E u \in Threads : held'[u] = p)
                             <=> (\E u \in Threads : held[u] = p))
      BY <1>1, <1>2, <1>3
    <3> QED
      BY <3>1, <3>2, <3>3
  <2>2. \A u, v \in Threads : held'[u] = held'[v] /\ held'[u] # Null => u = v
    BY <1>1, <1>3 DEF IInv, OneOwner, OneHolder
  <2>3. \A i, j \in 1..Len(queue') : queue'[i] = queue'[j] => i = j
    BY <1>2, <1>4, <1>5 DEF IInv, OneOwner, OneHolder
  <2>4. \A u \in Threads, i \in 1..Len(queue') : held'[u] # queue'[i]
    BY <1>1, <1>2, <1>3, <1>4, <1>5 DEF IInv, OneOwner, OneHolder
  <2> QED
    BY <1>1, <2>1, <2>2, <2>3, <2>4 DEF OneHolder
<1>9. OneOwner'
  BY <1>1, <1>8 DEF IInv, OneOwner
<1>10. Written'
  <2>1. \A u \in Threads :
          /\ pc'[u] \in {"copy", "push"} => data[held'[u]] \in Blocks
          /\ pc'[u] = "push" => memory[data[held'[u]]] \in Messages
    BY <1>1, <1>3 DEF IInv, TypeOK, Written
  <2>2. \A i \in 1..Len(queue') : /\ data[queue'[i]] \in Blocks
                                  /\ memory[data[queue'[i]]] \in Messages
    BY <1>1, <1>4, <1>5 DEF IInv, Written
  <2> QED
    BY <1>1, <2>1, <2>2 DEF IInv, Written
<1> QED
  BY <1>7, <1>9, <1>10 DEF IInv

\* The destructor frees the blocks of the objects that go, and no others.
LEMMA Destructed ==
    ASSUME IInv, NEW gone \in SUBSET Objects, Destruct(gone)
    PROVE  /\ data' \in [Objects -> Blocks \cup {Null, Raw}]
           /\ memory' \in [Blocks \cup Threads -> Messages \cup {Raw, Free}]
           /\ \A p \in gone : data'[p] = Null
           /\ \A p \in Objects \ gone :
                data'[p] = data[p]
                /\ (data[p] \in Blocks => memory'[data[p]] = memory[data[p]])
           /\ \A t \in Threads : memory'[t] = memory[t]
           /\ \A o, p \in Objects :
                data'[o] = data'[p] /\ data'[o] \in Blocks => o = p
           /\ \A b \in Blocks :
                memory'[b] # Free <=> \E o \in Objects : data'[o] = b
<1> USE BufferAssumption DEF BufferAssumption
<1>1. /\ data \in [Objects -> Blocks \cup {Null, Raw}]
      /\ memory \in [Blocks \cup Threads -> Messages \cup {Raw, Free}]
  BY DEF IInv, TypeOK
<1>2. /\ memory' = [a \in Blocks \cup Threads |->
                       IF \E o \in gone : data[o] = a THEN Free ELSE memory[a]]
      /\ data' = [o \in Objects |-> IF o \in gone THEN Null ELSE data[o]]
  BY DEF Destruct
<1>3. /\ data' \in [Objects -> Blocks \cup {Null, Raw}]
      /\ memory' \in [Blocks \cup Threads -> Messages \cup {Raw, Free}]
  BY <1>1, <1>2
<1>4. /\ \A p \in gone : data'[p] = Null
      /\ \A p \in Objects \ gone : data'[p] = data[p]
  BY <1>2
<1>5. \A o, p \in Objects : data[o] = data[p] /\ data[o] \in Blocks => o = p
  BY DEF IInv, OneOwner
<1>6. \A p \in Objects \ gone :
        data[p] \in Blocks => memory'[data[p]] = memory[data[p]]
  BY <1>2, <1>5
<1>7. \A t \in Threads : memory'[t] = memory[t]
  BY <1>1, <1>2
<1>8. \A o, p \in Objects : data'[o] = data'[p] /\ data'[o] \in Blocks => o = p
  BY <1>4, <1>5
<1>9. ASSUME NEW b \in Blocks
      PROVE  memory'[b] # Free <=> \E o \in Objects : data'[o] = b
  <2>1. memory[b] # Free <=> \E o \in Objects : data[o] = b
    BY DEF IInv, OneOwner
  <2>2. CASE \E o \in gone : data[o] = b
    BY <1>2, <1>4, <1>5, <2>2
  <2>3. CASE ~ \E o \in gone : data[o] = b
    BY <1>2, <1>4, <2>1, <2>3
  <2> QED
    BY <2>2, <2>3
<1> QED
  BY <1>3, <1>4, <1>6, <1>7, <1>8, <1>9

\* An object that could not enter the queue goes with its block.
LEMMA PushThrowsCorrect ==
    ASSUME IInv, NEW t \in Threads, PushThrows(t)
    PROVE  IInv'
<1> USE BufferAssumption DEF BufferAssumption
<1> DEFINE gone == {held[t]}
<1>1. /\ UNCHANGED <<queue, open, accepted, sent>>
      /\ pc[t] = "push" /\ pc' = [pc EXCEPT ![t] = "idle"]
      /\ Destruct(gone)
      /\ held' = [held EXCEPT ![t] = Null]
  BY DEF PushThrows, Goes
<1>2. /\ held[t] \in Objects
      /\ \A u \in Threads : held[u] = held[t] => u = t
      /\ \A i \in 1..Len(queue) : queue[i] # held[t]
  BY <1>1, InCall
<1>3. /\ held \in [Threads -> Objects \cup {Null}]
      /\ \A i \in 1..Len(queue) : queue[i] \in Objects
  BY DEF IInv, TypeOK
<1>4. /\ data' \in [Objects -> Blocks \cup {Null, Raw}]
      /\ memory' \in [Blocks \cup Threads -> Messages \cup {Raw, Free}]
      /\ data'[held[t]] = Null
      /\ \A p \in Objects : p # held[t] =>
            data'[p] = data[p]
            /\ (data[p] \in Blocks => memory'[data[p]] = memory[data[p]])
      /\ \A u \in Threads : memory'[u] = memory[u]
      /\ \A o, p \in Objects : data'[o] = data'[p] /\ data'[o] \in Blocks => o = p
      /\ \A b \in Blocks : memory'[b] # Free <=> \E o \in Objects : data'[o] = b
  <2>1. gone \in SUBSET Objects
    BY <1>2
  <2> HIDE DEF gone
  <2>2. /\ data' \in [Objects -> Blocks \cup {Null, Raw}]
        /\ memory' \in [Blocks \cup Threads -> Messages \cup {Raw, Free}]
        /\ \A p \in gone : data'[p] = Null
        /\ \A p \in Objects \ gone :
             data'[p] = data[p]
             /\ (data[p] \in Blocks => memory'[data[p]] = memory[data[p]])
        /\ \A u \in Threads : memory'[u] = memory[u]
        /\ \A o, p \in Objects : data'[o] = data'[p] /\ data'[o] \in Blocks => o = p
        /\ \A b \in Blocks : memory'[b] # Free <=> \E o \in Objects : data'[o] = b
    BY <1>1, <2>1, Destructed
  <2> QED
    BY <1>2, <2>2 DEF gone
<1>5. TypeOK'
  BY <1>1, <1>2, <1>3, <1>4 DEF IInv, TypeOK
<1>6. OneHolder'
  <2>1. ASSUME NEW p \in Objects
        PROVE  data'[p] # Null <=> \/ \E u \in Threads : held'[u] = p
                                   \/ \E i \in 1..Len(queue) : queue[i] = p
    <3>1. CASE p = held[t]
      BY <1>1, <1>2, <1>3, <1>4, <3>1
    <3>2. CASE p # held[t]
      <4>1. data'[p] = data[p]
        BY <1>4, <3>2
      <4>2. (\E u \in Threads : held'[u] = p) <=> (\E u \in Threads : held[u] = p)
        BY <1>1, <1>2, <1>3, <3>2
      <4> QED
        BY <4>1, <4>2 DEF IInv, OneOwner, OneHolder
    <3> QED
      BY <3>1, <3>2
  <2>2. \A u, v \in Threads : held'[u] = held'[v] /\ held'[u] # Null => u = v
    BY <1>1, <1>3 DEF IInv, OneOwner, OneHolder
  <2>3. \A u \in Threads, i \in 1..Len(queue) : held'[u] # queue[i]
    BY <1>1, <1>3 DEF IInv, OneOwner, OneHolder
  <2> QED
    BY <1>1, <2>1, <2>2, <2>3 DEF IInv, OneOwner, OneHolder
<1>7. OneOwner'
  BY <1>4, <1>6 DEF OneOwner
<1>8. Written'
  <2>1. \A u \in Threads :
          /\ pc'[u] \in {"copy", "push"} => data'[held'[u]] \in Blocks
          /\ pc'[u] = "push" => memory'[data'[held'[u]]] \in Messages
    BY <1>1, <1>2, <1>3, <1>4 DEF IInv, TypeOK, Written
  <2>2. \A i \in 1..Len(queue) : /\ data'[queue[i]] \in Blocks
                                 /\ memory'[data'[queue[i]]] \in Messages
    BY <1>2, <1>3, <1>4 DEF IInv, Written
  <2> QED
    BY <1>1, <1>4, <2>1, <2>2 DEF IInv, Written
<1> QED
  BY <1>5, <1>7, <1>8 DEF IInv

\* The front of the queue goes with its block once the socket has it.
LEMMA SendCompletesCorrect ==
    ASSUME IInv, SendCompletes
    PROVE  IInv'
<1> USE BufferAssumption DEF BufferAssumption
<1>1. /\ UNCHANGED <<pc, held, open, accepted>>
      /\ queue # <<>> /\ queue' = Tail(queue)
      /\ Destruct({Head(queue)})
      /\ sent' = Append(sent, memory[data[Head(queue)]])
  BY DEF SendCompletes
<1>2. /\ queue \in Seq(Objects) /\ held \in [Threads -> Objects \cup {Null}]
  BY DEF IInv, TypeOK
<1>3. /\ queue' \in Seq(Objects) /\ Len(queue) \in Nat \ {0}
      /\ Len(queue') = Len(queue) - 1 /\ Head(queue) = queue[1]
      /\ \A i \in 1..Len(queue') : queue'[i] = queue[i + 1]
  BY <1>1, <1>2, Shortened
<1>4. /\ 1 \in 1..Len(queue) /\ queue[1] \in Objects
      /\ \A i \in 1..Len(queue) : queue[i] \in Objects
      /\ \A i \in 1..Len(queue') : i + 1 \in 1..Len(queue)
      /\ \A i \in 1..Len(queue) : i # 1 => /\ i - 1 \in 1..Len(queue')
                                           /\ queue'[i - 1] = queue[i]
  BY <1>2, <1>3
<1>5. \A i, j \in 1..Len(queue) : queue[i] = queue[j] => i = j
  BY DEF IInv, OneOwner, OneHolder
<1>6. \A i \in 1..Len(queue') : queue'[i] # queue[1]
  BY <1>3, <1>4, <1>5
<1>7. \A u \in Threads : held[u] # queue[1]
  BY <1>4 DEF IInv, OneOwner, OneHolder
<1>8. /\ data' \in [Objects -> Blocks \cup {Null, Raw}]
      /\ memory' \in [Blocks \cup Threads -> Messages \cup {Raw, Free}]
      /\ data'[queue[1]] = Null
      /\ \A p \in Objects : p # queue[1] =>
            data'[p] = data[p]
            /\ (data[p] \in Blocks => memory'[data[p]] = memory[data[p]])
      /\ \A u \in Threads : memory'[u] = memory[u]
      /\ \A o, p \in Objects : data'[o] = data'[p] /\ data'[o] \in Blocks => o = p
      /\ \A b \in Blocks : memory'[b] # Free <=> \E o \in Objects : data'[o] = b
  <2>1. /\ {queue[1]} \in SUBSET Objects /\ Destruct({queue[1]})
    BY <1>1, <1>3, <1>4
  <2> DEFINE gone == {queue[1]}
  <2>2. gone \in SUBSET Objects /\ Destruct(gone)
    BY <2>1
  <2> HIDE DEF gone
  <2>3. /\ data' \in [Objects -> Blocks \cup {Null, Raw}]
        /\ memory' \in [Blocks \cup Threads -> Messages \cup {Raw, Free}]
        /\ \A p \in gone : data'[p] = Null
        /\ \A p \in Objects \ gone :
             data'[p] = data[p]
             /\ (data[p] \in Blocks => memory'[data[p]] = memory[data[p]])
        /\ \A u \in Threads : memory'[u] = memory[u]
        /\ \A o, p \in Objects : data'[o] = data'[p] /\ data'[o] \in Blocks => o = p
        /\ \A b \in Blocks : memory'[b] # Free <=> \E o \in Objects : data'[o] = b
    BY <2>2, Destructed
  <2> QED
    BY <1>4, <2>3 DEF gone
<1>9. TypeOK'
  <2>1. sent' \in Seq(Messages)
    BY <1>1, <1>3, <1>4, Appended DEF IInv, TypeOK, Written
  <2>2. \A u \in Threads : pc[u] # "idle" => data'[held[u]] = data[held[u]]
    BY <1>7, <1>8, InCall
  <2> QED
    BY <1>1, <1>3, <1>8, <2>1, <2>2 DEF IInv, TypeOK
<1>10. OneHolder'
  <2>1. ASSUME NEW p \in Objects
        PROVE  data'[p] # Null <=> \/ \E u \in Threads : held[u] = p
                                   \/ \E i \in 1..Len(queue') : queue'[i] = p
    <3>1. CASE p = queue[1]
      BY <1>6, <1>7, <1>8, <3>1
    <3>2. CASE p # queue[1]
      <4>1. data'[p] = data[p]
        BY <1>8, <3>2
      <4>2. (\E i \in 1..Len(queue') : queue'[i] = p)
              <=> (\E i \in 1..Len(queue) : queue[i] = p)
        BY <1>3, <1>4, <3>2
      <4> QED
        BY <4>1, <4>2 DEF IInv, OneOwner, OneHolder
    <3> QED
      BY <3>1, <3>2
  <2>2. \A i, j \in 1..Len(queue') : queue'[i] = queue'[j] => i = j
    <3>1. ASSUME NEW i \in 1..Len(queue'), NEW j \in 1..Len(queue'),
                 queue'[i] = queue'[j]
          PROVE  i = j
      <4>1. queue[i + 1] = queue[j + 1]
        BY <1>3, <3>1
      <4>2. i + 1 = j + 1
        BY <1>4, <1>5, <4>1
      <4> QED
        BY <1>3, <4>2
    <3> QED
      BY <3>1
  <2>3. \A u \in Threads, i \in 1..Len(queue') : held[u] # queue'[i]
    BY <1>3, <1>4 DEF IInv, OneOwner, OneHolder
  <2> QED
    BY <1>1, <2>1, <2>2, <2>3 DEF IInv, OneOwner, OneHolder
<1>11. OneOwner'
  BY <1>8, <1>10 DEF OneOwner
<1>12. Written'
  <2>1. \A u \in Threads :
          /\ pc[u] \in {"copy", "push"} => data'[held[u]] \in Blocks
          /\ pc[u] = "push" => memory'[data'[held[u]]] \in Messages
    <3>1. \A u \in Threads : pc[u] # "idle" => held[u] \in Objects
      BY InCall
    <3> QED
      BY <1>7, <1>8, <3>1 DEF IInv, Written
  <2>2. \A i \in 1..Len(queue') : /\ data'[queue'[i]] \in Blocks
                                  /\ memory'[data'[queue'[i]]] \in Messages
    <3>1. ASSUME NEW i \in 1..Len(queue')
          PROVE  /\ data'[queue'[i]] \in Blocks
                 /\ memory'[data'[queue'[i]]] \in Messages
      <4>1. /\ queue'[i] = queue[i + 1] /\ i + 1 \in 1..Len(queue)
            /\ queue[i + 1] \in Objects /\ queue[i + 1] # queue[1]
        BY <1>3, <1>4, <1>6
      <4>2. /\ data[queue[i + 1]] \in Blocks
            /\ memory[data[queue[i + 1]]] \in Messages
        BY <4>1 DEF IInv, Written
      <4> QED
        BY <1>8, <4>1, <4>2
    <3> QED
      BY <3>1
  <2> QED
    BY <1>1, <1>8, <2>1, <2>2 DEF IInv, Written
<1> QED
  BY <1>9, <1>11, <1>12 DEF IInv

\* The end of the session leaves no object.
LEMMA CloseCorrect ==
    ASSUME IInv, Close
    PROVE  IInv'
<1> USE BufferAssumption DEF BufferAssumption
<1> DEFINE gone == {queue[i] : i \in 1..Len(queue)}
<1>1. /\ UNCHANGED <<pc, held, accepted, sent>>
      /\ \A t \in Threads : pc[t] = "idle"
      /\ queue' = <<>> /\ open' = FALSE /\ Destruct(gone)
  BY DEF Close
<1>2. gone \in SUBSET Objects
  BY DEF IInv, TypeOK
<1>3. \A t \in Threads : held[t] = Null
  BY <1>1 DEF IInv, TypeOK
<1>4. \A p \in Objects \ gone : data[p] = Null
  BY <1>3 DEF IInv, OneOwner, OneHolder
<1> HIDE DEF gone
<1>5. /\ data' \in [Objects -> Blocks \cup {Null, Raw}]
      /\ memory' \in [Blocks \cup Threads -> Messages \cup {Raw, Free}]
      /\ \A p \in Objects : data'[p] = Null
      /\ \A u \in Threads : memory'[u] = memory[u]
      /\ \A b \in Blocks : memory'[b] # Free <=> \E o \in Objects : data'[o] = b
  BY <1>1, <1>2, <1>4, Destructed
<1>6. queue' \in Seq(Objects) /\ Len(queue') = 0
  BY <1>1, EmptySeq
<1>7. TypeOK'
  BY <1>1, <1>5, <1>6 DEF IInv, TypeOK
<1>8. OneOwner'
  BY <1>1, <1>3, <1>5, <1>6 DEF OneOwner, OneHolder
<1>9. Written'
  BY <1>1, <1>5, <1>6 DEF IInv, Written
<1> QED
  BY <1>7, <1>8, <1>9 DEF IInv

\* Every step of the session and its threads, and none, keeps the invariant.
LEMMA StepCorrect == IInv /\ [Next]_vars => IInv'
<1> SUFFICES ASSUME IInv, [Next]_vars PROVE IInv'
  OBVIOUS
<1>1. CASE UNCHANGED vars
  <2>1. /\ pc' = pc /\ held' = held /\ data' = data /\ memory' = memory
        /\ queue' = queue /\ open' = open
        /\ accepted' = accepted /\ sent' = sent
    BY <1>1 DEF vars, heap
  <2>2. TypeOK'
    BY <2>1 DEF IInv, TypeOK
  <2>3. OneOwner'
    BY <2>1 DEF IInv, OneOwner, OneHolder
  <2>4. Written'
    BY <2>1 DEF IInv, Written
  <2> QED
    BY <2>2, <2>3, <2>4 DEF IInv
<1> QED
  BY <1>1, FillCorrect, MakeUniqueCorrect, NewBlockCorrect,
     NewBlockThrowsCorrect, CopyInCorrect, PushCorrect, PushThrowsCorrect,
     SendCompletesCorrect, CloseCorrect
     DEF Next

\* So it holds always.
LEMMA Invariance == Spec => []IInv
BY InitCorrect, StepCorrect, PTL DEF Spec

-----------------------------------------------------------------------------
(* What the blocks contain.                                                *)

\* A block that was written and not posted yet is as the caller's buffer.
Copied == \A t \in Threads : pc[t] = "push" => memory[data[held[t]]] = memory[t]

\* InOrderUnchanged, message by message.
InOrder ==
    open =>
      /\ Len(accepted) = Len(sent) + Len(queue)
      /\ \A i \in 1..Len(sent) : accepted[i] = sent[i]
      /\ \A i \in 1..Len(queue) :
           accepted[Len(sent) + i] = memory[data[queue[i]]]

\* A step that leaves the queue and what is in it alone.
LEMMA QueueKept ==
    ASSUME InOrder, UNCHANGED <<queue, open, accepted, sent>>,
           \A i \in 1..Len(queue) : memory'[data'[queue[i]]] = memory[data[queue[i]]]
    PROVE  InOrder'
BY DEF InOrder

\* Filling a buffer touches no block, and its thread has none.
LEMMA FillKeeps ==
    ASSUME IInv, Copied, InOrder, NEW t \in Threads, NEW m \in Messages, Fill(t, m)
    PROVE  Copied' /\ InOrder'
<1> USE BufferAssumption DEF BufferAssumption
<1>1. /\ UNCHANGED <<pc, held, data, queue, open, accepted, sent>>
      /\ pc[t] = "idle" /\ memory' = [memory EXCEPT ![t] = m]
  BY DEF Fill
<1>2. \A a \in Blocks \cup Threads : a # t => memory'[a] = memory[a]
  BY <1>1 DEF IInv, TypeOK
<1>3. Copied'
  BY <1>1, <1>2 DEF IInv, Written, Copied
<1>4. \A i \in 1..Len(queue) : memory'[data'[queue[i]]] = memory[data[queue[i]]]
  BY <1>1, <1>2 DEF IInv, Written
<1> QED
  BY <1>1, <1>3, <1>4, QueueKept

\* A new object is not in the queue.
LEMMA MakeUniqueKeeps ==
    ASSUME IInv, Copied, InOrder, NEW t \in Threads, NEW o \in Objects, MakeUnique(t, o)
    PROVE  Copied' /\ InOrder'
<1> USE BufferAssumption DEF BufferAssumption
<1>1. /\ UNCHANGED <<memory, queue, open, accepted, sent>>
      /\ pc[t] = "idle" /\ pc' = [pc EXCEPT ![t] = "new"]
      /\ data[o] = Null /\ data' = [data EXCEPT ![o] = Raw]
      /\ held' = [held EXCEPT ![t] = o]
  BY DEF MakeUnique, Goes
<1>2. \A p \in Objects : p # o => data'[p] = data[p]
  BY <1>1 DEF IInv, TypeOK
<1>3. \A u \in Threads : u # t => held'[u] = held[u] /\ pc'[u] = pc[u]
  BY <1>1 DEF IInv, TypeOK
<1>4. pc'[t] # "push"
  BY <1>1 DEF IInv, TypeOK
<1>5. \A u \in Threads : pc[u] = "push" => held[u] \in Objects /\ held[u] # o
  BY <1>1, InCall DEF IInv, OneOwner, OneHolder
<1>6. Copied'
  BY <1>1, <1>2, <1>3, <1>4, <1>5 DEF Copied
<1>7. \A i \in 1..Len(queue) : queue[i] \in Objects /\ queue[i] # o
  BY <1>1 DEF IInv, TypeOK, Written
<1> QED
  BY <1>1, <1>2, <1>6, <1>7, QueueKept

\* A new block is no object's.
LEMMA NewBlockKeeps ==
    ASSUME IInv, Copied, InOrder, NEW t \in Threads, NewBlock(t)
    PROVE  Copied' /\ InOrder'
<1> USE BufferAssumption DEF BufferAssumption
<1>1. PICK b \in Blocks : /\ memory[b] = Free
                          /\ data' = [data EXCEPT ![held[t]] = b]
                          /\ memory' = [memory EXCEPT ![b] = Raw]
  BY DEF NewBlock
<1>2. /\ UNCHANGED <<held, queue, open, accepted, sent>>
      /\ pc[t] = "new" /\ pc' = [pc EXCEPT ![t] = "copy"]
  BY DEF NewBlock, Goes
<1>3. /\ held[t] \in Objects
      /\ \A u \in Threads : held[u] = held[t] => u = t
      /\ \A i \in 1..Len(queue) : queue[i] # held[t]
  BY <1>2, InCall
<1>4. \A p \in Objects : p # held[t] =>
        data'[p] = data[p]
        /\ (data[p] \in Blocks => memory'[data[p]] = memory[data[p]])
  BY <1>1, <1>3 DEF IInv, TypeOK, OneOwner
<1>5. \A u \in Threads : memory'[u] = memory[u]
  BY <1>1 DEF IInv, TypeOK
<1>6. \A u \in Threads : pc'[u] = "push" => pc[u] = "push" /\ u # t
  BY <1>2 DEF IInv, TypeOK
<1>7. \A u \in Threads : pc[u] = "push" =>
        held[u] \in Objects /\ data[held[u]] \in Blocks
  BY InCall DEF IInv, Written
<1>8. Copied'
  BY <1>2, <1>3, <1>4, <1>5, <1>6, <1>7 DEF Copied
<1>9. \A i \in 1..Len(queue) : queue[i] \in Objects /\ data[queue[i]] \in Blocks
  BY DEF IInv, TypeOK, Written
<1> QED
  BY <1>2, <1>3, <1>4, <1>8, <1>9, QueueKept

\* An object without a block is not in the queue.
LEMMA NewBlockThrowsKeeps ==
    ASSUME IInv, Copied, InOrder, NEW t \in Threads, NewBlockThrows(t)
    PROVE  Copied' /\ InOrder'
<1> USE BufferAssumption DEF BufferAssumption
<1>1. /\ UNCHANGED <<memory, queue, open, accepted, sent>>
      /\ pc[t] = "new" /\ pc' = [pc EXCEPT ![t] = "idle"]
      /\ data' = [data EXCEPT ![held[t]] = Null]
      /\ held' = [held EXCEPT ![t] = Null]
  BY DEF NewBlockThrows, Goes
<1>2. /\ held[t] \in Objects
      /\ \A u \in Threads : held[u] = held[t] => u = t
      /\ \A i \in 1..Len(queue) : queue[i] # held[t]
  BY <1>1, InCall
<1>3. \A p \in Objects : p # held[t] => data'[p] = data[p]
  BY <1>1 DEF IInv, TypeOK
<1>4. \A u \in Threads : pc'[u] = "push" =>
        pc[u] = "push" /\ u # t /\ held'[u] = held[u] /\ held[u] \in Objects
  BY <1>1, InCall DEF IInv, TypeOK
<1>5. Copied'
  BY <1>1, <1>2, <1>3, <1>4 DEF Copied
<1>6. \A i \in 1..Len(queue) : queue[i] \in Objects
  BY DEF IInv, TypeOK
<1> QED
  BY <1>1, <1>2, <1>3, <1>5, <1>6, QueueKept

\* The block becomes as the buffer, and no other block changes.
LEMMA CopyInKeeps ==
    ASSUME IInv, Copied, InOrder, NEW t \in Threads, CopyIn(t)
    PROVE  Copied' /\ InOrder'
<1> USE BufferAssumption DEF BufferAssumption
<1>1. /\ UNCHANGED <<held, data, queue, open, accepted, sent>>
      /\ pc[t] = "copy" /\ pc' = [pc EXCEPT ![t] = "push"]
      /\ memory' = [memory EXCEPT ![data[held[t]]] = memory[t]]
  BY DEF CopyIn, Goes
<1>2. /\ held[t] \in Objects /\ data[held[t]] \in Blocks
      /\ \A u \in Threads : held[u] = held[t] => u = t
      /\ \A i \in 1..Len(queue) : queue[i] # held[t]
  BY <1>1, InCall DEF IInv, Written
<1>3. memory'[data[held[t]]] = memory[t]
  BY <1>1, <1>2 DEF IInv, TypeOK
<1>4. \A p \in Objects : p # held[t] /\ data[p] \in Blocks =>
        memory'[data[p]] = memory[data[p]]
  BY <1>1, <1>2 DEF IInv, TypeOK, OneOwner
<1>5. \A u \in Threads : memory'[u] = memory[u]
  BY <1>1, <1>2 DEF IInv, TypeOK
<1>6. \A u \in Threads : pc'[u] = "push" /\ u # t =>
        pc[u] = "push" /\ held[u] \in Objects /\ data[held[u]] \in Blocks
  BY <1>1, InCall DEF IInv, TypeOK, Written
<1>7. Copied'
  BY <1>1, <1>2, <1>3, <1>4, <1>5, <1>6 DEF Copied
<1>8. \A i \in 1..Len(queue) : queue[i] \in Objects /\ data[queue[i]] \in Blocks
  BY DEF IInv, TypeOK, Written
<1> QED
  BY <1>1, <1>2, <1>4, <1>7, <1>8, QueueKept

\* What enters the queue is the block of the message that was accepted.
LEMMA PushKeeps ==
    ASSUME IInv, Copied, InOrder, NEW t \in Threads, Push(t)
    PROVE  Copied' /\ InOrder'
<1> USE BufferAssumption DEF BufferAssumption
<1>1. /\ UNCHANGED <<data, memory, open, sent>>
      /\ pc[t] = "push" /\ pc' = [pc EXCEPT ![t] = "idle"]
      /\ queue' = Append(queue, held[t])
      /\ held' = [held EXCEPT ![t] = Null]
      /\ accepted' = Append(accepted, memory[t])
  BY DEF Push, Goes, heap
<1>2. held[t] \in Objects /\ memory[t] \in Messages
  BY <1>1, InCall DEF IInv, Written
<1>3. /\ queue \in Seq(Objects) /\ Len(queue) \in Nat
      /\ sent \in Seq(Messages) /\ Len(sent) \in Nat
      /\ accepted \in Seq(Messages) /\ Len(accepted) \in Nat
  BY DEF IInv, TypeOK
<1>4. /\ Len(queue') = Len(queue) + 1
      /\ \A i \in 1..Len(queue) : queue'[i] = queue[i]
      /\ queue'[Len(queue) + 1] = held[t]
  BY <1>1, <1>2, <1>3, Appended
<1>5. /\ Len(accepted') = Len(accepted) + 1
      /\ \A i \in 1..Len(accepted) : accepted'[i] = accepted[i]
      /\ accepted'[Len(accepted) + 1] = memory[t]
  BY <1>1, <1>2, <1>3, Appended
<1>6. Copied'
  BY <1>1 DEF IInv, TypeOK, Copied
<1>7. ASSUME open PROVE InOrder'
  <2>1. /\ Len(accepted) = Len(sent) + Len(queue)
        /\ \A i \in 1..Len(sent) : accepted[i] = sent[i]
        /\ \A i \in 1..Len(queue) :
             accepted[Len(sent) + i] = memory[data[queue[i]]]
    BY <1>7 DEF InOrder
  <2>2. \A i \in 1..Len(sent) : accepted'[i] = sent[i]
    BY <1>3, <1>5, <2>1
  <2>3. ASSUME NEW i \in 1..Len(queue')
        PROVE  accepted'[Len(sent) + i] = memory[data[queue'[i]]]
    <3>1. CASE i \in 1..Len(queue)
      <4>1. Len(sent) + i \in 1..Len(accepted)
        BY <1>3, <2>1, <3>1
      <4>2. accepted'[Len(sent) + i] = accepted[Len(sent) + i]
        BY <1>5, <4>1
      <4> QED
        BY <1>4, <2>1, <3>1, <4>2
    <3>2. CASE i = Len(queue) + 1
      <4>1. Len(sent) + i = Len(accepted) + 1
        BY <1>3, <2>1, <3>2
      <4> QED
        BY <1>1, <1>4, <1>5, <3>2, <4>1 DEF Copied
    <3> QED
      BY <1>3, <1>4, <3>1, <3>2
  <2>4. Len(accepted') = Len(sent) + Len(queue')
    BY <1>3, <1>4, <1>5, <2>1
  <2>5. sent' = sent /\ data' = data /\ memory' = memory
    BY <1>1
  <2> QED
    BY <2>2, <2>3, <2>4, <2>5 DEF InOrder
<1> QED
  BY <1>1, <1>6, <1>7 DEF InOrder

\* The block of an object that could not enter the queue is of no other.
LEMMA PushThrowsKeeps ==
    ASSUME IInv, Copied, InOrder, NEW t \in Threads, PushThrows(t)
    PROVE  Copied' /\ InOrder'
<1> USE BufferAssumption DEF BufferAssumption
<1> DEFINE gone == {held[t]}
<1>1. /\ UNCHANGED <<queue, open, accepted, sent>>
      /\ pc[t] = "push" /\ pc' = [pc EXCEPT ![t] = "idle"]
      /\ Destruct(gone)
      /\ held' = [held EXCEPT ![t] = Null]
  BY DEF PushThrows, Goes
<1>2. /\ held[t] \in Objects
      /\ \A u \in Threads : held[u] = held[t] => u = t
      /\ \A i \in 1..Len(queue) : queue[i] # held[t]
  BY <1>1, InCall
<1>3. /\ gone \in SUBSET Objects
      /\ \A p \in Objects : p # held[t] => p \in Objects \ gone
  BY <1>2
<1>4. \A u \in Threads : pc'[u] = "push" =>
        /\ pc[u] = "push" /\ held'[u] = held[u]
        /\ held[u] \in Objects \ gone /\ data[held[u]] \in Blocks
  BY <1>1, <1>2, <1>3, InCall DEF IInv, TypeOK, Written
<1>5. \A i \in 1..Len(queue) :
        queue[i] \in Objects \ gone /\ data[queue[i]] \in Blocks
  BY <1>2, <1>3 DEF IInv, TypeOK, Written
<1> HIDE DEF gone
<1>6. /\ \A p \in Objects \ gone :
           data'[p] = data[p]
           /\ (data[p] \in Blocks => memory'[data[p]] = memory[data[p]])
      /\ \A u \in Threads : memory'[u] = memory[u]
  BY <1>1, <1>3, Destructed
<1>7. Copied'
  BY <1>4, <1>6 DEF Copied
<1> QED
  BY <1>1, <1>5, <1>6, <1>7, QueueKept

\* What the socket takes is the first of the messages that waited.
LEMMA SendCompletesKeeps ==
    ASSUME IInv, Copied, InOrder, SendCompletes
    PROVE  Copied' /\ InOrder'
<1> USE BufferAssumption DEF BufferAssumption
<1> DEFINE gone == {queue[1]}
<1>1. /\ UNCHANGED <<pc, held, open, accepted>> /\ open
      /\ queue # <<>> /\ queue' = Tail(queue)
      /\ Destruct({Head(queue)})
      /\ sent' = Append(sent, memory[data[Head(queue)]])
  BY DEF SendCompletes
<1>2. /\ queue \in Seq(Objects)
      /\ sent \in Seq(Messages) /\ Len(sent) \in Nat
  BY DEF IInv, TypeOK
<1>3. /\ Len(queue) \in Nat \ {0} /\ Len(queue') = Len(queue) - 1
      /\ Head(queue) = queue[1]
      /\ \A i \in 1..Len(queue') : queue'[i] = queue[i + 1]
  BY <1>1, <1>2, Shortened
<1>4. /\ 1 \in 1..Len(queue)
      /\ \A i \in 1..Len(queue') : i + 1 \in 1..Len(queue) /\ i + 1 # 1
  BY <1>3
<1>5. /\ queue[1] \in Objects /\ memory[data[queue[1]]] \in Messages
      /\ \A i \in 1..Len(queue') : queue[i + 1] \in Objects
                                   /\ queue[i + 1] # queue[1]
                                   /\ data[queue[i + 1]] \in Blocks
  BY <1>2, <1>4 DEF IInv, OneOwner, OneHolder, Written
<1>6. gone \in SUBSET Objects /\ Destruct(gone)
  BY <1>1, <1>3, <1>5
<1>7. \A u \in Threads : pc[u] = "push" =>
        held[u] \in Objects \ gone /\ data[held[u]] \in Blocks
  BY <1>4, InCall DEF IInv, Written
<1>8. \A i \in 1..Len(queue') : queue[i + 1] \in Objects \ gone
  BY <1>5
<1> HIDE DEF gone
<1>9. /\ \A p \in Objects \ gone :
           data'[p] = data[p]
           /\ (data[p] \in Blocks => memory'[data[p]] = memory[data[p]])
      /\ \A u \in Threads : memory'[u] = memory[u]
  BY <1>6, Destructed
<1>10. Copied'
  BY <1>1, <1>7, <1>9 DEF Copied
<1>11. /\ Len(sent') = Len(sent) + 1
       /\ \A i \in 1..Len(sent) : sent'[i] = sent[i]
       /\ sent'[Len(sent) + 1] = memory[data[queue[1]]]
  BY <1>1, <1>2, <1>3, <1>5, Appended
<1>12. /\ Len(accepted) = Len(sent) + Len(queue)
       /\ \A i \in 1..Len(sent) : accepted[i] = sent[i]
       /\ \A i \in 1..Len(queue) :
            accepted[Len(sent) + i] = memory[data[queue[i]]]
  BY <1>1 DEF InOrder
<1>13. \A i \in 1..Len(sent') : accepted[i] = sent'[i]
  <2>1. accepted[Len(sent) + 1] = sent'[Len(sent) + 1]
    BY <1>4, <1>11, <1>12
  <2>2. \A i \in 1..Len(sent') : i \in 1..Len(sent) \/ i = Len(sent) + 1
    BY <1>2, <1>11
  <2> QED
    BY <1>11, <1>12, <2>1, <2>2
<1>14. ASSUME NEW i \in 1..Len(queue')
       PROVE  accepted[Len(sent') + i] = memory'[data'[queue'[i]]]
  <2>1. Len(sent') + i = Len(sent) + (i + 1)
    BY <1>2, <1>11
  <2>2. accepted[Len(sent) + (i + 1)] = memory[data[queue[i + 1]]]
    BY <1>4, <1>12
  <2>3. memory'[data'[queue[i + 1]]] = memory[data[queue[i + 1]]]
    BY <1>5, <1>8, <1>9
  <2> QED
    BY <1>3, <2>1, <2>2, <2>3
<1>15. Len(accepted) = Len(sent') + Len(queue')
  BY <1>2, <1>3, <1>11, <1>12
<1>16. InOrder'
  BY <1>1, <1>13, <1>14, <1>15 DEF InOrder
<1> QED
  BY <1>10, <1>16

\* After the session there is no order to keep.
LEMMA CloseKeeps ==
    ASSUME IInv, Close
    PROVE  Copied' /\ InOrder'
BY DEF Close, Copied, InOrder

\* Blocks and order are kept by every step.
LEMMA OrderStep == IInv /\ Copied /\ InOrder /\ [Next]_vars => Copied' /\ InOrder'
<1> SUFFICES ASSUME IInv, Copied, InOrder, [Next]_vars PROVE Copied' /\ InOrder'
  OBVIOUS
<1>1. CASE UNCHANGED vars
  BY <1>1 DEF vars, heap, Copied, InOrder
<1> QED
  BY <1>1, FillKeeps, MakeUniqueKeeps, NewBlockKeeps, NewBlockThrowsKeeps,
     CopyInKeeps, PushKeeps, PushThrowsKeeps, SendCompletesKeeps, CloseKeeps
     DEF Next

\* At first nothing was posted.
LEMMA OrderInit == Init => Copied /\ InOrder
BY DEF Init, Copied, InOrder

\* So they hold always.
LEMMA OrderInvariance == Spec => [](IInv /\ Copied /\ InOrder)
BY InitCorrect, StepCorrect, OrderInit, OrderStep, PTL DEF Spec

\* Two sequences that agree at every place are one.
LEMMA InOrderSuffices == IInv /\ InOrder => InOrderUnchanged
<1> SUFFICES ASSUME IInv, InOrder, open PROVE accepted = sent \o Waiting
  BY DEF InOrderUnchanged
<1>1. /\ queue \in Seq(Objects) /\ sent \in Seq(Messages)
      /\ accepted \in Seq(Messages)
  BY DEF IInv, TypeOK
<1>2. \A i \in 1..Len(queue) : memory[data[queue[i]]] \in Messages
  BY DEF IInv, Written
<1>3. Waiting \in Seq(Messages) /\ Len(Waiting) = Len(queue)
  BY <1>1, <1>2 DEF Waiting
<1>4. \A i \in 1..Len(queue) : Waiting[i] = memory[data[queue[i]]]
  BY DEF Waiting
<1>5. /\ Len(accepted) = Len(sent) + Len(queue)
      /\ \A i \in 1..Len(sent) : accepted[i] = sent[i]
      /\ \A i \in 1..Len(queue) :
           accepted[Len(sent) + i] = memory[data[queue[i]]]
  BY DEF InOrder
<1> HIDE DEF Waiting
<1> DEFINE all == sent \o Waiting
<1>6. /\ all \in Seq(Messages) /\ Len(all) = Len(sent) + Len(Waiting)
      /\ \A i \in 1..Len(sent) + Len(Waiting) :
           all[i] = IF i <= Len(sent) THEN sent[i] ELSE Waiting[i - Len(sent)]
  BY <1>1, <1>3, ConcatProperties
<1> HIDE DEF all
<1>7. ASSUME NEW i \in 1..Len(accepted) PROVE accepted[i] = all[i]
  <2>1. /\ Len(sent) \in Nat /\ Len(queue) \in Nat
        /\ i \in 1..Len(sent) + Len(Waiting)
    BY <1>1, <1>3, <1>5
  <2>2. CASE i <= Len(sent)
    BY <1>5, <1>6, <2>1, <2>2
  <2>3. CASE ~(i <= Len(sent))
    <3>1. i - Len(sent) \in 1..Len(queue) /\ Len(sent) + (i - Len(sent)) = i
      BY <1>3, <2>1, <2>3
    <3> QED
      BY <1>4, <1>5, <1>6, <2>1, <2>3, <3>1
  <2> QED
    BY <2>2, <2>3
<1>8. accepted = all
  BY <1>1, <1>3, <1>5, <1>6, <1>7, SeqEqual
<1> QED
  BY <1>8 DEF all

-----------------------------------------------------------------------------

\* Every variable keeps its type.
THEOREM TypeCorrect == Spec => []TypeOK
<1>1. IInv => TypeOK
  BY DEF IInv
<1> QED
  BY <1>1, Invariance, PTL

\* No block of a SendData is deleted twice, used after that, or left behind.
THEOREM BlocksHaveOneOwner == Spec => []OneOwner
<1>1. IInv => OneOwner
  BY DEF IInv
<1> QED
  BY <1>1, Invariance, PTL

\* What the socket has taken and what waits are the messages posted, in order
\* and unchanged, whatever the callers wrote to their buffers since.
THEOREM SentAsPosted == Spec => []InOrderUnchanged
BY OrderInvariance, InOrderSuffices, PTL

-----------------------------------------------------------------------------
(* SendBuffers implements MessageQueue.                                    *)

\* A session is destroyed with no thread in a call and leaves no queue.
Closed == ~open => queue = <<>> /\ \A t \in Threads : pc[t] = "idle"

\* No thread begins a call on a session that was destroyed.
LEMMA ClosedInvariance == Spec => []Closed
<1>1. Init => Closed
  BY DEF Init, Closed
<1>2. TypeOK /\ Closed /\ [Next]_vars => Closed'
  <2> SUFFICES ASSUME TypeOK, Closed, [Next]_vars PROVE Closed'
    OBVIOUS
  <2> USE DEF Closed, Goes
  <2>1. CASE UNCHANGED vars
    BY <2>1 DEF vars
  <2>2. CASE SendCompletes \/ Close
    BY <2>2 DEF SendCompletes, Close
  <2>3. ASSUME NEW t \in Threads, NEW m \in Messages, Fill(t, m) PROVE Closed'
    BY <2>3 DEF Fill
  <2>4. ASSUME NEW t \in Threads, NEW o \in Objects, MakeUnique(t, o) PROVE Closed'
    BY <2>4 DEF MakeUnique
  <2>5. ASSUME NEW t \in Threads, NewBlock(t) \/ NewBlockThrows(t) \/ CopyIn(t)
        PROVE  Closed'
    BY <2>5 DEF NewBlock, NewBlockThrows, CopyIn
  <2>6. ASSUME NEW t \in Threads, Push(t) \/ PushThrows(t) PROVE Closed'
    BY <2>6 DEF Push, PushThrows
  <2> QED
    BY <2>1, <2>2, <2>3, <2>4, <2>5, <2>6 DEF Next
<1>3. IInv => TypeOK
  BY DEF IInv
<1> QED
  BY <1>1, <1>2, <1>3, Invariance, PTL DEF Spec

\* What the refinement needs to know of a state.
QInv == IInv /\ Copied /\ InOrder /\ Closed

\* The threads in calls, and the callers' buffers.
Posting == {t \in Threads : pc[t] # "idle"}
Buffers == [t \in Threads |-> memory[t]]

\* The queue of values is as long as the queue, and the messages accepted say
\* what is in it.
ValuesAre ==
    /\ Waiting \in Seq(Messages) /\ Len(Waiting) = Len(queue)
    /\ Len(queue) \in Nat /\ Len(sent) \in Nat /\ Len(accepted) \in Nat
    /\ open => Len(accepted) = Len(sent) + Len(queue)
    /\ \A i \in 1..Len(queue) : Waiting[i] = accepted[Len(sent) + i]

\* So it is in every state that can be reached.
LEMMA WaitingIs == QInv => ValuesAre
<1> SUFFICES ASSUME QInv PROVE ValuesAre
  OBVIOUS
<1>1. /\ queue \in Seq(Objects) /\ Len(queue) \in Nat
      /\ Len(sent) \in Nat /\ Len(accepted) \in Nat
  BY LenProperties DEF QInv, IInv, TypeOK
<1>2. \A i \in 1..Len(queue) : memory[data[queue[i]]] \in Messages
  BY DEF QInv, IInv, Written
<1>3. Waiting \in Seq(Messages) /\ Len(Waiting) = Len(queue)
  BY <1>1, <1>2 DEF Waiting
<1>4. ASSUME NEW i \in 1..Len(queue)
      PROVE  Waiting[i] = accepted[Len(sent) + i]
  <2>1. Waiting[i] = memory[data[queue[i]]]
    BY DEF Waiting
  <2>2. open
    BY <1>1 DEF QInv, Closed
  <2> QED
    BY <2>1, <2>2 DEF QInv, InOrder
<1>5. open => Len(accepted) = Len(sent) + Len(queue)
  BY DEF QInv, InOrder
<1> QED
  BY <1>1, <1>3, <1>4, <1>5 DEF ValuesAre

\* A step that neither posts nor takes a message leaves the values alone.
LEMMA WaitingKept ==
    ASSUME ValuesAre, ValuesAre', UNCHANGED <<queue, accepted, sent>>
    PROVE  Waiting' = Waiting
<1>1. /\ Waiting \in Seq(Messages) /\ Waiting' \in Seq(Messages)
      /\ Len(Waiting) = Len(queue) /\ Len(Waiting') = Len(queue)
  BY DEF ValuesAre
<1>2. \A i \in 1..Len(queue) : Waiting'[i] = Waiting[i]
  BY DEF ValuesAre
<1> HIDE DEF Waiting
<1> QED
  BY <1>1, <1>2, SeqEqual

\* A message that is posted comes to stand behind the others.
LEMMA PushIsPost ==
    ASSUME IInv, ValuesAre, ValuesAre', NEW t \in Threads, Push(t), open
    PROVE  Waiting' = Append(Waiting, memory[t])
<1> DEFINE w == Waiting'
           a == Append(Waiting, memory[t])
<1>1. /\ queue' = Append(queue, held[t]) /\ sent' = sent
      /\ accepted' = Append(accepted, memory[t]) /\ open' = open
      /\ pc[t] = "push"
  BY DEF Push, Goes, heap
<1>2. /\ queue \in Seq(Objects) /\ accepted \in Seq(Messages)
      /\ held[t] \in Objects /\ memory[t] \in Messages
  BY <1>1, InCall DEF IInv, TypeOK, Written
<1>3. Len(queue') = Len(queue) + 1
  BY <1>1, <1>2, Appended
<1>4. /\ Len(accepted') = Len(accepted) + 1
      /\ \A i \in 1..Len(accepted) : accepted'[i] = accepted[i]
      /\ accepted'[Len(accepted) + 1] = memory[t]
  BY <1>1, <1>2, Appended
<1>5. /\ Waiting \in Seq(Messages) /\ Len(Waiting) = Len(queue)
      /\ Len(queue) \in Nat /\ Len(sent) \in Nat /\ Len(accepted) \in Nat
      /\ Len(accepted) = Len(sent) + Len(queue)
      /\ \A i \in 1..Len(queue) : Waiting[i] = accepted[Len(sent) + i]
  BY DEF ValuesAre
<1>6. /\ w \in Seq(Messages) /\ Len(w) = Len(queue')
      /\ \A i \in 1..Len(queue') : w[i] = accepted'[Len(sent') + i]
  BY DEF ValuesAre
<1> HIDE DEF w
<1>7. /\ a \in Seq(Messages) /\ Len(a) = Len(queue) + 1
      /\ \A i \in 1..Len(queue) : a[i] = Waiting[i]
      /\ a[Len(queue) + 1] = memory[t]
  <2> HIDE DEF Waiting
  <2> QED
    BY <1>2, <1>5, Appended
<1> HIDE DEF a
<1>8. ASSUME NEW i \in 1..Len(w) PROVE w[i] = a[i]
  <2>1. w[i] = accepted'[Len(sent) + i] /\ i \in 1..Len(queue) + 1
    BY <1>1, <1>3, <1>6
  <2>2. CASE i \in 1..Len(queue)
    <3>1. Len(sent) + i \in 1..Len(accepted)
      BY <1>5, <2>2
    <3> QED
      BY <1>4, <1>5, <1>7, <2>1, <2>2, <3>1
  <2>3. CASE i = Len(queue) + 1
    <3>1. Len(sent) + i = Len(accepted) + 1
      BY <1>5, <2>3
    <3> QED
      BY <1>4, <1>7, <2>1, <2>3, <3>1
  <2> QED
    BY <1>5, <2>1, <2>2, <2>3
<1>9. w = a
  BY <1>3, <1>6, <1>7, <1>8, SeqEqual
<1> QED
  BY <1>9 DEF w, a

\* The socket takes the message that has waited longest.
LEMMA SendIsTake ==
    ASSUME IInv, ValuesAre, ValuesAre', SendCompletes
    PROVE  /\ Waiting # <<>> /\ Waiting' = Tail(Waiting)
           /\ sent' = Append(sent, Head(Waiting))
<1> DEFINE w == Waiting'
           v == Waiting
<1>1. /\ open /\ queue # <<>> /\ queue' = Tail(queue) /\ accepted' = accepted
      /\ sent' = Append(sent, memory[data[Head(queue)]])
  BY DEF SendCompletes
<1>2. /\ queue \in Seq(Objects) /\ sent \in Seq(Messages)
      /\ \A i \in 1..Len(queue) : memory[data[queue[i]]] \in Messages
  BY DEF IInv, TypeOK, Written
<1>3. /\ Len(queue) \in Nat \ {0} /\ Len(queue') = Len(queue) - 1
      /\ Head(queue) = queue[1]
  BY <1>1, <1>2, Shortened
<1>4. Len(sent') = Len(sent) + 1
  BY <1>1, <1>2, <1>3, Appended
<1>5. /\ v \in Seq(Messages) /\ Len(v) = Len(queue) /\ Len(sent) \in Nat
      /\ \A i \in 1..Len(queue) : v[i] = accepted[Len(sent) + i]
  BY DEF ValuesAre
<1>6. /\ w \in Seq(Messages) /\ Len(w) = Len(queue')
      /\ \A i \in 1..Len(queue') : w[i] = accepted'[Len(sent') + i]
  BY DEF ValuesAre
<1>7. v[1] = memory[data[queue[1]]]
  BY <1>3 DEF Waiting
<1> HIDE DEF v, w
<1>8. v # <<>>
  BY <1>3, <1>5, EmptySeq
<1>9. /\ Tail(v) \in Seq(Messages) /\ Len(Tail(v)) = Len(v) - 1
      /\ Head(v) = v[1] /\ \A i \in 1..Len(Tail(v)) : Tail(v)[i] = v[i + 1]
  BY <1>5, <1>8, Shortened
<1>10. ASSUME NEW i \in 1..Len(w) PROVE w[i] = Tail(v)[i]
  <2>1. i \in 1..Len(queue') /\ i \in 1..Len(Tail(v)) /\ i + 1 \in 1..Len(queue)
    BY <1>3, <1>5, <1>6, <1>9
  <2>2. w[i] = accepted[Len(sent) + (i + 1)]
    BY <1>1, <1>4, <1>5, <1>6, <2>1
  <2> QED
    BY <1>5, <1>9, <2>1, <2>2
<1>11. w = Tail(v)
  BY <1>3, <1>5, <1>6, <1>9, <1>10, SeqEqual
<1> QED
  BY <1>1, <1>3, <1>7, <1>8, <1>9, <1>11 DEF v, w

\* One thread comes to a call or out of it.
LEMMA PostingMoves ==
    ASSUME TypeOK, NEW t \in Threads, NEW to, pc' = [pc EXCEPT ![t] = to]
    PROVE  Posting' = IF to = "idle" THEN Posting \ {t} ELSE Posting \cup {t}
BY DEF TypeOK, Posting

\* A step that leaves the callers' buffers alone.
LEMMA BuffersKept ==
    ASSUME \A t \in Threads : memory'[t] = memory[t]
    PROVE  Buffers' = Buffers
BY DEF Buffers

\* The callers' buffers are no blocks: no destructor deletes them.
LEMMA DestructKeepsBuffers ==
    ASSUME TypeOK, NEW gone \in SUBSET Objects, Destruct(gone)
    PROVE  \A t \in Threads : memory'[t] = memory[t]
<1> TAKE t \in Threads
<1>1. \A o \in gone : data[o] # t
  BY BufferAssumption DEF BufferAssumption, TypeOK
<1> QED
  BY <1>1 DEF Destruct

-----------------------------------------------------------------------------
(* Every step is one of the queue of values, or none.                      *)

\* The filling of a buffer is the abstract one.
LEMMA FillMaps ==
    ASSUME IInv, ValuesAre, ValuesAre', NEW t \in Threads, NEW m \in Messages,
           Fill(t, m)
    PROVE  Queue!Fill(t, m)
<1>1. /\ UNCHANGED <<pc, held, data, queue, open, accepted, sent>>
      /\ pc[t] = "idle" /\ memory' = [memory EXCEPT ![t] = m]
  BY DEF Fill
<1>2. Waiting' = Waiting
  BY <1>1, WaitingKept
<1>3. Buffers' = [Buffers EXCEPT ![t] = m]
  BY <1>1 DEF IInv, TypeOK, Buffers
<1>4. Posting' = Posting /\ t \notin Posting
  BY <1>1 DEF Posting
<1> QED
  BY <1>1, <1>2, <1>3, <1>4 DEF Queue!Fill, Buffers, Posting

\* A call begins with the storage of the object; what follows inside of it
\* shows to nobody.
LEMMA CallMaps ==
    ASSUME IInv, ValuesAre, ValuesAre', NEW t \in Threads
    PROVE  /\ \A o \in Objects : MakeUnique(t, o) => Queue!Begin(t)
           /\ NewBlock(t) \/ CopyIn(t) => UNCHANGED Queue!vars
<1>1. ASSUME NEW o \in Objects, MakeUnique(t, o) PROVE Queue!Begin(t)
  <2>1. /\ UNCHANGED <<memory, queue, open, accepted, sent>> /\ open
        /\ pc[t] = "idle" /\ pc' = [pc EXCEPT ![t] = "new"]
    BY <1>1 DEF MakeUnique, Goes
  <2>2. Waiting' = Waiting /\ Buffers' = Buffers
    BY <2>1, WaitingKept, BuffersKept
  <2>3. Posting' = Posting \cup {t} /\ t \notin Posting
    <3>1. Posting' = IF "new" = "idle" THEN Posting \ {t} ELSE Posting \cup {t}
      BY <2>1, PostingMoves DEF IInv
    <3> QED
      BY <2>1, <3>1 DEF Posting
  <2> QED
    BY <2>1, <2>2, <2>3 DEF Queue!Begin, Buffers, Posting
<1>2. ASSUME NewBlock(t) \/ CopyIn(t) PROVE UNCHANGED Queue!vars
  <2>1. /\ UNCHANGED <<queue, open, accepted, sent>>
        /\ pc[t] # "idle"
        /\ \E to \in {"copy", "push"} : pc' = [pc EXCEPT ![t] = to]
    BY <1>2 DEF NewBlock, CopyIn, Goes
  <2>2. \A u \in Threads : memory'[u] = memory[u]
    <3>1. CASE NewBlock(t)
      BY <3>1, BufferAssumption DEF BufferAssumption, NewBlock, IInv, TypeOK
    <3>2. CASE CopyIn(t)
      <4>1. data[held[t]] \in Blocks
        BY <3>2 DEF CopyIn, Goes, IInv, Written
      <4> QED
        BY <3>2, <4>1, BufferAssumption
           DEF BufferAssumption, CopyIn, IInv, TypeOK
    <3> QED
      BY <1>2, <3>1, <3>2
  <2>3. Waiting' = Waiting /\ Buffers' = Buffers
    BY <2>1, <2>2, WaitingKept, BuffersKept
  <2>4. Posting' = Posting
    <3>1. PICK to \in {"copy", "push"} : pc' = [pc EXCEPT ![t] = to]
      BY <2>1
    <3>2. Posting' = IF to = "idle" THEN Posting \ {t} ELSE Posting \cup {t}
      BY <3>1, PostingMoves DEF IInv
    <3> QED
      BY <2>1, <3>2 DEF Posting
  <2> QED
    BY <2>1, <2>3, <2>4 DEF Queue!vars, Buffers, Posting
<1> QED
  BY <1>1, <1>2

\* An exception ends the call, and nothing else has changed.
LEMMA ThrowMaps ==
    ASSUME IInv, ValuesAre, ValuesAre', NEW t \in Threads,
           NewBlockThrows(t) \/ PushThrows(t)
    PROVE  Queue!Throw(t)
<1>1. /\ UNCHANGED <<queue, open, accepted, sent>>
      /\ pc[t] # "idle" /\ pc' = [pc EXCEPT ![t] = "idle"]
  BY DEF NewBlockThrows, PushThrows, Goes
<1>2. \A u \in Threads : memory'[u] = memory[u]
  <2>1. CASE NewBlockThrows(t)
    BY <2>1 DEF NewBlockThrows
  <2>2. CASE PushThrows(t)
    <3>1. {held[t]} \in SUBSET Objects
      BY <1>1, InCall
    <3>2. Destruct({held[t]}) /\ TypeOK
      BY <2>2 DEF PushThrows, IInv
    <3> QED
      BY <3>1, <3>2, DestructKeepsBuffers
  <2> QED
    BY <2>1, <2>2
<1>3. Waiting' = Waiting /\ Buffers' = Buffers
  BY <1>1, <1>2, WaitingKept, BuffersKept
<1>4. Posting' = Posting \ {t} /\ t \in Posting
  <2>1. Posting' = IF "idle" = "idle" THEN Posting \ {t} ELSE Posting \cup {t}
    BY <1>1, PostingMoves DEF IInv
  <2> QED
    BY <1>1, <2>1 DEF Posting
<1> QED
  BY <1>1, <1>3, <1>4 DEF Queue!Throw, Buffers, Posting

\* The unique_ptr's move into the queue posts the message.
LEMMA PushMaps ==
    ASSUME IInv, Closed, ValuesAre, ValuesAre', NEW t \in Threads, Push(t)
    PROVE  Queue!Post(t)
<1>1. /\ UNCHANGED <<memory, open, sent>>
      /\ pc[t] = "push" /\ pc' = [pc EXCEPT ![t] = "idle"]
  BY DEF Push, Goes, heap
<1>2. Waiting' = Append(Waiting, memory[t])
  BY <1>1, PushIsPost DEF Closed
<1>3. Buffers' = Buffers /\ Buffers[t] = memory[t]
  BY <1>1 DEF Buffers
<1>4. Posting' = Posting \ {t} /\ t \in Posting
  <2>1. Posting' = IF "idle" = "idle" THEN Posting \ {t} ELSE Posting \cup {t}
    BY <1>1, PostingMoves DEF IInv
  <2> QED
    BY <1>1, <2>1 DEF Posting
<1> QED
  BY <1>1, <1>2, <1>3, <1>4 DEF Queue!Post, Buffers, Posting

\* What the socket takes is the value at the front.
LEMMA SendCompletesMaps ==
    ASSUME IInv, ValuesAre, ValuesAre', SendCompletes
    PROVE  Queue!Take
<1>1. UNCHANGED <<pc, held, open, accepted>> /\ open /\ queue # <<>>
      /\ Destruct({Head(queue)})
  BY DEF SendCompletes
<1>2. Head(queue) \in Objects
  <2>1. queue \in Seq(Objects)
    BY DEF IInv, TypeOK
  <2> QED
    BY <1>1, <2>1, HeadTailProperties
<1>3. {Head(queue)} \in SUBSET Objects /\ TypeOK
  BY <1>2 DEF IInv
<1>4. Buffers' = Buffers
  BY <1>1, <1>3, DestructKeepsBuffers, BuffersKept
<1>5. Posting' = Posting
  BY <1>1 DEF Posting
<1> QED
  BY <1>1, <1>4, <1>5, SendIsTake DEF Queue!Take, Buffers, Posting

\* With the session goes its queue.
LEMMA CloseMaps ==
    ASSUME IInv, ValuesAre', Close
    PROVE  Queue!Close
<1>1. /\ UNCHANGED <<pc, held, accepted, sent>> /\ open
      /\ \A t \in Threads : pc[t] = "idle"
      /\ Destruct({queue[i] : i \in 1..Len(queue)})
      /\ queue' = <<>> /\ open' = FALSE
  BY DEF Close
<1>2. {queue[i] : i \in 1..Len(queue)} \in SUBSET Objects /\ TypeOK
  BY DEF IInv, TypeOK
<1>3. Buffers' = Buffers
  BY <1>1, <1>2, DestructKeepsBuffers, BuffersKept
<1>4. Waiting' = <<>>
  <2> DEFINE w == Waiting'
  <2>1. w \in Seq(Messages) /\ Len(w) = 0
    BY <1>1 DEF ValuesAre
  <2> HIDE DEF w
  <2> QED
    <3>1. w = <<>>
      BY <2>1, EmptySeq
    <3> QED
      BY <3>1 DEF w
<1>5. Posting = {} /\ Posting' = {}
  BY <1>1 DEF Posting
<1> QED
  BY <1>1, <1>3, <1>4, <1>5 DEF Queue!Close, Buffers, Posting

\* All together.
LEMMA EveryStepMaps ==
    QInv /\ ValuesAre /\ ValuesAre' /\ [Next]_vars => [Queue!Next]_(Queue!vars)
<1> SUFFICES ASSUME QInv, ValuesAre, ValuesAre', [Next]_vars
             PROVE  Queue!Next \/ UNCHANGED Queue!vars
  OBVIOUS
<1>1. IInv /\ Closed
  BY DEF QInv
<1>2. CASE UNCHANGED vars
  BY <1>2 DEF vars, heap, Queue!vars, Waiting
<1>3. ASSUME NEW t \in Threads, NEW m \in Messages, Fill(t, m)
      PROVE  Queue!Next
  BY <1>1, <1>3, FillMaps DEF Queue!Next
<1>4. ASSUME NEW t \in Threads, NEW o \in Objects, MakeUnique(t, o)
      PROVE  Queue!Next
  BY <1>1, <1>4, CallMaps DEF Queue!Next
<1>5. ASSUME NEW t \in Threads, NewBlock(t) \/ CopyIn(t)
      PROVE  UNCHANGED Queue!vars
  BY <1>1, <1>5, CallMaps
<1>6. ASSUME NEW t \in Threads, NewBlockThrows(t) \/ PushThrows(t)
      PROVE  Queue!Next
  BY <1>1, <1>6, ThrowMaps DEF Queue!Next
<1>7. ASSUME NEW t \in Threads, Push(t)
      PROVE  Queue!Next
  BY <1>1, <1>7, PushMaps DEF Queue!Next
<1>8. CASE SendCompletes
  BY <1>1, <1>8, SendCompletesMaps DEF Queue!Next
<1>9. CASE Close
  BY <1>1, <1>9, CloseMaps DEF Queue!Next
<1> QED
  BY <1>2, <1>3, <1>4, <1>5, <1>6, <1>7, <1>8, <1>9 DEF Next

\* A session's queue begins empty.
LEMMA InitMaps == Init => Queue!Init
<1> SUFFICES ASSUME Init PROVE Queue!Init
  OBVIOUS
<1>1. [t \in Threads |-> memory[t]] \in [Threads -> Messages]
  BY DEF Init
<1>2. {t \in Threads : pc[t] # "idle"} = {}
  BY DEF Init
<1>3. Waiting = <<>>
  BY DEF Init, Waiting
<1> QED
  BY <1>1, <1>2, <1>3 DEF Init, Queue!Init

-----------------------------------------------------------------------------

\* For the threads that post and for the socket, SendData's objects, blocks and
\* pointers are a first-in first-out queue of messages, for any number of them:
\* every step of a call, of an exception and of the socket is one of the queue
\* or leaves it as it is.
THEOREM SendBuffersImplementQueue == Spec => QueueOfValues
<1>1. Spec => [](QInv /\ ValuesAre)
  <2>1. QInv <=> IInv /\ Copied /\ InOrder /\ Closed
    BY DEF QInv
  <2> QED
    BY <2>1, OrderInvariance, ClosedInvariance, WaitingIs, PTL
<1> QED
  BY <1>1, InitMaps, EveryStepMaps, PTL DEF Spec, QueueOfValues, Queue!Spec

=============================================================================
