---------------------------- MODULE SendBuffers ----------------------------
(***************************************************************************)
(* Core/Session.h: SendData, which owns a copy of the bytes to send, and   *)
(* the queue of them in a Session.  Threads post messages from buffers of  *)
(* their own, which they fill again as soon as the call has returned.      *)
(*                                                                         *)
(* PostSend and what takes the queue down have no body in the repository.  *)
(* Their part is what the declarations leave no choice about: a message    *)
(* enters and leaves the queue by unique_ptr, under the queue's mutex, so  *)
(* that each access to the queue is one step.                              *)
(***************************************************************************)
EXTENDS Naturals, Sequences

CONSTANTS
    Threads,    \* the threads that post; each stands for its buffer, too
    Objects,    \* the addresses a SendData can have
    Blocks,     \* the addresses its block can have
    Messages,   \* what a buffer or a block may contain
    Null,       \* no object, no pointer
    Raw,        \* what is allocated and not yet written
    Free,       \* the content of a block that is not allocated
    MaxPosts    \* bound: a call begins only before this many were posted

ASSUME BufferAssumption ==
    /\ Threads \cap Blocks = {}
    /\ Null \notin Objects \cup Threads \cup Blocks \cup {Raw}
    /\ Raw \notin Threads \cup Blocks
    /\ {Raw, Free} \cap Messages = {} /\ Raw # Free
    /\ MaxPosts \in Nat

VARIABLES
    pc,         \* where each thread is in PostSend
    held,       \* the unique_ptr of the call
    data,       \* the member data of each SendData, Null where there is none
    memory,     \* what each block and each thread's buffer contains
    queue,      \* send_queue_
    open,       \* whether the Session lives
    accepted,   \* the messages posted, in the order they entered the queue
    sent        \* the messages that the socket took

heap == <<data, memory>>
vars == <<pc, held, heap, queue, open, accepted, sent>>

Init ==
    /\ pc = [t \in Threads |-> "idle"]
    /\ held = [t \in Threads |-> Null]
    /\ data = [o \in Objects |-> Null]
    /\ memory \in [Blocks \cup Threads -> Messages \cup {Free}]
    /\ \A b \in Blocks : memory[b] = Free
    /\ \A t \in Threads : memory[t] # Free
    /\ queue = <<>> /\ accepted = <<>> /\ sent = <<>>
    /\ open = TRUE

Goes(t, from, to) == pc[t] = from /\ pc' = [pc EXCEPT ![t] = to]

-----------------------------------------------------------------------------

\* The caller's buffer is its own outside the call.
Fill(t, m) ==
    /\ pc[t] = "idle"
    /\ memory' = [memory EXCEPT ![t] = m]
    /\ UNCHANGED <<pc, held, data, queue, open, accepted, sent>>

\* PostSend makes a SendData; first comes the storage of the object.
MakeUnique(t, o) ==
    /\ open /\ Len(accepted) < MaxPosts
    /\ Goes(t, "idle", "new")
    /\ data[o] = Null
    /\ data' = [data EXCEPT ![o] = Raw]
    /\ held' = [held EXCEPT ![t] = o]
    /\ UNCHANGED <<memory, queue, open, accepted, sent>>

\* MUTANT: the object keeps the pointer it was given.
NewBlock_Borrows(t) ==
    /\ Goes(t, "new", "copy")
    /\ data' = [data EXCEPT ![held[t]] = t]
    /\ UNCHANGED <<held, memory, queue, open, accepted, sent>>

\* data = new char[len]
NewBlock(t) ==
    /\ Goes(t, "new", "copy")
    /\ \E b \in Blocks :
         /\ memory[b] = Free
         /\ data' = [data EXCEPT ![held[t]] = b]
         /\ memory' = [memory EXCEPT ![b] = Raw]
    /\ UNCHANGED <<held, queue, open, accepted, sent>>

\* new[] throws: the storage goes back and no destructor is run.
NewBlockThrows(t) ==
    /\ Goes(t, "new", "idle")
    /\ data' = [data EXCEPT ![held[t]] = Null]
    /\ held' = [held EXCEPT ![t] = Null]
    /\ UNCHANGED <<memory, queue, open, accepted, sent>>

\* memcpy(data, src, len)
CopyIn(t) ==
    /\ Goes(t, "copy", "push")
    /\ memory' = [memory EXCEPT ![data[held[t]]] = memory[t]]
    /\ UNCHANGED <<held, data, queue, open, accepted, sent>>

\* MUTANT: a destructor left to the compiler deletes nothing.
Destruct_Default(gone) ==
    /\ memory' = memory
    /\ data' = [o \in Objects |-> IF o \in gone THEN Null ELSE data[o]]

\* ~SendData of each of these objects: delete[] data.
Destruct(gone) ==
    /\ memory' = [a \in Blocks \cup Threads |->
                    IF \E o \in gone : data[o] = a THEN Free ELSE memory[a]]
    /\ data' = [o \in Objects |-> IF o \in gone THEN Null ELSE data[o]]

\* The unique_ptr moves into the queue.
Push(t) ==
    /\ Goes(t, "push", "idle")
    /\ queue' = Append(queue, held[t])
    /\ held' = [held EXCEPT ![t] = Null]
    /\ accepted' = Append(accepted, memory[t])
    /\ UNCHANGED <<heap, open, sent>>

\* push throws: the unique_ptr still owns the object and destroys it.
PushThrows(t) ==
    /\ Goes(t, "push", "idle")
    /\ Destruct({held[t]})
    /\ held' = [held EXCEPT ![t] = Null]
    /\ UNCHANGED <<queue, open, accepted, sent>>

\* The socket has taken the block at the front; the queue gives it up.
SendCompletes ==
    /\ open /\ queue # <<>>
    /\ sent' = Append(sent, memory[data[Head(queue)]])
    /\ Destruct({Head(queue)})
    /\ queue' = Tail(queue)
    /\ UNCHANGED <<pc, held, open, accepted>>

\* ~Session, once no thread is in a call: the queue destroys what it holds.
Close ==
    /\ open /\ \A t \in Threads : pc[t] = "idle"
    /\ Destruct({queue[i] : i \in 1..Len(queue)})
    /\ queue' = <<>> /\ open' = FALSE
    /\ UNCHANGED <<pc, held, accepted, sent>>

Next ==
    \/ \E t \in Threads :
         \/ \E m \in Messages : Fill(t, m)
         \/ \E o \in Objects : MakeUnique(t, o)
         \/ NewBlock(t) \/ NewBlockThrows(t) \/ CopyIn(t)
         \/ Push(t) \/ PushThrows(t)
    \/ SendCompletes \/ Close

Spec == Init /\ [][Next]_vars

-----------------------------------------------------------------------------
(* Correctness.                                                            *)

\* Every variable has the type of what it stands for; only an object whose
\* constructor is running has an unset pointer.
TypeOK ==
    /\ pc \in [Threads -> {"idle", "new", "copy", "push"}]
    /\ held \in [Threads -> Objects \cup {Null}]
    /\ data \in [Objects -> Blocks \cup {Null, Raw}]
    /\ memory \in [Blocks \cup Threads -> Messages \cup {Raw, Free}]
    /\ queue \in Seq(Objects) /\ open \in BOOLEAN
    /\ accepted \in Seq(Messages) /\ sent \in Seq(Messages)
    /\ \A t \in Threads :
         /\ held[t] = Null <=> pc[t] = "idle"
         /\ pc[t] # "idle" => (data[held[t]] = Raw <=> pc[t] = "new")

\* The unique_ptrs of the calls and of the queue own each object once.
OneHolder ==
    /\ \A o \in Objects :
         data[o] # Null <=> \/ \E t \in Threads : held[t] = o
                            \/ \E i \in 1..Len(queue) : queue[i] = o
    /\ \A t, u \in Threads : held[t] = held[u] /\ held[t] # Null => t = u
    /\ \A i, j \in 1..Len(queue) : queue[i] = queue[j] => i = j
    /\ \A t \in Threads, i \in 1..Len(queue) : held[t] # queue[i]

\* SendData's raw pointer: each allocated block is the block of one object, and
\* none is deleted twice, used after that, or left behind.
OneOwner ==
    /\ OneHolder
    /\ \A o, p \in Objects : data[o] = data[p] /\ data[o] \in Blocks => o = p
    /\ \A b \in Blocks : memory[b] # Free <=> \E o \in Objects : data[o] = b

\* The messages in the queue, as the socket would read them now.
Waiting == [i \in 1..Len(queue) |-> memory[data[queue[i]]]]

\* What the socket has taken and what waits are the messages posted, in order
\* and unchanged, whatever the callers wrote to their buffers since.
InOrderUnchanged == open => accepted = sent \o Waiting

=============================================================================
