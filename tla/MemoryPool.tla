----------------------------- MODULE MemoryPool -----------------------------
(***************************************************************************)
(* Core/MemoryPool.h: the pool of reusable heap objects that the threads   *)
(* of the server share.  Threads call Acquire, Release and GetPoolSize at  *)
(* any time; what a call does between two instants at which another thread *)
(* can see it is one action.  An object is a heap address: it is live from *)
(* its construction to its destruction and may be handed out again by the  *)
(* allocator afterwards.                                                   *)
(***************************************************************************)
EXTENDS Naturals, Sequences

CONSTANTS
    Threads,       \* the threads that call the pool
    Objects,       \* the heap addresses an object can have
    Contents,      \* what an object can contain, Fresh included
    Fresh,         \* the content that T's default constructor leaves
    NoObject,      \* a null unique_ptr
    NoThread,      \* the owner of a free mutex
    InitialSize,   \* initial_size, the constructor's first argument
    MaxSize,       \* max_size_
    AllocFails     \* whether an allocation may throw bad_alloc at any time

ASSUME NamesAssumption ==
    /\ NoObject \notin Objects
    /\ NoThread \notin Threads
    /\ Fresh \in Contents

ASSUME SizeAssumption ==
    /\ InitialSize \in Nat
    /\ MaxSize \in Nat
    /\ AllocFails \in BOOLEAN

VARIABLES
    phase,     \* of the pool's life: the constructor runs, it is in use, ...
    pool,      \* pool_: the front is a null pointer between move and pop
    mutex,     \* mutex_: the thread that holds it
    pc,        \* where each thread is in the call it makes
    local,     \* the unique_ptr of the call in progress: obj
    answer,    \* what GetPoolSize last read for each thread
    out,       \* objects whose unique_ptr is in the hands of clients
    live,      \* objects constructed and not yet destroyed
    content    \* what each object contains (Fresh when it is not live)

vars == <<phase, pool, mutex, pc, local, answer, out, live, content>>

Slots == Objects \cup {NoObject}

Phases == {"building", "live", "failed", "destroyed"}

\* The points of a call at which the caller holds the mutex ...
Critical == {"acquire.test", "acquire.make", "acquire.move", "acquire.pop",
             "acquire.unlock", "release.test", "release.push",
             "release.unlock", "size.read", "size.unlock"}

\* ... and those at which it does not.
Outside == {"idle", "acquire.lock", "release.entry", "release.drop",
            "size.lock"}

Larger(m, n) == IF m >= n THEN m ELSE n

InPool == {pool[i] : i \in 1..Len(pool)} \ {NoObject}

InCalls == {local[t] : t \in Threads} \ {NoObject}

Init ==
    /\ phase = "building"
    /\ pool = <<>>
    /\ mutex = NoThread
    /\ pc = [t \in Threads |-> "idle"]
    /\ local = [t \in Threads |-> NoObject]
    /\ answer = [t \in Threads |-> 0]
    /\ out = {}
    /\ live = {}
    /\ content = [o \in Objects |-> Fresh]

-----------------------------------------------------------------------------
(* The heap.                                                               *)

\* make_unique<T>() at an address that is free.
Construct(o) ==
    /\ o \in Objects \ live
    /\ live' = live \cup {o}
    /\ content' = [content EXCEPT ![o] = Fresh]

\* make_unique<T>() throws: there is no memory left, or the allocator says so.
MakeThrows == AllocFails \/ Objects \subseteq live

\* ~T() and the release of the memory, for every object of a set.
Destruct(S) ==
    /\ live' = live \ S
    /\ content' = [o \in Objects |-> IF o \in S THEN Fresh ELSE content[o]]

-----------------------------------------------------------------------------
(* The constructor: it fills the pool, and never looks at max_size_.       *)

Build(o) ==
    /\ phase = "building"
    /\ Len(pool) < InitialSize
    /\ Construct(o)
    /\ pool' = Append(pool, o)
    /\ UNCHANGED <<phase, mutex, pc, local, answer, out>>

\* An exception leaves the constructor: the members already built are destroyed.
BuildThrows ==
    /\ phase = "building"
    /\ Len(pool) < InitialSize
    /\ MakeThrows
    /\ phase' = "failed"
    /\ pool' = <<>>
    /\ Destruct(InPool)
    /\ UNCHANGED <<mutex, pc, local, answer, out>>

BuildDone ==
    /\ phase = "building"
    /\ Len(pool) >= InitialSize
    /\ phase' = "live"
    /\ UNCHANGED <<pool, mutex, pc, local, answer, out, live, content>>

\* The destructor: the owner of the pool calls it when no call is in progress.
Destroy ==
    /\ phase = "live"
    /\ \A t \in Threads : pc[t] = "idle"
    /\ phase' = "destroyed"
    /\ pool' = <<>>
    /\ Destruct(InPool)
    /\ UNCHANGED <<mutex, pc, local, answer, out>>

-----------------------------------------------------------------------------
(* std::lock_guard.                                                        *)

Lock(t, from, to) ==
    /\ pc[t] = from
    /\ mutex = NoThread
    /\ mutex' = t
    /\ pc' = [pc EXCEPT ![t] = to]

Unlock(t, from, to) ==
    /\ pc[t] = from
    /\ mutex' = NoThread
    /\ pc' = [pc EXCEPT ![t] = to]

Goto(t, from, to) ==
    /\ pc[t] = from
    /\ pc' = [pc EXCEPT ![t] = to]

-----------------------------------------------------------------------------
(* Acquire.                                                                *)

CallAcquire(t) ==
    /\ phase = "live"
    /\ Goto(t, "idle", "acquire.lock")
    /\ UNCHANGED <<phase, pool, mutex, local, answer, out, live, content>>

AcquireLock(t) ==
    /\ Lock(t, "acquire.lock", "acquire.test")
    /\ UNCHANGED <<phase, pool, local, answer, out, live, content>>

AcquireTest(t) ==
    /\ Goto(t, "acquire.test", IF pool = <<>> THEN "acquire.make" ELSE "acquire.move")
    /\ UNCHANGED <<phase, pool, mutex, local, answer, out, live, content>>

AcquireMake(t, o) ==
    /\ Goto(t, "acquire.make", "acquire.unlock")
    /\ Construct(o)
    /\ local' = [local EXCEPT ![t] = o]
    /\ UNCHANGED <<phase, pool, mutex, answer, out>>

\* MUTANT: the caught exception returns past the unlocking.
AcquireThrows_KeepsLock(t) ==
    /\ Goto(t, "acquire.make", "idle")
    /\ MakeThrows
    /\ UNCHANGED <<phase, pool, mutex, local, answer, out, live, content>>

\* The exception unwinds through the lock_guard; the caller gets no object.
AcquireThrows(t) ==
    /\ Goto(t, "acquire.make", "acquire.unlock")
    /\ MakeThrows
    /\ UNCHANGED <<phase, pool, mutex, local, answer, out, live, content>>

AcquireMove(t) ==
    /\ Goto(t, "acquire.move", "acquire.pop")
    /\ local' = [local EXCEPT ![t] = Head(pool)]
    /\ pool' = [pool EXCEPT ![1] = NoObject]
    /\ UNCHANGED <<phase, mutex, answer, out, live, content>>

\* MUTANT: the moved-from front is not popped.
AcquirePop_Forgotten(t) ==
    /\ Goto(t, "acquire.pop", "acquire.unlock")
    /\ UNCHANGED <<phase, pool, mutex, local, answer, out, live, content>>

AcquirePop(t) ==
    /\ Goto(t, "acquire.pop", "acquire.unlock")
    /\ pool' = Tail(pool)
    /\ UNCHANGED <<phase, mutex, local, answer, out, live, content>>

AcquireReturn(t) ==
    /\ Unlock(t, "acquire.unlock", "idle")
    /\ out' = (out \cup {local[t]}) \ {NoObject}
    /\ local' = [local EXCEPT ![t] = NoObject]
    /\ UNCHANGED <<phase, pool, answer, live, content>>

-----------------------------------------------------------------------------
(* Release.  The caller gives up its unique_ptr, which may be null.        *)

CallRelease(t, o) ==
    /\ phase = "live"
    /\ o \in out \cup {NoObject}
    /\ Goto(t, "idle", "release.entry")
    /\ local' = [local EXCEPT ![t] = o]
    /\ out' = out \ {o}
    /\ UNCHANGED <<phase, pool, mutex, answer, live, content>>

ReleaseNull(t) ==
    /\ Goto(t, "release.entry", "idle")
    /\ local[t] = NoObject
    /\ UNCHANGED <<phase, pool, mutex, local, answer, out, live, content>>

ReleaseLock(t) ==
    /\ local[t] # NoObject
    /\ Lock(t, "release.entry", "release.test")
    /\ UNCHANGED <<phase, pool, local, answer, out, live, content>>

\* MUTANT: the object past max_size is reset inside the critical section.
ReleaseTest_Resets(t) ==
    /\ Goto(t, "release.test",
            IF Len(pool) < MaxSize THEN "release.push" ELSE "release.unlock")
    /\ Destruct(IF Len(pool) < MaxSize THEN {} ELSE {local[t]})
    /\ UNCHANGED <<phase, pool, mutex, local, answer, out>>

\* MUTANT: one object too many.
ReleaseTest_OffByOne(t) ==
    /\ Goto(t, "release.test",
            IF Len(pool) <= MaxSize THEN "release.push" ELSE "release.unlock")
    /\ UNCHANGED <<phase, pool, mutex, local, answer, out, live, content>>

ReleaseTest(t) ==
    /\ Goto(t, "release.test",
            IF Len(pool) < MaxSize THEN "release.push" ELSE "release.unlock")
    /\ UNCHANGED <<phase, pool, mutex, local, answer, out, live, content>>

\* MUTANT: the pointer is copied into the pool and stays in obj too.
ReleasePush_Copies(t) ==
    /\ Goto(t, "release.push", "release.unlock")
    /\ pool' = Append(pool, local[t])
    /\ UNCHANGED <<phase, mutex, local, answer, out, live, content>>

ReleasePush(t) ==
    /\ Goto(t, "release.push", "release.unlock")
    /\ pool' = Append(pool, local[t])
    /\ local' = [local EXCEPT ![t] = NoObject]
    /\ UNCHANGED <<phase, mutex, answer, out, live, content>>

\* MUTANT: a failed push leaves the mutex locked.
ReleaseThrows_KeepsLock(t) ==
    /\ Goto(t, "release.push", "release.drop")
    /\ AllocFails
    /\ UNCHANGED <<phase, pool, mutex, local, answer, out, live, content>>

\* push throws before it moves obj; the parameter still owns the object.
ReleaseThrows(t) ==
    /\ Goto(t, "release.push", "release.unlock")
    /\ AllocFails
    /\ UNCHANGED <<phase, pool, mutex, local, answer, out, live, content>>

ReleaseUnlock(t) ==
    /\ Unlock(t, "release.unlock", "release.drop")
    /\ UNCHANGED <<phase, pool, local, answer, out, live, content>>

\* The parameter dies after the lock_guard, with the object if it kept it.
ReleaseDrop(t) ==
    /\ Goto(t, "release.drop", "idle")
    /\ Destruct({local[t]})
    /\ local' = [local EXCEPT ![t] = NoObject]
    /\ UNCHANGED <<phase, pool, mutex, answer, out>>

-----------------------------------------------------------------------------
(* GetPoolSize.                                                            *)

CallSize(t) ==
    /\ phase = "live"
    /\ Goto(t, "idle", "size.lock")
    /\ UNCHANGED <<phase, pool, mutex, local, answer, out, live, content>>

\* MUTANT: the size is read without the lock.
SizeLock_None(t) ==
    /\ Goto(t, "size.lock", "size.read")
    /\ UNCHANGED <<phase, pool, mutex, local, answer, out, live, content>>

SizeLock(t) ==
    /\ Lock(t, "size.lock", "size.read")
    /\ UNCHANGED <<phase, pool, local, answer, out, live, content>>

SizeRead(t) ==
    /\ Goto(t, "size.read", "size.unlock")
    /\ answer' = [answer EXCEPT ![t] = Len(pool)]
    /\ UNCHANGED <<phase, pool, mutex, local, out, live, content>>

SizeReturn(t) ==
    /\ Unlock(t, "size.unlock", "idle")
    /\ UNCHANGED <<phase, pool, local, answer, out, live, content>>

-----------------------------------------------------------------------------
(* What clients do with the objects they own.  The repository has no user  *)
(* of the pool: a unique_ptr lets its owner write to the object, pass it   *)
(* to any other thread (so out is one set), and destroy it, even after the *)
(* pool is gone.                                                           *)

Use(o, c) ==
    /\ o \in out
    /\ content' = [content EXCEPT ![o] = c]
    /\ UNCHANGED <<phase, pool, mutex, pc, local, answer, out, live>>

Drop(o) ==
    /\ o \in out
    /\ out' = out \ {o}
    /\ Destruct({o})
    /\ UNCHANGED <<phase, pool, mutex, pc, local, answer>>

-----------------------------------------------------------------------------
(* The steps of a call in progress, which the scheduler owes to the thread. *)
Step(t) ==
    \/ AcquireLock(t)
    \/ AcquireTest(t)
    \/ \E o \in Objects : AcquireMake(t, o)
    \/ AcquireThrows(t)
    \/ AcquireMove(t)
    \/ AcquirePop(t)
    \/ AcquireReturn(t)
    \/ ReleaseNull(t)
    \/ ReleaseLock(t)
    \/ ReleaseTest(t)
    \/ ReleasePush(t)
    \/ ReleaseThrows(t)
    \/ ReleaseUnlock(t)
    \/ ReleaseDrop(t)
    \/ SizeLock(t)
    \/ SizeRead(t)
    \/ SizeReturn(t)

Call(t) ==
    \/ CallAcquire(t)
    \/ \E o \in Slots : CallRelease(t, o)
    \/ CallSize(t)

Lifetime ==
    \/ \E o \in Objects : Build(o)
    \/ BuildThrows
    \/ BuildDone
    \/ Destroy

Client == \E o \in Objects : Drop(o) \/ \E c \in Contents : Use(o, c)

Next == Lifetime \/ Client \/ \E t \in Threads : Call(t) \/ Step(t)

Spec == Init /\ [][Next]_vars

\* A thread inside a call is not suspended forever.  Nothing is fair about
\* std::mutex: a waiting thread may be overtaken any number of times.
FairSpec == Spec /\ \A t \in Threads : WF_vars(Step(t))

-----------------------------------------------------------------------------
(* Correctness.                                                            *)

\* Every variable has the type of the member, local or heap it stands for.
TypeOK ==
    /\ phase \in Phases
    /\ pool \in Seq(Slots)
    /\ mutex \in Threads \cup {NoThread}
    /\ pc \in [Threads -> Critical \cup Outside]
    /\ local \in [Threads -> Slots]
    /\ answer \in [Threads -> Nat]
    /\ out \in SUBSET Objects
    /\ live \in SUBSET Objects
    /\ content \in [Objects -> Contents]

\* The unique_ptrs are a partition of the heap: across every hand-over between
\* client, call and pool no object gets two owners (it would be freed twice
\* or used by two clients) and none gets lost (it would leak).
OneOwner ==
    /\ live = InPool \cup InCalls \cup out
    /\ InPool \cap InCalls = {}
    /\ out \cap (InPool \cup InCalls) = {}
    /\ \A i, j \in 1..Len(pool) : pool[i] = pool[j] => i = j
    /\ \A t, u \in Threads : local[t] = local[u] => t = u \/ local[t] = NoObject

\* The null pointer that Acquire leaves at the front between move and pop is
\* never there for a thread that gets the lock: whoever finds the mutex free
\* finds only objects in the pool.
NoNullWhenFree ==
    mutex = NoThread => \A i \in 1..Len(pool) : pool[i] # NoObject

\* Test and push are one critical section, so concurrent releases do not take
\* the pool past max_size_, except that the constructor may have filled it
\* past that already.
SizeBound == Len(pool) <= Larger(InitialSize, MaxSize)

\* An object is never destroyed by a thread that holds the pool's mutex:
\* ~T() runs after the lock_guard is gone, so it cannot stall or deadlock
\* the pool.
DestroyedUnlocked ==
    [][\A t \in Threads : local[t] \in live \ live' => mutex # t]_vars

\* Once clients stop making calls, every call in progress returns: no path
\* through a call, the exceptions included, keeps the mutex or waits for ever.
CallsReturn ==
    <>[][\A t \in Threads : ~Call(t)]_vars
        => \A t \in Threads : <>[](pc[t] = "idle")

\* However the clients go on calling, the mutex is never kept: a thread that
\* got it gives it back.
LockGivenBack == \A t \in Threads : mutex = t ~> mutex # t

=============================================================================
