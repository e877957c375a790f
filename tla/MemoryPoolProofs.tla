-------------------------- MODULE MemoryPoolProofs --------------------------
(***************************************************************************)
(* Theorems about MemoryPool, for every set of threads and of addresses,   *)
(* every initial_size and max_size, with and without failing allocations:  *)
(* the invariants, and then that MemoryPool implements ObjectCache.        *)
(***************************************************************************)
EXTENDS MemoryPoolRefinement, SequenceTheorems, TLAPS

-----------------------------------------------------------------------------
(* The inductive invariant.                                                *)

\* The mutex is held by the thread inside a critical section, if there is one.
Exclusion == \A t \in Threads : pc[t] \in Critical <=> mutex = t

\* What obj is at each point of a call.
LocalState ==
    \A t \in Threads :
        /\ pc[t] \in {"idle", "acquire.lock", "acquire.test", "acquire.make",
                      "acquire.move", "size.lock", "size.read", "size.unlock"}
              => local[t] = NoObject
        /\ pc[t] \in {"release.test", "release.push"} => local[t] # NoObject

\* What a test made under the mutex still says at the step that relies on it.
TestsHold ==
    \A t \in Threads :
        /\ pc[t] = "acquire.make" => pool = <<>>
        /\ pc[t] = "acquire.move" => pool # <<>>
        /\ pc[t] = "release.push" => Len(pool) < MaxSize

\* The pool holds a null pointer exactly when Acquire is between move and pop,
\* and then at the front.
NullAtFront ==
    /\ \A t \in Threads : pc[t] = "acquire.pop" => pool # <<>> /\ pool[1] = NoObject
    /\ \A i \in 1..Len(pool) :
           pool[i] = NoObject => i = 1 /\ \E t \in Threads : pc[t] = "acquire.pop"

\* Calls are made only of a pool in use, and the constructor stops in time.
Lifecycle ==
    /\ phase # "live" => \A t \in Threads : pc[t] = "idle"
    /\ phase = "building" => Len(pool) <= InitialSize

\* An address that is not in use holds no old content.
DeadIsFresh == \A o \in Objects \ live : content[o] = Fresh

Control == Exclusion /\ LocalState /\ TestsHold /\ NullAtFront /\ Lifecycle

IInv == TypeOK /\ Control /\ SizeBound /\ OneOwner /\ DeadIsFresh

-----------------------------------------------------------------------------
(* What the operations of std::queue do to a sequence of pointers.         *)

LEMMA Pushed ==
    ASSUME NEW s \in Seq(Slots), NEW x \in Slots
    PROVE  /\ Append(s, x) \in Seq(Slots)
           /\ Len(Append(s, x)) = Len(s) + 1
           /\ \A i \in 1..Len(s) : Append(s, x)[i] = s[i]
           /\ Append(s, x)[Len(s) + 1] = x
  BY AppendProperties

LEMMA Popped ==
    ASSUME NEW s \in Seq(Slots), s # <<>>
    PROVE  /\ Tail(s) \in Seq(Slots)
           /\ Len(s) \in Nat \ {0}
           /\ Len(Tail(s)) = Len(s) - 1
           /\ \A i \in 1..Len(Tail(s)) : Tail(s)[i] = s[i + 1]
           /\ Head(s) = s[1]
           /\ Head(s) \in Slots
  BY HeadTailProperties, EmptySeq

LEMMA Moved ==
    ASSUME NEW s \in Seq(Slots), s # <<>>, NEW x \in Slots
    PROVE  /\ [s EXCEPT ![1] = x] \in Seq(Slots)
           /\ [s EXCEPT ![1] = x] # <<>>
           /\ Len([s EXCEPT ![1] = x]) = Len(s)
           /\ [s EXCEPT ![1] = x][1] = x
           /\ \A i \in 2..Len(s) : [s EXCEPT ![1] = x][i] = s[i]
  <1>1. 1 \in 1..Len(s) /\ Len(s) \in Nat
    BY EmptySeq, LenProperties
  <1>2. QED
    BY <1>1, ExceptSeq, LenProperties, EmptySeq

LEMMA InitIInv == Init => IInv
  BY NamesAssumption, SizeAssumption, EmptySeq
     DEF Init, IInv, TypeOK, Control, Exclusion, LocalState, TestsHold,
         NullAtFront, Lifecycle, SizeBound, OneOwner, DeadIsFresh, Larger,
         Slots, Phases, Critical, Outside, InPool, InCalls

-----------------------------------------------------------------------------
(* Types.                                                                  *)

LEMMA ConstructType ==
    ASSUME TypeOK, NEW o \in Objects, Construct(o)
    PROVE  (live \in SUBSET Objects /\ content \in [Objects -> Contents])'
  BY NamesAssumption DEF TypeOK, Construct

LEMMA DestructType ==
    ASSUME TypeOK, NEW S, Destruct(S)
    PROVE  (live \in SUBSET Objects /\ content \in [Objects -> Contents])'
  BY NamesAssumption DEF TypeOK, Destruct

LEMMA TypeStep == TypeOK /\ Control /\ [Next]_vars => TypeOK'
  <1> SUFFICES ASSUME TypeOK, Control, [Next]_vars
               PROVE  TypeOK'
    OBVIOUS
  <1>0. CASE UNCHANGED vars
    BY <1>0 DEF TypeOK, vars
  <1>1. CASE Lifetime
    <2>1. ASSUME NEW o \in Objects, Build(o)
          PROVE  TypeOK'
      BY <2>1, ConstructType, Pushed DEF TypeOK, Build, Slots
    <2>2. CASE BuildThrows
      BY <2>2, DestructType, EmptySeq DEF TypeOK, BuildThrows, Phases
    <2>3. CASE BuildDone
      BY <2>3 DEF TypeOK, BuildDone, Phases
    <2>4. CASE Destroy
      BY <2>4, DestructType, EmptySeq DEF TypeOK, Destroy, Phases
    <2>5. QED
      BY <1>1, <2>1, <2>2, <2>3, <2>4 DEF Lifetime
  <1>2. CASE Client
    <2>1. ASSUME NEW o \in Objects, Drop(o)
          PROVE  TypeOK'
      BY <2>1, DestructType DEF TypeOK, Drop
    <2>2. ASSUME NEW o \in Objects, NEW c \in Contents, Use(o, c)
          PROVE  TypeOK'
      BY <2>2 DEF TypeOK, Use
    <2>3. QED
      BY <1>2, <2>1, <2>2 DEF Client
  <1>3. ASSUME NEW t \in Threads, Call(t)
        PROVE  TypeOK'
    <2>1. CASE CallAcquire(t)
      BY <2>1 DEF TypeOK, CallAcquire, Goto, Critical, Outside
    <2>2. ASSUME NEW o \in Slots, CallRelease(t, o)
          PROVE  TypeOK'
      BY <2>2 DEF TypeOK, CallRelease, Goto, Critical, Outside
    <2>3. CASE CallSize(t)
      BY <2>3 DEF TypeOK, CallSize, Goto, Critical, Outside
    <2>4. QED
      BY <1>3, <2>1, <2>2, <2>3 DEF Call
  <1>4. ASSUME NEW t \in Threads, Step(t)
        PROVE  TypeOK'
    <2> USE DEF TypeOK, Goto, Lock, Unlock, Critical, Outside
    <2>1. CASE AcquireLock(t)
      BY <2>1 DEF AcquireLock
    <2>2. CASE AcquireTest(t)
      BY <2>2 DEF AcquireTest
    <2>3. ASSUME NEW o \in Objects, AcquireMake(t, o)
          PROVE  TypeOK'
      BY <2>3, ConstructType DEF AcquireMake, Slots
    <2>4. CASE AcquireThrows(t)
      BY <2>4 DEF AcquireThrows
    <2>5. CASE AcquireMove(t)
      <3>1. pool # <<>>
        BY <2>5 DEF AcquireMove, Control, TestsHold
      <3>2. Head(pool) \in Slots /\ [pool EXCEPT ![1] = NoObject] \in Seq(Slots)
        BY <3>1, Popped, Moved DEF Slots
      <3>3. QED
        BY <2>5, <3>2 DEF AcquireMove
    <2>6. CASE AcquirePop(t)
      <3>1. pool # <<>>
        BY <2>6 DEF AcquirePop, Control, NullAtFront
      <3>2. QED
        BY <2>6, <3>1, Popped DEF AcquirePop
    <2>7. CASE AcquireReturn(t)
      BY <2>7 DEF AcquireReturn, Slots
    <2>8. CASE ReleaseNull(t)
      BY <2>8 DEF ReleaseNull
    <2>9. CASE ReleaseLock(t)
      BY <2>9 DEF ReleaseLock
    <2>10. CASE ReleaseTest(t)
      BY <2>10 DEF ReleaseTest
    <2>11. CASE ReleasePush(t)
      BY <2>11, Pushed DEF ReleasePush, Slots
    <2>12. CASE ReleaseThrows(t)
      BY <2>12 DEF ReleaseThrows
    <2>13. CASE ReleaseUnlock(t)
      BY <2>13 DEF ReleaseUnlock
    <2>14. CASE ReleaseDrop(t)
      BY <2>14, DestructType DEF ReleaseDrop, Slots
    <2>15. CASE SizeLock(t)
      BY <2>15 DEF SizeLock
    <2>16. CASE SizeRead(t)
      BY <2>16, LenProperties DEF SizeRead
    <2>17. CASE SizeReturn(t)
      BY <2>17 DEF SizeReturn
    <2>18. QED
      BY <1>4, <2>1, <2>2, <2>3, <2>4, <2>5, <2>6, <2>7, <2>8, <2>9, <2>10,
         <2>11, <2>12, <2>13, <2>14, <2>15, <2>16, <2>17 DEF Step
  <1>5. QED
    BY <1>0, <1>1, <1>2, <1>3, <1>4 DEF Next

-----------------------------------------------------------------------------
(* Control: the mutex, the tests made under it, and the front of the pool. *)

\* A step of the mutex: of the thread that takes it, keeps it or returns it.
LEMMA ExclusionStep == TypeOK /\ Control /\ [Next]_vars => Exclusion'
  <1> SUFFICES ASSUME TypeOK, Exclusion, [Next]_vars
               PROVE  Exclusion'
    BY DEF Control
  <1> USE NamesAssumption DEF TypeOK, Exclusion, Critical, Outside
  <1>0. CASE UNCHANGED vars
    BY <1>0 DEF vars
  <1>1. CASE Lifetime
    BY <1>1 DEF Lifetime, Build, BuildThrows, BuildDone, Destroy
  <1>2. CASE Client
    BY <1>2 DEF Client, Drop, Use
  <1>3. ASSUME NEW t \in Threads, Call(t)
        PROVE  Exclusion'
    BY <1>3 DEF Call, CallAcquire, CallRelease, CallSize, Goto
  <1>4. ASSUME NEW t \in Threads, Step(t)
        PROVE  Exclusion'
    <2>1. CASE AcquireLock(t) \/ ReleaseLock(t) \/ SizeLock(t)
      BY <2>1 DEF AcquireLock, ReleaseLock, SizeLock, Lock
    <2>2. CASE AcquireReturn(t) \/ ReleaseUnlock(t) \/ SizeReturn(t)
      BY <2>2 DEF AcquireReturn, ReleaseUnlock, SizeReturn, Unlock
    <2>3. CASE AcquireTest(t) \/ AcquireThrows(t) \/ AcquireMove(t) \/ AcquirePop(t)
      BY <2>3 DEF AcquireTest, AcquireThrows, AcquireMove, AcquirePop, Goto
    <2>4. CASE \E o \in Objects : AcquireMake(t, o)
      BY <2>4 DEF AcquireMake, Goto
    <2>5. CASE ReleaseNull(t) \/ ReleaseTest(t) \/ ReleasePush(t)
                 \/ ReleaseThrows(t) \/ ReleaseDrop(t) \/ SizeRead(t)
      BY <2>5 DEF ReleaseNull, ReleaseTest, ReleasePush, ReleaseThrows,
                  ReleaseDrop, SizeRead, Goto
    <2>6. QED
      BY <1>4, <2>1, <2>2, <2>3, <2>4, <2>5 DEF Step
  <1>5. QED
    BY <1>0, <1>1, <1>2, <1>3, <1>4 DEF Next

LEMMA LocalStep == TypeOK /\ Control /\ [Next]_vars => LocalState'
  <1> SUFFICES ASSUME TypeOK, LocalState, NullAtFront, [Next]_vars
               PROVE  LocalState'
    BY DEF Control
  <1> USE NamesAssumption DEF TypeOK, LocalState, Critical, Outside, Slots
  <1>0. CASE UNCHANGED vars
    BY <1>0 DEF vars
  <1>1. CASE Lifetime
    BY <1>1 DEF Lifetime, Build, BuildThrows, BuildDone, Destroy
  <1>2. CASE Client
    BY <1>2 DEF Client, Drop, Use
  <1>3. ASSUME NEW t \in Threads, Call(t)
        PROVE  LocalState'
    BY <1>3 DEF Call, CallAcquire, CallRelease, CallSize, Goto
  <1>4. ASSUME NEW t \in Threads, Step(t)
        PROVE  LocalState'
    <2>1. CASE AcquireLock(t) \/ ReleaseLock(t) \/ SizeLock(t)
      BY <2>1 DEF AcquireLock, ReleaseLock, SizeLock, Lock
    <2>2. CASE AcquireReturn(t) \/ ReleaseUnlock(t) \/ SizeReturn(t)
      BY <2>2 DEF AcquireReturn, ReleaseUnlock, SizeReturn, Unlock
    <2>3. CASE AcquireTest(t) \/ AcquireThrows(t) \/ AcquireMove(t) \/ AcquirePop(t)
      BY <2>3 DEF AcquireTest, AcquireThrows, AcquireMove, AcquirePop, Goto
    <2>4. CASE \E o \in Objects : AcquireMake(t, o)
      BY <2>4 DEF AcquireMake, Goto
    <2>5. CASE ReleaseNull(t) \/ ReleaseTest(t) \/ ReleasePush(t)
                 \/ ReleaseThrows(t) \/ ReleaseDrop(t) \/ SizeRead(t)
      BY <2>5 DEF ReleaseNull, ReleaseTest, ReleasePush, ReleaseThrows,
                  ReleaseDrop, SizeRead, Goto
    <2>6. QED
      BY <1>4, <2>1, <2>2, <2>3, <2>4, <2>5 DEF Step
  <1>5. QED
    BY <1>0, <1>1, <1>2, <1>3, <1>4 DEF Next

LEMMA LifecycleStep == TypeOK /\ Control /\ [Next]_vars => Lifecycle'
  <1> SUFFICES ASSUME TypeOK, Control, [Next]_vars
               PROVE  Lifecycle'
    OBVIOUS
  <1> USE SizeAssumption DEF TypeOK, Control, Lifecycle
  <1>0. CASE UNCHANGED vars
    BY <1>0 DEF vars
  <1>1. ASSUME NEW o \in Objects, Build(o)
        PROVE  Lifecycle'
    BY <1>1, Pushed, LenProperties DEF Build, Slots
  <1>2. CASE BuildThrows \/ BuildDone \/ Destroy
    BY <1>2 DEF BuildThrows, BuildDone, Destroy, Phases
  <1>3. CASE Client
    BY <1>3 DEF Client, Drop, Use
  <1>4. ASSUME NEW t \in Threads, Call(t)
        PROVE  Lifecycle'
    BY <1>4 DEF Call, CallAcquire, CallRelease, CallSize
  <1>5. ASSUME NEW t \in Threads, Step(t)
        PROVE  Lifecycle'
    <2>1. pc[t] # "idle" /\ phase' = phase
      BY <1>5 DEF Step, AcquireLock, ReleaseLock, SizeLock, AcquireReturn,
           ReleaseUnlock, SizeReturn, AcquireTest, AcquireThrows, AcquireMove,
           AcquirePop, AcquireMake, ReleaseNull, ReleaseTest, ReleasePush,
           ReleaseThrows, ReleaseDrop, SizeRead, Lock, Unlock, Goto
    <2>2. QED
      BY <2>1
  <1>6. QED
    BY <1>0, <1>1, <1>2, <1>3, <1>4, <1>5 DEF Next, Lifetime

\* What a thread tested stays true: any other step that changes the pool is
\* made by a thread that holds the mutex, or while no call is in progress.
LEMMA TestsStep == TypeOK /\ Control /\ [Next]_vars => TestsHold'
  <1> SUFFICES ASSUME TypeOK, Exclusion, TestsHold, Lifecycle, [Next]_vars
               PROVE  TestsHold'
    BY DEF Control
  <1> USE DEF TypeOK, TestsHold
  <1>0. CASE UNCHANGED vars
    BY <1>0 DEF vars
  <1>1. CASE Lifetime
    BY <1>1 DEF Lifetime, Build, BuildThrows, BuildDone, Destroy, Lifecycle
  <1>2. CASE Client
    BY <1>2 DEF Client, Drop, Use
  <1>3. ASSUME NEW t \in Threads, Call(t)
        PROVE  TestsHold'
    BY <1>3 DEF Call, CallAcquire, CallRelease, CallSize, Goto
  <1>4. ASSUME NEW t \in Threads, Step(t)
        PROVE  TestsHold'
    <2>1. CASE AcquireLock(t) \/ ReleaseLock(t) \/ SizeLock(t)
      BY <2>1 DEF AcquireLock, ReleaseLock, SizeLock, Lock
    <2>2. CASE AcquireReturn(t) \/ ReleaseUnlock(t) \/ SizeReturn(t)
      BY <2>2 DEF AcquireReturn, ReleaseUnlock, SizeReturn, Unlock
    <2>3. CASE AcquireTest(t) \/ AcquireThrows(t)
      BY <2>3 DEF AcquireTest, AcquireThrows, Goto
    <2>4. CASE \E o \in Objects : AcquireMake(t, o)
      BY <2>4 DEF AcquireMake, Goto
    <2>5. CASE AcquireMove(t) \/ AcquirePop(t) \/ ReleasePush(t)
      BY <2>5 DEF AcquireMove, AcquirePop, ReleasePush, Goto, Exclusion, Critical
    <2>6. CASE ReleaseNull(t) \/ ReleaseTest(t) \/ ReleaseThrows(t)
                 \/ ReleaseDrop(t) \/ SizeRead(t)
      BY <2>6 DEF ReleaseNull, ReleaseTest, ReleaseThrows, ReleaseDrop,
                  SizeRead, Goto
    <2>7. QED
      BY <1>4, <2>1, <2>2, <2>3, <2>4, <2>5, <2>6 DEF Step
  <1>5. QED
    BY <1>0, <1>1, <1>2, <1>3, <1>4 DEF Next

\* The null pointer comes with move, leaves with pop, and nobody is between.
LEMMA FrontStep == TypeOK /\ Control /\ [Next]_vars => NullAtFront'
  <1> SUFFICES ASSUME TypeOK, Control, [Next]_vars
               PROVE  NullAtFront'
    OBVIOUS
  <1> USE NamesAssumption DEF TypeOK, NullAtFront, Control
  <1>0. CASE UNCHANGED vars
    BY <1>0 DEF vars
  <1>1. CASE Lifetime
    <2>1. ASSUME NEW o \in Objects, Build(o)
          PROVE  NullAtFront'
      <3>1. \A t \in Threads : pc[t] = "idle" /\ pc'[t] = "idle"
        BY <2>1 DEF Build, Lifecycle
      <3>2. \A i \in 1..Len(pool) : pool[i] # NoObject
        BY <3>1
      <3>3. \A i \in 1..Len(pool') : pool'[i] # NoObject
        BY <2>1, <3>2, Pushed, LenProperties DEF Build, Slots
      <3>4. QED
        BY <3>1, <3>3
    <2>2. CASE BuildThrows \/ Destroy
      <3>1. pool' = <<>> /\ \A t \in Threads : pc'[t] = "idle"
        BY <2>2 DEF BuildThrows, Destroy, Lifecycle
      <3>2. QED
        BY <3>1, EmptySeq
    <2>3. CASE BuildDone
      BY <2>3 DEF BuildDone
    <2>4. QED
      BY <1>1, <2>1, <2>2, <2>3 DEF Lifetime
  <1>2. CASE Client
    BY <1>2 DEF Client, Drop, Use
  <1>3. ASSUME NEW t \in Threads, Call(t)
        PROVE  NullAtFront'
    BY <1>3 DEF Call, CallAcquire, CallRelease, CallSize, Goto
  <1>4. ASSUME NEW t \in Threads, Step(t)
        PROVE  NullAtFront'
    <2>0. ASSUME pool' = pool, pc[t] # "acquire.pop", pc'[t] # "acquire.pop",
                 \A u \in Threads \ {t} : pc'[u] = pc[u]
          PROVE  NullAtFront'
      BY <2>0
    <2>1. CASE AcquireLock(t) \/ ReleaseLock(t) \/ SizeLock(t)
      BY <2>0, <2>1 DEF AcquireLock, ReleaseLock, SizeLock, Lock
    <2>2. CASE AcquireReturn(t) \/ ReleaseUnlock(t) \/ SizeReturn(t)
      BY <2>0, <2>2 DEF AcquireReturn, ReleaseUnlock, SizeReturn, Unlock
    <2>3. CASE AcquireTest(t) \/ AcquireThrows(t)
      BY <2>0, <2>3 DEF AcquireTest, AcquireThrows, Goto
    <2>4. CASE \E o \in Objects : AcquireMake(t, o)
      BY <2>0, <2>4 DEF AcquireMake, Goto
    <2>5. CASE ReleaseNull(t) \/ ReleaseTest(t) \/ ReleaseThrows(t)
                 \/ ReleaseDrop(t) \/ SizeRead(t)
      BY <2>0, <2>5 DEF ReleaseNull, ReleaseTest, ReleaseThrows, ReleaseDrop,
                  SizeRead, Goto
    <2>6. CASE AcquireMove(t) \/ AcquirePop(t) \/ ReleasePush(t)
      <3>1. \A u \in Threads : pc[u] = "acquire.pop" => u = t
        BY <2>6 DEF AcquireMove, AcquirePop, ReleasePush, Goto, Exclusion, Critical
      <3>2. CASE AcquireMove(t)
        <4>1. pool # <<>> /\ \A i \in 1..Len(pool) : pool[i] # NoObject
          BY <3>1, <3>2 DEF AcquireMove, Goto, TestsHold
        <4>2. pc'[t] = "acquire.pop" /\ \A u \in Threads \ {t} : pc'[u] = pc[u]
          BY <3>2 DEF AcquireMove, Goto
        <4>3. pool' # <<>> /\ pool'[1] = NoObject
          BY <3>2, <4>1, Moved DEF AcquireMove, Slots
        <4>4. \A i \in 1..Len(pool') : pool'[i] = NoObject => i = 1
          BY <3>2, <4>1, Moved, LenProperties DEF AcquireMove, Slots
        <4>5. QED
          BY <3>1, <4>2, <4>3, <4>4
      <3>3. CASE AcquirePop(t)
        <4>1. pool # <<>> /\ pool[1] = NoObject
          BY <3>3 DEF AcquirePop, Goto
        <4>2. \A u \in Threads : pc'[u] # "acquire.pop"
          BY <3>1, <3>3 DEF AcquirePop, Goto
        <4>3. \A i \in 1..Len(pool) : pool[i] = NoObject => i = 1
          OBVIOUS
        <4>4. \A i \in 1..Len(pool') : pool'[i] # NoObject
          BY <3>3, <4>1, <4>3, Popped DEF AcquirePop
        <4>5. QED
          BY <4>2, <4>4
      <3>4. CASE ReleasePush(t)
        <4>1. \A i \in 1..Len(pool) : pool[i] # NoObject
          BY <3>1, <3>4 DEF ReleasePush, Goto
        <4>2. \A u \in Threads : pc'[u] # "acquire.pop"
          BY <3>1, <3>4 DEF ReleasePush, Goto
        <4>3. local[t] # NoObject /\ local[t] \in Slots
          BY <3>4 DEF ReleasePush, Goto, LocalState
        <4>4. \A i \in 1..Len(pool') : pool'[i] # NoObject
          BY <3>4, <4>1, <4>3, Pushed, LenProperties DEF ReleasePush
        <4>5. QED
          BY <4>2, <4>4
      <3>5. QED
        BY <2>6, <3>2, <3>3, <3>4
    <2>7. QED
      BY <1>4, <2>1, <2>2, <2>3, <2>4, <2>5, <2>6 DEF Step
  <1>5. QED
    BY <1>0, <1>1, <1>2, <1>3, <1>4 DEF Next

\* The bound: only Build and ReleasePush make the pool longer.
LEMMA BoundStep == TypeOK /\ Control /\ SizeBound /\ [Next]_vars => SizeBound'
  <1> SUFFICES ASSUME TypeOK, Control, SizeBound, [Next]_vars
               PROVE  SizeBound'
    OBVIOUS
  <1> USE SizeAssumption, LenProperties DEF SizeBound, Larger
  <1>0. CASE UNCHANGED pool
    BY <1>0
  <1>1. ASSUME NEW o \in Objects, Build(o)
        PROVE  SizeBound'
    BY <1>1, Pushed DEF TypeOK, Build, Slots
  <1>2. CASE BuildThrows \/ Destroy
    BY <1>2, EmptySeq DEF BuildThrows, Destroy
  <1>3. ASSUME NEW t \in Threads, AcquireMove(t)
        PROVE  SizeBound'
    BY <1>3, Moved DEF AcquireMove, TypeOK, Control, TestsHold, Slots, Goto
  <1>4. ASSUME NEW t \in Threads, AcquirePop(t)
        PROVE  SizeBound'
    <2>1. pool # <<>> /\ pool \in Seq(Slots) /\ pool' = Tail(pool)
      BY <1>4 DEF AcquirePop, TypeOK, Control, NullAtFront, Goto
    <2>2. QED
      BY <2>1, Popped
  <1>5. ASSUME NEW t \in Threads, ReleasePush(t)
        PROVE  SizeBound'
    <2>1. /\ Len(pool) < MaxSize
          /\ pool \in Seq(Slots)
          /\ local[t] \in Slots
          /\ pool' = Append(pool, local[t])
      BY <1>5 DEF ReleasePush, TypeOK, Control, TestsHold, Goto
    <2>2. QED
      BY <2>1, Pushed
  <1>6. QED
    BY <1>0, <1>1, <1>2, <1>3, <1>4, <1>5
       DEF Next, vars, Lifetime, BuildDone, Client, Drop, Use, Call, CallAcquire,
           CallRelease, CallSize, Step, AcquireLock, ReleaseLock, SizeLock,
           AcquireReturn, ReleaseUnlock, SizeReturn, AcquireTest, AcquireThrows,
           AcquireMake, ReleaseNull, ReleaseTest, ReleaseThrows, ReleaseDrop,
           SizeRead

LEMMA ControlStep == TypeOK /\ Control /\ [Next]_vars => Control'
  BY ExclusionStep, LocalStep, TestsStep, FrontStep, LifecycleStep DEF Control

-----------------------------------------------------------------------------
(* Ownership.                                                              *)

\* The objects in a sequence of pointers, and whether it names any twice.
Elems(s) == {s[i] : i \in 1..Len(s)} \ {NoObject}

NoTwice(s) == \A i, j \in 1..Len(s) : s[i] = s[j] => i = j

LEMMA PushedElems ==
    ASSUME NEW s \in Seq(Slots), NEW x \in Objects, x \notin Elems(s), NoTwice(s)
    PROVE  /\ Elems(Append(s, x)) = Elems(s) \cup {x}
           /\ NoTwice(Append(s, x))
  <1> DEFINE r == Append(s, x)
  <1>1. /\ Len(s) \in Nat
        /\ Len(r) = Len(s) + 1
        /\ \A i \in 1..Len(s) : r[i] = s[i]
        /\ r[Len(s) + 1] = x
    BY Pushed, LenProperties DEF Slots
  <1>2. \A i \in 1..Len(s) : s[i] # x
    BY NamesAssumption DEF Elems
  <1> HIDE DEF r
  <1>3. Elems(r) = Elems(s) \cup {x}
    <2>1. \A i \in 1..Len(r) : i \in 1..Len(s) \/ i = Len(s) + 1
      BY <1>1
    <2>2. 1..Len(s) \subseteq 1..Len(r) /\ Len(s) + 1 \in 1..Len(r)
      BY <1>1
    <2>3. QED
      BY <1>1, <2>1, <2>2, NamesAssumption DEF Elems
  <1>4. NoTwice(r)
    BY <1>1, <1>2 DEF NoTwice
  <1>5. QED
    BY <1>3, <1>4 DEF r

LEMMA MovedElems ==
    ASSUME NEW s \in Seq(Slots), s # <<>>, Head(s) # NoObject, NoTwice(s),
           NoObject \notin {s[i] : i \in 1..Len(s)}
    PROVE  /\ Elems([s EXCEPT ![1] = NoObject]) = Elems(s) \ {Head(s)}
           /\ Head(s) \in Elems(s)
           /\ NoTwice([s EXCEPT ![1] = NoObject])
  <1> DEFINE r == [s EXCEPT ![1] = NoObject]
  <1>1. /\ Len(s) \in Nat \ {0}
        /\ Len(r) = Len(s)
        /\ r[1] = NoObject
        /\ \A i \in 2..Len(s) : r[i] = s[i]
        /\ Head(s) = s[1]
    BY Moved, Popped DEF Slots
  <1> HIDE DEF r
  <1>2. \A i \in 1..Len(s) : i = 1 \/ i \in 2..Len(s)
    BY <1>1
  <1>3. \A i \in 2..Len(s) : i \in 1..Len(s) /\ s[i] # s[1]
    BY <1>1 DEF NoTwice
  <1>4. Elems(r) = Elems(s) \ {Head(s)}
    BY <1>1, <1>2, <1>3 DEF Elems
  <1>5. Head(s) \in Elems(s)
    BY <1>1 DEF Elems
  <1>6. NoTwice(r)
    BY <1>1, <1>2, <1>3 DEF NoTwice
  <1>7. QED
    BY <1>4, <1>5, <1>6 DEF r

LEMMA PoppedElems ==
    ASSUME NEW s \in Seq(Slots), s # <<>>, NoTwice(s)
    PROVE  /\ Elems(Tail(s)) = Elems(s) \ {Head(s)}
           /\ NoTwice(Tail(s))
  <1> DEFINE r == Tail(s)
  <1>1. /\ Len(s) \in Nat \ {0}
        /\ Len(r) = Len(s) - 1
        /\ \A i \in 1..Len(r) : r[i] = s[i + 1]
        /\ Head(s) = s[1]
    BY Popped
  <1> HIDE DEF r
  <1>2. \A i \in 1..Len(r) : i + 1 \in 2..Len(s) /\ s[i + 1] # s[1]
    BY <1>1 DEF NoTwice
  <1>3. \A i \in 2..Len(s) : i - 1 \in 1..Len(r) /\ r[i - 1] = s[i]
    BY <1>1
  <1>4. Elems(r) = Elems(s) \ {Head(s)}
    BY <1>1, <1>2, <1>3 DEF Elems
  <1>5. NoTwice(r)
    BY <1>1, <1>2 DEF NoTwice
  <1>6. QED
    BY <1>4, <1>5 DEF r

\* A call that takes a pointer, or gives one up.
LEMMA LocalTakes ==
    ASSUME TypeOK, OneOwner, NEW t \in Threads, NEW x \in Slots,
           local[t] = NoObject, x \notin InCalls,
           local' = [local EXCEPT ![t] = x]
    PROVE  /\ InCalls' = InCalls \cup ({x} \ {NoObject})
           /\ \A u, v \in Threads :
                  local'[u] = local'[v] => u = v \/ local'[u] = NoObject
  BY DEF TypeOK, OneOwner, InCalls

LEMMA LocalGives ==
    ASSUME TypeOK, OneOwner, NEW t \in Threads,
           local' = [local EXCEPT ![t] = NoObject]
    PROVE  /\ InCalls' = InCalls \ {local[t]}
           /\ local[t] # NoObject => local[t] \in InCalls
           /\ \A u, v \in Threads :
                  local'[u] = local'[v] => u = v \/ local'[u] = NoObject
  BY DEF TypeOK, OneOwner, InCalls

LEMMA OwnerStep == TypeOK /\ Control /\ OneOwner /\ [Next]_vars => OneOwner'
  <1> SUFFICES ASSUME TypeOK, Control, OneOwner, [Next]_vars
               PROVE  OneOwner'
    OBVIOUS
  <1>a. InPool = Elems(pool) /\ InPool' = Elems(pool')
    BY DEF InPool, Elems
  <1>b. pool \in Seq(Slots) /\ NoTwice(pool)
    BY DEF TypeOK, OneOwner, NoTwice
  <1>0. CASE UNCHANGED <<pool, local, out, live>>
    <2>1. InPool' = InPool /\ InCalls' = InCalls
      BY <1>0 DEF InPool, InCalls
    <2>2. QED
      BY <1>0, <2>1 DEF OneOwner
  <1>1. ASSUME NEW o \in Objects, Build(o)
        PROVE  OneOwner'
    <2>1. o \notin Elems(pool)
      BY <1>1, <1>a DEF Build, Construct, OneOwner
    <2>2. InPool' = InPool \cup {o} /\ NoTwice(pool')
      BY <1>1, <1>a, <1>b, <2>1, PushedElems DEF Build
    <2>3. QED
      BY <1>1, <2>2 DEF Build, Construct, OneOwner, InCalls, NoTwice
  <1>2. CASE BuildThrows \/ Destroy
    <2>1. InPool' = {} /\ NoTwice(pool')
      BY <1>2, <1>a, EmptySeq DEF BuildThrows, Destroy, Elems, NoTwice
    <2>2. QED
      BY <1>2, <2>1 DEF BuildThrows, Destroy, Destruct, OneOwner, InCalls, NoTwice
  <1>3. ASSUME NEW o \in Objects, Drop(o)
        PROVE  OneOwner'
    BY <1>3 DEF Drop, Destruct, OneOwner, InPool, InCalls
  <1>4. ASSUME NEW t \in Threads, NEW o \in Slots, CallRelease(t, o)
        PROVE  OneOwner'
    <2>1. local[t] = NoObject /\ (o \in out \/ o = NoObject) /\ o \notin InCalls
      BY <1>4 DEF CallRelease, Goto, Control, LocalState, OneOwner, InCalls
    <2>2. /\ InCalls' = InCalls \cup ({o} \ {NoObject})
          /\ \A u, v \in Threads :
                 local'[u] = local'[v] => u = v \/ local'[u] = NoObject
      BY <1>4, <2>1, LocalTakes DEF CallRelease
    <2>3. out' = out \ {o} /\ NoObject \notin out
      BY <1>4, NamesAssumption DEF CallRelease, TypeOK
    <2>4. QED
      BY <1>4, <2>1, <2>2, <2>3 DEF CallRelease, OneOwner, InPool
  <1>5. ASSUME NEW t \in Threads, NEW o \in Objects, AcquireMake(t, o)
        PROVE  OneOwner'
    <2>1. local[t] = NoObject /\ o \notin InCalls /\ o # NoObject
      BY <1>5, NamesAssumption
         DEF AcquireMake, Goto, Construct, Control, LocalState, OneOwner
    <2>2. /\ InCalls' = InCalls \cup {o}
          /\ \A u, v \in Threads :
                 local'[u] = local'[v] => u = v \/ local'[u] = NoObject
      BY <1>5, <2>1, LocalTakes DEF AcquireMake, Slots
    <2>3. QED
      BY <1>5, <2>1, <2>2 DEF AcquireMake, Construct, OneOwner, InPool
  <1>6. ASSUME NEW t \in Threads, AcquireMove(t)
        PROVE  OneOwner'
    <2>1. /\ pool # <<>>
          /\ local[t] = NoObject
          /\ \A i \in 1..Len(pool) : pool[i] # NoObject
      BY <1>6, NamesAssumption
         DEF AcquireMove, Goto, TypeOK, Control, TestsHold, LocalState, NullAtFront,
             Exclusion, Critical
    <2>2. /\ Head(pool) # NoObject
          /\ Head(pool) \in Slots
      BY <1>b, <2>1, Popped
    <2>3. /\ InPool' = InPool \ {Head(pool)}
          /\ Head(pool) \in InPool
          /\ NoTwice(pool')
      BY <1>6, <1>a, <1>b, <2>1, <2>2, MovedElems DEF AcquireMove
    <2>4. Head(pool) \notin InCalls
      BY <2>3 DEF OneOwner
    <2>5. /\ InCalls' = InCalls \cup {Head(pool)}
          /\ \A u, v \in Threads :
                 local'[u] = local'[v] => u = v \/ local'[u] = NoObject
      BY <1>6, <2>1, <2>2, <2>4, LocalTakes DEF AcquireMove
    <2>6. QED
      BY <1>6, <2>3, <2>4, <2>5 DEF AcquireMove, OneOwner, NoTwice
  <1>7. ASSUME NEW t \in Threads, AcquirePop(t)
        PROVE  OneOwner'
    <2>1. pool # <<>> /\ pool[1] = NoObject
      BY <1>7 DEF AcquirePop, Goto, Control, NullAtFront
    <2>2. Head(pool) = NoObject
      BY <1>b, <2>1, Popped
    <2>3. InPool' = InPool /\ NoTwice(pool')
      <3>1. Elems(pool') = Elems(pool) \ {NoObject} /\ NoTwice(pool')
        BY <1>7, <1>b, <2>1, <2>2, PoppedElems DEF AcquirePop
      <3>2. NoObject \notin Elems(pool)
        BY DEF Elems
      <3>3. QED
        BY <1>a, <3>1, <3>2
    <2>4. QED
      BY <1>7, <2>3 DEF AcquirePop, OneOwner, NoTwice, InCalls
  <1>8. ASSUME NEW t \in Threads, AcquireReturn(t)
        PROVE  OneOwner'
    <2>1. /\ InCalls' = InCalls \ {local[t]}
          /\ local[t] # NoObject => local[t] \in InCalls
          /\ \A u, v \in Threads :
                 local'[u] = local'[v] => u = v \/ local'[u] = NoObject
      BY <1>8, LocalGives DEF AcquireReturn
    <2>2. out' = out \cup ({local[t]} \ {NoObject})
      BY <1>8, NamesAssumption DEF AcquireReturn, TypeOK
    <2>3. NoObject \notin InCalls
      BY DEF InCalls
    <2>4. QED
      BY <1>8, <2>1, <2>2, <2>3 DEF AcquireReturn, OneOwner, InPool
  <1>9. ASSUME NEW t \in Threads, ReleasePush(t)
        PROVE  OneOwner'
    <2>1. local[t] # NoObject
      BY <1>9 DEF ReleasePush, Goto, Control, LocalState
    <2>2. /\ InCalls' = InCalls \ {local[t]}
          /\ local[t] \in InCalls
          /\ \A u, v \in Threads :
                 local'[u] = local'[v] => u = v \/ local'[u] = NoObject
      BY <1>9, <2>1, LocalGives DEF ReleasePush
    <2>3. local[t] \in Objects /\ local[t] \notin Elems(pool)
      BY <1>a, <2>1, <2>2 DEF TypeOK, Slots, OneOwner
    <2>4. InPool' = InPool \cup {local[t]} /\ NoTwice(pool')
      BY <1>9, <1>a, <1>b, <2>3, PushedElems DEF ReleasePush
    <2>5. QED
      BY <1>9, <2>2, <2>4 DEF ReleasePush, OneOwner, NoTwice
  <1>10. ASSUME NEW t \in Threads, ReleaseDrop(t)
         PROVE  OneOwner'
    <2>1. /\ InCalls' = InCalls \ {local[t]}
          /\ local[t] # NoObject => local[t] \in InCalls
          /\ \A u, v \in Threads :
                 local'[u] = local'[v] => u = v \/ local'[u] = NoObject
      BY <1>10, LocalGives DEF ReleaseDrop
    <2>2. NoObject \notin live
      BY NamesAssumption DEF TypeOK
    <2>3. QED
      BY <1>10, <2>1, <2>2 DEF ReleaseDrop, Destruct, OneOwner, InPool
  <1>11. QED
    BY <1>0, <1>1, <1>2, <1>3, <1>4, <1>5, <1>6, <1>7, <1>8, <1>9, <1>10
       DEF Next, vars, Lifetime, BuildDone, Client, Use, Call, CallAcquire,
           CallSize, Step, AcquireLock, ReleaseLock, SizeLock, SizeReturn,
           ReleaseUnlock, AcquireTest, AcquireThrows, ReleaseNull, ReleaseTest,
           ReleaseThrows, SizeRead

LEMMA FreshStep == TypeOK /\ DeadIsFresh /\ OneOwner /\ [Next]_vars => DeadIsFresh'
  <1> SUFFICES ASSUME TypeOK, DeadIsFresh, OneOwner, [Next]_vars
               PROVE  DeadIsFresh'
    OBVIOUS
  <1>0. CASE UNCHANGED <<live, content>>
    BY <1>0 DEF DeadIsFresh
  <1>1. ASSUME NEW o \in Objects, Construct(o)
        PROVE  DeadIsFresh'
    BY <1>1 DEF DeadIsFresh, Construct, TypeOK
  <1>2. ASSUME NEW S, Destruct(S)
        PROVE  DeadIsFresh'
    BY <1>2 DEF DeadIsFresh, Destruct, TypeOK
  <1>3. ASSUME NEW o \in Objects, NEW c \in Contents, Use(o, c)
        PROVE  DeadIsFresh'
    BY <1>3 DEF DeadIsFresh, Use, TypeOK, OneOwner
  <1>4. QED
    BY <1>0, <1>1, <1>2, <1>3
       DEF Next, vars, Lifetime, Build, BuildThrows, BuildDone, Destroy, Client,
           Drop, Call, CallAcquire, CallRelease, CallSize, Step, AcquireLock,
           ReleaseLock, SizeLock, AcquireReturn, ReleaseUnlock, SizeReturn,
           AcquireTest, AcquireThrows, AcquireMake, AcquireMove, AcquirePop,
           ReleaseNull, ReleaseTest, ReleasePush, ReleaseThrows, ReleaseDrop,
           SizeRead

-----------------------------------------------------------------------------
(* The invariants of every behaviour.                                      *)

LEMMA NextIInv == IInv /\ [Next]_vars => IInv'
  BY TypeStep, ControlStep, BoundStep, OwnerStep, FreshStep DEF IInv

LEMMA Invariance == Spec => []IInv
  BY InitIInv, NextIInv, PTL DEF Spec

\* Every variable keeps the type of what it stands for in the pool, the calls
\* and the heap.
THEOREM TypeCorrect == Spec => []TypeOK
  BY Invariance, PTL DEF IInv

\* Across Acquire, Release and the pool's life no object is lost, shared
\* between two owners, or owned after its destruction.
THEOREM OwnershipCorrect == Spec => []OneOwner
  BY Invariance, PTL DEF IInv

\* Concurrent calls of Release do not take the pool past max_size_, or past
\* what the constructor put there.
THEOREM SizeBounded == Spec => []SizeBound
  BY Invariance, PTL DEF IInv

\* A thread that finds the mutex free finds no moved-from pointer in the pool.
THEOREM NoNullSeen == Spec => []NoNullWhenFree
  <1>1. IInv => NoNullWhenFree
    BY NamesAssumption
       DEF IInv, Control, Exclusion, NullAtFront, NoNullWhenFree, Critical
  <1>2. QED
    BY <1>1, Invariance, PTL

\* At most one thread is between the lock and the unlock of a call.
THEOREM MutualExclusion ==
    Spec => [](\A t, u \in Threads :
                   pc[t] \in Critical /\ pc[u] \in Critical => t = u)
  <1>1. IInv => \A t, u \in Threads :
                    pc[t] \in Critical /\ pc[u] \in Critical => t = u
    BY DEF IInv, Control, Exclusion
  <1>2. QED
    BY <1>1, Invariance, PTL

\* No thread destroys an object while it holds the pool's mutex.
THEOREM NoDestructionUnderLock == Spec => DestroyedUnlocked
  <1>1. ASSUME IInv, [Next]_vars
        PROVE  [\A t \in Threads : local[t] \in live \ live' => mutex # t]_vars
    <2> SUFFICES ASSUME Next, NEW t \in Threads, local[t] \in live \ live'
                 PROVE  mutex # t
      BY <1>1
    <2> USE <1>1 DEF IInv, TypeOK, OneOwner, InCalls
    <2>0. local[t] # NoObject /\ local[t] \in InCalls
      BY NamesAssumption
    <2>1. CASE BuildThrows \/ Destroy
      BY <2>0, <2>1 DEF BuildThrows, Destroy, Destruct
    <2>2. CASE Client
      BY <2>0, <2>2 DEF Client, Drop, Use, Destruct
    <2>3. ASSUME NEW u \in Threads, ReleaseDrop(u)
          PROVE  mutex # t
      <3>1. u = t
        BY <2>0, <2>3 DEF ReleaseDrop, Destruct
      <3>2. QED
        BY <2>3, <3>1 DEF ReleaseDrop, Goto, Control, Exclusion, Critical
    <2>4. QED
      BY <2>0, <2>1, <2>2, <2>3
         DEF Next, Lifetime, Build, BuildDone, Construct, Call, CallAcquire,
             CallRelease, CallSize, Step, AcquireLock, ReleaseLock, SizeLock,
             AcquireReturn, ReleaseUnlock, SizeReturn, AcquireTest,
             AcquireThrows, AcquireMake, AcquireMove, AcquirePop, ReleaseNull,
             ReleaseTest, ReleasePush, ReleaseThrows, SizeRead
  <1>2. QED
    BY <1>1, Invariance, PTL DEF Spec, DestroyedUnlocked

-----------------------------------------------------------------------------
(* MemoryPool implements ObjectCache.                                       *)

(* The objects that calls hold.                                            *)

LEMMA HeldStep ==
    ASSUME TypeOK, OneOwner, NEW t \in Threads,
           \A u \in Threads \ {t} : pc'[u] = pc[u] /\ local'[u] = local[u]
    PROVE  /\ HeldAt(Unsettled)' = (HeldAt(Unsettled) \ {local[t]})
                  \cup (IF pc'[t] \in Unsettled THEN {local'[t]} \ {NoObject} ELSE {})
           /\ HeldAt(Acquired)' = (HeldAt(Acquired) \ {local[t]})
                  \cup (IF pc'[t] \in Acquired THEN {local'[t]} \ {NoObject} ELSE {})
           /\ HeldAt(Doomed)' = (HeldAt(Doomed) \ {local[t]})
                  \cup (IF pc'[t] \in Doomed THEN {local'[t]} \ {NoObject} ELSE {})
  <1>1. ASSUME NEW P
        PROVE  {local'[v] : v \in {u \in Threads : pc'[u] \in P}} \ {NoObject}
                   = (({local[v] : v \in {u \in Threads : pc[u] \in P}}
                           \ {NoObject}) \ {local[t]})
                     \cup (IF pc'[t] \in P THEN {local'[t]} \ {NoObject} ELSE {})
    <2> DEFINE Before == {local[v] : v \in {u \in Threads : pc[u] \in P}} \ {NoObject}
               After  == {local'[v] : v \in {u \in Threads : pc'[u] \in P}} \ {NoObject}
               Mine   == IF pc'[t] \in P THEN {local'[t]} \ {NoObject} ELSE {}
    <2>1. \A u, v \in Threads : local[u] = local[v] => u = v \/ local[u] = NoObject
      BY DEF OneOwner
    <2>2. ASSUME NEW o \in After
          PROVE  o \in (Before \ {local[t]}) \cup Mine
      <3>1. PICK v \in Threads : pc'[v] \in P /\ o = local'[v] /\ o # NoObject
        BY <2>2
      <3>2. CASE v = t
        BY <3>1, <3>2
      <3>3. CASE v # t
        BY <2>1, <3>1, <3>3
      <3>4. QED
        BY <3>2, <3>3
    <2>3. ASSUME NEW o \in Before \ {local[t]}
          PROVE  o \in After
      <3>1. PICK v \in Threads : pc[v] \in P /\ o = local[v] /\ o # NoObject
        BY <2>3
      <3>2. v # t
        BY <2>3, <3>1
      <3>3. QED
        BY <3>1, <3>2
    <2>4. Mine \subseteq After
      OBVIOUS
    <2>5. QED
      BY <2>2, <2>3, <2>4
  <1>2. QED
    BY <1>1 DEF HeldAt, Unsettled, Acquired, Doomed

LEMMA HeldSame ==
    ASSUME NEW P, UNCHANGED <<pc, local>>
    PROVE  HeldAt(P)' = HeldAt(P)
  BY DEF HeldAt

\* A thread's object is held at the point where the thread is, and only there.
LEMMA HeldWhere ==
    ASSUME TypeOK, OneOwner, NEW t \in Threads, NEW P
    PROVE  local[t] \in HeldAt(P) <=> pc[t] \in P /\ local[t] # NoObject
  BY DEF TypeOK, OneOwner, HeldAt

LEMMA HeldIsLive ==
    ASSUME OneOwner, NEW P
    PROVE  /\ HeldAt(P) \subseteq InCalls
           /\ InCalls \subseteq live
           /\ NoObject \notin HeldAt(P)
  BY DEF OneOwner, HeldAt, InCalls

-----------------------------------------------------------------------------
(* The idle objects.                                                       *)

LEMMA IdleIsPool ==
    ASSUME IInv, \A t \in Threads : pc[t] # "acquire.pop"
    PROVE  IdleNow = pool
  <1>1. CASE pool = <<>>
    BY <1>1 DEF IdleNow
  <1>2. CASE pool # <<>>
    <2>1. Head(pool) = pool[1] /\ 1 \in 1..Len(pool)
      BY <1>2, Popped DEF IInv, TypeOK
    <2>2. Head(pool) # NoObject
      BY <2>1 DEF IInv, Control, NullAtFront
    <2>3. QED
      BY <2>2 DEF IdleNow
  <1>3. QED
    BY <1>1, <1>2

LEMMA IdleInPool ==
    ASSUME IInv
    PROVE  Cache!Idle = InPool
  <1> USE DEF IInv, Control, TypeOK
  <1>1. CASE \A t \in Threads : pc[t] # "acquire.pop"
    <2>1. IdleNow = pool
      BY <1>1, IdleIsPool
    <2>2. \A i \in 1..Len(pool) : pool[i] # NoObject
      BY <1>1 DEF NullAtFront
    <2>3. QED
      BY <2>1, <2>2 DEF Cache!Idle, InPool
  <1>2. ASSUME NEW t \in Threads, pc[t] = "acquire.pop"
        PROVE  Cache!Idle = InPool
    <2>1. pool # <<>> /\ pool[1] = NoObject
      BY <1>2 DEF NullAtFront
    <2>2. IdleNow = Tail(pool) /\ Head(pool) = NoObject
      BY <2>1, Popped DEF IdleNow
    <2>3. \A i \in 1..Len(pool) : pool[i] = NoObject => i = 1
      BY DEF NullAtFront
    <2>4. NoTwice(pool)
      BY DEF OneOwner, NoTwice
    <2>5. Elems(Tail(pool)) = Elems(pool) \ {NoObject}
      BY <2>1, <2>2, <2>4, PoppedElems
    <2>6. \A i \in 1..Len(Tail(pool)) : Tail(pool)[i] # NoObject
      BY <2>1, <2>3, Popped
    <2>7. QED
      BY <2>2, <2>5, <2>6 DEF Cache!Idle, InPool, Elems
  <1>3. QED
    BY <1>1, <1>2

LEMMA KnownIsLive ==
    ASSUME IInv
    PROVE  Cache!Known \subseteq live
  <1>1. Cache!Idle = InPool
    BY IdleInPool
  <1>2. QED
    BY <1>1, HeldIsLive DEF IInv, OneOwner, Cache!Known, OutNow

\* While a thread is at another point of its critical section, or no call is
\* in progress, the front of the pool is an object.
LEMMA IdleInCritical ==
    ASSUME IInv, NEW t \in Threads, pc[t] \in Critical, pc[t] # "acquire.pop"
    PROVE  IdleNow = pool
  BY IdleIsPool DEF IInv, Control, Exclusion, Critical

LEMMA IdleInQuiet ==
    ASSUME IInv, \A t \in Threads : pc[t] = "idle"
    PROVE  IdleNow = pool
  BY IdleIsPool

-----------------------------------------------------------------------------
(* The lifetime of the pool, and its clients.                              *)

\* A step that no call takes part in leaves what calls hold as it is.
LEMMA CallsSame ==
    ASSUME UNCHANGED <<pc, local>>
    PROVE  /\ HeldAt(Unsettled)' = HeldAt(Unsettled)
           /\ HeldAt(Acquired)' = HeldAt(Acquired)
           /\ HeldAt(Doomed)' = HeldAt(Doomed)
  BY HeldSame

LEMMA BuildMaps ==
    ASSUME IInv, IInv', NEW o \in Objects, Build(o)
    PROVE  Cache!Stock(o)
  <1>1. /\ \A t \in Threads : pc[t] = "idle" /\ pc'[t] = "idle"
        /\ UNCHANGED <<pc, local, out, answer, phase>>
        /\ o \notin live
        /\ o \in Objects
    BY DEF IInv, Control, Lifecycle, Build, Construct
  <1>2. IdleNow = pool /\ IdleNow' = pool'
    <2>1. IdleNow = pool
      BY <1>1, IdleInQuiet
    <2>2. pool' \in Seq(Slots) /\ Len(pool') \in Nat \ {0}
      BY Pushed, LenProperties DEF Build, IInv, TypeOK, Slots
    <2>3. pool'[1] # NoObject
      BY <1>1, <2>2 DEF IInv, Control, NullAtFront
    <2>4. pool' # <<>> => Head(pool') = pool'[1]
      BY <2>2, Popped
    <2>5. QED
      BY <2>1, <2>3, <2>4 DEF IdleNow
  <1>3. ContentNow' = ContentNow
    <2>1. content' = content
      BY DEF Build, Construct, IInv, TypeOK, DeadIsFresh
    <2>2. QED
      BY <1>1, <2>1, CallsSame DEF ContentNow
  <1>4. o \notin Cache!Known
    BY <1>1, KnownIsLive
  <1>5. UNCHANGED <<phase, HeldAt(Unsettled), OutNow, answer, ContentNow>>
    BY <1>1, <1>3, CallsSame DEF OutNow
  <1>6. QED
    BY <1>2, <1>4, <1>5 DEF Build, Cache!Stock

\* Both ends of the pool, of one that failed to be built and of one in use.
LEMMA EndMaps ==
    ASSUME IInv, NEW to, NEW from,
           \A t \in Threads : pc[t] = "idle",
           phase = from, phase' = to, pool' = <<>>, Destruct(InPool),
           UNCHANGED <<mutex, pc, local, answer, out>>
    PROVE  Cache!End(from, to)
  <1>1. IdleNow' = <<>>
    BY DEF IdleNow
  <1>2. UNCHANGED <<HeldAt(Unsettled), HeldAt(Acquired), HeldAt(Doomed)>>
    BY CallsSame
  <1>3. Cache!Forget(Cache!Idle)
    <2>1. Cache!Idle = InPool
      BY IdleInPool
    <2>2. QED
      BY <1>2, <2>1 DEF Destruct, ContentNow, Cache!Forget
  <1>4. QED
    BY <1>1, <1>2, <1>3 DEF Cache!End, OutNow

LEMMA DropMaps ==
    ASSUME IInv, NEW o \in Objects, Drop(o)
    PROVE  Cache!Drop(o)
  <1>1. UNCHANGED <<HeldAt(Unsettled), HeldAt(Acquired), HeldAt(Doomed), IdleNow>>
    BY CallsSame DEF Drop, IdleNow
  <1>2. o \in out /\ o \notin HeldAt(Acquired)
    BY HeldIsLive DEF Drop, IInv, OneOwner
  <1>3. OutNow' = OutNow \ {o} /\ o \in OutNow
    BY <1>1, <1>2 DEF Drop, OutNow
  <1>4. Cache!Forget({o})
    BY <1>1 DEF Drop, Destruct, ContentNow, Cache!Forget
  <1>5. QED
    BY <1>1, <1>3, <1>4 DEF Drop, Cache!Drop

LEMMA UseMaps ==
    ASSUME IInv, NEW o \in Objects, NEW c \in Contents, Use(o, c)
    PROVE  Cache!Change(o, c)
  <1>1. UNCHANGED <<HeldAt(Unsettled), HeldAt(Acquired), HeldAt(Doomed), IdleNow>>
    BY CallsSame DEF Use, IdleNow
  <1>2. o \in out /\ o \notin HeldAt(Doomed)
    BY HeldIsLive DEF Use, IInv, OneOwner
  <1>3. ContentNow' = [ContentNow EXCEPT ![o] = c]
    BY <1>1, <1>2 DEF Use, ContentNow, IInv, TypeOK
  <1>4. QED
    BY <1>1, <1>2, <1>3 DEF Use, Cache!Change, OutNow

-----------------------------------------------------------------------------
(* The steps of calls.                                                     *)

\* A step that moves no object from one role to another is a stutter.
LEMMA Stutters ==
    ASSUME IdleNow' = IdleNow, UNCHANGED <<phase, answer, ContentNow>>,
           HeldAt(Unsettled)' = HeldAt(Unsettled), OutNow' = OutNow
    PROVE  UNCHANGED Cache!vars
  BY DEF Cache!vars

\* A step that stays in one role, or has no object, changes nothing clients see.
LEMMA SameRoleStutters ==
    ASSUME IInv, NEW t \in Threads,
           \A u \in Threads \ {t} : pc'[u] = pc[u],
           UNCHANGED <<phase, local, answer, out, content>>,
           IdleNow' = IdleNow,
           \/ local[t] = NoObject
           \/ \A P \in {Unsettled, Acquired, Doomed} : pc'[t] \in P <=> pc[t] \in P
    PROVE  UNCHANGED Cache!vars
  <1>1. \A u \in Threads \ {t} : pc'[u] = pc[u] /\ local'[u] = local[u]
    OBVIOUS
  <1>2. \A P \in {Unsettled, Acquired, Doomed} :
            /\ NoObject \notin HeldAt(P)
            /\ local[t] \in HeldAt(P) <=> pc[t] \in P /\ local[t] # NoObject
    BY HeldWhere, HeldIsLive DEF IInv
  <1>3. HeldAt(Unsettled)' = HeldAt(Unsettled)
    BY <1>1, <1>2, HeldStep DEF IInv
  <1>4. HeldAt(Acquired)' = HeldAt(Acquired)
    BY <1>1, <1>2, HeldStep DEF IInv
  <1>5. HeldAt(Doomed)' = HeldAt(Doomed)
    BY <1>1, <1>2, HeldStep DEF IInv
  <1>6. QED
    BY <1>3, <1>4, <1>5, Stutters DEF OutNow, ContentNow

LEMMA ControlStutters ==
    ASSUME IInv, NEW t \in Threads,
           \/ CallAcquire(t) \/ AcquireLock(t) \/ AcquireTest(t)
           \/ AcquireThrows(t) \/ ReleaseNull(t) \/ ReleaseLock(t)
           \/ ReleaseUnlock(t) \/ CallSize(t) \/ SizeLock(t) \/ SizeReturn(t)
    PROVE  UNCHANGED Cache!vars
  <1> USE DEF IInv, Control, LocalState, Goto, Lock, Unlock
  <1>1. IdleNow' = IdleNow /\ UNCHANGED <<phase, local, answer, out, content>>
    BY DEF IdleNow, CallAcquire, AcquireLock, AcquireTest, AcquireThrows,
           ReleaseNull, ReleaseLock, ReleaseUnlock, CallSize, SizeLock, SizeReturn
  <1>2. CASE CallAcquire(t) \/ AcquireLock(t) \/ AcquireTest(t)
               \/ AcquireThrows(t) \/ ReleaseNull(t) \/ CallSize(t)
               \/ SizeLock(t) \/ SizeReturn(t)
    <2>1. local[t] = NoObject
      BY <1>2 DEF CallAcquire, AcquireLock, AcquireTest, AcquireThrows,
                  ReleaseNull, CallSize, SizeLock, SizeReturn
    <2>2. \A u \in Threads \ {t} : pc'[u] = pc[u]
      BY <1>2 DEF TypeOK, CallAcquire, AcquireLock, AcquireTest, AcquireThrows,
                  ReleaseNull, CallSize, SizeLock, SizeReturn
    <2>3. QED
      BY <1>1, <2>1, <2>2, SameRoleStutters
  <1>3. CASE ReleaseLock(t)
    BY <1>1, <1>3, SameRoleStutters DEF ReleaseLock, Unsettled, Acquired, Doomed
  <1>4. CASE ReleaseUnlock(t)
    BY <1>1, <1>4, SameRoleStutters DEF ReleaseUnlock, Unsettled, Acquired, Doomed
  <1>5. QED
    BY <1>2, <1>3, <1>4

\* Acquire constructs an object only when none is idle.
LEMMA MakeMaps ==
    ASSUME IInv, IInv', NEW t \in Threads, NEW o \in Objects, AcquireMake(t, o)
    PROVE  Cache!New(o)
  <1>1. /\ pc'[t] = "acquire.unlock" /\ local'[t] = o
        /\ \A u \in Threads \ {t} : pc'[u] = pc[u] /\ local'[u] = local[u]
        /\ UNCHANGED <<phase, pool, answer, out>>
        /\ pc[t] = "acquire.make" /\ pool = <<>>
        /\ local[t] = NoObject
        /\ o \notin live
    BY DEF AcquireMake, Goto, Construct, IInv, TypeOK, Control, TestsHold, LocalState
  <1>2. phase = "live"
    BY <1>1 DEF IInv, Control, Lifecycle
  <1>3. IdleNow = <<>> /\ IdleNow' = IdleNow
    BY <1>1 DEF IdleNow
  <1>4. o # NoObject /\ NoObject \notin HeldAt(Unsettled) /\ o \in Slots
        /\ NoObject \notin HeldAt(Acquired) /\ NoObject \notin HeldAt(Doomed)
    BY NamesAssumption DEF HeldAt, Slots
  <1>5. /\ HeldAt(Unsettled)' = HeldAt(Unsettled)
        /\ HeldAt(Acquired)' = HeldAt(Acquired) \cup {o}
        /\ HeldAt(Doomed)' = HeldAt(Doomed)
    <2>1. "acquire.unlock" \in Acquired \ (Unsettled \cup Doomed)
      BY DEF Unsettled, Acquired, Doomed
    <2>2. /\ HeldAt(Unsettled)' = HeldAt(Unsettled) \ {NoObject}
          /\ HeldAt(Acquired)' = (HeldAt(Acquired) \ {NoObject}) \cup ({o} \ {NoObject})
          /\ HeldAt(Doomed)' = HeldAt(Doomed) \ {NoObject}
      BY <1>1, <2>1, HeldStep DEF IInv
    <2>3. QED
      BY <1>4, <2>2
  <1>6. content' = content
    BY <1>1 DEF AcquireMake, Construct, IInv, TypeOK, DeadIsFresh
  <1>7. o \notin Cache!Known
    BY <1>1, KnownIsLive
  <1>8. QED
    BY <1>1, <1>2, <1>3, <1>5, <1>6, <1>7 DEF Cache!New, OutNow, ContentNow

\* Moving the front out takes the oldest idle object, whole.
LEMMA MoveMaps ==
    ASSUME IInv, NEW t \in Threads, AcquireMove(t)
    PROVE  Cache!Reuse
  <1>1. /\ pc'[t] = "acquire.pop" /\ local'[t] = Head(pool)
        /\ \A u \in Threads \ {t} : pc'[u] = pc[u] /\ local'[u] = local[u]
        /\ pool' = [pool EXCEPT ![1] = NoObject]
        /\ UNCHANGED <<phase, answer, out, content>>
        /\ pc[t] = "acquire.move" /\ pool # <<>>
        /\ local[t] = NoObject
    BY DEF AcquireMove, Goto, IInv, TypeOK, Control, TestsHold, LocalState
  <1>2. phase = "live"
    BY <1>1 DEF IInv, Control, Lifecycle
  <1>3. IdleNow = pool
    BY <1>1, IdleInCritical DEF Critical
  <1>4. Head(pool) \in Slots
    BY <1>1, Popped DEF IInv, TypeOK
  <1>5. Head(pool) # NoObject
    <2>1. \A u \in Threads : pc[u] # "acquire.pop"
      BY <1>1 DEF IInv, Control, Exclusion, Critical
    <2>2. Head(pool) = pool[1] /\ 1 \in 1..Len(pool)
      BY <1>1, Popped DEF IInv, TypeOK
    <2>3. QED
      BY <2>1, <2>2 DEF IInv, Control, NullAtFront
  <1>6. IdleNow' = Tail(IdleNow)
    <2>1. pool \in Seq(Slots) /\ NoObject \in Slots
      BY DEF IInv, TypeOK, Slots
    <2>2. /\ pool' # <<>> /\ pool' \in Seq(Slots)
          /\ Len(pool') = Len(pool) /\ pool'[1] = NoObject
          /\ \A i \in 2..Len(pool) : pool'[i] = pool[i]
      BY <1>1, <2>1, Moved
    <2>3. IdleNow' = Tail(pool')
      BY <2>2, Popped DEF IdleNow
    <2>4. /\ Tail(pool') \in Seq(Slots) /\ Tail(pool) \in Seq(Slots)
          /\ Len(Tail(pool')) = Len(Tail(pool))
          /\ \A i \in 1..Len(Tail(pool)) :
                 /\ Tail(pool')[i] = pool'[i + 1]
                 /\ Tail(pool)[i] = pool[i + 1]
                 /\ i + 1 \in 2..Len(pool)
      <3>1. Len(Tail(pool')) = Len(pool') - 1 /\ Len(Tail(pool)) = Len(pool) - 1
            /\ Len(pool) \in Nat
        BY <1>1, <2>1, <2>2, Popped
      <3>2. \A i \in 1..Len(Tail(pool)) : i + 1 \in 2..Len(pool)
        BY <3>1
      <3>3. QED
        BY <1>1, <2>1, <2>2, <3>1, <3>2, Popped
    <2>5. Tail(pool') = Tail(pool)
      <3>1. \A i \in 1..Len(Tail(pool)) : Tail(pool')[i] = Tail(pool)[i]
        BY <2>2, <2>4
      <3>2. QED
        BY <2>4, <3>1, SeqEqual
    <2>6. QED
      BY <1>3, <2>3, <2>5
  <1>7. /\ HeldAt(Unsettled)' = HeldAt(Unsettled)
        /\ HeldAt(Acquired)' = HeldAt(Acquired) \cup {Head(pool)}
        /\ HeldAt(Doomed)' = HeldAt(Doomed)
    <2>1. "acquire.pop" \in Acquired \ (Unsettled \cup Doomed)
      BY DEF Unsettled, Acquired, Doomed
    <2>2. /\ NoObject \notin HeldAt(Unsettled)
          /\ NoObject \notin HeldAt(Acquired)
          /\ NoObject \notin HeldAt(Doomed)
      BY DEF HeldAt
    <2>3. /\ HeldAt(Unsettled)' = HeldAt(Unsettled) \ {NoObject}
          /\ HeldAt(Acquired)' = (HeldAt(Acquired) \ {NoObject})
                                     \cup ({Head(pool)} \ {NoObject})
          /\ HeldAt(Doomed)' = HeldAt(Doomed) \ {NoObject}
      BY <1>1, <2>1, HeldStep DEF IInv
    <2>4. QED
      BY <1>5, <2>2, <2>3
  <1>8. QED
    BY <1>1, <1>2, <1>3, <1>6, <1>7 DEF Cache!Reuse, OutNow, ContentNow

LEMMA PopStutters ==
    ASSUME IInv, NEW t \in Threads, AcquirePop(t)
    PROVE  UNCHANGED Cache!vars
  <1>1. pool # <<>> /\ pool[1] = NoObject /\ pool \in Seq(Slots)
    BY DEF AcquirePop, Goto, IInv, TypeOK, Control, NullAtFront
  <1>2. IdleNow = Tail(pool)
    BY <1>1, Popped DEF IdleNow
  <1>3. \A i \in 1..Len(Tail(pool)) : Tail(pool)[i] # NoObject
    <2>1. Len(Tail(pool)) = Len(pool) - 1 /\ Len(pool) \in Nat
      BY <1>1, Popped
    <2>2. \A i \in 1..Len(Tail(pool)) : i + 1 \in 1..Len(pool) /\ i + 1 # 1
      BY <2>1
    <2>3. \A i \in 1..Len(Tail(pool)) : Tail(pool)[i] = pool[i + 1]
      BY <1>1, Popped
    <2>4. QED
      BY <2>2, <2>3 DEF IInv, Control, NullAtFront
  <1>4. IdleNow' = Tail(pool)
    <2>1. CASE Tail(pool) = <<>>
      BY <2>1 DEF AcquirePop, IdleNow
    <2>2. CASE Tail(pool) # <<>>
      <3>1. /\ Tail(pool) \in Seq(Slots)
            /\ Head(Tail(pool)) = Tail(pool)[1]
            /\ 1 \in 1..Len(Tail(pool))
        BY <1>1, <2>2, Popped
      <3>2. QED
        BY <1>3, <3>1 DEF AcquirePop, IdleNow
    <2>3. QED
      BY <2>1, <2>2
  <1>5. QED
    BY <1>2, <1>4, SameRoleStutters
       DEF AcquirePop, Goto, Unsettled, Acquired, Doomed

\* Handing over what was acquired is no event: the client had it already.
LEMMA ReturnStutters ==
    ASSUME IInv, NEW t \in Threads, AcquireReturn(t)
    PROVE  UNCHANGED Cache!vars
  <1>1. /\ pc[t] = "acquire.unlock" /\ pc'[t] = "idle" /\ local'[t] = NoObject
        /\ \A u \in Threads \ {t} : pc'[u] = pc[u] /\ local'[u] = local[u]
        /\ UNCHANGED <<phase, pool, answer, content>>
        /\ out' = out \cup ({local[t]} \ {NoObject})
    BY NamesAssumption DEF AcquireReturn, Unlock, IInv, TypeOK
  <1>2. /\ "acquire.unlock" \in Acquired \ (Unsettled \cup Doomed)
        /\ "idle" \notin Unsettled \cup Acquired \cup Doomed
    BY DEF Unsettled, Acquired, Doomed
  <1>3. /\ HeldAt(Unsettled)' = HeldAt(Unsettled) \ {local[t]}
        /\ HeldAt(Acquired)' = HeldAt(Acquired) \ {local[t]}
        /\ HeldAt(Doomed)' = HeldAt(Doomed) \ {local[t]}
    BY <1>1, <1>2, HeldStep DEF IInv
  <1>4. /\ local[t] \notin HeldAt(Unsettled)
        /\ local[t] \notin HeldAt(Doomed)
        /\ local[t] # NoObject => local[t] \in HeldAt(Acquired)
        /\ NoObject \notin HeldAt(Acquired)
    BY <1>1, <1>2, HeldWhere, HeldIsLive DEF IInv
  <1>5. OutNow' = OutNow
    BY <1>1, <1>3, <1>4 DEF OutNow
  <1>6. QED
    BY <1>1, <1>3, <1>4, <1>5, Stutters DEF IdleNow, ContentNow

\* Release begins by taking the object from its owner.
LEMMA GiveBackMaps ==
    ASSUME IInv, NEW t \in Threads, NEW o \in Slots, CallRelease(t, o)
    PROVE  Cache!GiveBack(o) \/ UNCHANGED Cache!vars
  <1>1. /\ pc'[t] = "release.entry" /\ local'[t] = o
        /\ \A u \in Threads \ {t} : pc'[u] = pc[u] /\ local'[u] = local[u]
        /\ UNCHANGED <<phase, pool, answer, content>>
        /\ phase = "live" /\ o \in out \cup {NoObject} /\ out' = out \ {o}
        /\ local[t] = NoObject
    BY DEF CallRelease, Goto, IInv, TypeOK, Control, LocalState
  <1>2. "release.entry" \in Unsettled \ (Acquired \cup Doomed)
    BY DEF Unsettled, Acquired, Doomed
  <1>3. /\ HeldAt(Unsettled)' = (HeldAt(Unsettled) \ {NoObject}) \cup ({o} \ {NoObject})
        /\ HeldAt(Acquired)' = HeldAt(Acquired) \ {NoObject}
        /\ HeldAt(Doomed)' = HeldAt(Doomed) \ {NoObject}
    BY <1>1, <1>2, HeldStep DEF IInv
  <1>4. /\ NoObject \notin HeldAt(Unsettled)
        /\ NoObject \notin HeldAt(Acquired)
        /\ NoObject \notin HeldAt(Doomed)
        /\ NoObject \notin out
    BY NamesAssumption DEF HeldAt, IInv, TypeOK
  <1>5. UNCHANGED <<IdleNow, ContentNow>>
    BY <1>1, <1>3, <1>4 DEF IdleNow, ContentNow
  <1>6. CASE o = NoObject
    BY <1>1, <1>3, <1>4, <1>5, <1>6, Stutters DEF OutNow
  <1>7. CASE o # NoObject
    <2>1. o \in out /\ o \notin HeldAt(Acquired)
      BY <1>1, <1>7, HeldIsLive DEF IInv, OneOwner
    <2>2. OutNow' = OutNow \ {o} /\ o \in OutNow
      BY <1>1, <1>3, <1>4, <2>1 DEF OutNow
    <2>3. HeldAt(Unsettled)' = HeldAt(Unsettled) \cup {o}
      BY <1>3, <1>4, <1>7
    <2>4. QED
      BY <1>1, <1>5, <2>2, <2>3 DEF Cache!GiveBack
  <1>8. QED
    BY <1>6, <1>7

\* The steps at which Release gives an object up.
LEMMA DiscardMaps ==
    ASSUME IInv, NEW t \in Threads,
           pc[t] \in {"release.test", "release.push"}, pc'[t] = "release.unlock",
           \A u \in Threads \ {t} : pc'[u] = pc[u],
           Len(pool) >= MaxSize \/ AllocFails,
           UNCHANGED <<phase, pool, local, answer, out, content>>
    PROVE  Cache!Discard(local[t])
  <1>1. phase = "live" /\ local[t] # NoObject
    BY DEF IInv, Control, Lifecycle, LocalState
  <1>2. IdleNow = pool /\ IdleNow' = IdleNow
    BY IdleInCritical DEF IdleNow, Critical
  <1>3. /\ pc[t] \in Unsettled \ (Acquired \cup Doomed)
        /\ pc'[t] \in Doomed \ (Unsettled \cup Acquired)
    BY DEF Unsettled, Acquired, Doomed
  <1>4. /\ HeldAt(Unsettled)' = HeldAt(Unsettled) \ {local[t]}
        /\ HeldAt(Acquired)' = HeldAt(Acquired) \ {local[t]}
        /\ HeldAt(Doomed)' = (HeldAt(Doomed) \ {local[t]}) \cup ({local[t]} \ {NoObject})
    BY <1>3, HeldStep DEF IInv
  <1>5. /\ local[t] \in HeldAt(Unsettled)
        /\ local[t] \notin HeldAt(Acquired)
        /\ local[t] \notin HeldAt(Doomed)
    BY <1>1, <1>3, HeldWhere DEF IInv
  <1>6. OutNow' = OutNow /\ HeldAt(Doomed)' = HeldAt(Doomed) \cup {local[t]}
    BY <1>1, <1>4, <1>5 DEF OutNow
  <1>7. Cache!Forget({local[t]})
    BY <1>6 DEF Cache!Forget, ContentNow
  <1>8. QED
    BY <1>1, <1>2, <1>4, <1>5, <1>6, <1>7 DEF Cache!Discard

LEMMA TestMaps ==
    ASSUME IInv, NEW t \in Threads, ReleaseTest(t)
    PROVE  Cache!Discard(local[t]) \/ UNCHANGED Cache!vars
  <1>1. CASE Len(pool) < MaxSize
    <2>1. pc[t] = "release.test" /\ pc'[t] = "release.push"
          /\ \A u \in Threads \ {t} : pc'[u] = pc[u]
      BY <1>1 DEF ReleaseTest, Goto, IInv, TypeOK
    <2>2. QED
      BY <2>1, SameRoleStutters
         DEF ReleaseTest, IdleNow, Unsettled, Acquired, Doomed
  <1>2. CASE ~(Len(pool) < MaxSize)
    <2>1. Len(pool) >= MaxSize
      BY <1>2, SizeAssumption, LenProperties DEF IInv, TypeOK
    <2>2. pc[t] = "release.test" /\ pc'[t] = "release.unlock"
          /\ \A u \in Threads \ {t} : pc'[u] = pc[u]
      BY <1>2 DEF ReleaseTest, Goto, IInv, TypeOK
    <2>3. QED
      BY <2>1, <2>2, DiscardMaps DEF ReleaseTest
  <1>3. QED
    BY <1>1, <1>2

LEMMA ThrowMaps ==
    ASSUME IInv, NEW t \in Threads, ReleaseThrows(t)
    PROVE  Cache!Discard(local[t])
  <1>1. pc[t] = "release.push" /\ pc'[t] = "release.unlock"
        /\ \A u \in Threads \ {t} : pc'[u] = pc[u]
    BY DEF ReleaseThrows, Goto, IInv, TypeOK
  <1>2. QED
    BY <1>1, DiscardMaps DEF ReleaseThrows

\* A pushed object is kept, behind those that were idle before it.
LEMMA PushMaps ==
    ASSUME IInv, NEW t \in Threads, ReleasePush(t)
    PROVE  Cache!Keep(local[t])
  <1>1. /\ pc[t] = "release.push" /\ pc'[t] = "release.unlock"
        /\ local'[t] = NoObject
        /\ \A u \in Threads \ {t} : pc'[u] = pc[u] /\ local'[u] = local[u]
        /\ UNCHANGED <<phase, answer, out, content>>
        /\ pool' = Append(pool, local[t])
        /\ local[t] # NoObject /\ local[t] \in Slots /\ Len(pool) < MaxSize
    BY DEF ReleasePush, Goto, IInv, TypeOK, Control, LocalState, TestsHold
  <1>2. phase = "live"
    BY <1>1 DEF IInv, Control, Lifecycle
  <1>3. IdleNow = pool
    BY <1>1, IdleInCritical DEF Critical
  <1>4. IdleNow' = Append(IdleNow, local[t])
    <2>1. \A u \in Threads : pc[u] # "acquire.pop"
      BY <1>1 DEF IInv, Control, Exclusion, Critical
    <2>2. \A i \in 1..Len(pool) : pool[i] # NoObject
      BY <2>1 DEF IInv, Control, NullAtFront
    <2>3. /\ pool' \in Seq(Slots) /\ Len(pool') = Len(pool) + 1
          /\ Len(pool) \in Nat
          /\ \A i \in 1..Len(pool) : pool'[i] = pool[i]
          /\ pool'[Len(pool) + 1] = local[t]
      BY <1>1, Pushed, LenProperties DEF IInv, TypeOK
    <2>4. pool'[1] # NoObject
      BY <1>1, <2>2, <2>3
    <2>5. pool' # <<>> => Head(pool') = pool'[1]
      BY <2>3, Popped
    <2>6. QED
      BY <1>1, <1>3, <2>4, <2>5 DEF IdleNow
  <1>5. /\ "release.push" \in Unsettled \ (Acquired \cup Doomed)
        /\ "release.unlock" \in Doomed \ (Unsettled \cup Acquired)
    BY DEF Unsettled, Acquired, Doomed
  <1>6. /\ HeldAt(Unsettled)' = HeldAt(Unsettled) \ {local[t]}
        /\ HeldAt(Acquired)' = HeldAt(Acquired) \ {local[t]}
        /\ HeldAt(Doomed)' = (HeldAt(Doomed) \ {local[t]}) \cup ({NoObject} \ {NoObject})
    BY <1>1, <1>5, HeldStep DEF IInv
  <1>7. /\ local[t] \in HeldAt(Unsettled)
        /\ local[t] \notin HeldAt(Acquired)
        /\ local[t] \notin HeldAt(Doomed)
    BY <1>1, <1>5, HeldWhere DEF IInv
  <1>8. UNCHANGED <<OutNow, ContentNow>>
    BY <1>1, <1>6, <1>7 DEF OutNow, ContentNow
  <1>9. QED
    BY <1>1, <1>2, <1>3, <1>4, <1>6, <1>7, <1>8 DEF Cache!Keep

\* What a discarded object contained was lost when its fate was settled.
LEMMA DropStutters ==
    ASSUME IInv, NEW t \in Threads, ReleaseDrop(t)
    PROVE  UNCHANGED Cache!vars
  <1>1. /\ pc[t] = "release.drop" /\ pc'[t] = "idle" /\ local'[t] = NoObject
        /\ \A u \in Threads \ {t} : pc'[u] = pc[u] /\ local'[u] = local[u]
        /\ UNCHANGED <<phase, pool, answer, out>>
    BY DEF ReleaseDrop, Goto, IInv, TypeOK
  <1>2. /\ "release.drop" \in Doomed \ (Unsettled \cup Acquired)
        /\ "idle" \notin Unsettled \cup Acquired \cup Doomed
    BY DEF Unsettled, Acquired, Doomed
  <1>3. /\ HeldAt(Unsettled)' = HeldAt(Unsettled) \ {local[t]}
        /\ HeldAt(Acquired)' = HeldAt(Acquired) \ {local[t]}
        /\ HeldAt(Doomed)' = HeldAt(Doomed) \ {local[t]}
    BY <1>1, <1>2, HeldStep DEF IInv
  <1>4. /\ local[t] \notin HeldAt(Unsettled)
        /\ local[t] \notin HeldAt(Acquired)
        /\ local[t] # NoObject => local[t] \in HeldAt(Doomed)
    BY <1>1, <1>2, HeldWhere, HeldIsLive DEF IInv
  <1>5. ContentNow' = ContentNow
    BY <1>3, <1>4, NamesAssumption DEF ReleaseDrop, Destruct, ContentNow
  <1>6. QED
    BY <1>1, <1>3, <1>4, <1>5, Stutters DEF IdleNow, OutNow

\* GetPoolSize answers with the number of objects that are idle.
LEMMA ReadMaps ==
    ASSUME IInv, NEW t \in Threads, SizeRead(t)
    PROVE  Cache!Count(t)
  <1>1. /\ pc[t] = "size.read" /\ pc'[t] = "size.unlock"
        /\ \A u \in Threads \ {t} : pc'[u] = pc[u] /\ local'[u] = local[u]
        /\ local'[t] = NoObject /\ local[t] = NoObject
        /\ UNCHANGED <<phase, pool, out, content>>
    BY DEF SizeRead, Goto, IInv, TypeOK, Control, LocalState
  <1>2. phase = "live"
    BY <1>1 DEF IInv, Control, Lifecycle
  <1>3. IdleNow = pool /\ IdleNow' = IdleNow
    BY <1>1, IdleInCritical DEF Critical, IdleNow
  <1>4. "size.unlock" \notin Unsettled \cup Acquired \cup Doomed
    BY DEF Unsettled, Acquired, Doomed
  <1>5. /\ HeldAt(Unsettled)' = HeldAt(Unsettled) \ {NoObject}
        /\ HeldAt(Acquired)' = HeldAt(Acquired) \ {NoObject}
        /\ HeldAt(Doomed)' = HeldAt(Doomed) \ {NoObject}
    BY <1>1, <1>4, HeldStep DEF IInv
  <1>6. /\ NoObject \notin HeldAt(Unsettled)
        /\ NoObject \notin HeldAt(Acquired)
        /\ NoObject \notin HeldAt(Doomed)
    BY DEF HeldAt
  <1>7. UNCHANGED <<HeldAt(Unsettled), OutNow, ContentNow>>
    BY <1>1, <1>5, <1>6 DEF OutNow, ContentNow
  <1>8. QED
    BY <1>2, <1>3, <1>7 DEF SizeRead, Cache!Count

-----------------------------------------------------------------------------
(* The implementation theorem.                                             *)

LEMMA InitMaps == Init => Cache!Init
  <1> SUFFICES ASSUME Init PROVE Cache!Init
    OBVIOUS
  <1>1. IdleNow = <<>>
    BY DEF Init, IdleNow
  <1>2. HeldAt(Unsettled) = {} /\ HeldAt(Acquired) = {} /\ HeldAt(Doomed) = {}
    BY DEF Init, HeldAt
  <1>3. QED
    BY <1>1, <1>2 DEF Init, Cache!Init, OutNow, ContentNow

LEMMA NextMaps == IInv /\ IInv' /\ [Next]_vars => [Cache!Next]_(Cache!vars)
  <1> SUFFICES ASSUME IInv, IInv', [Next]_vars
               PROVE  Cache!Next \/ UNCHANGED Cache!vars
    OBVIOUS
  <1>0. CASE UNCHANGED vars
    <2>1. UNCHANGED <<HeldAt(Unsettled), HeldAt(Acquired), HeldAt(Doomed)>>
      BY <1>0, CallsSame DEF vars
    <2>2. QED
      BY <1>0, <2>1, Stutters DEF vars, IdleNow, OutNow, ContentNow
  <1>1. CASE Lifetime
    <2>1. ASSUME NEW o \in Objects, Build(o)
          PROVE  Cache!Next
      BY <2>1, BuildMaps DEF Cache!Next
    <2>2. CASE BuildThrows
      <3>1. Cache!End("building", "failed")
        BY <2>2, EndMaps DEF BuildThrows, IInv, Control, Lifecycle
      <3>2. QED
        BY <3>1 DEF Cache!Next
    <2>3. CASE BuildDone
      <3>1. \A t \in Threads : pc[t] = "idle"
        BY <2>3 DEF BuildDone, IInv, Control, Lifecycle
      <3>2. IdleNow = pool /\ IdleNow' = IdleNow
        BY <2>3, <3>1, IdleInQuiet DEF BuildDone, IdleNow
      <3>3. UNCHANGED <<HeldAt(Unsettled), OutNow, ContentNow>>
        BY <2>3, CallsSame DEF BuildDone, OutNow, ContentNow
      <3>4. Cache!Open
        BY <2>3, <3>2, <3>3 DEF BuildDone, Cache!Open
      <3>5. QED
        BY <3>4 DEF Cache!Next
    <2>4. CASE Destroy
      <3>1. Cache!End("live", "destroyed")
        BY <2>4, EndMaps DEF Destroy
      <3>2. QED
        BY <3>1 DEF Cache!Next
    <2>5. QED
      BY <1>1, <2>1, <2>2, <2>3, <2>4 DEF Lifetime
  <1>2. CASE Client
    <2>1. ASSUME NEW o \in Objects, Drop(o)
          PROVE  Cache!Next
      BY <2>1, DropMaps DEF Cache!Next
    <2>2. ASSUME NEW o \in Objects, NEW c \in Contents, Use(o, c)
          PROVE  Cache!Next
      BY <2>2, UseMaps DEF Cache!Next
    <2>3. QED
      BY <1>2, <2>1, <2>2 DEF Client
  <1>3. ASSUME NEW t \in Threads, Call(t)
        PROVE  Cache!Next \/ UNCHANGED Cache!vars
    <2>1. CASE CallAcquire(t) \/ CallSize(t)
      BY <2>1, ControlStutters
    <2>2. ASSUME NEW o \in Slots, CallRelease(t, o)
          PROVE  Cache!Next \/ UNCHANGED Cache!vars
      <3>1. o \in Objects \/ o = NoObject
        BY DEF Slots
      <3>2. CASE Cache!GiveBack(o)
        <4>1. o \in Objects
          BY <3>2, HeldIsLive DEF Cache!GiveBack, OutNow, IInv, TypeOK, OneOwner
        <4>2. QED
          BY <3>2, <4>1 DEF Cache!Next
      <3>3. QED
        BY <2>2, <3>2, GiveBackMaps
    <2>3. QED
      BY <1>3, <2>1, <2>2 DEF Call
  <1>4. ASSUME NEW t \in Threads, Step(t)
        PROVE  Cache!Next \/ UNCHANGED Cache!vars
    <2>1. CASE AcquireLock(t) \/ AcquireTest(t) \/ AcquireThrows(t)
                 \/ ReleaseNull(t) \/ ReleaseLock(t) \/ ReleaseUnlock(t)
                 \/ SizeLock(t) \/ SizeReturn(t)
      BY <2>1, ControlStutters
    <2>2. ASSUME NEW o \in Objects, AcquireMake(t, o)
          PROVE  Cache!Next
      BY <2>2, MakeMaps DEF Cache!Next
    <2>3. CASE AcquireMove(t)
      BY <2>3, MoveMaps DEF Cache!Next
    <2>4. CASE AcquirePop(t) \/ AcquireReturn(t) \/ ReleaseDrop(t)
      BY <2>4, PopStutters, ReturnStutters, DropStutters
    <2>5. CASE ReleaseTest(t) \/ ReleaseThrows(t) \/ ReleasePush(t)
      <3>1. local[t] # NoObject
        BY <2>5 DEF ReleaseTest, ReleaseThrows, ReleasePush, Goto, IInv,
                    Control, LocalState
      <3>2. local[t] \in Objects
        BY <3>1 DEF IInv, TypeOK, Slots
      <3>3. \/ Cache!Discard(local[t])
            \/ Cache!Keep(local[t])
            \/ UNCHANGED Cache!vars
        BY <2>5, TestMaps, ThrowMaps, PushMaps
      <3>4. QED
        BY <3>2, <3>3 DEF Cache!Next
    <2>6. CASE SizeRead(t)
      BY <2>6, ReadMaps DEF Cache!Next
    <2>7. QED
      BY <1>4, <2>1, <2>2, <2>3, <2>4, <2>5, <2>6 DEF Step
  <1>5. QED
    BY <1>0, <1>1, <1>2, <1>3, <1>4 DEF Next

\* The pool implements the cache: whatever the threads, the sizes and the
\* failures, its clients cannot tell it from one whose operations are atomic.
THEOREM PoolImplementsCache == Spec => ImplementsCache
  BY InitMaps, NextMaps, Invariance, PTL DEF Spec, ImplementsCache, Cache!Spec

=============================================================================
