------------------------ MODULE MemoryPoolRefinement ------------------------
(***************************************************************************)
(* MemoryPool implements ObjectCache.  A call takes effect at the step     *)
(* that settles it: Acquire when it has constructed an object or moved one *)
(* out of the front, Release when it has pushed the object or has decided  *)
(* not to, GetPoolSize when it reads the size.                             *)
(***************************************************************************)
EXTENDS MemoryPool

\* The pool without the null pointer between move and pop.
IdleNow == IF pool # <<>> /\ Head(pool) = NoObject THEN Tail(pool) ELSE pool

\* The objects that calls hold, by what will become of them.
HeldAt(points) ==
    {local[t] : t \in {u \in Threads : pc[u] \in points}} \ {NoObject}

Unsettled == {"release.entry", "release.test", "release.push"}
Acquired  == {"acquire.pop", "acquire.unlock"}
Doomed    == {"release.unlock", "release.drop"}

OutNow == out \cup HeldAt(Acquired)

ContentNow == [o \in Objects |-> IF o \in HeldAt(Doomed) THEN Fresh ELSE content[o]]

Cache == INSTANCE ObjectCache WITH
    idle <- IdleNow,
    returning <- HeldAt(Unsettled),
    out <- OutNow,
    content <- ContentNow

\* Every behaviour of the pool is one of the lock-free first-in first-out cache:
\* for its clients, Acquire, Release and GetPoolSize are atomic, an object is
\* constructed only when none is idle and discarded only when the pool is full,
\* and what a client left in an object is what its next owner finds there.
ImplementsCache == Cache!Spec

=============================================================================
