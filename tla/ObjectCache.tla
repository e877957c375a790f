----------------------------- MODULE ObjectCache -----------------------------
(***************************************************************************)
(* What MemoryPool promises its clients, with no lock and no program       *)
(* counter: a first-in first-out cache of idle objects in which every      *)
(* operation takes effect at one instant.                                  *)
(***************************************************************************)
EXTENDS Naturals, Sequences

CONSTANTS Threads, Objects, Contents, Fresh, NoObject,
          InitialSize, MaxSize, AllocFails

VARIABLES
    phase,      \* of the cache's life, as in MemoryPool
    idle,       \* the cached objects, the one to reuse next first
    returning,  \* objects given up by clients, whose fate is not settled
    out,        \* objects that clients own or are about to be handed
    answer,     \* the count each thread was last given
    content     \* of each object; Fresh for an address the cache is done with

vars == <<phase, idle, returning, out, answer, content>>

Idle == {idle[i] : i \in 1..Len(idle)}

Known == Idle \cup returning \cup out

Init ==
    /\ phase = "building"
    /\ idle = <<>>
    /\ returning = {}
    /\ out = {}
    /\ answer = [t \in Threads |-> 0]
    /\ content = [o \in Objects |-> Fresh]

Forget(S) == content' = [o \in Objects |-> IF o \in S THEN Fresh ELSE content[o]]

\* The cache is filled with InitialSize new objects before it opens.
Stock(o) ==
    /\ phase = "building"
    /\ Len(idle) < InitialSize
    /\ o \notin Known
    /\ idle' = Append(idle, o)
    /\ UNCHANGED <<phase, returning, out, answer, content>>

Open ==
    /\ phase = "building"
    /\ Len(idle) >= InitialSize
    /\ phase' = "live"
    /\ UNCHANGED <<idle, returning, out, answer, content>>

\* The end, of a cache that could not be filled or of one in use: only the
\* idle objects go, those that clients own stay as they are.
End(from, to) ==
    /\ phase = from
    /\ phase' = to
    /\ idle' = <<>>
    /\ Forget(Idle)
    /\ UNCHANGED <<returning, out, answer>>

\* A new object, in the state its constructor leaves, and only when none is idle.
New(o) ==
    /\ phase = "live"
    /\ idle = <<>>
    /\ o \notin Known
    /\ out' = out \cup {o}
    /\ UNCHANGED <<phase, idle, returning, answer, content>>

\* The object that has been idle longest, with what it contained.
Reuse ==
    /\ phase = "live"
    /\ idle # <<>>
    /\ out' = out \cup {Head(idle)}
    /\ idle' = Tail(idle)
    /\ UNCHANGED <<phase, returning, answer, content>>

GiveBack(o) ==
    /\ phase = "live"
    /\ o \in out
    /\ out' = out \ {o}
    /\ returning' = returning \cup {o}
    /\ UNCHANGED <<phase, idle, answer, content>>

Keep(o) ==
    /\ phase = "live"
    /\ o \in returning
    /\ Len(idle) < MaxSize
    /\ returning' = returning \ {o}
    /\ idle' = Append(idle, o)
    /\ UNCHANGED <<phase, out, answer, content>>

\* An object is given up for good only when the cache is full, or has no
\* memory to note it.
Discard(o) ==
    /\ phase = "live"
    /\ o \in returning
    /\ Len(idle) >= MaxSize \/ AllocFails
    /\ returning' = returning \ {o}
    /\ Forget({o})
    /\ UNCHANGED <<phase, idle, out, answer>>

\* The number of idle objects at one instant: none that is half handed out.
Count(t) ==
    /\ phase = "live"
    /\ answer' = [answer EXCEPT ![t] = Len(idle)]
    /\ UNCHANGED <<phase, idle, returning, out, content>>

Change(o, c) ==
    /\ o \in out
    /\ content' = [content EXCEPT ![o] = c]
    /\ UNCHANGED <<phase, idle, returning, out, answer>>

Drop(o) ==
    /\ o \in out
    /\ out' = out \ {o}
    /\ Forget({o})
    /\ UNCHANGED <<phase, idle, returning, answer>>

Next ==
    \/ Open
    \/ End("building", "failed")
    \/ End("live", "destroyed")
    \/ Reuse
    \/ \E o \in Objects : Stock(o) \/ New(o) \/ GiveBack(o) \/ Keep(o)
                            \/ Discard(o) \/ Drop(o)
    \/ \E o \in Objects, c \in Contents : Change(o, c)
    \/ \E t \in Threads : Count(t)

Spec == Init /\ [][Next]_vars

=============================================================================
