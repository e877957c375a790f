--------------------------- MODULE AtomicStatistics ---------------------------
(***************************************************************************)
(* What the capture statistics of PacketCapture promise the threads that   *)
(* use them, with no mutex and no field by itself: to count a packet, to   *)
(* reset the statistics and to read them each take effect at one instant,  *)
(* and every packet is counted once, before the next is captured.          *)
(***************************************************************************)
EXTENDS Naturals, Sequences

CONSTANTS
    Readers,        \* the threads that read and reset
    Packets,        \* the packets there may be
    Fields,         \* the fields of the statistics
    Adds(_, _),     \* what a packet adds to a field
    NoReport        \* the report of a thread that reads nothing

VARIABLES
    log,        \* the packets captured
    counted,    \* whether the last of them is in the statistics
    counts,     \* the statistics
    reports     \* what each thread is about to be told

vars == <<log, counted, counts, reports>>

Zeros == [f \in Fields |-> 0]

Init ==
    /\ log = <<>> /\ counted = TRUE
    /\ counts = Zeros
    /\ reports = [r \in Readers |-> NoReport]

Capture(p) ==
    /\ counted
    /\ log' = Append(log, p) /\ counted' = FALSE
    /\ UNCHANGED <<counts, reports>>

Count ==
    /\ ~counted
    /\ counts' = [f \in Fields |-> counts[f] + Adds(log[Len(log)], f)]
    /\ counted' = TRUE
    /\ UNCHANGED <<log, reports>>

Reset ==
    /\ counts' = Zeros
    /\ UNCHANGED <<log, counted, reports>>

\* A thread reads all fields at once and is told of them at its leisure.
Get(r) ==
    /\ reports[r] = NoReport
    /\ reports' = [reports EXCEPT ![r] = counts]
    /\ UNCHANGED <<log, counted, counts>>

Return(r) ==
    /\ reports[r] # NoReport
    /\ reports' = [reports EXCEPT ![r] = NoReport]
    /\ UNCHANGED <<log, counted, counts>>

Next ==
    \/ \E p \in Packets : Capture(p)
    \/ Count \/ Reset
    \/ \E r \in Readers : Get(r) \/ Return(r)

Spec == Init /\ [][Next]_vars

=============================================================================
