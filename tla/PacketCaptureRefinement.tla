----------------------- MODULE PacketCaptureRefinement -----------------------
(***************************************************************************)
(* The statistics of PacketCapture implement AtomicStatistics.  What a     *)
(* thread does with them takes effect when it takes the mutex, though the  *)
(* fields are then written and copied one by one.                          *)
(***************************************************************************)
EXTENDS PacketCapture

Fields == ToSet(CaptureStatistics)

\* The fields that a job which comes to the n-th next has still to do.
Left(n) == {CaptureStatistics[k] : k \in n..5}

\* What a field holds once the running job has ended.
Settled(field) ==
    IF stats_mutex_ = Nobody THEN statistics_[field]
    ELSE IF field \notin Left(job[stats_mutex_].next) THEN statistics_[field]
    ELSE IF job[stats_mutex_].does = "count"
         THEN statistics_[field] + Adds(Frame, field)
    ELSE IF job[stats_mutex_].does = "reset" THEN 0
    ELSE statistics_[field]

\* What a report has copied, and what it will copy if nobody interferes.
Told(r) ==
    IF job[r].does # "get" THEN Idle
    ELSE [field \in Fields |-> IF field \in Left(job[r].next)
                               THEN statistics_[field] ELSE job[r].report[field]]

\* The last packet is counted once its counting has begun.
CountBegun == at \in {"wait", "callback"} \/ job[Capturer] # Idle

Statistics == INSTANCE AtomicStatistics WITH
    counted <- CountBegun,
    counts <- [field \in Fields |-> Settled(field)],
    reports <- [r \in Readers |-> Told(r)],
    NoReport <- Idle

\* Every behaviour of the capture thread and of the threads that read and reset
\* is one of statistics that are counted, reset and read at one instant each: no
\* packet is counted twice, skipped, or in half of a report.
StatisticsAreAtomic == Statistics!Spec

=============================================================================
