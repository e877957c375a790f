--------------------------- MODULE PacketCapture ---------------------------
(***************************************************************************)
(* Core/PacketHandler.h: a packet from pcap's buffer through the capture   *)
(* thread of NpcapPacketAnalyzer, which analyses it, counts it and gives   *)
(* it to the callbacks, one of them ServerTrafficAnalyzer's, while other   *)
(* threads read and reset the statistics.                                  *)
(*                                                                         *)
(* The methods have no body in the repository.  Their part is what the     *)
(* types fix: PacketInfo owns its strings and numbers and points to the    *)
(* bytes, which pcap keeps until the next packet; a callback gets it by    *)
(* reference; a connection's counters have half the bits of the totals;    *)
(* statistics_ is a record of plain numbers under stats_mutex_, read and   *)
(* written field by field.  What a packet adds to each field is not fixed, *)
(* and is a parameter.  Left out are dropped_packets, which pcap counts,   *)
(* and starting and stopping: what is_capturing_, should_stop_ and         *)
(* joining capture_thread_ do, and in which order, is not fixed.           *)
(***************************************************************************)
EXTENDS Integers, FiniteSets, Functions, PacketLayouts

CONSTANTS
    Readers,        \* the threads that read and reset the statistics
    Capturer,       \* capture_thread_
    Nobody,
    Clients,        \* the keys of active_connections_, "ip:port"
    Packets,        \* the packets there may be
    Adds(_, _),     \* what a packet adds to a field of the statistics
    CounterBits,    \* bits of a connection's counter: 32 in the source
    MaxPackets      \* bound: packets captured

PacketAnalysisResult ==
    {"SUCCESS", "INVALID_ETHERNET", "INVALID_IP", "INVALID_TCP_UDP",
     "UNSUPPORTED_PROTOCOL", "FRAGMENTED_PACKET"}

\* In the order of their declaration.
CaptureStatistics ==
    <<"total_packets_captured", "tcp_packets", "udp_packets", "other_packets",
      "bytes_captured">>

ASSUME CaptureAssumption ==
    /\ Capturer \notin Readers /\ Nobody \notin Readers \cup {Capturer}
    /\ Packets \subseteq
         [result : PacketAnalysisResult, protocol : {TCP, UDP},
          flags : SUBSET DOMAIN TcpFlags, client : Clients, size : Nat]
    /\ \A p \in Packets, field \in ToSet(CaptureStatistics) : Adds(p, field) \in Nat
    /\ CounterBits \in Nat /\ MaxPackets \in Nat /\ IsFiniteSet(Clients)
    \* Facts of the powers of 2, which a prover does not know of itself.
    /\ 2 ^ CounterBits \in Nat \ {0}
    /\ 2 ^ (2 * CounterBits) = 2 ^ CounterBits * 2 ^ CounterBits

Threads == Readers \cup {Capturer}

VARIABLES
    at,             \* where the capture thread is
    log,            \* the packets captured; the last is in pcap's buffer
    info,           \* the PacketInfo given to the callbacks
    connections,    \* active_connections_: the bytes of each
    totals,         \* current_stats_: the bytes of all
    statistics_,
    stats_mutex_,   \* the thread that holds it
    job,            \* what each thread does with the statistics
    since           \* the packets whose counting began after the last reset

traffic == <<connections, totals>>
counting == <<statistics_, stats_mutex_, job, since>>
vars == <<at, log, info, traffic, counting>>

Zero == [f \in ToSet(CaptureStatistics) |-> 0]

Idle == [does |-> "nothing"]

NoInfo == [of |-> 0]

Init ==
    /\ at = "wait" /\ log = <<>> /\ info = NoInfo
    /\ connections = [c \in Clients |-> 0] /\ totals = 0
    /\ statistics_ = Zero /\ stats_mutex_ = Nobody
    /\ job = [t \in Threads |-> Idle]
    /\ since = {}

\* The packet that is in pcap's buffer now.
Frame == log[Len(log)]

Goes(from, to) == at = from /\ at' = to

-----------------------------------------------------------------------------
(* The statistics.                                                         *)

elsewhere == <<log, info, traffic>>

\* A thread begins with the statistics, under the mutex.
Begin(t, what) ==
    /\ job[t] = Idle /\ stats_mutex_ = Nobody
    /\ stats_mutex_' = t
    /\ job' = [job EXCEPT ![t] = [does |-> what, next |-> 1, report |-> Zero]]

Done(t) == job[t] # Idle /\ job[t].next > Len(CaptureStatistics)

\* The field that a thread which does this comes to next.
Field(t) == CaptureStatistics[job[t].next]

Advance(t, what) ==
    /\ job[t].does = what /\ ~Done(t)
    /\ UNCHANGED <<stats_mutex_, since, at, elsewhere>>

\* MUTANT: counted without the mutex, as if each field were atomic.
ProcessPacket_NoLock ==
    /\ at = "count" /\ job[Capturer] = Idle
    /\ job' = [job EXCEPT
                 ![Capturer] = [does |-> "count", next |-> 1, report |-> Zero]]
    /\ since' = since \cup {Len(log)}
    /\ UNCHANGED <<statistics_, stats_mutex_, at, elsewhere>>

\* The capture thread begins to count the packet it has analysed.
ProcessPacket ==
    /\ at = "count"
    /\ Begin(Capturer, "count")
    /\ since' = since \cup {Len(log)}
    /\ UNCHANGED <<statistics_, at, elsewhere>>

GetStatistics(r) ==
    /\ Begin(r, "get")
    /\ UNCHANGED <<statistics_, since, at, elsewhere>>

\* MUTANT: cleared without the mutex, as if each field were atomic.
ResetStatistics_NoLock(r) ==
    /\ job[r] = Idle
    /\ job' = [job EXCEPT
                 ![r] = [does |-> "reset", next |-> 1, report |-> Zero]]
    /\ since' = {}
    /\ UNCHANGED <<statistics_, stats_mutex_, at, elsewhere>>

ResetStatistics(r) ==
    /\ Begin(r, "reset")
    /\ since' = {}
    /\ UNCHANGED <<statistics_, at, elsewhere>>

Count ==
    /\ Advance(Capturer, "count")
    /\ statistics_' = [statistics_ EXCEPT
                         ![Field(Capturer)] = @ + Adds(Frame, Field(Capturer))]
    /\ job' = [job EXCEPT ![Capturer].next = @ + 1]

Get(r) ==
    /\ Advance(r, "get")
    /\ job' = [job EXCEPT ![r].next = @ + 1,
                          ![r].report[Field(r)] = statistics_[Field(r)]]
    /\ UNCHANGED statistics_

Reset(r) ==
    /\ Advance(r, "reset")
    /\ statistics_' = [statistics_ EXCEPT ![Field(r)] = 0]
    /\ job' = [job EXCEPT ![r].next = @ + 1]

\* The mutex is given back; a packet that was counted goes to the callbacks.
End(t) ==
    /\ Done(t)
    /\ job' = [job EXCEPT ![t] = Idle]
    /\ stats_mutex_' = Nobody
    /\ \/ t # Capturer /\ at' = at
       \/ t = Capturer /\ at' = IF Frame.result = "SUCCESS" THEN "callback" ELSE "wait"
    /\ UNCHANGED <<statistics_, since, elsewhere>>

-----------------------------------------------------------------------------
(* The packets.                                                            *)

\* MUTANT: the next packet does not wait for the callbacks.
Capture_Ahead(p) ==
    /\ at \in {"wait", "callback"}
    /\ Len(log) < MaxPackets
    /\ log' = Append(log, p)
    /\ at' = IF at = "wait" THEN "analyze" ELSE at
    /\ UNCHANGED <<info, traffic, counting>>

\* A packet takes the place of the one before in pcap's buffer.
Capture(p) ==
    /\ Goes("wait", "analyze")
    /\ Len(log) < MaxPackets
    /\ log' = Append(log, p)
    /\ UNCHANGED <<info, traffic, counting>>

\* The members of the structures laid over the packet go into a PacketInfo.
AnalyzePacket ==
    /\ Goes("analyze", "count")
    /\ info' = [of |-> Len(log), client |-> Frame.client, size |-> Frame.size,
                flags |-> FlagsIn(FlagByte(Frame.flags)),
                misplaced |-> Misplaced(Frame.protocol)]
    /\ UNCHANGED <<log, traffic, counting>>

\* The packet that the payload_data and raw_packet of a PacketInfo point to.
Raw(i) == Len(log)

\* MUTANT: 32 bits everywhere.
Total_32(n) == n % 2 ^ CounterBits

\* total_bytes_in and total_bytes_out
Total(n) == n % 2 ^ (2 * CounterBits)

\* bytes_sent and bytes_received
Counter(n) == n % 2 ^ CounterBits

\* The callbacks; the analyser's counts the packet for its connection.
Callback ==
    /\ Goes("callback", "wait")
    /\ connections' = [connections EXCEPT
                         ![info.client] = Counter(@ + info.size)]
    /\ totals' = Total(totals + info.size)
    /\ UNCHANGED <<log, info, counting>>

Next ==
    \/ \E p \in Packets : Capture(p)
    \/ AnalyzePacket \/ ProcessPacket \/ Count \/ Callback
    \/ \E r \in Readers :
         GetStatistics(r) \/ ResetStatistics(r) \/ Get(r) \/ Reset(r)
    \/ \E t \in Threads : End(t)

Spec == Init /\ [][Next]_vars

-----------------------------------------------------------------------------
(* Correctness.                                                            *)

\* What the callbacks are told of a packet and the bytes they read through its
\* pointers while they run are of one packet, though pcap uses its buffer again.
InfoIsOfOnePacket ==
    at = "callback" =>
        /\ Raw(info) = info.of
        /\ info.client = log[info.of].client /\ info.size = log[info.of].size

\* The packed structures put each member over the bytes of its header where
\* Ethernet, IPv4, TCP and UDP put the field it is named for, and no two TCP
\* flags share a bit: the flags told are those of the packet.
MembersCoverFields ==
    at = "callback" =>
        /\ info.misplaced = {}
        /\ info.flags = log[info.of].flags

\* The bytes of the packets that went through the callbacks.
Bytes(clients) ==
    MapThenSumSet(LAMBDA i : log[i].size,
        {i \in 1..Len(log) : /\ log[i].result = "SUCCESS"
                             /\ log[i].client \in clients
                             /\ i = Len(log) => at = "wait"})

\* A connection's counter wraps and its total does not: together they never
\* differ by anything but whole wraps of a connection's counter.
CountersAgree ==
    /\ \A c \in Clients : (Bytes({c}) - connections[c]) % 2 ^ CounterBits = 0
    /\ Bytes(Clients) < 2 ^ (2 * CounterBits) => totals = Bytes(Clients)
    /\ (totals - FoldFunction(+, 0, connections)) % 2 ^ CounterBits = 0

\* With the mutex free, the statistics are those of the packets captured since
\* the last reset: no packet is counted half before a reset and half after it.
CountedSinceReset ==
    stats_mutex_ = Nobody =>
        \A field \in DOMAIN statistics_ :
            statistics_[field] =
                MapThenSumSet(LAMBDA i : Adds(log[i], field), since)

=============================================================================
