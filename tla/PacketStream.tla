---------------------------- MODULE PacketStream ----------------------------
(***************************************************************************)
(* Packets on a connection: the header of Common/Protocol.h, the receive   *)
(* buffer of PerIoContext and the packet buffer of Session (Core/Session.h). *)
(* TCP keeps the bytes and their order and not where one send ended.       *)
(*                                                                         *)
(* ParsePackets, PostRecv and ProcessPacket have no body in the            *)
(* repository.  The parser here is the most patient one their fields allow: *)
(* it takes what fits into packet_buffer_, hands out every whole packet at *)
(* its front and gives up only when a full buffer holds no whole packet.   *)
(*                                                                         *)
(* Sizes are scaled: a header is one number for the packet id and one for  *)
(* the length; the checksum is left out.                                   *)
(***************************************************************************)
EXTENDS Naturals, Sequences

CONSTANTS
    Ids,               \* packet ids
    Lengths,           \* payload lengths that clients send
    LengthBits,        \* bits of payload_length: 16 in the source
    RECV_BUFFER_SIZE,
    MaxSends           \* bound: packets sent in a behaviour

ASSUME StreamAssumption ==
    /\ Ids \subseteq Nat /\ Lengths \subseteq Nat
    /\ LengthBits \in Nat /\ MaxSends \in Nat
    /\ RECV_BUFFER_SIZE \in Nat \ {0}
    /\ 2 ^ LengthBits \in Nat \ {0}

VARIABLES
    wire,       \* bytes sent that no receive has taken
    posted,     \* whether recv_context_ is with the kernel
    buffer,     \* its bytes that were received and not yet parsed
    packet,     \* packet_buffer_ up to packet_buffer_pos_
    open,       \* FALSE once the parser has refused the stream
    sent,       \* packets the client sent
    parsed      \* packets handed to ProcessPacket

vars == <<wire, posted, buffer, packet, open, sent, parsed>>

HeaderSize == 2

\* 65536 for a length of 16 bits.
MAX_PACKET_SIZE == 2 ^ LengthBits

\* MUTANT: the length is taken to be that of the packet.
Header_Whole(id, payload) ==
    <<id, (HeaderSize + Len(payload)) % 2 ^ LengthBits>>

\* PacketHeader(id, len): the length is converted to its 16 bits.
Header(id, payload) == <<id, Len(payload) % 2 ^ LengthBits>>

Packets == [id : Ids, payload : Seq(Nat)]

\* MUTANT: the length of the other buffer.
ReceiveLength_Packet == MAX_PACKET_SIZE

\* wsa_buffer.len
ReceiveLength == RECV_BUFFER_SIZE

\* MUTANT: one byte is kept for a terminator.
Capacity_LessOne == MAX_PACKET_SIZE - 1

\* sizeof(packet_buffer_)
Capacity == MAX_PACKET_SIZE

Least(m, n) == IF m <= n THEN m ELSE n

Drop(s, n) == SubSeq(s, n + 1, Len(s))

Init ==
    /\ wire = <<>> /\ buffer = <<>> /\ packet = <<>>
    /\ posted = TRUE /\ open = TRUE
    /\ sent = <<>> /\ parsed = <<>>

-----------------------------------------------------------------------------

\* A client sends a packet; the payload repeats the id, so that a byte taken
\* for a header would show.
Send(id, n) ==
    LET payload == [i \in 1..n |-> id]
    IN  /\ Len(sent) < MaxSends
        /\ sent' = Append(sent, [id |-> id, payload |-> payload])
        /\ wire' = wire \o Header(id, payload) \o payload
        /\ UNCHANGED <<posted, buffer, packet, open, parsed>>

\* The receive completes with some of the bytes there are.
Receive(n) ==
    /\ posted
    /\ n \in 1..Least(Len(wire), ReceiveLength)
    /\ buffer' = SubSeq(wire, 1, n)
    /\ wire' = Drop(wire, n)
    /\ posted' = FALSE
    /\ UNCHANGED <<packet, open, sent, parsed>>

Whole == Len(packet) >= HeaderSize /\ Len(packet) >= HeaderSize + packet[2]

Parsing == open /\ ~posted

Take ==
    LET n == Least(Len(buffer), Capacity - Len(packet))
    IN  /\ Parsing /\ n > 0
        /\ packet' = packet \o SubSeq(buffer, 1, n)
        /\ buffer' = Drop(buffer, n)
        /\ UNCHANGED <<wire, posted, open, sent, parsed>>

Deliver ==
    LET size == HeaderSize + packet[2]
    IN  /\ Parsing /\ Whole
        /\ parsed' = Append(parsed, [id |-> packet[1],
                       payload |-> SubSeq(packet, HeaderSize + 1, size)])
        /\ packet' = Drop(packet, size)
        /\ UNCHANGED <<wire, posted, buffer, open, sent>>

\* ParsePackets returns false.
Refuse ==
    /\ Parsing /\ ~Whole
    /\ buffer # <<>> /\ Len(packet) = Capacity
    /\ open' = FALSE
    /\ UNCHANGED <<wire, posted, buffer, packet, sent, parsed>>

\* MUTANT: no receive is posted in the middle of a packet.
PostRecv_BetweenPackets ==
    /\ Parsing /\ ~Whole /\ buffer = <<>> /\ packet = <<>>
    /\ posted' = TRUE
    /\ UNCHANGED <<wire, buffer, packet, open, sent, parsed>>

\* The context is used again once its bytes are parsed.
PostRecv ==
    /\ Parsing /\ ~Whole /\ buffer = <<>>
    /\ posted' = TRUE
    /\ UNCHANGED <<wire, buffer, packet, open, sent, parsed>>

Serve == Take \/ Deliver \/ Refuse \/ PostRecv

Arrive == \E n \in 1..ReceiveLength : Receive(n)

Next == Serve \/ Arrive \/ \E id \in Ids, n \in Lengths : Send(id, n)

Spec == Init /\ [][Next]_vars

\* The network delivers and a worker thread handles what was received; no
\* client has to send.
FairSpec == Spec /\ WF_vars(Serve) /\ WF_vars(Arrive)

-----------------------------------------------------------------------------
(* Correctness.                                                            *)

\* Neither buffer ever holds more than its array has room for.
TypeOK ==
    /\ posted \in BOOLEAN /\ open \in BOOLEAN
    /\ wire \in Seq(Nat)
    /\ buffer \in Seq(Nat) /\ Len(buffer) <= RECV_BUFFER_SIZE
    /\ packet \in Seq(Nat) /\ Len(packet) <= MAX_PACKET_SIZE
    /\ sent \in Seq(Packets)
    /\ parsed \in Seq([id : Nat, payload : Seq(Nat)])

\* The length of the i-th packet's payload fits into the field of the header ...
Stated(i) == Len(sent[i].payload) < 2 ^ LengthBits

\* ... and the packet into the packet buffer.
Fits(i) == HeaderSize + Len(sent[i].payload) <= MAX_PACKET_SIZE

\* However receives cut the stream, the packets parsed are those sent, in their
\* order; only from a payload on whose length the header cannot state may
\* payload bytes be taken for a header.
ParsedAsSent ==
    \A i \in 1..Len(parsed) :
        (\A j \in 1..Least(i, Len(sent)) : Stated(j)) =>
            i <= Len(sent) /\ parsed[i] = sent[i]

\* The parser refuses a stream only after a packet that was too large for it.
RefusesOnlyTooLarge == ~open => \E i \in 1..Len(sent) : ~Fits(i)

\* A packet behind none that is too large is parsed in the end: no packet waits
\* in the buffers for a receive that nobody posts.
EveryPacketParsed ==
    \A k \in 1..MaxSends :
        (Len(sent) >= k /\ \A j \in 1..k : Fits(j)) ~> (Len(parsed) >= k)

=============================================================================
