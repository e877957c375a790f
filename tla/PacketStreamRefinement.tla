------------------------ MODULE PacketStreamRefinement ------------------------
(***************************************************************************)
(* PacketStream implements PacketChannel: a packet is delivered when it is *)
(* handed to ProcessPacket, and what happens to bytes on the way shows to  *)
(* neither end.                                                            *)
(***************************************************************************)
EXTENDS PacketStream

\* The packets that Send makes.
Outgoing == {[id |-> id, payload |-> [i \in 1..n |-> id]] : id \in Ids, n \in Lengths}

\* Stated and Fits of a packet, wherever it is.
States(p) == Len(p.payload) < 2 ^ LengthBits

HasRoom(p) == HeaderSize + Len(p.payload) <= MAX_PACKET_SIZE

Channel == INSTANCE PacketChannel WITH delivered <- parsed

\* The bytes on the wire and in the two buffers are a channel of packets: each is
\* delivered once, whole, after it was sent and behind those sent before it, as
\* long as the header could state every length; what was delivered stays so,
\* whatever comes later; and only a packet too large for the buffer closes it.
StreamIsChannel == Channel!Spec

=============================================================================
