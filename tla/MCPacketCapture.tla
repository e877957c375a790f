-------------------------- MODULE MCPacketCapture --------------------------
(* PacketCapture with two threads that read or reset; packets of TCP, of UDP *)
(* and one that is no IP, of which five wrap totals of two bits; the TCP     *)
(* packet has two of the flags.                                              *)
EXTENDS PacketCaptureRefinement, TLC

CONSTANTS r1, r2, c1, c2

MCReaders == {r1, r2}
MCClients == {c1, c2}

Packet(result, protocol, flags, client, size) ==
    [result |-> result, protocol |-> protocol, flags |-> flags,
     client |-> client, size |-> size]

MCPackets ==
    { Packet("SUCCESS", TCP, {"SYN", "ACK"}, c1, 3),
      Packet("SUCCESS", UDP, {}, c2, 1),
      Packet("INVALID_IP", UDP, {}, c2, 1) }

\* One way to tell the kinds apart: a packet that could not be analysed is not
\* known to be TCP or UDP.
MCAdds(p, field) ==
    LET tcp == p.result = "SUCCESS" /\ p.protocol = TCP
        udp == p.result = "SUCCESS" /\ p.protocol = UDP
    IN  CASE field = "total_packets_captured" -> 1
          [] field = "bytes_captured"         -> p.size
          [] field = "tcp_packets"            -> IF tcp THEN 1 ELSE 0
          [] field = "udp_packets"            -> IF udp THEN 1 ELSE 0
          [] field = "other_packets"          -> IF tcp \/ udp THEN 0 ELSE 1

Symmetry == Permutations(MCReaders)

=============================================================================
