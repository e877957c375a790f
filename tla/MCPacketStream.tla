--------------------------- MODULE MCPacketStream ---------------------------
(* PacketStream with lengths of two bits, so that a packet has at most four *)
(* bytes: payloads of none, one and two fit; three can be stated and does   *)
(* not fit; five is cut to one.                                             *)
EXTENDS PacketStreamRefinement

MCIds == {1, 3}

MCLengths == {0, 1, 2, 3, 5}

=============================================================================
