-------------------------- MODULE MCPacketDispatch --------------------------
(* PacketDispatch with the ids that the six handlers claim, under each of    *)
(* which any handler may be registered.                                      *)
EXTENDS PacketDispatch

MCIds == {GetPacketId(h) : h \in Handlers}

=============================================================================
