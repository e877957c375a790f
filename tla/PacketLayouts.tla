--------------------------- MODULE PacketLayouts ---------------------------
(***************************************************************************)
(* The packed structures of Core/PacketHandler.h that are laid over the    *)
(* headers of a captured packet, and the places where Ethernet, IPv4, TCP  *)
(* and UDP put the fields that the members are named for.                  *)
(* A member is its name and its bytes; a place is a field's first byte in  *)
(* its header and its bytes.  Each structure is laid over the beginning of *)
(* its header.  Where in a packet that is (IHL may move the transport's    *)
(* header), and turning a member of 2 or 4 bytes into the host's order,    *)
(* are left to methods that have no body in the repository.                *)
(***************************************************************************)
EXTENDS Naturals, SequencesExt

U8(name)  == [name |-> name, bytes |-> 1]
U16(name) == [name |-> name, bytes |-> 2]
U32(name) == [name |-> name, bytes |-> 4]
Mac(name) == [name |-> name, bytes |-> 6]

EthernetHeader == <<Mac("dest_mac"), Mac("src_mac"), U16("ether_type")>>

IpHeader ==
    <<U8("version_ihl"), U8("tos"), U16("total_length"), U16("identification"),
      U16("flags_fragment"), U8("ttl"), U8("protocol"), U16("checksum"),
      U32("src_ip"), U32("dest_ip")>>

\* MUTANT: the window is declared with the bits of the offset.
TcpHeader_Window32 ==
    <<U16("src_port"), U16("dest_port"), U32("seq_num"), U32("ack_num"),
      U8("data_offset_reserved"), U8("flags"), U32("window_size"),
      U16("checksum"), U16("urgent_ptr")>>

TcpHeader ==
    <<U16("src_port"), U16("dest_port"), U32("seq_num"), U32("ack_num"),
      U8("data_offset_reserved"), U8("flags"), U16("window_size"),
      U16("checksum"), U16("urgent_ptr")>>

UdpHeader == <<U16("src_port"), U16("dest_port"), U16("length"), U16("checksum")>>

TcpFlags == [FIN |-> 1, SYN |-> 2, RST |-> 4, PSH |-> 8, ACK |-> 16, URG |-> 32]

TCP == 6
UDP == 17

Transport(protocol) == IF protocol = TCP THEN TcpHeader ELSE UdpHeader

\* The structures laid over the headers of a packet.
Headers(protocol) == <<EthernetHeader, IpHeader, Transport(protocol)>>

-----------------------------------------------------------------------------

MemberBytes(members) == [i \in DOMAIN members |-> members[i].bytes]

SizeOf(members) == SumFunction(MemberBytes(members))

\* #pragma pack(push, 1): a member begins where the one before it ends.
Offset(members, i) == SumFunctionOnSet(MemberBytes(members), 1..(i - 1))

\* The bytes of a header that each member of the structure laid over it covers.
Covered(members) ==
    {<<members[i].name, Offset(members, i), members[i].bytes>> :
       i \in DOMAIN members}

-----------------------------------------------------------------------------

\* Where the standards put the fields, and the bits of the TCP flags.
Ethernet == {<<"dest_mac", 0, 6>>, <<"src_mac", 6, 6>>, <<"ether_type", 12, 2>>}

Ipv4 ==
    {<<"version_ihl", 0, 1>>, <<"tos", 1, 1>>, <<"total_length", 2, 2>>,
     <<"identification", 4, 2>>, <<"flags_fragment", 6, 2>>, <<"ttl", 8, 1>>,
     <<"protocol", 9, 1>>, <<"checksum", 10, 2>>, <<"src_ip", 12, 4>>,
     <<"dest_ip", 16, 4>>}

TcpFields ==
    {<<"src_port", 0, 2>>, <<"dest_port", 2, 2>>, <<"seq_num", 4, 4>>,
     <<"ack_num", 8, 4>>, <<"data_offset_reserved", 12, 1>>, <<"flags", 13, 1>>,
     <<"window_size", 14, 2>>, <<"checksum", 16, 2>>, <<"urgent_ptr", 18, 2>>}

UdpFields ==
    {<<"src_port", 0, 2>>, <<"dest_port", 2, 2>>, <<"length", 4, 2>>,
     <<"checksum", 6, 2>>}

FlagBits == <<"FIN", "SYN", "RST", "PSH", "ACK", "URG">>

\* Where the fields of the headers of a packet are.
Placed(protocol) ==
    <<Ethernet, Ipv4, IF protocol = TCP THEN TcpFields ELSE UdpFields>>

\* The members that do not cover their field.
Misplaced(protocol) ==
    UNION {Covered(Headers(protocol)[k]) \ Placed(protocol)[k] : k \in 1..3}

FlagValues == [i \in DOMAIN FlagBits |-> 2 ^ (i - 1)]

\* The byte with these flags raised, and the flags that the code sees in it.
FlagByte(flags) ==
    SumFunctionOnSet(FlagValues, {i \in DOMAIN FlagBits : FlagBits[i] \in flags})

FlagsIn(byte) == {f \in DOMAIN TcpFlags : (byte \div TcpFlags[f]) % 2 = 1}

=============================================================================
