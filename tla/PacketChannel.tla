----------------------------- MODULE PacketChannel -----------------------------
(***************************************************************************)
(* What PacketStream promises the two ends of a connection: a channel of   *)
(* whole packets, with no bytes, receives or buffers.  The packets come    *)
(* out as they went in, none before it was sent, until one whose length    *)
(* its header could not state; of what comes from there on nothing is      *)
(* promised but that it comes behind the rest.                             *)
(***************************************************************************)
EXTENDS Naturals, Sequences

CONSTANTS
    Outgoing,       \* the packets that may be sent
    States(_),      \* whether the header can state a packet's length
    HasRoom(_)      \* whether a packet fits the receiver's buffer

VARIABLES
    sent,           \* the packets sent
    delivered,      \* what the receiver handed out
    open            \* FALSE once the receiver has refused the stream

vars == <<sent, delivered, open>>

Init == sent = <<>> /\ delivered = <<>> /\ open = TRUE

\* How many packets there will be with the next.
Count == Len(delivered) + 1

InStep == \A i \in 1..Len(sent) : i <= Count => States(sent[i])

Send(p) ==
    /\ sent' = Append(sent, p)
    /\ UNCHANGED <<delivered, open>>

Deliver ==
    /\ open /\ InStep /\ Count <= Len(sent)
    /\ delivered' = Append(delivered, sent[Count])
    /\ UNCHANGED <<sent, open>>

\* Some payload byte has been taken for a header.
Garble ==
    /\ open /\ ~InStep
    /\ Len(delivered') = Count
    /\ SubSeq(delivered', 1, Len(delivered)) = delivered
    /\ UNCHANGED <<sent, open>>

Refuse ==
    /\ open /\ \E i \in 1..Len(sent) : ~HasRoom(sent[i])
    /\ open' = FALSE
    /\ UNCHANGED <<sent, delivered>>

Next ==
    \/ \E p \in Outgoing : Send(p)
    \/ Deliver \/ Garble \/ Refuse

Spec == Init /\ [][Next]_vars

=============================================================================
