--------------------------- MODULE PacketDispatch ---------------------------
(***************************************************************************)
(* From the id in a packet's header to the handler that claims it: the ids *)
(* of Common/Protocol.h, the handlers of Core/PacketHandler.h and the map  *)
(* of PacketDispatcher.                                                    *)
(*                                                                         *)
(* The dispatcher's methods have no body in the repository.  What is fixed *)
(* is that handlers_ owns at most one handler under each id; that an id is *)
(* given to RegisterHandler beside the handler, and need not be the one    *)
(* that the handler claims; and that a second handler given for an id      *)
(* either takes the place of the first, which is destroyed, or is itself   *)
(* refused.  Whether a handler that is running outlives its place is not   *)
(* fixed, and is left out.                                                 *)
(***************************************************************************)
EXTENDS Naturals

CONSTANTS
    Ids,        \* ids that handlers are registered under
    NoHandler   \* no handler

PacketID ==
    [LOGIN_REQ |-> 1001, LOGIN_RES |-> 1002, LOGOUT_REQ |-> 1003,
     LOGOUT_RES |-> 1004, HEARTBEAT_REQ |-> 1005, HEARTBEAT_RES |-> 1006,
     ENTER_ROOM_REQ |-> 2001, ENTER_ROOM_RES |-> 2002,
     NEW_USER_IN_ROOM_NTF |-> 2003, LEAVE_ROOM_REQ |-> 2004,
     USER_LEFT_ROOM_NTF |-> 2005, ROOM_CHAT_REQ |-> 2006,
     ROOM_CHAT_NTF |-> 2007, FILE_UPLOAD_REQ |-> 3001,
     FILE_UPLOAD_RES |-> 3002, FILE_CHUNK_SEND |-> 3003,
     FILE_UPLOAD_COMPLETE_NTF |-> 3004, ADMIN_USER_LIST_REQ |-> 9001,
     ADMIN_USER_LIST_RES |-> 9002, KICK_USER_REQ |-> 9003,
     KICK_USER_RES |-> 9004]

\* MUTANT: a handler written from another and left with its id.
Claims_Copied ==
    [LoginHandler |-> "LOGIN_REQ", LogoutHandler |-> "LOGIN_REQ",
     EnterRoomHandler |-> "ENTER_ROOM_REQ",
     LeaveRoomHandler |-> "LEAVE_ROOM_REQ",
     ChatMessageHandler |-> "ROOM_CHAT_REQ",
     FileUploadHandler |-> "FILE_UPLOAD_REQ"]

\* The id that each handler's GetPacketId returns, by its name.
Claims ==
    [LoginHandler |-> "LOGIN_REQ", LogoutHandler |-> "LOGOUT_REQ",
     EnterRoomHandler |-> "ENTER_ROOM_REQ",
     LeaveRoomHandler |-> "LEAVE_ROOM_REQ",
     ChatMessageHandler |-> "ROOM_CHAT_REQ",
     FileUploadHandler |-> "FILE_UPLOAD_REQ"]

\* The classes that implement IPacketHandler.
Handlers == DOMAIN Claims

ASSUME DispatchAssumption ==
    /\ NoHandler \notin Handlers
    /\ Ids \subseteq 0 .. 65535

GetPacketId(h) == PacketID[Claims[h]]

VARIABLES
    handlers,   \* handlers_: the handler registered under each id
    wanted      \* handlers that took the place of the id they claim, which
                \* nobody has taken back or given to another since

dispatching == <<handlers, wanted>>

DispatchInit ==
    /\ handlers = [k \in Ids |-> NoHandler]
    /\ wanted = {}

\* The handlers wanted when the place of an id is taken from its handler.
Without(k) == {h \in wanted : GetPacketId(h) # k}

\* A handler under the id it claims is wanted there beside all others; one under
\* another id is put over the handler of that id on purpose.
RegisterHandler(k, h) ==
    \/ /\ handlers' = [handlers EXCEPT ![k] = h]
       /\ wanted' = IF GetPacketId(h) = k THEN wanted \cup {h} ELSE Without(k)
    \/ handlers[k] # NoHandler /\ UNCHANGED dispatching

UnregisterHandler(k) ==
    /\ handlers' = [handlers EXCEPT ![k] = NoHandler]
    /\ wanted' = Without(k)

\* The handler that a packet with this id finds.
DispatchPacket(k) == IF k \in Ids THEN handlers[k] ELSE NoHandler

DispatchNext ==
    \E k \in Ids :
        \/ \E h \in Handlers : RegisterHandler(k, h)
        \/ UnregisterHandler(k)

DispatchSpec == DispatchInit /\ [][DispatchNext]_dispatching

-----------------------------------------------------------------------------
(* Correctness.                                                            *)

\* Handlers registered under the ids that they claim never take each other's
\* place: in whatever order handlers come and go, and whichever is put under an
\* id it does not claim, the packets that a wanted one claims find it.
NoneReplaced == \A h \in wanted : DispatchPacket(PacketID[Claims[h]]) = h

=============================================================================
