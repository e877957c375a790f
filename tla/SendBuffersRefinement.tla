------------------------ MODULE SendBuffersRefinement ------------------------
(***************************************************************************)
(* SendBuffers implements MessageQueue: a SendData stands for the message  *)
(* in its block, and a call is settled when its object is in the queue or  *)
(* an exception ends it.                                                   *)
(***************************************************************************)
EXTENDS SendBuffers

Queue == INSTANCE MessageQueue WITH
    buffer <- [t \in Threads |-> memory[t]],
    posting <- {t \in Threads : pc[t] # "idle"},
    queue <- Waiting

\* SendData has the value of what it was made from: for the threads that post
\* and for the socket, its objects, blocks and pointers are a queue of messages.
\* Each is what was in its caller's buffer during the call, each is sent at most
\* once, and a call that throws, wherever it does, leaves the queue as it was.
QueueOfValues == Queue!Spec

=============================================================================
