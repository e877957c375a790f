----------------------------- MODULE MessageQueue -----------------------------
(***************************************************************************)
(* What SendBuffers promises the threads that post: a first-in first-out   *)
(* queue of messages, with no objects, blocks or pointers.  A call that    *)
(* succeeds puts the message that is in the caller's buffer behind the     *)
(* others at one instant, and one that throws leaves no trace.             *)
(***************************************************************************)
EXTENDS Sequences

CONSTANTS Threads, Messages

VARIABLES
    buffer,     \* the message in each caller's buffer
    posting,    \* the threads in a call that is not settled
    queue,      \* the messages posted and not sent
    open,       \* whether the session lives
    sent        \* the messages that the socket took

vars == <<buffer, posting, queue, open, sent>>

Init ==
    /\ buffer \in [Threads -> Messages]
    /\ posting = {}
    /\ queue = <<>> /\ sent = <<>>
    /\ open = TRUE

Fill(t, m) ==
    /\ t \notin posting
    /\ buffer' = [buffer EXCEPT ![t] = m]
    /\ UNCHANGED <<posting, queue, open, sent>>

Begin(t) ==
    /\ open /\ t \notin posting
    /\ posting' = posting \cup {t}
    /\ UNCHANGED <<buffer, queue, open, sent>>

Post(t) ==
    /\ t \in posting
    /\ posting' = posting \ {t}
    /\ queue' = Append(queue, buffer[t])
    /\ UNCHANGED <<buffer, open, sent>>

Throw(t) ==
    /\ t \in posting
    /\ posting' = posting \ {t}
    /\ UNCHANGED <<buffer, queue, open, sent>>

Take ==
    /\ open /\ queue # <<>>
    /\ sent' = Append(sent, Head(queue))
    /\ queue' = Tail(queue)
    /\ UNCHANGED <<buffer, posting, open>>

\* What the socket has not taken is lost.
Close ==
    /\ open /\ posting = {}
    /\ queue' = <<>> /\ open' = FALSE
    /\ UNCHANGED <<buffer, posting, sent>>

Next ==
    \/ \E t \in Threads :
         \/ \E m \in Messages : Fill(t, m)
         \/ Begin(t) \/ Post(t) \/ Throw(t)
    \/ Take \/ Close

Spec == Init /\ [][Next]_vars

=============================================================================
