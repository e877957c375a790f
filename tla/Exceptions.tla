----------------------------- MODULE Exceptions -----------------------------
(***************************************************************************)
(* Common/Exception.h: an error on its way through the handlers of a       *)
(* program.  A handler may read it by what or by GetMessage and throw      *)
(* another with that message, throw a copy of it with the class it was     *)
(* caught by, or throw it as it is.  Nothing in the repository throws yet; *)
(* what a handler does is any of what the classes allow.                   *)
(*                                                                         *)
(* A message is a sequence: the pieces that constructors put before it and *)
(* the text it began with, which may have a zero byte in it.               *)
(***************************************************************************)
EXTENDS Naturals, Sequences

CONSTANTS
    Bytes,      \* the pieces of texts
    Texts,      \* the texts errors begin with
    Zero,       \* a zero byte
    MaxThrows   \* bound: the errors made of one another

Classes == {"NexusException", "NetworkException", "ProtocolException",
            "ConfigException", "FileException", "CryptoException"}

Base == "NexusException"

ASSUME ExceptionAssumption ==
    /\ MaxThrows \in Nat /\ Zero \notin Classes
    /\ Texts \subseteq Seq(Bytes) /\ Bytes \cap Classes = {}

VARIABLES
    class,      \* the class of the exception object; "none" when all is well
    message,    \* message_
    trail,      \* the classes it was thrown as, latest first
    text        \* the text it began with

errors == <<class, message, trail, text>>

ErrorInit == class = "none" /\ message = <<>> /\ trail = <<>> /\ text = <<>>

\* What the constructor of c stores: a derived class puts the name of its kind
\* of error first.
Message(c, m) == IF c = Base THEN m ELSE <<c>> \o m

\* Where the first zero byte is, if there is one.
Zeros(m) == {i \in 1..Len(m) : m[i] = Zero}

\* A C string ends at its first zero byte.
CString(m) ==
    IF Zeros(m) = {} THEN m
    ELSE CHOOSE s \in {SubSeq(m, 1, i - 1) : i \in Zeros(m)} : Zeros(s) = {}

what == CString(message)

GetMessage == message

-----------------------------------------------------------------------------

Throw(c, x) ==
    /\ class = "none"
    /\ class' = c /\ message' = Message(c, x)
    /\ trail' = <<c>> /\ text' = x

\* A handler throws an error of its own with the message of the one it caught.
Wrap(c) ==
    /\ class \in Classes /\ Len(trail) < MaxThrows
    /\ \E m \in {what, GetMessage} : message' = Message(c, m)
    /\ class' = c /\ trail' = <<c>> \o trail
    /\ UNCHANGED text

\* MUTANT: the copy is constructed anew, from the class alone.
ThrowCopy_Anew ==
    /\ class \in Classes
    /\ class' = Base /\ message' = <<>>
    /\ UNCHANGED <<trail, text>>

\* catch (NexusException e) or throw e: a copy of the base part, message_.
ThrowCopy ==
    /\ class \in Classes
    /\ class' = Base
    /\ UNCHANGED <<message, trail, text>>

\* A string of the exception cannot be allocated: the error becomes another.
OutOfMemory ==
    /\ class # "none"
    /\ class' = "bad_alloc"
    /\ message' = <<>> /\ trail' = <<>> /\ text' = <<>>

Handled ==
    /\ class # "none"
    /\ class' = "none"
    /\ message' = <<>> /\ trail' = <<>> /\ text' = <<>>

ErrorNext ==
    \/ \E c \in Classes, x \in Texts : Throw(c, x)
    \/ \E c \in Classes : Wrap(c)
    \/ ThrowCopy \/ OutOfMemory \/ Handled

ErrorSpec == ErrorInit /\ [][ErrorNext]_errors

-----------------------------------------------------------------------------
(* Correctness.                                                            *)

\* The kinds of error among the classes s.
KindsIn(s) ==
    LET kinds[i \in 0..Len(s)] ==
            IF i = 0 THEN <<>>
            ELSE LET c == s[Len(s) - i + 1]
                 IN  IF c = Base THEN kinds[i - 1] ELSE <<c>> \o kinds[i - 1]
    IN  kinds[Len(s)]

\* An error tells every kind it was thrown as, latest first, and then its text
\* up to the first zero byte: no copy cut down to the base class, and no message
\* cut at a zero byte, loses a kind or more of the text than that.
ToldInFull == class \in Classes => what = KindsIn(trail) \o CString(text)

=============================================================================
