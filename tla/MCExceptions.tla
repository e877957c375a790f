---------------------------- MODULE MCExceptions ----------------------------
(* Exceptions with texts of one and two pieces, with and without a zero byte. *)
EXTENDS Exceptions

CONSTANTS a, b

MCBytes == {a, b, Zero}

MCTexts == {<<a>>, <<a, Zero, b>>}

=============================================================================
