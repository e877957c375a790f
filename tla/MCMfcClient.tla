---------------------------- MODULE MCMfcClient ----------------------------
(* MfcClient with three files, each missing, empty or holding one of the texts. *)
EXTENDS MfcClient

CONSTANTS f1, f2, f3, text

MCFiles == {f1, f2, f3}

MCTexts == {text}

=============================================================================
