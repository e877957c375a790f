---------------------------- MODULE MCSingletons ----------------------------
(* Singletons with an address for the object of each class, so that a second *)
(* object of one class would leave the other without; counters of two bits,  *)
(* which wrap both below zero and above three; values of either sign, both   *)
(* infinities (Greatest is 9) and NaN.                                       *)
EXTENDS Singletons

CONSTANTS t1, t2, o1, o2, latency

MCThreads == {t1, t2}

MCObjects == {o1, o2}
MCNames == {latency}
MCValues == {-10, -2, 3, 10, NaN}

=============================================================================
