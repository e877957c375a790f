-------------------------- MODULE MCCMakeConfigure --------------------------
(* CMakeConfigure with two possible installation directories of npcap. *)
EXTENDS CMakeConfigure

CONSTANTS default, other

MCRoots == {default, other}

\* A source tree laid out as CMakeLists.txt expects.
CompleteTree == Parts \cup Extras

=============================================================================
