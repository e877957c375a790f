-------------------------- MODULE MCSharedHandlers --------------------------
(* SharedHandlers with three font handles and two contents.                  *)
EXTENDS SharedHandlers

CONSTANTS f1, f2, f3, c1, c2

MCFonts == {f1, f2, f3}

MCContents == {c1, c2}

=============================================================================
