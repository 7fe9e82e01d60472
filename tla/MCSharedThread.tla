--------------------------- MODULE MCSharedThread ---------------------------
(* SharedThread with the values TLC checks it for.                         *)
EXTENDS SharedThread

MCHelps == {"h1"}
=============================================================================
