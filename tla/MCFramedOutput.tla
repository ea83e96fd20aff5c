--------------------------- MODULE MCFramedOutput ---------------------------
(* FramedOutput needs no definitions to be checked by TLC.                 *)
EXTENDS FramedOutput
=============================================================================
