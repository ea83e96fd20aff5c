---------------------------- MODULE MCBufferPool ----------------------------
(* BufferPool needs no definitions to be checked by TLC.                   *)
EXTENDS BufferPool
=============================================================================
