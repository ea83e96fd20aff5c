--------------------------- MODULE MCBlockOutput ---------------------------
(* Small instances of BlockOutput for TLC.                                 *)
EXTENDS BlockOutput

\* Short inputs compress to a literal of n + 2 bytes, or to about half.
SmallSizes(n) == {n + 2, (n \div 2) + 2}
=============================================================================
