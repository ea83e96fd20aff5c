--------------------------- MODULE MCNativeCalls ---------------------------
(* A small instance of NativeCalls for TLC: one thread calls every native  *)
(* method, the other the one with the most steps, on arrays it may share.    *)
EXTENDS NativeCalls, TLC

CONSTANTS t1, t2

MCCallable == t1 :> Methods @@ t2 :> {rawUncompress_Object}
=============================================================================
