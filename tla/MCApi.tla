------------------------------- MODULE MCApi -------------------------------
(* The two halves of the Java API for TLC.  They share no state, so one    *)
(* moves only while the other is where it started.                         *)
EXTENDS ArrayApi, BufferApi, TLC

ApiVars == <<arrayVars, bufferVars>>

Init == ArrayInit /\ BufferInit

Next == \/ BufferInit /\ ArrayNext /\ UNCHANGED bufferVars
        \/ ArrayInit /\ BufferNext /\ UNCHANGED arrayVars

Spec == Init /\ [][Next]_ApiVars

\* All lengths of an int of this width.
AllLengths == 0..MAX_VALUE

\* One direct buffer is smaller than the other.
CONSTANTS wide, narrow, onHeap
MCCapacity == wide :> 4 @@ narrow :> 2 @@ onHeap :> 1
=============================================================================
