----------------------------- MODULE FramedPipe ----------------------------
(***************************************************************************)
(* A SnappyFramedOutputStream and the SnappyFramedInputStream that reads   *)
(* what it wrote.  The writer is used for a while, over a channel that may *)
(* refuse the head of a frame and with a caller that goes on after the     *)
(* exception; at any moment it is given up, closed or not, and what had    *)
(* reached the channel by then, or all but the end of its last frame, is   *)
(* read.  Behaviours without a writer read one of Streams.                 *)
(***************************************************************************)
EXTENDS FramedInput

CONSTANTS BlockSize, Compressible, Faults, WriteSizes, MaxBytes, MaxFaults

VARIABLES
    b, held, wclosed, outClosed, accepted, todo, wpc, wraised,
    promised   \* bytes accepted before the last flush or close that returned
               \* normally, 0 before the first; NULL when nothing is promised

writer == <<b, held, wclosed, outClosed, accepted, todo, wpc, wraised>>

W == INSTANCE FramedOutput WITH closed <- wclosed, pc <- wpc, raised <- wraised

pipeVars == <<vars, writer, promised>>

ASSUME WriterAssumption ==
    /\ BlockSize \in Nat \ {0}
    /\ Compressible \subseteq BOOLEAN /\ Compressible # {}
    /\ Faults \subseteq {"headFails", "bodyFails", "short"}
    /\ WriteSizes \subseteq Nat /\ MaxBytes \in Nat /\ MaxFaults \in Nat
ASSUME NullAssumption == NULL \notin Seq(Nat)
\* For the frames that Frames makes.
ASSUME FrameSizesAssumption ==
    \A n \in 5..(4 + BlockSize) \cup {6} : MaxCompressed(n) \in Nat /\ n <= MaxCompressed(n)

\* The frames that the reader finds: head i and body i + 1 of the sink are one
\* frame.  Its length field counts the checksum and the data as they are
\* written, all raw or all compressed to two bytes: the reader treats each frame
\* by itself.
Frames(sink, kind) ==
    [i \in 1..((Len(sink) + 1) \div 2) |->
        LET data == sink[2 * i - 1].data
        IN  IF i = 1 THEN [kind |-> "id"]
            ELSE [kind |-> kind, data |-> data, crcOk |-> sink[2 * i - 2].data = data,
                  length |-> 4 + (IF kind = "raw" THEN Len(data) ELSE 2)]]

-----------------------------------------------------------------------------
PipeInit ==
    /\ W!Init
    /\ \/ Init /\ promised = NULL
       \/ src = << >> /\ present = 0 /\ Fresh /\ pc = "none" /\ promised = 0

\* A flush or close that returned normally.  After an exception on the raw path
\* it means nothing: flip has set the position to 0.
Kept == wraised' = "none" /\ b'.kinds \subseteq {"headFails"}

\* A step of the writer.
Write ==
    /\ pc = "none"
    /\ \/ /\ W!flush \/ (W!close /\ ~wclosed)
          /\ promised' = IF Kept THEN accepted ELSE promised
       \/ /\ \/ W!Construct \/ W!Refused \/ (W!close /\ wclosed)
             \/ \E n \in WriteSizes, label \in {"write", "buffer", "transfer"} : W!Begin(label, n)
             \/ W!writeByte \/ W!write \/ W!writeBuffer \/ W!writeBufferLoop
             \/ W!transferFrom \/ W!transferLoop
          /\ UNCHANGED promised
    /\ UNCHANGED vars

\* The writer is gone (its variables are as in W!Init again), and a reader, which is
\* still Fresh, is made for what it left.
Open ==
    /\ pc = "none"
    /\ \E kind \in {"raw", "compressed"} : src' = Frames(b.sink, kind)
    /\ present' \in Cuts(src')
    /\ pc' = "new"
    /\ promised' = IF b.kinds \subseteq {"headFails"} THEN promised ELSE NULL
    /\ UNCHANGED <<at, off, poolVars, dataVars, eof, closed, call, got, len, bb, ghostVars>>
    /\ b' = [array |-> [i \in 1..BlockSize |-> 0], position |-> 0, limit |-> BlockSize,
             sink |-> << >>, faults |-> 0, kinds |-> {}]
    /\ held' = 0 /\ wclosed' = FALSE /\ outClosed' = FALSE
    /\ accepted' = 0 /\ todo' = 0 /\ wpc' = "new" /\ wraised' = "none"

Read == pc # "none" /\ Next /\ UNCHANGED <<writer, promised>>

PipeNext == Write \/ Open \/ Read

\* As in FramedInput: a call of the reader that has begun goes on.
PipeSpec == PipeInit /\ [][PipeNext]_pipeVars
FairPipeSpec == PipeSpec /\ WF_pipeVars(Step /\ UNCHANGED <<writer, promised>>)
-----------------------------------------------------------------------------
\* flush and close of the writer promise what the reader finds: every byte accepted
\* before one that returned normally can be read, in order, before the reader
\* returns -1, whatever heads of frames the channel had refused before.  On such
\* output the reader throws only when memory runs out, the end is missing or the
\* writer did not get to write the stream identifier; and of output that lost its
\* end it gives nothing but a prefix of what was written.
RoundTrip ==
    (promised # NULL /\ pc # "none" /\ ~bb.stale) =>
      /\ IsPrefix(delivered, [i \in 1..MaxBytes |-> i])
      /\ failed /\ ~closed => Truncated \/ src = << >> \/ raised = "OutOfMemoryError"
      /\ ended /\ ~Truncated /\ ~failed => Len(delivered) >= promised
=============================================================================
