----------------------------- MODULE BlockPipe -----------------------------
(***************************************************************************)
(* A SnappyOutputStream and the SnappyInputStream that reads what it wrote.*)
(* The writer is used for a while, over a stream whose writes may fail and *)
(* with a caller that goes on after exceptions; at any moment it is given  *)
(* up, closed or not (the process may have crashed), and what had reached  *)
(* the underlying stream by then, or all but the end of its last item, is  *)
(* read.  Behaviours without a writer read one of Streams.                 *)
(***************************************************************************)
EXTENDS BlockInput

CONSTANTS BlockSize, MIN_BLOCK_SIZE, Compressed(_), WriteSizes, MaxBytes

VARIABLES
    hadoop, input, o, closed, released, outClosed, accepted, todo, wpc, wraised,
    promised   \* bytes accepted before the last flush or close that returned
               \* normally, 0 before the first; NULL when there is no writer

writer == <<hadoop, input, o, closed, released, outClosed, accepted, todo, wpc, wraised>>

W == INSTANCE BlockOutput WITH Kinds <- {FALSE}, pc <- wpc, raised <- wraised

pipeVars == <<vars, writer, promised>>

ASSUME WriterAssumption ==
    /\ BlockSize \in Nat \ {0} /\ MIN_BLOCK_SIZE \in Nat \ {0}
    /\ WriteSizes \subseteq Nat /\ MaxBytes \in Nat
    /\ \A n \in 0..MaxBytes : Compressed(n) \subseteq 1..W!maxCompressedLength(n)
ASSUME NullAssumption == NULL \notin Seq(Nat)

\* The items of the format as the reader sees them: a block is its size field and
\* the compressed bytes.
Wire(item) ==
    IF item = W!Header THEN [kind |-> "header", version |-> MINIMUM_COMPATIBLE_VERSION]
    ELSE [kind |-> "chunk", bytes |-> 4 + Len(item) + 2, data |-> item]

-----------------------------------------------------------------------------
PipeInit ==
    /\ W!Init
    /\ \/ Init /\ promised = NULL
       \/ pc = "none" /\ src = << >> /\ present = 0 /\ Fresh /\ promised = 0

\* A step of the writer.
Write ==
    /\ pc = "none"
    /\ \/ (W!flush \/ (W!close /\ ~closed)) /\ wraised' = "none" /\ promised' = accepted
       \/ (W!flush \/ W!close) /\ (wraised' # "none" \/ closed) /\ UNCHANGED promised
       \/ (\E n \in WriteSizes : W!write(n)) /\ UNCHANGED promised
       \/ (W!rawWrite \/ W!writeByte \/ W!Refused) /\ UNCHANGED promised
    /\ UNCHANGED vars

\* The writer is gone (its variables are as in W!Init again) and a reader, which is
\* still Fresh, is made for what it left.
Open ==
    /\ pc = "none"
    /\ src' = [i \in 1..Len(o.sink) |-> Wire(o.sink[i])]
    /\ present' \in Cuts(src')
    /\ pc' = "header"
    /\ UNCHANGED <<at, off, inClosed, finishedReading, uncompressed, cursor, limit, callVars, got,
                   written, ghostVars>>
    /\ input' = << >> /\ accepted' = 0 /\ todo' = 0 /\ wpc' = "idle" /\ wraised' = "none"
    /\ o' = W!Empty /\ closed' = FALSE /\ released' = 0 /\ outClosed' = FALSE
    /\ UNCHANGED <<hadoop, promised>>

Read == pc # "none" /\ Next /\ UNCHANGED <<writer, promised>>

PipeNext == Write \/ Open \/ Read

\* As in BlockInput: a call of the reader that has begun goes on.
PipeSpec == PipeInit /\ [][PipeNext]_pipeVars
FairPipeSpec == PipeSpec /\ WF_pipeVars(Step /\ UNCHANGED <<writer, promised>>)
-----------------------------------------------------------------------------
Numbers(n) == [i \in 1..n |-> i]

\* flush and close of the writer promise what read of the reader finds: after a
\* flush or close that returned normally every byte accepted before it can be read,
\* in order, before the reader returns -1, whatever had failed and been retried
\* before.  The reader never throws on output that is all there (only that of a
\* writer that was never flushed may be empty, which is no stream), and of output
\* that lost its end it still gives nothing but a prefix of what was written.
RoundTrip ==
    (promised # NULL /\ pc # "none" /\ ~inClosed) =>
      /\ IsPrefix(delivered \o written, Numbers(MaxBytes))
      /\ failed => Truncated \/ (src = << >> /\ promised = 0)
      /\ ~Truncated /\ eof => Len(delivered) >= promised
=============================================================================
