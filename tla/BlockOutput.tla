---------------------------- MODULE BlockOutput ----------------------------
(***************************************************************************)
(* SnappyOutputStream and its subclass SnappyHadoopCompatibleOutputStream: *)
(* bytes collect in inputBuffer, a full block is compressed into           *)
(* outputBuffer behind the blocks already there, and outputBuffer is       *)
(* dumped to the underlying stream when the next block might not fit.      *)
(* The underlying stream may throw at any write, flush or close; a caller  *)
(* that catches the exception may go on using the stream.                  *)
(*                                                                         *)
(* Bytes are numbered in the order in which the stream takes them, so a    *)
(* lost, repeated or reordered byte shows as a gap in the numbers.         *)
(***************************************************************************)
EXTENDS Integers, Sequences

CONSTANTS BlockSize,        \* the constructor's parameter blockSize
          MIN_BLOCK_SIZE,
          Kinds,            \* which classes: TRUE for the Hadoop-compatible one
          Compressed(_),    \* Compressed(n): sizes n bytes may compress to
          WriteSizes,       \* lengths of the arrays passed to write
          MaxBytes          \* bound: bytes written in a behaviour

HEADER_SIZE == 16

\* Snappy.maxCompressedLength, from snappy's MaxCompressedLength.
maxCompressedLength(n) == 32 + n + (n \div 6)

ASSUME BlockOutputAssumption ==
    /\ BlockSize \in Nat \ {0} /\ MIN_BLOCK_SIZE \in Nat \ {0}
    /\ Kinds \subseteq BOOLEAN
    /\ WriteSizes \subseteq Nat
    /\ MaxBytes \in Nat
    /\ \A n \in 0..MaxBytes :
         Compressed(n) \subseteq 1..maxCompressedLength(n)

\* What the constructor computes.
blockSize == IF BlockSize > MIN_BLOCK_SIZE THEN BlockSize ELSE MIN_BLOCK_SIZE
inputSize == BlockSize
outputSize == HEADER_SIZE + 4 + maxCompressedLength(BlockSize)

VARIABLES
    hadoop,     \* the subclass: no header, a preamble per block
    input,      \* inputBuffer[0 .. inputCursor), as byte numbers
    o,          \* the output side, see OutputSide
    closed,     \* the flag closed
    released,   \* how often the two buffers went back to their allocators
    outClosed,  \* out.close() was called
    accepted,   \* number of bytes copied into inputBuffer so far
    todo,       \* bytes left to the write call in progress
    pc,         \* "idle" or "write", inside the loop of write
    raised      \* the exception of the last call: "none", "io", "closed", "bounds"

vars == <<hadoop, input, o, closed, released, outClosed, accepted, todo, pc, raised>>

\* An item of the compressed stream: the bytes a block holds (a block is never
\* empty), or none for the header.
Items == Seq(Nat)
Header == << >>

\* buffered: items in outputBuffer[0 .. cursor); sink: items that reached out;
\* need and room: what the last call of compress may need and what it was given.
OutputSide == [buffered : Seq(Items), cursor : Nat, headerWritten : BOOLEAN,
               sink : Seq(Items), need : Int, room : Int]

inputCursor == Len(input)

-----------------------------------------------------------------------------
\* writeHeader, guarded by headerWritten as in compressInput.
writeHeader(s) ==
    IF s.headerWritten THEN s
    ELSE [s EXCEPT !.buffered = IF hadoop THEN << >> ELSE <<Header>>,
                   !.cursor = IF hadoop THEN 0 ELSE HEADER_SIZE,
                   !.headerWritten = TRUE]

\* Mutant: room for the input is taken for room for its compressed form.
hasSufficientOutputBufferFor_Raw(s, n) == n < outputSize - s.cursor - 4

hasSufficientOutputBufferFor(s, n) ==
    maxCompressedLength(n) < outputSize - s.cursor - 4

\* writeBlockPreemble: writeCurrentDataSize in the subclass, nothing otherwise.
Preamble == IF hadoop THEN 4 ELSE 0

\* Mutant: the cursor is reset before out.write.
dumpOutput_ResetFirst(s) ==
    LET empty == [s EXCEPT !.buffered = << >>, !.cursor = 0]
    IN  {[s |-> [empty EXCEPT !.sink = @ \o s.buffered], ok |-> TRUE],
         [s |-> empty, ok |-> FALSE]}

\* The outcomes of dumpOutput: the cursor moves back only after out.write.
dumpOutput(s) ==
    IF s.cursor > 0
    THEN {[s |-> [s EXCEPT !.sink = @ \o s.buffered, !.buffered = << >>, !.cursor = 0],
           ok |-> TRUE],
          [s |-> s, ok |-> FALSE]}
    ELSE {[s |-> s, ok |-> TRUE]}

\* Preamble, compression into outputBuffer and the size field; c is the
\* compressed size.
AppendBlock(s, data, c) ==
    [s EXCEPT !.buffered = Append(@, data),
              !.cursor = @ + Preamble + 4 + c,
              !.need = maxCompressedLength(Len(data)),
              !.room = outputSize - (s.cursor + Preamble + 4)]

\* The outcomes of compressInput on the input bytes data: the output side, what
\* is left in inputBuffer, and whether it returned normally.
compressInput(s, data) ==
    LET h == writeHeader(s)
        d == IF hasSufficientOutputBufferFor(h, Len(data))
             THEN {[s |-> h, ok |-> TRUE]} ELSE dumpOutput(h)
    IN  IF data = << >>
        THEN {[s |-> h, data |-> data, ok |-> TRUE]}
        ELSE {[s |-> r.s, data |-> data, ok |-> FALSE] : r \in {x \in d : ~x.ok}}
             \union {[s |-> AppendBlock(r.s, data, c), data |-> << >>, ok |-> TRUE] :
                       r \in {x \in d : x.ok}, c \in Compressed(Len(data))}

\* Mutant: flush without dumpOutput.
flushAll_NoDump(s, data) == compressInput(s, data)

\* The outcomes of the body of flush: compressInput, dumpOutput, out.flush().
flushAll(s, data) ==
    UNION {IF ~r.ok THEN {r}
           ELSE UNION {{[s |-> x.s, data |-> r.data, ok |-> b] :
                          b \in IF x.ok THEN BOOLEAN ELSE {FALSE}} : x \in dumpOutput(r.s)}
           : r \in compressInput(s, data)}

-----------------------------------------------------------------------------
Empty == [buffered |-> << >>, cursor |-> 0, headerWritten |-> FALSE,
          sink |-> << >>, need |-> 0, room |-> 0]

Init ==
    /\ hadoop \in Kinds
    /\ input = << >>
    /\ o = Empty
    /\ closed = FALSE /\ released = 0 /\ outClosed = FALSE
    /\ accepted = 0
    /\ todo = 0 /\ pc = "idle" /\ raised = "none"

\* Every call but close on a closed stream throws.
Refused ==
    /\ pc = "idle" /\ closed
    /\ raised' = "closed"
    /\ UNCHANGED <<hadoop, input, o, closed, released, outClosed, accepted, todo, pc>>

\* write(byte[], int, int) or rawWrite with n bytes.
write(n) ==
    /\ pc = "idle" /\ ~closed
    /\ accepted + n <= MaxBytes
    /\ pc' = "write" /\ todo' = n /\ raised' = "none"
    /\ UNCHANGED <<hadoop, input, o, closed, released, outClosed, accepted>>

\* The bytes that follow the accepted ones.
NextBytes(n) == [i \in 1..n |-> accepted + i]

\* One round of the loop of rawWrite (and of write, which has the same body).
rawWrite ==
    /\ pc = "write"
    /\ LET readLen == IF todo < blockSize - inputCursor THEN todo
                                                       ELSE blockSize - inputCursor
           filled == IF readLen > 0 THEN input \o NextBytes(readLen) ELSE input
       IN  \/ /\ todo = 0
              /\ pc' = "idle"
              /\ UNCHANGED <<input, o, accepted, todo, raised>>
           \/ \* arraycopy past the end of inputBuffer
              /\ todo > 0 /\ readLen > 0 /\ inputCursor + readLen > inputSize
              /\ pc' = "idle" /\ todo' = 0 /\ raised' = "bounds"
              /\ UNCHANGED <<input, o, accepted>>
           \/ /\ todo > 0 /\ ~(readLen > 0 /\ inputCursor + readLen > inputSize)
              /\ accepted' = Len(filled) - inputCursor + accepted
              /\ \/ /\ Len(filled) < blockSize
                    /\ input' = filled
                    /\ pc' = "idle" /\ todo' = 0
                    /\ UNCHANGED <<o, raised>>
                 \/ /\ Len(filled) >= blockSize
                    /\ \E r \in compressInput(o, filled) :
                         /\ o' = r.s /\ input' = r.data
                         /\ IF r.ok THEN todo' = todo - readLen /\ UNCHANGED <<pc, raised>>
                                    ELSE todo' = 0 /\ pc' = "idle" /\ raised' = "io"
    /\ UNCHANGED <<hadoop, closed, released, outClosed>>

\* write(int).
writeByte ==
    /\ pc = "idle" /\ ~closed
    /\ accepted < MaxBytes
    /\ LET rs == IF inputCursor >= inputSize THEN compressInput(o, input)
                 ELSE {[s |-> o, data |-> input, ok |-> TRUE]}
       IN  \E r \in rs :
             /\ o' = r.s
             /\ \/ /\ r.ok
                   /\ input' = r.data \o NextBytes(1)
                   /\ accepted' = accepted + 1 /\ raised' = "none"
                \/ /\ ~r.ok
                   /\ input' = r.data /\ raised' = "io"
                   /\ UNCHANGED accepted
    /\ UNCHANGED <<hadoop, closed, released, outClosed, todo, pc>>

flush ==
    /\ pc = "idle" /\ ~closed
    /\ \E r \in flushAll(o, input) :
         /\ o' = r.s /\ input' = r.data
         /\ raised' = IF r.ok THEN "none" ELSE "io"
    /\ UNCHANGED <<hadoop, closed, released, outClosed, accepted, todo, pc>>

\* Mutant: close does not look at closed.
close_Again ==
    /\ pc = "idle"
    /\ \E r \in flushAll(o, input) :
         /\ o' = [r.s EXCEPT !.buffered = << >>, !.cursor = 0]
         /\ raised' = "none" /\ outClosed' = r.ok
    /\ input' = << >> /\ closed' = TRUE /\ released' = released + 1
    /\ UNCHANGED <<hadoop, accepted, todo, pc>>

\* close: whatever flush and out.close do, the buffers go back and the stream
\* is closed; what they still held is gone.
close ==
    /\ pc = "idle"
    /\ \/ closed /\ raised' = "none" /\ UNCHANGED <<input, o, closed, released, outClosed>>
       \/ /\ ~closed
          /\ \E r \in flushAll(o, input), b \in BOOLEAN :
               /\ o' = [r.s EXCEPT !.buffered = << >>, !.cursor = 0]
               /\ raised' = IF r.ok /\ b THEN "none" ELSE "io"
               /\ outClosed' = r.ok
          /\ input' = << >>
          /\ closed' = TRUE
          /\ released' = released + 1
    /\ UNCHANGED <<hadoop, accepted, todo, pc>>

Next == \/ \E n \in WriteSizes : write(n)
        \/ rawWrite \/ writeByte \/ flush \/ close \/ Refused

Spec == Init /\ [][Next]_vars
-----------------------------------------------------------------------------
\* Types, and: the buffers go back to the allocators once, when the stream is
\* closed, even if close is called again or fails (a second release would let
\* two open streams share a buffer).
TypeOK ==
    /\ released = IF closed THEN 1 ELSE 0
    /\ hadoop \in Kinds /\ input \in Seq(Nat)
    /\ o \in OutputSide
    /\ closed \in BOOLEAN /\ outClosed \in BOOLEAN
    /\ accepted \in 0..MaxBytes
    /\ todo \in Nat /\ pc \in {"idle", "write"}
    /\ raised \in {"none", "io", "closed", "bounds"}

\* d holds the bytes n, n + 1, ...
IsRun(d, n) == \A j \in 1..Len(d) : d[j] = n + j - 1

\* The number of the byte that follows the first i items: the header, which has
\* no data, is followed by byte 1.
After(items, i) ==
    IF i = 0 \/ items[i] = Header THEN 1 ELSE items[i][Len(items[i])] + 1

\* The items hold exactly the bytes 1, 2, ..., in order, each one once.
InOrder(items) == \A i \in 1..Len(items) : IsRun(items[i], After(items, i - 1))

\* No byte that write took is lost, repeated or reordered on its way through the
\* two buffers to out, also when out.write, out.flush or a whole call failed and
\* the caller went on; a close that reached out.close() has delivered them all.
\* out receives the 16 byte header once, before everything else, and the
\* Hadoop-compatible stream none, although headerWritten is set before the header
\* has left outputBuffer.
Conservation ==
    LET all == o.sink \o o.buffered
    IN  /\ InOrder(all)
        /\ \A i \in 1..Len(all) : (all[i] = Header) <=> (i = 1 /\ ~hadoop)
        /\ ~closed => /\ IsRun(input, After(all, Len(all)))
                      /\ accepted = After(all, Len(all)) - 1 + Len(input)
        /\ outClosed => accepted = After(o.sink, Len(o.sink)) - 1

\* Snappy.compress is given room for maxCompressedLength(inputCursor) bytes, and
\* the cursor stays inside outputBuffer.  The Hadoop-compatible stream may fall
\* short, but by less than its preamble (hasSufficientOutputBufferFor counts the
\* size field only).  No write overruns inputBuffer.
RoomForBlock ==
    /\ raised # "bounds"
    /\ o.need < o.room + (IF hadoop THEN Preamble ELSE 1)
    /\ o.cursor < outputSize + (IF hadoop THEN Preamble ELSE 1)
=============================================================================
