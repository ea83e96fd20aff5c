---------------------------- MODULE FramedOutput ----------------------------
(***************************************************************************)
(* SnappyFramedOutputStream: bytes collect in a ByteBuffer of blockSize    *)
(* bytes; flushBuffer makes a frame of them (header with the checksum,     *)
(* then compressed or raw data) and writes it to a WritableByteChannel in  *)
(* two writes.  The position and limit of the buffer are state of their    *)
(* own: flip, clear and the copy into the direct buffer move them, and an  *)
(* exception from the channel leaves them where they are.                  *)
(*                                                                         *)
(* Bytes are numbered in the order in which the stream takes them.         *)
(***************************************************************************)
EXTENDS Integers, Sequences

CONSTANTS BlockSize,      \* blockSize
          Compressible,   \* can a block reach minCompressionRatio or miss it
          Faults,         \* how the channel may misbehave, see writeBlock
          WriteSizes,     \* lengths of arrays and buffers passed to write
          MaxBytes,       \* bound: bytes written in a behaviour
          MaxFaults       \* bound: how often the channel misbehaves

ASSUME FramedOutputAssumption ==
    /\ BlockSize \in Nat \ {0}
    /\ Compressible \subseteq BOOLEAN /\ Compressible # {}
    /\ Faults \subseteq {"headFails", "bodyFails", "short"}
    /\ WriteSizes \subseteq Nat /\ MaxBytes \in Nat /\ MaxFaults \in Nat

VARIABLES
    b,          \* the buffer and the channel, see Sides
    held,       \* buffers taken from the pool and not returned
    closed,
    outClosed,  \* out.close() was called
    accepted,   \* bytes put into the buffer so far
    todo,       \* bytes left to the call in progress
    pc,
    raised      \* the exception of the last call: "none", "io" or "closed"

vars == <<b, held, closed, outClosed, accepted, todo, pc, raised>>

\* array, position and limit are those of the ByteBuffer; sink is what the
\* channel received: the stream identifier, then heads and bodies of frames;
\* faults counts how often it misbehaved, and kinds is how.
Sides == [array : [1..BlockSize -> Nat], position : 0..BlockSize, limit : 0..BlockSize,
          sink : Seq([part : {"id", "head", "body"}, data : Seq(Nat)]),
          faults : 0..MaxFaults, kinds : SUBSET {"headFails", "rawHeadFails", "bodyFails", "short"}]

Part(p, data) == [part |-> p, data |-> data]
remaining(s) == s.limit - s.position

\* buffer.put: the next n bytes go behind the position.
Put(s, n) ==
    [s EXCEPT !.array = [i \in 1..BlockSize |->
                           IF i > s.position /\ i <= s.position + n
                           THEN accepted + (i - s.position) ELSE s.array[i]],
              !.position = @ + n]

-----------------------------------------------------------------------------
\* The outcomes of writeBlock with n bytes of data, compressed or not; pos is the
\* position the buffer has when the channel is called.  The checksum in the head
\* is that of array[0 .. n).  A channel may take less than it is given; the count
\* that out.write returns is not looked at.
writeBlock(s, n, compressed, pos) ==
    LET data == SubSeq(s.array, 1, n)
        head == Part("head", data)
        sent(parts) == [s EXCEPT !.sink = @ \o parts, !.position = 0, !.limit = BlockSize]
        thrown(parts) == [s EXCEPT !.sink = @ \o parts, !.position = pos, !.limit = n]
        fault(f, kind, state, ok) ==
          IF f \in Faults /\ s.faults < MaxFaults
          THEN {[s |-> [state EXCEPT !.faults = @ + 1, !.kinds = @ \union {kind}], ok |-> ok]}
          ELSE {}
    IN  {[s |-> sent(<<head, Part("body", data)>>), ok |-> TRUE]}
        \union fault("headFails", IF compressed THEN "headFails" ELSE "rawHeadFails",
                     thrown(<< >>), FALSE)
        \union fault("bodyFails", "bodyFails", thrown(<<head>>), FALSE)
        \union fault("short", "short",
                     sent(<<head, Part("body", SubSeq(data, 1, n - 1))>>), TRUE)

\* Mutant: the buffer is flipped again on both paths.
writeCompressed_AlwaysFlip(s, n) == UNION {writeBlock(s, n, c, 0) : c \in Compressible}

\* writeCompressed: the copy into directInputBuffer drains the buffer; on the raw
\* path it is flipped again.
writeCompressed(s, n) ==
    UNION {writeBlock(s, n, c, IF c THEN n ELSE 0) : c \in Compressible}

\* Mutant: an empty buffer is flushed too.
flushBuffer_Empty(s) == writeCompressed(s, s.position)

\* flushBuffer: nothing to do at position 0; clear and limit(blockSize) are
\* reached only when writeCompressed returns.
flushBuffer(s) ==
    IF s.position > 0 THEN writeCompressed(s, s.position)
                      ELSE {[s |-> s, ok |-> TRUE]}

\* Most calls first make room in a full buffer.
MakeRoom(s) == IF remaining(s) <= 0 THEN flushBuffer(s) ELSE {[s |-> s, ok |-> TRUE]}

-----------------------------------------------------------------------------
Init ==
    /\ b = [array |-> [i \in 1..BlockSize |-> 0], position |-> 0, limit |-> BlockSize,
            sink |-> << >>, faults |-> 0, kinds |-> {}]
    /\ held = 0 /\ closed = FALSE /\ outClosed = FALSE
    /\ accepted = 0 /\ todo = 0
    /\ pc = "new" /\ raised = "none"

Throw == pc' = "idle" /\ todo' = 0 /\ raised' = "io"

\* The constructor takes three buffers and writes the stream identifier; when
\* that fails there is no stream, and nobody returns the buffers.
Construct ==
    /\ pc = "new"
    /\ held' = 3
    /\ \/ /\ b' = [b EXCEPT !.sink = <<Part("id", << >>)>>]
          /\ pc' = "idle"
          /\ UNCHANGED raised
       \/ /\ Faults # {}
          /\ pc' = "aborted" /\ raised' = "io"
          /\ UNCHANGED b
    /\ UNCHANGED <<closed, outClosed, accepted, todo>>

Gone == pc = "aborted" /\ UNCHANGED vars

Refused ==
    /\ pc = "idle" /\ closed
    /\ raised' = "closed"
    /\ UNCHANGED <<b, held, closed, outClosed, accepted, todo, pc>>

\* write(int).
writeByte ==
    /\ pc = "idle" /\ ~closed /\ accepted < MaxBytes
    /\ \E r \in MakeRoom(b) :
         \/ r.ok /\ b' = Put(r.s, 1) /\ accepted' = accepted + 1 /\ raised' = "none"
                 /\ UNCHANGED <<pc, todo>>
         \/ ~r.ok /\ b' = r.s /\ Throw /\ UNCHANGED accepted
    /\ UNCHANGED <<held, closed, outClosed>>

\* A call of write(byte[]), write(ByteBuffer) or transferFrom with n bytes.
Begin(label, n) ==
    /\ pc = "idle" /\ ~closed /\ accepted + n <= MaxBytes
    /\ todo' = n /\ raised' = "none" /\ pc' = label
    /\ UNCHANGED <<b, held, closed, outClosed, accepted>>

\* One round of the loop of write(byte[], int, int).
write ==
    /\ pc = "write"
    /\ \/ todo = 0 /\ pc' = "idle" /\ UNCHANGED <<b, accepted, todo, raised>>
       \/ /\ todo > 0
          /\ \E r \in MakeRoom(b) :
               LET toPut == IF todo < remaining(r.s) THEN todo ELSE remaining(r.s)
               IN  \/ /\ r.ok
                      /\ b' = Put(r.s, toPut)
                      /\ accepted' = accepted + toPut /\ todo' = todo - toPut
                      /\ UNCHANGED <<pc, raised>>
                   \/ ~r.ok /\ b' = r.s /\ Throw /\ UNCHANGED accepted
    /\ UNCHANGED <<held, closed, outClosed>>

\* write(ByteBuffer): room first, then all at once if it fits.
writeBuffer ==
    /\ pc = "buffer"
    /\ \E r \in MakeRoom(b) :
         \/ /\ r.ok /\ remaining(r.s) >= todo
            /\ b' = Put(r.s, todo)
            /\ accepted' = accepted + todo
            /\ pc' = "idle" /\ todo' = 0 /\ UNCHANGED raised
         \/ /\ r.ok /\ remaining(r.s) < todo
            /\ b' = r.s /\ pc' = "bufferLoop"
            /\ UNCHANGED <<accepted, todo, raised>>
         \/ ~r.ok /\ b' = r.s /\ Throw /\ UNCHANGED accepted
    /\ UNCHANGED <<held, closed, outClosed>>

\* Its loop: fill, flush, and at the end copy what is left.
writeBufferLoop ==
    /\ pc = "bufferLoop"
    /\ LET n == remaining(b)
       IN  \/ /\ n <= todo
              /\ accepted' = accepted + n
              /\ \E r \in flushBuffer(Put(b, n)) :
                   /\ b' = r.s
                   /\ IF r.ok THEN todo' = todo - n /\ UNCHANGED <<pc, raised>> ELSE Throw
           \/ /\ n > todo
              /\ b' = Put(b, todo)
              /\ accepted' = accepted + todo
              /\ pc' = "idle" /\ todo' = 0 /\ UNCHANGED raised
    /\ UNCHANGED <<held, closed, outClosed>>

\* transferFrom, of an InputStream or of a channel: room first ...
transferFrom ==
    /\ pc = "transfer"
    /\ \E r \in MakeRoom(b) :
         /\ b' = r.s
         /\ IF r.ok THEN pc' = "transferLoop" /\ UNCHANGED <<todo, raised>> ELSE Throw
    /\ UNCHANGED <<held, closed, outClosed, accepted>>

\* ... then read what the source gives and flush a full buffer, to its end.
transferLoop ==
    /\ pc = "transferLoop"
    /\ \/ /\ todo = 0 /\ pc' = "idle"
          /\ UNCHANGED <<b, accepted, todo, raised>>
       \/ \* the source fails
          Faults # {} /\ todo > 0 /\ Throw /\ UNCHANGED <<b, accepted>>
       \/ \E k \in 1..remaining(b) :
            LET filled == Put(b, k)
            IN  /\ k <= todo
                /\ accepted' = accepted + k
                /\ \E r \in MakeRoom(filled) :
                     /\ b' = r.s
                     /\ IF r.ok THEN todo' = todo - k /\ UNCHANGED <<pc, raised>> ELSE Throw
    /\ UNCHANGED <<held, closed, outClosed>>

\* Mutant: only a full buffer is flushed.
flush_Full ==
    /\ pc = "idle" /\ ~closed
    /\ \E r \in MakeRoom(b) : b' = r.s /\ raised' = IF r.ok THEN "none" ELSE "io"
    /\ UNCHANGED <<held, closed, outClosed, accepted, todo, pc>>

flush ==
    /\ pc = "idle" /\ ~closed
    /\ \E r \in flushBuffer(b) :
         b' = r.s /\ raised' = IF r.ok THEN "none" ELSE "io"
    /\ UNCHANGED <<held, closed, outClosed, accepted, todo, pc>>

\* Mutant: close does not look at closed.
close_Again ==
    /\ pc = "idle"
    /\ \E r \in flushBuffer(b) : b' = r.s /\ outClosed' = r.ok
    /\ closed' = TRUE /\ held' = held - 3 /\ raised' = "none"
    /\ UNCHANGED <<accepted, todo, pc>>

\* close: flush, out.close, and in any case the buffers go back.
close ==
    /\ pc = "idle"
    /\ \/ closed /\ raised' = "none" /\ UNCHANGED <<b, held, closed, outClosed>>
       \/ /\ ~closed
          /\ \E r \in flushBuffer(b), ok \in IF Faults = {} THEN {TRUE} ELSE BOOLEAN :
               /\ b' = r.s
               /\ outClosed' = r.ok
               /\ raised' = IF r.ok /\ ok THEN "none" ELSE "io"
          /\ closed' = TRUE
          /\ held' = held - 3
    /\ UNCHANGED <<accepted, todo, pc>>

Next == \/ Construct \/ Gone \/ Refused
        \/ writeByte
        \/ \E n \in WriteSizes, label \in {"write", "buffer", "transfer"} : Begin(label, n)
        \/ write \/ writeBuffer \/ writeBufferLoop \/ transferFrom \/ transferLoop
        \/ flush \/ close

Spec == Init /\ [][Next]_vars

-----------------------------------------------------------------------------
\* Types, and: the three buffers go back to the pool once, when the stream is closed,
\* even if the last flush fails or close is called again.
TypeOK ==
    /\ b \in Sides
    /\ held = (IF pc = "new" \/ closed THEN 0 ELSE 3) /\ closed \in BOOLEAN /\ outClosed \in BOOLEAN
    /\ accepted \in 0..MaxBytes /\ todo \in 0..MaxBytes
    /\ pc \in {"new", "aborted", "idle", "write", "buffer", "bufferLoop", "transfer",
               "transferLoop"}
    /\ raised \in {"none", "io", "closed"}

IsRun(d, n) == \A j \in 1..Len(d) : d[j] = n + j - 1

\* The number of the byte that follows the first i parts (identifiers have no data).
After(parts, i) ==
    IF i = 0 \/ parts[i].data = << >> THEN 1
    ELSE parts[i].data[Len(parts[i].data)] + 1

\* Everything accepted is in the sink.
Delivered(sink) == After(sink, Len(sink)) - 1

\* The channel received the identifier and then whole frames: a head, whose
\* checksum is that of the data, directly followed by the body with that data,
\* never empty and never longer than a block.  Excepted is a channel that fails
\* between the two or takes too little.
FramesWhole ==
    b.kinds \intersect {"bodyFails", "short"} = {} =>
      /\ \A i \in 1..Len(b.sink) :
           /\ b.sink[i].part = (IF i = 1 THEN "id" ELSE IF i % 2 = 0 THEN "head" ELSE "body")
           /\ b.sink[i].part # "id" => Len(b.sink[i].data) \in 1..BlockSize
           /\ b.sink[i].part = "body" => b.sink[i].data = b.sink[i - 1].data
      /\ Len(b.sink) = 0 \/ Len(b.sink) % 2 = 1

\* The channel receives no byte twice or out of order.
InOrderOnce ==
    LET body(i) == IF b.sink[i].part = "body" THEN b.sink[i].data ELSE << >>
    IN  \A i, j \in 1..Len(b.sink) : i <= j =>
          \A k \in 1..Len(body(i)), l \in 1..Len(body(j)) :
            i < j \/ k < l => body(i)[k] < body(j)[l]

\* No byte put into the buffer is lost, repeated, overwritten or reordered on its
\* way to the channel, whichever of the five ways to write brought it, and also
\* when the channel refused the head of compressed frames and the caller went on;
\* a close that reached out.close() has delivered all of them.
\* Whatever else the channel does, it never receives a byte twice or out of order:
\* a frame that is tried again was not delivered, and no stale byte of the array
\* goes out with a later frame.
Conservation ==
  /\ InOrderOnce
  /\ b.kinds \subseteq {"headFails"} =>
      /\ \A i \in 1..Len(b.sink) : b.sink[i].part = "body" =>
           IsRun(b.sink[i].data, After(b.sink, i - 2))
      /\ ~closed => /\ IsRun(SubSeq(b.array, 1, b.position), Delivered(b.sink) + 1)
                    /\ accepted = Delivered(b.sink) + b.position
      /\ outClosed => accepted = Delivered(b.sink)
=============================================================================
