----------------------------- MODULE FramedInput -----------------------------
(***************************************************************************)
(* SnappyFramedInputStream: the reader of the framing format, on top of a  *)
(* ReadableByteChannel that hands out its bytes in portions of its own     *)
(* choice and may end anywhere.  ensureBuffer reads frames until one has   *)
(* data, growing the three pooled buffers when a frame does not fit; the   *)
(* reads and transfers copy from the array buffer between position and     *)
(* valid.                                                                  *)
(*                                                                         *)
(* The channel's content is a sequence of frames, each with its length in  *)
(* bytes; only a prefix of the last one need be there.                     *)
(***************************************************************************)
EXTENDS Integers, Sequences, SequencesExt

CONSTANTS Streams,             \* the frame sequences that may be read
          ReadLens,            \* lengths of the arrays passed to read
          Calls,               \* the methods the caller uses
          VerifyChecksums,     \* verifyChecksums
          InitialSize,         \* MAX_BLOCK_SIZE + 5
          MaxCompressed(_),    \* Snappy.maxCompressedLength
          MayRunOut,           \* may an allocation fail with OutOfMemoryError
          NULL

IDENTIFIER_SIZE == 10          \* HEADER_BYTES.length

\* kind "id": a stream identifier; "skip": a skippable frame; "bad": a header
\* that getFrameMetaData refuses (wrong length, reserved unskippable type);
\* kind "raw" or "compressed": checksum and data.
\* length: the frame's length field; data: its uncompressed bytes, NULL if they
\* cannot be uncompressed; crcOk: the checksum is that of the data.
FrameLen(f) == CASE f.kind = "id" -> IDENTIFIER_SIZE
                 [] f.kind = "bad" -> 4
                 [] OTHER -> 4 + f.length

FrameSet ==
    [kind : {"id", "bad"}] \cup [kind : {"skip"}, length : Nat]
    \cup [kind : {"raw", "compressed"}, length : Nat \ 0..4, data : {NULL} \cup Seq(Nat),
          crcOk : BOOLEAN]

\* A raw frame is its checksum and its data.  read() does not expect a compressed
\* frame without data: it hands out a byte of an earlier frame.
ASSUME StreamsAssumption ==
    \A s \in Streams :
      /\ s \in Seq(FrameSet)
      /\ \A i \in 1..Len(s) :
           /\ s[i].kind = "raw" => s[i].data # NULL /\ s[i].length = 4 + Len(s[i].data)
           /\ s[i].kind = "compressed" /\ "read" \in Calls => s[i].data # << >>
ASSUME CallsAssumption ==
    /\ Calls \subseteq {"read", "readArray", "toStream", "toChannel"} /\ ReadLens \subseteq Nat
    /\ VerifyChecksums \in BOOLEAN /\ NULL \notin Nat

\* The sizes for which buffers are allocated.
BufferSizes == {InitialSize} \cup
    UNION {{s[i].length : i \in {j \in 1..Len(s) : s[j].kind \in {"raw", "compressed"}}} :
             s \in Streams}
ASSUME SizesAssumption ==
    \A n \in BufferSizes : n \in Nat /\ MaxCompressed(n) \in Nat /\ n <= MaxCompressed(n)

VARIABLES
    src, present,          \* the frames, and how much of the last one is there
    at, off,               \* the next byte to read: its frame and its offset
    pool,                  \* [owned: ids of buffers taken and not returned,
                           \*  next: next id, twice: some buffer returned twice]
    slot,                  \* ids in the fields input, uncompressedDirect, buffer
    inputCapacity, directCapacity,
    buffer,                \* content of the array buffer
    valid, position,
    eof, closed,
    pc, call, got, len,    \* the call in progress ("none": no stream was made yet)
    bb,                    \* transferTo's ByteBuffer: [id, capacity] of its array;
                           \* stale: it was once used after that array was released
    delivered,             \* all bytes handed out
    ended,                 \* some read returned -1
    raised, failed         \* exception of the last call; some call threw

inVars == <<src, present, at, off>>
poolVars == <<pool, slot, inputCapacity, directCapacity>>
dataVars == <<buffer, valid, position>>
ghostVars == <<delivered, ended, raised, failed>>
vars == <<inVars, poolVars, dataVars, eof, closed, pc, call, got, len, bb, ghostVars>>

Slots == {"input", "uncompressedDirect", "buffer"}
available == valid - position

-----------------------------------------------------------------------------
(* The channel and the pool.                                               *)

AtEnd == at > Len(src) \/ (at = Len(src) /\ off = present)

\* One source.read(dest) of the loop of readBytes or skip, with n bytes wanted in
\* all: it returns one byte or all that are there.
readBytes(n) ==
    /\ ~AtEnd
    /\ LET left == (IF at = Len(src) THEN present ELSE FrameLen(src[at])) - off
           most == IF n - got < left THEN n - got ELSE left
       IN  \E k \in {1, most} :
             /\ got' = got + k
             /\ IF off + k = FrameLen(src[at]) THEN at' = at + 1 /\ off' = 0
                                               ELSE off' = off + k /\ UNCHANGED at
    /\ UNCHANGED <<src, present>>

\* The frame whose bytes were read last.
Frame == IF off = 0 THEN src[at - 1] ELSE src[at]

\* The fields in S are released.
Release(p, S) ==
    LET ids == {slot[x] : x \in S} \ {NULL}
    IN  [p EXCEPT !.owned = @ \ ids, !.twice = @ \/ ~(ids \subseteq p.owned)]

\* Allocation fills the fields xs in order; it may stop short of the last one.
Allocate(p, sl, xs, n) ==
    [pool |-> [p EXCEPT !.owned = @ \union {p.next + i : i \in 0..(n - 1)}, !.next = @ + n],
     slot |-> [x \in Slots |-> IF \E i \in 1..n : xs[i] = x
                               THEN p.next + (CHOOSE i \in 1..n : xs[i] = x) - 1
                               ELSE sl[x]]]

Zeros(n) == [i \in 1..n |-> 0]

-----------------------------------------------------------------------------
\* The bytes of src that are there: its last frame may be cut anywhere.
Cuts(s) == IF s = << >> THEN {0} ELSE 1..FrameLen(s[Len(s)])

\* A reader about to run its constructor.
Fresh ==
    /\ at = 1 /\ off = 0
    /\ pool = [owned |-> {}, next |-> 1, twice |-> FALSE]
    /\ slot = [x \in Slots |-> NULL]
    /\ inputCapacity = 0 /\ directCapacity = 0
    /\ buffer = << >> /\ valid = 0 /\ position = 0
    /\ eof = FALSE /\ closed = FALSE
    /\ call = "read" /\ got = 0 /\ len = 0
    /\ bb = [id |-> NULL, capacity |-> 0, stale |-> FALSE]
    /\ delivered = << >> /\ ended = FALSE /\ raised = "none" /\ failed = FALSE

Init == src \in Streams /\ present \in Cuts(src) /\ Fresh /\ pc = "new"

Throw(label, e) ==
    /\ pc' = label /\ got' = 0
    /\ raised' = e /\ failed' = TRUE
    /\ UNCHANGED <<delivered, ended>>

\* allocateBuffersBasedOnSize(size), going on at label; when an allocation fails
\* the fields not reached keep what has been released.
allocateBuffersBasedOnSize(size, label) ==
    \E n \in IF MayRunOut THEN 0..3 ELSE {3} :
      LET a == Allocate(Release(pool, Slots), slot,
                        <<"input", "uncompressedDirect", "buffer">>, n)
      IN  /\ pool' = a.pool /\ slot' = a.slot
          /\ IF n = 3
             THEN /\ inputCapacity' = size
                  /\ directCapacity' = MaxCompressed(size)
                  /\ buffer' = Zeros(MaxCompressed(size))
                  /\ pc' = label
                  /\ UNCHANGED <<got, ghostVars>>
             ELSE /\ Throw(IF label = "identifier" THEN "aborted" ELSE "broken",
                           "OutOfMemoryError")
                  /\ UNCHANGED <<inputCapacity, directCapacity, buffer>>

Construct ==
    /\ pc = "new"
    /\ allocateBuffersBasedOnSize(InitialSize, "identifier")
    /\ UNCHANGED <<inVars, valid, position, eof, closed, call, len, bb>>

\* The constructor goes on to read the stream identifier.
ReadIdentifier ==
    /\ pc = "identifier"
    /\ \/ got < IDENTIFIER_SIZE /\ readBytes(IDENTIFIER_SIZE) /\ UNCHANGED <<pc, ghostVars>>
       \/ /\ got = IDENTIFIER_SIZE \/ AtEnd
          /\ UNCHANGED inVars
          /\ IF got < IDENTIFIER_SIZE \/ src[1].kind # "id"
             THEN Throw("aborted", IF got < IDENTIFIER_SIZE THEN "EOFException" ELSE "IOException")
             ELSE pc' = "idle" /\ got' = 0 /\ UNCHANGED ghostVars
    /\ UNCHANGED <<poolVars, dataVars, eof, closed, call, len, bb>>

\* The constructor threw: there is no stream, and its buffers stay out.
Gone == pc = "aborted" /\ UNCHANGED vars

-----------------------------------------------------------------------------
\* A call: read(), read of n bytes into an array or a ByteBuffer, transferTo a
\* stream or a channel.  A closed stream says -1 or throws.
Begin(c, n) ==
    /\ pc = "idle"
    /\ call' = c /\ len' = n
    /\ bb' = IF c = "toChannel" /\ ~closed
             THEN [bb EXCEPT !.id = slot["buffer"], !.capacity = Len(buffer)]
             ELSE [bb EXCEPT !.id = NULL, !.capacity = 0]
    /\ \/ closed /\ raised' = (IF c = "read" THEN "none" ELSE "ClosedChannelException")
                 /\ UNCHANGED pc
       \/ /\ ~closed /\ raised' = "none"
          /\ pc' = IF c = "readArray" /\ n = 0 THEN "idle" ELSE "ensure"
    /\ UNCHANGED <<inVars, poolVars, dataVars, eof, closed, got, delivered, ended, failed>>

\* ensureBuffer, up to the block header.
ensureBuffer ==
    /\ pc = "ensure"
    /\ \/ available > 0 /\ pc' = "ready" /\ UNCHANGED ghostVars
       \/ /\ available <= 0 /\ eof
          /\ pc' = "idle"
          /\ ended' = (ended \/ call \in {"read", "readArray"})
          /\ UNCHANGED <<delivered, raised, failed>>
       \/ available <= 0 /\ ~eof /\ pc' = "blockHeader" /\ UNCHANGED ghostVars
    /\ UNCHANGED <<inVars, poolVars, dataVars, eof, closed, call, got, len, bb>>

\* Mutant: eof is not set at the end of the stream, and no header is refused.
readBlockHeader_NoEof ==
    /\ pc = "blockHeader"
    /\ \/ got < 4 /\ readBytes(4) /\ UNCHANGED pc
       \/ got < 4 /\ AtEnd /\ pc' = "ensure" /\ got' = 0 /\ UNCHANGED inVars
       \/ /\ got = 4
          /\ pc' = IF Frame.kind \in {"id", "skip", "bad"} THEN "skip" ELSE "frame"
          /\ UNCHANGED <<inVars, got>>
    /\ UNCHANGED <<eof, ghostVars, poolVars, dataVars, closed, call, len, bb>>

\* readBlockHeader and getFrameMetaData.
readBlockHeader ==
    /\ pc = "blockHeader"
    /\ \/ got < 4 /\ readBytes(4) /\ UNCHANGED <<eof, pc, ghostVars>>
       \/ /\ got = 0 /\ AtEnd
          /\ eof' = TRUE /\ pc' = "ensure"
          /\ UNCHANGED <<inVars, got, ghostVars>>
       \/ /\ got \in 1..3 /\ AtEnd
          /\ Throw("idle", "EOFException")
          /\ UNCHANGED <<inVars, eof>>
       \/ /\ got = 4
          /\ \/ Frame.kind = "bad" /\ Throw("idle", "IOException")
             \/ /\ Frame.kind # "bad"
                /\ pc' = IF Frame.kind \in {"id", "skip"} THEN "skip"
                         ELSE IF Frame.length > inputCapacity THEN "grow" ELSE "frame"
                /\ UNCHANGED <<got, ghostVars>>
          /\ UNCHANGED <<inVars, eof>>
    /\ UNCHANGED <<poolVars, dataVars, closed, call, len, bb>>

\* skip reads through the array buffer; an early end goes unnoticed.
skip ==
    /\ pc = "skip"
    /\ \/ /\ got < FrameLen(Frame)
          /\ readBytes(FrameLen(Frame))
          /\ buffer' = Zeros(Len(buffer))
          /\ UNCHANGED pc
       \/ /\ got = FrameLen(Frame) \/ AtEnd
          /\ pc' = "ensure" /\ got' = 0
          /\ UNCHANGED <<inVars, buffer>>
    /\ UNCHANGED <<poolVars, valid, position, eof, closed, call, len, bb, ghostVars>>

Grow ==
    /\ pc = "grow"
    /\ allocateBuffersBasedOnSize(Frame.length, "frame")
    /\ UNCHANGED <<inVars, valid, position, eof, closed, call, len, bb>>

\* Mutant: a frame cut short or damaged is passed over.
ReadFrame_QuietEof ==
    /\ pc = "frame"
    /\ \/ got < FrameLen(Frame) /\ readBytes(FrameLen(Frame)) /\ UNCHANGED pc
       \/ /\ (got < FrameLen(Frame) /\ AtEnd) \/ (got = FrameLen(Frame) /\ Frame.data = NULL)
          /\ pc' = "ensure" /\ got' = 0
          /\ UNCHANGED inVars
       \/ /\ got = FrameLen(Frame) /\ Frame.data # NULL
          /\ pc' = IF Len(Frame.data) > directCapacity THEN "growData" ELSE "decode"
          /\ UNCHANGED <<inVars, got>>
    /\ UNCHANGED <<ghostVars, poolVars, dataVars, eof, closed, call, len, bb>>

\* The frame itself.
ReadFrame ==
    /\ pc = "frame"
    /\ \/ got < FrameLen(Frame) /\ readBytes(FrameLen(Frame)) /\ UNCHANGED <<pc, ghostVars>>
       \/ /\ got < FrameLen(Frame) /\ AtEnd
          /\ Throw("idle", "EOFException")
          /\ UNCHANGED inVars
       \/ /\ got = FrameLen(Frame)
          /\ IF Frame.data = NULL THEN Throw("idle", "FAILED_TO_UNCOMPRESS")
             ELSE /\ pc' = IF Frame.kind = "compressed" /\ Len(Frame.data) > directCapacity
                           THEN "growData" ELSE "decode"
                  /\ UNCHANGED <<got, ghostVars>>
          /\ UNCHANGED inVars
    /\ UNCHANGED <<poolVars, dataVars, eof, closed, call, len, bb>>

\* Mutant: the old buffers are not released.
GrowData_Leak ==
    /\ pc = "growData"
    /\ LET a == Allocate(pool, slot, <<"uncompressedDirect", "buffer">>, 2)
       IN  pool' = a.pool /\ slot' = a.slot
    /\ directCapacity' = Len(Frame.data)
    /\ buffer' = Zeros(Len(Frame.data))
    /\ pc' = "decode"
    /\ UNCHANGED <<got, ghostVars, inVars, inputCapacity, valid, position, eof, closed, call,
                   len, bb>>

\* Room for a block longer than uncompressedDirect.
GrowData ==
    /\ pc = "growData"
    /\ \E n \in IF MayRunOut THEN 0..2 ELSE {2} :
         LET a == Allocate(Release(pool, {"uncompressedDirect", "buffer"}), slot,
                           <<"uncompressedDirect", "buffer">>, n)
         IN  /\ pool' = a.pool /\ slot' = a.slot
             /\ IF n = 2
                THEN /\ directCapacity' = Len(Frame.data)
                     /\ buffer' = Zeros(Len(Frame.data))
                     /\ pc' = "decode"
                     /\ UNCHANGED <<got, ghostVars>>
                ELSE /\ Throw("broken", "OutOfMemoryError")
                     /\ UNCHANGED <<directCapacity, buffer>>
    /\ UNCHANGED <<inVars, inputCapacity, valid, position, eof, closed, call, len, bb>>

\* Mutant: the checksum is not compared.
Decode_NoCheck ==
    /\ pc = "decode"
    /\ buffer' = Frame.data \o SubSeq(buffer, Len(Frame.data) + 1, Len(buffer))
    /\ valid' = Len(Frame.data) /\ position' = 0
    /\ pc' = "ready" /\ got' = 0
    /\ UNCHANGED <<ghostVars, inVars, poolVars, eof, closed, call, len, bb>>

\* Uncompress or copy into buffer; valid and position are set before the checksum
\* is compared.
Decode ==
    /\ pc = "decode"
    /\ buffer' = Frame.data \o SubSeq(buffer, Len(Frame.data) + 1, Len(buffer))
    /\ valid' = Len(Frame.data) /\ position' = 0
    /\ IF VerifyChecksums /\ ~Frame.crcOk
       THEN Throw("idle", "invalid checksum")
       ELSE pc' = "ready" /\ got' = 0 /\ UNCHANGED ghostVars
    /\ UNCHANGED <<inVars, poolVars, eof, closed, call, len, bb>>

-----------------------------------------------------------------------------
(* What the calls do once ensureBuffer has returned true.                  *)

Bytes(n) == SubSeq(buffer, position + 1, position + n)

\* read(): the byte at position.
read ==
    /\ pc = "ready" /\ call = "read"
    /\ delivered' = delivered \o Bytes(1)
    /\ position' = position + 1
    /\ pc' = "idle"
    /\ UNCHANGED <<inVars, poolVars, buffer, valid, eof, closed, call, got, len, bb,
                   ended, raised, failed>>

\* read(byte[], int, int) and read(ByteBuffer).
readArray ==
    /\ pc = "ready" /\ call = "readArray"
    /\ LET size == IF len < available THEN len ELSE available
       IN  delivered' = delivered \o Bytes(size) /\ position' = position + size
    /\ pc' = "idle"
    /\ UNCHANGED <<inVars, poolVars, buffer, valid, eof, closed, call, got, len, bb,
                   ended, raised, failed>>

\* transferTo(OutputStream): all of the block, then the next one.
transferToStream ==
    /\ pc = "ready" /\ call = "toStream"
    /\ delivered' = delivered \o Bytes(available)
    /\ position' = valid
    /\ pc' = "ensure"
    /\ UNCHANGED <<inVars, poolVars, buffer, valid, eof, closed, call, got, len, bb,
                   ended, raised, failed>>

\* Mutant: the channel is trusted to take everything.
transferToChannel_All ==
    /\ pc = "ready" /\ call = "toChannel" /\ valid <= bb.capacity
    /\ \E n \in {1, available} \intersect 0..available : delivered' = delivered \o Bytes(n)
    /\ position' = valid
    /\ pc' = "ensure"
    /\ UNCHANGED <<got, ended, raised, failed, inVars, poolVars, buffer, valid, eof, closed,
                   call, len, bb>>

\* transferTo(WritableByteChannel) writes from bb, which wraps the array that
\* buffer was when the call began; the channel takes one byte or all.  What is
\* in an array that went back to the pool is anybody's: 0 stands for it.
transferToChannel ==
    /\ pc = "ready" /\ call = "toChannel"
    /\ LET current == bb.id = slot["buffer"]
       IN  /\ bb' = [bb EXCEPT !.stale = @ \/ ~current]
           /\ \/ /\ valid > bb.capacity
                 /\ Throw("idle", "IllegalArgumentException")
                 /\ UNCHANGED position
              \/ /\ valid <= bb.capacity
                 /\ \E n \in {1, available} \intersect 0..available :
                      /\ delivered' = delivered \o (IF current THEN Bytes(n) ELSE Zeros(n))
                      /\ position' = position + n
                 /\ pc' = "ensure"
                 /\ UNCHANGED <<got, ended, raised, failed>>
    /\ UNCHANGED <<inVars, poolVars, buffer, valid, eof, closed, call, len>>

\* close(): rbc.close() may throw (ok is FALSE); the buffers go back the first time.
close ==
    /\ pc \in {"idle", "broken"}
    /\ \E ok \in BOOLEAN : raised' = IF ok THEN "none" ELSE "IOException"
    /\ IF closed THEN UNCHANGED <<pool, slot, closed>>
       ELSE /\ closed' = TRUE
            /\ pool' = Release(pool, Slots)
            /\ slot' = [x \in Slots |-> NULL]
    /\ pc' = "idle"
    /\ UNCHANGED <<inVars, inputCapacity, directCapacity, dataVars, eof, call, got, len, bb,
                   delivered, ended, failed>>

-----------------------------------------------------------------------------
Step == \/ Construct \/ ReadIdentifier
        \/ ensureBuffer \/ readBlockHeader \/ skip \/ Grow \/ ReadFrame \/ GrowData \/ Decode
        \/ read \/ readArray \/ transferToStream \/ transferToChannel

Next == \/ Step \/ Gone
        \/ \E c \in Calls \ {"readArray"} : Begin(c, 0)
        \/ "readArray" \in Calls /\ \E n \in ReadLens : Begin("readArray", n)
        \/ close

Spec == Init /\ [][Next]_vars
FairSpec == Spec /\ WF_vars(Step)
-----------------------------------------------------------------------------
\* Types, and: the bytes to hand out are those between position and valid, and they
\* are inside the array, for which the data of a frame are never too long.  An
\* open stream owns exactly the three buffers it works with, and a closed one none,
\* whatever grew or failed in between; it returns none of them twice unless a call
\* failed (close after a failed allocation does).
TypeOK ==
    /\ present \in Cuts(src) /\ at \in 1..(Len(src) + 1) /\ off \in Nat
    /\ slot \in [Slots -> Nat \union {NULL}]
    /\ pool.owned \subseteq 1..pool.next
    /\ pc = "idle" => pool.owned = {slot[x] : x \in Slots} \ {NULL}
                      /\ (closed <=> pool.owned = {})
    /\ pool.twice => failed
    /\ inputCapacity \in Nat /\ directCapacity \in Nat
    /\ buffer \in Seq(Nat) /\ valid \in Nat /\ position \in 0..valid
    /\ pc = "ready" => valid <= Len(buffer)
    /\ pc = "decode" => Len(Frame.data) <= Len(buffer)
    /\ eof \in BOOLEAN /\ closed \in BOOLEAN /\ ended \in BOOLEAN /\ failed \in BOOLEAN
    /\ pc \in {"none", "new", "identifier", "aborted", "broken", "idle", "ensure",
               "blockHeader", "skip", "grow", "frame", "growData", "decode", "ready"}
    /\ call \in {"read", "readArray", "toStream", "toChannel"}
    /\ got \in Nat /\ len \in Nat /\ delivered \in Seq(Nat)
    /\ bb.id \in Nat \union {NULL} /\ (call # "toChannel" => bb.id = NULL)
    /\ bb.stale \in BOOLEAN

\* What the first n frames hold.
Payload(n) ==
    LET data[i \in 0..n] ==
          IF i = 0 THEN << >>
          ELSE IF src[i].kind \in {"raw", "compressed"} /\ src[i].data # NULL
               THEN data[i - 1] \o src[i].data ELSE data[i - 1]
    IN  data[n]

Truncated == src # << >> /\ present < FrameLen(src[Len(src)])
Complete == IF Truncated THEN Len(src) - 1 ELSE Len(src)

\* The number of complete frames before the first one whose checksum is wrong.
Verified ==
    LET wrong == {i \in 1..Complete : /\ src[i].kind \in {"raw", "compressed"}
                                      /\ src[i].data # NULL /\ ~src[i].crcOk}
    IN  IF VerifyChecksums /\ wrong # {}
        THEN (CHOOSE i \in wrong : \A j \in wrong : i <= j) - 1 ELSE Complete

\* However the channel cuts its answers, the buffers grow and the calls
\* alternate, callers see the bytes of the frames in order, none twice, none
\* left over from an earlier frame and none from an array given back; excepted is
\* a transfer to a channel that went on with an array given back, which hands out as
\* many bytes.  A frame whose checksum is wrong, or one behind it, is never handed out
\* without a preceding exception.
Faithful ==
    ~failed => /\ Len(delivered) <= Len(Payload(Verified))
               /\ ~bb.stale => IsPrefix(delivered, Payload(Verified))

\* A read returns -1 only after all bytes of all frames; a frame that is cut
\* short is reported by an exception unless its content is skipped anyway.
EofMeansAll ==
    (ended /\ ~failed /\ ~bb.stale) =>
      /\ delivered = Payload(Complete)
      /\ Truncated => src[Len(src)].kind \in {"id", "skip"} /\ present >= 4

\* The call in progress is a transfer, and it returns normally.
TransferReturns ==
    pc = "ensure" /\ pc' = "idle" /\ call \in {"toStream", "toChannel"} /\ ~failed

\* A transfer that returns normally has handed out every byte of every frame,
\* to a channel only if the array it works with was not replaced meanwhile.
TransfersAll == [][(TransferReturns /\ ~bb.stale) => delivered = Payload(Complete)]_vars

\* What transferTo's comment says: "Transfers the entire content".
TransfersEntireContent == [][TransferReturns => delivered = Payload(Complete)]_vars

\* Every call returns or throws, also over runs of skipped and empty frames.
CallReturns == (pc \notin {"none", "idle"}) ~> (pc \in {"idle", "aborted", "broken"})
=============================================================================
