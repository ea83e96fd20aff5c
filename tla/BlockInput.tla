----------------------------- MODULE BlockInput -----------------------------
(***************************************************************************)
(* SnappyInputStream: the reader of the block format.  The constructor     *)
(* reads 16 bytes and decides between the block format and one raw block   *)
(* made by Snappy.compress; each read copies from the uncompressed block   *)
(* and calls hasNextChunk when it is used up.  The underlying stream hands *)
(* out its bytes in portions of its own choice and may end anywhere.       *)
(*                                                                         *)
(* A compressed stream is a sequence of items, each with its length in     *)
(* bytes; only a prefix of the last item need be there.                    *)
(***************************************************************************)
EXTENDS Integers, Sequences, SequencesExt

CONSTANTS Streams,       \* the compressed streams that may be read
          ReadLens,      \* lengths of the arrays passed to read
          NULL

HEADER_SIZE == 16
MINIMUM_COMPATIBLE_VERSION == 1

\* kind "header":   magic and version; "chunk": a size field and a block;
\* kind "badMagic": begins like the magic but differs after four bytes;
\* kind "badSize":  a size field that is negative or above maxChunkSize;
\* kind "raw":      the output of Snappy.compress, without header or size.
\* bytes: its length; data: what it decompresses to, NULL when it is corrupt.
ItemLen(i) == CASE i.kind \in {"header", "badMagic"} -> HEADER_SIZE
                [] i.kind = "badSize" -> 4
                [] OTHER -> i.bytes

Items ==
    [kind : {"header"}, version : Nat] \cup [kind : {"badMagic", "badSize"}]
    \cup [kind : {"chunk"}, bytes : Nat \ 0..4, data : {NULL} \cup Seq(Nat)]
    \cup [kind : {"raw"}, bytes : Nat \ {0}, data : {NULL} \cup Seq(Nat)]

\* A stream without header and sizes is one block.
ASSUME StreamsAssumption ==
    \A s \in Streams : s \in Seq(Items) /\ \A i \in 1..Len(s) : s[i].kind = "raw" => Len(s) = 1
ASSUME ReadLensAssumption == ReadLens \subseteq Nat

VARIABLES
    src,               \* the stream, one of Streams
    present,           \* how many bytes of its last item are there
    at, off,           \* the next byte to read: its item and its offset in there
    inClosed,          \* in.close() was called
    finishedReading,
    uncompressed,      \* the array uncompressed, NULL when null
    cursor, limit,     \* uncompressedCursor, uncompressedLimit
    pc,                \* where the call in progress is; "none" before the constructor
    call,              \* the method called: "read", "readByte" or "available"
    got,               \* readBytes of the loop around in.read
    len, written,      \* byteLength of read, and the bytes copied so far
    delivered,         \* all bytes that calls returned
    eof,               \* some read returned -1
    raised,            \* the exception of the last call, "none" if it returned
    failed             \* some call threw

inVars == <<src, present, at, off, inClosed>>
callVars == <<call, len>>
ghostVars == <<delivered, eof, raised, failed>>
vars == <<inVars, finishedReading, uncompressed, cursor, limit, pc, callVars, got,
          written, ghostVars>>

-----------------------------------------------------------------------------
(* The underlying InputStream.                                             *)

AtEnd == at > Len(src) \/ (at = Len(src) /\ off = present)

\* in.read(buf, got, n - got) returns k > 0 bytes: one or all that are there.
ReadSome(n) ==
    /\ ~AtEnd
    /\ LET left == (IF at = Len(src) THEN present ELSE ItemLen(src[at])) - off
           most == IF n - got < left THEN n - got ELSE left
       IN  \E k \in {1, most} :
             /\ got' = got + k
             /\ IF off + k = ItemLen(src[at]) THEN at' = at + 1 /\ off' = 0
                                              ELSE off' = off + k /\ UNCHANGED at
    /\ UNCHANGED <<src, present, inClosed>>

-----------------------------------------------------------------------------
\* The bytes of src that are there: its last item may be cut anywhere.
Cuts(s) == IF s = << >> THEN {0} ELSE 1..ItemLen(s[Len(s)])

\* A reader about to run its constructor.
Fresh ==
    /\ at = 1 /\ off = 0 /\ inClosed = FALSE
    /\ finishedReading = FALSE
    /\ uncompressed = NULL
    /\ cursor = 0 /\ limit = 0
    /\ got = 0
    /\ call = "read" /\ len = 0 /\ written = << >>
    /\ delivered = << >> /\ eof = FALSE /\ raised = "none" /\ failed = FALSE

Init == src \in Streams /\ present \in Cuts(src) /\ Fresh /\ pc = "header"

\* The call in progress ends with exception e; what it copied is lost.
Throw(e) == /\ pc' = "idle" /\ raised' = e /\ failed' = TRUE
            /\ written' = << >> /\ got' = 0
            /\ UNCHANGED <<delivered, eof>>

\* The constructor does not return: there is no stream to call.
Abort(e) == /\ pc' = "aborted" /\ raised' = e /\ failed' = TRUE
            /\ got' = 0
            /\ UNCHANGED <<delivered, eof, written>>

\* readHeader: 16 bytes, or what there is.
readHeader ==
    /\ pc = "header"
    /\ \/ /\ got < HEADER_SIZE
          /\ ReadSome(HEADER_SIZE)
          /\ UNCHANGED <<pc, ghostVars, written>>
       \/ /\ got = HEADER_SIZE \/ AtEnd
          /\ UNCHANGED inVars
          /\ \/ /\ got = 0
                /\ Abort("EMPTY_INPUT")
             \/ /\ got > 0 /\ (got < HEADER_SIZE \/ src[1].kind # "header")
                /\ pc' = "raw"
                /\ UNCHANGED <<got, ghostVars, written>>
             \/ /\ got = HEADER_SIZE /\ src[1].kind = "header"
                /\ pc' = "idle" /\ got' = 0
                /\ UNCHANGED <<ghostVars, written>>
    /\ UNCHANGED <<finishedReading, uncompressed, cursor, limit, callVars>>

\* After a failed constructor nothing happens.
Gone == pc = "aborted" /\ UNCHANGED vars

\* readFully: the rest of the input, then one block.
readFully ==
    /\ pc = "raw"
    /\ \/ /\ ~AtEnd
          /\ ReadSome(got + ItemLen(src[at]))
          /\ UNCHANGED <<finishedReading, uncompressed, cursor, limit, pc, ghostVars, written>>
       \/ /\ AtEnd
          /\ finishedReading' = TRUE
          /\ cursor' = 0
          /\ UNCHANGED inVars
          /\ \/ /\ src[1].kind = "raw" /\ src[1].data # NULL /\ at > Len(src)
                /\ uncompressed' = src[1].data
                /\ limit' = Len(src[1].data)
                /\ pc' = "idle" /\ got' = 0
                /\ UNCHANGED <<ghostVars, written>>
             \/ /\ ~(src[1].kind = "raw" /\ src[1].data # NULL /\ at > Len(src))
                /\ Abort("FAILED_TO_UNCOMPRESS")
                /\ UNCHANGED <<uncompressed, limit>>
    /\ UNCHANGED callVars

-----------------------------------------------------------------------------
\* A call of read(byte[], int, int) with n bytes, of read() or of available().
Begin(c, n) ==
    /\ pc = "idle"
    /\ call' = c /\ len' = n
    /\ written' = << >>
    /\ pc' = "loop"
    /\ raised' = "none"
    /\ UNCHANGED <<inVars, finishedReading, uncompressed, cursor, limit, got,
                   delivered, eof, failed>>

\* The call returns; out is what it hands over, end says that it returned -1.
Done(out, end) ==
    /\ pc' = "idle"
    /\ delivered' = delivered \o out
    /\ eof' = (eof \/ end)
    /\ written' = << >>
    /\ UNCHANGED <<raised, failed, got>>

Bytes(n) == SubSeq(uncompressed, cursor + 1, cursor + n)

\* The loop of rawRead (and of read, which has the same body): copy what is
\* there, and ask for the next chunk when the block is used up.
rawRead ==
    /\ pc = "loop" /\ call = "read"
    /\ LET most == len - Len(written)
           n == IF limit - cursor < most THEN limit - cursor ELSE most
       IN  \/ /\ Len(written) >= len
              /\ Done(written, FALSE)
              /\ UNCHANGED cursor
           \/ /\ Len(written) < len /\ cursor >= limit
              /\ pc' = "next"
              /\ UNCHANGED <<cursor, written, ghostVars, got>>
           \/ /\ Len(written) < len /\ cursor < limit
              /\ IF uncompressed = NULL
                 THEN Throw("NullPointerException") /\ UNCHANGED cursor
                 ELSE /\ written' = written \o Bytes(n)
                      /\ cursor' = cursor + n
                      /\ UNCHANGED <<pc, ghostVars, got>>
    /\ UNCHANGED <<inVars, finishedReading, uncompressed, limit, callVars>>

\* read().
read ==
    /\ pc = "loop" /\ call = "readByte"
    /\ \/ /\ cursor < limit
          /\ cursor' = cursor + 1
          /\ IF uncompressed = NULL THEN Throw("NullPointerException")
                                    ELSE Done(Bytes(1), FALSE)
       \/ /\ cursor >= limit
          /\ pc' = "next"
          /\ UNCHANGED <<cursor, written, ghostVars, got>>
    /\ UNCHANGED <<inVars, finishedReading, uncompressed, limit, callVars>>

\* available(): with nothing left it reads the next chunk, and asks only once.
available ==
    /\ pc = "loop" /\ call = "available"
    /\ IF cursor < limit THEN Done(<< >>, FALSE)
                         ELSE pc' = "next" /\ UNCHANGED <<written, ghostVars, got>>
    /\ UNCHANGED <<inVars, finishedReading, uncompressed, cursor, limit, callVars>>

\* hasNextChunk returns b to its caller.
ChunkResult(b) ==
    IF b /\ call # "available"
    THEN pc' = "loop" /\ got' = 0 /\ UNCHANGED <<written, ghostVars>>
    ELSE /\ pc' = "idle" /\ got' = 0
         /\ delivered' = delivered \o written
         /\ eof' = (eof \/ (~b /\ written = << >> /\ call # "available"))
         /\ written' = << >>
         /\ UNCHANGED <<raised, failed>>

-----------------------------------------------------------------------------
\* hasNextChunk: the first test.
hasNextChunk ==
    /\ pc = "next"
    /\ \/ /\ finishedReading
          /\ ChunkResult(FALSE)
          /\ UNCHANGED <<cursor, limit>>
       \/ /\ ~finishedReading
          /\ cursor' = 0 /\ limit' = 0
          /\ pc' = "size" /\ got' = 0
          /\ UNCHANGED <<written, ghostVars>>
    /\ UNCHANGED <<inVars, finishedReading, uncompressed, callVars>>

\* readNext(header, 0, 4) and the tests of chunkSize.  The item being read is the
\* last one that was entered.
Item == IF off = 0 THEN src[at - 1] ELSE src[at]

\* Mutant: the end of the input is not noticed.
ReadChunkSize_NoEof ==
    /\ pc = "size"
    /\ \/ got < 4 /\ ReadSome(4) /\ UNCHANGED <<finishedReading, pc, written, ghostVars>>
       \/ /\ got = 4
          /\ pc' = IF Item.kind = "chunk" THEN "body" ELSE "magic"
          /\ UNCHANGED <<inVars, finishedReading, got, written, ghostVars>>
    /\ UNCHANGED <<uncompressed, cursor, limit, callVars>>

ReadChunkSize ==
    /\ pc = "size"
    /\ \/ /\ got < 4
          /\ ReadSome(4)
          /\ UNCHANGED <<finishedReading, pc, written, ghostVars>>
       \/ /\ got < 4 /\ AtEnd
          /\ finishedReading' = TRUE
          /\ ChunkResult(FALSE)
          /\ UNCHANGED inVars
       \/ /\ got = 4
          /\ UNCHANGED <<inVars, finishedReading>>
          /\ \/ /\ Item.kind \in {"header", "badMagic"}
                /\ pc' = "magic"
                /\ UNCHANGED <<got, written, ghostVars>>
             \/ /\ Item.kind = "badSize"
                /\ Throw("INVALID_CHUNK_SIZE")
             \/ /\ Item.kind = "chunk"
                /\ pc' = "body"
                /\ UNCHANGED <<got, written, ghostVars>>
    /\ UNCHANGED <<uncompressed, cursor, limit, callVars>>

\* The rest of the header of concatenated data; isValidHeader.
ReadConcatenatedHeader ==
    /\ pc = "magic"
    /\ \/ /\ got < HEADER_SIZE
          /\ ReadSome(HEADER_SIZE)
          /\ UNCHANGED <<finishedReading, pc, written, ghostVars>>
       \/ /\ got < HEADER_SIZE /\ AtEnd
          /\ finishedReading' = TRUE
          /\ Throw("FAILED_TO_UNCOMPRESS")
          /\ UNCHANGED inVars
       \/ /\ got = HEADER_SIZE
          /\ UNCHANGED <<inVars, finishedReading>>
          /\ \/ /\ Item.kind = "header"
                /\ Item.version < MINIMUM_COMPATIBLE_VERSION
                /\ Throw("INCOMPATIBLE_VERSION")
             \/ /\ Item.kind = "header"
                /\ Item.version >= MINIMUM_COMPATIBLE_VERSION
                /\ pc' = "next" /\ got' = 0
                /\ UNCHANGED <<written, ghostVars>>
             \/ /\ Item.kind = "badMagic"
                /\ ChunkResult(FALSE)
    /\ UNCHANGED <<uncompressed, cursor, limit, callVars>>

\* The block itself (got goes on from the size field): the array uncompressed is
\* reused when it is long enough.
Overwrite(a, data) == data \o SubSeq(a, Len(data) + 1, Len(a))

\* Mutant: the limit is the length of the reused array.
ReadBlock_ArrayLength ==
    /\ pc = "body"
    /\ \/ got < Item.bytes /\ ReadSome(Item.bytes)
                           /\ UNCHANGED <<uncompressed, limit, pc, written, ghostVars>>
       \/ /\ got = Item.bytes /\ Item.data # NULL
          /\ uncompressed' = IF uncompressed = NULL \/ Len(Item.data) > Len(uncompressed)
                             THEN Item.data ELSE Overwrite(uncompressed, Item.data)
          /\ limit' = Len(uncompressed')
          /\ ChunkResult(TRUE)
          /\ UNCHANGED inVars
    /\ UNCHANGED <<finishedReading, cursor, callVars>>

\* Mutant: a block cut short is taken for the end of the stream.
ReadBlock_QuietEof ==
    /\ pc = "body"
    /\ \/ got < Item.bytes /\ ReadSome(Item.bytes)
                           /\ UNCHANGED <<uncompressed, limit, pc, written, ghostVars>>
       \/ /\ got < Item.bytes /\ AtEnd
          /\ ChunkResult(FALSE)
          /\ UNCHANGED <<inVars, uncompressed, limit>>
       \/ /\ got = Item.bytes /\ Item.data # NULL
          /\ uncompressed' = Item.data /\ limit' = Len(Item.data)
          /\ ChunkResult(TRUE)
          /\ UNCHANGED inVars
    /\ UNCHANGED <<finishedReading, cursor, callVars>>

ReadBlock ==
    /\ pc = "body"
    /\ \/ /\ got < Item.bytes
          /\ ReadSome(Item.bytes)
          /\ UNCHANGED <<uncompressed, limit, pc, written, ghostVars>>
       \/ /\ got < Item.bytes /\ AtEnd
          /\ Throw("failed to read chunk")
          /\ UNCHANGED <<inVars, uncompressed, limit>>
       \/ /\ got = Item.bytes
          /\ UNCHANGED inVars
          /\ \/ /\ Item.data = NULL
                /\ Throw("FAILED_TO_UNCOMPRESS")
                /\ UNCHANGED <<uncompressed, limit>>
             \/ /\ Item.data # NULL
                /\ uncompressed' = IF uncompressed = NULL \/ Len(Item.data) > Len(uncompressed)
                                   THEN Item.data ELSE Overwrite(uncompressed, Item.data)
                /\ limit' = Len(Item.data)
                /\ ChunkResult(TRUE)
    /\ UNCHANGED <<finishedReading, cursor, callVars>>

\* close(): the arrays are dropped, the cursors stay.
close ==
    /\ pc = "idle" /\ ~inClosed
    /\ uncompressed' = NULL
    /\ inClosed' = TRUE
    /\ UNCHANGED <<src, present, at, off, finishedReading, cursor, limit, pc, callVars,
                   got, written, ghostVars>>

\* A closed underlying stream may refuse to be read, from the first read on.
InFails ==
    /\ inClosed /\ pc = "size" /\ got = 0
    /\ Throw("IOException")
    /\ UNCHANGED <<inVars, finishedReading, uncompressed, cursor, limit, callVars>>

-----------------------------------------------------------------------------
Step == \/ readHeader \/ readFully
        \/ rawRead \/ read \/ available
        \/ hasNextChunk \/ ReadChunkSize \/ ReadConcatenatedHeader \/ ReadBlock
        \/ InFails

Next == \/ \E n \in ReadLens : Begin("read", n)
        \/ Begin("readByte", 1)
        \/ Begin("available", 0)
        \/ close
        \/ Step
        \/ Gone

Spec == Init /\ [][Next]_vars

\* A call in progress goes on; whether there is another call is up to the caller.
FairSpec == Spec /\ WF_vars(Step)
-----------------------------------------------------------------------------
\* What the first n items decompress to.
Payload(n) ==
    LET data[i \in 0..n] ==
          IF i = 0 THEN << >>
          ELSE IF src[i].kind \in {"chunk", "raw"} /\ src[i].data # NULL
               THEN data[i - 1] \o src[i].data ELSE data[i - 1]
    IN  data[n]

Truncated == src # << >> /\ present < ItemLen(src[Len(src)])
Complete == IF Truncated THEN Len(src) - 1 ELSE Len(src)

\* However the underlying stream cuts its answers and however read, read() and
\* available() alternate, callers see the decompressed bytes in order, none
\* twice and none from an earlier block left in the reused array; the cursor stays
\* inside the block also after a call that threw.
Faithful ==
    /\ cursor <= limit /\ (uncompressed # NULL => limit <= Len(uncompressed))
    /\ ~failed => IsPrefix(delivered \o written, Payload(Complete))

\* A read returns -1 only after all bytes of all complete blocks, and a block
\* that is cut short after its size field is reported by an exception, never
\* taken for the end (the stream ends quietly at a header that is not one).
EofMeansAll ==
    (eof /\ ~failed /\ \A i \in 1..Len(src) : src[i].kind # "badMagic")
      => delivered = Payload(Complete) /\ (Truncated => present < 4)

\* Every call returns or throws, also over runs of headers and empty blocks.
CallReturns == (pc \notin {"none", "idle"}) ~> (pc \in {"idle", "aborted"})
=============================================================================
