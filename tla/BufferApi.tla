----------------------------- MODULE BufferApi -----------------------------
(***************************************************************************)
(* The methods of Snappy and BitShuffle that take direct ByteBuffers: from *)
(* the window [position, limit) of one buffer to another buffer, from its  *)
(* position on.  What these methods do to positions and limits decides     *)
(* what the next call, or the caller, finds.                               *)
(*                                                                         *)
(* A byte is the i-th of the n bytes of some data, plain or in a packed    *)
(* form, or junk that a native call left behind.  The native library is    *)
(* external: it packs any window, and unpacks a window that is exactly     *)
(* what it packed.  It is not told how much room there is; what it writes  *)
(* behind the end of a buffer is outside this model.  Callers hand to      *)
(* compress, shuffle and unshuffle only data that can be packed or         *)
(* unpacked so, and to uncompress anything.                                *)
(***************************************************************************)
EXTENDS Integers, Sequences

CONSTANTS Direct, Heap,     \* the direct buffers, and others
          Capacity,         \* Capacity[b] is the number of bytes of buffer b
          Sizes, Positions, \* lengths of the callers' data, and where they put them
          TypeSizes,        \* BitShuffleType.getTypeSize()
          Partials,         \* how many bytes a call may write besides its result
          MaxCalls,         \* bound on the calls that reach the native library
          None

Bufs == Direct \cup Heap

ASSUME CapacityAssumption == Capacity \in [Bufs -> Nat] /\ Sizes \cup Positions \cup Partials \subseteq Nat
ASSUME TypeSizesAssumption == TypeSizes \subseteq Nat \ {0}

Index(b) == 0..(Capacity[b] - 1)

\* Data of size bytes: form "plain", or packed by "shuffle" for elements of
\* k bytes, or by "compress"; inner is the data that was packed.
Plain(n) == [form |-> "plain", size |-> n, k |-> 0, inner |-> None]
Shuffled(x, k) == [form |-> "shuffled", size |-> x.size, k |-> k, inner |-> x]
Compressed(x, n) == [form |-> "compressed", size |-> n, k |-> 0, inner |-> x]

Nothing == Plain(0)

\* A byte that is no part of the result of a call.
Junk == [form |-> "junk", size |-> 1, k |-> 0, inner |-> None]

\* The longest compressed form of n bytes, which may be longer than the input.
MaxCompressed(n) == n + 1

VARIABLES
    pos, lim,     \* position and limit of each buffer
    mem,          \* the bytes of each buffer, <<data, i>> or None
    last,         \* the call just made: method, buffers, data in and out
    failure,      \* its exception, or a negative result
    calls         \* how many calls reached the native library

bufferVars == <<pos, lim, mem, last, failure, calls>>

NoCall == [op |-> "none", src |-> None, dst |-> None, from |-> None, to |-> None]

BufferInit ==
    /\ pos = [b \in Bufs |-> 0]
    /\ lim = Capacity
    /\ mem = [b \in Bufs |-> [i \in Index(b) |-> None]]
    /\ last = NoCall
    /\ failure = "none"
    /\ calls = 0

Remaining(b) == lim[b] - pos[b]

\* Buffer b holds data x, whole, in the window that starts at p.
HoldsAt(b, p, x) ==
    /\ p + x.size <= Capacity[b]
    /\ \A i \in 0..(x.size - 1) : mem[b][p + i] = <<x, i>>

\* The window of b is exactly x.
Window(b, x) == Remaining(b) = x.size /\ HoldsAt(b, pos[b], x)

\* The data that begin in the window of b; an empty window is plain data.
First(b) == IF Remaining(b) = 0 THEN Plain(0)
            ELSE IF mem[b][pos[b]] = None THEN None ELSE mem[b][pos[b]][1]

\* The window of b is exactly some data of this form.
IsWhole(b, form) ==
    LET x == First(b) IN IF x = None THEN FALSE ELSE x.form = form /\ Window(b, x)

\* A native call writes data x from byte p of b on, and then j bytes of junk.
Store(b, p, x, j) ==
    LET end == p + x.size
    IN  mem' = [mem EXCEPT ![b] = [i \in Index(b) |->
                  CASE i \in p..(end - 1) -> <<x, i - p>>
                    [] i \in end..(end + j - 1) -> <<Junk, 0>>
                    [] OTHER -> mem[b][i]]]

\* The caller puts n bytes at p of an unused buffer and makes them the window.
Fill(b, p, n) ==
    /\ p + n <= Capacity[b]
    /\ mem[b] = [i \in Index(b) |-> None]
    /\ Store(b, p, Plain(n), 0)
    /\ pos' = [pos EXCEPT ![b] = p]
    /\ lim' = [lim EXCEPT ![b] = p + n]
    /\ last' = NoCall /\ failure' = "none" /\ UNCHANGED calls

\* The caller clears a buffer and sets its position.
ClearTo(b, p) ==
    /\ p <= Capacity[b]
    /\ pos' = [pos EXCEPT ![b] = p]
    /\ lim' = [lim EXCEPT ![b] = Capacity[b]]
    /\ last' = NoCall /\ failure' = "none" /\ UNCHANGED calls
    /\ UNCHANGED mem

Call(op, s, d, x, y) == [op |-> op, src |-> s, dst |-> d, from |-> x, to |-> y]

\* A test in Java throws before the native call.
Reject(op, e) ==
    /\ failure' = e /\ last' = [NoCall EXCEPT !.op = op]
    /\ UNCHANGED <<pos, lim, mem, calls>>

\* The call gets as far as the native library.
Reached == calls < MaxCalls /\ calls' = calls + 1

Fail(op, s, d, e) ==
    /\ Reached
    /\ failure' = e /\ last' = Call(op, s, d, None, None)
    /\ UNCHANGED <<pos, lim>>

Succeed(op, s, d, x, y) ==
    /\ Reached
    /\ failure' = "none" /\ last' = Call(op, s, d, x, y)
    /\ UNCHANGED pos

\* b.limit(p + n) after a call that made n bytes at p: an IllegalArgumentException
\* when they do not fit, which nobody has tested before.
SetLimit(op, s, d, x, y) ==
    \/ /\ pos[d] + y.size <= Capacity[d]
       /\ lim' = [lim EXCEPT ![d] = pos[d] + y.size]
       /\ Succeed(op, s, d, x, y)
    \/ /\ pos[d] + y.size > Capacity[d]
       /\ Fail(op, s, d, "limit out of range")

\* The tests !isDirect() at the head of all four methods, when one of the two
\* buffers is in Heap.
RefuseHeap(op) ==
    /\ Heap # {}
    /\ Reject(op, "NOT_A_DIRECT_BUFFER")

\* Mutant: the limit is set to the compressed size alone.
compressBuffer_Limit(s, d, n, j) ==
    /\ IsWhole(s, "plain") \/ IsWhole(s, "shuffled")
    /\ n + j <= MaxCompressed(Remaining(s)) /\ n <= Capacity[d]
    /\ LET x == First(s)
           y == Compressed(x, n)
       IN  /\ Store(d, pos[d], y, j)
           /\ lim' = [lim EXCEPT ![d] = IF n < pos[d] THEN pos[d] ELSE n]
           /\ Succeed("compress", s, d, x, y)

\* Snappy.compress(ByteBuffer, ByteBuffer): the window of s, packed into n bytes.
\* The library may use the room for the longest result on its way.
compressBuffer(s, d, n, j) ==
    /\ IsWhole(s, "plain") \/ IsWhole(s, "shuffled")
    /\ n + j <= MaxCompressed(Remaining(s))
    /\ LET x == First(s)
           y == Compressed(x, n)
       IN  /\ Store(d, pos[d], y, j)
           /\ SetLimit("compress", s, d, x, y)

\* Mutant: the position of the output is ignored.
uncompressBuffer_Start(s, d, j) ==
    /\ IsWhole(s, "compressed") /\ j = 0
    /\ LET y == First(s)
       IN  /\ Store(d, 0, y.inner, j)
           /\ SetLimit("uncompress", s, d, y, y.inner)

\* Snappy.uncompress(ByteBuffer, ByteBuffer).  A window that is not a compressed
\* block is refused by the library, which has written j bytes by then.
uncompressBuffer(s, d, j) ==
    /\ LET y == First(s)
       IN  \/ /\ IsWhole(s, "compressed") /\ j = 0
              /\ Store(d, pos[d], y.inner, 0)
              /\ SetLimit("uncompress", s, d, y, y.inner)
           \/ /\ ~IsWhole(s, "compressed")
              /\ Store(d, pos[d], Nothing, j)
              /\ Fail("uncompress", s, d, "FAILED_TO_UNCOMPRESS")

\* What the two methods of BitShuffle refuse after the test for direct buffers.
RefuseLength(op, k) ==
    /\ \E s, d \in Direct : s # d /\ (Remaining(s) % k # 0 \/ Remaining(d) < Remaining(s))
    /\ Reject(op, "IllegalArgumentException")

\* The native call returns a negative number, here -1, after it has written j bytes at p of d.  With
\* assertions on that throws; with assertions off the limit of b becomes its
\* position less one, which moves the position too, or is refused below 0.
ShuffleFails(op, s, d, p, j, b) ==
    /\ j <= Remaining(s)
    /\ Store(d, p, Nothing, j)
    /\ \/ Fail(op, s, d, "AssertionError")
       \/ pos[b] = 0 /\ Fail(op, s, d, "limit out of range")
       \/ /\ pos[b] > 0 /\ Reached
          /\ lim' = [lim EXCEPT ![b] = pos[b] - 1]
          /\ pos' = [pos EXCEPT ![b] = pos[b] - 1]
          /\ failure' = "negative result" /\ last' = Call(op, s, d, None, None)

\* BitShuffle.shuffle(ByteBuffer, type, ByteBuffer).
shuffleBuffer(s, k, d, j) ==
    /\ Remaining(s) % k = 0 /\ Remaining(d) >= Remaining(s)
    /\ IsWhole(s, "plain")
    /\ \/ LET x == First(s)
              y == Shuffled(x, k)
          IN  /\ j = 0 /\ Store(d, pos[d], y, 0)
              /\ lim' = [lim EXCEPT ![d] = pos[d] + Remaining(s)]
              /\ Succeed("shuffle", s, d, x, y)
       \/ ShuffleFails("shuffle", s, d, pos[d], j, d)

\* BitShuffle.unshuffle(ByteBuffer, type, ByteBuffer): the native call is given
\* the position of s for both buffers, and it is the limit of s that is set.
unshuffleBuffer(s, k, d, j) ==
    /\ Remaining(s) % k = 0 /\ Remaining(d) >= Remaining(s)
    /\ IsWhole(s, "shuffled") /\ First(s).k = k
    /\ \/ LET y == First(s)
          IN  /\ j = 0 /\ Store(d, pos[s], y.inner, 0)
              /\ lim' = [lim EXCEPT ![s] = pos[s] + Remaining(s)]
              /\ Succeed("unshuffle", s, d, y, y.inner)
       \/ ShuffleFails("unshuffle", s, d, pos[s], j, s)

BufferNext ==
    \/ \E b \in Direct, p \in Positions, n \in Sizes : Fill(b, p, n)
    \/ \E b \in Direct, p \in Positions : ClearTo(b, p)
    \/ \E op \in {"compress", "uncompress", "shuffle", "unshuffle"} : RefuseHeap(op)
    \/ \E op \in {"shuffle", "unshuffle"}, k \in TypeSizes : RefuseLength(op, k)
    \/ \E s, d \in Direct :
         /\ s # d
         /\ \/ \E n \in 1..MaxCompressed(Remaining(s)), j \in Partials : compressBuffer(s, d, n, j)
            \/ \E j \in Partials : uncompressBuffer(s, d, j)
            \/ \E k \in TypeSizes, j \in Partials :
                 shuffleBuffer(s, k, d, j) \/ unshuffleBuffer(s, k, d, j)

BufferSpec == BufferInit /\ [][BufferNext]_bufferVars

-----------------------------------------------------------------------------
\* The longest result of method op from the window of s, y when that is known.
Longest(op, s, y) == CASE op = "compress" -> MaxCompressed(Remaining(s))
                       [] op = "uncompress" -> y.size
                       [] OTHER -> Remaining(s)

\* A call that returns normally leaves its result as the window of the output and its
\* input as it was, so that the caller, or the next call in a chain of shuffle, compress,
\* uncompress and unshuffle, goes on from there.  unshuffle does not set the
\* limit of its output, and is right only when both positions are the same; a shuffle
\* or unshuffle that returns a negative number, which only an assert tests, is not
\* one that returns normally.
WindowIsResult ==
    (last.op # "none" /\ failure = "none") =>
       /\ Window(last.src, last.from)
       /\ IF last.op = "unshuffle"
          THEN pos[last.src] = pos[last.dst] => HoldsAt(last.dst, pos[last.dst], last.to)
          ELSE Window(last.dst, last.to)

\* The bytes around a window belong to the caller, who packs several pieces of
\* data into one buffer.  A call that Java's own tests refuse changes nothing.  Any
\* other writes to its output alone, from its position on: shuffle and unshuffle no
\* further than the length of their input, compress no further than its longest
\* result, also when they throw, and uncompress no further than the result it
\* announces.  Only an uncompress that throws may have written anything up to the
\* end of the buffer.  unshuffle is left out when the two positions differ.
OnlyOutput ==
    [][last'.op # "none" =>
         \A b \in Bufs : \A i \in Index(b) : mem'[b][i] # mem[b][i] =>
            /\ b = last'.dst
            /\ failure' \notin {"NOT_A_DIRECT_BUFFER", "IllegalArgumentException"}
            /\ \/ last'.op = "unshuffle" /\ pos[last'.src] # pos[b]
               \/ last'.op = "uncompress" /\ failure' # "none" /\ i >= pos[b]
               \/ i \in pos[b]..(pos[b] + Longest(last'.op, last'.src, last'.to) - 1)]_bufferVars

\* The javadoc of BitShuffle.unshuffle: its output "uses buffer[pos()..]".
UnshuffleAtPosition ==
    (last.op = "unshuffle" /\ failure = "none") => HoldsAt(last.dst, pos[last.dst], last.to)
=============================================================================
