# snappy-java in TLA+

Models, model-checking runs and machine-checked proofs for snappy-java: the streams,
the two buffer caches they share, the loader of the native library, the API for arrays
and buffers, the checksum of the framed format, and the JNI methods between Java and
the two native libraries. Those libraries themselves (snappy and bitshuffle) are not part of the repository; the
models see only their results (a length, or a failure).

All source paths below are relative to `src/src/main/java/org/xerial/snappy/`.

## 1. The system

| Part | State | Operations | Works with |
|---|---|---|---|
| `pool/CachingBufferPool` (interface `pool/BufferPool`) | two maps from a bucket size to a lock-free deque of soft references | `allocateArray`, `allocateDirect`, `releaseArray`, `releaseDirect` | called by the framed streams of all threads; the garbage collector clears its references |
| its size classes | none | `adjustSize`, `roundToPowers` | key of the maps |
| `buffer/CachedBufferAllocator` | a static table of soft references to allocators, a deque per allocator | `getAllocator`, `allocate`, `release` | called by constructor and `close` of `SnappyOutputStream` |
| `SnappyOutputStream`, `SnappyHadoopCompatibleOutputStream` | input array and cursor, output array and cursor, header flag, closed flag | the `write`s, `rawWrite`, `flush`, `close` | the stream below, which may throw; an allocator |
| `SnappyInputStream` | block array, cursor and limit, end flag, header bytes | constructor, the `read`s, `rawRead`, `available`, `close` | the stream below, which cuts its answers |
| `SnappyFramedOutputStream` | a `ByteBuffer` (position, limit), two direct buffers, closed flag | the `write`s, two `transferFrom`s, `flush`, `close` | the channel below; the pool |
| `SnappyFramedInputStream` | three pooled buffers, `valid`, `position`, `eof`, `closed` | constructor, the `read`s, two `transferTo`s, `available`, `close` | the channel below; the pool |
| `SnappyLoader`, static initializers, `SnappyBundleActivator` | `isLoaded`, `snappyApi`, `bitshuffleApi`, `nativeLibFile`, the `impl` fields, files on disk | `loadSnappyApi`, `loadBitShuffleApi`, `cleanUp`, `start`, `stop` | a monitor that part of the clean-up does not take |
| `Snappy` and `BitShuffle` on arrays and direct `ByteBuffer`s | none of their own; position and limit of the callers' buffers | `compress`, `uncompress`, `shuffle`, `unshuffle` | the JNI methods |
| `SnappyNative.cpp`, `BitShuffleNative.cpp` | none; arrays pinned in a call | `rawCompress`, `rawUncompress`, `uncompressedLength`, `isValidCompressedBuffer`, `arrayCopy`, `shuffle`, `unshuffle` | the JVM, its collector, the native libraries; called by all threads |
| `PureJavaCrc32C`, masking in `SnappyFramed` | the register `crc`, eight tables | `reset`, `update`, `getValue`, `maskedCrc32c` | both framed streams |
| `OSInfo`, `DirectByteBuffers`, exceptions | none, or tables | pure functions and I/O | not modelled, see section 8 |

### What is hard about it

* **Concurrency.** `CachingBufferPool` has no lock: polls, pushes and purges of
  several threads interleave with each other and with the collector, which may clear
  a reference between any two statements. `cleanUpExtractedNativeLib` writes fields
  without the monitor under which the initializers use them. A native method holds raw
  pointers into a heap whose collector other threads may start.
* **Failure.** The streams keep state in buffers across an exception from below.
  Cursors, the header flag and the position of a `ByteBuffer` are changed before or
  after the call that may throw, and the caller may carry on. Allocations fail
  between the release of old buffers and the assignment of new ones.
* **Delivery.** Sources return fewer bytes than asked for and may end at any byte.
  Buffers are reused, so that bytes of an earlier block lie beyond the limit.
* **Native calls.** Each error branch has to release what was pinned, and before it
  calls back into Java: in a critical region that could wait for the collector, which
  waits for the region.
* **Limits.** Several compressed blocks share one output buffer; sizes are rounded up
  in 32-bit arithmetic close to 2^31. The checksum runs through 2048 table entries, of
  which a given input uses a few.

What makes each part correct: a buffer has one owner, is large enough and is not
lost (caches); what was written comes out once, in order and in well-formed blocks,
and a normal return of `flush` means it did (output streams); what is read is a
prefix of what was written and -1 means all of it (input streams); one whole library
is linked once and a class that is initialized can be used (loader); what is packed gets its
size back when it is unpacked, and a buffer's window is the result of the call (API); critical
regions are left on every path and a normal return means that the work was done (JNI).
`PROJECT.json` lists under "hazards" each place in the code where one of these
could go wrong.

## 2. Modules

| Module | Models | Kind |
|---|---|---|
| `SizeBuckets` | `adjustSize`, `roundToPowers` with Java `int` arithmetic (`IntSum` wraps at 2^31) | operators |
| `SizeRequests` | a sequence of requests, so that the operators can be checked and proved about | specification |
| `Checksum`, `CrcTables` | `PureJavaCrc32C`, with its tables as literals, and `SnappyFramed.mask` | specification |
| `MCArithmetic` | `SizeRequests` and `Checksum` side by side | specification |
| `PoolContract` | what `BufferPool` promises: one owner, large enough, only the owner returns, anything spare may vanish | abstract specification |
| `BufferPool`, `MCBufferPool` | `CachingBufferPool`, one action per statement that touches shared state | specification |
| `BufferPoolProofs` | `adjustSize` for every positive `int`; inductive invariant and safety of `BufferPool`, which implements `PoolContract` | proofs |
| `Allocator`, `MCAllocator` | `CachedBufferAllocator` with the constructors and closes of its client | specification |
| `AllocatorProofs` | its inductive invariant, and the three properties from it | proofs |
| `BlockOutput`, `MCBlockOutput` | `SnappyOutputStream` and its Hadoop subclass (variable `hadoop`) | specification |
| `BlockOutputProofs` | its inductive invariant, and the three properties from it | proofs |
| `BlockInput` | `SnappyInputStream` | specification |
| `BlockPipe`, `MCBlockPipe` | `BlockOutput` and `BlockInput` composed: a writer that is given up at any moment, and the reader of what it left | specification |
| `BlockPipeProofs` | the inductive invariant of `BlockInput` and the two properties from it, for streams of any length; and `RoundTrip`, from it and the invariant of `BlockOutputProofs` | proofs |
| `FramedOutput`, `MCFramedOutput` | `SnappyFramedOutputStream` | specification |
| `FramedOutputProofs` | its inductive invariant, and the three properties from it | proofs |
| `FramedInput`, `MCFramedInput` | `SnappyFramedInputStream` | specification |
| `FramedPipe`, `MCFramedPipe` | `FramedOutput` and `FramedInput` composed, as `BlockPipe` | specification |
| `FramedPipeProofs` | the inductive invariant of `FramedInput` and the four properties from it, for streams of any length; and `RoundTrip`, from it and the invariant of `FramedOutputProofs` | proofs |
| `Loader`, `MCLoader` | `SnappyLoader`, static initializers, `Snappy.cleanUp`, the OSGi activator | specification |
| `NativeCalls`, `MCNativeCalls` | `SnappyNative.cpp`, `BitShuffleNative.cpp`, with the JVM as environment | specification |
| `NativeProofs` | critical regions are closed, memory is valid and a method that returns has done its work, for any number of threads and arrays | proofs |
| `ArrayApi` | the methods of `Snappy` and `BitShuffle` on arrays, in `int` arithmetic of any width | specification |
| `BufferApi` | their methods on direct `ByteBuffer`s | specification |
| `MCApi` | `ArrayApi` and `BufferApi` side by side | specification |
| `ApiProofs` | inductive invariants of both and of `Loader`, and the six properties from them: sizes come back, a buffer's window is the result, calls write to their output only, the library is loaded once, initialized classes can be used | proofs |

The MC modules hold only values for constants. Definitions named `X_Something` are
variants of `X` with a plausible mistake; nothing refers to them. Each shows that
a property would notice that mistake.

### How state and actions correspond to the code

**BufferPool.** `pc[t]` is the next statement of thread `t`; `key`, `entry` and
`value` are the local variables, `held` the buffers its caller works with. `queue[k]`
is the deque under key `k`, `referent[r]` what `r.get()` returns. `allocate` →
`optimisticGetEntry` → `PutIfAbsent` → `PollFirst` → `Deref` (back to `PollFirst`
when the reference was cleared) or `Create`/`CreateFails` is `getOrCreate`;
`release` → `returnValue` → `AddFirst` → `PeekLast` → `CheckLast` → `RemoveLast` is
`returnValue`. `Use` is a caller moving position and limit of a direct buffer,
`Forget` a stream that is never closed, `MakeOwn` a caller who returns a buffer the
pool did not make, `Collect` the collector, which clears all soft references to a
buffer at once and only when nobody has a strong one.

**Allocator.** A stream's constructor is four steps (two `getAllocator`, two
`allocate`), each atomic because the code synchronizes it; the second may fail after
the first took an array. `collect` clears a table entry only when no stream holds the
allocator; the key stays, as in the code.

**BlockOutput.** The output side is one record `o` (cursor, header flag, the items in
the output buffer and those sent), because `compressInput`, `dumpOutput` and `flush`
change it in sequence and may be cut off by an exception between two changes.
`o.need` and `o.room` record, for every call of `Snappy.compress`, the bytes it may
need and the bytes left. The typed `write` overloads differ only in the element size
and share `rawWrite`.

**BlockInput / FramedInput.** `src` is a sequence of items (headers, blocks or
frames, among them damaged ones) and `at`, `off` the position in it; `present` cuts
the last item at any byte. Every read from below takes any number of bytes from one
up. `pc` names the place inside `readHeader`, `hasNextChunk` or `ensureBuffer`, so that
a call consists of several steps; `delivered` is what the caller has received. In
`FramedInput` buffers have identities: `slot` is what the fields point to, `pool.owned`
what was taken and not returned, and a transfer through an array that went back
delivers 0, which stands for anything.

**FramedOutput.** `position` and `limit` of the `ByteBuffer` are kept explicitly,
since `flip` before and `clear` after the call of the channel decide what survives
an exception. A fault is an exception before the frame header, one before the body, or a
body that the channel takes only in part.

**BlockPipe.** While the reader's `pc` is `"none"` the writer moves (`Write`, the
actions of `BlockOutput` through `INSTANCE`); `Open` ends it, closed or not, and turns what
reached its underlying stream into a `src` of the reader, cut anywhere in its last item.
`promised` is how many bytes had been accepted when the last `flush` or `close` returned
normally. Behaviours without a writer read the damaged and concatenated streams of
`Streams`.

**FramedPipe.** The same for the framed streams: the heads and bodies that the channel
received become frames, in which the checksum is right when the head was made for the data
of the body. The channel may refuse heads and the caller carries on. A `flush` after an
exception on the raw path promises nothing, since `flip` has emptied the buffer
(`Kept`).

**Checksum.** An `int` is the set of its bits that are 1, so that exclusive or is the
symmetric difference, a shift moves members, and addition is defined by its carries. The
tables are those of the source, two halves of 16 bits for each entry. The reference
`CRC32C` divides by the polynomial bit by bit and knows no table; `Unmasked` undoes the
masking in ordinary arithmetic.

**NativeCalls.** A native method is a sequence of statements, as the C++ function is:
`Pin`, `Locate`, `Need`, `Run`, `Release`, `Check`. `todo[t]` is what thread `t` still has to
do; a failed test replaces it by the statements of its branch. `copying` chooses the kind
of JVM: one that pins and delays its collector, or one that copies arrays and writes the
copy back. `where` is the place of the arrays, changed by `Collect`, and `wild` notices
that the library ran on a place that is no longer the argument's. `null` are the pointers
that the JVM refused. The library takes any input in `convert` (compression, `memcpy`), and in
`shuffle` (bitshuffle) too, but `shuffle` may fail on it, for lack of memory; `Verdicts` says
which answers each call of the library can give. Its failure is not tested by the C++ code.

**ArrayApi, BufferApi.** An array is its element size and length; lengths are computed with
`Int32`, a Java `int` of `Word` values. Blocks are made by `compress`, or received from
elsewhere (`Receive`) and say any length. `uncompress` divides that length by the size of an
element as Java does, towards 0 and without asking for the remainder. A buffer is position,
limit, content and a capacity of its own; each byte names the data it belongs to, so that a
byte that lands elsewhere shows, or is junk that a native call wrote besides its result. `last`
is the call just made, with what it read and what it was to produce. The tests in Java come
before the native call (`Reject`), everything else after it has written: an exception of the
library (`Fail`), a limit that does not fit (`SetLimit`), a negative result of bitshuffle, which
throws or not as assertions are on or off (`ShuffleFails`). Native code is not told where a
buffer or an array ends. What it writes behind that end is memory of others and outside of
these models.

**Loader.** An initializer holds the monitor from `enterMonitor` to `returnApi` or
`fail`; every step between is separate because clean-ups run without the monitor.
A file is named after the class whose initialization extracted it, which is what the
UUID in its name achieves. `loads` are the calls of `System.load` and `System.loadLibrary` in
`SnappyLoader`; the `System.loadLibrary` of the activator is `linked`. `disturbed` are the
classes whose field was cleared between the moment its initializer set it, or saw it set,
and the return statement that reads it again (`Interferes`).

## 3. Runs

Passing runs (all properties hold on the whole state space of the instance):

| Run | Question | Instance |
|---|---|---|
| `arithmetic` | Are requests around every bound of the switch rounded to a bucket that is large enough, an `int`, at most half too large from 4 KB on, and its own bucket? Is the checksum CRC-32C, however the bytes are cut into calls and whatever frame came before? | 35 bounds with their neighbours, up to 2^31-1; 256 arrays of 17 bytes |
| `pool` | Can a buffer get two users, a live entry be lost, a used buffer come back unclean, a deque grow? Is `IndInv` an invariant? Do the two loops always let somebody finish? Does the pool implement the contract, with foreign buffers too? | 2 threads, 2 buffers, 4 references, sizes 0 and 1, foreign lengths 4096 (a bucket) and 5000 |
| `allocator` | One owner, right length, one allocator per size, no growth beyond the peak? | 2 streams, sizes <<1,2>> and <<2,3>>, up to 3 allocators |
| `block_out` | Are bytes, header and buffers neither lost nor doubled, whatever fails, and do the buffers suffice? | both classes, blocks of 3, writes of 0, 1, 2 and 5 bytes, 10 bytes in all |
| `block_pipe` | Is what is read a prefix of the data, is -1 given only at the end, does every call return? Is what a flush promised found by the reader, whatever failed before and wherever the writer stopped? | 16 streams, and the output of a writer of up to 4 bytes in blocks of 2, cut at every byte of the last item; reads of 1, 0, 2 and 4 |
| `framed_out` | Are frames whole, the bytes in order and never twice, the buffers returned once? | blocks of 3, 7 bytes, up to 2 faults of 3 kinds, compressible or not |
| `framed_pipe` | As `block_pipe`, with checksums, buffers that grow, failing allocations and transfers; does the reader accept whatever the writer made? | 14 streams, and the output of a writer of up to 4 bytes in blocks of 2 with one refused head, cut at every byte of the last frame; first buffer 7 bytes |
| `loader` | Does `SnappyLoader` load one whole library once, does a class get its object unless, and only unless, its field was cleared in the middle of `loadSnappyApi` or `loadBitShuffleApi`, does every call end? | 3 threads, 2 clean-ups, all settings, bundled and preinstalled library or not |
| `native` | Is every critical region left on every path and before Java code runs? Is memory used only while it is the argument's? Does a normal return mean a result? Can collector and native code block each other? | 2 threads, 2 arrays and a direct buffer that they share; one thread calls any method, the other `rawUncompress`; both kinds of JVM, each pointer refused or not, good and damaged input, bitshuffle succeeding or not |
| `api` | Does an array of any length get its size back, and a block from elsewhere an array as long as it says; does the scratch buffer suffice? Does each call on buffers that returns leave its result in the window of its output, and does a call, also one that throws, leave all other bytes alone? | all lengths of an `int` of 512 values, element sizes 1, 2, 4, 8, compressed blocks that say any number below 512; direct buffers of 4 and 2 bytes and a heap buffer, positions 0 and 1, 0 or 2 bytes written besides the result, up to 4 calls that reach the library |

Runs that show a disagreement between the code and what it says of itself:

| Run | Property | What happens |
|---|---|---|
| `stale_transfer` | `TransfersEntireContent` | `transferTo(WritableByteChannel)` wraps `buffer` before the loop; a larger frame replaces `buffer`, and the loop goes on with the array that went back to the pool. |
| `unshuffle_position` | `UnshuffleAtPosition` | `BitShuffle.unshuffle` on buffers passes the position of its input as that of its output (line 202) and sets the limit of its input (line 207); the javadoc says that the output "uses buffer[pos()..]". |

Some passing properties claim less than one would wish, because the code does less. What each
leaves out is named in the property:

* `Conservation` and `FramesWhole` of `FramedOutput` and `RoundTrip` of `FramedPipe` look
  at the kinds of faults that happened (`b.kinds`), `TransfersAll`, `Faithful` and `EofMeansAll`
  of `FramedInput` at `bb.stale`.
* `ImplReady` of `Loader` says that the `impl` of an initialized class is null exactly when the
  class is in `disturbed`.
* `ReturnMeansDone` of `NativeCalls` leaves out pointers refused to `BitShuffleNative` (`lost`)
  and negative numbers that bitshuffle returned (`told`).
* `SizeRestored` of `ArrayApi` leaves out arrays of `Word` bytes and more, allows a remainder of
  less than an element that has no place in the array, and leaves out blocks whose length is
  cast to a negative number so small that the division makes it 0 (section 6).
* `WindowIsResult` and `OnlyOutput` of `BufferApi` leave out the output of an `unshuffle` with two
  positions; `OnlyOutput` lets an `uncompress` that throws write up to the end of its output.

What the models themselves leave out is in section 5; writes behind the end of an array or a
buffer are the case to keep in mind.

### The bounds, and why they are enough

* *Pool.* Two threads and two buffers give every pairwise interleaving of the two
  loops; one size class and another show that keys do not mix. The number of
  references is a bound on objects alive at a time, with guards (`RefsToSpare`) that
  keep it from mattering. What the bounds leave open is closed by the proofs, which
  hold for any number of threads, buffers, references and sizes; for `QueueBounded` they
  do so when callers release only what they took (section 4).
* *Allocator.* The two shapes share size 2 in different roles. `MaxBuffers` and
  `MaxAllocators` are one more than needed, respectively exactly the number of sizes.
* *Streams.* Blocks of two or three bytes, so that a write is shorter than, equal to or
  longer than a block, several compressed blocks fit the output buffer, and the
  output buffer runs full. `MaxBytes` allows three blocks, enough for a fault, a
  recovery and a block after it.
* *Input.* A stream has at most five items: each kind of item is met first, after and
  before a good one. Cuts are at every byte of the last item.
* *Pipes.* Four bytes in blocks of two give a full block, a partial block made by a flush,
  several blocks in one dump, and a dump forced by a full output buffer. The frames of a
  framed stream are all raw or all compressed: the reader keeps nothing of the kind of a
  frame to the next.
* *Checksum.* In the arrays each of 17 positions takes each of the 256 values, which by
  way of the pieces reach every entry of every table (a change of one bit in one entry is
  found); 17 bytes are two rounds of the first loop and one of the second. `MaxFed` allows a
  block of eight and a byte after it, in any pieces, and a whole frame after that.
* *Native.* Two threads are enough for a collection that one waits for while the other
  is inside; two arrays for calls that share one or none, or use one array twice.
  Concurrent calls write disjoint parts; where arrays are copied they share no array
  that one of them writes, since the copies would overwrite each other.
* *API.* `Word` = 512 keeps the proportions that matter (it is a multiple of 16 and
  larger than the constant of `maxCompressedLength`), and `Lengths` are all non-negative
  values. Four calls (`MaxCalls`) are a chain shuffle, compress, uncompress, unshuffle. The
  buffers differ in capacity, so that results and junk (`Partials`) end before, at and behind
  the end of the smaller one. `MaxCompressed` lets a result be one byte longer than its input.
* *Loader.* Two classes exist. The third thread is there for the clean-up that
  interferes with both. Two clean-ups include start followed by stop.

### Fairness

* `BufferPool!FairSpec`: weak fairness of each thread's step inside a call. A Java
  thread that is runnable runs. Callers and the collector are not fair. The
  conclusion is lock freedom only (`LockFree`): a single thread may lose every race.
* `BlockInput!FairSpec`, `FramedInput!FairSpec`: weak fairness of the call in
  progress; the stream below answers each request with at least a byte or its end.
  Whether another call is made is up to the caller.
* `BlockPipe!FairPipeSpec`, `FramedPipe!FairPipeSpec`: the same for the reader. The writer may stop anywhere, which is
  how it crashes.
* `NativeCalls!FairSpec`: weak fairness of each thread's step in native code and of the
  collector once it can run. Without it `CollectorNotBlocked` would say nothing about the
  code; with it, only a region that is not left, or Java code run inside one, breaks it.
* `Loader!FairSpec`: weak fairness of each thread's step. The monitor is not fair,
  but every thread takes it finitely often, so weak fairness suffices.

Deadlock is checked everywhere except in `Loader.cfg`: there the
system is at rest once both classes are initialized and no clean-up is left;
`CallsEnd` is what says that nobody hangs.

## 4. Proofs

All theorems are checked by TLAPS for every value of the constants that satisfies the
named assumptions; one states a further hypothesis (`QueueAlwaysBounded`, below).
The assumptions are `SizesAssumption` (requested sizes are Java ints,
foreign lengths positive ones) and `NullAssumption` of `BufferPool`, the
assumption of `SizeRequests` that requests are positive ints, `ObjectsAssumption` of
`NativeCalls` (an array is not a buffer), `AllocatorAssumption` and `NullAssumption` of
`Allocator` (sizes and bounds are numbers, streams are finitely many, null is no object),
`LoaderAssumption` (the settings are settings, null is neither a thread nor a file), and
`BlockOutputAssumption` and `FramedOutputAssumption` (block sizes are positive, the bound on
bytes is a number, compressed data is not longer than its maximum, faults are of the modelled kinds), and of the
API `WordAssumption` and `LengthsAssumption` (`Word` is a multiple of 16 and at least 256,
which 2^32 is, and lengths are ints), `StreamsAssumption` and `ReadLensAssumption` of `BlockInput`
(streams are finite sequences of items of the format, an item without a header is alone, lengths
are numbers), `WriterAssumption` and `NullAssumption` of `BlockPipe` (that of `BlockOutput` once
more, and null is not an array), `WriterAssumption`, `NullAssumption` and `FrameSizesAssumption` of
`FramedPipe` (that of `FramedOutput` once more, null is not an array, and `MaxCompressed` gives a
number that is no smaller for the lengths of the frames that the writer makes), the assumptions of `FramedInput` (`StreamsAssumption`: streams are finite
sequences of frames as `getFrameMetaData` tells them apart, so that data frames are longer than
their checksum, and a raw frame is its checksum and its data; `CallsAssumption`: the calls are
those modelled; `SizesAssumption`: the sizes that occur are numbers, and `MaxCompressed` gives a
number that is no smaller), `CapacityAssumption` and `TypeSizesAssumption` of `BufferApi` (each
buffer has a capacity, the callers' positions and lengths are numbers, element sizes are positive
ones).

* `BufferPoolProofs!ServedAlways`, `StableAlways`. Its lemmas prove what `roundToPowers`
  gives for any of the units of the switch (`RoundUp`: a multiple of the unit, less than
  a unit above the argument, without overflow; `RoundMultiple`: a multiple is left
  alone), then `OneClass` that inside one interval of the switch this wastes at most
  half and gives a size that is its own bucket, also when it lands on the first size of
  the next interval, then `Adjusted` by cases over the switch.
* `BufferPoolProofs!Invariance`: `Spec => []IndInv`. `Exclusive` alone is not
  inductive: that `Deref` hands out a buffer nobody has depends on the reference
  being in no deque and in no other thread's hands, on no second reference
  leading to the same buffer, and on nobody being in the middle of returning that
  buffer. These are `OnePlace`, `OneReference` and `OneReturner`; `Located` ties the
  local variables to `pc`, `Filed` says that a deque holds buffers of its own length
  only, and `RemovesCleared` that the entry a purge is about to remove has stayed
  cleared. There is one lemma per action; `PollLemma`, `AddLemma` and `RemoveLemma`
  say what the deque operations do to the elements and to injectivity of a sequence.
* `Typed`, `ExclusiveAlways` follow from it; `NothingLost` (`NoLiveEntryLost`) and
  `UsableAlways` (`HandedOutUsable`) are action properties proved from it, action by
  action. `NothingLost` rests on `RemovesCleared`: between `peekLast` and
  `removeLastOccurrence` the entry may be polled by another thread, but never come
  alive again.
* `BufferPoolProofs!QueueAlwaysBounded`: `Spec => []QueueBounded`, from `Bounded`: threads and
  buffers are finitely many, there is a thread, and buffers that callers make themselves do not
  have a bucket's length (the streams of the library release only what they took). The purge of
  `returnValue` stops at the first live reference, so nothing bounds the number of cleared ones
  locally; what bounds it is how many buffers were in use when the references were pushed. The
  invariant `Room` therefore adds to the length of a deque the allocations that are past
  `pollFirst` (`Busy`) and the buffers of its length in use (`InUse`): a poll moves one from the
  deque to `Busy`, a hand-out from `Busy` to `InUse` (`TakesPlace`), `addFirst` from `InUse`
  back to the deque. It speaks of deques that are not empty only, because threads that
  found one empty may bring any number of new buffers; the first `addFirst` starts the
  count, and its thread is not in an allocation (`AddRoom`), which is where the bound's "less
  than" comes from.
* `BufferPoolProofs!Implements`: `Spec => ImplementsContract`. Statements inside a call
  are stuttering steps (`HiddenSteps`), `Deref` of a live reference is `Hand`,
  `Create` is `Make`, `AddFirst` is `Return`, the collector is `Evict`. The mapping
  gives a buffer to the thread that is returning it until the deque has it, and counts
  as spare what a queued or a polled reference leads to.

* `NativeProofs!RegionsAlwaysClosed`, `MemoryAlwaysValid`. Neither is inductive: that a
  thread about to return holds nothing depends on what was in `todo` when it pinned. The
  invariant `NInv` therefore speaks of the text still to do. `Proper` is what makes a text
  safe whatever happens: what is pinned is released later, no release stands behind a test
  of the result or an exception, the pointers are tested between a pinning and a use, and
  nothing is used after a release. `HeldReleased` says that what is held is given back by
  the text, and `Covered` that the argument of each later use is held, or will be pinned or
  refused and tested before. The lemmas `Shape...` establish this for the texts of the
  methods, which are read off the C++ functions; `ProperTail`, `HeldTail`, `HeldPin`,
  `CoveredTail` show that a statement done keeps it, `BailOut` and `JustThrow` that the
  error branches do. Only then come the steps, one lemma per action. A native method added
  to the code needs its `Shape` lemma and, for the next theorem, its `Order` lemma.

* `NativeProofs!ReturnAlwaysDone`. `NInv` does not speak of results, so `DInv` looks the other
  way, at the statements a thread has behind it. `Orderly` is again a fact about the texts:
  pointers are obtained, tested and only then used, `uncompress` alone may follow another use
  of the library, what is released was pinned, and an input is released before an output that
  was written. `Done` says what the first `n` statements leave in `input`, `ret`, `known`,
  `held`, `null` and the output, for a thread that met no error (`OnPath`); the others are in
  the text of an error branch, have raised an exception, or were refused a pointer in
  `BitShuffleNative` (`Lost`). A call of bitshuffle that failed raises nothing, so that its
  thread stays on the path with `ret` false: `Done` speaks of the output only when `ret` is true,
  and the theorem says nothing of a method that returns a negative number. The hard case is `ReleasePrimitiveArrayCritical` on a JVM that
  copies, which writes the whole array back: `Orderly` protects the thread's own result when
  both arguments are the same array, and `Separate`, which only the guard of `Call` keeps,
  the results of the others. The properties of `DInv` are invariant only together with `NInv`:
  that the output of a method at its end is in the array and no longer in the copy is
  `NothingHeld`.

* `AllocatorProofs!ArraysExclusive`, `OneAllocatorPerSize`, `NeverMoreThanPeak`. The
  invariant `AInv` adds to the three properties what they rest on: `HeldListed` (the table
  leads to every allocator that a stream holds, so that the collector clears only what can be
  replaced), `ListedRight` (a key leads to an allocator of its size), `Filed` (a deque has
  arrays of its allocator's size, and one that is gone has none), `Located` (what a stream has
  at each place of its constructor and `close`), and that no array is in two places.
  `NoMoreThanPeak` counts users with the library's theorems on finite sets; it is why
  `Streams` has to be finite.

* `ApiProofs!LoadedAtMostOnce`, `ImplAlwaysReady`. That the library is loaded once rests
  on the monitor (`Monitored`, `LoadedByHolder`: while a thread looks for the library nobody
  else sets `isLoaded`). That only a whole file is linked is `NamedWhole`: `nativeLibFile` may
  survive an attempt that failed and may be deleted by a clean-up without the monitor, but
  never names a file that is half written, because it is set only after the comparison of
  contents and because each class, which is initialized once (`OneInitializer`), writes a file
  of its own. `ReadBack` says that at the return statement the field is there exactly when no
  clean-up cleared it since it was set or seen set, which holds because nobody can set it again
  while the monitor is held; `ClearedAtReturn` is the step of a clean-up that clears it there.
  So `ImplReady` is exact: a class is left without its `impl` in this case, and in no other.
  `SetAfterLink` says that nobody sets a field before a library was linked.

* `BlockOutputProofs!StreamTypes`, `BytesConserved`, `RoomAlways`. A call of the stream runs
  `rawWrite`, `compressInput`, `dumpOutput` and the stream below several times and may be
  cut off by an exception at each of them, so the invariant `BInv` is one of an output side
  and a count: `Sound(h, s, d, n)` says that what `s` sent and buffered are the bytes up to
  `n - Len(d)`, the input buffer `d` the ones from there to `n`, that the header is the first
  item or there is none, and that the cursor fits its buffer up to the preamble which
  `hasSufficientOutputBufferFor` forgets (`Fits`). Each helper of the code gets a lemma that
  it keeps `Sound` in both its outcomes, each step of the specification one that puts them
  together. `Left` is what stays true after `close` dropped what it could not send.
  `RoomAlways` needs `BlockSize >= MIN_BLOCK_SIZE`: below that the constructor raises
  `blockSize` but not `inputBuffer`, and `raised = "bounds"` is reached (section 6). The other
  three theorems hold for every positive size.

* `FramedOutputProofs!StreamTypes`, `FramesAlwaysWhole`, `BytesConserved`. Again the invariant
  `FInv` speaks of a buffer `s` and a count `n` (`Sound`), because one call flushes many
  times. It is three-fold, as the properties are: `Ordered`, which holds whatever the channel
  does, says that no body has a byte later than the ones in the buffer, so that the stale
  array beyond `position` never goes out; `Frames` holds while no body failed or was short,
  `Complete` while at most heads were refused. `Typed` says that the buffer is never full
  with nothing in it, which is why `write` makes progress. `Staged` ties the fields to the stage of
  the stream: the identifier is there before the first byte, `out.close()` comes after
  the last.

* `BlockPipeProofs!FaithfulAlways`, `EofAlwaysMeansAll`. A call runs over several chunks and the
  stream below cuts each of them anywhere, so the invariant `IInv` speaks of the program points.
  `Position` and `InItem` say where the next byte to read is: inside a chunk the last `got` bytes
  read are those of one item, so that a size or a header is never read from the middle of an
  item; between chunks it is at a boundary, or at the end of the input, or a call threw.
  `DataInv` says that what callers have, and what is left of the block, are the data of the
  `Before` items that were read (`Taken`); it does not speak of the array once `close` dropped it.
  `Ends` says that the end was met between two items or inside the four bytes of a size.
  `Payload` is recursive over the items, and what the steps need of it (`PayloadStep`, one more
  item; `PayloadType`; `PayloadGrows`, fewer items give a prefix) holds for every length. The
  induction theorems of the library are out of reach, so these lemmas take the least
  counterexample: `Least`, that a set of numbers has a least element, comes from
  `FS_StrictSubsetOrderingWellFounded`, by which the intervals `1..n` ordered by inclusion are
  well founded.

* `BlockPipeProofs!RoundTripAlways`. While the writer is there, `Kept` says that what was
  promised is the number of bytes in some of the items that reached its stream; it holds
  because that stream only grows (`SinkGrows`) and a `flush` or `close` that returns normally leaves
  nothing in the buffers (`FlushSends`). From `BInv` what was received is the beginning of
  a header and blocks that hold 1, 2, and so on (`Begun`, `Made`), even of a writer that was
  closed in the middle of a failure. `WiredCounted` turns this into what the reader's `Payload`
  says of it (`Sent`). Such a stream has one header, good sizes and blocks that decompress
  (`Clean`), and of it a reader that is open meets no exception but the one for a
  cut end, after which it stays where it is (`Calm`, `Stopped`). `RoundTrip` then follows from
  `EofMeansAll` for readers where no call threw, and from `Stopped` for the others.

* `FramedPipeProofs!ReaderTypes`, `FaithfulAlways`, `EofAlwaysMeansAll`, `TransfersAlwaysAll`.
  The place in the stream and the data are treated as in `BlockPipeProofs` (`Position`,
  `DataInv`, `Ends`, `PayloadStep`). What is added are the buffers. `Buffers` says which ids the
  stream owns at each point: between calls and inside them those of its three fields, which are
  different, so that `Release` gives back each once and an id that `Allocate` takes from
  `pool.next` is new; after an allocation that failed, fields may name buffers that went back,
  and then a call failed. `FramePlace` says of each point in `ensureBuffer` that the frame at
  hand is the one whose header was read, that its length is within the input buffer when it is
  read into it, and its data within the array when they are decoded into it; this is why
  `Grow` and `GrowData` come before these points, and it is the part of `TypeOK` that a buffer
  too small would break. `DataInv` counts separately how much was handed out: a transfer to a
  channel with an array given back hands out as many bytes, but not those of the frame.
  Three things came out of the proof. `Faithful` had said only that no byte of a frame with a
  wrong checksum is handed out; `Verified` says what the code does, that nothing behind
  such a frame is either. The step of `readBlockHeader` was a `CASE` whose conditions overlap
  for a skipped frame longer than the input buffer, so that what it chose was left open; it
  is now the `if` of the code. And `read()` is wrong on a compressed frame without data (section 6), so
  `StreamsAssumption` excludes this frame, and only when `read()` is among the calls; the
  other calls are proved for it.

* `FramedPipeProofs!RoundTripAlways`. While the writer is there, `Honoured` says that at least
  what was promised has left the buffer; it holds because `accepted - position` never
  decreases, also not when an exception leaves position and limit where they are (`SentGrows`),
  and a `flush` or `close` that returns normally leaves the position at 0 (`FlushSends`). If the
  channel refused nothing but heads of compressed frames, `Frames` and `Complete` of the writer's
  invariant say that the channel has the identifier and pairs of a head and a body, which are
  frames with a right checksum and the numbers in order (`WriterWired`, `WiredCounted`, `Left`).
  Such a stream has nothing to skip (`Clean`), and a reader of it is `Calm`: it throws only for
  want of memory or at the cut end, and what it handed out by then stays a prefix (`Stopped`).
  That a transfer to a channel does not throw is `Wraps`: as long as the array that
  it wraps is still the stream's, it has the length of `buffer`, because one that grew has a
  new id. For the other writers nothing is promised and nothing is claimed. The proof found that
  `EofMeansAll` of `FramedInput` was laid out so that its first conjunct was read as part of the
  hypothesis of the second; it now says what its comment says, in the run and in the theorem.

* `ApiProofs!WindowAlwaysResult`, `OnlyOutputChanges`. What a call leaves depends on the data
  it found, and data is nested, so that the invariant first has to bound it: a buffer only
  ever holds plain data, its shuffled form, either of them compressed, or junk (`Data`), because
  `shuffle` is given plain data and `compress` never something compressed. From this follow
  the lengths. Each method has a lemma for what it stores and where (`CompressEffect`,
  `UncompressEffect`, ...), which covers its normal return, the limit that does not fit and the
  negative result; `Stored`, `OutputWindow` and `InputKept` say what that leaves in the two
  windows. Calls that throw after they wrote (`ThrowStep`) are no case of `WindowIsResult`, but
  are one of `OnlyOutput`, which is proved for them as for those that return (`WroteOnly`). For
  `unshuffle`, which mixes up positions and limits (section 6 and the run
  `unshuffle_position`), the theorems say what `WindowIsResult` and `OnlyOutput` say, the case
  of equal positions.

* `ApiProofs!SizeAlwaysRestored`, `ScratchAlwaysSuffices`. The steps rest on three facts of int
  arithmetic for every `Word`: an unsigned number below `Word` is either the int or becomes
  negative (`IntOfUnsigned`), the longest compressed block of an int's number of bytes stays
  below `Word` (`LongestBlock`), so that the size of the buffer is right or is refused, and a
  product that passed the test `byteSize < input.length` is exact if it is below `Word`
  (`ByteSize`). `Packing` carries the last one from the call that packs to the call that
  unpacks. For a block from elsewhere only `DataBound` is known, that it says an unsigned int;
  `SmallQuotient` (a number that is negative stays so or becomes 0 when it is divided) and
  `Elements` (how many whole elements there are) then give the length of its array.

Only model-checked, and why:

* `LockFree`, `CallReturns`, `CallsEnd`, `CollectorNotBlocked`: liveness, out of the
  prover's reach.
* `ChecksumRight`: it compares the 2048 numbers of the tables with the division that defines
  the checksum, and a fold over the bytes with another one. The provers do not evaluate the
  tables, and a fold is a recursion over the data.
* `QueueBounded` where callers release buffers of a bucket's length that they made
  themselves, which the run allows and `Bounded` excludes: each adds a reference without an
  allocation before it, and only `RefsToSpare`, a bound of the model, limits how many.

## 5. Abstractions to keep in mind

* A write to the stream below that throws has delivered nothing. Streams may pass on a
  part before they throw; `dumpOutput` would then repeat it, and cannot know.
* Compression is a choice of lengths up to the longest. `BlockOutput` and `ArrayApi` use the
  formula of snappy for it (32 + n + n/6); in the framed streams, whose `MaxCompressed` is a
  parameter, and in `BufferApi` it is a small function that grows with n. Payload bytes are
  distinct numbers, so that a repeated, lost or swapped byte shows.
* A damaged compressed frame is noticed when its length is asked for
  (`uncompressedLength`); one that is noticed later ends in the same exception.
* The pooled buffers of `FramedInput` have the capacity asked for; the pool may
  give more.
* Negative chunk sizes and sizes above the maximum are one kind of item.
* In `Loader` the unsynchronized read of `nativeLibFile` sees the current value.
* In `NativeCalls` the library gives one verdict per input (good, damaged header, damaged
  body), offsets and lengths are those of the callers, and a result is new, partial or old. A call
  of bitshuffle may fail on any input, and every failure has the same negative number.
* `ArrayApi` models sizes, not contents. `assert` may be on or off in it and in `BufferApi`.
* Native code writes wherever it is told. A write behind the end of an array or of a direct
  buffer destroys memory of others; in `ArrayApi` and `BufferApi` such a write ends at the end of
  the array or buffer, and what becomes of the process is not modelled. Section 6 lists the calls
  that can do it.
* A stream is used by one thread at a time, as the code expects.

## 6. Further observations

Met while modelling, visible in the modules, and not stated as properties:

* `CachingBufferPool` line 190: a buffer the pool did not make is pooled when its
  length is a bucket in use, against the comment there (`BufferPool!returnValue`).
* `CachingBufferPool` line 71: size 0 is refused; `BufferPool` documents `>= 0`
  (`BufferPool!Reject`).
* `SnappyOutputStream` lines 98 and 102: a block size below the minimum raises
  `blockSize` but not the length of `inputBuffer`, and `rawWrite` then copies past its
  end (branch "bounds" of `BlockOutput!rawWrite`, which no instance with a legal size
  reaches).
* `SnappyOutputStream` line 272: `hasSufficientOutputBufferFor` does not count the
  Hadoop preamble; `RoomForBlock` bounds the shortage.
* `SnappyInputStream` line 434: at bytes that only begin like the magic header, `read`
  returns -1, but a later read goes on. Line 114: the version of the first header is
  not compared, that of later ones is.
* `SnappyFramedOutputStream` line 253, `SnappyFramedInputStream` line 222: the buffers that a
  constructor took stay out when it then throws (state "aborted" of both models).
* `SnappyFramedOutputStream` line 568: the count returned by the channel is ignored.
* `SnappyFramedInputStream` line 273: a compressed frame without data makes `read()`
  return a byte of an earlier frame. Line 573: after the exception for a wrong
  checksum a further read hands out the frame's bytes. Line 257: `close` after a failed
  allocation returns buffers a second time.
* `SnappyFramedOutputStream` line 526: on the raw path the buffer is flipped before the
  channel is called, so that after an exception the position is 0, and the next `flush`
  returns normally without writing (`FramedPipe!Kept`).
* `SnappyLoader` line 95: `Snappy.cleanUp` deletes whatever `nativeLibFile` names, also the
  user's own file given by `org.xerial.snappy.lib.path` (`Loader!deleteLib`).
* `Snappy` line 237 and the like: `length * 8 < length` misses products that wrap past
  the length; for `long[]` these are lengths from 613566757 on, for `int[]` from
  1431655766 (`ArrayApi!tooLarge`).
* `BitShuffleNative.cpp` line 27: `throw_exception` calls a method of `SnappyNative` on a
  `BitShuffleNative`, so that a refused pointer may end in no exception or in a crash
  (`NativeCalls!throw_exception_BitShuffle`).
* `SnappyNative.cpp` lines 53 and 125: the result of `GetUncompressedLength` is ignored; the
  check of `RawUncompress` that follows covers it (`ReturnMeansDone`).
* `BitShuffleNative.cpp` lines 52, 76, 104 and 128: the result of bitshuffle is cast to `jint` and
  returned, also when it is negative because memory ran out. `BitShuffle` tests it in `assert`
  statements only. With assertions off an array of any content is returned (`ArrayApi!shuffle`),
  and a direct buffer gets a limit before its position, which moves the position too
  (`BufferApi!ShuffleFails`).
* `Snappy` lines 611, 642, 744, 775, 806 and 837: the length that a block says is divided by the
  size of an element, and the division is truncated. A remainder is written behind the array by
  the native call; and a length that is cast to an int between -(k-1) and -1, which other
  lengths of 2^31 and more refuse with a `NegativeArraySizeException`, gives an array of
  length 0 (`ArrayApi!uncompress`).
* `Snappy` lines 158 and 580: `compress` and `uncompress` on buffers do not ask whether the result
  fits the output. The native call has written when `limit` throws (`BufferApi!SetLimit`).
* `BitShuffle` line 202: with different positions `unshuffle` not only writes at the wrong place
  (run `unshuffle_position`); into a smaller output, which its test of `remaining()` allows,
  it may write behind the end.
* `SnappyLoader` line 99: a clean-up that clears the field of a class after `loadSnappyApi` or
  `loadBitShuffleApi` set it or saw it set, and before the return statement reads it, leaves
  the `impl` of the class null for the life of the JVM (states with `disturbed` classes).

## 7. Plan

Done: size classes, pool, contract, refinement and their proofs; the native methods and
their proofs; the four streams with their proofs, and each writer composed with its reader, with
the proof of `RoundTrip` for both formats;
the checksum; the allocator and its proofs; the loader and its proofs; the API on arrays and
buffers and its proofs.

What is left unproved is outside of what the prover can do (end of section 4). The next
extension of the models would be the portions in which a stream below may accept bytes before
it throws (section 5).

## 8. Not modelled

* The native libraries snappy and bitshuffle: not in the repository, external to the
  models.
* The C headers: `lib/inc_*/jni.h` (three copies of the JDK's header), `SnappyNative.h` and
  `BitShuffleNative.h` (generated by javac) and the configuration headers of snappy declare
  and configure, and hold no behaviour. They are more than nine tenths of the lines of C
  and C++ in the repository; of the C++ code written for this project,
  `SnappyNative.cpp` and `BitShuffleNative.cpp`, every function but
  `nativeLibraryVersion`, which returns a constant, is modelled. The rest of the system is Java.
* `java.util.zip.CRC32C`, which `SnappyFramed` prefers to `PureJavaCrc32C` where the JDK has
  it: external. The streams treat a checksum as right or wrong.
* `OSInfo`: string tables and external commands. `QuiescentBufferPool`,
  `DefaultPoolFactory`, `DirectByteBuffers`: no state of their own.
* Exceptions: classes without behaviour.

## 9. Running

`tlc -workers 2 -config Pool.cfg MCBufferPool` and likewise for each run of
`PROJECT.json`; each takes between a few seconds and about two minutes. `tlapm
BufferPoolProofs.tla`, `BlockPipeProofs.tla`,
`NativeProofs.tla`, `AllocatorProofs.tla`, `BlockOutputProofs.tla`,
`FramedOutputProofs.tla`, `FramedPipeProofs.tla`, `ApiProofs.tla` check the proofs.
