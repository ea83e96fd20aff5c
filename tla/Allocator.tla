----------------------------- MODULE Allocator -----------------------------
(***************************************************************************)
(* CachedBufferAllocator, the default factory of SnappyOutputStream: a     *)
(* static table with a soft reference to one allocator per buffer size,    *)
(* each with a deque of idle byte arrays.  Streams of several threads are  *)
(* constructed and closed while the garbage collector clears the           *)
(* references to allocators that no stream holds.                          *)
(***************************************************************************)
EXTENDS Naturals, Sequences, FiniteSets, FiniteSetsExt

CONSTANTS Streams,
          Shapes,          \* pairs <<inputSize, outputSize>> of the streams
          MaxAllocators,   \* bound: allocators alive at a time
          MaxBuffers,      \* bound: byte arrays of one length alive at a time
          NULL

Sizes == UNION {{sh[1], sh[2]} : sh \in Shapes}
Roles == {1, 2}            \* the input and the output of a stream

ASSUME AllocatorAssumption ==
    /\ Shapes \subseteq Nat \X Nat /\ \A sh \in Shapes : sh[1] < sh[2]
    /\ MaxAllocators \in Nat /\ MaxBuffers \in Nat
    /\ IsFiniteSet(Streams)

\* The value of a table entry whose soft reference the collector has cleared.
CONSTANT Cleared

ASSUME NullAssumption ==
    /\ NULL \notin Nat /\ Cleared \notin Nat /\ Cleared # NULL
    /\ NULL \notin Shapes
    /\ NULL \notin [number : 1..MaxBuffers, length : Sizes]

VARIABLES
    queueTable,      \* queueTable[n]: NULL (no key), Cleared or an allocator
    bufferSize,      \* bufferSize[a]: NULL when a is not an object
    bufferQueue,     \* bufferQueue[a]: the idle arrays of allocator a
    pc, shape,       \* of a stream: where its constructor or close is, its sizes
    allocator,       \* allocator[s][r]: inputBufferAllocator and outputBufferAllocator
    buffer,          \* buffer[s][r]: inputBuffer and outputBuffer
    peak             \* ghost: most arrays of allocator a that were in use together

vars == <<queueTable, bufferSize, bufferQueue, pc, shape, allocator, buffer, peak>>

Allocators == 1..MaxAllocators
\* An array is a length, which never changes, and a number among those of its length.
Array(i, n) == [number |-> i, length |-> n]

Init ==
    /\ queueTable = [n \in Sizes |-> NULL]
    /\ bufferSize = [a \in Allocators |-> NULL]
    /\ bufferQueue = [a \in Allocators |-> <<>>]
    /\ pc = [s \in Streams |-> "none"]
    /\ shape = [s \in Streams |-> NULL]
    /\ allocator = [s \in Streams |-> [r \in Roles |-> NULL]]
    /\ buffer = [s \in Streams |-> [r \in Roles |-> NULL]]
    /\ peak = [a \in Allocators |-> 0]

Held(a) == \E s \in Streams, r \in Roles : allocator[s][r] = a
Users(a) == {u \in Streams \X Roles : allocator[u[1]][u[2]] = a /\ buffer[u[1]][u[2]] # NULL}
InUse == {buffer[u[1]][u[2]] : u \in Streams \X Roles} \ {NULL}
Idle(a) == {bufferQueue[a][i] : i \in DOMAIN bufferQueue[a]}
Alive == InUse \union UNION {Idle(a) : a \in Allocators}
Goto(s, label) == pc' = [pc EXCEPT ![s] = label]

(***************************************************************************)
(* The constructor of SnappyOutputStream: the two allocators, then the two *)
(* arrays.  Each of the four is a synchronized step.                       *)
(***************************************************************************)

newStream(s, sh) ==
    /\ pc[s] = "none"
    /\ shape' = [shape EXCEPT ![s] = sh]
    /\ Goto(s, "getIn")
    /\ UNCHANGED <<queueTable, bufferSize, bufferQueue, allocator, buffer, peak>>

\* mutant: an entry is put only when the key is new
getAllocator_KeyOnly(s, r) ==
    LET n == shape[s][r] IN
    /\ IF queueTable[n] \in Allocators
         THEN /\ allocator' = [allocator EXCEPT ![s][r] = queueTable[n]]
              /\ UNCHANGED <<queueTable, bufferSize>>
         ELSE \E a \in Allocators :
              /\ bufferSize[a] = NULL /\ \A x \in Allocators : x < a => bufferSize[x] # NULL
              /\ allocator' = [allocator EXCEPT ![s][r] = a]
              /\ queueTable' = [queueTable EXCEPT ![n] = IF @ = NULL THEN a ELSE @]
              /\ bufferSize' = [bufferSize EXCEPT ![a] = n]
    /\ UNCHANGED <<bufferQueue, shape, buffer, peak>>

\* The allocator of the table, or a new one when the key is not there or its
\* reference is cleared.
getAllocator(s, r) ==
    LET n == shape[s][r] IN
    /\ IF queueTable[n] \in Allocators
         THEN /\ allocator' = [allocator EXCEPT ![s][r] = queueTable[n]]
              /\ UNCHANGED <<queueTable, bufferSize>>
         ELSE \E a \in Allocators :
              /\ bufferSize[a] = NULL /\ \A x \in Allocators : x < a => bufferSize[x] # NULL
              /\ allocator' = [allocator EXCEPT ![s][r] = a]
              /\ queueTable' = [queueTable EXCEPT ![n] = a]
              /\ bufferSize' = [bufferSize EXCEPT ![a] = n]
    /\ UNCHANGED <<bufferQueue, shape, buffer, peak>>

newArray(s, r) ==
    LET n == shape[s][r] IN
    \E i \in 1..MaxBuffers :
        /\ Array(i, n) \notin Alive /\ \A x \in 1..(i - 1) : Array(x, n) \in Alive
        /\ buffer' = [buffer EXCEPT ![s][r] = Array(i, n)]

\* peak of the allocator, with the array that role r of stream s now gets
countUse(a) == peak' = [peak EXCEPT ![a] = Max({@, Cardinality(Users(a)) + 1})]

\* mutant: the first array is looked at, not taken
allocate_Peek(s, r) ==
    LET a == allocator[s][r] IN
    /\ IF bufferQueue[a] = <<>>
         THEN newArray(s, r)
         ELSE buffer' = [buffer EXCEPT ![s][r] = Head(bufferQueue[a])]
    /\ countUse(a)
    /\ UNCHANGED <<queueTable, bufferSize, bufferQueue, shape, allocator>>

\* mutant: idle arrays are not used again
allocate_Fresh(s, r) ==
    /\ newArray(s, r)
    /\ countUse(allocator[s][r])
    /\ UNCHANGED <<queueTable, bufferSize, bufferQueue, shape, allocator>>

allocate(s, r) ==
    LET a == allocator[s][r] IN
    /\ IF bufferQueue[a] = <<>>
         THEN newArray(s, r) /\ UNCHANGED bufferQueue
         ELSE /\ buffer' = [buffer EXCEPT ![s][r] = Head(bufferQueue[a])]
              /\ bufferQueue' = [bufferQueue EXCEPT ![a] = Tail(@)]
    /\ countUse(a)
    /\ UNCHANGED <<queueTable, bufferSize, shape, allocator>>

\* new byte[size] throws OutOfMemoryError: the constructor fails, nobody has the
\* stream, and an array it already took is garbage.
outOfMemory(s, r) ==
    /\ bufferQueue[allocator[s][r]] = <<>>
    /\ allocator' = [allocator EXCEPT ![s] = [x \in Roles |-> NULL]]
    /\ buffer' = [buffer EXCEPT ![s] = [x \in Roles |-> NULL]]
    /\ shape' = [shape EXCEPT ![s] = NULL]
    /\ Goto(s, "none")
    /\ UNCHANGED <<queueTable, bufferSize, bufferQueue, peak>>

construct(s) ==
    \/ pc[s] = "getIn" /\ getAllocator(s, 1) /\ Goto(s, "getOut")
    \/ pc[s] = "getOut" /\ getAllocator(s, 2) /\ Goto(s, "allocIn")
    \/ pc[s] = "allocIn" /\ allocate(s, 1) /\ Goto(s, "allocOut")
    \/ pc[s] = "allocOut" /\ allocate(s, 2) /\ Goto(s, "open")
    \/ pc[s] = "allocIn" /\ outOfMemory(s, 1)
    \/ pc[s] = "allocOut" /\ outOfMemory(s, 2)

(***************************************************************************)
(* close(): once the flush is over, the arrays go back, the input first.   *)
(* A stream that is dropped without close takes its arrays with it.        *)
(***************************************************************************)

release(s, r) ==
    /\ bufferQueue' = [bufferQueue EXCEPT ![allocator[s][r]] = Append(@, buffer[s][r])]
    /\ buffer' = [buffer EXCEPT ![s][r] = NULL]
    /\ UNCHANGED <<queueTable, bufferSize, shape, allocator, peak>>

close(s) ==
    \/ pc[s] = "open" /\ release(s, 1) /\ Goto(s, "relOut")
    \/ pc[s] = "relOut" /\ release(s, 2) /\ Goto(s, "closed")

\* The program drops its reference to the stream, closed or not.
drop(s) ==
    /\ pc[s] \in {"open", "closed"}
    /\ allocator' = [allocator EXCEPT ![s] = [x \in Roles |-> NULL]]
    /\ buffer' = [buffer EXCEPT ![s] = [x \in Roles |-> NULL]]
    /\ shape' = [shape EXCEPT ![s] = NULL]
    /\ Goto(s, "none")
    /\ UNCHANGED <<queueTable, bufferSize, bufferQueue, peak>>

\* The collector clears the soft reference to an allocator that no stream holds:
\* the allocator and its idle arrays are gone, the key of the table stays.
collect(n) ==
    LET a == queueTable[n] IN
    /\ a \in Allocators /\ ~Held(a)
    /\ queueTable' = [queueTable EXCEPT ![n] = Cleared]
    /\ bufferSize' = [bufferSize EXCEPT ![a] = NULL]
    /\ bufferQueue' = [bufferQueue EXCEPT ![a] = <<>>]
    /\ peak' = [peak EXCEPT ![a] = 0]
    /\ UNCHANGED <<pc, shape, allocator, buffer>>

Next ==
    \/ \E s \in Streams : \/ \E sh \in Shapes : newStream(s, sh)
                          \/ construct(s) \/ close(s) \/ drop(s)
    \/ \E n \in Sizes : collect(n)

Spec == Init /\ [][Next]_vars

(***************************************************************************)
(* Properties                                                              *)
(***************************************************************************)

\* allocate and release: an array is the buffer of one role of one stream, or idle
\* in one place of one deque, never both, whatever the order of the streams' steps;
\* and it has the length that role asked for.  allocate ignores its argument when the
\* deque has an array, so that depends on nothing of another length ever being
\* released there, although an allocator serves the outputs of some streams and the
\* inputs of others.
Exclusive ==
    /\ \A u, v \in Streams \X Roles :
         u # v /\ buffer[u[1]][u[2]] # NULL => buffer[u[1]][u[2]] # buffer[v[1]][v[2]]
    /\ \A a \in Allocators :
         /\ Idle(a) \intersect InUse = {}
         /\ \A i, j \in DOMAIN bufferQueue[a] : i # j => bufferQueue[a][i] # bufferQueue[a][j]
         /\ \A b \in Allocators \ {a} : Idle(a) \intersect Idle(b) = {}
    /\ \A s \in Streams, r \in Roles :
         buffer[s][r] # NULL => buffer[s][r].length = shape[s][r]

\* getAllocator: at any time there is one allocator for a size, so that the arrays a
\* stream releases are found by the next one; a cleared reference is replaced.
OnePerSize ==
    \A s, t \in Streams, q, r \in Roles :
        /\ allocator[s][q] # NULL /\ allocator[t][r] # NULL /\ shape[s][q] = shape[t][r]
        => allocator[s][q] = allocator[t][r] /\ queueTable[shape[s][q]] = allocator[s][q]

\* The deques have no bound of their own; the arrays of an allocator, idle or in use,
\* are never more than were once in use together.
NoMoreThanPeak ==
    \A a \in Allocators : Len(bufferQueue[a]) + Cardinality(Users(a)) <= peak[a]
=============================================================================
