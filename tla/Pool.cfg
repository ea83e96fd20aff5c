\* Two threads, two buffers, references to spare; callers also release buffers they
\* made themselves: one has the length of the size class in use, one has not.
\* Threads are fair, the collector and the callers are not.
CONSTANTS
    Threads = {t1, t2}
    Buffers = {b1, b2}
    Refs = {r1, r2, r3, r4}
    Sizes = {0, 1}
    ForeignSizes = {4096, 5000}
    NULL = NULL
SPECIFICATION FairSpec
INVARIANTS Exclusive QueueBounded IndInv
PROPERTIES NoLiveEntryLost HandedOutUsable LockFree ImplementsContract
