\* Two threads, two arrays they may share, one direct buffer.
CONSTANTS
    t1 = t1
    t2 = t2
    Threads = {t1, t2}
    Arrays = {a, b}
    Buffers = {d}
    Callable <- MCCallable
SPECIFICATION FairSpec
INVARIANTS RegionsClosed MemoryValid ReturnMeansDone
PROPERTIES CollectorNotBlocked
