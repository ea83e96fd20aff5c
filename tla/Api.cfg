\* Every length of a small int; two direct buffers with room for two pieces of data.
CONSTANTS
    Word = 512
    Lengths <- AllLengths
    NoArray = NoArray
    Direct = {wide, narrow}
    Heap = {onHeap}
    wide = wide
    narrow = narrow
    onHeap = onHeap
    Capacity <- MCCapacity
    Sizes = {2}
    Positions = {0, 1}
    TypeSizes = {2}
    None = None
    Partials = {0, 2}
    MaxCalls = 4
SPECIFICATION Spec
INVARIANTS SizeRestored ScratchSuffices WindowIsResult
PROPERTIES OnlyOutput
