\* Where unshuffle puts its result when the positions of its buffers differ.
CONSTANTS
    Word = 256
    Lengths = {0}
    NoArray = NoArray
    Direct = {wide, narrow}
    Heap = {onHeap}
    wide = wide
    narrow = narrow
    onHeap = onHeap
    Capacity <- MCCapacity
    Sizes = {2}
    Positions = {0, 1}
    TypeSizes = {2}
    None = None
    Partials = {0, 2}
    MaxCalls = 2
SPECIFICATION Spec
INVARIANTS UnshuffleAtPosition
