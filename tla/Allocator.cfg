SPECIFICATION Spec
CONSTANTS
    Streams = {s1, s2}
    Shapes <- TwoShapes
    MaxAllocators = 3
    MaxBuffers = 3
    NULL = NULL
    Cleared = Cleared
SYMMETRY Symmetry
INVARIANTS Exclusive OnePerSize NoMoreThanPeak
