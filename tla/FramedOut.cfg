\* Every fault of the channel; blocks of three bytes, compressed or raw.
CONSTANTS
    BlockSize = 3
    Compressible = {TRUE, FALSE}
    Faults = {"headFails", "bodyFails", "short"}
    WriteSizes = {0, 2, 4}
    MaxBytes = 7
    MaxFaults = 2
SPECIFICATION Spec
INVARIANTS TypeOK FramesWhole Conservation
