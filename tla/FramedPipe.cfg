\* All kinds of streams, and the output of a writer with blocks of two bytes, cut at
\* every byte of the last frame; buffers that grow, with or without memory for it.
CONSTANTS
    Streams <- AllStreams
    ReadLens = {0, 1, 2}
    Calls = {"read", "readArray", "toStream", "toChannel"}
    VerifyChecksums = TRUE
    InitialSize = 7
    MaxCompressed <- LittleMore
    MayRunOut = TRUE
    NULL = NULL
    BlockSize = 2
    Compressible = {TRUE, FALSE}
    Faults = {"headFails"}
    WriteSizes = {1, 3}
    MaxBytes = 4
    MaxFaults = 1
SPECIFICATION FairPipeSpec
INVARIANTS TypeOK Faithful EofMeansAll RoundTrip
PROPERTIES TransfersAll CallReturns
