\* All kinds of streams, and the output of a writer with blocks of two bytes, cut at
\* every byte of their last item.
CONSTANTS
    Streams <- AllStreams
    ReadLens = {0, 2, 4}
    NULL = NULL
    BlockSize = 2
    MIN_BLOCK_SIZE = 2
    Compressed <- OneSize
    WriteSizes = {1, 3}
    MaxBytes = 4
SPECIFICATION FairPipeSpec
INVARIANTS Faithful EofMeansAll RoundTrip
PROPERTIES CallReturns
