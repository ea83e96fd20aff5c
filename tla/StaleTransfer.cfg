\* A transfer to a channel during which the array buffer is replaced.
CONSTANTS
    Streams <- LongStream
    ReadLens = {1}
    Calls = {"read", "readArray", "toStream", "toChannel"}
    VerifyChecksums = TRUE
    InitialSize = 8
    MaxCompressed <- LittleMore
    MayRunOut = FALSE
    NULL = NULL
SPECIFICATION Spec
PROPERTIES TransfersEntireContent
