\* Both classes; blocks of three bytes, writes shorter and longer than a block.
CONSTANTS
    BlockSize = 3
    MIN_BLOCK_SIZE = 2
    Kinds = {TRUE, FALSE}
    Compressed <- SmallSizes
    WriteSizes = {0, 2, 5}
    MaxBytes = 10
SPECIFICATION Spec
INVARIANTS TypeOK Conservation RoomForBlock
