\* Requests around every bound of the switch; arrays of 17 bytes, given in pieces.
CONSTANTS
    Requests <- AroundBounds
    Arrays <- RotatedArrays
    Pieces <- Cuts
    MaxFed = 9
SPECIFICATION ArithSpec
INVARIANTS SizeServed BucketStable ChecksumRight
