------------------------------ MODULE ArrayApi ------------------------------
(***************************************************************************)
(* The methods of Snappy and BitShuffle that take Java arrays: how many    *)
(* bytes they hand to the native library, the arrays they allocate for     *)
(* the results, and which inputs they refuse, in the arithmetic of a Java  *)
(* int.  The native library is external: a block of b bytes compresses to  *)
(* at most MaxCompressedLength(b) bytes.  Only sizes are modelled: what    *)
(* the bytes are, and what the library writes behind the end of an array   *)
(* that is too small, is not.                                              *)
(***************************************************************************)
EXTENDS Integers

CONSTANTS Word,         \* the number of values of an int, 2^32 in Java
          Lengths,      \* lengths of the arrays
          NoArray

ASSUME WordAssumption == Word \in Nat /\ Word % 16 = 0 /\ Word >= 256

MAX_VALUE == Word \div 2 - 1

ASSUME LengthsAssumption == Lengths \subseteq 0..MAX_VALUE

\* The int with the low bits of x.
Int32(x) == ((x + Word \div 2) % Word) - Word \div 2

\* char and short; int and float; long and double; byte.
ElementSizes == {1, 2, 4, 8}

\* snappy::MaxCompressedLength, computed in a size_t.
MaxCompressedLength(b) == 32 + b + b \div 6

\* Mutant of maxCompressedLength: the growth of incompressible data is forgotten.
maxCompressedLength_NoGrowth(b) == Int32(32 + b)

\* The native method casts to jint.
maxCompressedLength(b) == Int32(MaxCompressedLength(b))

\* Java's division of ints, which truncates towards 0.
Quotient(x, k) == IF x >= 0 THEN x \div k ELSE -((-x) \div k)

VARIABLES
    array,      \* the caller's array: k bytes per element, n elements
    packed,     \* a byte[]: "compressed" or "shuffled", its length, the bytes of data in it
    source,     \* the array that packed was made of, NoArray if it came from elsewhere
    scratch,    \* the last buffer for compression: its size, and what it may have to hold
    raised      \* the exception of the last call

arrayVars == <<array, packed, source, scratch, raised>>

ArrayInit ==
    /\ array = NoArray /\ packed = NoArray /\ source = NoArray
    /\ scratch = [size |-> 0, need |-> 0]
    /\ raised = "none"

Bytes(a) == a.n * a.k

\* The caller begins with other data.
Forget == /\ array' = NoArray /\ packed' = NoArray /\ source' = NoArray
          /\ scratch' = [size |-> 0, need |-> 0] /\ raised' = "none"

\* The caller has an array.
NewArray(k, n) ==
    /\ array = NoArray /\ packed = NoArray
    /\ array' = [k |-> k, n |-> n]
    /\ packed' = NoArray /\ source' = NoArray /\ raised' = "none"
    /\ UNCHANGED scratch

\* The caller receives a byte[] from elsewhere: a compressed block, if it is one, that
\* says that it has b bytes of data, an unsigned int; or b bytes as if shuffled.
Receive(form, b) ==
    /\ array = NoArray /\ packed = NoArray
    /\ form = "shuffled" => b <= MAX_VALUE
    /\ packed' = [form |-> form, length |-> IF form = "shuffled" THEN b ELSE 1, data |-> b]
    /\ array' = NoArray /\ source' = NoArray /\ raised' = "none"
    /\ UNCHANGED scratch

Refuse(e) == raised' = e /\ UNCHANGED <<array, packed, source, scratch>>

\* byteSize < input.length; there is no such test for a byte[].
tooLarge(a) == a.k > 1 /\ Int32(Bytes(a)) < a.n

\* compress(X[]) and rawCompress(Object, int): a buffer for the worst case, the
\* native call, and a copy of the c bytes it made.
compress(c) ==
    /\ array # NoArray
    /\ LET byteSize == Int32(Bytes(array))
           size == maxCompressedLength(byteSize)
       IN  \/ /\ tooLarge(array)
              /\ Refuse("TOO_LARGE_INPUT")
           \/ /\ ~tooLarge(array) /\ size < 0
              /\ Refuse("NegativeArraySizeException")
           \/ /\ ~tooLarge(array) /\ size >= 0
              /\ c \in 1..MaxCompressedLength(byteSize)
              /\ scratch' = [size |-> size, need |-> c]
              /\ packed' = [form |-> "compressed", length |-> c, data |-> byteSize]
              /\ source' = array
              /\ array' = NoArray /\ raised' = "none"

\* uncompress and uncompressXArray: the length from the block, cast to jint and
\* divided by the size of an element, is the length of the result; nobody asks
\* whether the division leaves a remainder.  The native library is given the
\* result, not its length.
uncompress(k) ==
    /\ packed # NoArray /\ packed.form = "compressed"
    /\ LET uncompressedLength == Int32(packed.data)
           n == Quotient(uncompressedLength, k)
       IN  \/ /\ source = NoArray
              /\ \E e \in {"PARSING_ERROR", "FAILED_TO_UNCOMPRESS"} : Refuse(e)
           \/ /\ n < 0
              /\ Refuse("NegativeArraySizeException")
           \/ /\ n >= 0
              /\ array' = [k |-> k, n |-> n]
              /\ raised' = "none"
              /\ UNCHANGED <<packed, source, scratch>>

\* Mutant: elements are taken for bytes.
shuffle_Elements ==
    /\ array # NoArray /\ array.k > 1
    /\ \/ tooLarge(array) /\ Refuse("TOO_LARGE_INPUT")
       \/ /\ ~tooLarge(array)
          /\ packed' = [form |-> "shuffled", length |-> array.n, data |-> array.n]
          /\ source' = array
          /\ array' = NoArray /\ raised' = "none"
          /\ UNCHANGED scratch

\* BitShuffle.shuffle(X[]): the same test, an array of that many bytes.  When the
\* native call returns a negative number, an assertion fails; with assertions off the
\* caller gets the array all the same.
shuffle ==
    /\ array # NoArray /\ array.k > 1
    /\ LET byteSize == Int32(Bytes(array))
       IN  \/ tooLarge(array) /\ Refuse("TOO_LARGE_INPUT")
           \/ ~tooLarge(array) /\ Refuse("AssertionError")
           \/ /\ ~tooLarge(array)
              /\ packed' = [form |-> "shuffled", length |-> byteSize, data |-> byteSize]
              /\ source' = array
              /\ array' = NoArray /\ raised' = "none"
              /\ UNCHANGED scratch

\* BitShuffle.unshuffleXArray.  An assertion fails when the length is no multiple of k,
\* or when the native call returns a negative number.
unshuffle(k) ==
    /\ packed # NoArray /\ packed.form = "shuffled" /\ k > 1
    /\ \/ Refuse("AssertionError")
       \/ /\ array' = [k |-> k, n |-> packed.length \div k]
          /\ raised' = "none"
          /\ UNCHANGED <<packed, source, scratch>>

ArrayNext ==
    \/ Forget
    \/ \E k \in ElementSizes, n \in Lengths : NewArray(k, n)
    \/ \E form \in {"compressed", "shuffled"}, b \in Lengths :
         Receive(form, b) \/ Receive(form, b + Word \div 2)
    \/ \E c \in {1, MaxCompressedLength(0)} : compress(c)
    \/ array # NoArray /\ compress(MaxCompressedLength(Int32(Bytes(array))))
    \/ \E k \in ElementSizes : uncompress(k) \/ unshuffle(k)
    \/ shuffle

ArraySpec == ArrayInit /\ [][ArrayNext]_arrayVars

-----------------------------------------------------------------------------
\* What is packed and unpacked again as the same type gets its size back, by
\* compression or by bit-shuffling.  The exception: an array of Word bytes or more,
\* whose size in bytes wraps around past the test byteSize < input.length.  Anything
\* else, as any type, gets an array of as many whole elements as there are data, less
\* than one element short of them: what is left over unshuffle drops, and uncompress
\* has written behind the array.  The exception: a block whose length is cast to a
\* negative int greater than -k, which becomes an empty array.
SizeRestored ==
    (array # NoArray /\ packed # NoArray) =>
       /\ \/ packed.data = Bytes(array) + (packed.data % array.k)
          \/ packed.data > Word - array.k
       /\ (source # NoArray /\ array.k = source.k) => array = source \/ Bytes(source) >= Word

\* The buffer that rawCompress allocates can hold the worst result of the
\* native library, which does not test its size: a length that does not fit in
\* an int becomes negative, never too small.
ScratchSuffices == scratch.size >= scratch.need
=============================================================================
