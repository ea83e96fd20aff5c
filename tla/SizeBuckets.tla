---------------------------- MODULE SizeBuckets ----------------------------
(***************************************************************************)
(* The size classes of CachingBufferPool: adjustSize maps a requested      *)
(* number of bytes to the capacity of the bucket it is served from, and    *)
(* roundToPowers does the bit arithmetic.  Sizes are Java ints, so sums    *)
(* wrap at 2^31.                                                           *)
(***************************************************************************)
EXTENDS Integers

MAX_VALUE == 2147483647        \* Integer.MAX_VALUE

\* The Java int sum of two non-negative ints: it wraps past MAX_VALUE.
IntSum(a, b) == IF a > MAX_VALUE - b THEN ((a - MAX_VALUE) - 2) + (b - MAX_VALUE)
                                     ELSE a + b

\* Mutant: rounding up a size that is a bucket already.
roundToPowers_Always(number, unit) == IntSum(number - (number % unit), unit)

\* Mutant: rounding down.
roundToPowers_Floor(number, unit) == number - (number % unit)

\* number & mask clears the low bits of a non-negative int; unit is 1 << bits.
roundToPowers(number, unit) ==
    LET floor == number - (number % unit)
    IN  IF floor = number THEN number ELSE IntSum(floor, unit)

\* The switch on numberOfLeadingZeros(size) is a choice between intervals whose
\* ends are powers of two: n leading zeros means 2^(31-n) <= size < 2^(32-n).
Unit(size) == IF size >= 536870912 THEN 134217728        \* nlz  1..2
              ELSE IF size >= 134217728 THEN 16777216    \* nlz  3..4
              ELSE IF size >= 16777216 THEN 4194304      \* nlz  5..7
              ELSE IF size >= 2097152 THEN 524288        \* nlz  8..10
              ELSE IF size >= 524288 THEN 131072         \* nlz 11..12
              ELSE IF size >= 32768 THEN 16384           \* nlz 13..16
              ELSE 2048                                  \* nlz 17..19

adjustSize(size) == IF size < 4096 THEN 4096
                    ELSE IF size > 1610612736 THEN MAX_VALUE
                    ELSE roundToPowers(size, Unit(size))
=============================================================================
