---------------------------- MODULE MCArithmetic ----------------------------
(* The integer arithmetic of the program: size classes at and around every *)
(* bound of the switch and of its units, and checksums.  The two share no  *)
(* state, so one moves only while the other is where it started.           *)
EXTENDS SizeRequests, Checksum

Bounds == {1, 2048, 4096, 6144, 8192, 16384, 32768, 49152, 65536, 65541, 131072, 262144,
           524288, 655360, 1048576, 2097152, 2621440, 4194304, 8388608, 16777216, 20971520,
           33554432, 67108864, 134217728, 150994944, 268435456, 536870912, 671088640,
           1073741824, 1207959552, 1476395008, 1610612736, 1610612737, 2013265920,
           2147483646}
AroundBounds == {n \in UNION {{b - 1, b, b + 1, b + 7} : b \in Bounds \ {2147483646}} : n > 0}
                \union {2147483646, 2147483647}

\* In these arrays each position has every value.
RotatedArrays == {[i \in 1..17 |-> {(b + i) % 8 : b \in v}] : v \in SUBSET (0..7)}
Cuts == {<<0, 17>>, <<1, 8>>, <<3, 5>>, <<2, 0>>}

Zeros == [i \in 1..17 |-> {}]

ArithInit == RequestInit /\ CrcInit /\ (request = 1 \/ data = Zeros)
ArithNext == \/ data = Zeros /\ CrcInit /\ RequestNext /\ UNCHANGED crcVars
             \/ request = 1 /\ CrcNext /\ UNCHANGED request
ArithSpec == ArithInit /\ [][ArithNext]_<<request, crcVars>>
=============================================================================
