---------------------------- MODULE SizeRequests ----------------------------
(***************************************************************************)
(* A caller asks CachingBufferPool for one size after the other; what      *)
(* adjustSize answers, for every positive Java int.                        *)
(***************************************************************************)
EXTENDS SizeBuckets

CONSTANT Requests
ASSUME RequestsAssumption == Requests \subseteq 1..MAX_VALUE

VARIABLE request       \* the parameter size of the current call

RequestInit == request \in Requests
RequestNext == request' \in Requests
RequestSpec == RequestInit /\ [][RequestNext]_request

\* The buffer is large enough and its size is an int (the rounding never
\* overflows), and from 4 KB on at most half of the request is added.
SizeServed ==
    /\ adjustSize(request) \in request..MAX_VALUE
    /\ request >= 4096 => adjustSize(request) - request <= request \div 2

\* A bucket size is its own bucket: the length under which returnValue files a
\* buffer is the key under which a later request for that length looks.
BucketStable == adjustSize(adjustSize(request)) = adjustSize(request)
=============================================================================
