---------------------------- MODULE PoolContract ----------------------------
(***************************************************************************)
(* What org.xerial.snappy.pool.BufferPool promises its callers, whatever   *)
(* the implementation: a buffer has at most one owner at any time, a       *)
(* buffer handed out is as large as was asked for, only the owner gives a  *)
(* buffer back, and the pool may at any time forget what it keeps.         *)
(***************************************************************************)
EXTENDS Integers

CONSTANTS Threads, Buffers, Sizes, Capacities

VARIABLES owned,      \* owned[t]: the buffers thread t may read and write
          spare,      \* the buffers the pool may hand out
          capacity,   \* capacity[b]: the byte length of buffer b
          want,       \* want[t]: the number of bytes t asks for, 0 when it does not
          foreign     \* the buffers that callers made for themselves

vars == <<owned, spare, capacity, want, foreign>>

Owned == UNION {owned[t] : t \in Threads}

Init == /\ owned = [t \in Threads |-> {}]
        /\ spare = {}
        /\ capacity = [b \in Buffers |-> 0]
        /\ want = [t \in Threads |-> 0]
        /\ foreign = {}

\* t asks for n bytes, or (n = 0) its request ends in an exception.
Ask(t, n) ==
    /\ want' = [want EXCEPT ![t] = n]
    /\ UNCHANGED <<owned, spare, capacity, foreign>>

\* The pool answers t with a spare buffer ...
Hand(t, b) ==
    /\ b \in spare \ Owned
    /\ capacity[b] >= want[t]
    /\ owned' = [owned EXCEPT ![t] = @ \union {b}]
    /\ spare' = spare \ {b}
    /\ want' = [want EXCEPT ![t] = 0]
    /\ UNCHANGED <<capacity, foreign>>

\* ... or with a new one.
Make(t, b, c) ==
    /\ b \notin Owned \union spare
    /\ c >= want[t]
    /\ owned' = [owned EXCEPT ![t] = @ \union {b}]
    /\ capacity' = [capacity EXCEPT ![b] = c]
    /\ foreign' = foreign \ {b}
    /\ want' = [want EXCEPT ![t] = 0]
    /\ UNCHANGED spare

\* t makes a buffer of its own, of any length.
MakeOwn(t, b, c) ==
    /\ b \notin Owned \union spare
    /\ owned' = [owned EXCEPT ![t] = @ \union {b}]
    /\ capacity' = [capacity EXCEPT ![b] = c]
    /\ foreign' = foreign \union {b}
    /\ UNCHANGED <<spare, want>>

\* The owner gives the buffer back.
Return(t, b) ==
    /\ b \in owned[t]
    /\ owned' = [owned EXCEPT ![t] = @ \ {b}]
    /\ spare' = spare \union {b}
    /\ UNCHANGED <<capacity, want, foreign>>

\* A buffer given up and not kept.
Forget(t, b) ==
    /\ b \in owned[t]
    /\ owned' = [owned EXCEPT ![t] = @ \ {b}]
    /\ UNCHANGED <<spare, capacity, want, foreign>>

Evict(b) ==
    /\ b \in spare
    /\ spare' = spare \ {b}
    /\ UNCHANGED <<owned, capacity, want, foreign>>

Next == \/ \E t \in Threads, n \in Sizes : Ask(t, n)
        \/ \E t \in Threads, b \in Buffers :
             \/ Hand(t, b)
             \/ \E c \in Capacities : Make(t, b, c) \/ MakeOwn(t, b, c)
             \/ Return(t, b)
             \/ Forget(t, b)
        \/ \E b \in Buffers : Evict(b)

Spec == Init /\ [][Next]_vars
=============================================================================
