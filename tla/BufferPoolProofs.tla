-------------------------- MODULE BufferPoolProofs --------------------------
(***************************************************************************)
(* CachingBufferPool, for any number of threads, buffers, references and   *)
(* size classes: no buffer is ever in two hands, no live reference is      *)
(* lost, what is handed out is large enough and ready for use, and the     *)
(* pool implements PoolContract.  First adjustSize, for every positive     *)
(* Java int: it is served by a bucket that is large enough, and buckets    *)
(* are stable.                                                             *)
(***************************************************************************)
EXTENDS BufferPool, SizeRequests, SequenceTheorems, FiniteSetTheorems, TLAPS

-----------------------------------------------------------------------------
(* The size classes.                                                       *)

\* The numbers of bytes that adjustSize rounds to.
Units == {2048, 16384, 131072, 524288, 4194304, 16777216, 134217728}

\* What a caller gets for a request of n bytes.
AnswerFor(n) == /\ adjustSize(n) \in n..MAX_VALUE
                /\ n >= 4096 => adjustSize(n) - n <= n \div 2
                /\ adjustSize(adjustSize(n)) = adjustSize(n)

\* What the proofs use of Integer.MAX_VALUE: the multiple of 128 MB above 1.5 GB
\* is an int, and a request beyond 1.5 GB is more than two thirds of the largest int.
LEMMA MaxValue == /\ MAX_VALUE \in Nat
                  /\ 1744830464 <= MAX_VALUE
                  /\ MAX_VALUE <= 2147483647
  BY SMT DEF MAX_VALUE

\* Rounding to a multiple of unit never goes down, adds less than unit, and does
\* not overflow when the multiple above is an int (CachingBufferPool.roundToPowers).
LEMMA RoundUp ==
    ASSUME NEW unit \in Units, NEW n \in 0..(MAX_VALUE - unit)
    PROVE  /\ roundToPowers(n, unit) \in n..(n + unit - 1)
           /\ roundToPowers(n, unit) % unit = 0
  <1> DEFINE floor == n - (n % unit)
  <1>1. /\ n % unit \in 0..(unit - 1)
        /\ floor \in Nat
        /\ floor % unit = 0
        /\ (floor + unit) % unit = 0
    BY SMT, MaxValue DEF Units
  <1>2. CASE floor = n
    BY SMT, MaxValue, <1>1, <1>2 DEF roundToPowers, Units
  <1>3. CASE floor # n
    <2>1. roundToPowers(n, unit) = floor + unit
      BY SMT, MaxValue, <1>1, <1>3 DEF roundToPowers, IntSum, Units
    <2> QED BY SMT, MaxValue, <1>1, <1>3, <2>1 DEF Units
  <1> QED BY SMT, <1>2, <1>3

\* A multiple of the unit is not rounded (CachingBufferPool.roundToPowers).
LEMMA RoundMultiple ==
    ASSUME NEW n, NEW unit, n - (n % unit) = n
    PROVE  roundToPowers(n, unit) = n
  BY SMT DEF roundToPowers

\* A size class: the requests from lo to hi - 1 are rounded to unit, and hi, where
\* the last of them may end up, is a bucket of the next class.  Rounding stays in
\* lo..hi, so it cannot overflow, wastes at most half of the request and gives a
\* size that is its own bucket (the cases of CachingBufferPool.adjustSize).
LEMMA OneClass ==
    ASSUME NEW unit \in Units, NEW lo \in Nat, NEW hi \in Nat, NEW n \in Nat,
           4096 <= lo, lo <= n, n < hi, hi <= 1610612736,
           2 * unit <= lo, hi % unit = 0,
           \A m \in Nat : lo <= m /\ m < hi => Unit(m) = unit,
           hi % Unit(hi) = 0
    PROVE  AnswerFor(n)
  <1> DEFINE a == roundToPowers(n, unit)
  <1>1. adjustSize(n) = a
    BY SMT DEF adjustSize
  <1>2. unit <= 134217728
    BY SMT DEF Units
  <1>3. n \in 0..(MAX_VALUE - unit)
    BY SMT, MaxValue, <1>2 DEF Units
  <1>4. a \in n..(n + unit - 1) /\ a % unit = 0
    BY ONLY SMT, <1>3, unit \in Units, RoundUp
  <1>5. a <= hi
    BY ONLY SMT, <1>4, n < hi, hi % unit = 0, unit \in Units, hi \in Nat, n \in Nat DEF Units
  <1>6. adjustSize(a) = a
    <2>1. CASE a < hi
      <3>1. Unit(a) = unit
        BY SMT, <1>4, <2>1
      <3>2. a - (a % unit) = a
        BY SMT, <1>4, <1>3
      <3> QED BY SMT, <1>4, <2>1, <3>1, <3>2, RoundMultiple DEF adjustSize
    <2>2. CASE a = hi
      BY SMT, <1>4, <2>2, RoundMultiple DEF adjustSize
    <2> QED BY SMT, <1>4, <1>5, <2>1, <2>2
  <1>7. a - n <= n \div 2
    <2>1. unit \in Nat
      BY SMT DEF Units
    <2>2. unit <= n \div 2
      BY ONLY SMT, <2>1, 2 * unit <= lo, lo <= n, lo \in Nat, n \in Nat
    <2> HIDE DEF a
    <2> QED BY ONLY SMT, <1>4, <2>1, <2>2, n \in Nat
  <1> HIDE DEF a
  <1> QED BY SMT, MaxValue, <1>1, <1>4, <1>5, <1>6, <1>7 DEF AnswerFor

\* Every positive int is in one of the classes, and each class ends where a
\* bucket of the next begins (CachingBufferPool.adjustSize).
LEMMA Adjusted ==
    ASSUME NEW n \in 1..MAX_VALUE
    PROVE  AnswerFor(n)
  <1>0. n \in Nat /\ n <= MAX_VALUE
    BY SMT, MaxValue
  <1>1. CASE n < 4096
    <2>1. adjustSize(n) = 4096
      BY SMT, <1>0, <1>1 DEF adjustSize
    <2>2. adjustSize(4096) = 4096
      BY SMT DEF adjustSize, roundToPowers, Unit
    <2> QED BY SMT, MaxValue, <1>0, <1>1, <2>1, <2>2 DEF AnswerFor
  <1>2. CASE 4096 <= n /\ n < 32768
    <2>1. 2048 \in Units /\ 32768 % 2048 = 0 /\ 32768 % Unit(32768) = 0
      BY SMT DEF Units, Unit
    <2>2. \A m \in Nat : 4096 <= m /\ m < 32768 => Unit(m) = 2048
      BY SMT DEF Unit
    <2> QED BY SMT, <1>0, <1>2, <2>1, <2>2, OneClass
  <1>3. CASE 32768 <= n /\ n < 524288
    <2>1. 16384 \in Units /\ 524288 % 16384 = 0 /\ 524288 % Unit(524288) = 0
      BY SMT DEF Units, Unit
    <2>2. \A m \in Nat : 32768 <= m /\ m < 524288 => Unit(m) = 16384
      BY SMT DEF Unit
    <2> QED BY SMT, <1>0, <1>3, <2>1, <2>2, OneClass
  <1>4. CASE 524288 <= n /\ n < 2097152
    <2>1. 131072 \in Units /\ 2097152 % 131072 = 0 /\ 2097152 % Unit(2097152) = 0
      BY SMT DEF Units, Unit
    <2>2. \A m \in Nat : 524288 <= m /\ m < 2097152 => Unit(m) = 131072
      BY SMT DEF Unit
    <2> QED BY SMT, <1>0, <1>4, <2>1, <2>2, OneClass
  <1>5. CASE 2097152 <= n /\ n < 16777216
    <2>1. 524288 \in Units /\ 16777216 % 524288 = 0 /\ 16777216 % Unit(16777216) = 0
      BY SMT DEF Units, Unit
    <2>2. \A m \in Nat : 2097152 <= m /\ m < 16777216 => Unit(m) = 524288
      BY SMT DEF Unit
    <2> QED BY SMT, <1>0, <1>5, <2>1, <2>2, OneClass
  <1>6. CASE 16777216 <= n /\ n < 134217728
    <2>1. 4194304 \in Units /\ 134217728 % 4194304 = 0 /\ 134217728 % Unit(134217728) = 0
      BY SMT DEF Units, Unit
    <2>2. \A m \in Nat : 16777216 <= m /\ m < 134217728 => Unit(m) = 4194304
      BY SMT DEF Unit
    <2> QED BY SMT, <1>0, <1>6, <2>1, <2>2, OneClass
  <1>7. CASE 134217728 <= n /\ n < 536870912
    <2>1. 16777216 \in Units /\ 536870912 % 16777216 = 0 /\ 536870912 % Unit(536870912) = 0
      BY SMT DEF Units, Unit
    <2>2. \A m \in Nat : 134217728 <= m /\ m < 536870912 => Unit(m) = 16777216
      BY SMT DEF Unit
    <2> QED BY SMT, <1>0, <1>7, <2>1, <2>2, OneClass
  <1>8. CASE 536870912 <= n /\ n < 1610612736
    <2>1. 134217728 \in Units /\ 1610612736 % 134217728 = 0 /\ 1610612736 % Unit(1610612736) = 0
      BY SMT DEF Units, Unit
    <2>2. \A m \in Nat : 536870912 <= m /\ m < 1610612736 => Unit(m) = 134217728
      BY SMT DEF Unit
    <2> QED BY SMT, <1>0, <1>8, <2>1, <2>2, OneClass
  <1>9. CASE 1610612736 <= n
    <2>1. adjustSize(n) = IF n = 1610612736 THEN n ELSE MAX_VALUE
      BY SMT, <1>0, <1>9 DEF adjustSize, roundToPowers, Unit
    <2>2. adjustSize(MAX_VALUE) = MAX_VALUE
      BY SMT, MaxValue DEF adjustSize
    <2> QED BY SMT, MaxValue, <1>0, <1>9, <2>1, <2>2 DEF AnswerFor
  <1> QED BY SMT, <1>0, <1>1, <1>2, <1>3, <1>4, <1>5, <1>6, <1>7, <1>8, <1>9
-----------------------------------------------------------------------------
(* What the callers of the pool get.                                       *)

\* The pool answers every positive request with an int that is large enough and
\* not wasteful: the rounding of adjustSize never overflows.
THEOREM ServedAlways == RequestSpec => []SizeServed
  <1>1. request \in Requests => SizeServed
    <2>1. request \in Requests => request \in 1..MAX_VALUE
      BY RequestsAssumption
    <2> QED BY SMT, <2>1, Adjusted DEF SizeServed, AnswerFor
  <1>2. RequestInit => request \in Requests
    BY DEF RequestInit
  <1>3. request \in Requests /\ [RequestNext]_request => (request \in Requests)'
    BY DEF RequestNext
  <1> QED BY <1>1, <1>2, <1>3, PTL DEF RequestSpec

\* A buffer filed by returnValue under its length is found by the next request
\* of that length, because a bucket size is adjusted to itself.
THEOREM StableAlways == RequestSpec => []BucketStable
  <1>1. request \in Requests => BucketStable
    <2>1. request \in Requests => request \in 1..MAX_VALUE
      BY RequestsAssumption
    <2> QED BY SMT, <2>1, Adjusted DEF BucketStable, AnswerFor
  <1>2. RequestInit => request \in Requests
    BY DEF RequestInit
  <1>3. request \in Requests /\ [RequestNext]_request => (request \in Requests)'
    BY DEF RequestNext
  <1> QED BY <1>1, <1>2, <1>3, PTL DEF RequestSpec

-----------------------------------------------------------------------------
(* The deques as sequences without repetition.                             *)

\* Range and IsInjective of a deque, by positions.
LEMMA Positions ==
    ASSUME NEW q \in Seq(Refs)
    PROVE  /\ \A r : r \in Range(q) <=> \E i \in 1..Len(q) : q[i] = r
           /\ IsInjective(q) <=> \A i, j \in 1..Len(q) : q[i] = q[j] => i = j
  BY DEF Range, IsInjective

\* pollFirst takes the first reference and leaves the others in place.
LEMMA PollLemma ==
    ASSUME NEW q \in Seq(Refs), q # << >>, IsInjective(q)
    PROVE  /\ Tail(q) \in Seq(Refs) /\ IsInjective(Tail(q))
           /\ Head(q) \in Range(q)
           /\ Range(Tail(q)) = Range(q) \ {Head(q)}
  <1> DEFINE p == Tail(q)
  <1>1. /\ Len(q) \in Nat \ {0}
        /\ p \in Seq(Refs) /\ Len(p) = Len(q) - 1
        /\ Head(q) = q[1]
        /\ \A i \in 1..Len(p) : p[i] = q[i + 1]
    OBVIOUS
  <1>2. \A i, j \in 1..Len(q) : q[i] = q[j] => i = j
    BY Positions
  <1> HIDE DEF p
  <1>3. IsInjective(p)
    <2>1. \A i, j \in 1..Len(p) : p[i] = p[j] => i = j
      BY <1>1, <1>2
    <2> QED BY ONLY <1>1, <2>1, Positions
  <1>4. Head(q) \in Range(q)
    BY <1>1, Positions
  <1>5. ASSUME NEW r \in Range(p) PROVE r \in Range(q) \ {Head(q)}
    <2>1. PICK i \in 1..Len(p) : r = p[i]
      BY <1>1, Positions
    <2>2. i + 1 \in 1..Len(q) /\ r = q[i + 1] /\ q[i + 1] # q[1]
      BY <1>1, <1>2, <2>1
    <2> QED BY <1>1, <2>2, Positions
  <1>6. ASSUME NEW r \in Range(q) \ {Head(q)} PROVE r \in Range(p)
    <2>1. PICK i \in 1..Len(q) : r = q[i]
      BY Positions
    <2>2. i - 1 \in 1..Len(p) /\ p[i - 1] = r
      BY <1>1, <2>1
    <2> QED BY <1>1, <2>2, Positions
  <1> QED BY <1>1, <1>3, <1>4, <1>5, <1>6 DEF p

\* addFirst puts one more reference in front.
LEMMA AddLemma ==
    ASSUME NEW q \in Seq(Refs), IsInjective(q), NEW r \in Refs, r \notin Range(q)
    PROVE  /\ <<r>> \o q \in Seq(Refs) /\ IsInjective(<<r>> \o q)
           /\ Range(<<r>> \o q) = Range(q) \union {r}
  <1> DEFINE p == <<r>> \o q
  <1>1. /\ Len(q) \in Nat
        /\ p \in Seq(Refs) /\ Len(p) = Len(q) + 1
        /\ p[1] = r
        /\ \A i \in 2..(Len(q) + 1) : p[i] = q[i - 1]
    OBVIOUS
  <1>2. \A i \in 1..Len(q) : q[i] = p[i + 1] /\ i + 1 \in 1..Len(p)
    BY <1>1
  <1> HIDE DEF p
  <1>3. IsInjective(p)
    <2> SUFFICES ASSUME NEW i \in 1..Len(p), NEW j \in 1..Len(p), p[i] = p[j]
                 PROVE  i = j
      BY <1>1, Positions
    <2>1. \A k \in 2..(Len(q) + 1) : p[k] \in Range(q)
      BY <1>1, Positions
    <2>2. CASE i = 1 \/ j = 1
      BY <1>1, <2>1, <2>2
    <2>3. CASE i # 1 /\ j # 1
      <3>1. /\ i - 1 \in 1..Len(q) /\ j - 1 \in 1..Len(q)
            /\ q[i - 1] = q[j - 1]
        BY <1>1, <2>3
      <3> QED BY <3>1, Positions
    <2> QED BY <2>2, <2>3
  <1>4. ASSUME NEW s \in Range(p) PROVE s \in Range(q) \union {r}
    BY <1>1, Positions
  <1>5. ASSUME NEW s \in Range(q) \union {r} PROVE s \in Range(p)
    <2>1. r \in Range(p)
      BY <1>1, 1 \in 1..Len(p), Positions
    <2>2. \A i \in 1..Len(q) : q[i] \in Range(p)
      BY <1>1, <1>2, Positions
    <2> QED BY <2>1, <2>2, Positions
  <1> QED BY <1>1, <1>3, <1>4, <1>5 DEF p

\* removeLastOccurrence takes out just the reference it is given.
LEMMA RemoveLemma ==
    ASSUME NEW q \in Seq(Refs), IsInjective(q), NEW e
    PROVE  /\ RemoveLastOccurrence(q, e) \in Seq(Refs)
           /\ IsInjective(RemoveLastOccurrence(q, e))
           /\ Range(RemoveLastOccurrence(q, e)) = Range(q) \ {e}
           /\ Len(RemoveLastOccurrence(q, e)) <= Len(q)
  <1>1. CASE ~ \E i \in 1..Len(q) : q[i] = e
    BY <1>1, Positions DEF RemoveLastOccurrence
  <1>2. CASE \E i \in 1..Len(q) : q[i] = e
    <2> DEFINE Last(i) == q[i] = e /\ \A j \in 1..Len(q) : q[j] = e => j <= i
               n == CHOOSE i \in 1..Len(q) : Last(i)
               p == SubSeq(q, 1, n - 1) \o SubSeq(q, n + 1, Len(q))
    <2>1. n \in 1..Len(q) /\ q[n] = e
      <3>1. PICK i \in 1..Len(q) : q[i] = e
        BY <1>2
      <3>2. Last(i)
        BY <3>1, Positions
      <3> QED BY <3>2
    <2>2. RemoveLastOccurrence(q, e) = p
      BY <1>2 DEF RemoveLastOccurrence
    <2> HIDE DEF n
    <2>3. /\ p \in Seq(Refs) /\ Len(p) = Len(q) - 1
          /\ \A i \in 1..(n - 1) : p[i] = q[i]
          /\ \A i \in n..(Len(q) - 1) : p[i] = q[i + 1]
      <3>1. /\ SubSeq(q, 1, n - 1) \in Seq(Refs) /\ Len(SubSeq(q, 1, n - 1)) = n - 1
            /\ \A i \in 1..(n - 1) : SubSeq(q, 1, n - 1)[i] = q[i]
        BY <2>1
      <3>2. /\ SubSeq(q, n + 1, Len(q)) \in Seq(Refs)
            /\ Len(SubSeq(q, n + 1, Len(q))) = Len(q) - n
            /\ \A i \in 1..(Len(q) - n) : SubSeq(q, n + 1, Len(q))[i] = q[n + i]
        BY <2>1
      <3> DEFINE a == SubSeq(q, 1, n - 1)
                 b == SubSeq(q, n + 1, Len(q))
      <3> HIDE DEF a, b, p
      <3>3. /\ p = a \o b /\ a \in Seq(Refs) /\ b \in Seq(Refs)
            /\ Len(a) = n - 1 /\ Len(b) = Len(q) - n
        BY <3>1, <3>2 DEF a, b, p
      <3>4. p \in Seq(Refs) /\ Len(p) = Len(q) - 1
        <4>1. p \in Seq(Refs) /\ Len(p) = Len(a) + Len(b)
          BY ONLY <3>3, ConcatProperties
        <4>2. Len(q) \in Nat
          OBVIOUS
        <4> QED BY <2>1, <3>3, <4>1, <4>2
      <3>5. \A i \in 1..(n - 1) : p[i] = q[i]
        BY <2>1, <3>1, <3>3 DEF a
      <3>6. \A i \in n..(Len(q) - 1) : p[i] = q[i + 1]
        <4> SUFFICES ASSUME NEW i \in n..(Len(q) - 1) PROVE p[i] = q[i + 1]
          OBVIOUS
        <4>1. p[i] = b[i - (n - 1)]
          BY <2>1, <3>3
        <4>2. i - (n - 1) \in 1..(Len(q) - n)
          BY <2>1
        <4>3. b[i - (n - 1)] = q[n + (i - (n - 1))]
          BY <3>2, <4>2 DEF b
        <4> QED BY <2>1, <4>1, <4>3
      <3> QED BY <3>4, <3>5, <3>6
    <2> HIDE DEF p
    <2>4. IsInjective(p)
      <3>1. \A i, j \in 1..Len(q) : q[i] = q[j] => i = j
        BY Positions
      <3>2. \A i, j \in 1..Len(p) : p[i] = p[j] => i = j
        BY <2>1, <2>3, <3>1
      <3> QED BY ONLY <2>3, <3>2, Positions
    <2>5. ASSUME NEW r \in Range(p) PROVE r \in Range(q) \ {e}
      BY <2>1, <2>3, Positions
    <2>6. ASSUME NEW r \in Range(q) \ {e} PROVE r \in Range(p)
      <3>1. PICK i \in 1..Len(q) : r = q[i]
        BY Positions
      <3>2. CASE i < n
        BY <2>1, <2>3, <3>1, <3>2, Positions
      <3>3. CASE i > n
        <4>1. i - 1 \in n..(Len(q) - 1) /\ p[i - 1] = r
          BY <2>1, <2>3, <3>1, <3>3
        <4> QED BY <2>1, <2>3, <4>1, Positions
      <3> QED BY <2>1, <3>1, <3>2, <3>3
    <2> QED BY <2>2, <2>3, <2>4, <2>5, <2>6
  <1> QED BY <1>1, <1>2

-----------------------------------------------------------------------------
\* A request of a positive size works with the key of its size class
\* (CachingBufferPool.getOrCreate).
LEMMA KeyLemma ==
    ASSUME NEW s \in Sizes, s > 0
    PROVE  adjustSize(s) \in Buckets /\ adjustSize(s) >= s
  <1>1. s \in 1..MAX_VALUE
    BY SMT, SizesAssumption, MaxValue
  <1>2. adjustSize(s) >= s
    BY SMT, <1>1, MaxValue, Adjusted DEF AnswerFor
  <1> QED BY SMT, <1>2 DEF Buckets

\* The invariant holds before the first call.
LEMMA InitLemma == Init => IndInv
  <1> SUFFICES ASSUME Init PROVE IndInv
    OBVIOUS
  <1>1. TypeOK
    BY DEF Init, TypeOK, PC
  <1>2. /\ Queued = {} /\ Obtainable = {} /\ Strong = {}
    BY NullAssumption DEF Init, Queued, Polled, Obtainable, Strong, Range
  <1>3. Located /\ OneReturner /\ RemovesCleared
    BY DEF Init, Located, OneReturner, RemovesCleared
  <1>4. OnePlace /\ Filed
    BY DEF Init, OnePlace, Filed, Range, IsInjective
  <1>5. OneReference /\ Exclusive
    BY <1>2 DEF Init, OneReference, Exclusive
  <1> QED BY <1>1, <1>3, <1>4, <1>5 DEF IndInv

\* Most steps only let go of something: a reference is cleared or leaves a
\* deque, a local variable or a buffer is given up, nothing new is reached.
\* They keep every part of the invariant but the typing of the locals.
LetsGo ==
    /\ installed \subseteq installed'
    /\ capacity' = capacity
    /\ \A k \in Buckets : /\ IsInjective(queue'[k])
                          /\ Range(queue'[k]) \subseteq Range(queue[k])
                          /\ queue[k] = << >> => queue'[k] = << >>
    /\ \A r \in Refs : referent'[r] \in {referent[r], NULL}
    /\ \A b \in moved' \ moved : \E u \in Threads : b \in held[u]
    /\ \A u \in Threads :
         /\ held'[u] \subseteq held[u]
         /\ value'[u] \in {value[u], NULL}
         /\ pc'[u] = "remove" => referent'[entry'[u]] = NULL
         /\ pc'[u] = "deref" =>
              pc[u] = "deref" /\ entry'[u] = entry[u] /\ key'[u] = key[u]

\* Such a step keeps the invariant.
LEMMA LettingGo ==
    ASSUME IndInv, TypeOK', Located', LetsGo
    PROVE  IndInv'
  <1> USE DEF IndInv, LetsGo
  <1>1. Obtainable' \subseteq Obtainable
    BY DEF Obtainable, Queued, Polled
  <1>2. Strong' \subseteq Strong
    BY NullAssumption DEF Strong
  <1>3. OnePlace'
    BY DEF OnePlace
  <1>4. Obtainable \subseteq Refs /\ NULL \notin Strong
    BY NullAssumption DEF Obtainable, Queued, Polled, Strong
  <1>5. OneReference'
    BY <1>1, <1>4 DEF OneReference
  <1>6. OneReturner'
    BY DEF OneReturner
  <1>7. Exclusive'
    <2>1. \A u, v \in Threads : u # v => held'[u] \intersect held'[v] = {}
      BY DEF Exclusive
    <2>2. \A r \in Obtainable' : referent'[r] \notin Strong'
      BY <1>1, <1>2, <1>4 DEF Exclusive
    <2> QED BY <2>1, <2>2 DEF Exclusive
  <1>8. \A b \in moved' \ moved : b \in Strong /\ \A u \in Threads : value[u] # b
    <2> SUFFICES ASSUME NEW b \in moved' \ moved
                 PROVE  b \in Strong /\ \A u \in Threads : value[u] # b
      OBVIOUS
    <2>1. PICK u \in Threads : b \in held[u]
      OBVIOUS
    <2>2. b \in Buffers
      BY <2>1 DEF TypeOK
    <2> QED BY <2>1, <2>2, NullAssumption DEF Strong, OneReturner
  <1>9. Filed'
    <2>1. ASSUME NEW k \in Buckets, NEW r \in Range(queue'[k]), referent'[r] # NULL
          PROVE  capacity'[referent'[r]] = k /\ referent'[r] \notin moved'
      <3>1. r \in Range(queue[k]) /\ r \in Refs
        BY Positions DEF TypeOK
      <3>2. r \in Obtainable /\ referent'[r] = referent[r]
        BY <2>1, <3>1 DEF Obtainable, Queued
      <3> QED BY <2>1, <3>1, <3>2, <1>8 DEF Filed, Exclusive
    <2>2. ASSUME NEW u \in Threads, pc'[u] = "deref", referent'[entry'[u]] # NULL
          PROVE  capacity'[referent'[entry'[u]]] = key'[u] /\ referent'[entry'[u]] \notin moved'
      <3>1. pc[u] = "deref" /\ entry'[u] = entry[u] /\ key'[u] = key[u] /\ entry[u] \in Refs
        BY <2>2 DEF Located, TypeOK
      <3>2. entry[u] \in Obtainable /\ referent'[entry[u]] = referent[entry[u]]
        BY <2>2, <3>1 DEF Obtainable, Polled
      <3> QED BY <2>2, <3>1, <3>2, <1>8 DEF Filed, Exclusive
    <2>3. ASSUME NEW u \in Threads, value'[u] # NULL PROVE value'[u] \notin moved'
      BY <2>3, <1>8 DEF Filed
    <2> QED BY <2>1, <2>2, <2>3 DEF Filed
  <1>10. RemovesCleared'
    BY DEF RemovesCleared
  <1> QED BY <1>3, <1>5, <1>6, <1>7, <1>9, <1>10

\* allocateArray and allocateDirect start with their size check.
LEMMA allocateLemma ==
    ASSUME IndInv, NEW t \in Threads, NEW s \in Sizes, allocate(t, s)
    PROVE  IndInv'
  <1> USE DEF IndInv, allocate, Goto, poolVars, bufferVars
  <1>1. TypeOK'
    BY KeyLemma DEF TypeOK, PC, Capacities
  <1>2. Located'
    BY KeyLemma DEF TypeOK, Located
  <1>3. LetsGo
    BY DEF LetsGo, TypeOK, OnePlace, RemovesCleared
  <1> QED BY ONLY IndInv, <1>1, <1>2, <1>3, LettingGo

\* The exception for a size that is not positive.
LEMMA RejectLemma ==
    ASSUME IndInv, NEW t \in Threads, Reject(t)
    PROVE  IndInv'
  <1> USE DEF IndInv, Reject, Goto, Return, poolVars, bufferVars
  <1>1. TypeOK'
    BY DEF TypeOK, PC, Capacities
  <1>2. Located'
    BY DEF TypeOK, Located
  <1>3. LetsGo
    BY DEF LetsGo, TypeOK, OnePlace, RemovesCleared
  <1> QED BY ONLY IndInv, <1>1, <1>2, <1>3, LettingGo

\* map.get.
LEMMA optimisticGetEntryLemma ==
    ASSUME IndInv, NEW t \in Threads, optimisticGetEntry(t)
    PROVE  IndInv'
  <1> USE DEF IndInv, optimisticGetEntry, Goto, poolVars, bufferVars
  <1>1. TypeOK'
    BY DEF TypeOK, PC, Capacities
  <1>2. Located'
    BY DEF TypeOK, Located
  <1>3. LetsGo
    BY DEF LetsGo, TypeOK, OnePlace, RemovesCleared
  <1> QED BY ONLY IndInv, <1>1, <1>2, <1>3, LettingGo

\* An allocation without memory.
LEMMA CreateFailsLemma ==
    ASSUME IndInv, NEW t \in Threads, CreateFails(t)
    PROVE  IndInv'
  <1> USE DEF IndInv, CreateFails, Goto, Return, poolVars, bufferVars
  <1>1. TypeOK'
    BY DEF TypeOK, PC, Capacities
  <1>2. Located'
    BY DEF TypeOK, Located
  <1>3. LetsGo
    BY DEF LetsGo, TypeOK, OnePlace, RemovesCleared
  <1> QED BY ONLY IndInv, <1>1, <1>2, <1>3, LettingGo

\* returnValue finds a deque, or drops the buffer.
LEMMA returnValueLemma ==
    ASSUME IndInv, NEW t \in Threads, returnValue(t)
    PROVE  IndInv'
  <1> USE DEF IndInv, returnValue, Goto, Return, poolVars, bufferVars
  <1>1. TypeOK'
    BY NullAssumption DEF TypeOK, PC, Capacities
  <1>2. Located'
    BY NullAssumption DEF TypeOK, Located
  <1>3. LetsGo
    BY DEF LetsGo, TypeOK, OnePlace, RemovesCleared
  <1> QED BY ONLY IndInv, <1>1, <1>2, <1>3, LettingGo

\* The purge looks at the tail.
LEMMA PeekLastLemma ==
    ASSUME IndInv, NEW t \in Threads, PeekLast(t)
    PROVE  IndInv'
  <1> USE DEF IndInv, PeekLast, Goto, Return, poolVars, bufferVars
  <1>0. queue[key[t]] # << >> => queue[key[t]][Len(queue[key[t]])] \in Refs
    <2>1. queue[key[t]] \in Seq(Refs)
      BY DEF TypeOK, Located
    <2> QED BY <2>1
  <1>1. TypeOK'
    BY <1>0 DEF TypeOK, PC, Capacities
  <1>2. Located'
    <2>1. CASE queue[key[t]] = << >>
      BY <2>1 DEF TypeOK, Located
    <2>2. CASE queue[key[t]] # << >>
      <3>1. entry'[t] # NULL /\ pc'[t] = "check"
        BY <1>0, <2>2, NullAssumption DEF TypeOK
      <3> QED BY <2>2, <3>1 DEF TypeOK, Located
    <2> QED BY <2>1, <2>2
  <1>3. LetsGo
    BY DEF LetsGo, TypeOK, OnePlace, RemovesCleared
  <1> QED BY ONLY IndInv, <1>1, <1>2, <1>3, LettingGo

\* A buffer that a caller loses.
LEMMA ForgetLemma ==
    ASSUME IndInv, NEW t \in Threads, NEW b \in Buffers, Forget(t, b)
    PROVE  IndInv'
  <1> USE DEF IndInv, Forget, threadVars, poolVars
  <1>1. TypeOK'
    BY DEF TypeOK, PC, Capacities
  <1>2. Located'
    BY DEF TypeOK, Located
  <1>3. LetsGo
    BY DEF LetsGo, TypeOK, OnePlace, RemovesCleared
  <1> QED BY ONLY IndInv, <1>1, <1>2, <1>3, LettingGo

\* A buffer in use.
LEMMA UseLemma ==
    ASSUME IndInv, NEW t \in Threads, NEW b \in Buffers, Use(t, b)
    PROVE  IndInv'
  <1> USE DEF IndInv, Use, threadVars, poolVars
  <1>1. TypeOK'
    BY DEF TypeOK, PC, Capacities
  <1>2. Located'
    BY DEF TypeOK, Located
  <1>3. LetsGo
    BY DEF LetsGo, TypeOK, OnePlace, RemovesCleared
  <1> QED BY ONLY IndInv, <1>1, <1>2, <1>3, LettingGo

\* A local reference that goes out of scope: its referent stays or becomes
\* unreachable with it.
LEMMA DropLemma ==
    ASSUME TypeOK, NEW t \in Threads, entry[t] \in Refs, DropEntry(t)
    PROVE  /\ referent' \in [Refs -> Buffers \union {NULL}]
           /\ \A r \in Refs : referent'[r] \in {referent[r], NULL}
           /\ entry' = [entry EXCEPT ![t] = NULL]
  BY DEF TypeOK, DropEntry

\* The purge finds a cleared reference at the tail, or stops.
LEMMA CheckLastLemma ==
    ASSUME IndInv, NEW t \in Threads, CheckLast(t)
    PROVE  IndInv'
  <1> USE DEF IndInv, CheckLast, Goto, Return, bufferVars
  <1>0. entry[t] \in Refs
    BY DEF TypeOK, Located
  <1>1. CASE referent[entry[t]] = NULL
    <2>1. TypeOK'
      BY <1>1 DEF TypeOK, PC
    <2>2. Located'
      BY <1>1 DEF TypeOK, Located
    <2>3. LetsGo
      BY <1>1 DEF LetsGo, TypeOK, OnePlace, RemovesCleared
    <2> QED BY ONLY IndInv, <2>1, <2>2, <2>3, LettingGo
  <1>2. CASE referent[entry[t]] # NULL
    <2>0. DropEntry(t)
      BY <1>2
    <2>1. TypeOK'
      BY <1>0, <1>2, <2>0, DropLemma DEF TypeOK, PC
    <2>2. Located'
      BY <1>0, <1>2, <2>0, DropLemma DEF TypeOK, Located
    <2>3. LetsGo
      <3>1. \A u \in Threads : pc'[u] \in {"remove", "deref"} =>
              u # t /\ pc'[u] = pc[u] /\ entry'[u] = entry[u] /\ entry[u] \in Refs
              /\ key'[u] = key[u]
        BY <1>0, <1>2, <2>0, DropLemma DEF TypeOK, Located
      <3> QED BY <1>0, <1>2, <2>0, <3>1, DropLemma DEF LetsGo, OnePlace, RemovesCleared
    <2> QED BY ONLY IndInv, <2>1, <2>2, <2>3, LettingGo
  <1> QED BY <1>1, <1>2

\* The purge removes the reference it has seen cleared.
LEMMA RemoveLastLemma ==
    ASSUME IndInv, NEW t \in Threads, RemoveLast(t)
    PROVE  IndInv'
  <1> USE DEF IndInv, RemoveLast, Goto, bufferVars
  <1> DEFINE k == key[t]
             q == RemoveLastOccurrence(queue[k], entry[t])
  <1>1. /\ k \in Buckets
        /\ queue[k] \in Seq(Refs) /\ IsInjective(queue[k])
    BY DEF TypeOK, Located, OnePlace
  <1>2. q \in Seq(Refs) /\ IsInjective(q) /\ Range(q) \subseteq Range(queue[k])
    BY <1>1, RemoveLemma
  <1>3. queue[k] = << >> => q = << >>
    BY <1>1 DEF RemoveLastOccurrence
  <1>4. queue' = [queue EXCEPT ![k] = q]
    OBVIOUS
  <1> HIDE DEF q
  <1>5. TypeOK'
    BY <1>1, <1>2, <1>4 DEF TypeOK, PC
  <1>6. Located'
    BY DEF TypeOK, Located
  <1>7. LetsGo
    <2>1. \A l \in Buckets :
            /\ IsInjective(queue'[l]) /\ Range(queue'[l]) \subseteq Range(queue[l])
            /\ queue[l] = << >> => queue'[l] = << >>
      <3> SUFFICES ASSUME NEW l \in Buckets
                   PROVE  /\ IsInjective(queue'[l])
                          /\ Range(queue'[l]) \subseteq Range(queue[l])
                          /\ queue[l] = << >> => queue'[l] = << >>
        OBVIOUS
      <3>1. CASE l = k
        BY <1>1, <1>2, <1>3, <1>4, <3>1 DEF TypeOK
      <3>2. CASE l # k
        BY <1>1, <1>4, <3>2 DEF TypeOK, OnePlace
      <3> QED BY <3>1, <3>2
    <2>2. \A u \in Threads : pc'[u] \in {"remove", "deref"} =>
            u # t /\ pc'[u] = pc[u] /\ entry'[u] = entry[u]
      BY DEF TypeOK
    <2> QED BY <2>1, <2>2 DEF LetsGo, RemovesCleared
  <1> QED BY ONLY IndInv, <1>5, <1>6, <1>7, LettingGo

\* The first installation of a deque replaces none.
LEMMA PutIfAbsentLemma ==
    ASSUME IndInv, NEW t \in Threads, PutIfAbsent(t)
    PROVE  IndInv' /\ queue' = queue
  <1> USE DEF IndInv, PutIfAbsent, Goto, bufferVars
  <1>1. key[t] \in Buckets
    BY KeyLemma DEF Located
  <1>2. queue' = queue
    BY <1>1 DEF TypeOK, OnePlace
  <1>3. TypeOK'
    BY <1>1, <1>2 DEF TypeOK, PC
  <1>4. Located'
    BY <1>1 DEF TypeOK, Located
  <1>5. LetsGo
    BY <1>2 DEF LetsGo, TypeOK, OnePlace, RemovesCleared
  <1>6. IndInv'
    BY ONLY IndInv, <1>3, <1>4, <1>5, LettingGo
  <1> QED BY <1>2, <1>6

\* The collector clears the references of a buffer that nobody uses.
LEMMA CollectLemma ==
    ASSUME IndInv, NEW b \in Buffers, Collect(b)
    PROVE  IndInv'
  <1> USE DEF IndInv, Collect, threadVars, bufferVars
  <1>1. TypeOK'
    BY DEF TypeOK
  <1>2. Located'
    BY DEF TypeOK, Located
  <1>3. LetsGo
    BY DEF LetsGo, TypeOK, OnePlace, RemovesCleared, Located
  <1> QED BY ONLY IndInv, <1>1, <1>2, <1>3, LettingGo

\* A reference that is polled leaves its deque and is the thread's alone.
LEMMA PollFirstLemma ==
    ASSUME IndInv, NEW t \in Threads, PollFirst(t)
    PROVE  IndInv'
  <1> USE DEF IndInv
  <1>1. CASE queue[key[t]] = << >>
    <2> USE <1>1 DEF PollFirst, Goto, bufferVars
    <2>1. TypeOK'
      BY DEF TypeOK, PC
    <2>2. Located'
      BY DEF TypeOK, Located
    <2>3. LetsGo
      BY DEF LetsGo, TypeOK, OnePlace, RemovesCleared
    <2> QED BY ONLY IndInv, <2>1, <2>2, <2>3, LettingGo
  <1>2. CASE queue[key[t]] # << >>
    <2> DEFINE k == key[t]
               r == Head(queue[k])
    <2>0. k \in Buckets /\ pc[t] = "poll"
      BY DEF PollFirst, Located, TypeOK
    <2>1. /\ Tail(queue[k]) \in Seq(Refs) /\ IsInjective(Tail(queue[k]))
          /\ r \in Range(queue[k]) /\ r \in Refs
          /\ Range(Tail(queue[k])) = Range(queue[k]) \ {r}
      <3>1. queue[k] \in Seq(Refs) /\ IsInjective(queue[k])
        BY <2>0 DEF TypeOK, OnePlace
      <3>2. r \in Refs
        BY <3>1, <1>2
      <3> QED BY <1>2, <3>1, <3>2, PollLemma
    <2>2. /\ queue' = [queue EXCEPT ![k] = Tail(queue[k])]
          /\ entry' = [entry EXCEPT ![t] = r]
          /\ pc' = [pc EXCEPT ![t] = "deref"]
          /\ UNCHANGED <<installed, referent, size, key, value, capacity, moved, foreign, held>>
      BY <1>2 DEF PollFirst, Goto, bufferVars
    <2> HIDE DEF r
    <2>3. TypeOK'
      BY <2>0, <2>1, <2>2 DEF TypeOK, PC
    <2>4. Located'
      BY <2>0, <2>1, <2>2, NullAssumption DEF TypeOK, Located
    <2>5. /\ Range(queue'[k]) = Range(queue[k]) \ {r}
          /\ \A l \in Buckets \ {k} : queue'[l] = queue[l]
      BY <2>0, <2>1, <2>2 DEF TypeOK
    <2>6. \A l \in Buckets : r \notin Range(queue'[l])
      BY <2>0, <2>1, <2>5 DEF OnePlace
    <2>7. OnePlace'
      BY <2>0, <2>1, <2>2, <2>5, <2>6 DEF TypeOK, OnePlace
    <2>8. Obtainable' = Obtainable /\ Strong' = Strong
      BY <2>0, <2>1, <2>2, <2>5 DEF TypeOK, Obtainable, Queued, Polled, Strong
    <2>9. OneReference' /\ OneReturner' /\ Exclusive'
      BY <2>2, <2>8 DEF OneReference, OneReturner, Exclusive
    <2>10. Filed' /\ RemovesCleared'
      BY <2>0, <2>1, <2>2, <2>5 DEF TypeOK, Filed, RemovesCleared
    <2> QED BY <2>3, <2>4, <2>7, <2>9, <2>10
  <1> QED BY <1>1, <1>2

\* The thread that polled a reference gets its buffer, and nobody else can.
LEMMA DerefLemma ==
    ASSUME IndInv, NEW t \in Threads, Deref(t)
    PROVE  IndInv'
  <1> USE DEF IndInv
  <1> DEFINE e == entry[t]
             val == referent[e]
  <1>0. e \in Refs /\ pc[t] = "deref" /\ e \in Obtainable
    BY DEF Deref, TypeOK, Located, Obtainable, Polled
  <1>1. /\ referent' \in [Refs -> Buffers \union {NULL}]
        /\ \A r \in Refs : referent'[r] \in {referent[r], NULL}
        /\ entry' = [entry EXCEPT ![t] = NULL]
    BY <1>0, DropLemma DEF Deref
  <1>2. CASE val = NULL
    <2> USE DEF Deref, Goto
    <2>1. TypeOK'
      BY <1>1, <1>2 DEF TypeOK, PC
    <2>2. Located'
      BY <1>0, <1>1, <1>2 DEF TypeOK, Located
    <2>3. \A u \in Threads : pc'[u] \in {"remove", "deref"} =>
            u # t /\ pc'[u] = pc[u] /\ entry'[u] = entry[u] /\ entry[u] \in Refs
      BY <1>0, <1>1, <1>2 DEF TypeOK, Located
    <2>4. LetsGo
      BY <1>1, <1>2, <2>3 DEF LetsGo, OnePlace, RemovesCleared
    <2> QED BY ONLY IndInv, <2>1, <2>2, <2>4, LettingGo
  <1>3. CASE val # NULL
    <2>0. val \in Buffers /\ val \notin Strong
      BY <1>0, <1>3 DEF TypeOK, Exclusive
    <2>1. /\ held' = [held EXCEPT ![t] = held[t] \union {val}]
          /\ pc' = [pc EXCEPT ![t] = "idle"]
          /\ size' = [size EXCEPT ![t] = 0]
          /\ key' = [key EXCEPT ![t] = 0]
          /\ UNCHANGED <<capacity, moved, foreign, value, installed, queue>>
      BY <1>3 DEF Deref, Return, Goto
    <2> HIDE DEF val
    <2>2. TypeOK'
      BY <1>1, <2>0, <2>1 DEF TypeOK, PC
    <2>3. Located'
      BY <1>0, <1>1, <2>1 DEF TypeOK, Located
    <2>4. OnePlace'
      BY <1>1, <2>1 DEF TypeOK, OnePlace
    <2>5. Obtainable' \subseteq Obtainable \ {e} /\ Obtainable \subseteq Refs
      BY <1>0, <1>1, <2>1 DEF TypeOK, OnePlace, Obtainable, Queued, Polled
    <2>6. Strong' = Strong \union {val} /\ NULL \notin Strong
      BY <2>0, <2>1, NullAssumption DEF TypeOK, Strong
    <2>7. \A r \in Obtainable' : referent'[r] # val
      BY <1>0, <1>1, <1>3, <2>0, <2>5, NullAssumption DEF OneReference, val
    <2>8. OneReference'
      BY <1>1, <2>5 DEF OneReference
    <2>9. OneReturner'
      BY <2>0, <2>1, NullAssumption DEF TypeOK, OneReturner, Strong
    <2>10. Exclusive'
      <3>1. \A u, v \in Threads : u # v => held'[u] \intersect held'[v] = {}
        BY <2>0, <2>1 DEF TypeOK, Exclusive, Strong
      <3>2. \A r \in Obtainable' : referent'[r] \notin Strong'
        BY <1>1, <2>0, <2>5, <2>6, <2>7, NullAssumption DEF Exclusive
      <3> QED BY <3>1, <3>2 DEF Exclusive
    <2>11. Filed'
      <3>1. ASSUME NEW k \in Buckets, NEW r \in Range(queue[k]) PROVE r \in Refs
        <4>1. queue[k] \in Seq(Refs)
          BY DEF TypeOK
        <4>2. PICK i \in 1..Len(queue[k]) : queue[k][i] = r
          BY <4>1, Positions
        <4> QED BY <4>1, <4>2
      <3>2. \A u \in Threads : pc'[u] = "deref" =>
              pc[u] = "deref" /\ entry'[u] = entry[u] /\ key'[u] = key[u] /\ entry[u] \in Refs
        BY <1>1, <2>1 DEF TypeOK, Located
      <3> QED BY <1>1, <2>1, <3>1, <3>2 DEF Filed
    <2>12. RemovesCleared'
      <3>1. \A u \in Threads : pc'[u] = "remove" =>
              pc[u] = "remove" /\ entry'[u] = entry[u] /\ entry[u] \in Refs
        BY <1>1, <2>1 DEF TypeOK, Located
      <3> QED BY <1>1, <3>1 DEF RemovesCleared
    <2> QED BY <2>2, <2>3, <2>4, <2>8, <2>9, <2>10, <2>11, <2>12
  <1> QED BY <1>2, <1>3

\* A new buffer is in nobody's hands: the case of getOrCreate that makes one, and
\* of a caller that makes its own.
LEMMA FreshLemma ==
    ASSUME IndInv, TypeOK', Located', NEW t \in Threads, NEW b \in FreshBuffers,
           held' = [held EXCEPT ![t] = held[t] \union {b}],
           \A c \in Buffers \ {b} : capacity'[c] = capacity[c],
           moved' = moved \ {b},
           UNCHANGED <<installed, queue, referent, entry, value>>,
           \A u \in Threads : pc'[u] \in {"deref", "remove"} => pc'[u] = pc[u] /\ key'[u] = key[u],
           pc[t] # "deref"
    PROVE  IndInv'
  <1> USE DEF IndInv
  <1>1. /\ b \in Buffers /\ b \notin Strong
        /\ \A r \in Obtainable : referent[r] # b
    BY DEF FreshBuffers, UsedRefs, Obtainable, Polled
  <1>2. Obtainable' \subseteq Obtainable
    BY DEF Obtainable, Queued, Polled
  <1>3. Strong' = Strong \union {b}
    BY <1>1, NullAssumption DEF TypeOK, Strong
  <1>4. OnePlace' /\ OneReference' /\ RemovesCleared'
    BY <1>2 DEF OnePlace, OneReference, RemovesCleared
  <1>5. OneReturner'
    BY <1>1, NullAssumption DEF TypeOK, OneReturner, Strong
  <1>6. Exclusive'
    <2>1. \A u, v \in Threads : u # v => held'[u] \intersect held'[v] = {}
      BY <1>1 DEF TypeOK, Exclusive, Strong
    <2>2. \A r \in Obtainable' : referent'[r] \notin Strong'
      BY <1>1, <1>2, <1>3 DEF Exclusive
    <2> QED BY <2>1, <2>2 DEF Exclusive
  <1>7. Filed'
    <2>1. ASSUME NEW k \in Buckets, NEW r \in Range(queue'[k]), referent'[r] # NULL
          PROVE  capacity'[referent'[r]] = k /\ referent'[r] \notin moved'
      <3>1. r \in Range(queue[k]) /\ r \in Refs
        BY Positions DEF TypeOK
      <3>2. referent[r] \in Buffers \ {b}
        BY <1>1, <2>1, <3>1 DEF Obtainable, Queued, TypeOK
      <3> QED BY <2>1, <3>1, <3>2 DEF Filed
    <2>2. ASSUME NEW u \in Threads, pc'[u] = "deref", referent'[entry'[u]] # NULL
          PROVE  capacity'[referent'[entry'[u]]] = key'[u] /\ referent'[entry'[u]] \notin moved'
      <3>1. pc[u] = "deref" /\ entry[u] \in Refs /\ key'[u] = key[u]
        BY <2>2 DEF TypeOK, Located
      <3>2. referent[entry[u]] \in Buffers \ {b}
        BY <1>1, <2>2, <3>1 DEF Obtainable, Polled, TypeOK
      <3> QED BY <2>2, <3>1, <3>2 DEF Filed
    <2>3. ASSUME NEW u \in Threads, value'[u] # NULL PROVE value'[u] \notin moved'
      BY <2>3 DEF Filed
    <2> QED BY <2>1, <2>2, <2>3 DEF Filed
  <1> QED BY <1>4, <1>5, <1>6, <1>7

\* getOrCreate makes a buffer.
LEMMA CreateLemma ==
    ASSUME IndInv, NEW t \in Threads, Create(t)
    PROVE  IndInv'
  <1> USE DEF IndInv, Create, Return, Goto, poolVars
  <1>1. PICK b \in FreshBuffers :
          /\ held' = [held EXCEPT ![t] = held[t] \union {b}]
          /\ capacity' = [capacity EXCEPT ![b] = key[t]]
          /\ moved' = moved \ {b} /\ foreign' = foreign \ {b}
    OBVIOUS
  <1>2. b \in Buffers /\ b \notin Strong /\ pc[t] = "create"
    BY DEF FreshBuffers
  <1>3. TypeOK'
    BY <1>1, <1>2 DEF TypeOK, PC, Capacities, Located
  <1>4. Located'
    BY <1>1, <1>2, NullAssumption DEF TypeOK, Located, Strong
  <1>5. \A c \in Buffers \ {b} : capacity'[c] = capacity[c]
    BY <1>1, <1>2 DEF TypeOK
  <1>6. \A u \in Threads : pc'[u] \in {"deref", "remove"} => pc'[u] = pc[u] /\ key'[u] = key[u]
    BY DEF TypeOK
  <1> QED BY <1>1, <1>2, <1>3, <1>4, <1>5, <1>6, FreshLemma

\* A caller makes a buffer.
LEMMA MakeOwnLemma ==
    ASSUME IndInv, NEW t \in Threads, NEW n \in ForeignSizes, MakeOwn(t, n)
    PROVE  IndInv'
  <1> USE DEF IndInv, MakeOwn, threadVars, poolVars
  <1>1. PICK b \in FreshBuffers :
          /\ held' = [held EXCEPT ![t] = held[t] \union {b}]
          /\ capacity' = [capacity EXCEPT ![b] = n]
          /\ foreign' = foreign \union {b} /\ moved' = moved \ {b}
    OBVIOUS
  <1>2. b \in Buffers /\ b \notin Strong /\ pc[t] = "idle"
    BY DEF FreshBuffers
  <1>3. TypeOK'
    BY <1>1, <1>2 DEF TypeOK, Capacities
  <1>4. Located'
    BY <1>1, <1>2, NullAssumption DEF TypeOK, Located, Strong
  <1>5. \A c \in Buffers \ {b} : capacity'[c] = capacity[c]
    BY <1>1, <1>2 DEF TypeOK
  <1> QED BY <1>1, <1>2, <1>3, <1>4, <1>5, FreshLemma

\* A buffer that is released changes from the caller's hands into the call's.
LEMMA releaseLemma ==
    ASSUME IndInv, NEW t \in Threads, NEW b \in Buffers, release(t, b)
    PROVE  IndInv'
  <1> USE DEF IndInv, release, Goto, poolVars
  <1>0. /\ pc[t] = "idle" /\ b \in held[t] /\ b # NULL /\ b \in Strong
        /\ \A u \in Threads : value[u] # b
    BY NullAssumption DEF Strong, OneReturner
  <1>1. TypeOK'
    BY DEF TypeOK, PC
  <1>2. Located'
    BY <1>0 DEF TypeOK, Located
  <1>3. OnePlace'
    BY <1>0 DEF TypeOK, OnePlace
  <1>4. Obtainable' = Obtainable /\ Strong' = Strong
    <2>1. Obtainable' = Obtainable
      BY <1>0 DEF TypeOK, Obtainable, Queued, Polled
    <2>2. Strong' = Strong
      <3>1. value[t] = NULL /\ \A u \in Threads \ {t} : held'[u] = held[u] /\ value'[u] = value[u]
        BY <1>0 DEF TypeOK, Located
      <3>2. held'[t] = held[t] \ {b} /\ value'[t] = b
        BY DEF TypeOK
      <3>3. ASSUME NEW c \in Strong PROVE c \in Strong'
        BY <1>0, <3>1, <3>2, NullAssumption DEF Strong
      <3>4. ASSUME NEW c \in Strong' PROVE c \in Strong
        BY <1>0, <3>1, <3>2 DEF Strong
      <3> QED BY <3>3, <3>4
    <2> QED BY <2>1, <2>2
  <1>5. OneReference'
    BY <1>4 DEF OneReference
  <1>6. OneReturner'
    <2> SUFFICES ASSUME NEW u \in Threads, NEW v \in Threads, value'[u] # NULL
                 PROVE  value'[u] \notin held'[v] /\ (u # v => value'[u] # value'[v])
      BY DEF OneReturner
    <2>1. CASE u = t
      BY <1>0, <2>1 DEF TypeOK, Exclusive
    <2>2. CASE u # t
      BY <1>0, <2>2 DEF TypeOK, OneReturner
    <2> QED BY <2>1, <2>2
  <1>7. Exclusive'
    <2>1. \A u, v \in Threads : u # v => held'[u] \intersect held'[v] = {}
      BY DEF TypeOK, Exclusive
    <2>2. \A r \in Obtainable' : referent'[r] \notin Strong'
      BY <1>4 DEF Exclusive
    <2> QED BY <2>1, <2>2 DEF Exclusive
  <1>8. Filed'
    BY <1>0 DEF TypeOK, Filed, Located
  <1>9. RemovesCleared'
    BY DEF TypeOK, RemovesCleared
  <1> QED BY <1>1, <1>2, <1>3, <1>5, <1>6, <1>7, <1>8, <1>9

\* The buffer on its way back becomes obtainable by one new reference, at the
\* moment the thread gives it up.
LEMMA AddFirstLemma ==
    ASSUME IndInv, NEW t \in Threads, AddFirst(t)
    PROVE  IndInv'
  <1> USE DEF IndInv
  <1> DEFINE k == key[t]
             b == value[t]
  <1>0. /\ k \in Buckets /\ k \in installed /\ pc[t] = "addFirst"
        /\ b \in Buffers /\ b # NULL /\ b \in Strong
        /\ capacity[b] = k /\ b \notin moved
    BY DEF AddFirst, TypeOK, Located, Filed, Strong
  <1>1. PICK r \in Refs \ UsedRefs :
          /\ referent' = [referent EXCEPT ![r] = b]
          /\ queue' = [queue EXCEPT ![k] = <<r>> \o queue[k]]
    BY DEF AddFirst
  <1>2. /\ value' = [value EXCEPT ![t] = NULL]
        /\ pc' = [pc EXCEPT ![t] = "peekLast"]
        /\ UNCHANGED <<installed, size, key, entry, capacity, moved, foreign, held>>
    BY DEF AddFirst, Goto, bufferVars
  <1>3. /\ \A l \in Buckets : r \notin Range(queue[l])
        /\ \A u \in Threads : entry[u] # r
        /\ r \notin Obtainable
    BY DEF UsedRefs, Queued, Obtainable, Polled
  <1>4. /\ <<r>> \o queue[k] \in Seq(Refs) /\ IsInjective(<<r>> \o queue[k])
        /\ Range(<<r>> \o queue[k]) = Range(queue[k]) \union {r}
    <2>1. queue[k] \in Seq(Refs) /\ IsInjective(queue[k])
      BY <1>0 DEF TypeOK, OnePlace
    <2> QED BY <1>0, <1>3, <2>1, AddLemma
  <1> HIDE DEF b
  <1>5. /\ Range(queue'[k]) = Range(queue[k]) \union {r}
        /\ IsInjective(queue'[k])
        /\ \A l \in Buckets \ {k} : queue'[l] = queue[l]
    BY <1>0, <1>1, <1>4 DEF TypeOK
  <1>6. TypeOK'
    BY <1>0, <1>1, <1>2, <1>4 DEF TypeOK, PC
  <1>7. Located'
    BY <1>0, <1>2 DEF TypeOK, Located
  <1>8. OnePlace'
    <2>1. \A l \in Buckets : IsInjective(queue'[l]) /\ (l \notin installed' => queue'[l] = << >>)
      BY <1>0, <1>2, <1>5 DEF OnePlace
    <2>2. \A l, m \in Buckets : l # m => Range(queue'[l]) \intersect Range(queue'[m]) = {}
      BY <1>3, <1>5 DEF OnePlace
    <2>3. \A u \in Threads : pc'[u] = "deref" =>
            /\ \A l \in Buckets : entry'[u] \notin Range(queue'[l])
            /\ \A v \in Threads \ {u} : pc'[v] = "deref" => entry'[v] # entry'[u]
      BY <1>2, <1>3, <1>5 DEF TypeOK, OnePlace
    <2> QED BY <2>1, <2>2, <2>3 DEF OnePlace
  <1>9. Obtainable' = Obtainable \union {r} /\ Obtainable \subseteq Refs
    BY <1>0, <1>2, <1>5 DEF TypeOK, Obtainable, Queued, Polled
  <1>10. /\ referent'[r] = b
         /\ \A s \in Obtainable : referent'[s] = referent[s] /\ referent[s] # b
    BY <1>0, <1>1, <1>3, <1>9 DEF TypeOK, Exclusive
  <1>11. Strong' \subseteq Strong \ {b}
    BY <1>0, <1>2, NullAssumption DEF TypeOK, Strong, OneReturner, b
  <1>12. OneReference'
    BY <1>9, <1>10 DEF OneReference
  <1>13. OneReturner'
    BY <1>2 DEF TypeOK, OneReturner
  <1>14. Exclusive'
    <2>1. \A s \in Obtainable' : referent'[s] \notin Strong'
      BY <1>9, <1>10, <1>11 DEF Exclusive
    <2> QED BY <1>2, <2>1 DEF Exclusive
  <1>15. Filed'
    <2>1. ASSUME NEW l \in Buckets, NEW s \in Range(queue'[l]), referent'[s] # NULL
          PROVE  capacity'[referent'[s]] = l /\ referent'[s] \notin moved'
      <3>1. CASE s = r
        BY <1>0, <1>2, <1>3, <1>5, <1>10, <3>1
      <3>2. CASE s # r
        <4>1. s \in Range(queue[l])
          BY <1>5, <3>2
        <4>2. s \in Refs
          BY <4>1, Positions DEF TypeOK
        <4>3. s \in Obtainable
          BY <4>1, <4>2 DEF Obtainable, Queued
        <4> QED BY <1>2, <1>10, <2>1, <4>1, <4>3 DEF Filed
      <3> QED BY <3>1, <3>2
    <2>2. ASSUME NEW u \in Threads, pc'[u] = "deref", referent'[entry'[u]] # NULL
          PROVE  capacity'[referent'[entry'[u]]] = key'[u] /\ referent'[entry'[u]] \notin moved'
      <3>1. pc[u] = "deref" /\ entry[u] \in Refs
        BY <1>2, <2>2 DEF TypeOK, Located
      <3>2. entry[u] \in Obtainable
        BY <3>1 DEF Obtainable, Polled
      <3> QED BY <1>2, <1>10, <2>2, <3>1, <3>2 DEF Filed
    <2>3. ASSUME NEW u \in Threads, value'[u] # NULL PROVE value'[u] \notin moved'
      BY <1>2, <2>3 DEF TypeOK, Filed
    <2> QED BY <2>1, <2>2, <2>3 DEF Filed
  <1>16. RemovesCleared'
    <2>1. \A u \in Threads : pc'[u] = "remove" => pc[u] = "remove" /\ entry[u] \in Refs
      BY <1>2 DEF TypeOK, Located
    <2> QED BY <1>1, <1>2, <1>3, <2>1 DEF TypeOK, RemovesCleared
  <1> QED BY <1>6, <1>7, <1>8, <1>12, <1>13, <1>14, <1>15, <1>16

-----------------------------------------------------------------------------
\* Every statement of every thread, every use by a caller and every collection
\* keeps the invariant.
LEMMA NextLemma == IndInv /\ [Next]_vars => IndInv'
  <1> SUFFICES ASSUME IndInv, [Next]_vars PROVE IndInv'
    OBVIOUS
  <1>1. ASSUME NEW t \in Threads, NEW s \in Sizes, allocate(t, s) PROVE IndInv'
    BY <1>1, allocateLemma
  <1>2. ASSUME NEW t \in Threads, NEW b \in Buffers, release(t, b) PROVE IndInv'
    BY <1>2, releaseLemma
  <1>3. ASSUME NEW t \in Threads, NEW b \in Buffers, Use(t, b) PROVE IndInv'
    BY <1>3, UseLemma
  <1>4. ASSUME NEW t \in Threads, NEW b \in Buffers, Forget(t, b) PROVE IndInv'
    BY <1>4, ForgetLemma
  <1>5. ASSUME NEW t \in Threads, NEW n \in ForeignSizes, MakeOwn(t, n) PROVE IndInv'
    BY <1>5, MakeOwnLemma
  <1>6. ASSUME NEW t \in Threads, Step(t) PROVE IndInv'
    BY <1>6, RejectLemma, optimisticGetEntryLemma, PutIfAbsentLemma, PollFirstLemma,
       DerefLemma, CreateLemma, CreateFailsLemma, returnValueLemma, AddFirstLemma,
       PeekLastLemma, CheckLastLemma, RemoveLastLemma DEF Step
  <1>7. ASSUME NEW b \in Buffers, Collect(b) PROVE IndInv'
    BY <1>7, CollectLemma
  <1>8. CASE UNCHANGED vars
    BY <1>8 DEF vars, IndInv, TypeOK, Located, OnePlace, OneReference, OneReturner,
                Exclusive, Filed, RemovesCleared, Obtainable, Queued, Polled, Strong
  <1> QED BY <1>1, <1>2, <1>3, <1>4, <1>5, <1>6, <1>7, <1>8 DEF Next

\* References, deques and buffers of CachingBufferPool match one to one at every
\* statement of every thread, for any number of threads and size classes.
THEOREM Invariance == Spec => []IndInv
  BY InitLemma, NextLemma, PTL DEF Spec

\* No statement of CachingBufferPool leaves a variable ill-typed: a cleared
\* reference is never handed out as a buffer.
THEOREM Typed == Spec => []TypeOK
  <1>1. IndInv => TypeOK
    BY DEF IndInv
  <1> QED BY <1>1, Invariance, PTL

\* Two streams never share a buffer of the pool.
THEOREM ExclusiveAlways == Spec => []Exclusive
  <1>1. IndInv => Exclusive
    BY DEF IndInv
  <1> QED BY <1>1, Invariance, PTL

\* The deques shrink in three places: getOrCreate polls, returnValue purges, and
\* the first installation could overwrite.  None loses a live reference.
LEMMA StepLosesNothing ==
    ASSUME IndInv, [Next]_vars
    PROVE  \A r \in Queued \ Queued' : referent[r] # NULL => r \in Polled'
  <1> SUFFICES ASSUME NEW r \in Queued \ Queued', referent[r] # NULL
               PROVE  r \in Polled'
    OBVIOUS
  <1> USE DEF IndInv
  <1>0. PICK k \in Buckets : r \in Range(queue[k]) /\ r \notin Range(queue'[k])
    BY DEF Queued
  <1>1. PICK t \in Threads : PutIfAbsent(t) \/ PollFirst(t) \/ AddFirst(t) \/ RemoveLast(t)
    BY <1>0 DEF vars, Next, Step, allocate, release, Use, Forget, MakeOwn, Collect, Reject,
       optimisticGetEntry, Deref, Create, CreateFails, returnValue, PeekLast, CheckLast,
       poolVars
  <1>2. CASE PutIfAbsent(t)
    BY <1>0, <1>2, PutIfAbsentLemma
  <1>3. CASE PollFirst(t)
    <2>1. key[t] \in Buckets /\ queue[key[t]] \in Seq(Refs) /\ IsInjective(queue[key[t]])
      BY <1>3 DEF PollFirst, TypeOK, Located, OnePlace
    <2>2. queue[key[t]] # << >> /\ k = key[t] /\ queue'[k] = Tail(queue[k])
      BY <1>0, <1>3, <2>1 DEF PollFirst, TypeOK
    <2>3. r = Head(queue[k])
      BY <1>0, <2>1, <2>2, PollLemma
    <2>4. pc'[t] = "deref" /\ entry'[t] = r
      BY <1>3, <2>2, <2>3 DEF PollFirst, Goto, TypeOK
    <2> QED BY <2>4 DEF Polled, Queued
  <1>4. CASE AddFirst(t)
    <2>1. key[t] \in Buckets /\ queue[key[t]] \in Seq(Refs) /\ IsInjective(queue[key[t]])
      BY <1>4 DEF AddFirst, TypeOK, Located, OnePlace
    <2>2. PICK s \in Refs \ UsedRefs : queue' = [queue EXCEPT ![key[t]] = <<s>> \o queue[key[t]]]
      BY <1>4 DEF AddFirst
    <2>3. s \notin Range(queue[key[t]])
      BY <2>1 DEF UsedRefs, Queued
    <2>4. Range(queue'[k]) \subseteq Range(queue[k]) \union {s} /\ Range(queue[k]) \subseteq Range(queue'[k])
      BY <2>1, <2>2, <2>3, AddLemma DEF TypeOK
    <2> QED BY <1>0, <2>4
  <1>5. CASE RemoveLast(t)
    <2>1. /\ key[t] \in Buckets /\ queue[key[t]] \in Seq(Refs) /\ IsInjective(queue[key[t]])
          /\ referent[entry[t]] = NULL
          /\ queue' = [queue EXCEPT ![key[t]] = RemoveLastOccurrence(queue[key[t]], entry[t])]
      BY <1>5 DEF RemoveLast, TypeOK, Located, OnePlace, RemovesCleared
    <2>2. Range(RemoveLastOccurrence(queue[key[t]], entry[t])) = Range(queue[key[t]]) \ {entry[t]}
      BY <2>1, RemoveLemma
    <2>3. r = entry[t]
      BY <1>0, <2>1, <2>2 DEF TypeOK
    <2> QED BY <2>1, <2>3
  <1> QED BY <1>1, <1>2, <1>3, <1>4, <1>5

\* The purge of returnValue and putIfAbsent never drop a buffer that could be
\* reused, whatever other threads do between peekLast and removeLastOccurrence.
THEOREM NothingLost == Spec => NoLiveEntryLost
  <1>1. IndInv /\ [Next]_vars => \A r \in Queued \ Queued' : referent[r] # NULL => r \in Polled'
    BY StepLosesNothing
  <1> QED BY <1>1, Invariance, PTL DEF Spec, NoLiveEntryLost

\* A caller's set of buffers grows in three places: a polled reference is
\* dereferenced, the pool makes a buffer, the caller makes one.
LEMMA StepHandsOutUsable ==
    ASSUME IndInv, [Next]_vars
    PROVE  \A t \in Threads : \A b \in (held'[t] \ held[t]) \ foreign' :
             capacity'[b] >= size[t] /\ b \notin moved'
  <1> SUFFICES ASSUME NEW t \in Threads, NEW b \in (held'[t] \ held[t]) \ foreign'
               PROVE  capacity'[b] >= size[t] /\ b \notin moved'
    OBVIOUS
  <1> USE DEF IndInv
  <1>1. PICK u \in Threads :
          Deref(u) \/ Create(u) \/ (\E n \in ForeignSizes : MakeOwn(u, n))
                   \/ (\E c \in Buffers : release(u, c) \/ Forget(u, c))
    BY DEF vars, Next, Step, allocate, Use, Collect, Reject, optimisticGetEntry, PutIfAbsent,
       PollFirst, CreateFails, returnValue, AddFirst, PeekLast, CheckLast, RemoveLast, bufferVars
  <1>2. CASE Deref(u)
    <2>1. u = t /\ b = referent[entry[t]] /\ b # NULL /\ UNCHANGED <<capacity, moved>>
      BY <1>2 DEF Deref, TypeOK
    <2>2. pc[t] = "deref"
      BY <1>2, <2>1 DEF Deref
    <2>3. capacity[b] = key[t] /\ b \notin moved
      BY <2>1, <2>2 DEF Filed
    <2>4. size[t] \in Sizes /\ size[t] > 0 /\ key[t] = adjustSize(size[t])
      BY <2>2 DEF Located
    <2> QED BY <2>1, <2>3, <2>4, KeyLemma
  <1>3. CASE Create(u)
    <2>1. PICK c \in FreshBuffers :
            /\ held' = [held EXCEPT ![u] = held[u] \union {c}]
            /\ capacity' = [capacity EXCEPT ![c] = key[u]]
            /\ moved' = moved \ {c}
      BY <1>3 DEF Create
    <2>2. c \in Buffers /\ u = t /\ b = c
      BY <2>1 DEF TypeOK, FreshBuffers
    <2>3. capacity'[b] = key[t] /\ b \notin moved'
      BY <2>1, <2>2 DEF TypeOK
    <2>4. size[t] \in Sizes /\ size[t] > 0 /\ key[t] = adjustSize(size[t])
      BY <1>3, <2>2 DEF Create, Located
    <2> QED BY <2>3, <2>4, KeyLemma
  <1>4. CASE \E n \in ForeignSizes : MakeOwn(u, n)
    <2>1. PICK c \in FreshBuffers : /\ held' = [held EXCEPT ![u] = held[u] \union {c}]
                                    /\ foreign' = foreign \union {c}
      BY <1>4 DEF MakeOwn
    <2> QED BY <2>1 DEF TypeOK
  <1>5. CASE \E c \in Buffers : release(u, c) \/ Forget(u, c)
    BY <1>5 DEF release, Forget, TypeOK
  <1> QED BY <1>1, <1>2, <1>3, <1>4, <1>5

\* What getOrCreate hands out is as large as was asked for and ready for use,
\* whether it is new or was used and returned by anyone before.
THEOREM UsableAlways == Spec => HandedOutUsable
  <1>1. IndInv /\ [Next]_vars =>
          \A t \in Threads : \A b \in (held'[t] \ held[t]) \ foreign' :
            capacity'[b] >= size[t] /\ b \notin moved'
    BY StepHandsOutUsable
  <1> QED BY <1>1, Invariance, PTL DEF Spec, HandedOutUsable

-----------------------------------------------------------------------------
(* How long a deque grows.                                                 *)

\* What the bound is about: finitely many callers and buffers, and no caller gives
\* the pool a buffer of a bucket's length that the pool did not make.
Bounded == /\ IsFiniteSet(Threads) /\ IsFiniteSet(Buffers) /\ Threads # {}
           /\ ForeignSizes \intersect Buckets = {}

\* The allocations that may take a buffer of length k into use without shortening
\* the deque any more, and the buffers of that length in use.
Busy(k) == {t \in Threads : pc[t] \in {"deref", "create"} /\ key[t] = k}
InUse(k) == {b \in Strong : capacity[b] = k}

\* The deque of k, with the references that may still come back to it, is within
\* the bound from the moment it is not empty.
Room(k) == queue[k] # << >> =>
             Len(queue[k]) + Cardinality(Busy(k)) + Cardinality(InUse(k))
               < Cardinality(Buffers) + Cardinality(Threads)

\* The sets that Room counts are finite.
LEMMA FiniteCounts ==
    ASSUME Bounded, NEW k
    PROVE  /\ IsFiniteSet(Busy(k)) /\ IsFiniteSet(InUse(k))
           /\ Cardinality(Busy(k)) \in Nat /\ Cardinality(InUse(k)) \in Nat
           /\ Cardinality(Busy(k)) <= Cardinality(Threads)
           /\ Cardinality(InUse(k)) <= Cardinality(Buffers)
           /\ Cardinality(Threads) \in Nat \ {0} /\ Cardinality(Buffers) \in Nat
  <1>1. Busy(k) \in SUBSET Threads /\ InUse(k) \in SUBSET Buffers
    BY DEF Busy, InUse, Strong
  <1>2. Cardinality(Threads) # 0
    BY FS_EmptySet DEF Bounded
  <1> QED BY <1>1, <1>2, FS_Subset, FS_CardinalityType DEF Bounded

\* The same after a step.
LEMMA FiniteCountsNext ==
    ASSUME Bounded, NEW k
    PROVE  /\ IsFiniteSet(Busy(k)') /\ IsFiniteSet(InUse(k)')
           /\ Cardinality(Busy(k)') \in Nat /\ Cardinality(InUse(k)') \in Nat
           /\ Busy(k)' \subseteq Threads /\ InUse(k)' \subseteq Buffers
  <1>1. Busy(k)' \in SUBSET Threads /\ InUse(k)' \in SUBSET Buffers
    BY DEF Busy, InUse, Strong
  <1> QED BY <1>1, FS_Subset, FS_CardinalityType DEF Bounded

\* One element more adds at most one to a number that Room compares.
LEMMA OneMore ==
    ASSUME NEW S, NEW x, IsFiniteSet(S)
    PROVE  /\ IsFiniteSet(S \union {x}) /\ Cardinality(S \union {x}) \in Nat
           /\ Cardinality(S \union {x}) <= Cardinality(S) + 1
  <1>1. Cardinality(S) \in Nat
    BY FS_CardinalityType
  <1>2. Cardinality(S \union {x}) = IF x \in S THEN Cardinality(S) ELSE Cardinality(S) + 1
    BY FS_AddElement
  <1>3. IsFiniteSet(S \union {x})
    BY FS_AddElement
  <1> QED BY <1>1, <1>2, <1>3

\* A step that makes a deque no longer, and takes no buffer of its length into use.
LEMMA NoGrowth ==
    ASSUME Bounded, TypeOK, NEW k \in Buckets, Room(k),
           queue'[k] \in Seq(Refs), Len(queue'[k]) <= Len(queue[k]),
           Busy(k)' \subseteq Busy(k), InUse(k)' \subseteq InUse(k)
    PROVE  Room(k)'
  <1>1. /\ Cardinality(Busy(k)') <= Cardinality(Busy(k))
        /\ Cardinality(InUse(k)') <= Cardinality(InUse(k))
    BY FiniteCounts, FS_Subset
  <1>2. queue[k] \in Seq(Refs) /\ Len(queue[k]) \in Nat /\ Len(queue'[k]) \in Nat
    BY DEF TypeOK
  <1>3. queue'[k] # << >> => queue[k] # << >>
    BY <1>2
  <1> QED BY <1>1, <1>2, <1>3, FiniteCounts, FiniteCountsNext DEF Room

\* A step after which a buffer of length k is in use that was not, where t had
\* taken its place among the allocations (getOrCreate returns a buffer).
LEMMA TakesPlace ==
    ASSUME Bounded, TypeOK, NEW k \in Buckets, Room(k), queue' = queue,
           NEW t \in Busy(k), Busy(k)' \subseteq Busy(k) \ {t},
           NEW b, InUse(k)' \subseteq InUse(k) \union {b}
    PROVE  Room(k)'
  <1>1. /\ Cardinality(Busy(k)') <= Cardinality(Busy(k)) - 1
        /\ Cardinality(InUse(k)') <= Cardinality(InUse(k)) + 1
    <2>1. /\ IsFiniteSet(Busy(k) \ {t}) /\ IsFiniteSet(InUse(k) \union {b})
          /\ Cardinality(Busy(k) \ {t}) = Cardinality(Busy(k)) - 1
          /\ Cardinality(InUse(k) \union {b}) <= Cardinality(InUse(k)) + 1
      BY FiniteCounts, FS_RemoveElement, OneMore
    <2>2. /\ Cardinality(Busy(k)') <= Cardinality(Busy(k) \ {t})
          /\ Cardinality(InUse(k)') <= Cardinality(InUse(k) \union {b})
      BY <2>1, FS_Subset
    <2>3. Cardinality(InUse(k) \union {b}) \in Nat
      BY <2>1, FS_CardinalityType
    <2> QED BY <2>1, <2>2, <2>3, FiniteCounts, FiniteCountsNext
  <1>2. Len(queue[k]) \in Nat
    BY DEF TypeOK
  <1> QED BY <1>1, <1>2, FiniteCounts, FiniteCountsNext DEF Room

\* pollFirst takes a reference off the deque before the allocation counts.
LEMMA PollRoom ==
    ASSUME Bounded, IndInv, NEW k \in Buckets, Room(k), NEW t \in Threads, PollFirst(t)
    PROVE  Room(k)'
  <1> USE DEF IndInv
  <1>1. InUse(k)' = InUse(k)
    BY DEF PollFirst, bufferVars, InUse, Strong
  <1>2. \A u \in Threads \ {t} : pc'[u] = pc[u] /\ key'[u] = key[u]
    BY DEF PollFirst, Goto, TypeOK
  <1>3. pc[t] = "poll" /\ key' = key /\ key[t] \in Buckets /\ queue[k] \in Seq(Refs)
    BY DEF PollFirst, TypeOK, Located
  <1>4. CASE key[t] # k
    <2>1. Busy(k)' \subseteq Busy(k)
      BY <1>2, <1>3, <1>4 DEF Busy
    <2>2. queue'[k] = queue[k]
      BY <1>3, <1>4 DEF PollFirst, TypeOK
    <2> QED BY <1>1, <1>3, <2>1, <2>2, NoGrowth
  <1>5. CASE key[t] = k /\ queue[k] = << >>
    BY <1>5 DEF PollFirst, Room
  <1>6. CASE key[t] = k /\ queue[k] # << >>
    <2>1. queue'[k] = Tail(queue[k])
      BY <1>6 DEF PollFirst, TypeOK
    <2>2. Len(queue[k]) \in Nat /\ Len(queue'[k]) = Len(queue[k]) - 1
      BY <1>3, <1>6, <2>1
    <2>3. Busy(k)' \subseteq Busy(k) \union {t}
      BY <1>2 DEF Busy
    <2>4. Cardinality(Busy(k)') <= Cardinality(Busy(k)) + 1
      <3>1. /\ IsFiniteSet(Busy(k) \union {t})
            /\ Cardinality(Busy(k) \union {t}) <= Cardinality(Busy(k)) + 1
            /\ Cardinality(Busy(k) \union {t}) \in Nat
        BY FiniteCounts, OneMore
      <3>2. Cardinality(Busy(k)') <= Cardinality(Busy(k) \union {t})
        BY <2>3, <3>1, FS_Subset
      <3> QED BY <3>1, <3>2, FiniteCounts, FiniteCountsNext
    <2> QED BY <1>1, <1>6, <2>2, <2>4, FiniteCounts, FiniteCountsNext DEF Room
  <1> QED BY <1>4, <1>5, <1>6

\* entry.get() gives the caller a buffer of the deque's length, or sends it back.
LEMMA DerefRoom ==
    ASSUME Bounded, IndInv, NEW k \in Buckets, Room(k), NEW t \in Threads, Deref(t)
    PROVE  Room(k)'
  <1> USE DEF IndInv
  <1> DEFINE val == referent[entry[t]]
  <1>1. /\ pc[t] = "deref" /\ queue' = queue /\ capacity' = capacity /\ value' = value
        /\ queue[k] \in Seq(Refs) /\ Len(queue[k]) \in Nat
    BY DEF Deref, TypeOK
  <1>2. Busy(k)' \subseteq Busy(k) \ {t}
    BY DEF Deref, Return, Goto, TypeOK, Busy
  <1>3. CASE val = NULL
    <2>1. InUse(k)' \subseteq InUse(k)
      BY <1>3 DEF Deref, InUse, Strong
    <2> QED BY <1>1, <1>2, <2>1, NoGrowth
  <1>4. CASE val # NULL
    <2>1. held' = [held EXCEPT ![t] = held[t] \union {val}]
      BY <1>4 DEF Deref
    <2>2. Strong' \subseteq Strong \union {val}
      BY <1>1, <2>1 DEF Strong, TypeOK
    <2>3. capacity[val] = key[t]
      BY <1>1, <1>4 DEF Filed
    <2>4. CASE key[t] = k
      <3>1. t \in Busy(k)
        BY <1>1, <2>4 DEF Busy
      <3>2. InUse(k)' \subseteq InUse(k) \union {val}
        BY <1>1, <2>2 DEF InUse
      <3> HIDE DEF val
      <3> QED BY ONLY Bounded, IndInv, k \in Buckets, Room(k), <1>1, <1>2, <3>1, <3>2,
                      TakesPlace DEF IndInv
    <2>5. CASE key[t] # k
      <3>1. InUse(k)' \subseteq InUse(k)
        BY <1>1, <2>2, <2>3, <2>5 DEF InUse
      <3> QED BY <1>1, <1>2, <3>1, NoGrowth
    <2> QED BY <2>4, <2>5
  <1> QED BY <1>3, <1>4

\* The buffer that getOrCreate makes has the length of the deque that was empty.
LEMMA CreateRoom ==
    ASSUME Bounded, IndInv, NEW k \in Buckets, Room(k), NEW t \in Threads, Create(t)
    PROVE  Room(k)'
  <1> USE DEF IndInv
  <1>1. PICK b \in FreshBuffers :
          /\ held' = [held EXCEPT ![t] = held[t] \union {b}]
          /\ capacity' = [capacity EXCEPT ![b] = key[t]]
    BY DEF Create
  <1>2. /\ b \in Buffers /\ b \notin Strong /\ pc[t] = "create"
        /\ queue' = queue /\ value' = value
        /\ queue[k] \in Seq(Refs) /\ Len(queue[k]) \in Nat
    BY DEF FreshBuffers, Create, poolVars, TypeOK
  <1>3. Busy(k)' \subseteq Busy(k) \ {t}
    BY DEF Create, Return, Goto, TypeOK, Busy
  <1>4. Strong' \subseteq Strong \union {b}
    BY <1>1, <1>2 DEF Strong, TypeOK
  <1>5. capacity'[b] = key[t] /\ \A c \in Buffers \ {b} : capacity'[c] = capacity[c]
    BY <1>1, <1>2 DEF TypeOK
  <1>6. Strong \subseteq Buffers \ {b}
    BY <1>2 DEF Strong
  <1>7. CASE key[t] = k
    <2>1. t \in Busy(k)
      BY <1>2, <1>7 DEF Busy
    <2>2. InUse(k)' \subseteq InUse(k) \union {b}
      BY <1>4, <1>5, <1>6 DEF InUse
    <2> QED BY <1>2, <1>3, <2>1, <2>2, TakesPlace
  <1>8. CASE key[t] # k
    <2>1. InUse(k)' \subseteq InUse(k)
      BY <1>4, <1>5, <1>6, <1>8 DEF InUse
    <2> QED BY <1>2, <1>3, <2>1, NoGrowth
  <1> QED BY <1>7, <1>8

\* A caller's own buffer is not of the length of a deque.
LEMMA MakeOwnRoom ==
    ASSUME Bounded, IndInv, NEW k \in Buckets, Room(k), NEW t \in Threads,
           NEW n \in ForeignSizes, MakeOwn(t, n)
    PROVE  Room(k)'
  <1> USE DEF IndInv
  <1>1. PICK b \in FreshBuffers :
          /\ held' = [held EXCEPT ![t] = held[t] \union {b}]
          /\ capacity' = [capacity EXCEPT ![b] = n]
    BY DEF MakeOwn
  <1>2. /\ b \in Buffers /\ b \notin Strong /\ n # k
        /\ queue' = queue /\ value' = value /\ pc' = pc /\ key' = key
        /\ queue[k] \in Seq(Refs) /\ Len(queue[k]) \in Nat
    BY DEF FreshBuffers, MakeOwn, threadVars, poolVars, TypeOK, Bounded
  <1>3. Strong' \subseteq Strong \union {b}
    BY <1>1, <1>2 DEF Strong, TypeOK
  <1>4. capacity'[b] = n /\ \A c \in Buffers \ {b} : capacity'[c] = capacity[c]
    BY <1>1, <1>2 DEF TypeOK
  <1>5. Strong \subseteq Buffers \ {b}
    BY <1>2 DEF Strong
  <1>6. InUse(k)' \subseteq InUse(k)
    BY <1>2, <1>3, <1>4, <1>5 DEF InUse
  <1>7. Busy(k)' \subseteq Busy(k)
    BY <1>2 DEF Busy
  <1> QED BY <1>2, <1>6, <1>7, NoGrowth

\* addFirst puts the reference of a buffer in the deque that was in use until then;
\* into an empty deque it does so while its thread is in no allocation.
LEMMA AddRoom ==
    ASSUME Bounded, IndInv, NEW k \in Buckets, Room(k), NEW t \in Threads, AddFirst(t)
    PROVE  Room(k)'
  <1> USE DEF IndInv
  <1> DEFINE b == value[t]
  <1>1. /\ pc[t] = "addFirst" /\ b # NULL /\ b \in Buffers /\ key[t] = capacity[b]
        /\ key[t] \in Buckets
        /\ held' = held /\ capacity' = capacity /\ key' = key
        /\ value' = [value EXCEPT ![t] = NULL]
        /\ queue[k] \in Seq(Refs) /\ Len(queue[k]) \in Nat
    BY DEF AddFirst, bufferVars, TypeOK, Located
  <1>2. \A u \in Threads : b \notin held[u] /\ (u # t => value[u] # b)
    BY <1>1 DEF OneReturner
  <1>3. Strong' \subseteq Strong \ {b} /\ b \in Strong
    BY <1>1, <1>2, NullAssumption DEF Strong, TypeOK
  <1>4. Busy(k)' \subseteq Busy(k) /\ t \notin Busy(k)
    BY <1>1 DEF AddFirst, Goto, TypeOK, Busy
  <1>5. InUse(k)' \subseteq InUse(k) \ {b}
    BY <1>1, <1>3 DEF InUse
  <1>6. PICK r \in Refs : queue' = [queue EXCEPT ![key[t]] = <<r>> \o queue[key[t]]]
    BY DEF AddFirst
  <1>7. CASE key[t] # k
    <2>1. queue'[k] = queue[k]
      BY <1>1, <1>6, <1>7 DEF TypeOK
    <2> QED BY <1>1, <1>4, <1>5, <2>1, NoGrowth
  <1>8. CASE key[t] = k
    <2>1. queue'[k] = <<r>> \o queue[k]
      BY <1>1, <1>6, <1>8 DEF TypeOK
    <2>2. Len(queue'[k]) = Len(queue[k]) + 1
      BY <1>1, <2>1
    <2>3. b \in InUse(k)
      BY <1>1, <1>3, <1>8 DEF InUse
    <2> HIDE DEF b
    <2>4. Cardinality(InUse(k)') <= Cardinality(InUse(k)) - 1
      <3>1. /\ IsFiniteSet(InUse(k) \ {b})
            /\ Cardinality(InUse(k) \ {b}) = Cardinality(InUse(k)) - 1
        BY <2>3, FiniteCounts, FS_RemoveElement
      <3> QED BY <1>5, <3>1, FS_Subset
    <2>5. Cardinality(Busy(k)') <= Cardinality(Busy(k))
      BY <1>4, FiniteCounts, FS_Subset
    <2>6. CASE queue[k] # << >>
      BY <1>1, <2>2, <2>4, <2>5, <2>6, FiniteCounts, FiniteCountsNext DEF Room
    <2>7. CASE queue[k] = << >>
      <3>1. Len(queue'[k]) = 1
        BY <2>2, <2>7
      <3>2. /\ IsFiniteSet(Threads \ {t})
            /\ Cardinality(Threads \ {t}) = Cardinality(Threads) - 1
        BY FS_RemoveElement DEF Bounded
      <3>3. Busy(k) \in SUBSET (Threads \ {t})
        BY <1>4 DEF Busy
      <3>4. Cardinality(Busy(k)) <= Cardinality(Threads) - 1
        BY <3>2, <3>3, FS_Subset
      <3> QED BY <2>4, <2>5, <3>1, <3>4, FiniteCounts, FiniteCountsNext DEF Room
    <2> QED BY <2>6, <2>7
  <1> QED BY <1>7, <1>8

\* returnValue purges at most what is there.
LEMMA RemoveRoom ==
    ASSUME Bounded, IndInv, NEW k \in Buckets, Room(k), NEW t \in Threads, RemoveLast(t)
    PROVE  Room(k)'
  <1> USE DEF IndInv
  <1>1. InUse(k)' \subseteq InUse(k)
    BY DEF RemoveLast, bufferVars, InUse, Strong
  <1>2. Busy(k)' \subseteq Busy(k)
    BY DEF RemoveLast, Goto, TypeOK, Busy
  <1>3. /\ key[t] \in Buckets /\ queue[k] \in Seq(Refs) /\ IsInjective(queue[k])
        /\ queue' = [queue EXCEPT ![key[t]] = RemoveLastOccurrence(queue[key[t]], entry[t])]
    BY DEF RemoveLast, TypeOK, Located, OnePlace
  <1>4. queue'[k] \in {queue[k], RemoveLastOccurrence(queue[k], entry[t])}
    BY <1>3 DEF TypeOK
  <1>5. queue'[k] \in Seq(Refs) /\ Len(queue'[k]) <= Len(queue[k])
    BY <1>3, <1>4, RemoveLemma
  <1> QED BY <1>1, <1>2, <1>5, NoGrowth

\* The other statements, the callers and the collector lengthen no deque and take
\* no buffer into use; putIfAbsent may only replace a deque by an empty one.
LEMMA OtherRoom ==
    ASSUME Bounded, IndInv, NEW k \in Buckets, Room(k), NEW t \in Threads,
           \/ \E s \in Sizes : allocate(t, s)
           \/ \E b \in Buffers : release(t, b) \/ Use(t, b) \/ Forget(t, b) \/ Collect(b)
           \/ Reject(t) \/ optimisticGetEntry(t) \/ PutIfAbsent(t) \/ CreateFails(t)
           \/ returnValue(t) \/ PeekLast(t) \/ CheckLast(t)
    PROVE  Room(k)'
  <1> USE DEF IndInv
  <1>1. queue[k] \in Seq(Refs) /\ << >> \in Seq(Refs) /\ Len(<< >>) = 0 /\ Len(queue[k]) \in Nat
    BY DEF TypeOK
  <1>2. ASSUME NEW s \in Sizes, allocate(t, s) PROVE Room(k)'
    <2>1. Busy(k)' \subseteq Busy(k) /\ InUse(k)' \subseteq InUse(k) /\ queue' = queue
      BY <1>2 DEF allocate, Goto, poolVars, bufferVars, TypeOK, Busy, InUse, Strong
    <2> QED BY <1>1, <2>1, NoGrowth
  <1>3. ASSUME NEW b \in Buffers, release(t, b) PROVE Room(k)'
    <2>1. Strong' \subseteq Strong /\ capacity' = capacity /\ queue' = queue
      BY <1>3 DEF release, poolVars, TypeOK, Strong
    <2>2. Busy(k)' \subseteq Busy(k)
      BY <1>3 DEF release, Goto, TypeOK, Busy
    <2>3. InUse(k)' \subseteq InUse(k)
      BY <2>1 DEF InUse
    <2> QED BY <1>1, <2>1, <2>2, <2>3, NoGrowth
  <1>4. ASSUME NEW b \in Buffers, Use(t, b) \/ Forget(t, b) \/ Collect(b) PROVE Room(k)'
    <2>1. Strong' \subseteq Strong /\ capacity' = capacity /\ queue' = queue
          /\ pc' = pc /\ key' = key
      BY <1>4 DEF Use, Forget, Collect, threadVars, poolVars, bufferVars, TypeOK, Strong
    <2>2. Busy(k)' \subseteq Busy(k) /\ InUse(k)' \subseteq InUse(k)
      BY <2>1 DEF Busy, InUse
    <2> QED BY <1>1, <2>1, <2>2, NoGrowth
  <1>5. CASE Reject(t) \/ optimisticGetEntry(t) \/ CreateFails(t) \/ returnValue(t)
             \/ PeekLast(t) \/ CheckLast(t)
    <2>1. Strong' \subseteq Strong /\ capacity' = capacity /\ queue' = queue
      BY <1>5, NullAssumption DEF Reject, optimisticGetEntry, CreateFails, returnValue,
         PeekLast, CheckLast, poolVars, bufferVars, TypeOK, Strong
    <2>2. Busy(k)' \subseteq Busy(k)
      BY <1>5 DEF Reject, optimisticGetEntry, CreateFails, returnValue, PeekLast, CheckLast,
         Return, Goto, TypeOK, Busy
    <2>3. InUse(k)' \subseteq InUse(k)
      BY <2>1 DEF InUse
    <2> QED BY <1>1, <2>1, <2>2, <2>3, NoGrowth
  <1>6. CASE PutIfAbsent(t)
    <2>1. queue'[k] \in {queue[k], << >>}
      BY <1>6 DEF PutIfAbsent, TypeOK
    <2>2. Busy(k)' \subseteq Busy(k)
      BY <1>6 DEF PutIfAbsent, Goto, TypeOK, Busy
    <2>3. InUse(k)' \subseteq InUse(k)
      BY <1>6 DEF PutIfAbsent, bufferVars, InUse, Strong
    <2>4. queue'[k] \in Seq(Refs) /\ Len(queue'[k]) <= Len(queue[k])
      <3>1. CASE queue'[k] = queue[k]
        BY <1>1, <3>1
      <3>2. CASE queue'[k] = << >>
        <4>1. Len(queue'[k]) = 0 /\ queue'[k] \in Seq(Refs)
          BY ONLY <1>1, <3>2
        <4> QED BY ONLY <1>1, <4>1
      <3> QED BY <2>1, <3>1, <3>2
    <2> QED BY ONLY Bounded, TypeOK, k \in Buckets, Room(k), <2>2, <2>3, <2>4, NoGrowth
  <1> QED BY <1>2, <1>3, <1>4, <1>5, <1>6

\* Every step leaves room in every deque.
LEMMA RoomStep ==
    ASSUME Bounded, IndInv, [Next]_vars, \A k \in Buckets : Room(k)
    PROVE  (\A k \in Buckets : Room(k))'
  <1> SUFFICES ASSUME NEW k \in Buckets PROVE Room(k)'
    OBVIOUS
  <1>0. Room(k)
    OBVIOUS
  <1>1. ASSUME NEW t \in Threads, NEW n \in ForeignSizes, MakeOwn(t, n) PROVE Room(k)'
    BY <1>0, <1>1, MakeOwnRoom
  <1>2. ASSUME NEW t \in Threads,
               \/ \E s \in Sizes : allocate(t, s)
               \/ \E b \in Buffers : release(t, b) \/ Use(t, b) \/ Forget(t, b)
        PROVE  Room(k)'
    BY <1>0, <1>2, OtherRoom
  <1>3. ASSUME NEW t \in Threads, Step(t) PROVE Room(k)'
    BY <1>0, <1>3, PollRoom, DerefRoom, CreateRoom, AddRoom, RemoveRoom, OtherRoom DEF Step
  <1>4. ASSUME NEW b \in Buffers, Collect(b) PROVE Room(k)'
    <2>1. PICK t \in Threads : TRUE
      BY DEF Bounded
    <2> QED BY <1>0, <1>4, <2>1, OtherRoom
  <1>5. CASE UNCHANGED vars
    BY <1>0, <1>5 DEF vars, Room, Busy, InUse, Strong
  <1> QED BY <1>1, <1>2, <1>3, <1>4, <1>5 DEF Next

\* However long CachingBufferPool runs, and whatever the collector clears, a deque
\* of returnValue stays shorter than buffers and threads together: purging only at
\* the tail does not leak references, as long as what comes back came from the pool.
THEOREM QueueAlwaysBounded ==
    ASSUME Bounded
    PROVE  Spec => []QueueBounded
  <1> DEFINE Rooms == \A k \in Buckets : Room(k)
  <1>1. Init => Rooms
    BY DEF Init, Room
  <1>2. IndInv /\ Rooms /\ [Next]_vars => Rooms'
    BY RoomStep
  <1>3. IndInv /\ Rooms => QueueBounded
    <2> SUFFICES ASSUME IndInv, Rooms, NEW k \in Buckets
                 PROVE  Len(queue[k]) < Cardinality(Buffers) + Cardinality(Threads)
      BY DEF QueueBounded
    <2>1. Room(k) /\ queue[k] \in Seq(Refs) /\ Len(queue[k]) \in Nat
      BY DEF IndInv, TypeOK
    <2>2. /\ Cardinality(Busy(k)) \in Nat /\ Cardinality(InUse(k)) \in Nat
          /\ Cardinality(Threads) \in Nat \ {0} /\ Cardinality(Buffers) \in Nat
      BY FiniteCounts
    <2>3. CASE queue[k] = << >>
      <3>1. Len(queue[k]) = 0
        BY <2>3
      <3> QED BY <2>2, <3>1
    <2>4. CASE queue[k] # << >>
      BY <2>1, <2>2, <2>4 DEF Room
    <2> QED BY <2>3, <2>4
  <1> HIDE DEF Rooms
  <1> QED BY <1>1, <1>2, <1>3, Invariance, PTL DEF Spec

-----------------------------------------------------------------------------
(* CachingBufferPool implements PoolContract, for any number of threads,   *)
(* buffers, references and size classes.                                   *)

\* What the contract sees of the pool (the substitution of BufferPool!Contract).
OwnedBy == [t \in Threads |-> held[t] \union ({value[t]} \ {NULL})]
Spares == {b \in Buffers : \E r \in Obtainable : referent[r] = b}

\* Nobody owns a spare buffer, and what somebody owns is strongly referenced
\* (CachingBufferPool keeps no strong reference to what it pools).
LEMMA OwnedLemma ==
    ASSUME IndInv
    PROVE  /\ Contract!Owned = Strong
           /\ Spares \intersect Strong = {}
  <1> USE DEF IndInv
  <1>1. Contract!Owned = Strong
    BY NullAssumption DEF Contract!Owned, Strong, TypeOK
  <1>2. Spares \intersect Strong = {}
    BY DEF Spares, Exclusive
  <1> QED BY <1>1, <1>2

\* An empty pool is an empty contract.
LEMMA RefinesInit == Init => Contract!Init
  BY NullAssumption DEF Init, Contract!Init, Obtainable, Queued, Polled, Range

\* What a step has to do to be a stuttering step of the contract.
Hidden == UNCHANGED <<OwnedBy, Spares, capacity, size, foreign>>

\* The substitution of the refinement mapping, by name.
LEMMA Mapped == Hidden => UNCHANGED Contract!vars
  BY DEF Hidden, OwnedBy, Spares, Contract!vars

\* The spare buffers are the same while the obtainable references are and none
\* of them is cleared.
LEMMA SameSpares ==
    ASSUME Obtainable' = Obtainable, \A r \in Obtainable : referent'[r] = referent[r]
    PROVE  Spares' = Spares
  BY DEF Spares

\* Polling moves a reference from a deque to a local variable.
LEMMA PollKeeps ==
    ASSUME IndInv, NEW t \in Threads, PollFirst(t), queue[key[t]] # << >>
    PROVE  Obtainable' = Obtainable
  <1> USE DEF IndInv
  <1> DEFINE k == key[t]
             e == Head(queue[k])
  <1>1. /\ k \in Buckets /\ queue[k] \in Seq(Refs) /\ IsInjective(queue[k])
        /\ pc[t] = "poll"
    BY DEF PollFirst, TypeOK, Located, OnePlace
  <1>2. /\ queue' = [queue EXCEPT ![k] = Tail(queue[k])]
        /\ entry' = [entry EXCEPT ![t] = e]
        /\ pc' = [pc EXCEPT ![t] = "deref"]
    BY DEF PollFirst, Goto
  <1>3. e \in Refs /\ e \in Range(queue[k]) /\ Range(Tail(queue[k])) = Range(queue[k]) \ {e}
    BY <1>1, PollLemma
  <1> HIDE DEF e
  <1>4. /\ Range(queue'[k]) = Range(queue[k]) \ {e}
        /\ \A l \in Buckets \ {k} : queue'[l] = queue[l]
    BY <1>1, <1>2, <1>3 DEF TypeOK
  <1> QED BY <1>1, <1>2, <1>3, <1>4 DEF TypeOK, Obtainable, Queued, Polled

\* The purge only takes away a reference that leads nowhere.
LEMMA RemoveKeeps ==
    ASSUME IndInv, NEW t \in Threads, RemoveLast(t)
    PROVE  /\ \A r \in Obtainable' : r \in Obtainable /\ referent'[r] = referent[r]
           /\ \A r \in Obtainable \ Obtainable' : referent[r] = NULL
  <1> USE DEF IndInv
  <1> DEFINE k == key[t]
             e == entry[t]
  <1>1. /\ k \in Buckets /\ queue[k] \in Seq(Refs) /\ IsInjective(queue[k])
        /\ pc[t] = "remove" /\ referent[e] = NULL
    BY DEF RemoveLast, TypeOK, Located, OnePlace, RemovesCleared
  <1>2. /\ queue' = [queue EXCEPT ![k] = RemoveLastOccurrence(queue[k], e)]
        /\ entry' = [entry EXCEPT ![t] = NULL]
        /\ pc' = [pc EXCEPT ![t] = "peekLast"]
        /\ referent' = referent
    BY DEF RemoveLast, Goto
  <1>3. /\ Range(queue'[k]) = Range(queue[k]) \ {e}
        /\ \A l \in Buckets \ {k} : queue'[l] = queue[l]
    BY <1>1, <1>2, RemoveLemma DEF TypeOK
  <1> HIDE DEF e
  <1>4. \A r \in Polled : r \in Polled'
    BY <1>1, <1>2 DEF TypeOK, Polled
  <1>5. \A r \in Polled' : r \in Polled
    BY <1>1, <1>2 DEF TypeOK, Polled
  <1>6. \A r \in Queued' : r \in Queued
    BY <1>1, <1>3 DEF Queued
  <1>7. \A r \in Queued : r # e => r \in Queued'
    BY <1>1, <1>3 DEF Queued
  <1> QED BY <1>1, <1>2, <1>4, <1>5, <1>6, <1>7 DEF Obtainable

\* The steps of a call that the caller cannot tell apart: they only move within
\* the pool's own data.
LEMMA HiddenSteps ==
    ASSUME IndInv, NEW t \in Threads,
           \/ optimisticGetEntry(t) \/ PutIfAbsent(t) \/ PollFirst(t) \/ PeekLast(t)
           \/ CheckLast(t) \/ RemoveLast(t)
    PROVE  Hidden
  <1> USE DEF IndInv
  <1>1. size' = size
    BY DEF optimisticGetEntry, PutIfAbsent, PollFirst, PeekLast, CheckLast, RemoveLast,
           Return, Located, TypeOK
  <1>2. UNCHANGED <<OwnedBy, capacity, foreign>>
    BY DEF optimisticGetEntry, PutIfAbsent, PollFirst, PeekLast, CheckLast, RemoveLast,
           bufferVars, OwnedBy
  <1>3. Spares' = Spares
    <2>1. CASE optimisticGetEntry(t)
      <3>1. Obtainable' = Obtainable
        BY <2>1 DEF optimisticGetEntry, Goto, poolVars, TypeOK, Obtainable, Queued, Polled
      <3> QED BY <2>1, <3>1, SameSpares DEF optimisticGetEntry, poolVars
    <2>2. CASE PutIfAbsent(t)
      <3>1. Obtainable' = Obtainable
        BY <2>2, PutIfAbsentLemma DEF PutIfAbsent, Goto, TypeOK, Obtainable, Queued, Polled
      <3> QED BY <2>2, <3>1, SameSpares DEF PutIfAbsent
    <2>3. CASE PollFirst(t)
      <3>1. CASE queue[key[t]] = << >>
        <4>1. Obtainable' = Obtainable
          BY <2>3, <3>1 DEF PollFirst, Goto, TypeOK, Obtainable, Queued, Polled
        <4> QED BY <2>3, <4>1, SameSpares DEF PollFirst
      <3>2. CASE queue[key[t]] # << >>
        <4>1. Obtainable' = Obtainable
          BY <2>3, <3>2, PollKeeps
        <4> QED BY <2>3, <4>1, SameSpares DEF PollFirst
      <3> QED BY <3>1, <3>2
    <2>4. CASE PeekLast(t)
      <3>1. Obtainable' = Obtainable
        BY <2>4 DEF PeekLast, Return, Goto, poolVars, TypeOK, Obtainable, Queued, Polled
      <3> QED BY <2>4, <3>1, SameSpares DEF PeekLast, poolVars
    <2>5. CASE CheckLast(t)
      <3>0. pc[t] = "check" /\ entry[t] \in Refs /\ queue' = queue
        BY <2>5 DEF CheckLast, Located, TypeOK
      <3>1. CASE referent[entry[t]] = NULL
        <4>1. Obtainable' = Obtainable
          BY <2>5, <3>0, <3>1 DEF CheckLast, Goto, TypeOK, Obtainable, Queued, Polled
        <4> QED BY <2>5, <3>1, <4>1, SameSpares DEF CheckLast
      <3>2. CASE referent[entry[t]] # NULL
        <4>1. DropEntry(t) /\ pc' = [pc EXCEPT ![t] = "idle"]
          BY <2>5, <3>2 DEF CheckLast, Return, Goto
        <4>2. entry' = [entry EXCEPT ![t] = NULL]
          BY <4>1 DEF DropEntry
        <4>3. Obtainable' = Obtainable
          BY <3>0, <4>1, <4>2 DEF TypeOK, Obtainable, Queued, Polled
        <4>4. \A r \in Obtainable : referent'[r] = referent[r]
          <5> SUFFICES ASSUME NEW r \in Obtainable PROVE referent'[r] = referent[r]
            OBVIOUS
          <5>1. r \in Queued \/ \E u \in Threads : u # t /\ entry[u] = r
            BY <3>0 DEF Obtainable, Polled
          <5> QED BY <3>0, <4>1, <5>1 DEF DropEntry, TypeOK, Obtainable, Queued, Polled
        <4> QED BY <4>3, <4>4, SameSpares
      <3> QED BY <3>1, <3>2
    <2>6. CASE RemoveLast(t)
      <3>1. \A r \in Obtainable' : r \in Obtainable /\ referent'[r] = referent[r]
        BY <2>6, RemoveKeeps
      <3>2. \A r \in Obtainable \ Obtainable' : referent[r] = NULL
        BY <2>6, RemoveKeeps
      <3> QED BY <3>1, <3>2, NullAssumption DEF Spares
    <2> QED BY <2>1, <2>2, <2>3, <2>4, <2>5, <2>6
  <1> QED BY <1>1, <1>2, <1>3 DEF Hidden

\* The request of a caller, and its end in an exception.
LEMMA AskSteps ==
    ASSUME IndInv, NEW t \in Threads,
           (\E s \in Sizes : allocate(t, s)) \/ Reject(t) \/ CreateFails(t)
    PROVE  \E n \in Sizes \union {0} : Contract!Ask(t, n)
  <1> USE DEF IndInv
  <1>1. PICK n \in Sizes \union {0} : size' = [size EXCEPT ![t] = n]
    BY DEF allocate, Reject, CreateFails, Return
  <1>2. UNCHANGED <<OwnedBy, capacity, foreign>>
    BY DEF allocate, Reject, CreateFails, bufferVars, OwnedBy
  <1>3. Obtainable' = Obtainable /\ referent' = referent
    BY DEF allocate, Reject, CreateFails, Return, Goto, poolVars, TypeOK, Obtainable, Queued, Polled
  <1>4. Spares' = Spares
    BY <1>3, SameSpares
  <1>5. Contract!Ask(t, n)
    BY <1>1, <1>2, <1>4 DEF Contract!Ask, OwnedBy, Spares
  <1> QED BY <1>5

\* entry.get() answers null and the loop goes on, or hands out a spare buffer.
LEMMA DerefStep ==
    ASSUME IndInv, NEW t \in Threads, Deref(t)
    PROVE  Hidden \/ \E b \in Buffers : Contract!Hand(t, b)
  <1> USE DEF IndInv
  <1> DEFINE e == entry[t]
             val == referent[e]
  <1>0. e \in Refs /\ pc[t] = "deref" /\ e \in Obtainable
    BY DEF Deref, TypeOK, Located, Obtainable, Polled
  <1>1. /\ DropEntry(t) /\ pc' \in {[pc EXCEPT ![t] = "idle"], [pc EXCEPT ![t] = "poll"]}
        /\ UNCHANGED <<capacity, moved, foreign, value, installed, queue>>
    BY DEF Deref, Return, Goto
  <1>2. entry' = [entry EXCEPT ![t] = NULL]
    BY <1>1 DEF DropEntry
  <1>3. Obtainable' = Obtainable \ {e}
    BY <1>0, <1>1, <1>2, NullAssumption DEF TypeOK, OnePlace, Obtainable, Queued, Polled
  <1>4. \A r \in Obtainable' : referent'[r] = referent[r]
    <2> SUFFICES ASSUME NEW r \in Obtainable' PROVE referent'[r] = referent[r]
      OBVIOUS
    <2>1. r \in Refs /\ r # e
      BY <1>3 DEF Obtainable, Queued, Polled
    <2> QED BY <1>0, <1>1, <2>1 DEF DropEntry, TypeOK
  <1>5. Spares' = Spares \ {val}
    <2>1. ASSUME NEW b \in Spares' PROVE b \in Spares \ {val}
      BY <1>0, <1>3, <1>4, NullAssumption DEF Spares, OneReference
    <2>2. ASSUME NEW b \in Spares \ {val} PROVE b \in Spares'
      BY <1>3, <1>4 DEF Spares
    <2> QED BY <2>1, <2>2
  <1>6. CASE val = NULL
    <2>1. held' = held /\ size' = size
      BY <1>6 DEF Deref
    <2>2. Spares' = Spares
      BY <1>5, <1>6, NullAssumption DEF Spares
    <2> QED BY <1>1, <2>1, <2>2 DEF Hidden, OwnedBy
  <1>7. CASE val # NULL
    <2>1. /\ held' = [held EXCEPT ![t] = held[t] \union {val}]
          /\ size' = [size EXCEPT ![t] = 0]
      BY <1>7 DEF Deref, Return
    <2>2. val \in Buffers /\ val \in Spares
      BY <1>0, <1>7 DEF TypeOK, Spares
    <2>3. val \notin Contract!Owned
      BY <2>2, OwnedLemma
    <2>4. capacity[val] >= size[t]
      <3>1. capacity[val] = key[t] /\ size[t] \in Sizes /\ size[t] > 0 /\ key[t] = adjustSize(size[t])
        BY <1>0, <1>7 DEF Filed, Located
      <3> QED BY <3>1, KeyLemma
    <2> HIDE DEF val
    <2>5. OwnedBy' = [OwnedBy EXCEPT ![t] = OwnedBy[t] \union {val}]
      BY <1>1, <2>1 DEF OwnedBy, TypeOK
    <2>6. PICK b \in Buffers : b = val
      BY <2>2
    <2>7. Contract!Hand(t, b)
      BY <1>1, <1>5, <2>1, <2>2, <2>3, <2>4, <2>5, <2>6 DEF Contract!Hand, OwnedBy, Spares
    <2> QED BY <2>7
  <1> QED BY <1>6, <1>7

\* A new buffer, made by the pool or by the caller.
LEMMA MakeSteps ==
    ASSUME IndInv, NEW t \in Threads,
           Create(t) \/ \E n \in ForeignSizes : MakeOwn(t, n)
    PROVE  \E b \in Buffers, c \in Capacities \union {0} :
             Contract!Make(t, b, c) \/ Contract!MakeOwn(t, b, c)
  <1> USE DEF IndInv
  <1>1. UNCHANGED <<referent, queue, value, entry>>
    BY DEF Create, MakeOwn, threadVars, poolVars
  <1>2. Obtainable' = Obtainable
    BY <1>1 DEF Create, MakeOwn, Return, Goto, threadVars, TypeOK, Obtainable, Queued, Polled
  <1>3. Spares' = Spares
    BY <1>1, <1>2, SameSpares
  <1>4. ASSUME NEW b \in FreshBuffers PROVE b \in Buffers /\ b \notin Contract!Owned \union Spares
    <2>1. b \in Buffers \ Strong /\ \A r \in Obtainable : referent[r] # b
      BY DEF FreshBuffers, UsedRefs, Obtainable, Polled
    <2> QED BY <2>1, OwnedLemma DEF Spares
  <1>5. ASSUME NEW b \in FreshBuffers, held' = [held EXCEPT ![t] = held[t] \union {b}]
        PROVE  OwnedBy' = [OwnedBy EXCEPT ![t] = OwnedBy[t] \union {b}]
    BY <1>1, <1>5 DEF OwnedBy, TypeOK
  <1>6. CASE Create(t)
    <2>1. PICK b \in FreshBuffers :
            /\ held' = [held EXCEPT ![t] = held[t] \union {b}]
            /\ capacity' = [capacity EXCEPT ![b] = key[t]]
            /\ foreign' = foreign \ {b}
      BY <1>6 DEF Create
    <2>2. size' = [size EXCEPT ![t] = 0]
      BY <1>6 DEF Create, Return
    <2>3. key[t] \in Capacities \union {0} /\ key[t] >= size[t]
      <3>1. size[t] \in Sizes /\ size[t] > 0 /\ key[t] = adjustSize(size[t])
        BY <1>6 DEF Create, Located
      <3> QED BY <3>1, KeyLemma DEF TypeOK
    <2>4. PICK c \in Capacities \union {0} : c = key[t]
      BY <2>3
    <2>5. Contract!Make(t, b, c)
      BY <1>3, <1>4, <1>5, <2>1, <2>2, <2>3, <2>4 DEF Contract!Make, OwnedBy, Spares
    <2> QED BY <1>4, <2>5
  <1>7. CASE \E n \in ForeignSizes : MakeOwn(t, n)
    <2>1. PICK n \in ForeignSizes : MakeOwn(t, n)
      BY <1>7
    <2>2. PICK b \in FreshBuffers :
            /\ held' = [held EXCEPT ![t] = held[t] \union {b}]
            /\ capacity' = [capacity EXCEPT ![b] = n]
            /\ foreign' = foreign \union {b}
      BY <2>1 DEF MakeOwn
    <2>3. size' = size
      BY <2>1 DEF MakeOwn, threadVars
    <2>4. Contract!MakeOwn(t, b, n)
      BY <1>3, <1>4, <1>5, <2>2, <2>3 DEF Contract!MakeOwn, OwnedBy, Spares
    <2> QED BY <1>4, <2>4 DEF Capacities
  <1> QED BY <1>6, <1>7

\* A buffer comes back: the call holds it for the caller until addFirst makes it
\* spare, or until returnValue finds no deque for it.
LEMMA ReturnSteps ==
    ASSUME IndInv, NEW t \in Threads,
           AddFirst(t) \/ returnValue(t)
    PROVE  Hidden \/ \E b \in Buffers : Contract!Return(t, b) \/ Contract!Forget(t, b)
  <1> USE DEF IndInv
  <1> DEFINE b == value[t]
  <1>0. b \in Buffers /\ b # NULL /\ b \in OwnedBy[t] /\ size[t] = 0
    BY DEF AddFirst, returnValue, Located, TypeOK, OwnedBy
  <1>1. ASSUME held' = held, value' = [value EXCEPT ![t] = NULL]
        PROVE  OwnedBy' = [OwnedBy EXCEPT ![t] = OwnedBy[t] \ {b}]
    <2>1. b \notin held[t]
      BY <1>0 DEF OneReturner
    <2> QED BY <1>1, <2>1 DEF OwnedBy, TypeOK
  <1>2. CASE AddFirst(t)
    <2>0. key[t] \in Buckets /\ pc[t] = "addFirst"
      BY <1>2 DEF AddFirst, TypeOK, Located
    <2>1. PICK r \in Refs \ UsedRefs :
            /\ referent' = [referent EXCEPT ![r] = b]
            /\ queue' = [queue EXCEPT ![key[t]] = <<r>> \o queue[key[t]]]
      BY <1>2 DEF AddFirst
    <2>2. /\ value' = [value EXCEPT ![t] = NULL]
          /\ pc' = [pc EXCEPT ![t] = "peekLast"]
          /\ UNCHANGED <<size, entry, capacity, foreign, held>>
      BY <1>2 DEF AddFirst, Goto, bufferVars
    <2>3. r \notin Obtainable /\ r \notin Range(queue[key[t]])
      BY <2>0 DEF UsedRefs, Queued, Obtainable, Polled
    <2>4. /\ Range(queue'[key[t]]) = Range(queue[key[t]]) \union {r}
          /\ \A l \in Buckets \ {key[t]} : queue'[l] = queue[l]
      <3>1. queue[key[t]] \in Seq(Refs) /\ IsInjective(queue[key[t]])
        BY <2>0 DEF TypeOK, OnePlace
      <3> QED BY <2>0, <2>1, <2>3, <3>1, AddLemma DEF TypeOK
    <2>5. Obtainable' = Obtainable \union {r}
      BY <2>0, <2>2, <2>4 DEF TypeOK, Obtainable, Queued, Polled
    <2> HIDE DEF b
    <2>6. referent'[r] = b /\ \A s \in Obtainable : referent'[s] = referent[s]
      BY <2>1, <2>3 DEF TypeOK
    <2>7. Spares' = Spares \union {b}
      BY <1>0, <2>5, <2>6 DEF Spares
    <2>8. OwnedBy' = [OwnedBy EXCEPT ![t] = OwnedBy[t] \ {b}]
      BY <1>1, <2>2
    <2>9. PICK c \in Buffers : c = b
      BY <1>0
    <2>10. Contract!Return(t, c)
      BY <1>0, <2>2, <2>7, <2>8, <2>9 DEF Contract!Return, OwnedBy, Spares
    <2> QED BY <2>10
  <1>3. CASE returnValue(t)
    <2>1. /\ size' = size /\ Obtainable' = Obtainable
          /\ UNCHANGED <<referent, capacity, foreign, held>>
      BY <1>0, <1>3 DEF returnValue, Return, Goto, poolVars, bufferVars, TypeOK, Obtainable,
                        Queued, Polled
    <2>2. Spares' = Spares
      BY <2>1, SameSpares
    <2>3. CASE value' = value
      BY <2>1, <2>2, <2>3 DEF Hidden, OwnedBy
    <2>4. CASE value' = [value EXCEPT ![t] = NULL]
      <3> HIDE DEF b
      <3>1. OwnedBy' = [OwnedBy EXCEPT ![t] = OwnedBy[t] \ {b}]
        BY <1>1, <2>1, <2>4
      <3>2. PICK c \in Buffers : c = b
        BY <1>0
      <3>3. Contract!Forget(t, c)
        BY <1>0, <2>1, <2>2, <3>1, <3>2 DEF Contract!Forget, OwnedBy, Spares
      <3> QED BY <3>3
    <2> QED BY <1>3, <2>3, <2>4 DEF returnValue
  <1> QED BY <1>2, <1>3

\* A caller that passes a buffer to release still owns it, in the hands of the
\* call; one that loses a buffer, or uses it, and the collector.
LEMMA CallerSteps ==
    ASSUME IndInv, NEW t \in Threads, NEW b \in Buffers,
           release(t, b) \/ Use(t, b) \/ Forget(t, b)
    PROVE  Hidden \/ Contract!Forget(t, b)
  <1> USE DEF IndInv
  <1>1. Obtainable' = Obtainable /\ UNCHANGED <<referent, capacity, foreign, size>>
    BY DEF release, Use, Forget, Goto, threadVars, poolVars, TypeOK, Obtainable, Queued, Polled
  <1>2. Spares' = Spares
    BY <1>1, SameSpares
  <1>3. CASE release(t, b)
    <2>1. /\ held' = [held EXCEPT ![t] = held[t] \ {b}]
          /\ value' = [value EXCEPT ![t] = b]
          /\ b \in held[t] /\ value[t] = NULL
      BY <1>3 DEF release, Located
    <2>2. OwnedBy' = OwnedBy
      BY <2>1, NullAssumption DEF OwnedBy, TypeOK
    <2> QED BY <1>1, <1>2, <2>2 DEF Hidden
  <1>4. CASE Use(t, b)
    BY <1>1, <1>2, <1>4 DEF Use, threadVars, Hidden, OwnedBy
  <1>5. CASE Forget(t, b)
    <2>1. /\ held' = [held EXCEPT ![t] = held[t] \ {b}]
          /\ value' = value /\ b \in held[t] /\ value[t] # b
      BY <1>5, NullAssumption DEF Forget, threadVars, OneReturner
    <2>2. OwnedBy' = [OwnedBy EXCEPT ![t] = OwnedBy[t] \ {b}] /\ b \in OwnedBy[t]
      BY <2>1 DEF OwnedBy, TypeOK
    <2> QED BY <1>1, <1>2, <2>2 DEF Contract!Forget, OwnedBy, Spares
  <1> QED BY <1>3, <1>4, <1>5

\* The collector takes a spare buffer, or one that no call can reach any more.
LEMMA CollectStep ==
    ASSUME IndInv, NEW b \in Buffers, Collect(b)
    PROVE  Hidden \/ Contract!Evict(b)
  <1> USE DEF IndInv
  <1>1. /\ Obtainable' = Obtainable /\ Obtainable \subseteq Refs
        /\ UNCHANGED <<capacity, foreign, size, OwnedBy>>
    BY DEF Collect, threadVars, bufferVars, Obtainable, Queued, Polled, OwnedBy
  <1>2. \A r \in Obtainable : referent'[r] = IF referent[r] = b THEN NULL ELSE referent[r]
    BY <1>1 DEF Collect
  <1>3. Spares' = Spares \ {b}
    BY <1>1, <1>2, NullAssumption DEF Spares
  <1>4. CASE b \in Spares
    BY <1>1, <1>3, <1>4 DEF Contract!Evict, OwnedBy, Spares
  <1>5. CASE b \notin Spares
    BY <1>1, <1>3, <1>5 DEF Hidden
  <1> QED BY <1>4, <1>5

-----------------------------------------------------------------------------
\* Every step of CachingBufferPool is a step of the contract, or invisible to it.
LEMMA RefinesNext == IndInv /\ [Next]_vars => [Contract!Next]_(Contract!vars)
  <1> SUFFICES ASSUME IndInv, [Next]_vars PROVE [Contract!Next]_(Contract!vars)
    OBVIOUS
  <1>1. ASSUME NEW t \in Threads, (\E s \in Sizes : allocate(t, s)) \/ Reject(t) \/ CreateFails(t)
        PROVE  Contract!Next
    BY <1>1, AskSteps DEF Contract!Next
  <1>2. ASSUME NEW t \in Threads, Deref(t) PROVE Hidden \/ Contract!Next
    BY <1>2, DerefStep DEF Contract!Next
  <1>3. ASSUME NEW t \in Threads, Create(t) \/ \E n \in ForeignSizes : MakeOwn(t, n)
        PROVE  Contract!Next
    BY <1>3, MakeSteps DEF Contract!Next
  <1>4. ASSUME NEW t \in Threads, AddFirst(t) \/ returnValue(t) PROVE Hidden \/ Contract!Next
    BY <1>4, ReturnSteps DEF Contract!Next
  <1>5. ASSUME NEW t \in Threads, NEW b \in Buffers, release(t, b) \/ Use(t, b) \/ Forget(t, b)
        PROVE  Hidden \/ Contract!Next
    BY <1>5, CallerSteps DEF Contract!Next
  <1>6. ASSUME NEW t \in Threads,
               \/ optimisticGetEntry(t) \/ PutIfAbsent(t) \/ PollFirst(t) \/ PeekLast(t)
               \/ CheckLast(t) \/ RemoveLast(t)
        PROVE  Hidden
    BY <1>6, HiddenSteps
  <1>7. ASSUME NEW b \in Buffers, Collect(b) PROVE Hidden \/ Contract!Next
    BY <1>7, CollectStep DEF Contract!Next
  <1>8. ASSUME UNCHANGED vars PROVE Hidden
    BY <1>8 DEF vars, Hidden, OwnedBy, Spares, Obtainable, Queued, Polled
  <1>9. Hidden \/ Contract!Next
    BY <1>1, <1>2, <1>3, <1>4, <1>5, <1>6, <1>7, <1>8 DEF Next, Step
  <1> QED BY <1>9, Mapped

\* CachingBufferPool keeps the promises of the BufferPool interface: one owner
\* per buffer, buffers as large as asked for, only the owner gives back.
THEOREM Implements == Spec => ImplementsContract
  BY RefinesInit, RefinesNext, Invariance, PTL DEF Spec, ImplementsContract, Contract!Spec
=============================================================================
