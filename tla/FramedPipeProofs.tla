-------------------------- MODULE FramedPipeProofs --------------------------
(***************************************************************************)
(* SnappyFramedInputStream, for streams of any length, frames and read     *)
(* arrays of any size, buffers that grow and allocations that fail, and    *)
(* however the channel cuts its answers: callers get the data of the       *)
(* frames in order, none of a frame whose checksum is wrong, and the end   *)
(* or a finished transfer only after all of them.  And                     *)
(* SnappyFramedOutputStream followed by it: every byte that was promised   *)
(* comes out again.                                                        *)
(*                                                                         *)
(* The invariant of the reader says of each program point where the next   *)
(* byte of the stream is, which buffers the stream owns, that the frame at *)
(* hand fits into them, and that what callers have with what is left of    *)
(* the array is the data of the frames read so far.  Payload is defined by *)
(* recursion over the frames; lemma Least stands in for induction.  The    *)
(* writer has the invariant of FramedOutputProofs, from which the channel  *)
(* holds the identifier and whole frames with the numbers 1, 2, and so on; *)
(* of such a stream a reader can meet nothing worse than its cut end or    *)
(* an allocation that fails.                                               *)
(***************************************************************************)
EXTENDS FramedPipe, FiniteSetTheorems, SequenceTheorems, TLAPS

-----------------------------------------------------------------------------
(* What a stream decompresses to.                                          *)

\* A set of numbers has a least element, since the intervals below its elements are
\* finite sets ordered by inclusion.  This stands in for induction.
LEMMA Least ==
  ASSUME NEW T, T \subseteq Nat, T # {}
  PROVE  \E m \in T : \A n \in T : m <= n
<1>1. PICK top \in T : TRUE
  OBVIOUS
<1> DEFINE S == 1..top
           F == {1..k : k \in {j \in T : j <= top}}
<1>2. IsWellFoundedOn(StrictSubsetOrdering(S), FiniteSubsetsOf(S))
  BY FS_StrictSubsetOrderingWellFounded
<1>3. ASSUME NEW X \in F
      PROVE  X \in FiniteSubsetsOf(S)
  <2>1. PICK k \in T : k <= top /\ X = 1..k
    OBVIOUS
  <2>2. k \in Int /\ 1 \in Int
    OBVIOUS
  <2>3. IsFiniteSet(1..k)
    BY <2>2, FS_Interval
  <2>4. X \in SUBSET S
    BY <2>1
  <2> QED
    BY <2>1, <2>3, <2>4 DEF FiniteSubsetsOf
<1>4. 1..top \in F
  OBVIOUS
<1>5. PICK X \in F : \A Y \in F : ~ (<<Y, X>> \in StrictSubsetOrdering(S))
  <2> HIDE DEF F, S
  <2>1. F \subseteq FiniteSubsetsOf(S) /\ F # {}
    BY <1>3, <1>4
  <2> QED
    BY <1>2, <2>1, WFMin
<1>6. PICK m \in T : m <= top /\ X = 1..m
  OBVIOUS
<1>7. ASSUME NEW n \in T, n < m
      PROVE  FALSE
  <2>1. 1..n \in F
    BY <1>6, <1>7
  <2>2. 1..n \subseteq 1..m /\ m \in 1..m /\ m \notin 1..n
    BY <1>7
  <2>3. 1..n \subseteq S /\ 1..m \subseteq S
    BY <1>6, <1>7
  <2>4. 1..n # 1..m
    BY <2>2
  <2>5. <<1..n, X>> \in StrictSubsetOrdering(S)
    <3> HIDE DEF S, F
    <3>1. 1..n \in SUBSET S /\ 1..m \in SUBSET S
      BY <2>3
    <3> QED
      BY <1>6, <2>2, <2>4, <3>1, Zenon DEF StrictSubsetOrdering
  <2> QED
    BY <1>5, <2>1, <2>5
<1> QED
  BY <1>7

\* The frames that have data.
HasBlock(f) == f.kind \in {"raw", "compressed"} /\ f.data # NULL

\* g is the data of the first i frames of s, for each i up to n.
IsPayload(g, s, n) ==
    g = [i \in 0..n |-> IF i = 0 THEN << >>
                        ELSE IF HasBlock(s[i]) THEN g[i - 1] \o s[i].data ELSE g[i - 1]]

\* Payload, as a function of the stream.
PayloadOf(s, n) ==
    LET g == CHOOSE h : IsPayload(h, s, n) IN g[n]

\* Payload is this function, of the stream that is read.
LEMMA PayloadIs == \A n : Payload(n) = PayloadOf(src, n)
BY DEF Payload, PayloadOf, IsPayload, HasBlock

\* The recursion defines something.
LEMMA PayloadExists ==
  ASSUME NEW s, NEW n \in Nat
  PROVE  \E g : IsPayload(g, s, n)
<1> DEFINE T == {k \in Nat : ~\E g : IsPayload(g, s, k)}
<1>1. SUFFICES ASSUME n \in T PROVE FALSE
  OBVIOUS
<1>2. PICK m \in T : \A k \in T : m <= k
  <2>1. T \subseteq Nat
    OBVIOUS
  <2> HIDE DEF T
  <2> QED
    BY <1>1, <2>1, Least
<1>3. CASE m = 0
  <2>1. IsPayload([i \in 0..0 |-> << >>], s, 0)
    BY DEF IsPayload
  <2> QED
    BY <1>2, <1>3, <2>1
<1>4. CASE m # 0
  <2>1. m - 1 \in Nat /\ m \in Nat
    BY <1>4
  <2>2. PICK g : IsPayload(g, s, m - 1)
    BY <1>2, <2>1
  <2> DEFINE last == IF HasBlock(s[m]) THEN g[m - 1] \o s[m].data ELSE g[m - 1]
             h == [i \in 0..m |-> IF i = m THEN last ELSE g[i]]
  <2>3. \A i \in 0..(m - 1) : h[i] = g[i]
    BY <2>1
  <2>4. \A i \in 0..(m - 1) : g[i] = IF i = 0 THEN << >>
            ELSE IF HasBlock(s[i]) THEN g[i - 1] \o s[i].data ELSE g[i - 1]
    BY <2>2 DEF IsPayload
  <2>5. h[m] = last /\ h[m - 1] = g[m - 1]
    BY <2>1, <2>3
  <2>6. ASSUME NEW i \in 0..m
        PROVE  h[i] = IF i = 0 THEN << >>
                      ELSE IF HasBlock(s[i]) THEN h[i - 1] \o s[i].data ELSE h[i - 1]
    <3> HIDE DEF h
    <3>1. CASE i = m
      BY <1>4, <2>5, <3>1 DEF last
    <3>2. CASE i # m /\ i # 0
      <4>1. i \in 0..(m - 1) /\ i - 1 \in 0..(m - 1)
        BY <2>1, <3>2
      <4> QED
        BY <2>3, <2>4, <3>2, <4>1
    <3>3. CASE i # m /\ i = 0
      <4>1. i \in 0..(m - 1)
        BY <2>1, <3>3
      <4> QED
        BY <2>3, <2>4, <3>3, <4>1
    <3> QED
      BY <3>1, <3>2, <3>3
  <2>7. IsPayload(h, s, m)
    <3>1. h = [i \in 0..m |-> h[i]]
      OBVIOUS
    <3> HIDE DEF h
    <3> QED
      BY <2>6, <3>1 DEF IsPayload
  <2> QED
    BY <1>2, <2>7
<1> QED
  BY <1>3, <1>4

\* Two such functions agree where both are defined.
LEMMA PayloadUnique ==
  ASSUME NEW s, NEW m \in Nat, NEW n \in Nat, NEW g, NEW h,
         IsPayload(g, s, m), IsPayload(h, s, n)
  PROVE  \A i \in Nat : i <= m /\ i <= n => g[i] = h[i]
<1> DEFINE T == {i \in Nat : i <= m /\ i <= n /\ g[i] # h[i]}
<1>1. SUFFICES ASSUME T # {} PROVE FALSE
  OBVIOUS
<1>2. PICK k \in T : \A i \in T : k <= i
  <2>1. T \subseteq Nat
    OBVIOUS
  <2> HIDE DEF T
  <2> QED
    BY <1>1, <2>1, Least
<1>3. \A i \in 0..m : g[i] = IF i = 0 THEN << >>
            ELSE IF HasBlock(s[i]) THEN g[i - 1] \o s[i].data ELSE g[i - 1]
  BY DEF IsPayload
<1>4. \A i \in 0..n : h[i] = IF i = 0 THEN << >>
            ELSE IF HasBlock(s[i]) THEN h[i - 1] \o s[i].data ELSE h[i - 1]
  BY DEF IsPayload
<1>5. k \in 0..m /\ k \in 0..n /\ g[k] # h[k]
  OBVIOUS
<1>6. CASE k = 0
  BY <1>3, <1>4, <1>5, <1>6
<1>7. CASE k # 0
  <2>1. k - 1 \in Nat /\ k - 1 < k /\ k - 1 <= m /\ k - 1 <= n
    BY <1>5, <1>7
  <2>2. g[k - 1] = h[k - 1]
    BY <1>2, <2>1
  <2> HIDE DEF T
  <2> QED
    BY <1>3, <1>4, <1>5, <1>7, <2>2
<1> QED
  BY <1>6, <1>7

\* What the first n + 1 frames decompress to.
LEMMA PayloadStep ==
  ASSUME NEW s, NEW n \in Nat
  PROVE  /\ PayloadOf(s, 0) = << >>
         /\ PayloadOf(s, n + 1) =
              IF HasBlock(s[n + 1]) THEN PayloadOf(s, n) \o s[n + 1].data ELSE PayloadOf(s, n)
<1>1. ASSUME NEW k \in Nat
      PROVE  \E g : IsPayload(g, s, k) /\ PayloadOf(s, k) = g[k]
  <2>1. \E g : IsPayload(g, s, k)
    BY PayloadExists
  <2>2. IsPayload(CHOOSE h : IsPayload(h, s, k), s, k)
    BY <2>1, Zenon
  <2> QED
    BY <2>2 DEF PayloadOf
<1>2. PICK z : IsPayload(z, s, 0) /\ PayloadOf(s, 0) = z[0]
  BY <1>1
<1>3. z[0] = << >>
  BY <1>2 DEF IsPayload
<1>4. PICK g : IsPayload(g, s, n) /\ PayloadOf(s, n) = g[n]
  BY <1>1
<1>5. n + 1 \in Nat
  OBVIOUS
<1>6. PICK h : IsPayload(h, s, n + 1) /\ PayloadOf(s, n + 1) = h[n + 1]
  BY <1>1, <1>5
<1>7. g[n] = h[n]
  <2>1. n <= n /\ n <= n + 1
    OBVIOUS
  <2> QED
    BY <1>4, <1>5, <1>6, <2>1, PayloadUnique
<1>8. h[n + 1] = IF HasBlock(s[n + 1]) THEN h[n] \o s[n + 1].data ELSE h[n]
  <2>1. n + 1 \in 0..(n + 1) /\ n + 1 # 0 /\ (n + 1) - 1 = n
    OBVIOUS
  <2> QED
    BY <1>6, <2>1 DEF IsPayload
<1> QED
  BY <1>2, <1>3, <1>4, <1>6, <1>7, <1>8

\* A size for which buffers can be had.
Fits(n) == n \in Nat /\ MaxCompressed(n) \in Nat /\ n <= MaxCompressed(n)

\* A stream that a reader may be given.
GoodStream(s) ==
    /\ s \in Seq(FrameSet)
    /\ \A i \in 1..Len(s) :
         /\ s[i].kind = "raw" => s[i].data # NULL /\ s[i].length = 4 + Len(s[i].data)
         /\ s[i].kind = "compressed" /\ "read" \in Calls => s[i].data # << >>
         /\ s[i].kind \in {"raw", "compressed"} => Fits(s[i].length)

\* The frames of a stream, their lengths and data.
LEMMA FrameFacts ==
  ASSUME NEW f \in FrameSet
  PROVE  /\ FrameLen(f) \in Nat /\ FrameLen(f) >= 4
         /\ f.kind \in {"id", "skip", "bad", "raw", "compressed"}
         /\ f.kind = "id" => FrameLen(f) = IDENTIFIER_SIZE
         /\ f.kind = "bad" => FrameLen(f) = 4
         /\ f.kind \in {"raw", "compressed"} =>
              f.length \in Nat /\ f.length > 4 /\ FrameLen(f) = 4 + f.length
         /\ HasBlock(f) => f.data \in Seq(Nat)
<1> USE DEF HasBlock, FrameLen, IDENTIFIER_SIZE
<1>1. CASE f \in [kind : {"id", "bad"}]
  BY <1>1
<1>2. CASE f \in [kind : {"skip"}, length : Nat]
  BY <1>2
<1>3. CASE f \in [kind : {"raw", "compressed"}, length : Nat \ 0..4, data : {NULL} \cup Seq(Nat),
                 crcOk : BOOLEAN]
  BY <1>3
<1> QED
  BY <1>1, <1>2, <1>3 DEF FrameSet

\* Data are bytes.
LEMMA PayloadType ==
  ASSUME NEW s \in Seq(FrameSet), NEW n \in 0..Len(s)
  PROVE  PayloadOf(s, n) \in Seq(Nat)
<1> DEFINE T == {k \in Nat : k <= Len(s) /\ PayloadOf(s, k) \notin Seq(Nat)}
<1>1. SUFFICES ASSUME T # {} PROVE FALSE
  OBVIOUS
<1>2. PICK m \in T : \A k \in T : m <= k
  <2>1. T \subseteq Nat
    OBVIOUS
  <2> HIDE DEF T
  <2> QED
    BY <1>1, <2>1, Least
<1>3. m # 0
  <2>1. PayloadOf(s, 0) = << >>
    BY PayloadStep
  <2>2. << >> \in Seq(Nat)
    OBVIOUS
  <2> QED
    BY <1>2, <2>1, <2>2
<1>4. m - 1 \in Nat /\ m - 1 < m /\ m \in 1..Len(s) /\ (m - 1) + 1 = m
  BY <1>2, <1>3
<1>5. PayloadOf(s, m - 1) \in Seq(Nat)
  <2>1. m - 1 \notin T
    BY <1>2, <1>4
  <2> QED
    BY <1>4, <2>1
<1>6. s[m] \in FrameSet
  BY <1>4
<1>7. HasBlock(s[m]) => s[m].data \in Seq(Nat)
  BY <1>6, FrameFacts
<1>8. PayloadOf(s, m) = IF HasBlock(s[m]) THEN PayloadOf(s, m - 1) \o s[m].data
                                          ELSE PayloadOf(s, m - 1)
  BY <1>4, PayloadStep
<1>9. PayloadOf(s, m) \in Seq(Nat)
  BY <1>5, <1>7, <1>8
<1> QED
  BY <1>2, <1>9

\* p is the beginning of q.
Begins(p, q) == Len(p) <= Len(q) /\ \A i \in 1..Len(p) : q[i] = p[i]

\* Begins is IsPrefix, by positions.
LEMMA BeginsIsPrefix ==
  ASSUME NEW p \in Seq(Nat), NEW q \in Seq(Nat), Begins(p, q)
  PROVE  IsPrefix(p, q)
BY DEF Begins, IsPrefix

\* What begins a sequence begins every longer one.
LEMMA BeginsLonger ==
  ASSUME NEW p \in Seq(Nat), NEW q \in Seq(Nat), NEW r \in Seq(Nat), Begins(p, q)
  PROVE  Begins(p, q \o r)
<1>1. Len(q \o r) = Len(q) + Len(r) /\ \A i \in 1..Len(q) : (q \o r)[i] = q[i]
  OBVIOUS
<1>2. Len(p) \in Nat /\ Len(q) \in Nat /\ Len(r) \in Nat
  OBVIOUS
<1> QED
  BY <1>1, <1>2 DEF Begins

\* The data of the first frames begin the data of more of them.
LEMMA PayloadGrows ==
  ASSUME NEW s \in Seq(FrameSet), NEW n \in 0..Len(s), NEW k \in 0..n
  PROVE  Begins(PayloadOf(s, k), PayloadOf(s, n))
<1> DEFINE T == {i \in Nat : k <= i /\ i <= n /\ ~Begins(PayloadOf(s, k), PayloadOf(s, i))}
<1>1. SUFFICES ASSUME T # {} PROVE FALSE
  OBVIOUS
<1>2. PICK m \in T : \A i \in T : m <= i
  <2>1. T \subseteq Nat
    OBVIOUS
  <2> HIDE DEF T
  <2> QED
    BY <1>1, <2>1, Least
<1>3. m # k
  <2>1. PayloadOf(s, k) \in Seq(Nat)
    BY PayloadType
  <2>2. Begins(PayloadOf(s, k), PayloadOf(s, k))
    BY <2>1 DEF Begins
  <2> QED
    BY <1>2, <2>2
<1>4. /\ m - 1 \in Nat /\ m - 1 < m /\ m \in 1..Len(s) /\ (m - 1) + 1 = m
      /\ k <= m - 1 /\ m - 1 <= n /\ m - 1 \in 0..Len(s)
  BY <1>2, <1>3
<1>5. Begins(PayloadOf(s, k), PayloadOf(s, m - 1))
  <2>1. m - 1 \notin T
    BY <1>2, <1>4
  <2> QED
    BY <1>4, <2>1
<1>6. s[m] \in FrameSet /\ PayloadOf(s, m - 1) \in Seq(Nat) /\ PayloadOf(s, k) \in Seq(Nat)
  BY <1>4, PayloadType
<1>7. HasBlock(s[m]) => s[m].data \in Seq(Nat)
  BY <1>6, FrameFacts
<1>8. PayloadOf(s, m) = IF HasBlock(s[m]) THEN PayloadOf(s, m - 1) \o s[m].data
                                          ELSE PayloadOf(s, m - 1)
  BY <1>4, PayloadStep
<1>9. Begins(PayloadOf(s, k), PayloadOf(s, m))
  BY <1>5, <1>6, <1>7, <1>8, BeginsLonger
<1> QED
  BY <1>2, <1>9

-----------------------------------------------------------------------------
(* What callers took out of the array buffer.                              *)

\* out, and what array a has from c up to l, are all.
Taken(out, a, c, l, all) ==
    /\ \A i \in 1..Len(out) : all[i] = out[i]
    /\ \A i \in 1..(l - c) : all[Len(out) + i] = a[c + i]

\* Two sequences joined.
LEMMA Joined ==
  ASSUME NEW p \in Seq(Nat), NEW q \in Seq(Nat)
  PROVE  /\ p \o q \in Seq(Nat) /\ Len(p \o q) = Len(p) + Len(q)
         /\ \A i \in 1..Len(p) : (p \o q)[i] = p[i]
         /\ \A i \in 1..Len(q) : (p \o q)[Len(p) + i] = q[i]
  OBVIOUS

\* A part of an array.
LEMMA Slice ==
  ASSUME NEW a \in Seq(Nat), NEW c \in Nat, NEW n \in Nat, c + n <= Len(a)
  PROVE  /\ SubSeq(a, c + 1, c + n) \in Seq(Nat) /\ Len(SubSeq(a, c + 1, c + n)) = n
         /\ \A i \in 1..n : SubSeq(a, c + 1, c + n)[i] = a[c + i]
<1> DEFINE bs == SubSeq(a, c + 1, c + n)
<1>1. c + 1 \in Int /\ c + n \in Int /\ (c + n) - (c + 1) + 1 = n
  OBVIOUS
<1>2. \A i \in (c + 1)..(c + n) : a[i] \in Nat
  <2>1. (c + 1)..(c + n) \subseteq 1..Len(a)
    OBVIOUS
  <2> QED
    BY <2>1
<1>3. /\ bs \in Seq(Nat)
      /\ Len(bs) = IF c + 1 <= c + n THEN (c + n) - (c + 1) + 1 ELSE 0
      /\ \A i \in 1..((c + n) - (c + 1) + 1) : bs[i] = a[(c + 1) + i - 1]
  BY <1>1, <1>2, SubSeqProperties
<1> HIDE DEF bs
<1>4. Len(bs) = n
  BY <1>3
<1>5. ASSUME NEW i \in 1..n PROVE bs[i] = a[c + i]
  <2>1. (c + 1) + i - 1 = c + i
    OBVIOUS
  <2> QED
    BY <1>1, <1>3, <2>1
<1>6. bs \in Seq(Nat) /\ Len(bs) = n /\ \A i \in 1..n : bs[i] = a[c + i]
  BY <1>3, <1>4, <1>5
<1> QED
  BY <1>6 DEF bs

\* bs is what a has after its first c bytes.
Copied(bs, a, c) == \A i \in 1..Len(bs) : bs[i] = a[c + i]

\* Bytes are copied.
LEMMA Copy ==
  ASSUME NEW out \in Seq(Nat), NEW a \in Seq(Nat), NEW all \in Seq(Nat), NEW bs \in Seq(Nat),
         NEW c \in Nat, NEW d \in Nat, NEW l \in Nat, d = c + Len(bs), d <= l,
         Len(out) + (l - c) = Len(all)
  PROVE  Taken(out, a, c, l, all) /\ Copied(bs, a, c) => Taken(out \o bs, a, d, l, all)
<1> USE DEF Copied
<1>0. PICK n \in Nat : n = Len(bs) /\ d = c + n
  OBVIOUS
<1>1. /\ Len(out \o bs) = Len(out) + n
      /\ \A i \in 1..Len(out) : (out \o bs)[i] = out[i]
      /\ \A i \in 1..n : (out \o bs)[Len(out) + i] = bs[i]
  BY <1>0, Joined
<1>2. Len(out) \in Nat /\ Len(all) \in Nat
  OBVIOUS
<1>3. ASSUME Taken(out, a, c, l, all), \A i \in 1..n : bs[i] = a[c + i]
      PROVE  Taken(out \o bs, a, c + n, l, all)
  <2>1. ASSUME NEW i \in 1..Len(out \o bs)
        PROVE  all[i] = (out \o bs)[i]
    <3>1. CASE i <= Len(out)
      BY <1>1, <1>2, <1>3, <3>1 DEF Taken
    <3>2. CASE i > Len(out)
      <4>1. PICK j \in 1..n : i = Len(out) + j
        <5>1. i - Len(out) \in 1..n /\ i = Len(out) + (i - Len(out))
          BY <1>1, <1>2, <3>2
        <5> QED
          BY <5>1
      <4>2. (out \o bs)[i] = a[c + j]
        BY <1>1, <1>3, <4>1
      <4>3. j \in 1..(l - c)
        BY <1>0
      <4> QED
        BY <1>3, <4>1, <4>2, <4>3 DEF Taken
    <3>3. i \in Int
      OBVIOUS
    <3>4. i <= Len(out) \/ i > Len(out)
      BY <1>2, <3>3
    <3> QED
      BY <3>1, <3>2, <3>4
  <2>2. ASSUME NEW i \in 1..(l - (c + n))
        PROVE  all[Len(out \o bs) + i] = a[(c + n) + i]
    <3>1. n + i \in 1..(l - c) /\ c + (n + i) = (c + n) + i
          /\ Len(out) + (n + i) = Len(out \o bs) + i
      BY <1>0, <1>1, <1>2
    <3>2. all[Len(out) + (n + i)] = a[c + (n + i)]
      BY <1>3, <3>1 DEF Taken
    <3> QED
      BY <3>1, <3>2
  <2> QED
    BY <2>1, <2>2 DEF Taken
<1> QED
  BY <1>0, <1>3

\* When all bytes were taken, it does not matter what the array has.
LEMMA UsedUp ==
  ASSUME NEW out, NEW a, NEW bs, NEW all, NEW c \in Nat, NEW d \in Nat, Taken(out, a, c, c, all)
  PROVE  Taken(out, bs, d, d, all)
<1>1. c - c = 0 /\ d - d = 0 /\ 1..0 = {}
  OBVIOUS
<1> QED
  BY <1>1 DEF Taken

\* The next block is there.
LEMMA NextBlock ==
  ASSUME NEW out \in Seq(Nat), NEW a, NEW bs \in Seq(Nat), NEW data \in Seq(Nat), NEW all \in Seq(Nat),
         NEW c \in Nat, Len(out) + (c - c) = Len(all), \A i \in 1..Len(data) : bs[i] = data[i]
  PROVE  /\ Len(out) + (Len(data) - 0) = Len(all \o data)
         /\ Taken(out, a, c, c, all) => Taken(out, bs, 0, Len(data), all \o data)
<1>1. Len(out) = Len(all) /\ Len(out) \in Nat /\ Len(data) \in Nat
  <2>1. Len(out) \in Nat /\ Len(data) \in Nat /\ Len(all) \in Nat
    OBVIOUS
  <2>2. \A x \in Nat : x + (c - c) = x
    OBVIOUS
  <2> QED
    BY <2>1, <2>2
<1>2. /\ Len(all \o data) = Len(all) + Len(data)
      /\ \A i \in 1..Len(all) : (all \o data)[i] = all[i]
      /\ \A i \in 1..Len(data) : (all \o data)[Len(all) + i] = data[i]
  BY Joined
<1>3. Len(data) - 0 = Len(data) /\ \A i \in 1..Len(data) : 0 + i = i
  BY <1>1
<1>4. Len(out) + (Len(data) - 0) = Len(all \o data)
  BY <1>1, <1>2
<1>5. ASSUME Taken(out, a, c, c, all)
      PROVE  Taken(out, bs, 0, Len(data), all \o data)
  <2>1. \A i \in 1..Len(out) : (all \o data)[i] = out[i]
    BY <1>1, <1>2, <1>5 DEF Taken
  <2> HIDE DEF Taken
  <2>2. \A i \in 1..Len(data) : (all \o data)[Len(out) + i] = bs[0 + i]
    BY <1>1, <1>2, <1>3
  <2> QED
    BY <1>3, <2>1, <2>2 DEF Taken
<1> QED
  BY <1>4, <1>5

\* The data of a frame are put into the array.
LEMMA Reused ==
  ASSUME NEW a \in Seq(Nat), NEW data \in Seq(Nat), Len(data) <= Len(a)
  PROVE  /\ data \o SubSeq(a, Len(data) + 1, Len(a)) \in Seq(Nat)
         /\ Len(data \o SubSeq(a, Len(data) + 1, Len(a))) = Len(a)
         /\ \A i \in 1..Len(data) : (data \o SubSeq(a, Len(data) + 1, Len(a)))[i] = data[i]
<1> DEFINE r == SubSeq(a, Len(data) + 1, Len(a))
<1>1. Len(a) \in Nat /\ Len(data) \in Nat
  OBVIOUS
<1>2. r \in Seq(Nat) /\ Len(r) = Len(a) - Len(data)
  BY <1>1
<1> HIDE DEF r
<1>3. /\ data \o r \in Seq(Nat) /\ Len(data \o r) = Len(data) + Len(r)
      /\ \A i \in 1..Len(data) : (data \o r)[i] = data[i]
  BY <1>2, Joined
<1>4. Len(data \o r) = Len(a)
  BY <1>1, <1>2, <1>3
<1> QED
  BY <1>3, <1>4 DEF r

\* Zeros are an array.
LEMMA ZerosFacts ==
  ASSUME NEW n \in Nat
  PROVE  /\ Zeros(n) \in Seq(Nat) /\ Len(Zeros(n)) = n
BY DEF Zeros

-----------------------------------------------------------------------------
(* The inductive invariant.                                                *)

\* Between the frames, and inside the reading of one.
Between == {"idle", "ensure", "ready"}
Inside == {"blockHeader", "skip", "grow", "frame", "growData", "decode"}

Ids == Nat \cup {NULL}
PoolType == [owned : SUBSET Nat, next : Nat, twice : BOOLEAN]

\* Types.
Typed ==
    /\ GoodStream(src) /\ present \in Cuts(src)
    /\ pc \in {"new", "identifier", "aborted", "broken"} \cup Between \cup Inside
    /\ call \in {"read", "readArray", "toStream", "toChannel"} /\ len \in Nat /\ got \in Nat
    /\ pool \in PoolType
    /\ slot \in [Slots -> Ids]
    /\ bb \in [id : Ids, capacity : Nat, stale : BOOLEAN]
    /\ inputCapacity \in Nat /\ directCapacity \in Nat
    /\ buffer \in Seq(Nat) /\ valid \in Nat /\ position \in 0..valid
    /\ eof \in BOOLEAN /\ closed \in BOOLEAN /\ ended \in BOOLEAN /\ failed \in BOOLEAN
    /\ delivered \in Seq(Nat)

\* The next byte to read is one of the bytes that are there, or the end.
Position ==
    /\ at \in 1..(Len(src) + 1) /\ off \in Nat
    /\ IF at <= Len(src) THEN off < FrameLen(src[at]) ELSE off = 0
    /\ at = Len(src) => off <= present
    /\ at = Len(src) + 1 /\ src # << >> => present = FrameLen(src[Len(src)])

\* The last got bytes are those of one frame, from its beginning on.
InFrame == \/ at <= Len(src) /\ off = got
           \/ at > 1 /\ off = 0 /\ got = FrameLen(src[at - 1])

\* The identifier is being read: a good one is a frame.
IdentifierAt ==
    /\ got <= IDENTIFIER_SIZE
    /\ src = << >> => got = 0
    /\ src # << >> /\ src[1].kind = "id" =>
         (at = 1 /\ off = got) \/ (at = 2 /\ off = 0 /\ got = IDENTIFIER_SIZE)

\* The buffers of a stream that works: three different ones, owned, and large enough.
Working(p, sl) ==
    /\ p.owned = {sl[x] : x \in Slots} /\ sl \in [Slots -> 1..(p.next - 1)]
    /\ \A x, y \in Slots : sl[x] = sl[y] => x = y

\* What is owned is owned by a field, and a closed stream owns nothing.
Buffers ==
    /\ pool.next > 0 /\ pool.owned \subseteq 1..(pool.next - 1)
    /\ pool.twice => failed
    /\ pc = "new" => pool.owned = {} /\ slot = [x \in Slots |-> NULL]
    /\ pc = "broken" => pool.owned \subseteq {slot[x] : x \in Slots} /\ ~closed /\ failed
    /\ closed => pool.owned = {} /\ slot = [x \in Slots |-> NULL] /\ pc = "idle"
    /\ pc \in {"identifier"} \cup Between \cup Inside /\ ~closed =>
         Working(pool, slot) /\ Len(buffer) = directCapacity /\ inputCapacity <= directCapacity

NoData == delivered = << >> /\ valid = 0 /\ position = 0 /\ ~eof /\ ~ended /\ ~closed

\* What holds at each place of the program.
Place ==
    /\ call # "toChannel" => bb.id = NULL
    /\ pc = "new" => at = 1 /\ off = 0 /\ got = 0
    /\ pc \in {"new", "identifier"} => NoData
    /\ pc = "identifier" => IdentifierAt
    /\ pc = "aborted" => failed
    /\ pc = "broken" => position = valid
    /\ pc \in Between /\ ~closed => got = 0 /\ (off = 0 \/ AtEnd) /\ at > 1
    /\ pc \in Between => (position < valid => valid <= Len(buffer))
    /\ pc \in {"ensure", "ready"} \cup Inside => call \in Calls /\ ~closed
    /\ pc = "ready" => valid <= Len(buffer) /\ (call = "read" => position < valid)
    /\ eof => position = valid
    /\ pc \in Inside => position = valid /\ at > 1 /\ ~eof
    /\ pc = "blockHeader" => got <= 4 /\ IF got = 0 THEN off = 0 \/ AtEnd ELSE InFrame

\* What is known of the frame that is being read, once its header is there.
FramePlace ==
    /\ pc \in Inside \ {"blockHeader"} => 4 <= got /\ got <= FrameLen(Frame) /\ InFrame
    /\ pc = "skip" => Frame.kind \in {"id", "skip"}
    /\ pc \in {"grow", "frame", "growData", "decode"} => Frame.kind \in {"raw", "compressed"}
    /\ pc \in {"frame", "growData", "decode"} => Frame.length <= inputCapacity
    /\ pc \in {"growData", "decode"} => got = FrameLen(Frame) /\ Frame.data # NULL
    /\ pc = "growData" => Len(Frame.data) > directCapacity
    /\ pc = "decode" => Len(Frame.data) <= directCapacity

\* The number of frames before the one that is being read.
Before == IF pc \in Inside /\ off = 0 /\ got > 0 THEN at - 2 ELSE at - 1

\* What callers have and what is left in the array are the data of these frames; after a
\* transfer that went on with an array given back, only their number is right.
DataInv ==
    pc \in Between \cup Inside /\ ~failed =>
      /\ Len(delivered) + (valid - position) = Len(PayloadOf(src, Before))
      /\ ~bb.stale => Taken(delivered, buffer, position, valid, PayloadOf(src, Before))

\* The checksums of the first n frames are right, or not looked at.
Sound(n) == VerifyChecksums => \A i \in 1..n : HasBlock(src[i]) => src[i].crcOk

\* If the stream lost its end, that was part of a frame that is skipped.
SkippedEnd == Truncated => src[Len(src)].kind \in {"id", "skip"} /\ present >= 4

\* The end of the input is met between two frames or in one that is skipped, and -1 is
\* returned there.
Ends ==
    ~failed =>
      /\ pc \in Between \cup Inside => Sound(Before)
      /\ eof => AtEnd /\ SkippedEnd
      /\ pc \in Between \cup {"blockHeader"} /\ got = 0 /\ off # 0 => AtEnd /\ SkippedEnd
      /\ ended => eof

IInv == Typed /\ Position /\ Buffers /\ Place /\ FramePlace /\ DataInv /\ Ends

-----------------------------------------------------------------------------
(* The buffers.                                                            *)

\* What Release does to the pool.
LEMMA Releasing ==
  ASSUME NEW p \in PoolType, NEW S
  PROVE  \E ids : /\ ids = {slot[x] : x \in S} \ {NULL}
                  /\ Release(p, S) = [owned |-> p.owned \ ids, next |-> p.next,
                                      twice |-> (p.twice \/ ~(ids \subseteq p.owned))]
<1> DEFINE ids == {slot[x] : x \in S} \ {NULL}
<1>1. PICK o, k, t : p = [owned |-> o, next |-> k, twice |-> t]
  BY DEF PoolType
<1>2. Release(p, S) = [p EXCEPT !.owned = @ \ ids, !.twice = @ \/ ~(ids \subseteq p.owned)]
  BY DEF Release
<1> HIDE DEF ids
<1>3. Release(p, S) = [owned |-> p.owned \ ids, next |-> p.next,
                       twice |-> (p.twice \/ ~(ids \subseteq p.owned))]
  BY <1>1, <1>2
<1> QED
  BY <1>3, Zenon DEF ids

\* The fields in S of a working stream are released.
LEMMA ReleaseWorking ==
  ASSUME pool \in PoolType, Working(pool, slot), NEW S, S \subseteq Slots
  PROVE  Release(pool, S) = [owned |-> {slot[x] : x \in Slots \ S}, next |-> pool.next,
                             twice |-> pool.twice]
<1>1. NULL \notin Nat /\ pool.next \in Nat
  BY CallsAssumption DEF PoolType
<1>2. \A x \in Slots : slot[x] \in Nat
  BY <1>1 DEF Working
<1>3. PICK ids : /\ ids = {slot[x] : x \in S} \ {NULL}
                 /\ Release(pool, S) = [owned |-> pool.owned \ ids, next |-> pool.next,
                                        twice |-> (pool.twice \/ ~(ids \subseteq pool.owned))]
  BY Releasing
<1>4. ids = {slot[x] : x \in S}
  BY <1>1, <1>2, <1>3
<1>5. ids \subseteq pool.owned /\ pool.owned \ ids = {slot[x] : x \in Slots \ S}
  BY <1>4 DEF Working
<1>7. (pool.twice \/ ~(ids \subseteq pool.owned)) = pool.twice
  <2>1. pool.twice \in BOOLEAN
    BY DEF PoolType
  <2> QED
    BY <1>5, <2>1
<1> QED
  BY <1>3, <1>5, <1>7

\* No field has a buffer.
LEMMA ReleaseNone ==
  ASSUME pool \in PoolType, slot = [x \in Slots |-> NULL]
  PROVE  Release(pool, Slots) = pool
<1>1. PICK ids : /\ ids = {slot[x] : x \in Slots} \ {NULL}
                 /\ Release(pool, Slots) =
                      [owned |-> pool.owned \ ids, next |-> pool.next,
                       twice |-> (pool.twice \/ ~(ids \subseteq pool.owned))]
  BY Releasing
<1>2. ids = {}
  BY <1>1
<1>3. PICK o \in SUBSET Nat, k \in Nat, t \in BOOLEAN :
           pool = [owned |-> o, next |-> k, twice |-> t]
  BY DEF PoolType
<1>4. Release(pool, Slots) = [owned |-> o \ {}, next |-> k, twice |-> (t \/ ~({} \subseteq o))]
  BY <1>1, <1>2, <1>3
<1>5. o \ {} = o /\ (t \/ ~({} \subseteq o)) = t
  BY <1>3
<1> QED
  BY <1>3, <1>4, <1>5

\* Everything that fields own is released.
LEMMA ReleaseAll ==
  ASSUME pool \in PoolType, pool.owned \subseteq {slot[x] : x \in Slots}
  PROVE  /\ Release(pool, Slots) \in PoolType
         /\ Release(pool, Slots).owned = {} /\ Release(pool, Slots).next = pool.next
<1>1. PICK ids : /\ ids = {slot[x] : x \in Slots} \ {NULL}
                 /\ Release(pool, Slots) =
                      [owned |-> pool.owned \ ids, next |-> pool.next,
                       twice |-> (pool.twice \/ ~(ids \subseteq pool.owned))]
  BY Releasing
<1>3. NULL \notin pool.owned
  BY CallsAssumption DEF PoolType
<1>4. pool.owned \ ids = {}
  BY <1>1, <1>3
<1>5. PICK t \in BOOLEAN : t = (pool.twice \/ ~(ids \subseteq pool.owned))
  OBVIOUS
<1>6. Release(pool, Slots) = [owned |-> {}, next |-> pool.next, twice |-> t]
  BY <1>1, <1>4, <1>5
<1>7. pool.next \in Nat
  BY DEF PoolType
<1> QED
  BY <1>6, <1>7 DEF PoolType

\* The fields that are not among the first m of xs.
Others(xs, m) == {y \in Slots : \A i \in 1..m : xs[i] # y}

\* The first m of xs are different fields.
Distinct(xs, m) ==
    (\A i \in 1..m : xs[i] \in Slots) /\ (\A i, j \in 1..m : xs[i] = xs[j] => i = j)

\* What is owned is owned by a field.
Owned(p, sl) ==
    /\ p \in PoolType /\ sl \in [Slots -> Ids]
    /\ p.next > 0 /\ p.owned \subseteq 1..(p.next - 1)
    /\ p.owned \subseteq {sl[x] : x \in Slots}

\* The first n of the m different fields xs are filled; all that others own is theirs.
LEMMA Allocating ==
  ASSUME NEW p \in PoolType, NEW sl \in [Slots -> Ids], NEW xs, NEW m \in Nat, NEW n \in 0..m,
         Distinct(xs, m), p.next > 0, p.owned \subseteq 1..(p.next - 1),
         p.owned = {sl[x] : x \in Others(xs, m)},
         \A x, y \in Others(xs, m) : sl[x] = sl[y] => x = y,
         NEW a, a = Allocate(p, sl, xs, n)
  PROVE  /\ Owned(a.pool, a.slot) /\ a.pool.twice = p.twice /\ (n = m => Working(a.pool, a.slot))
         /\ \A i \in 1..n : a.slot[xs[i]] >= p.next
<1> USE DEF Others, Distinct
<1>1. PICK o \in SUBSET Nat, k \in Nat, t \in BOOLEAN : p = [owned |-> o, next |-> k, twice |-> t]
  BY DEF PoolType
<1>2. PICK new : new = {k + i : i \in 0..(n - 1)}
  OBVIOUS
<1>3. a.pool = [owned |-> o \cup new, next |-> k + n, twice |-> t]
  <2>1. a.pool = [p EXCEPT !.owned = @ \union {p.next + i : i \in 0..(n - 1)}, !.next = @ + n]
    BY DEF Allocate
  <2> QED
    <3>1. p.owned = o /\ p.next = k
      BY <1>1
    <3>2. new = {p.next + i : i \in 0..(n - 1)}
      BY <1>2, <3>1
    <3>3. a.pool = [p EXCEPT !.owned = @ \union new, !.next = @ + n]
      BY <2>1, <3>2
    <3> QED
      BY <1>1, <3>3
<1>4. /\ k > 0 /\ o \subseteq 1..(k - 1) /\ o = {sl[x] : x \in Others(xs, m)}
      /\ p.owned = o /\ p.next = k /\ p.twice = t
  BY <1>1
<1>5. new \subseteq k..(k + n - 1) /\ new \subseteq Nat /\ n \in Nat
  BY <1>2
<1>6. a.pool \in PoolType /\ a.pool.next > 0 /\ a.pool.owned \subseteq 1..(a.pool.next - 1)
      /\ a.pool.twice = p.twice
  <2>1. o \cup new \subseteq 1..(k + n - 1) /\ o \cup new \subseteq Nat
    <3>1. 1..(k - 1) \subseteq 1..(k + n - 1) /\ k..(k + n - 1) \subseteq 1..(k + n - 1)
      BY <1>4, <1>5
    <3> QED
      BY <1>4, <1>5, <3>1
  <2>2. k + n \in Nat /\ k + n > 0
    BY <1>4, <1>5
  <2> QED
    BY <1>3, <1>4, <2>1, <2>2 DEF PoolType
<1>7. a.slot = [x \in Slots |-> IF \E i \in 1..n : xs[i] = x
                               THEN k + (CHOOSE i \in 1..n : xs[i] = x) - 1
                               ELSE sl[x]]
  BY <1>4 DEF Allocate
<1>8. ASSUME NEW i \in 1..n
      PROVE  xs[i] \in Slots /\ a.slot[xs[i]] = k + i - 1
  <2>1. i \in 1..m /\ xs[i] \in Slots
    OBVIOUS
  <2>2. (CHOOSE j \in 1..n : xs[j] = xs[i]) = i
    <3>1. PICK c : c = CHOOSE j \in 1..n : xs[j] = xs[i]
      OBVIOUS
    <3>2. c \in 1..n /\ xs[c] = xs[i]
      BY <3>1
    <3>3. c \in 1..m
      BY <3>2
    <3> QED
      BY <2>1, <3>1, <3>2, <3>3
  <2>3. \E j \in 1..n : xs[j] = xs[i]
    OBVIOUS
  <2> QED
    BY <1>7, <2>1, <2>2, <2>3
<1>9. ASSUME NEW x \in Slots, \A i \in 1..n : xs[i] # x
      PROVE  a.slot[x] = sl[x]
  BY <1>7, <1>9
<1>10. a.slot \in [Slots -> Ids]
  <2>1. ASSUME NEW x \in Slots
        PROVE  a.slot[x] \in Ids
    <3>1. CASE \E i \in 1..n : xs[i] = x
      <4>1. PICK i \in 1..n : xs[i] = x
        BY <3>1
      <4>2. a.slot[x] = k + i - 1
        BY <1>8, <4>1
      <4> QED
        BY <4>2 DEF Ids
    <3>2. CASE \A i \in 1..n : xs[i] # x
      BY <1>9, <3>2
    <3> QED
      BY <3>1, <3>2
  <2> QED
    BY <1>7, <2>1
<1>11. a.pool.owned = o \cup new
  BY <1>3
<1>12. ASSUME NEW v \in new
       PROVE  \E i \in 1..n : v = a.slot[xs[i]] /\ xs[i] \in Slots
  <2>1. PICK j \in 0..(n - 1) : v = k + j
    BY <1>2
  <2>2. j + 1 \in 1..n /\ k + (j + 1) - 1 = v
    BY <1>5, <2>1
  <2>3. a.slot[xs[j + 1]] = k + (j + 1) - 1 /\ xs[j + 1] \in Slots
    BY <1>8, <2>2
  <2> QED
    BY <2>2, <2>3
<1>13. a.pool.owned \subseteq {a.slot[x] : x \in Slots}
  <2>1. ASSUME NEW v \in o
        PROVE  \E x \in Slots : v = a.slot[x]
    <3>1. PICK x \in Slots : v = sl[x] /\ \A i \in 1..m : xs[i] # x
      BY <1>4
    <3>2. \A i \in 1..n : xs[i] # x
      BY <3>1
    <3> QED
      BY <1>9, <3>1, <3>2
  <2>2. ASSUME NEW v \in new
        PROVE  \E x \in Slots : v = a.slot[x]
    BY <1>12
  <2>3. ASSUME NEW v \in a.pool.owned
        PROVE  v \in {a.slot[x] : x \in Slots}
    <3>1. \E x \in Slots : v = a.slot[x]
      BY <1>11, <2>1, <2>2
    <3> QED
      BY <3>1, Zenon
  <2> QED
    BY <2>3, Zenon
<1>14. ASSUME n = m
       PROVE  Working(a.pool, a.slot)
  <2>1. ASSUME NEW x \in Slots
        PROVE  \/ a.slot[x] \in o /\ a.slot[x] = sl[x] /\ \A i \in 1..m : xs[i] # x
               \/ \E i \in 1..m : x = xs[i] /\ a.slot[x] = k + i - 1
    <3>1. CASE \E i \in 1..n : xs[i] = x
      <4>1. PICK i \in 1..n : xs[i] = x
        BY <3>1
      <4>2. a.slot[x] = k + i - 1
        BY <1>8, <4>1
      <4> QED
        BY <1>14, <4>1, <4>2
    <3>2. CASE \A i \in 1..n : xs[i] # x
      <4>1. a.slot[x] = sl[x]
        BY <1>9, <3>2
      <4> QED
        BY <1>4, <1>14, <3>2, <4>1
    <3> QED
      BY <3>1, <3>2
  <2>2. ASSUME NEW x \in Slots
        PROVE  a.slot[x] \in o \cup new /\ a.slot[x] \in 1..(k + n - 1)
    <3>1. CASE a.slot[x] \in o
      <4>1. a.slot[x] \in 1..(k - 1) /\ k \in Nat /\ n \in Nat
        BY <1>4, <1>5, <3>1
      <4>2. 1..(k - 1) \subseteq 1..(k + n - 1)
        BY <4>1
      <4> QED
        BY <3>1, <4>1, <4>2
    <3>2. CASE \E i \in 1..m : a.slot[x] = k + i - 1
      <4>1. PICK i \in 1..n : a.slot[x] = k + i - 1
        BY <1>14, <3>2
      <4>2. i - 1 \in 0..(n - 1) /\ k + (i - 1) = k + i - 1
        BY <1>5
      <4>3. a.slot[x] \in new
        BY <1>2, <4>1, <4>2
      <4> QED
        BY <1>4, <1>5, <4>1, <4>3
    <3> QED
      BY <2>1, <3>1, <3>2
  <2>3. a.pool.owned = {a.slot[x] : x \in Slots}
    BY <1>11, <1>13, <2>2
  <2>4. a.slot \in [Slots -> 1..(a.pool.next - 1)]
    <3>1. a.pool.next - 1 = k + n - 1
      BY <1>3, <1>5
    <3> QED
      BY <1>7, <2>2, <3>1
  <2>5. ASSUME NEW x \in Slots, NEW y \in Slots, a.slot[x] = a.slot[y]
        PROVE  x = y
    <3>1. CASE a.slot[x] \in o
      <4>1. a.slot[y] \in Nat /\ a.slot[y] < k
        <5>1. a.slot[y] \in 1..(k - 1)
          BY <1>4, <2>5, <3>1
        <5> QED
          BY <5>1
      <4>2. a.slot[y] = sl[y] /\ (\A i \in 1..m : xs[i] # y)
        <5>1. ~\E i \in 1..m : a.slot[y] = k + i - 1
          BY <4>1
        <5> QED
          BY <2>1, <5>1
      <4>3. a.slot[x] = sl[x] /\ (\A i \in 1..m : xs[i] # x)
        <5>1. ~\E i \in 1..m : a.slot[x] = k + i - 1
          BY <2>5, <4>1
        <5> QED
          BY <2>1, <5>1
      <4> QED
        BY <1>14, <2>5, <4>2, <4>3
    <3>2. CASE a.slot[x] \notin o
      <4>1. PICK i \in 1..m : x = xs[i] /\ a.slot[x] = k + i - 1
        BY <2>1, <3>2
      <4>2. PICK j \in 1..m : y = xs[j] /\ a.slot[y] = k + j - 1
        BY <2>1, <2>5, <3>2
      <4>3. i = j
        BY <2>5, <4>1, <4>2
      <4> QED
        BY <4>1, <4>2, <4>3
    <3> QED
      BY <3>1, <3>2
  <2> QED
    BY <2>3, <2>4, <2>5 DEF Working
<1>15. \A i \in 1..n : a.slot[xs[i]] >= p.next
  BY <1>4, <1>5, <1>8
<1> QED
  BY <1>6, <1>10, <1>13, <1>14, <1>15 DEF Owned

\* allocateBuffersBasedOnSize, with all fields empty or all of them full.
LEMMA AllocateAll ==
  ASSUME Typed, Buffers, pc = "new" \/ (pc \in Inside /\ ~closed), NEW n \in 0..3, NEW a,
         a = Allocate(Release(pool, Slots), slot, <<"input", "uncompressedDirect", "buffer">>, n)
  PROVE  /\ Owned(a.pool, a.slot) /\ a.pool.twice = pool.twice
         /\ n = 3 => Working(a.pool, a.slot) /\ a.slot["buffer"] >= pool.next
<1>1. PICK xs : xs = <<"input", "uncompressedDirect", "buffer">>
  OBVIOUS
<1>2. xs[1] = "input" /\ xs[2] = "uncompressedDirect" /\ xs[3] = "buffer"
  BY <1>1
<1>3. \A i \in 1..3 : i = 1 \/ i = 2 \/ i = 3
  OBVIOUS
<1>4. Distinct(xs, 3)
  BY <1>2, <1>3 DEF Slots, Distinct
<1>6. Others(xs, 3) = {}
  BY <1>2 DEF Slots, Others
<1>7. pool \in PoolType /\ pool.next > 0
  BY DEF Typed, Buffers
<1>8. PICK p : p = Release(pool, Slots)
  OBVIOUS
<1>9. p \in PoolType /\ p.owned = {} /\ p.next = pool.next /\ p.twice = pool.twice
  <2>1. CASE pc = "new"
    BY <1>7, <1>8, <2>1, ReleaseNone DEF Buffers
  <2>2. CASE pc \in Inside /\ ~closed
    <3>1. Working(pool, slot)
      BY <2>2 DEF Buffers
    <3>2. p = [owned |-> {slot[x] : x \in Slots \ Slots}, next |-> pool.next, twice |-> pool.twice]
      BY <1>7, <1>8, <3>1, ReleaseWorking
    <3>3. {slot[x] : x \in Slots \ Slots} = {}
      OBVIOUS
    <3>4. p = [owned |-> {}, next |-> pool.next, twice |-> pool.twice]
      BY <3>2, <3>3
    <3>5. pool.next \in Nat /\ pool.twice \in BOOLEAN
      BY <1>7 DEF PoolType
    <3> QED
      BY <3>4, <3>5 DEF PoolType
  <2> QED
    BY <2>1, <2>2
<1>10. slot \in [Slots -> Ids]
  BY DEF Typed
<1>11. a = Allocate(p, slot, xs, n) /\ 3 \in Nat
  BY <1>1, <1>8
<1>12. p.next > 0 /\ p.owned \subseteq 1..(p.next - 1)
       /\ p.owned = {slot[x] : x \in Others(xs, 3)}
       /\ \A x, y \in Others(xs, 3) : slot[x] = slot[y] => x = y
  BY <1>6, <1>7, <1>9
<1>13. /\ Owned(a.pool, a.slot) /\ a.pool.twice = p.twice /\ (n = 3 => Working(a.pool, a.slot))
       /\ \A i \in 1..n : a.slot[xs[i]] >= p.next
  BY <1>4, <1>9, <1>10, <1>11, <1>12, Allocating
<1>14. n = 3 => a.slot["buffer"] >= pool.next
  BY <1>2, <1>9, <1>13
<1> QED
  BY <1>9, <1>13, <1>14

\* The two buffers for uncompressed data are replaced.
LEMMA AllocateTwo ==
  ASSUME Typed, Buffers, pc \in Inside, ~closed, NEW n \in 0..2, NEW a,
         a = Allocate(Release(pool, {"uncompressedDirect", "buffer"}), slot,
                      <<"uncompressedDirect", "buffer">>, n)
  PROVE  /\ Owned(a.pool, a.slot) /\ a.pool.twice = pool.twice
         /\ n = 2 => Working(a.pool, a.slot) /\ a.slot["buffer"] >= pool.next
<1>1. PICK xs : xs = <<"uncompressedDirect", "buffer">>
  OBVIOUS
<1>2. xs[1] = "uncompressedDirect" /\ xs[2] = "buffer"
  BY <1>1
<1>3. \A i \in 1..2 : i = 1 \/ i = 2
  OBVIOUS
<1>4. Distinct(xs, 2)
  BY <1>2, <1>3 DEF Slots, Distinct
<1>6. Others(xs, 2) = {"input"}
  BY <1>2, <1>3 DEF Slots, Others
<1>7. pool \in PoolType /\ pool.next > 0 /\ Working(pool, slot)
  BY DEF Typed, Buffers
<1>8. PICK p : p = Release(pool, {"uncompressedDirect", "buffer"})
  OBVIOUS
<1>9. p = [owned |-> {slot["input"]}, next |-> pool.next, twice |-> pool.twice]
  <2>1. PICK S : S = {"uncompressedDirect", "buffer"}
    OBVIOUS
  <2>2. S \subseteq Slots /\ Slots \ S = {"input"}
    BY <2>1 DEF Slots
  <2>3. Release(pool, S) = [owned |-> {slot[x] : x \in Slots \ S}, next |-> pool.next,
                            twice |-> pool.twice]
    BY <1>7, <2>2, ReleaseWorking
  <2>4. {slot[x] : x \in Slots \ S} = {slot["input"]}
    BY <2>2
  <2> QED
    BY <1>8, <2>1, <2>3, <2>4
<1>10. slot \in [Slots -> Ids] /\ pool.next \in Nat /\ pool.twice \in BOOLEAN
       /\ slot["input"] \in 1..(pool.next - 1) /\ "input" \in Slots
  BY <1>7 DEF Typed, PoolType, Working, Slots
<1>11. p \in PoolType /\ p.owned = {slot["input"]} /\ p.next = pool.next /\ p.twice = pool.twice
  BY <1>9, <1>10 DEF PoolType
<1>12. a = Allocate(p, slot, xs, n) /\ 2 \in Nat
  BY <1>1, <1>8
<1>13. p.next > 0 /\ p.owned \subseteq 1..(p.next - 1)
       /\ p.owned = {slot[x] : x \in Others(xs, 2)}
       /\ \A x, y \in Others(xs, 2) : slot[x] = slot[y] => x = y
  BY <1>6, <1>7, <1>10, <1>11
<1>14. /\ Owned(a.pool, a.slot) /\ a.pool.twice = p.twice /\ (n = 2 => Working(a.pool, a.slot))
       /\ \A i \in 1..n : a.slot[xs[i]] >= p.next
  BY <1>4, <1>10, <1>11, <1>12, <1>13, Allocating
<1>15. n = 2 => a.slot["buffer"] >= pool.next
  BY <1>2, <1>11, <1>14
<1> QED
  BY <1>11, <1>14, <1>15

-----------------------------------------------------------------------------
(* Reading from the stream below.                                          *)

\* The stream that is read.
LEMMA StreamFacts ==
  ASSUME Typed
  PROVE  /\ src \in Seq(FrameSet) /\ Len(src) \in Nat
         /\ \A i \in 1..Len(src) : src[i] \in FrameSet /\ FrameLen(src[i]) \in Nat /\ FrameLen(src[i]) > 0
         /\ src = << >> => present = 0
         /\ src # << >> => Len(src) > 0 /\ present \in 1..FrameLen(src[Len(src)])
<1>1. src \in Seq(FrameSet) /\ present \in Cuts(src)
  BY DEF Typed, GoodStream
<1>2. Len(src) \in Nat /\ \A i \in 1..Len(src) : src[i] \in FrameSet
  BY <1>1
<1>3. src # << >> => Len(src) > 0
  BY <1>1
<1> QED
  BY <1>1, <1>2, <1>3, FrameFacts DEF Cuts

\* A read gets bytes of one frame.
LEMMA Reading ==
  ASSUME Typed, Position, NEW n \in Nat, got < n, readBytes(n)
  PROVE  /\ at <= Len(src) /\ got' \in Nat /\ got < got' /\ got' <= n
         /\ \/ at' = at /\ off' = off + (got' - got) /\ off' < FrameLen(src[at])
            \/ at' = at + 1 /\ off' = 0 /\ off + (got' - got) = FrameLen(src[at])
         /\ Position' /\ UNCHANGED <<src, present>>
<1>1. /\ Len(src) \in Nat /\ at \in 1..Len(src) /\ off \in Nat /\ off < FrameLen(src[at])
      /\ at = Len(src) => off < present
  BY StreamFacts DEF Position, readBytes, AtEnd
<1>2. FrameLen(src[at]) \in Nat /\ (at = Len(src) => present \in 1..FrameLen(src[at]))
  BY <1>1, StreamFacts
<1>3. PICK left : left = (IF at = Len(src) THEN present ELSE FrameLen(src[at])) - off
  OBVIOUS
<1>4. /\ left \in Nat /\ left > 0 /\ off + left <= FrameLen(src[at])
      /\ at = Len(src) => off + left = present
  BY <1>1, <1>2, <1>3
<1>5. PICK k \in {1, IF n - got < left THEN n - got ELSE left} :
             /\ got' = got + k
             /\ IF off + k = FrameLen(src[at]) THEN at' = at + 1 /\ off' = 0
                                              ELSE off' = off + k /\ UNCHANGED at
  BY <1>3 DEF readBytes
<1>6. k \in Nat /\ k > 0 /\ k <= left /\ k <= n - got /\ got \in Nat
  BY <1>4, <1>5 DEF Typed
<1>7. UNCHANGED <<src, present>>
  BY DEF readBytes
<1>8. at <= Len(src) /\ got' \in Nat /\ got < got' /\ got' <= n
  BY <1>1, <1>5, <1>6
<1>9. \/ at' = at /\ off' = off + (got' - got) /\ off' < FrameLen(src[at])
      \/ at' = at + 1 /\ off' = 0 /\ off + (got' - got) = FrameLen(src[at])
  BY <1>1, <1>2, <1>4, <1>5, <1>6
<1>10. Position'
  <2>1. CASE at' = at /\ off' = off + k /\ off + k < FrameLen(src[at])
    BY <1>1, <1>2, <1>4, <1>6, <1>7, <2>1 DEF Position
  <2>2. CASE at' = at + 1 /\ off' = 0 /\ off + k = FrameLen(src[at])
    <3>1. at' = Len(src) => 0 <= present
      BY <1>1, <2>2, StreamFacts
    <3>2. at' = Len(src) + 1 => present = FrameLen(src[Len(src)])
      BY <1>1, <1>2, <1>4, <1>6, <2>2
    <3>3. at' <= Len(src) => FrameLen(src[at']) > 0
      BY <1>1, <2>2, StreamFacts
    <3> QED
      BY <1>1, <1>7, <2>2, <3>1, <3>2, <3>3 DEF Position
  <2> QED
    BY <1>1, <1>2, <1>4, <1>5, <1>6, <2>1, <2>2
<1> QED
  BY <1>7, <1>8, <1>9, <1>10

\* The frame that is being read is one of the stream; it is complete when the next byte
\* to read is the first of another one.
LEMMA FrameRead ==
  ASSUME Typed, Position, InFrame, got > 0
  PROVE  \E i \in 1..Len(src) :
           /\ Frame = src[i] /\ got <= FrameLen(Frame)
           /\ got < FrameLen(Frame) => i = at /\ off = got
           /\ got = FrameLen(Frame) => i = at - 1 /\ off = 0
           /\ (IF off = 0 THEN at - 2 ELSE at - 1) = i - 1
<1>1. /\ Len(src) \in Nat /\ at \in 1..(Len(src) + 1) /\ got \in Nat
      /\ \A i \in 1..Len(src) : FrameLen(src[i]) \in Nat
  BY StreamFacts DEF Position, Typed
<1>2. CASE at <= Len(src) /\ off = got
  <2>1. Frame = src[at] /\ off < FrameLen(src[at]) /\ off # 0 /\ at \in 1..Len(src)
    BY <1>1, <1>2 DEF Frame, Position
  <2> QED
    BY <1>1, <1>2, <2>1
<1>3. CASE at > 1 /\ off = 0 /\ got = FrameLen(src[at - 1])
  <2>1. Frame = src[at - 1] /\ at - 1 \in 1..Len(src)
    BY <1>1, <1>3 DEF Frame
  <2> QED
    BY <1>1, <1>3, <2>1
<1> QED
  BY <1>2, <1>3 DEF InFrame

\* It goes on being read.
LEMMA ReadingFrame ==
  ASSUME Typed, Position, at <= Len(src), off = got, NEW n \in Nat, got < n, readBytes(n)
  PROVE  /\ InFrame' /\ Frame' = src[at] /\ got' \in Nat /\ got' > 0 /\ got' <= n
         /\ (IF off' = 0 THEN at' - 2 ELSE at' - 1) = at - 1
         /\ got' <= FrameLen(src[at])
         /\ Position' /\ UNCHANGED <<src, present>>
<1>1. /\ at <= Len(src) /\ got' \in Nat /\ got < got' /\ got' <= n
      /\ \/ at' = at /\ off' = off + (got' - got) /\ off' < FrameLen(src[at])
         \/ at' = at + 1 /\ off' = 0 /\ off + (got' - got) = FrameLen(src[at])
      /\ Position' /\ UNCHANGED <<src, present>>
  BY Reading
<1>2. got \in Nat /\ at \in 1..Len(src) /\ Len(src) \in Nat /\ got' > 0
  BY <1>1, StreamFacts DEF Typed, Position
<1>3. off + (got' - got) = got'
  <2>1. \A x, y \in Nat : x + (y - x) = y
    OBVIOUS
  <2> QED
    BY <1>1, <1>2, <2>1
<1>4. CASE at' = at /\ off' = got' /\ got' < FrameLen(src[at])
  <2>1. off' # 0 /\ at' <= Len(src')
    BY <1>1, <1>2, <1>4
  <2>2. InFrame' /\ Frame' = src[at]
    BY <1>1, <1>4, <2>1 DEF InFrame, Frame
  <2>3. got' <= FrameLen(src[at])
    BY <1>1, <1>2, <1>4, StreamFacts
  <2> QED
    BY <1>1, <1>2, <1>4, <2>1, <2>2, <2>3
<1>5. CASE at' = at + 1 /\ off' = 0 /\ got' = FrameLen(src[at])
  <2>1. at' - 1 = at /\ at' > 1 /\ at' - 2 = at - 1
    BY <1>2, <1>5
  <2> QED
    BY <1>1, <1>2, <1>5, <2>1, StreamFacts DEF InFrame, Frame
<1> QED
  BY <1>1, <1>3, <1>4, <1>5

-----------------------------------------------------------------------------
(* The steps.                                                              *)

\* The data of a stream so far.
LEMMA PayloadStepIn ==
  ASSUME Typed, NEW i \in 1..Len(src)
  PROVE  /\ PayloadOf(src, 0) = << >>
         /\ PayloadOf(src, i - 1) \in Seq(Nat) /\ PayloadOf(src, i) \in Seq(Nat)
         /\ ~HasBlock(src[i]) => PayloadOf(src, i) = PayloadOf(src, i - 1)
         /\ HasBlock(src[i]) => /\ src[i].data \in Seq(Nat)
                                /\ PayloadOf(src, i) = PayloadOf(src, i - 1) \o src[i].data
<1>1. Len(src) \in Nat /\ src \in Seq(FrameSet) /\ src[i] \in FrameSet
  BY StreamFacts
<1>2. i - 1 \in Nat /\ (i - 1) + 1 = i /\ i - 1 \in 0..Len(src) /\ i \in 0..Len(src)
  BY <1>1
<1>3. /\ PayloadOf(src, 0) = << >>
      /\ PayloadOf(src, (i - 1) + 1) =
           IF HasBlock(src[(i - 1) + 1]) THEN PayloadOf(src, i - 1) \o src[(i - 1) + 1].data
                                         ELSE PayloadOf(src, i - 1)
  BY <1>2, PayloadStep
<1>4. PayloadOf(src, i - 1) \in Seq(Nat) /\ PayloadOf(src, i) \in Seq(Nat)
  BY <1>1, <1>2, PayloadType
<1>5. HasBlock(src[i]) => src[i].data \in Seq(Nat)
  BY <1>1, FrameFacts DEF HasBlock
<1> QED
  BY <1>2, <1>3, <1>4, <1>5

-----------------------------------------------------------------------------
(* The steps.                                                              *)

\* While a frame is looked for, nothing is left to hand out.
LEMMA InsideFacts ==
  ASSUME IInv, pc \in Inside
  PROVE  /\ ~eof /\ ~closed /\ (ended => failed) /\ call \in Calls
         /\ position = valid /\ valid \in Nat /\ at > 1 /\ off \in Nat /\ got \in Nat
         /\ Len(src) \in Nat /\ at \in 1..(Len(src) + 1)
         /\ delivered \in Seq(Nat) /\ buffer \in Seq(Nat)
         /\ Working(pool, slot) /\ Len(buffer) = directCapacity /\ inputCapacity <= directCapacity
         /\ ~failed => /\ Sound(Before)
                       /\ Len(delivered) + (valid - valid) = Len(PayloadOf(src, Before))
                       /\ ~bb.stale => Taken(delivered, buffer, valid, valid, PayloadOf(src, Before))
<1>1. Len(src) \in Nat
  BY StreamFacts DEF IInv
<1>2. ~eof /\ ~closed /\ call \in Calls /\ position = valid /\ at > 1
  BY DEF IInv, Place
<1>3. ended => failed
  BY <1>2 DEF IInv, Ends
<1>4. Working(pool, slot) /\ Len(buffer) = directCapacity /\ inputCapacity <= directCapacity
  BY <1>2 DEF IInv, Buffers
<1>5. /\ valid \in Nat /\ off \in Nat /\ got \in Nat /\ at \in 1..(Len(src) + 1)
      /\ delivered \in Seq(Nat) /\ buffer \in Seq(Nat)
  BY DEF IInv, Typed, Position
<1>6. ~failed => /\ Sound(Before)
                 /\ Len(delivered) + (valid - valid) = Len(PayloadOf(src, Before))
                 /\ ~bb.stale => Taken(delivered, buffer, valid, valid, PayloadOf(src, Before))
  BY <1>2 DEF IInv, Ends, DataInv
<1> QED
  BY <1>1, <1>2, <1>3, <1>4, <1>5, <1>6

\* A step that does not touch the fields leaves them as they should be.
LEMMA SameBuffers ==
  ASSUME IInv, UNCHANGED <<pool, slot, inputCapacity, directCapacity, closed>>,
         pc \in {"identifier"} \cup Between \cup Inside, pc' \in {"identifier", "aborted"} \cup Between \cup Inside,
         closed => pc' = "idle", failed => failed', Len(buffer') = Len(buffer)
  PROVE  Buffers'
<1>1. pc' # "new" /\ pc' # "broken"
  BY DEF Between, Inside
<1>2. pool.twice' => failed'
  BY DEF IInv, Buffers
<1>3. Working(pool, slot)' = Working(pool, slot)
  BY DEF Working
<1>4. closed' => pool'.owned = {} /\ slot' = [x \in Slots |-> NULL] /\ pc' = "idle"
  BY DEF IInv, Buffers
<1> QED
  BY <1>1, <1>2, <1>3, <1>4 DEF IInv, Buffers

\* An exception of the reading of a frame: what the array has is handed out later.
LEMMA ThrowStep ==
  ASSUME IInv, pc \in Inside, NEW e, Throw("idle", e), off = 0 \/ AtEnd,
         UNCHANGED <<inVars, poolVars, eof, closed, call, len, bb>>,
         buffer' \in Seq(Nat), Len(buffer') = Len(buffer),
         valid' \in Nat, position' \in 0..valid', valid' <= Len(buffer') \/ position' = valid'
  PROVE  IInv'
<1>1. /\ failed' = TRUE /\ pc' = "idle" /\ got' = 0 /\ delivered' = delivered /\ ended' = ended
      /\ UNCHANGED <<src, present, at, off, pool, slot, inputCapacity, directCapacity>>
  BY DEF Throw, inVars, poolVars
<1>2. ~eof /\ ~closed /\ at > 1
  BY InsideFacts
<1>3. Typed'
  BY <1>1 DEF IInv, Typed, Between, Inside
<1>4. Position'
  BY <1>1 DEF IInv, Position
<1>5. Buffers'
  BY <1>1, <1>2, SameBuffers DEF Between
<1>6. AtEnd' = AtEnd
  BY <1>1 DEF AtEnd
<1>7. Place'
  <2>1. (call # "toChannel" => bb.id = NULL)'
    BY DEF IInv, Place
  <2>2. position' < valid' => valid' <= Len(buffer')
    BY DEF IInv, Typed
  <2> QED
    BY <1>1, <1>2, <1>6, <2>1, <2>2 DEF Place, Between, Inside
<1>8. FramePlace'
  BY <1>1 DEF FramePlace, Inside
<1> QED
  BY <1>1, <1>3, <1>4, <1>5, <1>7, <1>8 DEF IInv, DataInv, Ends

\* More bytes of a frame are read.
LEMMA MoreStep ==
  ASSUME IInv, pc \in {"blockHeader", "skip", "frame"}, off = got, at <= Len(src),
         NEW n \in Nat, got < n, readBytes(n),
         pc = "blockHeader" => n = 4, pc # "blockHeader" => n = FrameLen(src[at]) /\ Frame = src[at],
         UNCHANGED <<poolVars, valid, position, eof, closed, pc, call, len, bb, ghostVars>>,
         buffer' \in Seq(Nat), Len(buffer') = Len(buffer)
  PROVE  IInv'
<1>1. /\ InFrame' /\ Frame' = src[at] /\ got' \in Nat /\ got' > 0 /\ got' <= n
      /\ (IF off' = 0 THEN at' - 2 ELSE at' - 1) = at - 1
      /\ got' <= FrameLen(src[at])
      /\ Position' /\ UNCHANGED <<src, present>>
  BY ReadingFrame DEF IInv
<1>2. UNCHANGED <<delivered, ended, failed, pool, slot, inputCapacity, directCapacity>>
  BY DEF ghostVars, poolVars
<1>3. pc \in Inside /\ pc' = pc
  BY DEF Inside
<1>4. /\ ~eof /\ ~closed /\ (ended => failed) /\ call \in Calls
      /\ position = valid /\ valid \in Nat /\ at > 1 /\ off \in Nat /\ got \in Nat
      /\ Len(src) \in Nat /\ at \in 1..(Len(src) + 1)
      /\ ~failed => /\ Sound(Before)
                    /\ Len(delivered) + (valid - valid) = Len(PayloadOf(src, Before))
                    /\ ~bb.stale => Taken(delivered, buffer, valid, valid, PayloadOf(src, Before))
  BY <1>3, InsideFacts
<1>5. at' > 1 /\ got < got'
  <2>1. got < got' /\ (at' = at \/ at' = at + 1)
    BY Reading DEF IInv
  <2>2. at \in Int
    BY <1>4
  <2> QED
    BY <1>4, <2>1, <2>2
<1>6. Typed'
  BY <1>1, <1>2 DEF IInv, Typed
<1>7. Buffers'
  BY <1>2, <1>3, <1>4, SameBuffers
<1>8. Place'
  <2>1. (call # "toChannel" => bb.id = NULL)'
    BY DEF IInv, Place
  <2>2. pc' = "blockHeader" => got' <= 4 /\ got' # 0
    BY <1>1
  <2>3. pc' \notin Between /\ pc' \notin {"new", "identifier", "aborted", "broken", "ready"}
    BY DEF Between
  <2> QED
    BY <1>1, <1>3, <1>4, <1>5, <2>1, <2>2, <2>3 DEF Place
<1>9. FramePlace'
  <2>1. CASE pc = "blockHeader"
    BY <2>1 DEF FramePlace
  <2>2. CASE pc # "blockHeader"
    <3>1. 4 <= got /\ Frame' = Frame /\ 4 \in Nat
      BY <1>1, <1>3, <2>2 DEF IInv, FramePlace
    <3>2. 4 <= got' /\ got' <= FrameLen(Frame')
      BY <1>1, <1>4, <1>5, <2>2, <3>1
    <3>3. inputCapacity' = inputCapacity /\ pc' = pc
      BY <1>2
    <3>4. /\ pc' = "skip" => Frame'.kind \in {"id", "skip"}
          /\ pc' = "frame" => Frame'.kind \in {"raw", "compressed"} /\ Frame'.length <= inputCapacity'
      BY <3>1, <3>3 DEF IInv, FramePlace
    <3>5. pc' \in {"skip", "frame"}
      BY <2>2
    <3> QED
      BY <1>1, <3>2, <3>4, <3>5 DEF FramePlace
  <2> QED
    BY <2>1, <2>2
<1>10. Before' = at - 1 /\ Before = at - 1
  <2>1. Before = at - 1
    BY <1>4 DEF Before
  <2> QED
    BY <1>1, <1>3, <2>1 DEF Before
<1>11. DataInv'
  <2>1. SUFFICES ASSUME ~failed
                 PROVE  /\ Len(delivered) + (valid - valid) = Len(PayloadOf(src, at - 1))
                        /\ ~bb.stale => Taken(delivered, buffer', valid, valid, PayloadOf(src, at - 1))
    BY <1>1, <1>2, <1>4, <1>10 DEF DataInv
  <2> QED
    BY <1>4, <1>10, <2>1, UsedUp
<1>12. Ends'
  <2>1. ~eof' /\ (ended' => failed') /\ failed' = failed /\ got' # 0
    BY <1>1, <1>2, <1>4
  <2>2. ~failed => Sound(Before)'
    BY <1>1, <1>4, <1>10 DEF Sound
  <2> QED
    BY <2>1, <2>2 DEF Ends
<1> QED
  BY <1>1, <1>6, <1>7, <1>8, <1>9, <1>11, <1>12 DEF IInv

\* The next thing is done with the same frame.
LEMMA OnwardStep ==
  ASSUME IInv, pc \in Inside, pc' \in Inside \ {"blockHeader"}, got > 0,
         UNCHANGED <<inVars, valid, position, eof, closed, call, got, len, bb, ghostVars>>,
         pool' \in PoolType, slot' \in [Slots -> Ids], inputCapacity' \in Nat, directCapacity' \in Nat,
         buffer' \in Seq(Nat), Buffers', FramePlace'
  PROVE  IInv'
<1>1. UNCHANGED <<src, present, at, off, delivered, ended, failed>>
  BY DEF inVars, ghostVars
<1>2. /\ ~eof /\ ~closed /\ (ended => failed) /\ call \in Calls
      /\ position = valid /\ valid \in Nat /\ at > 1 /\ off \in Nat /\ got \in Nat
      /\ ~failed => /\ Sound(Before)
                    /\ Len(delivered) + (valid - valid) = Len(PayloadOf(src, Before))
                    /\ ~bb.stale => Taken(delivered, buffer, valid, valid, PayloadOf(src, Before))
  BY InsideFacts
<1>3. Typed'
  BY <1>1 DEF IInv, Typed
<1>4. Position'
  BY <1>1 DEF IInv, Position
<1>5. pc' \notin Between /\ pc' \notin {"new", "identifier", "aborted", "broken", "ready", "ensure", "blockHeader"}
  BY DEF Between, Inside
<1>6. Place'
  <2>1. (call # "toChannel" => bb.id = NULL)'
    BY DEF IInv, Place
  <2> QED
    BY <1>1, <1>2, <1>5, <2>1 DEF Place
<1>7. Before' = Before
  BY <1>1 DEF Before
<1>8. DataInv'
  <2>1. SUFFICES ASSUME ~failed
                 PROVE  /\ Len(delivered) + (valid - valid) = Len(PayloadOf(src, Before))
                        /\ ~bb.stale => Taken(delivered, buffer', valid, valid, PayloadOf(src, Before))
    BY <1>1, <1>2, <1>7 DEF DataInv
  <2> QED
    BY <1>2, <2>1, UsedUp
<1>9. Ends'
  <2>1. Sound(Before)' = Sound(Before)
    BY <1>1, <1>7 DEF Sound
  <2>2. got' # 0
    BY <1>2
  <2> QED
    BY <1>1, <1>2, <2>1, <2>2 DEF Ends
<1> QED
  BY <1>3, <1>4, <1>6, <1>8, <1>9 DEF IInv

\* No memory for a larger buffer: what is left can only be closed.
LEMMA BrokenStep ==
  ASSUME IInv, pc \in Inside, NEW e, Throw("broken", e),
         UNCHANGED <<inVars, inputCapacity, directCapacity, dataVars, eof, closed, call, len, bb>>,
         Owned(pool', slot')
  PROVE  IInv'
<1>1. /\ failed' = TRUE /\ pc' = "broken" /\ got' = 0 /\ delivered' = delivered /\ ended' = ended
      /\ UNCHANGED <<src, present, at, off, buffer, valid, position>>
  BY DEF Throw, inVars, dataVars
<1>2. ~eof /\ ~closed /\ position = valid
  BY InsideFacts
<1>3. pc' \notin Between \cup Inside \cup {"new", "identifier", "aborted"}
  BY <1>1 DEF Between, Inside
<1>4. Typed'
  BY <1>1 DEF IInv, Typed, Owned
<1>5. Position'
  BY <1>1 DEF IInv, Position
<1>6. Buffers'
  BY <1>1, <1>2, <1>3 DEF Owned, Buffers
<1>7. Place'
  <2>1. (call # "toChannel" => bb.id = NULL)'
    BY DEF IInv, Place
  <2> QED
    BY <1>1, <1>2, <1>3, <2>1 DEF Place, Between, Inside
<1>8. FramePlace'
  BY <1>1, <1>3 DEF FramePlace, Inside
<1> QED
  BY <1>1, <1>3, <1>4, <1>5, <1>6, <1>7, <1>8 DEF IInv, DataInv, Ends

\* A step of a call: bytes are taken from the array, or nothing is done.
LEMMA TakeStep ==
  ASSUME IInv, pc \in Between, pc' \in Between, closed => pc' = "idle", NEW n \in Nat, position + n <= valid,
         UNCHANGED <<inVars, poolVars, buffer, valid, eof, closed, got, failed>>,
         position' = position + n,
         \E bs \in Seq(Nat) :
           /\ Len(bs) = n /\ delivered' = delivered \o bs
           /\ ~bb'.stale => Copied(bs, buffer, position),
         call' \in {"read", "readArray", "toStream", "toChannel"}, len' \in Nat, ended' \in BOOLEAN,
         ended' => ended \/ eof,
         bb' \in [id : Ids, capacity : Nat, stale : BOOLEAN], bb.stale => bb'.stale,
         call' # "toChannel" => bb'.id = NULL,
         pc' = "ensure" => call' \in Calls,
         pc' = "ready" => call' \in Calls /\ position' < valid
  PROVE  IInv'
<1>1. UNCHANGED <<src, present, at, off, pool, slot, inputCapacity, directCapacity>>
  BY DEF inVars, poolVars
<1>2. /\ position \in Nat /\ valid \in Nat /\ delivered \in Seq(Nat) /\ buffer \in Seq(Nat)
      /\ src \in Seq(FrameSet) /\ Len(src) \in Nat /\ at \in 1..(Len(src) + 1)
  BY StreamFacts DEF IInv, Typed, Position
<1>3. /\ ~closed => got = 0 /\ (off = 0 \/ AtEnd) /\ at > 1
      /\ eof => position = valid
      /\ position < valid => valid <= Len(buffer)
  BY DEF IInv, Place
<1>4. PICK bs \in Seq(Nat) :
           /\ Len(bs) = n /\ delivered' = delivered \o bs
           /\ ~bb'.stale => Copied(bs, buffer, position)
  OBVIOUS
<1>5. delivered' \in Seq(Nat)
  BY <1>2, <1>4, Joined
<1>6. position' \in 0..valid' /\ position <= position'
  BY <1>2
<1>7. Typed'
  BY <1>1, <1>5, <1>6 DEF IInv, Typed
<1>8. Position'
  BY <1>1 DEF IInv, Position
<1>9. Buffers'
  BY <1>1, SameBuffers
<1>10. pc' \notin Inside /\ pc' \notin {"new", "identifier", "aborted", "broken"}
  BY DEF Between, Inside
<1>11. AtEnd' = AtEnd /\ SkippedEnd' = SkippedEnd
  BY <1>1 DEF AtEnd, SkippedEnd, Truncated
<1>12. Place'
  <2>1. position' < valid' => position < valid
    BY <1>2, <1>6
  <2>2. eof' => position' = valid'
    BY <1>2, <1>3, <1>6
  <2>3. pc' = "ready" => valid' <= Len(buffer') /\ position' < valid'
    BY <1>3, <2>1
  <2>4. ~closed' => got' = 0 /\ (off' = 0 \/ AtEnd') /\ at' > 1
    BY <1>1, <1>3, <1>11
  <2>5. pc' \in {"ensure", "ready"} => call' \in Calls /\ ~closed'
    OBVIOUS
  <2>6. pc' # "blockHeader"
    BY <1>10 DEF Inside
  <2> QED
    BY <1>3, <1>10, <2>1, <2>2, <2>3, <2>4, <2>5, <2>6 DEF Place
<1>13. FramePlace'
  BY <1>10 DEF FramePlace, Inside
<1>14. Before = at - 1 /\ Before' = at - 1
  BY <1>1, <1>10 DEF Before, Between, Inside
<1>15. DataInv'
  <2>1. SUFFICES ASSUME ~failed
                 PROVE  /\ Len(delivered') + (valid - position') = Len(PayloadOf(src, at - 1))
                        /\ ~bb'.stale => Taken(delivered', buffer, position', valid, PayloadOf(src, at - 1))
    BY <1>1, <1>14 DEF DataInv
  <2>2. at - 1 \in 0..Len(src)
    BY <1>2
  <2>3. PICK all \in Seq(Nat) : all = PayloadOf(src, at - 1)
    BY <1>2, <2>2, PayloadType
  <2>4. /\ Len(delivered) + (valid - position) = Len(all)
        /\ ~bb.stale => Taken(delivered, buffer, position, valid, all)
    BY <1>14, <2>1, <2>3 DEF IInv, DataInv
  <2>5. /\ Len(delivered \o bs) + (valid - position') = Len(all)
        /\ Taken(delivered, buffer, position, valid, all) /\ Copied(bs, buffer, position) =>
             Taken(delivered \o bs, buffer, position', valid, all)
    <3>1. PICK out \in Seq(Nat), a \in Seq(Nat), c \in Nat, d \in Nat, l \in Nat :
               out = delivered /\ a = buffer /\ c = position /\ d = position' /\ l = valid
      BY <1>2
    <3>2. d = c + Len(bs) /\ d <= l /\ Len(out) + (l - c) = Len(all)
      BY <1>4, <2>4, <3>1
    <3>3. Taken(out, a, c, l, all) /\ Copied(bs, a, c) => Taken(out \o bs, a, d, l, all)
      BY <3>2, Copy
    <3>4. Len(out \o bs) + (l - d) = Len(all)
      <4>1. Len(out \o bs) = Len(out) + Len(bs)
        BY Joined
      <4>2. PICK x \in Nat, y \in Nat, z \in Nat : x = Len(out) /\ y = Len(bs) /\ z = Len(all)
        OBVIOUS
      <4>3. (x + y) + (l - d) = z
        <5>1. d = c + y /\ x + (l - c) = z
          BY <3>2, <4>2
        <5> QED
          BY <5>1
      <4> QED
        BY <4>1, <4>2, <4>3
    <3> QED
      BY <3>1, <3>3, <3>4
  <2> QED
    BY <1>4, <2>3, <2>4, <2>5
<1>16. Ends'
  <2>1. Sound(Before)' = Sound(Before)
    BY <1>1, <1>14 DEF Sound
  <2>2. ~failed => (ended' => eof)
    BY DEF IInv, Ends
  <2> QED
    BY <1>1, <1>11, <2>1, <2>2 DEF IInv, Ends, Between, Inside
<1> QED
  BY <1>7, <1>8, <1>9, <1>12, <1>13, <1>15, <1>16 DEF IInv

\* What an allocation leaves.
LEMMA AllocateStep ==
  ASSUME IInv, pc = "new" \/ pc \in Inside, NEW size, Fits(size), NEW label,
         allocateBuffersBasedOnSize(size, label)
  PROVE  /\ Owned(pool', slot') /\ pool'.twice = pool.twice /\ size \in Nat
         /\ \/ /\ Working(pool', slot') /\ slot'["buffer"] >= pool.next /\ inputCapacity' = size
               /\ directCapacity' \in Nat /\ size <= directCapacity'
               /\ buffer' \in Seq(Nat) /\ Len(buffer') = directCapacity'
               /\ pc' = label /\ UNCHANGED <<got, ghostVars>>
            \/ /\ Throw(IF label = "identifier" THEN "aborted" ELSE "broken", "OutOfMemoryError")
               /\ UNCHANGED <<inputCapacity, directCapacity, buffer>>
<1>1. PICK n \in 0..3 :
        LET a == Allocate(Release(pool, Slots), slot, <<"input", "uncompressedDirect", "buffer">>, n)
        IN  /\ pool' = a.pool /\ slot' = a.slot
            /\ IF n = 3
               THEN /\ inputCapacity' = size
                    /\ directCapacity' = MaxCompressed(size)
                    /\ buffer' = Zeros(MaxCompressed(size))
                    /\ pc' = label
                    /\ UNCHANGED <<got, ghostVars>>
               ELSE /\ Throw(IF label = "identifier" THEN "aborted" ELSE "broken",
                             "OutOfMemoryError")
                    /\ UNCHANGED <<inputCapacity, directCapacity, buffer>>
  BY DEF allocateBuffersBasedOnSize
<1>2. PICK a : a = Allocate(Release(pool, Slots), slot, <<"input", "uncompressedDirect", "buffer">>, n)
  OBVIOUS
<1>3. pc \in Inside => ~closed
  BY DEF IInv, Place
<1>4. /\ Owned(a.pool, a.slot) /\ a.pool.twice = pool.twice
      /\ n = 3 => Working(a.pool, a.slot) /\ a.slot["buffer"] >= pool.next
  BY <1>2, <1>3, AllocateAll DEF IInv
<1>5. pool' = a.pool /\ slot' = a.slot
  BY <1>1, <1>2
<1>6. size \in Nat /\ MaxCompressed(size) \in Nat /\ size <= MaxCompressed(size)
  BY DEF Fits
<1>7. Zeros(MaxCompressed(size)) \in Seq(Nat) /\ Len(Zeros(MaxCompressed(size))) = MaxCompressed(size)
  BY <1>6, ZerosFacts
<1>8. CASE n = 3
  <2>1. /\ inputCapacity' = size /\ directCapacity' = MaxCompressed(size)
        /\ buffer' = Zeros(MaxCompressed(size)) /\ pc' = label /\ UNCHANGED <<got, ghostVars>>
    BY <1>1, <1>8
  <2> QED
    BY <1>4, <1>5, <1>6, <1>7, <1>8, <2>1
<1>9. CASE n # 3
  <2>1. /\ Throw(IF label = "identifier" THEN "aborted" ELSE "broken", "OutOfMemoryError")
        /\ UNCHANGED <<inputCapacity, directCapacity, buffer>>
    BY <1>1, <1>9
  <2> QED
    BY <1>4, <1>5, <1>6, <2>1
<1> QED
  BY <1>8, <1>9

\* The constructor threw.
LEMMA AbortStep ==
  ASSUME IInv, pc \in {"new", "identifier"}, NEW e, Throw("aborted", e),
         UNCHANGED <<inVars, valid, position, buffer, inputCapacity, directCapacity, eof, closed, call, len, bb>>,
         Owned(pool', slot')
  PROVE  IInv'
<1>1. /\ failed' = TRUE /\ pc' = "aborted" /\ got' = 0 /\ delivered' = delivered /\ ended' = ended
      /\ UNCHANGED <<src, present, at, off>>
  BY DEF Throw, inVars
<1>2. ~eof /\ ~closed
  BY DEF IInv, Place, NoData
<1>3. pc' \notin Between \cup Inside \cup {"new", "identifier", "broken"}
  BY <1>1 DEF Between, Inside
<1>4. Typed'
  BY <1>1 DEF IInv, Typed, Owned
<1>5. Position'
  BY <1>1 DEF IInv, Position
<1>6. Buffers'
  BY <1>1, <1>2, <1>3 DEF Owned, Buffers
<1>7. Place'
  <2>1. (call # "toChannel" => bb.id = NULL)'
    BY DEF IInv, Place
  <2> QED
    BY <1>1, <1>2, <1>3, <2>1 DEF Place, Between, Inside
<1>8. FramePlace'
  BY <1>1, <1>3 DEF FramePlace, Inside
<1> QED
  BY <1>1, <1>3, <1>4, <1>5, <1>6, <1>7, <1>8 DEF IInv, DataInv, Ends

\* The constructor gets its buffers.
LEMMA ConstructStep ==
  ASSUME IInv, Construct
  PROVE  IInv'
<1>1. /\ pc = "new" /\ allocateBuffersBasedOnSize(InitialSize, "identifier")
      /\ UNCHANGED <<inVars, valid, position, eof, closed, call, len, bb>>
  BY DEF Construct
<1>2. Fits(InitialSize)
  BY SizesAssumption DEF BufferSizes, Fits
<1>3. /\ Owned(pool', slot') /\ pool'.twice = pool.twice /\ InitialSize \in Nat
      /\ \/ /\ Working(pool', slot') /\ inputCapacity' = InitialSize
            /\ directCapacity' \in Nat /\ InitialSize <= directCapacity'
            /\ buffer' \in Seq(Nat) /\ Len(buffer') = directCapacity'
            /\ pc' = "identifier" /\ UNCHANGED <<got, ghostVars>>
         \/ /\ Throw("aborted", "OutOfMemoryError")
            /\ UNCHANGED <<inputCapacity, directCapacity, buffer>>
  BY <1>1, <1>2, AllocateStep
<1>4. CASE Throw("aborted", "OutOfMemoryError") /\ UNCHANGED <<inputCapacity, directCapacity, buffer>>
  BY <1>1, <1>3, <1>4, AbortStep
<1>5. CASE /\ Working(pool', slot') /\ inputCapacity' = InitialSize
           /\ directCapacity' \in Nat /\ InitialSize <= directCapacity'
           /\ buffer' \in Seq(Nat) /\ Len(buffer') = directCapacity'
           /\ pc' = "identifier" /\ UNCHANGED <<got, ghostVars>>
  <2>1. UNCHANGED <<src, present, at, off, got, delivered, ended, failed>>
    BY <1>1, <1>5 DEF inVars, ghostVars
  <2>2. at = 1 /\ off = 0 /\ got = 0 /\ NoData /\ (pool.twice => failed)
    BY <1>1 DEF IInv, Place, Buffers
  <2>3. pc' \notin Between \cup Inside \cup {"new", "aborted", "broken"}
    BY <1>5 DEF Between, Inside
  <2>4. Typed'
    BY <1>1, <1>3, <1>5, <2>1 DEF IInv, Typed, Owned
  <2>5. Position'
    BY <2>1 DEF IInv, Position
  <2>6. Buffers'
    BY <1>1, <1>3, <1>5, <2>1, <2>2, <2>3 DEF Owned, Buffers, NoData
  <2>7. Place'
    <3>1. (call # "toChannel" => bb.id = NULL)'
      BY <1>1 DEF IInv, Place
    <3>2. NoData'
      BY <1>1, <2>1, <2>2 DEF NoData
    <3>3. IdentifierAt'
      BY <2>1, <2>2 DEF IdentifierAt, IDENTIFIER_SIZE
    <3> QED
      BY <1>1, <1>5, <2>2, <2>3, <3>1, <3>2, <3>3 DEF Place, NoData, Between, Inside
  <2>8. FramePlace'
    BY <1>5, <2>3 DEF FramePlace, Inside
  <2>9. DataInv' /\ Ends'
    BY <1>1, <1>5, <2>1, <2>2, <2>3 DEF DataInv, Ends, NoData, Inside
  <2> QED
    BY <2>4, <2>5, <2>6, <2>7, <2>8, <2>9 DEF IInv
<1> QED
  BY <1>3, <1>4, <1>5

\* The stream identifier.
LEMMA IdentifierStep ==
  ASSUME IInv, ReadIdentifier
  PROVE  IInv'
<1> USE DEF IDENTIFIER_SIZE
<1>1. /\ pc = "identifier" /\ IdentifierAt /\ NoData /\ got \in Nat /\ got <= 10
      /\ UNCHANGED <<poolVars, dataVars, eof, closed, call, len, bb>>
  BY DEF ReadIdentifier, IInv, Place, Typed, IdentifierAt
<1>2. UNCHANGED <<pool, slot, inputCapacity, directCapacity, buffer, valid, position>>
  BY <1>1 DEF poolVars, dataVars
<1>3. /\ src \in Seq(FrameSet) /\ Len(src) \in Nat /\ at \in 1..(Len(src) + 1) /\ off \in Nat
      /\ Working(pool, slot)
  BY <1>1, StreamFacts DEF IInv, Position, Buffers, NoData
<1>4. CASE got < 10 /\ readBytes(10) /\ UNCHANGED <<pc, ghostVars>>
  <2>1. UNCHANGED <<delivered, ended, failed, pc>>
    BY <1>4 DEF ghostVars
  <2>2. /\ at <= Len(src) /\ got' \in Nat /\ got < got' /\ got' <= 10
        /\ \/ at' = at /\ off' = off + (got' - got) /\ off' < FrameLen(src[at])
           \/ at' = at + 1 /\ off' = 0 /\ off + (got' - got) = FrameLen(src[at])
        /\ Position' /\ UNCHANGED <<src, present>>
    BY <1>4, Reading DEF IInv
  <2>3. pc' \notin Between \cup Inside \cup {"new", "aborted", "broken"}
    BY <1>1, <2>1 DEF Between, Inside
  <2>4. Typed'
    BY <1>1, <1>2, <2>1, <2>2 DEF IInv, Typed
  <2>5. Buffers'
    BY <1>1, <1>2, <2>1, SameBuffers DEF NoData
  <2>6. IdentifierAt'
    <3>1. src # << >>
      BY <1>3, <2>2
    <3>2. ASSUME src[1].kind = "id"
          PROVE  (at' = 1 /\ off' = got') \/ (at' = 2 /\ off' = 0 /\ got' = 10)
      <4>1. at = 1 /\ off = got
        BY <1>1, <1>4, <3>1, <3>2 DEF IdentifierAt
      <4>2. FrameLen(src[at]) = 10
        BY <3>2, <4>1 DEF FrameLen
      <4>3. off + (got' - got) = got'
        <5>1. \A x, y \in Nat : x + (y - x) = y
          OBVIOUS
        <5> QED
          BY <1>1, <2>2, <4>1, <5>1
      <4> QED
        BY <2>2, <4>1, <4>2, <4>3
    <3> QED
      BY <2>2, <3>1, <3>2 DEF IdentifierAt
  <2>7. Place'
    <3>1. (call # "toChannel" => bb.id = NULL)'
      BY <1>1 DEF IInv, Place
    <3>2. NoData'
      BY <1>1, <1>2, <2>1 DEF NoData
    <3> QED
      BY <1>1, <2>1, <2>3, <2>6, <3>1, <3>2 DEF Place, NoData, Between, Inside
  <2>8. FramePlace'
    BY <2>3 DEF FramePlace, Inside
  <2>9. DataInv' /\ Ends'
    BY <1>1, <2>1, <2>3 DEF DataInv, Ends, NoData, Inside
  <2> QED
    BY <2>2, <2>4, <2>5, <2>7, <2>8, <2>9 DEF IInv
<1>5. ASSUME NEW e, Throw("aborted", e), UNCHANGED inVars
      PROVE  IInv'
  <2>1. Owned(pool', slot')
    <3>1. Owned(pool, slot)
      BY <1>3 DEF IInv, Typed, Buffers, Working, Owned
    <3> QED
      BY <1>2, <3>1
  <2>2. UNCHANGED <<inVars, valid, position, buffer, inputCapacity, directCapacity, eof, closed, call, len, bb>>
    BY <1>1, <1>2, <1>5
  <2> QED
    BY <1>1, <1>5, <2>1, <2>2, AbortStep
<1>6. CASE /\ got = 10 /\ src[1].kind = "id" /\ UNCHANGED inVars
           /\ pc' = "idle" /\ got' = 0 /\ UNCHANGED ghostVars
  <2>1. UNCHANGED <<src, present, at, off, delivered, ended, failed>>
    BY <1>6 DEF inVars, ghostVars
  <2>2. at = 2 /\ off = 0 /\ 1 \in 1..Len(src) /\ src # << >>
    <3>1. src # << >>
      BY <1>1, <1>6 DEF IdentifierAt
    <3>2. FrameLen(src[1]) = 10
      BY <1>6 DEF FrameLen
    <3>3. at = 1 => off < FrameLen(src[1])
      BY <1>3, <3>1 DEF IInv, Position
    <3> QED
      BY <1>1, <1>3, <1>6, <3>1, <3>2, <3>3 DEF IdentifierAt
  <2>3. PayloadOf(src, 1) = << >>
    <3>1. ~HasBlock(src[1]) /\ 1 - 1 = 0
      BY <1>6 DEF HasBlock
    <3> QED
      BY <2>2, <3>1, PayloadStepIn DEF IInv
  <2>4. Typed'
    BY <1>1, <1>2, <1>6, <2>1 DEF IInv, Typed, Between
  <2>5. Position'
    BY <2>1 DEF IInv, Position
  <2>6. Buffers'
    BY <1>1, <1>2, <1>6, <2>1, SameBuffers DEF Between
  <2>7. pc' \notin Inside
    BY <1>6 DEF Inside
  <2>8. Place'
    <3>1. (call # "toChannel" => bb.id = NULL)'
      BY <1>1 DEF IInv, Place
    <3>2. ~eof' /\ position' = 0 /\ valid' = 0 /\ off' = 0 /\ at' = 2
      BY <1>1, <1>2, <2>1, <2>2 DEF NoData
    <3> QED
      BY <1>6, <2>7, <3>1, <3>2 DEF Place
  <2>9. FramePlace'
    BY <2>7, <1>6 DEF FramePlace, Inside
  <2>10. Before' = 1
    BY <2>1, <2>2, <2>7 DEF Before
  <2>11. DataInv'
    <3>1. PICK none : none = << >>
      OBVIOUS
    <3>2. Len(none) = 0 /\ 0 + (0 - 0) = 0 /\ 1..0 = {} /\ 0 - 0 = 0
      BY <3>1
    <3>3. Taken(none, buffer', 0, 0, none)
      BY <3>2 DEF Taken
    <3>4. PayloadOf(src', 1) = none /\ delivered' = none /\ position' = 0 /\ valid' = 0
      BY <1>1, <1>2, <2>1, <2>3, <3>1 DEF NoData
    <3> QED
      BY <2>10, <3>2, <3>3, <3>4 DEF DataInv
  <2>12. Ends'
    <3>1. Sound(1)'
      <4>1. ~HasBlock(src[1]) /\ \A i \in 1..1 : i = 1
        BY <1>6 DEF HasBlock
      <4> QED
        BY <2>1, <4>1 DEF Sound
    <3>2. ~eof' /\ ~ended' /\ off' = 0
      BY <1>1, <2>1, <2>2 DEF NoData
    <3> QED
      BY <2>10, <3>1, <3>2 DEF Ends
  <2> QED
    BY <2>4, <2>5, <2>6, <2>8, <2>9, <2>11, <2>12 DEF IInv
<1> QED
  BY <1>1, <1>4, <1>5, <1>6 DEF ReadIdentifier

\* A call begins.
LEMMA BeginStep ==
  ASSUME IInv, NEW c \in Calls, NEW n \in Nat, Begin(c, n)
  PROVE  IInv'
<1>1. /\ pc = "idle" /\ call' = c /\ len' = n
      /\ \/ closed /\ pc' = pc
         \/ ~closed /\ pc' = IF c = "readArray" /\ n = 0 THEN "idle" ELSE "ensure"
      /\ UNCHANGED <<inVars, poolVars, dataVars, eof, closed, got, delivered, ended, failed>>
  BY DEF Begin
<1>2. pc' \in {"idle", "ensure"} /\ (closed => pc' = "idle") /\ pc \in Between /\ pc' \in Between
  BY <1>1 DEF Between
<1>3. /\ delivered \in Seq(Nat) /\ position \in Nat /\ valid \in Nat /\ position <= valid
      /\ ended \in BOOLEAN /\ buffer \in Seq(Nat)
      /\ bb \in [id : Ids, capacity : Nat, stale : BOOLEAN] /\ slot["buffer"] \in Ids
  BY DEF IInv, Typed, Slots
<1>4. UNCHANGED <<buffer, valid, position>>
  BY <1>1 DEF dataVars
<1>5. c \in {"read", "readArray", "toStream", "toChannel"}
  BY CallsAssumption
<1>6. bb' \in [id : Ids, capacity : Nat, stale : BOOLEAN] /\ bb'.stale = bb.stale
      /\ (c # "toChannel" => bb'.id = NULL)
  <2>1. bb' = IF c = "toChannel" /\ ~closed
              THEN [bb EXCEPT !.id = slot["buffer"], !.capacity = Len(buffer)]
              ELSE [bb EXCEPT !.id = NULL, !.capacity = 0]
    BY DEF Begin
  <2>2. PICK i \in Ids, k \in Nat, t \in BOOLEAN : bb = [id |-> i, capacity |-> k, stale |-> t]
    BY <1>3
  <2>3. Len(buffer) \in Nat /\ NULL \in Ids
    BY <1>3 DEF Ids
  <2>4. CASE c = "toChannel" /\ ~closed
    <3>1. bb' = [id |-> slot["buffer"], capacity |-> Len(buffer), stale |-> t]
      BY <2>1, <2>2, <2>4
    <3> QED
      BY <1>3, <2>2, <2>3, <2>4, <3>1
  <2>5. CASE ~(c = "toChannel" /\ ~closed)
    <3>1. bb' = [id |-> NULL, capacity |-> 0, stale |-> t]
      BY <2>1, <2>2, <2>5
    <3> QED
      BY <2>2, <2>3, <3>1
  <2> QED
    BY <2>4, <2>5
<1>7. PICK bs : bs = << >>
  OBVIOUS
<1>8. bs \in Seq(Nat) /\ Len(bs) = 0 /\ delivered \o bs = delivered /\ 1..0 = {}
  BY <1>3, <1>7
<1>9. \E d \in Seq(Nat) : Len(d) = 0 /\ delivered' = delivered \o d
                          /\ (~bb'.stale => Copied(d, buffer, position))
  BY <1>1, <1>8 DEF Copied
<1>10. position' = position + 0 /\ position + 0 <= valid /\ 0 \in Nat
  BY <1>3, <1>4
<1>11. /\ UNCHANGED <<inVars, poolVars, buffer, valid, eof, closed, got, failed>>
       /\ call' \in {"read", "readArray", "toStream", "toChannel"} /\ len' \in Nat
       /\ ended' \in BOOLEAN /\ (ended' => ended \/ eof) /\ (bb.stale => bb'.stale)
       /\ (call' # "toChannel" => bb'.id = NULL) /\ (pc' = "ensure" => call' \in Calls) /\ pc' # "ready"
  BY <1>1, <1>2, <1>3, <1>4, <1>5, <1>6
<1> QED
  BY <1>2, <1>6, <1>9, <1>10, <1>11, TakeStep

\* ensureBuffer looks at what there is.
LEMMA EnsureStep ==
  ASSUME IInv, ensureBuffer
  PROVE  IInv'
<1>1. /\ pc = "ensure" /\ pc \in Between /\ UNCHANGED <<inVars, poolVars, dataVars, eof, closed, call, got, len, bb>>
  BY DEF ensureBuffer, Between
<1>2. UNCHANGED <<src, present, at, off, pool, slot, inputCapacity, directCapacity, buffer, valid, position>>
  BY <1>1 DEF inVars, poolVars, dataVars
<1>3. /\ delivered \in Seq(Nat) /\ position \in Nat /\ valid \in Nat /\ position <= valid
      /\ ended \in BOOLEAN /\ len \in Nat /\ eof \in BOOLEAN
      /\ bb \in [id : Ids, capacity : Nat, stale : BOOLEAN]
      /\ call \in {"read", "readArray", "toStream", "toChannel"}
  BY DEF IInv, Typed
<1>4. /\ got = 0 /\ (off = 0 \/ AtEnd) /\ at > 1 /\ call \in Calls /\ ~closed
      /\ (call # "toChannel" => bb.id = NULL)
  BY <1>1 DEF IInv, Place
<1>5. ASSUME pc' \in {"ready", "idle"}, UNCHANGED <<delivered, failed>>, ended' \in BOOLEAN,
             ended' => ended \/ eof, pc' = "ready" => position < valid
      PROVE  IInv'
  <2>1. PICK bs : bs = << >>
    OBVIOUS
  <2>2. bs \in Seq(Nat) /\ Len(bs) = 0 /\ delivered \o bs = delivered /\ 1..0 = {}
    BY <1>3, <2>1
  <2>3. \E d \in Seq(Nat) : Len(d) = 0 /\ delivered' = delivered \o d
                            /\ (~bb'.stale => Copied(d, buffer, position))
    BY <1>5, <2>2 DEF Copied
  <2>4. position' = position + 0 /\ position + 0 <= valid /\ 0 \in Nat
    BY <1>2, <1>3
  <2>5. /\ UNCHANGED <<inVars, poolVars, buffer, valid, eof, closed, got, failed>>
        /\ call' \in {"read", "readArray", "toStream", "toChannel"} /\ len' \in Nat
        /\ bb' \in [id : Ids, capacity : Nat, stale : BOOLEAN] /\ (bb.stale => bb'.stale)
        /\ (call' # "toChannel" => bb'.id = NULL) /\ pc' # "ensure" /\ pc' \in Between
        /\ (pc' = "ready" => call' \in Calls /\ position' < valid)
    BY <1>1, <1>2, <1>3, <1>4, <1>5 DEF Between
  <2> QED
    BY <1>1, <1>4, <1>5, <2>3, <2>4, <2>5, TakeStep
<1>6. CASE available > 0 /\ pc' = "ready" /\ UNCHANGED ghostVars
  <2>1. UNCHANGED <<delivered, ended, failed>>
    BY <1>6 DEF ghostVars
  <2>2. position < valid
    BY <1>3, <1>6 DEF available
  <2> QED
    BY <1>3, <1>5, <1>6, <2>1, <2>2
<1>7. CASE /\ available <= 0 /\ eof /\ pc' = "idle"
           /\ ended' = (ended \/ call \in {"read", "readArray"})
           /\ UNCHANGED <<delivered, raised, failed>>
  BY <1>3, <1>5, <1>7
<1>8. CASE available <= 0 /\ ~eof /\ pc' = "blockHeader" /\ UNCHANGED ghostVars
  <2>1. UNCHANGED <<delivered, ended, failed>>
    BY <1>8 DEF ghostVars
  <2>2. position = valid
    BY <1>3, <1>8 DEF available
  <2>3. pc' \notin Between /\ pc' \in Inside /\ pc' \notin {"new", "identifier", "aborted", "broken"}
    BY <1>8 DEF Between, Inside
  <2>4. Typed'
    BY <1>1, <1>2, <2>1, <2>3 DEF IInv, Typed
  <2>5. Position'
    BY <1>2 DEF IInv, Position
  <2>6. Buffers'
    BY <1>1, <1>2, <1>4, <2>1, <2>3, SameBuffers
  <2>7. AtEnd' = AtEnd /\ SkippedEnd' = SkippedEnd
    BY <1>2 DEF AtEnd, SkippedEnd, Truncated
  <2>8. Place'
    BY <1>1, <1>2, <1>4, <1>8, <2>2, <2>3, <2>7 DEF Place
  <2>9. FramePlace'
    BY <1>8 DEF FramePlace
  <2>10. Before' = at - 1 /\ Before = at - 1
    BY <1>1, <1>2, <1>4 DEF Before, Inside
  <2>11. DataInv'
    BY <1>1, <1>2, <2>1, <2>10 DEF IInv, DataInv
  <2>12. Ends'
    <3>1. Sound(Before)' = Sound(Before)
      BY <1>2, <2>10 DEF Sound
    <3> QED
      BY <1>1, <1>2, <1>8, <2>1, <2>7, <3>1 DEF IInv, Ends
  <2> QED
    BY <2>4, <2>5, <2>6, <2>8, <2>9, <2>11, <2>12 DEF IInv
<1> QED
  BY <1>6, <1>7, <1>8 DEF ensureBuffer

\* The frame that is being read.
LEMMA FrameInside ==
  ASSUME IInv, pc \in Inside, got > 0
  PROVE  \E i \in 1..Len(src) :
           /\ Frame = src[i] /\ Frame \in FrameSet /\ InFrame
           /\ got <= FrameLen(Frame) /\ FrameLen(Frame) \in Nat
           /\ got < FrameLen(Frame) => i = at /\ off = got
           /\ got = FrameLen(Frame) => i = at - 1 /\ off = 0
           /\ Before = i - 1
<1>1. InFrame
  <2>1. CASE pc = "blockHeader"
    BY <2>1 DEF IInv, Place
  <2>2. CASE pc # "blockHeader"
    BY <2>2 DEF IInv, FramePlace
  <2> QED
    BY <2>1, <2>2
<1>2. PICK i \in 1..Len(src) :
           /\ Frame = src[i] /\ got <= FrameLen(Frame)
           /\ got < FrameLen(Frame) => i = at /\ off = got
           /\ got = FrameLen(Frame) => i = at - 1 /\ off = 0
           /\ (IF off = 0 THEN at - 2 ELSE at - 1) = i - 1
  BY <1>1, FrameRead DEF IInv
<1>3. Frame \in FrameSet /\ FrameLen(Frame) \in Nat
  BY <1>2, StreamFacts DEF IInv
<1>4. Before = i - 1
  BY <1>2 DEF Before
<1> QED
  BY <1>1, <1>2, <1>3, <1>4

\* What is there of a stream that ends between two frames.
LEMMA EndBetween ==
  ASSUME Typed, Position, AtEnd, off = 0
  PROVE  ~Truncated
<1>1. /\ Len(src) \in Nat /\ at \in 1..(Len(src) + 1)
      /\ src = << >> => present = 0
      /\ src # << >> => Len(src) > 0 /\ present \in 1..FrameLen(src[Len(src)])
      /\ \A i \in 1..Len(src) : FrameLen(src[i]) \in Nat
  BY StreamFacts DEF Position
<1>2. SUFFICES ASSUME src # << >>
               PROVE  ~(present < FrameLen(src[Len(src)]))
  BY DEF Truncated
<1>3. at = Len(src) + 1
  BY <1>1, <1>2 DEF AtEnd
<1>4. present = FrameLen(src[Len(src)]) /\ FrameLen(src[Len(src)]) \in Nat
  BY <1>1, <1>2, <1>3 DEF Position
<1> QED
  BY <1>4

\* readBlockHeader.
LEMMA HeaderStep ==
  ASSUME IInv, readBlockHeader
  PROVE  IInv'
<1>1. /\ pc = "blockHeader" /\ pc \in Inside /\ got <= 4
      /\ IF got = 0 THEN off = 0 \/ AtEnd ELSE InFrame
      /\ UNCHANGED <<poolVars, dataVars, closed, call, len, bb>>
  BY DEF readBlockHeader, IInv, Place, Inside
<1>2. UNCHANGED <<pool, slot, inputCapacity, directCapacity, buffer, valid, position>>
  BY <1>1 DEF poolVars, dataVars
<1>3. /\ ~eof /\ ~closed /\ (ended => failed) /\ call \in Calls
      /\ position = valid /\ valid \in Nat /\ at > 1 /\ off \in Nat /\ got \in Nat
      /\ Len(src) \in Nat /\ at \in 1..(Len(src) + 1)
      /\ delivered \in Seq(Nat) /\ buffer \in Seq(Nat)
      /\ ~failed => /\ Sound(Before)
                    /\ Len(delivered) + (valid - valid) = Len(PayloadOf(src, Before))
                    /\ ~bb.stale => Taken(delivered, buffer, valid, valid, PayloadOf(src, Before))
  BY <1>1, InsideFacts
<1>4. CASE got < 4 /\ readBytes(4) /\ UNCHANGED <<eof, pc, ghostVars>>
  <2>1. ~AtEnd
    BY <1>4 DEF readBytes
  <2>2. at <= Len(src)
    BY <1>3, <2>1 DEF AtEnd
  <2>3. off = got
    <3>1. CASE got = 0
      BY <1>1, <2>1, <3>1
    <3>2. CASE got # 0
      <4>1. PICK i \in 1..Len(src) :
             /\ Frame = src[i] /\ Frame \in FrameSet
             /\ got <= FrameLen(Frame) /\ FrameLen(Frame) \in Nat
             /\ got < FrameLen(Frame) => i = at /\ off = got
        BY <1>1, <1>3, <3>2, FrameInside
      <4>2. FrameLen(Frame) >= 4
        BY <4>1, FrameFacts
      <4> QED
        BY <1>3, <1>4, <4>1, <4>2
    <3> QED
      BY <3>1, <3>2
  <2>4. pc \in {"blockHeader", "skip", "frame"} /\ 4 \in Nat /\ ~(pc # "blockHeader")
    BY <1>1
  <2>5. UNCHANGED <<poolVars, valid, position, eof, closed, pc, call, len, bb, ghostVars>>
        /\ buffer' \in Seq(Nat) /\ Len(buffer') = Len(buffer)
    BY <1>1, <1>2, <1>3, <1>4
  <2> QED
    BY <1>4, <2>2, <2>3, <2>4, <2>5, MoreStep
<1>5. CASE got = 0 /\ AtEnd /\ eof' = TRUE /\ pc' = "ensure" /\ UNCHANGED <<inVars, got, ghostVars>>
  <2>1. UNCHANGED <<src, present, at, off, delivered, ended, failed>>
    BY <1>5 DEF inVars, ghostVars
  <2>2. Typed'
    BY <1>1, <1>2, <1>5, <2>1 DEF IInv, Typed, Between
  <2>3. Position'
    BY <2>1 DEF IInv, Position
  <2>4. pc' \in Between /\ pc' \notin Inside
    BY <1>5 DEF Between, Inside
  <2>5. Buffers'
    BY <1>1, <1>2, <1>3, <2>1, <2>4, SameBuffers
  <2>6. AtEnd' = AtEnd /\ SkippedEnd' = SkippedEnd
    BY <2>1 DEF AtEnd, SkippedEnd, Truncated
  <2>7. Place'
    <3>1. (call # "toChannel" => bb.id = NULL)'
      BY <1>1 DEF IInv, Place
    <3>2. /\ position' = valid' /\ ~(position' < valid') /\ got' = 0 /\ AtEnd' /\ at' > 1
          /\ call' \in Calls /\ ~closed'
      BY <1>1, <1>2, <1>3, <1>5, <2>1, <2>6
    <3> QED
      BY <1>5, <2>4, <3>1, <3>2 DEF Place
  <2>8. FramePlace'
    BY <1>5, <2>4 DEF FramePlace
  <2>9. Before' = at - 1 /\ Before = at - 1
    BY <1>3, <1>5, <2>1, <2>4 DEF Before
  <2>10. DataInv'
    BY <1>1, <1>2, <1>3, <2>1, <2>9 DEF DataInv
  <2>11. Ends'
    <3>1. Sound(Before)' = Sound(Before)
      BY <2>1, <2>9 DEF Sound
    <3>2. ~failed => SkippedEnd
      <4>1. CASE off = 0
        BY <1>5, <4>1, EndBetween DEF IInv, SkippedEnd
      <4>2. CASE off # 0
        BY <1>1, <1>5, <4>2 DEF IInv, Ends
      <4> QED
        BY <4>1, <4>2
    <3> QED
      BY <1>3, <1>5, <2>1, <2>6, <3>1, <3>2 DEF Ends
  <2> QED
    BY <2>2, <2>3, <2>5, <2>7, <2>8, <2>10, <2>11 DEF IInv
<1>6. ASSUME NEW e, Throw("idle", e), off = 0 \/ AtEnd, UNCHANGED inVars, UNCHANGED eof
      PROVE  IInv'
  <2>1. UNCHANGED <<inVars, poolVars, eof, closed, call, len, bb>>
    BY <1>1, <1>6
  <2>2. /\ buffer' \in Seq(Nat) /\ Len(buffer') = Len(buffer)
        /\ valid' \in Nat /\ position' \in 0..valid' /\ position' = valid'
    BY <1>2, <1>3
  <2> QED
    BY <1>1, <1>6, <2>1, <2>2, ThrowStep
<1>7. CASE got = 4 /\ UNCHANGED <<inVars, eof>>
  <2>1. PICK i \in 1..Len(src) :
             /\ Frame = src[i] /\ Frame \in FrameSet /\ InFrame
             /\ got <= FrameLen(Frame) /\ FrameLen(Frame) \in Nat
             /\ got = FrameLen(Frame) => i = at - 1 /\ off = 0
    BY <1>1, <1>7, FrameInside
  <2>2. CASE Frame.kind = "bad" /\ Throw("idle", "IOException")
    <3>1. off = 0
      BY <1>7, <2>1, <2>2, FrameFacts
    <3> QED
      BY <1>6, <1>7, <2>2, <3>1
  <2>3. CASE /\ Frame.kind # "bad"
             /\ pc' = IF Frame.kind \in {"id", "skip"} THEN "skip"
                      ELSE IF Frame.length > inputCapacity THEN "grow" ELSE "frame"
             /\ UNCHANGED <<got, ghostVars>>
    <3>1. UNCHANGED <<src, present, at, off, failed>>
      BY <1>7, <2>3 DEF inVars, ghostVars
    <3>2. Frame.kind \in {"id", "skip"} \/ Frame.kind \in {"raw", "compressed"}
      BY <2>1, <2>3, FrameFacts
    <3>3. /\ pc' \in {"skip", "grow", "frame"}
          /\ pc' = "skip" => Frame.kind \in {"id", "skip"}
          /\ pc' \in {"grow", "frame"} => Frame.kind \in {"raw", "compressed"}
          /\ pc' = "frame" => ~(Frame.length > inputCapacity)
      <4>1. CASE Frame.kind \in {"id", "skip"}
        BY <2>3, <4>1
      <4>2. CASE Frame.kind \in {"raw", "compressed"} /\ Frame.length > inputCapacity
        BY <2>3, <4>2
      <4>3. CASE Frame.kind \in {"raw", "compressed"} /\ ~(Frame.length > inputCapacity)
        BY <2>3, <4>3
      <4> QED
        BY <3>2, <4>1, <4>2, <4>3
    <3>4. Frame.kind \in {"raw", "compressed"} => Frame.length \in Nat
      BY <2>1, FrameFacts
    <3>5. inputCapacity \in Nat
      BY DEF IInv, Typed
    <3>6. pc' = "frame" => Frame.length <= inputCapacity
      BY <3>3, <3>4, <3>5
    <3>7. pc' \in Inside \ {"blockHeader"}
      BY <3>3 DEF Inside
    <3>8. Buffers'
      BY <1>1, <1>2, <1>3, <3>1, <3>7, SameBuffers
    <3>9. Frame' = Frame /\ InFrame' = InFrame
      BY <2>3, <3>1 DEF Frame, InFrame
    <3>10. FramePlace'
      <4>1. 4 <= got /\ got' = got /\ got <= FrameLen(Frame) /\ inputCapacity' = inputCapacity
        BY <1>2, <1>7, <2>1, <2>3
      <4> QED
        BY <2>1, <3>3, <3>6, <3>9, <4>1 DEF FramePlace
    <3>11. /\ pool' \in PoolType /\ slot' \in [Slots -> Ids] /\ inputCapacity' \in Nat
           /\ directCapacity' \in Nat /\ buffer' \in Seq(Nat)
      BY <1>2 DEF IInv, Typed
    <3>12. UNCHANGED <<inVars, valid, position, eof, closed, call, got, len, bb, ghostVars>> /\ got > 0
      BY <1>1, <1>2, <1>7, <2>3
    <3> QED
      BY <1>1, <3>7, <3>8, <3>10, <3>11, <3>12, OnwardStep
  <2> QED
    <3>1. ~(got < 4) /\ got # 0 /\ got \notin 1..3
      BY <1>7
    <3> QED
      BY <2>2, <2>3, <3>1 DEF readBlockHeader
<1>8. CASE got \in 1..3 /\ AtEnd /\ Throw("idle", "EOFException") /\ UNCHANGED <<inVars, eof>>
  BY <1>6, <1>8
<1> QED
  BY <1>4, <1>5, <1>7, <1>8 DEF readBlockHeader

\* A frame that is not wanted is read and forgotten.
LEMMA SkipStep ==
  ASSUME IInv, skip
  PROVE  IInv'
<1>1. /\ pc = "skip" /\ pc \in Inside /\ 4 <= got /\ Frame.kind \in {"id", "skip"}
      /\ UNCHANGED <<poolVars, valid, position, eof, closed, call, len, bb, ghostVars>>
  BY DEF skip, IInv, FramePlace, Inside
<1>2. UNCHANGED <<pool, slot, inputCapacity, directCapacity, delivered, ended, failed>>
  BY <1>1 DEF poolVars, ghostVars
<1>3. /\ ~eof /\ ~closed /\ (ended => failed) /\ call \in Calls
      /\ position = valid /\ valid \in Nat /\ at > 1 /\ off \in Nat /\ got \in Nat
      /\ Len(src) \in Nat /\ at \in 1..(Len(src) + 1)
      /\ delivered \in Seq(Nat) /\ buffer \in Seq(Nat)
      /\ ~failed => /\ Sound(Before)
                    /\ Len(delivered) + (valid - valid) = Len(PayloadOf(src, Before))
                    /\ ~bb.stale => Taken(delivered, buffer, valid, valid, PayloadOf(src, Before))
  BY <1>1, InsideFacts
<1>4. got > 0
  BY <1>1, <1>3
<1>5. PICK i \in 1..Len(src) :
           /\ Frame = src[i] /\ Frame \in FrameSet
           /\ got <= FrameLen(Frame) /\ FrameLen(Frame) \in Nat
           /\ got < FrameLen(Frame) => i = at /\ off = got
           /\ got = FrameLen(Frame) => i = at - 1 /\ off = 0
           /\ Before = i - 1
  BY <1>1, <1>4, FrameInside
<1>6. CASE /\ got < FrameLen(Frame) /\ readBytes(FrameLen(Frame))
           /\ buffer' = Zeros(Len(buffer)) /\ UNCHANGED pc
  <2>1. Len(buffer) \in Nat
    BY <1>3
  <2>2. buffer' \in Seq(Nat) /\ Len(buffer') = Len(buffer)
    BY <1>6, <2>1, ZerosFacts
  <2>3. at <= Len(src) /\ off = got /\ Frame = src[at]
    BY <1>5, <1>6
  <2>4. pc \in {"blockHeader", "skip", "frame"} /\ pc # "blockHeader" /\ FrameLen(Frame) = FrameLen(src[at])
    BY <1>1, <2>3
  <2> QED
    BY <1>1, <1>5, <1>6, <2>2, <2>3, <2>4, MoreStep
<1>7. CASE /\ got = FrameLen(Frame) \/ AtEnd
           /\ pc' = "ensure" /\ got' = 0 /\ UNCHANGED <<inVars, buffer>>
  <2>1. UNCHANGED <<src, present, at, off>>
    BY <1>7 DEF inVars
  <2>2. off = 0 \/ AtEnd
    BY <1>5, <1>7
  <2>3. Typed'
    BY <1>1, <1>2, <1>7, <2>1 DEF IInv, Typed, Between
  <2>4. Position'
    BY <2>1 DEF IInv, Position
  <2>5. pc' \in Between /\ pc' \notin Inside
    BY <1>7 DEF Between, Inside
  <2>6. Buffers'
    BY <1>1, <1>2, <1>3, <1>7, <2>5, SameBuffers
  <2>7. AtEnd' = AtEnd /\ SkippedEnd' = SkippedEnd
    BY <2>1 DEF AtEnd, SkippedEnd, Truncated
  <2>8. Place'
    <3>1. (call # "toChannel" => bb.id = NULL)'
      BY <1>1 DEF IInv, Place
    <3>2. /\ position' = valid' /\ ~(position' < valid') /\ got' = 0 /\ (off' = 0 \/ AtEnd') /\ at' > 1
          /\ call' \in Calls /\ ~closed' /\ ~eof'
      BY <1>1, <1>3, <1>7, <2>1, <2>2, <2>7
    <3> QED
      BY <1>7, <2>5, <3>1, <3>2 DEF Place
  <2>9. FramePlace'
    BY <1>7, <2>5 DEF FramePlace
  <2>10. Before' = at - 1
    BY <2>1, <2>5 DEF Before
  <2>11. /\ PayloadOf(src, at - 1) = PayloadOf(src, Before)
         /\ Sound(Before) => Sound(at - 1)
    <3>1. CASE got = FrameLen(Frame)
      <4>1. i = at - 1 /\ Before = i - 1 /\ ~HasBlock(src[i])
        BY <1>1, <1>5, <3>1 DEF HasBlock
      <4>2. PayloadOf(src, i) = PayloadOf(src, i - 1)
        BY <4>1, PayloadStepIn DEF IInv
      <4>3. Sound(i - 1) => Sound(i)
        <5>1. \A j \in 1..i : j \in 1..(i - 1) \/ j = i
          OBVIOUS
        <5> QED
          BY <4>1, <5>1 DEF Sound
      <4> QED
        BY <4>1, <4>2, <4>3
    <3>2. CASE got < FrameLen(Frame)
      BY <1>5, <3>2
    <3> QED
      BY <1>3, <1>5, <3>1, <3>2
  <2>12. DataInv'
    BY <1>1, <1>2, <1>3, <1>7, <2>1, <2>10, <2>11 DEF DataInv
  <2>13. Ends'
    <3>1. Sound(at - 1)' = Sound(at - 1)
      BY <2>1 DEF Sound
    <3>2. off # 0 => SkippedEnd
      <4>1. SUFFICES ASSUME off # 0
                     PROVE  SkippedEnd
        OBVIOUS
      <4>2. AtEnd /\ got < FrameLen(Frame) /\ i = at /\ off = got
        BY <1>3, <1>5, <1>7, <4>1
      <4>3. at = Len(src) /\ off = present
        BY <1>3, <1>5, <4>2 DEF AtEnd
      <4> QED
        BY <1>1, <1>5, <4>2, <4>3 DEF SkippedEnd
    <3> QED
      BY <1>1, <1>2, <1>3, <2>1, <2>2, <2>7, <2>10, <2>11, <3>1, <3>2 DEF Ends
  <2> QED
    BY <2>3, <2>4, <2>6, <2>8, <2>9, <2>12, <2>13 DEF IInv
<1> QED
  BY <1>6, <1>7 DEF skip

\* A larger input buffer, and with it larger ones for uncompressed data.
LEMMA GrowStep ==
  ASSUME IInv, Grow
  PROVE  IInv'
<1>1. /\ pc = "grow" /\ pc \in Inside /\ 4 <= got /\ got <= FrameLen(Frame) /\ InFrame
      /\ Frame.kind \in {"raw", "compressed"}
      /\ allocateBuffersBasedOnSize(Frame.length, "frame")
      /\ UNCHANGED <<inVars, valid, position, eof, closed, call, len, bb>>
  BY DEF Grow, IInv, FramePlace, Inside
<1>2. /\ ~closed /\ got \in Nat /\ got > 0 /\ (pool.twice => failed)
  BY <1>1, InsideFacts DEF IInv, Buffers
<1>3. Fits(Frame.length)
  <2>1. PICK i \in 1..Len(src) : Frame = src[i]
    BY <1>1, <1>2, FrameInside
  <2>2. Fits(src[i].length)
    BY <1>1, <2>1 DEF IInv, Typed, GoodStream
  <2> QED
    BY <2>1, <2>2
<1>4. /\ Owned(pool', slot') /\ pool'.twice = pool.twice /\ Frame.length \in Nat
      /\ \/ /\ Working(pool', slot') /\ inputCapacity' = Frame.length
            /\ directCapacity' \in Nat /\ Frame.length <= directCapacity'
            /\ buffer' \in Seq(Nat) /\ Len(buffer') = directCapacity'
            /\ pc' = "frame" /\ UNCHANGED <<got, ghostVars>>
         \/ /\ Throw("broken", "OutOfMemoryError")
            /\ UNCHANGED <<inputCapacity, directCapacity, buffer>>
  BY <1>1, <1>3, AllocateStep
<1>5. CASE Throw("broken", "OutOfMemoryError") /\ UNCHANGED <<inputCapacity, directCapacity, buffer>>
  <2>1. UNCHANGED <<inVars, inputCapacity, directCapacity, dataVars, eof, closed, call, len, bb>>
    BY <1>1, <1>5 DEF dataVars
  <2> QED
    BY <1>1, <1>4, <1>5, <2>1, BrokenStep
<1>6. CASE /\ Working(pool', slot') /\ inputCapacity' = Frame.length
           /\ directCapacity' \in Nat /\ Frame.length <= directCapacity'
           /\ buffer' \in Seq(Nat) /\ Len(buffer') = directCapacity'
           /\ pc' = "frame" /\ UNCHANGED <<got, ghostVars>>
  <2>1. UNCHANGED <<src, at, off, failed, closed>>
    BY <1>1, <1>6 DEF inVars, ghostVars
  <2>2. pc' \in Inside \ {"blockHeader"} /\ pc' \notin {"new", "broken"}
    BY <1>6 DEF Inside
  <2>3. Buffers'
    BY <1>2, <1>4, <1>6, <2>1, <2>2 DEF Owned, Buffers
  <2>4. Frame' = Frame /\ InFrame' = InFrame
    BY <1>6, <2>1 DEF Frame, InFrame
  <2>5. FramePlace'
    <3>1. got' = got /\ Frame.length <= inputCapacity'
      BY <1>4, <1>6
    <3> QED
      BY <1>1, <1>6, <2>4, <3>1 DEF FramePlace
  <2>6. pool' \in PoolType /\ slot' \in [Slots -> Ids] /\ inputCapacity' \in Nat
    BY <1>4, <1>6 DEF Owned
  <2>7. UNCHANGED <<inVars, valid, position, eof, closed, call, got, len, bb, ghostVars>>
    BY <1>1, <1>6
  <2> QED
    BY <1>1, <1>2, <1>6, <2>2, <2>3, <2>5, <2>6, <2>7, OnwardStep
<1> QED
  BY <1>4, <1>5, <1>6

\* The frame itself is read.
LEMMA FrameStep ==
  ASSUME IInv, ReadFrame
  PROVE  IInv'
<1>1. /\ pc = "frame" /\ pc \in Inside /\ 4 <= got /\ Frame.kind \in {"raw", "compressed"}
      /\ Frame.length <= inputCapacity
      /\ UNCHANGED <<poolVars, dataVars, eof, closed, call, len, bb>>
  BY DEF ReadFrame, IInv, FramePlace, Inside
<1>2. UNCHANGED <<pool, slot, inputCapacity, directCapacity, buffer, valid, position>>
  BY <1>1 DEF poolVars, dataVars
<1>3. /\ ~closed /\ position = valid /\ valid \in Nat /\ got \in Nat /\ buffer \in Seq(Nat)
      /\ inputCapacity <= directCapacity /\ inputCapacity \in Nat /\ directCapacity \in Nat
  BY <1>1, InsideFacts DEF IInv, Typed
<1>4. got > 0
  BY <1>1, <1>3
<1>5. PICK i \in 1..Len(src) :
           /\ Frame = src[i] /\ Frame \in FrameSet /\ InFrame
           /\ got <= FrameLen(Frame) /\ FrameLen(Frame) \in Nat
           /\ got < FrameLen(Frame) => i = at /\ off = got
           /\ got = FrameLen(Frame) => i = at - 1 /\ off = 0
  BY <1>1, <1>4, FrameInside
<1>6. CASE got < FrameLen(Frame) /\ readBytes(FrameLen(Frame)) /\ UNCHANGED <<pc, ghostVars>>
  <2>1. at <= Len(src) /\ off = got /\ Frame = src[at]
    <3>1. Len(src) \in Nat
      BY StreamFacts DEF IInv
    <3> QED
      BY <1>5, <1>6, <3>1
  <2>2. pc \in {"blockHeader", "skip", "frame"} /\ pc # "blockHeader" /\ FrameLen(Frame) = FrameLen(src[at])
    BY <1>1, <2>1
  <2>3. UNCHANGED <<poolVars, valid, position, eof, closed, pc, call, len, bb, ghostVars>>
        /\ buffer' \in Seq(Nat) /\ Len(buffer') = Len(buffer)
    BY <1>1, <1>2, <1>3, <1>6
  <2> QED
    BY <1>5, <1>6, <2>1, <2>2, <2>3, MoreStep
<1>7. ASSUME NEW e, Throw("idle", e), off = 0 \/ AtEnd, UNCHANGED inVars
      PROVE  IInv'
  <2>1. UNCHANGED <<inVars, poolVars, eof, closed, call, len, bb>>
    BY <1>1, <1>7
  <2>2. /\ buffer' \in Seq(Nat) /\ Len(buffer') = Len(buffer)
        /\ valid' \in Nat /\ position' \in 0..valid' /\ position' = valid'
    BY <1>2, <1>3
  <2> QED
    BY <1>1, <1>7, <2>1, <2>2, ThrowStep
<1>8. CASE got < FrameLen(Frame) /\ AtEnd /\ Throw("idle", "EOFException") /\ UNCHANGED inVars
  BY <1>7, <1>8
<1>9. CASE got = FrameLen(Frame) /\ UNCHANGED inVars
  <2>1. i = at - 1 /\ off = 0
    BY <1>5, <1>9
  <2>2. CASE Throw("idle", "FAILED_TO_UNCOMPRESS")
    BY <1>7, <1>9, <2>1, <2>2
  <2>3. CASE /\ Frame.data # NULL
             /\ pc' = IF Frame.kind = "compressed" /\ Len(Frame.data) > directCapacity
                      THEN "growData" ELSE "decode"
             /\ UNCHANGED <<got, ghostVars>>
    <3>1. UNCHANGED <<src, present, at, off, failed>>
      BY <1>9, <2>3 DEF inVars, ghostVars
    <3>2. Len(Frame.data) \in Nat
      <4>1. Frame.data \in Seq(Nat)
        BY <1>1, <1>5, <2>3, FrameFacts DEF HasBlock
      <4> QED
        BY <4>1
    <3>3. Frame.kind = "raw" => Len(Frame.data) <= directCapacity
      <4>1. Frame.kind = "raw" => Frame.length = 4 + Len(Frame.data)
        BY <1>5 DEF IInv, Typed, GoodStream
      <4> QED
        BY <1>1, <1>3, <3>2, <4>1
    <3>4. /\ pc' \in {"growData", "decode"}
          /\ pc' = "growData" => Len(Frame.data) > directCapacity
          /\ pc' = "decode" => Len(Frame.data) <= directCapacity
      BY <1>1, <1>3, <2>3, <3>2, <3>3
    <3>5. pc' \in Inside \ {"blockHeader"}
      BY <3>4 DEF Inside
    <3>6. Buffers'
      BY <1>1, <1>2, <1>3, <3>1, <3>5, SameBuffers
    <3>7. Frame' = Frame /\ InFrame' = InFrame
      BY <2>3, <3>1 DEF Frame, InFrame
    <3>8. FramePlace'
      <4>1. got' = got /\ inputCapacity' = inputCapacity /\ directCapacity' = directCapacity
        BY <1>2, <2>3
      <4> QED
        BY <1>1, <1>5, <1>9, <2>3, <3>4, <3>7, <4>1 DEF FramePlace
    <3>9. /\ pool' \in PoolType /\ slot' \in [Slots -> Ids] /\ inputCapacity' \in Nat
          /\ directCapacity' \in Nat /\ buffer' \in Seq(Nat)
      BY <1>2 DEF IInv, Typed
    <3>10. UNCHANGED <<inVars, valid, position, eof, closed, call, got, len, bb, ghostVars>>
      BY <1>1, <1>2, <1>9, <2>3
    <3> QED
      BY <1>1, <1>4, <3>5, <3>6, <3>8, <3>9, <3>10, OnwardStep
  <2>4. ~(got < FrameLen(Frame))
    BY <1>3, <1>5, <1>9
  <2> QED
    BY <2>2, <2>3, <2>4 DEF ReadFrame
<1> QED
  BY <1>6, <1>8, <1>9 DEF ReadFrame

\* Larger buffers for uncompressed data.
LEMMA GrowDataStep ==
  ASSUME IInv, GrowData
  PROVE  IInv'
<1>1. /\ pc = "growData" /\ pc \in Inside /\ 4 <= got /\ got = FrameLen(Frame) /\ InFrame
      /\ Frame.kind \in {"raw", "compressed"} /\ Frame.length <= inputCapacity
      /\ Frame.data # NULL /\ Len(Frame.data) > directCapacity
      /\ UNCHANGED <<inVars, inputCapacity, valid, position, eof, closed, call, len, bb>>
  BY DEF GrowData, IInv, FramePlace, Inside
<1>2. /\ ~closed /\ got \in Nat /\ got > 0 /\ (pool.twice => failed)
      /\ inputCapacity <= directCapacity /\ inputCapacity \in Nat /\ directCapacity \in Nat
  BY <1>1, InsideFacts DEF IInv, Buffers, Typed
<1>3. PICK n \in 0..2 :
         LET a == Allocate(Release(pool, {"uncompressedDirect", "buffer"}), slot,
                           <<"uncompressedDirect", "buffer">>, n)
         IN  /\ pool' = a.pool /\ slot' = a.slot
             /\ IF n = 2
                THEN /\ directCapacity' = Len(Frame.data)
                     /\ buffer' = Zeros(Len(Frame.data))
                     /\ pc' = "decode"
                     /\ UNCHANGED <<got, ghostVars>>
                ELSE /\ Throw("broken", "OutOfMemoryError")
                     /\ UNCHANGED <<directCapacity, buffer>>
  BY DEF GrowData
<1>4. PICK a : a = Allocate(Release(pool, {"uncompressedDirect", "buffer"}), slot,
                           <<"uncompressedDirect", "buffer">>, n)
  OBVIOUS
<1>5. Owned(a.pool, a.slot) /\ a.pool.twice = pool.twice /\ (n = 2 => Working(a.pool, a.slot))
  BY <1>1, <1>2, <1>4, AllocateTwo DEF IInv
<1>6. pool' = a.pool /\ slot' = a.slot
  BY <1>3, <1>4
<1>7. Owned(pool', slot') /\ pool'.twice = pool.twice /\ (n = 2 => Working(pool', slot'))
  BY <1>5, <1>6
<1>8. CASE n # 2
  <2>1. Throw("broken", "OutOfMemoryError") /\ UNCHANGED <<directCapacity, buffer>>
    BY <1>3, <1>8
  <2>2. UNCHANGED <<inVars, inputCapacity, directCapacity, dataVars, eof, closed, call, len, bb>>
    BY <1>1, <2>1 DEF dataVars
  <2> QED
    BY <1>1, <1>7, <2>1, <2>2, BrokenStep
<1>9. CASE n = 2
  <2>1. /\ directCapacity' = Len(Frame.data) /\ buffer' = Zeros(Len(Frame.data))
        /\ pc' = "decode" /\ UNCHANGED <<got, ghostVars>>
    BY <1>3, <1>9
  <2>2. UNCHANGED <<src, at, off, failed, closed>>
    BY <1>1, <2>1 DEF inVars, ghostVars
  <2>3. pc' \in Inside \ {"blockHeader"} /\ pc' \notin {"new", "broken"}
    BY <2>1 DEF Inside
  <2>4. PICK k \in Nat : k = Len(Frame.data)
    <3>1. PICK i \in 1..Len(src) : Frame \in FrameSet
      BY <1>1, <1>2, FrameInside
    <3>2. Frame.data \in Seq(Nat)
      BY <1>1, <3>1, FrameFacts DEF HasBlock
    <3> QED
      BY <3>2
  <2>5. buffer' \in Seq(Nat) /\ Len(buffer') = k /\ directCapacity' = k /\ inputCapacity' = inputCapacity
        /\ inputCapacity <= k
    <3>1. Zeros(k) \in Seq(Nat) /\ Len(Zeros(k)) = k
      BY ZerosFacts
    <3>2. inputCapacity <= k
      BY <1>1, <1>2, <2>4
    <3> QED
      BY <1>1, <2>1, <2>4, <3>1, <3>2
  <2>6. Buffers'
    BY <1>2, <1>7, <1>9, <2>2, <2>3, <2>5 DEF Owned, Buffers
  <2>7. Frame' = Frame /\ InFrame' = InFrame
    BY <2>1, <2>2 DEF Frame, InFrame
  <2>8. FramePlace'
    <3>1. got' = got /\ directCapacity' = Len(Frame.data) /\ Len(Frame.data) <= directCapacity'
      BY <2>1, <2>4, <2>5
    <3>2. got' <= FrameLen(Frame') /\ got' = FrameLen(Frame')
      BY <1>1, <1>2, <2>7, <3>1
    <3> QED
      BY <1>1, <2>1, <2>5, <2>7, <3>1, <3>2 DEF FramePlace
  <2>9. pool' \in PoolType /\ slot' \in [Slots -> Ids] /\ inputCapacity' \in Nat /\ directCapacity' \in Nat
    BY <1>2, <1>7, <2>5 DEF Owned
  <2>10. UNCHANGED <<inVars, valid, position, eof, closed, call, got, len, bb, ghostVars>>
    BY <1>1, <2>1
  <2> QED
    BY <1>1, <1>2, <2>3, <2>5, <2>6, <2>8, <2>9, <2>10, OnwardStep
<1> QED
  BY <1>8, <1>9

\* The data of a frame are there.
LEMMA DecodeStep ==
  ASSUME IInv, Decode
  PROVE  IInv'
<1>1. /\ pc = "decode" /\ pc \in Inside /\ 4 <= got /\ got = FrameLen(Frame)
      /\ Frame.kind \in {"raw", "compressed"} /\ Frame.data # NULL
      /\ Len(Frame.data) <= directCapacity
      /\ buffer' = Frame.data \o SubSeq(buffer, Len(Frame.data) + 1, Len(buffer))
      /\ valid' = Len(Frame.data) /\ position' = 0
      /\ UNCHANGED <<inVars, poolVars, eof, closed, call, len, bb>>
  BY DEF Decode, IInv, FramePlace, Inside
<1>2. UNCHANGED <<src, present, at, off, pool, slot, inputCapacity, directCapacity>>
  BY <1>1 DEF poolVars, inVars
<1>3. /\ ~eof /\ ~closed /\ (ended => failed) /\ call \in Calls
      /\ position = valid /\ valid \in Nat /\ at > 1 /\ off \in Nat /\ got \in Nat
      /\ Len(src) \in Nat /\ at \in 1..(Len(src) + 1)
      /\ delivered \in Seq(Nat) /\ buffer \in Seq(Nat) /\ Len(buffer) = directCapacity
      /\ ~failed => /\ Sound(Before)
                    /\ Len(delivered) + (valid - valid) = Len(PayloadOf(src, Before))
                    /\ ~bb.stale => Taken(delivered, buffer, valid, valid, PayloadOf(src, Before))
  BY <1>1, InsideFacts
<1>4. PICK i \in 1..Len(src) :
           /\ Frame = src[i] /\ Frame \in FrameSet
           /\ i = at - 1 /\ off = 0 /\ Before = i - 1
  <2>1. got > 0
    BY <1>1, <1>3
  <2> QED
    BY <1>1, <2>1, FrameInside
<1>5. HasBlock(src[i])
  BY <1>1, <1>4 DEF HasBlock
<1>6. /\ src[i].data \in Seq(Nat) /\ PayloadOf(src, i - 1) \in Seq(Nat)
      /\ PayloadOf(src, i) = PayloadOf(src, i - 1) \o src[i].data
  BY <1>5, PayloadStepIn DEF IInv
<1>7. PICK data \in Seq(Nat) : data = Frame.data
  BY <1>4, <1>6
<1>8. PICK all \in Seq(Nat) : all = PayloadOf(src, i - 1)
  BY <1>6
<1>9. PICK a \in Seq(Nat) : a = buffer
  BY <1>3
<1>10. Len(data) <= Len(a) /\ Len(data) \in Nat
  BY <1>1, <1>3, <1>7, <1>9
<1>11. /\ buffer' \in Seq(Nat) /\ Len(buffer') = Len(buffer)
       /\ \A j \in 1..Len(data) : buffer'[j] = data[j]
  BY <1>1, <1>7, <1>9, <1>10, Reused
<1>12. /\ valid' = Len(data) /\ valid' \in Nat /\ position' = 0 /\ position' \in 0..valid'
       /\ valid' <= Len(buffer')
  <2>1. valid' = Len(data) /\ position' = 0
    BY <1>1, <1>7
  <2>2. Len(data) <= Len(buffer')
    BY <1>9, <1>10, <1>11
  <2> QED
    BY <1>10, <2>1, <2>2
<1>13. CASE Throw("idle", "invalid checksum")
  BY <1>1, <1>4, <1>11, <1>12, <1>13, ThrowStep
<1>14. CASE /\ ~(VerifyChecksums /\ ~Frame.crcOk) /\ pc' = "ready" /\ got' = 0 /\ UNCHANGED ghostVars
  <2>1. UNCHANGED <<delivered, ended, failed>>
    BY <1>14 DEF ghostVars
  <2>2. Typed'
    BY <1>1, <1>2, <1>11, <1>12, <1>14, <2>1 DEF IInv, Typed, Between
  <2>3. Position'
    BY <1>2 DEF IInv, Position
  <2>4. pc' \in Between /\ pc' \notin Inside
    BY <1>14 DEF Between, Inside
  <2>5. Buffers'
    BY <1>1, <1>2, <1>3, <1>11, <2>1, <2>4, SameBuffers
  <2>6. call = "read" => position' < valid'
    <3>1. SUFFICES ASSUME "read" \in Calls
                   PROVE  Len(data) > 0
      BY <1>3, <1>12
    <3>2. data # << >>
      <4>1. CASE Frame.kind = "compressed"
        BY <1>4, <1>7, <3>1, <4>1 DEF IInv, Typed, GoodStream
      <4>2. CASE Frame.kind = "raw"
        <5>1. src[i].length = 4 + Len(src[i].data)
          BY <1>4, <4>2 DEF IInv, Typed, GoodStream
        <5>2. src[i].length \in Nat /\ src[i].length > 4
          BY <1>1, <1>4, FrameFacts
        <5>3. Len(data) > 0
          BY <1>4, <1>7, <1>10, <5>1, <5>2
        <5> QED
          BY <5>3
      <4> QED
        BY <1>1, <4>1, <4>2
    <3> QED
      BY <1>10, <3>2
  <2>7. Place'
    <3>1. (call # "toChannel" => bb.id = NULL)'
      BY <1>1 DEF IInv, Place
    <3>2. /\ valid' <= Len(buffer') /\ got' = 0 /\ off' = 0 /\ at' > 1
          /\ call' = call /\ call' \in Calls /\ ~closed' /\ ~eof'
      BY <1>1, <1>2, <1>3, <1>4, <1>12, <1>14
    <3> QED
      BY <1>14, <2>4, <2>6, <3>1, <3>2 DEF Place
  <2>8. FramePlace'
    BY <1>14, <2>4 DEF FramePlace
  <2>9. Before' = i
    BY <1>2, <1>4, <2>4 DEF Before
  <2>10. DataInv'
    <3>1. SUFFICES ASSUME ~failed
                   PROVE  /\ Len(delivered) + (Len(data) - 0) = Len(all \o data)
                          /\ ~bb.stale => Taken(delivered, buffer', 0, Len(data), all \o data)
      BY <1>1, <1>2, <1>4, <1>6, <1>7, <1>8, <1>12, <2>1, <2>9 DEF DataInv
    <3>2. PICK bs \in Seq(Nat), out \in Seq(Nat), c \in Nat : bs = buffer' /\ out = delivered /\ c = valid
      BY <1>3, <1>11
    <3>3. Len(out) + (c - c) = Len(all) /\ (\A j \in 1..Len(data) : bs[j] = data[j])
      BY <1>3, <1>4, <1>8, <1>11, <3>1, <3>2
    <3>4. ~bb.stale => Taken(out, a, c, c, all)
      BY <1>3, <1>4, <1>8, <1>9, <3>1, <3>2
    <3>5. /\ Len(out) + (Len(data) - 0) = Len(all \o data)
          /\ Taken(out, a, c, c, all) => Taken(out, bs, 0, Len(data), all \o data)
      BY <3>3, NextBlock
    <3> QED
      BY <3>2, <3>4, <3>5
  <2>11. Ends'
    <3>1. Sound(i - 1) => Sound(i)'
      <4>1. VerifyChecksums => src[i].crcOk
        BY <1>4, <1>14
      <4>2. \A j \in 1..i : j \in 1..(i - 1) \/ j = i
        OBVIOUS
      <4> QED
        BY <1>2, <4>1, <4>2 DEF Sound
    <3> QED
      BY <1>1, <1>2, <1>3, <1>4, <2>1, <2>9, <3>1 DEF Ends
  <2> QED
    BY <2>2, <2>3, <2>5, <2>7, <2>8, <2>10, <2>11 DEF IInv
<1> QED
  BY <1>13, <1>14 DEF Decode

\* Bytes are handed out of the array.
LEMMA HandOut ==
  ASSUME IInv, pc = "ready", NEW n \in Nat, position + n <= valid, delivered' = delivered \o Bytes(n),
         position' = position + n, pc' \in {"idle", "ensure"},
         UNCHANGED <<inVars, poolVars, buffer, valid, eof, closed, call, got, len, bb, ended, failed>>
  PROVE  IInv'
<1>1. /\ pc \in Between /\ pc' \in Between /\ call \in Calls /\ ~closed /\ valid <= Len(buffer)
      /\ (call # "toChannel" => bb.id = NULL)
  BY DEF IInv, Place, Between
<1>2. /\ position \in Nat /\ valid \in Nat /\ buffer \in Seq(Nat) /\ ended \in BOOLEAN /\ len \in Nat
      /\ bb \in [id : Ids, capacity : Nat, stale : BOOLEAN]
      /\ call \in {"read", "readArray", "toStream", "toChannel"}
  BY DEF IInv, Typed
<1>3. PICK a \in Seq(Nat), c \in Nat : a = buffer /\ c = position
  BY <1>2
<1>4. c + n <= Len(a)
  <2>1. Len(a) \in Nat /\ c + n <= valid /\ valid <= Len(a)
    BY <1>1, <1>3
  <2> QED
    BY <1>2, <2>1
<1>5. /\ SubSeq(a, c + 1, c + n) \in Seq(Nat) /\ Len(SubSeq(a, c + 1, c + n)) = n
      /\ \A i \in 1..n : SubSeq(a, c + 1, c + n)[i] = a[c + i]
  BY <1>4, Slice
<1>6. PICK bs \in Seq(Nat) : bs = SubSeq(a, c + 1, c + n)
  BY <1>5
<1>7. Len(bs) = n /\ Copied(bs, buffer, position) /\ delivered' = delivered \o bs
  <2>1. delivered' = delivered \o bs
    BY <1>3, <1>6 DEF Bytes
  <2>2. Len(bs) = n /\ \A i \in 1..n : bs[i] = a[c + i]
    BY <1>5, <1>6
  <2> QED
    BY <1>3, <2>1, <2>2 DEF Copied
<1>8. \E d \in Seq(Nat) : /\ Len(d) = n /\ delivered' = delivered \o d
                          /\ (~bb'.stale => Copied(d, buffer, position))
  BY <1>7
<1>9. /\ UNCHANGED <<inVars, poolVars, buffer, valid, eof, closed, got, failed>>
      /\ call' \in {"read", "readArray", "toStream", "toChannel"} /\ len' \in Nat
      /\ ended' \in BOOLEAN /\ (ended' => ended \/ eof)
      /\ bb' \in [id : Ids, capacity : Nat, stale : BOOLEAN] /\ (bb.stale => bb'.stale)
      /\ (call' # "toChannel" => bb'.id = NULL)
      /\ (pc' = "ensure" => call' \in Calls) /\ pc' # "ready" /\ (closed => pc' = "idle")
  BY <1>1, <1>2
<1> QED
  BY <1>1, <1>8, <1>9, TakeStep

\* read(), read(byte[], int, int) and transferTo(OutputStream).
LEMMA ReadStep ==
  ASSUME IInv, read \/ readArray \/ transferToStream
  PROVE  IInv'
<1>1. position \in Nat /\ valid \in Nat /\ position <= valid /\ len \in Nat
  BY DEF IInv, Typed
<1>2. available \in Nat /\ position + available = valid
  BY <1>1 DEF available
<1>3. CASE read
  <2>1. pc = "ready" /\ call = "read" /\ position < valid
    BY <1>3 DEF read, IInv, Place
  <2>2. 1 \in Nat /\ position + 1 <= valid
    BY <1>1, <2>1
  <2> QED
    BY <1>3, <2>1, <2>2, HandOut DEF read
<1>4. CASE readArray
  <2>1. PICK n : n = IF len < available THEN len ELSE available
    OBVIOUS
  <2>2. n \in Nat /\ n <= available
    BY <1>1, <1>2, <2>1
  <2>3. position + n <= valid
    BY <1>1, <1>2, <2>2
  <2>4. pc = "ready" /\ delivered' = delivered \o Bytes(n) /\ position' = position + n /\ pc' = "idle"
    BY <1>4, <2>1 DEF readArray
  <2> QED
    BY <1>4, <2>2, <2>3, <2>4, HandOut DEF readArray
<1>5. CASE transferToStream
  <2>1. position + available <= valid /\ position' = position + available
    BY <1>1, <1>2, <1>5 DEF transferToStream
  <2> QED
    BY <1>2, <1>5, <2>1, HandOut DEF transferToStream
<1> QED
  BY <1>3, <1>4, <1>5

\* transferTo(WritableByteChannel).
LEMMA ChannelStep ==
  ASSUME IInv, transferToChannel
  PROVE  IInv'
<1>1. /\ pc = "ready" /\ call = "toChannel" /\ pc \in Between
      /\ UNCHANGED <<inVars, poolVars, buffer, valid, eof, closed, call, len>>
  BY DEF transferToChannel, Between
<1>2. /\ position \in Nat /\ valid \in Nat /\ position <= valid /\ buffer \in Seq(Nat)
      /\ ended \in BOOLEAN /\ len \in Nat /\ delivered \in Seq(Nat)
      /\ bb \in [id : Ids, capacity : Nat, stale : BOOLEAN]
      /\ call \in {"read", "readArray", "toStream", "toChannel"}
  BY DEF IInv, Typed
<1>3. /\ call \in Calls /\ ~closed /\ valid <= Len(buffer) /\ (eof => position = valid)
      /\ got = 0 /\ (off = 0 \/ AtEnd) /\ at > 1
  BY <1>1 DEF IInv, Place
<1>4. PICK current \in BOOLEAN : current = (bb.id = slot["buffer"])
  OBVIOUS
<1>5. /\ bb' \in [id : Ids, capacity : Nat, stale : BOOLEAN]
      /\ bb.stale => bb'.stale
      /\ ~bb'.stale => current
  <2>1. bb' = [bb EXCEPT !.stale = @ \/ ~current]
    BY <1>4 DEF transferToChannel
  <2>2. PICK i \in Ids, k \in Nat, t \in BOOLEAN : bb = [id |-> i, capacity |-> k, stale |-> t]
    BY <1>2
  <2>3. bb' = [id |-> i, capacity |-> k, stale |-> t \/ ~current]
    BY <2>1, <2>2
  <2>4. PICK u \in BOOLEAN : u = (t \/ ~current)
    OBVIOUS
  <2>5. bb' = [id |-> i, capacity |-> k, stale |-> u]
    BY <2>3, <2>4
  <2>6. bb'.stale = u /\ bb.stale = t /\ (t => u) /\ (~u => current)
    BY <2>2, <2>4, <2>5
  <2> QED
    BY <2>5, <2>6
<1>6. CASE Throw("idle", "IllegalArgumentException") /\ UNCHANGED position
  <2>1. /\ failed' = TRUE /\ pc' = "idle" /\ got' = 0 /\ delivered' = delivered /\ ended' = ended
        /\ UNCHANGED <<src, present, at, off, pool, slot, inputCapacity, directCapacity>>
    BY <1>1, <1>6 DEF Throw, inVars, poolVars
  <2>2. Typed'
    BY <1>1, <1>2, <1>5, <1>6, <2>1 DEF IInv, Typed, Between
  <2>3. Position'
    BY <2>1 DEF IInv, Position
  <2>4. Buffers'
    BY <1>1, <1>3, <2>1, SameBuffers DEF Between
  <2>5. AtEnd' = AtEnd
    BY <2>1 DEF AtEnd
  <2>6. Place'
    BY <1>1, <1>3, <1>6, <2>1, <2>5 DEF Place, Between, Inside
  <2>7. FramePlace'
    BY <2>1 DEF FramePlace, Inside
  <2> QED
    BY <2>1, <2>2, <2>3, <2>4, <2>6, <2>7 DEF IInv, DataInv, Ends
<1>7. CASE /\ \E n \in {1, available} \cap 0..available :
                /\ delivered' = delivered \o (IF current THEN Bytes(n) ELSE Zeros(n))
                /\ position' = position + n
           /\ pc' = "ensure"
           /\ UNCHANGED <<got, ended, raised, failed>>
  <2>1. PICK n \in {1, available} \cap 0..available :
                /\ delivered' = delivered \o (IF current THEN Bytes(n) ELSE Zeros(n))
                /\ position' = position + n
    BY <1>7
  <2>2. available \in Nat /\ position + available = valid
    BY <1>2 DEF available
  <2>3. n \in Nat /\ position + n <= valid
    BY <1>2, <2>2
  <2>4. PICK a \in Seq(Nat), c \in Nat : a = buffer /\ c = position
    BY <1>2
  <2>5. c + n <= Len(a)
    <3>1. Len(a) \in Nat /\ c + n <= valid /\ valid <= Len(a)
      BY <1>3, <2>3, <2>4
    <3> QED
      BY <1>2, <2>3, <3>1
  <2>6. /\ SubSeq(a, c + 1, c + n) \in Seq(Nat) /\ Len(SubSeq(a, c + 1, c + n)) = n
        /\ \A i \in 1..n : SubSeq(a, c + 1, c + n)[i] = a[c + i]
    BY <2>3, <2>5, Slice
  <2>7. \E d \in Seq(Nat) : /\ Len(d) = n /\ delivered' = delivered \o d
                            /\ (~bb'.stale => Copied(d, buffer, position))
    <3>1. CASE current
      <4>1. PICK bs \in Seq(Nat) : bs = SubSeq(a, c + 1, c + n)
        BY <2>6
      <4>2. delivered' = delivered \o bs
        BY <2>1, <2>4, <3>1, <4>1 DEF Bytes
      <4>3. Len(bs) = n /\ \A i \in 1..n : bs[i] = a[c + i]
        BY <2>6, <4>1
      <4>4. Copied(bs, buffer, position)
        BY <2>4, <4>3 DEF Copied
      <4> QED
        BY <4>2, <4>3, <4>4
    <3>2. CASE ~current
      <4>1. Zeros(n) \in Seq(Nat) /\ Len(Zeros(n)) = n
        BY <2>3, ZerosFacts
      <4>2. delivered' = delivered \o Zeros(n)
        BY <2>1, <3>2
      <4> QED
        BY <1>5, <3>2, <4>1, <4>2
    <3> QED
      BY <3>1, <3>2
  <2>8. /\ UNCHANGED <<inVars, poolVars, buffer, valid, eof, closed, got, failed>>
        /\ call' \in {"read", "readArray", "toStream", "toChannel"} /\ len' \in Nat
        /\ ended' \in BOOLEAN /\ (ended' => ended \/ eof)
        /\ (call' # "toChannel" => bb'.id = NULL)
        /\ (pc' = "ensure" => call' \in Calls) /\ pc' # "ready" /\ (closed => pc' = "idle")
        /\ pc' \in Between /\ position' = position + n
    BY <1>1, <1>2, <1>3, <1>7, <2>1 DEF Between
  <2> QED
    BY <1>1, <1>5, <2>3, <2>7, <2>8, TakeStep
<1> QED
  BY <1>4, <1>6, <1>7 DEF transferToChannel

\* close(): the buffers go back.
LEMMA CloseStep ==
  ASSUME IInv, close
  PROVE  IInv'
<1>1. /\ pc \in {"idle", "broken"} /\ pc' = "idle"
      /\ UNCHANGED <<inVars, inputCapacity, directCapacity, dataVars, eof, call, got, len, bb,
                     delivered, ended, failed>>
  BY DEF close
<1>2. UNCHANGED <<src, present, at, off, buffer, valid, position>>
  BY <1>1 DEF inVars, dataVars
<1>3. pc' \notin Inside /\ pc' \in Between /\ pc \notin Inside
  BY <1>1 DEF Between, Inside
<1>4. Position'
  BY <1>2 DEF IInv, Position
<1>5. AtEnd' = AtEnd /\ SkippedEnd' = SkippedEnd
  BY <1>2 DEF AtEnd, SkippedEnd, Truncated
<1>6. FramePlace'
  BY <1>3 DEF FramePlace, Inside
<1>7. pc = "broken" => failed /\ ~closed /\ position = valid
  BY DEF IInv, Buffers, Place
<1>8. Before' = at - 1 /\ Before = at - 1
  BY <1>2, <1>3 DEF Before
<1>9. DataInv'
  BY <1>1, <1>2, <1>3, <1>7, <1>8 DEF IInv, DataInv, Between
<1>10. Ends'
  <2>1. Sound(Before)' = Sound(Before)
    BY <1>2, <1>8 DEF Sound
  <2> QED
    BY <1>1, <1>2, <1>3, <1>5, <1>7, <2>1 DEF IInv, Ends, Between
<1>11. CASE closed
  <2>1. UNCHANGED <<pool, slot, closed>>
    BY <1>11 DEF close
  <2>2. pc = "idle"
    BY <1>1, <1>7, <1>11
  <2>3. Typed'
    BY <1>1, <1>2, <2>1 DEF IInv, Typed, Between
  <2>4. Buffers'
    BY <1>1, <1>2, <1>11, <2>1, <2>2, SameBuffers DEF Between
  <2>5. Place'
    BY <1>1, <1>2, <1>5, <2>1, <2>2 DEF IInv, Place
  <2> QED
    BY <1>4, <1>6, <1>9, <1>10, <2>3, <2>4, <2>5 DEF IInv
<1>12. CASE ~closed
  <2>1. closed' = TRUE /\ pool' = Release(pool, Slots) /\ slot' = [x \in Slots |-> NULL]
    BY <1>12 DEF close
  <2>2. pool \in PoolType /\ (pool.twice => failed) /\ pool.next > 0
    BY DEF IInv, Typed, Buffers
  <2>3. /\ pool' \in PoolType /\ pool'.owned = {} /\ pool'.next = pool.next
        /\ pool'.twice => failed
    <3>1. CASE pc = "idle"
      <4>1. Working(pool, slot)
        BY <1>12, <3>1 DEF IInv, Buffers, Between
      <4>2. pool' = [owned |-> {slot[x] : x \in Slots \ Slots}, next |-> pool.next, twice |-> pool.twice]
        BY <2>1, <2>2, <4>1, ReleaseWorking
      <4>3. {slot[x] : x \in Slots \ Slots} = {}
        OBVIOUS
      <4>4. pool' = [owned |-> {}, next |-> pool.next, twice |-> pool.twice]
        BY <4>2, <4>3
      <4>5. pool.next \in Nat /\ pool.twice \in BOOLEAN
        BY <2>2 DEF PoolType
      <4> QED
        BY <2>2, <4>4, <4>5 DEF PoolType
    <3>2. CASE pc = "broken"
      <4>1. pool.owned \subseteq {slot[x] : x \in Slots}
        BY <3>2 DEF IInv, Buffers
      <4> QED
        BY <1>7, <2>1, <2>2, <3>2, <4>1, ReleaseAll
    <3> QED
      BY <1>1, <3>1, <3>2
  <2>4. slot' \in [Slots -> Ids]
    BY <2>1 DEF Ids
  <2>5. Typed'
    BY <1>1, <1>2, <2>1, <2>3, <2>4 DEF IInv, Typed, Between
  <2>6. Buffers'
    BY <1>1, <2>1, <2>2, <2>3 DEF Buffers
  <2>7. Place'
    <3>1. position < valid => valid <= Len(buffer)
      <4>1. pc = "idle" => (position < valid => valid <= Len(buffer))
        BY DEF IInv, Place, Between
      <4>2. position \in Nat /\ valid \in Nat
        BY DEF IInv, Typed
      <4> QED
        BY <1>1, <1>7, <4>1, <4>2
    <3>2. (call # "toChannel" => bb.id = NULL) /\ (eof => position = valid)
      BY DEF IInv, Place
    <3> QED
      BY <1>1, <1>2, <1>3, <2>1, <3>1, <3>2 DEF Place
  <2> QED
    BY <1>4, <1>6, <1>9, <1>10, <2>5, <2>6, <2>7 DEF IInv
<1> QED
  BY <1>11, <1>12

\* Nothing happens.
LEMMA StutterStep ==
  ASSUME IInv, UNCHANGED vars
  PROVE  IInv'
<1>1. UNCHANGED <<src, present, at, off, pool, slot, inputCapacity, directCapacity, buffer, valid,
                  position, eof, closed, pc, call, got, len, bb, delivered, ended, failed>>
  BY DEF vars, inVars, poolVars, dataVars, ghostVars
<1>2. Typed' /\ Position'
  BY <1>1 DEF IInv, Typed, Position
<1>3. Working(pool, slot)' = Working(pool, slot)
  BY <1>1 DEF Working
<1>4. /\ AtEnd' = AtEnd /\ SkippedEnd' = SkippedEnd /\ NoData' = NoData /\ InFrame' = InFrame
      /\ Frame' = Frame /\ IdentifierAt' = IdentifierAt /\ Before' = Before
  BY <1>1 DEF AtEnd, SkippedEnd, Truncated, NoData, InFrame, Frame, IdentifierAt, Before
<1>5. Buffers'
  BY <1>1, <1>3 DEF IInv, Buffers
<1>6. Place'
  BY <1>1, <1>4 DEF IInv, Place
<1>7. FramePlace'
  BY <1>1, <1>4 DEF IInv, FramePlace
<1>8. Sound(Before)' = Sound(Before)
  BY <1>1, <1>4 DEF Sound
<1>9. DataInv' /\ Ends'
  BY <1>1, <1>4, <1>8 DEF IInv, DataInv, Ends
<1> QED
  BY <1>2, <1>5, <1>6, <1>7, <1>9 DEF IInv

-----------------------------------------------------------------------------
(* The invariant.                                                          *)

\* A reader about to run its constructor.
LEMMA FreshIInv == GoodStream(src) /\ present \in Cuts(src) /\ Fresh /\ pc = "new" => IInv
<1> SUFFICES ASSUME GoodStream(src), present \in Cuts(src), Fresh, pc = "new" PROVE IInv
  OBVIOUS
<1>1. /\ present \in Cuts(src) /\ pc = "new"
      /\ at = 1 /\ off = 0
      /\ pool = [owned |-> {}, next |-> 1, twice |-> FALSE] /\ slot = [x \in Slots |-> NULL]
      /\ inputCapacity = 0 /\ directCapacity = 0 /\ buffer = << >> /\ valid = 0 /\ position = 0
      /\ eof = FALSE /\ closed = FALSE /\ call = "read" /\ got = 0 /\ len = 0
      /\ bb = [id |-> NULL, capacity |-> 0, stale |-> FALSE]
      /\ delivered = << >> /\ ended = FALSE /\ failed = FALSE
  BY DEF Fresh
<1>2. GoodStream(src)
  OBVIOUS
<1>3. << >> \in Seq(Nat)
  OBVIOUS
<1>4. pool \in PoolType /\ slot \in [Slots -> Ids] /\ bb \in [id : Ids, capacity : Nat, stale : BOOLEAN]
  BY <1>1 DEF PoolType, Ids
<1>5. Typed
  <2>1. buffer \in Seq(Nat) /\ delivered \in Seq(Nat) /\ position \in 0..valid
    BY <1>1, <1>3
  <2>2. call \in {"read", "readArray", "toStream", "toChannel"} /\ len \in Nat /\ got \in Nat
    BY <1>1
  <2>3. /\ inputCapacity \in Nat /\ directCapacity \in Nat /\ valid \in Nat
        /\ eof \in BOOLEAN /\ closed \in BOOLEAN /\ ended \in BOOLEAN /\ failed \in BOOLEAN
    BY <1>1
  <2> QED
    BY <1>1, <1>2, <1>4, <2>1, <2>2, <2>3 DEF Typed
<1>6. Position
  <2>1. Len(src) \in Nat /\ (src = << >> => Len(src) = 0) /\ (src # << >> => Len(src) > 0)
    BY <1>2, <1>5, StreamFacts
  <2>2. 1 <= Len(src) => FrameLen(src[1]) > 0
    BY <1>5, <2>1, StreamFacts
  <2>3. present \in Nat
    BY <1>5, StreamFacts
  <2> QED
    BY <1>1, <2>1, <2>2, <2>3 DEF Position
<1>7. Buffers
  BY <1>1 DEF Buffers, Between, Inside
<1>8. Place
  BY <1>1 DEF Place, NoData, Between, Inside
<1>9. FramePlace /\ DataInv /\ Ends
  BY <1>1 DEF FramePlace, DataInv, Ends, Between, Inside
<1> QED
  BY <1>5, <1>6, <1>7, <1>8, <1>9 DEF IInv

\* The streams of the model are such streams.
LEMMA InitIInv == Init => IInv
<1> SUFFICES ASSUME Init PROVE IInv
  OBVIOUS
<1>1. src \in Streams /\ present \in Cuts(src) /\ pc = "new" /\ Fresh
  BY DEF Init
<1>2. GoodStream(src)
  <2>1. ASSUME NEW i \in 1..Len(src), src[i].kind \in {"raw", "compressed"}
        PROVE  Fits(src[i].length)
    <3>1. src[i].length \in {src[k].length : k \in {j \in 1..Len(src) : src[j].kind \in {"raw", "compressed"}}}
      BY <2>1
    <3>2. src[i].length \in BufferSizes
      BY <1>1, <3>1 DEF BufferSizes
    <3> QED
      BY <3>2, SizesAssumption DEF Fits
  <2> QED
    BY <1>1, <2>1, StreamsAssumption DEF GoodStream
<1> QED
  BY <1>1, <1>2, FreshIInv

\* Every step keeps it.
LEMMA IInvStep == IInv /\ [Next]_vars => IInv'
<1> SUFFICES ASSUME IInv, [Next]_vars PROVE IInv'
  OBVIOUS
<1>1. CASE \E c \in Calls \ {"readArray"} : Begin(c, 0)
  <2>1. PICK c \in Calls : Begin(c, 0)
    BY <1>1
  <2>2. 0 \in Nat
    OBVIOUS
  <2> QED
    BY <2>1, <2>2, BeginStep
<1>2. CASE "readArray" \in Calls /\ \E n \in ReadLens : Begin("readArray", n)
  <2>1. PICK n \in ReadLens : Begin("readArray", n)
    BY <1>2
  <2>2. n \in Nat /\ "readArray" \in Calls
    BY <1>2, CallsAssumption
  <2> QED
    BY <2>1, <2>2, BeginStep
<1>3. CASE close
  BY <1>3, CloseStep
<1>4. CASE Construct
  BY <1>4, ConstructStep
<1>5. CASE ReadIdentifier
  BY <1>5, IdentifierStep
<1>6. CASE ensureBuffer
  BY <1>6, EnsureStep
<1>7. CASE readBlockHeader
  BY <1>7, HeaderStep
<1>8. CASE skip
  BY <1>8, SkipStep
<1>9. CASE Grow
  BY <1>9, GrowStep
<1>10. CASE ReadFrame
  BY <1>10, FrameStep
<1>11. CASE GrowData
  BY <1>11, GrowDataStep
<1>12. CASE Decode
  BY <1>12, DecodeStep
<1>13. CASE read \/ readArray \/ transferToStream
  BY <1>13, ReadStep
<1>14. CASE transferToChannel
  BY <1>14, ChannelStep
<1>15. CASE UNCHANGED vars
  BY <1>15, StutterStep
<1> QED
  BY <1>1, <1>2, <1>3, <1>4, <1>5, <1>6, <1>7, <1>8, <1>9, <1>10, <1>11, <1>12, <1>13, <1>14, <1>15
     DEF Next, Step, Gone

-----------------------------------------------------------------------------
(* What it says.                                                           *)

\* The types, the buffers of an open and of a closed stream, and that data fit.
LEMMA IInvTypeOK == IInv => TypeOK
<1> SUFFICES ASSUME IInv PROVE TypeOK
  OBVIOUS
<1>1. /\ present \in Cuts(src) /\ at \in 1..(Len(src) + 1) /\ off \in Nat
      /\ slot \in [Slots -> Nat \union {NULL}]
      /\ inputCapacity \in Nat /\ directCapacity \in Nat
      /\ buffer \in Seq(Nat) /\ valid \in Nat /\ position \in 0..valid
      /\ eof \in BOOLEAN /\ closed \in BOOLEAN /\ ended \in BOOLEAN /\ failed \in BOOLEAN
      /\ call \in {"read", "readArray", "toStream", "toChannel"}
      /\ got \in Nat /\ len \in Nat /\ delivered \in Seq(Nat)
      /\ bb.id \in Nat \union {NULL} /\ (call # "toChannel" => bb.id = NULL)
      /\ bb.stale \in BOOLEAN
  BY DEF IInv, Typed, Position, Place, Ids
<1>2. pc \in {"none", "new", "identifier", "aborted", "broken", "idle", "ensure",
              "blockHeader", "skip", "grow", "frame", "growData", "decode", "ready"}
  BY DEF IInv, Typed, Between, Inside
<1>3. pool.owned \subseteq 1..pool.next /\ (pool.twice => failed)
  <2>1. pool.owned \subseteq 1..(pool.next - 1) /\ pool.next \in Nat
    BY DEF IInv, Typed, Buffers, PoolType
  <2>2. 1..(pool.next - 1) \subseteq 1..pool.next
    BY <2>1
  <2> QED
    BY <2>1, <2>2 DEF IInv, Buffers
<1>4. ASSUME pc = "idle"
      PROVE  pool.owned = {slot[x] : x \in Slots} \ {NULL} /\ (closed <=> pool.owned = {})
  <2>1. CASE closed
    <3>1. pool.owned = {} /\ slot = [x \in Slots |-> NULL]
      BY <2>1 DEF IInv, Buffers
    <3> QED
      BY <2>1, <3>1
  <2>2. CASE ~closed
    <3>1. pool.owned = {slot[x] : x \in Slots} /\ slot \in [Slots -> 1..(pool.next - 1)]
      BY <1>4, <2>2 DEF IInv, Buffers, Working, Between
    <3>2. pool.next \in Nat /\ NULL \notin Nat
      BY CallsAssumption DEF IInv, Typed, PoolType
    <3>3. NULL \notin pool.owned
      BY <3>1, <3>2
    <3>4. slot["buffer"] \in pool.owned
      BY <3>1 DEF Slots
    <3> QED
      BY <2>2, <3>1, <3>3, <3>4
  <2> QED
    BY <2>1, <2>2
<1>5. pc = "ready" => valid <= Len(buffer)
  BY DEF IInv, Place
<1>6. pc = "decode" => Len(Frame.data) <= Len(buffer)
  <2>1. pc = "decode" => Len(buffer) = directCapacity
    BY InsideFacts DEF Inside
  <2> QED
    BY <2>1 DEF IInv, FramePlace
<1> QED
  BY <1>1, <1>2, <1>3, <1>4, <1>5, <1>6 DEF TypeOK

\* The frames taken so far are complete ones, and the checksums of them are right.
LEMMA TakenVerified ==
  ASSUME IInv, pc \in Between \cup Inside
  PROVE  /\ src \in Seq(FrameSet) /\ Complete \in 0..Len(src) /\ Before \in 0..Complete
         /\ AtEnd => at - 1 = Complete
         /\ Sound(Before) => Verified \in 0..Len(src) /\ Before <= Verified
<1>1. /\ Len(src) \in Nat /\ src \in Seq(FrameSet) /\ at \in 1..(Len(src) + 1) /\ off \in Nat
      /\ present \in Nat
  BY StreamFacts DEF IInv, Position
<1>2. src # << >> => Len(src) > 0 /\ FrameLen(src[Len(src)]) \in Nat
  BY <1>1, StreamFacts DEF IInv
<1>3. Complete \in 0..Len(src)
  BY <1>1, <1>2 DEF Complete, Truncated
<1>4. at - 1 <= Complete
  <2>1. CASE at <= Len(src)
    BY <1>1, <2>1 DEF Complete
  <2>2. CASE at = Len(src) + 1
    <3>1. ~Truncated
      BY <1>1, <1>2, <2>2 DEF Truncated, IInv, Position
    <3> QED
      BY <1>1, <2>2, <3>1 DEF Complete
  <2> QED
    BY <1>1, <2>1, <2>2
<1>5. Before \in 0..(at - 1)
  <2>1. pc \in Inside => at > 1
    BY InsideFacts
  <2> QED
    BY <1>1, <2>1 DEF Before
<1>6. ASSUME AtEnd
      PROVE  at - 1 = Complete
  <2>1. CASE at > Len(src)
    BY <1>1, <1>3, <1>4, <2>1
  <2>2. CASE at = Len(src) /\ off = present
    <3>1. off < FrameLen(src[Len(src)]) /\ src # << >>
      BY <1>1, <2>2 DEF IInv, Position
    <3>2. Truncated
      BY <2>2, <3>1 DEF Truncated
    <3> QED
      BY <2>2, <3>2 DEF Complete
  <2> QED
    BY <1>6, <2>1, <2>2 DEF AtEnd
<1>7. Before \in 0..Complete
  BY <1>1, <1>3, <1>4, <1>5
<1>8. ASSUME Sound(Before)
      PROVE  Verified \in 0..Len(src) /\ Before <= Verified
  <2>1. PICK wrong : wrong = {i \in 1..Complete : /\ src[i].kind \in {"raw", "compressed"}
                                                 /\ src[i].data # NULL /\ ~src[i].crcOk}
    OBVIOUS
  <2>2. Verified = IF VerifyChecksums /\ wrong # {}
                   THEN (CHOOSE i \in wrong : \A j \in wrong : i <= j) - 1 ELSE Complete
    BY <2>1 DEF Verified
  <2>3. CASE VerifyChecksums /\ wrong # {}
    <3>1. wrong \subseteq Nat
      BY <2>1
    <3>2. \E i \in wrong : \A j \in wrong : i <= j
      BY <2>3, <3>1, Least
    <3>3. PICK i : i = CHOOSE k \in wrong : \A j \in wrong : k <= j
      OBVIOUS
    <3>4. i \in wrong
      BY <3>2, <3>3
    <3>5. i \in 1..Complete /\ HasBlock(src[i]) /\ ~src[i].crcOk
      BY <2>1, <3>4 DEF HasBlock
    <3>6. i \notin 1..Before
      BY <1>8, <2>3, <3>5 DEF Sound
    <3>7. Verified = i - 1
      BY <2>2, <2>3, <3>3
    <3>8. Before < i
      BY <1>3, <1>7, <3>5, <3>6
    <3> QED
      BY <1>1, <1>3, <1>7, <3>5, <3>7, <3>8
  <2>4. CASE ~(VerifyChecksums /\ wrong # {})
    BY <1>1, <1>3, <1>7, <2>2, <2>4
  <2> QED
    BY <2>3, <2>4
<1> QED
  BY <1>1, <1>3, <1>6, <1>7, <1>8

\* The bytes handed out are the beginning of the data of the frames before the first wrong one.
LEMMA IInvFaithful == IInv => Faithful
<1> SUFFICES ASSUME IInv, ~failed
             PROVE  /\ Len(delivered) <= Len(Payload(Verified))
                    /\ ~bb.stale => IsPrefix(delivered, Payload(Verified))
  BY DEF Faithful
<1>1. Payload(Verified) = PayloadOf(src, Verified)
  BY PayloadIs
<1>2. PICK out \in Seq(Nat) : out = delivered
  BY DEF IInv, Typed
<1>3. CASE pc \in Between \cup Inside
  <2>1. Sound(Before)
    BY <1>3 DEF IInv, Ends
  <2>2. src \in Seq(FrameSet) /\ Verified \in 0..Len(src) /\ Before \in Nat /\ Before <= Verified
    BY <1>3, <2>1, TakenVerified
  <2>3. PICK k \in 0..Len(src) : k = Verified
    BY <2>2
  <2>4. PICK all \in Seq(Nat) : all = PayloadOf(src, k)
    BY <2>2, PayloadType
  <2>5. PICK bs \in 0..k : bs = Before
    BY <2>2, <2>3
  <2>6. bs \in 0..Len(src)
    BY <2>3, <2>5
  <2>7. PICK sofar \in Seq(Nat) : sofar = PayloadOf(src, bs)
    BY <2>2, <2>6, PayloadType
  <2>8. Begins(sofar, all)
    BY <2>2, <2>3, <2>4, <2>5, <2>7, PayloadGrows
  <2>9. /\ Len(out) + (valid - position) = Len(sofar)
        /\ ~bb.stale => Taken(out, buffer, position, valid, sofar)
    BY <1>2, <1>3, <2>5, <2>7 DEF IInv, DataInv
  <2>10. Len(out) <= Len(sofar) /\ Len(sofar) <= Len(all)
    <3>1. position \in Nat /\ valid \in Nat /\ position <= valid /\ Len(out) \in Nat /\ Len(sofar) \in Nat
      BY DEF IInv, Typed
    <3> QED
      BY <2>8, <2>9, <3>1 DEF Begins
  <2>11. Len(out) <= Len(all)
    <3>1. Len(out) \in Nat /\ Len(sofar) \in Nat /\ Len(all) \in Nat
      OBVIOUS
    <3> QED
      BY <2>10, <3>1
  <2>12. ASSUME ~bb.stale
         PROVE  IsPrefix(out, all)
    <3>1. Begins(out, sofar)
      BY <2>9, <2>10, <2>12 DEF Taken, Begins
    <3>2. Begins(out, all)
      BY <2>8, <3>1 DEF Begins
    <3> QED
      BY <3>2, BeginsIsPrefix
  <2> QED
    BY <1>1, <1>2, <2>3, <2>4, <2>11, <2>12
<1>4. CASE pc \in {"new", "identifier"}
  <2>1. out = << >>
    BY <1>2, <1>4 DEF IInv, Place, NoData
  <2>2. /\ Len(src) \in Nat /\ src \in Seq(FrameSet) /\ (src # << >> => Len(src) > 0)
    BY StreamFacts DEF IInv
  <2>3. Complete \in 0..Len(src)
    BY <2>2 DEF Complete, Truncated
  <2>4. Verified \in 0..Len(src)
    <3>1. PICK wrong : wrong = {i \in 1..Complete : /\ src[i].kind \in {"raw", "compressed"}
                                                   /\ src[i].data # NULL /\ ~src[i].crcOk}
      OBVIOUS
    <3>2. Verified = IF VerifyChecksums /\ wrong # {}
                     THEN (CHOOSE i \in wrong : \A j \in wrong : i <= j) - 1 ELSE Complete
      BY <3>1 DEF Verified
    <3>3. CASE VerifyChecksums /\ wrong # {}
      <4>1. wrong \subseteq Nat
        BY <3>1
      <4>2. \E i \in wrong : \A j \in wrong : i <= j
        BY <3>3, <4>1, Least
      <4>3. PICK i : i = CHOOSE k \in wrong : \A j \in wrong : k <= j
        OBVIOUS
      <4>4. i \in 1..Complete
        BY <3>1, <4>2, <4>3
      <4> QED
        BY <2>2, <2>3, <3>2, <3>3, <4>3, <4>4
    <3> QED
      BY <2>3, <3>2, <3>3
  <2>5. PICK k \in 0..Len(src) : k = Verified
    BY <2>4
  <2>6. PICK all \in Seq(Nat) : all = PayloadOf(src, k)
    BY <2>2, PayloadType
  <2>7. Begins(out, all) /\ Len(out) <= Len(all)
    BY <2>1 DEF Begins
  <2>8. IsPrefix(out, all)
    BY <2>7, BeginsIsPrefix
  <2> QED
    BY <1>1, <1>2, <2>5, <2>6, <2>7, <2>8
<1>5. pc \notin {"aborted", "broken"}
  BY DEF IInv, Place, Buffers
<1> QED
  BY <1>3, <1>4, <1>5 DEF IInv, Typed

\* At the end of the input everything was handed out.
LEMMA AllDelivered ==
  ASSUME IInv, eof, ~failed, ~bb.stale
  PROVE  delivered = Payload(Complete) /\ SkippedEnd
<1>1. pc \in Between /\ pc \notin Inside /\ position = valid /\ AtEnd /\ SkippedEnd
  BY DEF IInv, Typed, Place, NoData, Buffers, Ends, Inside
<1>2. src \in Seq(FrameSet) /\ Complete \in 0..Len(src) /\ at - 1 = Complete
  BY <1>1, TakenVerified
<1>3. Before = Complete
  BY <1>1, <1>2 DEF Before
<1>4. PICK k \in 0..Len(src) : k = Complete
  BY <1>2
<1>5. PICK all \in Seq(Nat) : all = PayloadOf(src, k)
  BY <1>2, PayloadType
<1>6. PICK out \in Seq(Nat), c \in Nat : out = delivered /\ c = position /\ c = valid
  BY <1>1 DEF IInv, Typed
<1>7. Len(out) + (c - c) = Len(all) /\ Taken(out, buffer, c, c, all)
  BY <1>1, <1>3, <1>4, <1>5, <1>6 DEF IInv, DataInv
<1>8. Len(out) = Len(all)
  <2>1. Len(out) \in Nat /\ Len(all) \in Nat
    OBVIOUS
  <2>2. \A x \in Nat : x + (c - c) = x
    OBVIOUS
  <2> QED
    BY <1>7, <2>1, <2>2
<1>9. \A i \in 1..Len(out) : out[i] = all[i]
  BY <1>7 DEF Taken
<1>10. out = all
  BY <1>8, <1>9, SeqEqual
<1> QED
  BY <1>1, <1>4, <1>5, <1>6, <1>10, PayloadIs

\* -1 comes after everything.
LEMMA IInvEofMeansAll == IInv => EofMeansAll
<1> SUFFICES ASSUME IInv, ended, ~failed, ~bb.stale
             PROVE  /\ delivered = Payload(Complete)
                    /\ Truncated => src[Len(src)].kind \in {"id", "skip"} /\ present >= 4
  BY DEF EofMeansAll
<1>1. eof
  BY DEF IInv, Ends
<1> QED
  BY <1>1, AllDelivered DEF SkippedEnd

\* A transfer returns when the input is at its end.
LEMMA TransferStep ==
  ASSUME IInv, [Next]_vars, TransferReturns, ~bb.stale
  PROVE  delivered = Payload(Complete)
<1>1. pc = "ensure" /\ pc' = "idle" /\ ~failed
  BY DEF TransferReturns
<1>2. ensureBuffer
  BY <1>1 DEF Next, Step, Gone, vars, Construct, ReadIdentifier, Begin, readBlockHeader, skip, Grow,
              ReadFrame, GrowData, Decode, read, readArray, transferToStream, transferToChannel, close
<1>3. eof
  BY <1>1, <1>2 DEF ensureBuffer
<1> QED
  BY <1>1, <1>3, AllDelivered

\* Every state of the reader satisfies the inductive invariant: the place of the next byte in
\* the stream, the buffers it owns, what holds at each program point, and that the bytes handed
\* out and those left in the array are the data of the frames read so far.
THEOREM ReaderInvariance == Spec => []IInv
<1>1. Init => IInv
  BY InitIInv
<1>2. IInv /\ [Next]_vars => IInv'
  BY IInvStep
<1> QED
  BY <1>1, <1>2, PTL DEF Spec

\* However the buffers of SnappyFramedInputStream grow and allocations fail, a frame's data fit
\* into the array, the bytes to hand out are inside it, an idle stream owns exactly its three
\* buffers until close() and none afterwards, and none was returned twice unless a call failed.
THEOREM ReaderTypes == Spec => []TypeOK
<1>1. IInv => TypeOK
  BY IInvTypeOK
<1> QED
  BY <1>1, ReaderInvariance, PTL

\* However the channel cuts its answers, the buffers grow and the calls alternate, callers of
\* SnappyFramedInputStream see the data of the frames before the first wrong checksum, in order.
THEOREM FaithfulAlways == Spec => []Faithful
<1>1. IInv => Faithful
  BY IInvFaithful
<1> QED
  BY <1>1, ReaderInvariance, PTL

\* A read of SnappyFramedInputStream returns -1 only after all bytes of all frames, and only if
\* the stream was not cut inside a frame with data.
THEOREM EofAlwaysMeansAll == Spec => []EofMeansAll
<1>1. IInv => EofMeansAll
  BY IInvEofMeansAll
<1> QED
  BY <1>1, ReaderInvariance, PTL

\* A transferTo of SnappyFramedInputStream that returns normally has handed out everything, unless
\* it went on with an array given back.
THEOREM TransfersAlwaysAll == Spec => TransfersAll
<1>1. IInv /\ [Next]_vars => [(TransferReturns /\ ~bb.stale) => delivered = Payload(Complete)]_vars
  BY TransferStep
<1> QED
  BY <1>1, ReaderInvariance, PTL DEF Spec, TransfersAll

-----------------------------------------------------------------------------
(* The reader, on what a writer of this library made.                      *)

\* The identifier, then frames with data and the checksum of them.
Clean(s) ==
    \A i \in 1..Len(s) : IF i = 1 THEN s[i].kind = "id"
                         ELSE s[i].kind \in {"raw", "compressed"} /\ s[i].data # NULL /\ s[i].crcOk

\* The array that a transfer to a channel writes from was allocated before it; as long as
\* it is still the stream's, it is that long.
Wraps ==
    pc \in {"ensure", "ready"} \cup Inside /\ call = "toChannel" =>
      /\ bb.id \in Nat /\ bb.id < pool.next
      /\ bb.id = slot["buffer"] => bb.capacity = Len(buffer)

\* Nothing more comes out of a reader that ran out of memory or met the end in the middle of
\* a frame.
Stopped ==
    /\ Begins(delivered, PayloadOf(src, Complete))
    /\ \/ closed
       \/ pc \in {"aborted", "broken"} /\ (raised = "OutOfMemoryError" \/ Truncated \/ src = << >>)
       \/ /\ pc \in {"idle", "ensure", "blockHeader"} /\ (pc = "blockHeader" => got = 0)
          /\ AtEnd /\ Truncated /\ position = valid

\* On such a stream a reader has nothing to skip, and meets nothing else that makes it throw.
Calm == pc # "skip" /\ Wraps /\ (failed => Stopped)

\* What callers have is the beginning of what there is, unless a call threw.
LEMMA OutBegins ==
  ASSUME IInv, Clean(src), ~failed, ~bb.stale
  PROVE  Begins(delivered, PayloadOf(src, Complete))
<1>1. src \in Seq(FrameSet) /\ Complete \in 0..Len(src) /\ delivered \in Seq(Nat)
  <2>1. Len(src) \in Nat /\ src \in Seq(FrameSet) /\ (src # << >> => Len(src) > 0)
    BY StreamFacts DEF IInv
  <2> QED
    BY <2>1 DEF IInv, Typed, Complete, Truncated
<1>2. Verified = Complete
  <2>1. PICK wrong : wrong = {i \in 1..Complete : /\ src[i].kind \in {"raw", "compressed"}
                                                 /\ src[i].data # NULL /\ ~src[i].crcOk}
    OBVIOUS
  <2>2. wrong = {}
    BY <1>1, <2>1 DEF Clean
  <2> QED
    BY <2>1, <2>2 DEF Verified
<1>3. PICK all \in Seq(Nat) : all = PayloadOf(src, Complete)
  <2>1. PICK k \in 0..Len(src) : k = Complete
    BY <1>1
  <2> QED
    BY <1>1, <2>1, PayloadType
<1>4. PICK out \in Seq(Nat) : out = delivered
  BY <1>1
<1>5. IsPrefix(out, all)
  <2>1. IsPrefix(delivered, Payload(Verified))
    BY IInvFaithful, Zenon DEF Faithful
  <2>2. Payload(Complete) = PayloadOf(src, Complete)
    BY PayloadIs
  <2> QED
    BY <1>2, <1>3, <1>4, <2>1, <2>2
<1>6. Len(out) <= Len(all) /\ \A i \in 1..Len(out) : all[i] = out[i]
  <2>1. Len(out) <= Len(all) /\ SubSeq(out, 1, Len(out)) = SubSeq(all, 1, Len(out))
    BY <1>5 DEF IsPrefix
  <2>2. \A i \in 1..Len(out) : SubSeq(out, 1, Len(out))[i] = out[i] /\ SubSeq(all, 1, Len(out))[i] = all[i]
    BY <2>1
  <2> QED
    BY <2>1, <2>2
<1> QED
  BY <1>3, <1>4, <1>6 DEF Begins

\* The reader stops here.
LEMMA Stopping ==
  ASSUME IInv, Clean(src), ~failed, ~bb.stale, UNCHANGED <<src, present, at, off, delivered>>,
         \/ pc' \in {"aborted", "broken"} /\ (raised' = "OutOfMemoryError" \/ Truncated \/ src = << >>)
         \/ pc' = "idle" /\ AtEnd /\ Truncated /\ position' = valid'
  PROVE  Stopped'
<1>1. AtEnd' = AtEnd /\ Truncated' = Truncated /\ Complete' = Complete
  BY DEF AtEnd, Truncated, Complete
<1>2. Begins(delivered, PayloadOf(src, Complete))
  BY OutBegins
<1> QED
  BY <1>1, <1>2 DEF Stopped

\* A reader that met the cut end finds it again.
LEMMA StoppedStays ==
  ASSUME Stopped, UNCHANGED <<src, present, at, off, delivered, closed, position, valid>>,
         ~closed => pc \in {"idle", "ensure", "blockHeader"} /\ pc' \in {"idle", "ensure", "blockHeader"},
         pc' = "blockHeader" => got' = 0
  PROVE  Stopped'
<1>1. AtEnd' = AtEnd /\ Truncated' = Truncated /\ Complete' = Complete
  BY DEF AtEnd, Truncated, Complete
<1> QED
  BY <1>1 DEF Stopped

\* A reader that is busy with a frame has not stopped.
LEMMA NotStopped ==
  ASSUME IInv, Calm,
         pc \in {"new", "identifier", "skip", "ready", "grow", "frame", "growData", "decode"} \/ (pc = "blockHeader" /\ got # 0)
  PROVE  ~failed
<1>1. ~closed
  BY DEF IInv, Buffers
<1> QED
  BY <1>1 DEF Calm, Stopped

LEMMA WrapsStays ==
  ASSUME Wraps, UNCHANGED <<call, bb, pool, slot>>, Len(buffer') = Len(buffer),
         pc \in {"ensure", "ready"} \cup Inside \/ pc' \notin {"ensure", "ready"} \cup Inside
  PROVE  Wraps'
BY DEF Wraps

\* The frame that is being read is one with data.
LEMMA CleanFrame ==
  ASSUME IInv, Clean(src), pc \in Inside, pc # "skip", got > 0
  PROVE  /\ Frame \in FrameSet
         /\ Frame.kind \in {"raw", "compressed"} /\ Frame.data # NULL /\ Frame.crcOk
         /\ AtEnd /\ (got < 4 \/ got < FrameLen(Frame)) => Truncated
<1>1. PICK i \in 1..Len(src) :
           /\ Frame = src[i] /\ Frame \in FrameSet /\ FrameLen(Frame) \in Nat
           /\ got < FrameLen(Frame) => i = at /\ off = got
           /\ got = FrameLen(Frame) => i = at - 1 /\ off = 0
           /\ got <= FrameLen(Frame)
  BY FrameInside
<1>2. at > 1 /\ got \in Nat /\ Len(src) \in Nat /\ at \in 1..(Len(src) + 1)
  BY InsideFacts
<1>3. i # 1 => Frame.kind \in {"raw", "compressed"} /\ Frame.data # NULL /\ Frame.crcOk
  BY <1>1 DEF Clean
<1>4. FrameLen(Frame) >= 4
  BY <1>1, FrameFacts
<1>5. i # 1
  <2>1. i = 1 => FrameLen(Frame) = 10 /\ Frame.kind = "id"
    BY <1>1, FrameFacts DEF Clean, IDENTIFIER_SIZE
  <2>2. CASE pc = "blockHeader"
    <3>1. got <= 4
      BY <2>2 DEF IInv, Place
    <3> QED
      BY <1>1, <1>2, <2>1, <3>1
  <2>3. CASE pc # "blockHeader"
    <3>1. Frame.kind \in {"raw", "compressed"}
      BY <2>3 DEF IInv, FramePlace, Inside
    <3> QED
      BY <2>1, <3>1
  <2> QED
    BY <2>2, <2>3
<1>6. ASSUME AtEnd, got < 4 \/ got < FrameLen(Frame)
      PROVE  Truncated
  <2>1. got < FrameLen(Frame)
    BY <1>1, <1>2, <1>4, <1>6
  <2>2. i = at /\ off = got /\ Frame = src[at] /\ at <= Len(src)
    BY <1>1, <1>2, <2>1
  <2>3. at = Len(src) /\ off = present
    BY <1>2, <1>6, <2>2 DEF AtEnd
  <2>4. present < FrameLen(src[Len(src)])
    BY <2>1, <2>2, <2>3
  <2>5. src # << >>
    BY <1>1
  <2> QED
    BY <2>4, <2>5 DEF Truncated
<1> QED
  BY <1>1, <1>3, <1>5, <1>6

LEMMA ConstructCalm ==
  ASSUME IInv, Clean(src), Calm, ~bb.stale, Construct
  PROVE  Calm'
<1>1. /\ pc = "new" /\ allocateBuffersBasedOnSize(InitialSize, "identifier")
      /\ UNCHANGED <<src, present, at, off>>
  BY DEF Construct, inVars
<1>2. ~failed
  BY <1>1, NotStopped
<1>3. Fits(InitialSize)
  BY SizesAssumption DEF BufferSizes, Fits
<1>4. \/ pc' = "identifier" /\ UNCHANGED ghostVars
      \/ Throw("aborted", "OutOfMemoryError")
  BY <1>1, <1>3, AllocateStep
<1>5. CASE pc' = "identifier" /\ UNCHANGED ghostVars
  BY <1>2, <1>5 DEF Calm, Wraps, ghostVars, Inside
<1>6. CASE Throw("aborted", "OutOfMemoryError")
  <2>1. pc' = "aborted" /\ raised' = "OutOfMemoryError" /\ delivered' = delivered
    BY <1>6 DEF Throw
  <2>2. Stopped'
    BY <1>1, <1>2, <2>1, Stopping
  <2> QED
    BY <2>1, <2>2 DEF Calm, Wraps, Inside
<1> QED
  BY <1>4, <1>5, <1>6

LEMMA IdentifierCalm ==
  ASSUME IInv, Clean(src), Calm, ~bb.stale, ReadIdentifier
  PROVE  Calm'
<1>1. pc = "identifier" /\ IdentifierAt /\ got \in Nat
  BY DEF ReadIdentifier, IInv, Place, Typed
<1>2. ~failed
  BY <1>1, NotStopped
<1>3. CASE UNCHANGED <<pc, ghostVars>>
  BY <1>1, <1>2, <1>3 DEF Calm, Wraps, ghostVars, Inside
<1>4. CASE pc' = "idle" /\ UNCHANGED ghostVars
  BY <1>2, <1>4 DEF Calm, Wraps, ghostVars, Inside
<1>5. CASE /\ got = 10 \/ AtEnd
           /\ got < 10 \/ src[1].kind # "id"
           /\ UNCHANGED inVars /\ \E e : Throw("aborted", e)
  <2>1. pc' = "aborted" /\ delivered' = delivered /\ UNCHANGED <<src, present, at, off>>
    BY <1>5 DEF Throw, inVars
  <2>2. ASSUME src # << >> PROVE Truncated
    <3>1. Len(src) \in Nat /\ Len(src) > 0 /\ 1 \in 1..Len(src)
      BY <2>2, StreamFacts DEF IInv
    <3>2. src[1].kind = "id" /\ FrameLen(src[1]) = 10
      BY <3>1, StreamFacts, FrameFacts DEF Clean, IInv, IDENTIFIER_SIZE
    <3>3. got < 10 /\ AtEnd
      BY <1>1, <1>5, <3>2
    <3>4. at = 1 /\ off = got
      BY <1>1, <2>2, <3>2, <3>3 DEF IdentifierAt, IDENTIFIER_SIZE
    <3>5. Len(src) = 1 /\ off = present
      BY <3>1, <3>3, <3>4 DEF AtEnd
    <3> QED
      BY <2>2, <3>2, <3>3, <3>4, <3>5 DEF Truncated
  <2>3. Stopped'
    BY <1>2, <2>1, <2>2, Stopping
  <2> QED
    BY <2>1, <2>3 DEF Calm, Wraps, Inside
<1> QED
  BY <1>3, <1>4, <1>5 DEF ReadIdentifier, IDENTIFIER_SIZE

LEMMA BeginCalm ==
  ASSUME IInv, Calm, NEW c, NEW n, Begin(c, n)
  PROVE  Calm'
<1>1. /\ pc = "idle" /\ call' = c /\ failed' = failed
      /\ \/ closed /\ pc' = pc
         \/ ~closed /\ pc' \in {"idle", "ensure"}
      /\ UNCHANGED <<src, present, at, off, pool, slot, buffer, valid, position, closed, delivered>>
  BY DEF Begin, inVars, poolVars, dataVars
<1>2. failed => Stopped'
  BY <1>1, StoppedStays DEF Calm
<1>3. Wraps'
  <2>1. SUFFICES ASSUME ~closed, c = "toChannel"
                 PROVE  /\ bb'.id \in Nat /\ bb'.id < pool.next
                        /\ bb'.id = slot["buffer"] => bb'.capacity = Len(buffer)
    BY <1>1 DEF Wraps, Inside
  <2>2. bb' = [bb EXCEPT !.id = slot["buffer"], !.capacity = Len(buffer)]
    BY <2>1 DEF Begin
  <2>3. bb \in [id : Ids, capacity : Nat, stale : BOOLEAN] /\ pool.next \in Nat
    BY DEF IInv, Typed, PoolType
  <2>4. bb'.id = slot["buffer"] /\ bb'.capacity = Len(buffer)
    BY <2>2, <2>3
  <2>5. slot["buffer"] \in 1..(pool.next - 1)
    BY <1>1, <2>1 DEF IInv, Buffers, Working, Between, Slots
  <2> QED
    BY <2>3, <2>4, <2>5
<1> QED
  BY <1>1, <1>2, <1>3 DEF Calm

LEMMA EnsureCalm ==
  ASSUME IInv, Calm, ensureBuffer
  PROVE  Calm'
<1>1. /\ pc = "ensure" /\ failed' = failed /\ got' = 0 /\ pc' \in {"ready", "idle", "blockHeader"}
      /\ UNCHANGED <<src, present, at, off, pool, slot, buffer, valid, position, closed, delivered, call, bb>>
  BY DEF ensureBuffer, inVars, poolVars, dataVars, ghostVars, IInv, Place, Between
<1>2. Wraps'
  BY <1>1, WrapsStays DEF Calm
<1>3. failed => Stopped'
  <2>1. SUFFICES ASSUME failed PROVE Stopped'
    OBVIOUS
  <2>2. Stopped /\ ~closed /\ position = valid
    BY <1>1, <2>1 DEF Calm, Stopped, IInv, Buffers
  <2>3. pc' # "ready"
    BY <1>1, <2>2 DEF ensureBuffer, available, IInv, Typed
  <2> QED
    BY <1>1, <2>2, <2>3, StoppedStays
<1> QED
  BY <1>1, <1>2, <1>3 DEF Calm

LEMMA HeaderCalm ==
  ASSUME IInv, Clean(src), Calm, ~bb.stale, readBlockHeader
  PROVE  Calm'
<1>1. /\ pc = "blockHeader" /\ pc \in Inside /\ got \in Nat /\ ~closed /\ position = valid
      /\ UNCHANGED <<pool, slot, buffer, valid, position, closed, call, bb>>
  BY InsideFacts DEF readBlockHeader, poolVars, dataVars, Inside
<1>2. Wraps'
  BY <1>1, WrapsStays DEF Calm
<1>3. CASE got < 4 /\ readBytes(4) /\ UNCHANGED <<eof, pc, ghostVars>>
  <2>1. ~failed
    <3>1. ~AtEnd
      BY <1>3 DEF readBytes
    <3> QED
      BY <1>1, <3>1 DEF Calm, Stopped
  <2> QED
    BY <1>1, <1>2, <1>3, <2>1 DEF Calm, ghostVars
<1>4. CASE pc' = "ensure" /\ UNCHANGED <<inVars, got, ghostVars>>
  <2>1. UNCHANGED <<src, present, at, off, delivered, failed>>
    BY <1>4 DEF inVars, ghostVars
  <2>2. failed => Stopped'
    BY <1>1, <1>4, <2>1, StoppedStays DEF Calm
  <2> QED
    BY <1>2, <1>4, <2>1, <2>2 DEF Calm
<1>5. CASE got \in 1..3 /\ AtEnd /\ Throw("idle", "EOFException") /\ UNCHANGED <<inVars, eof>>
  <2>1. ~failed
    BY <1>1, <1>5, NotStopped
  <2>2. got > 0 /\ got < 4 /\ pc # "skip"
    BY <1>1, <1>5
  <2>3. Truncated
    BY <1>1, <1>5, <2>2, CleanFrame
  <2>4. pc' = "idle" /\ UNCHANGED <<src, present, at, off, delivered>>
    BY <1>5 DEF Throw, inVars
  <2>5. position' = valid'
    BY <1>1
  <2>6. Stopped'
    BY <1>5, <2>1, <2>3, <2>4, <2>5, Stopping
  <2> QED
    BY <1>2, <2>4, <2>6 DEF Calm
<1>6. CASE got = 4
  <2>1. ~failed
    BY <1>1, <1>6, NotStopped
  <2>2. Frame.kind \in {"raw", "compressed"}
    BY <1>1, <1>6, CleanFrame
  <2>3. pc' \in {"grow", "frame"} /\ UNCHANGED ghostVars
    BY <1>6, <2>2 DEF readBlockHeader
  <2> QED
    BY <1>2, <2>1, <2>3 DEF Calm, ghostVars
<1> QED
  BY <1>3, <1>4, <1>5, <1>6 DEF readBlockHeader

\* A larger array is another one than that of the transfer.
LEMMA LargerCalm ==
  ASSUME IInv, Calm, pc \in Inside,
         pool' \in PoolType, Working(pool', slot'), slot'["buffer"] >= pool.next,
         UNCHANGED <<call, bb, ghostVars>>, pc' \in {"frame", "decode"}, ~failed
  PROVE  Calm'
<1>1. slot'["buffer"] \in 1..(pool'.next - 1) /\ pool.next \in Nat
  BY DEF Working, Slots, IInv, Typed, PoolType
<1>2. PICK k \in Nat : k = pool'.next
  BY DEF PoolType
<1> QED
  BY <1>1, <1>2 DEF Calm, Wraps, ghostVars

\* No memory for it.
LEMMA BrokenCalm ==
  ASSUME IInv, Clean(src), ~failed, ~bb.stale, Throw("broken", "OutOfMemoryError"), UNCHANGED inVars
  PROVE  Calm'
<1>1. pc' = "broken" /\ raised' = "OutOfMemoryError" /\ UNCHANGED <<src, present, at, off, delivered>>
  BY DEF Throw, inVars
<1>2. Stopped'
  BY <1>1, Stopping
<1> QED
  BY <1>1, <1>2 DEF Calm, Wraps, Inside

LEMMA GrowCalm ==
  ASSUME IInv, Clean(src), Calm, ~bb.stale, Grow
  PROVE  Calm'
<1>1. /\ pc = "grow" /\ pc \in Inside /\ got \in Nat /\ got >= 4 /\ UNCHANGED <<inVars, call, bb>>
      /\ Frame.kind \in {"raw", "compressed"}
      /\ allocateBuffersBasedOnSize(Frame.length, "frame")
  BY InsideFacts DEF Grow, IInv, FramePlace, Inside
<1>2. ~failed /\ got > 0
  BY <1>1, NotStopped
<1>3. Fits(Frame.length)
  <2>1. PICK i \in 1..Len(src) : Frame = src[i]
    BY <1>1, <1>2, FrameInside
  <2>2. Fits(src[i].length)
    BY <1>1, <2>1 DEF IInv, Typed, GoodStream
  <2> QED
    BY <2>1, <2>2
<1>4. /\ Owned(pool', slot')
      /\ \/ Working(pool', slot') /\ slot'["buffer"] >= pool.next /\ pc' = "frame" /\ UNCHANGED ghostVars
         \/ Throw("broken", "OutOfMemoryError")
  BY <1>1, <1>3, AllocateStep
<1>5. pool' \in PoolType
  BY <1>4 DEF Owned
<1> QED
  BY <1>1, <1>2, <1>4, <1>5, LargerCalm, BrokenCalm

LEMMA GrowDataCalm ==
  ASSUME IInv, Clean(src), Calm, ~bb.stale, GrowData
  PROVE  Calm'
<1>1. pc = "growData" /\ pc \in Inside /\ ~closed /\ UNCHANGED <<inVars, call, bb>>
  BY InsideFacts DEF GrowData, Inside
<1>2. ~failed
  BY <1>1, NotStopped
<1>3. PICK n \in 0..2 :
         \E a : /\ a = Allocate(Release(pool, {"uncompressedDirect", "buffer"}), slot,
                                <<"uncompressedDirect", "buffer">>, n)
                /\ pool' = a.pool /\ slot' = a.slot
                /\ IF n = 2 THEN pc' = "decode" /\ UNCHANGED <<got, ghostVars>>
                            ELSE Throw("broken", "OutOfMemoryError")
  <2>1. PICK n \in 0..2 :
         LET a == Allocate(Release(pool, {"uncompressedDirect", "buffer"}), slot,
                           <<"uncompressedDirect", "buffer">>, n)
         IN  /\ pool' = a.pool /\ slot' = a.slot
             /\ IF n = 2
                THEN pc' = "decode" /\ UNCHANGED <<got, ghostVars>>
                ELSE Throw("broken", "OutOfMemoryError")
    BY <1>1 DEF GrowData
  <2> QED
    BY <2>1
<1>4. PICK a : /\ a = Allocate(Release(pool, {"uncompressedDirect", "buffer"}), slot,
                                <<"uncompressedDirect", "buffer">>, n)
               /\ pool' = a.pool /\ slot' = a.slot
               /\ IF n = 2 THEN pc' = "decode" /\ UNCHANGED <<got, ghostVars>>
                           ELSE Throw("broken", "OutOfMemoryError")
  BY <1>3
<1>5. /\ Owned(a.pool, a.slot)
      /\ n = 2 => Working(a.pool, a.slot) /\ a.slot["buffer"] >= pool.next
  BY <1>1, <1>4, AllocateTwo DEF IInv
<1>6. CASE n = 2
  <2>1. pool' \in PoolType /\ Working(pool', slot') /\ slot'["buffer"] >= pool.next
    BY <1>4, <1>5, <1>6 DEF Owned
  <2> QED
    BY <1>1, <1>2, <1>4, <1>6, <2>1, LargerCalm
<1>7. CASE n # 2
  BY <1>1, <1>2, <1>4, <1>7, BrokenCalm
<1> QED
  BY <1>6, <1>7

LEMMA FrameCalm ==
  ASSUME IInv, Clean(src), Calm, ~bb.stale, ReadFrame
  PROVE  Calm'
<1>1. /\ pc = "frame" /\ pc \in Inside /\ got \in Nat /\ got >= 4 /\ position = valid
      /\ UNCHANGED <<pool, slot, buffer, valid, position, call, bb>>
  BY InsideFacts DEF ReadFrame, poolVars, dataVars, IInv, FramePlace, Inside
<1>2. ~failed /\ got > 0 /\ pc # "skip"
  BY <1>1, NotStopped
<1>3. Wraps'
  BY <1>1, WrapsStays DEF Calm
<1>4. Frame.data # NULL /\ (AtEnd /\ got < FrameLen(Frame) => Truncated)
  BY <1>1, <1>2, CleanFrame
<1>5. CASE UNCHANGED ghostVars /\ pc' \in {"frame", "growData", "decode"}
  BY <1>2, <1>3, <1>5 DEF Calm, ghostVars
<1>6. CASE got < FrameLen(Frame) /\ AtEnd /\ Throw("idle", "EOFException") /\ UNCHANGED inVars
  <2>1. pc' = "idle" /\ UNCHANGED <<src, present, at, off, delivered>>
    BY <1>6 DEF Throw, inVars
  <2>2. position' = valid'
    BY <1>1
  <2>3. Stopped'
    BY <1>2, <1>4, <1>6, <2>1, <2>2, Stopping
  <2> QED
    BY <1>3, <2>1, <2>3 DEF Calm
<1> QED
  BY <1>1, <1>4, <1>5, <1>6 DEF ReadFrame

LEMMA DecodeCalm ==
  ASSUME IInv, Clean(src), Calm, ~bb.stale, Decode
  PROVE  Calm'
<1>1. /\ pc = "decode" /\ pc \in Inside /\ got \in Nat /\ got >= 4
      /\ UNCHANGED <<pool, slot, call, bb>>
      /\ buffer \in Seq(Nat) /\ Len(buffer) = directCapacity /\ Len(Frame.data) <= directCapacity
      /\ buffer' = Frame.data \o SubSeq(buffer, Len(Frame.data) + 1, Len(buffer))
  BY InsideFacts DEF Decode, poolVars, IInv, FramePlace, Inside
<1>2. ~failed /\ got > 0 /\ pc # "skip"
  BY <1>1, NotStopped
<1>3. Frame \in FrameSet /\ Frame.kind \in {"raw", "compressed"} /\ Frame.data # NULL /\ Frame.crcOk
  BY <1>1, <1>2, CleanFrame
<1>4. pc' = "ready" /\ UNCHANGED ghostVars
  BY <1>3 DEF Decode
<1>5. Len(buffer') = Len(buffer)
  <2>1. PICK d \in Seq(Nat) : d = Frame.data
    BY <1>3, FrameFacts DEF HasBlock
  <2>2. PICK a \in Seq(Nat) : a = buffer
    BY <1>1
  <2>3. Len(d) \in Nat /\ Len(a) \in Nat /\ Len(d) <= Len(a)
    BY <1>1, <2>1, <2>2
  <2>4. /\ SubSeq(a, Len(d) + 1, Len(a)) \in Seq(Nat)
        /\ Len(SubSeq(a, Len(d) + 1, Len(a))) = Len(a) - Len(d)
    BY <2>3
  <2>5. PICK rest \in Seq(Nat) : rest = SubSeq(a, Len(d) + 1, Len(a)) /\ Len(rest) = Len(a) - Len(d)
    BY <2>4
  <2>6. Len(d \o rest) = Len(d) + Len(rest)
    OBVIOUS
  <2>7. buffer' = d \o rest
    BY <1>1, <2>1, <2>2, <2>5
  <2> QED
    BY <2>2, <2>3, <2>5, <2>6, <2>7
<1>6. Wraps'
  BY <1>1, <1>5, WrapsStays DEF Calm
<1> QED
  BY <1>2, <1>4, <1>6 DEF Calm, ghostVars

LEMMA ReadCalm ==
  ASSUME IInv, Calm, read \/ readArray \/ transferToStream
  PROVE  Calm'
<1>1. pc = "ready" /\ failed' = failed /\ pc' \in {"idle", "ensure"} /\ UNCHANGED call
      /\ (pc' = "ensure" => call = "toStream")
  BY DEF read, readArray, transferToStream
<1>2. ~failed
  BY <1>1, NotStopped
<1> QED
  BY <1>1, <1>2 DEF Calm, Wraps, Inside

LEMMA ChannelCalm ==
  ASSUME IInv, Calm, ~bb.stale, ~bb'.stale, transferToChannel
  PROVE  Calm'
<1>1. /\ pc = "ready" /\ call = "toChannel" /\ UNCHANGED <<pool, slot, buffer, valid, call>>
      /\ bb \in [id : Ids, capacity : Nat, stale : BOOLEAN]
      /\ valid <= Len(buffer) /\ valid \in Nat /\ buffer \in Seq(Nat)
  BY DEF transferToChannel, poolVars, IInv, Typed, Place
<1>2. ~failed
  BY <1>1, NotStopped
<1>3. bb' = [bb EXCEPT !.stale = @ \/ ~(bb.id = slot["buffer"])]
  BY DEF transferToChannel
<1>4. bb'.id = bb.id /\ bb'.capacity = bb.capacity /\ bb.id = slot["buffer"]
  BY <1>1, <1>3
<1>5. bb.capacity = Len(buffer)
  BY <1>1, <1>4 DEF Calm, Wraps
<1>6. Len(buffer) \in Nat
  BY <1>1
<1>7. pc' = "ensure" /\ UNCHANGED failed
  BY <1>1, <1>5, <1>6 DEF transferToChannel
<1>8. Wraps'
  BY <1>1, <1>4, <1>7 DEF Calm, Wraps
<1> QED
  BY <1>2, <1>7, <1>8 DEF Calm

LEMMA CloseCalm ==
  ASSUME Calm, close
  PROVE  Calm'
<1>1. /\ pc' = "idle" /\ failed' = failed /\ closed'
      /\ UNCHANGED <<src, present, at, off, delivered>>
  BY DEF close, inVars
<1>2. Complete' = Complete
  BY <1>1 DEF Complete, Truncated
<1>3. failed => Stopped'
  BY <1>1, <1>2 DEF Calm, Stopped
<1> QED
  BY <1>1, <1>3 DEF Calm, Wraps, Inside

\* A reader of what a writer made stays calm, unless it went on with an array given back.
LEMMA CalmStep ==
  ASSUME IInv, Clean(src), ~bb.stale => Calm, [Next]_vars
  PROVE  (~bb.stale => Calm)' /\ src' = src /\ present' = present
<1>1. src' = src /\ present' = present
  BY DEF Next, Step, Gone, Begin, close, Construct, ReadIdentifier, ensureBuffer, readBlockHeader,
         skip, Grow, ReadFrame, GrowData, Decode, read, readArray, transferToStream,
         transferToChannel, readBytes, vars, inVars
<1>2. bb.stale => bb'.stale
  <2>1. bb \in [id : Ids, capacity : Nat, stale : BOOLEAN]
    BY DEF IInv, Typed
  <2>2. CASE transferToChannel
    <3>1. bb' = [bb EXCEPT !.stale = @ \/ ~(bb.id = slot["buffer"])]
      BY <2>2 DEF transferToChannel
    <3> QED
      BY <2>1, <3>1
  <2>3. CASE \E c, n : Begin(c, n)
    <3>1. \/ bb' = [bb EXCEPT !.id = slot["buffer"], !.capacity = Len(buffer)]
          \/ bb' = [bb EXCEPT !.id = NULL, !.capacity = 0]
      BY <2>3 DEF Begin
    <3> QED
      BY <2>1, <3>1
  <2>4. CASE bb' = bb
    BY <2>4
  <2> QED
    BY <2>2, <2>3, <2>4
       DEF Next, Step, Gone, close, Construct, ReadIdentifier, ensureBuffer, readBlockHeader,
           skip, Grow, ReadFrame, GrowData, Decode, read, readArray, transferToStream, vars
<1>3. ASSUME ~bb'.stale
      PROVE  Calm'
  <2>1. ~bb.stale /\ Calm
    BY <1>2, <1>3
  <2>2. CASE UNCHANGED vars
    <3>1. AtEnd' = AtEnd /\ Truncated' = Truncated /\ Complete' = Complete
          /\ UNCHANGED <<src, delivered, pc, got, closed, position, valid, raised, failed, call, bb,
                         pool, slot, buffer>>
      BY <2>2 DEF AtEnd, Truncated, Complete, vars, inVars, poolVars, dataVars, ghostVars
    <3> QED
      BY <2>1, <3>1 DEF Calm, Wraps, Stopped
  <2>3. ~skip
    BY <2>1 DEF Calm, skip
  <2> QED
    BY <1>3, <2>1, <2>2, <2>3, ConstructCalm, IdentifierCalm, BeginCalm, EnsureCalm, HeaderCalm,
       GrowCalm, FrameCalm, GrowDataCalm, DecodeCalm, ReadCalm, ChannelCalm, CloseCalm
       DEF Next, Step, Gone
<1> QED
  BY <1>1, <1>3

-----------------------------------------------------------------------------
(* What the writer made, as the reader gets it.                            *)

Numbers(n) == [i \in 1..n |-> i]

LEMMA NumbersAre ==
  ASSUME NEW n \in Nat
  PROVE  Numbers(n) \in Seq(Nat) /\ Len(Numbers(n)) = n /\ \A i \in 1..n : Numbers(n)[i] = i
BY DEF Numbers

\* A run that follows the first numbers.
LEMMA NumbersRun ==
  ASSUME NEW m \in Nat, NEW d \in Seq(Nat), W!IsRun(d, m + 1)
  PROVE  Numbers(m) \o d = Numbers(m + Len(d))
<1>1. Len(d) \in Nat /\ m + Len(d) \in Nat
  OBVIOUS
<1>2. PICK p \in Seq(Nat) : p = Numbers(m) /\ Len(p) = m /\ \A i \in 1..m : p[i] = i
  BY NumbersAre
<1>3. PICK q \in Seq(Nat) : q = Numbers(m + Len(d)) /\ Len(q) = m + Len(d)
                            /\ \A i \in 1..(m + Len(d)) : q[i] = i
  BY <1>1, NumbersAre
<1>4. PICK z : z = p \o d
  OBVIOUS
<1>5. /\ z \in Seq(Nat) /\ Len(z) = m + Len(d)
      /\ \A i \in 1..m : z[i] = i
      /\ \A j \in 1..Len(d) : z[m + j] = d[j]
  <2>1. /\ z \in Seq(Nat) /\ Len(z) = Len(p) + Len(d)
        /\ \A i \in 1..Len(p) : z[i] = p[i]
        /\ \A j \in 1..Len(d) : z[Len(p) + j] = d[j]
    BY <1>4, Joined
  <2> QED
    BY <1>2, <2>1
<1>6. \A j \in 1..Len(d) : d[j] = m + j
  BY DEF W!IsRun
<1>7. ASSUME NEW i \in 1..Len(z)
      PROVE  z[i] = q[i]
  <2>1. CASE i <= m
    BY <1>1, <1>3, <1>5, <2>1
  <2>2. CASE i > m
    <3>1. PICK j \in 1..Len(d) : i = m + j
      <4>1. i - m \in 1..Len(d) /\ i = m + (i - m)
        BY <1>1, <1>5, <2>2
      <4> QED
        BY <4>1
    <3> QED
      BY <1>1, <1>3, <1>5, <1>6, <3>1
  <2> QED
    BY <1>1, <1>5, <2>1, <2>2
<1>8. z = q
  BY <1>3, <1>5, <1>7, SeqEqual
<1> QED
  BY <1>2, <1>3, <1>4, <1>8

\* The frame that Frames makes of data.
FrameOf(kind, d) == [kind |-> kind, data |-> d, crcOk |-> TRUE,
                     length |-> 4 + (IF kind = "raw" THEN Len(d) ELSE 2)]

\* q is the identifier and m frames, the numbers in order; s is what the reader finds.
Wired(q, s, kind, m) ==
    /\ Len(s) = m + 1 /\ s \in Seq(FrameSet)
    /\ s[1] = [kind |-> "id"]
    /\ W!After(q, 1) = 1
    /\ \A j \in 1..m :
         \E d \in Seq(Nat) :
           /\ d = q[2 * j + 1].data /\ Len(d) \in 1..BlockSize
           /\ s[j + 1] = FrameOf(kind, d)
           /\ W!IsRun(d, W!After(q, 2 * j - 1))

LEMMA FrameOfFacts ==
  ASSUME NEW kind \in {"raw", "compressed"}, NEW d \in Seq(Nat), Len(d) \in 1..BlockSize
  PROVE  /\ FrameOf(kind, d) \in FrameSet
         /\ FrameOf(kind, d).kind = kind /\ FrameOf(kind, d).data = d /\ FrameOf(kind, d).crcOk
         /\ kind = "raw" => FrameOf(kind, d).length = 4 + Len(d)
         /\ d # NULL /\ d # << >> /\ Fits(FrameOf(kind, d).length)
<1>1. d # NULL /\ d # << >>
  BY NullAssumption
<1>2. PICK l \in Nat : l = 4 + (IF kind = "raw" THEN Len(d) ELSE 2)
  OBVIOUS
<1>3. BlockSize \in Nat
  BY WriterAssumption
<1>4. l \in 5..(4 + BlockSize) \cup {6}
  BY <1>2, <1>3
<1>5. Fits(l)
  BY <1>4, FrameSizesAssumption DEF Fits
<1>6. FrameOf(kind, d) = [kind |-> kind, data |-> d, crcOk |-> TRUE, length |-> l]
  BY <1>2 DEF FrameOf
<1>7. l \in Nat \ 0..4 /\ d \in {NULL} \cup Seq(Nat)
  BY <1>3, <1>4
<1>8. FrameOf(kind, d) \in [kind : {"raw", "compressed"}, length : Nat \ 0..4,
                            data : {NULL} \cup Seq(Nat), crcOk : BOOLEAN]
  BY <1>6, <1>7
<1> QED
  BY <1>1, <1>2, <1>5, <1>6, <1>8 DEF FrameSet

\* The reader has nothing to complain of.
LEMMA WiredClean ==
  ASSUME NEW q, NEW s, NEW kind \in {"raw", "compressed"}, NEW m \in Nat, Wired(q, s, kind, m)
  PROVE  Clean(s) /\ GoodStream(s)
<1>1. s \in Seq(FrameSet) /\ Len(s) = m + 1 /\ s[1].kind = "id"
  BY DEF Wired
<1>2. ASSUME NEW i \in 1..Len(s), i # 1
      PROVE  /\ s[i].kind = kind /\ s[i].data # NULL /\ s[i].crcOk /\ s[i].data # << >>
             /\ kind = "raw" => s[i].length = 4 + Len(s[i].data)
             /\ Fits(s[i].length)
  <2>1. PICK j \in 1..m : i = j + 1
    <3>1. i - 1 \in 1..m /\ i = (i - 1) + 1
      BY <1>1, <1>2
    <3> QED
      BY <3>1
  <2>2. PICK d \in Seq(Nat) : Len(d) \in 1..BlockSize /\ s[i] = FrameOf(kind, d)
    BY <2>1 DEF Wired
  <2> QED
    BY <2>2, FrameOfFacts
<1>3. Clean(s)
  BY <1>1, <1>2 DEF Clean
<1>4. ASSUME NEW i \in 1..Len(s)
      PROVE  /\ s[i].kind = "raw" => s[i].data # NULL /\ s[i].length = 4 + Len(s[i].data)
             /\ s[i].kind = "compressed" /\ "read" \in Calls => s[i].data # << >>
             /\ s[i].kind \in {"raw", "compressed"} => Fits(s[i].length)
  <2>1. CASE i = 1
    BY <1>1, <2>1
  <2>2. CASE i # 1
    BY <1>2, <2>2
  <2> QED
    BY <2>1, <2>2
<1> QED
  BY <1>1, <1>3, <1>4 DEF GoodStream

\* The first k frames hold the numbers below the one that follows.
Counted(q, s, k) ==
    \E n \in Nat : W!After(q, 2 * k - 1) = n + 1 /\ PayloadOf(s, k) = Numbers(n)

LEMMA WiredCounted ==
  ASSUME NEW q, NEW s, NEW kind \in {"raw", "compressed"}, NEW m \in Nat, Wired(q, s, kind, m)
  PROVE  \A k \in 1..(m + 1) : Counted(q, s, k)
<1> DEFINE T == {k \in Nat : k \in 1..(m + 1) /\ ~Counted(q, s, k)}
<1>1. SUFFICES ASSUME T # {} PROVE FALSE
  OBVIOUS
<1>2. PICK k \in T : \A i \in T : k <= i
  <2>1. T \subseteq Nat
    OBVIOUS
  <2> HIDE DEF T
  <2> QED
    BY <1>1, <2>1, Least
<1>3. k \in Nat /\ k \in 1..(m + 1) /\ ~Counted(q, s, k)
  OBVIOUS
<1>4. CASE k = 1
  <2>1. PayloadOf(s, 0) = << >>
    BY PayloadStep
  <2>2. PayloadOf(s, 0 + 1) = IF HasBlock(s[0 + 1]) THEN PayloadOf(s, 0) \o s[0 + 1].data
                              ELSE PayloadOf(s, 0)
    BY PayloadStep
  <2>3. s[1].kind = "id" /\ W!After(q, 1) = 1
    BY DEF Wired
  <2>4. ~HasBlock(s[1])
    BY <2>3 DEF HasBlock
  <2>5. PayloadOf(s, 1) = << >>
    BY <2>1, <2>2, <2>4
  <2>6. Numbers(0) = << >>
    BY NumbersAre
  <2>7. W!After(q, 2 * 1 - 1) = 0 + 1 /\ PayloadOf(s, 1) = Numbers(0) /\ 0 \in Nat
    BY <2>3, <2>5, <2>6
  <2>8. Counted(q, s, 1)
    BY <2>7 DEF Counted
  <2> QED
    BY <1>3, <1>4, <2>8
<1>5. CASE k # 1
  <2>1. PICK j \in 1..m : k = j + 1
    <3>1. k - 1 \in 1..m /\ k = (k - 1) + 1
      BY <1>3, <1>5
    <3> QED
      BY <3>1
  <2>2. Counted(q, s, j)
    <3>1. j \in Nat /\ j \in 1..(m + 1) /\ j \notin T
      BY <1>2, <2>1
    <3> QED
      BY <3>1
  <2> HIDE DEF T
  <2>3. PICK n \in Nat : W!After(q, 2 * j - 1) = n + 1 /\ PayloadOf(s, j) = Numbers(n)
    BY <2>2 DEF Counted
  <2>4. PICK d \in Seq(Nat) :
             /\ d = q[2 * j + 1].data /\ Len(d) \in 1..BlockSize
             /\ s[k] = FrameOf(kind, d)
             /\ W!IsRun(d, W!After(q, 2 * j - 1))
    BY <2>1 DEF Wired
  <2>5. W!IsRun(d, n + 1)
    BY <2>3, <2>4
  <2>6. HasBlock(s[k]) /\ s[k].data = d /\ d # << >>
    BY <2>4, FrameOfFacts DEF HasBlock
  <2>7. PayloadOf(s, k) = PayloadOf(s, j) \o d
    <3>1. PayloadOf(s, j + 1) = IF HasBlock(s[j + 1]) THEN PayloadOf(s, j) \o s[j + 1].data
                                ELSE PayloadOf(s, j)
      BY PayloadStep
    <3> QED
      BY <2>1, <2>6, <3>1, Zenon
  <2>8. PICK l \in Nat : l = n + Len(d)
    OBVIOUS
  <2>9. PayloadOf(s, k) = Numbers(l)
    BY <2>3, <2>5, <2>7, <2>8, NumbersRun
  <2>10. W!After(q, 2 * k - 1) = l + 1
    <3>1. Len(d) \in Nat /\ Len(d) >= 1
      BY <2>6
    <3>2. d[Len(d)] = l
      BY <2>5, <2>8, <3>1 DEF W!IsRun
    <3>3. 2 * k - 1 = 2 * j + 1 /\ 2 * j + 1 # 0
      BY <2>1
    <3>4. W!After(q, 2 * j + 1) = d[Len(d)] + 1
      BY <2>4, <2>6, <3>3 DEF W!After
    <3> QED
      BY <3>2, <3>3, <3>4
  <2>11. Counted(q, s, k)
    BY <2>8, <2>9, <2>10 DEF Counted
  <2> QED
    BY <1>3, <2>11
<1> QED
  BY <1>4, <1>5

-----------------------------------------------------------------------------
(* The writer is the one of FramedOutputProofs.                            *)

WP == INSTANCE FramedOutputProofs WITH closed <- wclosed, pc <- wpc, raised <- wraised

LEMMA SameFlush ==
  /\ \A s, n : W!Put(s, n) = WP!Put(s, n)
  /\ \A s : W!flushBuffer(s) = WP!flushBuffer(s) /\ W!MakeRoom(s) = WP!MakeRoom(s)
            /\ W!remaining(s) = WP!remaining(s)
<1>1. \A s, n, c, p : W!writeBlock(s, n, c, p) = WP!writeBlock(s, n, c, p)
  BY DEF W!writeBlock, WP!writeBlock, W!Part, WP!Part
<1>2. \A s, n : W!writeCompressed(s, n) = WP!writeCompressed(s, n)
  BY <1>1 DEF W!writeCompressed, WP!writeCompressed
<1>3. \A s : W!flushBuffer(s) = WP!flushBuffer(s)
  BY <1>2 DEF W!flushBuffer, WP!flushBuffer
<1>4. \A s : W!MakeRoom(s) = WP!MakeRoom(s) /\ W!remaining(s) = WP!remaining(s)
  BY <1>3 DEF W!MakeRoom, WP!MakeRoom, W!remaining, WP!remaining
<1>5. \A s, n : W!Put(s, n) = WP!Put(s, n)
  BY DEF W!Put, WP!Put
<1> QED
  BY <1>3, <1>4, <1>5

LEMMA SameSteps ==
  /\ (W!Init <=> WP!Init) /\ (W!Construct <=> WP!Construct) /\ (W!Refused <=> WP!Refused)
  /\ \A label, n : W!Begin(label, n) <=> WP!Begin(label, n)
  /\ (W!writeByte <=> WP!writeByte) /\ (W!write <=> WP!write)
  /\ (W!writeBuffer <=> WP!writeBuffer) /\ (W!writeBufferLoop <=> WP!writeBufferLoop)
  /\ (W!transferFrom <=> WP!transferFrom) /\ (W!transferLoop <=> WP!transferLoop)
  /\ (W!flush <=> WP!flush) /\ (W!close <=> WP!close)
<1>1. W!Init <=> WP!Init
  BY DEF W!Init, WP!Init
<1>2. (W!Construct <=> WP!Construct) /\ (W!Refused <=> WP!Refused)
  BY DEF W!Construct, WP!Construct, W!Refused, WP!Refused, W!Part, WP!Part
<1>3. \A label, n : W!Begin(label, n) <=> WP!Begin(label, n)
  BY DEF W!Begin, WP!Begin
<1>4. W!Throw <=> WP!Throw
  BY DEF W!Throw, WP!Throw
<1>5. W!writeByte <=> WP!writeByte
  BY <1>4, SameFlush DEF W!writeByte, WP!writeByte
<1>6. W!write <=> WP!write
  BY <1>4, SameFlush DEF W!write, WP!write
<1>7. W!writeBuffer <=> WP!writeBuffer
  BY <1>4, SameFlush DEF W!writeBuffer, WP!writeBuffer
<1>8. W!writeBufferLoop <=> WP!writeBufferLoop
  BY <1>4, SameFlush DEF W!writeBufferLoop, WP!writeBufferLoop
<1>9. W!transferFrom <=> WP!transferFrom
  BY <1>4, SameFlush DEF W!transferFrom, WP!transferFrom
<1>10. W!transferLoop <=> WP!transferLoop
  BY <1>4, SameFlush DEF W!transferLoop, WP!transferLoop
<1>11. (W!flush <=> WP!flush) /\ (W!close <=> WP!close)
  BY SameFlush DEF W!flush, WP!flush, W!close, WP!close
<1> QED
  BY <1>1, <1>2, <1>3, <1>5, <1>6, <1>7, <1>8, <1>9, <1>10, <1>11

LEMMA SameAfter ==
  /\ \A x, i : W!After(x, i) = WP!After(x, i)
  /\ \A d, n : W!IsRun(d, n) <=> WP!IsRun(d, n)
BY DEF W!After, WP!After, W!IsRun, WP!IsRun

LEMMA WriterAssumed == WP!FramedOutputAssumption
BY WriterAssumption DEF WP!FramedOutputAssumption

\* The promise is kept: so many bytes are no longer in the buffer.
Honoured == promised \in Nat /\ promised <= accepted - b.position

\* The numbers of the writer.
LEMMA WriterTypes ==
  ASSUME WP!FInv
  PROVE  /\ b.position \in Nat /\ accepted \in Nat /\ accepted <= MaxBytes /\ MaxBytes \in Nat
         /\ b.sink \in Seq(WP!Parts) /\ WP!Sound(b, accepted)
<1>1. BlockSize \in Nat /\ MaxBytes \in Nat
  BY WriterAssumption
<1>2. accepted \in Nat /\ todo \in Nat /\ accepted + todo <= MaxBytes /\ WP!Sound(b, accepted)
  BY DEF WP!FInv, WP!Fields
<1>3. b \in WP!Sides
  BY <1>2 DEF WP!Sound, WP!Typed
<1>4. b.position \in 0..BlockSize /\ b.sink \in Seq(WP!Parts)
  BY <1>3 DEF WP!Sides, WP!Parts
<1> QED
  BY <1>1, <1>2, <1>4

LEMMA WriterStarts ==
  ASSUME W!Init
  PROVE  WP!FInv /\ (promised = 0 => Honoured)
<1>1. WP!FInv
  BY SameSteps, WriterAssumed, WP!Starts
<1>2. b.position = 0 /\ accepted = 0
  BY DEF W!Init
<1> QED
  BY <1>1, <1>2 DEF Honoured

\* A step of the writer.
LEMMA WriteStep ==
  ASSUME WP!FInv, Honoured, Write
  PROVE  WP!FInv' /\ Honoured'
<1>1. WP!Next
  <2>1. \/ WP!Construct \/ WP!Refused \/ WP!close \/ WP!flush
        \/ \E n \in WriteSizes, label \in {"write", "buffer", "transfer"} : WP!Begin(label, n)
        \/ WP!writeByte \/ WP!write \/ WP!writeBuffer \/ WP!writeBufferLoop
        \/ WP!transferFrom \/ WP!transferLoop
    BY SameSteps DEF Write
  <2> QED
    BY <2>1 DEF WP!Next
<1>2. WP!FInv'
  BY <1>1, WriterAssumed, WP!FInvStep
<1>3. b.position \in Nat /\ accepted \in Nat
  BY WriterTypes
<1>4. b'.position \in Nat /\ accepted' \in Nat
  <2>1. (WP!FInv => b.position \in Nat /\ accepted \in Nat)'
    BY WriterTypes, PTL
  <2> QED
    BY <1>2, <2>1
<1>5. CASE (W!flush \/ (W!close /\ ~wclosed)) /\ wraised' = "none" /\ promised' = accepted
  <2>1. WP!flush \/ (WP!close /\ ~wclosed)
    BY <1>5, SameSteps
  <2>2. b'.position = 0 /\ accepted' = accepted
    BY <1>5, <2>1, WriterAssumed, WP!FlushSends
  <2> QED
    BY <1>2, <1>3, <1>5, <2>2 DEF Honoured
<1>6. CASE UNCHANGED promised
  <2>1. accepted - b.position <= accepted' - b'.position
    BY <1>1, WriterAssumed, WP!SentGrows
  <2> QED
    BY <1>2, <1>3, <1>4, <1>6, <2>1 DEF Honoured
<1> QED
  BY <1>5, <1>6 DEF Write, Kept

\* What the reader finds of a writer whose channel refused nothing but heads of compressed
\* frames.
LEMMA WriterWired ==
  ASSUME WP!FInv, b.kinds \subseteq {"headFails"}, b.sink # << >>,
         NEW kind \in {"raw", "compressed"}
  PROVE  \E m \in Nat : Len(b.sink) = 2 * m + 1 /\ Wired(b.sink, Frames(b.sink, kind), kind, m)
<1>1. PICK q \in Seq(WP!Parts) : q = b.sink
  BY WriterTypes
<1>2. WP!Frames(q) /\ \A i \in 1..Len(q) : q[i].part = "body" => W!IsRun(q[i].data, W!After(q, i - 2))
  <2>1. WP!Frames(b.sink) /\ WP!Complete(b.sink, accepted - b.position)
    BY WriterTypes DEF WP!Sound
  <2> QED
    BY <1>1, <2>1, SameAfter DEF WP!Complete
<1>3. Len(q) \in Nat /\ Len(q) # 0 /\ \A i \in 1..Len(q) : q[i] \in WP!Parts
  BY <1>1
<1>4. PICK m \in Nat : Len(q) = 2 * m + 1
  <2>1. Len(q) % 2 = 1
    BY <1>2, <1>3 DEF WP!Frames
  <2>2. Len(q) \div 2 \in Nat /\ Len(q) = 2 * (Len(q) \div 2) + 1
    BY <1>3, <2>1
  <2> QED
    BY <2>2
<1>5. (Len(q) + 1) \div 2 = m + 1
  BY <1>4
<1>6. PICK s : s = Frames(q, kind)
  OBVIOUS
<1>7. s = [i \in 1..(m + 1) |->
            IF i = 1 THEN [kind |-> "id"]
            ELSE [kind |-> kind, data |-> q[2 * i - 1].data,
                  crcOk |-> q[2 * i - 2].data = q[2 * i - 1].data,
                  length |-> 4 + (IF kind = "raw" THEN Len(q[2 * i - 1].data) ELSE 2)]]
  BY <1>5, <1>6 DEF Frames
<1>8. s[1] = [kind |-> "id"]
  BY <1>7
<1>9. ASSUME NEW j \in 1..m
      PROVE  \E d \in Seq(Nat) :
               /\ d = q[2 * j + 1].data /\ Len(d) \in 1..BlockSize
               /\ s[j + 1] = FrameOf(kind, d)
               /\ W!IsRun(d, W!After(q, 2 * j - 1))
  <2>1. PICK i : i = 2 * j + 1 /\ i \in 1..Len(q) /\ i # 1 /\ i % 2 = 1 /\ i - 2 = 2 * j - 1 /\ i - 1 = 2 * j
    BY <1>4
  <2>2. PICK d \in Seq(Nat) : d = q[i].data
    BY <1>3, <2>1 DEF WP!Parts
  <2>3. q[i].part = "body"
    BY <1>2, <2>1 DEF WP!Frames
  <2>4. Len(d) \in 1..BlockSize /\ q[i - 1].data = d
    BY <1>2, <2>1, <2>2, <2>3 DEF WP!Frames
  <2>5. W!IsRun(d, W!After(q, i - 2))
    BY <1>2, <2>1, <2>2, <2>3
  <2>6. j + 1 \in 1..(m + 1) /\ j + 1 # 1 /\ 2 * (j + 1) - 1 = i /\ 2 * (j + 1) - 2 = i - 1
    BY <2>1
  <2>7. PICK k : k = j + 1
    OBVIOUS
  <2>8. s[k] = [kind |-> kind, data |-> q[2 * k - 1].data,
                crcOk |-> q[2 * k - 2].data = q[2 * k - 1].data,
                length |-> 4 + (IF kind = "raw" THEN Len(q[2 * k - 1].data) ELSE 2)]
    BY <1>7, <2>6, <2>7, Zenon
  <2>9. q[2 * k - 1].data = d /\ q[2 * k - 2].data = d /\ (d = d) = TRUE
    BY <2>2, <2>4, <2>6, <2>7
  <2>10. s[k] = FrameOf(kind, d)
    BY <2>8, <2>9 DEF FrameOf
  <2> QED
    BY <2>1, <2>2, <2>4, <2>5, <2>7, <2>10
<1>10. \A i \in 1..(m + 1) : s[i] \in FrameSet
  <2> SUFFICES ASSUME NEW i \in 1..(m + 1) PROVE s[i] \in FrameSet
    OBVIOUS
  <2>1. CASE i = 1
    BY <1>8, <2>1 DEF FrameSet
  <2>2. CASE i # 1
    <3>1. PICK j \in 1..m : i = j + 1
      <4>1. i - 1 \in 1..m /\ i = (i - 1) + 1
        BY <2>2
      <4> QED
        BY <4>1
    <3> QED
      BY <1>9, <3>1, FrameOfFacts
  <2> QED
    BY <2>1, <2>2
<1>11. Len(s) = m + 1 /\ s \in Seq(FrameSet)
  <2>1. PICK n \in Nat : n = m + 1
    OBVIOUS
  <2>2. DOMAIN s = 1..n /\ s = [i \in 1..n |-> s[i]] /\ \A i \in 1..n : s[i] \in FrameSet
    BY <1>7, <1>10, <2>1
  <2> QED
    BY <2>1, <2>2
<1>12. W!After(q, 1) = 1
  <2>1. q[1].data = << >>
    BY <1>2, <1>3 DEF WP!Frames
  <2> QED
    BY <2>1 DEF W!After
<1> QED
  BY <1>1, <1>4, <1>6, <1>8, <1>9, <1>11, <1>12 DEF Wired

-----------------------------------------------------------------------------
(* The writer and the reader.                                              *)

\* The reader gets the first bytes, those that were promised among them.
Sent(s) ==
    /\ promised \in Nat
    /\ \E k \in promised..MaxBytes : PayloadOf(s, Len(s)) = Numbers(k)

\* The writer has its invariant and the promise until it is given up; the reader of a stream
\* for which something was promised has its own, and the stream was made by the writer.
PipeInv ==
    /\ pc = "none" => Fresh /\ WP!FInv /\ Honoured
    /\ pc # "none" /\ promised # NULL =>
         IInv /\ Clean(src) /\ Sent(src) /\ (~bb.stale => Calm)

LEMMA PipeStarts == PipeInit => PipeInv
<1> SUFFICES ASSUME PipeInit PROVE PipeInv
  OBVIOUS
<1>1. W!Init
  BY DEF PipeInit
<1>2. CASE Init /\ promised = NULL
  BY <1>2 DEF PipeInv, Init
<1>3. CASE pc = "none" /\ Fresh /\ promised = 0
  BY <1>1, <1>3, WriterStarts DEF PipeInv
<1> QED
  BY <1>2, <1>3 DEF PipeInit

\* What the writer left is a stream with the bytes that were promised.
LEMMA Left ==
  ASSUME WP!FInv, Honoured, b.kinds \subseteq {"headFails"}, NEW kind \in {"raw", "compressed"}
  PROVE  Clean(Frames(b.sink, kind)) /\ GoodStream(Frames(b.sink, kind)) /\ Sent(Frames(b.sink, kind))
<1>1. PICK s : s = Frames(b.sink, kind)
  OBVIOUS
<1>2. /\ b.position \in Nat /\ accepted \in Nat /\ accepted <= MaxBytes /\ MaxBytes \in Nat
      /\ promised \in Nat /\ promised <= accepted - b.position
  BY WriterTypes DEF Honoured
<1>3. W!After(b.sink, Len(b.sink)) - 1 = accepted - b.position
  <2>1. WP!Complete(b.sink, accepted - b.position)
    BY WriterTypes DEF WP!Sound
  <2> QED
    BY <2>1, SameAfter DEF WP!Complete, WP!Delivered
<1>4. ASSUME NEW k \in Nat, W!After(b.sink, Len(b.sink)) = k + 1, PayloadOf(s, Len(s)) = Numbers(k)
      PROVE  Sent(s)
  <2>1. k = accepted - b.position
    BY <1>2, <1>3, <1>4
  <2>2. k \in promised..MaxBytes
    BY <1>2, <2>1
  <2> QED
    BY <1>2, <1>4, <2>2 DEF Sent
<1>5. CASE b.sink = << >>
  <2>1. Len(b.sink) = 0 /\ (Len(b.sink) + 1) \div 2 = 0
    BY <1>5
  <2>2. s = << >> /\ Len(s) = 0
    BY <1>1, <2>1 DEF Frames
  <2>3. PayloadOf(s, 0) = << >> /\ Numbers(0) = << >>
    BY PayloadStep, NumbersAre
  <2>4. W!After(b.sink, Len(b.sink)) = 0 + 1
    BY <2>1 DEF W!After
  <2>5. Sent(s)
    BY <1>4, <2>2, <2>3, <2>4
  <2>6. Clean(s) /\ GoodStream(s)
    BY <2>2 DEF Clean, GoodStream
  <2> QED
    BY <1>1, <2>5, <2>6
<1>6. CASE b.sink # << >>
  <2>1. PICK m \in Nat : Len(b.sink) = 2 * m + 1 /\ Wired(b.sink, s, kind, m)
    BY <1>1, <1>6, WriterWired
  <2>2. Clean(s) /\ GoodStream(s)
    BY <2>1, WiredClean
  <2>3. m + 1 \in 1..(m + 1) /\ Len(s) = m + 1 /\ 2 * (m + 1) - 1 = Len(b.sink)
    BY <2>1 DEF Wired
  <2>4. Counted(b.sink, s, m + 1)
    BY <2>1, <2>3, WiredCounted
  <2>5. PICK k \in Nat : W!After(b.sink, Len(b.sink)) = k + 1 /\ PayloadOf(s, Len(s)) = Numbers(k)
    BY <2>3, <2>4 DEF Counted
  <2>6. Sent(s)
    BY <1>4, <2>5
  <2> QED
    BY <1>1, <2>2, <2>6
<1> QED
  BY <1>5, <1>6

\* A reader is made for it.
LEMMA OpenStep ==
  ASSUME PipeInv, Open
  PROVE  PipeInv'
<1>1. Fresh /\ WP!FInv /\ Honoured /\ pc' = "new"
  BY DEF PipeInv, Open
<1>2. SUFFICES ASSUME promised' # NULL
               PROVE  (IInv /\ Clean(src) /\ Sent(src) /\ (~bb.stale => Calm))'
  BY <1>1 DEF PipeInv
<1>3. b.kinds \subseteq {"headFails"} /\ promised' = promised
  BY <1>2 DEF Open
<1>4. PICK kind \in {"raw", "compressed"} : src' = Frames(b.sink, kind)
  BY DEF Open
<1>5. Clean(src') /\ GoodStream(src') /\ Sent(src')
  BY <1>1, <1>3, <1>4, Left
<1>6. Fresh'
  BY <1>1 DEF Open, Fresh, poolVars, dataVars, ghostVars
<1>7. IInv'
  <2>1. (GoodStream(src) /\ present \in Cuts(src) /\ Fresh /\ pc = "new" => IInv)'
    BY FreshIInv, PTL
  <2>2. GoodStream(src)'
    BY <1>5 DEF GoodStream, Fits
  <2>3. (present \in Cuts(src))'
    BY DEF Open
  <2> QED
    BY <1>1, <1>6, <2>1, <2>2, <2>3
<1>8. Calm'
  BY <1>1, <1>6 DEF Calm, Wraps, Fresh, Inside
<1>9. Sent(src)'
  BY <1>3, <1>5 DEF Sent
<1> QED
  BY <1>5, <1>7, <1>8, <1>9

\* A reader stays one.
LEMMA ReaderStays == pc # "none" /\ [Next]_vars => pc' # "none"
BY DEF Next, Step, Gone, Begin, close, Construct, ReadIdentifier, ensureBuffer, readBlockHeader,
       skip, Grow, ReadFrame, GrowData, Decode, read, readArray, transferToStream,
       transferToChannel, allocateBuffersBasedOnSize, Throw, vars

LEMMA PipeStep == PipeInv /\ [PipeNext]_pipeVars => PipeInv'
<1> SUFFICES ASSUME PipeInv, [PipeNext]_pipeVars PROVE PipeInv'
  OBVIOUS
<1>1. CASE Write
  <2>1. pc = "none" /\ pc' = "none" /\ Fresh /\ WP!FInv /\ Honoured
    BY <1>1 DEF Write, PipeInv, vars
  <2>2. WP!FInv' /\ Honoured'
    BY <1>1, <2>1, WriteStep
  <2>3. Fresh'
    BY <1>1, <2>1 DEF Write, Fresh, vars, inVars, poolVars, dataVars, ghostVars
  <2> QED
    BY <2>1, <2>2, <2>3 DEF PipeInv
<1>2. CASE Open
  BY <1>2, OpenStep
<1>3. CASE pc # "none" /\ [Next]_vars /\ promised' = promised
  <2>1. pc' # "none"
    BY <1>3, ReaderStays
  <2>2. ASSUME promised # NULL
        PROVE  (IInv /\ Clean(src) /\ Sent(src) /\ (~bb.stale => Calm))'
    <3>1. IInv /\ Clean(src) /\ Sent(src) /\ (~bb.stale => Calm)
      BY <1>3, <2>2 DEF PipeInv
    <3>2. IInv'
      BY <1>3, <3>1, IInvStep
    <3>3. (~bb.stale => Calm)' /\ src' = src
      BY <1>3, <3>1, CalmStep
    <3>4. Sent(src)'
      BY <1>3, <3>1, <3>3 DEF Sent
    <3> QED
      BY <3>1, <3>2, <3>3, <3>4
  <2> QED
    BY <1>3, <2>1, <2>2 DEF PipeInv
<1>4. CASE pc = "none" /\ UNCHANGED pipeVars
  <2>1. UNCHANGED <<vars, writer, promised>>
    BY <1>4 DEF pipeVars
  <2>2. Fresh' /\ pc' = pc
    BY <1>4, <2>1 DEF PipeInv, Fresh, vars, inVars, poolVars, dataVars, ghostVars
  <2>3. WP!FInv'
    <3>1. UNCHANGED WP!vars
      BY <2>1 DEF writer, WP!vars
    <3> QED
      BY <1>4, <3>1, WriterAssumed, WP!FInvStep DEF PipeInv
  <2>4. Honoured'
    BY <1>4, <2>1 DEF PipeInv, Honoured, writer
  <2> QED
    BY <1>4, <2>2, <2>3, <2>4 DEF PipeInv
<1> QED
  BY <1>1, <1>2, <1>3, <1>4 DEF PipeNext, Read, pipeVars

\* What was promised comes out.
LEMMA PipeRoundTrip == PipeInv => RoundTrip
<1> SUFFICES ASSUME PipeInv, promised # NULL, pc # "none", ~bb.stale
             PROVE  /\ IsPrefix(delivered, Numbers(MaxBytes))
                    /\ failed /\ ~closed => Truncated \/ src = << >> \/ raised = "OutOfMemoryError"
                    /\ ended /\ ~Truncated /\ ~failed => Len(delivered) >= promised
  BY DEF RoundTrip, Numbers
<1>1. IInv /\ Clean(src) /\ Calm
  BY DEF PipeInv
<1>2. PICK k \in promised..MaxBytes : PayloadOf(src, Len(src)) = Numbers(k)
  BY DEF PipeInv, Sent
<1>3. MaxBytes \in Nat /\ promised \in Nat /\ k \in Nat /\ k <= MaxBytes /\ promised <= k
  BY <1>2, WriterAssumption DEF PipeInv, Sent
<1>4. src \in Seq(FrameSet) /\ Len(src) \in Nat /\ Complete \in 0..Len(src) /\ delivered \in Seq(Nat)
  <2>1. Len(src) \in Nat /\ src \in Seq(FrameSet) /\ (src # << >> => Len(src) > 0)
    BY <1>1, StreamFacts DEF IInv
  <2> QED
    BY <1>1, <2>1 DEF IInv, Typed, Complete, Truncated
<1>5. PICK c \in 0..Len(src) : c = Complete
  BY <1>4
<1>6. PICK part \in Seq(Nat) : part = PayloadOf(src, c)
  BY <1>4, <1>5, PayloadType
<1>7. Begins(part, Numbers(k))
  <2>1. Len(src) \in 0..Len(src)
    BY <1>4
  <2>2. Begins(PayloadOf(src, c), PayloadOf(src, Len(src)))
    BY <1>4, <1>5, <2>1, PayloadGrows
  <2> QED
    BY <1>2, <1>6, <2>2
<1>8. PICK p \in Seq(Nat) : p = Numbers(k) /\ Len(p) = k /\ \A i \in 1..k : p[i] = i
  BY <1>3, NumbersAre
<1>9. PICK q \in Seq(Nat) : q = Numbers(MaxBytes) /\ Len(q) = MaxBytes /\ \A i \in 1..MaxBytes : q[i] = i
  BY <1>3, NumbersAre
<1>10. Begins(delivered, part)
  BY <1>1, <1>5, <1>6, OutBegins DEF Calm, Stopped
<1>11. Begins(delivered, q)
  <2>1. Begins(part, p)
    BY <1>7, <1>8
  <2>2. PICK out \in Seq(Nat) : out = delivered
    BY <1>4
  <2>3. Len(out) <= Len(part) /\ Len(part) <= Len(p) /\ Len(p) <= Len(q)
    BY <1>3, <1>8, <1>9, <1>10, <2>1, <2>2 DEF Begins
  <2>4. ASSUME NEW i \in 1..Len(out) PROVE q[i] = out[i]
    <3>1. i \in 1..Len(part) /\ i \in 1..Len(p) /\ i \in 1..Len(q)
      BY <2>3
    <3>2. part[i] = out[i] /\ p[i] = part[i]
      BY <1>10, <2>1, <2>2, <3>1 DEF Begins
    <3> QED
      BY <1>8, <1>9, <3>1, <3>2
  <2> QED
    BY <2>2, <2>3, <2>4 DEF Begins
<1>12. IsPrefix(delivered, Numbers(MaxBytes))
  BY <1>4, <1>9, <1>11, BeginsIsPrefix
<1>13. failed /\ ~closed => Truncated \/ src = << >> \/ raised = "OutOfMemoryError"
  BY <1>1 DEF Calm, Stopped
<1>14. ASSUME ended, ~Truncated, ~failed
       PROVE  Len(delivered) >= promised
  <2>1. delivered = Payload(Complete)
    BY <1>1, <1>14, IInvEofMeansAll DEF EofMeansAll
  <2>2. Complete = Len(src)
    BY <1>14 DEF Complete
  <2>3. delivered = PayloadOf(src, Len(src))
    BY <2>1, <2>2, PayloadIs
  <2>4. Len(delivered) = k
    BY <1>2, <1>8, <2>3
  <2> QED
    BY <1>3, <2>4
<1> QED
  BY <1>12, <1>13, <1>14

\* However a SnappyFramedOutputStream of any block size is used, whatever heads of compressed
\* frames its channel had refused, and wherever it was given up, a SnappyFramedInputStream gets
\* the bytes before the last flush or close that returned normally, in order, before it returns
\* -1, and throws only where memory runs out or the output lost its end or its beginning.
THEOREM RoundTripAlways == PipeSpec => []RoundTrip
<1>1. PipeInit => PipeInv
  BY PipeStarts
<1>2. PipeInv /\ [PipeNext]_pipeVars => PipeInv'
  BY PipeStep
<1>3. PipeInv => RoundTrip
  BY PipeRoundTrip
<1> QED
  BY <1>1, <1>2, <1>3, PTL DEF PipeSpec
=============================================================================
