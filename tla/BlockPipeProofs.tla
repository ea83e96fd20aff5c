-------------------------- MODULE BlockPipeProofs --------------------------
(***************************************************************************)
(* SnappyInputStream, for streams of any length and data and read arrays   *)
(* of any length, however in.read cuts its answers: callers get the        *)
(* decompressed bytes in order, and the end only after all of them.  And   *)
(* SnappyOutputStream followed by it: every byte that was promised comes   *)
(* out again.                                                              *)
(*                                                                         *)
(* The invariant of the reader says of each program point where the next   *)
(* byte of the stream is, and that what callers have with what is left of  *)
(* the block is the data of the items read so far.  Payload is defined by  *)
(* recursion over the items; lemma Least, the least element of a set of    *)
(* numbers, stands in for induction.  The writer has the invariant of      *)
(* BlockOutputProofs, from which what out received is a header and blocks  *)
(* with the numbers 1, 2, and so on; of such a stream a reader can meet    *)
(* nothing worse than its cut end.                                         *)
(***************************************************************************)
EXTENDS BlockPipe, FiniteSetTheorems, SequenceTheorems, TLAPS

-----------------------------------------------------------------------------
(* What a stream decompresses to.                                          *)

\* A set of numbers has a least element, since the intervals below its elements are
\* finite sets ordered by inclusion.  This stands in for induction.
LEMMA Least ==
  ASSUME NEW T, T \subseteq Nat, T # {}
  PROVE  \E m \in T : \A n \in T : m <= n
<1>1. PICK top \in T : TRUE
  OBVIOUS
<1> DEFINE S == 1..top
           F == {1..k : k \in {j \in T : j <= top}}
<1>2. IsWellFoundedOn(StrictSubsetOrdering(S), FiniteSubsetsOf(S))
  BY FS_StrictSubsetOrderingWellFounded
<1>3. ASSUME NEW X \in F
      PROVE  X \in FiniteSubsetsOf(S)
  <2>1. PICK k \in T : k <= top /\ X = 1..k
    OBVIOUS
  <2>2. k \in Int /\ 1 \in Int
    OBVIOUS
  <2>3. IsFiniteSet(1..k)
    BY <2>2, FS_Interval
  <2>4. X \in SUBSET S
    BY <2>1
  <2> QED
    BY <2>1, <2>3, <2>4 DEF FiniteSubsetsOf
<1>4. 1..top \in F
  OBVIOUS
<1>5. PICK X \in F : \A Y \in F : ~ (<<Y, X>> \in StrictSubsetOrdering(S))
  <2> HIDE DEF F, S
  <2>1. F \subseteq FiniteSubsetsOf(S) /\ F # {}
    BY <1>3, <1>4
  <2> QED
    BY <1>2, <2>1, WFMin
<1>6. PICK m \in T : m <= top /\ X = 1..m
  OBVIOUS
<1>7. ASSUME NEW n \in T, n < m
      PROVE  FALSE
  <2>1. 1..n \in F
    BY <1>6, <1>7
  <2>2. 1..n \subseteq 1..m /\ m \in 1..m /\ m \notin 1..n
    BY <1>7
  <2>3. 1..n \subseteq S /\ 1..m \subseteq S
    BY <1>6, <1>7
  <2>4. 1..n # 1..m
    BY <2>2
  <2>5. <<1..n, X>> \in StrictSubsetOrdering(S)
    <3> HIDE DEF S, F
    <3>1. 1..n \in SUBSET S /\ 1..m \in SUBSET S
      BY <2>3
    <3> QED
      BY <1>6, <2>2, <2>4, <3>1, Zenon DEF StrictSubsetOrdering
  <2> QED
    BY <1>5, <2>1, <2>5
<1> QED
  BY <1>7

\* The items that have data.
HasBlock(i) == i.kind \in {"chunk", "raw"} /\ i.data # NULL

\* g is the data of the first i items of s, for each i up to n.
IsPayload(g, s, n) ==
    g = [i \in 0..n |-> IF i = 0 THEN << >>
                        ELSE IF HasBlock(s[i]) THEN g[i - 1] \o s[i].data ELSE g[i - 1]]

\* Payload, as a function of the stream.
PayloadOf(s, n) ==
    LET g == CHOOSE h : IsPayload(h, s, n) IN g[n]

\* Payload is this function, of the stream that is read.
LEMMA PayloadIs == \A n : Payload(n) = PayloadOf(src, n)
BY DEF Payload, PayloadOf, IsPayload, HasBlock

\* The recursion defines something.
LEMMA PayloadExists ==
  ASSUME NEW s, NEW n \in Nat
  PROVE  \E g : IsPayload(g, s, n)
<1> DEFINE T == {k \in Nat : ~\E g : IsPayload(g, s, k)}
<1>1. SUFFICES ASSUME n \in T PROVE FALSE
  OBVIOUS
<1>2. PICK m \in T : \A k \in T : m <= k
  <2>1. T \subseteq Nat
    OBVIOUS
  <2> HIDE DEF T
  <2> QED
    BY <1>1, <2>1, Least
<1>3. CASE m = 0
  <2>1. IsPayload([i \in 0..0 |-> << >>], s, 0)
    BY DEF IsPayload
  <2> QED
    BY <1>2, <1>3, <2>1
<1>4. CASE m # 0
  <2>1. m - 1 \in Nat /\ m \in Nat
    BY <1>4
  <2>2. PICK g : IsPayload(g, s, m - 1)
    BY <1>2, <2>1
  <2> DEFINE last == IF HasBlock(s[m]) THEN g[m - 1] \o s[m].data ELSE g[m - 1]
             h == [i \in 0..m |-> IF i = m THEN last ELSE g[i]]
  <2>3. \A i \in 0..(m - 1) : h[i] = g[i]
    BY <2>1
  <2>4. \A i \in 0..(m - 1) : g[i] = IF i = 0 THEN << >>
            ELSE IF HasBlock(s[i]) THEN g[i - 1] \o s[i].data ELSE g[i - 1]
    BY <2>2 DEF IsPayload
  <2>5. h[m] = last /\ h[m - 1] = g[m - 1]
    BY <2>1, <2>3
  <2>6. ASSUME NEW i \in 0..m
        PROVE  h[i] = IF i = 0 THEN << >>
                      ELSE IF HasBlock(s[i]) THEN h[i - 1] \o s[i].data ELSE h[i - 1]
    <3> HIDE DEF h
    <3>1. CASE i = m
      BY <1>4, <2>5, <3>1 DEF last
    <3>2. CASE i # m /\ i # 0
      <4>1. i \in 0..(m - 1) /\ i - 1 \in 0..(m - 1)
        BY <2>1, <3>2
      <4> QED
        BY <2>3, <2>4, <3>2, <4>1
    <3>3. CASE i # m /\ i = 0
      <4>1. i \in 0..(m - 1)
        BY <2>1, <3>3
      <4> QED
        BY <2>3, <2>4, <3>3, <4>1
    <3> QED
      BY <3>1, <3>2, <3>3
  <2>7. IsPayload(h, s, m)
    <3>1. h = [i \in 0..m |-> h[i]]
      OBVIOUS
    <3> HIDE DEF h
    <3> QED
      BY <2>6, <3>1 DEF IsPayload
  <2> QED
    BY <1>2, <2>7
<1> QED
  BY <1>3, <1>4

\* Two such functions agree where both are defined.
LEMMA PayloadUnique ==
  ASSUME NEW s, NEW m \in Nat, NEW n \in Nat, NEW g, NEW h,
         IsPayload(g, s, m), IsPayload(h, s, n)
  PROVE  \A i \in Nat : i <= m /\ i <= n => g[i] = h[i]
<1> DEFINE T == {i \in Nat : i <= m /\ i <= n /\ g[i] # h[i]}
<1>1. SUFFICES ASSUME T # {} PROVE FALSE
  OBVIOUS
<1>2. PICK k \in T : \A i \in T : k <= i
  <2>1. T \subseteq Nat
    OBVIOUS
  <2> HIDE DEF T
  <2> QED
    BY <1>1, <2>1, Least
<1>3. \A i \in 0..m : g[i] = IF i = 0 THEN << >>
            ELSE IF HasBlock(s[i]) THEN g[i - 1] \o s[i].data ELSE g[i - 1]
  BY DEF IsPayload
<1>4. \A i \in 0..n : h[i] = IF i = 0 THEN << >>
            ELSE IF HasBlock(s[i]) THEN h[i - 1] \o s[i].data ELSE h[i - 1]
  BY DEF IsPayload
<1>5. k \in 0..m /\ k \in 0..n /\ g[k] # h[k]
  OBVIOUS
<1>6. CASE k = 0
  BY <1>3, <1>4, <1>5, <1>6
<1>7. CASE k # 0
  <2>1. k - 1 \in Nat /\ k - 1 < k /\ k - 1 <= m /\ k - 1 <= n
    BY <1>5, <1>7
  <2>2. g[k - 1] = h[k - 1]
    BY <1>2, <2>1
  <2> HIDE DEF T
  <2> QED
    BY <1>3, <1>4, <1>5, <1>7, <2>2
<1> QED
  BY <1>6, <1>7

\* What the first n + 1 items decompress to.
LEMMA PayloadStep ==
  ASSUME NEW s, NEW n \in Nat
  PROVE  /\ PayloadOf(s, 0) = << >>
         /\ PayloadOf(s, n + 1) =
              IF HasBlock(s[n + 1]) THEN PayloadOf(s, n) \o s[n + 1].data ELSE PayloadOf(s, n)
<1>1. ASSUME NEW k \in Nat
      PROVE  \E g : IsPayload(g, s, k) /\ PayloadOf(s, k) = g[k]
  <2>1. \E g : IsPayload(g, s, k)
    BY PayloadExists
  <2>2. IsPayload(CHOOSE h : IsPayload(h, s, k), s, k)
    BY <2>1, Zenon
  <2> QED
    BY <2>2 DEF PayloadOf
<1>2. PICK z : IsPayload(z, s, 0) /\ PayloadOf(s, 0) = z[0]
  BY <1>1
<1>3. z[0] = << >>
  BY <1>2 DEF IsPayload
<1>4. PICK g : IsPayload(g, s, n) /\ PayloadOf(s, n) = g[n]
  BY <1>1
<1>5. n + 1 \in Nat
  OBVIOUS
<1>6. PICK h : IsPayload(h, s, n + 1) /\ PayloadOf(s, n + 1) = h[n + 1]
  BY <1>1, <1>5
<1>7. g[n] = h[n]
  <2>1. n <= n /\ n <= n + 1
    OBVIOUS
  <2> QED
    BY <1>4, <1>5, <1>6, <2>1, PayloadUnique
<1>8. h[n + 1] = IF HasBlock(s[n + 1]) THEN h[n] \o s[n + 1].data ELSE h[n]
  <2>1. n + 1 \in 0..(n + 1) /\ n + 1 # 0 /\ (n + 1) - 1 = n
    OBVIOUS
  <2> QED
    BY <1>6, <2>1 DEF IsPayload
<1> QED
  BY <1>2, <1>3, <1>4, <1>6, <1>7, <1>8

\* A stream that a reader may be given.
GoodStream(s) == s \in Seq(Items) /\ \A i \in 1..Len(s) : s[i].kind = "raw" => Len(s) = 1

\* The items of a stream, their lengths and data.
LEMMA ItemFacts ==
  ASSUME NEW i \in Items
  PROVE  /\ ItemLen(i) \in Nat /\ ItemLen(i) > 0
         /\ i.kind \in {"header", "badMagic", "badSize", "chunk", "raw"}
         /\ i.kind \in {"header", "badMagic"} => ItemLen(i) = HEADER_SIZE
         /\ i.kind = "badSize" => ItemLen(i) = 4
         /\ i.kind = "chunk" => i.bytes = ItemLen(i) /\ ItemLen(i) > 4
         /\ i.kind \in {"chunk", "raw"} /\ i.data # NULL => i.data \in Seq(Nat)
<1>1. CASE i \in [kind : {"header"}, version : Nat]
  BY <1>1 DEF ItemLen, HEADER_SIZE
<1>2. CASE i \in [kind : {"badMagic", "badSize"}]
  BY <1>2 DEF ItemLen, HEADER_SIZE
<1>3. CASE i \in [kind : {"chunk"}, bytes : Nat \ 0..4, data : {NULL} \cup Seq(Nat)]
  BY <1>3 DEF ItemLen, HEADER_SIZE
<1>4. CASE i \in [kind : {"raw"}, bytes : Nat \ {0}, data : {NULL} \cup Seq(Nat)]
  BY <1>4 DEF ItemLen, HEADER_SIZE
<1> QED
  BY <1>1, <1>2, <1>3, <1>4 DEF Items

\* Data are bytes.
LEMMA PayloadType ==
  ASSUME NEW s \in Seq(Items), NEW n \in 0..Len(s)
  PROVE  PayloadOf(s, n) \in Seq(Nat)
<1> DEFINE T == {k \in Nat : k <= Len(s) /\ PayloadOf(s, k) \notin Seq(Nat)}
<1>1. SUFFICES ASSUME T # {} PROVE FALSE
  OBVIOUS
<1>2. PICK m \in T : \A k \in T : m <= k
  <2>1. T \subseteq Nat
    OBVIOUS
  <2> HIDE DEF T
  <2> QED
    BY <1>1, <2>1, Least
<1>3. m # 0
  <2>1. PayloadOf(s, 0) = << >>
    BY PayloadStep
  <2>2. << >> \in Seq(Nat)
    OBVIOUS
  <2> QED
    BY <1>2, <2>1, <2>2
<1>4. m - 1 \in Nat /\ m - 1 < m /\ m \in 1..Len(s) /\ (m - 1) + 1 = m
  BY <1>2, <1>3
<1>5. PayloadOf(s, m - 1) \in Seq(Nat)
  <2>1. m - 1 \notin T
    BY <1>2, <1>4
  <2> QED
    BY <1>4, <2>1
<1>6. s[m] \in Items
  BY <1>4
<1>7. HasBlock(s[m]) => s[m].data \in Seq(Nat)
  BY <1>6, ItemFacts DEF HasBlock
<1>8. PayloadOf(s, m) = IF HasBlock(s[m]) THEN PayloadOf(s, m - 1) \o s[m].data
                                          ELSE PayloadOf(s, m - 1)
  BY <1>4, PayloadStep
<1>9. PayloadOf(s, m) \in Seq(Nat)
  BY <1>5, <1>7, <1>8
<1> QED
  BY <1>2, <1>9

\* p is the beginning of q.
Begins(p, q) == Len(p) <= Len(q) /\ \A i \in 1..Len(p) : q[i] = p[i]

\* Begins is IsPrefix, by positions.
LEMMA BeginsIsPrefix ==
  ASSUME NEW p \in Seq(Nat), NEW q \in Seq(Nat), Begins(p, q)
  PROVE  IsPrefix(p, q)
BY DEF Begins, IsPrefix

\* What begins a sequence begins every longer one.
LEMMA BeginsLonger ==
  ASSUME NEW p \in Seq(Nat), NEW q \in Seq(Nat), NEW r \in Seq(Nat), Begins(p, q)
  PROVE  Begins(p, q \o r)
<1>1. Len(q \o r) = Len(q) + Len(r) /\ \A i \in 1..Len(q) : (q \o r)[i] = q[i]
  OBVIOUS
<1>2. Len(p) \in Nat /\ Len(q) \in Nat /\ Len(r) \in Nat
  OBVIOUS
<1> QED
  BY <1>1, <1>2 DEF Begins

\* The data of the first items begin the data of more of them.
LEMMA PayloadGrows ==
  ASSUME NEW s \in Seq(Items), NEW n \in 0..Len(s), NEW k \in 0..n
  PROVE  Begins(PayloadOf(s, k), PayloadOf(s, n))
<1> DEFINE T == {i \in Nat : k <= i /\ i <= n /\ ~Begins(PayloadOf(s, k), PayloadOf(s, i))}
<1>1. SUFFICES ASSUME T # {} PROVE FALSE
  OBVIOUS
<1>2. PICK m \in T : \A i \in T : m <= i
  <2>1. T \subseteq Nat
    OBVIOUS
  <2> HIDE DEF T
  <2> QED
    BY <1>1, <2>1, Least
<1>3. m # k
  <2>1. PayloadOf(s, k) \in Seq(Nat)
    BY PayloadType
  <2>2. Begins(PayloadOf(s, k), PayloadOf(s, k))
    BY <2>1 DEF Begins
  <2> QED
    BY <1>2, <2>2
<1>4. /\ m - 1 \in Nat /\ m - 1 < m /\ m \in 1..Len(s) /\ (m - 1) + 1 = m
      /\ k <= m - 1 /\ m - 1 <= n /\ m - 1 \in 0..Len(s)
  BY <1>2, <1>3
<1>5. Begins(PayloadOf(s, k), PayloadOf(s, m - 1))
  <2>1. m - 1 \notin T
    BY <1>2, <1>4
  <2> QED
    BY <1>4, <2>1
<1>6. s[m] \in Items /\ PayloadOf(s, m - 1) \in Seq(Nat) /\ PayloadOf(s, k) \in Seq(Nat)
  BY <1>4, PayloadType
<1>7. HasBlock(s[m]) => s[m].data \in Seq(Nat)
  BY <1>6, ItemFacts DEF HasBlock
<1>8. PayloadOf(s, m) = IF HasBlock(s[m]) THEN PayloadOf(s, m - 1) \o s[m].data
                                          ELSE PayloadOf(s, m - 1)
  BY <1>4, PayloadStep
<1>9. Begins(PayloadOf(s, k), PayloadOf(s, m))
  BY <1>5, <1>6, <1>7, <1>8, BeginsLonger
<1> QED
  BY <1>2, <1>9

-----------------------------------------------------------------------------
(* What callers took out of the block.                                     *)

\* out, and what array a has from c up to l, are all; nothing is said of the array
\* when there is none.
Taken(out, a, c, l, all) ==
    /\ Len(out) + (l - c) = Len(all)
    /\ \A i \in 1..Len(out) : all[i] = out[i]
    /\ a # NULL => \A i \in 1..(l - c) : all[Len(out) + i] = a[c + i]

\* Two sequences joined.
LEMMA Joined ==
  ASSUME NEW p \in Seq(Nat), NEW q \in Seq(Nat)
  PROVE  /\ Len(p \o q) = Len(p) + Len(q)
         /\ \A i \in 1..Len(p) : (p \o q)[i] = p[i]
         /\ \A i \in 1..Len(q) : (p \o q)[Len(p) + i] = q[i]
  OBVIOUS

\* Bytes are copied.
LEMMA Copy ==
  ASSUME NEW out \in Seq(Nat), NEW a \in Seq(Nat), NEW all \in Seq(Nat), a # NULL,
         NEW c \in Nat, NEW l \in Nat, NEW n \in Nat, c + n <= l, l <= Len(a),
         Taken(out, a, c, l, all)
  PROVE  /\ SubSeq(a, c + 1, c + n) \in Seq(Nat)
         /\ Taken(out \o SubSeq(a, c + 1, c + n), a, c + n, l, all)
<1> DEFINE b == SubSeq(a, c + 1, c + n)
<1>1. /\ b \in Seq(Nat) /\ Len(b) = n
      /\ \A i \in 1..n : b[i] = a[c + i]
  <2>1. c + 1 \in Int /\ c + n \in Int /\ (c + n) - (c + 1) + 1 = n
    OBVIOUS
  <2>2. \A i \in (c + 1)..(c + n) : a[i] \in Nat
    <3>1. (c + 1)..(c + n) \subseteq 1..Len(a)
      OBVIOUS
    <3> QED
      BY <3>1
  <2>3. /\ b \in Seq(Nat)
        /\ Len(b) = IF c + 1 <= c + n THEN (c + n) - (c + 1) + 1 ELSE 0
        /\ \A i \in 1..((c + n) - (c + 1) + 1) : b[i] = a[(c + 1) + i - 1]
    BY <2>1, <2>2, SubSeqProperties
  <2> HIDE DEF b
  <2>4. Len(b) = n
    BY <2>3
  <2>5. ASSUME NEW i \in 1..n PROVE b[i] = a[c + i]
    <3>1. (c + 1) + i - 1 = c + i
      OBVIOUS
    <3> QED
      BY <2>1, <2>3, <3>1
  <2> QED
    BY <2>3, <2>4, <2>5
<1> HIDE DEF b
<1>2. /\ Len(out \o b) = Len(out) + n
      /\ \A i \in 1..Len(out) : (out \o b)[i] = out[i]
      /\ \A i \in 1..n : (out \o b)[Len(out) + i] = b[i]
  BY <1>1, Joined
<1>3. Len(out) \in Nat /\ Len(all) \in Nat
  OBVIOUS
<1>4. Len(out \o b) + (l - (c + n)) = Len(all)
  <2>1. Len(out) + (l - c) = Len(all)
    BY DEF Taken
  <2>2. \A x \in Nat : (x + n) + (l - (c + n)) = x + (l - c)
    OBVIOUS
  <2>3. (Len(out) + n) + (l - (c + n)) = Len(all)
    BY <1>3, <2>1, <2>2
  <2> QED
    BY <1>2, <2>3, Zenon
<1>5. ASSUME NEW i \in 1..Len(out \o b)
      PROVE  all[i] = (out \o b)[i]
  <2>1. CASE i <= Len(out)
    BY <1>2, <1>3, <2>1 DEF Taken
  <2>2. CASE i > Len(out)
    <3>1. PICK j \in 1..n : i = Len(out) + j
      <4>1. i - Len(out) \in 1..n /\ i = Len(out) + (i - Len(out))
        BY <1>2, <1>3, <2>2
      <4> QED
        BY <4>1
    <3>2. (out \o b)[i] = a[c + j]
      BY <1>1, <1>2, <3>1
    <3>3. j \in 1..(l - c)
      OBVIOUS
    <3> QED
      BY <3>1, <3>2, <3>3 DEF Taken
  <2> QED
    BY <1>2, <1>3, <2>1, <2>2
<1>6. ASSUME NEW i \in 1..(l - (c + n))
      PROVE  all[Len(out \o b) + i] = a[(c + n) + i]
  <2>1. n + i \in 1..(l - c) /\ c + (n + i) = (c + n) + i
        /\ Len(out) + (n + i) = Len(out \o b) + i
    BY <1>2, <1>3
  <2>2. all[Len(out) + (n + i)] = a[c + (n + i)]
    BY <2>1 DEF Taken
  <2> QED
    BY <2>1, <2>2
<1>7. Taken(out \o b, a, c + n, l, all)
  BY <1>4, <1>5, <1>6 DEF Taken
<1> QED
  BY <1>1, <1>7 DEF b

\* The block is used up.
LEMMA UsedUp ==
  ASSUME NEW out \in Seq(Nat), NEW a, NEW all \in Seq(Nat), NEW c \in Nat, Taken(out, a, c, c, all)
  PROVE  Taken(out, a, 0, 0, all)
<1>1. Len(out) = Len(all) /\ Len(out) \in Nat
  BY DEF Taken
<1>2. Len(out) + (0 - 0) = Len(all)
  BY <1>1
<1>3. 1..(0 - 0) = {}
  OBVIOUS
<1> QED
  BY <1>2, <1>3 DEF Taken

\* The next block is there.
LEMMA NextBlock ==
  ASSUME NEW out \in Seq(Nat), NEW a, NEW b \in Seq(Nat), NEW data \in Seq(Nat), NEW all \in Seq(Nat),
         Taken(out, a, 0, 0, all), \A i \in 1..Len(data) : b[i] = data[i]
  PROVE  Taken(out, b, 0, Len(data), all \o data)
<1>1. Len(out) = Len(all) /\ Len(out) \in Nat /\ Len(data) \in Nat
  BY DEF Taken
<1>2. /\ Len(all \o data) = Len(all) + Len(data)
      /\ \A i \in 1..Len(all) : (all \o data)[i] = all[i]
      /\ \A i \in 1..Len(data) : (all \o data)[Len(all) + i] = data[i]
  OBVIOUS
<1>3. Len(data) - 0 = Len(data) /\ \A i \in 1..Len(data) : 0 + i = i
  BY <1>1
<1>4. \A i \in 1..Len(out) : (all \o data)[i] = out[i]
  BY <1>1, <1>2 DEF Taken
<1> HIDE DEF Taken
<1>5. \A i \in 1..Len(data) : (all \o data)[Len(out) + i] = b[0 + i]
  BY <1>1, <1>2, <1>3
<1>6. Len(out) + (Len(data) - 0) = Len(all \o data)
  BY <1>1, <1>2
<1> QED
  BY <1>3, <1>4, <1>5, <1>6 DEF Taken

\* The array is reused.
LEMMA Reused ==
  ASSUME NEW a \in Seq(Nat), NEW data \in Seq(Nat), Len(data) <= Len(a)
  PROVE  /\ Overwrite(a, data) \in Seq(Nat) /\ Len(Overwrite(a, data)) = Len(a)
         /\ \A i \in 1..Len(data) : Overwrite(a, data)[i] = data[i]
<1> DEFINE r == SubSeq(a, Len(data) + 1, Len(a))
<1>1. Len(a) \in Nat /\ Len(data) \in Nat
  OBVIOUS
<1>2. r \in Seq(Nat) /\ Len(r) = Len(a) - Len(data)
  BY <1>1
<1> HIDE DEF r
<1>3. /\ data \o r \in Seq(Nat) /\ Len(data \o r) = Len(data) + Len(r)
      /\ \A i \in 1..Len(data) : (data \o r)[i] = data[i]
  BY <1>2
<1>4. Overwrite(a, data) = data \o r
  BY DEF Overwrite, r
<1> QED
  BY <1>1, <1>2, <1>3, <1>4

\* What a call copied follows what was delivered.
LEMMA AppendMore ==
  ASSUME NEW d \in Seq(Nat), NEW w \in Seq(Nat), NEW b \in Seq(Nat)
  PROVE  d \o (w \o b) = (d \o w) \o b
<1> DEFINE l == (d \o w) \o b
           r == d \o (w \o b)
<1>1. /\ d \o w \in Seq(Nat) /\ w \o b \in Seq(Nat)
      /\ Len(d \o w) = Len(d) + Len(w) /\ Len(w \o b) = Len(w) + Len(b)
  BY ConcatProperties
<1>2. l \in Seq(Nat) /\ r \in Seq(Nat)
  BY <1>1, ConcatProperties
<1>3. Len(l) = Len(d) + (Len(w) + Len(b)) /\ Len(r) = Len(d) + (Len(w) + Len(b))
  BY <1>1, ConcatProperties
<1>4. ASSUME NEW i \in 1..Len(l)
      PROVE  l[i] = r[i]
  BY <1>1, <1>3
<1>5. l = r
  <2> HIDE DEF l, r
  <2> QED
    BY <1>2, <1>3, <1>4, SeqEqual
<1> QED
  BY <1>5

\* Nothing is appended.
LEMMA AppendNone ==
  ASSUME NEW d \in Seq(Nat)
  PROVE  d \o << >> = d /\ << >> \o d = d
BY ConcatEmptySeq

\* Bytes follow bytes.
LEMMA AppendType ==
  ASSUME NEW d \in Seq(Nat), NEW w \in Seq(Nat)
  PROVE  d \o w \in Seq(Nat)
BY ConcatProperties

\* Nothing was delivered and nothing is copied.
LEMMA EmptyTwice == << >> \o << >> = << >>
<1>1. << >> \in Seq(Nat)
  OBVIOUS
<1> QED
  BY <1>1, AppendNone

\* A part of a sequence.
LEMMA Slice ==
  ASSUME NEW a \in Seq(Nat), NEW c \in Nat, NEW n \in Nat, c + n <= Len(a)
  PROVE  SubSeq(a, c + 1, c + n) \in Seq(Nat)
<1>1. c + 1 \in Int /\ c + n \in Int
  OBVIOUS
<1>2. \A i \in (c + 1)..(c + n) : a[i] \in Nat
  <2>1. (c + 1)..(c + n) \subseteq 1..Len(a)
    OBVIOUS
  <2> QED
    BY <2>1
<1> QED
  BY <1>1, <1>2, SubSeqProperties

-----------------------------------------------------------------------------
(* The inductive invariant.                                                *)

\* Between and inside the reads of a call, and inside the reading of a chunk.
Calls == {"idle", "loop", "next"}
Chunk == {"size", "magic", "body"}

\* Types, with the cursor inside the block.
Typed ==
    /\ GoodStream(src) /\ present \in Cuts(src)
    /\ pc \in {"header", "raw", "aborted"} \cup Calls \cup Chunk
    /\ call \in {"read", "readByte", "available"} /\ len \in Nat
    /\ uncompressed = NULL \/ uncompressed \in Seq(Nat)
    /\ cursor \in Nat /\ limit \in Nat /\ cursor <= limit
    /\ uncompressed # NULL => limit <= Len(uncompressed)
    /\ delivered \in Seq(Nat) /\ written \in Seq(Nat) /\ got \in Nat

\* The next byte to read is one of the bytes that are there, or the end.
Position ==
    /\ at \in 1..(Len(src) + 1) /\ off \in Nat
    /\ IF at <= Len(src) THEN off < ItemLen(src[at]) ELSE off = 0
    /\ at = Len(src) => off <= present
    /\ at = Len(src) + 1 /\ src # << >> => present = ItemLen(src[Len(src)])

\* The last got bytes are those of one item, from its beginning on.
InItem == \/ at <= Len(src) /\ off = got
          \/ at > 1 /\ off = 0 /\ got = ItemLen(src[at - 1])

\* The header is being read: a good one is an item.
HeaderAt ==
    /\ got <= HEADER_SIZE
    /\ src = << >> => got = 0
    /\ src # << >> /\ src[1].kind = "header" =>
         (at = 1 /\ off = got) \/ (at = 2 /\ off = 0 /\ got = HEADER_SIZE)

NoData == /\ delivered = << >> /\ written = << >>
          /\ uncompressed = NULL /\ cursor = 0 /\ limit = 0

\* What holds at each place of the program.  A call begins and ends between two items,
\* or at the end of the input.
Place ==
    /\ pc \in {"header", "raw"} => ~finishedReading /\ ~eof /\ NoData
    /\ pc = "header" => HeaderAt
    /\ pc = "raw" => src # << >> /\ (src[1].kind = "header" => AtEnd)
    /\ pc = "aborted" => failed
    /\ pc \in Calls => off = 0 \/ AtEnd
    /\ pc \in Calls \cup Chunk =>
         IF finishedReading THEN AtEnd ELSE src # << >> /\ src[1].kind = "header" /\ at > 1
    /\ pc \in Chunk => ~finishedReading /\ cursor = 0 /\ limit = 0
    /\ pc = "size" => got <= 4 /\ IF got = 0 THEN off = 0 \/ AtEnd ELSE InItem
    /\ pc = "magic" => got \in 4..HEADER_SIZE /\ InItem /\ Item.kind \in {"header", "badMagic"}
    /\ pc = "body" => 4 <= got /\ got <= Item.bytes /\ InItem /\ Item.kind = "chunk"
    /\ pc = "next" => cursor >= limit
    /\ pc = "idle" \/ call # "read" => written = << >>

\* The number of items before the one that is being read.
Before == IF pc \in Chunk /\ off = 0 /\ got > 0 THEN at - 2 ELSE at - 1

\* What callers have and what is left of the block are the data of these items.
DataInv ==
    pc \in Calls \cup Chunk /\ ~failed =>
      Taken(delivered \o written, uncompressed, cursor, limit, PayloadOf(src, Before))

NoBadMagic == \A i \in 1..Len(src) : src[i].kind # "badMagic"

\* The end of the input is met between two items or in the size of a chunk, and -1 is
\* returned there.
Ends ==
    ~failed =>
      /\ finishedReading /\ Truncated => present < 4
      /\ ~finishedReading /\ pc \in Calls => off = 0
      /\ pc = "size" /\ got = 0 => off = 0
      /\ eof /\ NoBadMagic => finishedReading /\ cursor >= limit /\ written = << >>

IInv == Typed /\ Position /\ Place /\ DataInv /\ Ends

-----------------------------------------------------------------------------
(* Reading from the stream below.                                          *)

\* The stream that is read.
LEMMA StreamFacts ==
  ASSUME Typed
  PROVE  /\ src \in Seq(Items) /\ Len(src) \in Nat
         /\ \A i \in 1..Len(src) : src[i] \in Items /\ ItemLen(src[i]) \in Nat /\ ItemLen(src[i]) > 0
         /\ src = << >> => present = 0
         /\ src # << >> => Len(src) > 0 /\ present \in 1..ItemLen(src[Len(src)])
<1>1. src \in Seq(Items) /\ present \in Cuts(src)
  BY DEF Typed, GoodStream
<1>2. Len(src) \in Nat /\ \A i \in 1..Len(src) : src[i] \in Items
  BY <1>1
<1>3. src # << >> => Len(src) > 0
  BY <1>1
<1> QED
  BY <1>1, <1>2, <1>3, ItemFacts DEF Cuts

\* A read gets bytes of one item.
LEMMA Reading ==
  ASSUME Typed, Position, NEW n \in Nat, got < n, ReadSome(n)
  PROVE  /\ at <= Len(src) /\ got' \in Nat /\ got < got' /\ got' <= n
         /\ \/ at' = at /\ off' = off + (got' - got) /\ off' < ItemLen(src[at])
            \/ at' = at + 1 /\ off' = 0 /\ off + (got' - got) = ItemLen(src[at])
         /\ Position' /\ UNCHANGED <<src, present, inClosed>>
<1>1. /\ Len(src) \in Nat /\ at \in 1..Len(src) /\ off \in Nat /\ off < ItemLen(src[at])
      /\ at = Len(src) => off < present
  BY StreamFacts DEF Position, ReadSome, AtEnd
<1>2. ItemLen(src[at]) \in Nat /\ (at = Len(src) => present \in 1..ItemLen(src[at]))
  BY <1>1, StreamFacts
<1>3. PICK left : left = (IF at = Len(src) THEN present ELSE ItemLen(src[at])) - off
  OBVIOUS
<1>4. /\ left \in Nat /\ left > 0 /\ off + left <= ItemLen(src[at])
      /\ at = Len(src) => off + left = present
  BY <1>1, <1>2, <1>3
<1>5. PICK k \in {1, IF n - got < left THEN n - got ELSE left} :
             /\ got' = got + k
             /\ IF off + k = ItemLen(src[at]) THEN at' = at + 1 /\ off' = 0
                                              ELSE off' = off + k /\ UNCHANGED at
  BY <1>3 DEF ReadSome
<1>6. k \in Nat /\ k > 0 /\ k <= left /\ k <= n - got /\ got \in Nat
  BY <1>4, <1>5 DEF Typed
<1>7. UNCHANGED <<src, present, inClosed>>
  BY DEF ReadSome
<1>8. at <= Len(src) /\ got' \in Nat /\ got < got' /\ got' <= n
  BY <1>1, <1>5, <1>6
<1>9. \/ at' = at /\ off' = off + (got' - got) /\ off' < ItemLen(src[at])
      \/ at' = at + 1 /\ off' = 0 /\ off + (got' - got) = ItemLen(src[at])
  BY <1>1, <1>2, <1>4, <1>5, <1>6
<1>10. Position'
  <2>1. CASE at' = at /\ off' = off + k /\ off + k < ItemLen(src[at])
    BY <1>1, <1>2, <1>4, <1>6, <1>7, <2>1 DEF Position
  <2>2. CASE at' = at + 1 /\ off' = 0 /\ off + k = ItemLen(src[at])
    <3>1. at' = Len(src) => 0 <= present
      BY <1>1, <2>2, StreamFacts
    <3>2. at' = Len(src) + 1 => present = ItemLen(src[Len(src)])
      BY <1>1, <1>2, <1>4, <1>6, <2>2
    <3>3. at' <= Len(src) => ItemLen(src[at']) > 0
      BY <1>1, <2>2, StreamFacts
    <3> QED
      BY <1>1, <1>7, <2>2, <3>1, <3>2, <3>3 DEF Position
  <2> QED
    BY <1>1, <1>2, <1>4, <1>5, <1>6, <2>1, <2>2
<1> QED
  BY <1>7, <1>8, <1>9, <1>10

\* The item that is being read is one of the stream; it is complete when the next byte
\* to read is the first of another one.
LEMMA ItemRead ==
  ASSUME Typed, Position, InItem, got > 0
  PROVE  \E i \in 1..Len(src) :
           /\ Item = src[i] /\ got <= ItemLen(Item)
           /\ got < ItemLen(Item) => i = at /\ off = got
           /\ got = ItemLen(Item) => i = at - 1 /\ off = 0
           /\ (IF off = 0 THEN at - 2 ELSE at - 1) = i - 1
<1>1. /\ Len(src) \in Nat /\ at \in 1..(Len(src) + 1) /\ got \in Nat
      /\ \A i \in 1..Len(src) : ItemLen(src[i]) \in Nat
  BY StreamFacts DEF Position, Typed
<1>2. CASE at <= Len(src) /\ off = got
  <2>1. Item = src[at] /\ off < ItemLen(src[at]) /\ off # 0 /\ at \in 1..Len(src)
    BY <1>1, <1>2 DEF Item, Position
  <2> QED
    BY <1>1, <1>2, <2>1
<1>3. CASE at > 1 /\ off = 0 /\ got = ItemLen(src[at - 1])
  <2>1. Item = src[at - 1] /\ at - 1 \in 1..Len(src)
    BY <1>1, <1>3 DEF Item
  <2> QED
    BY <1>1, <1>3, <2>1
<1> QED
  BY <1>2, <1>3 DEF InItem

\* It goes on being read.
LEMMA ReadingItem ==
  ASSUME Typed, Position, at <= Len(src), off = got, NEW n \in Nat, got < n, ReadSome(n)
  PROVE  /\ InItem' /\ Item' = src[at] /\ got' \in Nat /\ got' > 0 /\ got' <= n
         /\ (IF off' = 0 THEN at' - 2 ELSE at' - 1) = at - 1
         /\ got' <= ItemLen(src[at])
         /\ Position' /\ UNCHANGED <<src, present, inClosed>>
<1>1. /\ at <= Len(src) /\ got' \in Nat /\ got < got' /\ got' <= n
      /\ \/ at' = at /\ off' = off + (got' - got) /\ off' < ItemLen(src[at])
         \/ at' = at + 1 /\ off' = 0 /\ off + (got' - got) = ItemLen(src[at])
      /\ Position' /\ UNCHANGED <<src, present, inClosed>>
  BY Reading
<1>2. got \in Nat /\ at \in 1..Len(src) /\ Len(src) \in Nat /\ got' > 0
  BY <1>1, StreamFacts DEF Typed, Position
<1>3. off + (got' - got) = got'
  <2>1. \A x, y \in Nat : x + (y - x) = y
    OBVIOUS
  <2> QED
    BY <1>1, <1>2, <2>1
<1>4. CASE at' = at /\ off' = got' /\ got' < ItemLen(src[at])
  <2>1. off' # 0 /\ at' <= Len(src')
    BY <1>1, <1>2, <1>4
  <2>2. InItem' /\ Item' = src[at]
    BY <1>1, <1>4, <2>1 DEF InItem, Item
  <2>3. got' <= ItemLen(src[at])
    BY <1>1, <1>2, <1>4, StreamFacts
  <2> QED
    BY <1>1, <1>2, <1>4, <2>1, <2>2, <2>3
<1>5. CASE at' = at + 1 /\ off' = 0 /\ got' = ItemLen(src[at])
  <2>1. at' - 1 = at /\ at' > 1 /\ at' - 2 = at - 1
    BY <1>2, <1>5
  <2> QED
    BY <1>1, <1>2, <1>5, <2>1, StreamFacts DEF InItem, Item
<1> QED
  BY <1>1, <1>3, <1>4, <1>5

-----------------------------------------------------------------------------
(* The steps.                                                              *)

\* After an exception only the cursor and the place in the input matter.
LEMMA ThrowStep ==
  ASSUME IInv, NEW e, Throw(e), pc \in Calls \cup Chunk, Position',
         UNCHANGED <<src, present, at, off, call, len>>,
         off = 0 \/ AtEnd, finishedReading' => AtEnd, finishedReading => finishedReading',
         uncompressed' = uncompressed, limit' = limit, cursor' \in cursor..limit
  PROVE  IInv'
<1>1. failed' /\ pc' = "idle" /\ written' = << >> /\ got' = 0 /\ UNCHANGED <<delivered, eof>>
  BY DEF Throw
<1>2. Typed'
  BY <1>1 DEF IInv, Typed, Calls, Chunk
<1>3. Place'
  BY <1>1 DEF IInv, Place, Calls, Chunk, AtEnd
<1> QED
  BY <1>1, <1>2, <1>3 DEF IInv, DataInv, Ends

\* After a failed constructor nothing happens.
LEMMA AbortStep ==
  ASSUME IInv, NEW e, Abort(e), pc \in {"header", "raw"},
         UNCHANGED <<src, present, at, off, call, len, uncompressed, limit>>, cursor' = 0
  PROVE  IInv'
<1>1. failed' /\ pc' = "aborted" /\ got' = 0 /\ UNCHANGED <<delivered, eof, written>>
  BY DEF Abort
<1>2. Typed'
  BY <1>1 DEF IInv, Typed, Place, NoData, Calls, Chunk
<1>3. Place'
  BY <1>1 DEF IInv, Place, NoData, Calls, Chunk
<1>4. Position'
  BY DEF IInv, Position
<1> QED
  BY <1>1, <1>2, <1>3, <1>4 DEF IInv, DataInv, Ends, Calls, Chunk

\* The data of a stream so far.
LEMMA PayloadStepIn ==
  ASSUME Typed, NEW i \in 1..Len(src)
  PROVE  /\ PayloadOf(src, 0) = << >>
         /\ PayloadOf(src, i - 1) \in Seq(Nat) /\ PayloadOf(src, i) \in Seq(Nat)
         /\ ~HasBlock(src[i]) => PayloadOf(src, i) = PayloadOf(src, i - 1)
         /\ HasBlock(src[i]) => /\ src[i].data \in Seq(Nat)
                                /\ PayloadOf(src, i) = PayloadOf(src, i - 1) \o src[i].data
<1>1. Len(src) \in Nat /\ src \in Seq(Items) /\ src[i] \in Items
  BY StreamFacts
<1>2. i - 1 \in Nat /\ (i - 1) + 1 = i /\ i - 1 \in 0..Len(src) /\ i \in 0..Len(src)
  BY <1>1
<1>3. /\ PayloadOf(src, 0) = << >>
      /\ PayloadOf(src, (i - 1) + 1) =
           IF HasBlock(src[(i - 1) + 1]) THEN PayloadOf(src, i - 1) \o src[(i - 1) + 1].data
                                         ELSE PayloadOf(src, i - 1)
  BY <1>2, PayloadStep
<1>4. PayloadOf(src, i - 1) \in Seq(Nat) /\ PayloadOf(src, i) \in Seq(Nat)
  BY <1>1, <1>2, PayloadType
<1>5. HasBlock(src[i]) => src[i].data \in Seq(Nat)
  BY <1>1, ItemFacts DEF HasBlock
<1> QED
  BY <1>2, <1>3, <1>4, <1>5

\* readHeader.
LEMMA HeaderStep ==
  ASSUME IInv, readHeader
  PROVE  IInv'
<1> USE DEF HEADER_SIZE
<1>1. /\ pc = "header" /\ HeaderAt /\ ~finishedReading /\ ~eof /\ NoData /\ got \in Nat
      /\ UNCHANGED <<finishedReading, uncompressed, cursor, limit, call, len>>
  BY DEF readHeader, IInv, Place, callVars, Typed
<1>2. CASE got < 16 /\ ReadSome(16) /\ UNCHANGED <<pc, ghostVars, written>>
  <2>1. /\ at <= Len(src) /\ got' \in Nat /\ got < got' /\ got' <= 16
        /\ \/ at' = at /\ off' = off + (got' - got) /\ off' < ItemLen(src[at])
           \/ at' = at + 1 /\ off' = 0 /\ off + (got' - got) = ItemLen(src[at])
        /\ Position' /\ UNCHANGED <<src, present, inClosed>>
    BY <1>2, Reading DEF IInv
  <2>2. Typed'
    BY <1>1, <1>2, <2>1 DEF IInv, Typed, ghostVars
  <2>3. src # << >> /\ src[1] \in Items
    BY <2>1, StreamFacts DEF IInv, Position
  <2>4. src[1].kind = "header" => ItemLen(src[1]) = 16
    BY <2>3, ItemFacts
  <2>5. HeaderAt'
    BY <1>1, <1>2, <2>1, <2>3, <2>4 DEF HeaderAt
  <2>6. Place'
    BY <1>1, <1>2, <2>1, <2>5 DEF IInv, Place, NoData, ghostVars, Calls, Chunk
  <2>7. DataInv' /\ Ends'
    BY <1>1, <1>2, <2>1 DEF DataInv, Ends, Calls, Chunk, ghostVars
  <2> QED
    BY <2>1, <2>2, <2>6, <2>7 DEF IInv
<1>3. CASE /\ got = 16 \/ AtEnd
           /\ UNCHANGED inVars
           /\ got = 0 /\ Abort("EMPTY_INPUT")
  BY <1>1, <1>3, AbortStep DEF inVars, NoData
<1>4. CASE /\ got = 16 \/ AtEnd
           /\ UNCHANGED inVars
           /\ got > 0 /\ (got < 16 \/ src[1].kind # "header")
           /\ pc' = "raw"
           /\ UNCHANGED <<got, ghostVars, written>>
  <2>1. Typed'
    BY <1>1, <1>4 DEF IInv, Typed, inVars, ghostVars
  <2>2. Position'
    BY <1>4 DEF IInv, Position, inVars
  <2>3. Place'
    BY <1>1, <1>4 DEF IInv, Place, NoData, inVars, ghostVars, Calls, Chunk, HeaderAt, AtEnd
  <2>4. DataInv' /\ Ends'
    BY <1>1, <1>4 DEF DataInv, Ends, Calls, Chunk, ghostVars
  <2> QED
    BY <2>1, <2>2, <2>3, <2>4 DEF IInv
<1>5. CASE /\ UNCHANGED inVars
           /\ got = 16 /\ src[1].kind = "header"
           /\ pc' = "idle" /\ got' = 0
           /\ UNCHANGED <<ghostVars, written>>
  <2>1. Typed'
    BY <1>1, <1>5 DEF IInv, Typed, inVars, ghostVars, Calls
  <2>2. Position'
    BY <1>5 DEF IInv, Position, inVars
  <2>3. src # << >> /\ Len(src) > 0
    BY <1>1, <1>5, StreamFacts DEF HeaderAt, IInv
  <2>4. at = 2 /\ off = 0
    <3>1. src[1] \in Items /\ Len(src) \in Nat
      BY <2>3, StreamFacts DEF IInv
    <3>2. ItemLen(src[1]) = 16
      BY <1>5, <3>1, ItemFacts
    <3> QED
      BY <1>1, <1>5, <2>3, <3>1, <3>2 DEF HeaderAt, IInv, Position
  <2>5. Place'
    BY <1>1, <1>5, <2>3, <2>4 DEF IInv, Place, NoData, inVars, ghostVars, Calls, Chunk
  <2>6. PayloadOf(src, 1) = << >>
    <3>1. 1 \in 1..Len(src) /\ 1 - 1 = 0
      BY <2>3, StreamFacts DEF IInv
    <3>2. ~HasBlock(src[1])
      BY <1>5 DEF HasBlock
    <3> QED
      BY <3>1, <3>2, PayloadStepIn DEF IInv
  <2>7. Before' = 1 /\ src' = src
    BY <1>5, <2>4 DEF Before, inVars, Chunk
  <2>8. Taken(<< >>, NULL, 0, 0, << >>)
    BY DEF Taken
  <2>9. delivered' \o written' = << >>
    <3>1. delivered' = << >> /\ written' = << >>
      BY <1>1, <1>5 DEF NoData, ghostVars
    <3> QED
      BY <3>1, EmptyTwice
  <2>10. uncompressed' = NULL /\ cursor' = 0 /\ limit' = 0
    BY <1>1 DEF NoData
  <2>11. DataInv'
    BY <2>6, <2>7, <2>8, <2>9, <2>10, Zenon DEF DataInv
  <2>12. Ends'
    BY <1>1, <1>5, <2>4 DEF Ends, Calls, ghostVars, inVars
  <2> QED
    BY <2>1, <2>2, <2>5, <2>11, <2>12 DEF IInv
<1> QED
  BY <1>2, <1>3, <1>4, <1>5 DEF readHeader

\* readFully: the only item of the stream, whole.
LEMMA RawStep ==
  ASSUME IInv, readFully
  PROVE  IInv'
<1>1. /\ pc = "raw" /\ ~finishedReading /\ ~eof /\ NoData /\ got \in Nat
      /\ src # << >> /\ (src[1].kind = "header" => AtEnd)
      /\ UNCHANGED <<call, len>>
  BY DEF readFully, IInv, Place, callVars, Typed
<1>2. CASE /\ ~AtEnd /\ ReadSome(got + ItemLen(src[at]))
           /\ UNCHANGED <<finishedReading, uncompressed, cursor, limit, pc, ghostVars, written>>
  <2>1. at \in 1..Len(src) /\ Len(src) \in Nat
    BY <1>2, StreamFacts DEF AtEnd, IInv, Position
  <2>2. ItemLen(src[at]) \in Nat /\ ItemLen(src[at]) > 0
    BY <2>1, StreamFacts DEF IInv
  <2>3. got + ItemLen(src[at]) \in Nat /\ got < got + ItemLen(src[at])
    BY <1>1, <2>2
  <2>4. got' \in Nat /\ Position' /\ UNCHANGED <<src, present, inClosed>>
    BY <1>2, <2>3, Reading DEF IInv
  <2>5. Typed'
    BY <1>1, <1>2, <2>4 DEF IInv, Typed, ghostVars
  <2>6. Place'
    BY <1>1, <1>2, <2>4 DEF IInv, Place, NoData, ghostVars, Calls, Chunk
  <2>7. DataInv' /\ Ends'
    BY <1>1, <1>2, <2>4 DEF DataInv, Ends, Calls, Chunk, ghostVars
  <2> QED
    BY <2>4, <2>5, <2>6, <2>7 DEF IInv
<1>3. CASE /\ AtEnd /\ finishedReading' = TRUE /\ cursor' = 0
           /\ UNCHANGED inVars
           /\ src[1].kind = "raw" /\ src[1].data # NULL /\ at > Len(src)
           /\ uncompressed' = src[1].data
           /\ limit' = Len(src[1].data)
           /\ pc' = "idle" /\ got' = 0
           /\ UNCHANGED <<ghostVars, written>>
  <2>1. Len(src) = 1 /\ at = 2 /\ off = 0 /\ present = ItemLen(src[1])
    <3>1. Len(src) > 0 /\ Len(src) \in Nat
      BY <1>1, StreamFacts DEF IInv
    <3>2. Len(src) = 1
      BY <1>3, <3>1 DEF IInv, Typed, GoodStream
    <3> QED
      BY <1>1, <1>3, <3>2 DEF IInv, Position
  <2>2. src[1].data \in Seq(Nat) /\ PayloadOf(src, 1) = << >> \o src[1].data
    <3>1. 1 \in 1..Len(src) /\ 1 - 1 = 0
      BY <2>1
    <3>2. HasBlock(src[1])
      BY <1>3 DEF HasBlock
    <3> QED
      BY <3>1, <3>2, PayloadStepIn DEF IInv
  <2>3. PICK data \in Seq(Nat) : data = src[1].data /\ PayloadOf(src, 1) = << >> \o data
    BY <2>2
  <2>4. Len(data) \in Nat
    OBVIOUS
  <2>5. Typed'
    BY <1>1, <1>3, <2>3, <2>4 DEF IInv, Typed, NoData, inVars, ghostVars, Calls
  <2>6. Position'
    BY <1>3 DEF IInv, Position, inVars
  <2>7. Place'
    BY <1>1, <1>3, <2>1 DEF IInv, Place, NoData, inVars, ghostVars, Calls, Chunk, AtEnd
  <2>8. Before' = 1 /\ src' = src
    BY <1>3, <2>1 DEF Before, inVars, Chunk
  <2>9. Taken(<< >>, data, 0, Len(data), << >> \o data)
    <3>1. Taken(<< >>, NULL, 0, 0, << >>) /\ << >> \in Seq(Nat)
      BY DEF Taken
    <3>2. \A i \in 1..Len(data) : data[i] = data[i]
      OBVIOUS
    <3> QED
      BY <3>1, <3>2, NextBlock
  <2>10. delivered' \o written' = << >>
    <3>1. delivered' = << >> /\ written' = << >>
      BY <1>1, <1>3 DEF NoData, ghostVars
    <3> QED
      BY <3>1, EmptyTwice
  <2>11. uncompressed' = data /\ cursor' = 0 /\ limit' = Len(data)
    BY <1>3, <2>3
  <2>12. DataInv'
    BY <2>3, <2>8, <2>9, <2>10, <2>11, Zenon DEF DataInv
  <2>13. ~Truncated'
    <3>1. present \in Nat
      BY <2>1, StreamFacts DEF IInv
    <3>2. src' = src /\ present' = present
      BY <1>3 DEF inVars
    <3>3. ~(present < ItemLen(src[Len(src)]))
      BY <2>1, <3>1
    <3> QED
      BY <3>2, <3>3 DEF Truncated
  <2>14. Ends'
    BY <1>1, <1>3, <2>13 DEF Ends, Calls, ghostVars, inVars
  <2> QED
    BY <2>5, <2>6, <2>7, <2>12, <2>14 DEF IInv
<1>4. CASE /\ AtEnd /\ finishedReading' = TRUE /\ cursor' = 0
           /\ UNCHANGED inVars
           /\ Abort("FAILED_TO_UNCOMPRESS")
           /\ UNCHANGED <<uncompressed, limit>>
  BY <1>1, <1>4, AbortStep DEF inVars
<1> QED
  BY <1>2, <1>3, <1>4 DEF readFully

\* A call begins.
LEMMA BeginStep ==
  ASSUME IInv, NEW c \in {"read", "readByte", "available"}, NEW n \in Nat, Begin(c, n)
  PROVE  IInv'
<1>1. /\ pc = "idle" /\ pc' = "loop" /\ call' = c /\ len' = n /\ written' = << >> /\ written = << >>
      /\ UNCHANGED <<src, present, at, off, inClosed, finishedReading, uncompressed, cursor, limit, got,
                     delivered, eof, failed>>
  BY DEF Begin, IInv, Place, inVars
<1>2. Typed'
  BY <1>1 DEF IInv, Typed, Calls
<1>3. Position'
  BY <1>1 DEF IInv, Position
<1>4. Place'
  BY <1>1 DEF IInv, Place, Calls, Chunk, AtEnd
<1>5. DataInv'
  BY <1>1 DEF IInv, DataInv, Calls, Chunk, Before
<1>6. Ends'
  BY <1>1 DEF IInv, Ends, Calls, Truncated, NoBadMagic
<1> QED
  BY <1>2, <1>3, <1>4, <1>5, <1>6 DEF IInv

\* Inside a call before the next chunk is looked for: the n bytes b are copied from the block,
\* or none; the call goes on, or ends.
LEMMA CallStep ==
  ASSUME IInv, pc = "loop", NEW n \in Nat, NEW b \in Seq(Nat),
         cursor' = cursor + n, cursor + n <= limit,
         UNCHANGED <<src, present, at, off, finishedReading, uncompressed, limit, call, len, got>>,
         \/ pc' = "next" /\ cursor >= limit
         \/ pc' = "loop" /\ call = "read"
         \/ pc' = "idle" /\ written' = << >>,
         \/ n = 0 /\ b = << >>
         \/ uncompressed # NULL /\ b = SubSeq(uncompressed, cursor + 1, cursor + n),
         delivered' \o written' = (delivered \o written) \o b,
         delivered' \in Seq(Nat), written' \in Seq(Nat),
         written = << >> /\ cursor >= limit => written' = << >>,
         call # "read" => written' = << >>,
         eof' => eof, failed' = failed
  PROVE  IInv'
<1>1. Typed'
  BY DEF IInv, Typed, Calls
<1>2. Position'
  BY DEF IInv, Position
<1>3. Place'
  <2>1. pc' \in Calls /\ pc' \notin Chunk /\ pc' \notin {"header", "raw", "aborted", "size", "magic", "body"}
    BY DEF Calls, Chunk
  <2>2. /\ off = 0 \/ AtEnd
        /\ IF finishedReading THEN AtEnd ELSE src # << >> /\ src[1].kind = "header" /\ at > 1
    BY DEF IInv, Place, Calls
  <2>3. AtEnd' = AtEnd
    BY DEF AtEnd
  <2>4. pc' = "next" => cursor' >= limit'
    BY DEF IInv, Typed
  <2>5. pc' = "idle" \/ call' # "read" => written' = << >>
    OBVIOUS
  <2> QED
    BY <2>1, <2>2, <2>3, <2>4, <2>5 DEF Place
<1>4. DataInv'
  <2>1. SUFFICES ASSUME ~failed
                 PROVE  Taken(delivered' \o written', uncompressed, cursor + n, limit, PayloadOf(src, at - 1))
    <3>1. Before' = at - 1 /\ pc' \in Calls /\ pc' \notin Chunk
      BY DEF Before, Calls, Chunk
    <3>2. src' = src /\ uncompressed' = uncompressed /\ limit' = limit /\ cursor' = cursor + n
      OBVIOUS
    <3> QED
      BY <3>1, <3>2 DEF DataInv
  <2>2. Taken(delivered \o written, uncompressed, cursor, limit, PayloadOf(src, at - 1))
    BY <2>1 DEF IInv, DataInv, Before, Calls, Chunk
  <2>3. /\ delivered \o written \in Seq(Nat) /\ cursor \in Nat /\ limit \in Nat
        /\ uncompressed # NULL => uncompressed \in Seq(Nat) /\ limit <= Len(uncompressed)
    BY AppendType DEF IInv, Typed
  <2>4. PayloadOf(src, at - 1) \in Seq(Nat)
    <3>1. src \in Seq(Items) /\ at - 1 \in 0..Len(src)
      BY StreamFacts DEF IInv, Position
    <3> QED
      BY <3>1, PayloadType
  <2>5. CASE n = 0 /\ b = << >>
    <3>1. (delivered \o written) \o b = delivered \o written
      BY <2>3, <2>5, AppendNone
    <3>2. cursor + n = cursor
      BY <2>3, <2>5
    <3> QED
      BY <2>2, <3>1, <3>2
  <2>6. CASE uncompressed # NULL /\ b = SubSeq(uncompressed, cursor + 1, cursor + n)
    <3>1. PICK out \in Seq(Nat) : out = delivered \o written
      BY <2>3
    <3>2. PICK a \in Seq(Nat) : a = uncompressed
      BY <2>3, <2>6
    <3>3. PICK all \in Seq(Nat) : all = PayloadOf(src, at - 1)
      BY <2>4
    <3>4. a # NULL /\ limit <= Len(a) /\ Taken(out, a, cursor, limit, all)
      BY <2>2, <2>3, <2>6, <3>1, <3>2, <3>3
    <3>5. Taken(out \o SubSeq(a, cursor + 1, cursor + n), a, cursor + n, limit, all)
      BY <2>3, <3>4, Copy
    <3>6. delivered' \o written' = out \o b /\ b = SubSeq(a, cursor + 1, cursor + n)
      BY <2>6, <3>1, <3>2, Zenon
    <3> QED
      BY <3>2, <3>3, <3>5, <3>6
  <2> QED
    BY <2>5, <2>6
<1>5. Ends'
  <2>1. SUFFICES ASSUME ~failed PROVE Ends'
    BY DEF Ends
  <2>2. /\ finishedReading /\ Truncated => present < 4
        /\ ~finishedReading => off = 0
        /\ eof /\ NoBadMagic => finishedReading /\ cursor >= limit /\ written = << >>
    BY <2>1 DEF IInv, Ends, Calls
  <2>3. Truncated' = Truncated /\ NoBadMagic' = NoBadMagic
    BY DEF Truncated, NoBadMagic
  <2>4. cursor >= limit => cursor' >= limit'
    BY DEF IInv, Typed
  <2>5. pc' # "size"
    OBVIOUS
  <2> QED
    BY <2>2, <2>3, <2>4, <2>5 DEF Ends
<1> QED
  BY <1>1, <1>2, <1>3, <1>4, <1>5 DEF IInv

\* The block is used up: the next chunk is looked for.
LEMMA NextStep ==
  ASSUME IInv, pc = "loop", cursor >= limit, pc' = "next",
         UNCHANGED <<src, present, at, off, finishedReading, uncompressed, cursor, limit, call, len, got>>,
         UNCHANGED <<written, ghostVars>>
  PROVE  IInv'
<1>1. /\ delivered \in Seq(Nat) /\ written \in Seq(Nat) /\ cursor \in Nat /\ limit \in Nat
      /\ cursor <= limit /\ (call # "read" => written = << >>)
  BY DEF IInv, Typed, Place
<1>2. UNCHANGED <<delivered, eof, failed>>
  BY DEF ghostVars
<1>3. << >> \in Seq(Nat) /\ 0 \in Nat /\ cursor' = cursor + 0 /\ cursor + 0 <= limit
  BY <1>1
<1>4. delivered \o written \in Seq(Nat)
  BY <1>1, AppendType
<1>5. delivered' \o written' = (delivered \o written) \o << >>
  BY <1>2, <1>4, AppendNone
<1> QED
  BY <1>1, <1>2, <1>3, <1>5, CallStep

\* rawRead: bytes of the block follow those already written.
LEMMA ReadStep ==
  ASSUME IInv, rawRead
  PROVE  IInv'
<1>1. /\ pc = "loop" /\ call = "read" /\ cursor \in Nat /\ limit \in Nat /\ cursor <= limit
      /\ len \in Nat /\ written \in Seq(Nat) /\ delivered \in Seq(Nat) /\ Len(written) \in Nat
      /\ UNCHANGED <<src, present, at, off, inClosed, finishedReading, uncompressed, limit, call, len>>
  BY DEF rawRead, IInv, Typed, inVars, callVars
<1>2. PICK n : n = IF limit - cursor < len - Len(written) THEN limit - cursor
                                                             ELSE len - Len(written)
  OBVIOUS
<1>3. CASE Done(written, FALSE) /\ UNCHANGED cursor
  <2>1. /\ pc' = "idle" /\ delivered' = delivered \o written /\ eof' = (eof \/ FALSE)
        /\ written' = << >> /\ UNCHANGED <<failed, got>>
    BY <1>3 DEF Done
  <2>2. delivered \o written \in Seq(Nat) /\ (delivered \o written) \o << >> = delivered \o written
    BY <1>1, AppendType, AppendNone
  <2>3. delivered' \o written' = delivered \o written
    BY <2>1, <2>2
  <2>4. delivered' \o written' = (delivered \o written) \o << >>
    BY <2>2, <2>3
  <2>5. << >> \in Seq(Nat) /\ 0 \in Nat /\ cursor' = cursor + 0 /\ cursor + 0 <= limit
    BY <1>1, <1>3
  <2>6. eof' => eof
    BY <2>1
  <2>7. delivered' \in Seq(Nat) /\ written' \in Seq(Nat)
    BY <2>1, <2>2, <2>5
  <2> QED
    BY <1>1, <2>1, <2>4, <2>5, <2>6, <2>7, CallStep
<1>4. CASE cursor >= limit /\ pc' = "next" /\ UNCHANGED <<cursor, written, ghostVars, got>>
  BY <1>1, <1>4, NextStep
<1>5. CASE Len(written) < len /\ cursor < limit /\ Throw("NullPointerException") /\ UNCHANGED cursor
  <2>1. Position' /\ (off = 0 \/ AtEnd) /\ (finishedReading => AtEnd)
    BY <1>1 DEF IInv, Position, Place, Calls
  <2> QED
    BY <1>1, <1>5, <2>1, ThrowStep DEF Calls
<1>6. CASE /\ Len(written) < len /\ cursor < limit /\ uncompressed # NULL
           /\ written' = written \o Bytes(n) /\ cursor' = cursor + n
           /\ UNCHANGED <<pc, ghostVars, got>>
  <2>1. n \in Nat /\ n > 0 /\ cursor + n <= limit
    BY <1>1, <1>2, <1>6
  <2>2. PICK a \in Seq(Nat) : a = uncompressed /\ limit <= Len(a)
    BY <1>6 DEF IInv, Typed
  <2>3. Bytes(n) = SubSeq(a, cursor + 1, cursor + n)
    BY <2>2 DEF Bytes
  <2>4. SubSeq(a, cursor + 1, cursor + n) \in Seq(Nat)
    BY <1>1, <2>1, <2>2, Slice
  <2>5. PICK b \in Seq(Nat) : b = SubSeq(a, cursor + 1, cursor + n)
    BY <2>4
  <2>6. written' = written \o b /\ written' \in Seq(Nat)
    BY <1>1, <1>6, <2>3, <2>5, AppendType
  <2>7. delivered' = delivered /\ eof' = eof /\ failed' = failed
    BY <1>6 DEF ghostVars
  <2>8. delivered' \o written' = (delivered \o written) \o b
    <3>1. delivered \o (written \o b) = (delivered \o written) \o b
      BY <1>1, AppendMore
    <3> QED
      BY <2>6, <2>7, <3>1, Zenon
  <2>9. uncompressed # NULL /\ b = SubSeq(uncompressed, cursor + 1, cursor + n)
    BY <1>6, <2>2, <2>5
  <2>10. ~(cursor >= limit) /\ delivered' \in Seq(Nat) /\ (eof' => eof)
         /\ pc' = "loop" /\ got' = got
    BY <1>1, <1>6, <2>7
  <2>11. /\ cursor' = cursor + n /\ n \in Nat /\ cursor + n <= limit /\ failed' = failed
         /\ written' \in Seq(Nat)
         /\ UNCHANGED <<src, present, at, off, finishedReading, uncompressed, limit, call, len, got>>
    BY <1>1, <1>6, <2>1, <2>6, <2>7
  <2> QED
    BY <1>1, <2>8, <2>9, <2>10, <2>11, CallStep
<1> QED
  BY <1>2, <1>3, <1>4, <1>5, <1>6 DEF rawRead

\* read(): one byte.
LEMMA ByteStep ==
  ASSUME IInv, read
  PROVE  IInv'
<1>1. /\ pc = "loop" /\ call = "readByte" /\ cursor \in Nat /\ limit \in Nat /\ cursor <= limit
      /\ written = << >> /\ delivered \in Seq(Nat)
      /\ UNCHANGED <<src, present, at, off, inClosed, finishedReading, uncompressed, limit, call, len>>
  BY DEF read, IInv, Typed, Place, inVars, callVars
<1>2. CASE cursor >= limit /\ pc' = "next" /\ UNCHANGED <<cursor, written, ghostVars, got>>
  BY <1>1, <1>2, NextStep
<1>3. CASE cursor < limit /\ cursor' = cursor + 1 /\ Throw("NullPointerException")
  <2>1. Position' /\ (off = 0 \/ AtEnd) /\ (finishedReading => AtEnd)
    BY <1>1 DEF IInv, Position, Place, Calls
  <2> QED
    BY <1>1, <1>3, <2>1, ThrowStep DEF Calls
<1>4. CASE cursor < limit /\ cursor' = cursor + 1 /\ uncompressed # NULL /\ Done(Bytes(1), FALSE)
  <2>1. PICK a \in Seq(Nat) : a = uncompressed /\ limit <= Len(a)
    BY <1>4 DEF IInv, Typed
  <2>2. Bytes(1) = SubSeq(a, cursor + 1, cursor + 1)
    BY <2>1 DEF Bytes
  <2>3. PICK b \in Seq(Nat) : b = SubSeq(a, cursor + 1, cursor + 1)
    <3>1. cursor + 1 <= Len(a) /\ 1 \in Nat
      BY <1>1, <1>4, <2>1
    <3> QED
      BY <1>1, <2>1, <3>1, Slice
  <2>4. /\ pc' = "idle" /\ delivered' = delivered \o b /\ eof' = (eof \/ FALSE)
        /\ written' = << >> /\ UNCHANGED <<failed, got>>
    BY <1>4, <2>2, <2>3 DEF Done
  <2>5. delivered \o b \in Seq(Nat) /\ (delivered \o b) \o << >> = delivered \o b
        /\ delivered \o written = delivered
    BY <1>1, AppendType, AppendNone
  <2>6. delivered' \in Seq(Nat) /\ written' \in Seq(Nat)
    BY <2>4, <2>5
  <2>7. delivered' \o written' = (delivered \o written) \o b
    BY <2>4, <2>5, Zenon
  <2>8. uncompressed # NULL /\ b = SubSeq(uncompressed, cursor + 1, cursor + 1)
    BY <1>4, <2>1, <2>3
  <2>9. ~(cursor >= limit) /\ cursor + 1 <= limit /\ 1 \in Nat
    BY <1>1, <1>4
  <2>10. eof' => eof
    BY <2>4
  <2> QED
    BY <1>1, <1>4, <2>4, <2>6, <2>7, <2>8, <2>9, <2>10, CallStep
<1> QED
  BY <1>2, <1>3, <1>4 DEF read

\* available().
LEMMA AvailableStep ==
  ASSUME IInv, available
  PROVE  IInv'
<1>1. /\ pc = "loop" /\ call = "available" /\ cursor \in Nat /\ limit \in Nat /\ cursor <= limit
      /\ written = << >> /\ delivered \in Seq(Nat) /\ written \in Seq(Nat)
      /\ UNCHANGED <<src, present, at, off, inClosed, finishedReading, uncompressed, cursor, limit, call, len>>
  BY DEF available, IInv, Typed, Place, inVars, callVars
<1>2. CASE cursor >= limit /\ pc' = "next" /\ UNCHANGED <<written, ghostVars, got>>
  BY <1>1, <1>2, NextStep
<1>3. CASE cursor < limit /\ Done(<< >>, FALSE)
  <2>1. /\ pc' = "idle" /\ delivered' = delivered /\ eof' = (eof \/ FALSE)
        /\ written' = << >> /\ UNCHANGED <<failed, got>>
    BY <1>1, <1>3, AppendNone DEF Done
  <2>2. delivered \o written \in Seq(Nat)
    BY <1>1, AppendType
  <2>3. delivered' \o written' = (delivered \o written) \o << >>
    BY <1>1, <2>1, <2>2, AppendNone
  <2>4. << >> \in Seq(Nat) /\ 0 \in Nat /\ cursor' = cursor + 0 /\ cursor + 0 <= limit
    BY <1>1
  <2>5. eof' => eof
    BY <2>1
  <2> QED
    BY <1>1, <2>1, <2>3, <2>4, <2>5, CallStep
<1>4. CASE cursor < limit
  BY <1>3, <1>4 DEF available
<1>5. CASE ~(cursor < limit)
  <2>1. cursor >= limit
    BY <1>1, <1>5
  <2> QED
    BY <1>2, <1>5, <2>1 DEF available
<1> QED
  BY <1>4, <1>5

\* hasNextChunk returns false.
LEMMA FalseStep ==
  ASSUME IInv, pc \in {"next"} \cup Chunk, ChunkResult(FALSE), cursor >= limit,
         UNCHANGED <<src, present, at, off, uncompressed, cursor, limit, call, len>>,
         off = 0 \/ AtEnd,
         IF finishedReading' THEN AtEnd ELSE src # << >> /\ src[1].kind = "header" /\ at > 1,
         ~failed =>
           /\ Taken(delivered \o written, uncompressed, cursor, limit, PayloadOf(src, at - 1))
           /\ finishedReading' /\ Truncated => present < 4
           /\ ~finishedReading' => off = 0
           /\ NoBadMagic => finishedReading'
  PROVE  IInv'
<1>1. /\ pc' = "idle" /\ got' = 0 /\ delivered' = delivered \o written /\ written' = << >>
      /\ UNCHANGED failed
  BY DEF ChunkResult
<1>2. /\ delivered \in Seq(Nat) /\ written \in Seq(Nat) /\ delivered \o written \in Seq(Nat)
      /\ << >> \in Seq(Nat) /\ cursor \in Nat /\ limit \in Nat
  BY AppendType DEF IInv, Typed
<1>3. delivered' \o written' = delivered \o written
  BY <1>1, <1>2, AppendNone
<1>4. Typed'
  <2>1. delivered' \in Seq(Nat) /\ written' \in Seq(Nat) /\ got' \in Nat
    BY <1>1, <1>2
  <2>2. pc' \in Calls
    BY <1>1 DEF Calls
  <2> QED
    BY <2>1, <2>2 DEF IInv, Typed
<1>5. Position'
  BY DEF IInv, Position
<1>6. Place'
  <2>1. pc' \in Calls /\ pc' \notin Chunk /\ pc' \notin {"header", "raw", "aborted", "next", "size", "magic", "body"}
    BY <1>1 DEF Calls, Chunk
  <2>2. AtEnd' = AtEnd
    BY DEF AtEnd
  <2> QED
    BY <1>1, <2>1, <2>2 DEF Place
<1>7. DataInv'
  <2>1. Before' = at - 1 /\ src' = src
    BY <1>1 DEF Before, Chunk
  <2> QED
    BY <1>1, <1>3, <2>1 DEF DataInv
<1>8. Ends'
  <2>1. Truncated' = Truncated /\ NoBadMagic' = NoBadMagic
    BY DEF Truncated, NoBadMagic
  <2>2. pc' # "size" /\ cursor' >= limit'
    BY <1>1
  <2> QED
    BY <1>1, <2>1, <2>2 DEF Ends
<1> QED
  BY <1>4, <1>5, <1>6, <1>7, <1>8 DEF IInv

\* hasNextChunk: the first test.
LEMMA ChunkStep ==
  ASSUME IInv, hasNextChunk
  PROVE  IInv'
<1>1. /\ pc = "next" /\ cursor >= limit /\ cursor \in Nat /\ limit \in Nat /\ cursor <= limit
      /\ off = 0 \/ AtEnd
      /\ IF finishedReading THEN AtEnd ELSE src # << >> /\ src[1].kind = "header" /\ at > 1
      /\ UNCHANGED <<src, present, at, off, inClosed, finishedReading, uncompressed, call, len>>
      /\ call # "read" => written = << >>
  BY DEF hasNextChunk, IInv, Typed, Place, Calls, inVars, callVars
<1>2. ~failed =>
        /\ Taken(delivered \o written, uncompressed, cursor, limit, PayloadOf(src, at - 1))
        /\ finishedReading /\ Truncated => present < 4
        /\ ~finishedReading => off = 0
  BY <1>1 DEF IInv, DataInv, Ends, Before, Calls, Chunk
<1>3. CASE finishedReading /\ ChunkResult(FALSE) /\ UNCHANGED <<cursor, limit>>
  BY <1>1, <1>2, <1>3, FalseStep
<1>4. CASE /\ ~finishedReading
           /\ cursor' = 0 /\ limit' = 0
           /\ pc' = "size" /\ got' = 0
           /\ UNCHANGED <<written, ghostVars>>
  <2>1. UNCHANGED <<delivered, eof, failed>>
    BY <1>4 DEF ghostVars
  <2>2. Typed'
    BY <1>1, <1>4, <2>1 DEF IInv, Typed, Chunk
  <2>3. Position'
    BY <1>1 DEF IInv, Position
  <2>4. AtEnd' = AtEnd
    BY <1>1 DEF AtEnd
  <2>5. Place'
    BY <1>1, <1>4, <2>1, <2>4 DEF Place, Calls, Chunk
  <2>6. DataInv'
    <3>1. SUFFICES ASSUME ~failed
                   PROVE  Taken(delivered \o written, uncompressed, 0, 0, PayloadOf(src, at - 1))
      <4>1. Before' = at - 1
        BY <1>1, <1>4 DEF Before
      <4> QED
        BY <1>1, <1>4, <2>1, <4>1 DEF DataInv
    <3>2. PICK out \in Seq(Nat) : out = delivered \o written
      BY AppendType DEF IInv, Typed
    <3>3. PICK all \in Seq(Nat) : all = PayloadOf(src, at - 1)
      <4>1. src \in Seq(Items) /\ at - 1 \in 0..Len(src)
        BY StreamFacts DEF IInv, Position
      <4> QED
        BY <4>1, PayloadType
    <3>4. cursor = limit
      BY <1>1
    <3>5. Taken(out, uncompressed, cursor, cursor, all)
      BY <1>2, <3>1, <3>2, <3>3, <3>4
    <3>6. Taken(out, uncompressed, 0, 0, all)
      BY <1>1, <3>5, UsedUp
    <3> QED
      BY <3>2, <3>3, <3>6
  <2>7. Ends'
    <3>1. Truncated' = Truncated /\ NoBadMagic' = NoBadMagic
      BY <1>1 DEF Truncated, NoBadMagic
    <3> QED
      BY <1>1, <1>2, <1>4, <2>1, <3>1 DEF IInv, Ends, Calls
  <2> QED
    BY <2>2, <2>3, <2>5, <2>6, <2>7 DEF IInv
<1> QED
  BY <1>3, <1>4 DEF hasNextChunk

\* What is known while a chunk is read.
LEMMA InChunk ==
  ASSUME IInv, pc \in Chunk
  PROVE  /\ ~finishedReading /\ cursor = 0 /\ limit = 0
         /\ src # << >> /\ src[1].kind = "header" /\ at > 1
         /\ Len(src) \in Nat /\ at \in 1..(Len(src) + 1) /\ off \in Nat /\ got \in Nat
         /\ delivered \in Seq(Nat) /\ written \in Seq(Nat)
         /\ call # "read" => written = << >>
         /\ ~failed => Taken(delivered \o written, uncompressed, 0, 0, PayloadOf(src, Before))
         /\ \A i \in 1..Len(src) : ItemLen(src[i]) \in Nat /\ ItemLen(src[i]) >= 4
<1>1. /\ ~finishedReading /\ cursor = 0 /\ limit = 0
      /\ src # << >> /\ src[1].kind = "header" /\ at > 1
      /\ call # "read" => written = << >>
  BY DEF IInv, Place, Chunk
<1>2. /\ Len(src) \in Nat /\ at \in 1..(Len(src) + 1) /\ off \in Nat /\ got \in Nat
      /\ delivered \in Seq(Nat) /\ written \in Seq(Nat)
  BY StreamFacts DEF IInv, Position, Typed
<1>3. ~failed => Taken(delivered \o written, uncompressed, 0, 0, PayloadOf(src, Before))
  BY <1>1 DEF IInv, DataInv
<1>4. ASSUME NEW i \in 1..Len(src)
      PROVE  ItemLen(src[i]) \in Nat /\ ItemLen(src[i]) >= 4
  <2>1. src[i] \in Items
    BY StreamFacts DEF IInv
  <2>2. src[i].kind # "raw"
    <3>1. SUFFICES ASSUME src[i].kind = "raw" PROVE FALSE
      OBVIOUS
    <3>2. Len(src) = 1
      BY <3>1 DEF IInv, Typed, GoodStream
    <3>3. i = 1
      BY <3>2
    <3> QED
      BY <1>1, <3>1, <3>3
  <2>3. /\ ItemLen(src[i]) \in Nat
        /\ src[i].kind \in {"header", "badMagic", "badSize", "chunk"}
        /\ src[i].kind \in {"header", "badMagic"} => ItemLen(src[i]) = HEADER_SIZE
        /\ src[i].kind = "badSize" => ItemLen(src[i]) = 4
        /\ src[i].kind = "chunk" => ItemLen(src[i]) > 4
    BY <2>1, <2>2, ItemFacts
  <2> QED
    BY <2>3 DEF HEADER_SIZE
<1> QED
  BY <1>1, <1>2, <1>3, <1>4

\* More of a chunk is read: pc stays.
LEMMA MoreStep ==
  ASSUME IInv, pc \in Chunk, off = got, at <= Len(src), NEW n \in Nat, got < n, ReadSome(n),
         pc = "size" => n = 4,
         pc = "magic" => n = HEADER_SIZE /\ src[at].kind \in {"header", "badMagic"},
         pc = "body" => src[at].kind = "chunk" /\ n = src[at].bytes,
         UNCHANGED <<finishedReading, uncompressed, cursor, limit, pc, call, len, written, ghostVars>>
  PROVE  IInv'
<1>1. /\ InItem' /\ Item' = src[at] /\ got' \in Nat /\ got' > 0 /\ got' <= n
      /\ (IF off' = 0 THEN at' - 2 ELSE at' - 1) = at - 1
      /\ got' <= ItemLen(src[at])
      /\ Position' /\ UNCHANGED <<src, present, inClosed>>
  BY ReadingItem DEF IInv
<1>2. UNCHANGED <<delivered, eof, failed>>
  BY DEF ghostVars
<1>3. /\ ~finishedReading /\ cursor = 0 /\ limit = 0
      /\ src # << >> /\ src[1].kind = "header" /\ at > 1 /\ at \in Nat
      /\ call # "read" => written = << >>
      /\ got \in Nat
      /\ Len(src) \in Nat
  BY InChunk
<1>4. at' > 1 /\ got < got'
  BY <1>1, <1>3, Reading DEF IInv
<1>5. Typed'
  BY <1>1, <1>2 DEF IInv, Typed
<1>6. Place'
  <2>1. pc' = "magic" => got' \in 4..HEADER_SIZE
    BY <1>1, <1>3, <1>4 DEF IInv, Place, HEADER_SIZE
  <2>2. pc' = "body" => 4 <= got' /\ got' <= Item.bytes'
    <3>1. pc = "body" => 4 <= got
      BY DEF IInv, Place
    <3>2. pc = "body" => got' <= Item'.bytes
      BY <1>1
    <3> QED
      BY <1>1, <1>3, <1>4, <3>1, <3>2
  <2>3. pc' = "size" => got' <= 4 /\ got' # 0
    BY <1>1
  <2>4. pc' \in Chunk /\ pc' \notin Calls /\ pc' \notin {"header", "raw", "aborted", "next", "idle"}
    BY DEF Chunk, Calls
  <2>5. src' # << >> /\ src'[1].kind = "header" /\ ~finishedReading' /\ cursor' = 0 /\ limit' = 0
        /\ (call' # "read" => written' = << >>)
    BY <1>1, <1>3
  <2> QED
    BY <1>1, <1>4, <2>1, <2>2, <2>3, <2>4, <2>5 DEF Place
<1>7. Before' = at - 1 /\ Before = at - 1
  <2>1. Before = at - 1
    BY <1>3 DEF Before
  <2>2. pc' \in Chunk /\ got' > 0
    BY <1>1
  <2> QED
    BY <1>1, <2>1, <2>2 DEF Before
<1>8. DataInv'
  BY <1>1, <1>2, <1>7 DEF IInv, DataInv
<1>9. Ends'
  <2>1. ~finishedReading' /\ pc' \notin Calls /\ got' # 0 /\ (eof' => eof) /\ NoBadMagic' = NoBadMagic
    BY <1>1, <1>2, <1>3 DEF Chunk, Calls, NoBadMagic
  <2> QED
    BY <1>2, <1>3, <2>1 DEF IInv, Ends
<1> QED
  BY <1>1, <1>5, <1>6, <1>8, <1>9 DEF IInv

\* One part of a chunk is read, and another one is next: pc moves on inside the same item.
LEMMA OnwardStep ==
  ASSUME IInv, pc = "size", got = 4, InItem, NEW p,
         \/ p = "magic" /\ Item.kind \in {"header", "badMagic"}
         \/ p = "body" /\ Item.kind = "chunk",
         pc' = p,
         UNCHANGED <<src, present, at, off, finishedReading, uncompressed, cursor, limit, call, len, got,
                     written, ghostVars>>
  PROVE  IInv'
<1>1. UNCHANGED <<delivered, eof, failed>>
  BY DEF ghostVars
<1>2. /\ ~finishedReading /\ cursor = 0 /\ limit = 0
      /\ src # << >> /\ src[1].kind = "header" /\ at > 1
      /\ call # "read" => written = << >>
  BY InChunk DEF Chunk
<1>3. Typed'
  BY <1>1 DEF IInv, Typed, Chunk
<1>4. Position'
  BY DEF IInv, Position
<1>5. InItem' = InItem /\ Item' = Item
  BY DEF InItem, Item
<1>6. Item.kind = "chunk" => Item.bytes \in Nat /\ Item.bytes > 4
  <2>1. Item \in Items
    BY ItemRead, StreamFacts DEF IInv
  <2> QED
    BY <2>1, ItemFacts
<1>7. Place'
  BY <1>1, <1>2, <1>5, <1>6 DEF Place, Calls, Chunk, HEADER_SIZE
<1>8. DataInv'
  BY <1>1 DEF IInv, DataInv, Before, Calls, Chunk
<1>9. Ends'
  <2>1. Truncated' = Truncated /\ NoBadMagic' = NoBadMagic
    BY DEF Truncated, NoBadMagic
  <2> QED
    BY <1>1, <1>2, <2>1 DEF IInv, Ends, Calls
<1> QED
  BY <1>3, <1>4, <1>7, <1>8, <1>9 DEF IInv

\* readNext of the size, and its tests.
LEMMA SizeStep ==
  ASSUME IInv, ReadChunkSize
  PROVE  IInv'
<1>1. /\ pc = "size" /\ pc \in Chunk /\ got <= 4 /\ (IF got = 0 THEN off = 0 \/ AtEnd ELSE InItem)
      /\ UNCHANGED <<uncompressed, cursor, limit, call, len>>
  BY DEF ReadChunkSize, IInv, Place, Chunk, callVars
<1>2. /\ ~finishedReading /\ cursor = 0 /\ limit = 0
      /\ src # << >> /\ src[1].kind = "header" /\ at > 1
      /\ Len(src) \in Nat /\ at \in 1..(Len(src) + 1) /\ off \in Nat /\ got \in Nat
      /\ ~failed => Taken(delivered \o written, uncompressed, 0, 0, PayloadOf(src, Before))
      /\ \A i \in 1..Len(src) : ItemLen(src[i]) \in Nat /\ ItemLen(src[i]) >= 4
  BY <1>1, InChunk
<1>3. got > 0 /\ got < 4 => at <= Len(src) /\ off = got
  <2>1. SUFFICES ASSUME got > 0, got < 4, ~(at <= Len(src) /\ off = got) PROVE FALSE
    OBVIOUS
  <2>2. at > 1 /\ off = 0 /\ got = ItemLen(src[at - 1])
    BY <1>1, <2>1 DEF InItem
  <2>3. at - 1 \in 1..Len(src)
    BY <1>2, <2>2
  <2> QED
    BY <1>2, <2>1, <2>2, <2>3
<1>4. CASE got < 4 /\ ReadSome(4) /\ UNCHANGED <<finishedReading, pc, written, ghostVars>>
  <2>1. ~AtEnd
    BY <1>4 DEF ReadSome
  <2>2. at <= Len(src)
    BY <1>2, <2>1 DEF AtEnd
  <2>3. off = got
    BY <1>1, <1>2, <1>3, <1>4, <2>1
  <2> QED
    BY <1>1, <1>4, <2>2, <2>3, MoreStep
<1>5. CASE got < 4 /\ AtEnd /\ finishedReading' = TRUE /\ ChunkResult(FALSE) /\ UNCHANGED inVars
  <2>1. Before = at - 1
    BY <1>1, <1>2, <1>3, <1>5 DEF Before
  <2>2. ASSUME ~failed, Truncated
        PROVE  present < 4
    <3>1. present \in Nat /\ Len(src) > 0
      BY <1>2, StreamFacts DEF IInv
    <3>2. at = Len(src) /\ off = present
      <4>1. present < ItemLen(src[Len(src)]) /\ ItemLen(src[Len(src)]) \in Nat
        BY <1>2, <2>2, <3>1 DEF Truncated
      <4>2. ~(at = Len(src) + 1)
        BY <1>2, <3>1, <4>1 DEF IInv, Position
      <4> QED
        BY <1>2, <1>5, <4>2 DEF AtEnd
    <3>3. present > 0
      BY <1>2, StreamFacts DEF IInv
    <3>4. got = 0 => off = 0
      BY <1>1, <2>2 DEF IInv, Ends
    <3> QED
      BY <1>2, <1>3, <1>5, <3>1, <3>2, <3>3, <3>4
  <2>3. UNCHANGED <<src, present, at, off>>
    BY <1>5 DEF inVars
  <2> QED
    BY <1>1, <1>2, <1>5, <2>1, <2>2, <2>3, FalseStep
<1>6. CASE got = 4 /\ UNCHANGED <<inVars, finishedReading>>
  <2>1. UNCHANGED <<src, present, at, off, inClosed, finishedReading>> /\ InItem
    BY <1>1, <1>6 DEF inVars
  <2>2. CASE Item.kind \in {"header", "badMagic"} /\ pc' = "magic" /\ UNCHANGED <<got, written, ghostVars>>
    BY <1>1, <1>6, <2>1, <2>2, OnwardStep
  <2>3. CASE Item.kind = "badSize" /\ Throw("INVALID_CHUNK_SIZE")
    <3>1. off = 0
      <4>1. PICK i \in 1..Len(src) : Item = src[i] /\ (got = ItemLen(Item) => off = 0)
        BY <1>2, <1>6, <2>1, ItemRead DEF IInv
      <4>2. ItemLen(Item) = 4
        BY <2>3, <4>1, StreamFacts, ItemFacts DEF IInv
      <4> QED
        BY <1>6, <4>1, <4>2
    <3>2. Position'
      BY <2>1 DEF IInv, Position
    <3> QED
      BY <1>1, <1>2, <2>1, <2>3, <3>1, <3>2, ThrowStep
  <2>4. CASE Item.kind = "chunk" /\ pc' = "body" /\ UNCHANGED <<got, written, ghostVars>>
    BY <1>1, <1>6, <2>1, <2>4, OnwardStep
  <2> QED
    BY <1>6, <2>2, <2>3, <2>4 DEF ReadChunkSize
<1> QED
  BY <1>4, <1>5, <1>6 DEF ReadChunkSize

\* The rest of a header inside the stream.
LEMMA MagicStep ==
  ASSUME IInv, ReadConcatenatedHeader
  PROVE  IInv'
<1>1. /\ pc = "magic" /\ pc \in Chunk /\ got \in 4..HEADER_SIZE /\ InItem
      /\ Item.kind \in {"header", "badMagic"}
      /\ UNCHANGED <<uncompressed, cursor, limit, call, len>>
  BY DEF ReadConcatenatedHeader, IInv, Place, Chunk, callVars
<1>2. /\ ~finishedReading /\ cursor = 0 /\ limit = 0
      /\ src # << >> /\ src[1].kind = "header" /\ at > 1
      /\ Len(src) \in Nat /\ at \in 1..(Len(src) + 1) /\ off \in Nat /\ got \in Nat
      /\ ~failed => Taken(delivered \o written, uncompressed, 0, 0, PayloadOf(src, Before))
  BY <1>1, InChunk
<1>3. PICK i \in 1..Len(src) :
           /\ Item = src[i] /\ got <= ItemLen(Item)
           /\ got < ItemLen(Item) => i = at /\ off = got
           /\ got = ItemLen(Item) => i = at - 1 /\ off = 0
           /\ (IF off = 0 THEN at - 2 ELSE at - 1) = i - 1
  BY <1>1, <1>2, ItemRead DEF IInv, HEADER_SIZE
<1>4. ItemLen(Item) = HEADER_SIZE
  BY <1>1, <1>3, StreamFacts, ItemFacts DEF IInv
<1>5. CASE got < HEADER_SIZE /\ ReadSome(HEADER_SIZE)
           /\ UNCHANGED <<finishedReading, pc, written, ghostVars>>
  <2>1. at <= Len(src) /\ off = got /\ src[at].kind \in {"header", "badMagic"}
    BY <1>1, <1>3, <1>4, <1>5
  <2>2. HEADER_SIZE \in Nat
    BY DEF HEADER_SIZE
  <2> QED
    BY <1>1, <1>5, <2>1, <2>2, MoreStep
<1>6. CASE got < HEADER_SIZE /\ AtEnd /\ finishedReading' = TRUE /\ Throw("FAILED_TO_UNCOMPRESS")
           /\ UNCHANGED inVars
  <2>1. UNCHANGED <<src, present, at, off>>
    BY <1>6 DEF inVars
  <2>2. Position'
    BY <2>1 DEF IInv, Position
  <2> QED
    BY <1>1, <1>2, <1>6, <2>1, <2>2, ThrowStep
<1>7. CASE got = HEADER_SIZE /\ UNCHANGED <<inVars, finishedReading>>
  <2>1. UNCHANGED <<src, present, at, off, inClosed, finishedReading>> /\ i = at - 1 /\ off = 0
    BY <1>3, <1>4, <1>7 DEF inVars
  <2>2. Position'
    BY <2>1 DEF IInv, Position
  <2>3. Before = i - 1 /\ PayloadOf(src, i) = PayloadOf(src, i - 1)
    <3>1. ~HasBlock(src[i])
      BY <1>1, <1>3 DEF HasBlock
    <3>2. PayloadOf(src, i) = PayloadOf(src, i - 1)
      BY <3>1, PayloadStepIn DEF IInv
    <3>3. got > 0
      BY <1>7 DEF HEADER_SIZE
    <3> QED
      BY <1>1, <1>3, <2>1, <3>2, <3>3 DEF Before
  <2>4. ~failed => Taken(delivered \o written, uncompressed, 0, 0, PayloadOf(src, at - 1))
    BY <1>2, <2>1, <2>3
  <2>5. CASE Throw("INCOMPATIBLE_VERSION")
    BY <1>1, <1>2, <2>1, <2>2, <2>5, ThrowStep
  <2>6. CASE pc' = "next" /\ got' = 0 /\ UNCHANGED <<written, ghostVars>>
    <3>1. UNCHANGED <<delivered, eof, failed>>
      BY <2>6 DEF ghostVars
    <3>2. Typed'
      BY <1>1, <2>1, <2>6, <3>1 DEF IInv, Typed, Calls
    <3>3. Place'
      BY <1>1, <1>2, <2>1, <2>6, <3>1, InChunk DEF Place, Calls, Chunk
    <3>4. DataInv'
      <4>1. Before' = at - 1 /\ src' = src
        BY <2>1, <2>6 DEF Before, Chunk
      <4> QED
        BY <1>1, <1>2, <2>4, <2>6, <3>1, <4>1 DEF DataInv
    <3>5. Ends'
      <4>1. Truncated' = Truncated /\ NoBadMagic' = NoBadMagic
        BY <2>1 DEF Truncated, NoBadMagic
      <4> QED
        BY <1>1, <1>2, <2>1, <2>6, <3>1, <4>1 DEF IInv, Ends
    <3> QED
      BY <2>2, <3>2, <3>3, <3>4, <3>5 DEF IInv
  <2>7. CASE Item.kind = "badMagic" /\ ChunkResult(FALSE)
    <3>1. ~NoBadMagic
      BY <1>3, <2>7 DEF NoBadMagic
    <3> QED
      BY <1>1, <1>2, <2>1, <2>4, <2>7, <3>1, FalseStep
  <2>8. ~(got < HEADER_SIZE)
    BY <1>7 DEF HEADER_SIZE
  <2> QED
    BY <2>5, <2>6, <2>7, <2>8 DEF ReadConcatenatedHeader
<1> QED
  BY <1>5, <1>6, <1>7 DEF ReadConcatenatedHeader

\* The block.
LEMMA BlockStep ==
  ASSUME IInv, ReadBlock
  PROVE  IInv'
<1>1. /\ pc = "body" /\ pc \in Chunk /\ 4 <= got /\ got <= Item.bytes /\ InItem /\ Item.kind = "chunk"
      /\ UNCHANGED <<finishedReading, cursor, call, len>>
  BY DEF ReadBlock, IInv, Place, Chunk, callVars
<1>2. /\ ~finishedReading /\ cursor = 0 /\ limit = 0
      /\ src # << >> /\ src[1].kind = "header" /\ at > 1
      /\ Len(src) \in Nat /\ at \in 1..(Len(src) + 1) /\ off \in Nat /\ got \in Nat
      /\ delivered \in Seq(Nat) /\ written \in Seq(Nat)
      /\ call # "read" => written = << >>
      /\ ~failed => Taken(delivered \o written, uncompressed, 0, 0, PayloadOf(src, Before))
  BY <1>1, InChunk
<1>3. PICK i \in 1..Len(src) :
           /\ Item = src[i] /\ got <= ItemLen(Item)
           /\ got < ItemLen(Item) => i = at /\ off = got
           /\ got = ItemLen(Item) => i = at - 1 /\ off = 0
           /\ (IF off = 0 THEN at - 2 ELSE at - 1) = i - 1
  BY <1>1, <1>2, ItemRead DEF IInv
<1>4. Item.bytes = ItemLen(Item) /\ Item.bytes \in Nat
  BY <1>1, <1>3, StreamFacts, ItemFacts DEF IInv
<1>5. CASE got < Item.bytes /\ ReadSome(Item.bytes)
           /\ UNCHANGED <<uncompressed, limit, pc, written, ghostVars>>
  <2>1. at <= Len(src) /\ off = got /\ Item = src[at]
    BY <1>1, <1>3, <1>4, <1>5
  <2> QED
    BY <1>1, <1>4, <1>5, <2>1, MoreStep
<1>6. CASE got < Item.bytes /\ AtEnd /\ Throw("failed to read chunk")
           /\ UNCHANGED <<inVars, uncompressed, limit>>
  <2>1. UNCHANGED <<src, present, at, off>>
    BY <1>6 DEF inVars
  <2>2. Position'
    BY <2>1 DEF IInv, Position
  <2>3. /\ uncompressed' = uncompressed /\ limit' = limit /\ cursor' = cursor
        /\ UNCHANGED <<src, present, at, off, call, len>> /\ finishedReading' = finishedReading
    <3>1. uncompressed' = uncompressed /\ limit' = limit
      BY <1>6
    <3> QED
      BY <1>1, <2>1, <3>1
  <2>5. cursor' \in cursor..limit
    BY <1>2, <2>3
  <2>4. pc \in Calls \cup Chunk /\ (off = 0 \/ AtEnd)
    BY <1>1, <1>6
  <2> QED
    BY <1>2, <1>6, <2>2, <2>3, <2>4, <2>5, ThrowStep
<1>7. CASE got = Item.bytes /\ UNCHANGED inVars
  <2>1. UNCHANGED <<src, present, at, off, inClosed>> /\ i = at - 1 /\ off = 0
    BY <1>3, <1>4, <1>7 DEF inVars
  <2>2. Position'
    BY <2>1 DEF IInv, Position
  <2>3. CASE Throw("FAILED_TO_UNCOMPRESS") /\ UNCHANGED <<uncompressed, limit>>
    BY <1>1, <1>2, <2>1, <2>2, <2>3, ThrowStep
  <2>4. CASE /\ Item.data # NULL
             /\ uncompressed' = IF uncompressed = NULL \/ Len(Item.data) > Len(uncompressed)
                                THEN Item.data ELSE Overwrite(uncompressed, Item.data)
             /\ limit' = Len(Item.data)
             /\ ChunkResult(TRUE)
    <3>1. HasBlock(src[i])
      BY <1>1, <1>3, <2>4 DEF HasBlock
    <3>2. /\ src[i].data \in Seq(Nat) /\ PayloadOf(src, i - 1) \in Seq(Nat)
          /\ PayloadOf(src, i) = PayloadOf(src, i - 1) \o src[i].data
      BY <3>1, PayloadStepIn DEF IInv
    <3>3. PICK data \in Seq(Nat) : data = Item.data
      BY <1>3, <3>2
    <3>4. PICK all \in Seq(Nat) : all = PayloadOf(src, i - 1)
      BY <3>2
    <3>5. PayloadOf(src, at - 1) = all \o data
      BY <1>3, <2>1, <3>2, <3>3, <3>4
    <3>6. /\ uncompressed' \in Seq(Nat) /\ limit' \in Nat /\ limit' = Len(data)
          /\ limit' <= Len(uncompressed')
          /\ \A j \in 1..Len(data) : uncompressed'[j] = data[j]
      <4>1. Len(data) \in Nat /\ limit' = Len(data)
        BY <2>4, <3>3
      <4>2. CASE uncompressed = NULL \/ Len(data) > Len(uncompressed)
        BY <2>4, <3>3, <4>1, <4>2
      <4>3. CASE uncompressed # NULL /\ ~(Len(data) > Len(uncompressed))
        <5>1. PICK a \in Seq(Nat) : a = uncompressed
          BY <4>3 DEF IInv, Typed
        <5>2. Len(data) <= Len(a) /\ Len(a) \in Nat
          BY <4>1, <4>3, <5>1
        <5>3. uncompressed' = Overwrite(a, data)
          BY <2>4, <3>3, <4>3, <5>1
        <5> QED
          BY <4>1, <5>2, <5>3, Reused
      <4> QED
        BY <4>2, <4>3
    <3>7. PICK b \in Seq(Nat) : b = uncompressed'
      BY <3>6
    <3>8. /\ got' = 0 /\ (eof' => eof) /\ failed' = failed
          /\ \/ pc' = "loop" /\ delivered' = delivered /\ written' = written
             \/ pc' = "idle" /\ delivered' = delivered \o written /\ written' = << >>
      <4>1. CASE call # "available"
        BY <2>4, <4>1 DEF ChunkResult, ghostVars
      <4>2. CASE call = "available"
        BY <2>4, <4>2 DEF ChunkResult
      <4> QED
        BY <4>1, <4>2
    <3>9. delivered \o written \in Seq(Nat) /\ << >> \in Seq(Nat)
      BY <1>2, AppendType
    <3>10. delivered' \o written' = delivered \o written
      BY <3>8, <3>9, AppendNone
    <3>11. Typed'
      <4>1. pc' \in Calls /\ delivered' \in Seq(Nat) /\ written' \in Seq(Nat) /\ got' \in Nat
        BY <1>2, <3>8, <3>9 DEF Calls
      <4> QED
        BY <1>1, <1>2, <2>1, <3>6, <4>1 DEF IInv, Typed
    <3>12. Place'
      BY <1>1, <1>2, <2>1, <3>8 DEF Place, Calls, Chunk
    <3>13. DataInv'
      <4>1. SUFFICES ASSUME ~failed
                     PROVE  Taken(delivered' \o written', b, 0, Len(data), all \o data)
        <5>1. Before' = at - 1 /\ src' = src
          BY <2>1, <3>8 DEF Before, Chunk
        <5>2. cursor' = 0 /\ limit' = Len(data) /\ uncompressed' = b
          BY <1>1, <1>2, <3>6, <3>7
        <5> QED
          BY <3>5, <3>8, <5>1, <5>2 DEF DataInv
      <4>2. PICK out \in Seq(Nat) : out = delivered \o written
        BY <3>9
      <4>3. Before = i - 1
        BY <1>1, <1>2, <1>3, <2>1 DEF Before
      <4>4. Taken(out, uncompressed, 0, 0, all)
        BY <1>2, <3>4, <4>1, <4>2, <4>3
      <4>5. \A j \in 1..Len(data) : b[j] = data[j]
        BY <3>6, <3>7
      <4>6. Taken(out, b, 0, Len(data), all \o data)
        BY <4>4, <4>5, NextBlock
      <4> QED
        BY <3>10, <4>2, <4>6
    <3>14. Ends'
      <4>1. Truncated' = Truncated /\ NoBadMagic' = NoBadMagic
        BY <2>1 DEF Truncated, NoBadMagic
      <4> QED
        BY <1>1, <1>2, <2>1, <3>8, <4>1 DEF IInv, Ends
    <3> QED
      BY <2>2, <3>11, <3>12, <3>13, <3>14 DEF IInv
  <2>5. ~(got < Item.bytes)
    BY <1>2, <1>7
  <2> QED
    BY <2>3, <2>4, <2>5 DEF ReadBlock
<1> QED
  BY <1>5, <1>6, <1>7 DEF ReadBlock

\* close(): the array is dropped.
LEMMA CloseStep ==
  ASSUME IInv, close
  PROVE  IInv'
<1>1. /\ pc = "idle" /\ pc' = "idle" /\ uncompressed' = NULL
      /\ UNCHANGED <<src, present, at, off, finishedReading, cursor, limit, call, len, got, written,
                     delivered, eof, failed>>
  BY DEF close, callVars, ghostVars
<1>2. Typed'
  BY <1>1 DEF IInv, Typed
<1>3. Position'
  BY <1>1 DEF IInv, Position
<1>4. AtEnd' = AtEnd /\ Truncated' = Truncated /\ NoBadMagic' = NoBadMagic
  BY <1>1 DEF AtEnd, Truncated, NoBadMagic
<1>5. Place'
  BY <1>1, <1>4 DEF IInv, Place, Calls, Chunk
<1>6. DataInv'
  BY <1>1 DEF IInv, DataInv, Taken, Before, Calls, Chunk
<1>7. Ends'
  BY <1>1, <1>4 DEF IInv, Ends, Calls
<1> QED
  BY <1>2, <1>3, <1>5, <1>6, <1>7 DEF IInv

\* The closed stream below refuses to be read.
LEMMA RefuseStep ==
  ASSUME IInv, InFails
  PROVE  IInv'
<1>1. /\ pc = "size" /\ pc \in Chunk /\ got = 0 /\ Throw("IOException")
      /\ UNCHANGED <<src, present, at, off, finishedReading, uncompressed, cursor, limit, call, len>>
  BY DEF InFails, inVars, callVars, Chunk
<1>2. Position'
  BY <1>1 DEF IInv, Position
<1>3. ~finishedReading /\ cursor = 0 /\ limit = 0
  BY <1>1, InChunk
<1>4. off = 0 \/ AtEnd
  BY <1>1 DEF IInv, Place
<1>5. cursor' \in cursor..limit /\ ~finishedReading'
  BY <1>1, <1>3
<1> QED
  BY <1>1, <1>2, <1>3, <1>4, <1>5, ThrowStep

-----------------------------------------------------------------------------
(* The invariant.                                                          *)

\* A reader about to read the header.
LEMMA FreshIInv == GoodStream(src) /\ present \in Cuts(src) /\ Fresh /\ pc = "header" => IInv
<1> SUFFICES ASSUME GoodStream(src), present \in Cuts(src), Fresh, pc = "header" PROVE IInv
  OBVIOUS
<1>1. /\ at = 1 /\ off = 0 /\ finishedReading = FALSE /\ uncompressed = NULL
      /\ cursor = 0 /\ limit = 0 /\ got = 0 /\ call = "read" /\ len = 0 /\ written = << >>
      /\ delivered = << >> /\ eof = FALSE /\ failed = FALSE
  BY DEF Fresh
<1>2. << >> \in Seq(Nat)
  OBVIOUS
<1>3. Typed
  BY <1>1, <1>2 DEF Typed
<1>4. Position
  <2>1. Len(src) \in Nat /\ (src = << >> => Len(src) = 0) /\ (src # << >> => Len(src) > 0)
    BY <1>3, StreamFacts
  <2>2. 1 <= Len(src) => ItemLen(src[1]) > 0
    BY <1>3, <2>1, StreamFacts
  <2>3. present \in Nat
    BY <1>3, StreamFacts
  <2> QED
    BY <1>1, <2>1, <2>2, <2>3 DEF Position
<1>5. Place
  BY <1>1 DEF Place, NoData, HeaderAt, HEADER_SIZE, Calls, Chunk
<1>6. DataInv /\ Ends
  BY <1>1 DEF DataInv, Ends, Calls, Chunk
<1> QED
  BY <1>3, <1>4, <1>5, <1>6 DEF IInv

LEMMA InitIInv == Init => IInv
BY StreamsAssumption, FreshIInv DEF Init, GoodStream

\* Every step keeps it.
LEMMA IInvStep == IInv /\ [Next]_vars => IInv'
<1> SUFFICES ASSUME IInv, [Next]_vars PROVE IInv'
  OBVIOUS
<1>1. CASE \E n \in ReadLens : Begin("read", n)
  <2>1. PICK n \in Nat : Begin("read", n)
    BY <1>1, ReadLensAssumption
  <2>2. "read" \in {"read", "readByte", "available"}
    OBVIOUS
  <2> QED
    BY <2>1, <2>2, BeginStep
<1>2. CASE Begin("readByte", 1)
  BY <1>2, BeginStep
<1>3. CASE Begin("available", 0)
  BY <1>3, BeginStep
<1>4. CASE close
  BY <1>4, CloseStep
<1>5. CASE readHeader
  BY <1>5, HeaderStep
<1>6. CASE readFully
  BY <1>6, RawStep
<1>7. CASE rawRead
  BY <1>7, ReadStep
<1>8. CASE read
  BY <1>8, ByteStep
<1>9. CASE available
  BY <1>9, AvailableStep
<1>10. CASE hasNextChunk
  BY <1>10, ChunkStep
<1>11. CASE ReadChunkSize
  BY <1>11, SizeStep
<1>12. CASE ReadConcatenatedHeader
  BY <1>12, MagicStep
<1>13. CASE ReadBlock
  BY <1>13, BlockStep
<1>14. CASE InFails
  BY <1>14, RefuseStep
<1>15. CASE UNCHANGED vars
  <2>1. UNCHANGED <<src, present, at, off, finishedReading, uncompressed, cursor, limit, pc, call, len,
                    got, written, delivered, eof, failed>>
    BY <1>15 DEF vars, inVars, callVars, ghostVars
  <2>2. Typed' /\ Position'
    BY <2>1 DEF IInv, Typed, Position
  <2>3. AtEnd' = AtEnd /\ Truncated' = Truncated /\ NoBadMagic' = NoBadMagic /\ Before' = Before
        /\ InItem' = InItem /\ Item' = Item /\ HeaderAt' = HeaderAt /\ NoData' = NoData
    BY <2>1 DEF AtEnd, Truncated, NoBadMagic, Before, InItem, Item, HeaderAt, NoData
  <2>4. Place'
    BY <2>1, <2>3 DEF IInv, Place
  <2>5. DataInv' /\ Ends'
    BY <2>1, <2>3 DEF IInv, DataInv, Ends
  <2> QED
    BY <2>2, <2>4, <2>5 DEF IInv
<1> QED
  BY <1>1, <1>2, <1>3, <1>4, <1>5, <1>6, <1>7, <1>8, <1>9, <1>10, <1>11, <1>12, <1>13, <1>14, <1>15
     DEF Next, Step, Gone

-----------------------------------------------------------------------------
(* What it says.                                                           *)

\* The items taken so far are complete ones.
LEMMA TakenComplete ==
  ASSUME IInv, pc \in Calls \cup Chunk
  PROVE  /\ src \in Seq(Items) /\ Complete \in 0..Len(src) /\ Before \in 0..Complete
         /\ AtEnd => at - 1 = Complete
<1>1. /\ Len(src) \in Nat /\ src \in Seq(Items) /\ at \in 1..(Len(src) + 1) /\ off \in Nat /\ present \in Nat
  BY StreamFacts DEF IInv, Position
<1>2. src # << >> => Len(src) > 0 /\ ItemLen(src[Len(src)]) \in Nat
  BY <1>1, StreamFacts DEF IInv
<1>3. Complete \in 0..Len(src)
  BY <1>1, <1>2 DEF Complete, Truncated
<1>4. at - 1 <= Complete
  <2>1. CASE at <= Len(src)
    BY <1>1, <2>1 DEF Complete
  <2>2. CASE at = Len(src) + 1
    <3>1. ~Truncated
      BY <1>1, <1>2, <2>2 DEF Truncated, IInv, Position
    <3> QED
      BY <1>1, <2>2, <3>1 DEF Complete
  <2> QED
    BY <1>1, <2>1, <2>2
<1>5. Before \in 0..(at - 1)
  <2>1. pc \in Chunk => at > 1
    BY InChunk
  <2> QED
    BY <1>1, <2>1 DEF Before
<1>6. ASSUME AtEnd
      PROVE  at - 1 = Complete
  <2>1. CASE at > Len(src)
    BY <1>1, <1>3, <1>4, <2>1
  <2>2. CASE at = Len(src) /\ off = present
    <3>1. off < ItemLen(src[Len(src)]) /\ src # << >>
      BY <1>1, <2>2 DEF IInv, Position
    <3>2. Truncated
      BY <2>2, <3>1 DEF Truncated
    <3> QED
      BY <2>2, <3>2 DEF Complete
  <2> QED
    BY <1>6, <2>1, <2>2 DEF AtEnd
<1> QED
  BY <1>1, <1>3, <1>4, <1>5, <1>6

\* The bytes handed out are the beginning of the data of the complete items.
LEMMA IInvFaithful == IInv => Faithful
<1> SUFFICES ASSUME IInv PROVE Faithful
  OBVIOUS
<1>1. cursor <= limit /\ (uncompressed # NULL => limit <= Len(uncompressed))
  BY DEF IInv, Typed
<1>2. ASSUME ~failed
      PROVE  IsPrefix(delivered \o written, Payload(Complete))
  <2>1. Payload(Complete) = PayloadOf(src, Complete)
    BY PayloadIs
  <2>2. PICK out \in Seq(Nat) : out = delivered \o written
    BY AppendType DEF IInv, Typed
  <2>3. CASE pc \in Calls \cup Chunk
    <3>1. src \in Seq(Items) /\ Complete \in 0..Len(src) /\ Before \in 0..Complete
      BY <2>3, TakenComplete
    <3>2. PICK k \in 0..Len(src) : k = Complete
      BY <3>1
    <3>3. PICK all \in Seq(Nat) : all = PayloadOf(src, k)
      BY <3>1, PayloadType
    <3>4. PICK b \in 0..k : b = Before
      BY <3>1, <3>2
    <3>5. b \in 0..Len(src)
      BY <3>2, <3>4
    <3>6. PICK sofar \in Seq(Nat) : sofar = PayloadOf(src, b)
      BY <3>1, <3>5, PayloadType
    <3>7. Taken(out, uncompressed, cursor, limit, sofar)
      BY <1>2, <2>2, <2>3, <3>4, <3>6 DEF IInv, DataInv
    <3>8. Begins(sofar, all)
      BY <3>1, <3>2, <3>3, <3>4, <3>6, PayloadGrows
    <3>9. Begins(out, sofar)
      <4>1. Len(out) <= Len(sofar)
        <5>1. cursor \in Nat /\ limit \in Nat /\ Len(out) \in Nat /\ Len(sofar) \in Nat
          BY DEF IInv, Typed
        <5> QED
          BY <1>1, <3>7, <5>1 DEF Taken
      <4> QED
        BY <3>7, <4>1 DEF Taken, Begins
    <3>10. Begins(out, all)
      BY <3>8, <3>9 DEF Begins
    <3>11. IsPrefix(out, all)
      BY <3>10, BeginsIsPrefix
    <3> QED
      BY <2>1, <2>2, <3>2, <3>3, <3>11
  <2>4. CASE pc \in {"header", "raw"}
    <3>1. delivered = << >> /\ written = << >> /\ << >> \in Seq(Nat)
      BY <2>4 DEF IInv, Place, NoData
    <3>2. out = << >>
      BY <2>2, <3>1, EmptyTwice
    <3>3. Complete \in 0..Len(src) /\ src \in Seq(Items)
      <4>1. Len(src) \in Nat /\ src \in Seq(Items) /\ (src # << >> => Len(src) > 0)
        BY StreamFacts DEF IInv
      <4> QED
        BY <4>1 DEF Complete, Truncated
    <3>4. PICK k \in 0..Len(src) : k = Complete
      BY <3>3
    <3>5. PICK all \in Seq(Nat) : all = PayloadOf(src, k)
      BY <3>3, PayloadType
    <3>6. Begins(out, all)
      BY <3>2 DEF Begins
    <3>7. IsPrefix(out, all)
      BY <3>6, BeginsIsPrefix
    <3> QED
      BY <2>1, <2>2, <3>4, <3>5, <3>7
  <2>5. pc # "aborted"
    BY <1>2 DEF IInv, Place
  <2> QED
    BY <2>3, <2>4, <2>5 DEF IInv, Typed
<1> QED
  BY <1>1, <1>2 DEF Faithful

\* The end of the input comes after all of them.
LEMMA IInvEofMeansAll == IInv => EofMeansAll
<1> SUFFICES ASSUME IInv, eof, ~failed, NoBadMagic
             PROVE  delivered = Payload(Complete) /\ (Truncated => present < 4)
  BY DEF EofMeansAll, NoBadMagic
<1>1. finishedReading /\ cursor >= limit /\ written = << >> /\ (Truncated => present < 4)
  BY DEF IInv, Ends
<1>2. pc \in Calls /\ pc \notin Chunk
  BY <1>1 DEF IInv, Typed, Place, Chunk
<1>3. AtEnd
  BY <1>1, <1>2 DEF IInv, Place
<1>4. src \in Seq(Items) /\ Complete \in 0..Len(src) /\ at - 1 = Complete
  BY <1>2, <1>3, TakenComplete
<1>5. Before = Complete
  BY <1>2, <1>4 DEF Before
<1>6. PICK k \in 0..Len(src) : k = Complete
  BY <1>4
<1>7. PICK all \in Seq(Nat) : all = PayloadOf(src, k)
  BY <1>4, PayloadType
<1>8. delivered \in Seq(Nat) /\ cursor \in Nat /\ limit \in Nat /\ cursor = limit
  BY <1>1 DEF IInv, Typed
<1>9. delivered \o written = delivered
  BY <1>1, <1>8, AppendNone
<1>10. Taken(delivered, uncompressed, cursor, limit, all)
  BY <1>2, <1>5, <1>6, <1>7, <1>9 DEF IInv, DataInv
<1>11. Len(delivered) = Len(all)
  BY <1>8, <1>10 DEF Taken
<1>12. \A i \in 1..Len(delivered) : delivered[i] = all[i]
  BY <1>10 DEF Taken
<1>13. delivered = all
  BY <1>8, <1>11, <1>12, SeqEqual
<1> QED
  BY <1>1, <1>6, <1>7, <1>13, PayloadIs

\* Every state of the reader satisfies the inductive invariant: the types and the place of
\* the next byte in the stream, what holds at each program point, and that the bytes handed out
\* and those left in the block are the data of the items read so far.
THEOREM ReaderInvariance == Spec => []IInv
<1>1. Init => IInv
  BY InitIInv
<1>2. IInv /\ [Next]_vars => IInv'
  BY IInvStep
<1> QED
  BY <1>1, <1>2, PTL DEF Spec

\* However the stream below cuts its answers and however read(byte[], int, int), read(),
\* available() and close() alternate, callers see the decompressed bytes in order, and the
\* cursor of SnappyInputStream stays inside its block.
THEOREM FaithfulAlways == Spec => []Faithful
<1>1. IInv => Faithful
  BY IInvFaithful
<1> QED
  BY <1>1, ReaderInvariance, PTL

\* A read of SnappyInputStream returns -1 only after all bytes of all complete blocks.
THEOREM EofAlwaysMeansAll == Spec => []EofMeansAll
<1>1. IInv => EofMeansAll
  BY IInvEofMeansAll
<1> QED
  BY <1>1, ReaderInvariance, PTL

-----------------------------------------------------------------------------
(* The reader, on what a writer of this library made.                      *)

\* A header, then blocks that decompress.
Clean(s) ==
    \A i \in 1..Len(s) : IF i = 1 THEN s[i].kind = "header"
                         ELSE s[i].kind = "chunk" /\ s[i].data # NULL

\* Nothing more comes out of a reader that met the end in the middle of an item.
Stopped ==
    /\ pc \in Calls \cup {"aborted", "size"} /\ (pc = "size" => got = 0)
    /\ AtEnd /\ (Truncated \/ src = << >>)
    /\ cursor >= limit /\ written = << >>
    /\ Begins(delivered, PayloadOf(src, Complete))

\* On such a stream a reader that is open meets no second header, and no exception but
\* for a cut end.
Calm ==
    /\ uncompressed = NULL => cursor >= limit
    /\ pc # "magic"
    /\ pc = "raw" => Truncated
    /\ failed => Stopped

\* What callers have is the beginning of what there is, unless a call threw.
LEMMA OutBegins ==
  ASSUME IInv, ~failed
  PROVE  Begins(delivered, PayloadOf(src, Complete)) /\ delivered \in Seq(Nat)
         /\ Begins(delivered \o written, PayloadOf(src, Complete))
<1>1. IsPrefix(delivered \o written, PayloadOf(src, Complete))
  <2>1. IsPrefix(delivered \o written, Payload(Complete))
    BY IInvFaithful, Zenon DEF Faithful
  <2>2. Payload(Complete) = PayloadOf(src, Complete)
    BY PayloadIs
  <2> QED
    BY <2>1, <2>2
<1>2. /\ delivered \in Seq(Nat) /\ written \in Seq(Nat)
      /\ src \in Seq(Items) /\ Complete \in 0..Len(src)
  <2>1. Len(src) \in Nat /\ src \in Seq(Items) /\ (src # << >> => Len(src) > 0)
    BY StreamFacts DEF IInv
  <2> QED
    BY <2>1 DEF IInv, Typed, Complete, Truncated
<1>3. PICK all \in Seq(Nat) : all = PayloadOf(src, Complete)
  <2>1. PICK k \in 0..Len(src) : k = Complete
    BY <1>2
  <2> QED
    BY <1>2, <2>1, PayloadType
<1>4. PICK out \in Seq(Nat) : out = delivered \o written
  BY <1>2, AppendType
<1>5. Len(out) <= Len(all) /\ \A i \in 1..Len(out) : all[i] = out[i]
  <2>1. IsPrefix(out, all)
    BY <1>1, <1>3, <1>4
  <2>2. Len(out) <= Len(all) /\ SubSeq(out, 1, Len(out)) = SubSeq(all, 1, Len(out))
    BY <2>1 DEF IsPrefix
  <2>3. \A i \in 1..Len(out) : SubSeq(out, 1, Len(out))[i] = out[i] /\ SubSeq(all, 1, Len(out))[i] = all[i]
    BY <2>2
  <2> QED
    BY <2>2, <2>3
<1>6. Len(delivered) <= Len(out) /\ \A i \in 1..Len(delivered) : out[i] = delivered[i]
  BY <1>2, <1>4, Joined
<1>7. Begins(delivered, all) /\ Begins(out, all)
  BY <1>2, <1>5, <1>6 DEF Begins
<1> QED
  BY <1>2, <1>3, <1>4, <1>7

\* The item that is being read is a block.
LEMMA CleanItem ==
  ASSUME IInv, Clean(src)
  PROVE  /\ pc = "size" /\ got = 4 => Item.kind = "chunk"
         /\ pc = "body" => /\ Item.data # NULL /\ Item.data \in Seq(Nat)
                           /\ got < Item.bytes /\ AtEnd => Truncated
<1>1. ASSUME pc \in {"size", "body"}, got >= 4
      PROVE  /\ pc = "size" /\ got = 4 => Item.kind = "chunk"
             /\ pc = "body" => /\ Item.data # NULL /\ Item.data \in Seq(Nat)
                               /\ got < Item.bytes /\ AtEnd => Truncated
  <2>1. InItem /\ got > 0 /\ Typed /\ Position /\ at > 1 /\ got \in Nat
    BY <1>1 DEF IInv, Place, Typed, Chunk
  <2>2. PICK i \in 1..Len(src) :
          /\ Item = src[i] /\ got <= ItemLen(Item)
          /\ got < ItemLen(Item) => i = at /\ off = got
          /\ got = ItemLen(Item) => i = at - 1 /\ off = 0
    BY <2>1, ItemRead
  <2>3. /\ Len(src) \in Nat /\ src[i] \in Items /\ at \in Nat
        /\ src # << >> => Len(src) > 0 /\ present \in 1..ItemLen(src[Len(src)])
    BY <2>1, StreamFacts DEF Position
  <2>4. i # 1 => Item.kind = "chunk" /\ Item.data # NULL
    BY <2>2 DEF Clean
  <2>5. i = 1 => Item.kind = "header" /\ ItemLen(Item) = HEADER_SIZE
    BY <2>2, <2>3, ItemFacts DEF Clean
  <2>6. pc = "size" /\ got = 4 => i # 1
    BY <2>1, <2>2, <2>5 DEF HEADER_SIZE
  <2>7. pc = "body" => Item.kind = "chunk" /\ i # 1
    BY <2>5 DEF IInv, Place
  <2>8. pc = "body" => Item.data \in Seq(Nat) /\ Item.bytes = ItemLen(Item)
    BY <2>2, <2>3, <2>4, <2>7, ItemFacts
  <2>9. ASSUME pc = "body", got < Item.bytes, AtEnd
        PROVE  Truncated
    <3>1. i = at /\ off = got /\ got < ItemLen(src[at])
      BY <2>2, <2>8, <2>9
    <3>2. at = Len(src) /\ off = present
      BY <2>2, <2>3, <2>9, <3>1 DEF AtEnd
    <3>3. src # << >>
      BY <2>2
    <3> QED
      BY <3>1, <3>2, <3>3 DEF Truncated
  <2> QED
    BY <2>4, <2>6, <2>7, <2>8, <2>9
<1>2. pc = "body" => got >= 4
  BY DEF IInv, Place
<1> QED
  BY <1>1, <1>2

\* What the end of hasNextChunk changes.
LEMMA ResultKeeps ==
  ASSUME Typed, NEW b, ChunkResult(b)
  PROVE  /\ pc' \in {"idle", "loop"} /\ got' = 0 /\ failed' = failed
         /\ written = << >> => written' = << >> /\ delivered' = delivered
<1>1. delivered \in Seq(Nat)
  BY DEF Typed
<1>2. written = << >> => delivered \o written = delivered
  BY <1>1, AppendNone
<1> QED
  BY <1>2 DEF ChunkResult, ghostVars

\* A call on a reader that met the cut end finds it again.
LEMMA StoppedStays ==
  ASSUME Stopped, UNCHANGED <<src, present, at, off, delivered>>, written' = << >>,
         pc' \in Calls \cup {"aborted", "size"}, pc' = "size" => got' = 0, cursor' >= limit'
  PROVE  Stopped'
<1>1. AtEnd' = AtEnd /\ Truncated' = Truncated /\ Complete' = Complete
  BY DEF AtEnd, Truncated, Complete
<1> QED
  BY <1>1 DEF Stopped

\* It begins there.
LEMMA Stopping ==
  ASSUME IInv, ~failed, AtEnd, Truncated \/ src = << >>,
         UNCHANGED <<src, present, at, off, delivered>>, written' = << >>,
         pc' \in {"idle", "aborted"}, cursor' >= limit'
  PROVE  Stopped'
<1>1. AtEnd' = AtEnd /\ Truncated' = Truncated /\ Complete' = Complete
  BY DEF AtEnd, Truncated, Complete
<1>2. Begins(delivered, PayloadOf(src, Complete))
  BY OutBegins
<1> QED
  BY <1>1, <1>2 DEF Stopped, Calls

LEMMA HeaderCalm ==
  ASSUME IInv, Calm, Clean(src), readHeader
  PROVE  Calm'
<1>1. /\ pc = "header" /\ HeaderAt /\ NoData /\ got \in Nat /\ ~failed
      /\ UNCHANGED <<src, present, uncompressed, cursor, limit, delivered>>
  BY DEF readHeader, IInv, Place, Typed, Calm, Stopped, Calls, ReadSome, inVars, ghostVars, Abort
<1>2. cursor' >= limit'
  BY <1>1 DEF NoData
<1>3. /\ Len(src) \in Nat /\ at \in 1..(Len(src) + 1)
      /\ src # << >> => Len(src) > 0 /\ present \in 1..ItemLen(src[Len(src)])
                        /\ src[1].kind = "header" /\ ItemLen(src[1]) = HEADER_SIZE
  <2>1. src # << >> => 1 \in 1..Len(src)
    BY StreamFacts DEF IInv
  <2> QED
    BY <2>1, StreamFacts, ItemFacts DEF IInv, Position, Clean
<1>4. CASE got < HEADER_SIZE /\ ReadSome(HEADER_SIZE) /\ UNCHANGED <<pc, ghostVars, written>>
  BY <1>1, <1>2, <1>4 DEF Calm, ghostVars
<1>5. CASE UNCHANGED inVars /\ AtEnd /\ got = 0 /\ Abort("EMPTY_INPUT")
  <2>1. src = << >>
    BY <1>1, <1>3, <1>5 DEF HeaderAt, AtEnd, HEADER_SIZE
  <2>2. written' = << >> /\ pc' = "aborted" /\ UNCHANGED <<at, off>>
    BY <1>1, <1>5 DEF Abort, NoData, inVars
  <2>3. Stopped'
    BY <1>1, <1>2, <1>5, <2>1, <2>2, Stopping
  <2> QED
    BY <1>2, <2>2, <2>3 DEF Calm
<1>6. CASE /\ got = HEADER_SIZE \/ AtEnd
           /\ got > 0 /\ (got < HEADER_SIZE \/ src[1].kind # "header")
           /\ pc' = "raw"
           /\ UNCHANGED <<inVars, got, ghostVars, written>>
  <2>1. src # << >>
    BY <1>1, <1>6 DEF HeaderAt
  <2>2. got < HEADER_SIZE /\ AtEnd
    BY <1>3, <1>6, <2>1 DEF HEADER_SIZE
  <2>3. at = 1 /\ off = got
    BY <1>1, <1>3, <2>1, <2>2 DEF HeaderAt, HEADER_SIZE
  <2>4. Truncated
    BY <1>3, <2>1, <2>2, <2>3 DEF Truncated, AtEnd
  <2>5. Truncated' /\ ~failed'
    BY <1>1, <1>6, <2>4 DEF Truncated, inVars, ghostVars
  <2> QED
    BY <1>2, <1>6, <2>5 DEF Calm
<1>7. CASE /\ pc' = "idle"
           /\ UNCHANGED <<inVars, ghostVars, written>>
  BY <1>1, <1>2, <1>7 DEF Calm, ghostVars
<1> QED
  BY <1>1, <1>4, <1>5, <1>6, <1>7 DEF readHeader, HEADER_SIZE

LEMMA RawCalm ==
  ASSUME IInv, Calm, Clean(src), readFully
  PROVE  Calm'
<1>1. /\ pc = "raw" /\ Truncated /\ ~failed /\ NoData /\ src # << >>
      /\ src[1].kind = "header" => AtEnd
  BY DEF readFully, IInv, Place, Calm, Stopped, Calls
<1>2. 1 \in 1..Len(src)
  BY <1>1, StreamFacts DEF IInv
<1>3. src[1].kind = "header" /\ AtEnd
  BY <1>1, <1>2 DEF Clean
<1>4. /\ UNCHANGED <<src, present, at, off, uncompressed, limit, delivered>> /\ cursor' = 0
      /\ pc' = "aborted" /\ written' = << >>
  BY <1>1, <1>3 DEF readFully, inVars, Abort, NoData
<1>5. cursor' >= limit'
  BY <1>1, <1>4 DEF NoData
<1>6. Stopped'
  BY <1>1, <1>3, <1>4, <1>5, Stopping
<1> QED
  BY <1>4, <1>5, <1>6 DEF Calm

\* A call begins or goes on: written is lost, and nothing is read.
LEMMA CallCalm ==
  ASSUME IInv, Calm, ~inClosed, rawRead \/ read \/ available \/ \E c, n : Begin(c, n)
  PROVE  Calm'
<1>1. /\ UNCHANGED <<src, present, at, off, uncompressed, limit>>
      /\ pc \in Calls /\ pc' \in {"idle", "loop", "next"}
      /\ Typed /\ cursor \in Nat /\ limit \in Nat /\ cursor <= limit
  BY DEF rawRead, read, available, Begin, inVars, IInv, Typed, Calls, Done, Throw, ghostVars
<1>2. cursor < limit => uncompressed # NULL
  BY <1>1 DEF Calm
<1>3. /\ failed' = failed
      /\ cursor >= limit => cursor' = cursor
      /\ uncompressed = NULL => cursor' = cursor
  BY <1>1, <1>2 DEF rawRead, read, available, Begin, Done, ghostVars
<1>4. ASSUME failed
      PROVE  Stopped'
  <2>1. Stopped /\ cursor >= limit /\ written = << >> /\ delivered \in Seq(Nat)
    BY <1>4 DEF Calm, Stopped, IInv, Typed
  <2>2. delivered \o << >> = delivered
    BY <2>1, AppendNone
  <2>3. UNCHANGED delivered /\ written' = << >>
    <3>1. CASE rawRead
      <4>1. ~(cursor < limit)
        BY <1>1, <2>1
      <4> QED
        BY <2>1, <2>2, <3>1, <4>1 DEF rawRead, Done, ghostVars
    <3>2. CASE read
      <4>1. ~(cursor < limit)
        BY <1>1, <2>1
      <4> QED
        BY <2>1, <3>2, <4>1 DEF read, ghostVars
    <3>3. CASE available
      BY <2>1, <2>2, <3>3 DEF available, Done, ghostVars
    <3>4. CASE \E c, n : Begin(c, n)
      BY <2>1, <3>4 DEF Begin
    <3> QED
      BY <3>1, <3>2, <3>3, <3>4
  <2>4. cursor' >= limit'
    BY <1>1, <1>3, <2>1
  <2> QED
    BY <1>1, <2>1, <2>3, <2>4, StoppedStays DEF Calls
<1> QED
  BY <1>1, <1>3, <1>4 DEF Calm

LEMMA ChunkCalm ==
  ASSUME IInv, Calm, hasNextChunk
  PROVE  Calm'
<1>1. /\ UNCHANGED <<src, present, at, off, uncompressed>> /\ pc = "next" /\ Typed
      /\ cursor >= limit
  BY DEF hasNextChunk, inVars, IInv, Place
<1>2. CASE finishedReading /\ ChunkResult(FALSE) /\ UNCHANGED <<cursor, limit>>
  <2>1. /\ pc' \in {"idle", "loop"} /\ got' = 0 /\ failed' = failed
        /\ written = << >> => written' = << >> /\ delivered' = delivered
    BY <1>1, <1>2, ResultKeeps
  <2>2. failed => Stopped'
    <3> SUFFICES ASSUME failed PROVE Stopped'
      OBVIOUS
    <3>1. Stopped /\ written = << >>
      BY DEF Calm, Stopped
    <3> QED
      BY <1>1, <1>2, <2>1, <3>1, StoppedStays DEF Calls
  <2> QED
    BY <1>1, <1>2, <2>1, <2>2 DEF Calm
<1>3. CASE /\ cursor' = 0 /\ limit' = 0
           /\ pc' = "size" /\ got' = 0
           /\ UNCHANGED <<written, ghostVars>>
  <2>1. failed' = failed /\ UNCHANGED <<written, delivered>>
    BY <1>3 DEF ghostVars
  <2>2. failed => Stopped'
    <3> SUFFICES ASSUME failed PROVE Stopped'
      OBVIOUS
    <3>1. Stopped /\ written = << >>
      BY DEF Calm, Stopped
    <3>2. cursor' >= limit'
      BY <1>3
    <3> QED
      BY <1>1, <1>3, <2>1, <3>1, <3>2, StoppedStays
  <2>3. cursor' >= limit'
    BY <1>3
  <2> QED
    BY <1>3, <2>1, <2>2, <2>3 DEF Calm
<1> QED
  BY <1>2, <1>3 DEF hasNextChunk

LEMMA SizeCalm ==
  ASSUME IInv, Calm, Clean(src), ReadChunkSize
  PROVE  Calm'
<1>1. /\ UNCHANGED <<uncompressed, cursor, limit>> /\ pc = "size" /\ Typed
      /\ cursor = 0 /\ limit = 0 /\ cursor >= limit
  BY DEF ReadChunkSize, IInv, Place, Chunk
<1>2. CASE got < 4 /\ ReadSome(4) /\ UNCHANGED <<finishedReading, pc, written, ghostVars>>
  <2>1. ~failed
    BY <1>2 DEF Calm, Stopped, ReadSome
  <2> QED
    BY <1>1, <1>2, <2>1 DEF Calm, ghostVars
<1>3. CASE got < 4 /\ AtEnd /\ ChunkResult(FALSE) /\ UNCHANGED inVars
  <2>1. /\ pc' \in {"idle", "loop"} /\ got' = 0 /\ failed' = failed
        /\ written = << >> => written' = << >> /\ delivered' = delivered
        /\ UNCHANGED <<src, present, at, off>>
    BY <1>1, <1>3, ResultKeeps DEF inVars
  <2>2. failed => Stopped'
    <3> SUFFICES ASSUME failed PROVE Stopped'
      OBVIOUS
    <3>1. Stopped /\ written = << >>
      BY DEF Calm, Stopped
    <3> QED
      BY <1>1, <2>1, <3>1, StoppedStays DEF Calls
  <2> QED
    BY <1>1, <2>1, <2>2 DEF Calm
<1>4. CASE got = 4
  <2>1. Item.kind = "chunk"
    BY <1>1, <1>4, CleanItem
  <2>2. ~failed
    BY <1>1, <1>4 DEF Calm, Stopped
  <2>3. pc' = "body" /\ ~failed'
    BY <1>1, <1>4, <2>1, <2>2 DEF ReadChunkSize, ghostVars
  <2> QED
    BY <1>1, <2>3 DEF Calm
<1> QED
  BY <1>2, <1>3, <1>4 DEF ReadChunkSize

LEMMA BlockCalm ==
  ASSUME IInv, Calm, Clean(src), ReadBlock
  PROVE  Calm'
<1>1. /\ UNCHANGED <<finishedReading, cursor>> /\ pc = "body" /\ Typed
      /\ cursor = 0 /\ limit = 0 /\ cursor >= limit /\ ~failed /\ written \in Seq(Nat)
  BY DEF ReadBlock, IInv, Place, Chunk, Calm, Stopped, Calls, Typed
<1>2. Item.data # NULL /\ Item.data \in Seq(Nat) /\ (got < Item.bytes /\ AtEnd => Truncated)
  BY <1>1, CleanItem
<1>3. CASE got < Item.bytes /\ ReadSome(Item.bytes)
           /\ UNCHANGED <<uncompressed, limit, pc, written, ghostVars>>
  BY <1>1, <1>3 DEF Calm, ghostVars
<1>4. CASE got < Item.bytes /\ AtEnd /\ Throw("failed to read chunk")
           /\ UNCHANGED <<inVars, uncompressed, limit>>
  <2>1. UNCHANGED <<src, present, at, off, delivered>> /\ written' = << >> /\ pc' = "idle"
    BY <1>4 DEF inVars, Throw
  <2>2. Stopped'
    BY <1>1, <1>2, <1>4, <2>1, Stopping
  <2> QED
    BY <1>1, <1>4, <2>1, <2>2 DEF Calm
<1>5. CASE /\ uncompressed' = IF uncompressed = NULL \/ Len(Item.data) > Len(uncompressed)
                              THEN Item.data ELSE Overwrite(uncompressed, Item.data)
           /\ ChunkResult(TRUE)
  <2>1. /\ pc' \in {"idle", "loop"} /\ failed' = failed
    BY <1>1, <1>5, ResultKeeps
  <2>2. uncompressed' \in Seq(Nat)
    <3>1. uncompressed # NULL => Overwrite(uncompressed, Item.data) \in Seq(Nat)
      BY <1>1, <1>2 DEF Typed, Overwrite
    <3> QED
      BY <1>2, <1>5, <3>1
  <2>3. uncompressed' # NULL
    BY <2>2, NullAssumption
  <2> QED
    BY <1>1, <2>1, <2>3 DEF Calm
<1> QED
  BY <1>1, <1>2, <1>3, <1>4, <1>5 DEF ReadBlock

\* A reader of what a writer made stays calm until it is closed.
LEMMA CalmStep ==
  ASSUME IInv, Clean(src), ~inClosed => Calm, [Next]_vars
  PROVE  (~inClosed => Calm)' /\ src' = src /\ present' = present
<1>1. src' = src /\ present' = present
  BY DEF Next, Step, Gone, Begin, close, readHeader, readFully, rawRead, read, available,
         hasNextChunk, ReadChunkSize, ReadConcatenatedHeader, ReadBlock, InFails, ReadSome,
         vars, inVars
<1>2. ASSUME ~inClosed'
      PROVE  Calm'
  <2>1. CASE UNCHANGED vars
    <3>1. Calm
      BY <1>2, <2>1 DEF vars, inVars
    <3>2. AtEnd' = AtEnd /\ Truncated' = Truncated /\ Complete' = Complete
          /\ UNCHANGED <<src, delivered, pc, got, cursor, limit, written, uncompressed, failed>>
      BY <2>1 DEF AtEnd, Truncated, Complete, vars, inVars, ghostVars
    <3> QED
      BY <3>1, <3>2 DEF Calm, Stopped
  <2>2. CASE close
    BY <1>2, <2>2 DEF close
  <2>3. CASE Step \/ \E c, n : Begin(c, n)
    <3>1. ~inClosed
      BY <1>2, <2>3 DEF Step, Begin, readHeader, readFully, rawRead, read, available,
         hasNextChunk, ReadChunkSize, ReadConcatenatedHeader, ReadBlock, InFails, ReadSome, inVars
    <3>2. Calm /\ ~ReadConcatenatedHeader /\ ~InFails
      BY <3>1 DEF Calm, ReadConcatenatedHeader, InFails
    <3> QED
      BY <2>3, <3>1, <3>2, HeaderCalm, RawCalm, CallCalm, ChunkCalm, SizeCalm, BlockCalm DEF Step
  <2> QED
    BY <2>1, <2>2, <2>3 DEF Next, Gone
<1> QED
  BY <1>1, <1>2

-----------------------------------------------------------------------------
(* What the writer made, as the reader gets it.                            *)

\* The items of a stream with header: the numbers in order, none of them empty but for
\* the header.
Made(x) ==
    /\ x \in Seq(Seq(Nat)) /\ W!InOrder(x)
    /\ \A i \in 1..Len(x) : (x[i] = << >>) <=> i = 1

\* s is x in the format.
Wired(x, s) == s = [i \in 1..Len(x) |-> Wire(x[i])]

\* The first k items of the stream decompress to the numbers below those that follow.
Counted(x, s, k) ==
    /\ W!After(x, k) \in Nat /\ W!After(x, k) >= 1
    /\ PayloadOf(s, k) = Numbers(W!After(x, k) - 1)

LEMMA NumbersAre ==
  ASSUME NEW n \in Nat
  PROVE  Numbers(n) \in Seq(Nat) /\ Len(Numbers(n)) = n /\ \A i \in 1..n : Numbers(n)[i] = i
BY DEF Numbers

\* A run that follows the first numbers.
LEMMA NumbersRun ==
  ASSUME NEW m \in Nat, NEW d \in Seq(Nat), W!IsRun(d, m + 1)
  PROVE  Numbers(m) \o d = Numbers(m + Len(d))
<1>1. Len(d) \in Nat /\ m + Len(d) \in Nat
  OBVIOUS
<1>2. PICK p \in Seq(Nat) : p = Numbers(m) /\ Len(p) = m /\ \A i \in 1..m : p[i] = i
  BY NumbersAre
<1>3. PICK q \in Seq(Nat) : q = Numbers(m + Len(d)) /\ Len(q) = m + Len(d)
                            /\ \A i \in 1..(m + Len(d)) : q[i] = i
  BY <1>1, NumbersAre
<1>4. PICK z \in Seq(Nat) : z = p \o d
  BY AppendType
<1>5. /\ Len(z) = m + Len(d)
      /\ \A i \in 1..m : z[i] = i
      /\ \A j \in 1..Len(d) : z[m + j] = d[j]
  <2>1. /\ Len(z) = Len(p) + Len(d)
        /\ \A i \in 1..Len(p) : z[i] = p[i]
        /\ \A j \in 1..Len(d) : z[Len(p) + j] = d[j]
    BY <1>4, Joined
  <2> QED
    BY <1>2, <2>1
<1>6. \A j \in 1..Len(d) : d[j] = m + j
  BY DEF W!IsRun
<1>7. ASSUME NEW i \in 1..Len(z)
      PROVE  z[i] = q[i]
  <2>1. CASE i <= m
    BY <1>1, <1>3, <1>5, <2>1
  <2>2. CASE i > m
    <3>1. PICK j \in 1..Len(d) : i = m + j
      <4>1. i - m \in 1..Len(d) /\ i = m + (i - m)
        BY <1>1, <1>5, <2>2
      <4> QED
        BY <4>1
    <3> QED
      BY <1>1, <1>3, <1>5, <1>6, <3>1
  <2> QED
    BY <1>1, <1>5, <2>1, <2>2
<1>8. z = q
  BY <1>3, <1>5, <1>7, SeqEqual
<1> QED
  BY <1>2, <1>3, <1>4, <1>8

\* It is a header and blocks that decompress.
LEMMA WiredClean ==
  ASSUME NEW x, NEW s, Made(x), Wired(x, s)
  PROVE  Clean(s) /\ GoodStream(s) /\ Len(s) = Len(x)
<1>1. x \in Seq(Seq(Nat)) /\ Len(x) \in Nat /\ \A i \in 1..Len(x) : x[i] \in Seq(Nat)
  BY DEF Made
<1>2. ASSUME NEW i \in 1..Len(x)
      PROVE  /\ Wire(x[i]) \in Items /\ Wire(x[i]).kind # "raw"
             /\ IF i = 1 THEN Wire(x[i]).kind = "header"
                ELSE Wire(x[i]).kind = "chunk" /\ Wire(x[i]).data # NULL
  <2>1. CASE i = 1
    <3>1. Wire(x[i]) = [kind |-> "header", version |-> 1]
      BY <2>1 DEF Made, Wire, W!Header, MINIMUM_COMPATIBLE_VERSION
    <3>2. Wire(x[i]) \in [kind : {"header"}, version : Nat]
      BY <3>1
    <3> QED
      BY <2>1, <3>1, <3>2 DEF Items
  <2>2. CASE i # 1
    <3>1. PICK d \in Seq(Nat) : d = x[i]
      BY <1>1
    <3>2. PICK b \in Nat : b = 4 + Len(d) + 2
      OBVIOUS
    <3>3. b \in Nat \ 0..4
      BY <3>2
    <3>4. Wire(x[i]) = [kind |-> "chunk", bytes |-> b, data |-> d]
      BY <2>2, <3>1, <3>2 DEF Made, Wire, W!Header
    <3>5. Wire(x[i]) \in [kind : {"chunk"}, bytes : Nat \ 0..4, data : {NULL} \cup Seq(Nat)]
      BY <3>3, <3>4
    <3>6. d # NULL
      BY NullAssumption
    <3> QED
      BY <2>2, <3>4, <3>5, <3>6 DEF Items
  <2> QED
    BY <2>1, <2>2
<1>3. /\ Len(s) = Len(x) /\ s \in Seq(Items)
      /\ \A i \in 1..Len(x) : s[i] = Wire(x[i])
  BY <1>1, <1>2 DEF Wired
<1>4. Clean(s)
  BY <1>2, <1>3 DEF Clean
<1> QED
  BY <1>2, <1>3, <1>4 DEF GoodStream

\* Its blocks hold the numbers 1, 2, and so on.
LEMMA WiredCounted ==
  ASSUME NEW x, NEW s, Made(x), Wired(x, s)
  PROVE  \A k \in 0..Len(x) : Counted(x, s, k)
<1>1. x \in Seq(Seq(Nat)) /\ Len(x) \in Nat /\ \A i \in 1..Len(x) : x[i] \in Seq(Nat)
  BY DEF Made
<1>2. \A i \in 1..Len(x) : s[i] = Wire(x[i])
  BY <1>1 DEF Wired
<1> DEFINE T == {k \in Nat : k <= Len(x) /\ ~Counted(x, s, k)}
<1>3. SUFFICES ASSUME T # {} PROVE FALSE
  OBVIOUS
<1>4. PICK m \in T : \A k \in T : m <= k
  <2>1. T \subseteq Nat
    OBVIOUS
  <2> HIDE DEF T
  <2> QED
    BY <1>3, <2>1, Least
<1>5. m \in Nat /\ m <= Len(x) /\ ~Counted(x, s, m)
  OBVIOUS
<1>6. m # 0
  <2>1. W!After(x, 0) = 1 /\ PayloadOf(s, 0) = << >>
    BY PayloadStep DEF W!After
  <2>2. Numbers(0) = << >>
    BY NumbersAre
  <2>3. Numbers(W!After(x, 0) - 1) = << >>
    BY <2>1, <2>2
  <2>4. Counted(x, s, 0)
    BY <2>1, <2>3 DEF Counted
  <2> QED
    BY <1>5, <2>4
<1>7. PICK k \in Nat : m = k + 1
  <2>1. m - 1 \in Nat /\ m = (m - 1) + 1
    BY <1>5, <1>6
  <2> QED
    BY <2>1
<1>8. k \notin T /\ k <= Len(x)
  BY <1>1, <1>4, <1>5, <1>7
<1>9. Counted(x, s, k)
  BY <1>8
<1> HIDE DEF T
<1>10. m \in 1..Len(x)
  BY <1>1, <1>5, <1>6
<1>11. PICK n \in Nat : W!After(x, k) = n + 1 /\ PayloadOf(s, k) = Numbers(n)
  <2>1. PICK a \in Nat : a = W!After(x, k) /\ a >= 1 /\ PayloadOf(s, k) = Numbers(a - 1)
    BY <1>9 DEF Counted
  <2>2. a - 1 \in Nat /\ a = (a - 1) + 1
    BY <2>1
  <2> QED
    BY <2>1, <2>2
<1>12. PayloadOf(s, m) = IF HasBlock(s[m]) THEN PayloadOf(s, k) \o s[m].data ELSE PayloadOf(s, k)
  BY <1>7, PayloadStep
<1>13. CASE m = 1
  <2>1. x[m] = << >>
    BY <1>10, <1>13 DEF Made
  <2>2. Wire(x[m]) = [kind |-> "header", version |-> 1]
    BY <2>1 DEF Wire, W!Header, MINIMUM_COMPATIBLE_VERSION
  <2>3. ~HasBlock(s[m])
    BY <1>2, <1>10, <2>2 DEF HasBlock
  <2>4. k = 0 /\ W!After(x, k) = 1 /\ W!After(x, m) = 1
    BY <1>7, <1>13, <2>1 DEF W!After, W!Header
  <2>5. n = 0
    BY <1>11, <2>4
  <2>6. PayloadOf(s, m) = Numbers(n) /\ W!After(x, m) - 1 = n
    BY <1>11, <1>12, <2>3, <2>4, <2>5
  <2>7. Counted(x, s, m)
    BY <2>4, <2>6 DEF Counted
  <2> QED
    BY <1>5, <2>7
<1>14. CASE m # 1
  <2>1. PICK d \in Seq(Nat) : d = x[m]
    BY <1>1, <1>10
  <2>2. d # << >>
    BY <1>10, <1>14, <2>1 DEF Made
  <2>3. PICK b \in Nat : b = 4 + Len(d) + 2
    OBVIOUS
  <2>4. Wire(d) = [kind |-> "chunk", bytes |-> b, data |-> d]
    BY <2>2, <2>3 DEF Wire, W!Header
  <2>5. d # NULL
    BY NullAssumption
  <2>6. HasBlock(s[m]) /\ s[m].data = d
    BY <1>2, <1>10, <2>1, <2>4, <2>5 DEF HasBlock
  <2>7. W!IsRun(d, n + 1)
    <3>1. m - 1 = k
      BY <1>7
    <3>2. W!IsRun(x[m], W!After(x, m - 1))
      BY <1>10 DEF Made, W!InOrder
    <3> QED
      BY <1>11, <2>1, <3>1, <3>2
  <2>8. Numbers(n) \o d = Numbers(n + Len(d))
    BY <2>7, NumbersRun
  <2>9. PayloadOf(s, m) = Numbers(n + Len(d))
    BY <1>11, <1>12, <2>6, <2>8
  <2>10. W!After(x, m) = n + Len(d) + 1
    <3>1. Len(d) \in Nat /\ Len(d) >= 1
      BY <2>2
    <3>2. d[Len(d)] = n + Len(d)
      BY <2>7, <3>1 DEF W!IsRun
    <3> QED
      BY <1>6, <2>1, <2>2, <3>2 DEF W!After, W!Header
  <2>11. PICK l \in Nat : l = n + Len(d)
    OBVIOUS
  <2>12. W!After(x, m) = l + 1 /\ (l + 1) - 1 = l /\ PayloadOf(s, m) = Numbers(l)
    BY <2>9, <2>10, <2>11
  <2>13. Counted(x, s, m)
    BY <2>12 DEF Counted
  <2> QED
    BY <1>5, <2>13
<1> QED
  BY <1>13, <1>14

\* The byte that follows more items has no smaller number.
LEMMA AfterGrows ==
  ASSUME NEW x, Made(x), NEW j \in 0..Len(x), NEW i \in 0..j
  PROVE  W!After(x, i) \in Nat /\ W!After(x, j) \in Nat /\ W!After(x, i) <= W!After(x, j)
         /\ W!After(x, i) >= 1
<1>1. PICK s : Wired(x, s)
  BY DEF Wired
<1>2. Clean(s) /\ s \in Seq(Items) /\ Len(s) = Len(x)
  BY <1>1, WiredClean DEF GoodStream
<1>3. Len(x) \in Nat /\ i \in 0..Len(x)
  BY DEF Made
<1>4. Counted(x, s, i) /\ Counted(x, s, j)
  BY <1>1, <1>3, WiredCounted
<1>5. PICK a \in Nat : a = W!After(x, i) /\ a >= 1 /\ PayloadOf(s, i) = Numbers(a - 1)
  BY <1>4 DEF Counted
<1>6. PICK b \in Nat : b = W!After(x, j) /\ b >= 1 /\ PayloadOf(s, j) = Numbers(b - 1)
  BY <1>4 DEF Counted
<1>7. Begins(PayloadOf(s, i), PayloadOf(s, j))
  BY <1>2, PayloadGrows
<1>8. Len(Numbers(a - 1)) = a - 1 /\ Len(Numbers(b - 1)) = b - 1
  <2>1. PICK u \in Nat, v \in Nat : u = a - 1 /\ v = b - 1
    BY <1>5, <1>6
  <2>2. Len(Numbers(u)) = u /\ Len(Numbers(v)) = v
    BY NumbersAre
  <2> QED
    BY <2>1, <2>2
<1>9. a - 1 <= b - 1
  BY <1>5, <1>6, <1>7, <1>8 DEF Begins
<1> QED
  BY <1>5, <1>6, <1>9

-----------------------------------------------------------------------------
(* The writer is the one of BlockOutputProofs, of the class with the header.*)

WP == INSTANCE BlockOutputProofs WITH Kinds <- {FALSE}, pc <- wpc, raised <- wraised

LEMMA SameSteps ==
  /\ (W!Init <=> WP!Init) /\ (W!flush <=> WP!flush) /\ (W!close <=> WP!close)
  /\ (W!rawWrite <=> WP!rawWrite) /\ (W!writeByte <=> WP!writeByte) /\ (W!Refused <=> WP!Refused)
  /\ \A n : W!write(n) <=> WP!write(n)
<1> USE DEF W!HEADER_SIZE, WP!HEADER_SIZE, W!Header, WP!Header, W!Empty, WP!Empty, W!blockSize,
       WP!blockSize, W!inputSize, WP!inputSize, W!inputCursor, WP!inputCursor, W!Preamble,
       WP!Preamble, W!maxCompressedLength, WP!maxCompressedLength, W!NextBytes, WP!NextBytes,
       W!outputSize, WP!outputSize, W!writeHeader, WP!writeHeader, W!dumpOutput, WP!dumpOutput,
       W!hasSufficientOutputBufferFor, WP!hasSufficientOutputBufferFor,
       W!AppendBlock, WP!AppendBlock, W!compressInput, WP!compressInput, W!flushAll, WP!flushAll
<1>1. W!flush <=> WP!flush
  BY DEF W!flush, WP!flush
<1>2. W!close <=> WP!close
  BY DEF W!close, WP!close
<1>3. W!rawWrite <=> WP!rawWrite
  BY DEF W!rawWrite, WP!rawWrite
<1>4. W!writeByte <=> WP!writeByte
  BY DEF W!writeByte, WP!writeByte
<1>5. W!Refused <=> WP!Refused
  BY DEF W!Refused, WP!Refused
<1>6. \A n : W!write(n) <=> WP!write(n)
  BY DEF W!write, WP!write
<1>7. W!Init <=> WP!Init
  BY DEF W!Init, WP!Init
<1> QED
  BY <1>1, <1>2, <1>3, <1>4, <1>5, <1>6, <1>7

LEMMA SameAfter ==
  /\ \A x, i : W!After(x, i) = WP!After(x, i)
  /\ \A x : W!InOrder(x) <=> WP!InOrder(x)
BY DEF W!After, WP!After, W!Header, WP!Header, W!InOrder, WP!InOrder, W!IsRun, WP!IsRun

LEMMA WriterAssumed == WP!BlockOutputAssumption
<1>1. \A n \in 0..MaxBytes : Compressed(n) \subseteq 1..WP!maxCompressedLength(n)
  BY WriterAssumption DEF W!maxCompressedLength, WP!maxCompressedLength
<1> QED
  BY <1>1, WriterAssumption DEF WP!BlockOutputAssumption

\* The promise is kept: it is the number of bytes in some of the items that out received.
Kept ==
    promised \in Nat /\ \E i \in 0..Len(o.sink) : promised = W!After(o.sink, i) - 1

LEMMA WriterStarts ==
  ASSUME W!Init
  PROVE  WP!BInv /\ (promised = 0 => Kept)
<1>1. WP!BInv
  BY SameSteps, WriterAssumed, WP!Starts
<1>2. o.sink = << >> /\ Len(o.sink) = 0
  BY DEF W!Init, W!Empty
<1>3. 0 = W!After(o.sink, 0) - 1 /\ 0 \in 0..Len(o.sink) /\ 0 \in Nat
  BY <1>2 DEF W!After
<1> QED
  BY <1>1, <1>3, Zenon DEF Kept

\* A step of the writer.
LEMMA WriteStep ==
  ASSUME WP!BInv, Kept, Write
  PROVE  WP!BInv' /\ Kept'
<1>1. WP!Next
  <2>1. (\E n \in WriteSizes : WP!write(n)) \/ WP!rawWrite \/ WP!writeByte \/ WP!flush
        \/ WP!close \/ WP!Refused
    BY SameSteps DEF Write
  <2> QED
    BY <2>1 DEF WP!Next
<1>2. WP!BInv'
  BY <1>1, WriterAssumed, WP!BInvStep
<1>3. o.sink \in Seq(Seq(Nat)) /\ \E x \in Seq(Seq(Nat)) : o'.sink = o.sink \o x
  <2>1. o.sink \in Seq(WP!Items) /\ WP!Further(o, o')
    BY <1>1, WriterAssumed, WP!SinkGrows
  <2> QED
    BY <2>1 DEF WP!Items, WP!Further
<1>4. CASE (W!flush \/ (W!close /\ ~closed)) /\ wraised' = "none" /\ promised' = accepted
  <2>1. ~closed /\ (WP!flush \/ WP!close)
    BY <1>4, SameSteps DEF W!flush
  <2>2. accepted = WP!After(o'.sink, Len(o'.sink)) - 1
    BY <1>4, <2>1, WriterAssumed, WP!FlushSends
  <2>3. accepted = W!After(o'.sink, Len(o'.sink)) - 1
    BY <2>2, SameAfter
  <2>4. accepted \in Nat
    BY DEF WP!BInv, WP!Fields
  <2>5. Len(o'.sink) \in 0..Len(o'.sink)
    <3>1. PICK x \in Seq(Seq(Nat)) : o'.sink = o.sink \o x
      BY <1>3
    <3>2. o.sink \o x \in Seq(Seq(Nat))
      BY <1>3
    <3> QED
      BY <3>1, <3>2
  <2> QED
    BY <1>2, <1>4, <2>3, <2>4, <2>5, Zenon DEF Kept
<1>5. CASE UNCHANGED promised
  <2>1. PICK i \in 0..Len(o.sink) : promised = W!After(o.sink, i) - 1
    BY DEF Kept
  <2>2. PICK x \in Seq(Seq(Nat)) : o'.sink = o.sink \o x
    BY <1>3
  <2>3. PICK q \in Seq(Seq(Nat)) : q = o.sink
    BY <1>3
  <2>4. PICK r : r = q \o x
    OBVIOUS
  <2>5. /\ Len(q) \in Nat /\ Len(r) \in Nat /\ Len(q) <= Len(r)
        /\ \A j \in 1..Len(q) : r[j] = q[j]
    BY <2>4
  <2>6. i \in 0..Len(r) /\ W!After(r, i) = W!After(q, i)
    BY <2>1, <2>3, <2>5 DEF W!After
  <2>7. o'.sink = r /\ promised = W!After(r, i) - 1
    BY <2>1, <2>2, <2>3, <2>4, <2>6
  <2> QED
    BY <1>2, <1>5, <2>6, <2>7, Zenon DEF Kept
<1> QED
  BY <1>4, <1>5 DEF Write

\* What out received of the writer.
LEMMA WriterMade ==
  ASSUME WP!BInv, Kept
  PROVE  /\ Made(o.sink)
         /\ \E k \in promised..MaxBytes : W!After(o.sink, Len(o.sink)) = k + 1
<1>1. /\ hadoop = FALSE /\ accepted \in Nat /\ accepted <= MaxBytes /\ MaxBytes \in Nat
      /\ promised \in Nat
  <2>1. hadoop \in {FALSE} /\ accepted \in Nat /\ todo \in Nat /\ accepted + todo <= MaxBytes
    BY DEF WP!BInv, WP!Fields
  <2> QED
    BY <2>1, WriterAssumption DEF Kept
<1>2. WP!Begun(hadoop, o, accepted)
  <2>1. CASE closed
    BY <2>1 DEF WP!BInv
  <2>2. CASE ~closed
    BY <1>1, <2>2, WriterAssumed, WP!SoundBegun DEF WP!BInv
  <2> QED
    BY <2>1, <2>2
<1>3. o.sink \in Seq(Seq(Nat))
  BY DEF WP!BInv, WP!Sound, WP!Side, WP!Left, WP!OutputSide, WP!Items
<1>4. PICK y \in Seq(Seq(Nat)), m \in 0..accepted : WP!Streamed(hadoop, o.sink \o y, m)
  BY <1>2 DEF WP!Begun, WP!Items
<1>5. PICK q \in Seq(Seq(Nat)) : q = o.sink
  BY <1>3
<1>6. PICK r : r = q \o y
  OBVIOUS
<1>7. /\ r \in Seq(Seq(Nat)) /\ Len(q) \in Nat /\ Len(r) \in Nat /\ Len(q) <= Len(r)
      /\ \A j \in 1..Len(q) : r[j] = q[j]
  <2>1. /\ r \in Seq(Seq(Nat)) /\ Len(q) \in Nat /\ Len(y) \in Nat /\ Len(r) = Len(q) + Len(y)
        /\ \A j \in 1..Len(q) : r[j] = q[j]
    BY <1>6, WriterAssumed, WP!Joined
  <2> QED
    BY <2>1
<1>8. WP!InOrder(r) /\ WP!Headed(FALSE, r) /\ WP!After(r, Len(r)) = m + 1
  BY <1>1, <1>4, <1>5, <1>6 DEF WP!Streamed
<1>9. Made(r)
  BY <1>7, <1>8, SameAfter DEF Made, WP!Headed, WP!Header
<1>10. \A i \in 0..Len(q) : W!After(r, i) = W!After(q, i)
  BY <1>7 DEF W!After
<1>11. Made(q)
  <2>1. \A i \in 1..Len(q) : (q[i] = << >>) <=> i = 1
    <3>1. SUFFICES ASSUME NEW i \in 1..Len(q) PROVE (q[i] = << >>) <=> i = 1
      OBVIOUS
    <3>2. i \in 1..Len(r) /\ r[i] = q[i]
      BY <1>7
    <3>3. (r[i] = << >>) <=> i = 1
      BY <1>9, <3>2 DEF Made
    <3> QED
      BY <3>2, <3>3
  <2>2. \A i \in 1..Len(q) : W!IsRun(q[i], W!After(q, i - 1))
    <3>1. SUFFICES ASSUME NEW i \in 1..Len(q) PROVE W!IsRun(q[i], W!After(q, i - 1))
      OBVIOUS
    <3>2. i \in 1..Len(r) /\ i - 1 \in 0..Len(q)
      BY <1>7
    <3>3. W!IsRun(r[i], W!After(r, i - 1))
      BY <1>9, <3>2 DEF Made, W!InOrder
    <3>4. r[i] = q[i] /\ W!After(r, i - 1) = W!After(q, i - 1)
      BY <1>7, <1>10, <3>2
    <3> QED
      BY <3>3, <3>4
  <2> QED
    BY <2>1, <2>2 DEF Made, W!InOrder
<1>12. PICK i \in 0..Len(q) : promised = W!After(q, i) - 1
  BY <1>5 DEF Kept
<1>13. /\ W!After(q, i) \in Nat /\ W!After(q, Len(q)) \in Nat /\ W!After(q, Len(q)) >= 1
       /\ W!After(q, i) <= W!After(q, Len(q))
  <2>1. Len(q) \in 0..Len(q) /\ i \in 0..Len(q)
    BY <1>7
  <2>2. /\ W!After(q, i) \in Nat /\ W!After(q, Len(q)) \in Nat /\ W!After(q, i) >= 1
        /\ W!After(q, i) <= W!After(q, Len(q))
    BY <1>11, <2>1, AfterGrows
  <2> QED
    BY <2>2
<1>14. W!After(q, Len(q)) <= m + 1
  <2>1. Len(r) \in 0..Len(r) /\ Len(q) \in 0..Len(r) /\ Len(q) \in 0..Len(q)
    BY <1>7
  <2>2. W!After(r, Len(q)) <= W!After(r, Len(r))
    BY <1>9, <2>1, AfterGrows
  <2>3. W!After(r, Len(r)) = m + 1
    BY <1>8, SameAfter
  <2> QED
    BY <1>10, <2>1, <2>2, <2>3
<1>15. PICK k \in Nat : W!After(q, Len(q)) = k + 1
  <2>1. PICK a \in Nat : a = W!After(q, Len(q)) /\ a >= 1
    BY <1>13
  <2>2. a - 1 \in Nat /\ a = (a - 1) + 1
    BY <2>1
  <2> QED
    BY <2>1, <2>2
<1>16. k \in promised..MaxBytes
  BY <1>1, <1>12, <1>13, <1>14, <1>15
<1> QED
  BY <1>5, <1>11, <1>15, <1>16

-----------------------------------------------------------------------------
(* The writer and the reader.                                              *)

\* What the reader gets are the first bytes, those that were promised among them.
Sent ==
    /\ promised \in Nat
    /\ \E k \in promised..MaxBytes : PayloadOf(src, Len(src)) = Numbers(k)

\* The writer has its invariant and the promise until it is given up; the reader has its own,
\* and what it reads was made by the writer.
PipeInv ==
    /\ pc = "none" => Fresh /\ WP!BInv /\ Kept
    /\ pc # "none" => /\ IInv
                      /\ promised # NULL => Clean(src) /\ Sent /\ (~inClosed => Calm)

LEMMA PipeStarts == PipeInit => PipeInv
<1> SUFFICES ASSUME PipeInit PROVE PipeInv
  OBVIOUS
<1>1. W!Init
  BY DEF PipeInit
<1>2. CASE Init /\ promised = NULL
  BY <1>2, InitIInv DEF PipeInv, Init
<1>3. CASE pc = "none" /\ Fresh /\ promised = 0
  BY <1>1, <1>3, WriterStarts DEF PipeInv
<1> QED
  BY <1>2, <1>3 DEF PipeInit

\* A reader is made for what out received.
LEMMA OpenStep ==
  ASSUME PipeInv, Open
  PROVE  PipeInv'
<1>1. Fresh /\ WP!BInv /\ Kept /\ pc' = "header" /\ promised' = promised
  BY DEF PipeInv, Open
<1>2. PICK q, s : q = o.sink /\ s = src'
  OBVIOUS
<1>3. Made(q) /\ \E k \in promised..MaxBytes : W!After(q, Len(q)) = k + 1
  BY <1>1, <1>2, WriterMade
<1>4. Wired(q, s)
  BY <1>2 DEF Open, Wired
<1>5. Clean(s) /\ GoodStream(s) /\ Len(s) = Len(q) /\ Len(q) \in Nat
  BY <1>3, <1>4, WiredClean DEF Made
<1>6. \E k \in promised..MaxBytes : PayloadOf(s, Len(s)) = Numbers(k)
  <2>1. PICK k \in promised..MaxBytes : W!After(q, Len(q)) = k + 1
    BY <1>3
  <2>2. k \in Int /\ (k + 1) - 1 = k
    BY <2>1
  <2>3. Len(q) \in 0..Len(q)
    BY <1>5
  <2>4. Counted(q, s, Len(q))
    BY <1>3, <1>4, <2>3, WiredCounted
  <2>5. PayloadOf(s, Len(s)) = Numbers(k)
    BY <1>5, <2>1, <2>2, <2>4 DEF Counted
  <2> QED
    BY <2>5
<1>7. Fresh'
  BY <1>1 DEF Open, Fresh, callVars, ghostVars
<1>8. GoodStream(src)' /\ (present \in Cuts(src))'
  BY <1>2, <1>5 DEF Open
<1>9. IInv'
  <2>1. (GoodStream(src) /\ present \in Cuts(src) /\ Fresh /\ pc = "header" => IInv)'
    BY FreshIInv, PTL
  <2> QED
    BY <1>1, <1>7, <1>8, <2>1
<1>10. Calm'
  BY <1>1, <1>7 DEF Calm, Fresh
<1>11. Clean(src)' /\ Sent'
  BY <1>1, <1>2, <1>5, <1>6 DEF Sent, Kept
<1> QED
  BY <1>1, <1>9, <1>10, <1>11 DEF PipeInv

LEMMA PipeStep == PipeInv /\ [PipeNext]_pipeVars => PipeInv'
<1> SUFFICES ASSUME PipeInv, [PipeNext]_pipeVars PROVE PipeInv'
  OBVIOUS
<1>1. CASE Write
  <2>1. pc = "none" /\ pc' = "none" /\ Fresh /\ WP!BInv /\ Kept
    BY <1>1 DEF Write, PipeInv, vars
  <2>2. WP!BInv' /\ Kept'
    BY <1>1, <2>1, WriteStep
  <2>3. Fresh'
    BY <1>1, <2>1 DEF Write, Fresh, vars, inVars, callVars, ghostVars
  <2> QED
    BY <2>1, <2>2, <2>3 DEF PipeInv
<1>2. CASE Open
  BY <1>2, OpenStep
<1>3. CASE pc # "none" /\ [Next]_vars /\ promised' = promised
  <2>1. IInv /\ (promised # NULL => Clean(src) /\ Sent /\ (~inClosed => Calm))
    BY <1>3 DEF PipeInv
  <2>2. IInv'
    BY <1>3, <2>1, IInvStep
  <2>3. pc' # "none"
    BY <2>2 DEF IInv, Typed, Calls, Chunk
  <2>4. ASSUME promised # NULL
        PROVE  Clean(src)' /\ Sent' /\ (~inClosed => Calm)'
    <3>1. (~inClosed => Calm)' /\ src' = src
      BY <1>3, <2>1, <2>4, CalmStep
    <3> QED
      BY <1>3, <2>1, <2>4, <3>1 DEF Sent
  <2> QED
    BY <1>3, <2>2, <2>3, <2>4 DEF PipeInv
<1>4. CASE pc = "none" /\ UNCHANGED pipeVars
  <2>1. UNCHANGED <<vars, writer, promised>>
    BY <1>4 DEF pipeVars
  <2>2. Fresh' /\ pc' = pc
    BY <1>4, <2>1 DEF PipeInv, Fresh, vars, inVars, callVars, ghostVars
  <2>3. WP!BInv'
    <3>1. UNCHANGED WP!vars
      BY <2>1 DEF writer, WP!vars
    <3> QED
      BY <1>4, <3>1, WriterAssumed, WP!BInvStep DEF PipeInv
  <2>4. Kept'
    BY <1>4, <2>1 DEF PipeInv, Kept, writer
  <2> QED
    BY <1>4, <2>2, <2>3, <2>4 DEF PipeInv
<1> QED
  BY <1>1, <1>2, <1>3, <1>4 DEF PipeNext, Read, pipeVars

\* What was promised comes out.
LEMMA PipeRoundTrip == PipeInv => RoundTrip
<1> SUFFICES ASSUME PipeInv, promised # NULL, pc # "none", ~inClosed
             PROVE  /\ IsPrefix(delivered \o written, Numbers(MaxBytes))
                    /\ failed => Truncated \/ (src = << >> /\ promised = 0)
                    /\ ~Truncated /\ eof => Len(delivered) >= promised
  BY DEF RoundTrip
<1>1. IInv /\ Clean(src) /\ Calm
  BY DEF PipeInv
<1>2. PICK k \in promised..MaxBytes : PayloadOf(src, Len(src)) = Numbers(k)
  BY DEF PipeInv, Sent
<1>3. MaxBytes \in Nat /\ promised \in Nat /\ k \in Nat /\ k <= MaxBytes /\ promised <= k
  BY <1>2, WriterAssumption DEF PipeInv, Sent
<1>4. /\ src \in Seq(Items) /\ Len(src) \in Nat /\ Complete \in 0..Len(src)
      /\ delivered \in Seq(Nat) /\ written \in Seq(Nat)
  <2>1. Len(src) \in Nat /\ src \in Seq(Items) /\ (src # << >> => Len(src) > 0)
    BY <1>1, StreamFacts DEF IInv
  <2> QED
    BY <1>1, <2>1 DEF IInv, Typed, Complete, Truncated
<1>5. PICK c \in 0..Len(src) : c = Complete
  BY <1>4
<1>6. PICK part \in Seq(Nat) : part = PayloadOf(src, c)
  BY <1>4, <1>5, PayloadType
<1>7. Begins(part, Numbers(k))
  <2>1. Len(src) \in 0..Len(src)
    BY <1>4
  <2>2. Begins(PayloadOf(src, c), PayloadOf(src, Len(src)))
    BY <1>4, <1>5, <2>1, PayloadGrows
  <2> QED
    BY <1>2, <1>6, <2>2
<1>8. PICK p \in Seq(Nat) : p = Numbers(k) /\ Len(p) = k /\ \A i \in 1..k : p[i] = i
  BY <1>3, NumbersAre
<1>9. PICK q \in Seq(Nat) : q = Numbers(MaxBytes) /\ Len(q) = MaxBytes /\ \A i \in 1..MaxBytes : q[i] = i
  BY <1>3, NumbersAre
<1>10. PICK out \in Seq(Nat) : out = delivered \o written
  BY <1>4, AppendType
<1>11. Begins(out, part)
  <2>1. CASE failed
    <3>1. Begins(delivered, part) /\ written = << >>
      BY <1>1, <1>5, <1>6, <2>1 DEF Calm, Stopped
    <3>2. out = delivered
      BY <1>4, <1>10, <3>1, AppendNone
    <3> QED
      BY <3>1, <3>2
  <2>2. CASE ~failed
    BY <1>1, <1>5, <1>6, <1>10, <2>2, OutBegins
  <2> QED
    BY <2>1, <2>2
<1>12. Begins(out, q)
  <2>1. Begins(part, p)
    BY <1>7, <1>8
  <2>2. Len(out) <= Len(part) /\ Len(part) <= Len(p) /\ Len(p) <= Len(q)
    BY <1>3, <1>8, <1>9, <1>11, <2>1 DEF Begins
  <2>3. ASSUME NEW i \in 1..Len(out) PROVE q[i] = out[i]
    <3>1. i \in 1..Len(part) /\ i \in 1..Len(p) /\ i \in 1..Len(q)
      BY <2>2
    <3>2. part[i] = out[i] /\ p[i] = part[i]
      BY <1>11, <2>1, <3>1 DEF Begins
    <3> QED
      BY <1>8, <1>9, <3>1, <3>2
  <2> QED
    BY <2>2, <2>3 DEF Begins
<1>13. IsPrefix(delivered \o written, Numbers(MaxBytes))
  BY <1>9, <1>10, <1>12, BeginsIsPrefix
<1>14. src = << >> => promised = 0
  <2> SUFFICES ASSUME src = << >> PROVE promised = 0
    OBVIOUS
  <2>1. Len(src) = 0 /\ PayloadOf(src, 0) = << >>
    BY PayloadStep
  <2>2. p = << >>
    BY <1>2, <1>8, <2>1
  <2>3. k = 0
    BY <1>3, <1>8, <2>2
  <2> QED
    BY <1>3, <2>3
<1>15. failed => Truncated \/ (src = << >> /\ promised = 0)
  BY <1>1, <1>14 DEF Calm, Stopped
<1>16. ASSUME ~Truncated, eof
       PROVE  Len(delivered) >= promised
  <2>1. CASE failed
    BY <1>3, <1>4, <1>14, <1>15, <1>16, <2>1
  <2>2. CASE ~failed
    <3>1. \A i \in 1..Len(src) : src[i].kind # "badMagic"
      BY <1>1 DEF Clean
    <3>2. delivered = Payload(Complete) /\ Complete = Len(src)
      BY <1>1, <1>16, <2>2, <3>1, IInvEofMeansAll DEF EofMeansAll, Complete
    <3>3. delivered = p
      BY <1>2, <1>8, <3>2, PayloadIs
    <3> QED
      BY <1>3, <1>8, <3>3
  <2> QED
    BY <2>1, <2>2
<1> QED
  BY <1>13, <1>15, <1>16

\* However a SnappyOutputStream of any block size is used, whatever had failed below it and been
\* retried, and wherever it was given up, a SnappyInputStream gets the bytes before the last
\* flush or close that returned normally, in order, before it returns -1, and throws only where
\* the output lost its end.
THEOREM RoundTripAlways == PipeSpec => []RoundTrip
<1>1. PipeInit => PipeInv
  BY PipeStarts
<1>2. PipeInv /\ [PipeNext]_pipeVars => PipeInv'
  BY PipeStep
<1>3. PipeInv => RoundTrip
  BY PipeRoundTrip
<1> QED
  BY <1>1, <1>2, <1>3, PTL DEF PipeSpec
=============================================================================
