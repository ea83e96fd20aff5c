-------------------------- MODULE BlockOutputProofs --------------------------
(***************************************************************************)
(* SnappyOutputStream and SnappyHadoopCompatibleOutputStream, for every    *)
(* block size, any compressed sizes within Snappy's bound and any number   *)
(* of bytes: TypeOK and Conservation are invariants, and RoomForBlock is   *)
(* one when the block size is at least MIN_BLOCK_SIZE.                     *)
(*                                                                         *)
(* A call moves the two buffers several times, so what holds of them is    *)
(* stated of values: s for the output side, d for the bytes in inputBuffer *)
(* and n for the number of bytes taken.                                    *)
(***************************************************************************)
EXTENDS BlockOutput, TLAPS

\* The header of the stream comes first, and nothing else is an empty item.
Headed(h, x) == \A i \in 1..Len(x) : (x[i] = Header) <=> (i = 1 /\ ~h)

\* The items x are the bytes from 1 to m, each once.
Streamed(h, x, m) == InOrder(x) /\ Headed(h, x) /\ After(x, Len(x)) = m + 1

\* The cursor tells whether outputBuffer holds anything, and the header is the first
\* thing to go into it.
Side(h, s) ==
    /\ s \in OutputSide
    /\ s.cursor = 0 <=> s.buffered = << >>
    /\ ~s.headerWritten => s.sink = << >> /\ s.buffered = << >>
    /\ s.headerWritten /\ ~h => s.sink \o s.buffered # << >>

\* What the last call of compress needed, and how far outputBuffer is filled.
Slack(h) == IF h THEN 4 ELSE 1
Fits(h, s) == s.need < s.room + Slack(h) /\ s.cursor < outputSize + Slack(h)

\* A stream that took n bytes, of which d are in inputBuffer.
Sound(h, s, d, n) ==
    /\ Side(h, s) /\ Fits(h, s)
    /\ d \in Seq(Nat) /\ Len(d) <= BlockSize /\ Len(d) <= n
    /\ Streamed(h, s.sink \o s.buffered, n - Len(d))
    /\ IsRun(d, n - Len(d) + 1)

\* What close leaves behind: the items out received.
Left(h, s) ==
    /\ s \in OutputSide /\ Fits(h, s)
    /\ s.buffered = << >> /\ InOrder(s.sink) /\ Headed(h, s.sink)

\* What out received is the beginning of what a stream made that took up to n bytes.
Begun(h, s, n) == \E y \in Seq(Items), m \in 0..n : Streamed(h, s.sink \o y, m)

\* Out received more, or nothing.
Further(s, t) == \E x \in Seq(Items) : t.sink = s.sink \o x

\* The fields of the stream.
Fields ==
    /\ hadoop \in Kinds /\ input \in Seq(Nat)
    /\ closed \in BOOLEAN /\ outClosed \in BOOLEAN
    /\ released = IF closed THEN 1 ELSE 0
    /\ accepted \in Nat /\ todo \in Nat /\ accepted + todo <= MaxBytes
    /\ pc \in {"idle", "write"} /\ raised \in {"none", "io", "closed", "bounds"}
    /\ pc = "write" => ~closed
    /\ pc = "idle" => todo = 0

\* inputBuffer is large enough when the constructor got a block size that it kept.
InBounds == BlockSize >= MIN_BLOCK_SIZE => raised # "bounds"

BInv ==
    /\ Fields /\ InBounds
    /\ ~closed => Sound(hadoop, o, input, accepted)
    /\ closed => Left(hadoop, o) /\ Begun(hadoop, o, accepted)
    /\ outClosed => closed /\ accepted = After(o.sink, Len(o.sink)) - 1
-----------------------------------------------------------------------------
(* Sequences.                                                              *)

LEMMA Appended ==
    ASSUME NEW S, NEW q \in Seq(S), NEW x \in S
    PROVE  /\ Append(q, x) \in Seq(S) /\ Append(q, x) # << >>
           /\ Len(q) \in Nat /\ Len(Append(q, x)) = Len(q) + 1
           /\ \A i \in 1..Len(q) : Append(q, x)[i] = q[i]
           /\ Append(q, x)[Len(q) + 1] = x
  OBVIOUS

LEMMA Joined ==
    ASSUME NEW S, NEW q \in Seq(S), NEW u \in Seq(S)
    PROVE  /\ q \o u \in Seq(S)
           /\ Len(q) \in Nat /\ Len(u) \in Nat /\ Len(q \o u) = Len(q) + Len(u)
           /\ \A i \in 1..Len(q) : (q \o u)[i] = q[i]
           /\ \A i \in 1..Len(u) : (q \o u)[Len(q) + i] = u[i]
  OBVIOUS

LEMMA NumbersJoined ==
    ASSUME NEW d \in Seq(Nat), NEW e \in Seq(Nat)
    PROVE  /\ d \o e \in Seq(Nat) /\ Len(d \o e) = Len(d) + Len(e)
           /\ \A i \in 1..Len(d) : (d \o e)[i] = d[i]
           /\ \A i \in 1..Len(e) : (d \o e)[Len(d) + i] = e[i]
  BY Joined

\* What goes behind the buffered items goes behind all of them.
LEMMA JoinedAppend ==
    ASSUME NEW S, NEW q \in Seq(S), NEW u \in Seq(S), NEW x \in S
    PROVE  q \o Append(u, x) = Append(q \o u, x)
  OBVIOUS

LEMMA ItemAppended ==
    ASSUME NEW u \in Seq(Items), NEW x \in Items
    PROVE  Append(u, x) # << >> /\ Append(u, x) \in Seq(Items)
  BY Appended

LEMMA ItemsAppend ==
    ASSUME NEW q \in Seq(Items), NEW u \in Seq(Items), NEW x \in Items
    PROVE  q \o Append(u, x) = Append(q \o u, x)
  BY JoinedAppend

\* outputBuffer is empty after a dump.
LEMMA JoinedEmpty ==
    ASSUME NEW S, NEW q \in Seq(S)
    PROVE  q \o << >> = q
  OBVIOUS

\* Sending nothing, and sending twice.
LEMMA FurtherSame ==
    ASSUME NEW s, NEW t, s.sink \in Seq(Items), t.sink = s.sink
    PROVE  Further(s, t)
<1>1. PICK e : e = << >> /\ e \in Seq(Items)
  <2>1. << >> \in Seq(Items)
    OBVIOUS
  <2> QED
    BY <2>1, Zenon
<1>2. s.sink \o e = s.sink
  BY <1>1, JoinedEmpty, Zenon
<1> QED
  BY <1>1, <1>2, Zenon DEF Further

LEMMA JoinedTwice ==
    ASSUME NEW S, NEW q \in Seq(S), NEW u \in Seq(S), NEW v \in Seq(S)
    PROVE  u \o v \in Seq(S) /\ (q \o u) \o v = q \o (u \o v)
  OBVIOUS

LEMMA FurtherTwice ==
    ASSUME NEW s, NEW t, NEW u, s.sink \in Seq(Items), Further(s, t), Further(t, u)
    PROVE  Further(s, u)
<1>1. PICK x \in Seq(Items) : t.sink = s.sink \o x
  BY Zenon DEF Further
<1>2. PICK y \in Seq(Items) : u.sink = t.sink \o y
  BY Zenon DEF Further
<1>3. x \o y \in Seq(Items) /\ (s.sink \o x) \o y = s.sink \o (x \o y)
  <2>1. PICK q \in Seq(Items) : q = s.sink
    OBVIOUS
  <2>2. x \o y \in Seq(Items) /\ (q \o x) \o y = q \o (x \o y)
    BY JoinedTwice
  <2> QED
    BY <2>1, <2>2, Zenon
<1>4. u.sink = s.sink \o (x \o y)
  BY <1>1, <1>2, <1>3, Zenon
<1> QED
  BY <1>3, <1>4, Zenon DEF Further

\* A block goes behind the others.
LEMMA StreamedAppend ==
    ASSUME NEW h \in BOOLEAN, NEW x \in Seq(Items), NEW d \in Seq(Nat), NEW m \in Nat,
           d # << >>, Streamed(h, x, m), IsRun(d, m + 1), ~h => x # << >>
    PROVE  Streamed(h, Append(x, d), m + Len(d))
<1>1. d \in Items
  BY DEF Items
<1>2. PICK y : y = Append(x, d)
  OBVIOUS
<1>3. PICK k \in Nat : k = Len(x)
  OBVIOUS
<1>4. /\ Len(y) = k + 1
      /\ \A i \in 1..k : y[i] = x[i]
      /\ y[k + 1] = d
  BY <1>1, <1>2, <1>3, Appended
<1>5. \A i \in 0..k : After(y, i) = After(x, i)
  BY <1>4 DEF After
<1>6. After(x, k) = m + 1
  BY <1>3 DEF Streamed
<1>7. InOrder(y)
  <2>1. SUFFICES ASSUME NEW i \in 1..Len(y)
                 PROVE  IsRun(y[i], After(y, i - 1))
    BY DEF InOrder
  <2>2. CASE i \in 1..k
    <3>1. IsRun(x[i], After(x, i - 1))
      BY <1>3, <2>2 DEF Streamed, InOrder
    <3>2. i - 1 \in 0..k
      BY <2>2
    <3>3. y[i] = x[i] /\ After(y, i - 1) = After(x, i - 1)
      BY <1>4, <1>5, <2>2, <3>2
    <3> QED
      BY <3>1, <3>3
  <2>3. CASE i = k + 1
    <3>1. i - 1 = k /\ k \in 0..k
      BY <2>3
    <3>2. y[i] = d /\ After(y, i - 1) = m + 1
      BY <1>4, <1>5, <1>6, <2>3, <3>1
    <3> QED
      BY <3>2
  <2> QED
    BY <1>4, <2>2, <2>3
<1>8. Headed(h, y)
  <2>1. SUFFICES ASSUME NEW i \in 1..Len(y)
                 PROVE  (y[i] = Header) <=> (i = 1 /\ ~h)
    BY DEF Headed
  <2>2. CASE i \in 1..k
    BY <1>3, <1>4, <2>2 DEF Streamed, Headed
  <2>3. CASE i = k + 1
    <3>1. ~h => k >= 1
      BY <1>3
    <3>2. y[i] # Header
      BY <1>4, <2>3 DEF Header
    <3> QED
      BY <2>3, <3>1, <3>2
  <2> QED
    BY <1>4, <2>2, <2>3
<1>9. After(y, Len(y)) = m + Len(d) + 1
  <2>1. Len(d) \in Nat /\ Len(d) >= 1 /\ d[Len(d)] = m + Len(d)
    BY DEF IsRun
  <2> QED
    BY <1>4, <2>1 DEF After, Header
<1>10. Streamed(h, y, m + Len(d))
  BY <1>7, <1>8, <1>9 DEF Streamed
<1> QED
  BY <1>2, <1>10

\* What out received of a stream is in order as well.
LEMMA Prefix ==
    ASSUME NEW h \in BOOLEAN, NEW q \in Seq(Items), NEW u \in Seq(Items),
           InOrder(q \o u), Headed(h, q \o u)
    PROVE  InOrder(q) /\ Headed(h, q)
<1>1. PICK y : y = q \o u
  OBVIOUS
<1>2. PICK k \in Nat : k = Len(q)
  OBVIOUS
<1>3. k <= Len(y) /\ Len(y) \in Nat /\ \A i \in 1..k : y[i] = q[i]
  BY <1>1, <1>2, Joined
<1>4. \A i \in 0..k : After(y, i) = After(q, i)
  BY <1>3 DEF After
<1>5. \A i \in 1..k : i - 1 \in 0..k /\ i \in 1..Len(y)
  BY <1>3
<1>6. InOrder(q)
  <2>1. \A i \in 1..k : IsRun(y[i], After(y, i - 1))
    BY <1>1, <1>5 DEF InOrder
  <2>2. \A i \in 1..k : IsRun(q[i], After(q, i - 1))
    BY <1>3, <1>4, <1>5, <2>1, Zenon
  <2> QED
    BY <1>2, <2>2 DEF InOrder
<1>7. Headed(h, q)
  BY <1>1, <1>2, <1>3, <1>5 DEF Headed
<1> QED
  BY <1>6, <1>7

\* The header, or nothing.
LEMMA StreamedHeader ==
    ASSUME NEW h \in BOOLEAN, NEW x, x = IF h THEN << >> ELSE <<Header>>
    PROVE  Streamed(h, x, 0)
<1>1. CASE h
  <2>1. x = << >> /\ Len(x) = 0
    BY <1>1
  <2> QED
    BY <2>1 DEF Streamed, InOrder, Headed, After
<1>2. CASE ~h
  <2>1. x = <<Header>> /\ Len(x) = 1 /\ x[1] = Header
    BY <1>2
  <2>2. \A i \in 1..Len(x) : i = 1
    BY <2>1
  <2>3. Len(Header) = 0
    BY DEF Header
  <2>4. InOrder(x)
    BY <2>1, <2>2, <2>3 DEF InOrder, IsRun
  <2>5. Headed(h, x) /\ After(x, Len(x)) = 1
    BY <1>2, <2>1, <2>2 DEF Headed, After
  <2> QED
    BY <2>4, <2>5 DEF Streamed
<1> QED
  BY <1>1, <1>2
-----------------------------------------------------------------------------
(* Sizes.                                                                  *)

LEMMA Sizes ==
    /\ BlockSize \in Nat /\ BlockSize >= 1 /\ MIN_BLOCK_SIZE \in Nat /\ MaxBytes \in Nat
    /\ inputSize = BlockSize /\ outputSize = 20 + maxCompressedLength(BlockSize)
    /\ blockSize \in Nat /\ blockSize >= BlockSize
    /\ BlockSize >= MIN_BLOCK_SIZE => blockSize = BlockSize
  BY BlockOutputAssumption DEF inputSize, outputSize, blockSize, HEADER_SIZE, maxCompressedLength

\* A shorter input needs no more room.
LEMMA LengthGrows ==
    ASSUME NEW n \in Nat, NEW m \in Nat, n <= m
    PROVE  /\ maxCompressedLength(n) \in Nat /\ maxCompressedLength(n) >= 1
           /\ maxCompressedLength(n) <= maxCompressedLength(m)
  BY DEF maxCompressedLength

LEMMA CompressedSize ==
    ASSUME NEW n \in 0..MaxBytes, NEW c \in Compressed(n)
    PROVE  c \in Nat /\ c >= 1 /\ c <= maxCompressedLength(n)
<1>1. n \in Nat
  BY Sizes
<1>2. PICK m \in Nat : m = maxCompressedLength(n)
  BY <1>1, LengthGrows
<1>3. c \in 1..m
  BY <1>2, BlockOutputAssumption
<1> QED
  BY <1>2, <1>3
-----------------------------------------------------------------------------
(* writeHeader, dumpOutput and a block.                                    *)

LEMMA Pieces ==
    ASSUME NEW h, NEW s, NEW d, NEW n \in Nat, Sound(h, s, d, n)
    PROVE  /\ s.buffered \in Seq(Items) /\ s.sink \in Seq(Items) /\ s.cursor \in Nat
           /\ s.headerWritten \in BOOLEAN /\ s.need \in Int /\ s.room \in Int
           /\ d \in Seq(Nat) /\ Len(d) \in Nat /\ n - Len(d) \in Nat /\ Len(d) <= BlockSize
  BY DEF Sound, Side, OutputSide

LEMMA HeaderFields ==
    ASSUME NEW s \in OutputSide, hadoop \in BOOLEAN
    PROVE  /\ writeHeader(s) \in OutputSide
           /\ writeHeader(s).sink = s.sink /\ writeHeader(s).headerWritten = TRUE
           /\ writeHeader(s).need = s.need /\ writeHeader(s).room = s.room
           /\ s.headerWritten => writeHeader(s) = s
           /\ ~s.headerWritten =>
                /\ writeHeader(s).buffered = (IF hadoop THEN << >> ELSE <<Header>>)
                /\ writeHeader(s).cursor = (IF hadoop THEN 0 ELSE HEADER_SIZE)
<1>1. CASE s.headerWritten
  <2>1. writeHeader(s) = s /\ s.headerWritten = TRUE
    BY <1>1 DEF writeHeader, OutputSide
  <2> QED
    BY <1>1, <2>1
<1>2. CASE ~s.headerWritten
  <2>1. PICK u : u = IF hadoop THEN << >> ELSE <<Header>>
    OBVIOUS
  <2>2. PICK c : c = IF hadoop THEN 0 ELSE HEADER_SIZE
    OBVIOUS
  <2>3. u \in Seq(Items) /\ c \in Nat
    <3>1. Header \in Items
      BY DEF Header, Items
    <3>2. << >> \in Seq(Items) /\ <<Header>> \in Seq(Items)
      BY <3>1
    <3> QED
      BY <2>1, <2>2, <3>2 DEF HEADER_SIZE
  <2>4. writeHeader(s) = [s EXCEPT !.buffered = u, !.cursor = c, !.headerWritten = TRUE]
    BY <1>2, <2>1, <2>2 DEF writeHeader
  <2>5. /\ writeHeader(s) \in OutputSide /\ writeHeader(s).buffered = u
        /\ writeHeader(s).cursor = c /\ writeHeader(s).headerWritten = TRUE
        /\ writeHeader(s).sink = s.sink /\ writeHeader(s).need = s.need
        /\ writeHeader(s).room = s.room
    BY <2>3, <2>4 DEF OutputSide
  <2> QED
    BY <1>2, <2>1, <2>2, <2>5
<1> QED
  BY <1>1, <1>2

LEMMA HeaderSound ==
    ASSUME hadoop \in BOOLEAN, NEW s, NEW d, NEW n \in Nat, Sound(hadoop, s, d, n)
    PROVE  Sound(hadoop, writeHeader(s), d, n) /\ writeHeader(s).headerWritten = TRUE
<1>1. s \in OutputSide
  BY DEF Sound, Side
<1>2. CASE s.headerWritten
  BY <1>1, <1>2, HeaderFields
<1>3. CASE ~s.headerWritten
  <2>1. PICK x : x = writeHeader(s)
    OBVIOUS
  <2>2. PICK u : u = IF hadoop THEN << >> ELSE <<Header>>
    OBVIOUS
  <2>3. /\ x \in OutputSide /\ x.sink = s.sink /\ x.headerWritten = TRUE /\ x.need = s.need
        /\ x.room = s.room /\ x.buffered = u /\ x.cursor = (IF hadoop THEN 0 ELSE HEADER_SIZE)
    BY <1>1, <1>3, <2>1, <2>2, HeaderFields
  <2>4. s.sink = << >> /\ s.buffered = << >>
    BY <1>3 DEF Sound, Side
  <2>5. n - Len(d) = 0
    <3>1. s.sink \o s.buffered = << >> /\ Len(<< >>) = 0
      BY <2>4
    <3>2. After(<< >>, 0) = n - Len(d) + 1
      BY <3>1 DEF Sound, Streamed
    <3>3. n - Len(d) \in Nat
      BY Pieces
    <3> QED
      BY <3>2, <3>3 DEF After
  <2>6. x.sink \o x.buffered = u
    <3>1. u \in Seq(Items)
      BY <2>3 DEF OutputSide
    <3> QED
      BY <2>3, <2>4, <3>1
  <2>7. Streamed(hadoop, u, 0)
    BY <2>2, StreamedHeader
  <2>8. Fits(hadoop, x)
    <3>1. maxCompressedLength(BlockSize) \in Nat
      BY Sizes, LengthGrows
    <3>2. s.need < s.room + Slack(hadoop)
      BY DEF Sound, Fits
    <3> QED
      BY <2>3, <3>1, <3>2, Sizes DEF Fits, Slack, HEADER_SIZE
  <2>9. Side(hadoop, x)
    <3>1. hadoop => u = << >> /\ x.cursor = 0
      BY <2>2, <2>3
    <3>2. ~hadoop => u # << >> /\ x.cursor # 0
      BY <2>2, <2>3 DEF HEADER_SIZE
    <3> QED
      BY <2>3, <2>6, <3>1, <3>2 DEF Side
  <2>10. Sound(hadoop, x, d, n)
    BY <2>5, <2>6, <2>7, <2>8, <2>9 DEF Sound
  <2> QED
    BY <2>1, <2>3, <2>10
<1> QED
  BY <1>2, <1>3

LEMMA ResultFields ==
    ASSUME NEW r, NEW x, NEW y, r = [s |-> x, ok |-> y]
    PROVE  r.s = x /\ r.ok = y
  OBVIOUS

\* A dump moves items from outputBuffer to out.
Dumped(x, s) == [s EXCEPT !.sink = @ \o x, !.buffered = << >>, !.cursor = 0]

LEMMA DumpedFields ==
    ASSUME NEW s \in OutputSide
    PROVE  /\ Dumped(s.buffered, s) \in OutputSide
           /\ Dumped(s.buffered, s).sink = s.sink \o s.buffered
           /\ Dumped(s.buffered, s).buffered = << >> /\ Dumped(s.buffered, s).cursor = 0
           /\ Dumped(s.buffered, s).headerWritten = s.headerWritten
           /\ Dumped(s.buffered, s).need = s.need /\ Dumped(s.buffered, s).room = s.room
<1>1. PICK q : q = s.sink \o s.buffered
  OBVIOUS
<1>2. q \in Seq(Items)
  <2>1. s.sink \in Seq(Items) /\ s.buffered \in Seq(Items)
    BY DEF OutputSide
  <2> QED
    BY <1>1, <2>1, Joined
<1>3. PICK e : e = << >> /\ e \in Seq(Items)
  <2>1. << >> \in Seq(Items)
    OBVIOUS
  <2> QED
    BY <2>1, Zenon
<1>4. PICK x : x = [s EXCEPT !.sink = q, !.buffered = e, !.cursor = 0]
  OBVIOUS
<1>5. /\ x \in OutputSide /\ x.sink = q /\ x.buffered = e /\ x.cursor = 0
      /\ x.headerWritten = s.headerWritten /\ x.need = s.need /\ x.room = s.room
  <2>1. e \in Seq(Items)
    BY <1>3
  <2> QED
    BY <1>2, <1>4, <2>1 DEF OutputSide
<1>6. Dumped(s.buffered, s) = x
  BY <1>1, <1>3, <1>4, Zenon DEF Dumped
<1> QED
  BY <1>1, <1>3, <1>5, <1>6, Zenon

LEMMA DumpSound ==
    ASSUME NEW h, NEW s, NEW d, NEW n \in Nat, Sound(h, s, d, n), NEW r \in dumpOutput(s)
    PROVE  /\ Sound(h, r.s, d, n) /\ r.ok \in BOOLEAN
           /\ r.s.headerWritten = s.headerWritten
           /\ r.ok => r.s.cursor = 0
           /\ Further(s, r.s)
<1>1. s \in OutputSide /\ s.cursor \in Nat /\ s.buffered \in Seq(Items) /\ s.sink \in Seq(Items)
  BY DEF Sound, Side, OutputSide
<1>2. CASE r = [s |-> Dumped(s.buffered, s), ok |-> TRUE]
  <2>1. PICK x : x = Dumped(s.buffered, s)
    OBVIOUS
  <2>2. r.s = x /\ r.ok = TRUE
    BY <1>2, <2>1, ResultFields, Zenon
  <2>3. /\ x \in OutputSide /\ x.sink = s.sink \o s.buffered
        /\ x.buffered = << >> /\ x.cursor = 0 /\ x.headerWritten = s.headerWritten
        /\ x.need = s.need /\ x.room = s.room
    BY <1>1, <2>1, DumpedFields
  <2>4. x.sink \o x.buffered = s.sink \o s.buffered
    <3>1. s.sink \o s.buffered \in Seq(Items)
      BY <1>1, Joined
    <3> QED
      BY <2>3, <3>1, JoinedEmpty, Zenon
  <2>5. Fits(h, x)
    <3>1. outputSize \in Nat /\ outputSize >= 1 /\ Slack(h) \in Nat /\ Slack(h) >= 1
      BY Sizes, LengthGrows DEF Slack
    <3> QED
      BY <2>3, <3>1 DEF Sound, Fits
  <2>6. Side(h, x)
    <3>1. /\ ~s.headerWritten => s.sink = << >> /\ s.buffered = << >>
          /\ s.headerWritten /\ ~h => s.sink \o s.buffered # << >>
      BY DEF Sound, Side
    <3>2. ~s.headerWritten => x.sink = << >>
      BY <2>3, <3>1
    <3> QED
      BY <2>3, <2>4, <3>1, <3>2 DEF Side
  <2>7. Sound(h, x, d, n)
    BY <2>4, <2>5, <2>6, Zenon DEF Sound
  <2>8. Further(s, x)
    BY <1>1, <2>3, Zenon DEF Further
  <2> QED
    BY <2>2, <2>3, <2>7, <2>8
<1>3. CASE r = [s |-> s, ok |-> FALSE]
  <2>1. r.s = s /\ r.ok = FALSE
    BY <1>3, ResultFields, Zenon
  <2> QED
    BY <1>1, <2>1, FurtherSame
<1>4. CASE s.cursor = 0 /\ r = [s |-> s, ok |-> TRUE]
  <2>1. r.s = s /\ r.ok = TRUE
    BY <1>4, ResultFields, Zenon
  <2> QED
    BY <1>1, <1>4, <2>1, FurtherSame
<1> QED
  BY <1>1, <1>2, <1>3, <1>4 DEF dumpOutput, Dumped

LEMMA BlockFields ==
    ASSUME NEW s \in OutputSide, hadoop \in BOOLEAN, NEW d \in Seq(Nat), NEW c \in Nat
    PROVE  /\ AppendBlock(s, d, c) \in OutputSide
           /\ AppendBlock(s, d, c).buffered = Append(s.buffered, d)
           /\ AppendBlock(s, d, c).cursor = s.cursor + Preamble + 4 + c
           /\ AppendBlock(s, d, c).need = maxCompressedLength(Len(d))
           /\ AppendBlock(s, d, c).room = outputSize - (s.cursor + Preamble + 4)
           /\ AppendBlock(s, d, c).sink = s.sink
           /\ AppendBlock(s, d, c).headerWritten = s.headerWritten
<1>1. PICK u : u = Append(s.buffered, d)
  OBVIOUS
<1>2. PICK k : k = s.cursor + Preamble + 4 + c
  OBVIOUS
<1>3. PICK need : need = maxCompressedLength(Len(d))
  OBVIOUS
<1>4. PICK room : room = outputSize - (s.cursor + Preamble + 4)
  OBVIOUS
<1>5. s.cursor \in Nat /\ s.buffered \in Seq(Items) /\ d \in Items
  BY DEF OutputSide, Items
<1>6. Preamble \in Nat /\ outputSize \in Nat
  BY Sizes, LengthGrows DEF Preamble
<1>7. u \in Seq(Items) /\ k \in Nat /\ need \in Int /\ room \in Int
  <2>1. u \in Seq(Items)
    <3>1. Append(s.buffered, d) \in Seq(Items)
      BY <1>5, ItemAppended
    <3> QED
      BY <1>1, <3>1, Zenon
  <2>2. need \in Int
    BY <1>3, LengthGrows
  <2>3. k \in Nat /\ room \in Int
    <3>1. s.cursor \in Nat
      BY <1>5
    <3> QED
      BY <1>2, <1>4, <1>6, <3>1, SMTT(30)
  <2> QED
    BY <2>1, <2>2, <2>3
<1>8. PICK x : x = [s EXCEPT !.buffered = u, !.cursor = k, !.need = need, !.room = room]
  OBVIOUS
<1>9. AppendBlock(s, d, c) = x
  BY <1>1, <1>2, <1>3, <1>4, <1>8, Zenon DEF AppendBlock
<1>10. /\ x \in OutputSide /\ x.buffered = u /\ x.cursor = k /\ x.need = need /\ x.room = room
       /\ x.sink = s.sink /\ x.headerWritten = s.headerWritten
  BY <1>7, <1>8 DEF OutputSide
<1> QED
  BY <1>1, <1>2, <1>3, <1>4, <1>9, <1>10, Zenon

\* The check of hasSufficientOutputBufferFor, or an empty outputBuffer, is enough.
LEMMA BlockFits ==
    ASSUME hadoop \in BOOLEAN, NEW s \in OutputSide, NEW x, NEW l \in 0..MaxBytes, l <= BlockSize,
           NEW c \in Compressed(l),
           hasSufficientOutputBufferFor(s, l) \/ s.cursor = 0,
           x.cursor = s.cursor + Preamble + 4 + c,
           x.need = maxCompressedLength(l),
           x.room = outputSize - (s.cursor + Preamble + 4)
    PROVE  Fits(hadoop, x)
<1>1. PICK m : m = maxCompressedLength(l)
  OBVIOUS
<1>2. PICK k : k = maxCompressedLength(BlockSize)
  OBVIOUS
<1>3. l \in Nat /\ m \in Nat /\ k \in Nat /\ m <= k /\ outputSize = 20 + k
  BY <1>1, <1>2, Sizes, LengthGrows
<1>4. c \in Nat /\ c <= m
  BY <1>1, CompressedSize
<1>5. s.cursor \in Nat
  BY DEF OutputSide
<1>6. m < outputSize - s.cursor - 4 \/ s.cursor = 0
  BY <1>1 DEF hasSufficientOutputBufferFor
<1>7. CASE hadoop
  <2>1. Preamble = 4 /\ Slack(hadoop) = 4
    BY <1>7 DEF Preamble, Slack
  <2>2. m < x.room + 4 /\ x.cursor < outputSize + 4
    BY <1>3, <1>4, <1>5, <1>6, <2>1
  <2> QED
    BY <1>1, <2>1, <2>2 DEF Fits
<1>8. CASE ~hadoop
  <2>1. Preamble = 0 /\ Slack(hadoop) = 1
    BY <1>8 DEF Preamble, Slack
  <2>2. m < x.room + 1 /\ x.cursor < outputSize + 1
    BY <1>3, <1>4, <1>5, <1>6, <2>1
  <2> QED
    BY <1>1, <2>1, <2>2 DEF Fits
<1> QED
  BY <1>7, <1>8

LEMMA BlockSound ==
    ASSUME hadoop \in BOOLEAN, NEW s, NEW d, NEW n \in Nat, n <= MaxBytes,
           Sound(hadoop, s, d, n), s.headerWritten, d # << >>,
           NEW c \in Compressed(Len(d)),
           hasSufficientOutputBufferFor(s, Len(d)) \/ s.cursor = 0
    PROVE  Sound(hadoop, AppendBlock(s, d, c), << >>, n)
<1>1. /\ s \in OutputSide /\ s.buffered \in Seq(Items) /\ s.sink \in Seq(Items) /\ s.cursor \in Nat
      /\ d \in Seq(Nat) /\ Len(d) \in Nat /\ Len(d) <= BlockSize /\ Len(d) <= n
      /\ n - Len(d) \in Nat
  BY DEF Sound, Side, OutputSide
<1>2. Len(d) \in 0..MaxBytes /\ MaxBytes \in Nat
  BY <1>1, Sizes
<1>3. c \in Nat
  BY <1>2, CompressedSize
<1>4. PICK x : x = AppendBlock(s, d, c)
  OBVIOUS
<1>5. /\ x \in OutputSide /\ x.buffered = Append(s.buffered, d)
      /\ x.cursor = s.cursor + Preamble + 4 + c /\ x.need = maxCompressedLength(Len(d))
      /\ x.room = outputSize - (s.cursor + Preamble + 4)
      /\ x.sink = s.sink /\ x.headerWritten = s.headerWritten
  <2>1. /\ AppendBlock(s, d, c) \in OutputSide
        /\ AppendBlock(s, d, c).buffered = Append(s.buffered, d)
        /\ AppendBlock(s, d, c).cursor = s.cursor + Preamble + 4 + c
        /\ AppendBlock(s, d, c).need = maxCompressedLength(Len(d))
        /\ AppendBlock(s, d, c).room = outputSize - (s.cursor + Preamble + 4)
        /\ AppendBlock(s, d, c).sink = s.sink
        /\ AppendBlock(s, d, c).headerWritten = s.headerWritten
    BY <1>1, <1>3, BlockFields, Zenon
  <2> QED
    BY <1>4, <2>1, Zenon
<1>6. Fits(hadoop, x)
  BY <1>1, <1>2, <1>5, BlockFits
<1>7. PICK q : q = s.sink \o s.buffered
  OBVIOUS
<1>8. q \in Seq(Items) /\ d \in Items
  BY <1>1, <1>7, Joined DEF Items
<1>9. x.sink \o x.buffered = Append(q, d)
  <2>1. s.sink \o Append(s.buffered, d) = Append(s.sink \o s.buffered, d)
    BY <1>1, <1>8, ItemsAppend
  <2> QED
    BY <1>5, <1>7, <2>1, Zenon
<1>10. ~hadoop => q # << >>
  BY <1>7 DEF Sound, Side
<1>11. Streamed(hadoop, x.sink \o x.buffered, n)
  <2>1. Streamed(hadoop, q, n - Len(d)) /\ IsRun(d, n - Len(d) + 1)
    BY <1>7 DEF Sound
  <2>2. Streamed(hadoop, Append(q, d), (n - Len(d)) + Len(d))
    BY <1>1, <1>8, <1>10, <2>1, StreamedAppend
  <2>3. (n - Len(d)) + Len(d) = n
    BY <1>1
  <2> QED
    BY <1>9, <2>2, <2>3
<1>12. Side(hadoop, x)
  <2>1. x.cursor # 0 /\ x.buffered # << >> /\ x.sink \o x.buffered # << >>
    <3>1. x.cursor # 0
      BY <1>1, <1>3, <1>5 DEF Preamble
    <3>2. Append(s.buffered, d) # << >> /\ Append(q, d) # << >>
      BY <1>1, <1>8, ItemAppended
    <3> QED
      BY <1>5, <1>9, <3>1, <3>2, Zenon
  <2> QED
    BY <1>5, <2>1 DEF Side
<1>13. Sound(hadoop, x, << >>, n)
  <2>1. Len(<< >>) = 0 /\ << >> \in Seq(Nat) /\ n - 0 = n /\ 0 <= BlockSize /\ 0 <= n
    BY Sizes
  <2>2. IsRun(<< >>, n - 0 + 1)
    BY DEF IsRun
  <2> QED
    BY <1>6, <1>11, <1>12, <2>1, <2>2 DEF Sound
<1> QED
  BY <1>4, <1>13

LEMMA TripleFields ==
    ASSUME NEW r, NEW x, NEW y, NEW z, r = [s |-> x, data |-> y, ok |-> z]
    PROVE  r.s = x /\ r.data = y /\ r.ok = z
  OBVIOUS

\* compressInput: everything stays in order, and a normal return leaves nothing
\* in inputBuffer.
LEMMA CompressSound ==
    ASSUME hadoop \in BOOLEAN, NEW s, NEW d, NEW n \in Nat, n <= MaxBytes,
           Sound(hadoop, s, d, n), NEW r \in compressInput(s, d)
    PROVE  /\ Sound(hadoop, r.s, r.data, n) /\ r.ok \in BOOLEAN
           /\ r.ok => r.data = << >>
           /\ Further(s, r.s)
<1>1. PICK h : h = writeHeader(s)
  OBVIOUS
<1>2. Sound(hadoop, h, d, n) /\ h.headerWritten = TRUE
  BY <1>1, HeaderSound
<1>5. s \in OutputSide /\ s.sink \in Seq(Items) /\ h.sink = s.sink
  <2>1. s \in OutputSide /\ s.sink \in Seq(Items)
    BY DEF Sound, Side, OutputSide
  <2> QED
    BY <1>1, <2>1, HeaderFields
<1>6. Further(s, h)
  BY <1>5, FurtherSame
<1>3. CASE d = << >>
  <2>1. r = [s |-> h, data |-> d, ok |-> TRUE]
    BY <1>1, <1>3 DEF compressInput
  <2>2. r.s = h /\ r.data = d /\ r.ok = TRUE
    BY <2>1, TripleFields, Zenon
  <2> QED
    BY <1>2, <1>3, <1>6, <2>2
<1>4. CASE d # << >>
  <2> DEFINE D == IF hasSufficientOutputBufferFor(h, Len(d))
                  THEN {[s |-> h, ok |-> TRUE]} ELSE dumpOutput(h)
             Failed(x) == [s |-> x.s, data |-> d, ok |-> FALSE]
             Done(x, c) == [s |-> AppendBlock(x.s, d, c), data |-> << >>, ok |-> TRUE]
  <2>0. r \in {Failed(x) : x \in {y \in D : ~y.ok}}
             \union {Done(x, c) : x \in {y \in D : y.ok}, c \in Compressed(Len(d))}
    BY <1>1, <1>4 DEF compressInput
  <2> HIDE DEF D, Failed, Done
  <2>1. PICK x \in D :
          \/ ~x.ok /\ r = Failed(x)
          \/ x.ok /\ \E c \in Compressed(Len(d)) : r = Done(x, c)
    BY <2>0
  <2>2. /\ Sound(hadoop, x.s, d, n) /\ x.s.headerWritten = TRUE
        /\ x.ok => hasSufficientOutputBufferFor(x.s, Len(d)) \/ x.s.cursor = 0
        /\ Further(s, x.s)
    <3>1. CASE hasSufficientOutputBufferFor(h, Len(d))
      <4>1. x = [s |-> h, ok |-> TRUE]
        BY <2>1, <3>1 DEF D
      <4>2. x.s = h
        BY <4>1, ResultFields, Zenon
      <4> QED
        BY <1>2, <1>6, <3>1, <4>2, Zenon
    <3>2. CASE ~hasSufficientOutputBufferFor(h, Len(d))
      <4>1. x \in dumpOutput(h)
        BY <2>1, <3>2 DEF D
      <4>2. /\ Sound(hadoop, x.s, d, n) /\ x.s.headerWritten = h.headerWritten
            /\ x.ok => x.s.cursor = 0
            /\ Further(h, x.s)
        BY <1>2, <4>1, DumpSound
      <4>3. Further(s, x.s)
        BY <1>5, <1>6, <4>2, FurtherTwice, Zenon
      <4> QED
        BY <1>2, <4>2, <4>3, Zenon
    <3> QED
      BY <3>1, <3>2
  <2>3. CASE r = Failed(x)
    <3>1. r.s = x.s /\ r.data = d /\ r.ok = FALSE
      BY <2>3, TripleFields, Zenon DEF Failed
    <3> QED
      BY <2>2, <3>1
  <2>4. ASSUME x.ok, NEW c \in Compressed(Len(d)), r = Done(x, c)
        PROVE  Sound(hadoop, r.s, r.data, n) /\ r.ok \in BOOLEAN /\ (r.ok => r.data = << >>)
               /\ Further(s, r.s)
    <3>1. r.s = AppendBlock(x.s, d, c) /\ r.data = << >> /\ r.ok = TRUE
      BY <2>4, TripleFields, Zenon DEF Done
    <3>2. PICK y : y = x.s
      OBVIOUS
    <3>3. /\ Sound(hadoop, y, d, n) /\ y.headerWritten
          /\ hasSufficientOutputBufferFor(y, Len(d)) \/ y.cursor = 0
      BY <2>2, <2>4, <3>2, Zenon
    <3>4. Sound(hadoop, AppendBlock(y, d, c), << >>, n)
      BY <1>4, <3>3, BlockSound
    <3>5. Further(s, AppendBlock(y, d, c))
      <4>1. Further(s, y) /\ y \in OutputSide /\ d \in Seq(Nat) /\ Len(d) \in Nat
        BY <2>2, <3>2, <3>3, Zenon, Pieces DEF Sound, Side
      <4>2. c \in Nat
        <5>1. Len(d) \in 0..MaxBytes
          BY <4>1, Sizes DEF Sound
        <5> QED
          BY <5>1, CompressedSize
      <4>3. AppendBlock(y, d, c).sink = y.sink
        BY <4>1, <4>2, BlockFields
      <4> QED
        BY <4>1, <4>3, Zenon DEF Further
    <3> QED
      BY <3>1, <3>2, <3>4, <3>5, Zenon
  <2> QED
    BY <2>1, <2>3, <2>4
<1> QED
  BY <1>3, <1>4

\* flush: a normal return has emptied both buffers.
LEMMA FlushSound ==
    ASSUME hadoop \in BOOLEAN, NEW s, NEW d, NEW n \in Nat, n <= MaxBytes,
           Sound(hadoop, s, d, n), NEW r \in flushAll(s, d)
    PROVE  /\ Sound(hadoop, r.s, r.data, n) /\ r.ok \in BOOLEAN
           /\ r.ok => r.data = << >> /\ r.s.cursor = 0
           /\ Further(s, r.s)
<1>1. PICK x \in compressInput(s, d) :
        IF ~x.ok THEN r = x
        ELSE \E y \in dumpOutput(x.s) : \E b \in IF y.ok THEN BOOLEAN ELSE {FALSE} :
               r = [s |-> y.s, data |-> x.data, ok |-> b]
  <2> DEFINE Done(x, y, b) == [s |-> y.s, data |-> x.data, ok |-> b]
  <2>1. r \in UNION {IF ~x.ok THEN {x}
                     ELSE UNION {{Done(x, y, b) : b \in IF y.ok THEN BOOLEAN ELSE {FALSE}}
                                   : y \in dumpOutput(x.s)}
                     : x \in compressInput(s, d)}
    BY DEF flushAll
  <2> HIDE DEF Done
  <2>2. \E x \in compressInput(s, d) :
          r \in IF ~x.ok THEN {x}
                ELSE UNION {{Done(x, y, b) : b \in IF y.ok THEN BOOLEAN ELSE {FALSE}}
                              : y \in dumpOutput(x.s)}
    BY <2>1
  <2>3. \E x \in compressInput(s, d) :
          IF ~x.ok THEN r = x
          ELSE \E y \in dumpOutput(x.s) : \E b \in IF y.ok THEN BOOLEAN ELSE {FALSE} :
                 r = Done(x, y, b)
    BY <2>2
  <2> QED
    BY <2>3, Zenon DEF Done
<1>2. /\ Sound(hadoop, x.s, x.data, n) /\ x.ok \in BOOLEAN
      /\ x.ok => x.data = << >>
      /\ Further(s, x.s)
  BY <1>1, CompressSound
<1>3. CASE ~x.ok
  <2>1. r = x
    BY <1>1, <1>3
  <2> QED
    BY <1>2, <1>3, <2>1
<1>4. CASE x.ok
  <2>1. PICK y \in dumpOutput(x.s), b \in BOOLEAN :
          /\ r = [s |-> y.s, data |-> x.data, ok |-> b]
          /\ b => y.ok
    <3>1. PICK y \in dumpOutput(x.s) : \E b \in IF y.ok THEN BOOLEAN ELSE {FALSE} :
                 r = [s |-> y.s, data |-> x.data, ok |-> b]
      BY <1>1, <1>4
    <3> QED
      BY <3>1
  <2>2. r.s = y.s /\ r.data = x.data /\ r.ok = b
    BY <2>1, TripleFields, Zenon
  <2>3. Sound(hadoop, y.s, x.data, n) /\ (y.ok => y.s.cursor = 0) /\ Further(x.s, y.s)
    BY <1>2, <2>1, DumpSound
  <2>4. b => y.ok
    BY <2>1
  <2>5. s.sink \in Seq(Items)
    BY Pieces
  <2>6. Further(s, y.s)
    BY <1>2, <2>3, <2>5, FurtherTwice, Zenon
  <2> QED
    BY <1>2, <1>4, <2>2, <2>3, <2>4, <2>6, Zenon
<1> QED
  BY <1>3, <1>4
-----------------------------------------------------------------------------
(* The steps.                                                              *)

LEMMA Starts ==
    ASSUME Init
    PROVE  BInv
<1>1. hadoop \in Kinds /\ hadoop \in BOOLEAN
  BY BlockOutputAssumption DEF Init
<1>2. /\ o.buffered = << >> /\ o.cursor = 0 /\ o.headerWritten = FALSE /\ o.sink = << >>
      /\ o.need = 0 /\ o.room = 0 /\ o \in OutputSide
  <2>1. << >> \in Seq(Items)
    OBVIOUS
  <2> QED
    BY <2>1 DEF Init, Empty, OutputSide
<1>3. Side(hadoop, o)
  BY <1>2 DEF Side
<1>4. Fits(hadoop, o)
  <2>1. maxCompressedLength(BlockSize) \in Nat
    BY Sizes, LengthGrows
  <2> QED
    BY <1>2, <2>1, Sizes DEF Fits, Slack
<1>5. Streamed(hadoop, o.sink \o o.buffered, 0)
  <2>1. o.sink \o o.buffered = << >> /\ Len(<< >>) = 0
    BY <1>2
  <2> QED
    BY <2>1 DEF Streamed, InOrder, Headed, After
<1>6. Sound(hadoop, o, input, accepted)
  <2>1. input = << >> /\ accepted = 0 /\ Len(input) = 0 /\ input \in Seq(Nat) /\ 0 - 0 = 0
    BY DEF Init
  <2>2. IsRun(input, 1)
    BY <2>1 DEF IsRun
  <2> QED
    BY <1>3, <1>4, <1>5, <2>1, <2>2, Sizes DEF Sound
<1>7. Fields
  <2>1. /\ input = << >> /\ closed = FALSE /\ released = 0 /\ outClosed = FALSE
        /\ accepted = 0 /\ todo = 0 /\ pc = "idle" /\ raised = "none"
    BY DEF Init
  <2>2. closed \in BOOLEAN /\ outClosed \in BOOLEAN /\ released = IF closed THEN 1 ELSE 0
    BY <2>1, Zenon
  <2>3. accepted \in Nat /\ todo \in Nat /\ accepted + todo <= MaxBytes
    BY <2>1, Sizes
  <2>4. /\ input \in Seq(Nat) /\ pc \in {"idle", "write"}
        /\ raised \in {"none", "io", "closed", "bounds"} /\ (pc = "write" => ~closed)
    BY <2>1
  <2> QED
    BY <1>1, <2>1, <2>2, <2>3, <2>4, Zenon DEF Fields
<1>8. InBounds
  BY DEF Init, InBounds
<1> QED
  BY <1>6, <1>7, <1>8 DEF Init, BInv

\* What a step of an open stream starts from.
LEMMA Open ==
    ASSUME BInv, ~closed
    PROVE  /\ Sound(hadoop, o, input, accepted) /\ hadoop \in BOOLEAN /\ hadoop \in Kinds
           /\ accepted \in Nat /\ todo \in Nat /\ accepted + todo <= MaxBytes /\ MaxBytes \in Nat
           /\ accepted <= MaxBytes
           /\ input \in Seq(Nat) /\ Len(input) \in Nat /\ Len(input) <= BlockSize
           /\ Len(input) <= accepted
           /\ pc = "idle" => todo = 0
           /\ raised \in {"none", "io", "closed", "bounds"} /\ InBounds
           /\ outClosed = FALSE /\ released = 0
<1>1. Sound(hadoop, o, input, accepted) /\ Fields /\ InBounds /\ ~outClosed
  BY DEF BInv
<1> QED
  BY <1>1, BlockOutputAssumption, Sizes DEF Fields, Sound

\* A step of an open stream that leaves it open.
LEMMA Stepped ==
    ASSUME BInv, ~closed,
           Sound(hadoop, o', input', accepted'),
           accepted' \in Nat, todo' \in Nat, accepted' + todo' <= MaxBytes,
           pc' \in {"idle", "write"}, pc' = "idle" => todo' = 0,
           raised' \in {"none", "io", "closed", "bounds"}, InBounds',
           UNCHANGED <<hadoop, closed, released, outClosed>>
    PROVE  BInv'
<1>1. input' \in Seq(Nat)
  BY DEF Sound
<1>2. Fields'
  BY <1>1 DEF BInv, Fields
<1> QED
  BY <1>2 DEF BInv

LEMMA RefusedStep ==
    ASSUME BInv, Refused
    PROVE  BInv'
  BY DEF BInv, Fields, InBounds, Refused

LEMMA writeStep ==
    ASSUME BInv, NEW n \in WriteSizes, write(n)
    PROVE  BInv'
<1>1. n \in Nat /\ ~closed /\ accepted + n <= MaxBytes
  BY BlockOutputAssumption DEF write
<1>2. InBounds'
  BY DEF write, InBounds
<1> QED
  BY <1>1, <1>2, Open, Stepped DEF write

\* The next bytes go behind those in inputBuffer.
LEMMA FillSound ==
    ASSUME NEW h, NEW s, NEW d, NEW k \in Nat, accepted \in Nat, Sound(h, s, d, accepted),
           Len(d) + k <= BlockSize
    PROVE  /\ Sound(h, s, d \o NextBytes(k), accepted + k)
           /\ Len(d \o NextBytes(k)) = Len(d) + k
<1>1. PICK e : e = NextBytes(k)
  OBVIOUS
<1>2. e \in Seq(Nat) /\ Len(e) = k /\ \A j \in 1..k : e[j] = accepted + j
  BY <1>1 DEF NextBytes
<1>3. d \in Seq(Nat) /\ Len(d) \in Nat /\ Len(d) <= accepted
  BY DEF Sound
<1>4. PICK y : y = d \o e
  OBVIOUS
<1>5. /\ y \in Seq(Nat) /\ Len(y) = Len(d) + k
      /\ \A j \in 1..Len(d) : y[j] = d[j]
      /\ \A j \in 1..k : y[Len(d) + j] = accepted + j
  <2>1. /\ d \o e \in Seq(Nat) /\ Len(d \o e) = Len(d) + Len(e)
        /\ \A i \in 1..Len(d) : (d \o e)[i] = d[i]
        /\ \A i \in 1..Len(e) : (d \o e)[Len(d) + i] = e[i]
    BY <1>2, <1>3, NumbersJoined
  <2>2. \A i \in 1..k : (d \o e)[Len(d) + i] = accepted + i
    BY <1>2, <2>1
  <2> QED
    BY <1>2, <1>4, <2>1, <2>2
<1>6. (accepted + k) - Len(y) = accepted - Len(d)
  BY <1>3, <1>5
<1>7. IsRun(y, accepted - Len(d) + 1)
  <2>1. SUFFICES ASSUME NEW j \in 1..Len(y)
                 PROVE  y[j] = accepted - Len(d) + 1 + j - 1
    BY DEF IsRun
  <2>2. CASE j \in 1..Len(d)
    <3>1. d[j] = accepted - Len(d) + 1 + j - 1
      BY <2>2 DEF Sound, IsRun
    <3> QED
      BY <1>5, <2>2, <3>1
  <2>3. CASE j \notin 1..Len(d)
    <3>1. PICK i \in 1..k : j = Len(d) + i
      <4>1. j - Len(d) \in 1..k
        BY <1>3, <1>5, <2>3
      <4> QED
        BY <1>3, <4>1
    <3> QED
      BY <1>3, <1>5, <3>1
  <2> QED
    BY <2>2, <2>3
<1>8. Sound(h, s, y, accepted + k)
  BY <1>3, <1>5, <1>6, <1>7 DEF Sound
<1> QED
  BY <1>1, <1>4, <1>5, <1>8

LEMMA writeByteStep ==
    ASSUME BInv, writeByte
    PROVE  BInv'
<1>1. pc = "idle" /\ ~closed /\ accepted < MaxBytes
      /\ UNCHANGED <<hadoop, closed, released, outClosed, todo, pc>>
  BY DEF writeByte
<1>2. /\ Sound(hadoop, o, input, accepted) /\ hadoop \in BOOLEAN
      /\ accepted \in Nat /\ todo = 0 /\ accepted <= MaxBytes /\ MaxBytes \in Nat
      /\ input \in Seq(Nat) /\ Len(input) \in Nat
  BY <1>1, Open
<1>3. PICK r \in (IF inputCursor >= inputSize THEN compressInput(o, input)
                  ELSE {[s |-> o, data |-> input, ok |-> TRUE]}) :
        /\ o' = r.s
        /\ \/ /\ r.ok
              /\ input' = r.data \o NextBytes(1)
              /\ accepted' = accepted + 1 /\ raised' = "none"
           \/ /\ ~r.ok
              /\ input' = r.data /\ raised' = "io"
              /\ UNCHANGED accepted
  BY DEF writeByte
<1>4. Sound(hadoop, r.s, r.data, accepted) /\ (r.ok => Len(r.data) + 1 <= BlockSize)
  <2>1. CASE inputCursor >= inputSize
    <3>1. r \in compressInput(o, input)
      BY <1>3, <2>1
    <3>2. Sound(hadoop, r.s, r.data, accepted) /\ (r.ok => r.data = << >>)
      BY <1>2, <3>1, CompressSound
    <3>3. Len(<< >>) + 1 <= BlockSize
      BY Sizes
    <3> QED
      BY <3>2, <3>3, Zenon
  <2>2. CASE ~(inputCursor >= inputSize)
    <3>1. r = [s |-> o, data |-> input, ok |-> TRUE]
      BY <1>3, <2>2
    <3>2. r.s = o /\ r.data = input /\ r.ok = TRUE
      BY <3>1, TripleFields, Zenon
    <3>3. Len(input) + 1 <= BlockSize
      BY <1>2, <2>2, Sizes DEF inputCursor
    <3> QED
      BY <1>2, <3>2, <3>3, Zenon
  <2> QED
    BY <2>1, <2>2
<1>5. CASE r.ok /\ input' = r.data \o NextBytes(1) /\ accepted' = accepted + 1 /\ raised' = "none"
  <2>1. Sound(hadoop, r.s, r.data \o NextBytes(1), accepted + 1)
    BY <1>2, <1>4, <1>5, FillSound
  <2>2. Sound(hadoop, o', input', accepted')
    BY <1>3, <1>5, <2>1
  <2>3. InBounds'
    BY <1>5 DEF InBounds
  <2> QED
    BY <1>1, <1>2, <1>5, <2>2, <2>3, Stepped
<1>6. CASE ~r.ok /\ input' = r.data /\ raised' = "io" /\ UNCHANGED accepted
  <2>1. Sound(hadoop, o', input', accepted')
    BY <1>3, <1>4, <1>6
  <2>2. InBounds'
    BY <1>6 DEF InBounds
  <2> QED
    BY <1>1, <1>2, <1>6, <2>1, <2>2, Stepped
<1> QED
  BY <1>3, <1>5, <1>6

LEMMA rawWriteStep ==
    ASSUME BInv, rawWrite
    PROVE  BInv'
<1>1. pc = "write" /\ ~closed /\ UNCHANGED <<hadoop, closed, released, outClosed>>
  BY DEF rawWrite, BInv, Fields
<1>2. /\ Sound(hadoop, o, input, accepted) /\ hadoop \in BOOLEAN
      /\ accepted \in Nat /\ todo \in Nat /\ accepted + todo <= MaxBytes /\ MaxBytes \in Nat
      /\ input \in Seq(Nat) /\ Len(input) \in Nat /\ Len(input) <= BlockSize
      /\ raised \in {"none", "io", "closed", "bounds"} /\ InBounds
  BY <1>1, Open
<1>3. PICK k : k = IF todo < blockSize - inputCursor THEN todo ELSE blockSize - inputCursor
  OBVIOUS
<1>4. k \in Nat /\ k <= todo /\ k <= blockSize - Len(input)
  BY <1>2, <1>3, Sizes DEF inputCursor
<1>5. CASE todo = 0 /\ pc' = "idle" /\ UNCHANGED <<input, o, accepted, todo, raised>>
  <2>1. InBounds'
    BY <1>2, <1>5 DEF InBounds
  <2> QED
    BY <1>1, <1>2, <1>5, <2>1, Stepped
<1>6. CASE /\ k > 0 /\ inputCursor + k > inputSize
           /\ pc' = "idle" /\ todo' = 0 /\ raised' = "bounds"
           /\ UNCHANGED <<input, o, accepted>>
  <2>1. ~(BlockSize >= MIN_BLOCK_SIZE)
    BY <1>2, <1>4, <1>6, Sizes DEF inputCursor
  <2>2. InBounds'
    BY <2>1 DEF InBounds
  <2> QED
    BY <1>1, <1>2, <1>6, <2>2, Stepped
<1>7. ASSUME ~(k > 0 /\ inputCursor + k > inputSize),
             NEW f, f = IF k > 0 THEN input \o NextBytes(k) ELSE input,
             accepted' = Len(f) - inputCursor + accepted,
             \/ /\ Len(f) < blockSize
                /\ input' = f
                /\ pc' = "idle" /\ todo' = 0
                /\ UNCHANGED <<o, raised>>
             \/ /\ \E r \in compressInput(o, f) :
                     /\ o' = r.s /\ input' = r.data
                     /\ IF r.ok THEN todo' = todo - k /\ UNCHANGED <<pc, raised>>
                                ELSE todo' = 0 /\ pc' = "idle" /\ raised' = "io"
      PROVE  BInv'
  <2>1. Sound(hadoop, o, f, accepted + k) /\ Len(f) = Len(input) + k
    <3>1. CASE k > 0
      <4>1. Len(input) + k <= BlockSize
        BY <1>2, <1>4, <1>7, <3>1, Sizes DEF inputCursor
      <4> QED
        BY <1>2, <1>4, <1>7, <3>1, <4>1, FillSound
    <3>2. CASE k = 0
      BY <1>2, <1>7, <3>2
    <3> QED
      BY <1>4, <3>1, <3>2
  <2>2. /\ accepted' = accepted + k /\ accepted' \in Nat /\ accepted' <= MaxBytes
        /\ accepted' + (todo - k) <= MaxBytes /\ todo - k \in Nat
    <3>1. PICK l \in Nat : l = Len(input)
      BY <1>2
    <3>2. accepted' = (l + k) - l + accepted
      BY <1>7, <2>1, <3>1 DEF inputCursor
    <3>3. accepted' = accepted + k
      BY <1>2, <1>4, <3>2
    <3> QED
      BY <1>2, <1>4, <3>3
  <2>3. CASE input' = f /\ pc' = "idle" /\ todo' = 0 /\ UNCHANGED <<o, raised>>
    <3>1. Sound(hadoop, o', input', accepted') /\ InBounds'
      BY <1>2, <2>1, <2>2, <2>3 DEF InBounds
    <3> QED
      BY <1>1, <1>2, <2>2, <2>3, <3>1, Stepped
  <2>4. ASSUME NEW r \in compressInput(o, f), o' = r.s, input' = r.data,
               IF r.ok THEN todo' = todo - k /\ UNCHANGED <<pc, raised>>
                       ELSE todo' = 0 /\ pc' = "idle" /\ raised' = "io"
        PROVE  BInv'
    <3>1. Sound(hadoop, r.s, r.data, accepted + k)
      BY <1>2, <2>1, <2>2, <2>4, CompressSound
    <3>2. Sound(hadoop, o', input', accepted')
      BY <2>2, <2>4, <3>1
    <3>3. CASE r.ok
      <4>1. todo' = todo - k /\ UNCHANGED <<pc, raised>>
        BY <2>4, <3>3
      <4>2. InBounds'
        BY <1>2, <4>1 DEF InBounds
      <4> QED
        BY <1>1, <1>2, <2>2, <3>2, <4>1, <4>2, Stepped
    <3>4. CASE ~r.ok
      <4>1. todo' = 0 /\ pc' = "idle" /\ raised' = "io"
        BY <2>4, <3>4
      <4>2. InBounds'
        BY <4>1 DEF InBounds
      <4> QED
        BY <1>1, <2>2, <3>2, <4>1, <4>2, Stepped
    <3> QED
      BY <3>3, <3>4
  <2> QED
    BY <1>7, <2>3, <2>4
<1> QED
  BY <1>3, <1>5, <1>6, <1>7 DEF rawWrite

LEMMA flushStep ==
    ASSUME BInv, flush
    PROVE  BInv'
<1>1. pc = "idle" /\ ~closed
      /\ UNCHANGED <<hadoop, closed, released, outClosed, accepted, todo, pc>>
  BY DEF flush
<1>2. /\ Sound(hadoop, o, input, accepted) /\ hadoop \in BOOLEAN
      /\ accepted \in Nat /\ todo = 0 /\ accepted <= MaxBytes /\ accepted + todo <= MaxBytes
  BY <1>1, Open
<1>3. PICK r \in flushAll(o, input) :
        o' = r.s /\ input' = r.data /\ raised' \in {"none", "io"}
  BY DEF flush
<1>4. Sound(hadoop, r.s, r.data, accepted)
  BY <1>2, <1>3, FlushSound
<1>5. Sound(hadoop, o', input', accepted') /\ InBounds'
  BY <1>1, <1>3, <1>4 DEF InBounds
<1> QED
  BY <1>1, <1>2, <1>3, <1>5, Stepped

Closing(s) == [s EXCEPT !.buffered = << >>, !.cursor = 0]

LEMMA ClosedFields ==
    ASSUME NEW s \in OutputSide
    PROVE  /\ Closing(s) \in OutputSide /\ Closing(s).sink = s.sink
           /\ Closing(s).buffered = << >> /\ Closing(s).cursor = 0
           /\ Closing(s).need = s.need /\ Closing(s).room = s.room
<1>1. PICK e : e = << >> /\ e \in Seq(Items)
  <2>1. << >> \in Seq(Items)
    OBVIOUS
  <2> QED
    BY <2>1, Zenon
<1>2. PICK x : x = [s EXCEPT !.buffered = e, !.cursor = 0]
  OBVIOUS
<1>3. /\ x \in OutputSide /\ x.sink = s.sink /\ x.buffered = e /\ x.cursor = 0
      /\ x.need = s.need /\ x.room = s.room
  <2>1. e \in Seq(Items)
    BY <1>1
  <2> QED
    BY <1>2, <2>1 DEF OutputSide
<1>4. Closing(s) = x
  BY <1>1, <1>2, Zenon DEF Closing
<1> QED
  BY <1>1, <1>3, <1>4, Zenon

\* What close leaves of a sound stream.
\* Out has the beginning of what was taken.
LEMMA SoundBegun ==
    ASSUME NEW h, NEW s, NEW d, NEW n \in Nat, Sound(h, s, d, n)
    PROVE  Begun(h, s, n)
<1>1. PICK m : m = n - Len(d)
  OBVIOUS
<1>2. m \in 0..n
  BY <1>1 DEF Sound
<1>3. s.buffered \in Seq(Items) /\ Streamed(h, s.sink \o s.buffered, m)
  BY <1>1, Pieces, Zenon DEF Sound
<1> QED
  BY <1>2, <1>3, Zenon DEF Begun

LEMMA CloseLeaves ==
    ASSUME NEW h \in BOOLEAN, NEW s, NEW d, NEW n \in Nat, Sound(h, s, d, n),
           NEW x, x = Closing(s)
    PROVE  /\ Left(h, x)
           /\ d = << >> /\ s.cursor = 0 => n = After(x.sink, Len(x.sink)) - 1
           /\ Begun(h, x, n) /\ x.sink = s.sink
<1>1. /\ s \in OutputSide /\ s.buffered \in Seq(Items) /\ s.sink \in Seq(Items)
  BY DEF Sound, Side, OutputSide
<1>3. /\ x \in OutputSide /\ x.sink = s.sink /\ x.buffered = << >> /\ x.cursor = 0
      /\ x.need = s.need /\ x.room = s.room
  BY <1>1, ClosedFields
<1>4. Fits(h, x)
  <2>1. outputSize \in Nat /\ outputSize >= 1 /\ Slack(h) \in Nat /\ Slack(h) >= 1
    BY Sizes, LengthGrows DEF Slack
  <2> QED
    BY <1>3, <2>1 DEF Sound, Fits
<1>5. InOrder(s.sink) /\ Headed(h, s.sink)
  <2>1. InOrder(s.sink \o s.buffered) /\ Headed(h, s.sink \o s.buffered)
    BY DEF Sound, Streamed
  <2> QED
    BY <1>1, <2>1, Prefix
<1>6. Left(h, x)
  BY <1>3, <1>4, <1>5, Zenon DEF Left
<1>7. ASSUME d = << >>, s.cursor = 0
      PROVE  n = After(x.sink, Len(x.sink)) - 1
  <2>1. s.buffered = << >>
    BY <1>7 DEF Sound, Side
  <2>2. s.sink \o s.buffered = s.sink
    BY <1>1, <2>1, JoinedEmpty, Zenon
  <2>3. Len(d) = 0 /\ n - 0 = n
    BY <1>7
  <2>4. Streamed(h, s.sink, n)
    BY <2>2, <2>3, Zenon DEF Sound
  <2> QED
    BY <1>3, <2>4 DEF Streamed
<1>8. Begun(h, x, n)
  BY <1>3, SoundBegun, Zenon DEF Begun
<1> QED
  BY <1>3, <1>6, <1>7, <1>8

LEMMA closeStep ==
    ASSUME BInv, close
    PROVE  BInv'
<1>1. pc = "idle" /\ UNCHANGED <<hadoop, accepted, todo, pc>>
  BY DEF close
<1>2. CASE closed /\ raised' = "none" /\ UNCHANGED <<input, o, closed, released, outClosed>>
  BY <1>1, <1>2 DEF BInv, Fields, InBounds
<1>3. CASE ~closed
  <2>1. /\ Sound(hadoop, o, input, accepted) /\ hadoop \in BOOLEAN /\ hadoop \in Kinds
        /\ accepted \in Nat /\ todo = 0 /\ accepted <= MaxBytes /\ accepted + todo <= MaxBytes
        /\ released = 0
    BY <1>1, <1>3, Open
  <2>2. PICK r \in flushAll(o, input) :
          /\ o' = [r.s EXCEPT !.buffered = << >>, !.cursor = 0]
          /\ raised' \in {"none", "io"} /\ outClosed' = r.ok
    BY <1>3 DEF close
  <2>3. input' = << >> /\ closed' = TRUE /\ released' = 1
    <3>1. input' = << >> /\ closed' = TRUE /\ released' = released + 1
      BY <1>3, Zenon DEF close
    <3> QED
      BY <2>1, <3>1
  <2>4. /\ Sound(hadoop, r.s, r.data, accepted) /\ r.ok \in BOOLEAN
        /\ r.ok => r.data = << >> /\ r.s.cursor = 0
    BY <2>1, <2>2, FlushSound
  <2>5. /\ Left(hadoop, o') /\ Begun(hadoop, o', accepted)
        /\ r.ok => accepted = After(o'.sink, Len(o'.sink)) - 1
    <3>1. PICK y : y = r.s
      OBVIOUS
    <3>2. PICK d : d = r.data
      OBVIOUS
    <3>3. PICK x : x = Closing(y)
      OBVIOUS
    <3>4. Sound(hadoop, y, d, accepted) /\ (r.ok => d = << >> /\ y.cursor = 0)
      BY <2>4, <3>1, <3>2, Zenon
    <3>5. /\ Left(hadoop, x)
          /\ d = << >> /\ y.cursor = 0 => accepted = After(x.sink, Len(x.sink)) - 1
          /\ Begun(hadoop, x, accepted)
      BY <2>1, <3>3, <3>4, CloseLeaves
    <3>6. o' = x
      BY <2>2, <3>1, <3>3, Zenon DEF Closing
    <3> QED
      BY <3>4, <3>5, <3>6
  <2>6. Fields'
    <3>1. input' \in Seq(Nat) /\ closed' \in BOOLEAN /\ outClosed' \in BOOLEAN
      BY <2>2, <2>3, <2>4
    <3>2. released' = IF closed' THEN 1 ELSE 0
      BY <2>3
    <3> QED
      BY <1>1, <2>1, <2>2, <3>1, <3>2 DEF Fields
  <2>7. InBounds'
    BY <2>2 DEF InBounds
  <2>8. (outClosed => closed /\ accepted = After(o.sink, Len(o.sink)) - 1)'
    BY <1>1, <2>2, <2>3, <2>5
  <2> QED
    BY <1>1, <2>3, <2>5, <2>6, <2>7, <2>8 DEF BInv
<1> QED
  BY <1>2, <1>3 DEF close

LEMMA BInvStep == BInv /\ [Next]_vars => BInv'
<1> SUFFICES ASSUME BInv, [Next]_vars
             PROVE  BInv'
  OBVIOUS
<1>1. CASE UNCHANGED vars
  BY <1>1 DEF BInv, Fields, InBounds, vars
<1>2. CASE Next
  BY <1>2, writeStep, rawWriteStep, writeByteStep, flushStep, closeStep, RefusedStep
     DEF Next
<1> QED
  BY <1>1, <1>2

\* What out received stays there.
LEMMA SinkGrows ==
    ASSUME BInv, Next
    PROVE  o.sink \in Seq(Items) /\ Further(o, o')
<1>1. o.sink \in Seq(Items)
  BY DEF BInv, Sound, Side, Left, OutputSide
<1>2. CASE UNCHANGED o
  BY <1>1, <1>2, FurtherSame
<1>3. CASE ~closed
  <2>1. /\ Sound(hadoop, o, input, accepted) /\ hadoop \in BOOLEAN
        /\ accepted \in Nat /\ todo \in Nat /\ accepted + todo <= MaxBytes /\ accepted <= MaxBytes
        /\ MaxBytes \in Nat /\ input \in Seq(Nat) /\ Len(input) \in Nat /\ Len(input) <= BlockSize
    BY <1>3, Open
  <2>2. CASE writeByte
    <3>1. CASE \E r \in compressInput(o, input) : o' = r.s
      <4>1. PICK r \in compressInput(o, input) : o' = r.s
        BY <3>1
      <4>2. Further(o, r.s)
        BY <2>1, <4>1, CompressSound
      <4> QED
        BY <1>1, <4>1, <4>2, Zenon
    <3>2. CASE \E r \in {[s |-> o, data |-> input, ok |-> TRUE]} : o' = r.s
      BY <1>2, <3>2
    <3> QED
      BY <2>2, <3>1, <3>2 DEF writeByte
  <2>3. CASE flush
    <3>1. PICK r \in flushAll(o, input) : o' = r.s
      BY <2>3 DEF flush
    <3>2. Further(o, r.s)
      BY <2>1, <3>1, FlushSound
    <3> QED
      BY <1>1, <3>1, <3>2, Zenon
  <2>4. CASE close
    <3>1. PICK r \in flushAll(o, input) : o' = [r.s EXCEPT !.buffered = << >>, !.cursor = 0]
      BY <1>3, <2>4 DEF close
    <3>2. PICK y : y = r.s
      OBVIOUS
    <3>3. PICK d : d = r.data
      OBVIOUS
    <3>4. PICK x : x = Closing(y)
      OBVIOUS
    <3>5. Sound(hadoop, y, d, accepted) /\ Further(o, y)
      BY <2>1, <3>1, <3>2, <3>3, FlushSound
    <3>6. x.sink = y.sink
      BY <2>1, <3>4, <3>5, CloseLeaves
    <3>7. o' = x
      BY <3>1, <3>2, <3>4, Zenon DEF Closing
    <3> QED
      BY <1>1, <3>5, <3>6, <3>7, Zenon DEF Further
  <2>5. CASE rawWrite /\ ~UNCHANGED o
    <3>1. PICK k : k = IF todo < blockSize - inputCursor THEN todo ELSE blockSize - inputCursor
      OBVIOUS
    <3>2. k \in Nat /\ k <= todo
      BY <2>1, <3>1, Sizes DEF inputCursor
    <3>3. PICK f : f = IF k > 0 THEN input \o NextBytes(k) ELSE input
      OBVIOUS
    <3>4. /\ ~(k > 0 /\ inputCursor + k > inputSize)
          /\ \E r \in compressInput(o, f) : o' = r.s
      BY <2>5, <3>1, <3>3 DEF rawWrite
    <3>5. Sound(hadoop, o, f, accepted + k) /\ accepted + k \in Nat /\ accepted + k <= MaxBytes
      <4>1. CASE k > 0
        <5>1. Len(input) + k <= BlockSize
          BY <2>1, <3>2, <3>4, <4>1, Sizes DEF inputCursor
        <5> QED
          BY <2>1, <3>2, <3>3, <4>1, <5>1, FillSound
      <4>2. CASE k = 0
        BY <2>1, <3>3, <4>2
      <4> QED
        BY <3>2, <4>1, <4>2
    <3> QED
      BY <1>1, <2>1, <3>4, <3>5, CompressSound
  <2>6. ASSUME NEW n \in WriteSizes, write(n) PROVE UNCHANGED o
    BY <2>6 DEF write
  <2>7. Refused => UNCHANGED o
    BY DEF Refused
  <2> QED
    BY <1>1, <1>2, <2>2, <2>3, <2>4, <2>5, <2>6, <2>7 DEF Next
<1>4. CASE closed
  <2>1. pc = "idle"
    BY <1>4 DEF BInv, Fields
  <2> QED
    BY <1>2, <1>4, <2>1 DEF Next, write, rawWrite, writeByte, flush, close, Refused
<1> QED
  BY <1>3, <1>4 DEF BInv, Fields

\* A flush or close that returns normally leaves nothing behind.
LEMMA FlushSends ==
    ASSUME BInv, ~closed, flush \/ close, raised' = "none"
    PROVE  accepted' = accepted /\ accepted = After(o'.sink, Len(o'.sink)) - 1
<1>1. /\ Sound(hadoop, o, input, accepted) /\ hadoop \in BOOLEAN
      /\ accepted \in Nat /\ accepted <= MaxBytes
  BY Open
<1>2. CASE flush
  <2>1. PICK r \in flushAll(o, input) : o' = r.s /\ raised' = IF r.ok THEN "none" ELSE "io"
    BY <1>2 DEF flush
  <2>2. /\ Sound(hadoop, r.s, r.data, accepted) /\ r.ok
        /\ r.data = << >> /\ r.s.cursor = 0
    BY <1>1, <2>1, FlushSound
  <2>3. PICK y : y = r.s
    OBVIOUS
  <2>4. Sound(hadoop, y, << >>, accepted) /\ y.cursor = 0
    BY <2>2, <2>3, Zenon
  <2>5. PICK x : x = Closing(y)
    OBVIOUS
  <2>6. accepted = After(x.sink, Len(x.sink)) - 1 /\ x.sink = y.sink
    BY <1>1, <2>4, <2>5, CloseLeaves
  <2> QED
    BY <1>2, <2>1, <2>3, <2>6 DEF flush
<1>3. CASE close
  <2>1. PICK r \in flushAll(o, input), b \in BOOLEAN :
          raised' = (IF r.ok /\ b THEN "none" ELSE "io") /\ outClosed' = r.ok
    BY <1>3 DEF close
  <2>2. outClosed'
    BY <2>1
  <2>3. BInv'
    BY <1>3, closeStep
  <2> QED
    BY <1>3, <2>2, <2>3 DEF BInv, close
<1> QED
  BY <1>2, <1>3
-----------------------------------------------------------------------------
(* What it means for the properties.                                       *)

LEMMA TypeFollows == BInv => TypeOK
<1> SUFFICES ASSUME BInv
             PROVE  TypeOK
  OBVIOUS
<1>1. o \in OutputSide
  BY DEF BInv, Sound, Side, Left
<1>2. accepted \in 0..MaxBytes
  BY Sizes DEF BInv, Fields
<1> QED
  BY <1>1, <1>2 DEF BInv, Fields, TypeOK

LEMMA ConservationFollows == BInv => Conservation
<1> SUFFICES ASSUME BInv
             PROVE  Conservation
  OBVIOUS
<1>1. PICK all : all = o.sink \o o.buffered
  OBVIOUS
<1>2. CASE ~closed
  <2>1. /\ Sound(hadoop, o, input, accepted) /\ ~outClosed
        /\ accepted \in Nat /\ Len(input) \in Nat
    BY <1>2, Open DEF BInv
  <2>2. /\ Streamed(hadoop, all, accepted - Len(input))
        /\ IsRun(input, accepted - Len(input) + 1)
    BY <1>1, <2>1 DEF Sound
  <2>3. PICK m \in Int : m = accepted - Len(input)
    BY <2>1
  <2>4. After(all, Len(all)) = m + 1 /\ accepted = m + Len(input)
    BY <2>1, <2>2, <2>3 DEF Streamed
  <2>5. accepted = After(all, Len(all)) - 1 + Len(input)
    BY <2>1, <2>3, <2>4
  <2>6. IsRun(input, After(all, Len(all)))
    BY <2>2, <2>3, <2>4
  <2> QED
    BY <1>1, <2>1, <2>2, <2>5, <2>6 DEF Conservation, Streamed, Headed
<1>3. CASE closed
  <2>1. Left(hadoop, o) /\ (outClosed => accepted = After(o.sink, Len(o.sink)) - 1)
    BY <1>3 DEF BInv
  <2>2. all = o.sink
    <3>1. o.buffered = << >> /\ o.sink \in Seq(Items)
      BY <2>1 DEF Left, OutputSide
    <3> QED
      BY <1>1, <3>1, JoinedEmpty, Zenon
  <2>3. InOrder(all) /\ Headed(hadoop, all)
    BY <2>1, <2>2 DEF Left
  <2> QED
    BY <1>1, <1>3, <2>1, <2>3 DEF Conservation, Headed
<1> QED
  BY <1>2, <1>3

LEMMA RoomFollows == BInv /\ BlockSize >= MIN_BLOCK_SIZE => RoomForBlock
<1> SUFFICES ASSUME BInv, BlockSize >= MIN_BLOCK_SIZE
             PROVE  RoomForBlock
  OBVIOUS
<1>1. Fits(hadoop, o) /\ raised # "bounds"
  BY DEF BInv, Sound, Left, InBounds
<1>2. Slack(hadoop) = IF hadoop THEN Preamble ELSE 1
  BY DEF Slack, Preamble
<1> QED
  BY <1>1, <1>2 DEF Fits, RoomForBlock
-----------------------------------------------------------------------------
\* SnappyOutputStream and its subclass keep BInv, whatever the underlying stream does.
THEOREM StreamInvariance == Spec => []BInv
<1>1. Init => BInv
  BY Starts
<1> QED
  BY <1>1, BInvStep, PTL DEF Spec

\* The fields keep their types, and close gives the two buffers back once.
THEOREM StreamTypes == Spec => []TypeOK
  BY StreamInvariance, TypeFollows, PTL

\* write, compressInput, dumpOutput and close lose, repeat or reorder no byte, and
\* the header goes out first, or never in the Hadoop-compatible stream.
THEOREM BytesConserved == Spec => []Conservation
  BY StreamInvariance, ConservationFollows, PTL

\* hasSufficientOutputBufferFor leaves compress the room it needs, up to the preamble
\* of the Hadoop-compatible stream, and no write overruns inputBuffer, when the
\* constructor is given a block size that it does not raise to MIN_BLOCK_SIZE:
\* inputBuffer is made for the size that was asked for.
THEOREM RoomAlways ==
    ASSUME BlockSize >= MIN_BLOCK_SIZE
    PROVE  Spec => []RoomForBlock
<1>1. BInv => RoomForBlock
  BY RoomFollows
<1> QED
  BY <1>1, StreamInvariance, PTL
=============================================================================
