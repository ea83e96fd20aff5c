------------------------- MODULE FramedOutputProofs -------------------------
(***************************************************************************)
(* SnappyFramedOutputStream for every block size, every way the channel    *)
(* may misbehave and any number of bytes and faults: TypeOK, FramesWhole   *)
(* and Conservation are invariants.                                        *)
(*                                                                         *)
(* They rest on what the buffer holds between two calls: the bytes before  *)
(* its position are the last ones accepted, whatever flip, clear and an    *)
(* exception of the channel did to position and limit, and no body in the  *)
(* channel has a byte as late as they are.  All of it is stated of a value *)
(* s of the buffer and a count n of accepted bytes, because a call of the  *)
(* stream moves them several times.                                        *)
(***************************************************************************)
EXTENDS FramedOutput, SequenceTheorems, TLAPS

\* The buffer is never full with nothing in it: flushing makes room.
Typed(s) == s \in Sides /\ s.position <= s.limit /\ s.limit >= 1

\* The buffer holds the last bytes accepted.
Buffered(s, n) ==
    /\ s.position <= n
    /\ \A j \in 1..BlockSize : j <= s.position => s.array[j] = (n - s.position) + j

\* The bodies in a channel are in order, and none has a byte later than m.
Ordered(q, m) ==
    /\ \A i \in 1..Len(q) : q[i].part = "body" =>
         \A k \in 1..Len(q[i].data) : q[i].data[k] <= m
    /\ \A i, j \in 1..Len(q) : q[i].part = "body" /\ q[j].part = "body" =>
         \A k \in 1..Len(q[i].data), l \in 1..Len(q[j].data) :
           i < j \/ (i = j /\ k < l) => q[i].data[k] < q[j].data[l]

\* The identifier, which has no data, and whole frames.
Frames(q) ==
    /\ \A i \in 1..Len(q) :
         /\ q[i].part = (IF i = 1 THEN "id" ELSE IF i % 2 = 0 THEN "head" ELSE "body")
         /\ i = 1 => q[i].data = << >>
         /\ q[i].part # "id" => Len(q[i].data) \in 1..BlockSize
         /\ q[i].part = "body" => q[i].data = q[i - 1].data
    /\ Len(q) = 0 \/ Len(q) % 2 = 1

\* The bodies are the bytes from 1 to m, each once.
Complete(q, m) ==
    /\ \A i \in 1..Len(q) : q[i].part = "body" => IsRun(q[i].data, After(q, i - 2))
    /\ Delivered(q) = m

\* A stream in which n bytes were accepted; those behind the position are gone.
Sound(s, n) ==
    /\ Typed(s) /\ Buffered(s, n)
    /\ Ordered(s.sink, n - s.position)
    /\ s.kinds \intersect {"bodyFails", "short"} = {} => Frames(s.sink)
    /\ s.kinds \subseteq {"headFails"} => Complete(s.sink, n - s.position)

\* The fields of the stream.
Fields ==
    /\ held = (IF pc = "new" \/ closed THEN 0 ELSE 3) /\ closed \in BOOLEAN /\ outClosed \in BOOLEAN
    /\ accepted \in Nat /\ todo \in Nat /\ accepted + todo <= MaxBytes
    /\ pc \in {"new", "aborted", "idle", "write", "buffer", "bufferLoop", "transfer",
               "transferLoop"}
    /\ raised \in {"none", "io", "closed"}

\* Before the constructor is done there is nothing; a call of an open stream finds
\* the identifier in the channel; out.close() comes after the last byte.
Staged ==
    /\ pc \in {"new", "aborted"} => accepted = 0 /\ b.position = 0 /\ b.sink = << >> /\ ~closed
    /\ pc \notin {"new", "aborted"} => b.sink # << >>
    /\ pc # "idle" => ~closed
    /\ pc \in {"new", "aborted", "idle"} => todo = 0
    /\ outClosed => closed /\ b.position = 0

FInv == Sound(b, accepted) /\ Fields /\ Staged
-----------------------------------------------------------------------------
(* Sequences.                                                              *)

\* What goes to the channel goes behind what is there.
LEMMA AppendTwo ==
    ASSUME NEW S, NEW q \in Seq(S), NEW x \in S, NEW y \in S
    PROVE  /\ q \o <<x, y>> \in Seq(S)
           /\ Len(q) \in Nat /\ Len(q \o <<x, y>>) = Len(q) + 2
           /\ \A i \in 1..Len(q) : (q \o <<x, y>>)[i] = q[i]
           /\ (q \o <<x, y>>)[Len(q) + 1] = x
           /\ (q \o <<x, y>>)[Len(q) + 2] = y
  OBVIOUS

LEMMA AppendOne ==
    ASSUME NEW S, NEW q \in Seq(S), NEW x \in S
    PROVE  /\ q \o <<x>> \in Seq(S)
           /\ Len(q) \in Nat /\ Len(q \o <<x>>) = Len(q) + 1
           /\ \A i \in 1..Len(q) : (q \o <<x>>)[i] = q[i]
           /\ (q \o <<x>>)[Len(q) + 1] = x
  OBVIOUS

LEMMA NotEmpty ==
    ASSUME NEW S, NEW q \in Seq(S), NEW x \in S, NEW y \in S
    PROVE  q \o <<x, y>> # << >> /\ q \o <<x>> # << >>
<1>1. Len(q \o <<x, y>>) = Len(q) + 2 /\ Len(q \o <<x>>) = Len(q) + 1 /\ Len(q) \in Nat
  BY AppendTwo, AppendOne
<1> QED
  BY <1>1

\* array[0 .. n).
LEMMA Front ==
    ASSUME NEW a \in [1..BlockSize -> Nat], NEW n \in 1..BlockSize
    PROVE  /\ SubSeq(a, 1, n) \in Seq(Nat)
           /\ Len(SubSeq(a, 1, n)) = n
           /\ \A i \in 1..n : SubSeq(a, 1, n)[i] = a[i]
<1>1. BlockSize \in Nat /\ n \in Nat /\ n <= BlockSize
  BY FramedOutputAssumption
<1>2. \A i \in 1..n : a[i] \in Nat
  BY <1>1
<1>3. /\ SubSeq(a, 1, n) \in Seq(Nat)
      /\ Len(SubSeq(a, 1, n)) = IF 1 <= n THEN n - 1 + 1 ELSE 0
      /\ \A i \in 1..(n - 1 + 1) : SubSeq(a, 1, n)[i] = a[1 + i - 1]
  BY <1>1, <1>2, SubSeqProperties
<1> QED
  BY <1>1, <1>3

\* A body of which the channel took one byte too few.
LEMMA Shorter ==
    ASSUME NEW d \in Seq(Nat), Len(d) >= 1
    PROVE  /\ SubSeq(d, 1, Len(d) - 1) \in Seq(Nat)
           /\ Len(SubSeq(d, 1, Len(d) - 1)) = Len(d) - 1
           /\ \A i \in 1..(Len(d) - 1) : SubSeq(d, 1, Len(d) - 1)[i] = d[i]
<1>1. Len(d) \in Nat /\ \A i \in 1..(Len(d) - 1) : d[i] \in Nat
  OBVIOUS
<1> DEFINE m == Len(d) - 1
<1>2. m \in Nat /\ 1 \in Int /\ \A i \in 1..m : d[i] \in Nat
  BY <1>1
<1> HIDE DEF m
<1>3. /\ SubSeq(d, 1, m) \in Seq(Nat)
      /\ Len(SubSeq(d, 1, m)) = IF 1 <= m THEN m - 1 + 1 ELSE 0
      /\ \A i \in 1..(m - 1 + 1) : SubSeq(d, 1, m)[i] = d[1 + i - 1]
  BY <1>2, SubSeqProperties
<1>4. /\ Len(SubSeq(d, 1, m)) = m
      /\ \A i \in 1..m : SubSeq(d, 1, m)[i] = d[i]
  BY <1>2, <1>3
<1> QED
  BY <1>1, <1>3, <1>4 DEF m

LEMMA ShorterRun ==
    ASSUME NEW d \in Seq(Nat), NEW p \in Nat, NEW m \in Nat, p >= 1, Len(d) = p,
           \A k \in 1..p : d[k] = m + k,
           NEW e, e = SubSeq(d, 1, p - 1)
    PROVE  e \in Seq(Nat) /\ Len(e) <= p /\ \A k \in 1..Len(e) : e[k] = m + k
<1>1. /\ e \in Seq(Nat) /\ Len(e) = p - 1
      /\ \A k \in 1..(p - 1) : e[k] = d[k]
  BY Shorter
<1>2. p - 1 <= p /\ \A k \in 1..(p - 1) : k \in 1..p
  OBVIOUS
<1>3. \A k \in 1..Len(e) : e[k] = m + k
  BY <1>1, <1>2
<1> QED
  BY <1>1, <1>2, <1>3
-----------------------------------------------------------------------------
(* The operations of the buffer.                                           *)

Parts == [part : {"id", "head", "body"}, data : Seq(Nat)]

\* What writeBlock adds to the channel.
AddHead(q, d) == q \o <<Part("head", d)>>
AddFrame(q, d, e) == q \o <<Part("head", d), Part("body", e)>>

\* The assignments that put and writeBlock make.
Fill(s, a, p) == [s EXCEPT !.array = a, !.position = p]
Move(s, parts, p, l) == [s EXCEPT !.sink = @ \o parts, !.position = p, !.limit = l]
Blame(s, k) == [s EXCEPT !.faults = @ + 1, !.kinds = @ \union {k}]

LEMMA FillFields ==
    ASSUME NEW s \in Sides, NEW a \in [1..BlockSize -> Nat], NEW p \in 0..BlockSize
    PROVE  /\ Fill(s, a, p) \in Sides
           /\ Fill(s, a, p).array = a /\ Fill(s, a, p).position = p
           /\ Fill(s, a, p).limit = s.limit /\ Fill(s, a, p).sink = s.sink
           /\ Fill(s, a, p).kinds = s.kinds
  BY DEF Fill, Sides

Moved(x, s, parts, p, l) ==
    /\ x \in Sides /\ x.array = s.array /\ x.sink = s.sink \o parts
    /\ x.position = p /\ x.limit = l /\ x.faults = s.faults /\ x.kinds = s.kinds

LEMMA MoveFields ==
    ASSUME NEW s \in Sides, NEW parts, s.sink \o parts \in Seq(Parts),
           NEW p \in 0..BlockSize, NEW l \in 0..BlockSize
    PROVE  Moved(Move(s, parts, p, l), s, parts, p, l)
<1> DEFINE q == s.sink \o parts
<1>1. q \in Seq(Parts) /\ Move(s, parts, p, l) = [s EXCEPT !.sink = q, !.position = p, !.limit = l]
  BY DEF Move
<1> HIDE DEF q
<1> QED
  BY <1>1 DEF Moved, Sides, Parts, q

Blamed(x, s, k) ==
    /\ x \in Sides /\ x.array = s.array /\ x.sink = s.sink
    /\ x.position = s.position /\ x.limit = s.limit /\ x.kinds = s.kinds \union {k}

LEMMA BlameFields ==
    ASSUME NEW s \in Sides, s.faults < MaxFaults,
           NEW k \in {"headFails", "rawHeadFails", "bodyFails", "short"}
    PROVE  Blamed(Blame(s, k), s, k)
<1>1. /\ s.faults + 1 \in 0..MaxFaults
      /\ s.kinds \union {k} \in SUBSET {"headFails", "rawHeadFails", "bodyFails", "short"}
  BY FramedOutputAssumption DEF Sides
<1> QED
  BY <1>1 DEF Sides, Blame, Blamed

LEMMA PutSound ==
    ASSUME NEW s, NEW n \in Nat, accepted \in Nat, Sound(s, accepted), n <= remaining(s)
    PROVE  /\ Sound(Put(s, n), accepted + n)
           /\ Put(s, n).position = s.position + n /\ Put(s, n).limit = s.limit
           /\ Put(s, n).sink = s.sink
<1> DEFINE a == [i \in 1..BlockSize |-> IF i > s.position /\ i <= s.position + n
                                        THEN accepted + (i - s.position) ELSE s.array[i]]
<1>1. /\ s \in Sides /\ BlockSize \in Nat
      /\ s.position \in Nat /\ s.limit \in Nat /\ s.position + n <= s.limit
      /\ s.limit <= BlockSize /\ s.position <= accepted
  BY FramedOutputAssumption DEF Sound, Typed, Buffered, Sides, remaining
<1>2. a \in [1..BlockSize -> Nat]
  <2>1. \A i \in 1..BlockSize : s.array[i] \in Nat
    BY <1>1 DEF Sides
  <2> QED
    BY <1>1, <2>1
<1>3. \A j \in 1..BlockSize : j <= s.position + n =>
        a[j] = (accepted + n - (s.position + n)) + j
  BY <1>1 DEF Sound, Buffered
<1>4. Put(s, n) = Fill(s, a, s.position + n)
  BY DEF Put, Fill
<1> HIDE DEF a
<1>5. PICK p \in 0..BlockSize : p = s.position + n
  BY <1>1
<1>6. /\ Put(s, n) \in Sides /\ Put(s, n).array = a /\ Put(s, n).position = s.position + n
      /\ Put(s, n).limit = s.limit /\ Put(s, n).sink = s.sink /\ Put(s, n).kinds = s.kinds
  <2>1. Put(s, n) = Fill(s, a, p)
    BY <1>4, <1>5
  <2> QED
    BY <1>1, <1>2, <1>5, <2>1, FillFields
<1>7. (accepted + n) - (s.position + n) = accepted - s.position
  BY <1>1
<1>8. Typed(Put(s, n)) /\ Buffered(Put(s, n), accepted + n)
  BY <1>1, <1>3, <1>6 DEF Sound, Typed, Buffered
<1> QED
  BY <1>6, <1>7, <1>8 DEF Sound

LEMMA ResultFields ==
    ASSUME NEW r, NEW x, NEW y, r = [s |-> x, ok |-> y]
    PROVE  r.s = x /\ r.ok = y
  OBVIOUS

\* What one call of writeBlock does to the buffer and the channel.
Outcome(x, ok, s, n, c, pos) ==
    LET data == SubSeq(s.array, 1, n)
    IN  /\ x \in Sides /\ x.array = s.array /\ ok \in BOOLEAN
        /\ IF ok THEN x.position = 0 /\ x.limit = BlockSize
                 ELSE x.position = pos /\ x.limit = n
        /\ \/ ok /\ x.kinds = s.kinds /\ x.sink = AddFrame(s.sink, data, data)
           \/ /\ ~ok /\ x.sink = s.sink
              /\ x.kinds = s.kinds \union {IF c THEN "headFails" ELSE "rawHeadFails"}
           \/ ~ok /\ x.sink = AddHead(s.sink, data) /\ x.kinds = s.kinds \union {"bodyFails"}
           \/ /\ ok /\ x.sink = AddFrame(s.sink, data, SubSeq(data, 1, n - 1))
              /\ x.kinds = s.kinds \union {"short"}

LEMMA BlockOutcomes ==
    ASSUME NEW s \in Sides, NEW n \in 1..BlockSize, NEW c \in BOOLEAN, NEW pos \in {0, n},
           NEW r \in writeBlock(s, n, c, pos)
    PROVE  Outcome(r.s, r.ok, s, n, c, pos)
<1> DEFINE data == SubSeq(s.array, 1, n)
           head == Part("head", data)
<1>1. /\ data \in Seq(Nat) /\ Len(data) = n /\ BlockSize \in Nat /\ n \in Nat /\ n <= BlockSize
      /\ s.sink \in Seq(Parts)
  <2>1. s.array \in [1..BlockSize -> Nat] /\ s.sink \in Seq(Parts)
    BY DEF Sides, Parts
  <2> QED
    BY <2>1, Front, FramedOutputAssumption
<1>2. SubSeq(data, 1, n - 1) \in Seq(Nat)
  BY <1>1, Shorter
<1> HIDE DEF data
<1>3. /\ head \in Parts /\ Part("body", data) \in Parts /\ Part("body", SubSeq(data, 1, n - 1)) \in Parts
  BY <1>1, <1>2 DEF Part, Parts, head
<1> HIDE DEF head
<1>4. /\ s.sink \o <<head, Part("body", data)>> \in Seq(Parts)
      /\ s.sink \o <<head, Part("body", SubSeq(data, 1, n - 1))>> \in Seq(Parts)
      /\ s.sink \o <<head>> \in Seq(Parts)
      /\ s.sink \o << >> = s.sink
  BY <1>1, <1>3, AppendTwo, AppendOne
<1>5. pos \in 0..BlockSize /\ n \in 0..BlockSize /\ 0 \in 0..BlockSize /\ BlockSize \in 0..BlockSize
  BY <1>1
<1>6. CASE r = [s |-> Move(s, <<head, Part("body", data)>>, 0, BlockSize), ok |-> TRUE]
  <2>1. r.s = Move(s, <<head, Part("body", data)>>, 0, BlockSize) /\ r.ok = TRUE
    BY <1>6, ResultFields, Zenon
  <2>2. Moved(r.s, s, <<head, Part("body", data)>>, 0, BlockSize)
    BY <1>4, <1>5, <2>1, MoveFields, Zenon
  <2> QED
    BY <2>1, <2>2, Zenon DEF Outcome, AddFrame, Moved, data, head
<1>7. CASE /\ s.faults < MaxFaults
           /\ r = [s |-> Blame(Move(s, << >>, pos, n),
                               IF c THEN "headFails" ELSE "rawHeadFails"), ok |-> FALSE]
  <2>1. PICK k \in {"headFails", "rawHeadFails"} : k = IF c THEN "headFails" ELSE "rawHeadFails"
    OBVIOUS
  <2>2. r.s = Blame(Move(s, << >>, pos, n), k) /\ r.ok = FALSE
    BY <1>7, <2>1, ResultFields, Zenon
  <2>3. PICK x : x = Move(s, << >>, pos, n)
    OBVIOUS
  <2>4. s.sink \o << >> \in Seq(Parts)
    BY <1>1, <1>4
  <2>5. Moved(x, s, << >>, pos, n)
    BY <1>5, <2>3, <2>4, MoveFields, Zenon
  <2>6. Moved(x, s, << >>, pos, n) /\ r.s = Blame(x, k)
    BY <2>2, <2>3, <2>5, Zenon
  <2>7. Blamed(r.s, x, k)
    BY <1>7, <2>6, BlameFields DEF Moved
  <2> QED
    BY <1>4, <2>1, <2>2, <2>6, <2>7, Zenon DEF Outcome, AddHead, AddFrame, Moved, Blamed, data, head
<1>8. CASE /\ s.faults < MaxFaults
           /\ r = [s |-> Blame(Move(s, <<head>>, pos, n), "bodyFails"), ok |-> FALSE]
  <2>1. r.s = Blame(Move(s, <<head>>, pos, n), "bodyFails") /\ r.ok = FALSE
    BY <1>8, ResultFields, Zenon
  <2>2. PICK x : x = Move(s, <<head>>, pos, n)
    OBVIOUS
  <2>3. Moved(x, s, <<head>>, pos, n) /\ r.s = Blame(x, "bodyFails")
    BY <1>4, <1>5, <2>1, <2>2, MoveFields, Zenon
  <2>4. Blamed(r.s, x, "bodyFails")
    BY <1>8, <2>3, BlameFields DEF Moved
  <2> QED
    BY <2>1, <2>3, <2>4, Zenon DEF Outcome, AddHead, AddFrame, Moved, Blamed, data, head
<1>9. CASE /\ s.faults < MaxFaults
           /\ r = [s |-> Blame(Move(s, <<head, Part("body", SubSeq(data, 1, n - 1))>>,
                                    0, BlockSize), "short"), ok |-> TRUE]
  <2>1. /\ r.s = Blame(Move(s, <<head, Part("body", SubSeq(data, 1, n - 1))>>, 0, BlockSize),
                       "short")
        /\ r.ok = TRUE
    BY <1>9, ResultFields, Zenon
  <2>2. PICK x : x = Move(s, <<head, Part("body", SubSeq(data, 1, n - 1))>>, 0, BlockSize)
    OBVIOUS
  <2>3. /\ Moved(x, s, <<head, Part("body", SubSeq(data, 1, n - 1))>>, 0, BlockSize)
        /\ r.s = Blame(x, "short")
    BY <1>4, <1>5, <2>1, <2>2, MoveFields, Zenon
  <2>4. Blamed(r.s, x, "short")
    BY <1>9, <2>3, BlameFields DEF Moved
  <2> QED
    BY <2>1, <2>3, <2>4, Zenon DEF Outcome, AddHead, AddFrame, Moved, Blamed, data, head
<1> QED
  BY <1>6, <1>7, <1>8, <1>9 DEF writeBlock, Move, Blame, data, head
-----------------------------------------------------------------------------
(* What the channel has received after a flush.                            *)

\* What AddHead and AddFrame make of a channel.
Extends(x, q, k) ==
    /\ x \in Seq(Parts) /\ x # << >>
    /\ Len(q) \in Nat /\ Len(x) = Len(q) + k
    /\ \A i \in 1..Len(q) : x[i] = q[i]

LEMMA HeadAdded ==
    ASSUME NEW q \in Seq(Parts), NEW d \in Seq(Nat)
    PROVE  /\ Extends(AddHead(q, d), q, 1)
           /\ AddHead(q, d)[Len(q) + 1].part = "head" /\ AddHead(q, d)[Len(q) + 1].data = d
<1>1. PICK h : h = Part("head", d)
  OBVIOUS
<1>1a. h \in Parts /\ h.part = "head" /\ h.data = d
  BY <1>1 DEF Part, Parts
<1>2. AddHead(q, d) = q \o <<h>>
  BY <1>1, Zenon DEF AddHead
<1>3. Extends(q \o <<h>>, q, 1) /\ (q \o <<h>>)[Len(q) + 1] = h
  <2>1. PICK x : x = q \o <<h>>
    OBVIOUS
  <2>2. x # << >>
    BY <1>1a, <2>1, NotEmpty, Zenon
  <2>3. /\ x \in Seq(Parts) /\ Len(q) \in Nat /\ Len(x) = Len(q) + 1
        /\ \A i \in 1..Len(q) : x[i] = q[i]
        /\ x[Len(q) + 1] = h
    <3>1. /\ q \o <<h>> \in Seq(Parts)
          /\ Len(q) \in Nat /\ Len(q \o <<h>>) = Len(q) + 1
          /\ \A i \in 1..Len(q) : (q \o <<h>>)[i] = q[i]
          /\ (q \o <<h>>)[Len(q) + 1] = h
      BY <1>1a, AppendOne, Zenon
    <3> QED
      BY <2>1, <3>1
  <2>4. Extends(x, q, 1)
    BY <2>2, <2>3 DEF Extends
  <2> QED
    BY <2>1, <2>3, <2>4, Zenon
<1> QED
  BY <1>1, <1>1a, <1>2, <1>3, Zenon

LEMMA FrameAdded ==
    ASSUME NEW q \in Seq(Parts), NEW d \in Seq(Nat), NEW e \in Seq(Nat)
    PROVE  /\ Extends(AddFrame(q, d, e), q, 2)
           /\ AddFrame(q, d, e)[Len(q) + 1].part = "head"
           /\ AddFrame(q, d, e)[Len(q) + 1].data = d
           /\ AddFrame(q, d, e)[Len(q) + 2].part = "body"
           /\ AddFrame(q, d, e)[Len(q) + 2].data = e
<1>1. PICK h : h = Part("head", d)
  OBVIOUS
<1>1a. h \in Parts /\ h.part = "head" /\ h.data = d
  BY <1>1 DEF Part, Parts
<1>2. PICK g : g = Part("body", e)
  OBVIOUS
<1>2a. g \in Parts /\ g.part = "body" /\ g.data = e
  BY <1>2 DEF Part, Parts
<1>3. AddFrame(q, d, e) = q \o <<h, g>>
  BY <1>1, <1>2, Zenon DEF AddFrame
<1>4. /\ Extends(q \o <<h, g>>, q, 2)
      /\ (q \o <<h, g>>)[Len(q) + 1] = h /\ (q \o <<h, g>>)[Len(q) + 2] = g
  <2>1. q \o <<h, g>> # << >>
    BY <1>1a, <1>2a, NotEmpty, Zenon
  <2> QED
    <3>1. /\ q \o <<h, g>> \in Seq(Parts)
          /\ Len(q) \in Nat /\ Len(q \o <<h, g>>) = Len(q) + 2
          /\ \A i \in 1..Len(q) : (q \o <<h, g>>)[i] = q[i]
          /\ (q \o <<h, g>>)[Len(q) + 1] = h
          /\ (q \o <<h, g>>)[Len(q) + 2] = g
      BY <1>1a, <1>2a, AppendTwo
    <3> QED
      BY <2>1, <3>1, Zenon DEF Extends
<1> QED
  BY <1>1, <1>1a, <1>2, <1>2a, <1>3, <1>4, Zenon

LEMMA AddedNotEmpty ==
    ASSUME NEW q \in Seq(Parts), NEW d \in Seq(Nat), NEW e \in Seq(Nat)
    PROVE  /\ AddHead(q, d) \in Seq(Parts) /\ AddHead(q, d) # << >>
           /\ AddFrame(q, d, e) \in Seq(Parts) /\ AddFrame(q, d, e) # << >>
<1>1. Extends(AddHead(q, d), q, 1)
  BY HeadAdded
<1>2. Extends(AddFrame(q, d, e), q, 2)
  BY FrameAdded
<1> QED
  BY <1>1, <1>2, Zenon DEF Extends

LEMMA OrderedLater ==
    ASSUME NEW q \in Seq(Parts), NEW m \in Nat, NEW l \in Nat, m <= l, Ordered(q, m)
    PROVE  Ordered(q, l)
<1>1. \A i \in 1..Len(q) : q[i].part = "body" =>
        \A k \in 1..Len(q[i].data) : q[i].data[k] <= l
  <2>1. SUFFICES ASSUME NEW i \in 1..Len(q), q[i].part = "body", NEW k \in 1..Len(q[i].data)
                 PROVE  q[i].data[k] <= l
    OBVIOUS
  <2>2. q[i] \in Parts
    OBVIOUS
  <2>3. q[i].data \in Seq(Nat)
    BY <2>2 DEF Parts
  <2>4. PICK y \in Nat : y = q[i].data[k]
    BY <2>3
  <2>5. y <= m
    BY <2>1, <2>4 DEF Ordered
  <2> QED
    BY <2>4, <2>5
<1> QED
  BY <1>1, Zenon DEF Ordered

LEMMA OrderedHead ==
    ASSUME NEW q \in Seq(Parts), NEW d \in Seq(Nat), NEW m \in Nat, Ordered(q, m)
    PROVE  Ordered(AddHead(q, d), m)
<1>1. PICK x : x = AddHead(q, d)
  OBVIOUS
<1>2. /\ Len(q) \in Nat /\ Len(x) = Len(q) + 1
      /\ \A i \in 1..Len(q) : x[i] = q[i]
      /\ x[Len(q) + 1].part # "body"
  BY <1>1, HeadAdded DEF Extends
<1>3. \A i \in 1..Len(x) : x[i].part = "body" => i \in 1..Len(q) /\ x[i] = q[i]
  BY <1>2
<1>4. Ordered(x, m)
  BY <1>3 DEF Ordered
<1> QED
  BY <1>1, <1>4

LEMMA Between ==
    ASSUME NEW u \in Nat, NEW m \in Nat, NEW w \in Nat, u <= m, m < w
    PROVE  u < w
  OBVIOUS

\* A frame after m bytes, with at most l of them.
LEMMA OrderedFrame ==
    ASSUME NEW q \in Seq(Parts), NEW d \in Seq(Nat), NEW e \in Seq(Nat), NEW m \in Nat, NEW l \in Nat,
           Len(e) <= l, \A k \in 1..Len(e) : e[k] = m + k, Ordered(q, m)
    PROVE  Ordered(AddFrame(q, d, e), m + l)
<1>1. PICK x : x = AddFrame(q, d, e)
  OBVIOUS
<1>2. PICK n \in Nat : n = Len(q)
  OBVIOUS
<1>3. /\ Len(x) = n + 2
      /\ \A i \in 1..n : x[i] = q[i] /\ x[i].data \in Seq(Nat)
      /\ x[n + 1].part # "body" /\ x[n + 2].data = e
  <2>1. \A i \in 1..n : q[i] \in Parts
    BY <1>2
  <2>2. \A i \in 1..n : q[i].data \in Seq(Nat)
    BY <2>1 DEF Parts
  <2>3. /\ Extends(x, q, 2)
        /\ x[n + 1].part = "head" /\ x[n + 2].data = e
    <3>1. /\ Extends(AddFrame(q, d, e), q, 2)
          /\ AddFrame(q, d, e)[Len(q) + 1].part = "head"
          /\ AddFrame(q, d, e)[Len(q) + 2].data = e
      BY FrameAdded
    <3> QED
      BY <1>1, <1>2, <3>1
  <2> QED
    BY <1>2, <2>2, <2>3 DEF Extends
<1>4. \A i \in 1..Len(x) : x[i].part = "body" => i \in 1..n \/ i = n + 2
  BY <1>3
<1>5. \A k \in 1..Len(e) : e[k] \in Nat /\ m < e[k] /\ e[k] <= m + l
  OBVIOUS
<1>6. \A i \in 1..n : x[i].part = "body" =>
        \A k \in 1..Len(x[i].data) : x[i].data[k] \in Nat /\ x[i].data[k] <= m
  <2>1. SUFFICES ASSUME NEW i \in 1..n, x[i].part = "body", NEW k \in 1..Len(x[i].data)
                 PROVE  x[i].data[k] \in Nat /\ x[i].data[k] <= m
    OBVIOUS
  <2>2. x[i] = q[i] /\ x[i].data \in Seq(Nat) /\ i \in 1..Len(q)
    BY <1>2, <1>3
  <2>3. q[i].data[k] <= m
    BY <2>1, <2>2 DEF Ordered
  <2>4. PICK z \in Seq(Nat) : z = x[i].data
    BY <2>2
  <2>5. k \in 1..Len(z)
    BY <2>1, <2>4
  <2>6. z[k] \in Nat
    BY <2>5
  <2> QED
    BY <2>2, <2>3, <2>4, <2>6
<1>7. \A i \in 1..Len(x) : x[i].part = "body" =>
        \A k \in 1..Len(x[i].data) : x[i].data[k] <= m + l
  <2>1. SUFFICES ASSUME NEW i \in 1..Len(x), x[i].part = "body", NEW k \in 1..Len(x[i].data)
                 PROVE  x[i].data[k] <= m + l
    OBVIOUS
  <2>2. CASE i \in 1..n
    <3>1. x[i].data[k] \in Nat /\ x[i].data[k] <= m
      BY <1>6, <2>1, <2>2
    <3> QED
      BY <3>1
  <2>3. CASE i = n + 2
    BY <1>3, <1>5, <2>3
  <2> QED
    BY <1>4, <2>1, <2>2, <2>3
<1>8. \A i, j \in 1..Len(x) : x[i].part = "body" /\ x[j].part = "body" =>
        \A k \in 1..Len(x[i].data), h \in 1..Len(x[j].data) :
          i < j \/ (i = j /\ k < h) => x[i].data[k] < x[j].data[h]
  <2>1. SUFFICES ASSUME NEW i \in 1..Len(x), NEW j \in 1..Len(x),
                        x[i].part = "body", x[j].part = "body",
                        NEW k \in 1..Len(x[i].data), NEW h \in 1..Len(x[j].data),
                        i < j \/ (i = j /\ k < h)
                 PROVE  x[i].data[k] < x[j].data[h]
    OBVIOUS
  <2>2. CASE i \in 1..n /\ j \in 1..n
    BY <1>2, <1>3, <2>1, <2>2 DEF Ordered
  <2>3. CASE i \in 1..n /\ j = n + 2
    <3>1. PICK u \in Nat : u = x[i].data[k] /\ u <= m
      BY <1>6, <2>1, <2>3
    <3>2. x[j].data = e /\ h \in 1..Len(e)
      BY <1>3, <2>1, <2>3
    <3>3. PICK w \in Nat : w = x[j].data[h] /\ m < w
      BY <1>5, <3>2
    <3> QED
      BY <3>1, <3>3, Between, Zenon
  <2>4. CASE i = n + 2 /\ j = n + 2
    <3>1. x[i].data = e /\ x[j].data = e /\ k < h
      BY <1>3, <2>1, <2>4
    <3>2. k \in 1..Len(e) /\ h \in 1..Len(e)
      BY <2>1, <3>1
    <3>3. e[k] = m + k /\ e[h] = m + h
      BY <3>2
    <3>4. e[k] < e[h]
      BY <3>1, <3>2, <3>3
    <3> QED
      BY <3>1, <3>4
  <2> QED
    BY <1>4, <2>1, <2>2, <2>3, <2>4
<1>9. Ordered(x, m + l)
  BY <1>7, <1>8, Zenon DEF Ordered
<1> QED
  BY <1>1, <1>9

\* A frame with the data that its checksum is of.
LEMMA FramesFrame ==
    ASSUME NEW q \in Seq(Parts), NEW d \in Seq(Nat), q # << >>, Len(d) \in 1..BlockSize, Frames(q)
    PROVE  Frames(AddFrame(q, d, d))
<1>1. PICK x : x = AddFrame(q, d, d)
  OBVIOUS
<1>2. PICK n \in Nat : n = Len(q)
  OBVIOUS
<1>3. /\ Len(x) = n + 2
      /\ \A i \in 1..n : x[i] = q[i]
      /\ x[n + 1].part = "head" /\ x[n + 1].data = d
      /\ x[n + 2].part = "body" /\ x[n + 2].data = d
  BY <1>1, <1>2, FrameAdded DEF Extends
<1>4. n >= 1 /\ n % 2 = 1
  BY <1>2 DEF Frames
<1>5. /\ (n + 1) % 2 = 0 /\ (n + 2) % 2 = 1 /\ n + 1 # 1 /\ n + 2 # 1
  BY <1>4
<1>6. \A i \in 1..Len(x) :
        /\ x[i].part = (IF i = 1 THEN "id" ELSE IF i % 2 = 0 THEN "head" ELSE "body")
        /\ i = 1 => x[i].data = << >>
        /\ x[i].part # "id" => Len(x[i].data) \in 1..BlockSize
        /\ x[i].part = "body" => x[i].data = x[i - 1].data
  <2>1. SUFFICES ASSUME NEW i \in 1..Len(x)
                 PROVE  /\ x[i].part = (IF i = 1 THEN "id" ELSE IF i % 2 = 0 THEN "head" ELSE "body")
                        /\ i = 1 => x[i].data = << >>
                        /\ x[i].part # "id" => Len(x[i].data) \in 1..BlockSize
                        /\ x[i].part = "body" => x[i].data = x[i - 1].data
    OBVIOUS
  <2>2. CASE i \in 1..n
    <3>1. x[i] = q[i] /\ (i # 1 => i - 1 \in 1..n /\ x[i - 1] = q[i - 1])
      BY <1>3, <2>2
    <3> QED
      BY <1>2, <2>2, <3>1 DEF Frames
  <2>3. CASE i = n + 1
    BY <1>3, <1>5, <2>3
  <2>4. CASE i = n + 2
    <3>1. i - 1 = n + 1
      BY <2>4
    <3> QED
      BY <1>3, <1>5, <2>4, <3>1
  <2> QED
    BY <1>3, <2>1, <2>2, <2>3, <2>4
<1>7. Frames(x)
  BY <1>3, <1>5, <1>6 DEF Frames
<1> QED
  BY <1>1, <1>7

LEMMA CompleteFrame ==
    ASSUME NEW q \in Seq(Parts), NEW d \in Seq(Nat), NEW m \in Nat,
           q # << >>, Len(d) >= 1, Frames(q), Complete(q, m),
           \A k \in 1..Len(d) : d[k] = m + k
    PROVE  Complete(AddFrame(q, d, d), m + Len(d))
<1>1. PICK x : x = AddFrame(q, d, d)
  OBVIOUS
<1>2. PICK n \in Nat : n = Len(q)
  OBVIOUS
<1>3. /\ Len(x) = n + 2
      /\ \A i \in 1..n : x[i] = q[i]
      /\ x[n + 1].part = "head" /\ x[n + 2].part = "body" /\ x[n + 2].data = d
  BY <1>1, <1>2, FrameAdded DEF Extends
<1>4. n >= 1 /\ n % 2 = 1
  BY <1>2 DEF Frames
<1>5. After(q, n) \in Int
  <2>1. q[n] \in Parts
    BY <1>2, <1>4
  <2>2. q[n].data \in Seq(Nat)
    BY <2>1 DEF Parts
  <2>3. PICK z \in Seq(Nat) : z = q[n].data
    BY <2>2
  <2>4. z # << >> => Len(z) \in 1..Len(z) /\ z[Len(z)] \in Nat
    OBVIOUS
  <2>5. After(q, n) = IF n = 0 \/ z = << >> THEN 1 ELSE z[Len(z)] + 1
    BY <2>3, Zenon DEF After
  <2> QED
    BY <2>4, <2>5
<1>6. After(q, n) = m + 1
  BY <1>2, <1>5 DEF Complete, Delivered
<1>7. \A i \in 0..n : After(x, i) = After(q, i)
  BY <1>3 DEF After
<1>8. \A i \in 1..Len(x) : x[i].part = "body" => IsRun(x[i].data, After(x, i - 2))
  <2>1. SUFFICES ASSUME NEW i \in 1..Len(x), x[i].part = "body"
                 PROVE  IsRun(x[i].data, After(x, i - 2))
    OBVIOUS
  <2>2. CASE i \in 1..n
    <3>1. x[i] = q[i] /\ q[i].part = "body"
      BY <1>3, <2>1, <2>2
    <3>2. i # 1
      BY <1>2, <2>2, <3>1 DEF Frames
    <3>3. i # 2
      <4>1. 2 % 2 = 0
        OBVIOUS
      <4> QED
        BY <1>2, <2>2, <3>1, <4>1 DEF Frames
    <3>4. i - 2 \in 0..n
      BY <2>2, <3>2, <3>3
    <3>5. IsRun(q[i].data, After(q, i - 2))
      BY <1>2, <2>2, <3>1 DEF Complete
    <3> QED
      BY <1>7, <3>1, <3>4, <3>5
  <2>3. CASE i = n + 2
    <3>1. i - 2 = n /\ n \in 0..n
      BY <2>3
    <3>2. After(x, i - 2) = m + 1
      BY <1>6, <1>7, <3>1
    <3>3. IsRun(d, m + 1)
      BY DEF IsRun
    <3>4. x[i].data = d
      BY <1>3, <2>3
    <3> QED
      BY <3>2, <3>3, <3>4, Zenon
  <2>4. i \in 1..n \/ i = n + 2
    <3>1. i \in 1..n \/ i = n + 1 \/ i = n + 2
      BY <1>3
    <3> QED
      BY <1>3, <2>1, <3>1
  <2> QED
    BY <2>2, <2>3, <2>4, Zenon
<1>9. Delivered(x) = m + Len(d)
  <2>1. d # << >> /\ d[Len(d)] = m + Len(d) /\ n + 2 # 0
    OBVIOUS
  <2>2. After(x, n + 2) = m + Len(d) + 1
    BY <1>3, <2>1 DEF After
  <2> QED
    BY <1>3, <2>2 DEF Delivered
<1>10. Complete(x, m + Len(d))
  BY <1>8, <1>9 DEF Complete
<1> QED
  BY <1>1, <1>10

\* What there is to flush.
LEMMA BlockData ==
    ASSUME NEW s, NEW n \in Nat, Sound(s, n), s.position > 0
    PROVE  /\ s \in Sides /\ s.sink \in Seq(Parts)
           /\ s.position \in 1..BlockSize /\ n - s.position \in Nat
           /\ SubSeq(s.array, 1, s.position) \in Seq(Nat)
           /\ Len(SubSeq(s.array, 1, s.position)) = s.position
           /\ \A k \in 1..s.position :
                SubSeq(s.array, 1, s.position)[k] = (n - s.position) + k
<1>1. /\ s \in Sides /\ s.sink \in Seq(Parts) /\ s.array \in [1..BlockSize -> Nat]
      /\ s.position \in 1..BlockSize /\ n - s.position \in Nat /\ BlockSize \in Nat
  <2>1. BlockSize \in Nat
    BY FramedOutputAssumption
  <2>2. s \in Sides /\ s.position <= n
    BY DEF Sound, Typed, Buffered
  <2>3. /\ s.sink \in Seq(Parts) /\ s.array \in [1..BlockSize -> Nat]
        /\ s.position \in 0..BlockSize
    BY <2>2 DEF Sides, Parts
  <2> QED
    BY <2>1, <2>2, <2>3
<1>2. /\ SubSeq(s.array, 1, s.position) \in Seq(Nat)
      /\ Len(SubSeq(s.array, 1, s.position)) = s.position
      /\ \A k \in 1..s.position : SubSeq(s.array, 1, s.position)[k] = s.array[k]
  BY <1>1, Front, Zenon
<1>3. \A k \in 1..s.position : s.array[k] = (n - s.position) + k
  <2>1. \A j \in 1..BlockSize : j <= s.position => s.array[j] = (n - s.position) + j
    BY Zenon DEF Sound, Buffered
  <2>2. \A k \in 1..s.position : k \in 1..BlockSize /\ k <= s.position
    BY <1>1
  <2> QED
    BY <2>1, <2>2, Zenon
<1> QED
  BY <1>1, <1>2, <1>3

\* The kinds only grow.
LEMMA KindsGrow ==
    ASSUME NEW s, NEW x, NEW k, x.kinds = s.kinds \union {k}
    PROVE  /\ x.kinds \intersect {"bodyFails", "short"} = {} =>
                s.kinds \intersect {"bodyFails", "short"} = {} /\ k \notin {"bodyFails", "short"}
           /\ x.kinds \subseteq {"headFails"} => s.kinds \subseteq {"headFails"} /\ k = "headFails"
  OBVIOUS

\* After an attempt at a block: the stream is sound again, and a block that went
\* out left the buffer empty.
Attempted(x, ok, n) ==
    /\ Sound(x, n) /\ x.sink # << >> /\ ok \in BOOLEAN
    /\ ok => x.position = 0

LEMMA SentSound ==
    ASSUME NEW s, NEW x, NEW n \in Nat, NEW d, Sound(s, n), s.position > 0, s.sink # << >>,
           d = SubSeq(s.array, 1, s.position),
           x \in Sides, x.position = 0, x.limit = BlockSize,
           x.kinds = s.kinds, x.sink = AddFrame(s.sink, d, d)
    PROVE  Attempted(x, TRUE, n)
<1>1. PICK p \in 1..BlockSize : p = s.position
  BY BlockData
<1>2. PICK m \in Nat : m = n - p
  BY <1>1, BlockData
<1>3. /\ s \in Sides /\ s.sink \in Seq(Parts) /\ d \in Seq(Nat) /\ Len(d) = p
      /\ \A k \in 1..p : d[k] = m + k
  BY <1>1, <1>2, BlockData
<1>4. BlockSize \in Nat /\ BlockSize >= 1 /\ n - 0 = n /\ m + p = n /\ p \in Nat /\ p >= 1
  BY <1>1, <1>2, FramedOutputAssumption
<1>5. PICK q : q = s.sink
  OBVIOUS
<1>6. q \in Seq(Parts) /\ q # << >> /\ x.sink = AddFrame(q, d, d)
  BY <1>3, <1>5
<1>7. /\ Ordered(q, m)
      /\ s.kinds \intersect {"bodyFails", "short"} = {} => Frames(q)
      /\ s.kinds \subseteq {"headFails"} => Complete(q, m)
  BY <1>1, <1>2, <1>5, Zenon DEF Sound
<1>8. Ordered(x.sink, n)
  <2>1. Len(d) <= p /\ \A k \in 1..Len(d) : d[k] = m + k
    BY <1>3, <1>4
  <2>2. Ordered(AddFrame(q, d, d), m + p)
    BY <1>3, <1>4, <1>6, <1>7, <2>1, OrderedFrame, Zenon
  <2> QED
    BY <1>4, <1>6, <2>2
<1>9. x.kinds \intersect {"bodyFails", "short"} = {} => Frames(x.sink)
  BY <1>3, <1>4, <1>6, <1>7, FramesFrame
<1>10. x.kinds \subseteq {"headFails"} => Complete(x.sink, n)
  <2>1. SUFFICES ASSUME s.kinds \subseteq {"headFails"}
                 PROVE  Complete(AddFrame(q, d, d), n)
    BY <1>6
  <2>2. s.kinds \intersect {"bodyFails", "short"} = {}
    BY <2>1
  <2>3. Complete(AddFrame(q, d, d), m + Len(d))
    BY <1>3, <1>4, <1>6, <1>7, <2>1, <2>2, CompleteFrame
  <2> QED
    BY <1>3, <1>4, <2>3
<1>11. Typed(x) /\ Buffered(x, n)
  BY <1>4 DEF Typed, Buffered
<1>12. x.sink # << >>
  BY <1>3, <1>6, AddedNotEmpty
<1>13. Sound(x, n)
  BY <1>4, <1>8, <1>9, <1>10, <1>11 DEF Sound
<1> QED
  BY <1>12, <1>13 DEF Attempted

\* The channel refused the head.  Of a compressed block the position is where it was.
LEMMA RefusedSound ==
    ASSUME NEW s, NEW x, NEW n \in Nat, NEW c \in BOOLEAN,
           Sound(s, n), s.position > 0, s.sink # << >>,
           x \in Sides, x.array = s.array, x.sink = s.sink,
           x.position = (IF c THEN s.position ELSE 0), x.limit = s.position,
           x.kinds = s.kinds \union {IF c THEN "headFails" ELSE "rawHeadFails"}
    PROVE  Attempted(x, FALSE, n)
<1>1. PICK p \in 1..BlockSize : p = s.position
  BY BlockData
<1>2. PICK m \in Nat : m = n - p
  BY <1>1, BlockData
<1>3. s.sink \in Seq(Parts)
  BY BlockData
<1>4. BlockSize \in Nat /\ n - 0 = n /\ m <= n /\ p \in Nat /\ p >= 1
  BY <1>1, <1>2, FramedOutputAssumption
<1>5. /\ Ordered(s.sink, m)
      /\ s.kinds \intersect {"bodyFails", "short"} = {} => Frames(s.sink)
      /\ s.kinds \subseteq {"headFails"} => Complete(s.sink, m)
  BY <1>1, <1>2, Zenon DEF Sound
<1>6. PICK k : k = IF c THEN "headFails" ELSE "rawHeadFails"
  OBVIOUS
<1>7. x.kinds = s.kinds \union {k}
  BY <1>6
<1>8. x.kinds \intersect {"bodyFails", "short"} = {} => Frames(x.sink)
  BY <1>5, <1>7, KindsGrow
<1>9. x.kinds \subseteq {"headFails"} => c /\ Complete(x.sink, m)
  <2>1. k = "headFails" => c
    BY <1>6
  <2> QED
    BY <1>5, <1>7, <2>1, KindsGrow
<1>10. CASE c
  <2>1. x.position = p /\ n - x.position = m
    BY <1>1, <1>2, <1>10
  <2>2. Typed(x)
    BY <1>1, <1>4, <2>1 DEF Typed
  <2>3. Buffered(x, n)
    BY <1>1, <2>1 DEF Sound, Buffered
  <2>4. Sound(x, n)
    BY <1>5, <1>8, <1>9, <2>1, <2>2, <2>3 DEF Sound
  <2> QED
    BY <2>4 DEF Attempted
<1>11. CASE ~c
  <2>1. x.position = 0 /\ n - x.position = n
    BY <1>4, <1>11
  <2>2. Typed(x) /\ Buffered(x, n)
    BY <1>1, <1>4, <2>1 DEF Typed, Buffered
  <2>3. Ordered(x.sink, n)
    BY <1>3, <1>4, <1>5, OrderedLater
  <2>4. Sound(x, n)
    BY <1>8, <1>9, <1>11, <2>1, <2>2, <2>3 DEF Sound
  <2> QED
    BY <2>4 DEF Attempted
<1> QED
  BY <1>10, <1>11

\* The channel took the head and refused the body.
LEMMA HeadlessSound ==
    ASSUME NEW s, NEW x, NEW n \in Nat, NEW d, NEW pos,
           Sound(s, n), s.position > 0, s.sink # << >>,
           d = SubSeq(s.array, 1, s.position), pos \in {0, s.position},
           x \in Sides, x.array = s.array, x.sink = AddHead(s.sink, d),
           x.position = pos, x.limit = s.position,
           x.kinds = s.kinds \union {"bodyFails"}
    PROVE  Attempted(x, FALSE, n)
<1>1. PICK p \in 1..BlockSize : p = s.position
  BY BlockData
<1>2. PICK m \in Nat : m = n - p
  BY <1>1, BlockData
<1>3. s.sink \in Seq(Parts) /\ d \in Seq(Nat)
  BY BlockData
<1>4. BlockSize \in Nat /\ n - 0 = n /\ m <= n /\ p \in Nat /\ p >= 1
  BY <1>1, <1>2, FramedOutputAssumption
<1>5. Ordered(s.sink, m)
  BY <1>1, <1>2, Zenon DEF Sound
<1>6. Ordered(x.sink, m)
  BY <1>3, <1>5, OrderedHead
<1>7. x.sink \in Seq(Parts) /\ x.sink # << >>
  BY <1>3, AddedNotEmpty
<1>8. /\ x.kinds \intersect {"bodyFails", "short"} # {}
      /\ ~(x.kinds \subseteq {"headFails"})
  BY KindsGrow
<1>9. CASE pos = p
  <2>1. x.position = p /\ n - x.position = m
    BY <1>1, <1>2, <1>9
  <2>2. Typed(x)
    BY <1>1, <1>4, <2>1 DEF Typed
  <2>3. Buffered(x, n)
    BY <1>1, <2>1 DEF Sound, Buffered
  <2>4. Sound(x, n)
    BY <1>6, <1>8, <2>1, <2>2, <2>3 DEF Sound
  <2> QED
    BY <1>7, <2>4 DEF Attempted
<1>10. CASE pos = 0
  <2>1. x.position = 0 /\ n - x.position = n
    BY <1>4, <1>10
  <2>2. Typed(x) /\ Buffered(x, n)
    BY <1>1, <1>4, <2>1 DEF Typed, Buffered
  <2>3. Ordered(x.sink, n)
    BY <1>4, <1>6, <1>7, OrderedLater
  <2>4. Sound(x, n)
    BY <1>8, <2>1, <2>2, <2>3 DEF Sound
  <2> QED
    BY <1>7, <2>4 DEF Attempted
<1> QED
  BY <1>1, <1>9, <1>10

\* The channel took one byte too few of the body.
LEMMA ShortSound ==
    ASSUME NEW s, NEW x, NEW n \in Nat, NEW d, Sound(s, n), s.position > 0, s.sink # << >>,
           d = SubSeq(s.array, 1, s.position),
           x \in Sides, x.position = 0, x.limit = BlockSize,
           x.sink = AddFrame(s.sink, d, SubSeq(d, 1, s.position - 1)),
           x.kinds = s.kinds \union {"short"}
    PROVE  Attempted(x, TRUE, n)
<1>1. PICK p \in 1..BlockSize : p = s.position
  BY BlockData
<1>2. PICK m \in Nat : m = n - p
  BY <1>1, BlockData
<1>3. /\ s.sink \in Seq(Parts) /\ d \in Seq(Nat) /\ Len(d) = p
      /\ \A k \in 1..p : d[k] = m + k
  BY <1>1, <1>2, BlockData
<1>4. BlockSize \in Nat /\ BlockSize >= 1 /\ n - 0 = n /\ m + p = n /\ p \in Nat /\ p >= 1
  BY <1>1, <1>2, FramedOutputAssumption
<1>5. Ordered(s.sink, m)
  BY <1>1, <1>2, Zenon DEF Sound
<1>6. PICK e : e = SubSeq(d, 1, p - 1)
  OBVIOUS
<1>7. e \in Seq(Nat) /\ Len(e) <= p /\ \A k \in 1..Len(e) : e[k] = m + k
  BY <1>3, <1>4, <1>6, ShorterRun, SMTT(30)
<1>8. x.sink = AddFrame(s.sink, d, e)
  BY <1>1, <1>6
<1>9. Ordered(x.sink, n)
  <2>1. Ordered(AddFrame(s.sink, d, e), m + p)
    BY <1>3, <1>4, <1>5, <1>7, OrderedFrame
  <2> QED
    BY <1>4, <1>8, <2>1
<1>10. x.sink # << >>
  BY <1>3, <1>7, <1>8, AddedNotEmpty
<1>11. /\ x.kinds \intersect {"bodyFails", "short"} # {}
       /\ ~(x.kinds \subseteq {"headFails"})
  BY KindsGrow
<1>12. Typed(x) /\ Buffered(x, n)
  BY <1>4 DEF Typed, Buffered
<1>13. Sound(x, n)
  BY <1>4, <1>9, <1>11, <1>12 DEF Sound
<1> QED
  BY <1>10, <1>13 DEF Attempted
-----------------------------------------------------------------------------
(* flushBuffer and what most calls begin with.                             *)

LEMMA FlushSound ==
    ASSUME NEW s, NEW n \in Nat, Sound(s, n), s.sink # << >>, NEW r \in flushBuffer(s)
    PROVE  Attempted(r.s, r.ok, n)
<1>1. s.position \in Nat
  BY FramedOutputAssumption DEF Sound, Typed, Sides
<1>2. CASE s.position > 0
  <2>1. PICK c \in Compressible :
               r \in writeBlock(s, s.position, c, IF c THEN s.position ELSE 0)
    BY <1>2 DEF flushBuffer, writeCompressed
  <2>2. c \in BOOLEAN
    BY FramedOutputAssumption
  <2>3. PICK pos : pos = IF c THEN s.position ELSE 0
    OBVIOUS
  <2>4. pos \in {0, s.position}
    BY <2>3
  <2>5. s \in Sides /\ s.position \in 1..BlockSize
    BY <1>2, BlockData
  <2>6. PICK d : d = SubSeq(s.array, 1, s.position)
    OBVIOUS
  <2>7. Outcome(r.s, r.ok, s, s.position, c, pos)
    BY <2>1, <2>2, <2>3, <2>4, <2>5, BlockOutcomes, Zenon
  <2>8. PICK x : x = r.s
    OBVIOUS
  <2>9. PICK ok : ok = r.ok
    OBVIOUS
  <2>10. Outcome(x, ok, s, s.position, c, pos)
    BY <2>7, <2>8, <2>9, Zenon
  <2>11. x \in Sides /\ x.array = s.array /\ ok \in BOOLEAN
    BY <2>10, Zenon DEF Outcome
  <2>12. /\ ok => x.position = 0 /\ x.limit = BlockSize
         /\ ~ok => x.position = pos /\ x.limit = s.position
    BY <2>10, Zenon DEF Outcome
  <2>13. \/ ok /\ x.kinds = s.kinds /\ x.sink = AddFrame(s.sink, d, d)
         \/ /\ ~ok /\ x.sink = s.sink
            /\ x.kinds = s.kinds \union {IF c THEN "headFails" ELSE "rawHeadFails"}
         \/ ~ok /\ x.sink = AddHead(s.sink, d) /\ x.kinds = s.kinds \union {"bodyFails"}
         \/ /\ ok /\ x.sink = AddFrame(s.sink, d, SubSeq(d, 1, s.position - 1))
            /\ x.kinds = s.kinds \union {"short"}
    BY <2>6, <2>10, Zenon DEF Outcome
  <2>14. CASE ok /\ x.kinds = s.kinds /\ x.sink = AddFrame(s.sink, d, d)
    <3>1. Attempted(x, TRUE, n)
      BY <1>2, <2>6, <2>11, <2>12, <2>14, SentSound, Zenon
    <3>2. ok = TRUE
      BY <2>11, <2>14
    <3> QED
      BY <2>8, <2>9, <3>1, <3>2, Zenon
  <2>15. CASE /\ ~ok /\ x.sink = s.sink
              /\ x.kinds = s.kinds \union {IF c THEN "headFails" ELSE "rawHeadFails"}
    <3>1. Attempted(x, FALSE, n)
      BY <1>2, <2>2, <2>3, <2>11, <2>12, <2>15, RefusedSound, Zenon
    <3>2. ok = FALSE
      BY <2>11, <2>15
    <3> QED
      BY <2>8, <2>9, <3>1, <3>2, Zenon
  <2>16. CASE ~ok /\ x.sink = AddHead(s.sink, d) /\ x.kinds = s.kinds \union {"bodyFails"}
    <3>1. Attempted(x, FALSE, n)
      BY <1>2, <2>4, <2>6, <2>11, <2>12, <2>16, HeadlessSound, Zenon
    <3>2. ok = FALSE
      BY <2>11, <2>16
    <3> QED
      BY <2>8, <2>9, <3>1, <3>2, Zenon
  <2>17. CASE /\ ok /\ x.sink = AddFrame(s.sink, d, SubSeq(d, 1, s.position - 1))
              /\ x.kinds = s.kinds \union {"short"}
    <3>1. Attempted(x, TRUE, n)
      BY <1>2, <2>6, <2>11, <2>12, <2>17, ShortSound, Zenon
    <3>2. ok = TRUE
      BY <2>11, <2>17
    <3> QED
      BY <2>8, <2>9, <3>1, <3>2, Zenon
  <2> QED
    BY <2>13, <2>14, <2>15, <2>16, <2>17, Zenon
<1>3. CASE s.position = 0
  <2>1. r = [s |-> s, ok |-> TRUE]
    BY <1>3 DEF flushBuffer
  <2>2. r.s = s /\ r.ok = TRUE
    BY <2>1, ResultFields, Zenon
  <2> QED
    BY <1>3, <2>2, Zenon DEF Attempted
<1> QED
  BY <1>1, <1>2, <1>3

LEMMA MakeRoomSound ==
    ASSUME NEW s, NEW n \in Nat, Sound(s, n), s.sink # << >>, NEW r \in MakeRoom(s)
    PROVE  /\ Sound(r.s, n) /\ r.s.sink # << >> /\ r.ok \in BOOLEAN
           /\ remaining(r.s) \in Nat
           /\ r.ok => remaining(r.s) >= 1
<1>1. Sound(r.s, n) /\ r.s.sink # << >> /\ r.ok \in BOOLEAN /\ (r.ok => remaining(r.s) > 0)
  <2>1. CASE remaining(s) <= 0
    <3>1. Attempted(r.s, r.ok, n)
      BY <2>1, FlushSound DEF MakeRoom
    <3>2. r.ok => r.s.position = 0 /\ r.s.limit >= 1 /\ r.s.limit \in Nat
      BY <3>1, FramedOutputAssumption DEF Attempted, Sound, Typed, Sides
    <3>3. r.ok => remaining(r.s) > 0
      BY <3>2 DEF remaining
    <3> QED
      BY <3>1, <3>3, Zenon DEF Attempted
  <2>2. CASE ~(remaining(s) <= 0)
    <3>1. r.s = s /\ r.ok = TRUE
      BY <2>2, ResultFields DEF MakeRoom
    <3>2. s.position \in Int /\ s.limit \in Int
      BY FramedOutputAssumption DEF Sound, Typed, Sides
    <3>3. remaining(s) > 0
      BY <2>2, <3>2 DEF remaining
    <3> QED
      BY <3>1, <3>3, Zenon
  <2> QED
    BY <2>1, <2>2
<1>2. r.s.position \in Nat /\ r.s.limit \in Nat /\ r.s.position <= r.s.limit
  BY <1>1, FramedOutputAssumption DEF Sound, Typed, Sides
<1> QED
  BY <1>1, <1>2 DEF remaining
-----------------------------------------------------------------------------
(* The steps.                                                              *)

LEMMA Starts ==
    ASSUME Init
    PROVE  FInv
<1>1. BlockSize \in Nat /\ BlockSize >= 1 /\ MaxFaults \in Nat /\ MaxBytes \in Nat
  BY FramedOutputAssumption
<1>2. /\ b.array = [i \in 1..BlockSize |-> 0] /\ b.position = 0 /\ b.limit = BlockSize
      /\ b.sink = << >> /\ b.kinds = {}
  BY DEF Init
<1>3. b \in Sides
  <2>1. << >> \in Seq([part : {"id", "head", "body"}, data : Seq(Nat)])
    OBVIOUS
  <2>2. [i \in 1..BlockSize |-> 0] \in [1..BlockSize -> Nat]
    OBVIOUS
  <2> QED
    BY <1>1, <2>1, <2>2 DEF Init, Sides
<1>4. Typed(b) /\ Buffered(b, accepted)
  BY <1>1, <1>2, <1>3 DEF Init, Typed, Buffered
<1>5. Ordered(b.sink, accepted - b.position) /\ Frames(b.sink)
  <2>1. Len(b.sink) = 0
    BY <1>2
  <2> QED
    BY <2>1 DEF Ordered, Frames
<1>6. Complete(b.sink, accepted - b.position)
  <2>1. Len(b.sink) = 0 /\ accepted - b.position = 0
    BY <1>2 DEF Init
  <2> QED
    BY <2>1 DEF Complete, Delivered, After
<1>7. Sound(b, accepted)
  BY <1>4, <1>5, <1>6, Zenon DEF Sound
<1>8. Fields
  <2>1. /\ held = 0 /\ closed = FALSE /\ outClosed = FALSE
        /\ accepted = 0 /\ todo = 0 /\ pc = "new" /\ raised = "none"
    BY DEF Init
  <2>2. closed \in BOOLEAN /\ outClosed \in BOOLEAN
    BY <2>1, Zenon
  <2>3. held = IF pc = "new" \/ closed THEN 0 ELSE 3
    BY <2>1, Zenon
  <2>4. accepted \in Nat /\ todo \in Nat /\ accepted + todo <= MaxBytes
    BY <1>1, <2>1
  <2>5. /\ pc \in {"new", "aborted", "idle", "write", "buffer", "bufferLoop", "transfer",
                  "transferLoop"}
        /\ raised \in {"none", "io", "closed"}
    BY <2>1
  <2> QED
    BY <2>2, <2>3, <2>4, <2>5, Zenon DEF Fields
<1>9. Staged
  BY <1>2 DEF Init, Staged
<1> QED
  BY <1>7, <1>8, <1>9 DEF FInv

\* A step of a call of an open stream.
LEMMA Stepped ==
    ASSUME FInv, pc \notin {"new", "aborted"}, ~closed,
           Sound(b', accepted'), b'.sink # << >>,
           accepted' \in Nat, todo' \in Nat, accepted' + todo' <= MaxBytes,
           pc' \in {"idle", "write", "buffer", "bufferLoop", "transfer", "transferLoop"},
           pc' = "idle" => todo' = 0,
           raised' \in {"none", "io", "closed"},
           UNCHANGED <<held, closed, outClosed>>
    PROVE  FInv'
  BY DEF FInv, Fields, Staged

\* What a step of an open stream starts from.
LEMMA Open ==
    ASSUME FInv, pc \notin {"new", "aborted"}
    PROVE  /\ Sound(b, accepted) /\ b.sink # << >>
           /\ accepted \in Nat /\ todo \in Nat /\ accepted + todo <= MaxBytes /\ MaxBytes \in Nat
           /\ pc # "idle" => ~closed
           /\ pc = "idle" => todo = 0
           /\ raised \in {"none", "io", "closed"}
           /\ pc \in {"idle", "write", "buffer", "bufferLoop", "transfer", "transferLoop"}
  BY FramedOutputAssumption DEF FInv, Fields, Staged

LEMMA ConstructStep ==
    ASSUME FInv, Construct
    PROVE  FInv'
<1>1. /\ Sound(b, accepted) /\ accepted = 0 /\ b.position = 0 /\ b.sink = << >>
      /\ ~closed /\ todo = 0 /\ ~outClosed
  BY DEF FInv, Staged, Construct
<1>2. CASE b' = [b EXCEPT !.sink = <<Part("id", << >>)>>] /\ pc' = "idle" /\ UNCHANGED raised
  <2>1. PICK h : h = Part("id", << >>)
    OBVIOUS
  <2>2. h \in Parts /\ h.part = "id" /\ h.data = << >>
    BY <2>1 DEF Part, Parts
  <2>3. PICK q : q = <<h>>
    OBVIOUS
  <2>4. q \in Seq(Parts) /\ q # << >> /\ Len(q) = 1 /\ q[1] = h
    BY <2>2, <2>3
  <2>5. b' = [b EXCEPT !.sink = q]
    BY <1>2, <2>1, <2>3
  <2>6. /\ b' \in Sides /\ b'.sink = q /\ b'.array = b.array /\ b'.kinds = b.kinds
        /\ b'.position = 0 /\ b'.limit = b.limit
    BY <1>1, <2>4, <2>5 DEF Sound, Typed, Sides, Parts
  <2>7. accepted' = 0
    BY <1>1 DEF Construct
  <2>8. Typed(b') /\ Buffered(b', 0)
    BY <1>1, <2>6, FramedOutputAssumption DEF Sound, Typed, Buffered, Sides
  <2>9. Ordered(q, 0) /\ Frames(q)
    <3>1. \A i \in 1..Len(q) : i = 1 /\ q[i].part = "id" /\ q[i].data = << >>
      BY <2>2, <2>4
    <3>2. Ordered(q, 0)
      BY <3>1 DEF Ordered
    <3>3. Frames(q)
      BY <2>4, <3>1 DEF Frames
    <3> QED
      BY <3>2, <3>3
  <2>10. Complete(q, 0)
    <3>1. After(q, 1) = 1
      BY <2>2, <2>4 DEF After
    <3>2. \A i \in 1..Len(q) : q[i].part # "body"
      BY <2>2, <2>4
    <3> QED
      BY <2>4, <3>1, <3>2 DEF Complete, Delivered
  <2>11. 0 - b'.position = 0
    BY <2>6
  <2>12. Sound(b', accepted')
    BY <2>6, <2>7, <2>8, <2>9, <2>10, <2>11 DEF Sound
  <2> QED
    BY <1>1, <1>2, <2>4, <2>6, <2>12 DEF FInv, Fields, Staged, Construct
<1>3. CASE pc' = "aborted" /\ raised' = "io" /\ UNCHANGED b
  BY <1>1, <1>3 DEF FInv, Fields, Staged, Construct
<1> QED
  BY <1>2, <1>3 DEF Construct

LEMMA IdleSteps ==
    ASSUME FInv, Gone \/ Refused
    PROVE  FInv'
<1>1. CASE Gone
  BY <1>1 DEF FInv, Fields, Staged, Gone, vars
<1>2. CASE Refused
  BY <1>2 DEF FInv, Fields, Staged, Refused
<1> QED
  BY <1>1, <1>2

LEMMA BeginStep ==
    ASSUME FInv, NEW n \in WriteSizes, NEW label \in {"write", "buffer", "transfer"},
           Begin(label, n)
    PROVE  FInv'
<1>1. n \in Nat /\ accepted \in Nat
  BY Open, FramedOutputAssumption DEF Begin
<1> QED
  BY <1>1, Open, Stepped DEF Begin

LEMMA writeByteStep ==
    ASSUME FInv, writeByte
    PROVE  FInv'
<1>1. pc = "idle" /\ ~closed /\ accepted < MaxBytes /\ UNCHANGED <<held, closed, outClosed>>
  BY DEF writeByte
<1>2. /\ Sound(b, accepted) /\ b.sink # << >> /\ accepted \in Nat /\ todo = 0
      /\ MaxBytes \in Nat /\ raised \in {"none", "io", "closed"}
  BY <1>1, Open
<1>3. PICK r \in MakeRoom(b) :
        \/ r.ok /\ b' = Put(r.s, 1) /\ accepted' = accepted + 1 /\ raised' = "none"
                /\ UNCHANGED <<pc, todo>>
        \/ ~r.ok /\ b' = r.s /\ Throw /\ UNCHANGED accepted
  BY DEF writeByte
<1>4. /\ Sound(r.s, accepted) /\ r.s.sink # << >> /\ r.ok \in BOOLEAN
      /\ remaining(r.s) \in Nat /\ (r.ok => remaining(r.s) >= 1)
  BY <1>2, MakeRoomSound
<1>5. CASE r.ok /\ b' = Put(r.s, 1) /\ accepted' = accepted + 1 /\ raised' = "none"
           /\ UNCHANGED <<pc, todo>>
  <2>1. 1 \in Nat /\ 1 <= remaining(r.s)
    BY <1>4, <1>5
  <2>2. Sound(Put(r.s, 1), accepted + 1) /\ Put(r.s, 1).sink = r.s.sink
    BY <1>2, <1>4, <2>1, PutSound
  <2>3. Sound(b', accepted') /\ b'.sink # << >>
    BY <1>4, <1>5, <2>2
  <2>4. accepted' \in Nat /\ todo' = 0 /\ accepted' + todo' <= MaxBytes
    BY <1>1, <1>2, <1>5
  <2> QED
    BY <1>1, <1>2, <1>5, <2>3, <2>4, Stepped
<1>6. CASE ~r.ok /\ b' = r.s /\ Throw /\ UNCHANGED accepted
  <2>1. Sound(b', accepted') /\ b'.sink # << >> /\ accepted' + 0 <= MaxBytes
    BY <1>1, <1>2, <1>4, <1>6
  <2> QED
    BY <1>1, <1>2, <1>6, <2>1, Stepped DEF Throw
<1> QED
  BY <1>3, <1>5, <1>6

LEMMA writeStep ==
    ASSUME FInv, write
    PROVE  FInv'
<1>1. pc = "write" /\ UNCHANGED <<held, closed, outClosed>>
  BY DEF write
<1>2. /\ Sound(b, accepted) /\ b.sink # << >> /\ accepted \in Nat /\ todo \in Nat /\ ~closed
      /\ accepted + todo <= MaxBytes /\ MaxBytes \in Nat /\ raised \in {"none", "io", "closed"}
  BY <1>1, Open
<1>3. CASE todo = 0 /\ pc' = "idle" /\ UNCHANGED <<b, accepted, todo, raised>>
  BY <1>1, <1>2, <1>3, Stepped
<1>4. ASSUME NEW r \in MakeRoom(b), NEW toPut, r.ok,
             toPut = IF todo < remaining(r.s) THEN todo ELSE remaining(r.s),
             b' = Put(r.s, toPut), accepted' = accepted + toPut, todo' = todo - toPut,
             UNCHANGED <<pc, raised>>
      PROVE  FInv'
  <2>1. /\ Sound(r.s, accepted) /\ r.s.sink # << >> /\ remaining(r.s) \in Nat
    BY <1>2, <1>4, MakeRoomSound
  <2>2. toPut \in Nat /\ toPut <= remaining(r.s) /\ toPut <= todo
    BY <1>2, <1>4, <2>1
  <2>3. Sound(Put(r.s, toPut), accepted + toPut) /\ Put(r.s, toPut).sink = r.s.sink
    BY <1>2, <2>1, <2>2, PutSound
  <2>4. Sound(b', accepted') /\ b'.sink # << >>
    BY <1>4, <2>1, <2>3
  <2>5. accepted' \in Nat /\ todo' \in Nat /\ accepted' + todo' <= MaxBytes
    BY <1>2, <1>4, <2>2
  <2> QED
    BY <1>1, <1>2, <1>4, <2>4, <2>5, Stepped
<1>5. ASSUME NEW r \in MakeRoom(b), b' = r.s, Throw, UNCHANGED accepted
      PROVE  FInv'
  <2>1. Sound(r.s, accepted) /\ r.s.sink # << >>
    BY <1>2, <1>5, MakeRoomSound
  <2>2. Sound(b', accepted') /\ b'.sink # << >> /\ accepted' + 0 <= MaxBytes
    BY <1>2, <1>5, <2>1
  <2> QED
    BY <1>1, <1>2, <1>5, <2>2, Stepped DEF Throw
<1> QED
  BY <1>3, <1>4, <1>5 DEF write

LEMMA writeBufferStep ==
    ASSUME FInv, writeBuffer
    PROVE  FInv'
<1>1. pc = "buffer" /\ UNCHANGED <<held, closed, outClosed>>
  BY DEF writeBuffer
<1>2. /\ Sound(b, accepted) /\ b.sink # << >> /\ accepted \in Nat /\ todo \in Nat /\ ~closed
      /\ accepted + todo <= MaxBytes /\ MaxBytes \in Nat /\ raised \in {"none", "io", "closed"}
  BY <1>1, Open
<1>3. PICK r \in MakeRoom(b) :
         \/ /\ r.ok /\ remaining(r.s) >= todo
            /\ b' = Put(r.s, todo)
            /\ accepted' = accepted + todo
            /\ pc' = "idle" /\ todo' = 0 /\ UNCHANGED raised
         \/ /\ r.ok /\ remaining(r.s) < todo
            /\ b' = r.s /\ pc' = "bufferLoop"
            /\ UNCHANGED <<accepted, todo, raised>>
         \/ ~r.ok /\ b' = r.s /\ Throw /\ UNCHANGED accepted
  BY DEF writeBuffer
<1>4. Sound(r.s, accepted) /\ r.s.sink # << >> /\ remaining(r.s) \in Nat
  BY <1>2, MakeRoomSound
<1>5. CASE /\ r.ok /\ remaining(r.s) >= todo
           /\ b' = Put(r.s, todo)
           /\ accepted' = accepted + todo
           /\ pc' = "idle" /\ todo' = 0 /\ UNCHANGED raised
  <2>1. todo <= remaining(r.s)
    BY <1>2, <1>4, <1>5
  <2>2. Sound(Put(r.s, todo), accepted + todo) /\ Put(r.s, todo).sink = r.s.sink
    BY <1>2, <1>4, <2>1, PutSound
  <2>3. Sound(b', accepted') /\ b'.sink # << >>
    BY <1>4, <1>5, <2>2
  <2>4. accepted' \in Nat /\ accepted' + 0 <= MaxBytes
    BY <1>2, <1>5
  <2> QED
    BY <1>1, <1>2, <1>5, <2>3, <2>4, Stepped
<1>6. CASE r.ok /\ b' = r.s /\ pc' = "bufferLoop" /\ UNCHANGED <<accepted, todo, raised>>
  <2>1. Sound(b', accepted') /\ b'.sink # << >>
    BY <1>4, <1>6
  <2> QED
    BY <1>1, <1>2, <1>6, <2>1, Stepped
<1>7. CASE ~r.ok /\ b' = r.s /\ Throw /\ UNCHANGED accepted
  <2>1. Sound(b', accepted') /\ b'.sink # << >> /\ accepted' + 0 <= MaxBytes
    BY <1>2, <1>4, <1>7
  <2> QED
    BY <1>1, <1>2, <1>7, <2>1, Stepped DEF Throw
<1> QED
  BY <1>3, <1>5, <1>6, <1>7

\* remaining, of a sound stream.
LEMMA RemainingNat ==
    ASSUME NEW s, NEW n, Sound(s, n)
    PROVE  remaining(s) \in Nat
  BY FramedOutputAssumption DEF remaining, Sound, Typed, Sides

LEMMA writeBufferLoopStep ==
    ASSUME FInv, writeBufferLoop
    PROVE  FInv'
<1>1. pc = "bufferLoop" /\ UNCHANGED <<held, closed, outClosed>>
  BY DEF writeBufferLoop
<1>2. /\ Sound(b, accepted) /\ b.sink # << >> /\ accepted \in Nat /\ todo \in Nat /\ ~closed
      /\ accepted + todo <= MaxBytes /\ MaxBytes \in Nat /\ raised \in {"none", "io", "closed"}
  BY <1>1, Open
<1>3. PICK n \in Nat : n = remaining(b)
  BY <1>2, RemainingNat
<1>4. \A k \in Nat : k <= n => Sound(Put(b, k), accepted + k) /\ Put(b, k).sink = b.sink
  BY <1>2, <1>3, PutSound
<1>5. ASSUME n <= todo, accepted' = accepted + n,
             NEW r \in flushBuffer(Put(b, n)), b' = r.s,
             IF r.ok THEN todo' = todo - n /\ UNCHANGED <<pc, raised>> ELSE Throw
      PROVE  FInv'
  <2>1. Sound(Put(b, n), accepted + n) /\ Put(b, n).sink # << >> /\ accepted + n \in Nat
    BY <1>2, <1>4
  <2>2. Attempted(r.s, r.ok, accepted + n)
    BY <1>5, <2>1, FlushSound
  <2>3. Sound(b', accepted') /\ b'.sink # << >>
    BY <1>5, <2>2 DEF Attempted
  <2>4. CASE r.ok
    <3>1. /\ accepted' \in Nat /\ todo' \in Nat /\ accepted' + todo' <= MaxBytes
          /\ UNCHANGED <<pc, raised>>
      BY <1>2, <1>5, <2>4
    <3> QED
      BY <1>1, <1>2, <2>3, <3>1, Stepped
  <2>5. CASE ~r.ok
    <3>1. accepted' \in Nat /\ accepted' + 0 <= MaxBytes /\ Throw
      BY <1>2, <1>5, <2>5
    <3> QED
      BY <1>1, <1>2, <2>3, <3>1, Stepped DEF Throw
  <2> QED
    BY <2>4, <2>5
<1>6. CASE n > todo /\ b' = Put(b, todo) /\ accepted' = accepted + todo
           /\ pc' = "idle" /\ todo' = 0 /\ UNCHANGED raised
  <2>1. todo <= n
    BY <1>2, <1>6
  <2>2. Sound(b', accepted') /\ b'.sink # << >>
    BY <1>2, <1>4, <1>6, <2>1
  <2>3. accepted' \in Nat /\ accepted' + 0 <= MaxBytes
    BY <1>2, <1>6
  <2> QED
    BY <1>1, <1>2, <1>6, <2>2, <2>3, Stepped
<1> QED
  BY <1>3, <1>5, <1>6 DEF writeBufferLoop

LEMMA transferFromStep ==
    ASSUME FInv, transferFrom
    PROVE  FInv'
<1>1. pc = "transfer" /\ UNCHANGED <<held, closed, outClosed, accepted>>
  BY DEF transferFrom
<1>2. /\ Sound(b, accepted) /\ b.sink # << >> /\ accepted \in Nat /\ todo \in Nat /\ ~closed
      /\ accepted + todo <= MaxBytes /\ MaxBytes \in Nat /\ raised \in {"none", "io", "closed"}
  BY <1>1, Open
<1>3. PICK r \in MakeRoom(b) :
        /\ b' = r.s
        /\ IF r.ok THEN pc' = "transferLoop" /\ UNCHANGED <<todo, raised>> ELSE Throw
  BY DEF transferFrom
<1>4. Sound(b', accepted') /\ b'.sink # << >> /\ accepted' + 0 <= MaxBytes
  <2>1. Sound(r.s, accepted) /\ r.s.sink # << >>
    BY <1>2, MakeRoomSound
  <2> QED
    BY <1>1, <1>2, <1>3, <2>1
<1> QED
  BY <1>1, <1>2, <1>3, <1>4, Stepped DEF Throw

LEMMA transferLoopStep ==
    ASSUME FInv, transferLoop
    PROVE  FInv'
<1>1. pc = "transferLoop" /\ UNCHANGED <<held, closed, outClosed>>
  BY DEF transferLoop
<1>2. /\ Sound(b, accepted) /\ b.sink # << >> /\ accepted \in Nat /\ todo \in Nat /\ ~closed
      /\ accepted + todo <= MaxBytes /\ MaxBytes \in Nat /\ raised \in {"none", "io", "closed"}
  BY <1>1, Open
<1>3. CASE todo = 0 /\ pc' = "idle" /\ UNCHANGED <<b, accepted, todo, raised>>
  BY <1>1, <1>2, <1>3, Stepped
<1>4. CASE todo > 0 /\ Throw /\ UNCHANGED <<b, accepted>>
  <2>1. Sound(b', accepted') /\ b'.sink # << >> /\ accepted' + 0 <= MaxBytes
    BY <1>2, <1>4
  <2> QED
    BY <1>1, <1>2, <1>4, <2>1, Stepped DEF Throw
<1>5. ASSUME NEW k \in 1..remaining(b), k <= todo, accepted' = accepted + k,
             NEW r \in MakeRoom(Put(b, k)), b' = r.s,
             IF r.ok THEN todo' = todo - k /\ UNCHANGED <<pc, raised>> ELSE Throw
      PROVE  FInv'
  <2>1. remaining(b) \in Nat
    BY <1>2, RemainingNat
  <2>2. k \in Nat /\ k <= remaining(b)
    BY <1>5, <2>1
  <2>3. Sound(Put(b, k), accepted + k) /\ Put(b, k).sink # << >> /\ accepted + k \in Nat
    BY <1>2, <2>2, PutSound
  <2>4. Sound(r.s, accepted + k) /\ r.s.sink # << >>
    BY <1>5, <2>3, MakeRoomSound
  <2>5. Sound(b', accepted') /\ b'.sink # << >>
    BY <1>5, <2>4
  <2>6. CASE r.ok
    <3>1. /\ accepted' \in Nat /\ todo' \in Nat /\ accepted' + todo' <= MaxBytes
          /\ UNCHANGED <<pc, raised>>
      BY <1>2, <1>5, <2>2, <2>6
    <3> QED
      BY <1>1, <1>2, <2>5, <3>1, Stepped
  <2>7. CASE ~r.ok
    <3>1. accepted' \in Nat /\ accepted' + 0 <= MaxBytes /\ Throw
      BY <1>2, <1>5, <2>2, <2>7
    <3> QED
      BY <1>1, <1>2, <2>5, <3>1, Stepped DEF Throw
  <2> QED
    BY <2>6, <2>7
<1> QED
  BY <1>3, <1>4, <1>5 DEF transferLoop

LEMMA flushStep ==
    ASSUME FInv, flush
    PROVE  FInv'
<1>1. pc = "idle" /\ ~closed /\ UNCHANGED <<held, closed, outClosed, accepted, todo, pc>>
  BY DEF flush
<1>2. /\ Sound(b, accepted) /\ b.sink # << >> /\ accepted \in Nat /\ todo = 0
      /\ accepted + todo <= MaxBytes
  BY <1>1, Open
<1>3. PICK r \in flushBuffer(b) : b' = r.s /\ raised' \in {"none", "io"}
  BY DEF flush
<1>4. Attempted(r.s, r.ok, accepted)
  BY <1>2, <1>3, FlushSound
<1>5. Sound(b', accepted') /\ b'.sink # << >>
  BY <1>1, <1>3, <1>4 DEF Attempted
<1> QED
  BY <1>1, <1>2, <1>3, <1>5, Stepped

LEMMA closeStep ==
    ASSUME FInv, close
    PROVE  FInv'
<1>1. pc = "idle" /\ UNCHANGED <<accepted, todo, pc>>
  BY DEF close
<1>2. CASE closed /\ raised' = "none" /\ UNCHANGED <<b, held, closed, outClosed>>
  BY <1>1, <1>2 DEF FInv, Fields, Staged
<1>3. CASE ~closed
  <2>1. /\ Sound(b, accepted) /\ b.sink # << >> /\ accepted \in Nat /\ todo = 0
        /\ accepted + todo <= MaxBytes /\ held = 3
    BY <1>1, <1>3, Open DEF FInv, Fields
  <2>2. PICK r \in flushBuffer(b) : b' = r.s /\ outClosed' = r.ok /\ raised' \in {"none", "io"}
    BY <1>3 DEF close
  <2>3. closed' = TRUE /\ held' = held - 3
    BY <1>3 DEF close
  <2>4. Attempted(r.s, r.ok, accepted)
    BY <2>1, <2>2, FlushSound
  <2>5. Sound(b', accepted') /\ b'.sink # << >>
    BY <1>1, <2>2, <2>4 DEF Attempted
  <2>6. outClosed' \in BOOLEAN /\ (outClosed' => b'.position = 0)
    BY <2>2, <2>4 DEF Attempted
  <2>7. held' = 0
    BY <2>1, <2>3
  <2> QED
    BY <1>1, <2>1, <2>2, <2>3, <2>5, <2>6, <2>7 DEF FInv, Fields, Staged
<1> QED
  BY <1>2, <1>3 DEF close
-----------------------------------------------------------------------------
(* What it means for the properties.                                       *)

LEMMA TypeFollows == FInv => TypeOK
  BY FramedOutputAssumption DEF FInv, Sound, Typed, Fields, TypeOK

LEMMA FramesFollow == FInv => FramesWhole
<1> SUFFICES ASSUME FInv, b.kinds \intersect {"bodyFails", "short"} = {}
             PROVE  /\ \A i \in 1..Len(b.sink) :
                         /\ b.sink[i].part = (IF i = 1 THEN "id" ELSE IF i % 2 = 0 THEN "head" ELSE "body")
                         /\ b.sink[i].part # "id" => Len(b.sink[i].data) \in 1..BlockSize
                         /\ b.sink[i].part = "body" => b.sink[i].data = b.sink[i - 1].data
                    /\ Len(b.sink) = 0 \/ Len(b.sink) % 2 = 1
  BY DEF FramesWhole
<1>1. Frames(b.sink)
  BY DEF FInv, Sound
<1> QED
  BY <1>1, Zenon DEF Frames

LEMMA OrderFollows == FInv => InOrderOnce
<1> SUFFICES ASSUME FInv
             PROVE  InOrderOnce
  OBVIOUS
<1> DEFINE body(i) == IF b.sink[i].part = "body" THEN b.sink[i].data ELSE << >>
<1>1. Ordered(b.sink, accepted - b.position)
  BY DEF FInv, Sound
<1>2. SUFFICES ASSUME NEW i \in 1..Len(b.sink), NEW j \in 1..Len(b.sink), i <= j,
                      NEW k \in 1..Len(body(i)), NEW l \in 1..Len(body(j)), i < j \/ k < l
               PROVE  body(i)[k] < body(j)[l]
  BY Zenon DEF InOrderOnce
<1>3. b.sink[i].part = "body" /\ b.sink[j].part = "body"
  <2>1. 1..Len(<< >>) = {}
    OBVIOUS
  <2> QED
    BY <2>1
<1>4. b \in Sides
  BY DEF FInv, Sound, Typed
<1>5. Len(b.sink) \in Nat /\ i \in Int /\ j \in Int
  BY <1>4 DEF Sides
<1>6. i < j \/ (i = j /\ k < l)
  BY <1>2, <1>5
<1> QED
  BY <1>1, <1>2, <1>3, <1>6 DEF Ordered

LEMMA ConservationFollows == FInv => Conservation
<1> SUFFICES ASSUME FInv, b.kinds \subseteq {"headFails"}
             PROVE  /\ \A i \in 1..Len(b.sink) : b.sink[i].part = "body" =>
                         IsRun(b.sink[i].data, After(b.sink, i - 2))
                    /\ ~closed => /\ IsRun(SubSeq(b.array, 1, b.position), Delivered(b.sink) + 1)
                                  /\ accepted = Delivered(b.sink) + b.position
                    /\ outClosed => accepted = Delivered(b.sink)
  BY OrderFollows DEF Conservation
<1>1. Sound(b, accepted) /\ b.kinds \subseteq {"headFails"}
  BY DEF FInv
<1>2. Complete(b.sink, accepted - b.position)
  BY <1>1 DEF Sound
<1>3. /\ accepted \in Nat /\ b.position \in 0..BlockSize /\ BlockSize \in Nat
      /\ b.position <= accepted /\ b.array \in [1..BlockSize -> Nat]
  BY <1>1, FramedOutputAssumption DEF FInv, Fields, Sound, Typed, Buffered, Sides
<1>4. PICK m \in Nat : m = accepted - b.position
  BY <1>3
<1>5. Delivered(b.sink) = m /\ accepted = m + b.position
  BY <1>2, <1>3, <1>4 DEF Complete
<1>6. IsRun(SubSeq(b.array, 1, b.position), m + 1)
  <2>1. CASE b.position = 0
    <3>1. Len(SubSeq(b.array, 1, b.position)) = 0
      BY <1>3, <2>1, SubSeqProperties
    <3>2. 1..0 = {}
      OBVIOUS
    <3>3. 1..Len(SubSeq(b.array, 1, b.position)) = {}
      BY <3>1, <3>2, Zenon
    <3> QED
      BY <3>3, Zenon DEF IsRun
  <2>2. CASE b.position > 0
    <3>1. /\ Len(SubSeq(b.array, 1, b.position)) = b.position
          /\ \A k \in 1..b.position : SubSeq(b.array, 1, b.position)[k] = m + k
      BY <1>1, <1>3, <1>4, <2>2, BlockData
    <3>2. \A k \in 1..b.position :
            SubSeq(b.array, 1, b.position)[k] = m + 1 + k - 1
      BY <1>3, <3>1
    <3> QED
      BY <3>1, <3>2, Zenon DEF IsRun
  <2> QED
    BY <1>3, <2>1, <2>2
<1>7. outClosed => accepted = m
  BY <1>3, <1>5 DEF FInv, Staged
<1> QED
  BY <1>2, <1>5, <1>6, <1>7 DEF Complete
-----------------------------------------------------------------------------
(* What has left the buffer: nothing takes it back.                        *)

LEMMA FlushKeeps ==
    ASSUME NEW s, NEW n \in Nat, Sound(s, n), NEW r \in flushBuffer(s)
    PROVE  /\ s.position \in Nat
           /\ r.s.position \in {0, s.position} /\ (r.ok => r.s.position = 0)
<1>1. s.position \in Nat
  BY FramedOutputAssumption DEF Sound, Typed, Sides
<1>2. CASE s.position > 0
  <2>1. PICK c \in Compressible :
               r \in writeBlock(s, s.position, c, IF c THEN s.position ELSE 0)
    BY <1>2 DEF flushBuffer, writeCompressed
  <2>2. c \in BOOLEAN
    BY FramedOutputAssumption
  <2>3. PICK pos \in {0, s.position} : pos = IF c THEN s.position ELSE 0
    BY <2>2
  <2>4. s \in Sides /\ s.position \in 1..BlockSize
    BY <1>2, BlockData
  <2>5. Outcome(r.s, r.ok, s, s.position, c, pos)
    BY <2>1, <2>2, <2>3, <2>4, BlockOutcomes, Zenon
  <2>6. IF r.ok THEN r.s.position = 0 ELSE r.s.position = pos
    BY <2>5, Zenon DEF Outcome
  <2> QED
    BY <1>1, <2>3, <2>6
<1>3. CASE s.position = 0
  <2>1. r = [s |-> s, ok |-> TRUE]
    BY <1>3 DEF flushBuffer
  <2>2. r.s = s /\ r.ok = TRUE
    BY <2>1, ResultFields, Zenon
  <2> QED
    BY <1>1, <1>3, <2>2
<1> QED
  BY <1>1, <1>2, <1>3

LEMMA MakeRoomKeeps ==
    ASSUME NEW s, NEW n \in Nat, Sound(s, n), NEW r \in MakeRoom(s)
    PROVE  s.position \in Nat /\ r.s.position \in Nat /\ r.s.position <= s.position
<1>1. s.position \in Nat
  BY FramedOutputAssumption DEF Sound, Typed, Sides
<1>2. r.s.position \in {0, s.position}
  <2>1. CASE remaining(s) <= 0
    BY <2>1, FlushKeeps DEF MakeRoom
  <2>2. CASE ~(remaining(s) <= 0)
    <3>1. r.s = s
      BY <2>2, ResultFields DEF MakeRoom
    <3> QED
      BY <3>1
  <2> QED
    BY <2>1, <2>2
<1> QED
  BY <1>1, <1>2

\* The number of bytes before the position, of those accepted.
LEMMA PutKeeps ==
    ASSUME NEW s, NEW n \in Nat, accepted \in Nat, Sound(s, accepted), n <= remaining(s)
    PROVE  /\ s.position \in Nat /\ Put(s, n).position = s.position + n
           /\ (accepted + n) - Put(s, n).position = accepted - s.position
<1>1. s.position \in Nat
  BY FramedOutputAssumption DEF Sound, Typed, Sides
<1> QED
  BY <1>1, PutSound

LEMMA SentGrows ==
    ASSUME FInv, Next
    PROVE  accepted - b.position <= accepted' - b'.position
<1> DEFINE Goal == accepted - b.position <= accepted' - b'.position
<1>1. accepted \in Nat /\ todo \in Nat /\ b.position \in Nat /\ Sound(b, accepted)
  BY FramedOutputAssumption DEF FInv, Fields, Sound, Typed, Sides
<1>2. CASE UNCHANGED <<b, accepted>>
  BY <1>1, <1>2
<1>3. CASE Construct
  <2>1. accepted' = accepted /\ b.position = 0 /\ (b'.position = b.position)
    <3>1. b \in Sides
      BY <1>1 DEF Sound, Typed
    <3> QED
      BY <1>3, <3>1 DEF Construct, FInv, Staged, Sides
  <2> QED
    BY <1>1, <2>1
<1>4. ASSUME NEW r, r \in MakeRoom(b), b' = r.s, accepted' = accepted
      PROVE  Goal
  BY <1>1, <1>4, MakeRoomKeeps
<1>5. ASSUME NEW r, r \in MakeRoom(b), b.sink # << >>, NEW n \in Nat, n <= remaining(r.s), b' = Put(r.s, n),
             accepted' = accepted + n
      PROVE  Goal
  <2>1. Sound(r.s, accepted) /\ r.s.position \in Nat /\ r.s.position <= b.position
    BY <1>1, <1>5, MakeRoomSound, MakeRoomKeeps
  <2>2. accepted' - b'.position = accepted - r.s.position
    BY <1>1, <1>5, <2>1, PutKeeps
  <2> QED
    BY <1>1, <2>1, <2>2
<1>6. ASSUME NEW n \in Nat, n <= remaining(b), b' = Put(b, n), accepted' = accepted + n
      PROVE  Goal
  BY <1>1, <1>6, PutKeeps
<1>7. ASSUME NEW n \in Nat, n <= remaining(b), accepted' = accepted + n,
             NEW r, r \in flushBuffer(Put(b, n)) \/ r \in MakeRoom(Put(b, n)), b' = r.s
      PROVE  Goal
  <2>1. PICK s : s = Put(b, n)
    OBVIOUS
  <2>2. Sound(s, accepted + n) /\ accepted + n \in Nat /\ s.position \in Nat
        /\ (accepted + n) - s.position = accepted - b.position
    BY <1>1, <1>7, <2>1, PutSound, PutKeeps
  <2>3. r.s.position \in Nat /\ r.s.position <= s.position
    <3>1. CASE r \in flushBuffer(s)
      BY <2>2, <3>1, FlushKeeps
    <3>2. CASE r \in MakeRoom(s)
      BY <2>2, <3>2, MakeRoomKeeps
    <3> QED
      BY <1>7, <2>1, <3>1, <3>2
  <2> QED
    BY <1>1, <1>7, <2>2, <2>3
<1> HIDE DEF Goal
<1>8. pc \notin {"new", "aborted"} => b.sink # << >>
  BY DEF FInv, Staged
<1>9. CASE Gone \/ Refused \/ \E n \in WriteSizes, label \in {"write", "buffer", "transfer"} : Begin(label, n)
  BY <1>2, <1>9 DEF Gone, Refused, Begin, vars, Goal
<1>10. CASE writeByte
  <2>1. PICK r \in MakeRoom(b) :
          \/ r.ok /\ b' = Put(r.s, 1) /\ accepted' = accepted + 1
          \/ b' = r.s /\ accepted' = accepted
    BY <1>10 DEF writeByte
  <2>2. r.ok => remaining(r.s) >= 1 /\ remaining(r.s) \in Nat
    BY <1>1, <1>8, <1>10, MakeRoomSound DEF writeByte
  <2> QED
    BY <1>4, <1>5, <1>8, <1>10, <2>1, <2>2 DEF writeByte, Goal
<1>11. CASE write
  <2>1. CASE UNCHANGED <<b, accepted>>
    BY <1>2, <2>1 DEF Goal
  <2>2. ASSUME NEW r \in MakeRoom(b), NEW n, r.ok,
               n = IF todo < remaining(r.s) THEN todo ELSE remaining(r.s),
               b' = Put(r.s, n), accepted' = accepted + n
        PROVE  Goal
    <3>1. remaining(r.s) \in Nat /\ b.sink # << >>
      BY <1>1, <1>8, <1>11, MakeRoomSound DEF write
    <3>2. n \in Nat /\ n <= remaining(r.s)
      BY <1>1, <2>2, <3>1
    <3> QED
      BY <1>5, <2>2, <3>1, <3>2
  <2>3. ASSUME NEW r \in MakeRoom(b), b' = r.s, accepted' = accepted
        PROVE  Goal
    BY <1>4, <2>3
  <2> QED
    BY <1>11, <2>1, <2>2, <2>3 DEF write, Goal
<1>12. CASE writeBuffer
  <2>1. PICK r \in MakeRoom(b) :
          \/ remaining(r.s) >= todo /\ b' = Put(r.s, todo) /\ accepted' = accepted + todo
          \/ b' = r.s /\ accepted' = accepted
    BY <1>12 DEF writeBuffer
  <2>2. remaining(r.s) \in Nat /\ b.sink # << >>
    BY <1>1, <1>8, <1>12, MakeRoomSound DEF writeBuffer
  <2>3. remaining(r.s) >= todo => todo <= remaining(r.s)
    BY <1>1, <2>2
  <2> QED
    BY <1>1, <1>4, <1>5, <2>1, <2>2, <2>3 DEF Goal
<1>13. CASE writeBufferLoop
  <2>1. PICK n \in Nat : n = remaining(b)
    BY <1>1, RemainingNat
  <2>2. \/ \E r \in flushBuffer(Put(b, n)) : b' = r.s /\ accepted' = accepted + n
        \/ n > todo /\ b' = Put(b, todo) /\ accepted' = accepted + todo
    BY <1>13, <2>1 DEF writeBufferLoop
  <2>3. n <= remaining(b) /\ (n > todo => todo <= remaining(b))
    BY <1>1, <2>1
  <2> QED
    BY <1>1, <1>6, <1>7, <2>1, <2>2, <2>3 DEF Goal
<1>14. CASE transferFrom
  <2>1. PICK r \in MakeRoom(b) : b' = r.s /\ accepted' = accepted
    BY <1>14 DEF transferFrom
  <2> QED
    BY <1>4, <2>1 DEF Goal
<1>15. CASE transferLoop
  <2>1. \/ UNCHANGED <<b, accepted>>
        \/ \E k \in 1..remaining(b) : /\ accepted' = accepted + k
                                      /\ \E r \in MakeRoom(Put(b, k)) : b' = r.s
    BY <1>15 DEF transferLoop
  <2>2. remaining(b) \in Nat
    BY <1>1, RemainingNat
  <2>3. \A k \in 1..remaining(b) : k \in Nat /\ k <= remaining(b)
    BY <2>2
  <2> QED
    BY <1>2, <1>7, <2>1, <2>3 DEF Goal
<1>16. CASE flush \/ close
  <2>1. UNCHANGED <<b, accepted>> \/ (accepted' = accepted /\ \E r \in flushBuffer(b) : b' = r.s)
    BY <1>16 DEF flush, close
  <2>2. ASSUME NEW r \in flushBuffer(b), b' = r.s, accepted' = accepted
        PROVE  Goal
    <3>1. b'.position \in Nat /\ b'.position <= b.position
      BY <1>1, <2>2, FlushKeeps
    <3> QED
      BY <1>1, <2>2, <3>1 DEF Goal
  <2> QED
    BY <1>2, <2>1, <2>2 DEF Goal
<1> QED
  BY <1>3, <1>9, <1>10, <1>11, <1>12, <1>13, <1>14, <1>15, <1>16 DEF Next, Goal

\* A flush or close that returns normally leaves nothing in the buffer.
LEMMA FlushSends ==
    ASSUME FInv, flush \/ (close /\ ~closed), raised' = "none"
    PROVE  b'.position = 0 /\ accepted' = accepted
<1>1. accepted \in Nat /\ Sound(b, accepted)
  BY DEF FInv, Fields
<1>2. accepted' = accepted /\ \E r \in flushBuffer(b) : r.ok /\ b' = r.s
  BY DEF flush, close
<1> QED
  BY <1>1, <1>2, FlushKeeps

\* Every step keeps FInv.
LEMMA FInvStep ==
    ASSUME FInv, [Next]_vars
    PROVE  FInv'
<1>1. CASE UNCHANGED vars
  BY <1>1 DEF FInv, Fields, Staged, vars
<1>2. CASE Next
  BY <1>2, ConstructStep, IdleSteps, BeginStep, writeByteStep, writeStep, writeBufferStep,
     writeBufferLoopStep, transferFromStep, transferLoopStep, flushStep, closeStep
     DEF Next
<1> QED
  BY <1>1, <1>2

-----------------------------------------------------------------------------
\* SnappyFramedOutputStream keeps FInv, whatever its channel does.
THEOREM StreamInvariance == Spec => []FInv
<1>1. Init => FInv
  BY Starts
<1>2. FInv /\ [Next]_vars => FInv'
  BY FInvStep
<1> QED
  BY <1>1, <1>2, PTL DEF Spec

\* Whatever is written, flushed and closed, and whatever the channel does, position
\* and limit stay those of a buffer, and close returns the three buffers once.
THEOREM StreamTypes == Spec => []TypeOK
  BY StreamInvariance, TypeFollows, PTL

\* flushBuffer writes whole frames, or the channel is to blame.
THEOREM FramesAlwaysWhole == Spec => []FramesWhole
  BY StreamInvariance, FramesFollow, PTL

\* No byte is lost, repeated, overwritten or reordered between write and the channel.
THEOREM BytesConserved == Spec => []Conservation
  BY StreamInvariance, ConservationFollows, PTL
=============================================================================
