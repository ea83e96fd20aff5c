----------------------------- MODULE ApiProofs -----------------------------
(***************************************************************************)
(* The Java API: on direct buffers of any number and capacity, on arrays   *)
(* in int arithmetic of any width, and the loading of the library it       *)
(* calls, by any number of threads.                                        *)
(*                                                                         *)
(* Buffers: a call stores at one place of its output, whether it returns   *)
(* or throws, and leaves its input alone.  The invariant bounds what can   *)
(* be in a buffer, data packed at most twice or junk, since a call looks   *)
(* at the form of its input, and the lengths of the results follow.        *)
(*                                                                         *)
(* Arrays: the number of bytes is computed in an int.  The invariant ties  *)
(* the bytes in a packed array to the array it was made of.  An unsigned   *)
(* number below Word that wraps around becomes negative, hence is refused  *)
(* unless the division by the size of an element makes it 0; only products *)
(* of Word and more can wrap to something plausible.                       *)
(*                                                                         *)
(* Loading: see the last part.                                             *)
(***************************************************************************)
EXTENDS ArrayApi, BufferApi, Loader, TLAPS

-----------------------------------------------------------------------------
(* Direct buffers.                                                         *)

\* The data that a chain of calls makes: the plain data of the callers, its shuffled
\* form, and what either is compressed to; or junk.
PlainData == {Plain(n) : n \in Nat}
ShuffledData == {Shuffled(x, k) : x \in PlainData, k \in TypeSizes}
Packable == PlainData \cup ShuffledData
Data == Packable \cup {Compressed(x, n) : x \in Packable, n \in Nat} \cup {Junk}

\* A byte of some data, or nothing yet.
Cells == {None} \cup (Data \X Nat)

\* Type correctness: a window lies in its buffer.
BTypes ==
    /\ pos \in [Bufs -> Nat] /\ lim \in [Bufs -> Nat]
    /\ \A b \in Bufs : pos[b] <= lim[b] /\ lim[b] <= Capacity[b]
    /\ DOMAIN mem = Bufs /\ \A b \in Bufs : mem[b] \in [Index(b) -> Cells]

\* The inductive invariant of the buffers.
BInv == BTypes /\ WindowIsResult

\* The forms of data.
LEMMA DataForms ==
  ASSUME NEW x \in Data
  PROVE  /\ x.size \in Nat
         /\ x.form \in {"plain", "shuffled"} => x \in Packable
         /\ x.form = "plain" => x \in PlainData
         /\ x.form = "shuffled" => x.inner \in PlainData /\ x.inner.size = x.size
         /\ x.form = "compressed" => x.inner \in Packable /\ x.inner.size \in Nat
<1>1. \A y \in PlainData : y.size \in Nat /\ y.form = "plain"
  BY DEF PlainData, Plain
<1>2. \A y \in ShuffledData : /\ y.form = "shuffled" /\ y.inner \in PlainData
                              /\ y.size \in Nat /\ y.inner.size = y.size
  BY <1>1 DEF ShuffledData, Shuffled
<1>3. \A y \in Packable : y.size \in Nat /\ y.form # "compressed"
  BY <1>1, <1>2 DEF Packable
<1>4. CASE x \in PlainData
  BY <1>1, <1>4 DEF Packable
<1>5. CASE x \in ShuffledData
  BY <1>2, <1>5 DEF Packable
<1>6. CASE \E y \in Packable, n \in Nat : x = Compressed(y, n)
  BY <1>3, <1>6 DEF Compressed
<1>7. CASE x = Junk
  BY <1>7 DEF Junk
<1> QED
  BY <1>4, <1>5, <1>6, <1>7 DEF Data, Packable

\* What is shuffled or compressed, and the data that are nothing.
LEMMA Packed ==
  ASSUME NEW x
  PROVE  /\ \A k \in TypeSizes : x \in PlainData =>
              Shuffled(x, k) \in Data /\ Shuffled(x, k).size = x.size
         /\ \A n \in Nat : x \in Packable => Compressed(x, n) \in Data /\ Compressed(x, n).size = n
         /\ Nothing \in Data /\ Nothing.size = 0
<1>1. ASSUME NEW k \in TypeSizes, x \in PlainData
      PROVE  Shuffled(x, k) \in Data /\ Shuffled(x, k).size = x.size
  <2>1. Shuffled(x, k) \in ShuffledData
    BY <1>1 DEF ShuffledData
  <2>2. Shuffled(x, k).size = x.size
    BY DEF Shuffled
  <2> QED
    BY <2>1, <2>2 DEF Data, Packable
<1>2. ASSUME NEW n \in Nat, x \in Packable
      PROVE  Compressed(x, n) \in Data /\ Compressed(x, n).size = n
  <2>1. Compressed(x, n) \in Data
    BY <1>2 DEF Data
  <2>2. Compressed(x, n).size = n
    BY DEF Compressed
  <2> QED
    BY <2>1, <2>2
<1>3. Nothing \in PlainData /\ Nothing.size = 0
  BY DEF Nothing, PlainData, Plain
<1> QED
  BY <1>1, <1>2, <1>3 DEF Data, Packable

\* A window is a part of its buffer.
LEMMA WindowBounds ==
  ASSUME BTypes, NEW b \in Bufs
  PROVE  /\ pos[b] \in Nat /\ lim[b] \in Nat /\ Capacity[b] \in Nat
         /\ pos[b] <= lim[b] /\ lim[b] <= Capacity[b]
         /\ Remaining(b) \in Nat /\ pos[b] + Remaining(b) = lim[b]
BY CapacityAssumption DEF BTypes, Remaining

\* The data in a window that is whole.
LEMMA WholeData ==
  ASSUME BTypes, NEW b \in Bufs, NEW form, IsWhole(b, form)
  PROVE  /\ First(b) \in Data /\ First(b).form = form /\ Window(b, First(b))
         /\ First(b).size = Remaining(b)
<1>1. First(b) # None /\ First(b).form = form /\ Window(b, First(b))
  BY DEF IsWhole
<1>2. CASE Remaining(b) = 0
  <2>1. First(b) = Plain(0) /\ Plain(0) \in PlainData
    BY <1>2 DEF First, PlainData
  <2> QED
    BY <1>1, <2>1 DEF Data, Packable, Window
<1>3. CASE Remaining(b) # 0
  <2>1. pos[b] \in Index(b)
    BY <1>3, WindowBounds DEF Index
  <2>2. mem[b][pos[b]] \in Cells /\ mem[b][pos[b]] # None /\ First(b) = mem[b][pos[b]][1]
    BY <1>1, <1>3, <2>1 DEF First, BTypes
  <2>3. First(b) \in Data
    BY <2>2 DEF Cells
  <2> QED
    BY <1>1, <2>3 DEF Window
<1> QED
  BY <1>2, <1>3

\* A call stores data x and j more bytes at p of buffer d, and has another input.
StoreStep(s, d, p, x, j) ==
    /\ s \in Bufs /\ d \in Bufs /\ s # d
    /\ p \in Nat /\ x \in Data /\ j \in Nat /\ Store(d, p, x, j)

\* What a store writes, and what it leaves.
LEMMA Stored ==
  ASSUME BTypes, NEW d \in Bufs, NEW p \in Nat, NEW x \in Data, NEW j \in Nat, Store(d, p, x, j)
  PROVE  /\ DOMAIN mem' = Bufs /\ \A b \in Bufs : mem'[b] \in [Index(b) -> Cells]
         /\ \A b \in Bufs : b # d => mem'[b] = mem[b]
         /\ \A i \in 0..(x.size - 1) : p + i \in Index(d) => mem'[d][p + i] = <<x, i>>
         /\ \A i \in Index(d) : i \notin p..(p + x.size + j - 1) => mem'[d][i] = mem[d][i]
<1>1. PICK n \in Nat : n = x.size
  BY DataForms
<1>2. PICK c : c = [i \in Index(d) |->
                      CASE i \in p..((p + x.size) - 1) -> <<x, i - p>>
                        [] i \in (p + x.size)..(p + x.size + j - 1) -> <<Junk, 0>>
                        [] OTHER -> mem[d][i]]
  OBVIOUS
<1>3. mem' = [mem EXCEPT ![d] = c]
  BY <1>2, Zenon DEF Store
<1>4. ASSUME NEW i \in Index(d)
      PROVE  /\ i \in p..(p + n - 1) => c[i] = <<x, i - p>>
             /\ i \in (p + n)..(p + n + j - 1) => c[i] = <<Junk, 0>>
             /\ i \notin p..(p + n + j - 1) => c[i] = mem[d][i]
  <2>1. i \in Int
    BY CapacityAssumption DEF Index
  <2>2. CASE i \in p..(p + n - 1)
    BY <1>1, <1>2, <2>1, <2>2
  <2>3. CASE i \in (p + n)..(p + n + j - 1)
    BY <1>1, <1>2, <2>1, <2>3
  <2>4. CASE i \notin p..(p + n + j - 1)
    BY <1>1, <1>2, <2>1, <2>4
  <2> QED
    BY <2>1, <2>2, <2>3, <2>4
<1>5. c \in [Index(d) -> Cells]
  <2>1. ASSUME NEW i \in Index(d) PROVE c[i] \in Cells
    <3>1. i \in Int /\ mem[d][i] \in Cells
      <4>1. i \in Int
        BY CapacityAssumption DEF Index
      <4> QED
        BY <4>1 DEF BTypes
    <3>2. CASE i \in p..(p + n - 1)
      <4>1. c[i] = <<x, i - p>> /\ i - p \in Nat
        BY <1>4, <3>1, <3>2
      <4> QED
        BY <4>1 DEF Cells
    <3>3. CASE i \in (p + n)..(p + n + j - 1)
      <4>1. c[i] = <<Junk, 0>> /\ Junk \in Data
        BY <1>4, <3>3 DEF Data
      <4> QED
        BY <4>1 DEF Cells
    <3>4. CASE i \notin p..(p + n + j - 1)
      BY <1>4, <3>1, <3>4
    <3> QED
      BY <3>1, <3>2, <3>3, <3>4
  <2> QED
    BY <1>2, <2>1
<1>6. DOMAIN mem = Bufs /\ \A b \in Bufs : mem[b] \in [Index(b) -> Cells]
  BY DEF BTypes
<1>7. DOMAIN mem' = Bufs /\ mem'[d] = c /\ \A b \in Bufs : b # d => mem'[b] = mem[b]
  BY <1>3, <1>6
<1>8. ASSUME NEW i \in 0..(n - 1), p + i \in Index(d) PROVE c[p + i] = <<x, i>>
  <2>1. p + i \in p..(p + n - 1) /\ (p + i) - p = i
    BY <1>1
  <2> QED
    BY <1>4, <1>8, <2>1
<1>9. \A b \in Bufs : mem'[b] \in [Index(b) -> Cells]
  BY <1>5, <1>6, <1>7
<1> QED
  BY <1>1, <1>4, <1>7, <1>8, <1>9

\* The window of the input is what it was.
LEMMA InputKept ==
  ASSUME BTypes, NEW s, NEW d, NEW p, NEW x, NEW j, StoreStep(s, d, p, x, j),
         pos' = pos, lim'[s] = lim[s], NEW y, Window(s, y)
  PROVE  Window(s, y)'
<1>1. mem'[s] = mem[s]
  BY Stored DEF StoreStep
<1> QED
  BY <1>1 DEF Window, HoldsAt, Remaining

\* The data are in the output, if they fit.
LEMMA OutputHolds ==
  ASSUME BTypes, NEW s, NEW d, NEW p, NEW x, NEW j, StoreStep(s, d, p, x, j),
         p + x.size <= Capacity[d]
  PROVE  HoldsAt(d, p, x)'
<1>1. \A i \in 0..(x.size - 1) : p + i \in Index(d) => mem'[d][p + i] = <<x, i>>
  BY Stored DEF StoreStep
<1>2. \A i \in 0..(x.size - 1) : p + i \in Index(d)
  BY DataForms, CapacityAssumption DEF StoreStep, Index
<1> QED
  BY <1>1, <1>2 DEF HoldsAt

\* When the limit is set behind the data, they are the window.
LEMMA OutputWindow ==
  ASSUME BTypes, NEW s, NEW d, NEW x, NEW j, StoreStep(s, d, pos[d], x, j),
         pos[d] + x.size <= Capacity[d],
         pos' = pos, lim' = [lim EXCEPT ![d] = pos[d] + x.size]
  PROVE  /\ Window(d, x)'
         /\ lim'[s] = lim[s] /\ BTypes'
<1>1. PICK p : p = pos[d]
  OBVIOUS
<1>2. x.size \in Nat /\ pos[d] \in Nat /\ d \in Bufs /\ s \in Bufs /\ s # d
  BY DataForms DEF StoreStep
<1>3. lim'[d] = pos[d] + x.size /\ lim'[s] = lim[s]
  BY <1>2 DEF BTypes
<1>4. Window(d, x)'
  <2>1. HoldsAt(d, p, x)'
    BY <1>1, OutputHolds
  <2>2. lim'[d] - pos'[d] = x.size /\ pos'[d] = p
    BY <1>1, <1>2, <1>3
  <2> QED
    BY <2>1, <2>2 DEF Window, Remaining
<1>5. BTypes'
  <2>1. DOMAIN mem' = Bufs /\ \A b \in Bufs : mem'[b] \in [Index(b) -> Cells]
    BY Stored DEF StoreStep
  <2>2. lim' \in [Bufs -> Nat] /\ \A b \in Bufs : pos'[b] <= lim'[b] /\ lim'[b] <= Capacity[b]
    BY <1>2 DEF BTypes
  <2> QED
    BY <1>2, <2>1, <2>2 DEF BTypes
<1> QED
  BY <1>3, <1>4, <1>5

\* Fill: the caller's data fit into the buffer.
LEMMA FillStep ==
  ASSUME BInv, NEW b \in Direct, NEW p \in Positions, NEW n \in Sizes, Fill(b, p, n)
  PROVE  BInv'
<1>1. p \in Nat /\ n \in Nat /\ p + n <= Capacity[b] /\ b \in Bufs
  BY CapacityAssumption DEF Fill, Bufs
<1>2. Plain(n) \in Data
  BY <1>1 DEF Data, Packable, PlainData
<1>3. DOMAIN mem' = Bufs /\ \A c \in Bufs : mem'[c] \in [Index(c) -> Cells]
  BY <1>1, <1>2, Stored DEF Fill, BInv
<1>4. /\ pos' = [pos EXCEPT ![b] = p] /\ lim' = [lim EXCEPT ![b] = p + n]
      /\ last' = NoCall
  BY DEF Fill
<1>5. BTypes'
  BY <1>1, <1>3, <1>4 DEF BInv, BTypes
<1> QED
  BY <1>4, <1>5 DEF BInv, WindowIsResult, NoCall

\* ClearTo: the caller's own move is no call.
LEMMA ClearStep ==
  ASSUME BInv, NEW b \in Direct, NEW p \in Positions, ClearTo(b, p)
  PROVE  BInv'
<1>1. p \in Nat /\ Capacity[b] \in Nat /\ p <= Capacity[b] /\ b \in Bufs
  BY CapacityAssumption DEF ClearTo, Bufs
<1>2. /\ pos' = [pos EXCEPT ![b] = p] /\ lim' = [lim EXCEPT ![b] = Capacity[b]]
      /\ last' = NoCall /\ mem' = mem
  BY DEF ClearTo
<1>3. BTypes'
  BY <1>1, <1>2 DEF BInv, BTypes
<1> QED
  BY <1>2, <1>3 DEF BInv, WindowIsResult, NoCall

\* A call that Java's tests refuse leaves the buffers as they were.
LEMMA RejectStep ==
  ASSUME BInv, NEW op, NEW e, e # "none", Reject(op, e)
  PROVE  BInv' /\ mem' = mem
BY DEF Reject, BInv, BTypes, WindowIsResult

\* A call of method op wrote at its output's position, or unshuffle at its input's, and
\* no more than Longest allows, unless it was an uncompress that threw.
Wrote(op, s, d, p, x, j) ==
    /\ StoreStep(s, d, p, x, j)
    /\ last'.op = op /\ last'.src = s /\ last'.dst = d
    /\ p = pos[d] \/ (op = "unshuffle" /\ p = pos[s])
    /\ \/ op = "uncompress" /\ failure' # "none"
       \/ /\ Longest(op, s, last'.to) \in Int
          /\ x.size + j <= Longest(op, s, last'.to)

\* A call that leaves its result as the window of its output.
ReturnsData(op, s, d, x, y, j) ==
    /\ op \in {"compress", "uncompress", "shuffle"}
    /\ Window(s, x) /\ Wrote(op, s, d, pos[d], y, j)
    /\ pos[d] + y.size <= Capacity[d]
    /\ lim' = [lim EXCEPT ![d] = pos[d] + y.size]
    /\ Succeed(op, s, d, x, y)

Returns(op, s, d) == \E x, y, j : ReturnsData(op, s, d, x, y, j)

\* An unshuffle that leaves its result where the input was.
Unshuffles(s, d) ==
    \E x, y, j : /\ Window(s, x) /\ Wrote("unshuffle", s, d, pos[s], y, j)
                 /\ pos[s] = pos[d] => pos[s] + y.size <= Capacity[d]
                 /\ lim' = lim
                 /\ Succeed("unshuffle", s, d, x, y)

\* A call that throws, or returns a negative number, after its native call.
Throws(op, s, d) ==
    \E p, x, j : /\ Wrote(op, s, d, p, x, j)
                 /\ failure' \notin {"none", "NOT_A_DIRECT_BUFFER", "IllegalArgumentException"}
                 /\ pos' \in [Bufs -> Nat] /\ lim' \in [Bufs -> Nat]
                 /\ \A b \in Bufs : pos'[b] <= lim'[b] /\ lim'[b] <= Capacity[b]

\* limit() accepts what fits.
LEMMA SetLimitEffect ==
  ASSUME BTypes, NEW s, NEW d, NEW op \in {"compress", "uncompress"}, NEW x, NEW y, NEW j,
         Window(s, x), StoreStep(s, d, pos[d], y, j), SetLimit(op, s, d, x, y),
         op = "uncompress" => j = 0,
         op = "compress" => Remaining(s) \in Nat /\ y.size + j <= MaxCompressed(Remaining(s))
  PROVE  Returns(op, s, d) \/ Throws(op, s, d)
<1>1. y.size \in Nat /\ j \in Nat
  BY DataForms DEF StoreStep
<1>2. CASE Succeed(op, s, d, x, y) /\ lim' = [lim EXCEPT ![d] = pos[d] + y.size]
           /\ pos[d] + y.size <= Capacity[d]
  <2>1. last'.op = op /\ last'.src = s /\ last'.dst = d /\ last'.to = y /\ failure' = "none"
    BY <1>2 DEF Succeed, Call
  <2>2. Longest(op, s, last'.to) \in Int /\ y.size + j <= Longest(op, s, last'.to)
    <3>1. CASE op = "compress"
      BY <1>1, <2>1, <3>1 DEF Longest, MaxCompressed
    <3>2. CASE op = "uncompress"
      BY <1>1, <2>1, <3>2 DEF Longest
    <3> QED
      BY <3>1, <3>2
  <2>3. Wrote(op, s, d, pos[d], y, j) /\ op \in {"compress", "uncompress", "shuffle"}
    BY <2>1, <2>2 DEF Wrote
  <2>4. ReturnsData(op, s, d, x, y, j)
    BY <1>2, <2>3 DEF ReturnsData
  <2> QED
    BY <2>4 DEF Returns
<1>3. CASE Fail(op, s, d, "limit out of range")
  <2>1. /\ last'.op = op /\ last'.src = s /\ last'.dst = d /\ failure' = "limit out of range"
        /\ pos' = pos /\ lim' = lim
    BY <1>3 DEF Fail, Call
  <2>2. \/ op = "uncompress"
        \/ /\ Longest(op, s, last'.to) \in Int /\ y.size + j <= Longest(op, s, last'.to)
    BY <1>1 DEF Longest, MaxCompressed
  <2>3. Wrote(op, s, d, pos[d], y, j)
    BY <2>1, <2>2 DEF Wrote
  <2> QED
    BY <2>1, <2>3 DEF Throws, BTypes
<1> QED
  BY <1>2, <1>3 DEF SetLimit

\* Snappy.compress.
LEMMA CompressEffect ==
  ASSUME BTypes, NEW s \in Bufs, NEW d \in Bufs, s # d, NEW n \in Nat, NEW j \in Partials,
         compressBuffer(s, d, n, j)
  PROVE  Returns("compress", s, d) \/ Throws("compress", s, d)
<1>1. PICK x : x = First(s)
  OBVIOUS
<1>2. PICK y : y = Compressed(x, n)
  OBVIOUS
<1>3. /\ IsWhole(s, "plain") \/ IsWhole(s, "shuffled")
      /\ n + j <= MaxCompressed(Remaining(s))
      /\ Store(d, pos[d], y, j)
      /\ SetLimit("compress", s, d, x, y)
  BY <1>1, <1>2 DEF compressBuffer
<1>4. Window(s, x) /\ x \in Packable
  BY <1>1, <1>3, WholeData, DataForms
<1>5. y \in Data /\ y.size = n
  BY <1>2, <1>4, Packed
<1>6. StoreStep(s, d, pos[d], y, j)
  BY <1>3, <1>5, WindowBounds, CapacityAssumption DEF StoreStep
<1> QED
  BY <1>3, <1>4, <1>5, <1>6, SetLimitEffect, WindowBounds

\* Snappy.uncompress, of a compressed block or of anything else.
LEMMA UncompressEffect ==
  ASSUME BTypes, NEW s \in Bufs, NEW d \in Bufs, s # d, NEW j \in Partials,
         uncompressBuffer(s, d, j)
  PROVE  Returns("uncompress", s, d) \/ Throws("uncompress", s, d)
<1>1. PICK x : x = First(s)
  OBVIOUS
<1>2. PICK y : y = x.inner
  OBVIOUS
<1>3. CASE /\ IsWhole(s, "compressed") /\ Store(d, pos[d], y, 0)
           /\ SetLimit("uncompress", s, d, x, y)
  <2>1. Window(s, x) /\ y \in Data
    BY <1>1, <1>2, <1>3, WholeData, DataForms DEF Data
  <2>2. StoreStep(s, d, pos[d], y, 0)
    BY <1>3, <2>1, WindowBounds DEF StoreStep
  <2> QED
    BY <1>3, <2>1, <2>2, SetLimitEffect
<1>4. CASE Store(d, pos[d], Nothing, j) /\ Fail("uncompress", s, d, "FAILED_TO_UNCOMPRESS")
  <2>1. StoreStep(s, d, pos[d], Nothing, j)
    BY <1>4, Packed, WindowBounds, CapacityAssumption DEF StoreStep
  <2>2. /\ last'.op = "uncompress" /\ last'.src = s /\ last'.dst = d
        /\ failure' = "FAILED_TO_UNCOMPRESS" /\ pos' = pos /\ lim' = lim
    BY <1>4 DEF Fail, Call
  <2>3. Wrote("uncompress", s, d, pos[d], Nothing, j)
    BY <2>1, <2>2 DEF Wrote
  <2> QED
    BY <2>2, <2>3 DEF Throws, BTypes
<1> QED
  BY <1>1, <1>2, <1>3, <1>4 DEF uncompressBuffer

\* The library of BitShuffle fails.
LEMMA ShuffleFailsEffect ==
  ASSUME BTypes, NEW s \in Bufs, NEW d \in Bufs, s # d, NEW op \in {"shuffle", "unshuffle"},
         NEW p \in Nat, p = pos[d] \/ (op = "unshuffle" /\ p = pos[s]),
         NEW j \in Partials, NEW b \in Bufs, ShuffleFails(op, s, d, p, j, b)
  PROVE  Throws(op, s, d)
<1>1. j \in Nat /\ j <= Remaining(s) /\ Remaining(s) \in Nat /\ Store(d, p, Nothing, j)
  BY CapacityAssumption, WindowBounds DEF ShuffleFails
<1>2. /\ last' = Call(op, s, d, None, None)
      /\ failure' \in {"AssertionError", "limit out of range", "negative result"}
      /\ \/ pos' = pos /\ lim' = lim
         \/ /\ pos[b] > 0
            /\ lim' = [lim EXCEPT ![b] = pos[b] - 1]
            /\ pos' = [pos EXCEPT ![b] = pos[b] - 1]
  BY DEF ShuffleFails, Fail
<1>3. Wrote(op, s, d, p, Nothing, j)
  <2>1. StoreStep(s, d, p, Nothing, j)
    BY <1>1, Packed DEF StoreStep
  <2>2. Longest(op, s, last'.to) \in Int /\ Nothing.size + j <= Longest(op, s, last'.to)
    BY <1>1, Packed DEF Longest
  <2> QED
    BY <1>2, <2>1, <2>2 DEF Wrote, Call
<1>4. /\ pos' \in [Bufs -> Nat] /\ lim' \in [Bufs -> Nat]
      /\ \A c \in Bufs : pos'[c] <= lim'[c] /\ lim'[c] <= Capacity[c]
  <2>1. CASE pos' = pos /\ lim' = lim
    BY <2>1 DEF BTypes
  <2>2. CASE /\ pos[b] > 0
             /\ lim' = [lim EXCEPT ![b] = pos[b] - 1]
             /\ pos' = [pos EXCEPT ![b] = pos[b] - 1]
    <3>1. pos[b] - 1 \in Nat /\ pos[b] - 1 <= Capacity[b]
      BY <2>2, WindowBounds
    <3> QED
      BY <2>2, <3>1 DEF BTypes
  <2> QED
    BY <1>2, <2>1, <2>2
<1> QED
  BY <1>2, <1>3, <1>4 DEF Throws

\* BitShuffle.shuffle: the output has room for as much as the input holds.
LEMMA ShuffleEffect ==
  ASSUME BTypes, NEW s \in Bufs, NEW d \in Bufs, s # d, NEW k \in TypeSizes,
         NEW j \in Partials, shuffleBuffer(s, k, d, j)
  PROVE  Returns("shuffle", s, d) \/ Throws("shuffle", s, d)
<1>1. PICK x : x = First(s)
  OBVIOUS
<1>2. PICK y : y = Shuffled(x, k)
  OBVIOUS
<1>3. IsWhole(s, "plain") /\ Remaining(d) >= Remaining(s)
  BY DEF shuffleBuffer
<1>4. Window(s, x) /\ x \in PlainData /\ x.size = Remaining(s)
  BY <1>1, <1>3, WholeData, DataForms
<1>5. y \in Data /\ y.size = Remaining(s)
  BY <1>2, <1>4, Packed
<1>6. CASE /\ Store(d, pos[d], y, 0)
           /\ lim' = [lim EXCEPT ![d] = pos[d] + Remaining(s)]
           /\ Succeed("shuffle", s, d, x, y)
  <2>1. pos[d] + y.size <= Capacity[d] /\ pos[d] \in Nat /\ Remaining(s) \in Nat
    BY <1>3, <1>5, WindowBounds
  <2>2. StoreStep(s, d, pos[d], y, 0)
    BY <1>5, <1>6, <2>1 DEF StoreStep
  <2>3. last'.op = "shuffle" /\ last'.src = s /\ last'.dst = d
    BY <1>6 DEF Succeed, Call
  <2>4. Wrote("shuffle", s, d, pos[d], y, 0) /\ "shuffle" \in {"compress", "uncompress", "shuffle"}
    BY <1>5, <2>1, <2>2, <2>3 DEF Wrote, Longest
  <2>5. lim' = [lim EXCEPT ![d] = pos[d] + y.size]
    BY <1>5, <1>6
  <2>6. ReturnsData("shuffle", s, d, x, y, 0)
    BY <1>4, <1>6, <2>1, <2>4, <2>5 DEF ReturnsData
  <2> QED
    BY <2>6 DEF Returns
<1>7. CASE ShuffleFails("shuffle", s, d, pos[d], j, d)
  BY <1>7, ShuffleFailsEffect, WindowBounds
<1> QED
  BY <1>1, <1>2, <1>6, <1>7 DEF shuffleBuffer

\* BitShuffle.unshuffle stores at the position of the input and sets its limit.
LEMMA UnshuffleEffect ==
  ASSUME BTypes, NEW s \in Bufs, NEW d \in Bufs, s # d, NEW k \in TypeSizes,
         NEW j \in Partials, unshuffleBuffer(s, k, d, j)
  PROVE  Unshuffles(s, d) \/ Throws("unshuffle", s, d)
<1>1. PICK x : x = First(s)
  OBVIOUS
<1>2. PICK y : y = x.inner
  OBVIOUS
<1>3. IsWhole(s, "shuffled") /\ Remaining(d) >= Remaining(s)
  BY DEF unshuffleBuffer
<1>4. Window(s, x) /\ y \in PlainData /\ y.size = Remaining(s)
  BY <1>1, <1>2, <1>3, WholeData, DataForms
<1>5. CASE /\ Store(d, pos[s], y, 0)
           /\ lim' = [lim EXCEPT ![s] = pos[s] + Remaining(s)]
           /\ Succeed("unshuffle", s, d, x, y)
  <2>1. /\ pos[s] \in Nat /\ Remaining(s) \in Nat /\ pos[s] + Remaining(s) = lim[s]
        /\ pos[s] = pos[d] => pos[s] + y.size <= Capacity[d]
    BY <1>3, <1>4, WindowBounds
  <2>2. lim' = lim
    BY <1>5, <2>1 DEF BTypes
  <2>3. StoreStep(s, d, pos[s], y, 0)
    BY <1>4, <1>5, <2>1 DEF StoreStep, Data, Packable
  <2>4. last'.op = "unshuffle" /\ last'.src = s /\ last'.dst = d
    BY <1>5 DEF Succeed, Call
  <2>5. Wrote("unshuffle", s, d, pos[s], y, 0)
    BY <1>4, <2>1, <2>3, <2>4 DEF Wrote, Longest
  <2> QED
    BY <1>4, <1>5, <2>1, <2>2, <2>5 DEF Unshuffles
<1>6. CASE ShuffleFails("unshuffle", s, d, pos[s], j, s)
  BY <1>6, ShuffleFailsEffect, WindowBounds
<1> QED
  BY <1>1, <1>2, <1>5, <1>6 DEF unshuffleBuffer

\* The three methods that set the limit of their output.
LEMMA ReturnsStep ==
  ASSUME BInv, NEW op, NEW s, NEW d, Returns(op, s, d)
  PROVE  BInv'
<1>1. PICK x, y, j : /\ op \in {"compress", "uncompress", "shuffle"}
                     /\ Window(s, x) /\ Wrote(op, s, d, pos[d], y, j)
                     /\ pos[d] + y.size <= Capacity[d]
                     /\ lim' = [lim EXCEPT ![d] = pos[d] + y.size]
                     /\ Succeed(op, s, d, x, y)
  BY DEF Returns, ReturnsData
<1>2. pos' = pos /\ StoreStep(s, d, pos[d], y, j)
  BY <1>1 DEF Succeed, Wrote
<1>3. Window(d, y)' /\ lim'[s] = lim[s] /\ BTypes'
  BY <1>1, <1>2, OutputWindow DEF BInv
<1>4. Window(s, x)'
  BY <1>1, <1>2, <1>3, InputKept DEF BInv
<1>5. last'.op = op /\ last'.src = s /\ last'.dst = d /\ last'.from = x /\ last'.to = y
  BY <1>1 DEF Succeed, Call
<1>6. WindowIsResult'
  BY <1>1, <1>3, <1>4, <1>5, Zenon DEF WindowIsResult
<1> QED
  BY <1>3, <1>6 DEF BInv

\* BitShuffle.unshuffle stores at the position of its input and leaves the limit of its
\* output, so that its result is in place when the two positions are the same.
LEMMA UnshuffleStep ==
  ASSUME BInv, NEW s, NEW d, Unshuffles(s, d)
  PROVE  BInv'
<1>1. PICK x, y, j : /\ Window(s, x) /\ StoreStep(s, d, pos[s], y, j)
                     /\ pos[s] = pos[d] => pos[s] + y.size <= Capacity[d]
                     /\ lim' = lim /\ Succeed("unshuffle", s, d, x, y)
  BY DEF Unshuffles, Wrote
<1>2. pos' = pos
  BY <1>1 DEF Succeed
<1>3. BTypes'
  <2>1. DOMAIN mem' = Bufs /\ \A b \in Bufs : mem'[b] \in [Index(b) -> Cells]
    BY <1>1, Stored DEF StoreStep, BInv
  <2> QED
    BY <1>1, <1>2, <2>1 DEF BInv, BTypes
<1>4. Window(s, x)'
  BY <1>1, <1>2, InputKept DEF BInv
<1>5. PICK p : p = pos[s]
  OBVIOUS
<1>6. p + y.size <= Capacity[d] => HoldsAt(d, p, y)'
  BY <1>1, <1>5, OutputHolds DEF BInv
<1>7. (pos[s] = pos[d] => HoldsAt(d, pos[d], y))'
  BY <1>1, <1>2, <1>5, <1>6
<1>8. last'.op = "unshuffle" /\ last'.src = s /\ last'.dst = d /\ last'.from = x /\ last'.to = y
  BY <1>1 DEF Succeed, Call
<1>9. WindowIsResult'
  BY <1>4, <1>7, <1>8 DEF WindowIsResult
<1> QED
  BY <1>3, <1>9 DEF BInv

\* A call that throws has no result, whatever it wrote.
LEMMA ThrowStep ==
  ASSUME BInv, NEW op, NEW s, NEW d, Throws(op, s, d)
  PROVE  BInv'
<1>1. PICK p, x, j : StoreStep(s, d, p, x, j)
  BY DEF Throws, Wrote
<1>2. DOMAIN mem' = Bufs /\ \A b \in Bufs : mem'[b] \in [Index(b) -> Cells]
  BY <1>1, Stored DEF StoreStep, BInv
<1>3. /\ failure' # "none" /\ pos' \in [Bufs -> Nat] /\ lim' \in [Bufs -> Nat]
      /\ \A b \in Bufs : pos'[b] <= lim'[b] /\ lim'[b] <= Capacity[b]
  BY DEF Throws
<1> QED
  BY <1>2, <1>3 DEF BInv, BTypes, WindowIsResult

\* The calls of BufferNext that reach the library.
TwoBuffers(s, d) ==
    \/ \E n \in 1..MaxCompressed(Remaining(s)), j \in Partials : compressBuffer(s, d, n, j)
    \/ \E j \in Partials : uncompressBuffer(s, d, j)
    \/ \E k \in TypeSizes, j \in Partials : shuffleBuffer(s, k, d, j) \/ unshuffleBuffer(s, k, d, j)

\* What such a call does: it throws, or returns its result.
LEMMA CallEffect ==
  ASSUME BTypes, NEW s \in Direct, NEW d \in Direct, s # d, TwoBuffers(s, d)
  PROVE  Unshuffles(s, d) \/ \E op : Returns(op, s, d) \/ Throws(op, s, d)
<1>1. s \in Bufs /\ d \in Bufs
  BY DEF Bufs
<1>2. ASSUME NEW n \in 1..MaxCompressed(Remaining(s)), NEW j \in Partials, compressBuffer(s, d, n, j)
      PROVE  Returns("compress", s, d) \/ Throws("compress", s, d)
  <2>1. n \in Nat
    BY <1>1, WindowBounds DEF MaxCompressed
  <2> QED
    BY <1>1, <1>2, <2>1, CompressEffect
<1>3. ASSUME NEW j \in Partials, uncompressBuffer(s, d, j)
      PROVE  Returns("uncompress", s, d) \/ Throws("uncompress", s, d)
  BY <1>1, <1>3, UncompressEffect
<1>4. ASSUME NEW k \in TypeSizes, NEW j \in Partials, shuffleBuffer(s, k, d, j)
      PROVE  Returns("shuffle", s, d) \/ Throws("shuffle", s, d)
  BY <1>1, <1>4, ShuffleEffect
<1>5. ASSUME NEW k \in TypeSizes, NEW j \in Partials, unshuffleBuffer(s, k, d, j)
      PROVE  Unshuffles(s, d) \/ Throws("unshuffle", s, d)
  BY <1>1, <1>5, UnshuffleEffect
<1> QED
  BY <1>2, <1>3, <1>4, <1>5, Zenon DEF TwoBuffers

\* The calls that Java's tests refuse.
Refusals ==
    \/ \E op \in {"compress", "uncompress", "shuffle", "unshuffle"} : RefuseHeap(op)
    \/ \E op \in {"shuffle", "unshuffle"}, k \in TypeSizes : RefuseLength(op, k)

LEMMA RefusalStep ==
  ASSUME BInv, Refusals
  PROVE  BInv' /\ mem' = mem
<1>1. \E op, e : e # "none" /\ Reject(op, e)
  BY DEF Refusals, RefuseHeap, RefuseLength
<1> QED
  BY <1>1, RejectStep

\* Every step of the buffers.
LEMMA BInvStep ==
  ASSUME BInv, [BufferNext]_bufferVars
  PROVE  BInv'
<1>1. CASE \E b \in Direct, p \in Positions, n \in Sizes : Fill(b, p, n)
  BY <1>1, FillStep
<1>2. CASE \E b \in Direct, p \in Positions : ClearTo(b, p)
  BY <1>2, ClearStep
<1>3. CASE \E s, d \in Direct : s # d /\ TwoBuffers(s, d)
  <2>1. PICK s \in Direct, d \in Direct : s # d /\ TwoBuffers(s, d)
    BY <1>3
  <2>2. BTypes
    BY DEF BInv
  <2> QED
    BY <2>1, <2>2, CallEffect, ThrowStep, ReturnsStep, UnshuffleStep
<1>4. CASE Refusals
  BY <1>4, RefusalStep
<1>5. CASE UNCHANGED bufferVars
  BY <1>5 DEF bufferVars, BInv, BTypes, WindowIsResult, Window, HoldsAt, Remaining
<1> QED
  BY <1>1, <1>2, <1>3, <1>4, <1>5, Zenon DEF BufferNext, TwoBuffers, Refusals

\* Fresh buffers are empty.
LEMMA BInvInit == BufferInit => BInv
<1> SUFFICES ASSUME BufferInit PROVE BInv
  OBVIOUS
<1>1. None \in Cells
  BY DEF Cells
<1>2. BTypes
  BY <1>1, CapacityAssumption DEF BufferInit, BTypes
<1>3. WindowIsResult
  BY DEF BufferInit, NoCall, WindowIsResult
<1> QED
  BY <1>2, <1>3 DEF BInv

\* A call that returns normally leaves its result as the window of the output and its
\* input as it was (an unshuffle when the two positions are the same).
THEOREM WindowAlwaysResult == BufferSpec => []WindowIsResult
<1>1. BInv => WindowIsResult
  BY DEF BInv
<1> QED
  BY BInvInit, BInvStep, <1>1, PTL DEF BufferSpec

\* Where a byte may change, as in OnlyOutput.
MayChange(b, i) ==
    /\ b = last'.dst
    /\ failure' \notin {"NOT_A_DIRECT_BUFFER", "IllegalArgumentException"}
    /\ \/ last'.op = "unshuffle" /\ pos[last'.src] # pos[b]
       \/ last'.op = "uncompress" /\ failure' # "none" /\ i >= pos[b]
       \/ i \in pos[b]..(pos[b] + Longest(last'.op, last'.src, last'.to) - 1)

\* A call that wrote has changed nothing else.
LEMMA WroteOnly ==
  ASSUME BTypes, NEW op, NEW s, NEW d, NEW p, NEW x, NEW j, Wrote(op, s, d, p, x, j),
         failure' \notin {"NOT_A_DIRECT_BUFFER", "IllegalArgumentException"},
         NEW b \in Bufs, NEW i \in Index(b), mem'[b][i] # mem[b][i]
  PROVE  MayChange(b, i)
<1>1. /\ StoreStep(s, d, p, x, j)
      /\ last'.op = op /\ last'.src = s /\ last'.dst = d
      /\ p = pos[d] \/ (op = "unshuffle" /\ p = pos[s])
      /\ \/ op = "uncompress" /\ failure' # "none"
         \/ /\ Longest(op, s, last'.to) \in Int
            /\ x.size + j <= Longest(op, s, last'.to)
  BY DEF Wrote
<1>2. d \in Bufs /\ p \in Nat /\ x \in Data /\ j \in Nat /\ x.size \in Nat
  BY <1>1, DataForms DEF StoreStep
<1>3. b = d /\ i \in p..(p + x.size + j - 1)
  <2>1. /\ \A c \in Bufs : c # d => mem'[c] = mem[c]
        /\ \A l \in Index(d) : l \notin p..(p + x.size + j - 1) => mem'[d][l] = mem[d][l]
    BY <1>1, <1>2, Stored DEF StoreStep
  <2> QED
    BY <2>1
<1>4. CASE p = pos[d] /\ op = "uncompress" /\ failure' # "none"
  BY <1>1, <1>2, <1>3, <1>4 DEF MayChange
<1>5. CASE /\ p = pos[d] /\ Longest(op, s, last'.to) \in Int
           /\ x.size + j <= Longest(op, s, last'.to)
  <2>1. i \in pos[b]..(pos[b] + Longest(op, s, last'.to) - 1)
    BY <1>2, <1>3, <1>5
  <2> QED
    BY <1>1, <1>3, <2>1 DEF MayChange
<1>6. CASE p # pos[d]
  BY <1>1, <1>3, <1>6 DEF MayChange
<1> QED
  BY <1>1, <1>4, <1>5, <1>6

\* A call that Java's tests refuse changes no byte; any other only its output, from its
\* position on, as far as its longest result, or to the end when uncompress throws.
THEOREM OnlyOutputChanges == BufferSpec => OnlyOutput
<1>1. ASSUME BInv, [BufferNext]_bufferVars
      PROVE  [last'.op # "none" =>
               \A b \in Bufs : \A i \in Index(b) : mem'[b][i] # mem[b][i] =>
                  /\ b = last'.dst
                  /\ failure' \notin {"NOT_A_DIRECT_BUFFER", "IllegalArgumentException"}
                  /\ \/ last'.op = "unshuffle" /\ pos[last'.src] # pos[b]
                     \/ last'.op = "uncompress" /\ failure' # "none" /\ i >= pos[b]
                     \/ i \in pos[b]..(pos[b] + Longest(last'.op, last'.src, last'.to) - 1)]_bufferVars
  <2> SUFFICES ASSUME BufferNext, last'.op # "none", NEW b \in Bufs, NEW i \in Index(b),
                      mem'[b][i] # mem[b][i]
               PROVE  MayChange(b, i)
    BY <1>1 DEF MayChange
  <2>1. BTypes
    BY <1>1 DEF BInv
  <2>2. CASE Refusals
    BY <1>1, <2>2, RefusalStep
  <2>3. CASE \E s, d \in Direct : s # d /\ TwoBuffers(s, d)
    <3>1. PICK s \in Direct, d \in Direct : s # d /\ TwoBuffers(s, d)
      BY <2>3
    <3>2. Unshuffles(s, d) \/ \E op : Returns(op, s, d) \/ Throws(op, s, d)
      BY <2>1, <3>1, CallEffect
    <3>3. /\ \E op, p, x, j : Wrote(op, s, d, p, x, j)
          /\ failure' \notin {"NOT_A_DIRECT_BUFFER", "IllegalArgumentException"}
      BY <3>2 DEF Unshuffles, Returns, ReturnsData, Throws, Succeed
    <3> QED
      BY <2>1, <3>3, WroteOnly
  <2>4. /\ \A c \in Direct, p \in Positions, n \in Sizes : ~Fill(c, p, n)
        /\ \A c \in Direct, p \in Positions : ~ClearTo(c, p)
    BY DEF Fill, ClearTo, NoCall
  <2> QED
    BY <2>2, <2>3, <2>4, Zenon DEF BufferNext, TwoBuffers, Refusals
<1> QED
  BY BInvInit, BInvStep, <1>1, PTL DEF BufferSpec, OnlyOutput

-----------------------------------------------------------------------------
(* Arrays.                                                                 *)

\* The arrays a caller can have.
Given == [k : ElementSizes, n : 0..MAX_VALUE]

\* Type correctness; what packed says of lengths is an int or, from elsewhere, a number.
ATypes ==
    /\ array \in {NoArray} \cup Given /\ source \in {NoArray} \cup Given
    /\ packed \in {NoArray} \cup [form : {"compressed", "shuffled"}, length : Int, data : Nat]
    /\ scratch \in [size : Int, need : Int]

\* Where packed comes from tells how many bytes are in it.
Packing ==
    packed # NoArray =>
       /\ IF source = NoArray THEN packed.data < Word
          ELSE ~tooLarge(source) /\ packed.data = Int32(Bytes(source))
       /\ packed.form = "shuffled" => packed.length = packed.data /\ packed.data <= MAX_VALUE

\* The inductive invariant of the arrays.
AInv == ATypes /\ Packing /\ SizeRestored /\ ScratchSuffices

\* Half of an even number of at least 256.
LEMMA HalfOfEven ==
  ASSUME NEW w \in Nat, w % 16 = 0, w >= 256
  PROVE  w \div 2 \in Nat /\ w = 2 * (w \div 2) /\ w \div 2 >= 128
  OBVIOUS

\* What is used of the number of ints.
LEMMA HalfWord ==
  \E h \in Nat : Word = 2 * h /\ Word \div 2 = h /\ h >= 128 /\ MAX_VALUE = h - 1
<1>1. Word \in Nat /\ Word % 16 = 0 /\ Word >= 256
  BY WordAssumption
<1>2. Word \div 2 \in Nat /\ Word = 2 * (Word \div 2) /\ Word \div 2 >= 128
  BY <1>1, HalfOfEven
<1>3. MAX_VALUE = Word \div 2 - 1
  BY DEF MAX_VALUE
<1> QED
  BY <1>2, <1>3

\* The int with the low bits of a number that is not negative and is an unsigned int.
LEMMA IntOfUnsigned ==
  ASSUME NEW x \in Nat, x < Word
  PROVE  /\ x <= MAX_VALUE => Int32(x) = x
         /\ x > MAX_VALUE => Int32(x) < 0 /\ Int32(x) = x - Word
         /\ Int32(x) \in Int
<1>1. PICK h \in Nat :
          Word = 2 * h /\ Word \div 2 = h /\ h >= 128 /\ MAX_VALUE = h - 1
  BY HalfWord
<1>2. MAX_VALUE = h - 1 /\ Int32(x) = ((x + h) % Word) - h
  BY <1>1 DEF Int32
<1>3. CASE x < h
  <2>1. (x + h) % Word = x + h
    BY <1>1, <1>3
  <2> QED
    BY <1>1, <1>2, <1>3, <2>1
<1>4. CASE x >= h
  <2>1. (x + h) % Word = (x + h) - Word
    BY <1>1, <1>4
  <2> QED
    BY <1>1, <1>2, <1>4, <2>1
<1> QED
  BY <1>1, <1>3, <1>4

\* Of any number, it is an int.
LEMMA IntOfAny ==
  ASSUME NEW x \in Int
  PROVE  Int32(x) \in Int /\ Int32(x) <= MAX_VALUE
<1>1. PICK h \in Nat :
          Word = 2 * h /\ Word \div 2 = h /\ h >= 128 /\ MAX_VALUE = h - 1
  BY HalfWord
<1>2. MAX_VALUE = h - 1 /\ Int32(x) = ((x + h) % Word) - h
  BY <1>1 DEF Int32
<1>3. (x + h) % Word \in 0..(Word - 1)
  BY <1>1
<1> QED
  BY <1>1, <1>2, <1>3

\* The longest block of an int's number of bytes has a length that is an unsigned int.
LEMMA LongestBlock ==
  ASSUME NEW b \in 0..MAX_VALUE
  PROVE  MaxCompressedLength(b) \in Nat /\ MaxCompressedLength(b) < Word /\ MAX_VALUE \in Nat
<1>1. PICK h \in Nat : Word = 2 * h /\ MAX_VALUE = h - 1 /\ h >= 128
  BY HalfWord
<1>2. b \in Nat /\ b <= h - 1
  BY <1>1
<1>3. b \div 6 \in Nat /\ 6 * (b \div 6) <= b
  BY <1>2
<1> QED
  BY <1>1, <1>2, <1>3 DEF MaxCompressedLength

\* The bytes of an array, and their number as the program computes it.
LEMMA ByteSize ==
  ASSUME NEW a \in Given
  PROVE  /\ Bytes(a) \in Nat /\ a.n \in 0..MAX_VALUE
         /\ ~tooLarge(a) => Int32(Bytes(a)) \in 0..MAX_VALUE
         /\ ~tooLarge(a) /\ Bytes(a) < Word => Int32(Bytes(a)) = Bytes(a)
<1>1. a.k \in {1, 2, 4, 8} /\ a.n \in 0..MAX_VALUE /\ MAX_VALUE \in Nat
  BY WordAssumption DEF Given, ElementSizes, MAX_VALUE
<1>2. Bytes(a) \in Nat /\ (a.k = 1 => Bytes(a) = a.n)
  BY <1>1 DEF Bytes
<1>3. Int32(Bytes(a)) \in Int /\ Int32(Bytes(a)) <= MAX_VALUE
  BY <1>2, IntOfAny
<1>4. MAX_VALUE < Word
  BY HalfWord
<1>5. CASE a.k = 1
  <2>1. a.n \in Nat /\ a.n < Word /\ a.n <= MAX_VALUE
    BY <1>1, <1>4, WordAssumption
  <2>2. Int32(a.n) = a.n
    BY <2>1, IntOfUnsigned
  <2>3. Bytes(a) = a.n
    BY <1>2, <1>5
  <2>4. Int32(Bytes(a)) = a.n
    BY <2>2, <2>3
  <2> QED
    BY <1>1, <1>2, <1>5, <2>4
<1>6. CASE a.k > 1
  <2>1. ~tooLarge(a) => Int32(Bytes(a)) >= a.n
    BY <1>1, <1>3, <1>6 DEF tooLarge
  <2>2. ~tooLarge(a) => Int32(Bytes(a)) \in 0..MAX_VALUE
    BY <1>1, <1>3, <2>1
  <2>3. Bytes(a) < Word => Int32(Bytes(a)) = Bytes(a) \/ Int32(Bytes(a)) < 0
    BY <1>1, <1>2, IntOfUnsigned
  <2> QED
    BY <1>1, <1>2, <2>2, <2>3
<1> QED
  BY <1>1, <1>5, <1>6

\* Whole elements, and what is left.
LEMMA Elements ==
  ASSUME NEW k \in ElementSizes, NEW b \in 0..MAX_VALUE
  PROVE  /\ b \div k \in 0..MAX_VALUE
         /\ b = (b \div k) * k + (b % k)
         /\ \A n \in Nat : n * k = b => b \div k = n
<1>1. MAX_VALUE \in Nat /\ b \in Nat /\ b <= MAX_VALUE
  BY WordAssumption DEF MAX_VALUE
<1>2. CASE k = 1
  BY <1>1, <1>2
<1>3. CASE k = 2
  BY <1>1, <1>3
<1>4. CASE k = 4
  BY <1>1, <1>4
<1>5. CASE k = 8
  BY <1>1, <1>5
<1> QED
  BY <1>2, <1>3, <1>4, <1>5 DEF ElementSizes

\* A quotient of 0.
LEMMA SmallQuotient ==
  ASSUME NEW k \in ElementSizes, NEW y \in Nat, -(y \div k) >= 0
  PROVE  y \div k = 0 /\ y < k
<1>1. CASE k = 1
  BY <1>1
<1>2. CASE k = 2
  BY <1>2
<1>3. CASE k = 4
  BY <1>3
<1>4. CASE k = 8
  BY <1>4
<1> QED
  BY <1>1, <1>2, <1>3, <1>4 DEF ElementSizes

\* What a method makes of the b bytes it unpacks.
LEMMA Unpacked ==
  ASSUME ATypes, Packing, packed # NoArray, NEW k \in ElementSizes, NEW b \in 0..MAX_VALUE,
         b = packed.data,
         array' = [k |-> k, n |-> b \div k], packed' = packed, source' = source
  PROVE  array' \in Given /\ SizeRestored'
<1>1. b \div k \in 0..MAX_VALUE
  BY Elements
<1>2. array' \in Given /\ array'.k = k /\ array'.n = b \div k
  BY <1>1 DEF Given
<1>3. packed'.data = Bytes(array') + (packed'.data % array'.k)
  <2>1. b = (b \div k) * k + (b % k)
    BY Elements
  <2> QED
    BY <1>2, <2>1 DEF Bytes
<1>4. ASSUME source # NoArray, k = source.k
      PROVE  array' = source \/ Bytes(source) >= Word
  <2>1. source \in Given /\ source = [k |-> source.k, n |-> source.n] /\ k = source.k
    BY <1>4 DEF ATypes, Given
  <2>2. ASSUME Bytes(source) < Word PROVE array' = source
    <3>1. b = Bytes(source)
      BY <1>4, <2>1, <2>2, ByteSize DEF Packing
    <3>2. source.n \in Nat /\ source.n * k = b
      BY <2>1, <3>1, ByteSize DEF Bytes
    <3>3. b \div k = source.n
      BY <3>2, Elements
    <3> QED
      BY <2>1, <3>3
  <2>3. Bytes(source) \in Nat /\ Word \in Nat
    BY <2>1, ByteSize, WordAssumption
  <2> QED
    BY <2>2, <2>3
<1>5. SizeRestored'
  BY <1>2, <1>3, <1>4 DEF SizeRestored, Bytes
<1> QED
  BY <1>2, <1>5

\* A call that is refused changes nothing.
LEMMA RefuseStep ==
  ASSUME AInv, NEW e, Refuse(e)
  PROVE  AInv'
<1>1. array' = array /\ packed' = packed /\ source' = source /\ scratch' = scratch
  BY DEF Refuse
<1> QED
  BY <1>1 DEF AInv, ATypes, Packing, SizeRestored, ScratchSuffices

\* compress and rawCompress: a buffer that was allocated holds the longest block.
LEMMA CompressStep ==
  ASSUME AInv, NEW c, compress(c)
  PROVE  AInv'
<1>1. PICK b : b = Int32(Bytes(array))
  OBVIOUS
<1>2. PICK size : size = maxCompressedLength(b)
  OBVIOUS
<1>3. CASE \E e : Refuse(e)
  BY <1>3, RefuseStep
<1>4. CASE /\ array # NoArray /\ ~tooLarge(array) /\ size >= 0
           /\ c \in 1..MaxCompressedLength(b)
           /\ scratch' = [size |-> size, need |-> c]
           /\ packed' = [form |-> "compressed", length |-> c, data |-> b]
           /\ source' = array
           /\ array' = NoArray
  <2>1. array \in Given
    BY <1>4 DEF AInv, ATypes
  <2>2. b \in 0..MAX_VALUE
    BY <1>1, <1>4, <2>1, ByteSize
  <2>3. PICK x \in Nat : x = MaxCompressedLength(b) /\ x < Word /\ MAX_VALUE \in Nat
    BY <2>2, LongestBlock
  <2>4. size = Int32(x)
    BY <1>2, <2>3 DEF maxCompressedLength
  <2>5. size = x
    BY <1>4, <2>3, <2>4, IntOfUnsigned
  <2>6. ATypes'
    BY <1>4, <2>1, <2>2, <2>3, <2>5 DEF ATypes
  <2>7. Packing'
    BY <1>1, <1>4 DEF Packing, tooLarge, Bytes
  <2>8. SizeRestored' /\ ScratchSuffices'
    BY <1>4, <2>3, <2>5 DEF SizeRestored, ScratchSuffices
  <2> QED
    BY <2>6, <2>7, <2>8 DEF AInv
<1> QED
  BY <1>1, <1>2, <1>3, <1>4 DEF compress

\* How many bytes of data can be in what is packed.
LEMMA DataBound ==
  ASSUME AInv, packed # NoArray
  PROVE  /\ packed.data \in Nat /\ packed.data < Word
         /\ source # NoArray => packed.data \in 0..MAX_VALUE
<1>1. CASE source = NoArray
  BY <1>1 DEF AInv, ATypes, Packing
<1>2. CASE source # NoArray
  <2>1. packed.data \in 0..MAX_VALUE
    BY <1>2, ByteSize DEF AInv, ATypes, Packing
  <2> QED
    BY <2>1, WordAssumption DEF MAX_VALUE
<1> QED
  BY <1>1, <1>2

\* uncompress and uncompressXArray: a length that is no int is refused, or the quotient is 0.
LEMMA UncompressStep ==
  ASSUME AInv, NEW k \in ElementSizes, uncompress(k)
  PROVE  AInv'
<1>1. packed # NoArray
  BY DEF uncompress
<1>2. PICK n : n = Quotient(Int32(packed.data), k)
  OBVIOUS
<1>3. packed.data \in Nat /\ packed.data < Word /\ Word \in Nat /\ MAX_VALUE \in Nat
  BY <1>1, DataBound, WordAssumption DEF MAX_VALUE
<1>4. CASE \E e : Refuse(e)
  BY <1>4, RefuseStep
<1>5. CASE /\ n >= 0
           /\ array' = [k |-> k, n |-> n]
           /\ UNCHANGED <<packed, source, scratch>>
  <2>1. array' \in Given /\ SizeRestored'
    <3>1. CASE packed.data <= MAX_VALUE
      <4>1. Int32(packed.data) = packed.data /\ packed.data \in 0..MAX_VALUE
        BY <1>3, <3>1, IntOfUnsigned
      <4>2. n = packed.data \div k
        BY <1>2, <4>1 DEF Quotient
      <4> QED
        BY <1>1, <1>5, <4>1, <4>2, Unpacked DEF AInv
    <3>2. CASE packed.data > MAX_VALUE
      <4>1. PICK y \in Nat : y = Word - packed.data
        BY <1>3
      <4>2. PICK z \in Int : z = Int32(packed.data) /\ ~(z >= 0) /\ -z = y
        BY <1>3, <3>2, <4>1, IntOfUnsigned
      <4>3. n = -(y \div k)
        <5>1. n = -((-z) \div k)
          BY <1>2, <4>2, Zenon DEF Quotient
        <5> QED
          BY <4>2, <5>1
      <4>4. n = 0 /\ y < k
        BY <1>5, <4>3, SmallQuotient
      <4>5. packed.data > Word - k
        <5>1. k \in Nat
          BY DEF ElementSizes
        <5> QED
          BY <1>3, <4>1, <4>4, <5>1
      <4>6. source = NoArray
        BY <1>1, <1>3, <3>2, DataBound
      <4>7. array' \in Given
        BY <1>3, <1>5, <4>4 DEF Given
      <4> QED
        BY <1>5, <4>5, <4>6, <4>7 DEF SizeRestored
    <3> QED
      BY <1>3, <3>1, <3>2
  <2> QED
    BY <1>5, <2>1 DEF AInv, ATypes, Packing, ScratchSuffices
<1> QED
  BY <1>2, <1>4, <1>5 DEF uncompress

\* BitShuffle.shuffle: an array of exactly the bytes.
LEMMA ShuffleStep ==
  ASSUME AInv, shuffle
  PROVE  AInv'
<1>1. PICK b : b = Int32(Bytes(array))
  OBVIOUS
<1>2. CASE \E e : Refuse(e)
  BY <1>2, RefuseStep
<1>3. CASE /\ array # NoArray /\ ~tooLarge(array)
           /\ packed' = [form |-> "shuffled", length |-> b, data |-> b]
           /\ source' = array /\ array' = NoArray
           /\ scratch' = scratch
  <2>1. array \in Given
    BY <1>3 DEF AInv, ATypes
  <2>2. b \in 0..MAX_VALUE
    BY <1>1, <1>3, <2>1, ByteSize
  <2>3. ATypes'
    BY <1>3, <2>1, <2>2 DEF AInv, ATypes
  <2>4. Packing'
    BY <1>1, <1>3, <2>2 DEF Packing, tooLarge, Bytes
  <2> QED
    BY <1>3, <2>3, <2>4 DEF AInv, SizeRestored, ScratchSuffices
<1> QED
  BY <1>1, <1>2, <1>3 DEF shuffle

\* BitShuffle.unshuffleXArray.
LEMMA UnshuffleArrayStep ==
  ASSUME AInv, NEW k \in ElementSizes, unshuffle(k)
  PROVE  AInv'
<1>1. packed # NoArray /\ packed.form = "shuffled"
  BY DEF unshuffle
<1>2. packed.length = packed.data /\ packed.data \in 0..MAX_VALUE
  BY <1>1, DataBound, WordAssumption DEF AInv, Packing, MAX_VALUE
<1>3. CASE Refuse("AssertionError")
  BY <1>3, RefuseStep
<1>4. CASE /\ array' = [k |-> k, n |-> packed.length \div k]
           /\ packed' = packed /\ source' = source /\ scratch' = scratch
  <2>1. array' \in Given /\ SizeRestored'
    BY <1>1, <1>2, <1>4, Unpacked DEF AInv
  <2> QED
    BY <1>4, <2>1 DEF AInv, ATypes, Packing, ScratchSuffices
<1> QED
  BY <1>3, <1>4 DEF unshuffle

\* The caller gets an array, a block, or begins again.
LEMMA CallerStep ==
  ASSUME AInv,
         \/ Forget \/ \E k \in ElementSizes, n \in Lengths : NewArray(k, n)
         \/ \E form \in {"compressed", "shuffled"}, b \in Lengths :
              Receive(form, b) \/ Receive(form, b + Word \div 2)
  PROVE  AInv'
<1>1. CASE Forget
  BY <1>1 DEF Forget, AInv, ATypes, Packing, SizeRestored, ScratchSuffices
<1>2. CASE \E k \in ElementSizes, n \in Lengths : NewArray(k, n)
  <2>1. PICK k \in ElementSizes, n \in Lengths : NewArray(k, n)
    BY <1>2
  <2>2. [k |-> k, n |-> n] \in Given
    BY LengthsAssumption DEF Given
  <2> QED
    BY <2>1, <2>2 DEF NewArray, AInv, ATypes, Packing, SizeRestored, ScratchSuffices
<1>3. CASE \E form \in {"compressed", "shuffled"}, b \in Lengths :
             Receive(form, b) \/ Receive(form, b + Word \div 2)
  <2>1. PICK form \in {"compressed", "shuffled"}, b \in Nat : Receive(form, b) /\ b < Word
    <3>1. PICK f \in {"compressed", "shuffled"}, l \in Lengths :
             Receive(f, l) \/ Receive(f, l + Word \div 2)
      BY <1>3
    <3>2. /\ l \in Nat /\ l < Word
          /\ l + Word \div 2 \in Nat /\ l + Word \div 2 < Word
      BY LengthsAssumption, WordAssumption DEF MAX_VALUE
    <3> QED
      BY <3>1, <3>2
  <2> QED
    BY <2>1 DEF Receive, AInv, ATypes, Packing, SizeRestored, ScratchSuffices
<1> QED
  BY <1>1, <1>2, <1>3

\* Every step of the arrays.
LEMMA AInvStep ==
  ASSUME AInv, [ArrayNext]_arrayVars
  PROVE  AInv'
<1>1. CASE UNCHANGED arrayVars
  BY <1>1 DEF arrayVars, AInv, ATypes, Packing, SizeRestored, ScratchSuffices
<1>2. CASE ArrayNext
  BY <1>2, CallerStep, CompressStep, UncompressStep, ShuffleStep, UnshuffleArrayStep DEF ArrayNext
<1> QED
  BY <1>1, <1>2

\* Nothing is packed at first.
LEMMA AInvInit == ArrayInit => AInv
BY DEF ArrayInit, AInv, ATypes, Packing, SizeRestored, ScratchSuffices

\* An array that is packed and unpacked gets its size back, in an int of any width,
\* unless its bytes are Word or more, and anything else an array of its whole elements,
\* unless the length is cast to a negative int greater than -k.
THEOREM SizeAlwaysRestored == ArraySpec => []SizeRestored
<1>1. AInv => SizeRestored
  BY DEF AInv
<1> QED
  BY AInvInit, AInvStep, <1>1, PTL DEF ArraySpec

\* The buffer that rawCompress allocates holds whatever the native library writes.
THEOREM ScratchAlwaysSuffices == ArraySpec => []ScratchSuffices
<1>1. AInv => ScratchSuffices
  BY DEF AInv
<1> QED
  BY AInvInit, AInvStep, <1>1, PTL DEF ArraySpec

-----------------------------------------------------------------------------
(***************************************************************************)
(* SnappyLoader and the initialization of its classes for any number of    *)
(* threads, every setting, and any number of clean-ups: LoadedOnce and     *)
(* ImplReady are invariants.                                               *)
(*                                                                         *)
(* Neither is inductive.  That the library is loaded once rests on the     *)
(* monitor: while a thread looks for the library nobody else can set       *)
(* isLoaded.  That only a whole file is linked rests on what nativeLibFile *)
(* names, also after an attempt that failed, while clean-ups delete it     *)
(* without the monitor.  That a class gets its impl rests on the field     *)
(* being the class's at the return statement, but for the clean-ups that   *)
(* cleared it right there; nobody can set it again then, so that such a    *)
(* class is left without.                                                  *)
(***************************************************************************)

\* Where a thread is inside loadNativeLibrary, and inside the synchronized method.
Loading == {"find", "extract", "verify", "load"}
Holding == Loading \union {"set", "return"}
Initializing == {"enter"} \union Holding
Cleaning == {"file", "clearSnappy", "clearBitShuffle", "reset", "install"}

Typed ==
    /\ isLoaded \in BOOLEAN /\ linked \in BOOLEAN
    /\ api \in [Classes -> Classes \union {NULL}]
    /\ impl \in [Classes -> Classes \union {NULL}]
    /\ nativeLibFile \in Files \union {NULL}
    /\ content \in [Files -> {"absent", "partial", "whole"}]
    /\ monitor \in Threads \union {NULL}
    /\ class \in [Classes -> {"new", "running", "done", "failed"}]
    /\ pc \in [Threads -> {"idle"} \union Initializing \union Cleaning]
    /\ work \in [Threads -> Classes \union {"cleanUp", "start", "stop", NULL}]

\* The monitor is the thread's that is inside a synchronized load method.
Monitored == \A t \in Threads : pc[t] \in Holding <=> monitor = t

\* Each class is initialized by one thread, and at most once.
OneInitializer ==
    /\ \A t \in Threads : pc[t] \in Initializing => work[t] \in Classes
    /\ \A t \in Threads, c \in Classes :
         pc[t] \in Initializing /\ work[t] = c => class[c] = "running"
    /\ \A t, u \in Threads :
         pc[t] \in Initializing /\ pc[u] \in Initializing /\ work[t] = work[u] => t = u

\* isLoaded agrees with the place of the thread that has the monitor, and with what
\* System.load was given.
LoadedByHolder ==
    /\ \A t \in Threads : /\ pc[t] \in Loading => ~isLoaded
                          /\ pc[t] = "set" => isLoaded
    /\ loads = IF isLoaded THEN <<"whole">> ELSE << >>

\* nativeLibFile never names a file that was not copied to its end: the user's is
\* whole or absent, an extracted one is named only after contentsEquals, and the file
\* of a class is written before it is named and never again.
NamedWhole ==
    /\ content["given"] # "partial"
    /\ nativeLibFile # NULL => content[nativeLibFile] # "partial"
    /\ nativeLibFile \in Classes => class[nativeLibFile] # "new"
    /\ \A t \in Threads :
         pc[t] \in {"enter", "find", "extract", "verify"} => nativeLibFile # work[t]

\* A field is only ever set to the object of its class, after a library was linked.
SetAfterLink ==
    /\ \A c \in Classes : /\ api[c] \in {NULL, c} /\ impl[c] \in {NULL, c}
                          /\ api[c] # NULL => isLoaded \/ linked
                          /\ impl[c] # NULL => isLoaded \/ linked
    /\ \A t \in Threads : pc[t] = "install" => linked

\* At the return statement the field is set unless a clean-up cleared it there; a
\* class that was disturbed is at its return statement or has passed it.
ReadBack ==
    /\ \A t \in Threads : pc[t] = "return" => (api[work[t]] = work[t] <=> work[t] \notin disturbed)
    /\ \A c \in Classes : class[c] = "done" => (impl[c] = c <=> c \notin disturbed)
    /\ \A c \in Classes : c \in disturbed => class[c] \in {"running", "done"}
    /\ \A t \in Threads : pc[t] \in Initializing /\ work[t] \in disturbed => pc[t] = "return"

LInv == /\ Typed /\ Monitored /\ OneInitializer /\ LoadedByHolder /\ NamedWhole
        /\ SetAfterLink /\ ReadBack
-----------------------------------------------------------------------------
(* The invariant holds at the start, and one lemma for each step.          *)

LEMMA LInvInit == Init => LInv
<1> SUFFICES ASSUME Init PROVE LInv
  OBVIOUS
<1> USE LoaderAssumption DEF Init, Loading, Holding, Initializing, Cleaning, Classes, Files
<1>1. Typed
  BY DEF Typed
<1>2. Monitored
  BY DEF Monitored
<1>3. OneInitializer /\ LoadedByHolder
  BY DEF OneInitializer, LoadedByHolder
<1>4. NamedWhole
  BY DEF NamedWhole
<1>5. SetAfterLink /\ ReadBack
  BY DEF SetAfterLink, ReadBack
<1> QED
  BY <1>1, <1>2, <1>3, <1>4, <1>5 DEF LInv

\* A class that is new becomes the thread's own: no other thread works on it, and
\* nativeLibFile does not name its file.
LEMMA InitClassStep ==
    ASSUME LInv, NEW t \in Threads, NEW c \in Classes, initClass(t, c)
    PROVE  LInv'
<1> USE LoaderAssumption
    DEF LInv, Typed, initClass, At, Goto, configVars, loaderVars, classVars, bundleVars,
        Loading, Holding, Initializing, Cleaning, Classes, Files
<1>1. Typed'
  OBVIOUS
<1>2. Monitored'
  BY DEF Monitored
<1>3. OneInitializer'
  BY DEF OneInitializer
<1>4. LoadedByHolder'
  BY DEF LoadedByHolder
<1>5. NamedWhole'
  BY DEF NamedWhole
<1>6. SetAfterLink'
  BY DEF SetAfterLink
<1>7. ReadBack'
  BY DEF ReadBack
<1> QED
  BY <1>1, <1>2, <1>3, <1>4, <1>5, <1>6, <1>7

\* The monitor was free, so that nobody is loading.  A field that is set is the class's.
LEMMA EnterStep ==
    ASSUME LInv, NEW t \in Threads, enterMonitor(t)
    PROVE  LInv'
<1> USE LoaderAssumption
    DEF LInv, Typed, enterMonitor, At, Goto, configVars, loaderVars, classVars,
        bundleVars, Loading, Holding, Initializing, Cleaning, Classes, Files
<1>1. Typed'
  OBVIOUS
<1>2. Monitored'
  BY DEF Monitored
<1>3. OneInitializer'
  BY DEF OneInitializer
<1>4. LoadedByHolder'
  BY DEF LoadedByHolder
<1>5. NamedWhole'
  BY DEF NamedWhole
<1>6. SetAfterLink'
  BY DEF SetAfterLink
<1>7. ReadBack'
  BY DEF ReadBack, OneInitializer, SetAfterLink
<1> QED
  BY <1>1, <1>2, <1>3, <1>4, <1>5, <1>6, <1>7

\* The thread with the monitor chooses the library, or fails.
LEMMA FindStep ==
    ASSUME LInv, NEW t \in Threads, findNativeLibrary(t)
    PROVE  LInv'
<1>1. /\ pc[t] = "find"
      /\ UNCHANGED <<isLoaded, api, content, loads, linked, disturbed, impl>>
  BY DEF findNativeLibrary, At, stay, found, fail, classVars, bundleVars
<1>2. \/ /\ nativeLibFile' = NULL \/ nativeLibFile' = "given"
         /\ pc' = [pc EXCEPT ![t] = "load"]
         /\ UNCHANGED <<class, monitor, work>>
      \/ /\ pc' = [pc EXCEPT ![t] = "extract"]
         /\ UNCHANGED <<nativeLibFile, class, monitor, work>>
      \/ /\ fail(t) /\ UNCHANGED nativeLibFile
  BY DEF findNativeLibrary, found, stay, Goto, classVars
<1> USE <1>1, <1>2, LoaderAssumption
    DEF LInv, Typed, fail, Goto, Loading, Holding, Initializing, Cleaning, Classes,
        Files
<1>3. Typed'
  OBVIOUS
<1>4. Monitored'
  BY DEF Monitored
<1>5. OneInitializer'
  BY DEF OneInitializer
<1>6. LoadedByHolder'
  BY DEF LoadedByHolder
<1>7. NamedWhole'
  BY DEF NamedWhole, OneInitializer
<1>8. SetAfterLink'
  BY DEF SetAfterLink
<1>9. ReadBack'
  BY DEF ReadBack
<1> QED
  BY <1>3, <1>4, <1>5, <1>6, <1>7, <1>8, <1>9

\* The file of the thread's own class is written, which nativeLibFile does not name.
LEMMA ExtractStep ==
    ASSUME LInv, NEW t \in Threads, extractLibraryFile(t)
    PROVE  LInv'
<1> USE LoaderAssumption
    DEF LInv, Typed, extractLibraryFile, found, stay, At, Goto, configVars, loaderVars,
        classVars, bundleVars, Loading, Holding, Initializing, Cleaning, Classes, Files
<1>1. Typed'
  OBVIOUS
<1>2. Monitored'
  BY DEF Monitored
<1>3. OneInitializer'
  BY DEF OneInitializer
<1>4. LoadedByHolder'
  BY DEF LoadedByHolder
<1>5. NamedWhole'
  BY DEF NamedWhole, OneInitializer
<1>6. SetAfterLink'
  BY DEF SetAfterLink
<1>7. ReadBack'
  BY DEF ReadBack
<1> QED
  BY <1>1, <1>2, <1>3, <1>4, <1>5, <1>6, <1>7

\* Only a whole copy becomes nativeLibFile.
LEMMA CompareStep ==
    ASSUME LInv, NEW t \in Threads, contentsEquals(t)
    PROVE  LInv'
<1> USE LoaderAssumption
    DEF LInv, Typed, contentsEquals, found, fail, stay, At, Goto, configVars,
        loaderVars, classVars, bundleVars, Loading, Holding, Initializing, Cleaning,
        Classes, Files
<1>1. Typed'
  BY DEF OneInitializer
<1>2. Monitored'
  BY DEF Monitored
<1>3. OneInitializer'
  BY DEF OneInitializer
<1>4. LoadedByHolder'
  BY DEF LoadedByHolder
<1>5. NamedWhole'
  BY DEF NamedWhole, OneInitializer
<1>6. SetAfterLink'
  BY DEF SetAfterLink
<1>7. ReadBack'
  BY DEF ReadBack
<1> QED
  BY <1>1, <1>2, <1>3, <1>4, <1>5, <1>6, <1>7

\* Nobody has loaded the library before, and the file is whole or gone.
LEMMA LoadStep ==
    ASSUME LInv, NEW t \in Threads, loadNativeLibrary(t)
    PROVE  LInv'
<1>1. isLoaded' \in BOOLEAN
  BY DEF loadNativeLibrary, LInv, Typed
<1> USE LoaderAssumption
    DEF LInv, Typed, loadNativeLibrary, fail, stay, At, Goto, configVars, loaderVars,
        classVars, bundleVars, Loading, Holding, Initializing, Cleaning, Classes, Files
<1>2. Typed'
  BY <1>1 DEF OneInitializer
<1>3. Monitored'
  BY DEF Monitored
<1>4. OneInitializer'
  BY DEF OneInitializer
<1>5. LoadedByHolder'
  BY DEF LoadedByHolder, Monitored, NamedWhole
<1>6. NamedWhole'
  BY DEF NamedWhole
<1>7. SetAfterLink'
  BY DEF SetAfterLink
<1>8. ReadBack'
  BY DEF ReadBack
<1> QED
  BY <1>2, <1>3, <1>4, <1>5, <1>6, <1>7, <1>8

\* The field is set under the monitor, once the library is loaded.
LEMMA SetApiStep ==
    ASSUME LInv, NEW t \in Threads, setApi(t)
    PROVE  LInv'
<1> USE LoaderAssumption
    DEF LInv, Typed, setApi, stay, At, Goto, configVars, loaderVars, classVars,
        bundleVars, Loading, Holding, Initializing, Cleaning, Classes, Files
<1>1. Typed'
  OBVIOUS
<1>2. Monitored'
  BY DEF Monitored
<1>3. OneInitializer'
  BY DEF OneInitializer
<1>4. LoadedByHolder'
  BY DEF LoadedByHolder
<1>5. NamedWhole'
  BY DEF NamedWhole
<1>6. SetAfterLink'
  BY DEF SetAfterLink, LoadedByHolder
<1>7. ReadBack'
  BY DEF ReadBack, OneInitializer
<1> QED
  BY <1>1, <1>2, <1>3, <1>4, <1>5, <1>6, <1>7

\* What the field holds becomes the impl of the class, which is no longer running.
LEMMA ReturnStep ==
    ASSUME LInv, NEW t \in Threads, returnApi(t)
    PROVE  LInv'
<1> USE LoaderAssumption
    DEF LInv, Typed, returnApi, At, Goto, configVars, loaderVars, classVars, bundleVars,
        Loading, Holding, Initializing, Cleaning, Classes, Files
<1>1. Typed'
  BY DEF OneInitializer
<1>2. Monitored'
  BY DEF Monitored
<1>3. OneInitializer'
  BY DEF OneInitializer
<1>4. LoadedByHolder'
  BY DEF LoadedByHolder
<1>5. NamedWhole'
  BY DEF NamedWhole
<1>6. SetAfterLink'
  BY DEF SetAfterLink
<1>7. ReadBack'
  BY DEF ReadBack
<1> QED
  BY <1>1, <1>2, <1>3, <1>4, <1>5, <1>6, <1>7

\* A clean-up or the bundle starts; a start links a library first.
LEMMA BeginStep ==
    ASSUME LInv, NEW t \in Threads, cleanUp(t) \/ start(t) \/ stop(t)
    PROVE  LInv'
<1> USE LoaderAssumption
    DEF LInv, Typed, cleanUp, start, stop, Begin, At, Goto, configVars, loaderVars,
        classVars, bundleVars, Loading, Holding, Initializing, Cleaning, Classes, Files
<1>1. Typed'
  OBVIOUS
<1>2. Monitored'
  BY DEF Monitored
<1>3. OneInitializer'
  BY DEF OneInitializer
<1>4. LoadedByHolder'
  BY DEF LoadedByHolder
<1>5. NamedWhole'
  BY DEF NamedWhole
<1>6. SetAfterLink'
  BY DEF SetAfterLink
<1>7. ReadBack'
  BY DEF ReadBack
<1> QED
  BY <1>1, <1>2, <1>3, <1>4, <1>5, <1>6, <1>7

\* The file that nativeLibFile names is deleted, also while another thread loads it.
LEMMA DeleteLibStep ==
    ASSUME LInv, NEW t \in Threads, deleteLib(t)
    PROVE  LInv'
<1> USE LoaderAssumption
    DEF LInv, Typed, deleteLib, AfterFile, Finish, At, Goto, configVars,
        loaderVars, classVars, bundleVars, Loading, Holding, Initializing, Cleaning,
        Classes, Files
<1>1. Typed'
  OBVIOUS
<1>2. Monitored'
  BY DEF Monitored
<1>3. OneInitializer'
  BY DEF OneInitializer
<1>4. LoadedByHolder'
  BY DEF LoadedByHolder
<1>5. NamedWhole'
  BY DEF NamedWhole
<1>6. SetAfterLink'
  BY DEF SetAfterLink
<1>7. ReadBack'
  BY DEF ReadBack
<1> QED
  BY <1>1, <1>2, <1>3, <1>4, <1>5, <1>6, <1>7

\* Clearing the field of c keeps ReadBack: whoever is about to read it is recorded.
LEMMA ClearedAtReturn ==
    ASSUME LInv, NEW t \in Threads, NEW c \in Classes,
           pc[t] \in {"clearSnappy", "clearBitShuffle"},
           pc' \in [Threads -> {"idle"} \union Initializing \union Cleaning],
           pc'[t] \in {"idle", "clearBitShuffle", "reset"},
           \A u \in Threads \ {t} : pc'[u] = pc[u] /\ work'[u] = work[u],
           api' = [api EXCEPT ![c] = NULL], Interferes(c), UNCHANGED <<class, impl>>
    PROVE  ReadBack'
<1> USE DEF Initializing, Holding, Loading, Cleaning
<1> DEFINE reading == \E u \in Threads : pc[u] = "return" /\ work[u] = c
<1>1. disturbed' = IF reading THEN disturbed \union {c} ELSE disturbed
  BY DEF Interferes, At
<1>2. \A u \in Threads : pc'[u] \in Initializing =>
        /\ u # t /\ pc'[u] = pc[u] /\ work'[u] = work[u]
        /\ work[u] \in Classes /\ class[work[u]] = "running"
  BY DEF LInv, OneInitializer
<1>3. reading => /\ class[c] = "running"
                 /\ \A u \in Threads : pc[u] \in Initializing /\ work[u] = c => pc[u] = "return"
  BY DEF LInv, OneInitializer
<1>4. \A d \in Classes : d # c => api'[d] = api[d] /\ (d \in disturbed' <=> d \in disturbed)
  BY <1>1 DEF LInv, Typed
<1>5. ASSUME NEW u \in Threads, pc'[u] = "return"
      PROVE  api'[work'[u]] = work'[u] <=> work'[u] \notin disturbed'
  <2>1. pc[u] = "return" /\ work'[u] = work[u] /\ work[u] \in Classes
    BY <1>2, <1>5
  <2>2. CASE work[u] = c
    <3>1. reading
      BY <2>1, <2>2
    <3>2. c \in disturbed' /\ api'[c] = NULL /\ c # NULL
      BY <1>1, <3>1, LoaderAssumption DEF LInv, Typed, Files
    <3> QED
      BY <2>1, <2>2, <3>2
  <2>3. CASE work[u] # c
    <3>1. api[work[u]] = work[u] <=> work[u] \notin disturbed
      BY <2>1 DEF LInv, ReadBack
    <3> QED
      BY <2>1, <2>3, <3>1, <1>4
  <2> QED
    BY <2>2, <2>3
<1>6. ASSUME NEW d \in Classes
      PROVE  /\ class'[d] = "done" => (impl'[d] = d <=> d \notin disturbed')
             /\ d \in disturbed' => class'[d] \in {"running", "done"}
  <2>1. /\ class[d] = "done" => (impl[d] = d <=> d \notin disturbed)
        /\ d \in disturbed => class[d] \in {"running", "done"}
    BY DEF LInv, ReadBack
  <2> QED
    BY <2>1, <1>1, <1>3
<1>7. ASSUME NEW u \in Threads, pc'[u] \in Initializing, work'[u] \in disturbed'
      PROVE  pc'[u] = "return"
  <2>1. pc'[u] = pc[u] /\ work'[u] = work[u]
    BY <1>2, <1>7
  <2>2. CASE work[u] \in disturbed
    BY <2>1, <2>2, <1>7 DEF LInv, ReadBack
  <2>3. CASE work[u] \notin disturbed
    <3>1. reading /\ work[u] = c
      BY <2>1, <2>3, <1>7, <1>1
    <3> QED
      BY <2>1, <3>1, <1>3, <1>7
  <2> QED
    BY <2>2, <2>3
<1> QED
  BY <1>5, <1>6, <1>7 DEF ReadBack

\* The field is cleared without the monitor.
LEMMA ClearSnappyStep ==
    ASSUME LInv, NEW t \in Threads, clearSnappy(t)
    PROVE  LInv'
<1> USE LoaderAssumption
    DEF LInv, Typed, clearSnappy, Interferes, At, Goto, configVars, loaderVars,
        classVars, bundleVars, Loading, Holding, Initializing, Cleaning, Classes, Files
<1>1. Typed'
  OBVIOUS
<1>2. Monitored'
  BY DEF Monitored
<1>3. OneInitializer'
  BY DEF OneInitializer
<1>4. LoadedByHolder'
  BY DEF LoadedByHolder
<1>5. NamedWhole'
  BY DEF NamedWhole
<1>6. SetAfterLink'
  BY DEF SetAfterLink
<1>7. ReadBack'
  <2>1. /\ pc'[t] = "clearBitShuffle"
        /\ \A u \in Threads \ {t} : pc'[u] = pc[u] /\ work'[u] = work[u]
    OBVIOUS
  <2> QED
    BY <1>1, <2>1, ClearedAtReturn
<1> QED
  BY <1>1, <1>2, <1>3, <1>4, <1>5, <1>6, <1>7

\* The same for the other field.
LEMMA ClearBitShuffleStep ==
    ASSUME LInv, NEW t \in Threads, clearBitShuffle(t)
    PROVE  LInv'
<1> USE LoaderAssumption
    DEF LInv, Typed, clearBitShuffle, AfterFile, Finish, Interferes, At, Goto,
        configVars, loaderVars, classVars, bundleVars, Loading, Holding, Initializing,
        Cleaning, Classes, Files
<1>1. Typed'
  OBVIOUS
<1>2. Monitored'
  BY DEF Monitored
<1>3. OneInitializer'
  BY DEF OneInitializer
<1>4. LoadedByHolder'
  BY DEF LoadedByHolder
<1>5. NamedWhole'
  BY DEF NamedWhole
<1>6. SetAfterLink'
  BY DEF SetAfterLink
<1>7. ReadBack'
  <2>1. /\ pc'[t] \in {"idle", "reset"}
        /\ \A u \in Threads \ {t} : pc'[u] = pc[u] /\ work'[u] = work[u]
    OBVIOUS
  <2> QED
    BY <1>1, <2>1, ClearedAtReturn
<1> QED
  BY <1>1, <1>2, <1>3, <1>4, <1>5, <1>6, <1>7

\* Under the monitor nobody is disturbed.
LEMMA SetSnappyApiStep ==
    ASSUME LInv, NEW t \in Threads, setSnappyApi(t)
    PROVE  LInv'
<1> USE LoaderAssumption
    DEF LInv, Typed, setSnappyApi, AfterSet, Finish, At, Goto, configVars, loaderVars,
        classVars, bundleVars, Loading, Holding, Initializing, Cleaning, Classes, Files
<1>1. Typed'
  OBVIOUS
<1>2. Monitored'
  BY DEF Monitored
<1>3. OneInitializer'
  BY DEF OneInitializer
<1>4. LoadedByHolder'
  BY DEF LoadedByHolder
<1>5. NamedWhole'
  BY DEF NamedWhole
<1>6. SetAfterLink'
  BY DEF SetAfterLink
<1>7. ReadBack'
  BY DEF ReadBack, Monitored
<1> QED
  BY <1>1, <1>2, <1>3, <1>4, <1>5, <1>6, <1>7

\* LInv is inductive.
THEOREM LoaderInvariance == Spec => []LInv
<1>1. ASSUME LInv, [Next]_vars PROVE LInv'
  <2>1. CASE UNCHANGED vars
    BY <1>1, <2>1 DEF vars, configVars, loaderVars, classVars, bundleVars, LInv, Typed, Monitored,
       OneInitializer, LoadedByHolder, NamedWhole, SetAfterLink, ReadBack
  <2>2. ASSUME NEW t \in Threads, NEW c \in Classes, initClass(t, c) PROVE LInv'
    BY <1>1, <2>2, InitClassStep
  <2>3. ASSUME NEW t \in Threads, cleanUp(t) \/ start(t) \/ stop(t) PROVE LInv'
    BY <1>1, <2>3, BeginStep
  <2>4. ASSUME NEW t \in Threads, step(t) PROVE LInv'
    BY <1>1, <2>4, EnterStep, FindStep, ExtractStep, CompareStep, LoadStep, SetApiStep,
       ReturnStep, DeleteLibStep, ClearSnappyStep, ClearBitShuffleStep, SetSnappyApiStep
       DEF step
  <2> QED
    BY <1>1, <2>1, <2>2, <2>3, <2>4 DEF Next
<1> QED
  BY LInvInit, <1>1, PTL DEF Spec
-----------------------------------------------------------------------------
(* What the users of the library rely on.                                  *)

\* However the initializations of the two classes, failed attempts, clean-ups and
\* the bundle interleave, the library is loaded at most once, isLoaded says whether
\* it was, and a copy that is not whole is never linked.
THEOREM LoadedAtMostOnce == Spec => []LoadedOnce
<1>1. LInv => LoadedOnce
  BY DEF LInv, Typed, LoadedByHolder, LoadedOnce
<1> QED
  BY LoaderInvariance, <1>1, PTL

\* An initialized class has its impl exactly when no clean-up cleared its field at
\* the return statement of its load method, and an impl is there only when a library
\* with its native methods was linked.
THEOREM ImplAlwaysReady == Spec => []ImplReady
<1>1. LInv => ImplReady
  BY DEF LInv, SetAfterLink, ReadBack, ImplReady
<1> QED
  BY LoaderInvariance, <1>1, PTL
=============================================================================
