-------------------------- MODULE AllocatorProofs --------------------------
(***************************************************************************)
(* CachedBufferAllocator for any number of streams, shapes, allocators and *)
(* arrays: Exclusive, OnePerSize and NoMoreThanPeak are invariants.        *)
(*                                                                         *)
(* None of them is inductive.  That allocate hands out an array nobody     *)
(* has, and one of the right length, rests on what is in the deques of all *)
(* allocators; that there is one allocator for a size rests on the table   *)
(* leading to every allocator that a stream holds, so that the collector   *)
(* clears a reference only when a new allocator does no harm.              *)
(***************************************************************************)
EXTENDS Allocator, FiniteSetTheorems, TLAPS

Arrays == [number : 1..MaxBuffers, length : Sizes]
Labels == {"none", "getIn", "getOut", "allocIn", "allocOut", "open", "relOut", "closed"}

Typed ==
    /\ queueTable \in [Sizes -> Allocators \cup {NULL, Cleared}]
    /\ bufferSize \in [Allocators -> Sizes \cup {NULL}]
    /\ bufferQueue \in [Allocators -> Seq(Arrays)]
    /\ pc \in [Streams -> Labels]
    /\ shape \in [Streams -> Shapes \cup {NULL}]
    /\ allocator \in [Streams -> [Roles -> Allocators \cup {NULL}]]
    /\ buffer \in [Streams -> [Roles -> Arrays \cup {NULL}]]
    /\ peak \in [Allocators -> Nat]

\* What a stream has at each place of its constructor and of close.
Located ==
    \A s \in Streams :
        /\ shape[s] # NULL <=> pc[s] # "none"
        /\ allocator[s][1] # NULL <=> pc[s] \notin {"none", "getIn"}
        /\ allocator[s][2] # NULL <=> pc[s] \notin {"none", "getIn", "getOut"}
        /\ buffer[s][1] # NULL <=> pc[s] \in {"allocOut", "open"}
        /\ buffer[s][2] # NULL <=> pc[s] \in {"open", "relOut"}

\* The table leads to every allocator that a stream holds, and it is one for the size
\* that the stream asked for.
HeldListed ==
    \A s \in Streams, r \in Roles : allocator[s][r] # NULL =>
        /\ bufferSize[allocator[s][r]] = shape[s][r]
        /\ queueTable[shape[s][r]] = allocator[s][r]

\* Each key leads to an allocator of that size.
ListedRight ==
    \A n \in Sizes : queueTable[n] \in Allocators => bufferSize[queueTable[n]] = n

\* An allocator keeps arrays of its size only.
Filed ==
    \A a \in Allocators, i \in Nat :
        i \in 1..Len(bufferQueue[a]) => bufferQueue[a][i].length = bufferSize[a]

\* A stream has arrays of the lengths it asked for.
Fits ==
    \A s \in Streams, r \in Roles : buffer[s][r] # NULL => buffer[s][r].length = shape[s][r]

\* No array is in two places.
OneUser ==
    \A s, t \in Streams, q, r \in Roles :
        buffer[s][q] # NULL /\ buffer[s][q] = buffer[t][r] => s = t /\ q = r

IdleUnused ==
    \A a \in Allocators, i \in Nat, s \in Streams, r \in Roles :
        i \in 1..Len(bufferQueue[a]) => bufferQueue[a][i] # buffer[s][r]

OnePlace ==
    \A a, b \in Allocators, i, j \in Nat :
        /\ i \in 1..Len(bufferQueue[a]) /\ j \in 1..Len(bufferQueue[b])
        /\ bufferQueue[a][i] = bufferQueue[b][j]
        => a = b /\ i = j

AInv == /\ Typed /\ Located /\ HeldListed /\ ListedRight /\ Filed /\ Fits
        /\ OneUser /\ IdleUnused /\ OnePlace /\ NoMoreThanPeak
-----------------------------------------------------------------------------
(* What the operators give.                                                *)

\* Sizes are those of the streams' roles, and numbers.
LEMMA SizesOfShapes ==
    /\ \A sh \in Shapes, r \in Roles : sh[r] \in Sizes
    /\ Sizes \subseteq Nat
    /\ NULL \notin Sizes /\ NULL \notin Allocators /\ NULL \notin Arrays
    /\ Cleared \notin Allocators /\ Cleared # NULL
    /\ Allocators \subseteq Nat
<1>1. ASSUME NEW sh \in Shapes, NEW r \in Roles
      PROVE  sh[r] \in Sizes
  <2>1. sh[r] \in {sh[1], sh[2]}
    BY DEF Roles
  <2> QED BY <2>1 DEF Sizes
<1>2. ASSUME NEW n \in Sizes
      PROVE  n \in Nat
  <2>1. PICK sh \in Shapes : n \in {sh[1], sh[2]}
    BY DEF Sizes
  <2>2. sh \in Nat \X Nat
    BY AllocatorAssumption
  <2> QED BY <2>1, <2>2
<1>3. Allocators \subseteq Nat
  BY AllocatorAssumption DEF Allocators
<1>4. Sizes \subseteq Nat
  BY <1>2
<1> QED BY <1>1, <1>3, <1>4, NullAssumption DEF Arrays

\* pollFirst takes the first of the elements.
LEMMA TailElements ==
    ASSUME NEW S, NEW q \in Seq(S), q # << >>
    PROVE  /\ Head(q) \in S /\ Tail(q) \in Seq(S)
           /\ Len(q) \in Nat /\ Len(q) > 0 /\ Len(Tail(q)) = Len(q) - 1
           /\ Head(q) = q[1]
           /\ \A i \in Nat : i \in 1..Len(Tail(q)) => Tail(q)[i] = q[i + 1]
  OBVIOUS

\* addLast puts its argument behind them.
LEMMA AppendElements ==
    ASSUME NEW S, NEW q \in Seq(S), NEW x \in S
    PROVE  /\ Append(q, x) \in Seq(S)
           /\ Len(q) \in Nat /\ Len(Append(q, x)) = Len(q) + 1
           /\ \A i \in Nat : i \in 1..Len(q) => Append(q, x)[i] = q[i]
           /\ Append(q, x)[Len(q) + 1] = x
  OBVIOUS

LEMMA LargerOfTwo ==
    ASSUME NEW x \in Nat, NEW y \in Nat
    PROVE  Max({x, y}) \in Nat /\ Max({x, y}) >= x /\ Max({x, y}) >= y
<1>1. \E m \in {x, y} : \A z \in {x, y} : m >= z
  <2>1. CASE x >= y
    BY <2>1
  <2>2. CASE y > x
    BY <2>2
  <2> QED BY <2>1, <2>2
<1> QED BY <1>1 DEF Max

\* The users of an allocator are finitely many.
LEMMA UsersFinite ==
    ASSUME NEW a
    PROVE  IsFiniteSet(Users(a)) /\ Cardinality(Users(a)) \in Nat
<1>1. IsFiniteSet(Roles)
  <2>1. IsFiniteSet({}) /\ IsFiniteSet({} \cup {1})
    BY FS_EmptySet, FS_AddElement
  <2>2. IsFiniteSet(({} \cup {1}) \cup {2})
    BY <2>1, FS_AddElement
  <2>3. Roles = ({} \cup {1}) \cup {2}
    BY DEF Roles
  <2> QED BY <2>2, <2>3
<1>2. IsFiniteSet(Streams \X Roles)
  BY <1>1, FS_Product, AllocatorAssumption
<1>3. Users(a) \subseteq Streams \X Roles
  BY DEF Users
<1> QED BY <1>2, <1>3, FS_Subset, FS_CardinalityType
-----------------------------------------------------------------------------
(* The invariant holds at the start, and one lemma for each kind of step.  *)

LEMMA AInit == Init => AInv
<1> SUFFICES ASSUME Init PROVE AInv
  OBVIOUS
<1> USE DEF Init
<1>1. Typed
  BY DEF Typed, Labels
<1>2. Located /\ HeldListed /\ ListedRight /\ Fits /\ OneUser
  BY SizesOfShapes DEF Located, HeldListed, ListedRight, Fits, OneUser, Roles
<1>3. Filed /\ IdleUnused /\ OnePlace
  BY DEF Filed, IdleUnused, OnePlace
<1>4. ASSUME NEW a \in Allocators
      PROVE  Len(bufferQueue[a]) + Cardinality(Users(a)) <= peak[a]
  <2>1. Users(a) = {}
    BY DEF Users
  <2> QED BY <2>1, FS_EmptySet
<1> QED BY <1>1, <1>2, <1>3, <1>4 DEF AInv, NoMoreThanPeak

\* A new stream has nothing yet.
LEMMA NewStreamStep ==
    ASSUME AInv, NEW s \in Streams, NEW sh \in Shapes, newStream(s, sh)
    PROVE  AInv'
<1> USE DEF AInv, newStream, Goto
<1>1. Typed'
  BY DEF Typed, Labels
<1>2. Located'
  BY NullAssumption DEF Typed, Located
<1>3. \A r \in Roles : allocator[s][r] = NULL /\ buffer[s][r] = NULL
  BY DEF Located, Roles
<1>4. HeldListed' /\ ListedRight' /\ Fits'
  BY <1>3 DEF Typed, HeldListed, ListedRight, Fits
<1>5. Filed' /\ OneUser' /\ IdleUnused' /\ OnePlace'
  BY DEF Filed, OneUser, IdleUnused, OnePlace
<1>6. NoMoreThanPeak'
  BY DEF NoMoreThanPeak, Users
<1> QED BY <1>1, <1>2, <1>4, <1>5, <1>6

\* A role gets the allocator of the table, or a new one, of which nothing is left
\* from an earlier life, for a size that no stream holds an allocator of.
LEMMA GetAllocatorStep ==
    ASSUME AInv, NEW s \in Streams, NEW r \in Roles,
           getAllocator(s, r),
           \/ r = 1 /\ pc[s] = "getIn" /\ Goto(s, "getOut")
           \/ r = 2 /\ pc[s] = "getOut" /\ Goto(s, "allocIn")
    PROVE  AInv'
<1> DEFINE n == shape[s][r]
<1> USE DEF AInv
<1>1. shape[s] \in Shapes /\ n \in Sizes /\ allocator[s][r] = NULL /\ buffer[s][r] = NULL
  BY SizesOfShapes DEF Typed, Located, Roles
<1>2. PICK a \in Allocators :
        /\ allocator' = [allocator EXCEPT ![s][r] = a]
        /\ \/ queueTable[n] = a /\ UNCHANGED <<queueTable, bufferSize>>
           \/ /\ queueTable[n] \notin Allocators /\ bufferSize[a] = NULL
              /\ queueTable' = [queueTable EXCEPT ![n] = a]
              /\ bufferSize' = [bufferSize EXCEPT ![a] = n]
  BY DEF getAllocator
<1>3. UNCHANGED <<bufferQueue, shape, buffer, peak>>
  BY DEF getAllocator
<1>4. Typed'
  <2>1. /\ queueTable' \in [Sizes -> Allocators \cup {NULL, Cleared}]
        /\ bufferSize' \in [Allocators -> Sizes \cup {NULL}]
    BY <1>1, <1>2 DEF Typed
  <2>2. allocator' \in [Streams -> [Roles -> Allocators \cup {NULL}]]
    BY <1>2 DEF Typed
  <2>3. pc' \in [Streams -> Labels]
    BY DEF Typed, Goto, Labels
  <2> QED BY <1>3, <2>1, <2>2, <2>3 DEF Typed
<1>5. Located'
  BY <1>1, <1>2, <1>3, SizesOfShapes DEF Typed, Located, Goto, Roles, Labels
<1>6. /\ allocator'[s][r] = a
      /\ \A t \in Streams, q \in Roles : (t # s \/ q # r) => allocator'[t][q] = allocator[t][q]
  BY <1>2 DEF Typed
<1>7. bufferSize'[a] = n /\ queueTable'[n] = a
  BY <1>1, <1>2 DEF Typed, ListedRight
<1>8. \A t \in Streams, q \in Roles : allocator[t][q] # NULL => shape[t][q] \in Sizes
  BY SizesOfShapes DEF Typed, Located, Roles
<1>9. HeldListed'
  <2>1. ASSUME NEW t \in Streams, NEW q \in Roles, t # s \/ q # r, allocator[t][q] # NULL
        PROVE  /\ bufferSize'[allocator[t][q]] = shape[t][q]
               /\ queueTable'[shape[t][q]] = allocator[t][q]
    <3>1. bufferSize[allocator[t][q]] = shape[t][q] /\ queueTable[shape[t][q]] = allocator[t][q]
          /\ allocator[t][q] \in Allocators
      BY <2>1 DEF HeldListed, Typed
    <3> QED BY <3>1, <2>1, <1>1, <1>2, <1>8, SizesOfShapes DEF Typed
  <2> QED BY <2>1, <1>3, <1>6, <1>7 DEF HeldListed
<1>10. ListedRight'
  <2>1. ASSUME NEW m \in Sizes, queueTable'[m] \in Allocators
        PROVE  bufferSize'[queueTable'[m]] = m
    <3>1. CASE m = n
      BY <3>1, <1>7
    <3>2. CASE m # n
      <4>1. queueTable'[m] = queueTable[m] /\ bufferSize[queueTable[m]] = m
        BY <1>1, <1>2, <2>1, <3>2 DEF Typed, ListedRight
      <4>2. bufferSize[a] = NULL => queueTable[m] # a
        BY <4>1, SizesOfShapes
      <4> QED BY <1>2, <2>1, <4>1, <4>2 DEF Typed
    <3> QED BY <3>1, <3>2
  <2> QED BY <2>1 DEF ListedRight
<1>11. Filed'
  <2>1. ASSUME NEW i \in Nat, i \in 1..Len(bufferQueue[a]), bufferSize[a] = NULL
        PROVE  FALSE
    <3>1. bufferQueue[a][i] \in Arrays
      BY <2>1 DEF Typed
    <3>2. bufferQueue[a][i].length \in Sizes
      BY <3>1 DEF Arrays
    <3> QED BY <2>1, <3>2, SizesOfShapes DEF Filed
  <2> QED BY <2>1, <1>2, <1>3 DEF Filed, Typed
<1>12. Fits' /\ OneUser' /\ IdleUnused' /\ OnePlace'
  BY <1>3 DEF Fits, OneUser, IdleUnused, OnePlace
<1>13. \A b \in Allocators : Users(b)' = Users(b)
  BY <1>1, <1>3, <1>6 DEF Users
<1>14. NoMoreThanPeak'
  BY <1>3, <1>13 DEF NoMoreThanPeak
<1> QED BY <1>4, <1>5, <1>9, <1>10, <1>11, <1>12, <1>14

\* A role gets the first idle array of its allocator or, when there is none, an array
\* that is nowhere else.
LEMMA AllocateStep ==
    ASSUME AInv, NEW s \in Streams, NEW r \in Roles,
           allocate(s, r),
           \/ r = 1 /\ pc[s] = "allocIn" /\ Goto(s, "allocOut")
           \/ r = 2 /\ pc[s] = "allocOut" /\ Goto(s, "open")
    PROVE  AInv'
<1> DEFINE n == shape[s][r]
<1> USE DEF AInv
<1>0. PICK a \in Allocators : a = allocator[s][r]
  <2>1. allocator[s][r] # NULL
    BY DEF Located, Roles
  <2>2. allocator[s][r] \in Allocators
    BY <2>1 DEF Typed
  <2> QED BY <2>2
<1>1. shape[s] \in Shapes /\ n \in Sizes /\ bufferSize[a] = n /\ buffer[s][r] = NULL
  BY <1>0, SizesOfShapes DEF Typed, Located, HeldListed, Roles
<1>2. UNCHANGED <<queueTable, bufferSize, shape, allocator>>
  BY DEF allocate
<1>3. PICK x \in Arrays :
        /\ buffer' = [buffer EXCEPT ![s][r] = x]
        /\ x.length = n
        /\ \A t \in Streams, q \in Roles : buffer[t][q] # x
        /\ \A b \in Allocators, i \in Nat : i \in 1..Len(bufferQueue'[b]) => bufferQueue'[b][i] # x
        /\ \A b \in Allocators : b # a => bufferQueue'[b] = bufferQueue[b]
        /\ bufferQueue' \in [Allocators -> Seq(Arrays)]
        /\ \/ bufferQueue' = bufferQueue /\ bufferQueue[a] = << >>
           \/ /\ Len(bufferQueue'[a]) = Len(bufferQueue[a]) - 1
              /\ \A i \in Nat : i \in 1..Len(bufferQueue'[a]) =>
                   bufferQueue'[a][i] = bufferQueue[a][i + 1]
  <2>1. CASE bufferQueue[a] = << >>
    <3>1. newArray(s, r) /\ UNCHANGED bufferQueue
      BY <1>0, <2>1 DEF allocate
    <3>2. PICK k \in 1..MaxBuffers : /\ Array(k, n) \notin Alive
                                     /\ buffer' = [buffer EXCEPT ![s][r] = Array(k, n)]
      BY <3>1 DEF newArray
    <3>3. Array(k, n) \in Arrays /\ Array(k, n).length = n
      BY <1>1 DEF Array, Arrays
    <3>4. ASSUME NEW t \in Streams, NEW q \in Roles
          PROVE  buffer[t][q] # Array(k, n)
      <4>1. <<t, q>> \in Streams \X Roles
        OBVIOUS
      <4>2. buffer[t][q] \in {buffer[u[1]][u[2]] : u \in Streams \X Roles}
        BY <4>1
      <4> QED BY <3>2, <3>3, <4>2, SizesOfShapes DEF Alive, InUse
    <3>5. ASSUME NEW b \in Allocators, NEW i \in Nat, i \in 1..Len(bufferQueue[b])
          PROVE  bufferQueue[b][i] # Array(k, n)
      <4>1. bufferQueue[b] \in Seq(Arrays)
        BY DEF Typed
      <4>2. i \in DOMAIN bufferQueue[b]
        BY <3>5, <4>1
      <4>3. bufferQueue[b][i] \in Idle(b)
        BY <4>2 DEF Idle
      <4> QED BY <3>2, <4>3 DEF Alive
    <3> QED BY <2>1, <3>1, <3>2, <3>3, <3>4, <3>5 DEF Typed
  <2>2. CASE bufferQueue[a] # << >>
    <3>1. /\ buffer' = [buffer EXCEPT ![s][r] = Head(bufferQueue[a])]
          /\ bufferQueue' = [bufferQueue EXCEPT ![a] = Tail(@)]
      BY <1>0, <2>2 DEF allocate
    <3> DEFINE q == bufferQueue[a]
    <3>2. q \in Seq(Arrays) /\ q # << >>
      BY <1>1, <2>2 DEF Typed
    <3>3. /\ Head(q) \in Arrays /\ Tail(q) \in Seq(Arrays)
          /\ Len(q) \in Nat /\ Len(q) > 0 /\ Len(Tail(q)) = Len(q) - 1
          /\ Head(q) = q[1]
          /\ \A i \in Nat : i \in 1..Len(Tail(q)) => Tail(q)[i] = q[i + 1]
      BY <3>2, TailElements
    <3>4. /\ bufferQueue'[a] = Tail(q)
          /\ \A b \in Allocators : b # a => bufferQueue'[b] = bufferQueue[b]
          /\ bufferQueue' \in [Allocators -> Seq(Arrays)]
      BY <1>1, <3>1, <3>3 DEF Typed
    <3>5. 1 \in 1..Len(q) /\ \A i \in Nat : i \in 1..(Len(q) - 1) => i + 1 \in 1..Len(q) /\ i + 1 # 1
      BY <3>3
    <3>6. Head(q).length = n
      BY <1>1, <3>3, <3>5 DEF Filed
    <3>7. \A t \in Streams, p \in Roles : buffer[t][p] # Head(q)
      BY <1>1, <3>3, <3>5 DEF IdleUnused
    <3>8. ASSUME NEW b \in Allocators, NEW i \in Nat, i \in 1..Len(bufferQueue'[b])
          PROVE  bufferQueue'[b][i] # Head(q)
      <4>1. CASE b = a
        <5>1. i \in 1..(Len(q) - 1)
          BY <3>3, <3>4, <3>8, <4>1
        <5>2. bufferQueue'[b][i] = q[i + 1] /\ i + 1 \in 1..Len(q) /\ i + 1 # 1 /\ i + 1 \in Nat
          BY <3>3, <3>4, <3>5, <4>1, <5>1
        <5> QED BY <1>1, <3>3, <3>5, <5>2 DEF OnePlace
      <4>2. CASE b # a
        BY <1>1, <3>3, <3>4, <3>5, <3>8, <4>2 DEF OnePlace
      <4> QED BY <4>1, <4>2
    <3> QED BY <3>1, <3>3, <3>4, <3>6, <3>7, <3>8
  <2> QED BY <2>1, <2>2
<1>4. /\ buffer'[s][r] = x
      /\ \A t \in Streams, q \in Roles : (t # s \/ q # r) => buffer'[t][q] = buffer[t][q]
  BY <1>3 DEF Typed
<1>5. peak'[a] \in Nat /\ peak'[a] >= peak[a] /\ peak'[a] >= Cardinality(Users(a)) + 1
      /\ peak' \in [Allocators -> Nat]
      /\ \A b \in Allocators : b # a => peak'[b] = peak[b]
  <2>1. peak' = [peak EXCEPT ![a] = Max({@, Cardinality(Users(a)) + 1})]
    BY <1>0 DEF allocate, countUse
  <2>2. peak[a] \in Nat /\ Cardinality(Users(a)) + 1 \in Nat
    BY <1>1, UsersFinite DEF Typed
  <2>3. /\ Max({peak[a], Cardinality(Users(a)) + 1}) \in Nat
        /\ Max({peak[a], Cardinality(Users(a)) + 1}) >= peak[a]
        /\ Max({peak[a], Cardinality(Users(a)) + 1}) >= Cardinality(Users(a)) + 1
    BY <2>2, LargerOfTwo
  <2> QED BY <1>1, <2>1, <2>3 DEF Typed
<1>6. Typed'
  <2>1. buffer' \in [Streams -> [Roles -> Arrays \cup {NULL}]]
    BY <1>3 DEF Typed
  <2>2. pc' \in [Streams -> Labels]
    BY DEF Typed, Goto, Labels
  <2> QED BY <1>2, <1>3, <1>5, <2>1, <2>2 DEF Typed
<1>7. Located'
  BY <1>2, <1>4, SizesOfShapes DEF Typed, Located, Goto, Roles, Labels
<1>8. HeldListed' /\ ListedRight'
  BY <1>2 DEF HeldListed, ListedRight
<1>9. \A i \in Nat : i \in 1..(Len(bufferQueue[a]) - 1) => i + 1 \in 1..Len(bufferQueue[a])
  BY <1>1 DEF Typed
<1>10. \A b \in Allocators, i \in Nat : i \in 1..Len(bufferQueue'[b]) =>
         \E j \in Nat : /\ j \in 1..Len(bufferQueue[b]) /\ bufferQueue'[b][i] = bufferQueue[b][j]
                        /\ j = (IF bufferQueue' = bufferQueue \/ b # a THEN i ELSE i + 1)
  BY <1>1, <1>3, <1>9
<1>11. Filed'
  <2>1. ASSUME NEW b \in Allocators, NEW i \in Nat, i \in 1..Len(bufferQueue'[b])
        PROVE  bufferQueue'[b][i].length = bufferSize'[b]
    <3>1. PICK j \in Nat : j \in 1..Len(bufferQueue[b]) /\ bufferQueue'[b][i] = bufferQueue[b][j]
      BY <1>10, <2>1
    <3>2. bufferQueue[b][j].length = bufferSize[b]
      BY <3>1 DEF Filed
    <3> QED BY <1>2, <3>1, <3>2
  <2> QED BY <2>1 DEF Filed
<1>12. Fits'
  BY <1>2, <1>3, <1>4 DEF Fits
<1>13. OneUser'
  BY <1>3, <1>4 DEF OneUser
<1>14. IdleUnused'
  BY <1>3, <1>4, <1>10 DEF IdleUnused
<1>15. OnePlace'
  <2>1. ASSUME NEW b \in Allocators, NEW c \in Allocators, NEW i \in Nat, NEW j \in Nat,
               i \in 1..Len(bufferQueue'[b]), j \in 1..Len(bufferQueue'[c]),
               bufferQueue'[b][i] = bufferQueue'[c][j]
        PROVE  b = c /\ i = j
    <3>1. PICK k \in Nat :
            /\ k \in 1..Len(bufferQueue[b]) /\ bufferQueue'[b][i] = bufferQueue[b][k]
            /\ k = (IF bufferQueue' = bufferQueue \/ b # a THEN i ELSE i + 1)
      BY <1>10, <2>1
    <3>2. PICK l \in Nat :
            /\ l \in 1..Len(bufferQueue[c]) /\ bufferQueue'[c][j] = bufferQueue[c][l]
            /\ l = (IF bufferQueue' = bufferQueue \/ c # a THEN j ELSE j + 1)
      BY <1>10, <2>1
    <3>3. b = c /\ k = l
      <4>1. k \in 1..Len(bufferQueue[b]) /\ l \in 1..Len(bufferQueue[c])
        BY <3>1, <3>2
      <4>2. bufferQueue[b][k] = bufferQueue[c][l]
        BY <2>1, <3>1, <3>2
      <4>3. OnePlace
        OBVIOUS
      <4> HIDE DEF AInv
      <4> QED BY <4>1, <4>2, <4>3 DEF OnePlace
    <3> QED BY <3>1, <3>2, <3>3
  <2> QED BY <2>1 DEF OnePlace
<1>16. NoMoreThanPeak'
  <2>1. Users(a)' = Users(a) \cup {<<s, r>>} /\ <<s, r>> \notin Users(a)
    BY <1>0, <1>1, <1>2, <1>3, <1>4, SizesOfShapes DEF Users
  <2>2. Cardinality(Users(a)') = Cardinality(Users(a)) + 1 /\ Cardinality(Users(a)) \in Nat
    BY <2>1, UsersFinite, FS_AddElement
  <2>3. \A b \in Allocators : b # a => Users(b)' = Users(b)
    BY <1>0, <1>2, <1>4 DEF Users
  <2>4. Len(bufferQueue[a]) \in Nat /\ peak[a] \in Nat
    BY <1>1 DEF Typed
  <2>5. Len(bufferQueue'[a]) + Cardinality(Users(a)') <= peak'[a]
    BY <1>1, <1>3, <1>5, <2>2, <2>4 DEF NoMoreThanPeak
  <2> QED BY <1>3, <1>5, <2>3, <2>5 DEF NoMoreThanPeak
<1> QED BY <1>6, <1>7, <1>8, <1>11, <1>12, <1>13, <1>14, <1>15, <1>16

\* close gives an array to the allocator of its size, where it is the only one of its
\* kind.
LEMMA ReleaseStep ==
    ASSUME AInv, NEW s \in Streams, NEW r \in Roles,
           release(s, r),
           \/ r = 1 /\ pc[s] = "open" /\ Goto(s, "relOut")
           \/ r = 2 /\ pc[s] = "relOut" /\ Goto(s, "closed")
    PROVE  AInv'
<1> USE DEF AInv
<1>0. PICK a \in Allocators : a = allocator[s][r]
  <2>1. allocator[s][r] # NULL
    BY DEF Located, Roles
  <2>2. allocator[s][r] \in Allocators
    BY <2>1 DEF Typed
  <2> QED BY <2>2
<1>1. PICK x \in Arrays : x = buffer[s][r]
  <2>1. buffer[s][r] # NULL
    BY DEF Located, Roles
  <2>2. buffer[s][r] \in Arrays
    BY <2>1 DEF Typed
  <2> QED BY <2>2
<1>2. UNCHANGED <<queueTable, bufferSize, shape, allocator, peak>>
  BY DEF release
<1>3. /\ buffer'[s][r] = NULL
      /\ \A t \in Streams, q \in Roles : (t # s \/ q # r) => buffer'[t][q] = buffer[t][q]
      /\ buffer' \in [Streams -> [Roles -> Arrays \cup {NULL}]]
  BY DEF release, Typed
<1>4. bufferQueue[a] \in Seq(Arrays)
  BY DEF Typed
<1> DEFINE last == Len(bufferQueue[a]) + 1
<1>5. /\ Append(bufferQueue[a], x) \in Seq(Arrays)
      /\ Len(bufferQueue[a]) \in Nat /\ Len(Append(bufferQueue[a], x)) = last
      /\ \A i \in Nat : i \in 1..Len(bufferQueue[a]) =>
            Append(bufferQueue[a], x)[i] = bufferQueue[a][i]
      /\ Append(bufferQueue[a], x)[last] = x
  BY <1>4, AppendElements
<1>6. /\ bufferQueue'[a] = Append(bufferQueue[a], x)
      /\ \A b \in Allocators : b # a => bufferQueue'[b] = bufferQueue[b]
      /\ bufferQueue' \in [Allocators -> Seq(Arrays)]
  BY <1>0, <1>1, <1>5 DEF release, Typed
<1>7. \A b \in Allocators, i \in Nat : i \in 1..Len(bufferQueue'[b]) =>
        \/ i \in 1..Len(bufferQueue[b]) /\ bufferQueue'[b][i] = bufferQueue[b][i]
        \/ b = a /\ i = last /\ bufferQueue'[b][i] = x
  BY <1>5, <1>6
<1>8. x.length = shape[s][r] /\ bufferSize[a] = shape[s][r]
  BY <1>0, <1>1, SizesOfShapes DEF Fits, HeldListed
<1>9. Typed'
  <2>1. pc' \in [Streams -> Labels]
    BY DEF Typed, Goto, Labels
  <2> QED BY <1>2, <1>3, <1>6, <2>1 DEF Typed
<1>10. Located'
  BY <1>2, <1>3 DEF Typed, Located, Goto, Roles, Labels
<1>11. HeldListed' /\ ListedRight'
  BY <1>2 DEF HeldListed, ListedRight
<1>12. Filed'
  <2>1. ASSUME NEW b \in Allocators, NEW i \in Nat, i \in 1..Len(bufferQueue'[b])
        PROVE  bufferQueue'[b][i].length = bufferSize'[b]
    <3>1. CASE i \in 1..Len(bufferQueue[b]) /\ bufferQueue'[b][i] = bufferQueue[b][i]
      <4>1. bufferQueue[b][i].length = bufferSize[b]
        BY <3>1 DEF Filed
      <4> QED BY <1>2, <3>1, <4>1
    <3>2. CASE b = a /\ i = last /\ bufferQueue'[b][i] = x
      BY <1>2, <1>8, <3>2
    <3> QED BY <1>7, <2>1, <3>1, <3>2
  <2> QED BY <2>1 DEF Filed
<1>13. Fits' /\ OneUser'
  BY <1>2, <1>3 DEF Fits, OneUser
<1>14. \A t \in Streams, q \in Roles : buffer'[t][q] # x
  BY <1>1, <1>3, SizesOfShapes DEF OneUser
<1>15. IdleUnused'
  <2>1. ASSUME NEW b \in Allocators, NEW i \in Nat, NEW t \in Streams, NEW q \in Roles,
               i \in 1..Len(bufferQueue'[b])
        PROVE  bufferQueue'[b][i] # buffer'[t][q]
    <3>1. CASE i \in 1..Len(bufferQueue[b]) /\ bufferQueue'[b][i] = bufferQueue[b][i]
      <4>1. bufferQueue[b][i] \in Arrays
        BY <3>1 DEF Typed
      <4>2. bufferQueue[b][i] # buffer[t][q]
        BY <3>1 DEF IdleUnused
      <4> QED BY <1>3, <3>1, <4>1, <4>2, SizesOfShapes
    <3>2. CASE b = a /\ i = last /\ bufferQueue'[b][i] = x
      BY <1>14, <3>2
    <3> QED BY <1>7, <2>1, <3>1, <3>2
  <2> QED BY <2>1 DEF IdleUnused
<1>16. \A b \in Allocators, i \in Nat : i \in 1..Len(bufferQueue[b]) => bufferQueue[b][i] # x
  BY <1>1 DEF IdleUnused
<1>17. OnePlace'
  <2>1. ASSUME NEW b \in Allocators, NEW c \in Allocators, NEW i \in Nat, NEW j \in Nat,
               i \in 1..Len(bufferQueue'[b]), j \in 1..Len(bufferQueue'[c]),
               bufferQueue'[b][i] = bufferQueue'[c][j]
        PROVE  b = c /\ i = j
    <3>1. CASE bufferQueue'[b][i] = x
      <4>1. b = a /\ i = last
        BY <1>7, <1>16, <2>1, <3>1
      <4>2. c = a /\ j = last
        BY <1>7, <1>16, <2>1, <3>1
      <4> QED BY <4>1, <4>2
    <3>2. CASE bufferQueue'[b][i] # x
      <4>1. /\ i \in 1..Len(bufferQueue[b]) /\ j \in 1..Len(bufferQueue[c])
            /\ bufferQueue[b][i] = bufferQueue[c][j]
        BY <1>7, <2>1, <3>2
      <4>2. OnePlace
        OBVIOUS
      <4> HIDE DEF AInv
      <4> QED BY <4>1, <4>2 DEF OnePlace
    <3> QED BY <3>1, <3>2
  <2> QED BY <2>1 DEF OnePlace
<1>18. NoMoreThanPeak'
  <2>1. Users(a)' = Users(a) \ {<<s, r>>} /\ <<s, r>> \in Users(a)
    BY <1>0, <1>1, <1>2, <1>3, SizesOfShapes DEF Users
  <2>2. Cardinality(Users(a)') = Cardinality(Users(a)) - 1 /\ Cardinality(Users(a)) \in Nat
    BY <2>1, UsersFinite, FS_RemoveElement
  <2>3. \A b \in Allocators : b # a => Users(b)' = Users(b)
    BY <1>0, <1>2, <1>3 DEF Users
  <2>4. Len(bufferQueue'[a]) + Cardinality(Users(a)') <= peak'[a]
    BY <1>2, <1>5, <1>6, <2>2 DEF NoMoreThanPeak, Typed
  <2> QED BY <1>2, <1>6, <2>3, <2>4 DEF NoMoreThanPeak
<1> QED BY <1>9, <1>10, <1>11, <1>12, <1>13, <1>15, <1>17, <1>18

\* A stream that is dropped, or was never made, has nothing any more.
LEMMA ForgetStep ==
    ASSUME AInv, NEW s \in Streams,
           allocator' = [allocator EXCEPT ![s] = [x \in Roles |-> NULL]],
           buffer' = [buffer EXCEPT ![s] = [x \in Roles |-> NULL]],
           shape' = [shape EXCEPT ![s] = NULL],
           Goto(s, "none"),
           UNCHANGED <<queueTable, bufferSize, bufferQueue, peak>>
    PROVE  AInv'
<1> USE DEF AInv
<1>1. Typed'
  BY DEF Typed, Goto, Labels
<1>2. /\ \A r \in Roles : allocator'[s][r] = NULL /\ buffer'[s][r] = NULL
      /\ \A t \in Streams \ {s} : /\ allocator'[t] = allocator[t] /\ buffer'[t] = buffer[t]
                                  /\ shape'[t] = shape[t] /\ pc'[t] = pc[t]
      /\ shape'[s] = NULL /\ pc'[s] = "none"
  BY DEF Typed, Goto
<1>3. Located'
  BY <1>2 DEF Located, Roles
<1>4. HeldListed' /\ ListedRight' /\ Fits' /\ OneUser'
  BY <1>2 DEF HeldListed, ListedRight, Fits, OneUser
<1>5. Filed' /\ OnePlace'
  BY DEF Filed, OnePlace
<1>6. IdleUnused'
  <2>1. ASSUME NEW a \in Allocators, NEW i \in Nat, NEW t \in Streams, NEW r \in Roles,
               i \in 1..Len(bufferQueue[a])
        PROVE  bufferQueue[a][i] # buffer'[t][r]
    <3>1. bufferQueue[a][i] \in Arrays /\ bufferQueue[a][i] # buffer[t][r]
      BY <2>1 DEF Typed, IdleUnused
    <3> QED BY <1>2, <3>1, SizesOfShapes
  <2> QED BY <2>1 DEF IdleUnused
<1>7. NoMoreThanPeak'
  <2>1. ASSUME NEW a \in Allocators
        PROVE  Len(bufferQueue[a]) + Cardinality(Users(a)') <= peak[a]
    <3>1. Users(a)' \subseteq Users(a)
      BY <1>2, SizesOfShapes DEF Users
    <3>2. /\ Cardinality(Users(a)') <= Cardinality(Users(a))
          /\ Cardinality(Users(a)') \in Nat /\ Cardinality(Users(a)) \in Nat
      BY <3>1, UsersFinite, FS_Subset, FS_CardinalityType
    <3>3. Len(bufferQueue[a]) \in Nat /\ peak[a] \in Nat
      BY DEF Typed
    <3> QED BY <3>2, <3>3 DEF NoMoreThanPeak
  <2> QED BY <2>1 DEF NoMoreThanPeak
<1> QED BY <1>1, <1>3, <1>4, <1>5, <1>6, <1>7

\* The collector takes an allocator that no stream holds: no other key leads to it, and
\* nobody uses an array of it.
LEMMA CollectStep ==
    ASSUME AInv, NEW n \in Sizes, collect(n)
    PROVE  AInv'
<1> USE DEF AInv
<1>1. PICK a \in Allocators :
        /\ a = queueTable[n] /\ ~Held(a)
        /\ queueTable' = [queueTable EXCEPT ![n] = Cleared]
        /\ bufferSize' = [bufferSize EXCEPT ![a] = NULL]
        /\ bufferQueue' = [bufferQueue EXCEPT ![a] = << >>]
        /\ peak' = [peak EXCEPT ![a] = 0]
  BY DEF collect
<1>2. UNCHANGED <<pc, shape, allocator, buffer>>
  BY DEF collect
<1>3. Typed'
  BY <1>1, <1>2 DEF Typed
<1>4. Located' /\ Fits' /\ OneUser'
  BY <1>2 DEF Located, Fits, OneUser
<1>5. \A t \in Streams, q \in Roles : allocator[t][q] # a
  BY <1>1 DEF Held
<1>6. \A t \in Streams, q \in Roles : allocator[t][q] # NULL =>
        shape[t][q] \in Sizes /\ shape[t][q] # n /\ allocator[t][q] \in Allocators
  <2>1. ASSUME NEW t \in Streams, NEW q \in Roles, allocator[t][q] # NULL
        PROVE  shape[t][q] \in Sizes /\ allocator[t][q] \in Allocators
    <3>1. shape[t] # NULL
      BY <2>1 DEF Located, Roles
    <3>2. shape[t] \in Shapes
      BY <3>1 DEF Typed
    <3> QED BY <2>1, <3>2, SizesOfShapes DEF Typed
  <2> QED BY <1>1, <1>5, <2>1 DEF HeldListed
<1>7. HeldListed'
  BY <1>1, <1>2, <1>5, <1>6 DEF HeldListed, Typed
<1>8. ListedRight'
  <2>1. ASSUME NEW m \in Sizes, queueTable'[m] \in Allocators
        PROVE  bufferSize'[queueTable'[m]] = m
    <3>1. m # n /\ queueTable'[m] = queueTable[m]
      BY <1>1, <2>1, SizesOfShapes DEF Typed
    <3>2. bufferSize[queueTable[m]] = m /\ queueTable[m] # a
      BY <1>1, <2>1, <3>1 DEF ListedRight
    <3> QED BY <1>1, <2>1, <3>1, <3>2 DEF Typed
  <2> QED BY <2>1 DEF ListedRight
<1>9. /\ Len(bufferQueue'[a]) = 0
      /\ \A b \in Allocators : b # a => /\ bufferQueue'[b] = bufferQueue[b]
                                        /\ bufferSize'[b] = bufferSize[b]
                                        /\ peak'[b] = peak[b]
  BY <1>1 DEF Typed
<1>10. Filed'
  BY <1>9 DEF Filed
<1>11. IdleUnused'
  BY <1>2, <1>9 DEF IdleUnused
<1>12. OnePlace'
  BY <1>9 DEF OnePlace
<1>13. NoMoreThanPeak'
  <2>1. \A b \in Allocators : Users(b)' = Users(b)
    BY <1>2 DEF Users
  <2>2. Users(a) = {}
    BY <1>5 DEF Users
  <2>3. peak'[a] = 0 /\ Cardinality(Users(a)') = 0
    BY <1>1, <2>1, <2>2, FS_EmptySet DEF Typed
  <2> QED BY <1>9, <2>1, <2>3 DEF NoMoreThanPeak
<1> QED BY <1>3, <1>4, <1>7, <1>8, <1>10, <1>11, <1>12, <1>13
-----------------------------------------------------------------------------
LEMMA AStep == AInv /\ [Next]_vars => AInv'
<1> SUFFICES ASSUME AInv, [Next]_vars PROVE AInv'
  OBVIOUS
<1>1. ASSUME NEW s \in Streams, NEW sh \in Shapes, newStream(s, sh)
      PROVE  AInv'
  BY <1>1, NewStreamStep
<1>2. ASSUME NEW s \in Streams, construct(s)
      PROVE  AInv'
  <2>1. 1 \in Roles /\ 2 \in Roles
    BY DEF Roles
  <2>2. CASE \/ pc[s] = "getIn" /\ getAllocator(s, 1) /\ Goto(s, "getOut")
             \/ pc[s] = "getOut" /\ getAllocator(s, 2) /\ Goto(s, "allocIn")
    BY <2>1, <2>2, GetAllocatorStep
  <2>3. CASE \/ pc[s] = "allocIn" /\ allocate(s, 1) /\ Goto(s, "allocOut")
             \/ pc[s] = "allocOut" /\ allocate(s, 2) /\ Goto(s, "open")
    BY <2>1, <2>3, AllocateStep
  <2>4. CASE outOfMemory(s, 1) \/ outOfMemory(s, 2)
    BY <2>4, ForgetStep DEF outOfMemory
  <2> QED BY <1>2, <2>2, <2>3, <2>4 DEF construct
<1>3. ASSUME NEW s \in Streams, close(s)
      PROVE  AInv'
  <2>1. 1 \in Roles /\ 2 \in Roles
    BY DEF Roles
  <2> QED BY <1>3, <2>1, ReleaseStep DEF close
<1>4. ASSUME NEW s \in Streams, drop(s)
      PROVE  AInv'
  BY <1>4, ForgetStep DEF drop
<1>5. ASSUME NEW n \in Sizes, collect(n)
      PROVE  AInv'
  BY <1>5, CollectStep
<1>6. CASE UNCHANGED vars
  BY <1>6 DEF vars, AInv, Typed, Located, HeldListed, ListedRight, Filed, Fits, OneUser,
              IdleUnused, OnePlace, NoMoreThanPeak, Users
<1> QED BY <1>1, <1>2, <1>3, <1>4, <1>5, <1>6 DEF Next

\* Streams, allocators, deques and the table fit together in every reachable state.
THEOREM AllocatorInvariance == Spec => []AInv
  BY AInit, AStep, PTL DEF Spec

\* CachedBufferAllocator.allocate and release: no array has two users, none is idle and
\* in use, and each has the length its stream asked for.
THEOREM ArraysExclusive == Spec => []Exclusive
<1>1. AInv => Exclusive
  <2> SUFFICES ASSUME AInv PROVE Exclusive
    OBVIOUS
  <2> USE DEF AInv
  <2>1. ASSUME NEW u \in Streams \X Roles, NEW v \in Streams \X Roles, u # v,
               buffer[u[1]][u[2]] # NULL
        PROVE  buffer[u[1]][u[2]] # buffer[v[1]][v[2]]
    <3>1. /\ u[1] \in Streams /\ u[2] \in Roles /\ v[1] \in Streams /\ v[2] \in Roles
          /\ ~(u[1] = v[1] /\ u[2] = v[2])
      BY <2>1
    <3> QED BY <2>1, <3>1 DEF OneUser
  <2>2. ASSUME NEW a \in Allocators
        PROVE  DOMAIN bufferQueue[a] \subseteq Nat /\ DOMAIN bufferQueue[a] = 1..Len(bufferQueue[a])
    BY DEF Typed
  <2>3. ASSUME NEW a \in Allocators
        PROVE  Idle(a) \cap InUse = {}
    BY <2>2 DEF Idle, InUse, IdleUnused
  <2>4. ASSUME NEW a \in Allocators, NEW i \in DOMAIN bufferQueue[a],
               NEW j \in DOMAIN bufferQueue[a], i # j
        PROVE  bufferQueue[a][i] # bufferQueue[a][j]
    BY <2>2, <2>4 DEF OnePlace
  <2>5. ASSUME NEW a \in Allocators, NEW b \in Allocators \ {a}
        PROVE  Idle(a) \cap Idle(b) = {}
    BY <2>2 DEF Idle, OnePlace
  <2> QED BY <2>1, <2>3, <2>4, <2>5 DEF Exclusive, Fits
<1> QED BY AllocatorInvariance, <1>1, PTL

\* CachedBufferAllocator.getAllocator: streams that ask for the same size share an
\* allocator, and it is the one of the table.
THEOREM OneAllocatorPerSize == Spec => []OnePerSize
<1>1. AInv => OnePerSize
  BY DEF AInv, HeldListed, OnePerSize
<1> QED BY AllocatorInvariance, <1>1, PTL

\* The deques of CachedBufferAllocator do not grow beyond what was in use together.
THEOREM NeverMoreThanPeak == Spec => []NoMoreThanPeak
<1>1. AInv => NoMoreThanPeak
  BY DEF AInv
<1> QED BY AllocatorInvariance, <1>1, PTL
=============================================================================
