---------------------------- MODULE NativeProofs ----------------------------
(***************************************************************************)
(* Critical regions, memory and results in the native methods, for any     *)
(* number of threads, arrays and buffers: RegionsClosed, MemoryValid and   *)
(* ReturnMeansDone are invariants.                                         *)
(*                                                                         *)
(* For the first two the argument (NInv) looks at what a thread has still  *)
(* to do.  Whatever it holds is released later on, no release stands       *)
(* behind a test of the result or an exception, and a use of the library   *)
(* comes after the pinning of its arguments and the test of the pointers,  *)
(* and before every release.  These are properties of the texts of the     *)
(* methods, kept by every suffix.                                          *)
(*                                                                         *)
(* For the third it looks at what a thread has done (DInv): a thread that  *)
(* has met no error has in its flags and in its output what the statements *)
(* behind it leave there, and any other is in an error branch, has raised  *)
(* its exception, or was refused a pointer in BitShuffleNative.  A failure *)
(* of bitshuffle is no error in this sense: the method goes on to its end  *)
(* with the negative number, and its output is not the result.  On a JVM   *)
(* that copies, a copy that is written back must not overwrite a result:   *)
(* within a call the written output is released last, and two calls do not *)
(* share what one of them writes.                                          *)
(***************************************************************************)
EXTENDS NativeCalls, TLAPS

Operations == {"pin", "locate", "release", "run", "need", "check", "throw"}
Operands == Args \cup {"length", "validate", "convert", "uncompress", "shuffle"}
                 \cup {"PARSING_ERROR", "NOT_A_DIRECT_BUFFER", "OUT_OF_MEMORY",
                       "FAILED_TO_UNCOMPRESS"}
Owners == {"jvm", "library", "snappy", "bitshuffle"}
Statements == [op : Operations, arg : Operands, by : Owners]

\* The arguments that a call f of the library touches.
Used(f) == IF f \in Writing THEN Args ELSE {"in"}

\* What is pinned is released later.
PinsReleased(s) ==
    \A i \in 1..Len(s) : s[i].op = "pin" =>
        /\ s[i].arg \in Args
        /\ \E j \in (i + 1)..Len(s) : s[j].op = "release" /\ s[j].arg = s[i].arg

\* No release stands behind a test of the result or an exception.
ReleasedFirst(s) ==
    \A i \in 1..Len(s), j \in 1..Len(s) :
        i < j /\ s[j].op = "release" => s[i].op \notin {"check", "throw"}

\* The pointers are tested between a pinning and a use.
Tested(s) ==
    \A i \in 1..Len(s), j \in 1..Len(s) :
        i < j /\ s[i].op = "pin" /\ s[j].op = "run" =>
            \E k \in (i + 1)..(j - 1) : s[k].op = "need"

\* Nothing is used after a release.
UsedFirst(s) ==
    \A i \in 1..Len(s), j \in 1..Len(s) :
        i < j /\ s[i].op = "release" => s[j].op # "run"

Proper(s) == /\ s \in Seq(Statements)
             /\ PinsReleased(s) /\ ReleasedFirst(s) /\ Tested(s) /\ UsedFirst(s)

\* Everything in held is released in s.
HeldReleased(s, h) ==
    \A a \in h : \E i \in 1..Len(s) : s[i].op = "release" /\ s[i].arg = a

\* Argument a of the use at i of s is held, or pinned before, or it was refused
\* and that is tested before.
Obtained(s, i, a, h, n) ==
    \/ a \in h
    \/ \E j \in 1..(i - 1) : s[j].op = "pin" /\ s[j].arg = a
    \/ a \in n /\ \E j \in 1..(i - 1) : s[j].op = "need"

\* x are the arguments of the call.
Covered(s, x, h, n) ==
    \A i \in 1..Len(s) : s[i].op = "run" =>
        \A a \in Used(s[i].arg) : x[a] \in Arrays => Obtained(s, i, a, h, n)

TypeInv ==
    /\ copying \in BOOLEAN /\ wild \in BOOLEAN
    /\ method \in [Threads -> Seq(Statements)]
    /\ todo \in [Threads -> Seq(Statements)]
    /\ arg \in [Threads -> [Args -> Objects \cup {"none"}]]
    /\ held \in [Threads -> SUBSET Args]
    /\ null \in [Threads -> SUBSET Operands]
    /\ place \in [Threads -> [Args -> {0, 1}]]
    /\ where \in {0, 1}

\* One thread.
ThreadInv(t) ==
    /\ InJava(t) => todo[t] = << >>
    /\ Proper(todo[t])
    /\ HeldReleased(todo[t], held[t])
    /\ Covered(todo[t], arg[t], held[t], null[t])
    /\ ~copying => \A a \in held[t] : place[t][a] = where

NInv == TypeInv /\ (\A t \in Threads : ThreadInv(t)) /\ ~wild
-----------------------------------------------------------------------------
(* Sequences of statements.                                                *)

\* The statements of a method.
LEMMA StatementTypes ==
  ASSUME NEW a \in Operands, NEW w \in Owners
  PROVE  /\ Pin(a) \in Statements /\ Locate(a) \in Statements /\ Release(a) \in Statements
         /\ Run(a) \in Statements /\ Check(a) \in Statements
         /\ Need(a, w) \in Statements /\ Throw(a, w) \in Statements
BY DEF Pin, Locate, Release, Run, Need, Check, Throw, Stmt, Statements,
       Operations, Owners

\* The first statement and the others.
LEMMA TailLemma ==
  ASSUME NEW s \in Seq(Statements), s # << >>
  PROVE  /\ Len(s) \in Nat /\ Len(s) >= 1
         /\ Head(s) = s[1]
         /\ Tail(s) \in Seq(Statements)
         /\ Len(Tail(s)) = Len(s) - 1
         /\ \A i \in 1..Len(Tail(s)) : Tail(s)[i] = s[i + 1]
OBVIOUS

\* What is left of a proper text when its first statement is done is proper.
LEMMA ProperTail ==
  ASSUME NEW s, Proper(s), s # << >>
  PROVE  Proper(Tail(s))
<1> DEFINE r == Tail(s)
<1>1. /\ s \in Seq(Statements) /\ Len(s) \in Nat /\ r \in Seq(Statements)
      /\ Len(r) = Len(s) - 1
      /\ \A i \in 1..Len(r) : r[i] = s[i + 1]
  BY TailLemma DEF Proper
<1> HIDE DEF r
<1>2. PinsReleased(r)
  <2> SUFFICES ASSUME NEW i \in 1..Len(r), r[i].op = "pin"
               PROVE  /\ r[i].arg \in Args
                      /\ \E j \in (i + 1)..Len(r) : r[j].op = "release" /\ r[j].arg = r[i].arg
    BY DEF PinsReleased
  <2>1. i + 1 \in 1..Len(s) /\ s[i + 1].op = "pin"
    BY <1>1
  <2>2. s[i + 1].arg \in Args
    BY <2>1 DEF Proper, PinsReleased
  <2>3. PICK j \in (i + 2)..Len(s) : s[j].op = "release" /\ s[j].arg = s[i + 1].arg
    BY <2>1 DEF Proper, PinsReleased
  <2>4. j - 1 \in (i + 1)..Len(r) /\ r[j - 1] = s[j]
    BY <1>1, <2>3
  <2> QED
    BY <1>1, <2>2, <2>3, <2>4
<1>3. ReleasedFirst(r)
  <2> SUFFICES ASSUME NEW i \in 1..Len(r), NEW j \in 1..Len(r), i < j, r[j].op = "release"
               PROVE  r[i].op \notin {"check", "throw"}
    BY DEF ReleasedFirst
  <2>1. /\ i + 1 \in 1..Len(s) /\ j + 1 \in 1..Len(s) /\ i + 1 < j + 1
        /\ r[i] = s[i + 1] /\ r[j] = s[j + 1]
    BY <1>1
  <2> QED
    BY <2>1 DEF Proper, ReleasedFirst
<1>4. Tested(r)
  <2> SUFFICES ASSUME NEW i \in 1..Len(r), NEW j \in 1..Len(r),
                      i < j, r[i].op = "pin", r[j].op = "run"
               PROVE  \E k \in (i + 1)..(j - 1) : r[k].op = "need"
    BY DEF Tested
  <2>1. /\ i + 1 \in 1..Len(s) /\ j + 1 \in 1..Len(s) /\ i + 1 < j + 1
        /\ r[i] = s[i + 1] /\ r[j] = s[j + 1]
    BY <1>1
  <2>2. PICK k \in ((i + 1) + 1)..((j + 1) - 1) : s[k].op = "need"
    BY <2>1 DEF Proper, Tested
  <2>3. k - 1 \in (i + 1)..(j - 1) /\ r[k - 1] = s[k]
    BY <1>1, <2>2
  <2> QED
    BY <2>2, <2>3
<1>5. UsedFirst(r)
  <2> SUFFICES ASSUME NEW i \in 1..Len(r), NEW j \in 1..Len(r), i < j, r[i].op = "release"
               PROVE  r[j].op # "run"
    BY DEF UsedFirst
  <2>1. /\ i + 1 \in 1..Len(s) /\ j + 1 \in 1..Len(s) /\ i + 1 < j + 1
        /\ r[i] = s[i + 1] /\ r[j] = s[j + 1]
    BY <1>1
  <2> QED
    BY <2>1 DEF Proper, UsedFirst
<1> QED
  BY <1>1, <1>2, <1>3, <1>4, <1>5 DEF Proper, r

\* A text that pins nothing and releases nothing is proper.
LEMMA ProperWithoutPins ==
  ASSUME NEW s \in Seq(Statements), \A i \in 1..Len(s) : s[i].op \notin {"pin", "release"}
  PROVE  Proper(s)
BY DEF Proper, PinsReleased, ReleasedFirst, Tested, UsedFirst

\* The methods on buffers pin nothing.
LEMMA BufferMethodsPinNothing ==
  ASSUME NEW m \in BufferMethods
  PROVE  \A i \in 1..Len(m) : m[i].op \notin {"pin", "release"}
BY DEF BufferMethods, rawCompress_ByteBuffer, rawUncompress_ByteBuffer,
   uncompressedLength_ByteBuffer, isValidCompressedBuffer_ByteBuffer, shuffleDirectBuffer,
   unshuffleDirectBuffer, rawCompress_JJJ, rawUncompress_JJJ, uncompressedLength_JJ,
   isValidCompressedBuffer_JJJ, Locate, Need, Run, Check, Stmt

\* They are proper.
LEMMA ProperBuffers ==
  ASSUME NEW m \in BufferMethods
  PROVE  Proper(m)
<1>1. m \in Seq(Statements)
  <2>1. rawCompress_ByteBuffer \in Seq(Statements)
    BY StatementTypes DEF rawCompress_ByteBuffer, Operands, Args, Owners
  <2>2. rawUncompress_ByteBuffer \in Seq(Statements)
    BY StatementTypes DEF rawUncompress_ByteBuffer, Operands, Args, Owners
  <2>3. uncompressedLength_ByteBuffer \in Seq(Statements)
    BY StatementTypes DEF uncompressedLength_ByteBuffer, Operands, Args, Owners
  <2>4. isValidCompressedBuffer_ByteBuffer \in Seq(Statements)
    BY StatementTypes DEF isValidCompressedBuffer_ByteBuffer, Operands, Args, Owners
  <2>5. shuffleDirectBuffer \in Seq(Statements)
    BY StatementTypes DEF shuffleDirectBuffer, Operands, Args, Owners
  <2>6. unshuffleDirectBuffer \in Seq(Statements)
    BY StatementTypes DEF unshuffleDirectBuffer, Operands, Args, Owners
  <2>7. rawCompress_JJJ \in Seq(Statements)
    BY StatementTypes DEF rawCompress_JJJ, Operands, Args, Owners
  <2>8. rawUncompress_JJJ \in Seq(Statements)
    BY StatementTypes DEF rawUncompress_JJJ, Operands, Args, Owners
  <2>9. uncompressedLength_JJ \in Seq(Statements)
    BY StatementTypes DEF uncompressedLength_JJ, Operands, Args, Owners
  <2>10. isValidCompressedBuffer_JJJ \in Seq(Statements)
    BY StatementTypes DEF isValidCompressedBuffer_JJJ, Operands, Args, Owners
  <2> QED
    BY <2>1, <2>2, <2>3, <2>4, <2>5, <2>6, <2>7, <2>8, <2>9, <2>10 DEF BufferMethods
<1>2. \A i \in 1..Len(m) : m[i].op \notin {"pin", "release"}
  BY BufferMethodsPinNothing
<1> QED
  BY <1>1, <1>2, ProperWithoutPins

\* The arrays are converted: rawCompress, arrayCopy, shuffle and unshuffle.
LEMMA ShapeConvert ==
  ASSUME NEW w \in Owners, NEW f \in Writing,
         NEW s, s = <<Pin("in"), Pin("out"), Need("OUT_OF_MEMORY", w),
                      Run(f), Release("in"), Release("out")>>
  PROVE  Proper(s) /\ \A x : Covered(s, x, {}, {})
<1>1. /\ s \in Seq(Statements) /\ Len(s) = 6
      /\ s[1] = Pin("in")
      /\ s[2] = Pin("out")
      /\ s[3] = Need("OUT_OF_MEMORY", w)
      /\ s[4] = Run(f)
      /\ s[5] = Release("in")
      /\ s[6] = Release("out")
  <2>1. {"in", "out", "OUT_OF_MEMORY", f} \subseteq Operands
    BY DEF Operands, Args, Writing
  <2> QED
    BY <2>1, StatementTypes
<1>2. \A i \in 1..6 : i = 1 \/ i = 2 \/ i = 3 \/ i = 4 \/ i = 5 \/ i = 6
  OBVIOUS
<1>3. PinsReleased(s)
  BY <1>1, <1>2 DEF PinsReleased, Args, Pin, Need, Run, Release, Check, Stmt
<1>4. ReleasedFirst(s)
  BY <1>1, <1>2 DEF ReleasedFirst, Args, Pin, Need, Run, Release, Check, Stmt
<1>5. Tested(s)
  BY <1>1, <1>2 DEF Tested, Args, Pin, Need, Run, Release, Check, Stmt
<1>6. UsedFirst(s)
  BY <1>1, <1>2 DEF UsedFirst, Args, Pin, Need, Run, Release, Check, Stmt
<1>7. ASSUME NEW x PROVE Covered(s, x, {}, {})
  BY <1>1, <1>2 DEF Covered, Obtained, Used, Writing, Args, Pin, Need, Run, Release, Check, Stmt
<1> QED
  BY <1>1, <1>3, <1>4, <1>5, <1>6, <1>7 DEF Proper

\* rawUncompress.
LEMMA ShapeUncompress ==
  ASSUME NEW s, s = <<Pin("in"), Pin("out"), Need("OUT_OF_MEMORY", "snappy"),
                      Run("length"), Run("uncompress"), Release("in"), Release("out"),
                      Check("FAILED_TO_UNCOMPRESS")>>
  PROVE  Proper(s) /\ \A x : Covered(s, x, {}, {})
<1>1. /\ s \in Seq(Statements) /\ Len(s) = 8
      /\ s[1] = Pin("in")
      /\ s[2] = Pin("out")
      /\ s[3] = Need("OUT_OF_MEMORY", "snappy")
      /\ s[4] = Run("length")
      /\ s[5] = Run("uncompress")
      /\ s[6] = Release("in")
      /\ s[7] = Release("out")
      /\ s[8] = Check("FAILED_TO_UNCOMPRESS")
  BY StatementTypes DEF Operands, Args, Owners
<1>2. \A i \in 1..8 : i = 1 \/ i = 2 \/ i = 3 \/ i = 4 \/ i = 5 \/ i = 6 \/ i = 7 \/ i = 8
  OBVIOUS
<1>3. PinsReleased(s)
  BY <1>1, <1>2 DEF PinsReleased, Args, Pin, Need, Run, Release, Check, Stmt
<1>4. ReleasedFirst(s)
  BY <1>1, <1>2 DEF ReleasedFirst, Args, Pin, Need, Run, Release, Check, Stmt
<1>5. Tested(s)
  BY <1>1, <1>2 DEF Tested, Args, Pin, Need, Run, Release, Check, Stmt
<1>6. UsedFirst(s)
  BY <1>1, <1>2 DEF UsedFirst, Args, Pin, Need, Run, Release, Check, Stmt
<1>7. ASSUME NEW x PROVE Covered(s, x, {}, {})
  BY <1>1, <1>2 DEF Covered, Obtained, Used, Writing, Args, Pin, Need, Run, Release, Check, Stmt
<1> QED
  BY <1>1, <1>3, <1>4, <1>5, <1>6, <1>7 DEF Proper

\* uncompressedLength.
LEMMA ShapeLength ==
  ASSUME NEW s, s = <<Pin("in"), Need("OUT_OF_MEMORY", "snappy"), Run("length"),
                      Release("in"), Check("PARSING_ERROR")>>
  PROVE  Proper(s) /\ \A x : Covered(s, x, {}, {})
<1>1. /\ s \in Seq(Statements) /\ Len(s) = 5
      /\ s[1] = Pin("in")
      /\ s[2] = Need("OUT_OF_MEMORY", "snappy")
      /\ s[3] = Run("length")
      /\ s[4] = Release("in")
      /\ s[5] = Check("PARSING_ERROR")
  BY StatementTypes DEF Operands, Args, Owners
<1>2. \A i \in 1..5 : i = 1 \/ i = 2 \/ i = 3 \/ i = 4 \/ i = 5
  OBVIOUS
<1>3. PinsReleased(s)
  BY <1>1, <1>2 DEF PinsReleased, Args, Pin, Need, Run, Release, Check, Stmt
<1>4. ReleasedFirst(s)
  BY <1>1, <1>2 DEF ReleasedFirst, Args, Pin, Need, Run, Release, Check, Stmt
<1>5. Tested(s)
  BY <1>1, <1>2 DEF Tested, Args, Pin, Need, Run, Release, Check, Stmt
<1>6. UsedFirst(s)
  BY <1>1, <1>2 DEF UsedFirst, Args, Pin, Need, Run, Release, Check, Stmt
<1>7. ASSUME NEW x PROVE Covered(s, x, {}, {})
  BY <1>1, <1>2 DEF Covered, Obtained, Used, Writing, Args, Pin, Need, Run, Release, Check, Stmt
<1> QED
  BY <1>1, <1>3, <1>4, <1>5, <1>6, <1>7 DEF Proper

\* isValidCompressedBuffer.
LEMMA ShapeValidate ==
  ASSUME NEW s, s = <<Pin("in"), Need("OUT_OF_MEMORY", "snappy"), Run("validate"),
                      Release("in")>>
  PROVE  Proper(s) /\ \A x : Covered(s, x, {}, {})
<1>1. /\ s \in Seq(Statements) /\ Len(s) = 4
      /\ s[1] = Pin("in")
      /\ s[2] = Need("OUT_OF_MEMORY", "snappy")
      /\ s[3] = Run("validate")
      /\ s[4] = Release("in")
  BY StatementTypes DEF Operands, Args, Owners
<1>2. \A i \in 1..4 : i = 1 \/ i = 2 \/ i = 3 \/ i = 4
  OBVIOUS
<1>3. PinsReleased(s)
  BY <1>1, <1>2 DEF PinsReleased, Args, Pin, Need, Run, Release, Check, Stmt
<1>4. ReleasedFirst(s)
  BY <1>1, <1>2 DEF ReleasedFirst, Args, Pin, Need, Run, Release, Check, Stmt
<1>5. Tested(s)
  BY <1>1, <1>2 DEF Tested, Args, Pin, Need, Run, Release, Check, Stmt
<1>6. UsedFirst(s)
  BY <1>1, <1>2 DEF UsedFirst, Args, Pin, Need, Run, Release, Check, Stmt
<1>7. ASSUME NEW x PROVE Covered(s, x, {}, {})
  BY <1>1, <1>2 DEF Covered, Obtained, Used, Writing, Args, Pin, Need, Run, Release, Check, Stmt
<1> QED
  BY <1>1, <1>3, <1>4, <1>5, <1>6, <1>7 DEF Proper

\* Every method on arrays is proper, and needs nothing to be held at its beginning.
LEMMA ProperArrays ==
  ASSUME NEW m \in ArrayMethods
  PROVE  Proper(m) /\ \A x : Covered(m, x, {}, {})
<1> DEFINE Fine(s) == Proper(s) /\ \A x : Covered(s, x, {}, {})
<1>1. Fine(rawCompress_Object)
  BY ShapeConvert DEF rawCompress_Object, Owners, Writing
<1>2. Fine(arrayCopy)
  BY ShapeConvert DEF arrayCopy, Owners, Writing
<1>3. Fine(shuffle)
  BY ShapeConvert DEF shuffle, Owners, Writing
<1>4. Fine(unshuffle)
  BY ShapeConvert DEF unshuffle, Owners, Writing
<1>5. Fine(rawUncompress_Object)
  BY ShapeUncompress DEF rawUncompress_Object
<1>6. Fine(uncompressedLength_Object)
  BY ShapeLength DEF uncompressedLength_Object
<1>7. Fine(isValidCompressedBuffer_Object)
  BY ShapeValidate DEF isValidCompressedBuffer_Object
<1> HIDE DEF Fine
<1>8. Fine(m)
  BY <1>1, <1>2, <1>3, <1>4, <1>5, <1>6, <1>7 DEF ArrayMethods
<1> QED
  BY <1>8 DEF Fine
-----------------------------------------------------------------------------
(* What one step does to the properties of the text still to do.           *)

\* g is held after the first statement of s, and all of it was held before.
LEMMA HeldTail ==
  ASSUME NEW s \in Seq(Statements), s # << >>, NEW h, HeldReleased(s, h),
         NEW g \in SUBSET h, Head(s).op = "release" => Head(s).arg \notin g
  PROVE  HeldReleased(Tail(s), g)
<1> SUFFICES ASSUME NEW a \in g
             PROVE  \E i \in 1..Len(Tail(s)) : Tail(s)[i].op = "release" /\ Tail(s)[i].arg = a
  BY DEF HeldReleased
<1>1. PICK i \in 1..Len(s) : s[i].op = "release" /\ s[i].arg = a
  BY DEF HeldReleased
<1>2. i # 1
  BY <1>1, TailLemma
<1>3. i - 1 \in 1..Len(Tail(s)) /\ Tail(s)[i - 1] = s[i]
  BY <1>2, TailLemma
<1> QED
  BY <1>1, <1>3

\* The first statement pins its argument.
LEMMA HeldPin ==
  ASSUME NEW s, Proper(s), s # << >>, NEW h, HeldReleased(s, h), Head(s).op = "pin"
  PROVE  HeldReleased(Tail(s), h \cup {Head(s).arg})
<1>1. s \in Seq(Statements) /\ HeldReleased(Tail(s), h)
  BY HeldTail DEF Proper
<1>2. PICK j \in 2..Len(s) : s[j].op = "release" /\ s[j].arg = Head(s).arg
  BY <1>1, TailLemma DEF Proper, PinsReleased
<1>3. j - 1 \in 1..Len(Tail(s)) /\ Tail(s)[j - 1] = s[j]
  BY <1>1, <1>2, TailLemma
<1> QED
  BY <1>1, <1>2, <1>3 DEF HeldReleased

\* Nothing is held at the end, nor at a test of the result or an exception.
LEMMA NothingHeld ==
  ASSUME NEW s, Proper(s), NEW h, HeldReleased(s, h),
         s = << >> \/ Head(s).op \in {"check", "throw"}
  PROVE  h = {}
<1> SUFFICES ASSUME NEW a \in h PROVE FALSE
  OBVIOUS
<1>1. PICK i \in 1..Len(s) : s[i].op = "release" /\ s[i].arg = a
  BY DEF HeldReleased
<1>2. CASE s = << >>
  BY <1>1, <1>2
<1>3. CASE s # << >> /\ Head(s).op \in {"check", "throw"}
  <2>1. s[1].op \in {"check", "throw"} /\ 1 \in 1..Len(s)
    BY <1>3, TailLemma DEF Proper
  <2>2. 1 < i
    BY <1>1, <2>1
  <2> QED
    BY <1>1, <2>1, <2>2 DEF Proper, ReleasedFirst
<1> QED
  BY <1>2, <1>3

\* The arguments of later uses stay obtained: g and m are held and refused after
\* the first statement of s.
LEMMA CoveredTail ==
  ASSUME NEW s, Proper(s), s # << >>, NEW x, NEW h, NEW n, Covered(s, x, h, n),
         NEW g, NEW m, n \subseteq m,
         Head(s).op # "release" => h \subseteq g,
         Head(s).op = "pin" => Head(s).arg \in g \cup m,
         Head(s).op = "need" => m = {}
  PROVE  Covered(Tail(s), x, g, m)
<1> DEFINE r == Tail(s)
<1>1. /\ s \in Seq(Statements) /\ Len(s) \in Nat /\ Len(s) >= 1 /\ Head(s) = s[1]
      /\ Len(r) = Len(s) - 1 /\ \A i \in 1..Len(r) : r[i] = s[i + 1]
  BY TailLemma DEF Proper
<1> HIDE DEF r
<1> SUFFICES ASSUME NEW i \in 1..Len(r), r[i].op = "run",
                    NEW a \in Used(r[i].arg), x[a] \in Arrays
             PROVE  Obtained(r, i, a, g, m)
  BY DEF Covered, r
<1>2. i + 1 \in 1..Len(s) /\ r[i] = s[i + 1] /\ s[i + 1].op = "run"
  BY <1>1
<1>3. Obtained(s, i + 1, a, h, n)
  BY <1>2 DEF Covered
<1>4. CASE a \in h
  <2>1. Head(s).op # "release"
    BY <1>1, <1>2 DEF Proper, UsedFirst
  <2> QED
    BY <1>4, <2>1 DEF Obtained
<1>5. ASSUME NEW j \in 1..i, s[j].op = "pin", s[j].arg = a
      PROVE  Obtained(r, i, a, g, m)
  <2>1. CASE j = 1
    <3>1. CASE a \in g
      BY <3>1 DEF Obtained
    <3>2. CASE a \in m
      <4>1. PICK k \in 2..i : s[k].op = "need"
        BY <1>1, <1>2, <1>5, <2>1 DEF Proper, Tested
      <4>2. k - 1 \in 1..(i - 1) /\ r[k - 1] = s[k]
        BY <1>1, <4>1
      <4> QED
        BY <3>2, <4>1, <4>2 DEF Obtained
    <3> QED
      BY <1>1, <1>5, <2>1, <3>1, <3>2
  <2>2. CASE j # 1
    <3>1. j - 1 \in 1..(i - 1) /\ r[j - 1] = s[j]
      BY <1>1, <2>2
    <3> QED
      BY <1>5, <3>1 DEF Obtained
  <2> QED
    BY <2>1, <2>2
<1>6. ASSUME a \in n, NEW j \in 1..i, s[j].op = "need"
      PROVE  Obtained(r, i, a, g, m)
  <2>1. j # 1
    BY <1>1, <1>6
  <2>2. j - 1 \in 1..(i - 1) /\ r[j - 1] = s[j]
    BY <1>1, <2>1
  <2> QED
    BY <1>6, <2>2 DEF Obtained
<1>7. (i + 1) - 1 = i
  BY <1>1
<1> QED
  BY <1>3, <1>4, <1>5, <1>6, <1>7 DEF Obtained

\* The text that ends a branch: an exception.
LEMMA JustThrow ==
  ASSUME NEW e \in Operands, NEW w \in Owners
  PROVE  /\ Proper(<<Throw(e, w)>>)
         /\ \A x, n : Covered(<<Throw(e, w)>>, x, {}, n)
<1> DEFINE s == <<Throw(e, w)>>
<1>1. s \in Seq(Statements) /\ Len(s) = 1 /\ s[1] = Throw(e, w)
  BY StatementTypes
<1>2. \A i \in 1..Len(s) : s[i].op = "throw"
  BY <1>1 DEF Throw, Stmt
<1> HIDE DEF s
<1>3. Proper(s)
  BY <1>1, <1>2, ProperWithoutPins
<1>4. \A x, n : Covered(s, x, {}, n)
  BY <1>2 DEF Covered
<1> QED
  BY <1>3, <1>4 DEF s

\* One text after another.
LEMMA ConcatLemma ==
  ASSUME NEW p \in Seq(Statements), NEW q \in Seq(Statements)
  PROVE  /\ p \o q \in Seq(Statements)
         /\ Len(p) \in Nat /\ Len(q) \in Nat /\ Len(p \o q) = Len(p) + Len(q)
         /\ \A i \in 1..Len(p) : (p \o q)[i] = p[i]
         /\ \A i \in 1..Len(q) : (p \o q)[Len(p) + i] = q[i]
OBVIOUS

\* A text of releases only.
Releases(s) == s \in Seq(Statements) /\ \A i \in 1..Len(s) : s[i].op = "release"

\* Releases, and then releases.
LEMMA ConcatReleases ==
  ASSUME NEW p, NEW q, Releases(p), Releases(q), NEW h, NEW k,
         HeldReleased(p, h), HeldReleased(q, k)
  PROVE  Releases(p \o q) /\ HeldReleased(p \o q, h \cup k)
<1> DEFINE s == p \o q
<1>1. /\ s \in Seq(Statements)
      /\ Len(p) \in Nat /\ Len(q) \in Nat /\ Len(s) = Len(p) + Len(q)
      /\ \A i \in 1..Len(p) : s[i] = p[i]
      /\ \A i \in 1..Len(q) : s[Len(p) + i] = q[i]
  BY ConcatLemma DEF Releases
<1> HIDE DEF s
<1>2. ASSUME NEW i \in 1..Len(s) PROVE s[i].op = "release"
  <2>1. CASE i <= Len(p)
    BY <1>1, <2>1 DEF Releases
  <2>2. CASE i > Len(p)
    <3>1. i - Len(p) \in 1..Len(q) /\ i = Len(p) + (i - Len(p))
      BY <1>1, <2>2
    <3> QED
      BY <1>1, <3>1 DEF Releases
  <2> QED
    BY <1>1, <2>1, <2>2
<1>3. ASSUME NEW a \in h \cup k
      PROVE  \E i \in 1..Len(s) : s[i].op = "release" /\ s[i].arg = a
  <2>1. CASE a \in h
    <3>1. PICK i \in 1..Len(p) : p[i].op = "release" /\ p[i].arg = a
      BY <2>1 DEF HeldReleased
    <3> QED
      BY <1>1, <3>1
  <2>2. CASE a \in k
    <3>1. PICK i \in 1..Len(q) : q[i].op = "release" /\ q[i].arg = a
      BY <2>2 DEF HeldReleased
    <3>2. Len(p) + i \in 1..Len(s) /\ s[Len(p) + i] = q[i]
      BY <1>1
    <3> QED
      BY <3>1, <3>2
  <2> QED
    BY <2>1, <2>2
<1> QED
  BY <1>1, <1>2, <1>3 DEF Releases, HeldReleased, s

\* The releases of the branch of refused pointers.
LEMMA GiveBackReleases ==
  ASSUME NEW t, held[t] \subseteq Args
  PROVE  Releases(GiveBack(t)) /\ HeldReleased(GiveBack(t), held[t])
<1>1. ASSUME NEW a \in Args
      PROVE  /\ Releases(IF a \in held[t] THEN <<Release(a)>> ELSE << >>)
             /\ HeldReleased(IF a \in held[t] THEN <<Release(a)>> ELSE << >>, held[t] \cap {a})
  <2>1. CASE a \in held[t]
    <3>1. <<Release(a)>> \in Seq(Statements)
      BY StatementTypes DEF Operands, Owners
    <3>2. Len(<<Release(a)>>) = 1 /\ <<Release(a)>>[1] = Release(a)
      OBVIOUS
    <3>3. Release(a).op = "release" /\ Release(a).arg = a
      BY DEF Release, Stmt
    <3> QED
      BY <2>1, <3>1, <3>2, <3>3 DEF Releases, HeldReleased
  <2>2. CASE a \notin held[t]
    BY <2>2 DEF Releases, HeldReleased
  <2> QED
    BY <2>1, <2>2
<1>2. "in" \in Args /\ "out" \in Args /\ held[t] = (held[t] \cap {"in"}) \cup (held[t] \cap {"out"})
  BY DEF Args
<1> DEFINE p == IF "in" \in held[t] THEN <<Release("in")>> ELSE << >>
           q == IF "out" \in held[t] THEN <<Release("out")>> ELSE << >>
<1>3. GiveBack(t) = p \o q
  BY DEF GiveBack
<1>4. /\ Releases(p) /\ HeldReleased(p, held[t] \cap {"in"})
      /\ Releases(q) /\ HeldReleased(q, held[t] \cap {"out"})
  BY <1>1, <1>2
<1> HIDE DEF p, q
<1>5. Releases(p \o q) /\ HeldReleased(p \o q, (held[t] \cap {"in"}) \cup (held[t] \cap {"out"}))
  BY <1>4, ConcatReleases
<1> QED
  BY <1>2, <1>3, <1>5

\* The branch of refused pointers: what is held is released, then the exception.
LEMMA BailOut ==
  ASSUME NEW t, held[t] \subseteq Args, NEW e \in Operands, NEW w \in Owners,
         NEW s, s = GiveBack(t) \o <<Throw(e, w)>>
  PROVE  Proper(s) /\ HeldReleased(s, held[t]) /\ \A x, n : Covered(s, x, held[t], n)
<1> DEFINE g == GiveBack(t)
           last == <<Throw(e, w)>>
<1>1. Releases(g) /\ HeldReleased(g, held[t])
  BY GiveBackReleases
<1>2. last \in Seq(Statements) /\ Len(last) = 1 /\ last[1] = Throw(e, w)
  BY StatementTypes
<1>3. Throw(e, w).op = "throw"
  BY DEF Throw, Stmt
<1>4. s = g \o last
  OBVIOUS
<1> HIDE DEF g, last
<1>5. /\ s \in Seq(Statements)
      /\ Len(g) \in Nat /\ Len(s) = Len(g) + 1
      /\ \A i \in 1..Len(g) : s[i] = g[i]
      /\ s[Len(g) + 1] = Throw(e, w)
  <2>1. g \in Seq(Statements)
    BY <1>1 DEF Releases
  <2>2. /\ g \o last \in Seq(Statements)
        /\ Len(g) \in Nat /\ Len(g \o last) = Len(g) + Len(last)
        /\ \A i \in 1..Len(g) : (g \o last)[i] = g[i]
        /\ \A i \in 1..Len(last) : (g \o last)[Len(g) + i] = last[i]
    BY <1>2, <2>1, ConcatLemma
  <2>3. 1 \in 1..Len(last)
    BY <1>2
  <2> QED
    BY <1>2, <1>4, <2>2, <2>3
<1>6. \A i \in 1..Len(s) : \/ s[i].op = "release"
                           \/ s[i].op = "throw" /\ i = Len(s)
  BY <1>1, <1>3, <1>5 DEF Releases
<1>7. HeldReleased(s, held[t])
  <2> SUFFICES ASSUME NEW a \in held[t]
               PROVE  \E i \in 1..Len(s) : s[i].op = "release" /\ s[i].arg = a
    BY DEF HeldReleased
  <2>1. PICK i \in 1..Len(g) : g[i].op = "release" /\ g[i].arg = a
    BY <1>1 DEF HeldReleased
  <2>2. i \in 1..Len(s) /\ s[i] = g[i]
    BY <1>5
  <2> QED
    BY <2>1, <2>2
<1>8. PinsReleased(s)
  BY <1>6 DEF PinsReleased
<1>9. Tested(s) /\ UsedFirst(s)
  BY <1>6 DEF Tested, UsedFirst
<1>10. \A x, n : Covered(s, x, held[t], n)
  BY <1>6 DEF Covered
<1>11. ReleasedFirst(s)
  BY <1>5, <1>6 DEF ReleasedFirst
<1> QED
  BY <1>5, <1>7, <1>8, <1>9, <1>10, <1>11 DEF Proper
-----------------------------------------------------------------------------
(* The invariant.                                                          *)

\* Initially every thread is in Java code.
LEMMA NInvInit == Init => NInv
<1> SUFFICES ASSUME Init PROVE NInv
  OBVIOUS
<1>1. << >> \in Seq(Statements) /\ Len(<< >>) = 0
  OBVIOUS
<1>2. TypeInv
  <2>1. NoArgs \in [Args -> Objects \cup {"none"}]
    BY DEF NoArgs
  <2>2. arg \in [Threads -> [Args -> Objects \cup {"none"}]]
    BY <2>1 DEF Init
  <2>3. method \in [Threads -> Seq(Statements)] /\ todo \in [Threads -> Seq(Statements)]
    BY <1>1 DEF Init
  <2>4. place \in [Threads -> [Args -> {0, 1}]]
    BY DEF Init
  <2> QED
    BY <2>2, <2>3, <2>4 DEF Init, TypeInv
<1>3. Proper(<< >>)
  <2>1. \A i \in 1..Len(<< >>) : << >>[i].op \notin {"pin", "release"}
    BY <1>1
  <2> QED
    BY <1>1, <2>1, ProperWithoutPins
<1>4. ASSUME NEW t \in Threads PROVE ThreadInv(t)
  <2>1. todo[t] = << >> /\ held[t] = {}
    BY DEF Init
  <2> QED
    BY <1>1, <1>3, <2>1 DEF ThreadInv, HeldReleased, Covered
<1> QED
  BY <1>2, <1>4 DEF NInv, Init

\* Thread t's step leaves the other threads alone.
OthersSame(t) ==
    /\ copying' = copying /\ where' = where
    /\ \A u \in Threads \ {t} :
          /\ method'[u] = method[u] /\ todo'[u] = todo[u] /\ arg'[u] = arg[u]
          /\ held'[u] = held[u] /\ null'[u] = null[u] /\ place'[u] = place[u]

\* It is enough to look at the thread that moves.
LEMMA OneThread ==
  ASSUME NInv, NEW t \in Threads, OthersSame(t), TypeInv', ThreadInv(t)', ~wild'
  PROVE  NInv'
<1>1. ASSUME NEW u \in Threads, u # t PROVE ThreadInv(u)'
  BY <1>1 DEF NInv, OthersSame, ThreadInv, InJava
<1> QED
  BY <1>1 DEF NInv

\* A statement that neither pins nor releases is done.
LEMMA Advanced ==
  ASSUME NEW t \in Threads, ThreadInv(t), todo[t] # << >>, Now(t).op \notin {"pin", "release"},
         todo'[t] = Tail(todo[t]), method'[t] = method[t], arg'[t] = arg[t],
         held'[t] = held[t], place'[t] = place[t], null[t] \subseteq null'[t],
         Now(t).op = "need" => null'[t] = {},
         copying' = copying, where' = where
  PROVE  ThreadInv(t)'
<1> DEFINE s == todo[t]
<1>1. Proper(s) /\ s # << >> /\ Head(s).op \notin {"pin", "release"} /\ ~InJava(t)
  BY DEF ThreadInv, Now
<1>2. Proper(Tail(s))
  BY <1>1, ProperTail
<1>3. HeldReleased(Tail(s), held[t])
  BY <1>1, HeldTail DEF ThreadInv, Proper
<1>4. Covered(Tail(s), arg[t], held[t], null'[t])
  BY <1>1, CoveredTail DEF ThreadInv, Now
<1> QED
  BY <1>1, <1>2, <1>3, <1>4 DEF ThreadInv, InJava

\* Call: the text of a method is proper, and needs nothing to be held.
LEMMA CallStep ==
  ASSUME NInv, NEW t \in Threads, Enter(t)
  PROVE  NInv'
<1>1. PICK m, i, o : /\ Call(t, m, i, o)
                     /\ \/ m \in ArrayMethods /\ i \in Arrays /\ o \in Arrays
                        \/ m \in BufferMethods /\ i \in Buffers /\ o \in Buffers
  BY DEF Enter
<1>2. todo[t] = << >> /\ held[t] = {}
  <2>1. todo[t] = << >> /\ Proper(todo[t]) /\ HeldReleased(todo[t], held[t])
    BY <1>1 DEF NInv, ThreadInv, Call
  <2> QED
    BY <2>1, NothingHeld
<1> DEFINE x == [a \in Args |-> IF a = "in" THEN i ELSE o]
<1>3. /\ method'[t] = m /\ todo'[t] = m /\ arg'[t] = x
      /\ held'[t] = {} /\ null'[t] = null[t] /\ place'[t] = place[t]
  BY <1>1, <1>2 DEF Call, NInv, TypeInv, accessVars
<1>4. x \in [Args -> Objects \cup {"none"}] /\ x \in [Args -> {i, o}]
  BY <1>1 DEF Objects
<1>5. Proper(m)
  BY <1>1, ProperArrays, ProperBuffers
<1>6. Covered(m, x, {}, null[t])
  <2>1. CASE m \in ArrayMethods
    <3>1. Covered(m, x, {}, {})
      BY <2>1, ProperArrays
    <3> QED
      BY <3>1 DEF Covered, Obtained
  <2>2. CASE i \in Buffers /\ o \in Buffers
    <3>1. \A a \in Args : x[a] \notin Arrays
      BY <2>2, ObjectsAssumption
    <3>2. \A f : Used(f) \subseteq Args
      BY DEF Used, Args
    <3> HIDE DEF x
    <3> QED
      BY <3>1, <3>2 DEF Covered
  <2> QED
    BY <1>1, <2>1, <2>2
<1>7. TypeInv'
  <2>1. m \in Seq(Statements)
    BY <1>5 DEF Proper
  <2> HIDE DEF x
  <2>2. arg' = [arg EXCEPT ![t] = x]
    BY <1>1 DEF Call, x
  <2> QED
    BY <1>1, <1>4, <2>1, <2>2 DEF Call, NInv, TypeInv, accessVars, jvmVars
<1>8. OthersSame(t)
  BY <1>1 DEF Call, OthersSame, NInv, TypeInv, accessVars, jvmVars
<1>9. ThreadInv(t)'
  <2> HIDE DEF x
  <2> QED
    BY <1>3, <1>5, <1>6 DEF ThreadInv, InJava, HeldReleased
<1>10. ~wild'
  BY <1>1 DEF Call, NInv
<1> QED
  BY <1>7, <1>8, <1>9, <1>10, OneThread

\* Return: nothing is left to do.
LEMMA ReturnStep ==
  ASSUME NInv, NEW t \in Threads, Return(t)
  PROVE  NInv'
<1>1. /\ method'[t] = << >> /\ todo'[t] = << >> /\ todo[t] = << >>
      /\ held'[t] = held[t] /\ place'[t] = place[t]
      /\ copying' = copying /\ where' = where
  BY DEF Return, Returning, NInv, TypeInv, jvmVars
<1>2. TypeInv'
  BY DEF Return, NInv, TypeInv, jvmVars, NoArgs
<1>3. OthersSame(t)
  BY DEF Return, OthersSame, NInv, TypeInv, jvmVars
<1>4. ThreadInv(t)'
  <2>1. ThreadInv(t)
    BY DEF NInv
  <2> QED
    BY <1>1, <2>1 DEF ThreadInv, InJava, Covered
<1>5. ~wild'
  BY DEF Return, NInv
<1> QED
  BY <1>2, <1>3, <1>4, <1>5, OneThread

\* GetPrimitiveArrayCritical: the array that is given is released later, a
\* refusal is noticed before the next use.
LEMMA PinStep ==
  ASSUME NInv, NEW t \in Threads, GetPrimitiveArrayCritical(t)
  PROVE  NInv'
<1> DEFINE s == todo[t]
           a == Head(s).arg
<1>1. /\ s # << >> /\ Head(s).op = "pin"
      /\ ThreadInv(t) /\ ~InJava(t)
      /\ Proper(s) /\ Proper(Tail(s))
      /\ s \in Seq(Statements) /\ Tail(s) \in Seq(Statements)
  BY TailLemma, ProperTail DEF GetPrimitiveArrayCritical, At, Now, NInv, ThreadInv, Proper
<1>2. a \in Args
  BY <1>1, TailLemma DEF Proper, PinsReleased
<1>3. /\ todo' = [todo EXCEPT ![t] = Tail(s)]
      /\ copying' = copying /\ where' = where /\ method' = method /\ arg' = arg /\ wild' = wild
  BY DEF GetPrimitiveArrayCritical, Advance, jvmVars, callVars
<1>4. \/ /\ held' = [held EXCEPT ![t] = @ \cup {a}]
         /\ null' = null
         /\ IF copying THEN place' = place
                       ELSE place' = [place EXCEPT ![t][a] = where]
      \/ /\ null' = [null EXCEPT ![t] = @ \cup {a}]
         /\ held' = held /\ place' = place
  BY DEF GetPrimitiveArrayCritical, Now
<1> HIDE DEF s, a
<1>5. TypeInv'
  <2>1. held' \in [Threads -> SUBSET Args]
    <3>1. CASE held' = held
      BY <3>1 DEF NInv, TypeInv
    <3>2. CASE held' = [held EXCEPT ![t] = @ \cup {a}]
      BY <1>2, <3>2 DEF NInv, TypeInv
    <3> QED
      BY <1>4, <3>1, <3>2
  <2>2. null' \in [Threads -> SUBSET Operands]
    <3>1. CASE null' = null
      BY <3>1 DEF NInv, TypeInv
    <3>2. CASE null' = [null EXCEPT ![t] = @ \cup {a}]
      <4>1. null[t] \cup {a} \in SUBSET Operands
        BY <1>2 DEF NInv, TypeInv, Operands
      <4> QED
        BY <3>2, <4>1 DEF NInv, TypeInv
    <3> QED
      BY <1>4, <3>1, <3>2
  <2>3. place' \in [Threads -> [Args -> {0, 1}]]
    <3>1. place \in [Threads -> [Args -> {0, 1}]] /\ where \in {0, 1}
      BY DEF NInv, TypeInv
    <3>2. CASE place' = [place EXCEPT ![t][a] = where]
      <4>1. [place[t] EXCEPT ![a] = where] \in [Args -> {0, 1}]
        BY <3>1
      <4> QED
        BY <3>1, <3>2, <4>1
    <3>3. CASE place' = place
      BY <3>1, <3>3
    <3> QED
      BY <1>4, <3>2, <3>3
  <2> QED
    BY <1>1, <1>3, <2>1, <2>2, <2>3 DEF NInv, TypeInv
<1>6. OthersSame(t)
  BY <1>3, <1>4 DEF OthersSame, NInv, TypeInv
<1>7. todo'[t] = Tail(s)
  BY <1>3 DEF NInv, TypeInv
<1>8. HeldReleased(Tail(s), held'[t])
  <2>1. HeldReleased(s, held[t])
    BY <1>1 DEF ThreadInv, s
  <2>2. CASE held'[t] = held[t] \cup {a}
    BY <1>1, <2>1, <2>2, HeldPin DEF a
  <2>3. CASE held'[t] = held[t]
    BY <1>1, <2>1, <2>3, HeldTail
  <2> QED
    BY <1>4, <2>2, <2>3 DEF NInv, TypeInv
<1>9. Covered(Tail(s), arg[t], held'[t], null'[t])
  <2>1. Covered(s, arg[t], held[t], null[t])
    BY <1>1 DEF ThreadInv, s
  <2>2. held[t] \subseteq held'[t] /\ null[t] \subseteq null'[t] /\ a \in held'[t] \cup null'[t]
    BY <1>4 DEF NInv, TypeInv
  <2> QED
    BY <1>1, <2>1, <2>2, CoveredTail DEF a
<1>10. ~copying => \A b \in held'[t] : place'[t][b] = where
  BY <1>1, <1>2, <1>4 DEF NInv, TypeInv, ThreadInv
<1>11. ThreadInv(t)'
  BY <1>1, <1>3, <1>7, <1>8, <1>9, <1>10 DEF ThreadInv, InJava
<1> QED
  BY <1>3, <1>5, <1>6, <1>11, OneThread DEF NInv

\* GetDirectBufferAddress concerns no array.
LEMMA LocateStep ==
  ASSUME NInv, NEW t \in Threads, GetDirectBufferAddress(t)
  PROVE  NInv'
<1>1. /\ todo[t] # << >> /\ Now(t).op = "locate" /\ ThreadInv(t)
      /\ todo[t] \in Seq(Statements) /\ Tail(todo[t]) \in Seq(Statements)
      /\ Now(t) \in Statements
  BY TailLemma DEF GetDirectBufferAddress, At, Now, NInv, ThreadInv, Proper
<1>2. /\ todo' = [todo EXCEPT ![t] = Tail(todo[t])]
      /\ copying' = copying /\ where' = where /\ method' = method /\ arg' = arg /\ wild' = wild
      /\ held' = held /\ place' = place
      /\ null' \in {null, [null EXCEPT ![t] = @ \cup {Now(t).arg}]}
  BY DEF GetDirectBufferAddress, Advance, jvmVars, callVars
<1>3. TypeInv'
  <2>1. null[t] \cup {Now(t).arg} \in SUBSET Operands
    BY <1>1 DEF NInv, TypeInv, Statements
  <2>2. null' \in [Threads -> SUBSET Operands]
    BY <1>2, <2>1 DEF NInv, TypeInv
  <2> QED
    BY <1>1, <1>2, <2>2 DEF NInv, TypeInv
<1>4. OthersSame(t)
  BY <1>2 DEF OthersSame, NInv, TypeInv
<1>5. todo'[t] = Tail(todo[t]) /\ null[t] \subseteq null'[t]
  BY <1>2 DEF NInv, TypeInv
<1>6. ThreadInv(t)'
  BY <1>1, <1>2, <1>5, Advanced
<1> QED
  BY <1>2, <1>3, <1>4, <1>6, OneThread DEF NInv

\* ReleasePrimitiveArrayCritical: no use comes after it.
LEMMA ReleaseStep ==
  ASSUME NInv, NEW t \in Threads, ReleasePrimitiveArrayCritical(t)
  PROVE  NInv'
<1> DEFINE s == todo[t]
           a == Head(s).arg
<1>1. /\ s # << >> /\ Head(s).op = "release"
      /\ ThreadInv(t) /\ ~InJava(t)
      /\ Proper(s) /\ Proper(Tail(s))
      /\ s \in Seq(Statements) /\ Tail(s) \in Seq(Statements)
  BY TailLemma, ProperTail DEF ReleasePrimitiveArrayCritical, At, Now, NInv, ThreadInv, Proper
<1>2. /\ todo' = [todo EXCEPT ![t] = Tail(s)]
      /\ copying' = copying /\ where' = where /\ method' = method /\ arg' = arg /\ wild' = wild
      /\ held' = [held EXCEPT ![t] = @ \ {a}]
      /\ null' = null
      /\ place' = [place EXCEPT ![t][a] = 0]
  BY DEF ReleasePrimitiveArrayCritical, Advance, Now, jvmVars, callVars
<1> HIDE DEF s, a
<1>3. TypeInv'
  <2>1. place' \in [Threads -> [Args -> {0, 1}]]
    BY <1>2 DEF NInv, TypeInv
  <2> QED
    BY <1>1, <1>2, <2>1 DEF NInv, TypeInv
<1>4. OthersSame(t)
  BY <1>2 DEF OthersSame, NInv, TypeInv
<1>5. todo'[t] = Tail(s) /\ held'[t] = held[t] \ {a}
  BY <1>2 DEF NInv, TypeInv
<1>6. HeldReleased(Tail(s), held'[t])
  <2>1. HeldReleased(s, held[t])
    BY <1>1 DEF ThreadInv, s
  <2>2. held'[t] \in SUBSET held[t] /\ Head(s).arg \notin held'[t]
    BY <1>5 DEF a
  <2> QED
    BY <1>1, <2>1, <2>2, HeldTail
<1>7. Covered(Tail(s), arg[t], held'[t], null[t])
  BY <1>1, CoveredTail DEF ThreadInv, s
<1>8. ~copying => \A b \in held'[t] : place'[t][b] = where
  BY <1>1, <1>2, <1>5 DEF NInv, TypeInv, ThreadInv
<1>9. ThreadInv(t)'
  BY <1>1, <1>2, <1>5, <1>6, <1>7, <1>8 DEF ThreadInv, InJava
<1> QED
  BY <1>2, <1>3, <1>4, <1>9, OneThread DEF NInv

\* The test of the pointers: it goes on when none was refused, and otherwise
\* releases what is held before the exception.
LEMMA TestPointersStep ==
  ASSUME NInv, NEW t \in Threads, TestPointers(t)
  PROVE  NInv'
<1>1. /\ todo[t] # << >> /\ Now(t).op = "need" /\ ThreadInv(t)
      /\ todo[t] \in Seq(Statements) /\ Tail(todo[t]) \in Seq(Statements)
      /\ Now(t).arg \in Operands /\ Now(t).by \in Owners
  <2>1. todo[t] # << >> /\ Now(t).op = "need" /\ ThreadInv(t)
    BY DEF TestPointers, At, NInv
  <2>2. todo[t] \in Seq(Statements)
    BY <2>1 DEF ThreadInv, Proper
  <2>3. Now(t) \in Statements /\ Tail(todo[t]) \in Seq(Statements)
    BY <2>1, <2>2, TailLemma DEF Now
  <2> QED
    BY <2>1, <2>2, <2>3 DEF Statements
<1>2. /\ copying' = copying /\ where' = where /\ method' = method /\ arg' = arg /\ wild' = wild
      /\ held' = held /\ place' = place /\ null' = null
  BY DEF TestPointers, jvmVars, callVars, accessVars
<1>3. CASE null[t] = {}
  <2>1. todo' = [todo EXCEPT ![t] = Tail(todo[t])]
    BY <1>3 DEF TestPointers, Advance
  <2>2. TypeInv' /\ OthersSame(t) /\ todo'[t] = Tail(todo[t])
    BY <1>1, <1>2, <2>1 DEF NInv, TypeInv, OthersSame
  <2>3. ThreadInv(t)'
    BY <1>1, <1>2, <1>3, <2>2, Advanced
  <2> QED
    BY <1>2, <2>2, <2>3, OneThread DEF NInv
<1>4. CASE null[t] # {}
  <2> DEFINE s == GiveBack(t) \o <<Throw(Now(t).arg, Now(t).by)>>
  <2>1. todo' = [todo EXCEPT ![t] = s]
    BY <1>4 DEF TestPointers
  <2>2. Proper(s) /\ HeldReleased(s, held[t]) /\ \A x, n : Covered(s, x, held[t], n)
    BY <1>1, BailOut DEF NInv, TypeInv
  <2> HIDE DEF s
  <2>3. TypeInv' /\ OthersSame(t) /\ todo'[t] = s
    BY <1>1, <1>2, <2>1, <2>2 DEF NInv, TypeInv, OthersSame, Proper
  <2>4. ThreadInv(t)'
    BY <1>1, <1>2, <2>2, <2>3 DEF ThreadInv, InJava
  <2> QED
    BY <1>2, <2>3, <2>4, OneThread DEF NInv
<1> QED
  BY <1>3, <1>4

\* The library: the memory of its arguments is valid.
LEMMA RunStep ==
  ASSUME NInv, NEW t \in Threads, RunLibrary(t)
  PROVE  NInv'
<1>1. /\ todo[t] # << >> /\ Now(t).op = "run" /\ ThreadInv(t)
      /\ todo[t] \in Seq(Statements) /\ Tail(todo[t]) \in Seq(Statements)
      /\ Len(todo[t]) >= 1 /\ Len(todo[t]) \in Nat /\ Now(t) = todo[t][1]
  BY TailLemma DEF RunLibrary, At, Now, NInv, ThreadInv, Proper
<1>2. /\ todo' = [todo EXCEPT ![t] = Tail(todo[t])]
      /\ copying' = copying /\ where' = where /\ method' = method /\ arg' = arg
      /\ held' = held /\ place' = place /\ null' = null
  BY DEF RunLibrary, Advance, jvmVars
<1>3. ASSUME NEW a \in Used(Now(t).arg) PROVE Valid(t, a)
  <2>1. arg[t][a] \in Arrays => Obtained(todo[t], 1, a, held[t], null[t])
    BY <1>1, <1>3 DEF ThreadInv, Covered
  <2>2. arg[t][a] \in Arrays => a \in held[t]
    BY <2>1 DEF Obtained
  <2>3. a \in held[t] => copying \/ place[t][a] = where
    BY <1>1 DEF ThreadInv
  <2> QED
    BY <2>2, <2>3 DEF Valid
<1>4. wild' = FALSE
  <2>1. ~wild /\ wild \in BOOLEAN
    BY DEF NInv, TypeInv
  <2>2. Valid(t, "in")
    BY <1>3 DEF Used, Args
  <2>3. CASE wild' = (wild \/ ~Valid(t, "in"))
    BY <2>1, <2>2, <2>3
  <2>4. CASE /\ Now(t).arg \in Writing
             /\ wild' = (wild \/ ~Valid(t, "in") \/ ~Valid(t, "out"))
    <3>1. Valid(t, "out")
      BY <1>3, <2>4 DEF Used, Args
    <3> QED
      BY <2>1, <2>2, <2>4, <3>1
  <2> QED
    BY <2>3, <2>4 DEF RunLibrary
<1>5. TypeInv' /\ OthersSame(t) /\ todo'[t] = Tail(todo[t])
  BY <1>1, <1>2, <1>4 DEF NInv, TypeInv, OthersSame
<1>6. ThreadInv(t)'
  BY <1>1, <1>2, <1>5, Advanced
<1> QED
  BY <1>4, <1>5, <1>6, OneThread

\* The test of the result: when it fails, the arrays have been released.
LEMMA TestResultStep ==
  ASSUME NInv, NEW t \in Threads, TestResult(t)
  PROVE  NInv'
<1>1. /\ todo[t] # << >> /\ Now(t).op = "check" /\ ThreadInv(t)
      /\ todo[t] \in Seq(Statements) /\ Tail(todo[t]) \in Seq(Statements)
      /\ Now(t) \in Statements
  BY TailLemma DEF TestResult, At, Now, NInv, ThreadInv, Proper
<1>2. /\ copying' = copying /\ where' = where /\ method' = method /\ arg' = arg /\ wild' = wild
      /\ held' = held /\ place' = place /\ null' = null
  BY DEF TestResult, jvmVars, callVars, accessVars
<1>3. CASE todo' = [todo EXCEPT ![t] = Tail(todo[t])]
  <2>1. TypeInv' /\ OthersSame(t) /\ todo'[t] = Tail(todo[t])
    BY <1>1, <1>2, <1>3 DEF NInv, TypeInv, OthersSame
  <2>2. ThreadInv(t)'
    BY <1>1, <1>2, <2>1, Advanced
  <2> QED
    BY <1>2, <2>1, <2>2, OneThread DEF NInv
<1>4. CASE todo' = [todo EXCEPT ![t] = <<Throw(Now(t).arg, Now(t).by)>>]
  <2> DEFINE s == <<Throw(Now(t).arg, Now(t).by)>>
  <2>1. held[t] = {}
    BY <1>1, NothingHeld DEF ThreadInv, Now
  <2>2. Proper(s) /\ \A x, n : Covered(s, x, {}, n)
    BY <1>1, JustThrow DEF Statements
  <2>3. todo' = [todo EXCEPT ![t] = s]
    BY <1>4
  <2> HIDE DEF s
  <2>4. TypeInv' /\ OthersSame(t) /\ todo'[t] = s
    BY <1>1, <1>2, <2>2, <2>3 DEF NInv, TypeInv, OthersSame, Proper
  <2>5. ThreadInv(t)'
    BY <1>1, <1>2, <2>1, <2>2, <2>4 DEF ThreadInv, InJava, HeldReleased
  <2> QED
    BY <1>2, <2>4, <2>5, OneThread DEF NInv
<1> QED
  BY <1>3, <1>4 DEF TestResult, Advance

\* The exception is raised.
LEMMA ThrowStep ==
  ASSUME NInv, NEW t \in Threads, throw_exception(t) \/ throw_exception_BitShuffle(t)
  PROVE  NInv'
<1>1. /\ todo[t] # << >> /\ Now(t).op = "throw" /\ ThreadInv(t)
      /\ Tail(todo[t]) \in Seq(Statements)
  BY TailLemma DEF throw_exception, throw_exception_BitShuffle, At, Now, NInv, ThreadInv, Proper
<1>2. /\ todo' = [todo EXCEPT ![t] = Tail(todo[t])]
      /\ copying' = copying /\ where' = where /\ method' = method /\ arg' = arg /\ wild' = wild
      /\ held' = held /\ place' = place /\ null' = null
  BY DEF throw_exception, throw_exception_BitShuffle, Advance, jvmVars, callVars, accessVars
<1>3. TypeInv' /\ OthersSame(t) /\ todo'[t] = Tail(todo[t])
  BY <1>1, <1>2 DEF NInv, TypeInv, OthersSame
<1>4. ThreadInv(t)'
  BY <1>1, <1>2, <1>3, Advanced
<1> QED
  BY <1>2, <1>3, <1>4, OneThread DEF NInv

\* A collection is requested, or nothing happens.
LEMMA RequestStep ==
  ASSUME NInv, RequestCollection \/ UNCHANGED vars
  PROVE  NInv'
<1>1. /\ copying' = copying /\ where' = where /\ wild' = wild
      /\ method' = method /\ todo' = todo /\ arg' = arg
      /\ held' = held /\ null' = null /\ place' = place
  BY DEF RequestCollection, vars, jvmVars, callVars, accessVars
<1>2. TypeInv'
  BY <1>1 DEF NInv, TypeInv
<1>3. ASSUME NEW t \in Threads PROVE ThreadInv(t)'
  BY <1>1 DEF NInv, ThreadInv, InJava
<1> QED
  BY <1>1, <1>2, <1>3 DEF NInv

\* The collection: arrays that move are held by nobody.
LEMMA CollectStep ==
  ASSUME NInv, Collect
  PROVE  NInv'
<1>1. /\ copying' = copying /\ wild' = wild
      /\ method' = method /\ todo' = todo /\ arg' = arg
      /\ held' = held /\ null' = null /\ place' = place
      /\ ~copying => \A t \in Threads : held[t] = {}
  BY DEF Collect, callVars, accessVars
<1>2. TypeInv'
  BY <1>1 DEF NInv, TypeInv, Collect
<1>3. ASSUME NEW t \in Threads PROVE ThreadInv(t)'
  BY <1>1 DEF NInv, ThreadInv, InJava
<1> QED
  BY <1>1, <1>2, <1>3 DEF NInv

\* NInv is inductive.
THEOREM NativeInvariance == Spec => []NInv
<1>1. ASSUME NInv, [Next]_vars PROVE NInv'
  <2>1. CASE \E t \in Threads : Enter(t) \/ Step(t)
    <3>1. PICK t \in Threads : Enter(t) \/ Step(t)
      BY <2>1
    <3>2. CASE Enter(t)
      BY <1>1, <3>2, CallStep
    <3>3. CASE GetPrimitiveArrayCritical(t)
      BY <1>1, <3>3, PinStep
    <3>4. CASE GetDirectBufferAddress(t)
      BY <1>1, <3>4, LocateStep
    <3>5. CASE ReleasePrimitiveArrayCritical(t)
      BY <1>1, <3>5, ReleaseStep
    <3>6. CASE TestPointers(t)
      BY <1>1, <3>6, TestPointersStep
    <3>7. CASE RunLibrary(t)
      BY <1>1, <3>7, RunStep
    <3>8. CASE TestResult(t)
      BY <1>1, <3>8, TestResultStep
    <3>9. CASE throw_exception(t) \/ throw_exception_BitShuffle(t)
      BY <1>1, <3>9, ThrowStep
    <3>10. CASE Return(t)
      BY <1>1, <3>10, ReturnStep
    <3> QED
      BY <3>1, <3>2, <3>3, <3>4, <3>5, <3>6, <3>7, <3>8, <3>9, <3>10 DEF Step
  <2>2. CASE RequestCollection \/ UNCHANGED vars
    BY <1>1, <2>2, RequestStep
  <2>3. CASE Collect
    BY <1>1, <2>3, CollectStep
  <2> QED
    BY <1>1, <2>1, <2>2, <2>3 DEF Next
<1> QED
  BY NInvInit, <1>1, PTL DEF Spec
-----------------------------------------------------------------------------
(* What the callers and the JVM rely on.                                   *)

\* Whatever the arguments, the refusals of the JVM, the results of the library
\* and the collections in between: a thread that has nothing left to do, or is
\* about to run the Java code of throw_exception, holds no array.
THEOREM RegionsAlwaysClosed == Spec => []RegionsClosed
<1>1. ASSUME NInv PROVE RegionsClosed
  <2> SUFFICES ASSUME NEW t \in Threads, todo[t] = << >> \/ At(t, "throw")
               PROVE  held[t] = {}
    BY DEF RegionsClosed
  <2>1. Proper(todo[t]) /\ HeldReleased(todo[t], held[t])
    BY <1>1 DEF NInv, ThreadInv
  <2>2. todo[t] = << >> \/ Head(todo[t]).op \in {"check", "throw"}
    BY DEF At, Now
  <2> QED
    BY <2>1, <2>2, NothingHeld
<1> QED
  BY NativeInvariance, <1>1, PTL

\* The library only ever touches memory that is the arguments': every array it
\* is given is pinned and has not moved since, or is a copy.
THEOREM MemoryAlwaysValid == Spec => []MemoryValid
<1>1. NInv => MemoryValid
  BY DEF NInv, MemoryValid
<1> QED
  BY NativeInvariance, <1>1, PTL
-----------------------------------------------------------------------------
(* What a method has done so far.                                          *)

\* The arguments of the statements with operation op among the first n of m.
Past(m, n, op) == {m[i].arg : i \in {j \in 1..n : m[j].op = op}}

\* Statement x may stand behind the first n of m: pointers are obtained before
\* they are tested, and tested before the library runs; only uncompress runs after
\* another call, and none after a test of the result; what is released was pinned,
\* and the input is released before an output that was written.
Follows(m, n, x) ==
    /\ x.op = "pin" => /\ Past(m, n, "run") = {} /\ Past(m, n, "need") = {} /\ x.arg \in Args
    /\ x.op = "locate" => Past(m, n, "need") = {} /\ Past(m, n, "pin") = {}
    /\ x.op = "need" => x.by \in {"snappy", "bitshuffle"}
    /\ x.op = "run" =>
         /\ Past(m, n, "check") = {}
         /\ x.by = "library" /\ x.arg \in {"length", "validate"} \cup Writing
         /\ \/ Past(m, n, "run") = {}
            \/ Past(m, n, "run") = {"length"} /\ x.arg = "uncompress"
    /\ x.op = "release" =>
         /\ Past(m, n, "need") # {}
         /\ x.arg \in Args /\ x.arg \in Past(m, n, "pin") \ Past(m, n, "release")
         /\ \/ x.arg = "out" \/ "out" \in Past(m, n, "pin") \ Past(m, n, "release")
            \/ Past(m, n, "run") \cap Writing = {}
    /\ x.op = "check" => x.by = "snappy"
    /\ x.op # "throw"

\* The order of the statements of a method, which tests what may fail.
Orderly(m) ==
    /\ \A n \in 0..(Len(m) - 1) : Follows(m, n, m[n + 1])
    /\ Past(m, Len(m), "run") \cap {"length", "uncompress"} # {} => Past(m, Len(m), "check") # {}

\* s is what is left of m.
Rest(m, s) == /\ Len(s) <= Len(m)
              /\ \A i \in 1..Len(s) : s[i] = m[Len(m) - Len(s) + i]

\* The text of an error branch.
Branch(s) == /\ s # << >>
             /\ \A i \in 1..Len(s) : IF i < Len(s) THEN s[i].op = "release"
                                     ELSE s[i].op = "throw" /\ s[i].by = "snappy"

\* What is released are arguments.
Returned(s) == \A i \in 1..Len(s) : s[i].op = "release" => s[i].arg \in Args

\* A pointer was refused in BitShuffleNative.
Lost(t) == null[t] # {} /\ \E i \in 1..Len(method[t]) : method[t][i].by = "bitshuffle"

\* Where the output of thread t is: in its copy until it is released.
Result(t) ==
    LET o == arg[t]["out"]
    IN  IF copying /\ o \in Arrays /\ "out" \in held[t] THEN copy[t]["out"][t] ELSE data[o][t]

\* What the first n statements of m leave behind: q is the quality of the input, r
\* the result of the library, k says whether the length is known, h and z are held
\* and refused, v is the output.  Only bitshuffle may fail on a good input.
Done(m, n, q, r, k, h, z, v) ==
    /\ Past(m, n, "run") # {} => q # "unread"
    /\ /\ Past(m, n, "run") \cap Writing # {} /\ q = "good"
       /\ "shuffle" \in Past(m, n, "run") => r
       => v = "new"
    /\ "length" \in Past(m, n, "run") /\ q # "badHeader" => k
    /\ Past(m, n, "run") \cap {"convert", "shuffle"} # {} => q = "good"
    /\ "uncompress" \in Past(m, n, "run") /\ r => q = "good"
    /\ "length" \in Past(m, n, "run") /\ r => q # "badHeader"
    /\ Past(m, n, "check") # {} => r
    /\ Past(m, n, "need") # {} => z = {}
    /\ Past(m, n, "pin") \ Past(m, n, "release") \subseteq h \cup z

\* Thread t has met no error.
OnPath(t) ==
    /\ Rest(method[t], todo[t])
    /\ thrown[t] = "none"
    /\ Done(method[t], Len(method[t]) - Len(todo[t]), input[t], ret[t], known[t], held[t],
            null[t], Result(t))

Raised(t) == thrown[t] # "none" /\ todo[t] = << >>

\* Thread t in its method, and between two methods.
Native(t) ==
    /\ Orderly(method[t]) /\ arg[t] \in [Args -> Objects]
    /\ \A i \in 1..Len(method[t]) : method[t][i].op = "pin" => arg[t] \in [Args -> Arrays]
    /\ Returned(todo[t])
    /\ OnPath(t) \/ Lost(t) \/ Raised(t) \/ Branch(todo[t])

Java(t) == input[t] = "unread" /\ null[t] = {} /\ thrown[t] \in {"none", "crash"}

\* On a JVM that copies, nobody works with an array that another thread writes.
Separate ==
    copying => \A t, u \in Threads :
       t # u /\ ~InJava(t) /\ ~InJava(u) /\ Writes(method[t]) =>
          arg[t]["out"] \notin {arg[u]["in"], arg[u]["out"]}

Outcomes == {"old", "new", "partial"}

ResultTypes ==
    /\ data \in [Objects -> [Threads -> Outcomes]]
    /\ copy \in [Threads -> [Args -> [Threads -> Outcomes]]]
    /\ input \in [Threads -> {"unread", "good", "badHeader", "badBody"}]
    /\ ret \in [Threads -> BOOLEAN] /\ known \in [Threads -> BOOLEAN]
    /\ thrown \in [Threads -> Operands \cup {"none", "crash"}]

DInv == /\ ResultTypes /\ Separate
        /\ \A t \in Threads : IF InJava(t) THEN Java(t) ELSE Native(t)

-----------------------------------------------------------------------------
(* The texts of the methods have that order.                               *)

\* rawCompress, arrayCopy, shuffle and unshuffle on arrays.
LEMMA OrderConvert ==
  ASSUME NEW w \in {"snappy", "bitshuffle"}, NEW f \in {"convert", "shuffle"},
         NEW s, s = <<Pin("in"), Pin("out"), Need("OUT_OF_MEMORY", w),
                      Run(f), Release("in"), Release("out")>>
  PROVE  Orderly(s)
<1>1. /\ Len(s) = 6 /\ s[1] = Pin("in") /\ s[2] = Pin("out")
      /\ s[3] = Need("OUT_OF_MEMORY", w) /\ s[4] = Run(f)
      /\ s[5] = Release("in") /\ s[6] = Release("out")
  OBVIOUS
<1>2. \A n \in 0..5 : n = 0 \/ n = 1 \/ n = 2 \/ n = 3 \/ n = 4 \/ n = 5
  OBVIOUS
<1>3. /\ s[1].op = "pin" /\ s[1].arg = "in"
      /\ s[2].op = "pin" /\ s[2].arg = "out"
      /\ s[3].op = "need" /\ s[3].by \in {"snappy", "bitshuffle"}
      /\ s[4].op = "run" /\ s[4].arg \in {"convert", "shuffle"} /\ s[4].by = "library"
      /\ s[5].op = "release" /\ s[5].arg = "in"
      /\ s[6].op = "release" /\ s[6].arg = "out"
  BY <1>1 DEF Pin, Need, Run, Release, Stmt
<1>4. ASSUME NEW n \in 0..5 PROVE Follows(s, n, s[n + 1])
  BY <1>2, <1>3 DEF Follows, Past, Args, Writing
<1>5. Past(s, 6, "run") \cap {"length", "uncompress"} = {}
  BY <1>3 DEF Past
<1> QED
  BY <1>1, <1>4, <1>5 DEF Orderly

\* rawUncompress on arrays.
LEMMA OrderUncompress ==
  ASSUME NEW s, s = <<Pin("in"), Pin("out"), Need("OUT_OF_MEMORY", "snappy"),
                      Run("length"), Run("uncompress"), Release("in"),
                      Release("out"), Check("FAILED_TO_UNCOMPRESS")>>
  PROVE  Orderly(s)
<1>1. /\ Len(s) = 8 /\ s[1] = Pin("in") /\ s[2] = Pin("out")
      /\ s[3] = Need("OUT_OF_MEMORY", "snappy") /\ s[4] = Run("length")
      /\ s[5] = Run("uncompress") /\ s[6] = Release("in") /\ s[7] = Release("out")
      /\ s[8] = Check("FAILED_TO_UNCOMPRESS")
  OBVIOUS
<1>2. \A n \in 0..7 : n = 0 \/ n = 1 \/ n = 2 \/ n = 3 \/ n = 4 \/ n = 5 \/ n = 6 \/ n = 7
  OBVIOUS
<1>3. /\ s[1].op = "pin" /\ s[1].arg = "in"
      /\ s[2].op = "pin" /\ s[2].arg = "out"
      /\ s[3].op = "need" /\ s[3].by = "snappy"
      /\ s[4].op = "run" /\ s[4].arg = "length" /\ s[4].by = "library"
      /\ s[5].op = "run" /\ s[5].arg = "uncompress" /\ s[5].by = "library"
      /\ s[6].op = "release" /\ s[6].arg = "in"
      /\ s[7].op = "release" /\ s[7].arg = "out"
      /\ s[8].op = "check" /\ s[8].by = "snappy"
  BY <1>1 DEF Pin, Need, Run, Release, Check, Stmt
<1>4. ASSUME NEW n \in 0..7 PROVE Follows(s, n, s[n + 1])
  BY <1>2, <1>3 DEF Follows, Past, Args, Writing
<1>5. Past(s, 8, "check") # {}
  BY <1>3 DEF Past
<1> QED
  BY <1>1, <1>4, <1>5 DEF Orderly

\* uncompressedLength on arrays.
LEMMA OrderLength ==
  ASSUME NEW s, s = <<Pin("in"), Need("OUT_OF_MEMORY", "snappy"), Run("length"),
                      Release("in"), Check("PARSING_ERROR")>>
  PROVE  Orderly(s)
<1>1. /\ Len(s) = 5 /\ s[1] = Pin("in") /\ s[2] = Need("OUT_OF_MEMORY", "snappy")
      /\ s[3] = Run("length") /\ s[4] = Release("in") /\ s[5] = Check("PARSING_ERROR")
  OBVIOUS
<1>2. \A n \in 0..4 : n = 0 \/ n = 1 \/ n = 2 \/ n = 3 \/ n = 4
  OBVIOUS
<1>3. /\ s[1].op = "pin" /\ s[1].arg = "in"
      /\ s[2].op = "need" /\ s[2].by = "snappy"
      /\ s[3].op = "run" /\ s[3].arg = "length" /\ s[3].by = "library"
      /\ s[4].op = "release" /\ s[4].arg = "in"
      /\ s[5].op = "check" /\ s[5].by = "snappy"
  BY <1>1 DEF Pin, Need, Run, Release, Check, Stmt
<1>4. ASSUME NEW n \in 0..4 PROVE Follows(s, n, s[n + 1])
  BY <1>2, <1>3 DEF Follows, Past, Args, Writing
<1>5. Past(s, 5, "check") # {}
  BY <1>3 DEF Past
<1> QED
  BY <1>1, <1>4, <1>5 DEF Orderly

\* isValidCompressedBuffer on arrays.
LEMMA OrderValidate ==
  ASSUME NEW s, s = <<Pin("in"), Need("OUT_OF_MEMORY", "snappy"),
                      Run("validate"), Release("in")>>
  PROVE  Orderly(s)
<1>1. /\ Len(s) = 4 /\ s[1] = Pin("in") /\ s[2] = Need("OUT_OF_MEMORY", "snappy")
      /\ s[3] = Run("validate") /\ s[4] = Release("in")
  OBVIOUS
<1>2. \A n \in 0..3 : n = 0 \/ n = 1 \/ n = 2 \/ n = 3
  OBVIOUS
<1>3. /\ s[1].op = "pin" /\ s[1].arg = "in"
      /\ s[2].op = "need" /\ s[2].by = "snappy"
      /\ s[3].op = "run" /\ s[3].arg = "validate" /\ s[3].by = "library"
      /\ s[4].op = "release" /\ s[4].arg = "in"
  BY <1>1 DEF Pin, Need, Run, Release, Stmt
<1>4. ASSUME NEW n \in 0..3 PROVE Follows(s, n, s[n + 1])
  BY <1>2, <1>3 DEF Follows, Past, Args, Writing
<1>5. Past(s, 4, "run") \cap {"length", "uncompress"} = {}
  BY <1>3 DEF Past
<1> QED
  BY <1>1, <1>4, <1>5 DEF Orderly

\* rawCompress, shuffle and unshuffle on buffers.
LEMMA OrderConvertBuffer ==
  ASSUME NEW w \in {"snappy", "bitshuffle"}, NEW f \in {"convert", "shuffle"},
         NEW s, s = <<Locate("in"), Locate("out"),
                      Need("NOT_A_DIRECT_BUFFER", w), Run(f)>>
  PROVE  Orderly(s)
<1>1. /\ Len(s) = 4 /\ s[1] = Locate("in") /\ s[2] = Locate("out")
      /\ s[3] = Need("NOT_A_DIRECT_BUFFER", w) /\ s[4] = Run(f)
  OBVIOUS
<1>2. \A n \in 0..3 : n = 0 \/ n = 1 \/ n = 2 \/ n = 3
  OBVIOUS
<1>3. /\ s[1].op = "locate" /\ s[1].arg = "in"
      /\ s[2].op = "locate" /\ s[2].arg = "out"
      /\ s[3].op = "need" /\ s[3].by \in {"snappy", "bitshuffle"}
      /\ s[4].op = "run" /\ s[4].arg \in {"convert", "shuffle"} /\ s[4].by = "library"
  BY <1>1 DEF Locate, Need, Run, Stmt
<1>4. ASSUME NEW n \in 0..3 PROVE Follows(s, n, s[n + 1])
  BY <1>2, <1>3 DEF Follows, Past, Args, Writing
<1>5. Past(s, 4, "run") \cap {"length", "uncompress"} = {}
  BY <1>3 DEF Past
<1> QED
  BY <1>1, <1>4, <1>5 DEF Orderly

\* rawUncompress on buffers.
LEMMA OrderUncompressBuffer ==
  ASSUME NEW s, s = <<Locate("in"), Locate("out"),
                      Need("NOT_A_DIRECT_BUFFER", "snappy"), Run("length"),
                      Run("uncompress"), Check("FAILED_TO_UNCOMPRESS")>>
  PROVE  Orderly(s)
<1>1. /\ Len(s) = 6 /\ s[1] = Locate("in") /\ s[2] = Locate("out")
      /\ s[3] = Need("NOT_A_DIRECT_BUFFER", "snappy") /\ s[4] = Run("length")
      /\ s[5] = Run("uncompress") /\ s[6] = Check("FAILED_TO_UNCOMPRESS")
  OBVIOUS
<1>2. \A n \in 0..5 : n = 0 \/ n = 1 \/ n = 2 \/ n = 3 \/ n = 4 \/ n = 5
  OBVIOUS
<1>3. /\ s[1].op = "locate" /\ s[1].arg = "in"
      /\ s[2].op = "locate" /\ s[2].arg = "out"
      /\ s[3].op = "need" /\ s[3].by = "snappy"
      /\ s[4].op = "run" /\ s[4].arg = "length" /\ s[4].by = "library"
      /\ s[5].op = "run" /\ s[5].arg = "uncompress" /\ s[5].by = "library"
      /\ s[6].op = "check" /\ s[6].by = "snappy"
  BY <1>1 DEF Locate, Need, Run, Check, Stmt
<1>4. ASSUME NEW n \in 0..5 PROVE Follows(s, n, s[n + 1])
  BY <1>2, <1>3 DEF Follows, Past, Args, Writing
<1>5. Past(s, 6, "check") # {}
  BY <1>3 DEF Past
<1> QED
  BY <1>1, <1>4, <1>5 DEF Orderly

\* uncompressedLength on buffers.
LEMMA OrderLengthBuffer ==
  ASSUME NEW s, s = <<Locate("in"), Need("NOT_A_DIRECT_BUFFER", "snappy"),
                      Run("length"), Check("PARSING_ERROR")>>
  PROVE  Orderly(s)
<1>1. /\ Len(s) = 4 /\ s[1] = Locate("in")
      /\ s[2] = Need("NOT_A_DIRECT_BUFFER", "snappy") /\ s[3] = Run("length")
      /\ s[4] = Check("PARSING_ERROR")
  OBVIOUS
<1>2. \A n \in 0..3 : n = 0 \/ n = 1 \/ n = 2 \/ n = 3
  OBVIOUS
<1>3. /\ s[1].op = "locate" /\ s[1].arg = "in"
      /\ s[2].op = "need" /\ s[2].by = "snappy"
      /\ s[3].op = "run" /\ s[3].arg = "length" /\ s[3].by = "library"
      /\ s[4].op = "check" /\ s[4].by = "snappy"
  BY <1>1 DEF Locate, Need, Run, Check, Stmt
<1>4. ASSUME NEW n \in 0..3 PROVE Follows(s, n, s[n + 1])
  BY <1>2, <1>3 DEF Follows, Past, Args, Writing
<1>5. Past(s, 4, "check") # {}
  BY <1>3 DEF Past
<1> QED
  BY <1>1, <1>4, <1>5 DEF Orderly

\* isValidCompressedBuffer on buffers and addresses.
LEMMA OrderValidateBuffer ==
  ASSUME NEW e,
         NEW s, s = <<Locate("in"), Need(e, "snappy"), Run("validate")>>
  PROVE  Orderly(s)
<1>1. /\ Len(s) = 3 /\ s[1] = Locate("in") /\ s[2] = Need(e, "snappy")
      /\ s[3] = Run("validate")
  OBVIOUS
<1>2. \A n \in 0..2 : n = 0 \/ n = 1 \/ n = 2
  OBVIOUS
<1>3. /\ s[1].op = "locate" /\ s[1].arg = "in"
      /\ s[2].op = "need" /\ s[2].by = "snappy"
      /\ s[3].op = "run" /\ s[3].arg = "validate" /\ s[3].by = "library"
  BY <1>1 DEF Locate, Need, Run, Stmt
<1>4. ASSUME NEW n \in 0..2 PROVE Follows(s, n, s[n + 1])
  BY <1>2, <1>3 DEF Follows, Past, Args, Writing
<1>5. Past(s, 3, "run") \cap {"length", "uncompress"} = {}
  BY <1>3 DEF Past
<1> QED
  BY <1>1, <1>4, <1>5 DEF Orderly

\* rawCompress on addresses.
LEMMA OrderConvertAddress ==
  ASSUME NEW s, s = <<Run("convert")>>
  PROVE  Orderly(s)
<1>1. /\ Len(s) = 1 /\ s[1] = Run("convert")
  OBVIOUS
<1>2. \A n \in 0..0 : n = 0
  OBVIOUS
<1>3. s[1].op = "run" /\ s[1].arg = "convert" /\ s[1].by = "library"
  BY <1>1 DEF Run, Stmt
<1>4. ASSUME NEW n \in 0..0 PROVE Follows(s, n, s[n + 1])
  BY <1>2, <1>3 DEF Follows, Past, Args, Writing
<1>5. Past(s, 1, "run") \cap {"length", "uncompress"} = {}
  BY <1>3 DEF Past
<1> QED
  BY <1>1, <1>4, <1>5 DEF Orderly

\* rawUncompress on addresses.
LEMMA OrderUncompressAddress ==
  ASSUME NEW s, s = <<Run("length"), Run("uncompress"),
                      Check("FAILED_TO_UNCOMPRESS")>>
  PROVE  Orderly(s)
<1>1. /\ Len(s) = 3 /\ s[1] = Run("length") /\ s[2] = Run("uncompress")
      /\ s[3] = Check("FAILED_TO_UNCOMPRESS")
  OBVIOUS
<1>2. \A n \in 0..2 : n = 0 \/ n = 1 \/ n = 2
  OBVIOUS
<1>3. /\ s[1].op = "run" /\ s[1].arg = "length" /\ s[1].by = "library"
      /\ s[2].op = "run" /\ s[2].arg = "uncompress" /\ s[2].by = "library"
      /\ s[3].op = "check" /\ s[3].by = "snappy"
  BY <1>1 DEF Run, Check, Stmt
<1>4. ASSUME NEW n \in 0..2 PROVE Follows(s, n, s[n + 1])
  BY <1>2, <1>3 DEF Follows, Past, Args, Writing
<1>5. Past(s, 3, "check") # {}
  BY <1>3 DEF Past
<1> QED
  BY <1>1, <1>4, <1>5 DEF Orderly

\* uncompressedLength on addresses.
LEMMA OrderLengthAddress ==
  ASSUME NEW s, s = <<Run("length"), Check("PARSING_ERROR")>>
  PROVE  Orderly(s)
<1>1. /\ Len(s) = 2 /\ s[1] = Run("length") /\ s[2] = Check("PARSING_ERROR")
  OBVIOUS
<1>2. \A n \in 0..1 : n = 0 \/ n = 1
  OBVIOUS
<1>3. /\ s[1].op = "run" /\ s[1].arg = "length" /\ s[1].by = "library"
      /\ s[2].op = "check" /\ s[2].by = "snappy"
  BY <1>1 DEF Run, Check, Stmt
<1>4. ASSUME NEW n \in 0..1 PROVE Follows(s, n, s[n + 1])
  BY <1>2, <1>3 DEF Follows, Past, Args, Writing
<1>5. Past(s, 2, "check") # {}
  BY <1>3 DEF Past
<1> QED
  BY <1>1, <1>4, <1>5 DEF Orderly

\* Every native method.
LEMMA Ordered ==
  ASSUME NEW m \in ArrayMethods \cup BufferMethods
  PROVE  Orderly(m)
<1>1. Orderly(rawCompress_Object)
  BY OrderConvert DEF rawCompress_Object
<1>2. Orderly(rawUncompress_Object)
  BY OrderUncompress DEF rawUncompress_Object
<1>3. Orderly(uncompressedLength_Object)
  BY OrderLength DEF uncompressedLength_Object
<1>4. Orderly(isValidCompressedBuffer_Object)
  BY OrderValidate DEF isValidCompressedBuffer_Object
<1>5. Orderly(arrayCopy)
  BY OrderConvert DEF arrayCopy
<1>6. Orderly(shuffle)
  BY OrderConvert DEF shuffle
<1>7. Orderly(unshuffle)
  BY OrderConvert DEF unshuffle
<1>8. Orderly(rawCompress_ByteBuffer)
  BY OrderConvertBuffer DEF rawCompress_ByteBuffer
<1>9. Orderly(rawUncompress_ByteBuffer)
  BY OrderUncompressBuffer DEF rawUncompress_ByteBuffer
<1>10. Orderly(uncompressedLength_ByteBuffer)
  BY OrderLengthBuffer DEF uncompressedLength_ByteBuffer
<1>11. Orderly(isValidCompressedBuffer_ByteBuffer)
  BY OrderValidateBuffer DEF isValidCompressedBuffer_ByteBuffer
<1>12. Orderly(shuffleDirectBuffer)
  BY OrderConvertBuffer DEF shuffleDirectBuffer
<1>13. Orderly(unshuffleDirectBuffer)
  BY OrderConvertBuffer DEF unshuffleDirectBuffer
<1>14. Orderly(rawCompress_JJJ)
  BY OrderConvertAddress DEF rawCompress_JJJ
<1>15. Orderly(rawUncompress_JJJ)
  BY OrderUncompressAddress DEF rawUncompress_JJJ
<1>16. Orderly(uncompressedLength_JJ)
  BY OrderLengthAddress DEF uncompressedLength_JJ
<1>17. Orderly(isValidCompressedBuffer_JJJ)
  BY OrderValidateBuffer DEF isValidCompressedBuffer_JJJ
<1> QED
  BY <1>1, <1>2, <1>3, <1>4, <1>5, <1>6, <1>7, <1>8, <1>9, <1>10, <1>11, <1>12, <1>13,
     <1>14, <1>15, <1>16, <1>17 DEF ArrayMethods, BufferMethods

-----------------------------------------------------------------------------
(* One statement more.                                                     *)

\* At first nothing was done.
LEMMA PastNone ==
  ASSUME NEW m, NEW op
  PROVE  Past(m, 0, op) = {}
BY DEF Past

\* The next statement is added to what was done.
LEMMA PastStep ==
  ASSUME NEW m, NEW n \in Nat, NEW op
  PROVE  Past(m, n + 1, op) = IF m[n + 1].op = op THEN Past(m, n, op) \cup {m[n + 1].arg}
                              ELSE Past(m, n, op)
<1>1. 1..(n + 1) = (1..n) \cup {n + 1}
  OBVIOUS
<1>2. {j \in 1..(n + 1) : m[j].op = op} =
        {j \in 1..n : m[j].op = op} \cup (IF m[n + 1].op = op THEN {n + 1} ELSE {})
  BY <1>1
<1> QED
  BY <1>2 DEF Past

\* The first statement of what is left is the next one of the method.
LEMMA RestStep ==
  ASSUME NEW m \in Seq(Statements), NEW s \in Seq(Statements), Rest(m, s), s # << >>,
         NEW n, n = Len(m) - Len(s)
  PROVE  /\ n \in Nat /\ n \in 0..(Len(m) - 1) /\ Head(s) = m[n + 1] /\ n + 1 \in 1..Len(m)
         /\ Rest(m, Tail(s)) /\ Len(m) - Len(Tail(s)) = n + 1
<1>1. /\ Len(m) \in Nat /\ Len(s) \in Nat /\ Len(s) >= 1 /\ Len(s) <= Len(m) /\ Head(s) = s[1]
      /\ Len(Tail(s)) = Len(s) - 1
      /\ \A i \in 1..Len(Tail(s)) : Tail(s)[i] = s[i + 1]
  BY TailLemma DEF Rest
<1>2. n \in Nat /\ n \in 0..(Len(m) - 1) /\ n + 1 \in 1..Len(m) /\ Len(m) - Len(Tail(s)) = n + 1
  BY <1>1
<1>3. \A i \in 1..Len(s) : s[i] = m[n + i]
  BY DEF Rest
<1>4. Head(s) = m[n + 1]
  BY <1>1, <1>3
<1>5. ASSUME NEW i \in 1..Len(Tail(s)) PROVE Tail(s)[i] = m[(n + 1) + i]
  <2>1. i + 1 \in 1..Len(s) /\ n + (i + 1) = (n + 1) + i
    BY <1>1, <1>2
  <2> QED
    BY <1>1, <1>3, <2>1
<1>6. Rest(m, Tail(s))
  BY <1>1, <1>2, <1>5 DEF Rest
<1> QED
  BY <1>2, <1>4, <1>6

\* At the beginning everything is left.
LEMMA RestAll ==
  ASSUME NEW m \in Seq(Statements)
  PROVE  Rest(m, m) /\ Len(m) - Len(m) = 0
<1>1. Len(m) \in Nat /\ Len(m) - Len(m) = 0
  OBVIOUS
<1> QED
  BY <1>1 DEF Rest

\* A method in which convert or uncompress was run writes.
LEMMA WritingWrites ==
  ASSUME NEW m \in Seq(Statements), Orderly(m), NEW n, n \in 0..Len(m),
         Past(m, n, "run") \cap Writing # {}
  PROVE  Writes(m)
<1>1. PICK i \in 1..n : m[i].op = "run" /\ m[i].arg \in Writing
  BY DEF Past
<1>2. i \in 1..Len(m) /\ i - 1 \in 0..(Len(m) - 1) /\ (i - 1) + 1 = i
  BY <1>1
<1>3. m[i].by = "library"
  BY <1>1, <1>2 DEF Orderly, Follows
<1>4. m[i] \in Statements
  BY <1>2
<1>5. m[i] = [op |-> "run", arg |-> m[i].arg, by |-> "library"]
  BY <1>1, <1>3, <1>4 DEF Statements
<1> QED
  BY <1>1, <1>2, <1>5 DEF Writes, Writing, Run, Stmt

\* GetPrimitiveArrayCritical.
LEMMA PinDone ==
  ASSUME NEW m, NEW n \in Nat, NEW q, NEW r, NEW k, NEW h, NEW z, NEW v,
         Done(m, n, q, r, k, h, z, v), Follows(m, n, m[n + 1]), m[n + 1].op = "pin",
         NEW g, NEW y, NEW w, h \subseteq g, z \subseteq y, m[n + 1].arg \in g \cup y
  PROVE  Done(m, n + 1, q, r, k, g, y, w)
<1>1. \A op : Past(m, n + 1, op) = IF m[n + 1].op = op THEN Past(m, n, op) \cup {m[n + 1].arg}
                                     ELSE Past(m, n, op)
  BY PastStep, Zenon
<1>2. /\ Past(m, n + 1, "run") = {} /\ Past(m, n + 1, "need") = {}
      /\ Past(m, n + 1, "check") = Past(m, n, "check")
      /\ Past(m, n + 1, "release") = Past(m, n, "release")
      /\ Past(m, n + 1, "pin") = Past(m, n, "pin") \cup {m[n + 1].arg}
  BY <1>1 DEF Follows
<1> QED
  BY <1>2 DEF Done

\* GetDirectBufferAddress.
LEMMA LocateDone ==
  ASSUME NEW m, NEW n \in Nat, NEW q, NEW r, NEW k, NEW h, NEW z, NEW v,
         Done(m, n, q, r, k, h, z, v), Follows(m, n, m[n + 1]), m[n + 1].op = "locate", NEW y
  PROVE  Done(m, n + 1, q, r, k, h, y, v)
<1>1. \A op : Past(m, n + 1, op) = IF m[n + 1].op = op THEN Past(m, n, op) \cup {m[n + 1].arg}
                                     ELSE Past(m, n, op)
  BY PastStep, Zenon
<1>2. /\ Past(m, n + 1, "run") = Past(m, n, "run") /\ Past(m, n + 1, "need") = {}
      /\ Past(m, n + 1, "check") = Past(m, n, "check") /\ Past(m, n + 1, "pin") = {}
  BY <1>1 DEF Follows
<1> QED
  BY <1>2 DEF Done

\* The test of the pointers, when it succeeds.
LEMMA NeedDone ==
  ASSUME NEW m, NEW n \in Nat, NEW q, NEW r, NEW k, NEW h, NEW v,
         Done(m, n, q, r, k, h, {}, v), m[n + 1].op = "need"
  PROVE  Done(m, n + 1, q, r, k, h, {}, v)
<1>1. \A op : Past(m, n + 1, op) = IF m[n + 1].op = op THEN Past(m, n, op) \cup {m[n + 1].arg}
                                     ELSE Past(m, n, op)
  BY PastStep, Zenon
<1>2. /\ Past(m, n + 1, "run") = Past(m, n, "run")
      /\ Past(m, n + 1, "check") = Past(m, n, "check")
      /\ Past(m, n + 1, "pin") = Past(m, n, "pin")
      /\ Past(m, n + 1, "release") = Past(m, n, "release")
  BY <1>1
<1> QED
  BY <1>2 DEF Done

\* The test of the result, when it succeeds.
LEMMA CheckDone ==
  ASSUME NEW m, NEW n \in Nat, NEW q, NEW r, NEW k, NEW h, NEW z, NEW v,
         Done(m, n, q, r, k, h, z, v), m[n + 1].op = "check", r
  PROVE  Done(m, n + 1, q, r, k, h, z, v)
<1>1. \A op : Past(m, n + 1, op) = IF m[n + 1].op = op THEN Past(m, n, op) \cup {m[n + 1].arg}
                                     ELSE Past(m, n, op)
  BY PastStep, Zenon
<1>2. /\ Past(m, n + 1, "run") = Past(m, n, "run")
      /\ Past(m, n + 1, "need") = Past(m, n, "need")
      /\ Past(m, n + 1, "pin") = Past(m, n, "pin")
      /\ Past(m, n + 1, "release") = Past(m, n, "release")
  BY <1>1
<1> QED
  BY <1>2 DEF Done

\* ReleasePrimitiveArrayCritical: the pointers were tested, so that the array was held.
LEMMA ReleaseDone ==
  ASSUME NEW m, NEW n \in Nat, NEW q, NEW r, NEW k, NEW h, NEW z, NEW v,
         Done(m, n, q, r, k, h, z, v), Follows(m, n, m[n + 1]), m[n + 1].op = "release",
         NEW w, Past(m, n, "run") \cap Writing # {} => w = v
  PROVE  /\ Done(m, n + 1, q, r, k, h \ {m[n + 1].arg}, z, w)
         /\ m[n + 1].arg \in h
         /\ Past(m, n, "run") \cap Writing # {} => "out" \in h
<1>1. \A op : Past(m, n + 1, op) = IF m[n + 1].op = op THEN Past(m, n, op) \cup {m[n + 1].arg}
                                     ELSE Past(m, n, op)
  BY PastStep, Zenon
<1>2. /\ Past(m, n + 1, "run") = Past(m, n, "run")
      /\ Past(m, n + 1, "need") = Past(m, n, "need")
      /\ Past(m, n + 1, "check") = Past(m, n, "check")
      /\ Past(m, n + 1, "pin") = Past(m, n, "pin")
      /\ Past(m, n + 1, "release") = Past(m, n, "release") \cup {m[n + 1].arg}
  BY <1>1
<1>3. z = {} /\ Past(m, n, "pin") \ Past(m, n, "release") \subseteq h
  BY DEF Done, Follows
<1>4. m[n + 1].arg \in h /\ (Past(m, n, "run") \cap Writing # {} => "out" \in h)
  BY <1>3 DEF Follows
<1> QED
  BY <1>2, <1>3, <1>4 DEF Done

\* The library, of which the method remembers what it said of its input.
LEMMA RunDone ==
  ASSUME NEW m, NEW n \in Nat, NEW q, NEW r, NEW k, NEW h, NEW z, NEW v,
         Done(m, n, q, r, k, h, z, v), Follows(m, n, m[n + 1]), m[n + 1].op = "run",
         NEW f, f = m[n + 1].arg,
         NEW p \in {"good", "badHeader", "badBody"}, f \in {"convert", "shuffle"} => p = "good",
         NEW a, a \in Verdicts(f, p),
         q \in {"unread", p},
         NEW b, b = (k \/ (f = "length" /\ a)),
         NEW w, f \in Writing /\ a => w = "new", f \notin Writing => w = v
  PROVE  Done(m, n + 1, p, a, b, h, z, w)
<1>1. \A op : Past(m, n + 1, op) = IF m[n + 1].op = op THEN Past(m, n, op) \cup {m[n + 1].arg}
                                     ELSE Past(m, n, op)
  BY PastStep, Zenon
<1>2. /\ Past(m, n + 1, "run") = Past(m, n, "run") \cup {f}
      /\ Past(m, n + 1, "need") = Past(m, n, "need")
      /\ Past(m, n + 1, "check") = {} /\ Past(m, n, "check") = {}
      /\ Past(m, n + 1, "pin") = Past(m, n, "pin")
      /\ Past(m, n + 1, "release") = Past(m, n, "release")
  BY <1>1 DEF Follows
<1>3. CASE Past(m, n, "run") = {} /\ f = "length"
  BY <1>2, <1>3 DEF Done, Verdicts, Writing
<1>4. CASE Past(m, n, "run") = {} /\ f = "validate"
  BY <1>2, <1>4 DEF Done, Verdicts, Writing
<1>5. CASE Past(m, n, "run") = {} /\ f \in Writing
  BY <1>2, <1>5 DEF Done, Verdicts, Writing
<1>6. CASE Past(m, n, "run") = {"length"} /\ f = "uncompress"
  <2>1. q = p /\ (p # "badHeader" => k)
    BY <1>6 DEF Done
  <2> QED
    BY <1>2, <1>6, <2>1 DEF Done, Verdicts, Writing
<1> QED
  BY <1>3, <1>4, <1>5, <1>6 DEF Follows

-----------------------------------------------------------------------------
(* The invariant DInv, thread by thread.                                   *)

\* Thread t's step leaves the other threads and their output alone.
Unmoved(t) ==
    /\ copying' = copying
    /\ \A u \in Threads \ {t} :
         /\ method'[u] = method[u] /\ todo'[u] = todo[u] /\ arg'[u] = arg[u]
         /\ held'[u] = held[u] /\ null'[u] = null[u] /\ copy'[u] = copy[u]
         /\ input'[u] = input[u] /\ ret'[u] = ret[u] /\ known'[u] = known[u]
         /\ thrown'[u] = thrown[u]
         /\ ~InJava(u) /\ Writes(method[u]) =>
              data'[arg[u]["out"]][u] = data[arg[u]["out"]][u]

Stands(t) == IF InJava(t) THEN Java(t) ELSE Native(t)

\* A thread whose output nobody wrote is where it was.
LEMMA OtherStands ==
  ASSUME NInv, DInv, NEW t \in Threads, Unmoved(t), NEW u \in Threads, u # t
  PROVE  Stands(u)'
<1>1. /\ method'[u] = method[u] /\ todo'[u] = todo[u] /\ arg'[u] = arg[u]
      /\ held'[u] = held[u] /\ null'[u] = null[u] /\ copy'[u] = copy[u]
      /\ input'[u] = input[u] /\ ret'[u] = ret[u] /\ known'[u] = known[u]
      /\ thrown'[u] = thrown[u] /\ copying' = copying
  BY DEF Unmoved
<1>2. CASE InJava(u)
  BY <1>1, <1>2 DEF DInv, Stands, Java, InJava
<1>3. CASE ~InJava(u) /\ ~OnPath(u)
  BY <1>1, <1>3 DEF DInv, Stands, Native, InJava, Lost, Raised
<1>4. CASE ~InJava(u) /\ OnPath(u)
  <2>1. Native(u) /\ method[u] \in Seq(Statements)
    BY <1>4 DEF DInv, NInv, TypeInv
  <2>2. PICK n : n = Len(method[u]) - Len(todo[u])
    OBVIOUS
  <2>3. n \in 0..Len(method[u])
    <3>1. todo[u] \in Seq(Statements) /\ Len(todo[u]) <= Len(method[u])
      BY <1>4 DEF OnPath, Rest, NInv, TypeInv
    <3>2. PICK a \in Nat : a = Len(method[u])
      BY <2>1
    <3>3. PICK b \in Nat : b = Len(todo[u])
      BY <3>1
    <3>4. b <= a => a - b \in 0..a
      OBVIOUS
    <3> QED
      BY <2>2, <3>1, <3>2, <3>3, <3>4
  <2>4. Done(method[u], n, input[u], ret[u], known[u], held[u], null[u], Result(u))
    BY <1>4, <2>2 DEF OnPath
  <2>5. Past(method[u], n, "run") \cap Writing # {} => Result(u)' = Result(u)
    <3>1. SUFFICES ASSUME Past(method[u], n, "run") \cap Writing # {}
                   PROVE  Result(u)' = Result(u)
      OBVIOUS
    <3>2. Writes(method[u])
      BY <2>1, <2>3, <3>1, WritingWrites DEF Native
    <3>3. data'[arg[u]["out"]][u] = data[arg[u]["out"]][u]
      BY <1>4, <3>2 DEF Unmoved
    <3> QED
      BY <1>1, <3>3 DEF Result
  <2>6. Done(method[u], n, input[u], ret[u], known[u], held[u], null[u], Result(u)')
    BY <2>4, <2>5 DEF Done
  <2>7. OnPath(u)'
    BY <1>1, <1>4, <2>2, <2>6 DEF OnPath
  <2> QED
    BY <1>1, <1>4, <2>1, <2>7 DEF Stands, Native, InJava
<1> QED
  BY <1>2, <1>3, <1>4

\* It is enough to look at the thread that moves.
LEMMA OneStands ==
  ASSUME NInv, DInv, NEW t \in Threads, Unmoved(t), ResultTypes', Separate', Stands(t)'
  PROVE  DInv'
<1>1. \A u \in Threads : Stands(u)'
  BY OtherStands
<1> QED
  BY <1>1 DEF DInv, Stands

\* The methods and arguments are the same.
LEMMA SeparateStays ==
  ASSUME DInv, copying' = copying, method' = method, arg' = arg
  PROVE  Separate'
BY DEF DInv, Separate, InJava

\* Only the empty text has no statements.
LEMMA EmptyText ==
  ASSUME NEW r \in Seq(Statements)
  PROVE  Len(r) = 0 <=> r = << >>
OBVIOUS

\* An error branch does its releases and then raises its exception.
LEMMA BranchStep ==
  ASSUME NEW s \in Seq(Statements), Branch(s)
  PROVE  /\ Head(s).op \in {"release", "throw"}
         /\ Head(s).op = "release" => Branch(Tail(s))
         /\ Head(s).op = "throw" => Tail(s) = << >> /\ Head(s).by = "snappy"
<1>1. /\ Len(s) \in Nat /\ Len(s) >= 1 /\ Head(s) = s[1] /\ Tail(s) \in Seq(Statements)
      /\ Len(Tail(s)) = Len(s) - 1
      /\ \A i \in 1..Len(Tail(s)) : Tail(s)[i] = s[i + 1]
  BY TailLemma DEF Branch
<1>2. \A i \in 1..Len(s) : IF i < Len(s) THEN s[i].op = "release"
                           ELSE s[i].op = "throw" /\ s[i].by = "snappy"
  BY DEF Branch
<1> DEFINE r == Tail(s)
<1>3. r \in Seq(Statements) /\ Len(r) = Len(s) - 1
  BY <1>1
<1> HIDE DEF r
<1>4. Len(r) = 0 <=> r = << >>
  BY <1>3, EmptyText
<1>5. CASE Len(s) = 1
  <2>1. Head(s).op = "throw" /\ Head(s).by = "snappy"
    BY <1>1, <1>2, <1>5
  <2>2. r = << >>
    BY <1>3, <1>4, <1>5
  <2> QED
    BY <2>1, <2>2 DEF r
<1>6. CASE Len(s) > 1
  <2>1. Head(s).op = "release"
    BY <1>1, <1>2, <1>6
  <2>2. r # << >>
    BY <1>3, <1>4, <1>1, <1>6
  <2>3. ASSUME NEW i \in 1..Len(Tail(s))
        PROVE  IF i < Len(Tail(s)) THEN Tail(s)[i].op = "release"
               ELSE Tail(s)[i].op = "throw" /\ Tail(s)[i].by = "snappy"
    <3>1. i + 1 \in 1..Len(s) /\ (i + 1 < Len(s) <=> i < Len(Tail(s)))
      BY <1>1
    <3> QED
      BY <1>1, <1>2, <3>1
  <2> QED
    BY <2>1, <2>2, <2>3 DEF Branch, r
<1> QED
  BY <1>1, <1>5, <1>6

\* The text that TestPointers leaves is one.
LEMMA BailOutBranch ==
  ASSUME NEW t, held[t] \subseteq Args, NEW e \in Operands
  PROVE  Branch(GiveBack(t) \o <<Throw(e, "snappy")>>)
<1>1. PICK g : g = GiveBack(t)
  OBVIOUS
<1>2. PICK last : last = <<Throw(e, "snappy")>>
  OBVIOUS
<1>3. PICK s : s = g \o last
  OBVIOUS
<1>4. g \in Seq(Statements) /\ \A i \in 1..Len(g) : g[i].op = "release"
  BY <1>1, GiveBackReleases DEF Releases
<1>5. /\ last \in Seq(Statements) /\ Len(last) = 1
      /\ last[1].op = "throw" /\ last[1].by = "snappy"
  <2>1. Throw(e, "snappy") \in Statements
    BY StatementTypes DEF Owners
  <2>2. Throw(e, "snappy").op = "throw" /\ Throw(e, "snappy").by = "snappy"
    BY DEF Throw, Stmt
  <2> QED
    BY <1>2, <2>1, <2>2
<1>6. /\ s \in Seq(Statements) /\ Len(g) \in Nat /\ Len(s) = Len(g) + Len(last)
      /\ \A i \in 1..Len(g) : s[i] = g[i]
      /\ \A i \in 1..Len(last) : s[Len(g) + i] = last[i]
  BY <1>3, <1>4, <1>5, ConcatLemma
<1>7. Len(s) = Len(g) + 1 /\ s[Len(g) + 1] = last[1] /\ s # << >>
  BY <1>5, <1>6
<1>8. ASSUME NEW i \in 1..Len(s)
      PROVE  IF i < Len(s) THEN s[i].op = "release"
             ELSE s[i].op = "throw" /\ s[i].by = "snappy"
  <2>1. CASE i <= Len(g)
    BY <1>4, <1>6, <1>7, <2>1
  <2>2. CASE i = Len(g) + 1
    BY <1>5, <1>7, <2>2
  <2> QED
    BY <1>6, <1>7, <2>1, <2>2
<1>9. Branch(s)
  BY <1>7, <1>8 DEF Branch
<1> QED
  BY <1>1, <1>2, <1>3, <1>9, Zenon

\* The text that TestResult leaves is one.
LEMMA ThrowBranch ==
  ASSUME NEW e \in Operands
  PROVE  Branch(<<Throw(e, "snappy")>>)
<1>1. PICK s : s = <<Throw(e, "snappy")>>
  OBVIOUS
<1>2. Throw(e, "snappy").op = "throw" /\ Throw(e, "snappy").by = "snappy"
  BY DEF Throw, Stmt
<1>3. Len(s) = 1 /\ s # << >> /\ s[1].op = "throw" /\ s[1].by = "snappy"
  BY <1>1, <1>2
<1>4. Branch(s)
  BY <1>3 DEF Branch
<1> QED
  BY <1>1, <1>4, Zenon

\* A thread with something left to do, and where it is.
LEMMA InMethod ==
  ASSUME NInv, DInv, NEW t \in Threads, todo[t] # << >>
  PROVE  /\ ~InJava(t) /\ Native(t) /\ Now(t) = Head(todo[t]) /\ Now(t) \in Statements
         /\ method[t] \in Seq(Statements)
         /\ todo[t] \in Seq(Statements) /\ Tail(todo[t]) \in Seq(Statements)
         /\ OnPath(t) \/ Lost(t) \/ Branch(todo[t])
<1>1. ~InJava(t)
  BY DEF NInv, ThreadInv
<1>2. method[t] \in Seq(Statements) /\ todo[t] \in Seq(Statements)
  BY DEF NInv, TypeInv
<1>3. Head(todo[t]) \in Statements /\ Tail(todo[t]) \in Seq(Statements)
  BY <1>2, TailLemma
<1>4. Native(t)
  BY <1>1 DEF DInv
<1> QED
  BY <1>1, <1>2, <1>3, <1>4 DEF Native, Raised, Now

\* On the path, the next statement is the one of the method.
LEMMA NextStatement ==
  ASSUME NInv, DInv, NEW t \in Threads, todo[t] # << >>, OnPath(t)
  PROVE  \E n \in Nat :
            /\ n = Len(method[t]) - Len(todo[t]) /\ n + 1 \in 1..Len(method[t])
            /\ Now(t) = method[t][n + 1] /\ Follows(method[t], n, method[t][n + 1])
            /\ Rest(method[t], Tail(todo[t])) /\ Len(method[t]) - Len(Tail(todo[t])) = n + 1
            /\ Done(method[t], n, input[t], ret[t], known[t], held[t], null[t], Result(t))
<1>1. PICK n : n = Len(method[t]) - Len(todo[t])
  OBVIOUS
<1>2. /\ method[t] \in Seq(Statements) /\ todo[t] \in Seq(Statements)
      /\ Now(t) = Head(todo[t]) /\ Orderly(method[t])
  BY InMethod DEF Native
<1>3. Rest(method[t], todo[t])
  BY DEF OnPath
<1>4. /\ n \in Nat /\ n \in 0..(Len(method[t]) - 1) /\ Head(todo[t]) = method[t][n + 1]
      /\ n + 1 \in 1..Len(method[t])
      /\ Rest(method[t], Tail(todo[t])) /\ Len(method[t]) - Len(Tail(todo[t])) = n + 1
  BY <1>1, <1>2, <1>3, RestStep, ZenonT(30)
<1>5. Follows(method[t], n, method[t][n + 1])
  BY <1>2, <1>4 DEF Orderly
<1>6. Done(method[t], n, input[t], ret[t], known[t], held[t], null[t], Result(t))
  BY <1>1 DEF OnPath
<1> QED
  BY <1>1, <1>2, <1>4, <1>5, <1>6

\* The releases that are left are releases of arguments.
LEMMA ReturnedTail ==
  ASSUME NEW s \in Seq(Statements), s # << >>, Returned(s)
  PROVE  Returned(Tail(s)) /\ (Head(s).op = "release" => Head(s).arg \in Args)
<1>1. /\ Len(s) \in Nat /\ Len(s) >= 1 /\ Head(s) = s[1]
      /\ Len(Tail(s)) = Len(s) - 1
      /\ \A i \in 1..Len(Tail(s)) : Tail(s)[i] = s[i + 1]
  BY TailLemma
<1>2. ASSUME NEW i \in 1..Len(Tail(s)), Tail(s)[i].op = "release"
      PROVE  Tail(s)[i].arg \in Args
  <2>1. i + 1 \in 1..Len(s) /\ Tail(s)[i] = s[i + 1]
    BY <1>1
  <2> QED
    BY <1>2, <2>1 DEF Returned
<1>3. Head(s).op = "release" => Head(s).arg \in Args
  BY <1>1 DEF Returned
<1> QED
  BY <1>2, <1>3 DEF Returned

\* A method releases its arguments.
LEMMA MethodReturned ==
  ASSUME NEW m \in Seq(Statements), Orderly(m)
  PROVE  Returned(m)
<1>1. ASSUME NEW i \in 1..Len(m), m[i].op = "release"
      PROVE  m[i].arg \in Args
  <2>1. i - 1 \in 0..(Len(m) - 1) /\ (i - 1) + 1 = i
    OBVIOUS
  <2>2. Follows(m, i - 1, m[i])
    BY <2>1 DEF Orderly
  <2> QED
    BY <1>1, <2>2 DEF Follows
<1> QED
  BY <1>1 DEF Returned

\* The thread stays in its method, with the same arguments.
LEMMA StaysNative ==
  ASSUME NInv, DInv, NEW t \in Threads, todo[t] # << >>,
         method' = method, arg' = arg, Returned(todo'[t]),
         OnPath(t)' \/ Lost(t)' \/ Raised(t)' \/ Branch(todo'[t])
  PROVE  Stands(t)'
<1>1. ~InJava(t) /\ Native(t)
  BY InMethod
<1> QED
  BY <1>1 DEF Stands, Native, InJava

\* It does its next statement and nothing goes wrong.
LEMMA PathGoesOn ==
  ASSUME NInv, DInv, NEW t \in Threads, todo[t] # << >>, OnPath(t),
         method' = method, todo'[t] = Tail(todo[t]), thrown' = thrown,
         NEW n, n = Len(method[t]) - Len(todo[t]),
         Done(method[t], n + 1, input'[t], ret'[t], known'[t], held'[t], null'[t], Result(t)')
  PROVE  OnPath(t)'
<1>1. /\ Rest(method[t], Tail(todo[t])) /\ Len(method[t]) - Len(Tail(todo[t])) = n + 1
  <2>1. PICK k \in Nat : /\ k = Len(method[t]) - Len(todo[t])
                         /\ Rest(method[t], Tail(todo[t]))
                         /\ Len(method[t]) - Len(Tail(todo[t])) = k + 1
    BY NextStatement
  <2> QED
    BY <2>1
<1>2. Rest(method'[t], todo'[t]) /\ Len(method'[t]) - Len(todo'[t]) = n + 1 /\ thrown'[t] = "none"
  BY <1>1 DEF OnPath
<1> QED
  BY <1>2 DEF OnPath

\* The initial states.
LEMMA DInvInit == Init => DInv
<1> SUFFICES ASSUME Init PROVE DInv
  OBVIOUS
<1>1. ResultTypes
  <2>1. Untouched \in [Threads -> Outcomes]
    BY DEF Untouched, Outcomes
  <2>2. data \in [Objects -> [Threads -> Outcomes]]
    BY <2>1 DEF Init
  <2>3. copy \in [Threads -> [Args -> [Threads -> Outcomes]]]
    BY <2>1 DEF Init
  <2> QED
    BY <2>2, <2>3 DEF Init, ResultTypes
<1>2. \A t \in Threads : InJava(t) /\ Java(t)
  BY DEF Init, InJava, Java
<1>3. Separate
  BY <1>2 DEF Separate
<1> QED
  BY <1>1, <1>2, <1>3 DEF DInv

\* Call: nothing was done, and on a JVM that copies the arguments are not shared
\* with a call that writes.
LEMMA CallDone ==
  ASSUME NInv, DInv, NEW t \in Threads, Enter(t)
  PROVE  DInv'
<1>1. PICK m, i, o : /\ Call(t, m, i, o)
                     /\ \/ m \in ArrayMethods /\ i \in Arrays /\ o \in Arrays
                        \/ m \in BufferMethods /\ i \in Buffers /\ o \in Buffers
  BY DEF Enter
<1> DEFINE x == [a \in Args |-> IF a = "in" THEN i ELSE o]
<1>2. /\ method' = [method EXCEPT ![t] = m] /\ todo' = [todo EXCEPT ![t] = m]
      /\ arg' = [arg EXCEPT ![t] = x]
      /\ copying' = copying /\ data' = data /\ input' = input
      /\ held' = held /\ null' = null /\ copy' = copy
      /\ ret' = ret /\ known' = known /\ thrown' = thrown
      /\ InJava(t) /\ thrown[t] # "crash"
  BY <1>1 DEF Call, jvmVars, accessVars, resultVars
<1>3. /\ x["in"] = i /\ x["out"] = o /\ x \in [Args -> Objects]
      /\ i \in Arrays /\ o \in Arrays => x \in [Args -> Arrays]
  BY <1>1 DEF Objects, Args
<1>4. \A u \in Threads \ {t} : copying /\ ~InJava(u) =>
         /\ Writes(m) => o \notin {arg[u]["in"], arg[u]["out"]}
         /\ Writes(method[u]) => arg[u]["out"] \notin {i, o}
  BY <1>1 DEF Call, Args
<1> HIDE DEF x
<1>5. Orderly(m) /\ m \in Seq(Statements) /\ m \in ArrayMethods \cup BufferMethods
  BY <1>1, Ordered, ProperArrays, ProperBuffers DEF Proper
<1>6. /\ method'[t] = m /\ todo'[t] = m /\ arg'[t] = x
      /\ \A u \in Threads \ {t} : method'[u] = method[u] /\ todo'[u] = todo[u] /\ arg'[u] = arg[u]
  BY <1>2 DEF NInv, TypeInv
<1>7. Unmoved(t)
  BY <1>2, <1>6 DEF Unmoved
<1>8. ResultTypes'
  BY <1>2 DEF DInv, ResultTypes
<1>9. Separate'
  <2> SUFFICES ASSUME copying, NEW u \in Threads, NEW v \in Threads, u # v,
                      ~InJava(u)', ~InJava(v)', Writes(method'[u])
               PROVE  arg'[u]["out"] \notin {arg'[v]["in"], arg'[v]["out"]}
    BY <1>2 DEF Separate
  <2>1. CASE u = t
    BY <1>3, <1>4, <1>6, <2>1 DEF InJava
  <2>2. CASE v = t
    BY <1>3, <1>4, <1>6, <2>2 DEF InJava
  <2>3. CASE u # t /\ v # t
    BY <1>6, <2>3 DEF InJava, DInv, Separate
  <2> QED
    BY <2>1, <2>2, <2>3
<1>10. Stands(t)'
  <2>1. Java(t)
    BY <1>2 DEF DInv
  <2>2. Done(m, 0, input[t], ret[t], known[t], held[t], null[t], Result(t)')
    BY <2>1, PastNone DEF Done
  <2>3. Rest(m, m) /\ Len(m) - Len(m) = 0
    BY <1>5, RestAll
  <2>4. OnPath(t)'
    BY <1>2, <1>6, <2>1, <2>2, <2>3 DEF OnPath, Java
  <2>5. \A j \in 1..Len(m) : m[j].op = "pin" => x \in [Args -> Arrays]
    <3>1. CASE i \in Arrays /\ o \in Arrays
      BY <1>3, <3>1
    <3>2. CASE m \in BufferMethods
      BY <3>2, BufferMethodsPinNothing
    <3> QED
      BY <1>1, <3>1, <3>2
  <2>6. Native(t)'
    BY <1>3, <1>5, <1>6, <2>4, <2>5, MethodReturned DEF Native
  <2>7. CASE InJava(t)'
    <3>1. Java(t)'
      BY <1>2, <2>1 DEF Java
    <3> QED
      BY <2>7, <3>1 DEF Stands
  <2> QED
    BY <2>6, <2>7 DEF Stands
<1> QED
  BY <1>7, <1>8, <1>9, <1>10, OneStands

\* What is released was pinned, so that the arguments are arrays.
LEMMA PinnedArrays ==
  ASSUME NEW t \in Threads, Native(t), NEW n \in Nat, n + 1 \in 1..Len(method[t]),
         Follows(method[t], n, method[t][n + 1]), method[t][n + 1].op = "release"
  PROVE  arg[t] \in [Args -> Arrays]
<1>1. PICK i \in 1..n : method[t][i].op = "pin"
  BY DEF Follows, Past
<1>2. i \in 1..Len(method[t])
  BY <1>1
<1> QED
  BY <1>1, <1>2 DEF Native

\* GetPrimitiveArrayCritical: the argument is held or refused.
LEMMA PinKeeps ==
  ASSUME NInv, DInv, NEW t \in Threads, GetPrimitiveArrayCritical(t)
  PROVE  DInv'
<1>1. /\ todo[t] # << >> /\ Now(t).op = "pin" /\ ~InJava(t) /\ Native(t)
      /\ Now(t) = Head(todo[t]) /\ todo[t] \in Seq(Statements)
      /\ OnPath(t) \/ Lost(t) \/ Branch(todo[t])
  BY InMethod DEF GetPrimitiveArrayCritical, At
<1>2. PICK a : a = Now(t).arg
  OBVIOUS
<1>3. a \in Args
  <2>1. Proper(todo[t])
    BY DEF NInv, ThreadInv
  <2> QED
    BY <1>1, <1>2, <2>1, TailLemma DEF Proper, PinsReleased
<1>4. /\ todo' = [todo EXCEPT ![t] = Tail(@)]
      /\ method' = method /\ arg' = arg /\ copying' = copying /\ data' = data
      /\ input' = input /\ ret' = ret /\ known' = known /\ thrown' = thrown
  BY DEF GetPrimitiveArrayCritical, Advance, jvmVars, callVars, resultVars
<1>5. \/ /\ held' = [held EXCEPT ![t] = @ \cup {a}]
         /\ null' = null
         /\ copy' = copy \/ copy' = [copy EXCEPT ![t][a] = data[arg[t][a]]]
      \/ /\ null' = [null EXCEPT ![t] = @ \cup {a}]
         /\ held' = held /\ copy' = copy
  BY <1>2 DEF GetPrimitiveArrayCritical
<1>6. ResultTypes'
  <2>1. data[arg[t][a]] \in [Threads -> Outcomes]
    BY <1>1, <1>3 DEF Native, DInv, ResultTypes
  <2>2. copy' \in [Threads -> [Args -> [Threads -> Outcomes]]]
    <3>1. CASE copy' = [copy EXCEPT ![t][a] = data[arg[t][a]]]
      <4>1. [copy[t] EXCEPT ![a] = data[arg[t][a]]] \in [Args -> [Threads -> Outcomes]]
        BY <2>1 DEF DInv, ResultTypes
      <4> QED
        BY <3>1, <4>1 DEF DInv, ResultTypes
    <3>2. CASE copy' = copy
      BY <3>2 DEF DInv, ResultTypes
    <3> QED
      BY <1>5, <3>1, <3>2
  <2> QED
    BY <1>4, <2>2 DEF DInv, ResultTypes
<1>7. Unmoved(t)
  <2>1. \A u \in Threads \ {t} : /\ held'[u] = held[u] /\ null'[u] = null[u]
                                 /\ copy'[u] = copy[u] /\ todo'[u] = todo[u]
    BY <1>4, <1>5 DEF NInv, TypeInv, DInv, ResultTypes
  <2> QED
    BY <1>4, <2>1 DEF Unmoved
<1>8. /\ held[t] \subseteq held'[t] /\ null[t] \subseteq null'[t]
      /\ a \in held'[t] \cup null'[t] /\ todo'[t] = Tail(todo[t])
  BY <1>4, <1>5 DEF NInv, TypeInv
<1>9. OnPath(t)' \/ Lost(t)'
  <2>1. CASE OnPath(t)
    <3>1. PICK n \in Nat :
            /\ n = Len(method[t]) - Len(todo[t]) /\ n + 1 \in 1..Len(method[t])
            /\ Now(t) = method[t][n + 1] /\ Follows(method[t], n, method[t][n + 1])
            /\ Done(method[t], n, input[t], ret[t], known[t], held[t], null[t], Result(t))
      BY <1>1, <2>1, NextStatement
    <3>2. Done(method[t], n + 1, input[t], ret[t], known[t], held'[t], null'[t], Result(t)')
      BY <1>1, <1>2, <1>8, <3>1, PinDone
    <3> QED
      BY <1>1, <1>4, <1>8, <2>1, <3>1, <3>2, PathGoesOn
  <2>2. CASE Lost(t)
    BY <1>4, <1>8, <2>2 DEF Lost
  <2>3. CASE Branch(todo[t])
    BY <1>1, <2>3, BranchStep
  <2> QED
    BY <1>1, <2>1, <2>2, <2>3
<1>10. Returned(todo'[t])
  BY <1>1, <1>8, ReturnedTail DEF Native
<1>11. Stands(t)'
  BY <1>1, <1>4, <1>9, <1>10, StaysNative
<1> QED
  BY <1>4, <1>6, <1>7, <1>11, SeparateStays, OneStands

\* GetDirectBufferAddress.
LEMMA LocateKeeps ==
  ASSUME NInv, DInv, NEW t \in Threads, GetDirectBufferAddress(t)
  PROVE  DInv'
<1>1. /\ todo[t] # << >> /\ Now(t).op = "locate" /\ Native(t)
      /\ Now(t) = Head(todo[t]) /\ todo[t] \in Seq(Statements)
      /\ OnPath(t) \/ Lost(t) \/ Branch(todo[t])
  BY InMethod DEF GetDirectBufferAddress, At
<1>2. /\ todo' = [todo EXCEPT ![t] = Tail(@)]
      /\ method' = method /\ arg' = arg /\ copying' = copying /\ data' = data
      /\ held' = held /\ copy' = copy
      /\ input' = input /\ ret' = ret /\ known' = known /\ thrown' = thrown
      /\ null' \in {null, [null EXCEPT ![t] = @ \cup {Now(t).arg}]}
  BY DEF GetDirectBufferAddress, Advance, jvmVars, callVars, resultVars
<1>3. ResultTypes'
  BY <1>2 DEF DInv, ResultTypes
<1>4. Unmoved(t)
  BY <1>2 DEF Unmoved, NInv, TypeInv
<1>5. null[t] \subseteq null'[t] /\ todo'[t] = Tail(todo[t])
  BY <1>2 DEF NInv, TypeInv
<1>6. OnPath(t)' \/ Lost(t)'
  <2>1. CASE OnPath(t)
    <3>1. PICK n \in Nat :
            /\ n = Len(method[t]) - Len(todo[t]) /\ n + 1 \in 1..Len(method[t])
            /\ Now(t) = method[t][n + 1] /\ Follows(method[t], n, method[t][n + 1])
            /\ Done(method[t], n, input[t], ret[t], known[t], held[t], null[t], Result(t))
      BY <1>1, <2>1, NextStatement
    <3>2. Result(t)' = Result(t)
      BY <1>2 DEF Result
    <3>3. Done(method[t], n + 1, input[t], ret[t], known[t], held[t], null'[t], Result(t))
      BY <1>1, <3>1, LocateDone
    <3> QED
      BY <1>1, <1>2, <1>5, <2>1, <3>1, <3>2, <3>3, PathGoesOn
  <2>2. CASE Lost(t)
    BY <1>2, <1>5, <2>2 DEF Lost
  <2>3. CASE Branch(todo[t])
    BY <1>1, <2>3, BranchStep
  <2> QED
    BY <1>1, <2>1, <2>2, <2>3
<1>7. Returned(todo'[t])
  BY <1>1, <1>5, ReturnedTail DEF Native
<1>8. Stands(t)'
  BY <1>1, <1>2, <1>6, <1>7, StaysNative
<1> QED
  BY <1>2, <1>3, <1>4, <1>8, SeparateStays, OneStands

\* ReleasePrimitiveArrayCritical: the copy that is written back overwrites no
\* result, because an output that was written is released last.
LEMMA ReleaseKeeps ==
  ASSUME NInv, DInv, NEW t \in Threads, ReleasePrimitiveArrayCritical(t)
  PROVE  DInv'
<1>1. /\ todo[t] # << >> /\ Now(t).op = "release" /\ ~InJava(t) /\ Native(t)
      /\ Now(t) = Head(todo[t]) /\ todo[t] \in Seq(Statements)
      /\ Tail(todo[t]) \in Seq(Statements) /\ method[t] \in Seq(Statements)
      /\ OnPath(t) \/ Lost(t) \/ Branch(todo[t])
  BY InMethod DEF ReleasePrimitiveArrayCritical, At
<1>2. PICK a : a = Now(t).arg
  OBVIOUS
<1>3. a \in Args /\ Returned(Tail(todo[t]))
  BY <1>1, <1>2, ReturnedTail DEF Native
<1>4. PICK o : o = arg[t][a]
  OBVIOUS
<1>5. /\ todo' = [todo EXCEPT ![t] = Tail(@)]
      /\ method' = method /\ arg' = arg /\ copying' = copying /\ null' = null
      /\ input' = input /\ ret' = ret /\ known' = known /\ thrown' = thrown
      /\ held' = [held EXCEPT ![t] = @ \ {a}]
      /\ data' = IF copying THEN [data EXCEPT ![o] = copy[t][a]] ELSE data
      /\ copy' = [copy EXCEPT ![t][a] = Untouched]
  BY <1>2, <1>4 DEF ReleasePrimitiveArrayCritical, Advance, jvmVars, callVars, resultVars
<1>6. ResultTypes'
  <2>1. data' \in [Objects -> [Threads -> Outcomes]]
    <3>1. copy[t][a] \in [Threads -> Outcomes] /\ data \in [Objects -> [Threads -> Outcomes]]
      BY <1>3 DEF DInv, ResultTypes
    <3>2. [data EXCEPT ![o] = copy[t][a]] \in [Objects -> [Threads -> Outcomes]]
      BY <3>1
    <3> QED
      BY <1>5, <3>1, <3>2
  <2>2. Untouched \in [Threads -> Outcomes]
    BY DEF Untouched, Outcomes
  <2>3. copy' \in [Threads -> [Args -> [Threads -> Outcomes]]]
    <3>1. [copy[t] EXCEPT ![a] = Untouched] \in [Args -> [Threads -> Outcomes]]
      BY <2>2 DEF DInv, ResultTypes
    <3> QED
      BY <1>5, <3>1 DEF DInv, ResultTypes
  <2> QED
    BY <1>5, <2>1, <2>3 DEF DInv, ResultTypes
<1>7. Unmoved(t)
  <2>1. ASSUME NEW u \in Threads \ {t}, ~InJava(u), Writes(method[u])
        PROVE  data'[arg[u]["out"]][u] = data[arg[u]["out"]][u]
    <3>1. CASE ~copying
      BY <1>5, <3>1
    <3>2. CASE copying
      <4>1. arg[u]["out"] # o
        BY <1>1, <1>3, <1>4, <2>1, <3>2 DEF DInv, Separate, Args
      <4>2. arg[u]["out"] \in Objects
        BY <2>1 DEF DInv, Native, Args
      <4> QED
        BY <1>5, <3>2, <4>1, <4>2 DEF DInv, ResultTypes
    <3> QED
      BY <3>1, <3>2
  <2>2. \A u \in Threads \ {t} : held'[u] = held[u] /\ copy'[u] = copy[u] /\ todo'[u] = todo[u]
    BY <1>5 DEF NInv, TypeInv, DInv, ResultTypes
  <2> QED
    BY <1>5, <2>1, <2>2 DEF Unmoved
<1>8. held'[t] = held[t] \ {a} /\ todo'[t] = Tail(todo[t])
  BY <1>5 DEF NInv, TypeInv
<1>9. OnPath(t)' \/ Lost(t)' \/ Branch(todo'[t])
  <2>1. CASE OnPath(t)
    <3>1. PICK n \in Nat :
            /\ n = Len(method[t]) - Len(todo[t]) /\ n + 1 \in 1..Len(method[t])
            /\ Now(t) = method[t][n + 1] /\ Follows(method[t], n, method[t][n + 1])
            /\ Done(method[t], n, input[t], ret[t], known[t], held[t], null[t], Result(t))
      BY <1>1, <2>1, NextStatement
    <3>2. ASSUME Past(method[t], n, "run") \cap Writing # {}
          PROVE  Result(t)' = Result(t)
      <4>1. "out" \in held[t]
        BY <1>1, <3>1, <3>2, ReleaseDone
      <4>2. arg[t]["out"] \in Objects
        BY <1>1 DEF Native, Args
      <4>3. CASE ~copying
        BY <1>5, <4>3 DEF Result
      <4>4. CASE copying /\ a = "out"
        <5>1. arg[t]["out"] \in Arrays
          BY <1>1, <1>2, <3>1, <4>4, PinnedArrays DEF Args
        <5>2. Result(t) = copy[t]["out"][t]
          BY <4>1, <4>4, <5>1 DEF Result
        <5>3. Result(t)' = data'[o][t]
          BY <1>4, <1>5, <1>8, <4>4 DEF Result
        <5>4. data'[o] = copy[t]["out"]
          BY <1>4, <1>5, <4>2, <4>4 DEF DInv, ResultTypes
        <5> QED
          BY <5>2, <5>3, <5>4
      <4>5. CASE copying /\ a # "out"
        <5>1. arg[t]["out"] \in Arrays
          BY <1>1, <1>2, <3>1, PinnedArrays DEF Args
        <5>2. copy'[t]["out"] = copy[t]["out"]
          BY <1>5, <4>5 DEF DInv, ResultTypes, Args
        <5>3. "out" \in held'[t]
          BY <1>8, <4>1, <4>5
        <5> QED
          BY <1>5, <4>1, <4>5, <5>1, <5>2, <5>3 DEF Result
      <4> QED
        BY <4>3, <4>4, <4>5
    <3>3. Done(method[t], n + 1, input[t], ret[t], known[t], held'[t], null[t], Result(t)')
      <4>1. PICK m : m = method[t]
        OBVIOUS
      <4>2. PICK v, w : v = Result(t) /\ w = Result(t)'
        OBVIOUS
      <4>3. /\ Done(m, n, input[t], ret[t], known[t], held[t], null[t], v)
            /\ Follows(m, n, m[n + 1]) /\ m[n + 1].op = "release" /\ m[n + 1].arg = a
            /\ Past(m, n, "run") \cap Writing # {} => w = v
        BY <1>1, <1>2, <3>1, <3>2, <4>1, <4>2, ZenonT(30)
      <4>4. Done(m, n + 1, input[t], ret[t], known[t], held[t] \ {a}, null[t], w)
        BY <4>3, ReleaseDone
      <4> QED
        BY <1>8, <4>1, <4>2, <4>4
    <3> QED
      BY <1>1, <1>5, <1>8, <2>1, <3>1, <3>3, PathGoesOn
  <2>2. CASE Lost(t)
    BY <1>5, <2>2 DEF Lost
  <2>3. CASE Branch(todo[t])
    BY <1>1, <1>8, <2>3, BranchStep
  <2> QED
    BY <1>1, <2>1, <2>2, <2>3
<1>10. Stands(t)'
  BY <1>1, <1>3, <1>5, <1>8, <1>9, StaysNative
<1> QED
  BY <1>5, <1>6, <1>7, <1>10, SeparateStays, OneStands

\* The texts of the error branches release arguments.
LEMMA ReturnedConcat ==
  ASSUME NEW p \in Seq(Statements), NEW q \in Seq(Statements), Returned(p), Returned(q)
  PROVE  Returned(p \o q)
<1>1. PICK s : s = p \o q
  OBVIOUS
<1>2. /\ Len(p) \in Nat /\ Len(q) \in Nat /\ Len(s) = Len(p) + Len(q)
      /\ \A i \in 1..Len(p) : s[i] = p[i]
      /\ \A i \in 1..Len(q) : s[Len(p) + i] = q[i]
  BY <1>1, ConcatLemma
<1>3. ASSUME NEW i \in 1..Len(s), s[i].op = "release"
      PROVE  s[i].arg \in Args
  <2>1. CASE i <= Len(p)
    <3>1. i \in 1..Len(p)
      BY <1>2, <2>1
    <3> QED
      BY <1>2, <1>3, <3>1 DEF Returned
  <2>2. CASE i > Len(p)
    <3>1. PICK j \in 1..Len(q) : i = Len(p) + j
      <4>1. i - Len(p) \in 1..Len(q) /\ i = Len(p) + (i - Len(p))
        BY <1>2, <2>2
      <4> QED
        BY <4>1
    <3> QED
      BY <1>2, <1>3, <3>1 DEF Returned
  <2> QED
    BY <1>2, <2>1, <2>2
<1> QED
  BY <1>1, <1>3 DEF Returned

\* An exception releases nothing.
LEMMA ReturnedThrow ==
  ASSUME NEW e \in Operands, NEW w \in Owners
  PROVE  <<Throw(e, w)>> \in Seq(Statements) /\ Returned(<<Throw(e, w)>>)
<1>1. PICK x : x = Throw(e, w)
  OBVIOUS
<1>2. x \in Statements /\ x.op = "throw"
  BY <1>1, StatementTypes DEF Throw, Stmt
<1>3. <<x>> \in Seq(Statements) /\ Len(<<x>>) = 1 /\ <<x>>[1] = x
  BY <1>2
<1>4. Returned(<<x>>)
  BY <1>2, <1>3 DEF Returned
<1> QED
  BY <1>1, <1>3, <1>4, Zenon

\* What TestPointers leaves.
LEMMA BailOutReturned ==
  ASSUME NEW t, held[t] \subseteq Args, NEW e \in Operands, NEW w \in Owners
  PROVE  Returned(GiveBack(t) \o <<Throw(e, w)>>)
<1>1. ASSUME NEW a \in Args, NEW h
      PROVE  /\ (IF a \in h THEN <<Release(a)>> ELSE << >>) \in Seq(Statements)
             /\ Returned(IF a \in h THEN <<Release(a)>> ELSE << >>)
  <2>1. PICK x : x = Release(a)
    OBVIOUS
  <2>2. x \in Statements /\ x.arg = a
    BY <2>1, StatementTypes DEF Release, Stmt, Operands, Owners
  <2>3. <<x>> \in Seq(Statements) /\ Len(<<x>>) = 1 /\ <<x>>[1] = x
    BY <2>2
  <2>4. Returned(<<x>>)
    BY <2>2, <2>3 DEF Returned
  <2>5. << >> \in Seq(Statements) /\ Returned(<< >>)
    BY DEF Returned
  <2> QED
    BY <2>1, <2>3, <2>4, <2>5, Zenon
<1>2. "in" \in Args /\ "out" \in Args
  BY DEF Args
<1>3. PICK p, q : /\ p = IF "in" \in held[t] THEN <<Release("in")>> ELSE << >>
                  /\ q = IF "out" \in held[t] THEN <<Release("out")>> ELSE << >>
  OBVIOUS
<1>4. p \in Seq(Statements) /\ Returned(p) /\ q \in Seq(Statements) /\ Returned(q)
  BY <1>1, <1>2, <1>3, Zenon
<1>5. GiveBack(t) = p \o q
  BY <1>3 DEF GiveBack
<1>6. Returned(GiveBack(t)) /\ GiveBack(t) \in Seq(Statements)
  BY <1>4, <1>5, ReturnedConcat
<1> QED
  BY <1>6, ReturnedThrow, ReturnedConcat, Zenon

\* The test of the pointers: a pointer was refused, or the method goes on.
LEMMA TestPointersKeeps ==
  ASSUME NInv, DInv, NEW t \in Threads, TestPointers(t)
  PROVE  DInv'
<1>1. /\ todo[t] # << >> /\ Now(t).op = "need" /\ Native(t)
      /\ Now(t) = Head(todo[t]) /\ todo[t] \in Seq(Statements)
      /\ Now(t).arg \in Operands /\ Now(t).by \in Owners
      /\ OnPath(t) \/ Lost(t) \/ Branch(todo[t])
  BY InMethod DEF TestPointers, At, Statements
<1>2. /\ method' = method /\ arg' = arg /\ copying' = copying /\ data' = data
      /\ held' = held /\ null' = null /\ copy' = copy
      /\ input' = input /\ ret' = ret /\ known' = known /\ thrown' = thrown
      /\ todo' = IF null[t] = {} THEN [todo EXCEPT ![t] = Tail(todo[t])]
                 ELSE [todo EXCEPT ![t] = GiveBack(t) \o <<Throw(Now(t).arg, Now(t).by)>>]
  BY DEF TestPointers, Advance, jvmVars, callVars, accessVars, resultVars
<1>3. ResultTypes'
  BY <1>2 DEF DInv, ResultTypes
<1>4. Unmoved(t)
  <2>1. \A u \in Threads \ {t} : todo'[u] = todo[u]
    BY <1>2 DEF NInv, TypeInv
  <2> QED
    BY <1>2, <2>1 DEF Unmoved
<1>5. todo'[t] = IF null[t] = {} THEN Tail(todo[t])
                 ELSE GiveBack(t) \o <<Throw(Now(t).arg, Now(t).by)>>
  BY <1>2, Zenon DEF NInv, TypeInv
<1>6. Lost(t) => Lost(t)'
  BY <1>2 DEF Lost
<1>7. ~Branch(todo[t])
  BY <1>1, BranchStep
<1>8. CASE null[t] = {}
  <2>1. OnPath(t)
    BY <1>1, <1>7, <1>8 DEF Lost
  <2>2. PICK n \in Nat :
          /\ n = Len(method[t]) - Len(todo[t]) /\ n + 1 \in 1..Len(method[t])
          /\ Now(t) = method[t][n + 1]
          /\ Done(method[t], n, input[t], ret[t], known[t], held[t], null[t], Result(t))
    BY <1>1, <2>1, NextStatement
  <2>3. Result(t)' = Result(t)
    BY <1>2 DEF Result
  <2>4. Done(method[t], n + 1, input[t], ret[t], known[t], held[t], {}, Result(t))
    BY <1>1, <1>8, <2>2, NeedDone
  <2>5. OnPath(t)'
    BY <1>1, <1>2, <1>5, <1>8, <2>1, <2>2, <2>3, <2>4, PathGoesOn
  <2>6. Returned(todo'[t])
    BY <1>1, <1>5, <1>8, ReturnedTail DEF Native
  <2> QED
    BY <1>1, <1>2, <1>3, <1>4, <2>5, <2>6, StaysNative, SeparateStays, OneStands
<1>9. CASE null[t] # {}
  <2>1. todo'[t] = GiveBack(t) \o <<Throw(Now(t).arg, Now(t).by)>>
    BY <1>5, <1>9
  <2>2. held[t] \subseteq Args
    BY DEF NInv, TypeInv
  <2>3. Lost(t) \/ Branch(todo'[t])
    <3>1. CASE OnPath(t)
      <4>1. PICK n \in Nat :
              /\ n + 1 \in 1..Len(method[t])
              /\ Now(t) = method[t][n + 1] /\ Follows(method[t], n, method[t][n + 1])
        BY <1>1, <3>1, NextStatement
      <4>2. CASE Now(t).by = "bitshuffle"
        BY <1>9, <4>1, <4>2 DEF Lost
      <4>3. CASE Now(t).by = "snappy"
        BY <1>1, <2>1, <2>2, <4>3, BailOutBranch
      <4> QED
        BY <1>1, <4>1, <4>2, <4>3 DEF Follows
    <3> QED
      BY <1>1, <1>7, <3>1
  <2>4. Returned(todo'[t])
    BY <1>1, <2>1, <2>2, BailOutReturned
  <2> QED
    BY <1>1, <1>2, <1>3, <1>4, <1>6, <2>3, <2>4, StaysNative, SeparateStays, OneStands
<1> QED
  BY <1>8, <1>9

\* The library: it accepts only an input that is good for what it was asked.
LEMMA RunKeeps ==
  ASSUME NInv, DInv, NEW t \in Threads, RunLibrary(t)
  PROVE  DInv'
<1>1. /\ todo[t] # << >> /\ Now(t).op = "run" /\ ~InJava(t) /\ Native(t)
      /\ Now(t) = Head(todo[t]) /\ todo[t] \in Seq(Statements) /\ Now(t) = todo[t][1]
      /\ Len(todo[t]) \in Nat /\ Len(todo[t]) >= 1
      /\ OnPath(t) \/ Lost(t) \/ Branch(todo[t])
  BY InMethod, TailLemma DEF RunLibrary, At
<1>2. PICK f : f = Now(t).arg
  OBVIOUS
<1>3. PICK o : o = arg[t]["out"]
  OBVIOUS
<1>4. PICK q \in {"good", "badHeader", "badBody"}, a \in BOOLEAN :
        /\ a \in Verdicts(f, q)
        /\ f \in {"convert", "shuffle"} => q = "good"
        /\ input[t] \in {"unread", q}
        /\ input' = [input EXCEPT ![t] = q]
        /\ ret' = [ret EXCEPT ![t] = a]
        /\ known' = [known EXCEPT ![t] = @ \/ (f = "length" /\ a)]
        /\ \/ /\ f \in {"length", "validate"}
              /\ data' = data /\ copy' = copy
           \/ /\ f \in Writing
              /\ IF copying /\ o \in Arrays
                 THEN /\ copy' = [copy EXCEPT ![t]["out"][t] =
                                    IF a THEN "new" ELSE "partial"]
                      /\ data' = data
                 ELSE /\ data' = [data EXCEPT ![o][t] =
                                    IF a THEN "new" ELSE "partial"]
                      /\ copy' = copy
  BY <1>2, <1>3 DEF RunLibrary, Verdicts
<1>5. PICK v : v = IF a THEN "new" ELSE "partial"
  OBVIOUS
<1>6. /\ todo' = [todo EXCEPT ![t] = Tail(@)]
      /\ method' = method /\ arg' = arg /\ copying' = copying
      /\ held' = held /\ null' = null /\ thrown' = thrown
  BY DEF RunLibrary, Advance, jvmVars
<1>7. a \in BOOLEAN /\ v \in Outcomes
  BY <1>4, <1>5 DEF Outcomes
<1>8. \/ f \in {"length", "validate"} /\ data' = data /\ copy' = copy
      \/ /\ f \in Writing /\ copying /\ o \in Arrays
         /\ copy' = [copy EXCEPT ![t]["out"][t] = v] /\ data' = data
      \/ /\ f \in Writing /\ ~(copying /\ o \in Arrays)
         /\ data' = [data EXCEPT ![o][t] = v] /\ copy' = copy
  BY <1>4, <1>5
<1>9. o \in Objects /\ "out" \in Args
  BY <1>1, <1>3 DEF Native, Args
<1>10. /\ data' \in [Objects -> [Threads -> Outcomes]]
       /\ copy' \in [Threads -> [Args -> [Threads -> Outcomes]]]
  <2>1. /\ data \in [Objects -> [Threads -> Outcomes]]
        /\ copy \in [Threads -> [Args -> [Threads -> Outcomes]]]
    BY DEF DInv, ResultTypes
  <2>2. [data EXCEPT ![o][t] = v] \in [Objects -> [Threads -> Outcomes]]
    <3>1. [data[o] EXCEPT ![t] = v] \in [Threads -> Outcomes]
      BY <1>7, <1>9, <2>1
    <3> QED
      BY <2>1, <3>1
  <2>3. [copy EXCEPT ![t]["out"][t] = v] \in [Threads -> [Args -> [Threads -> Outcomes]]]
    <3>1. [copy[t]["out"] EXCEPT ![t] = v] \in [Threads -> Outcomes]
      BY <1>7, <1>9, <2>1
    <3>2. [copy[t] EXCEPT !["out"] = [copy[t]["out"] EXCEPT ![t] = v]]
            \in [Args -> [Threads -> Outcomes]]
      BY <2>1, <3>1
    <3> QED
      BY <2>1, <3>2
  <2> QED
    BY <1>8, <2>1, <2>2, <2>3
<1>11. ResultTypes'
  <2>1. input' \in [Threads -> {"unread", "good", "badHeader", "badBody"}]
    BY <1>4 DEF DInv, ResultTypes
  <2>2. ret' \in [Threads -> BOOLEAN]
    BY <1>4, <1>7 DEF DInv, ResultTypes
  <2>3. known' \in [Threads -> BOOLEAN]
    <3>1. (known[t] \/ (f = "length" /\ a)) \in BOOLEAN
      OBVIOUS
    <3> QED
      BY <1>4, <3>1 DEF DInv, ResultTypes
  <2> QED
    BY <1>6, <1>10, <2>1, <2>2, <2>3 DEF DInv, ResultTypes
<1>12. Unmoved(t)
  <2>1. ASSUME NEW u \in Threads \ {t}
        PROVE  /\ copy'[u] = copy[u] /\ todo'[u] = todo[u]
               /\ input'[u] = input[u] /\ ret'[u] = ret[u] /\ known'[u] = known[u]
    <3>1. copy'[u] = copy[u]
      BY <1>8 DEF DInv, ResultTypes
    <3> QED
      BY <1>4, <1>6, <3>1 DEF DInv, ResultTypes, NInv, TypeInv
  <2>2. ASSUME NEW u \in Threads \ {t}, NEW x \in Objects
        PROVE  data'[x][u] = data[x][u]
    <3>1. data \in [Objects -> [Threads -> Outcomes]]
      BY DEF DInv, ResultTypes
    <3>2. CASE data' = data
      BY <3>2
    <3>3. CASE data' = [data EXCEPT ![o][t] = v]
      <4>1. data'[x] = IF x = o THEN [data[o] EXCEPT ![t] = v] ELSE data[x]
        BY <1>9, <3>1, <3>3
      <4> QED
        BY <3>1, <4>1
    <3> QED
      BY <1>8, <3>2, <3>3
  <2>3. \A u \in Threads \ {t} : ~InJava(u) => arg[u]["out"] \in Objects
    BY DEF DInv, Native, Args
  <2> QED
    BY <1>6, <2>1, <2>2, <2>3 DEF Unmoved
<1>13. /\ todo'[t] = Tail(todo[t]) /\ input'[t] = q /\ ret'[t] = a
       /\ known'[t] = (known[t] \/ (f = "length" /\ a))
  BY <1>4, <1>6 DEF DInv, ResultTypes, NInv, TypeInv
<1>14. OnPath(t)' \/ Lost(t)'
  <2>1. CASE OnPath(t)
    <3>1. PICK n \in Nat :
            /\ n = Len(method[t]) - Len(todo[t]) /\ n + 1 \in 1..Len(method[t])
            /\ Now(t) = method[t][n + 1] /\ Follows(method[t], n, method[t][n + 1])
            /\ Done(method[t], n, input[t], ret[t], known[t], held[t], null[t], Result(t))
      BY <1>1, <2>1, NextStatement
    <3>2. ASSUME f \in Writing
          PROVE  Result(t)' = v
      <4>1. o \in Arrays => "out" \in held[t]
        <5>1. o \in Arrays => Obtained(todo[t], 1, "out", held[t], null[t])
          BY <1>1, <1>2, <1>3, <1>9, <3>2 DEF NInv, ThreadInv, Covered, Used, Writing
        <5> QED
          BY <5>1 DEF Obtained
      <4>2. CASE copying /\ o \in Arrays
        <5>1. copy'[t]["out"][t] = v
          BY <1>8, <1>9, <3>2, <4>2 DEF DInv, ResultTypes, Writing
        <5> QED
          BY <1>3, <1>6, <4>1, <4>2, <5>1 DEF Result
      <4>3. CASE ~(copying /\ o \in Arrays)
        <5>1. data'[o][t] = v
          BY <1>8, <1>9, <3>2, <4>3 DEF DInv, ResultTypes, Writing
        <5> QED
          BY <1>3, <1>6, <4>3, <5>1 DEF Result
      <4> QED
        BY <4>2, <4>3
    <3>3. ASSUME f \notin Writing
          PROVE  Result(t)' = Result(t)
      BY <1>6, <1>8, <3>3 DEF Result
    <3>4. PICK m : m = method[t]
      OBVIOUS
    <3>5. PICK w, x : w = Result(t)' /\ x = Result(t)
      OBVIOUS
    <3>6. /\ Done(m, n, input[t], ret[t], known[t], held[t], null[t], x)
          /\ Follows(m, n, m[n + 1]) /\ m[n + 1].op = "run" /\ f = m[n + 1].arg
      BY <1>1, <1>2, <3>1, <3>4, <3>5, ZenonT(30)
    <3>7. (f \in Writing /\ a => w = "new") /\ (f \notin Writing => w = x)
      BY <1>5, <3>2, <3>3, <3>5
    <3>8. Done(m, n + 1, q, a, known[t] \/ (f = "length" /\ a),
               held[t], null[t], w)
      <4>1. /\ f \in {"convert", "shuffle"} => q = "good"
            /\ a \in Verdicts(f, q) /\ input[t] \in {"unread", q}
            /\ q \in {"good", "badHeader", "badBody"}
        BY <1>4
      <4>2. PICK p, r, k, h, z :
              p = input[t] /\ r = ret[t] /\ k = known[t] /\ h = held[t] /\ z = null[t]
        OBVIOUS
      <4>3. Done(m, n, p, r, k, h, z, x) /\ p \in {"unread", q}
        BY <4>1, <4>2, <3>6
      <4>4. PICK b : b = (k \/ (f = "length" /\ a))
        OBVIOUS
      <4>5. Done(m, n + 1, q, a, b, h, z, w)
        BY <4>1, <4>3, <4>4, <3>6, <3>7, RunDone, SMTT(120)
      <4> QED
        BY <4>2, <4>4, <4>5
    <3>9. Done(m, n + 1, input'[t], ret'[t], known'[t], held'[t], null'[t], w)
      BY <1>6, <1>13, <3>8
    <3> QED
      BY <1>1, <1>6, <1>13, <2>1, <3>1, <3>4, <3>5, <3>9, PathGoesOn
  <2>2. CASE Lost(t)
    BY <1>6, <2>2 DEF Lost
  <2>3. CASE Branch(todo[t])
    BY <1>1, <2>3, BranchStep
  <2> QED
    BY <1>1, <2>1, <2>2, <2>3
<1>15. Returned(todo'[t])
  BY <1>1, <1>13, ReturnedTail DEF Native
<1>16. Stands(t)'
  BY <1>1, <1>6, <1>14, <1>15, StaysNative
<1> QED
  BY <1>6, <1>11, <1>12, <1>16, SeparateStays, OneStands

\* The test of the result.
LEMMA TestResultKeeps ==
  ASSUME NInv, DInv, NEW t \in Threads, TestResult(t)
  PROVE  DInv'
<1>1. /\ todo[t] # << >> /\ Now(t).op = "check" /\ Native(t)
      /\ Now(t) = Head(todo[t]) /\ todo[t] \in Seq(Statements)
      /\ Now(t).arg \in Operands /\ Now(t).by \in Owners
      /\ OnPath(t) \/ Lost(t) \/ Branch(todo[t])
  BY InMethod DEF TestResult, At, Statements
<1>2. /\ method' = method /\ arg' = arg /\ copying' = copying /\ data' = data
      /\ held' = held /\ null' = null /\ copy' = copy
      /\ input' = input /\ ret' = ret /\ known' = known /\ thrown' = thrown
      /\ todo' = IF ret[t] THEN [todo EXCEPT ![t] = Tail(todo[t])]
                 ELSE [todo EXCEPT ![t] = <<Throw(Now(t).arg, Now(t).by)>>]
  BY DEF TestResult, Advance, jvmVars, callVars, accessVars, resultVars
<1>3. ResultTypes'
  BY <1>2 DEF DInv, ResultTypes
<1>4. Unmoved(t)
  <2>1. \A u \in Threads \ {t} : todo'[u] = todo[u]
    BY <1>2 DEF NInv, TypeInv
  <2> QED
    BY <1>2, <2>1 DEF Unmoved
<1>5. todo'[t] = IF ret[t] THEN Tail(todo[t]) ELSE <<Throw(Now(t).arg, Now(t).by)>>
  BY <1>2, Zenon DEF NInv, TypeInv
<1>6. Lost(t) => Lost(t)'
  BY <1>2 DEF Lost
<1>7. ~Branch(todo[t])
  BY <1>1, BranchStep
<1>8. Returned(todo'[t])
  <2>1. Returned(Tail(todo[t]))
    BY <1>1, ReturnedTail DEF Native
  <2>2. Returned(<<Throw(Now(t).arg, Now(t).by)>>)
    BY <1>1, ReturnedThrow
  <2> QED
    BY <1>5, <2>1, <2>2
<1>9. OnPath(t)' \/ Lost(t)' \/ Branch(todo'[t])
  <2>1. CASE OnPath(t)
    <3>1. PICK n \in Nat :
            /\ n = Len(method[t]) - Len(todo[t]) /\ n + 1 \in 1..Len(method[t])
            /\ Now(t) = method[t][n + 1] /\ Follows(method[t], n, method[t][n + 1])
            /\ Done(method[t], n, input[t], ret[t], known[t], held[t], null[t], Result(t))
      BY <1>1, <2>1, NextStatement
    <3>2. CASE ret[t]
      <4>1. Result(t)' = Result(t)
        BY <1>2 DEF Result
      <4>2. Done(method[t], n + 1, input[t], ret[t], known[t], held[t], null[t], Result(t))
        BY <1>1, <3>1, <3>2, CheckDone
      <4> QED
        BY <1>1, <1>2, <1>5, <2>1, <3>1, <3>2, <4>1, <4>2, PathGoesOn
    <3>3. CASE ~ret[t]
      <4>1. Now(t).by = "snappy"
        BY <1>1, <3>1 DEF Follows
      <4>2. todo'[t] = <<Throw(Now(t).arg, "snappy")>>
        BY <1>5, <3>3, <4>1
      <4> QED
        BY <1>1, <4>2, ThrowBranch
    <3> QED
      BY <3>2, <3>3
  <2> QED
    BY <1>1, <1>6, <1>7, <2>1
<1>10. Stands(t)'
  BY <1>1, <1>2, <1>8, <1>9, StaysNative
<1> QED
  BY <1>2, <1>3, <1>4, <1>10, SeparateStays, OneStands

\* The exception is raised at the end of an error branch; a BitShuffleNative that
\* comes here was refused a pointer.
LEMMA ThrowKeeps ==
  ASSUME NInv, DInv, NEW t \in Threads, throw_exception(t) \/ throw_exception_BitShuffle(t)
  PROVE  DInv'
<1>1. /\ todo[t] # << >> /\ Now(t).op = "throw" /\ Native(t)
      /\ Now(t) = Head(todo[t]) /\ todo[t] \in Seq(Statements)
      /\ Now(t).arg \in Operands
      /\ OnPath(t) \/ Lost(t) \/ Branch(todo[t])
  BY InMethod DEF throw_exception, throw_exception_BitShuffle, At, Statements
<1>2. /\ todo' = [todo EXCEPT ![t] = Tail(@)]
      /\ method' = method /\ arg' = arg /\ copying' = copying /\ data' = data
      /\ held' = held /\ null' = null /\ copy' = copy
      /\ input' = input /\ ret' = ret /\ known' = known
  BY DEF throw_exception, throw_exception_BitShuffle, Advance, jvmVars, callVars, accessVars
<1>3. PICK e \in Operands \cup {"none", "crash"} :
        /\ thrown' = [thrown EXCEPT ![t] = e]
        /\ Now(t).by = "bitshuffle" \/ e = Now(t).arg
  BY <1>1 DEF throw_exception, throw_exception_BitShuffle
<1>4. ResultTypes'
  <2>1. thrown' \in [Threads -> Operands \cup {"none", "crash"}]
    BY <1>3 DEF DInv, ResultTypes
  <2> QED
    BY <1>2, <2>1 DEF DInv, ResultTypes
<1>5. Unmoved(t)
  <2>1. \A u \in Threads \ {t} : todo'[u] = todo[u] /\ thrown'[u] = thrown[u]
    BY <1>2, <1>3 DEF NInv, TypeInv, DInv, ResultTypes
  <2> QED
    BY <1>2, <2>1 DEF Unmoved
<1>6. todo'[t] = Tail(todo[t]) /\ thrown'[t] = e
  BY <1>2, <1>3 DEF NInv, TypeInv, DInv, ResultTypes
<1>7. Lost(t)' \/ Raised(t)'
  <2>1. CASE OnPath(t)
    <3>1. \E n \in Nat : /\ Now(t) = method[t][n + 1]
                         /\ Follows(method[t], n, method[t][n + 1])
      BY <1>1, <2>1, NextStatement
    <3> QED
      BY <1>1, <3>1 DEF Follows
  <2>2. CASE Lost(t)
    BY <1>2, <2>2 DEF Lost
  <2>3. CASE Branch(todo[t])
    <3>1. Tail(todo[t]) = << >> /\ Now(t).by = "snappy"
      BY <1>1, <2>3, BranchStep
    <3>2. Now(t).arg # "none"
      BY <1>1 DEF Operands, Args
    <3> QED
      BY <1>3, <1>6, <3>1, <3>2 DEF Raised
  <2> QED
    BY <1>1, <2>1, <2>2, <2>3
<1>8. Returned(todo'[t])
  BY <1>1, <1>6, ReturnedTail DEF Native
<1>9. Stands(t)'
  BY <1>1, <1>2, <1>7, <1>8, StaysNative
<1> QED
  BY <1>2, <1>4, <1>5, <1>9, SeparateStays, OneStands

\* Return: the thread is as before the call, unless the process ended.
LEMMA ReturnKeeps ==
  ASSUME NInv, DInv, NEW t \in Threads, Return(t)
  PROVE  DInv'
<1>1. /\ method' = [method EXCEPT ![t] = << >>] /\ todo' = todo
      /\ arg' = [arg EXCEPT ![t] = NoArgs]
      /\ input' = [input EXCEPT ![t] = "unread"]
      /\ data' = [data EXCEPT ![arg[t]["out"]][t] = "old"]
      /\ null' = [null EXCEPT ![t] = {}]
      /\ ret' = [ret EXCEPT ![t] = TRUE] /\ known' = [known EXCEPT ![t] = FALSE]
      /\ thrown' = [thrown EXCEPT ![t] = IF thrown[t] = "crash" THEN "crash" ELSE "none"]
      /\ copying' = copying /\ held' = held /\ copy' = copy
      /\ ~InJava(t)
  BY DEF Return, Returning, jvmVars
<1>2. /\ data \in [Objects -> [Threads -> Outcomes]] /\ arg[t]["out"] \in Objects
      /\ "old" \in Outcomes
  BY <1>1 DEF DInv, ResultTypes, Native, Args, Outcomes
<1>3. ResultTypes'
  <2>1. [data[arg[t]["out"]] EXCEPT ![t] = "old"] \in [Threads -> Outcomes]
    BY <1>2
  <2>2. data' \in [Objects -> [Threads -> Outcomes]]
    BY <1>1, <1>2, <2>1
  <2> QED
    BY <1>1, <2>2 DEF DInv, ResultTypes
<1>4. \A u \in Threads \ {t} :
         /\ method'[u] = method[u] /\ todo'[u] = todo[u] /\ arg'[u] = arg[u]
         /\ held'[u] = held[u] /\ null'[u] = null[u] /\ copy'[u] = copy[u]
         /\ input'[u] = input[u] /\ ret'[u] = ret[u] /\ known'[u] = known[u]
         /\ thrown'[u] = thrown[u]
  BY <1>1 DEF NInv, TypeInv, DInv, ResultTypes
<1>5. Unmoved(t)
  <2>1. ASSUME NEW u \in Threads \ {t}, NEW x \in Objects
        PROVE  data'[x][u] = data[x][u]
    <3>1. PICK o \in Objects : o = arg[t]["out"]
      BY <1>2
    <3>2. data'[x] = IF x = o THEN [data[o] EXCEPT ![t] = "old"] ELSE data[x]
      BY <1>1, <1>2, <3>1
    <3> QED
      BY <1>2, <3>2
  <2>2. \A u \in Threads \ {t} : ~InJava(u) => arg[u]["out"] \in Objects
    BY DEF DInv, Native, Args
  <2> QED
    BY <1>1, <1>4, <2>1, <2>2 DEF Unmoved
<1>6. InJava(t)' /\ input'[t] = "unread" /\ null'[t] = {} /\ thrown'[t] \in {"none", "crash"}
  BY <1>1 DEF NInv, TypeInv, DInv, ResultTypes, InJava
<1>7. Separate'
  <2> SUFFICES ASSUME copying, NEW u \in Threads, NEW v \in Threads, u # v,
                      ~InJava(u)', ~InJava(v)', Writes(method'[u])
               PROVE  arg'[u]["out"] \notin {arg'[v]["in"], arg'[v]["out"]}
    BY <1>1 DEF Separate
  <2>1. u # t /\ v # t
    BY <1>6
  <2> QED
    BY <1>4, <2>1 DEF InJava, DInv, Separate
<1>8. Stands(t)'
  BY <1>6 DEF Stands, Java
<1> QED
  BY <1>3, <1>5, <1>7, <1>8, OneStands

\* A collection is requested or done, or nothing happens.
LEMMA CollectorKeeps ==
  ASSUME NInv, DInv, RequestCollection \/ Collect \/ UNCHANGED vars
  PROVE  DInv'
<1>1. /\ copying' = copying /\ data' = data /\ method' = method /\ arg' = arg
      /\ input' = input /\ todo' = todo /\ held' = held /\ null' = null /\ copy' = copy
      /\ ret' = ret /\ known' = known /\ thrown' = thrown
  BY DEF RequestCollection, Collect, vars, jvmVars, callVars, accessVars, resultVars
<1>2. ResultTypes'
  BY <1>1 DEF DInv, ResultTypes
<1>3. Separate'
  BY <1>1, SeparateStays
<1>4. ASSUME NEW t \in Threads PROVE Stands(t)'
  <2>1. Result(t)' = Result(t)
    BY <1>1 DEF Result
  <2>2. OnPath(t) => OnPath(t)'
    BY <1>1, <2>1 DEF OnPath
  <2>3. (Lost(t) => Lost(t)') /\ (Raised(t) => Raised(t)')
    BY <1>1 DEF Lost, Raised
  <2>4. Native(t) => Native(t)'
    BY <1>1, <2>2, <2>3 DEF Native
  <2>5. Java(t) => Java(t)'
    BY <1>1 DEF Java
  <2> QED
    BY <1>1, <2>4, <2>5 DEF DInv, Stands, InJava
<1> QED
  BY <1>2, <1>3, <1>4 DEF DInv, Stands

\* DInv is inductive, together with NInv.
THEOREM ResultsInvariance == Spec => []DInv
<1>1. ASSUME NInv, DInv, [Next]_vars PROVE DInv'
  <2>1. CASE \E t \in Threads : Enter(t) \/ Step(t)
    <3>1. PICK t \in Threads : Enter(t) \/ Step(t)
      BY <2>1
    <3>2. CASE Enter(t)
      BY <1>1, <3>2, CallDone
    <3>3. CASE GetPrimitiveArrayCritical(t)
      BY <1>1, <3>3, PinKeeps
    <3>4. CASE GetDirectBufferAddress(t)
      BY <1>1, <3>4, LocateKeeps
    <3>5. CASE ReleasePrimitiveArrayCritical(t)
      BY <1>1, <3>5, ReleaseKeeps
    <3>6. CASE TestPointers(t)
      BY <1>1, <3>6, TestPointersKeeps
    <3>7. CASE RunLibrary(t)
      BY <1>1, <3>7, RunKeeps
    <3>8. CASE TestResult(t)
      BY <1>1, <3>8, TestResultKeeps
    <3>9. CASE throw_exception(t) \/ throw_exception_BitShuffle(t)
      BY <1>1, <3>9, ThrowKeeps
    <3>10. CASE Return(t)
      BY <1>1, <3>10, ReturnKeeps
    <3> QED
      BY <3>1, <3>2, <3>3, <3>4, <3>5, <3>6, <3>7, <3>8, <3>9, <3>10 DEF Step
  <2>2. CASE RequestCollection \/ Collect \/ UNCHANGED vars
    BY <1>1, <2>2, CollectorKeeps
  <2> QED
    BY <1>1, <2>1, <2>2 DEF Next
<1> QED
  BY NativeInvariance, DInvInit, <1>1, PTL DEF Spec

-----------------------------------------------------------------------------
(* What the callers rely on when a method returns.                         *)

\* A method that wrote or used the library has run it when it is at its end.
LEMMA UsedAtEnd ==
  ASSUME NEW m \in Seq(Statements)
  PROVE  /\ Writes(m) => Past(m, Len(m), "run") \cap Writing # {}
         /\ \A f : Uses(m, f) => f \in Past(m, Len(m), "run")
<1>1. ASSUME NEW f, NEW i \in 1..Len(m), m[i] = Run(f)
      PROVE  f \in Past(m, Len(m), "run")
  <2>1. m[i].op = "run" /\ m[i].arg = f
    BY <1>1 DEF Run, Stmt
  <2> QED
    BY <2>1 DEF Past
<1>2. \A f : Uses(m, f) => f \in Past(m, Len(m), "run")
  BY <1>1 DEF Uses
<1>3. Writes(m) => Past(m, Len(m), "run") \cap Writing # {}
  BY <1>1 DEF Writes, Writing
<1> QED
  BY <1>2, <1>3

\* What a method has run is among its statements.
LEMMA RunUses ==
  ASSUME NEW m \in Seq(Statements), Orderly(m), NEW f, f \in Past(m, Len(m), "run")
  PROVE  Uses(m, f)
<1>1. PICK i \in 1..Len(m) : m[i].op = "run" /\ m[i].arg = f
  BY DEF Past
<1>2. i - 1 \in 0..(Len(m) - 1) /\ (i - 1) + 1 = i /\ m[i] \in Statements
  OBVIOUS
<1>3. m[i].by = "library"
  BY <1>1, <1>2 DEF Orderly, Follows
<1>4. m[i] = [op |-> "run", arg |-> f, by |-> "library"]
  BY <1>1, <1>2, <1>3 DEF Statements
<1> QED
  BY <1>4 DEF Uses, Run, Stmt

\* A method that returns without an exception has done its work: its output is
\* the result, the length it returns was assigned, its input was good; only a
\* BitShuffleNative that was refused a pointer, or whose call of bitshuffle failed
\* and that returns the negative number, may return without either.
THEOREM ReturnAlwaysDone == Spec => []ReturnMeansDone
<1>1. ASSUME NInv, DInv PROVE ReturnMeansDone
  <2> SUFFICES ASSUME NEW t \in Threads, Returning(t), thrown[t] = "none", ~Lost(t),
                      Uses(method[t], "shuffle") => ret[t]
               PROVE  /\ Writes(method[t]) => data[arg[t]["out"]][t] = "new"
                      /\ Uses(method[t], "length") => known[t]
                      /\ Uses(method[t], "uncompress") => input[t] = "good"
    BY DEF ReturnMeansDone, Lost
  <2>1. PICK m : m = method[t]
    OBVIOUS
  <2>2. Native(t) /\ todo[t] = << >> /\ m \in Seq(Statements) /\ Orderly(m)
    BY <1>1, <2>1 DEF Returning, DInv, NInv, TypeInv, Native
  <2>3. OnPath(t)
    BY <2>2 DEF Native, Raised, Branch
  <2>4. Done(m, Len(m), input[t], ret[t], known[t], held[t], null[t], Result(t))
    <3>1. Len(m) - Len(<< >>) = Len(m)
      BY <2>2
    <3> QED
      BY <2>1, <2>2, <2>3, <3>1 DEF OnPath
  <2>5. held[t] = {}
    BY <1>1, <2>2, NothingHeld DEF NInv, ThreadInv
  <2>6. Result(t) = data[arg[t]["out"]][t]
    BY <2>5 DEF Result
  <2>7. PICK p : p = Past(m, Len(m), "run")
    OBVIOUS
  <2>8. /\ p \cap {"convert", "shuffle"} # {} => input[t] = "good"
        /\ "uncompress" \in p => input[t] = "good"
        /\ "length" \in p => input[t] # "badHeader" /\ known[t]
    <3>1. p \cap {"length", "uncompress"} # {} => ret[t]
      BY <2>2, <2>4, <2>7 DEF Orderly, Done
    <3>2. "uncompress" \in p => input[t] = "good"
      BY <2>4, <2>7, <3>1 DEF Done
    <3> QED
      BY <2>4, <2>7, <3>1, <3>2 DEF Done
  <2>9. p \cap Writing # {} => input[t] = "good"
    BY <2>8 DEF Writing
  <2>10. "shuffle" \in p => ret[t]
    BY <2>1, <2>2, <2>7, RunUses
  <2> QED
    BY <2>1, <2>2, <2>4, <2>6, <2>7, <2>8, <2>9, <2>10, UsedAtEnd DEF Done
<1> QED
  BY NativeInvariance, ResultsInvariance, <1>1, PTL
=============================================================================
