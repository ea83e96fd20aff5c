---------------------------- MODULE NativeCalls ----------------------------
(***************************************************************************)
(* SnappyNative.cpp and BitShuffleNative.cpp: the native methods, called   *)
(* by several Java threads on arrays that the garbage collector moves.     *)
(*                                                                         *)
(* A native method is the sequence of the JNI and library calls it makes;  *)
(* a thread in it holds the part that is still to do.  A test that fails   *)
(* replaces that part by the statements of its branch.                     *)
(*                                                                         *)
(* The JVM is external.  A JVM that pins hands out the place of the array  *)
(* and collects only while no thread is in a critical region; threads      *)
(* that want to enter one, or run Java code, wait for a pending            *)
(* collection.  A JVM that copies hands out a copy and writes it back      *)
(* when it is released (mode 0).  The snappy and bitshuffle libraries are  *)
(* external too.                                                           *)
(***************************************************************************)
EXTENDS Sequences, Naturals

CONSTANTS Threads,
          Arrays,      \* primitive arrays in the Java heap
          Buffers,     \* direct ByteBuffers, or memory known by its address
          Callable     \* the native methods that each thread calls

ASSUME ObjectsAssumption == Arrays \cap Buffers = {}

Objects == Arrays \cup Buffers
Args == {"in", "out"}

-----------------------------------------------------------------------------
(* The statements of a native method.                                      *)

Stmt(op, arg, by) == [op |-> op, arg |-> arg, by |-> by]

Pin(a) == Stmt("pin", a, "jvm")            \* a = env->GetPrimitiveArrayCritical(...)
Locate(a) == Stmt("locate", a, "jvm")      \* a = env->GetDirectBufferAddress(...)
Release(a) == Stmt("release", a, "jvm")    \* env->ReleasePrimitiveArrayCritical(a, 0)
Run(f) == Stmt("run", f, "library")        \* a call of the library
Need(e, who) == Stmt("need", e, who)       \* if(in == 0 || out == 0) { ...; throw e }
Check(e) == Stmt("check", e, "snappy")     \* if(!ret) { throw e }
Throw(e, who) == Stmt("throw", e, who)     \* throw_exception(env, self, e)

\* SnappyNative.  "convert" is RawCompress or memcpy, which cannot fail.
rawCompress_JJJ == <<Run("convert")>>

rawUncompress_JJJ ==
    <<Run("length"), Run("uncompress"), Check("FAILED_TO_UNCOMPRESS")>>

rawCompress_ByteBuffer ==
    <<Locate("in"), Locate("out"), Need("NOT_A_DIRECT_BUFFER", "snappy"), Run("convert")>>

rawCompress_Object ==
    <<Pin("in"), Pin("out"), Need("OUT_OF_MEMORY", "snappy"),
      Run("convert"), Release("in"), Release("out")>>

\* Mutant of rawUncompress_Object: the arrays are released before they are used.
rawUncompress_Object_ReleaseEarly ==
    <<Pin("in"), Pin("out"), Need("OUT_OF_MEMORY", "snappy"), Run("length"),
      Release("in"), Release("out"), Run("uncompress"), Check("FAILED_TO_UNCOMPRESS")>>

\* Mutant: the result is tested before the arrays are released.
rawUncompress_Object_CheckEarly ==
    <<Pin("in"), Pin("out"), Need("OUT_OF_MEMORY", "snappy"),
      Run("length"), Run("uncompress"), Check("FAILED_TO_UNCOMPRESS"),
      Release("in"), Release("out")>>

rawUncompress_Object ==
    <<Pin("in"), Pin("out"), Need("OUT_OF_MEMORY", "snappy"),
      Run("length"), Run("uncompress"), Release("in"), Release("out"),
      Check("FAILED_TO_UNCOMPRESS")>>

rawUncompress_ByteBuffer ==
    <<Locate("in"), Locate("out"), Need("NOT_A_DIRECT_BUFFER", "snappy"),
      Run("length"), Run("uncompress"), Check("FAILED_TO_UNCOMPRESS")>>

uncompressedLength_ByteBuffer ==
    <<Locate("in"), Need("NOT_A_DIRECT_BUFFER", "snappy"), Run("length"),
      Check("PARSING_ERROR")>>

uncompressedLength_Object ==
    <<Pin("in"), Need("OUT_OF_MEMORY", "snappy"), Run("length"), Release("in"),
      Check("PARSING_ERROR")>>

uncompressedLength_JJ == <<Run("length"), Check("PARSING_ERROR")>>

\* isValidCompressedBuffer returns what the library says.
isValidCompressedBuffer_ByteBuffer ==
    <<Locate("in"), Need("NOT_A_DIRECT_BUFFER", "snappy"), Run("validate")>>

isValidCompressedBuffer_Object ==
    <<Pin("in"), Need("OUT_OF_MEMORY", "snappy"), Run("validate"), Release("in")>>

\* The address itself is tested.
isValidCompressedBuffer_JJJ ==
    <<Locate("in"), Need("OUT_OF_MEMORY", "snappy"), Run("validate")>>

\* Mutant: the output is released first.
arrayCopy_OutFirst ==
    <<Pin("in"), Pin("out"), Need("OUT_OF_MEMORY", "snappy"),
      Run("convert"), Release("out"), Release("in")>>

arrayCopy ==
    <<Pin("in"), Pin("out"), Need("OUT_OF_MEMORY", "snappy"),
      Run("convert"), Release("in"), Release("out")>>

\* BitShuffleNative.  "shuffle" is bshuf_bitshuffle or bshuf_bitunshuffle; a negative
\* result is not tested but becomes the result of the method.
shuffle ==
    <<Pin("in"), Pin("out"), Need("OUT_OF_MEMORY", "bitshuffle"),
      Run("shuffle"), Release("in"), Release("out")>>

shuffleDirectBuffer ==
    <<Locate("in"), Locate("out"), Need("NOT_A_DIRECT_BUFFER", "bitshuffle"), Run("shuffle")>>

unshuffle ==
    <<Pin("in"), Pin("out"), Need("OUT_OF_MEMORY", "bitshuffle"),
      Run("shuffle"), Release("in"), Release("out")>>

unshuffleDirectBuffer ==
    <<Locate("in"), Locate("out"), Need("NOT_A_DIRECT_BUFFER", "bitshuffle"), Run("shuffle")>>

ArrayMethods == {rawCompress_Object, rawUncompress_Object, uncompressedLength_Object,
                 isValidCompressedBuffer_Object, arrayCopy, shuffle, unshuffle}
BufferMethods == {rawCompress_ByteBuffer, rawUncompress_ByteBuffer,
                  uncompressedLength_ByteBuffer, isValidCompressedBuffer_ByteBuffer,
                  shuffleDirectBuffer, unshuffleDirectBuffer,
                  rawCompress_JJJ, rawUncompress_JJJ, uncompressedLength_JJ,
                  isValidCompressedBuffer_JJJ}
Methods == ArrayMethods \cup BufferMethods

ASSUME CallableAssumption == Callable \in [Threads -> SUBSET Methods]

-----------------------------------------------------------------------------
VARIABLES
    copying,     \* this JVM hands out copies of arrays
    gc,          \* a collection is pending
    where,       \* the place of the arrays, which a collection changes
    data,        \* what thread t's part of an object holds: "old", "new", "partial"
    wild,        \* the library was run on memory that is not the argument's
    method,      \* the native method each thread is in, << >> in Java code
    todo,        \* what it has still to do
    arg,         \* its arguments
    input,       \* what the library found in its input, "unread" before
    held,        \* arguments in critical access
    null,        \* arguments for which the JVM returned 0
    place,       \* the place that was handed out for a pinned argument
    copy,        \* the copy that was handed out
    ret, known,  \* ret of the library, or its number is not negative; the length was assigned
    thrown       \* the pending exception

jvmVars == <<copying, gc, where>>
callVars == <<method, arg, input>>
accessVars == <<held, null, place, copy>>
resultVars == <<ret, known, thrown>>
vars == <<jvmVars, data, wild, callVars, todo, accessVars, resultVars>>

InJava(t) == method[t] = << >>
Returning(t) == ~InJava(t) /\ todo[t] = << >>
Now(t) == Head(todo[t])
At(t, op) == todo[t] # << >> /\ Now(t).op = op
Advance(t) == todo' = [todo EXCEPT ![t] = Tail(@)]

Writing == {"convert", "uncompress", "shuffle"}
Writes(m) == \E i \in 1..Len(m) : \E f \in Writing : m[i] = Run(f)
Uses(m, f) == \E i \in 1..Len(m) : m[i] = Run(f)
NoArgs == [a \in Args |-> "none"]
Untouched == [t \in Threads |-> "old"]

Init ==
    /\ copying \in BOOLEAN
    /\ gc = FALSE
    /\ where = 0
    /\ data = [o \in Objects |-> Untouched]
    /\ wild = FALSE
    /\ method = [t \in Threads |-> << >>]
    /\ todo = [t \in Threads |-> << >>]
    /\ arg = [t \in Threads |-> NoArgs]
    /\ input = [t \in Threads |-> "unread"]
    /\ held = [t \in Threads |-> {}]
    /\ null = [t \in Threads |-> {}]
    /\ place = [t \in Threads |-> [a \in Args |-> 0]]
    /\ copy = [t \in Threads |-> [a \in Args |-> Untouched]]
    /\ ret = [t \in Threads |-> TRUE]
    /\ known = [t \in Threads |-> FALSE]
    /\ thrown = [t \in Threads |-> "none"]

\* A Java thread calls method m with input i and output o.  Concurrent calls
\* write disjoint parts of an object; where arrays are copied they must not
\* share an array that one of them writes.
Call(t, m, i, o) ==
    /\ InJava(t) /\ thrown[t] # "crash"
    /\ Writes(m) \/ o = i
    /\ copying => \A u \in Threads \ {t} : ~InJava(u) =>
                     /\ Writes(m) => o \notin {arg[u][a] : a \in Args}
                     /\ Writes(method[u]) => arg[u]["out"] \notin {i, o}
    /\ method' = [method EXCEPT ![t] = m]
    /\ todo' = [todo EXCEPT ![t] = m]
    /\ arg' = [arg EXCEPT ![t] = [a \in Args |-> IF a = "in" THEN i ELSE o]]
    /\ UNCHANGED <<jvmVars, data, wild, input, accessVars, resultVars>>

\* The method returns; the caller takes the result out of its part of the
\* output, or handles the exception.
Return(t) ==
    /\ Returning(t)
    /\ method' = [method EXCEPT ![t] = << >>]
    /\ arg' = [arg EXCEPT ![t] = NoArgs]
    /\ input' = [input EXCEPT ![t] = "unread"]
    /\ data' = [data EXCEPT ![arg[t]["out"]][t] = "old"]
    /\ null' = [null EXCEPT ![t] = {}]
    /\ ret' = [ret EXCEPT ![t] = TRUE]
    /\ known' = [known EXCEPT ![t] = FALSE]
    /\ thrown' = [thrown EXCEPT ![t] = IF @ = "crash" THEN @ ELSE "none"]
    /\ UNCHANGED <<jvmVars, wild, todo, held, place, copy>>

\* GetPrimitiveArrayCritical: enters a critical region, or returns 0.  Only
\* the first entry of a thread waits for a pending collection.
GetPrimitiveArrayCritical(t) ==
    /\ At(t, "pin")
    /\ copying \/ ~gc \/ held[t] # {}
    /\ LET a == Now(t).arg
           o == arg[t][a]
       IN  \/ /\ held' = [held EXCEPT ![t] = @ \cup {a}]
              /\ IF copying THEN copy' = [copy EXCEPT ![t][a] = data[o]] /\ UNCHANGED place
                            ELSE place' = [place EXCEPT ![t][a] = where] /\ UNCHANGED copy
              /\ UNCHANGED null
           \/ /\ null' = [null EXCEPT ![t] = @ \cup {a}]
              /\ UNCHANGED <<held, place, copy>>
    /\ Advance(t)
    /\ UNCHANGED <<jvmVars, data, wild, callVars, resultVars>>

\* GetDirectBufferAddress returns 0 for a buffer that is not direct.
GetDirectBufferAddress(t) ==
    /\ At(t, "locate")
    /\ null' \in {null, [null EXCEPT ![t] = @ \cup {Now(t).arg}]}
    /\ Advance(t)
    /\ UNCHANGED <<jvmVars, data, wild, callVars, held, place, copy, resultVars>>

\* ReleasePrimitiveArrayCritical with mode 0 writes a copy back.
ReleasePrimitiveArrayCritical(t) ==
    /\ At(t, "release")
    /\ LET a == Now(t).arg
       IN  /\ held' = [held EXCEPT ![t] = @ \ {a}]
           /\ data' = IF copying THEN [data EXCEPT ![arg[t][a]] = copy[t][a]] ELSE data
           /\ place' = [place EXCEPT ![t][a] = 0]
           /\ copy' = [copy EXCEPT ![t][a] = Untouched]
    /\ Advance(t)
    /\ UNCHANGED <<jvmVars, wild, callVars, null, resultVars>>

\* The releases for the arguments that were given.
GiveBack(t) == (IF "in" \in held[t] THEN <<Release("in")>> ELSE << >>)
                 \o (IF "out" \in held[t] THEN <<Release("out")>> ELSE << >>)

\* Mutant: the exception is raised before the other array is released.
TestPointers_ThrowFirst(t) ==
    /\ At(t, "need")
    /\ LET s == Now(t)
       IN  IF null[t] = {} THEN Advance(t)
           ELSE todo' = [todo EXCEPT ![t] = <<Throw(s.arg, s.by)>> \o GiveBack(t)]
    /\ UNCHANGED <<jvmVars, data, wild, callVars, accessVars, resultVars>>

\* if(in == 0 || out == 0): what was given is released, then the exception.
TestPointers(t) ==
    /\ At(t, "need")
    /\ LET s == Now(t)
       IN  IF null[t] = {} THEN Advance(t)
                           ELSE todo' = [todo EXCEPT ![t] = GiveBack(t) \o <<Throw(s.arg, s.by)>>]
    /\ UNCHANGED <<jvmVars, data, wild, callVars, accessVars, resultVars>>

\* The memory behind argument a is the argument's own.
Valid(t, a) == LET o == arg[t][a]
               IN  o \in Arrays => a \in held[t] /\ (copying \/ place[t][a] = where)

\* What a call f of the library may say of an input of quality q.  The calls of
\* bitshuffle take any input, and may fail for lack of memory.
Verdicts(f, q) == CASE f = "convert" -> {TRUE}
                    [] f = "shuffle" -> BOOLEAN
                    [] f = "length" -> {q # "badHeader"}
                    [] OTHER -> {q = "good"}

\* The library reads the input, whose quality shows at the first reading, and
\* writes the output of thread t, or a part of it before it fails.
RunLibrary(t) ==
    /\ At(t, "run")
    /\ \E q \in {"good", "badHeader", "badBody"} : \E accepted \in Verdicts(Now(t).arg, q) :
         LET f == Now(t).arg
             outcome == IF accepted THEN "new" ELSE "partial"
             o == arg[t]["out"]
         IN  /\ (f \in {"convert", "shuffle"} => q = "good") /\ input[t] \in {"unread", q}
             /\ input' = [input EXCEPT ![t] = q]
             /\ ret' = [ret EXCEPT ![t] = accepted]
             /\ known' = [known EXCEPT ![t] = @ \/ (f = "length" /\ accepted)]
             /\ \/ /\ f \in {"length", "validate"}
                   /\ wild' = (wild \/ ~Valid(t, "in"))
                   /\ UNCHANGED <<data, copy>>
                \/ /\ f \in Writing
                   /\ wild' = (wild \/ ~Valid(t, "in") \/ ~Valid(t, "out"))
                   /\ IF copying /\ o \in Arrays
                      THEN copy' = [copy EXCEPT ![t]["out"][t] = outcome] /\ UNCHANGED data
                      ELSE data' = [data EXCEPT ![o][t] = outcome] /\ UNCHANGED copy
    /\ Advance(t)
    /\ UNCHANGED <<jvmVars, method, arg, held, null, place, thrown>>

\* if(!ret): the exception, then return.
TestResult(t) ==
    /\ At(t, "check")
    /\ IF ret[t] THEN Advance(t)
                 ELSE todo' = [todo EXCEPT ![t] = <<Throw(Now(t).arg, Now(t).by)>>]
    /\ UNCHANGED <<jvmVars, data, wild, callVars, accessVars, resultVars>>

\* throw_exception of SnappyNative.cpp runs throw_error, which is Java code.
throw_exception(t) ==
    /\ At(t, "throw") /\ Now(t).by = "snappy"
    /\ ~gc
    /\ thrown' = [thrown EXCEPT ![t] = Now(t).arg]
    /\ Advance(t)
    /\ UNCHANGED <<jvmVars, data, wild, callVars, accessVars, ret, known>>

\* throw_exception of BitShuffleNative.cpp calls the method of SnappyNative on
\* a BitShuffleNative: it may throw, do something else, or end the process.
throw_exception_BitShuffle(t) ==
    /\ At(t, "throw") /\ Now(t).by = "bitshuffle"
    /\ ~gc
    /\ \E e \in {Now(t).arg, "none", "crash"} : thrown' = [thrown EXCEPT ![t] = e]
    /\ Advance(t)
    /\ UNCHANGED <<jvmVars, data, wild, callVars, accessVars, ret, known>>

\* Some allocation in the JVM asks for a collection, perhaps again.
RequestCollection ==
    /\ gc' = TRUE
    /\ UNCHANGED <<copying, where, data, wild, callVars, todo, accessVars, resultVars>>

\* The collector runs, moving the arrays.
Collect ==
    /\ gc
    /\ copying \/ \A t \in Threads : held[t] = {}
    /\ gc' = FALSE
    /\ where' = IF copying THEN where ELSE 1 - where
    /\ UNCHANGED <<copying, data, wild, callVars, todo, accessVars, resultVars>>

Enter(t) ==
    \/ \E m \in ArrayMethods \cap Callable[t], i, o \in Arrays : Call(t, m, i, o)
    \/ \E m \in BufferMethods \cap Callable[t], i, o \in Buffers : Call(t, m, i, o)

Step(t) ==
    \/ GetPrimitiveArrayCritical(t) \/ GetDirectBufferAddress(t)
    \/ ReleasePrimitiveArrayCritical(t)
    \/ TestPointers(t) \/ RunLibrary(t) \/ TestResult(t)
    \/ throw_exception(t) \/ throw_exception_BitShuffle(t)
    \/ Return(t)

Next == \/ \E t \in Threads : Enter(t) \/ Step(t)
        \/ RequestCollection
        \/ Collect

Spec == Init /\ [][Next]_vars

\* Native code is not delayed for ever, and a collection that can start does.
FairSpec == /\ Spec
            /\ \A t \in Threads : WF_vars(Step(t))
            /\ WF_vars(Collect)

-----------------------------------------------------------------------------
\* Every critical region is left on every path of every native method: a
\* thread that has returned to Java holds no array, and neither does one that
\* is about to run Java code in throw_exception, which may have to wait for
\* the collector that waits for the thread.
RegionsClosed ==
    \A t \in Threads : todo[t] = << >> \/ At(t, "throw") => held[t] = {}

\* The library is only run on memory that still belongs to the arguments: the
\* collector has not moved an array between its pinning and its use.
MemoryValid == ~wild

\* A method that returns without an exception has done its work: the caller's
\* output holds the result, even when both arguments are the same array and
\* the JVM works on copies; the length it returns was assigned, although
\* rawUncompress ignores what GetUncompressedLength returns; the input was what
\* it should be.  There are two exceptions, both in BitShuffleNative.  Its
\* throw_exception is called on the wrong object and may not throw, so that a refused
\* pointer may be lost (the method returns 0); and a failure of the library is told
\* only by the number returned, which is negative then.  BitShuffle.java tests these
\* numbers in assert statements alone.
ReturnMeansDone ==
    \A t \in Threads :
       (Returning(t) /\ thrown[t] = "none") =>
          LET m == method[t]
              lost == null[t] # {} /\ \E i \in 1..Len(m) : m[i].by = "bitshuffle"
              told == Uses(m, "shuffle") /\ ~ret[t]
          IN  \/ lost
              \/ told
              \/ /\ Writes(m) => data[arg[t]["out"]][t] = "new"
                 /\ Uses(m, "length") => known[t]
                 /\ Uses(m, "uncompress") => input[t] = "good"

\* Critical regions end and pending collections run: no thread waits inside a
\* critical region for the collection that waits for it.
CollectorNotBlocked == gc ~> ~gc
=============================================================================
