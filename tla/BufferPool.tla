----------------------------- MODULE BufferPool -----------------------------
(***************************************************************************)
(* CachingBufferPool: a lock-free pool of buffers shared by every stream   *)
(* of the process.  For each size class it keeps a concurrent deque of     *)
(* soft references; threads poll references from the front, push them at   *)
(* the front, and purge cleared ones from the back, while the garbage      *)
(* collector clears the references of buffers that nobody uses.            *)
(*                                                                         *)
(* The pool has two such maps (byte arrays and direct buffers) that run    *)
(* the same generic code; this module is one of them, with the position    *)
(* of a direct buffer, which releaseDirect resets, kept in moved.          *)
(***************************************************************************)
EXTENDS SizeBuckets, Sequences, FiniteSets, Functions

CONSTANTS Threads,        \* the callers
          Buffers,        \* identities of byte arrays / direct buffers
          Refs,           \* identities of SoftReference objects
          Sizes,          \* the sizes callers ask for, 0 and below included
          ForeignSizes,   \* lengths of buffers that callers make themselves
          NULL

ASSUME SizesAssumption ==
    /\ Sizes \subseteq Int /\ \A s \in Sizes : s <= MAX_VALUE
    /\ ForeignSizes \subseteq 1..MAX_VALUE

ASSUME NullAssumption == NULL \notin Buffers /\ NULL \notin Refs

\* The keys under which getOrCreate may install a deque.
Buckets == {adjustSize(s) : s \in {n \in Sizes : n > 0}}
Capacities == Buckets \union ForeignSizes

VARIABLES installed,   \* the keys present in the ConcurrentHashMap
          queue,       \* queue[k]: the deque of key k, first element first
          referent,    \* referent[r]: what SoftReference r.get() returns
          capacity,    \* capacity[b]: byte length of buffer b
          moved,       \* buffers whose position or limit is not in clear() state
          foreign,     \* buffers that were not created by the pool
          held,        \* held[t]: buffers the caller t works with
          pc,          \* pc[t]: the next statement of t
          size,        \* size[t]: the parameter of t's allocate call, 0 outside one
          key,         \* key[t]: adjustedSize, or the length of the returned buffer
          entry,       \* entry[t]: the local variable entry
          value        \* value[t]: the parameter value of returnValue

vars == <<installed, queue, referent, capacity, moved, foreign, held, pc, size,
          key, entry, value>>

threadVars == <<pc, size, key, entry, value>>
poolVars == <<installed, queue, referent>>
bufferVars == <<capacity, moved, foreign, held>>

PC == {"idle", "rejected", "get", "putIfAbsent", "poll", "deref", "create",
       "lookup", "addFirst", "peekLast", "check", "remove"}

-----------------------------------------------------------------------------
Queued == {r \in Refs : \E k \in Buckets : r \in Range(queue[k])}

\* Taken from a deque by pollFirst and not dereferenced yet.
Polled == {r \in Refs : \E t \in Threads : pc[t] = "deref" /\ entry[t] = r}

\* The references through which some thread may still obtain a buffer.
Obtainable == Queued \union Polled

\* SoftReference objects that are still reachable; the others may be reused as
\* the identity of a new object.
UsedRefs == Queued \union {r \in Refs : \E t \in Threads : entry[t] = r}

\* Buffers some thread has a strong reference to.
Strong == {b \in Buffers : \E t \in Threads : b \in held[t] \/ value[t] = b}

\* Identities available for a new buffer.
FreshBuffers == {b \in Buffers \ Strong : \A r \in UsedRefs : referent[r] # b}

\* ConcurrentLinkedDeque.removeLastOccurrence: SoftReference equality is identity.
RemoveLastOccurrence(q, e) ==
    IF \E i \in 1..Len(q) : q[i] = e
    THEN LET i == CHOOSE i \in 1..Len(q) :
                    q[i] = e /\ \A j \in 1..Len(q) : q[j] = e => j <= i
         IN  SubSeq(q, 1, i - 1) \o SubSeq(q, i + 1, Len(q))
    ELSE q

Goto(t, label) == pc' = [pc EXCEPT ![t] = label]

\* The call of t ends: its parameters are gone.
Return(t) == /\ Goto(t, "idle")
             /\ size' = [size EXCEPT ![t] = 0]
             /\ key' = [key EXCEPT ![t] = 0]

\* t's local variable entry goes out of scope; so does the SoftReference when
\* nothing else leads to it.
DropEntry(t) ==
    /\ entry' = [entry EXCEPT ![t] = NULL]
    /\ referent' = IF entry[t] \in Queued \/ \E u \in Threads \ {t} : entry[u] = entry[t]
                   THEN referent
                   ELSE [referent EXCEPT ![entry[t]] = NULL]

-----------------------------------------------------------------------------
Init ==
    /\ installed = {}
    /\ queue = [k \in Buckets |-> << >>]
    /\ referent = [r \in Refs |-> NULL]
    /\ capacity = [b \in Buffers |-> 0]
    /\ moved = {}
    /\ foreign = {}
    /\ held = [t \in Threads |-> {}]
    /\ pc = [t \in Threads |-> "idle"]
    /\ size = [t \in Threads |-> 0]
    /\ key = [t \in Threads |-> 0]
    /\ entry = [t \in Threads |-> NULL]
    /\ value = [t \in Threads |-> NULL]

-----------------------------------------------------------------------------
(* allocateArray / allocateDirect                                          *)

allocate(t, s) ==
    /\ pc[t] = "idle"
    /\ size' = [size EXCEPT ![t] = s]
    /\ \/ s <= 0 /\ Goto(t, "rejected") /\ UNCHANGED key
       \/ s > 0 /\ Goto(t, "get") /\ key' = [key EXCEPT ![t] = adjustSize(s)]
    /\ UNCHANGED <<entry, value, poolVars, bufferVars>>

\* The IllegalArgumentException reaches the caller.
Reject(t) ==
    /\ pc[t] = "rejected"
    /\ Return(t)
    /\ UNCHANGED <<entry, value, poolVars, bufferVars>>

optimisticGetEntry(t) ==
    /\ pc[t] = "get"
    /\ Goto(t, IF key[t] \in installed THEN "poll" ELSE "putIfAbsent")
    /\ UNCHANGED <<size, key, entry, value, poolVars, bufferVars>>

\* Mutant: map.put in place of putIfAbsent.
PutIfAbsent_Put(t) ==
    /\ pc[t] = "putIfAbsent"
    /\ installed' = installed \union {key[t]}
    /\ queue' = [queue EXCEPT ![key[t]] = << >>]
    /\ Goto(t, "poll")
    /\ UNCHANGED <<referent, size, key, entry, value, bufferVars>>

\* The map.get that follows finds the deque: keys are never removed.
PutIfAbsent(t) ==
    /\ pc[t] = "putIfAbsent"
    /\ installed' = installed \union {key[t]}
    /\ queue' = IF key[t] \in installed THEN queue
                                        ELSE [queue EXCEPT ![key[t]] = << >>]
    /\ Goto(t, "poll")
    /\ UNCHANGED <<referent, size, key, entry, value, bufferVars>>

\* Mutant: peekFirst in place of pollFirst.
PollFirst_Peek(t) ==
    /\ pc[t] = "poll"
    /\ IF queue[key[t]] = << >> THEN Goto(t, "create") /\ UNCHANGED entry
       ELSE Goto(t, "deref") /\ entry' = [entry EXCEPT ![t] = Head(queue[key[t]])]
    /\ UNCHANGED <<queue, installed, referent, size, key, value, bufferVars>>

\* Mutant: the deque is never polled.
PollFirst_Never(t) ==
    /\ pc[t] = "poll"
    /\ Goto(t, "create")
    /\ UNCHANGED <<queue, entry, installed, referent, size, key, value, bufferVars>>

PollFirst(t) ==
    /\ pc[t] = "poll"
    /\ \/ /\ queue[key[t]] = << >>
          /\ Goto(t, "create")
          /\ UNCHANGED <<queue, entry>>
       \/ /\ queue[key[t]] # << >>
          /\ Goto(t, "deref")
          /\ entry' = [entry EXCEPT ![t] = Head(queue[key[t]])]
          /\ queue' = [queue EXCEPT ![key[t]] = Tail(@)]
    /\ UNCHANGED <<installed, referent, size, key, value, bufferVars>>

\* Mutant: a cleared reference is taken for a buffer.
Deref_NoNullCheck(t) ==
    /\ pc[t] = "deref"
    /\ held' = [held EXCEPT ![t] = @ \union {referent[entry[t]]}]
    /\ Return(t)
    /\ DropEntry(t)
    /\ UNCHANGED <<capacity, moved, foreign, value, installed, queue>>

\* entry.get(): the buffer, now strongly held, or null when it was collected.
Deref(t) ==
    /\ pc[t] = "deref"
    /\ LET val == referent[entry[t]]
       IN  \/ val # NULL /\ held' = [held EXCEPT ![t] = @ \union {val}]
                         /\ Return(t)
           \/ val = NULL /\ Goto(t, "poll") /\ UNCHANGED <<held, size, key>>
    /\ DropEntry(t)
    /\ UNCHANGED <<capacity, moved, foreign, value, installed, queue>>

Create(t) ==
    /\ pc[t] = "create"
    /\ \E b \in FreshBuffers :
         /\ held' = [held EXCEPT ![t] = @ \union {b}]
         /\ capacity' = [capacity EXCEPT ![b] = key[t]]
         /\ moved' = moved \ {b}
         /\ foreign' = foreign \ {b}
    /\ Return(t)
    /\ UNCHANGED <<entry, value, poolVars>>

\* new byte[n] or allocateDirect(n) throws OutOfMemoryError.
CreateFails(t) ==
    /\ pc[t] = "create"
    /\ Return(t)
    /\ UNCHANGED <<entry, value, poolVars, bufferVars>>

-----------------------------------------------------------------------------
(* releaseArray / releaseDirect                                            *)

\* Mutant: releaseDirect without buffer.clear().
release_NoClear(t, b) ==
    /\ pc[t] = "idle"
    /\ b \in held[t]
    /\ held' = [held EXCEPT ![t] = @ \ {b}]
    /\ value' = [value EXCEPT ![t] = b]
    /\ key' = [key EXCEPT ![t] = capacity[b]]
    /\ Goto(t, "lookup")
    /\ UNCHANGED <<moved, capacity, foreign, size, entry, poolVars>>

release(t, b) ==
    /\ pc[t] = "idle"
    /\ b \in held[t]
    /\ held' = [held EXCEPT ![t] = @ \ {b}]
    /\ moved' = moved \ {b}
    /\ value' = [value EXCEPT ![t] = b]
    /\ key' = [key EXCEPT ![t] = capacity[b]]
    /\ Goto(t, "lookup")
    /\ UNCHANGED <<capacity, foreign, size, entry, poolVars>>

\* map.get(size); without a deque the buffer is left to the collector.
returnValue(t) ==
    /\ pc[t] = "lookup"
    /\ \/ key[t] \in installed /\ Goto(t, "addFirst") /\ UNCHANGED <<size, key, value>>
       \/ /\ key[t] \notin installed
          /\ Return(t)
          /\ value' = [value EXCEPT ![t] = NULL]
    /\ UNCHANGED <<entry, poolVars, bufferVars>>

AddFirst(t) ==
    /\ pc[t] = "addFirst"
    /\ \E r \in Refs \ UsedRefs :
         /\ referent' = [referent EXCEPT ![r] = value[t]]
         /\ queue' = [queue EXCEPT ![key[t]] = <<r>> \o @]
    /\ value' = [value EXCEPT ![t] = NULL]
    /\ Goto(t, "peekLast")
    /\ UNCHANGED <<installed, size, key, entry, bufferVars>>

PeekLast(t) ==
    /\ pc[t] = "peekLast"
    /\ LET q == queue[key[t]]
       IN  \/ q = << >> /\ Return(t) /\ UNCHANGED entry
           \/ /\ q # << >>
              /\ Goto(t, "check")
              /\ entry' = [entry EXCEPT ![t] = q[Len(q)]]
              /\ UNCHANGED <<size, key>>
    /\ UNCHANGED <<value, poolVars, bufferVars>>

CheckLast(t) ==
    /\ pc[t] = "check"
    /\ \/ /\ referent[entry[t]] = NULL
          /\ Goto(t, "remove")
          /\ UNCHANGED <<referent, size, key, entry>>
       \/ /\ referent[entry[t]] # NULL
          /\ Return(t)
          /\ DropEntry(t)
    /\ UNCHANGED <<value, installed, queue, bufferVars>>

\* Mutant: the cleared entry stays in the deque.
RemoveLast_Keep(t) ==
    /\ pc[t] = "remove"
    /\ entry' = [entry EXCEPT ![t] = NULL]
    /\ Goto(t, "peekLast")
    /\ UNCHANGED <<queue, installed, referent, size, key, value, bufferVars>>

RemoveLast(t) ==
    /\ pc[t] = "remove"
    /\ queue' = [queue EXCEPT ![key[t]] = RemoveLastOccurrence(@, entry[t])]
    /\ entry' = [entry EXCEPT ![t] = NULL]
    /\ Goto(t, "peekLast")
    /\ UNCHANGED <<installed, referent, size, key, value, bufferVars>>

-----------------------------------------------------------------------------
(* What the callers and the collector do.                                  *)

\* The caller reads or writes through the direct buffer.
Use(t, b) ==
    /\ b \in held[t] \ moved
    /\ moved' = moved \union {b}
    /\ UNCHANGED <<capacity, foreign, held, threadVars, poolVars>>

\* A bound of the model: each foreign buffer may add a reference that no
\* allocation has taken away, so callers stop making them when Refs runs short.
RefsToSpare == Cardinality(UsedRefs) + Cardinality(Strong) + Cardinality(Threads)
                 < Cardinality(Refs)

\* A caller makes a buffer without the pool.
MakeOwn(t, n) ==
    /\ pc[t] = "idle"
    /\ RefsToSpare
    /\ \E b \in FreshBuffers :
         /\ held' = [held EXCEPT ![t] = @ \union {b}]
         /\ capacity' = [capacity EXCEPT ![b] = n]
         /\ foreign' = foreign \union {b}
         /\ moved' = moved \ {b}
    /\ UNCHANGED <<threadVars, poolVars>>

\* A caller loses a buffer without releasing it (a stream never closed).
Forget(t, b) ==
    /\ pc[t] = "idle"
    /\ b \in held[t]
    /\ held' = [held EXCEPT ![t] = @ \ {b}]
    /\ UNCHANGED <<capacity, moved, foreign, threadVars, poolVars>>

\* The collector clears every soft reference to an unused buffer, at once.
Collect(b) ==
    /\ b \notin Strong
    /\ \E r \in UsedRefs : referent[r] = b
    /\ referent' = [r \in Refs |-> IF referent[r] = b THEN NULL ELSE referent[r]]
    /\ UNCHANGED <<installed, queue, threadVars, bufferVars>>

-----------------------------------------------------------------------------
\* One statement of a call in progress.
Step(t) ==
    \/ Reject(t) \/ optimisticGetEntry(t) \/ PutIfAbsent(t) \/ PollFirst(t)
    \/ Deref(t) \/ Create(t) \/ CreateFails(t)
    \/ returnValue(t) \/ AddFirst(t) \/ PeekLast(t) \/ CheckLast(t) \/ RemoveLast(t)

Next ==
    \/ \E t \in Threads :
         \/ \E s \in Sizes : allocate(t, s)
         \/ \E b \in Buffers : release(t, b) \/ Use(t, b) \/ Forget(t, b)
         \/ \E n \in ForeignSizes : MakeOwn(t, n)
         \/ Step(t)
    \/ \E b \in Buffers : Collect(b)

Spec == Init /\ [][Next]_vars

\* A running thread keeps running; callers and collector may do as they please.
FairSpec == Spec /\ \A t \in Threads : WF_vars(Step(t))
-----------------------------------------------------------------------------
TypeOK ==
    /\ installed \subseteq Buckets
    /\ queue \in [Buckets -> Seq(Refs)]
    /\ referent \in [Refs -> Buffers \union {NULL}]
    /\ capacity \in [Buffers -> Capacities \union {0}]
    /\ moved \subseteq Buffers
    /\ foreign \subseteq Buffers
    /\ held \in [Threads -> SUBSET Buffers]
    /\ pc \in [Threads -> PC]
    /\ size \in [Threads -> Sizes \union {0}]
    /\ key \in [Threads -> Capacities \union {0}]
    /\ entry \in [Threads -> Refs \union {NULL}]
    /\ value \in [Threads -> Buffers \union {NULL}]

\* Two callers never work with the same buffer, and no buffer in use can be
\* obtained from the pool, however getOrCreate, returnValue and the collector
\* interleave (BufferPool: "must be safe for concurrent use").
Exclusive ==
    /\ \A t, u \in Threads : t # u => held[t] \intersect held[u] = {}
    /\ \A r \in Obtainable : referent[r] \notin Strong

\* The purge at the end of returnValue and the first installation of a deque
\* never lose a buffer that could be reused: a reference that is still live
\* leaves its deque only into the hands of a thread that polled it.
NoLiveEntryLost ==
    [][\A r \in Queued \ Queued' : referent[r] # NULL => r \in Polled']_vars

\* A buffer handed out by getOrCreate has at least the size asked for, reused
\* or new, and its position and limit are those of a new buffer.
HandedOutUsable ==
    [][\A t \in Threads : \A b \in (held'[t] \ held[t]) \ foreign' :
         capacity'[b] >= size[t] /\ b \notin moved']_vars

\* Purging only at the tail is enough: a deque never holds more references,
\* cleared ones included, than buffers were in use at one time plus one for
\* every other thread inside an allocation.
QueueBounded ==
    \A k \in Buckets : Len(queue[k]) < Cardinality(Buffers) + Cardinality(Threads)

\* The pool as a whole is never stuck: however threads interfere, some call
\* returns again and again (lock freedom of the poll and purge loops).
LockFree == []<>(\E t \in Threads : pc[t] = "idle")

-----------------------------------------------------------------------------
(* What the code relies on, strong enough to be inductive.                 *)

\* Which locals are set at which statement, and that the key a thread works with
\* has a deque: nothing removes one.
Located ==
    \A t \in Threads :
      /\ entry[t] # NULL <=> pc[t] \in {"deref", "check", "remove"}
      /\ value[t] # NULL <=> pc[t] \in {"lookup", "addFirst"}
      /\ pc[t] \in {"get", "putIfAbsent", "poll", "deref", "create"} =>
           size[t] \in Sizes /\ size[t] > 0 /\ key[t] = adjustSize(size[t])
      /\ pc[t] \in {"idle", "lookup", "addFirst", "peekLast", "check", "remove"} => size[t] = 0
      /\ pc[t] \in {"poll", "deref", "create", "addFirst", "peekLast", "check", "remove"} =>
           key[t] \in installed
      /\ value[t] # NULL => key[t] = capacity[value[t]]

\* A reference is in at most one deque, at one place, and a polled one in none.
OnePlace ==
    /\ \A k \in Buckets : IsInjective(queue[k]) /\ (k \notin installed => queue[k] = << >>)
    /\ \A k, l \in Buckets : k # l => Range(queue[k]) \intersect Range(queue[l]) = {}
    /\ \A t \in Threads : pc[t] = "deref" =>
         /\ \A k \in Buckets : entry[t] \notin Range(queue[k])
         /\ \A u \in Threads \ {t} : pc[u] = "deref" => entry[u] # entry[t]

\* At most one reference leads to a buffer.
OneReference ==
    \A r, s \in Obtainable : referent[r] # NULL /\ referent[r] = referent[s] => r = s

\* A buffer on its way back belongs to the thread that returns it.
OneReturner ==
    \A t, u \in Threads : value[t] # NULL =>
      value[t] \notin held[u] /\ (t # u => value[t] # value[u])

\* A buffer in a deque has that deque's length and is ready for use; so has the
\* one a thread is about to take or to give back.
Filed ==
    /\ \A k \in Buckets : \A r \in Range(queue[k]) : referent[r] # NULL =>
         capacity[referent[r]] = k /\ referent[r] \notin moved
    /\ \A t \in Threads :
         /\ pc[t] = "deref" /\ referent[entry[t]] # NULL =>
              capacity[referent[entry[t]]] = key[t] /\ referent[entry[t]] \notin moved
         /\ value[t] # NULL => value[t] \notin moved

\* What returnValue removes from the tail is a cleared reference.
RemovesCleared == \A t \in Threads : pc[t] = "remove" => referent[entry[t]] = NULL

\* The invariant of CachingBufferPool: references, deques and buffers match
\* one to one at every statement of every thread.
IndInv == /\ TypeOK /\ Located /\ OnePlace /\ OneReference /\ OneReturner
          /\ Exclusive /\ Filed /\ RemovesCleared

-----------------------------------------------------------------------------
\* CachingBufferPool implements the contract of BufferPool: a buffer belongs to
\* the thread that is returning it until the deque has it, and the spare ones
\* are those that a queued or polled reference leads to.
Contract == INSTANCE PoolContract WITH
    Sizes <- Sizes \union {0},
    Capacities <- Capacities \union {0},
    owned <- [t \in Threads |-> held[t] \union ({value[t]} \ {NULL})],
    spare <- {b \in Buffers : \E r \in Obtainable : referent[r] = b},
    want <- size
ImplementsContract == Contract!Spec
=============================================================================
