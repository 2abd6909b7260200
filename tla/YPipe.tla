------------------------------- MODULE YPipe -------------------------------
(***************************************************************************)
(* ypipe_t, the lock-free queue under every pipe and mailbox of ZeroMQ     *)
(* (ExternalLib/libzmq/src/ypipe.hpp), with the chunked memory of yqueue_t *)
(* (yqueue.hpp) it is built on.  One thread writes, one thread reads; the  *)
(* atomic pointer _c and the spare chunk are all they share.  A step of    *)
(* either thread holds at most one access to shared memory.  The pointers  *)
(* are addresses: a chunk that is freed, or kept as the spare one, can     *)
(* come back under the same address while older pointers are still held.   *)
(* Sequentially consistent memory is assumed (atomic_ptr_t is acq_rel).    *)
(***************************************************************************)
EXTENDS Naturals, Sequences, FiniteSets

CONSTANTS Items,    \* what is written
          Partial,  \* the items that are written as incomplete ones
          N,        \* the granularity: slots of a chunk
          Chunks,   \* the addresses allocate_chunk may return
          MaxItems, \* bound: items in the queue at once
          Nothing   \* the content of a slot nobody has written, NULL

ASSUME YPipeAssumption == /\ N \in Nat \ {0}
                          /\ MaxItems \in Nat
                          /\ Partial \subseteq Items
                          /\ Nothing \notin Items
                          /\ Nothing \notin Chunks /\ Nothing \notin Chunks \X (0 .. N - 1)

VARIABLES
  chunks,    \* the linked chunks, from _begin_chunk to _end_chunk
  beginPos,  \* _begin_pos
  endPos,    \* _end_pos
  back,      \* the slot _back_chunk->values[_back_pos]
  spare,     \* _spare_chunk
  values,    \* the contents of the slots
  w, f, r, c,\* _w, _f, _r and _c
  flushing,  \* the writer is in flush, its compare-and-swap has failed
  inActive,  \* the user of the reading side has not seen the queue empty
  owed,      \* a flush has returned false, the reader is being woken up
  read       \* the item read last

queueVars == <<chunks, beginPos, endPos, back, spare, values>>
vars == <<chunks, beginPos, endPos, back, spare, values,
          w, f, r, c, flushing, inActive, owed, read>>

Slots == Chunks \X (0 .. N - 1)
NULL == Nothing
-----------------------------------------------------------------------------
(* The positions the queue spans, from its front: the I-th slot of the     *)
(* linked chunks.                                                          *)
front == <<Head(chunks), beginPos>>
Slot(i) == <<chunks[1 + ((beginPos + i) \div N)], (beginPos + i) % N>>
Span == N * Len(chunks) - beginPos
\* How far behind the front a pointer is.
Distance(p) == CHOOSE i \in 0 .. Span - 1 : Slot(i) = p

\* The chunk _end_chunk->next points to after a push that fills the last one:
\* the spare chunk, or one that the allocator returns.
Used == {chunks[i] : i \in DOMAIN chunks} \cup {spare}
NextChunk == IF spare # NULL THEN {spare} ELSE Chunks \ Used

\* ++pos, and 0 at the end of a chunk.
Advanced(pos) == (pos + 1) % N

\* Mutant: the spare chunk is taken without being removed.
PushKeepsSpare ==
    /\ back' = <<chunks[Len(chunks)], endPos>>
    /\ endPos' = Advanced(endPos)
    /\ IF endPos + 1 # N THEN UNCHANGED chunks
       ELSE \E chunk \in NextChunk : chunks' = Append(chunks, chunk)
    /\ UNCHANGED spare

\* yqueue_t::push: back moves to end, end one further; at the end of the last
\* chunk another one is linked, the spare one if there is one.
Push ==
    /\ back' = <<chunks[Len(chunks)], endPos>>
    /\ endPos' = Advanced(endPos)
    /\ IF endPos + 1 # N THEN UNCHANGED <<chunks, spare>>
       ELSE /\ \E chunk \in NextChunk : chunks' = Append(chunks, chunk)
            /\ spare' = NULL

\* yqueue_t::unpush: back and end move one slot back, an end chunk that is
\* left is freed.
BackChunk == CHOOSE i \in DOMAIN chunks : chunks[i] = back[1]
Unpush ==
    /\ back' = IF back[2] # 0 THEN <<back[1], back[2] - 1>>
               ELSE <<chunks[BackChunk - 1], N - 1>>
    /\ IF endPos # 0
         THEN /\ endPos' = endPos - 1
              /\ UNCHANGED chunks
         ELSE /\ endPos' = N - 1
              /\ chunks' = SubSeq(chunks, 1, Len(chunks) - 1)
    /\ UNCHANGED spare

\* yqueue_t::pop: a chunk that has been read to its end becomes the spare one,
\* the spare one it replaces is freed.
Pop ==
    /\ beginPos' = Advanced(beginPos)
    /\ IF beginPos + 1 # N THEN UNCHANGED <<chunks, spare>>
       ELSE /\ chunks' = Tail(chunks)
            /\ spare' = Head(chunks)
-----------------------------------------------------------------------------
\* The constructors: one slot is pushed as the terminator and every pointer
\* points to it.
Init ==
    /\ IF N > 1 THEN \E chunk \in Chunks : chunks = <<chunk>>
       ELSE \E chunk \in Chunks : \E next \in Chunks \ {chunk} : chunks = <<chunk, next>>
    /\ endPos = 1 % N
    /\ beginPos = 0
    /\ back = front
    /\ spare = NULL
    /\ values = [s \in Slots |-> Nothing]
    /\ w = back /\ f = back /\ r = back /\ c = back
    /\ flushing = FALSE
    /\ inActive = TRUE
    /\ owed = FALSE
    /\ read = Nothing

\* write: the item goes into the terminator, a new terminator is pushed; an
\* incomplete item is not to be flushed yet.
Write(item) ==
    /\ ~flushing
    /\ Distance(back) < MaxItems
    /\ values' = [values EXCEPT ![back] = item]
    /\ Push
    /\ f' = IF item \in Partial THEN f ELSE back'
    /\ UNCHANGED <<beginPos, w, r, c, flushing, inActive, owed, read>>

\* unwrite, when there is an incomplete item.
Unwrite ==
    /\ ~flushing
    /\ f # back
    /\ Unpush
    /\ values' = [values EXCEPT ![back'] = Nothing]
    /\ UNCHANGED <<beginPos, w, f, r, c, flushing, inActive, owed, read>>

\* flush, its compare-and-swap: c moves from w to f unless the reader has
\* put it to NULL.
FlushCas ==
    /\ ~flushing
    /\ w # f
    /\ IF c = w
         THEN /\ c' = f
              /\ w' = f
              /\ UNCHANGED flushing
         ELSE /\ flushing' = TRUE
              /\ UNCHANGED <<c, w>>
    /\ UNCHANGED <<queueVars, f, r, inActive, owed, read>>

\* Mutant: the failed flush forgets to say so.
FlushSetSilent ==
    /\ flushing
    /\ c' = f
    /\ w' = f
    /\ flushing' = FALSE
    /\ UNCHANGED <<queueVars, f, r, inActive, owed, read>>

\* flush, after the compare-and-swap has failed: the reader is asleep, c is
\* set and false is returned, on which the caller wakes the reader up.
FlushSet ==
    /\ flushing
    /\ c' = f
    /\ w' = f
    /\ flushing' = FALSE
    /\ owed' = TRUE
    /\ UNCHANGED <<queueVars, f, r, inActive, read>>

Prefetched == front # r /\ r # NULL

\* Mutant: c is put to NULL although what it points past has not been read.
PrefetchBlind ==
    /\ inActive
    /\ ~Prefetched
    /\ r' = c
    /\ c' = IF c = w THEN NULL ELSE c
    /\ inActive' = (r' # front /\ r' # NULL)
    /\ UNCHANGED <<queueVars, w, f, flushing, owed, read>>

\* check_read when nothing is prefetched: its compare-and-swap fetches c, or
\* puts it to NULL when there is nothing to fetch; then the caller stops
\* reading until it is woken up.
Prefetch ==
    /\ inActive
    /\ ~Prefetched
    /\ r' = c
    /\ c' = IF c = front THEN NULL ELSE c
    /\ inActive' = (r' # front /\ r' # NULL)
    /\ UNCHANGED <<queueVars, w, f, flushing, owed, read>>

\* read, once check_read has something prefetched.
Read ==
    /\ inActive
    /\ Prefetched
    /\ read' = values[front]
    /\ values' = [values EXCEPT ![front] = Nothing]
    /\ Pop
    /\ UNCHANGED <<endPos, back, w, f, r, c, flushing, inActive, owed>>

\* The wake-up that the writer owes reaches the reader.
WakeUp ==
    /\ owed
    /\ owed' = FALSE
    /\ inActive' = TRUE
    /\ UNCHANGED <<queueVars, w, f, r, c, flushing, read>>

Next == \/ \E item \in Items : Write(item)
        \/ Unwrite \/ FlushCas \/ FlushSet
        \/ Prefetch \/ Read \/ WakeUp

\* Fairness: the reader goes on reading until it finds the queue empty, a
\* flush that has begun ends, a wake-up that is owed is delivered.
Fairness == WF_vars(Prefetch) /\ WF_vars(Read) /\ WF_vars(FlushSet) /\ WF_vars(WakeUp)

Spec == Init /\ [][Next]_vars /\ Fairness
-----------------------------------------------------------------------------
TypeOK ==
    /\ chunks \in Seq(Chunks) /\ chunks # << >>
    /\ beginPos \in 0 .. N - 1 /\ endPos \in 0 .. N - 1
    /\ back \in Slots /\ w \in Slots /\ f \in Slots
    /\ r \in Slots \cup {NULL} /\ c \in Slots \cup {NULL}
    /\ spare \in Chunks \cup {NULL}
    /\ values \in [Slots -> Items \cup {Nothing}]
    /\ flushing \in BOOLEAN /\ inActive \in BOOLEAN /\ owed \in BOOLEAN
    /\ read \in Items \cup {Nothing}

\* No chunk is linked twice, and the spare chunk is not linked: the reader and
\* the writer exchange chunks (yqueue.hpp, push and pop) without ever holding
\* the same memory.
ChunksDisjoint ==
    /\ \A i, j \in DOMAIN chunks : chunks[i] = chunks[j] => i = j
    /\ \A i \in DOMAIN chunks : chunks[i] # spare

\* Every pointer either thread still compares is a slot of the linked chunks,
\* in the order front, r, w, f, back, and c is w or NULL while no flush is
\* half done (all have their types, too); so comparing addresses (ypipe.hpp, flush and check_read) is
\* comparing positions, though memory is reused.
PointersInOrder ==
    LET live == {Slot(i) : i \in 0 .. Span - 1} IN
    /\ TypeOK
    /\ {w, f, back} \subseteq live
    /\ Distance(w) <= Distance(f) /\ Distance(f) <= Distance(back)
    /\ c = NULL => w = front /\ ~inActive
    /\ c # NULL => c = w
    /\ r # NULL => r \in live /\ Distance(r) <= Distance(w)

\* The queue as its users see it.
Contents(i, j) == [k \in 1 .. j - i |-> values[Slot(i + k - 1)]]
Abstraction ==
    [flushed |-> Contents(0, Distance(w)),
     unflushed |-> Contents(Distance(w), Distance(back)),
     complete |-> Distance(f) - Distance(w),
     asleep |-> c = NULL]

Q == INSTANCE WakeQueue WITH queue <- Abstraction, awake <- inActive

\* ypipe_t is the queue its users take it for: whatever the interleaving of
\* the two threads, items are read once, in the order and with the content
\* they were written, never before they are flushed; a flush asks for a
\* wake-up exactly when the reader sleeps; and a reader with items to read
\* goes on reading.
ImplementsWakeQueue == Q!Spec
=============================================================================
