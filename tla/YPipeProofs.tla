---------------------------- MODULE YPipeProofs -----------------------------
(***************************************************************************)
(* What holds of ypipe_t and yqueue_t for chunks of any size, any number   *)
(* of addresses and queues of any length.  Positions are counted from the  *)
(* start of the first linked chunk, so that a slot has one position and a  *)
(* position one slot.                                                      *)
(***************************************************************************)
EXTENDS YPipe, TLAPS

\* The position of place s in the q-th chunk, counted from 0.
Position(q, s) == N * q + s

\* The slot at position x of the linked chunks ch.
At(ch, x) == <<ch[1 + (x \div N)], x % N>>

\* The position one behind the terminator: _end_pos in _end_chunk.
End == Position(Len(chunks) - 1, endPos)

\* Pointer p is at position x, between the positions b, of the front, and
\* e - 1, of the terminator.
Lies(ch, b, e, p, x) == x \in Nat /\ b <= x /\ x < e /\ p = At(ch, x)
Pos(p, x) == Lies(chunks, beginPos, End, p, x)

\* The pointers are in the order front, r, w, f, back.
InOrder ==
    \E x, y \in Nat :
       /\ Pos(w, x) /\ Pos(f, y) /\ x <= y
       /\ r # NULL => \E z \in Nat : Pos(r, z) /\ z <= x

\* Who may touch c: it is NULL only while the reader sleeps and no wake-up is
\* on its way, and a flush that is half done has found it so.
Handshake ==
    /\ c = NULL => w = front /\ ~inActive /\ ~owed
    /\ c # NULL => c = w
    /\ flushing => c = NULL /\ w # f
    /\ owed => ~inActive

\* The inductive invariant.
YPipeInv ==
    /\ TypeOK /\ ChunksDisjoint
    /\ beginPos < End /\ back = At(chunks, End - 1)
    /\ InOrder /\ Handshake

-----------------------------------------------------------------------------
(* Division by the granularity.                                            *)

\* A position and its chunk and place.
LEMMA DivMod ==
  ASSUME NEW x \in Nat
  PROVE  /\ x \div N \in Nat /\ x % N \in 0 .. N - 1
         /\ x = Position(x \div N, x % N)
<1>1. x \div N \in Nat /\ x % N \in 0 .. N - 1 /\ N \in Nat
  BY YPipeAssumption
<1>2. x - N * (x \div N) = x % N
  BY YPipeAssumption
<1>3. x = Position(x \div N, x % N)
  <2> DEFINE q == x \div N
             m == N * q
             s == x % N
  <2>1. m \in Nat /\ s \in Nat /\ x - m = s /\ Position(q, s) = m + s
    BY <1>1, <1>2 DEF Position
  <2> HIDE DEF m, s, q
  <2>2. x = Position(q, s)
    BY <2>1
  <2> QED BY <2>2 DEF q, s
<1> QED BY <1>1, <1>3

\* A chunk and a place, and their position.
LEMMA DivModOf ==
  ASSUME NEW q \in Nat, NEW s \in 0 .. N - 1
  PROVE  Position(q, s) \div N = q /\ Position(q, s) % N = s /\ Position(q, s) \in Nat
<1>1. (N * q + s) \div N = q
  BY YPipeAssumption
<1>2. (N * q + s) % N = s
  BY YPipeAssumption
<1>3. N * q + s \in Nat
  BY YPipeAssumption
<1> QED BY <1>1, <1>2, <1>3 DEF Position

\* The multiples of the granularity grow with their factors.
LEMMA Multiples ==
  ASSUME NEW q \in Nat, NEW p \in Nat
  PROVE  /\ N * q \in Nat /\ N * (q + 1) = N * q + N
         /\ q < p => N * q + N <= N * p
<1>1. N * (q + 1) = N * q + N
  BY YPipeAssumption
<1>2. q < p => N * q + N <= N * p
  BY YPipeAssumption
<1> QED BY <1>1, <1>2, YPipeAssumption

\* A position before the end of k chunks is in one of them.
LEMMA ChunkOf ==
  ASSUME NEW k \in Nat, NEW x \in Nat, x < N * k
  PROVE  1 + (x \div N) \in 1 .. k
<1>1. /\ x \div N \in Nat /\ x % N \in 0 .. N - 1 /\ x = Position(x \div N, x % N)
  BY DivMod
<1> DEFINE q == x \div N
           s == x % N
           u == N * k
           v == N * q
<1>2. q \in Nat /\ s \in 0 .. N - 1 /\ x = v + s /\ u \in Nat /\ v \in Nat /\ x < u /\ N \in Nat
  BY <1>1, YPipeAssumption DEF Position
<1>3. k < q => u + N <= v
  BY <1>1, Multiples
<1>4. k = q => u = v
  OBVIOUS
<1>5. 1 + q \in 1 .. k
  <2> HIDE DEF q, s, u, v
  <2> QED BY <1>2, <1>3, <1>4
<1> QED BY <1>5

\* Different positions are different slots.
LEMMA AtInjective ==
  ASSUME NEW ch \in Seq(Chunks), \A i, j \in DOMAIN ch : ch[i] = ch[j] => i = j,
         NEW x \in Nat, NEW y \in Nat, x < N * Len(ch), y < N * Len(ch),
         At(ch, x) = At(ch, y)
  PROVE  x = y
<1>1. 1 + (x \div N) \in 1 .. Len(ch) /\ 1 + (y \div N) \in 1 .. Len(ch)
  BY ChunkOf
<1>2. ch[1 + (x \div N)] = ch[1 + (y \div N)] /\ x % N = y % N
  BY DEF At
<1>3. 1 + (x \div N) = 1 + (y \div N)
  BY <1>1, <1>2
<1>4. /\ x \div N \in Nat /\ y \div N \in Nat
      /\ x = Position(x \div N, x % N) /\ y = Position(y \div N, y % N)
  BY DivMod
<1>5. x \div N = y \div N
  BY <1>3, <1>4
<1> QED BY <1>2, <1>4, <1>5

\* A position of the linked chunks is a slot.
LEMMA AtSlot ==
  ASSUME NEW ch \in Seq(Chunks), NEW x \in Nat, x < N * Len(ch)
  PROVE  At(ch, x) \in Slots
<1>1. 1 + (x \div N) \in 1 .. Len(ch) /\ x % N \in 0 .. N - 1
  BY ChunkOf, DivMod
<1>2. ch[1 + (x \div N)] \in Chunks
  BY <1>1
<1> QED BY <1>1, <1>2 DEF At, Slots

\* The slot of a chunk and a place.
LEMMA AtOf ==
  ASSUME NEW ch, NEW q \in Nat, NEW s \in 0 .. N - 1
  PROVE  At(ch, Position(q, s)) = <<ch[1 + q], s>>
  BY DivModOf DEF At

\* Linking a chunk at the end moves no position.
LEMMA AtAppend ==
  ASSUME NEW ch \in Seq(Chunks), NEW k \in Chunks, NEW x \in Nat, x < N * Len(ch)
  PROVE  At(Append(ch, k), x) = At(ch, x)
<1>1. 1 + (x \div N) \in 1 .. Len(ch)
  BY ChunkOf
<1> QED BY <1>1 DEF At

\* Unlinking the last one moves none of the others.
LEMMA AtFront ==
  ASSUME NEW ch \in Seq(Chunks), Len(ch) > 0, NEW x \in Nat, x < N * (Len(ch) - 1)
  PROVE  At(SubSeq(ch, 1, Len(ch) - 1), x) = At(ch, x)
<1>1. 1 + (x \div N) \in 1 .. (Len(ch) - 1)
  BY ChunkOf
<1> QED BY <1>1 DEF At

\* Unlinking the first chunk moves every position back by a chunk.
LEMMA AtTail ==
  ASSUME NEW ch \in Seq(Chunks), Len(ch) > 0, NEW x \in Nat, x + N < N * Len(ch)
  PROVE  At(Tail(ch), x) = At(ch, x + N)
<1> DEFINE q == x \div N
           s == x % N
<1>1. q \in Nat /\ s \in 0 .. N - 1 /\ x = Position(q, s) /\ N \in Nat
  BY DivMod, YPipeAssumption
<1>2. x + N = Position(q + 1, s)
  <2>1. N * (q + 1) = N * q + N /\ N * q \in Nat
    BY <1>1, Multiples
  <2> HIDE DEF q, s
  <2> QED BY <1>1, <2>1 DEF Position
<1>3. q + 1 \in Nat
  BY <1>1
<1>4. At(ch, x + N) = <<ch[1 + (q + 1)], s>>
  BY <1>1, <1>2, <1>3, AtOf
<1>5. 1 + ((x + N) \div N) \in 1 .. Len(ch)
  BY <1>1, ChunkOf
<1>6. (x + N) \div N = q + 1
  BY <1>1, <1>2, <1>3, DivModOf
<1>7. 1 + q \in 1 .. (Len(ch) - 1)
  BY <1>1, <1>5, <1>6
<1>8. Tail(ch)[1 + q] = ch[1 + (q + 1)]
  <2> HIDE DEF q
  <2> QED BY <1>1, <1>7
<1>9. At(Tail(ch), x) = <<Tail(ch)[1 + q], s>>
  BY DEF At
<1> QED BY <1>4, <1>8, <1>9

-----------------------------------------------------------------------------
(* Pointers and positions.                                                 *)

\* The sizes that the linked chunks have.
LEMMA Sizes ==
  ASSUME YPipeInv
  PROVE  /\ N \in Nat /\ N > 0
         /\ chunks \in Seq(Chunks) /\ Len(chunks) \in Nat /\ Len(chunks) > 0
         /\ beginPos \in 0 .. N - 1 /\ endPos \in 0 .. N - 1
         /\ End \in Nat /\ beginPos < End
         /\ N * Len(chunks) \in Nat /\ N * (Len(chunks) - 1) \in Nat
         /\ N * Len(chunks) = N * (Len(chunks) - 1) + N
         /\ End = N * (Len(chunks) - 1) + endPos
         /\ End < N * Len(chunks)
<1>1. /\ N \in Nat /\ N > 0
      /\ chunks \in Seq(Chunks) /\ chunks # << >>
      /\ beginPos \in 0 .. N - 1 /\ endPos \in 0 .. N - 1 /\ beginPos < End
  BY YPipeAssumption DEF YPipeInv, TypeOK
<1>2. Len(chunks) \in Nat /\ Len(chunks) > 0
  BY <1>1
<1> DEFINE k == Len(chunks) - 1
           m == N * k
<1>3. k \in Nat /\ Len(chunks) = k + 1
  BY <1>2
<1>4. N * (k + 1) = m + N /\ m \in Nat
  <2> HIDE DEF k
  <2> QED BY <1>3, Multiples
<1>5. N * Len(chunks) = m + N
  BY <1>3, <1>4
<1>6. End = m + endPos
  BY DEF End, Position
<1> HIDE DEF m
<1>7. End \in Nat /\ End < m + N /\ m + N \in Nat
  BY <1>1, <1>4, <1>6
<1> QED BY <1>1, <1>2, <1>4, <1>5, <1>6, <1>7 DEF m

\* A pointer with a position points into the linked chunks.
LEMMA PosSlot ==
  ASSUME YPipeInv, NEW p, NEW x \in Nat, Pos(p, x)
  PROVE  /\ x < N * Len(chunks) /\ beginPos <= x /\ x < End
         /\ p = At(chunks, x) /\ p \in Slots /\ p # NULL
<1>1. /\ chunks \in Seq(Chunks) /\ End \in Nat /\ N * Len(chunks) \in Nat
      /\ End < N * Len(chunks) /\ beginPos \in Nat
  BY Sizes
<1>2. beginPos <= x /\ x < End /\ p = At(chunks, x)
  BY DEF Pos, Lies
<1> DEFINE u == N * Len(chunks)
<1>3. x < u /\ beginPos <= x /\ x < End
  <2>1. u \in Nat /\ End < u
    BY <1>1
  <2> HIDE DEF u
  <2> QED BY <1>1, <1>2, <2>1
<1>4. p \in Slots
  BY <1>1, <1>2, <1>3, AtSlot
<1> QED BY <1>2, <1>3, <1>4, YPipeAssumption DEF NULL, Slots

\* Comparing pointers is comparing positions.
LEMMA PosUnique ==
  ASSUME YPipeInv, NEW p, NEW x \in Nat, NEW y \in Nat, Pos(p, x), Pos(p, y)
  PROVE  x = y
<1>1. x < N * Len(chunks) /\ y < N * Len(chunks) /\ At(chunks, x) = At(chunks, y)
  BY PosSlot
<1>2. chunks \in Seq(Chunks) /\ \A i, j \in DOMAIN chunks : chunks[i] = chunks[j] => i = j
  BY DEF YPipeInv, TypeOK, ChunksDisjoint
<1> QED BY <1>1, <1>2, AtInjective

\* A position is that of a slot.
LEMMA SlotPos ==
  ASSUME NEW x \in Nat, beginPos <= x, x < End
  PROVE  Pos(At(chunks, x), x)
  BY DEF Pos, Lies

\* The front of the queue.
LEMMA FrontPos ==
  ASSUME YPipeInv
  PROVE  beginPos \in Nat /\ Pos(front, beginPos) /\ front = At(chunks, beginPos)
<1>1. /\ chunks \in Seq(Chunks) /\ Len(chunks) > 0 /\ beginPos \in 0 .. N - 1
      /\ beginPos \in Nat /\ End \in Nat /\ beginPos < End /\ N \in Nat
  BY Sizes
<1>2. Position(0, beginPos) = beginPos
  BY <1>1 DEF Position
<1>3. At(chunks, Position(0, beginPos)) = <<chunks[1 + 0], beginPos>>
  BY <1>1, AtOf
<1>4. front = At(chunks, beginPos)
  BY <1>1, <1>2, <1>3 DEF front
<1>5. beginPos <= beginPos /\ beginPos < End
  BY <1>1
<1> QED BY <1>1, <1>4, <1>5 DEF Pos, Lies

\* The terminator.
LEMMA BackPos ==
  ASSUME YPipeInv
  PROVE  End - 1 \in Nat /\ Pos(back, End - 1)
<1>1. beginPos \in Nat /\ End \in Nat /\ beginPos < End
  BY Sizes
<1> QED BY <1>1 DEF Pos, Lies, YPipeInv

\* ++pos, and 0 at the end of a chunk.
LEMMA AdvancedPos ==
  ASSUME NEW i \in 0 .. N - 1
  PROVE  /\ Advanced(i) \in 0 .. N - 1
         /\ Advanced(i) = IF i + 1 = N THEN 0 ELSE i + 1
<1>1. (i + 1) % N = IF i + 1 = N THEN 0 ELSE i + 1
  BY YPipeAssumption
<1> QED BY <1>1, YPipeAssumption DEF Advanced

-----------------------------------------------------------------------------
(* Each step keeps the invariant.                                          *)

\* The first terminator is at the front, alone.
LEMMA InitInv == Init => YPipeInv
<1> SUFFICES ASSUME Init PROVE YPipeInv
  OBVIOUS
<1>1. N \in Nat /\ N > 0 /\ beginPos = 0 /\ 0 \in 0 .. N - 1
  BY YPipeAssumption DEF Init
<1>2. /\ chunks \in Seq(Chunks) /\ chunks # << >> /\ Len(chunks) > 0
      /\ chunks[1] \in Chunks /\ 1 \in DOMAIN chunks
      /\ \A i, j \in DOMAIN chunks : chunks[i] = chunks[j] => i = j
      /\ Len(chunks) = IF N = 1 THEN 2 ELSE 1
  <2>1. CASE N > 1
    <3>1. PICK chunk \in Chunks : chunks = <<chunk>>
      BY <2>1 DEF Init
    <3> QED BY <2>1, <3>1
  <2>2. CASE ~(N > 1)
    <3>1. N = 1
      BY <1>1, <2>2
    <3>2. PICK chunk \in Chunks : \E next \in Chunks \ {chunk} : chunks = <<chunk, next>>
      BY <2>2 DEF Init
    <3>3. PICK next \in Chunks \ {chunk} : chunks = <<chunk, next>>
      BY <3>2
    <3> QED BY <3>1, <3>3
  <2> QED BY <2>1, <2>2
<1>3. endPos \in 0 .. N - 1 /\ End = 1
  <2>1. CASE N = 1
    <3>1. endPos = 0 /\ Len(chunks) - 1 = 1
      BY <1>2, <2>1 DEF Init
    <3>2. End = 1 * 1 + 0
      BY <2>1, <3>1 DEF End, Position
    <3> QED BY <2>1, <3>1, <3>2
  <2>2. CASE N # 1
    <3>1. endPos = 1 /\ Len(chunks) - 1 = 0
      BY <1>1, <1>2, <2>2 DEF Init
    <3> QED BY <1>1, <2>2, <3>1 DEF End, Position
  <2> QED BY <2>1, <2>2
<1>4. front = <<chunks[1], 0>> /\ front \in Slots /\ front # NULL
  <2>1. front = <<chunks[1], 0>>
    BY <1>1, <1>2 DEF front
  <2> QED BY <1>1, <1>2, <2>1, YPipeAssumption DEF Slots, NULL
<1>5. At(chunks, 0) = front
  <2>1. At(chunks, Position(0, 0)) = <<chunks[1 + 0], 0>>
    BY <1>1, AtOf
  <2>2. Position(0, 0) = 0
    BY <1>1 DEF Position
  <2> QED BY <1>4, <2>1, <2>2
<1>6. /\ back = front /\ w = front /\ f = front /\ r = front /\ c = front
      /\ spare = NULL /\ flushing = FALSE /\ inActive = TRUE /\ owed = FALSE
      /\ read = Nothing /\ values = [s \in Slots |-> Nothing]
  BY DEF Init
<1>7. TypeOK
  BY <1>1, <1>2, <1>3, <1>4, <1>6 DEF TypeOK
<1>8. ChunksDisjoint
  BY <1>2, <1>6, YPipeAssumption DEF ChunksDisjoint, NULL
<1>9. Pos(front, 0) /\ 0 \in Nat /\ 0 <= 0
  BY <1>1, <1>3, <1>5 DEF Pos, Lies
<1>10. InOrder
  BY <1>6, <1>9 DEF InOrder
<1>11. Handshake
  BY <1>4, <1>6 DEF Handshake
<1> QED BY <1>1, <1>3, <1>5, <1>6, <1>7, <1>8, <1>10, <1>11 DEF YPipeInv

\* A push: the end moves one further, and no position of the queue moves.
LEMMA PushPos ==
  ASSUME YPipeInv, Push
  PROVE  /\ chunks' \in Seq(Chunks) /\ chunks' # << >> /\ Len(chunks') > 0 /\ Head(chunks') = Head(chunks)
         /\ endPos' \in 0 .. N - 1 /\ End' = End + 1
         /\ ChunksDisjoint' /\ spare' \in Chunks \cup {NULL}
         /\ \A x \in Nat : x < N * Len(chunks) => At(chunks', x) = At(chunks, x)
         /\ back' = At(chunks', End) /\ back' \in Slots
<1>1. /\ N \in Nat /\ N > 0
      /\ chunks \in Seq(Chunks) /\ Len(chunks) \in Nat /\ Len(chunks) > 0
      /\ endPos \in 0 .. N - 1
      /\ End \in Nat /\ N * Len(chunks) \in Nat /\ N * (Len(chunks) - 1) \in Nat
      /\ N * Len(chunks) = N * (Len(chunks) - 1) + N
      /\ End = N * (Len(chunks) - 1) + endPos
      /\ End < N * Len(chunks)
  BY Sizes
<1>2. /\ back' = <<chunks[Len(chunks)], endPos>> /\ endPos' = Advanced(endPos)
      /\ spare \in Chunks \cup {NULL} /\ ChunksDisjoint
  BY DEF Push, YPipeInv, TypeOK
<1>3. endPos' \in 0 .. N - 1 /\ endPos' = IF endPos + 1 = N THEN 0 ELSE endPos + 1
  BY <1>1, <1>2, AdvancedPos
<1>4. back' = At(chunks, End) /\ back' \in Slots
  <2>1. At(chunks, Position(Len(chunks) - 1, endPos)) = <<chunks[1 + (Len(chunks) - 1)], endPos>>
    <3>1. Len(chunks) - 1 \in Nat
      BY <1>1
    <3> QED BY <1>1, <3>1, AtOf
  <2>2. back' = At(chunks, End)
    BY <1>1, <1>2, <2>1 DEF End
  <2> QED BY <1>1, <2>2, AtSlot
<1>5. CASE endPos + 1 # N
  <2>1. chunks' = chunks /\ spare' = spare
    BY <1>5 DEF Push
  <2>2. endPos' = endPos + 1
    BY <1>3, <1>5
  <2>3. End' = End + 1
    <3> DEFINE m == N * (Len(chunks) - 1)
    <3>1. End = m + endPos /\ End' = m + endPos' /\ m \in Nat
      BY <1>1, <2>1 DEF End, Position
    <3> HIDE DEF m
    <3> QED BY <1>1, <2>2, <3>1
  <2>4. ChunksDisjoint'
    BY <1>2, <2>1 DEF ChunksDisjoint
  <2>5. chunks # << >>
    BY <1>1
  <2> QED BY <1>1, <1>2, <1>3, <1>4, <2>1, <2>3, <2>4, <2>5
<1>6. CASE endPos + 1 = N
  <2>1. PICK chunk \in NextChunk : chunks' = Append(chunks, chunk)
    BY <1>6 DEF Push
  <2>2. spare' = NULL /\ endPos' = 0
    BY <1>3, <1>6 DEF Push
  <2>3. chunk \in Chunks /\ \A i \in DOMAIN chunks : chunks[i] # chunk
    BY <1>2 DEF NextChunk, Used, ChunksDisjoint
  <2>4. /\ chunks' \in Seq(Chunks) /\ Len(chunks') = Len(chunks) + 1 /\ chunks' # << >>
        /\ Head(chunks') = Head(chunks)
        /\ chunks'[Len(chunks) + 1] = chunk
        /\ \A i \in 1 .. Len(chunks) : chunks'[i] = chunks[i]
    BY <1>1, <2>1, <2>3
  <2>5. End' = End + 1
    <3> DEFINE m == N * (Len(chunks) - 1)
    <3>1. Len(chunks') - 1 = Len(chunks)
      BY <1>1, <2>4
    <3>2. End' = N * Len(chunks) + endPos'
      BY <3>1 DEF End, Position
    <3>3. End' = m + N + endPos' /\ End = m + endPos /\ m \in Nat
      BY <1>1, <3>2
    <3> HIDE DEF m
    <3> QED BY <1>1, <1>6, <2>2, <3>3
  <2>6. \A x \in Nat : x < N * Len(chunks) => At(chunks', x) = At(chunks, x)
    BY <1>1, <2>1, <2>3, AtAppend
  <2>7. ChunksDisjoint'
    <3>1. \A i \in DOMAIN chunks' : i \in DOMAIN chunks \/ i = Len(chunks) + 1
      BY <1>1, <2>4
    <3>2. DOMAIN chunks = 1 .. Len(chunks)
      BY <1>1
    <3>3. \A i, j \in DOMAIN chunks' : chunks'[i] = chunks'[j] => i = j
      <4> SUFFICES ASSUME NEW i \in DOMAIN chunks', NEW j \in DOMAIN chunks', chunks'[i] = chunks'[j]
                   PROVE  i = j
        OBVIOUS
      <4>1. CASE i \in DOMAIN chunks /\ j \in DOMAIN chunks
        BY <1>2, <2>4, <3>2, <4>1 DEF ChunksDisjoint
      <4>2. CASE i = Len(chunks) + 1 \/ j = Len(chunks) + 1
        BY <2>3, <2>4, <3>1, <3>2, <4>2
      <4> QED BY <3>1, <4>1, <4>2
    <3>4. \A i \in DOMAIN chunks' : chunks'[i] \in Chunks
      BY <2>4
    <3> QED BY <2>2, <3>3, <3>4, YPipeAssumption DEF ChunksDisjoint, NULL
  <2> QED BY <1>1, <1>3, <1>4, <2>2, <2>4, <2>5, <2>6, <2>7
<1> QED BY <1>5, <1>6

\* A step that moves no position of the queue, and its end not backwards,
\* leaves every pointer where it is.
LEMMA PosKept ==
  ASSUME NEW ch, NEW b \in Nat, NEW e \in Nat, NEW k \in Nat, e < k,
         NEW ch2, NEW e2 \in Nat, e2 >= e,
         \A x \in Nat : x < k => At(ch2, x) = At(ch, x)
  PROVE  \A p : \A x \in Nat : Lies(ch, b, e, p, x) => Lies(ch2, b, e2, p, x)
<1> SUFFICES ASSUME NEW p, NEW x \in Nat, Lies(ch, b, e, p, x)
             PROVE  Lies(ch2, b, e2, p, x)
  OBVIOUS
<1>1. b <= x /\ x < e /\ p = At(ch, x)
  BY DEF Lies
<1>2. x < k /\ x < e2
  BY <1>1
<1> QED BY <1>1, <1>2 DEF Lies

\* Writing: the terminator moves, the item becomes flushable when complete.
LEMMA WriteInv ==
  ASSUME YPipeInv, NEW item \in Items, Write(item)
  PROVE  YPipeInv'
<1>1. /\ chunks' \in Seq(Chunks) /\ chunks' # << >> /\ Head(chunks') = Head(chunks)
      /\ endPos' \in 0 .. N - 1 /\ End' = End + 1
      /\ ChunksDisjoint' /\ spare' \in Chunks \cup {NULL}
      /\ \A x \in Nat : x < N * Len(chunks) => At(chunks', x) = At(chunks, x)
      /\ back' = At(chunks', End) /\ back' \in Slots
  BY PushPos DEF Write
<1>2. /\ values' = [values EXCEPT ![back] = item]
      /\ f' = (IF item \in Partial THEN f ELSE back')
      /\ UNCHANGED <<beginPos, w, r, c, flushing, inActive, owed, read>> /\ ~flushing
  BY DEF Write
<1>3. /\ TypeOK /\ InOrder /\ Handshake
  BY DEF YPipeInv
<1>4. beginPos \in Nat /\ End \in Nat /\ beginPos < End
  BY Sizes
<1>5. TypeOK'
  BY <1>1, <1>2, <1>3 DEF TypeOK
<1>6. End' \in Nat /\ End' >= End /\ beginPos' = beginPos /\ End' - 1 = End /\ beginPos' < End'
  BY <1>1, <1>2, <1>4
<1>7. PICK x, y \in Nat : /\ Lies(chunks, beginPos, End, w, x)
                          /\ Lies(chunks, beginPos, End, f, y) /\ x <= y
                          /\ r # NULL => \E z \in Nat : Lies(chunks, beginPos, End, r, z) /\ z <= x
  BY <1>3 DEF InOrder, Pos
<1>8. \A p : \A z \in Nat : Lies(chunks, beginPos, End, p, z) => Lies(chunks', beginPos', End', p, z)
  <2>1. N * Len(chunks) \in Nat /\ End < N * Len(chunks)
    BY Sizes
  <2> DEFINE k == N * Len(chunks)
  <2>2. k \in Nat /\ End < k /\ \A z \in Nat : z < k => At(chunks', z) = At(chunks, z)
    BY <1>1, <2>1
  <2> HIDE DEF k
  <2>3. \A p : \A z \in Nat : Lies(chunks, beginPos, End, p, z) => Lies(chunks', beginPos, End', p, z)
    BY <1>4, <1>6, <2>2, PosKept
  <2> QED BY <1>6, <2>3
<1>9. /\ Lies(chunks', beginPos', End', w', x)
      /\ r' # NULL => \E z \in Nat : Lies(chunks', beginPos', End', r', z) /\ z <= x
  BY <1>2, <1>7, <1>8
<1>10. \E z \in Nat : Lies(chunks', beginPos', End', f', z) /\ x <= z
  <2>1. CASE item \in Partial
    BY <1>2, <1>7, <1>8, <2>1
  <2>2. CASE item \notin Partial
    <3>1. f' = At(chunks', End)
      BY <1>1, <1>2, <2>2
    <3>2. beginPos' <= End /\ End < End'
      BY <1>1, <1>2, <1>4
    <3>3. x < End
      BY <1>7 DEF Lies
    <3>4. Lies(chunks', beginPos', End', f', End) /\ x <= End
      BY <1>4, <3>1, <3>2, <3>3 DEF Lies
    <3> QED BY <1>4, <3>4
  <2> QED BY <2>1, <2>2
<1>11. InOrder'
  BY <1>9, <1>10 DEF InOrder, Pos, NULL
<1>12. Handshake'
  <2>1. front' = front
    BY <1>1, <1>2 DEF front
  <2> QED BY <1>2, <1>3, <2>1 DEF Handshake, NULL
<1> QED BY <1>1, <1>5, <1>6, <1>11, <1>12 DEF YPipeInv

\* An unpush: the end moves one back and the positions before it do not move.
LEMMA UnpushPos ==
  ASSUME YPipeInv, Unpush, End - 1 > 0
  PROVE  /\ chunks' \in Seq(Chunks) /\ chunks' # << >> /\ Head(chunks') = Head(chunks)
         /\ endPos' \in 0 .. N - 1 /\ End' = End - 1
         /\ ChunksDisjoint' /\ spare' = spare
         /\ \A x \in Nat : x < End => At(chunks', x) = At(chunks, x)
         /\ back' = At(chunks, End - 2) /\ back' \in Slots
<1>1. /\ N \in Nat /\ N > 0
      /\ chunks \in Seq(Chunks) /\ Len(chunks) \in Nat /\ Len(chunks) > 0
      /\ endPos \in 0 .. N - 1
      /\ End \in Nat /\ N * Len(chunks) \in Nat /\ N * (Len(chunks) - 1) \in Nat
      /\ N * Len(chunks) = N * (Len(chunks) - 1) + N
      /\ End = N * (Len(chunks) - 1) + endPos
      /\ End < N * Len(chunks)
  BY Sizes
<1>2. ChunksDisjoint /\ back = At(chunks, End - 1) /\ chunks # << >> /\ spare' = spare
  BY DEF YPipeInv, TypeOK, Unpush
<1> DEFINE q == (End - 1) \div N
           s == (End - 1) % N
<1>3. /\ q \in Nat /\ s \in 0 .. N - 1 /\ End - 1 = Position(q, s)
      /\ 1 + q \in 1 .. Len(chunks) /\ back = <<chunks[1 + q], s>>
  <2>1. End - 1 \in Nat /\ End - 1 < N * Len(chunks)
    BY <1>1
  <2>2. q \in Nat /\ s \in 0 .. N - 1 /\ End - 1 = Position(q, s)
    BY <2>1, DivMod
  <2>3. 1 + q \in 1 .. Len(chunks)
    BY <1>1, <2>1, ChunkOf
  <2>4. back = <<chunks[1 + q], s>>
    BY <1>2 DEF At
  <2> QED BY <2>2, <2>3, <2>4
<1> HIDE DEF q, s
<1>4. back' = At(chunks, End - 2)
  <2>1. CASE s # 0
    <3>1. back[1] = chunks[1 + q] /\ back[2] = s
      BY <1>3
    <3>2. back' = <<chunks[1 + q], s - 1>>
      BY <2>1, <3>1 DEF Unpush
    <3>3. s - 1 \in 0 .. N - 1
      BY <1>1, <1>3, <2>1
    <3>4. End - 2 = Position(q, s - 1)
      <4> DEFINE m == N * q
      <4>1. m \in Nat /\ End - 1 = m + s /\ Position(q, s - 1) = m + (s - 1)
        BY <1>1, <1>3 DEF Position
      <4> HIDE DEF m
      <4> QED BY <1>1, <1>3, <4>1
    <3> QED BY <1>3, <3>2, <3>3, <3>4, AtOf
  <2>2. CASE s = 0
    <3>1. back[1] = chunks[1 + q] /\ back[2] = 0
      BY <1>3, <2>2
    <3>2. BackChunk = 1 + q
      <4>1. 1 + q \in DOMAIN chunks
        BY <1>1, <1>3
      <4>2. \A i \in DOMAIN chunks : chunks[i] = back[1] => i = 1 + q
        BY <1>2, <3>1, <4>1 DEF ChunksDisjoint
      <4> QED BY <3>1, <4>1, <4>2 DEF BackChunk
    <3>3. back' = <<chunks[q], N - 1>>
      <4>1. back' = <<chunks[BackChunk - 1], N - 1>>
        BY <3>1 DEF Unpush
      <4> QED BY <1>3, <3>2, <4>1
    <3>4. q # 0
      <4>1. q = 0 => N * q = 0
        BY <1>1
      <4>2. End - 1 = N * q + 0
        BY <1>3, <2>2 DEF Position
      <4> QED BY <1>1, <1>3, <4>1, <4>2
    <3>5. q - 1 \in Nat /\ 1 + (q - 1) = q /\ N - 1 \in 0 .. N - 1
      BY <1>1, <1>3, <3>4
    <3>6. End - 2 = Position(q - 1, N - 1)
      <4> DEFINE k == q - 1
                 m == N * k
      <4>1. m \in Nat /\ N * (k + 1) = m + N
        <5>1. k \in Nat
          BY <3>5
        <5> HIDE DEF k
        <5> QED BY <5>1, Multiples
      <4>2. k + 1 = q
        BY <1>3
      <4>3. End - 1 = m + N /\ Position(k, N - 1) = m + (N - 1)
        BY <1>1, <1>3, <2>2, <4>1, <4>2 DEF Position
      <4> HIDE DEF m
      <4> QED BY <1>1, <4>1, <4>3
    <3>7. At(chunks, Position(q - 1, N - 1)) = <<chunks[1 + (q - 1)], N - 1>>
      BY <3>5, AtOf
    <3> QED BY <3>3, <3>5, <3>6, <3>7
  <2> QED BY <2>1, <2>2
<1>5. back' \in Slots
  <2>1. End - 2 \in Nat /\ End - 2 < N * Len(chunks)
    BY <1>1
  <2> QED BY <1>1, <1>4, <2>1, AtSlot
<1>6. CASE endPos # 0
  <2>1. chunks' = chunks /\ endPos' = endPos - 1
    BY <1>6 DEF Unpush
  <2>2. End' = End - 1 /\ endPos' \in 0 .. N - 1
    <3> DEFINE m == N * (Len(chunks) - 1)
    <3>1. End = m + endPos /\ End' = m + endPos' /\ m \in Nat
      BY <1>1, <2>1 DEF End, Position
    <3> HIDE DEF m
    <3> QED BY <1>1, <1>6, <2>1, <3>1
  <2>3. ChunksDisjoint'
    BY <1>2, <2>1 DEF ChunksDisjoint
  <2> QED BY <1>1, <1>2, <1>4, <1>5, <2>1, <2>2, <2>3
<1>7. CASE endPos = 0
  <2>1. chunks' = SubSeq(chunks, 1, Len(chunks) - 1) /\ endPos' = N - 1
    BY <1>7 DEF Unpush
  <2>2. Len(chunks) > 1 /\ End = N * (Len(chunks) - 1)
    <3>1. Len(chunks) = 1 => N * (Len(chunks) - 1) = 0
      BY <1>1
    <3>2. End = N * (Len(chunks) - 1)
      BY <1>1, <1>7
    <3> QED BY <1>1, <3>1, <3>2
  <2>3. /\ chunks' \in Seq(Chunks) /\ Len(chunks') = Len(chunks) - 1 /\ chunks' # << >>
        /\ Head(chunks') = Head(chunks)
        /\ \A i \in 1 .. Len(chunks) - 1 : chunks'[i] = chunks[i]
    <3> DEFINE k == Len(chunks) - 1
    <3>1. k \in Nat /\ k > 0 /\ k <= Len(chunks) /\ chunks' = SubSeq(chunks, 1, k)
      BY <1>1, <2>1, <2>2
    <3> HIDE DEF k
    <3>2. /\ chunks' \in Seq(Chunks) /\ Len(chunks') = k
          /\ \A i \in 1 .. k : chunks'[i] = chunks[i]
      BY <1>1, <3>1
    <3>3. chunks' # << >> /\ Head(chunks') = Head(chunks)
      BY <1>1, <3>1, <3>2
    <3> QED BY <3>2, <3>3 DEF k
  <2>4. End' = End - 1 /\ endPos' \in 0 .. N - 1
    <3> DEFINE k == Len(chunks) - 2
               m == N * k
    <3>1. m \in Nat /\ N * (k + 1) = m + N
      <4>1. k \in Nat
        BY <1>1, <2>2
      <4> HIDE DEF k
      <4> QED BY <4>1, Multiples
    <3>2. Len(chunks') - 1 = k /\ k + 1 = Len(chunks) - 1
      BY <1>1, <2>3
    <3>3. End' = m + (N - 1)
      BY <2>1, <3>2 DEF End, Position
    <3>4. End = m + N
      BY <2>2, <3>1, <3>2
    <3> HIDE DEF m
    <3> QED BY <1>1, <2>1, <3>1, <3>3, <3>4
  <2>5. \A x \in Nat : x < End => At(chunks', x) = At(chunks, x)
    BY <1>1, <2>1, <2>2, AtFront
  <2>6. ChunksDisjoint'
    <3>1. DOMAIN chunks' = 1 .. Len(chunks) - 1 /\ DOMAIN chunks = 1 .. Len(chunks)
      BY <1>1, <2>3
    <3>2. \A i \in DOMAIN chunks' : i \in DOMAIN chunks /\ chunks'[i] = chunks[i]
      BY <1>1, <2>3, <3>1
    <3> QED BY <1>2, <3>2 DEF ChunksDisjoint
  <2> QED BY <1>2, <1>4, <1>5, <2>3, <2>4, <2>5, <2>6
<1> QED BY <1>1, <1>6, <1>7

\* Taking an incomplete item back: it lies behind every flushed pointer.
LEMMA UnwriteInv ==
  ASSUME YPipeInv, Unwrite
  PROVE  YPipeInv'
<1>1. TypeOK /\ InOrder /\ Handshake /\ back = At(chunks, End - 1)
  BY DEF YPipeInv
<1>2. /\ f # back /\ Unpush /\ values' = [values EXCEPT ![back'] = Nothing]
      /\ UNCHANGED <<beginPos, w, f, r, c, flushing, inActive, owed, read>>
  BY DEF Unwrite
<1>3. beginPos \in Nat /\ End \in Nat /\ beginPos < End
  BY Sizes
<1>4. PICK x, y \in Nat : /\ Lies(chunks, beginPos, End, w, x)
                          /\ Lies(chunks, beginPos, End, f, y) /\ x <= y
                          /\ r # NULL => \E z \in Nat : Lies(chunks, beginPos, End, r, z) /\ z <= x
  BY <1>1 DEF InOrder, Pos
<1>5. beginPos <= x /\ y < End - 1
  <2>1. beginPos <= x /\ y < End /\ f = At(chunks, y)
    BY <1>4 DEF Lies
  <2>2. y # End - 1
    BY <1>1, <1>2, <2>1
  <2> QED BY <1>3, <2>1, <2>2
<1>6. End - 1 > 0
  BY <1>3, <1>4, <1>5
<1>7. /\ chunks' \in Seq(Chunks) /\ chunks' # << >> /\ Head(chunks') = Head(chunks)
      /\ endPos' \in 0 .. N - 1 /\ End' = End - 1
      /\ ChunksDisjoint' /\ spare' = spare
      /\ \A z \in Nat : z < End => At(chunks', z) = At(chunks, z)
      /\ back' = At(chunks, End - 2) /\ back' \in Slots
  BY <1>2, <1>6, UnpushPos
<1>8. TypeOK'
  BY <1>1, <1>2, <1>7 DEF TypeOK
<1>9. \A p : \A z \in Nat : Lies(chunks, beginPos, End, p, z) /\ z <= y
                            => Lies(chunks', beginPos', End', p, z)
  <2> SUFFICES ASSUME NEW p, NEW z \in Nat, Lies(chunks, beginPos, End, p, z), z <= y
               PROVE  Lies(chunks', beginPos', End', p, z)
    OBVIOUS
  <2>1. beginPos <= z /\ z < End /\ p = At(chunks, z)
    BY DEF Lies
  <2>2. z < End - 1
    BY <1>3, <1>5
  <2>3. beginPos' <= z /\ z < End' /\ p = At(chunks', z)
    BY <1>2, <1>7, <2>1, <2>2
  <2> QED BY <2>3 DEF Lies
<1>10. /\ Lies(chunks', beginPos', End', w', x) /\ Lies(chunks', beginPos', End', f', y)
       /\ r' # NULL => \E z \in Nat : Lies(chunks', beginPos', End', r', z) /\ z <= x
  BY <1>2, <1>4, <1>9
<1>11. InOrder'
  BY <1>4, <1>10 DEF InOrder, Pos, NULL
<1>12. Handshake'
  <2>1. front' = front
    BY <1>2, <1>7 DEF front
  <2> QED BY <1>1, <1>2, <2>1 DEF Handshake, NULL
<1>13. beginPos' < End' /\ back' = At(chunks', End' - 1)
  <2>1. End - 2 \in Nat /\ End - 2 < End /\ End' - 1 = End - 2
    BY <1>3, <1>6, <1>7
  <2>2. beginPos < End - 1
    BY <1>3, <1>4, <1>5
  <2> QED BY <1>2, <1>7, <2>1, <2>2
<1> QED BY <1>7, <1>8, <1>11, <1>12, <1>13 DEF YPipeInv

\* What a step that leaves the queue alone leaves true.
LEMMA QueueKept ==
  ASSUME YPipeInv, UNCHANGED queueVars
  PROVE  /\ End' = End /\ front' = front /\ ChunksDisjoint'
         /\ beginPos' < End' /\ back' = At(chunks', End' - 1)
<1>1. /\ chunks' = chunks /\ beginPos' = beginPos /\ endPos' = endPos
      /\ back' = back /\ spare' = spare
  BY DEF queueVars
<1>2. End' = End /\ front' = front
  BY <1>1 DEF End, front
<1>3. ChunksDisjoint'
  BY <1>1 DEF ChunksDisjoint, YPipeInv
<1> QED BY <1>1, <1>2, <1>3 DEF YPipeInv

\* The compare-and-swap of flush.
LEMMA FlushCasInv ==
  ASSUME YPipeInv, FlushCas
  PROVE  YPipeInv'
<1>1. TypeOK /\ InOrder /\ Handshake
  BY DEF YPipeInv
<1>2. /\ UNCHANGED queueVars
      /\ f' = f /\ r' = r /\ inActive' = inActive /\ owed' = owed /\ read' = read
      /\ ~flushing /\ w # f
  BY DEF FlushCas
<1>3. /\ End' = End /\ front' = front /\ ChunksDisjoint'
      /\ beginPos' < End' /\ back' = At(chunks', End' - 1)
      /\ chunks' = chunks /\ beginPos' = beginPos /\ values' = values
      /\ endPos' = endPos /\ back' = back /\ spare' = spare
  BY <1>2, QueueKept DEF queueVars
<1>4. CASE c = w
  <2>1. c' = f /\ w' = f /\ flushing' = flushing
    BY <1>4 DEF FlushCas
  <2>2. TypeOK'
    BY <1>1, <1>2, <1>3, <2>1 DEF TypeOK
  <2>3. InOrder'
    <3>1. PICK x, y \in Nat : /\ Lies(chunks, beginPos, End, w, x)
                              /\ Lies(chunks, beginPos, End, f, y) /\ x <= y
                              /\ r # NULL => \E z \in Nat : Lies(chunks, beginPos, End, r, z) /\ z <= x
      BY <1>1 DEF InOrder, Pos
    <3>2. r # NULL => \E z \in Nat : Lies(chunks, beginPos, End, r, z) /\ z <= y
      BY <3>1
    <3> QED BY <1>2, <1>3, <2>1, <3>1, <3>2 DEF InOrder, Pos, NULL
  <2>4. Handshake'
    <3>1. f # NULL /\ w # NULL
      BY <1>1, YPipeAssumption DEF TypeOK, Slots, NULL
    <3> QED BY <1>1, <1>2, <1>4, <2>1, <3>1 DEF Handshake, NULL
  <2> QED BY <1>3, <2>2, <2>3, <2>4 DEF YPipeInv
<1>5. CASE c # w
  <2>1. c' = c /\ w' = w /\ flushing' = TRUE
    BY <1>5 DEF FlushCas
  <2>2. TypeOK'
    BY <1>1, <1>2, <1>3, <2>1 DEF TypeOK
  <2>3. InOrder'
    BY <1>1, <1>2, <1>3, <2>1 DEF InOrder, Pos, NULL
  <2>4. Handshake'
    BY <1>1, <1>2, <1>3, <1>5, <2>1 DEF Handshake, NULL
  <2> QED BY <1>3, <2>2, <2>3, <2>4 DEF YPipeInv
<1> QED BY <1>4, <1>5

\* The end of a flush that has found the reader asleep.
LEMMA FlushSetInv ==
  ASSUME YPipeInv, FlushSet
  PROVE  YPipeInv'
<1>1. TypeOK /\ InOrder /\ Handshake
  BY DEF YPipeInv
<1>2. /\ UNCHANGED queueVars
      /\ f' = f /\ r' = r /\ inActive' = inActive /\ read' = read
      /\ flushing /\ c' = f /\ w' = f /\ flushing' = FALSE /\ owed' = TRUE
  BY DEF FlushSet
<1>3. /\ End' = End /\ front' = front /\ ChunksDisjoint'
      /\ beginPos' < End' /\ back' = At(chunks', End' - 1)
      /\ chunks' = chunks /\ beginPos' = beginPos /\ values' = values
      /\ endPos' = endPos /\ back' = back /\ spare' = spare
  BY <1>2, QueueKept DEF queueVars
<1>4. TypeOK'
  BY <1>1, <1>2, <1>3 DEF TypeOK
<1>5. InOrder'
  <2>1. PICK x, y \in Nat : /\ Lies(chunks, beginPos, End, w, x)
                            /\ Lies(chunks, beginPos, End, f, y) /\ x <= y
                            /\ r # NULL => \E z \in Nat : Lies(chunks, beginPos, End, r, z) /\ z <= x
    BY <1>1 DEF InOrder, Pos
  <2>2. r # NULL => \E z \in Nat : Lies(chunks, beginPos, End, r, z) /\ z <= y
    BY <2>1
  <2> QED BY <1>2, <1>3, <2>1, <2>2 DEF InOrder, Pos, NULL
<1>6. Handshake'
  <2>1. f # NULL
    BY <1>1, YPipeAssumption DEF TypeOK, Slots, NULL
  <2> QED BY <1>1, <1>2, <2>1 DEF Handshake, NULL
<1> QED BY <1>3, <1>4, <1>5, <1>6 DEF YPipeInv

\* check_read: c is there, because the reader is awake.
LEMMA PrefetchInv ==
  ASSUME YPipeInv, Prefetch
  PROVE  YPipeInv'
<1>1. TypeOK /\ InOrder /\ Handshake
  BY DEF YPipeInv
<1>2. /\ UNCHANGED queueVars
      /\ w' = w /\ f' = f /\ flushing' = flushing /\ owed' = owed /\ read' = read
      /\ inActive /\ r' = c /\ c' = (IF c = front THEN NULL ELSE c)
      /\ inActive' = (r' # front /\ r' # NULL)
  BY DEF Prefetch
<1>3. /\ End' = End /\ front' = front /\ ChunksDisjoint'
      /\ beginPos' < End' /\ back' = At(chunks', End' - 1)
      /\ chunks' = chunks /\ beginPos' = beginPos /\ values' = values
      /\ endPos' = endPos /\ back' = back /\ spare' = spare
  BY <1>2, QueueKept DEF queueVars
<1>4. c # NULL /\ c = w /\ ~flushing /\ ~owed
  BY <1>1, <1>2 DEF Handshake
<1>5. inActive' \in BOOLEAN
  BY <1>2
<1>6. TypeOK'
  BY <1>1, <1>2, <1>3, <1>5 DEF TypeOK, NULL
<1>7. InOrder'
  <2>1. PICK x, y \in Nat : /\ Lies(chunks, beginPos, End, w, x)
                            /\ Lies(chunks, beginPos, End, f, y) /\ x <= y
    BY <1>1 DEF InOrder, Pos
  <2>2. Lies(chunks, beginPos, End, r', x) /\ x <= x
    BY <1>2, <1>4, <2>1
  <2> QED BY <1>2, <1>3, <2>1, <2>2 DEF InOrder, Pos
<1>8. Handshake'
  BY <1>1, <1>2, <1>3, <1>4 DEF Handshake, NULL
<1> QED BY <1>3, <1>6, <1>7, <1>8 DEF YPipeInv

\* The reader is woken up: c has been set before.
LEMMA WakeUpInv ==
  ASSUME YPipeInv, WakeUp
  PROVE  YPipeInv'
<1>1. TypeOK /\ InOrder /\ Handshake
  BY DEF YPipeInv
<1>2. /\ UNCHANGED queueVars
      /\ w' = w /\ f' = f /\ r' = r /\ c' = c /\ flushing' = flushing /\ read' = read
      /\ owed /\ owed' = FALSE /\ inActive' = TRUE
  BY DEF WakeUp
<1>3. /\ End' = End /\ front' = front /\ ChunksDisjoint'
      /\ beginPos' < End' /\ back' = At(chunks', End' - 1)
      /\ chunks' = chunks /\ beginPos' = beginPos /\ values' = values
      /\ endPos' = endPos /\ back' = back /\ spare' = spare
  BY <1>2, QueueKept DEF queueVars
<1>4. TypeOK'
  BY <1>1, <1>2, <1>3 DEF TypeOK
<1>5. InOrder'
  BY <1>1, <1>2, <1>3 DEF InOrder, Pos, NULL
<1>6. Handshake'
  BY <1>1, <1>2 DEF Handshake, NULL
<1> QED BY <1>3, <1>4, <1>5, <1>6 DEF YPipeInv

\* A pop: the front moves one further; when its chunk is left, every position
\* is counted from the next chunk.
LEMMA PopPos ==
  ASSUME YPipeInv, Pop, endPos' = endPos, beginPos < End - 1
  PROVE  \E d \in Nat :
           /\ chunks' \in Seq(Chunks) /\ chunks' # << >>
           /\ spare' \in Chunks \cup {NULL} /\ ChunksDisjoint'
           /\ beginPos' \in 0 .. N - 1
           /\ beginPos' = beginPos + 1 - d /\ End' = End - d
           /\ \A x \in Nat : beginPos < x /\ x < End
                               => x - d \in Nat /\ At(chunks', x - d) = At(chunks, x)
<1>1. /\ N \in Nat /\ N > 0
      /\ chunks \in Seq(Chunks) /\ Len(chunks) \in Nat /\ Len(chunks) > 0
      /\ endPos \in 0 .. N - 1 /\ beginPos \in 0 .. N - 1
      /\ End \in Nat /\ N * Len(chunks) \in Nat /\ N * (Len(chunks) - 1) \in Nat
      /\ N * Len(chunks) = N * (Len(chunks) - 1) + N
      /\ End = N * (Len(chunks) - 1) + endPos
      /\ End < N * Len(chunks)
  BY Sizes
<1>2. /\ ChunksDisjoint /\ chunks # << >> /\ spare \in Chunks \cup {NULL}
      /\ beginPos' = Advanced(beginPos)
  BY DEF YPipeInv, TypeOK, Pop
<1>3. beginPos' \in 0 .. N - 1 /\ beginPos' = IF beginPos + 1 = N THEN 0 ELSE beginPos + 1
  BY <1>1, <1>2, AdvancedPos
<1>4. CASE beginPos + 1 # N
  <2>1. chunks' = chunks /\ spare' = spare
    BY <1>4 DEF Pop
  <2>2. End' = End
    BY <2>1 DEF End
  <2>3. ChunksDisjoint'
    BY <1>2, <2>1 DEF ChunksDisjoint
  <2>4. beginPos' = beginPos + 1 - 0 /\ End' = End - 0 /\ 0 \in Nat
    BY <1>1, <1>3, <1>4, <2>2
  <2>5. \A x \in Nat : beginPos < x /\ x < End
                       => x - 0 \in Nat /\ At(chunks', x - 0) = At(chunks, x)
    <3> SUFFICES ASSUME NEW x \in Nat
                 PROVE  x - 0 \in Nat /\ At(chunks', x - 0) = At(chunks, x)
      OBVIOUS
    <3>1. x - 0 = x
      OBVIOUS
    <3> QED BY <2>1, <3>1
  <2> QED BY <1>1, <1>2, <1>3, <2>1, <2>3, <2>4, <2>5
<1>5. CASE beginPos + 1 = N
  <2>1. chunks' = Tail(chunks) /\ spare' = Head(chunks)
    BY <1>5 DEF Pop
  <2>2. End > N
    BY <1>1, <1>5
  <2>3. Len(chunks) > 1
    <3>1. Len(chunks) = 1 => N * (Len(chunks) - 1) = 0
      BY <1>1
    <3>2. Len(chunks) = 1 => End = endPos
      BY <1>1, <3>1
    <3> QED BY <1>1, <2>2, <3>2
  <2>4. /\ chunks' \in Seq(Chunks) /\ Len(chunks') = Len(chunks) - 1 /\ chunks' # << >>
        /\ Head(chunks) = chunks[1] /\ chunks[1] \in Chunks
        /\ \A i \in 1 .. Len(chunks) - 1 : chunks'[i] = chunks[i + 1]
    <3>1. chunks' \in Seq(Chunks) /\ Len(chunks') = Len(chunks) - 1
      BY <1>1, <2>1
    <3>2. \A i \in 1 .. Len(chunks) - 1 : chunks'[i] = chunks[i + 1]
      BY <1>1, <2>1
    <3>3. chunks' # << >>
      BY <1>1, <2>3, <3>1
    <3>4. Head(chunks) = chunks[1] /\ chunks[1] \in Chunks
      BY <1>1
    <3> QED BY <3>1, <3>2, <3>3, <3>4
  <2>5. End' = End - N
    <3> DEFINE k == Len(chunks) - 2
               m == N * k
    <3>1. m \in Nat /\ N * (k + 1) = m + N
      <4>1. k \in Nat
        BY <1>1, <2>3
      <4> HIDE DEF k
      <4> QED BY <4>1, Multiples
    <3>2. Len(chunks') - 1 = k /\ k + 1 = Len(chunks) - 1
      BY <1>1, <2>4
    <3>3. End' = m + endPos
      BY <3>2 DEF End, Position
    <3>4. End = m + N + endPos
      BY <1>1, <3>1, <3>2
    <3> HIDE DEF m
    <3> QED BY <1>1, <3>1, <3>3, <3>4
  <2>6. beginPos' = beginPos + 1 - N
    BY <1>1, <1>3, <1>5
  <2>7. \A x \in Nat : beginPos < x /\ x < End
                       => x - N \in Nat /\ At(chunks', x - N) = At(chunks, x)
    <3> SUFFICES ASSUME NEW x \in Nat, beginPos < x, x < End
                 PROVE  x - N \in Nat /\ At(chunks', x - N) = At(chunks, x)
      OBVIOUS
    <3> DEFINE y == x - N
    <3>1. y \in Nat /\ y + N = x
      BY <1>1, <1>5
    <3>2. x < N * Len(chunks)
      BY <1>1
    <3> HIDE DEF y
    <3>3. y + N < N * Len(chunks)
      BY <3>1, <3>2
    <3>4. At(Tail(chunks), y) = At(chunks, y + N)
      BY <1>1, <3>1, <3>3, AtTail
    <3> QED BY <2>1, <3>1, <3>4 DEF y
  <2>8. ChunksDisjoint'
    <3>1. DOMAIN chunks' = 1 .. Len(chunks) - 1 /\ DOMAIN chunks = 1 .. Len(chunks)
      BY <1>1, <2>4
    <3>2. \A i \in DOMAIN chunks' : i \in Nat /\ i + 1 \in DOMAIN chunks /\ i + 1 # 1 /\ chunks'[i] = chunks[i + 1]
      BY <1>1, <2>4, <3>1
    <3>3. 1 \in DOMAIN chunks
      BY <1>1, <3>1
    <3>4. \A i, j \in DOMAIN chunks' : chunks'[i] = chunks'[j] => i = j
      <4> SUFFICES ASSUME NEW i \in DOMAIN chunks', NEW j \in DOMAIN chunks', chunks'[i] = chunks'[j]
                   PROVE  i = j
        OBVIOUS
      <4>1. i + 1 = j + 1
        BY <1>2, <3>2 DEF ChunksDisjoint
      <4> QED BY <3>2, <4>1
    <3>5. \A i \in DOMAIN chunks' : chunks'[i] # spare'
      BY <1>2, <2>1, <2>4, <3>2, <3>3 DEF ChunksDisjoint
    <3> QED BY <3>4, <3>5 DEF ChunksDisjoint
  <2> QED BY <1>1, <1>3, <2>1, <2>4, <2>5, <2>6, <2>7, <2>8
<1> QED BY <1>4, <1>5

\* Reading: r, and with it every other pointer, is beyond the front.
LEMMA ReadInv ==
  ASSUME YPipeInv, Read
  PROVE  YPipeInv'
<1>1. TypeOK /\ InOrder /\ Handshake /\ back = At(chunks, End - 1)
  BY DEF YPipeInv
<1>2. /\ inActive /\ front # r /\ r # NULL /\ Pop
      /\ read' = values[front] /\ values' = [values EXCEPT ![front] = Nothing]
      /\ UNCHANGED <<endPos, back, w, f, r, c, flushing, inActive, owed>>
  BY DEF Read, Prefetched
<1>3. beginPos \in Nat /\ End \in Nat /\ beginPos < End
  BY Sizes
<1>4. front = At(chunks, beginPos) /\ front \in Slots
  BY FrontPos, PosSlot
<1>5. PICK x, y \in Nat : /\ Lies(chunks, beginPos, End, w, x)
                          /\ Lies(chunks, beginPos, End, f, y) /\ x <= y
                          /\ r # NULL => \E z \in Nat : Lies(chunks, beginPos, End, r, z) /\ z <= x
  BY <1>1 DEF InOrder, Pos
<1>6. PICK z \in Nat : Lies(chunks, beginPos, End, r, z) /\ z <= x
  BY <1>2, <1>5
<1>7. beginPos < z /\ z < End /\ x < End /\ y < End
  <2>1. beginPos <= z /\ z < End /\ r = At(chunks, z) /\ x < End /\ y < End
    BY <1>5, <1>6 DEF Lies
  <2>2. z # beginPos
    BY <1>2, <1>4, <2>1
  <2> QED BY <1>3, <2>1, <2>2
<1>8. beginPos < End - 1
  BY <1>3, <1>7
<1>9. PICK d \in Nat :
           /\ chunks' \in Seq(Chunks) /\ chunks' # << >>
           /\ spare' \in Chunks \cup {NULL} /\ ChunksDisjoint'
           /\ beginPos' \in 0 .. N - 1
           /\ beginPos' = beginPos + 1 - d /\ End' = End - d
           /\ \A u \in Nat : beginPos < u /\ u < End
                               => u - d \in Nat /\ At(chunks', u - d) = At(chunks, u)
  BY <1>2, <1>8, PopPos
<1>10. TypeOK'
  <2>1. values[front] \in Items \cup {Nothing}
    BY <1>1, <1>4 DEF TypeOK
  <2> QED BY <1>1, <1>2, <1>9, <2>1 DEF TypeOK
<1>11. \A p : \A u \in Nat : Lies(chunks, beginPos, End, p, u) /\ z <= u
                             => u - d \in Nat /\ Lies(chunks', beginPos', End', p, u - d)
  <2> SUFFICES ASSUME NEW p, NEW u \in Nat, Lies(chunks, beginPos, End, p, u), z <= u
               PROVE  u - d \in Nat /\ Lies(chunks', beginPos', End', p, u - d)
    OBVIOUS
  <2>1. u < End /\ p = At(chunks, u)
    BY DEF Lies
  <2>2. beginPos < u
    BY <1>3, <1>7
  <2>3. u - d \in Nat /\ p = At(chunks', u - d)
    BY <1>9, <2>1, <2>2
  <2>4. beginPos' <= u - d /\ u - d < End'
    BY <1>3, <1>9, <2>1, <2>2
  <2> QED BY <2>3, <2>4 DEF Lies
<1>12. /\ z - d \in Nat /\ Lies(chunks', beginPos', End', r', z - d)
       /\ x - d \in Nat /\ Lies(chunks', beginPos', End', w', x - d)
       /\ y - d \in Nat /\ Lies(chunks', beginPos', End', f', y - d)
       /\ z - d <= x - d /\ x - d <= y - d
  <2>1. z <= z /\ z <= x /\ z <= y /\ x <= y
    BY <1>5, <1>6
  <2>2. z - d <= x - d /\ x - d <= y - d
    BY <2>1
  <2> QED BY <1>2, <1>5, <1>6, <1>11, <2>1, <2>2
<1>13. InOrder'
  BY <1>12 DEF InOrder, Pos
<1>14. Handshake'
  BY <1>1, <1>2 DEF Handshake, NULL
<1>15. beginPos' < End' /\ back' = At(chunks', End' - 1)
  <2>1. End - 1 \in Nat /\ beginPos < End - 1 /\ End - 1 < End /\ End' - 1 = (End - 1) - d
    BY <1>3, <1>8, <1>9
  <2>2. At(chunks', (End - 1) - d) = At(chunks, End - 1)
    BY <1>9, <2>1
  <2>3. beginPos' < End'
    BY <1>3, <1>8, <1>9
  <2> QED BY <1>1, <1>2, <2>1, <2>2, <2>3
<1> QED BY <1>9, <1>10, <1>13, <1>14, <1>15 DEF YPipeInv

\* The inductive invariant holds throughout.
THEOREM QueueInvariance == Spec => []YPipeInv
<1>1. YPipeInv /\ [Next]_vars => YPipeInv'
  <2> SUFFICES ASSUME YPipeInv, [Next]_vars PROVE YPipeInv'
    OBVIOUS
  <2>1. CASE \E item \in Items : Write(item)
    BY <2>1, WriteInv
  <2>2. CASE Unwrite
    BY <2>2, UnwriteInv
  <2>3. CASE FlushCas
    BY <2>3, FlushCasInv
  <2>4. CASE FlushSet
    BY <2>4, FlushSetInv
  <2>5. CASE Prefetch
    BY <2>5, PrefetchInv
  <2>6. CASE Read
    BY <2>6, ReadInv
  <2>7. CASE WakeUp
    BY <2>7, WakeUpInv
  <2>8. CASE UNCHANGED vars
    <3>1. /\ UNCHANGED queueVars
          /\ UNCHANGED <<w, f, r, c, flushing, inActive, owed, read>>
      BY <2>8 DEF vars, queueVars
    <3>2. /\ End' = End /\ front' = front /\ ChunksDisjoint'
          /\ beginPos' < End' /\ back' = At(chunks', End' - 1)
          /\ chunks' = chunks /\ beginPos' = beginPos /\ values' = values
          /\ endPos' = endPos /\ back' = back /\ spare' = spare
      BY <3>1, QueueKept DEF queueVars
    <3>3. TypeOK'
      BY <3>1, <3>2 DEF YPipeInv, TypeOK
    <3>4. InOrder'
      BY <3>1, <3>2 DEF YPipeInv, InOrder, Pos, NULL
    <3>5. Handshake'
      BY <3>1, <3>2 DEF YPipeInv, Handshake, NULL
    <3> QED BY <3>2, <3>3, <3>4, <3>5 DEF YPipeInv
  <2> QED BY <2>1, <2>2, <2>3, <2>4, <2>5, <2>6, <2>7, <2>8 DEF Next
<1> QED BY <1>1, InitInv, PTL DEF Spec

-----------------------------------------------------------------------------
(* What the invariant says of the queue.                                   *)

\* The reader and the writer exchange chunks without ever holding the same
\* memory (yqueue.hpp, push and pop).
THEOREM ChunksAreDisjoint == Spec => []ChunksDisjoint
<1>1. YPipeInv => ChunksDisjoint
  BY DEF YPipeInv
<1> QED BY <1>1, QueueInvariance, PTL

\* The slots of the linked chunks, and how far they are from the front.
LEMMA DistanceOf ==
  ASSUME YPipeInv, NEW x \in Nat, beginPos <= x, x < N * Len(chunks)
  PROVE  /\ x - beginPos \in 0 .. Span - 1
         /\ Slot(x - beginPos) = At(chunks, x)
         /\ Distance(At(chunks, x)) = x - beginPos
<1>1. chunks \in Seq(Chunks) /\ N * Len(chunks) \in Nat /\ beginPos \in Nat
  BY Sizes
<1>2. \A i, j \in DOMAIN chunks : chunks[i] = chunks[j] => i = j
  BY DEF YPipeInv, ChunksDisjoint
<1> DEFINE u == N * Len(chunks)
           d == x - beginPos
<1>3. Span = u - beginPos /\ u \in Nat /\ x < u
  BY <1>1 DEF Span
<1> HIDE DEF u
<1>4. d \in 0 .. Span - 1 /\ d \in Nat /\ beginPos + d = x
  BY <1>1, <1>3
<1> HIDE DEF d
<1>5. \A i \in 0 .. Span - 1 : beginPos + i \in Nat /\ beginPos + i < u /\ i \in Nat
  BY <1>1, <1>3
<1>6. \A i : Slot(i) = At(chunks, beginPos + i)
  BY DEF Slot, At
<1>7. Slot(d) = At(chunks, x)
  BY <1>4, <1>6
<1>8. \A i \in 0 .. Span - 1 : Slot(i) = At(chunks, x) => i = d
  <2> SUFFICES ASSUME NEW i \in 0 .. Span - 1, Slot(i) = At(chunks, x)
               PROVE  i = d
    OBVIOUS
  <2> DEFINE y == beginPos + i
  <2>1. y \in Nat /\ y < u /\ i \in Nat
    BY <1>5
  <2>2. At(chunks, y) = At(chunks, x)
    BY <1>6
  <2> HIDE DEF y
  <2>3. y = x
    BY <1>1, <1>2, <1>3, <2>1, <2>2, AtInjective DEF u
  <2> QED BY <1>1, <1>4, <2>1, <2>3 DEF y
<1>9. Distance(At(chunks, x)) = d
  BY <1>4, <1>7, <1>8 DEF Distance
<1> QED BY <1>4, <1>7, <1>9 DEF d

\* Whatever the interleaving of the two threads, and although memory is
\* reused, the pointers they compare (ypipe.hpp, flush and check_read) are
\* slots of the linked chunks in the order front, r, w, f, back, and c is w
\* or NULL.
THEOREM PointersStayInOrder == Spec => []PointersInOrder
<1>1. YPipeInv => PointersInOrder
  <2> SUFFICES ASSUME YPipeInv PROVE PointersInOrder
    OBVIOUS
  <2> DEFINE live == {Slot(i) : i \in 0 .. Span - 1}
  <2>1. TypeOK /\ InOrder /\ Handshake /\ back = At(chunks, End - 1)
    BY DEF YPipeInv
  <2>2. /\ beginPos \in Nat /\ End \in Nat /\ beginPos < End
        /\ N * Len(chunks) \in Nat /\ End < N * Len(chunks)
    BY Sizes
  <2>3. PICK x, y \in Nat : /\ Lies(chunks, beginPos, End, w, x)
                            /\ Lies(chunks, beginPos, End, f, y) /\ x <= y
                            /\ r # NULL => \E z \in Nat : Lies(chunks, beginPos, End, r, z) /\ z <= x
    BY <2>1 DEF InOrder, Pos
  <2>4. \A p : \A z \in Nat : Lies(chunks, beginPos, End, p, z)
                              => p \in live /\ Distance(p) = z - beginPos /\ z < End
    <3> SUFFICES ASSUME NEW p, NEW z \in Nat, Lies(chunks, beginPos, End, p, z)
                 PROVE  p \in live /\ Distance(p) = z - beginPos /\ z < End
      OBVIOUS
    <3>1. beginPos <= z /\ z < End /\ p = At(chunks, z)
      BY DEF Lies
    <3>2. z < N * Len(chunks)
      BY <2>2, <3>1
    <3> QED BY <3>1, <3>2, DistanceOf
  <2>5. Lies(chunks, beginPos, End, back, End - 1) /\ End - 1 \in Nat
    BY <2>1, <2>2 DEF Lies
  <2>6. /\ w \in live /\ Distance(w) = x - beginPos
        /\ f \in live /\ Distance(f) = y - beginPos /\ y < End
        /\ back \in live /\ Distance(back) = (End - 1) - beginPos
    BY <2>3, <2>4, <2>5
  <2>7. Distance(w) <= Distance(f) /\ Distance(f) <= Distance(back)
    BY <2>2, <2>3, <2>6
  <2>8. r # NULL => r \in live /\ Distance(r) <= Distance(w)
    <3> SUFFICES ASSUME r # NULL PROVE r \in live /\ Distance(r) <= Distance(w)
      OBVIOUS
    <3>1. PICK z \in Nat : Lies(chunks, beginPos, End, r, z) /\ z <= x
      BY <2>3
    <3>2. r \in live /\ Distance(r) = z - beginPos
      BY <2>4, <3>1
    <3> QED BY <2>2, <2>6, <3>1, <3>2
  <2>9. (c = NULL => w = front /\ ~inActive) /\ (c # NULL => c = w)
    BY <2>1 DEF Handshake
  <2> QED BY <2>1, <2>6, <2>7, <2>8, <2>9 DEF PointersInOrder
<1> QED BY <1>1, QueueInvariance, PTL

-----------------------------------------------------------------------------
(* The queue that the users see: cuts of the contents of the chunks.       *)

\* What lies from position a up to position b.
Cut(g, a, b) == [k \in 1 .. b - a |-> g[a + k - 1]]

\* Values of V lie there.
Filled(g, a, b, V) == \A x \in Nat : a <= x /\ x < b => g[x] \in V

\* The same values lie there.
Agree(h, g, a, b) == \A x \in Nat : a <= x /\ x < b => h[x] = g[x]

\* What lies there in g lies d earlier in h.
Shifted(h, g, a, b, d) == \A x \in Nat : a <= x /\ x < b => h[x - d] = g[x]

\* The same values lie there, and a value of V lies at b.
Adds(h, g, a, b, V) == Filled(g, a, b, V) /\ Agree(h, g, a, b) /\ h[b] \in V

\* The sequence of what lies there.
IsCut(s, g, a, b, V) == /\ s \in Seq(V) /\ Len(s) = b - a
                        /\ \A k \in 1 .. (b - a) : s[k] = g[a + k - 1]

\* A cut is a sequence.
LEMMA CutSeq ==
  ASSUME NEW V, NEW g, NEW a \in Nat, NEW b \in Nat, a <= b, Filled(g, a, b, V)
  PROVE  IsCut(Cut(g, a, b), g, a, b, V)
<1> DEFINE n == b - a
<1>1. n \in Nat
  OBVIOUS
<1>2. \A k \in 1 .. n : a + k - 1 \in Nat /\ a <= a + k - 1 /\ a + k - 1 < b
  OBVIOUS
<1>3. \A k \in 1 .. n : g[a + k - 1] \in V
  BY <1>2 DEF Filled
<1> DEFINE s == Cut(g, a, b)
<1>4. s = [k \in 1 .. n |-> g[a + k - 1]]
  BY DEF Cut
<1> HIDE DEF n
<1>5. s \in [1 .. n -> V] /\ DOMAIN s = 1 .. n /\ \A k \in 1 .. n : s[k] = g[a + k - 1]
  BY <1>3, <1>4
<1> HIDE DEF s
<1>6. s \in Seq(V) /\ Len(s) = n
  BY <1>1, <1>5
<1> QED BY <1>5, <1>6 DEF n, s, IsCut

\* Sequences with the same elements are the same.
LEMMA SameSeq ==
  ASSUME NEW V, NEW s \in Seq(V), NEW t \in Seq(V), Len(s) = Len(t),
         \A k \in 1 .. Len(s) : s[k] = t[k]
  PROVE  s = t
  OBVIOUS

\* There is nothing between a position and itself.
LEMMA CutNone ==
  ASSUME NEW g, NEW a \in Nat
  PROVE  Cut(g, a, a) = << >>
<1>1. Cut(g, a, a) = [k \in 1 .. 0 |-> g[a + k - 1]]
  BY DEF Cut
<1> QED BY <1>1

\* One more position appends its value.
LEMMA CutAppend ==
  ASSUME NEW V, NEW g, NEW h, NEW a \in Nat, NEW b \in Nat, a <= b, Adds(h, g, a, b, V)
  PROVE  Cut(h, a, b + 1) = Append(Cut(g, a, b), h[b])
<1> DEFINE v == h[b]
           e == b + 1
<1>10. Filled(g, a, b, V) /\ Agree(h, g, a, b) /\ v \in V /\ h[b] = v /\ e = b + 1
  BY DEF Adds
<1> HIDE DEF v, e
<1> DEFINE s == Cut(g, a, b)
           t == Cut(h, a, e)
           n == b - a
<1>1. n \in Nat /\ (b + 1) - a = n + 1 /\ b + 1 \in Nat /\ a <= b + 1
  OBVIOUS
<1>2. s \in Seq(V) /\ Len(s) = n /\ \A k \in 1 .. n : s[k] = g[a + k - 1]
  <2>1. IsCut(Cut(g, a, b), g, a, b, V)
    BY <1>10, CutSeq
  <2> QED BY <2>1 DEF IsCut
<1>3. Filled(h, a, b + 1, V)
  <2> SUFFICES ASSUME NEW x \in Nat, a <= x, x < b + 1 PROVE h[x] \in V
    BY <1>10 DEF Filled
  <2>1. x < b \/ x = b
    OBVIOUS
  <2> QED BY <1>10, <2>1 DEF Filled, Agree
<1>4. t \in Seq(V) /\ Len(t) = n + 1 /\ \A k \in 1 .. (n + 1) : t[k] = h[a + k - 1]
  <2>1. e \in Nat /\ a <= e /\ Filled(h, a, e, V) /\ e - a = n + 1
    BY <1>1, <1>3, <1>10
  <2>2. IsCut(Cut(h, a, e), h, a, e, V)
    BY <2>1, CutSeq
  <2> QED BY <2>1, <2>2 DEF IsCut
<1>5. \A k \in 1 .. n : t[k] = s[k]
  <2> SUFFICES ASSUME NEW k \in 1 .. n PROVE t[k] = s[k]
    OBVIOUS
  <2>1. a + k - 1 \in Nat /\ a <= a + k - 1 /\ a + k - 1 < b /\ k \in 1 .. (n + 1)
    BY <1>1
  <2> HIDE DEF s, t, n
  <2> QED BY <1>2, <1>4, <1>10, <2>1 DEF Agree
<1>6. t[n + 1] = v
  <2>1. n + 1 \in 1 .. (n + 1) /\ a + (n + 1) - 1 = b
    BY <1>1
  <2> HIDE DEF t, n
  <2> QED BY <1>4, <1>10, <2>1
<1> HIDE DEF s, t, n
<1>7. /\ Append(s, v) \in Seq(V) /\ Len(Append(s, v)) = n + 1
      /\ \A k \in 1 .. n : Append(s, v)[k] = s[k]
      /\ Append(s, v)[n + 1] = v
  BY <1>1, <1>2, <1>10
<1>8. \A k \in 1 .. (n + 1) : Append(s, v)[k] = t[k]
  <2>1. \A k \in 1 .. (n + 1) : k \in 1 .. n \/ k = n + 1
    BY <1>1
  <2> QED BY <1>5, <1>6, <1>7, <2>1
<1>9. Append(s, v) = t
  BY <1>4, <1>7, <1>8, SameSeq
<1> QED BY <1>9 DEF s, t, v, e

\* A cut depends on nothing outside it.
LEMMA CutSame ==
  ASSUME NEW g, NEW h, NEW a \in Nat, NEW b \in Nat, Agree(h, g, a, b)
  PROVE  Cut(h, a, b) = Cut(g, a, b)
<1>1. \A k \in 1 .. b - a : a + k - 1 \in Nat /\ a <= a + k - 1 /\ a + k - 1 < b
  OBVIOUS
<1>2. \A k \in 1 .. b - a : h[a + k - 1] = g[a + k - 1]
  BY <1>1 DEF Agree
<1> QED BY <1>2 DEF Cut

\* Counting from another origin.
LEMMA CutShift ==
  ASSUME NEW g, NEW h, NEW a \in Nat, NEW b \in Nat, NEW d \in Nat,
         NEW a2 \in Nat, NEW b2 \in Nat, a2 = a - d, b2 = b - d, Shifted(h, g, a, b, d)
  PROVE  Cut(h, a2, b2) = Cut(g, a, b)
<1>1. \A k \in 1 .. b - a : a + k - 1 \in Nat /\ a <= a + k - 1 /\ a + k - 1 < b
                            /\ (a + k - 1) - d = a2 + k - 1
  OBVIOUS
<1>2. \A k \in 1 .. b - a : h[a2 + k - 1] = g[a + k - 1]
  BY <1>1 DEF Shifted
<1>3. b2 - a2 = b - a
  OBVIOUS
<1> DEFINE n == b - a
<1>4. /\ Cut(h, a2, b2) = [k \in 1 .. n |-> h[a2 + k - 1]]
      /\ Cut(g, a, b) = [k \in 1 .. n |-> g[a + k - 1]]
  BY <1>3 DEF Cut
<1> HIDE DEF n
<1> QED BY <1>2, <1>4 DEF n

\* One position less drops the last value.
LEMMA CutFront ==
  ASSUME NEW V, NEW g, NEW a \in Nat, NEW b \in Nat, a < b, Filled(g, a, b, V)
  PROVE  SubSeq(Cut(g, a, b), 1, Len(Cut(g, a, b)) - 1) = Cut(g, a, b - 1)
<1> DEFINE s == Cut(g, a, b)
           e == b - 1
           t == Cut(g, a, e)
           n == e - a
<1>1. e \in Nat /\ a <= e /\ b - a = n + 1 /\ n \in Nat /\ Filled(g, a, e, V)
  BY DEF Filled
<1>2. s \in Seq(V) /\ Len(s) = b - a /\ \A k \in 1 .. (b - a) : s[k] = g[a + k - 1]
  BY CutSeq DEF IsCut
<1> HIDE DEF e
<1>3. t \in Seq(V) /\ Len(t) = e - a /\ \A k \in 1 .. (e - a) : t[k] = g[a + k - 1]
  <2>1. IsCut(Cut(g, a, e), g, a, e, V)
    BY <1>1, CutSeq
  <2> QED BY <2>1 DEF IsCut
<1>4. /\ Len(s) = n + 1 /\ \A k \in 1 .. (n + 1) : s[k] = g[a + k - 1]
      /\ Len(t) = n /\ \A k \in 1 .. n : t[k] = g[a + k - 1]
  BY <1>1, <1>2, <1>3
<1> HIDE DEF s, t, n
<1>5. Len(s) - 1 = n /\ \A k \in 1 .. n : k \in 1 .. (n + 1)
  BY <1>1, <1>4
<1>6. /\ SubSeq(s, 1, n) \in Seq(V) /\ Len(SubSeq(s, 1, n)) = n
      /\ \A k \in 1 .. n : SubSeq(s, 1, n)[k] = s[k]
  BY <1>1, <1>2, <1>4
<1>7. \A k \in 1 .. n : SubSeq(s, 1, n)[k] = t[k]
  BY <1>4, <1>5, <1>6
<1>8. SubSeq(s, 1, n) = t
  BY <1>3, <1>4, <1>6, <1>7, SameSeq
<1> QED BY <1>5, <1>8 DEF s, t, e

\* The first element of s, and the others.
Parts(s, v, t) == s # << >> /\ Head(s) = v /\ Tail(s) = t

\* Starting one position later drops the first value.
LEMMA CutTail ==
  ASSUME NEW V, NEW g, NEW a \in Nat, NEW b \in Nat, a < b, Filled(g, a, b, V)
  PROVE  Parts(Cut(g, a, b), g[a], Cut(g, a + 1, b))
<1> DEFINE s == Cut(g, a, b)
           e == a + 1
           t == Cut(g, e, b)
           n == b - e
<1>1. e \in Nat /\ e <= b /\ b - a = n + 1 /\ n \in Nat /\ Filled(g, e, b, V)
  BY DEF Filled
<1>2. s \in Seq(V) /\ Len(s) = b - a /\ \A k \in 1 .. (b - a) : s[k] = g[a + k - 1]
  <2>1. IsCut(Cut(g, a, b), g, a, b, V)
    BY CutSeq
  <2> QED BY <2>1 DEF IsCut
<1>9. \A k \in 1 .. n : e + k - 1 = a + (k + 1) - 1 /\ k + 1 \in 1 .. (n + 1)
  OBVIOUS
<1> HIDE DEF e
<1>3. t \in Seq(V) /\ Len(t) = b - e /\ \A k \in 1 .. (b - e) : t[k] = g[e + k - 1]
  <2>1. IsCut(Cut(g, e, b), g, e, b, V)
    BY <1>1, CutSeq
  <2> QED BY <2>1 DEF IsCut
<1>4. /\ Len(s) = n + 1 /\ \A k \in 1 .. (n + 1) : s[k] = g[a + k - 1]
      /\ Len(t) = n /\ \A k \in 1 .. n : t[k] = g[e + k - 1]
  BY <1>1, <1>2, <1>3
<1> HIDE DEF s, t, n
<1>5. s # << >> /\ Head(s) = g[a]
  <2>1. Len(s) > 0 /\ 1 \in 1 .. (n + 1) /\ a + 1 - 1 = a
    BY <1>1, <1>4
  <2>2. s[1] = g[a]
    BY <1>4, <2>1
  <2> QED BY <1>2, <2>1, <2>2
<1>6. Tail(s) \in Seq(V) /\ Len(Tail(s)) = n /\ \A k \in 1 .. n : Tail(s)[k] = s[k + 1]
  BY <1>1, <1>2, <1>4
<1>7. \A k \in 1 .. n : Tail(s)[k] = t[k]
  <2> SUFFICES ASSUME NEW k \in 1 .. n PROVE Tail(s)[k] = t[k]
    OBVIOUS
  <2>1. s[k + 1] = g[a + (k + 1) - 1] /\ t[k] = g[e + k - 1]
    BY <1>9, <1>4
  <2> QED BY <1>9, <1>6, <2>1
<1>8. Tail(s) = t
  BY <1>3, <1>4, <1>6, <1>7, SameSeq
<1> QED BY <1>5, <1>8 DEF s, t, e, Parts

\* Two cuts from a to e with their border at b, and a later one at m.
Borders(g, a, b, m, e, V) == a <= b /\ b <= m /\ m <= e /\ Filled(g, a, e, V)

\* The first n of t join s, the rest of t.
Joined(s, t, n) == s \o SubSeq(t, 1, n)
Rest(t, n) == SubSeq(t, n + 1, Len(t))

\* Moving the border between two cuts.
LEMMA CutSplit ==
  ASSUME NEW V, NEW g, NEW a \in Nat, NEW b \in Nat, NEW m \in Nat, NEW e \in Nat,
         Borders(g, a, b, m, e, V)
  PROVE  /\ Cut(g, a, m) = Joined(Cut(g, a, b), Cut(g, b, e), m - b)
         /\ Cut(g, m, e) = Rest(Cut(g, b, e), m - b)
<1> DEFINE s == Cut(g, a, b)
           t == Cut(g, b, e)
           i == b - a
           j == m - b
           k == e - m
<1>18. a <= b /\ b <= m /\ m <= e /\ Filled(g, a, e, V)
  BY DEF Borders
<1>1. /\ i \in Nat /\ j \in Nat /\ k \in Nat /\ m - a = i + j /\ e - b = j + k
      /\ a <= m /\ b <= e /\ b - a = i /\ m - b = j /\ e - m = k
  BY <1>18
<1>2. Filled(g, a, b, V) /\ Filled(g, a, m, V) /\ Filled(g, b, e, V) /\ Filled(g, m, e, V)
  BY <1>18 DEF Filled
<1>3. s \in Seq(V) /\ Len(s) = i /\ \A l \in 1 .. i : s[l] = g[a + l - 1]
  <2>1. IsCut(Cut(g, a, b), g, a, b, V)
    BY <1>2, <1>18, CutSeq
  <2> QED BY <2>1 DEF IsCut
<1>4. t \in Seq(V) /\ Len(t) = e - b /\ \A l \in 1 .. (e - b) : t[l] = g[b + l - 1]
  <2>1. IsCut(Cut(g, b, e), g, b, e, V)
    BY <1>1, <1>2, CutSeq
  <2> QED BY <2>1 DEF IsCut
<1>5. /\ Cut(g, a, m) \in Seq(V) /\ Len(Cut(g, a, m)) = m - a
      /\ \A l \in 1 .. (m - a) : Cut(g, a, m)[l] = g[a + l - 1]
  <2>1. IsCut(Cut(g, a, m), g, a, m, V)
    BY <1>1, <1>2, CutSeq
  <2> QED BY <2>1 DEF IsCut
<1>6. /\ Cut(g, m, e) \in Seq(V) /\ Len(Cut(g, m, e)) = k
      /\ \A l \in 1 .. k : Cut(g, m, e)[l] = g[m + l - 1]
  <2>1. IsCut(Cut(g, m, e), g, m, e, V)
    BY <1>2, <1>18, CutSeq
  <2> QED BY <2>1 DEF IsCut
<1>7. \A l \in 1 .. (i + j) : l \in 1 .. i \/ (l - i \in 1 .. j /\ a + l - 1 = b + (l - i) - 1)
  BY <1>18
<1>8. \A l \in 1 .. k : j + l \in 1 .. (j + k) /\ m + l - 1 = b + (j + l) - 1
  BY <1>18
<1>9. \A l \in 1 .. j : l \in 1 .. (j + k)
  BY <1>18
<1> HIDE DEF s, t, i, j, k
<1>10. /\ Len(t) = j + k /\ \A l \in 1 .. (j + k) : t[l] = g[b + l - 1]
       /\ Len(Cut(g, a, m)) = i + j
       /\ \A l \in 1 .. (i + j) : Cut(g, a, m)[l] = g[a + l - 1]
  BY <1>1, <1>4, <1>5
<1> DEFINE p == SubSeq(t, 1, j)
           q == SubSeq(t, j + 1, j + k)
<1>11. p \in Seq(V) /\ Len(p) = j /\ \A l \in 1 .. j : p[l] = t[l]
  <2>1. t \in Seq(V) /\ j \in Nat /\ j <= Len(t)
    BY <1>1, <1>4, <1>10
  <2> QED BY <2>1
<1>12. q \in Seq(V) /\ Len(q) = k /\ \A l \in 1 .. k : q[l] = t[j + l]
  BY <1>1, <1>4, <1>8, <1>10
<1> HIDE DEF p, q
<1>13. /\ s \o p \in Seq(V) /\ Len(s \o p) = i + j
       /\ \A l \in 1 .. i : (s \o p)[l] = s[l]
       /\ \A l \in 1 .. (i + j) : l \notin 1 .. i => (s \o p)[l] = p[l - i]
  <2>1. s \in Seq(V) /\ p \in Seq(V) /\ Len(s) = i /\ Len(p) = j /\ i \in Nat /\ j \in Nat
    BY <1>1, <1>3, <1>11
  <2>2. s \o p \in Seq(V) /\ Len(s \o p) = i + j
    BY <2>1
  <2>3. \A l \in 1 .. i : (s \o p)[l] = s[l]
    BY <2>1
  <2>4. \A l \in 1 .. (i + j) : l \notin 1 .. i => (s \o p)[l] = p[l - i]
    BY <2>1
  <2> QED BY <2>2, <2>3, <2>4
<1>14. \A l \in 1 .. (i + j) : (s \o p)[l] = Cut(g, a, m)[l]
  <2> SUFFICES ASSUME NEW l \in 1 .. (i + j) PROVE (s \o p)[l] = Cut(g, a, m)[l]
    OBVIOUS
  <2>1. CASE l \in 1 .. i
    BY <1>3, <1>10, <1>13, <2>1
  <2>2. CASE l \notin 1 .. i
    <3>1. l - i \in 1 .. j /\ a + l - 1 = b + (l - i) - 1
      BY <1>7, <2>2
    <3>2. p[l - i] = t[l - i] /\ t[l - i] = g[b + (l - i) - 1]
      BY <1>9, <1>10, <1>11, <3>1
    <3> QED BY <1>10, <1>13, <2>2, <3>1, <3>2
  <2> QED BY <2>1, <2>2
<1>15. s \o p = Cut(g, a, m)
  BY <1>5, <1>10, <1>13, <1>14, SameSeq
<1>16. \A l \in 1 .. k : q[l] = Cut(g, m, e)[l]
  <2> SUFFICES ASSUME NEW l \in 1 .. k PROVE q[l] = Cut(g, m, e)[l]
    OBVIOUS
  <2>1. q[l] = t[j + l] /\ t[j + l] = g[b + (j + l) - 1] /\ Cut(g, m, e)[l] = g[m + l - 1]
    BY <1>6, <1>8, <1>10, <1>12
  <2> QED BY <1>8, <2>1
<1>17. q = Cut(g, m, e)
  BY <1>6, <1>12, <1>16, SameSeq
<1> QED BY <1>1, <1>10, <1>15, <1>17 DEF p, q, s, t, Joined, Rest

\* The contents of the linked chunks ch, by position.
Content(ch, vs) == [x \in Nat |-> vs[At(ch, x)]]

\* An abstract queue from its parts.
Rec(a, b, n, z) == [flushed |-> a, unflushed |-> b, complete |-> n, asleep |-> z]

\* The abstract queue, by the positions of w and f.
View ==
    \A x, y \in Nat :
       Lies(chunks, beginPos, End, w, x) /\ Lies(chunks, beginPos, End, f, y)
       => Abstraction = Rec(Cut(Content(chunks, values), beginPos, x),
                            Cut(Content(chunks, values), x, End - 1), y - x, c = NULL)

\* What is between two positions, counted from the front.
LEMMA ContentsCut ==
  ASSUME beginPos \in Nat, NEW x \in Nat, NEW y \in Nat, beginPos <= x
  PROVE  Contents(x - beginPos, y - beginPos) = Cut(Content(chunks, values), x, y)
<1> DEFINE g == Content(chunks, values)
           i == x - beginPos
           n == y - x
<1>1. (y - beginPos) - i = n /\ i \in Nat /\ beginPos + i = x
  OBVIOUS
<1>2. \A k \in 1 .. n : beginPos + (i + k - 1) = x + k - 1 /\ x + k - 1 \in Nat
  OBVIOUS
<1>3. Contents(i, y - beginPos) = [k \in 1 .. n |-> values[Slot(i + k - 1)]]
  BY <1>1 DEF Contents
<1>4. Cut(g, x, y) = [k \in 1 .. n |-> g[x + k - 1]]
  BY DEF Cut
<1>5. \A k \in 1 .. n : Slot(i + k - 1) = At(chunks, beginPos + (i + k - 1))
  BY DEF Slot, At
<1>6. \A u \in Nat : g[u] = values[At(chunks, u)]
  BY DEF Content
<1> HIDE DEF n, g, i
<1>7. \A k \in 1 .. n : values[Slot(i + k - 1)] = g[x + k - 1]
  BY <1>2, <1>5, <1>6
<1>8. Contents(i, y - beginPos) = Cut(g, x, y)
  BY <1>3, <1>4, <1>7
<1> QED BY <1>8 DEF g, i

\* The view is right wherever the invariant holds.
LEMMA ViewHolds == YPipeInv => View
<1> SUFFICES ASSUME YPipeInv, NEW x \in Nat, NEW y \in Nat,
                    Lies(chunks, beginPos, End, w, x), Lies(chunks, beginPos, End, f, y)
             PROVE  Abstraction = Rec(Cut(Content(chunks, values), beginPos, x),
                                      Cut(Content(chunks, values), x, End - 1), y - x, c = NULL)
  BY DEF View
<1>1. /\ beginPos \in Nat /\ End \in Nat /\ beginPos < End
      /\ N * Len(chunks) \in Nat /\ End < N * Len(chunks)
  BY Sizes
<1>2. \A p : \A z \in Nat : Lies(chunks, beginPos, End, p, z)
                            => Distance(p) = z - beginPos /\ beginPos <= z
  <2> SUFFICES ASSUME NEW p, NEW z \in Nat, Lies(chunks, beginPos, End, p, z)
               PROVE  Distance(p) = z - beginPos /\ beginPos <= z
    OBVIOUS
  <2>1. beginPos <= z /\ z < End /\ p = At(chunks, z)
    BY DEF Lies
  <2>2. z < N * Len(chunks)
    BY <1>1, <2>1
  <2> QED BY <2>1, <2>2, DistanceOf
<1>3. Lies(chunks, beginPos, End, back, End - 1) /\ End - 1 \in Nat
  BY <1>1 DEF Lies, YPipeInv
<1>4. /\ Distance(w) = x - beginPos /\ beginPos <= x
      /\ Distance(f) = y - beginPos
      /\ Distance(back) = (End - 1) - beginPos
  BY <1>2, <1>3
<1>5. Contents(0, Distance(w)) = Cut(Content(chunks, values), beginPos, x)
  <2>1. Contents(beginPos - beginPos, x - beginPos) = Cut(Content(chunks, values), beginPos, x)
    BY <1>1, ContentsCut
  <2>2. beginPos - beginPos = 0
    BY <1>1
  <2> QED BY <1>4, <2>1, <2>2
<1>6. Contents(Distance(w), Distance(back)) = Cut(Content(chunks, values), x, End - 1)
  BY <1>1, <1>3, <1>4, ContentsCut
<1>7. Distance(f) - Distance(w) = y - x
  BY <1>1, <1>4
<1> QED BY <1>5, <1>6, <1>7 DEF Abstraction, Rec

\* The same of the state after a step.
LEMMA ViewHoldsNext == YPipeInv' => View'
  BY ViewHolds, PTL

\* What the operations of the abstract queue do to its parts.
LEMMA RecWritten ==
  ASSUME NEW a, NEW b, NEW n, NEW z, NEW item, NEW inc
  PROVE  Q!Written(Rec(a, b, n, z), item, inc)
           = Rec(a, Append(b, item), IF inc THEN n ELSE Len(b) + 1, z)
<1> DEFINE q == Rec(a, b, n, z)
           x == Append(b, item)
           m == IF inc THEN n ELSE Len(b) + 1
<1>1. q.unflushed = b /\ q.complete = n
  BY DEF Rec
<1>2. Q!Written(q, item, inc) = [q EXCEPT !.unflushed = x, !.complete = m]
  BY <1>1 DEF Q!Written
<1> HIDE DEF x, m
<1>3. [q EXCEPT !.unflushed = x] = Rec(a, x, n, z)
  BY DEF Rec
<1>4. [Rec(a, x, n, z) EXCEPT !.complete = m] = Rec(a, x, m, z)
  BY DEF Rec
<1>5. [q EXCEPT !.unflushed = x, !.complete = m]
         = [[q EXCEPT !.unflushed = x] EXCEPT !.complete = m]
  OBVIOUS
<1> QED BY <1>2, <1>3, <1>4, <1>5 DEF x, m

\* The operations of WakeQueue on a record given by its fields: unwrite,
LEMMA RecUnwritten ==
  ASSUME NEW a, NEW b, NEW n, NEW z
  PROVE  Q!Unwritten(Rec(a, b, n, z)) = Rec(a, SubSeq(b, 1, Len(b) - 1), n, z)
  BY DEF Q!Unwritten, Rec

\* flush,
LEMMA RecFlushed ==
  ASSUME NEW a, NEW b, NEW n, NEW z, n # 0
  PROVE  Q!Flushed(Rec(a, b, n, z))
           = Rec(a \o SubSeq(b, 1, n), SubSeq(b, n + 1, Len(b)), 0, FALSE)
  BY DEF Q!Flushed, Rec

\* read,
LEMMA RecPopped ==
  ASSUME NEW a, NEW b, NEW n, NEW z
  PROVE  Q!Popped(Rec(a, b, n, z)) = Rec(Tail(a), b, n, z)
<1> DEFINE x == Tail(a)
<1>1. Q!Popped(Rec(a, b, n, z)) = [Rec(a, b, n, z) EXCEPT !.flushed = x]
  BY DEF Q!Popped, Rec
<1> HIDE DEF x
<1>2. [Rec(a, b, n, z) EXCEPT !.flushed = x] = Rec(x, b, n, z)
  BY DEF Rec
<1> QED BY <1>1, <1>2 DEF x

\* and the check that puts the reader to sleep.
LEMMA RecCheckedEmpty ==
  ASSUME NEW a, NEW b, NEW n, NEW z
  PROVE  Q!CheckedEmpty(Rec(a, b, n, z)) = Rec(a, b, n, TRUE)
<1> DEFINE x == TRUE
<1>1. Q!CheckedEmpty(Rec(a, b, n, z)) = [Rec(a, b, n, z) EXCEPT !.asleep = x]
  BY DEF Q!CheckedEmpty
<1> HIDE DEF x
<1>2. [Rec(a, b, n, z) EXCEPT !.asleep = x] = Rec(a, b, n, x)
  BY DEF Rec
<1> QED BY <1>1, <1>2 DEF x

\* Where a queue stands: the positions of w and f, and its contents.
LEMMA Standing ==
  ASSUME YPipeInv
  PROVE  \E x, y \in Nat :
           /\ Lies(chunks, beginPos, End, w, x) /\ Lies(chunks, beginPos, End, f, y)
           /\ x <= y /\ beginPos <= x /\ y < End
           /\ w = At(chunks, x) /\ f = At(chunks, y)
           /\ Abstraction = Rec(Cut(Content(chunks, values), beginPos, x),
                                Cut(Content(chunks, values), x, End - 1), y - x, c = NULL)
<1>1. PICK x, y \in Nat : /\ Lies(chunks, beginPos, End, w, x)
                          /\ Lies(chunks, beginPos, End, f, y) /\ x <= y
  BY DEF YPipeInv, InOrder, Pos
<1>2. Abstraction = Rec(Cut(Content(chunks, values), beginPos, x),
                        Cut(Content(chunks, values), x, End - 1), y - x, c = NULL)
  BY <1>1, ViewHolds DEF View
<1>3. beginPos <= x /\ y < End /\ w = At(chunks, x) /\ f = At(chunks, y)
  BY <1>1 DEF Lies
<1> QED BY <1>1, <1>2, <1>3

\* The linked chunks hold items, or nothing.
LEMMA ContentFilled ==
  ASSUME YPipeInv
  PROVE  /\ Filled(Content(chunks, values), beginPos, End, Items \cup {Nothing})
         /\ \A u \in Nat : Content(chunks, values)[u] = values[At(chunks, u)]
         /\ \A u \in Nat : u < End => At(chunks, u) \in Slots
         /\ \A u, v \in Nat : u < End /\ v < End /\ At(chunks, u) = At(chunks, v) => u = v
<1>1. /\ chunks \in Seq(Chunks) /\ End \in Nat /\ N * Len(chunks) \in Nat
      /\ End < N * Len(chunks)
  BY Sizes
<1>2. /\ values \in [Slots -> Items \cup {Nothing}]
      /\ \A i, j \in DOMAIN chunks : chunks[i] = chunks[j] => i = j
  BY DEF YPipeInv, TypeOK, ChunksDisjoint
<1>3. \A u \in Nat : u < End => u < N * Len(chunks)
  BY <1>1
<1>4. \A u \in Nat : u < End => At(chunks, u) \in Slots
  BY <1>1, <1>3, AtSlot
<1>5. \A u, v \in Nat : u < End /\ v < End /\ At(chunks, u) = At(chunks, v) => u = v
  BY <1>1, <1>2, <1>3, AtInjective
<1>6. \A u \in Nat : Content(chunks, values)[u] = values[At(chunks, u)]
  BY DEF Content
<1>7. Filled(Content(chunks, values), beginPos, End, Items \cup {Nothing})
  BY <1>2, <1>4, <1>6 DEF Filled
<1> QED BY <1>4, <1>5, <1>6, <1>7

\* write is the abstract write.
LEMMA WriteStep ==
  ASSUME YPipeInv, NEW item \in Items, Write(item)
  PROVE  Q!Write
<1>1. YPipeInv'
  BY WriteInv
<1>2. /\ End' = End + 1 /\ back' = At(chunks', End)
      /\ \A x \in Nat : x < N * Len(chunks) => At(chunks', x) = At(chunks, x)
  BY PushPos DEF Write
<1>3. /\ values' = [values EXCEPT ![back] = item]
      /\ f' = (IF item \in Partial THEN f ELSE back')
      /\ UNCHANGED <<beginPos, w, r, c, flushing, inActive, owed, read>>
  BY DEF Write
<1>4. /\ beginPos \in Nat /\ End \in Nat /\ beginPos < End
      /\ N * Len(chunks) \in Nat /\ End < N * Len(chunks)
  BY Sizes
<1> DEFINE V == Items \cup {Nothing}
           g == Content(chunks, values)
           h == Content(chunks', values')
           e == End - 1
<1>5. PICK x, y \in Nat :
           /\ Lies(chunks, beginPos, End, w, x) /\ Lies(chunks, beginPos, End, f, y)
           /\ x <= y /\ beginPos <= x /\ y < End
           /\ w = At(chunks, x) /\ f = At(chunks, y)
           /\ Abstraction = Rec(Cut(g, beginPos, x), Cut(g, x, e), y - x, c = NULL)
  BY Standing
<1>6. /\ back = At(chunks, e) /\ values \in [Slots -> V] /\ back \in Slots
  BY DEF YPipeInv, TypeOK
<1>7. /\ Filled(g, beginPos, End, V)
      /\ \A u \in Nat : g[u] = values[At(chunks, u)]
      /\ \A u \in Nat : u < End => At(chunks, u) \in Slots
      /\ \A u, v \in Nat : u < End /\ v < End /\ At(chunks, u) = At(chunks, v) => u = v
  BY ContentFilled
<1>8. e \in Nat /\ e < End /\ e + 1 = End /\ End' - 1 = End /\ x <= e /\ beginPos <= e
  BY <1>2, <1>4, <1>5
<1>9. \A u \in Nat : u < End => At(chunks', u) = At(chunks, u)
  BY <1>2, <1>4
<1>10. \A u \in Nat : h[u] = values'[At(chunks', u)]
  BY DEF Content
<1> HIDE DEF V, g, h, e
<1>11. (\A u \in Nat : u < e => h[u] = g[u]) /\ h[e] = item
  <2>1. ASSUME NEW u \in Nat, u < e PROVE h[u] = g[u]
    <3>1. u < End /\ u # e
      BY <1>4, <1>8, <2>1
    <3>2. At(chunks, u) # back /\ At(chunks, u) \in Slots
      BY <1>6, <1>7, <1>8, <3>1
    <3>3. values'[At(chunks, u)] = values[At(chunks, u)]
      BY <1>3, <1>6, <3>2
    <3> QED BY <1>7, <1>9, <1>10, <3>1, <3>3
  <2>2. h[e] = item
    <3>1. values'[back] = item
      BY <1>3, <1>6
    <3> QED BY <1>6, <1>8, <1>9, <1>10, <3>1
  <2> QED BY <2>1, <2>2
<1>12. PICK z \in Nat : /\ Lies(chunks', beginPos', End', f', z)
                        /\ z = IF item \in Partial THEN y ELSE End
  <2>1. CASE item \in Partial
    <3>1. f' = At(chunks', y) /\ beginPos' <= y /\ y < End'
      BY <1>2, <1>3, <1>4, <1>5, <1>9, <2>1
    <3> QED BY <2>1, <3>1 DEF Lies
  <2>2. CASE item \notin Partial
    <3>1. f' = At(chunks', End) /\ beginPos' <= End /\ End < End'
      BY <1>2, <1>3, <1>4, <2>2
    <3> QED BY <1>4, <2>2, <3>1 DEF Lies
  <2> QED BY <2>1, <2>2
<1>13. Lies(chunks', beginPos', End', w', x)
  <2>1. w' = At(chunks', x) /\ beginPos' <= x /\ x < End'
    BY <1>2, <1>3, <1>4, <1>5, <1>9
  <2> QED BY <2>1 DEF Lies
<1>14. Abstraction' = Rec(Cut(h, beginPos', x), Cut(h, x, End' - 1), z - x, c' = NULL)
  <2>1. View'
    BY <1>1, ViewHoldsNext
  <2> QED BY <1>12, <1>13, <2>1 DEF View, h, NULL
<1>15. Cut(h, beginPos', x) = Cut(g, beginPos, x)
  <2>1. Agree(h, g, beginPos, x)
    BY <1>8, <1>11 DEF Agree
  <2>2. Cut(h, beginPos, x) = Cut(g, beginPos, x)
    BY <1>4, <2>1, CutSame
  <2> QED BY <1>3, <2>2
<1>16. Filled(g, x, e, V) /\ Filled(g, beginPos, x, V)
  BY <1>4, <1>5, <1>7, <1>8 DEF Filled
<1>17. Cut(h, x, End' - 1) = Append(Cut(g, x, e), item)
  <2>1. Agree(h, g, x, e)
    BY <1>11 DEF Agree
  <2>2. item \in V
    BY DEF V
  <2>3. e \in Nat /\ x <= e /\ h[e] = item /\ Filled(g, x, e, V) /\ End' - 1 = e + 1
    BY <1>8, <1>11, <1>16
  <2>4. Adds(h, g, x, e, V)
    BY <2>1, <2>2, <2>3 DEF Adds
  <2>5. Cut(h, x, e + 1) = Append(Cut(g, x, e), h[e])
    <3>1. e \in Nat /\ x <= e
      BY <2>3
    <3> QED BY <2>4, <3>1, CutAppend
  <2> QED BY <2>3, <2>5
<1>18. Len(Cut(g, x, e)) = e - x
  <2>1. IsCut(Cut(g, x, e), g, x, e, V)
    BY <1>8, <1>16, CutSeq
  <2> QED BY <2>1 DEF IsCut
<1>19. z - x = IF item \in Partial THEN y - x ELSE Len(Cut(g, x, e)) + 1
  BY <1>4, <1>8, <1>12, <1>18
<1>20. Abstraction' = Q!Written(Abstraction, item, item \in Partial)
  <2> DEFINE a == Cut(g, beginPos, x)
             b == Cut(g, x, e)
             n == IF item \in Partial THEN y - x ELSE Len(b) + 1
  <2>1. Q!Written(Rec(a, b, y - x, c = NULL), item, item \in Partial)
           = Rec(a, Append(b, item), n, c = NULL)
    <3> DEFINE inc == item \in Partial
               z1 == c = NULL
               d == y - x
    <3> HIDE DEF inc, z1, d, a, b
    <3>1. Q!Written(Rec(a, b, d, z1), item, inc)
             = Rec(a, Append(b, item), IF inc THEN d ELSE Len(b) + 1, z1)
      BY RecWritten
    <3> QED BY <3>1 DEF inc, z1, d
  <2>2. Abstraction' = Rec(a, Append(b, item), n, c = NULL)
    <3>1. (c' = NULL) = (c = NULL)
      BY <1>3
    <3> QED BY <1>14, <1>15, <1>17, <1>19, <3>1
  <2> HIDE DEF a, b, n
  <2>3. Abstraction = Rec(a, b, y - x, c = NULL)
    BY <1>5 DEF a, b
  <2> QED BY <2>1, <2>2, <2>3
<1> QED BY <1>3, <1>20 DEF Q!Write

\* unwrite is the abstract unwrite.
LEMMA UnwriteStep ==
  ASSUME YPipeInv, Unwrite
  PROVE  Q!Unwrite
<1>1. YPipeInv'
  BY UnwriteInv
<1>2. /\ f # back /\ Unpush /\ values' = [values EXCEPT ![back'] = Nothing]
      /\ UNCHANGED <<beginPos, w, f, r, c, flushing, inActive, owed, read>>
  BY DEF Unwrite
<1>3. /\ beginPos \in Nat /\ End \in Nat /\ beginPos < End
  BY Sizes
<1> DEFINE V == Items \cup {Nothing}
           g == Content(chunks, values)
           h == Content(chunks', values')
           e == End - 1
           n == End - 2
<1>4. PICK x, y \in Nat :
           /\ Lies(chunks, beginPos, End, w, x) /\ Lies(chunks, beginPos, End, f, y)
           /\ x <= y /\ beginPos <= x /\ y < End
           /\ w = At(chunks, x) /\ f = At(chunks, y)
           /\ Abstraction = Rec(Cut(g, beginPos, x), Cut(g, x, e), y - x, c = NULL)
  BY Standing
<1>5. back = At(chunks, e) /\ values \in [Slots -> V]
  BY DEF YPipeInv, TypeOK
<1>6. y < e /\ End - 1 > 0
  <2>1. y # e
    BY <1>2, <1>4, <1>5
  <2> QED BY <1>3, <1>4, <2>1
<1>7. /\ End' = End - 1 /\ back' = At(chunks, End - 2) /\ back' \in Slots
      /\ \A u \in Nat : u < End => At(chunks', u) = At(chunks, u)
  BY <1>2, <1>6, UnpushPos
<1>8. /\ Filled(g, beginPos, End, V)
      /\ \A u \in Nat : g[u] = values[At(chunks, u)]
      /\ \A u \in Nat : u < End => At(chunks, u) \in Slots
      /\ \A u, v \in Nat : u < End /\ v < End /\ At(chunks, u) = At(chunks, v) => u = v
  BY ContentFilled
<1>9. /\ e \in Nat /\ n \in Nat /\ e - 1 = n /\ e < End /\ n < End /\ n < e
      /\ End' = e /\ End' - 1 = n /\ x <= n /\ y <= n /\ x < e
  BY <1>3, <1>4, <1>6, <1>7
<1>10. \A u \in Nat : h[u] = values'[At(chunks', u)]
  BY DEF Content
<1>11. back' = At(chunks, n)
  BY <1>7
<1> HIDE DEF V, g, h, e, n
<1>12. \A u \in Nat : u < n => h[u] = g[u]
  <2> SUFFICES ASSUME NEW u \in Nat, u < n PROVE h[u] = g[u]
    OBVIOUS
  <2>1. u < End /\ u # n
    BY <1>3, <1>9
  <2>2. At(chunks, u) # back' /\ At(chunks, u) \in Slots
    BY <1>8, <1>9, <1>11, <2>1
  <2>3. values'[At(chunks, u)] = values[At(chunks, u)]
    BY <1>2, <1>5, <2>2
  <2> QED BY <1>7, <1>8, <1>10, <2>1, <2>3
<1>13. Lies(chunks', beginPos', End', w', x) /\ Lies(chunks', beginPos', End', f', y)
  <2>1. w' = At(chunks', x) /\ beginPos' <= x /\ x < End'
    BY <1>2, <1>3, <1>4, <1>7, <1>9
  <2>2. f' = At(chunks', y) /\ beginPos' <= y /\ y < End'
    BY <1>2, <1>3, <1>4, <1>7, <1>6, <1>9
  <2> QED BY <2>1, <2>2 DEF Lies
<1>14. Abstraction' = Rec(Cut(h, beginPos', x), Cut(h, x, End' - 1), y - x, c' = NULL)
  <2>1. View'
    BY <1>1, ViewHoldsNext
  <2> QED BY <1>13, <2>1 DEF View, h, NULL
<1>15. Cut(h, beginPos', x) = Cut(g, beginPos, x) /\ Cut(h, x, End' - 1) = Cut(g, x, n)
  <2>1. Agree(h, g, beginPos, x) /\ Agree(h, g, x, n)
    BY <1>9, <1>12 DEF Agree
  <2>2. Cut(h, beginPos, x) = Cut(g, beginPos, x)
    BY <1>3, <2>1, CutSame
  <2>3. Cut(h, x, n) = Cut(g, x, n)
    BY <1>9, <2>1, CutSame
  <2> QED BY <1>2, <1>9, <2>2, <2>3
<1>16. Filled(g, x, e, V)
  BY <1>3, <1>4, <1>8, <1>9 DEF Filled
<1>17. SubSeq(Cut(g, x, e), 1, Len(Cut(g, x, e)) - 1) = Cut(g, x, n)
  <2>1. x < e /\ e \in Nat
    BY <1>9
  <2>2. SubSeq(Cut(g, x, e), 1, Len(Cut(g, x, e)) - 1) = Cut(g, x, e - 1)
    BY <1>16, <2>1, CutFront
  <2> QED BY <1>9, <2>2
<1>18. Len(Cut(g, x, e)) = e - x
  <2>1. x <= e /\ e \in Nat
    BY <1>9
  <2>2. IsCut(Cut(g, x, e), g, x, e, V)
    BY <1>16, <2>1, CutSeq
  <2> QED BY <2>2 DEF IsCut
<1> DEFINE a == Cut(g, beginPos, x)
           b == Cut(g, x, e)
           d == y - x
           z == c = NULL
<1>19. Abstraction = Rec(a, b, d, z) /\ d < Len(b)
  <2>1. y - x < e - x
    BY <1>6, <1>9
  <2> QED BY <1>4, <1>18, <2>1 DEF e
<1>20. Abstraction' = Rec(a, SubSeq(b, 1, Len(b) - 1), d, z)
  <2>1. (c' = NULL) = (c = NULL)
    BY <1>2
  <2> QED BY <1>14, <1>15, <1>17, <2>1
<1> HIDE DEF a, b, d, z
<1>21. Abstraction' = Q!Unwritten(Abstraction)
  BY <1>19, <1>20, RecUnwritten
<1>22. Q!CanUnwrite(Abstraction)
  <2>1. Rec(a, b, d, z).complete = d /\ Rec(a, b, d, z).unflushed = b
    BY DEF Rec
  <2> QED BY <1>19, <2>1 DEF Q!CanUnwrite
<1> QED BY <1>2, <1>21, <1>22 DEF Q!Unwrite

\* What a step that leaves the queue alone leaves of its view: its contents.
LEMMA ViewKept ==
  ASSUME YPipeInv', UNCHANGED queueVars, UNCHANGED f, NEW x \in Nat, NEW y \in Nat,
         Lies(chunks, beginPos, End, w', x), Lies(chunks, beginPos, End, f, y)
  PROVE  Abstraction' = Rec(Cut(Content(chunks, values), beginPos, x),
                            Cut(Content(chunks, values), x, End - 1), y - x, c' = NULL)
<1>1. /\ chunks' = chunks /\ beginPos' = beginPos /\ endPos' = endPos /\ values' = values
  BY DEF queueVars
<1>2. End' = End
  BY <1>1 DEF End
<1>3. View'
  BY ViewHoldsNext
<1>4. Lies(chunks', beginPos', End', w', x) /\ Lies(chunks', beginPos', End', f', y)
  BY <1>1, <1>2
<1>5. Abstraction' = Rec(Cut(Content(chunks', values'), beginPos', x),
                         Cut(Content(chunks', values'), x, End' - 1), y - x, c' = NULL)
  BY <1>3, <1>4 DEF View, NULL
<1> QED BY <1>1, <1>2, <1>5

\* A flush, by its compare-and-swap or by the step after it, moves what is
\* complete over to the reader.
LEMMA FlushMoves ==
  ASSUME YPipeInv, YPipeInv', UNCHANGED queueVars, UNCHANGED f, w # f, w' = f, c' = f
  PROVE  /\ Abstraction' = Q!Flushed(Abstraction)
         /\ Abstraction.complete > 0
         /\ Abstraction.asleep = (c = NULL)
<1>1. /\ beginPos \in Nat /\ End \in Nat /\ beginPos < End
  BY Sizes
<1> DEFINE V == Items \cup {Nothing}
           g == Content(chunks, values)
           e == End - 1
<1>2. PICK x, y \in Nat :
           /\ Lies(chunks, beginPos, End, w, x) /\ Lies(chunks, beginPos, End, f, y)
           /\ x <= y /\ beginPos <= x /\ y < End
           /\ w = At(chunks, x) /\ f = At(chunks, y)
           /\ Abstraction = Rec(Cut(g, beginPos, x), Cut(g, x, e), y - x, c = NULL)
  BY Standing
<1>3. Filled(g, beginPos, End, V)
  BY ContentFilled
<1>4. e \in Nat /\ y <= e /\ x < y /\ beginPos <= x /\ x <= e
  <2>1. x # y
    BY <1>2
  <2> QED BY <1>1, <1>2, <2>1
<1>5. Abstraction' = Rec(Cut(g, beginPos, y), Cut(g, y, e), y - y, c' = NULL)
  BY <1>2, ViewKept
<1>6. c' # NULL /\ y - y = 0
  <2>1. f \in Slots
    BY DEF YPipeInv, TypeOK
  <2> QED BY <2>1, YPipeAssumption DEF NULL, Slots
<1> HIDE DEF V, g, e
<1>7. Filled(g, beginPos, e, V)
  BY <1>1, <1>3, <1>4 DEF Filled, e
<1> DEFINE a == Cut(g, beginPos, x)
           b == Cut(g, x, e)
           d == y - x
           z == c = NULL
<1>8. /\ Cut(g, beginPos, y) = a \o SubSeq(b, 1, d)
      /\ Cut(g, y, e) = SubSeq(b, d + 1, Len(b))
  <2>1. beginPos <= x /\ x <= y /\ y <= e /\ beginPos \in Nat /\ e \in Nat
    BY <1>1, <1>2, <1>4
  <2>2. /\ Cut(g, beginPos, y) = Joined(Cut(g, beginPos, x), Cut(g, x, e), y - x)
        /\ Cut(g, y, e) = Rest(Cut(g, x, e), y - x)
    <3>1. Borders(g, beginPos, x, y, e, V)
      BY <1>7, <2>1 DEF Borders
    <3>2. beginPos \in Nat /\ e \in Nat
      BY <2>1
    <3> QED BY <3>1, <3>2, CutSplit
  <2> QED BY <2>2 DEF Joined, Rest
<1>9. d > 0 /\ d # 0
  BY <1>4
<1>10. Abstraction = Rec(a, b, d, z)
  BY <1>2 DEF e
<1>11. Abstraction' = Rec(a \o SubSeq(b, 1, d), SubSeq(b, d + 1, Len(b)), 0, FALSE)
  <2>1. (c' = NULL) = FALSE
    BY <1>6
  <2> QED BY <1>5, <1>6, <1>8, <2>1
<1> HIDE DEF a, b, d
<1>12. Abstraction' = Q!Flushed(Abstraction)
  <2> HIDE DEF z
  <2> QED BY <1>9, <1>10, <1>11, RecFlushed
<1>13. Rec(a, b, d, z).complete = d /\ Rec(a, b, d, z).asleep = z
  <2> HIDE DEF z
  <2> QED BY DEF Rec
<1> QED BY <1>9, <1>10, <1>12, <1>13

\* A compare-and-swap of flush that succeeds is the abstract flush, one that
\* fails is no step.
LEMMA FlushCasStep ==
  ASSUME YPipeInv, FlushCas
  PROVE  Q!Flush \/ UNCHANGED Q!vars
<1>1. YPipeInv'
  BY FlushCasInv
<1>2. /\ UNCHANGED queueVars /\ f' = f /\ w # f
      /\ inActive' = inActive /\ owed' = owed /\ read' = read
  BY DEF FlushCas
<1>3. CASE c = w
  <2>1. c' = f /\ w' = f
    BY <1>3 DEF FlushCas
  <2>2. /\ Abstraction' = Q!Flushed(Abstraction)
        /\ Abstraction.complete > 0
        /\ Abstraction.asleep = (c = NULL)
    BY <1>1, <1>2, <2>1, FlushMoves
  <2>3. c # NULL
    BY <1>3, YPipeAssumption DEF YPipeInv, TypeOK, Slots, NULL
  <2>4. ~Q!FlushWakes(Abstraction)
    BY <2>2, <2>3 DEF Q!FlushWakes
  <2>5. owed' = (owed \/ Q!FlushWakes(Abstraction))
    BY <1>2, <2>4 DEF YPipeInv, TypeOK
  <2> QED BY <1>2, <2>2, <2>5 DEF Q!Flush
<1>4. CASE c # w
  <2>1. c' = c /\ w' = w
    BY <1>4 DEF FlushCas
  <2>2. PICK x, y \in Nat :
           /\ Lies(chunks, beginPos, End, w, x) /\ Lies(chunks, beginPos, End, f, y)
           /\ Abstraction = Rec(Cut(Content(chunks, values), beginPos, x),
                                Cut(Content(chunks, values), x, End - 1), y - x, c = NULL)
    BY Standing
  <2>3. Abstraction' = Rec(Cut(Content(chunks, values), beginPos, x),
                           Cut(Content(chunks, values), x, End - 1), y - x, c' = NULL)
    BY <1>1, <1>2, <2>1, <2>2, ViewKept
  <2>4. Abstraction' = Abstraction
    BY <2>1, <2>2, <2>3
  <2> QED BY <1>2, <2>4 DEF Q!vars
<1> QED BY <1>3, <1>4

\* The flush that finds the reader asleep asks for a wake-up.
LEMMA FlushSetStep ==
  ASSUME YPipeInv, FlushSet
  PROVE  Q!Flush
<1>1. YPipeInv'
  BY FlushSetInv
<1>2. /\ UNCHANGED queueVars /\ f' = f /\ flushing
      /\ inActive' = inActive /\ read' = read
      /\ c' = f /\ w' = f /\ owed' = TRUE
  BY DEF FlushSet
<1>3. c = NULL /\ w # f
  BY <1>2 DEF YPipeInv, Handshake
<1>4. /\ Abstraction' = Q!Flushed(Abstraction)
      /\ Abstraction.complete > 0
      /\ Abstraction.asleep = (c = NULL)
  BY <1>1, <1>2, <1>3, FlushMoves
<1>5. Q!FlushWakes(Abstraction)
  BY <1>3, <1>4 DEF Q!FlushWakes
<1>6. owed' = (owed \/ Q!FlushWakes(Abstraction))
  BY <1>2, <1>5
<1> QED BY <1>2, <1>4, <1>6 DEF Q!Flush

\* check_read falls asleep on an empty queue, or changes nothing its users see.
LEMMA PrefetchStep ==
  ASSUME YPipeInv, Prefetch
  PROVE  Q!FallAsleep \/ UNCHANGED Q!vars
<1>1. YPipeInv'
  BY PrefetchInv
<1>2. /\ UNCHANGED queueVars
      /\ w' = w /\ f' = f /\ owed' = owed /\ read' = read
      /\ inActive /\ r' = c /\ c' = (IF c = front THEN NULL ELSE c)
      /\ inActive' = (r' # front /\ r' # NULL)
  BY DEF Prefetch
<1>3. c # NULL /\ c = w /\ inActive = TRUE
  BY <1>2 DEF YPipeInv, Handshake, TypeOK
<1> DEFINE g == Content(chunks, values)
           e == End - 1
<1>4. PICK x, y \in Nat :
           /\ Lies(chunks, beginPos, End, w, x) /\ Lies(chunks, beginPos, End, f, y)
           /\ x <= y /\ beginPos <= x /\ y < End /\ w = At(chunks, x)
           /\ Abstraction = Rec(Cut(g, beginPos, x), Cut(g, x, e), y - x, c = NULL)
  BY Standing
<1>5. Abstraction' = Rec(Cut(g, beginPos, x), Cut(g, x, e), y - x, c' = NULL)
  BY <1>1, <1>2, <1>4, ViewKept
<1>6. CASE c = front
  <2>1. c' = NULL /\ inActive' = FALSE
    BY <1>2, <1>6
  <2>2. x = beginPos
    <3>1. /\ beginPos \in Nat /\ End \in Nat /\ beginPos < End /\ front = At(chunks, beginPos)
      BY Sizes, FrontPos
    <3>2. \A u, v \in Nat : u < End /\ v < End /\ At(chunks, u) = At(chunks, v) => u = v
      BY ContentFilled
    <3>3. x < End
      BY <1>4, <3>1
    <3> QED BY <1>3, <1>4, <1>6, <3>1, <3>2, <3>3
  <2>3. Cut(g, beginPos, x) = << >>
    <3>1. beginPos \in Nat
      BY Sizes
    <3> QED BY <2>2, <3>1, CutNone
  <2> DEFINE a == Cut(g, beginPos, x)
             b == Cut(g, x, e)
             d == y - x
             z == c = NULL
  <2>4. Abstraction' = Rec(a, b, d, TRUE) /\ Abstraction = Rec(a, b, d, z)
    <3>1. (c' = NULL) = TRUE
      BY <2>1
    <3> QED BY <1>4, <1>5, <3>1
  <2>5. a = << >>
    BY <2>3
  <2> HIDE DEF a, b, d, z
  <2>6. Abstraction' = Q!CheckedEmpty(Abstraction)
    BY <2>4, RecCheckedEmpty
  <2>7. ~Q!CanRead(Abstraction)
    <3>1. Rec(a, b, d, z).flushed = a
      BY DEF Rec
    <3> QED BY <2>4, <2>5, <3>1 DEF Q!CanRead
  <2> QED BY <1>2, <2>1, <2>6, <2>7 DEF Q!FallAsleep
<1>7. CASE c # front
  <2>1. c' = c /\ inActive' = TRUE
    BY <1>2, <1>3, <1>7
  <2>2. Abstraction' = Abstraction
    BY <1>4, <1>5, <2>1
  <2> QED BY <1>2, <1>3, <2>1, <2>2 DEF Q!vars
<1> QED BY <1>6, <1>7

\* The wake-up.
LEMMA WakeUpStep ==
  ASSUME YPipeInv, WakeUp
  PROVE  Q!WakeUp
<1>1. YPipeInv'
  BY WakeUpInv
<1>2. /\ UNCHANGED queueVars /\ w' = w /\ f' = f /\ c' = c /\ read' = read
      /\ owed /\ owed' = FALSE /\ inActive' = TRUE
  BY DEF WakeUp
<1>3. PICK x, y \in Nat :
         /\ Lies(chunks, beginPos, End, w, x) /\ Lies(chunks, beginPos, End, f, y)
         /\ Abstraction = Rec(Cut(Content(chunks, values), beginPos, x),
                              Cut(Content(chunks, values), x, End - 1), y - x, c = NULL)
  BY Standing
<1>4. Abstraction' = Rec(Cut(Content(chunks, values), beginPos, x),
                         Cut(Content(chunks, values), x, End - 1), y - x, c' = NULL)
  BY <1>1, <1>2, <1>3, ViewKept
<1>5. Abstraction' = Abstraction
  BY <1>2, <1>3, <1>4
<1> QED BY <1>2, <1>5 DEF Q!WakeUp

\* read takes the first flushed item.
LEMMA ReadStep ==
  ASSUME YPipeInv, Read
  PROVE  Q!Read
<1>1. YPipeInv'
  BY ReadInv
<1>2. /\ inActive /\ front # r /\ r # NULL /\ Pop
      /\ read' = values[front] /\ values' = [values EXCEPT ![front] = Nothing]
      /\ UNCHANGED <<endPos, back, w, f, r, c, flushing, inActive, owed>>
  BY DEF Read, Prefetched
<1>3. /\ beginPos \in Nat /\ End \in Nat /\ beginPos < End
      /\ front = At(chunks, beginPos)
  BY Sizes, FrontPos
<1> DEFINE V == Items \cup {Nothing}
           g == Content(chunks, values)
           h == Content(chunks', values')
           e == End - 1
<1>4. PICK x, y \in Nat : /\ Lies(chunks, beginPos, End, w, x)
                          /\ Lies(chunks, beginPos, End, f, y) /\ x <= y
                          /\ r # NULL => \E z \in Nat : Lies(chunks, beginPos, End, r, z) /\ z <= x
  BY DEF YPipeInv, InOrder, Pos
<1>5. PICK z \in Nat : Lies(chunks, beginPos, End, r, z) /\ z <= x
  BY <1>2, <1>4
<1>6. /\ beginPos <= z /\ z < End /\ x < End /\ y < End
      /\ r = At(chunks, z) /\ w = At(chunks, x) /\ f = At(chunks, y)
  BY <1>4, <1>5 DEF Lies
<1>7. e \in Nat /\ beginPos < x /\ x <= e /\ beginPos < y /\ beginPos < e /\ e < End
  <2>1. z # beginPos
    BY <1>2, <1>3, <1>6
  <2> QED BY <1>3, <1>4, <1>5, <1>6, <2>1
<1>8. Abstraction = Rec(Cut(g, beginPos, x), Cut(g, x, e), y - x, c = NULL)
  BY <1>4, ViewHolds DEF View
<1>9. /\ Filled(g, beginPos, End, V)
      /\ \A u \in Nat : g[u] = values[At(chunks, u)]
      /\ \A u \in Nat : u < End => At(chunks, u) \in Slots
      /\ \A u, v \in Nat : u < End /\ v < End /\ At(chunks, u) = At(chunks, v) => u = v
  BY ContentFilled
<1>10. PICK d \in Nat :
           /\ beginPos' \in 0 .. N - 1
           /\ beginPos' = beginPos + 1 - d /\ End' = End - d
           /\ \A u \in Nat : beginPos < u /\ u < End
                               => u - d \in Nat /\ At(chunks', u - d) = At(chunks, u)
  <2>1. beginPos < End - 1
    BY <1>7
  <2> QED BY <1>2, <2>1, PopPos
<1>11. values \in [Slots -> V]
  BY DEF YPipeInv, TypeOK
<1>12. \A u \in Nat : h[u] = values'[At(chunks', u)]
  BY DEF Content
<1> HIDE DEF V, g, h
<1>13. \A u \in Nat : beginPos < u /\ u < End => h[u - d] = g[u]
  <2> SUFFICES ASSUME NEW u \in Nat, beginPos < u, u < End PROVE h[u - d] = g[u]
    OBVIOUS
  <2>1. u - d \in Nat /\ At(chunks', u - d) = At(chunks, u)
    BY <1>10
  <2>2. At(chunks, u) # front /\ At(chunks, u) \in Slots
    BY <1>3, <1>9
  <2>3. values'[At(chunks, u)] = values[At(chunks, u)]
    BY <1>2, <1>11, <2>2
  <2> QED BY <1>9, <1>12, <2>1, <2>3
<1> DEFINE b1 == beginPos + 1
           x1 == x - d
           y1 == y - d
           e1 == e - d
<1>14. /\ x1 \in Nat /\ At(chunks', x1) = At(chunks, x)
       /\ y1 \in Nat /\ At(chunks', y1) = At(chunks, y)
       /\ e1 \in Nat
  BY <1>6, <1>7, <1>10
<1>15. /\ b1 \in Nat /\ beginPos' = b1 - d /\ beginPos' \in Nat /\ End' - 1 = e1
       /\ y1 - x1 = y - x /\ b1 <= x /\ x <= e
       /\ beginPos' <= x1 /\ x1 < End' /\ beginPos' <= y1 /\ y1 < End'
  BY <1>3, <1>6, <1>7, <1>10
<1>16. Lies(chunks', beginPos', End', w', x1) /\ Lies(chunks', beginPos', End', f', y1)
  BY <1>2, <1>6, <1>14, <1>15 DEF Lies
<1>17. Abstraction' = Rec(Cut(h, beginPos', x1), Cut(h, x1, End' - 1), y1 - x1, c' = NULL)
  <2>1. View'
    BY <1>1, ViewHoldsNext
  <2> HIDE DEF x1, y1
  <2> QED BY <1>14, <1>16, <2>1 DEF View, h, NULL
<1>18. Cut(h, beginPos', x1) = Cut(g, b1, x) /\ Cut(h, x1, e1) = Cut(g, x, e)
  <2>1. Shifted(h, g, b1, x, d)
    BY <1>3, <1>6, <1>13 DEF Shifted
  <2>2. Shifted(h, g, x, e, d)
    BY <1>3, <1>7, <1>13 DEF Shifted
  <2>3. b1 \in Nat /\ beginPos' \in Nat /\ beginPos' = b1 - d /\ x1 \in Nat /\ x1 = x - d
    BY <1>14, <1>15
  <2>4. e \in Nat /\ e1 \in Nat /\ e1 = e - d
    BY <1>7, <1>14
  <2> HIDE DEF b1, x1, e1, e
  <2>5. Cut(h, beginPos', x1) = Cut(g, b1, x)
    BY <2>1, <2>3, CutShift
  <2>6. Cut(h, x1, e1) = Cut(g, x, e)
    BY <2>2, <2>3, <2>4, CutShift
  <2> QED BY <2>5, <2>6
<1>19. /\ Cut(g, beginPos, x) # << >> /\ Head(Cut(g, beginPos, x)) = g[beginPos]
       /\ Tail(Cut(g, beginPos, x)) = Cut(g, b1, x)
  <2>1. Filled(g, beginPos, x, V) /\ beginPos < x /\ beginPos \in Nat
    BY <1>3, <1>6, <1>7, <1>9 DEF Filled
  <2>2. Parts(Cut(g, beginPos, x), g[beginPos], Cut(g, beginPos + 1, x))
    BY <2>1, CutTail
  <2> QED BY <2>2 DEF Parts
<1>20. read' = g[beginPos]
  BY <1>2, <1>3, <1>9
<1> DEFINE a == Cut(g, beginPos, x)
           b == Cut(g, x, e)
           n == y - x
           q == c = NULL
<1>21. Abstraction = Rec(a, b, n, q) /\ Abstraction' = Rec(Tail(a), b, n, q)
  <2>1. (c' = NULL) = (c = NULL)
    BY <1>2
  <2>2. Cut(h, x1, End' - 1) = Cut(g, x, e)
    BY <1>15, <1>18
  <2>3. Cut(h, beginPos', x1) = Tail(a)
    BY <1>18, <1>19
  <2> QED BY <1>8, <1>15, <1>17, <2>1, <2>2, <2>3
<1>22. a # << >> /\ read' = Head(a)
  BY <1>19, <1>20
<1> HIDE DEF a, b, n, q
<1>23. Abstraction' = Q!Popped(Abstraction)
  BY <1>21, RecPopped
<1>24. Abstraction.flushed = a
  <2>1. Rec(a, b, n, q).flushed = a
    BY DEF Rec
  <2> QED BY <1>21, <2>1
<1> QED BY <1>2, <1>22, <1>23, <1>24 DEF Q!Read, Q!CanRead

\* ypipe_t (ypipe.hpp) is the queue its users take it for, for every size of
\* a chunk and every number of items: whatever the interleaving of the two
\* threads, items are read once, in the order and with the content they were
\* written, never before they are flushed, and a flush asks for a wake-up
\* exactly when the reader sleeps.  (That a reader with items to read goes on
\* reading, the fairness of Q!Spec, is checked by TLC.)
THEOREM QueueImplemented == Spec => Q!Init /\ [][Q!Next]_(Q!vars)
<1>1. Init => Q!Init
  <2> SUFFICES ASSUME Init PROVE Q!Init
    OBVIOUS
  <2>1. YPipeInv
    BY InitInv
  <2>2. /\ back = front /\ w = back /\ f = back /\ c = back
        /\ inActive = TRUE /\ owed = FALSE /\ read = Nothing
    BY DEF Init
  <2>3. /\ beginPos \in Nat /\ End \in Nat /\ beginPos < End /\ front = At(chunks, beginPos)
        /\ back = At(chunks, End - 1) /\ back # NULL
    BY <2>1, Sizes, FrontPos, BackPos, PosSlot DEF YPipeInv
  <2> DEFINE g == Content(chunks, values)
  <2>4. PICK x, y \in Nat :
           /\ x <= y /\ y < End /\ w = At(chunks, x) /\ f = At(chunks, y)
           /\ Abstraction = Rec(Cut(g, beginPos, x), Cut(g, x, End - 1), y - x, c = NULL)
    BY <2>1, Standing
  <2>5. x = beginPos /\ y = beginPos /\ End - 1 = beginPos
    <3>1. \A u, v \in Nat : u < End /\ v < End /\ At(chunks, u) = At(chunks, v) => u = v
      BY <2>1, ContentFilled
    <3>2. End - 1 \in Nat /\ End - 1 < End /\ x < End
      BY <2>3, <2>4
    <3> QED BY <2>2, <2>3, <2>4, <3>1, <3>2
  <2>6. Abstraction = Rec(<< >>, << >>, 0, FALSE)
    <3>1. Cut(g, beginPos, beginPos) = << >> /\ y - x = 0
      BY <2>3, <2>5, CutNone
    <3>2. (c = NULL) = FALSE
      BY <2>2, <2>3
    <3> QED BY <2>4, <2>5, <3>1, <3>2
  <2>7. Abstraction = Q!EmptyQueue
    BY <2>6 DEF Rec, Q!EmptyQueue
  <2> QED BY <2>2, <2>7 DEF Q!Init
<1>2. YPipeInv /\ [Next]_vars => [Q!Next]_(Q!vars)
  <2> SUFFICES ASSUME YPipeInv, [Next]_vars PROVE Q!Next \/ UNCHANGED Q!vars
    OBVIOUS
  <2>1. CASE \E item \in Items : Write(item)
    BY <2>1, WriteStep DEF Q!Next
  <2>2. CASE Unwrite
    BY <2>2, UnwriteStep DEF Q!Next
  <2>3. CASE FlushCas
    BY <2>3, FlushCasStep DEF Q!Next
  <2>4. CASE FlushSet
    BY <2>4, FlushSetStep DEF Q!Next
  <2>5. CASE Prefetch
    BY <2>5, PrefetchStep DEF Q!Next
  <2>6. CASE Read
    BY <2>6, ReadStep DEF Q!Next
  <2>7. CASE WakeUp
    BY <2>7, WakeUpStep DEF Q!Next
  <2>8. CASE UNCHANGED vars
    <3>1. /\ UNCHANGED queueVars /\ w' = w /\ f' = f /\ c' = c
          /\ inActive' = inActive /\ owed' = owed /\ read' = read
          /\ chunks' = chunks /\ beginPos' = beginPos /\ values' = values /\ back' = back
      BY <2>8 DEF vars, queueVars
    <3>2. Abstraction' = Abstraction
      BY <3>1 DEF Abstraction, Contents, Distance, Slot, Span, NULL
    <3> QED BY <3>1, <3>2 DEF Q!vars
  <2> QED BY <2>1, <2>2, <2>3, <2>4, <2>5, <2>6, <2>7, <2>8 DEF Next
<1> QED BY <1>1, <1>2, QueueInvariance, PTL DEF Spec

=============================================================================
