--------------------------- MODULE MailboxProofs ---------------------------
(***************************************************************************)
(* What holds of Mailbox for every set of senders and any number of        *)
(* commands.  The argument is the inductive invariant MailboxInv: the      *)
(* mutex makes what is in the slot at the back, and what is written but    *)
(* not flushed, the one command of its holder (LockInv), so that a sender  *)
(* pushes the command it has stored and no other; the queue takes its      *)
(* reader for asleep exactly when the receiver is passive and has nothing  *)
(* to read (WakeInv), so a flush asks for a wake-up exactly when OneWakeUp *)
(* needs one; and the commands received, flushed and written are one       *)
(* stream that only grows at its end (StreamInv), in which a command comes *)
(* after those its sender sent before.  A receiver that has got them all   *)
(* has therefore emptied the stream, and no sender is left inside send.    *)
(***************************************************************************)
EXTENDS Mailbox, FiniteSetTheorems, SequenceTheorems, TLAPS

Holding(s) == sending[s] \in {"write", "push", "flush", "unlock", "unlockAndSignal"}

\* The mutex has the holder its threads take for the holder; from its store to
\* its push the back of the queue holds its command and nobody else's; the
\* queue holds one complete command between push and flush and nothing else
\* unflushed.
LockInv ==
    /\ \A s \in Senders : Holding(s) <=> sync = s
    /\ \A s \in Senders : sending[s] \in {"write", "push"} => sent[s] < PerSender
    /\ \A s \in Senders : sending[s] = "push" => back = <<s, sent[s] + 1>>
    /\ cpipe.complete = Len(cpipe.unflushed)
    /\ cpipe.unflushed # << >> <=> \E s \in Senders : sending[s] = "flush"

\* What the queue believes of its reader is what the receiver is.
WakeInv ==
    /\ cpipe.asleep <=> ~active /\ cpipe.flushed = << >>
    /\ receiving = "signalled" => active

\* Everything that was ever written, in its order.
Joined(a, b, c) == (a \o b) \o c
Stream == Joined(received, cpipe.flushed, cpipe.unflushed)

\* A sequence of commands is in order: the commands of a sender with growing
\* numbers, and none left out.
Ordered(str) ==
    /\ \A i, j \in 1 .. Len(str) :
         i < j /\ str[i][1] = str[j][1] => str[i][2] < str[j][2]
    /\ \A i \in 1 .. Len(str) : \A n \in 1 .. str[i][2] :
         \E j \in 1 .. i : str[j] = <<str[i][1], n>>

\* It holds as many commands of each sender as were counted and no others.
Holds(str, count) ==
    /\ \A i \in 1 .. Len(str) : str[i][2] <= count[str[i][1]]
    /\ \A s \in Senders : \A n \in 1 .. count[s] :
         \E i \in 1 .. Len(str) : str[i] = <<s, n>>

StreamInv == Ordered(Stream) /\ Holds(Stream, sent)

\* After the end nobody will send again.
EndInv == receiving = "destroyed" =>
            \A s \in Senders : sending[s] = "idle" /\ sent[s] = PerSender

\* OneWakeUp without its set of senders.
WakeUps ==
    /\ receiving # "aborted"
    /\ receiving = "signalled" => CanRead(cpipe)
    /\ ~active /\ CanRead(cpipe) =>
         \/ signals = 1 /\ \A s \in Senders : ~Owes(s)
         \/ /\ signals = 0
            /\ \E s \in Senders : Owes(s) /\ \A t \in Senders : Owes(t) => t = s
    /\ active \/ ~CanRead(cpipe) => signals = 0 /\ \A s \in Senders : ~Owes(s)

MailboxInv == TypeOK /\ WakeUps /\ LockInv /\ WakeInv /\ StreamInv /\ EndInv
-----------------------------------------------------------------------------
(* The operations of the queue.                                            *)

\* ypipe_t::write of a complete item.
LEMMA WrittenFacts ==
  ASSUME NEW S, NEW q \in Queues(S), NEW item \in S
  PROVE  LET w == Written(q, item, FALSE)
         IN /\ w \in Queues(S)
            /\ w.flushed = q.flushed /\ w.asleep = q.asleep
            /\ w.unflushed = Append(q.unflushed, item)
            /\ w.complete = Len(w.unflushed) /\ w.unflushed # << >>
<1>1. q.unflushed \in Seq(S) /\ Len(q.unflushed) \in Nat
  BY DEF Queues
<1>2. /\ Append(q.unflushed, item) \in Seq(S) /\ Append(q.unflushed, item) # << >>
      /\ Len(Append(q.unflushed, item)) = Len(q.unflushed) + 1
  BY <1>1, AppendProperties
<1> DEFINE u == Append(q.unflushed, item)
           n == Len(q.unflushed) + 1
<1> HIDE DEF u, n
<1>3. n \in Nat /\ u \in Seq(S)
  BY <1>1, <1>2 DEF u, n
<1> DEFINE w == [q EXCEPT !.unflushed = u, !.complete = n]
<1>4. /\ w \in Queues(S) /\ w.flushed = q.flushed /\ w.asleep = q.asleep
      /\ w.unflushed = u /\ w.complete = n
  BY <1>3 DEF Queues
<1>5. Written(q, item, FALSE) = w
  BY DEF Written, u, n
<1> QED BY <1>2, <1>4, <1>5 DEF u, n

\* ypipe_t::flush of a queue in which everything written is complete.
LEMMA FlushedFacts ==
  ASSUME NEW S, NEW q \in Queues(S), q.complete = Len(q.unflushed), q.unflushed # << >>
  PROVE  /\ Flushed(q) \in Queues(S)
         /\ Flushed(q).flushed = q.flushed \o q.unflushed /\ Flushed(q).flushed # << >>
         /\ Flushed(q).unflushed = << >> /\ Flushed(q).complete = 0
         /\ Flushed(q).asleep = FALSE
         /\ FlushWakes(q) <=> q.asleep
<1> DEFINE u == q.unflushed
<1>1. u \in Seq(S) /\ Len(u) \in Nat \ {0} /\ q.flushed \in Seq(S)
  BY DEF Queues
<1>2. SubSeq(u, 1, Len(u)) = u /\ SubSeq(u, Len(u) + 1, Len(u)) = << >>
  BY <1>1, SubSeqFull, SubSeqEmpty
<1>3. q.flushed \o u \in Seq(S) /\ q.flushed \o u # << >>
  BY <1>1, ConcatProperties, ConcatEqualIffEmpty
<1>4. Flushed(q) = [flushed |-> q.flushed \o u, unflushed |-> << >>,
                    complete |-> 0, asleep |-> FALSE]
  BY <1>1, <1>2 DEF Flushed
<1> QED BY <1>1, <1>3, <1>4 DEF Queues, FlushWakes

\* ypipe_t::read of an item that is there.
LEMMA PoppedFacts ==
  ASSUME NEW S, NEW q \in Queues(S), CanRead(q)
  PROVE  /\ Popped(q) \in Queues(S)
         /\ Popped(q).flushed = Tail(q.flushed) /\ Head(q.flushed) \in S
         /\ Popped(q).unflushed = q.unflushed /\ Popped(q).complete = q.complete
         /\ Popped(q).asleep = q.asleep
<1>1. q.flushed \in Seq(S) /\ q.flushed # << >>
  BY DEF Queues, CanRead
<1>2. Tail(q.flushed) \in Seq(S) /\ Head(q.flushed) \in S
  BY <1>1, HeadTailProperties
<1> QED BY <1>1, <1>2 DEF Queues, Popped

\* What is received, flushed and written, as one sequence.
LEMMA JoinedType ==
  ASSUME NEW a \in Seq(Commands), NEW b \in Seq(Commands), NEW c \in Seq(Commands)
  PROVE  /\ Joined(a, b, c) \in Seq(Commands)
         /\ Len(Joined(a, b, c)) = Len(a) + Len(b) + Len(c)
  BY DEF Joined

\* Its first part holds what was received.
LEMMA JoinedFirst ==
  ASSUME NEW a \in Seq(Commands), NEW b \in Seq(Commands), NEW c \in Seq(Commands),
         NEW i \in 1 .. Len(a)
  PROVE  i \in 1 .. Len(Joined(a, b, c)) /\ Joined(a, b, c)[i] = a[i]
  BY DEF Joined

\* What is flushed follows.
LEMMA JoinedSecond ==
  ASSUME NEW a \in Seq(Commands), NEW b \in Seq(Commands), NEW c \in Seq(Commands),
         NEW i \in 1 .. Len(b)
  PROVE  Len(a) + i \in 1 .. Len(Joined(a, b, c)) /\ Joined(a, b, c)[Len(a) + i] = b[i]
  BY DEF Joined

\* The three ways in which commands move along it.
LEMMA JoinedAppend ==
  ASSUME NEW a \in Seq(Commands), NEW b \in Seq(Commands), NEW c \in Seq(Commands),
         NEW m \in Commands
  PROVE  Joined(a, b, Append(c, m)) = Append(Joined(a, b, c), m)
  BY DEF Joined

\* A flush joins two neighbours.
LEMMA JoinedFlush ==
  ASSUME NEW a \in Seq(Commands), NEW b \in Seq(Commands), NEW c \in Seq(Commands)
  PROVE  Joined(a, b \o c, << >>) = Joined(a, b, c)
  BY DEF Joined

\* A read moves one command across a border.
LEMMA JoinedMove ==
  ASSUME NEW a \in Seq(Commands), NEW b \in Seq(Commands), NEW c \in Seq(Commands),
         b # << >>
  PROVE  Joined(Append(a, Head(b)), Tail(b), c) = Joined(a, b, c)
<1>1. Append(a, Head(b)) \o Tail(b) = a \o b
  OBVIOUS
<1> QED BY <1>1 DEF Joined
-----------------------------------------------------------------------------
(* The stream of commands.                                                 *)

\* The stream of a well-typed mailbox and its length.
LEMMA StreamType ==
  ASSUME TypeOK
  PROVE  /\ received \in Seq(Commands) /\ cpipe.flushed \in Seq(Commands)
         /\ cpipe.unflushed \in Seq(Commands) /\ Stream \in Seq(Commands)
         /\ Len(Stream) = Len(received) + Len(cpipe.flushed) + Len(cpipe.unflushed)
<1>1. /\ received \in Seq(Commands) /\ cpipe.flushed \in Seq(Commands)
      /\ cpipe.unflushed \in Seq(Commands)
  BY DEF TypeOK, Queues
<1>2. Stream \in Seq(Commands)
  BY <1>1, JoinedType, Zenon DEF Stream
<1>3. Len(Stream) = Len(received) + Len(cpipe.flushed) + Len(cpipe.unflushed)
  BY <1>1, JoinedType, Zenon DEF Stream
<1> QED BY <1>1, <1>2, <1>3

\* Where the commands received and flushed are in the stream.
LEMMA StreamElements ==
  ASSUME TypeOK
  PROVE  /\ \A i \in 1 .. Len(received) : i \in 1 .. Len(Stream) /\ Stream[i] = received[i]
         /\ \A i \in 1 .. Len(cpipe.flushed) :
              /\ Len(received) + i \in 1 .. Len(Stream)
              /\ Stream[Len(received) + i] = cpipe.flushed[i]
<1>1. /\ received \in Seq(Commands) /\ cpipe.flushed \in Seq(Commands)
      /\ cpipe.unflushed \in Seq(Commands)
  BY StreamType
<1>2. \A i \in 1 .. Len(received) : i \in 1 .. Len(Stream) /\ Stream[i] = received[i]
  BY <1>1, JoinedFirst DEF Stream
<1>3. ASSUME NEW i \in 1 .. Len(cpipe.flushed)
      PROVE  /\ Len(received) + i \in 1 .. Len(Stream)
             /\ Stream[Len(received) + i] = cpipe.flushed[i]
  BY <1>1, JoinedSecond, Zenon DEF Stream
<1> QED BY <1>2, <1>3

\* A write appends to the stream; a flush and a read only move commands along it.
LEMMA WriteStream ==
  ASSUME TypeOK, NEW m \in Commands, cpipe'.flushed = cpipe.flushed, received' = received,
         cpipe'.unflushed = Append(cpipe.unflushed, m)
  PROVE  Stream' = Append(Stream, m)
<1>1. Stream' = Joined(received, cpipe.flushed, Append(cpipe.unflushed, m))
  BY DEF Stream
<1>2. Joined(received, cpipe.flushed, Append(cpipe.unflushed, m)) =
        Append(Joined(received, cpipe.flushed, cpipe.unflushed), m)
  BY StreamType, JoinedAppend, Zenon
<1> QED BY <1>1, <1>2 DEF Stream

\* A flush leaves the stream as it is.
LEMMA FlushStream ==
  ASSUME TypeOK, cpipe'.flushed = cpipe.flushed \o cpipe.unflushed, received' = received,
         cpipe'.unflushed = << >>
  PROVE  Stream' = Stream
  BY StreamType, JoinedFlush DEF Stream

\* So does a read.
LEMMA ReadStream ==
  ASSUME TypeOK, CanRead(cpipe), received' = Append(received, Head(cpipe.flushed)),
         cpipe'.flushed = Tail(cpipe.flushed), cpipe'.unflushed = cpipe.unflushed
  PROVE  Stream' = Stream
  BY StreamType, JoinedMove DEF Stream, CanRead

\* An ordered stream holds no command twice.
LEMMA OrderedInjective ==
  ASSUME NEW str \in Seq(Commands), Ordered(str),
         NEW i \in 1 .. Len(str), NEW j \in 1 .. Len(str), str[i] = str[j]
  PROVE  i = j
<1>1. str[i] \in Commands /\ str[i][2] \in Nat /\ Len(str) \in Nat
  BY MailboxAssumption DEF Commands
<1>2. ~(i < j) /\ ~(j < i)
  BY <1>1 DEF Ordered
<1> QED BY <1>2

\* The next command of a sender keeps the stream in order.
LEMMA AppendOrdered ==
  ASSUME NEW str \in Seq(Commands), NEW s \in Senders, NEW count \in [Senders -> 0 .. PerSender],
         count[s] < PerSender, Ordered(str), Holds(str, count)
  PROVE  LET m == <<s, count[s] + 1>>
         IN /\ m \in Commands /\ Ordered(Append(str, m))
            /\ Holds(Append(str, m), [count EXCEPT ![s] = @ + 1])
<1> DEFINE m == <<s, count[s] + 1>>
           new == Append(str, m)
           next == [count EXCEPT ![s] = @ + 1]
<1>1. /\ count[s] \in Nat /\ m \in Commands /\ m[1] = s /\ m[2] = count[s] + 1
      /\ \A t \in Senders : count[t] \in Nat /\ next[t] = IF t = s THEN count[s] + 1 ELSE count[t]
  <2>1. PerSender \in Nat /\ count[s] \in 0 .. PerSender
    BY MailboxAssumption
  <2>2. m \in Commands /\ m[1] = s /\ m[2] = count[s] + 1
    BY <2>1 DEF Commands
  <2>3. \A t \in Senders : count[t] \in Nat
    BY <2>1
  <2>4. \A t \in Senders : next[t] = IF t = s THEN count[s] + 1 ELSE count[t]
    OBVIOUS
  <2> QED BY <2>1, <2>2, <2>3, <2>4
<1>2. /\ Len(new) = Len(str) + 1 /\ Len(str) \in Nat /\ new[Len(str) + 1] = m
      /\ \A i \in 1 .. Len(str) : new[i] = str[i]
  BY <1>1
<1>3. \A i \in 1 .. Len(str) : str[i] \in Commands /\ str[i][1] \in Senders /\ str[i][2] \in Nat
  <2>1. \A i \in 1 .. Len(str) : str[i] \in Commands
    OBVIOUS
  <2> QED BY <2>1, MailboxAssumption DEF Commands
<1> HIDE DEF m, new, next
<1>4. ASSUME NEW i \in 1 .. Len(new), NEW j \in 1 .. Len(new), i < j, new[i][1] = new[j][1]
      PROVE  new[i][2] < new[j][2]
  <2>1. CASE j \in 1 .. Len(str)
    <3>1. i \in 1 .. Len(str)
      BY <2>1, <1>2, <1>4
    <3> QED BY <2>1, <3>1, <1>2, <1>4 DEF Ordered
  <2>2. CASE j = Len(str) + 1
    <3>1. i \in 1 .. Len(str) /\ new[i] = str[i] /\ new[j] = m
      BY <2>2, <1>2, <1>4
    <3>2. str[i][1] = s /\ str[i][2] <= count[s] /\ str[i][2] \in Nat
      BY <3>1, <1>1, <1>3, <1>4 DEF Holds
    <3> QED BY <3>1, <3>2, <1>1
  <2> QED BY <2>1, <2>2, <1>2
<1>5. ASSUME NEW i \in 1 .. Len(new), NEW n \in 1 .. new[i][2]
      PROVE  \E j \in 1 .. i : new[j] = <<new[i][1], n>>
  <2>1. CASE i \in 1 .. Len(str)
    <3>1. PICK j \in 1 .. i : str[j] = <<str[i][1], n>>
      BY <2>1, <1>2, <1>5 DEF Ordered
    <3>2. j \in 1 .. Len(str)
      BY <2>1, <1>2
    <3> QED BY <2>1, <3>1, <3>2, <1>2
  <2>2. CASE i = Len(str) + 1 /\ n \in 1 .. count[s]
    <3>1. PICK j \in 1 .. Len(str) : str[j] = <<s, n>>
      BY <2>2 DEF Holds
    <3>2. new[i][1] = s /\ new[j] = str[j] /\ j \in 1 .. i
      BY <2>2, <1>1, <1>2
    <3> QED BY <3>1, <3>2
  <2>3. CASE i = Len(str) + 1 /\ n = count[s] + 1
    <3>1. new[i] = m /\ m = <<s, n>> /\ m[1] = s /\ i \in 1 .. i
      BY <2>3, <1>1, <1>2 DEF m
    <3> QED BY <3>1
  <2>4. i = Len(str) + 1 => n \in 1 .. count[s] + 1
    BY <1>1, <1>2, <1>5
  <2> QED BY <2>1, <2>2, <2>3, <2>4, <1>1, <1>2
<1>6. ASSUME NEW i \in 1 .. Len(new)
      PROVE  new[i][2] <= next[new[i][1]]
  <2>1. CASE i \in 1 .. Len(str)
    <3>1. str[i][2] <= count[str[i][1]] /\ new[i] = str[i]
      BY <2>1, <1>2 DEF Holds
    <3> QED BY <2>1, <3>1, <1>1, <1>3
  <2>2. CASE i = Len(str) + 1
    BY <2>2, <1>1, <1>2
  <2> QED BY <2>1, <2>2, <1>2
<1>7. ASSUME NEW t \in Senders, NEW n \in 1 .. next[t]
      PROVE  \E i \in 1 .. Len(new) : new[i] = <<t, n>>
  <2>1. CASE n \in 1 .. count[t]
    <3>1. PICK i \in 1 .. Len(str) : str[i] = <<t, n>>
      BY <2>1 DEF Holds
    <3> QED BY <3>1, <1>2
  <2>2. CASE t = s /\ n = count[s] + 1
    BY <2>2, <1>2 DEF m
  <2> QED BY <2>1, <2>2, <1>1, <1>7
<1>8. Ordered(new)
  BY <1>4, <1>5 DEF Ordered
<1>9. Holds(new, next)
  BY <1>6, <1>7 DEF Holds
<1> QED BY <1>1, <1>8, <1>9 DEF m, new, next

\* The stream being in order, what was received is.
LEMMA StreamInOrder ==
  ASSUME TypeOK, StreamInv
  PROVE  InOrder
<1> DEFINE str == Stream
<1>1. /\ Len(received) \in Nat /\ Ordered(str)
      /\ \A i \in 1 .. Len(received) : i \in 1 .. Len(str) /\ str[i] = received[i]
  <2>1. Len(received) \in Nat
    BY StreamType
  <2> QED BY <2>1, StreamElements, Zenon DEF StreamInv
<1> HIDE DEF str
<1>2. ASSUME NEW i \in 1 .. Len(received), NEW n \in 1 .. received[i][2]
      PROVE  \E j \in 1 .. i : received[j] = <<received[i][1], n>>
  <2>1. PICK j \in 1 .. i : str[j] = <<str[i][1], n>>
    BY <1>1, <1>2 DEF Ordered
  <2>2. j \in 1 .. Len(received)
    BY <1>1
  <2> QED BY <2>1, <2>2, <1>1
<1> QED BY <1>1, <1>2 DEF InOrder, Ordered
-----------------------------------------------------------------------------
(* The invariant, action by action.                                        *)

\* WakeUps says of single senders what OneWakeUp says of sets of them.
LEMMA WakeUpsForm == TypeOK /\ WakeUps => OneWakeUp
<1> DEFINE owing == {s \in Senders : Owes(s)}
<1>1. owing = {} <=> \A s \in Senders : ~Owes(s)
  OBVIOUS
<1>2. ASSUME NEW s \in Senders
      PROVE  owing = {s} <=> Owes(s) /\ \A t \in Senders : Owes(t) => t = s
  OBVIOUS
<1> HIDE DEF owing
<1>3. (\E s \in Senders : owing = {s}) <=>
        \E s \in Senders : Owes(s) /\ \A t \in Senders : Owes(t) => t = s
  BY <1>2
<1>4. OneWakeUp <=>
        /\ TypeOK
        /\ receiving # "aborted"
        /\ receiving = "signalled" => CanRead(cpipe)
        /\ IF ~active /\ CanRead(cpipe)
             THEN \/ signals = 1 /\ owing = {}
                  \/ signals = 0 /\ \E s \in Senders : owing = {s}
             ELSE signals = 0 /\ owing = {}
  BY DEF OneWakeUp, owing
<1>5. ASSUME TypeOK PROVE active \in BOOLEAN
  BY <1>5 DEF TypeOK
<1> QED BY <1>1, <1>3, <1>4, <1>5 DEF WakeUps

\* Steps that move no command keep the order of the stream.
LEMMA StreamUnchanged ==
  ASSUME StreamInv, UNCHANGED <<cpipe, received, sent>>
  PROVE  StreamInv'
<1>1. Stream' = Stream /\ sent' = sent
  BY DEF Stream
<1> QED BY <1>1 DEF StreamInv

\* send takes the mutex.
LEMMA LockStep ==
  ASSUME MailboxInv, NEW s \in Senders, Lock(s)
  PROVE  MailboxInv'
<1> USE DEF MailboxInv
<1>1. TypeOK'
  BY DEF Lock, TypeOK
<1>2. WakeUps'
  BY DEF Lock, TypeOK, WakeUps, CanRead, Owes
<1>3. LockInv'
  BY MailboxAssumption DEF Lock, TypeOK, LockInv, Holding, CanLock
<1>4. WakeInv'
  BY DEF Lock, WakeInv
<1>5. StreamInv'
  BY StreamUnchanged DEF Lock
<1>6. EndInv'
  <2>1. sent[s] # PerSender /\ receiving' = receiving
    BY MailboxAssumption DEF Lock, TypeOK
  <2> QED BY <2>1 DEF EndInv
<1> QED BY <1>1, <1>2, <1>3, <1>4, <1>5, <1>6

\* The holder of the mutex stores its next command in the slot at the back.
LEMMA StoreStep ==
  ASSUME MailboxInv, NEW s \in Senders, Store(s)
  PROVE  MailboxInv'
<1> USE DEF MailboxInv
<1>1. /\ sending[s] = "write" /\ sent[s] < PerSender /\ sent[s] \in 0 .. PerSender
      /\ back' = <<s, sent[s] + 1>> /\ sending'[s] = "push"
      /\ \A t \in Senders : t # s => sending'[t] = sending[t]
  BY DEF Store, LockInv, TypeOK
<1>2. TypeOK'
  <2>1. <<s, sent[s] + 1>> \in Commands
    BY <1>1, MailboxAssumption DEF Commands
  <2> QED BY <1>1, <2>1 DEF Store, TypeOK
<1>3. WakeUps'
  BY <1>1 DEF Store, TypeOK, WakeUps, CanRead, Owes
<1>4. LockInv'
  <2>1. \A t \in Senders : Holding(t)' <=> sync' = t
    BY <1>1 DEF Store, LockInv, Holding
  <2>2. \A t \in Senders : t # s => sending[t] # "push"
    BY <1>1 DEF LockInv, Holding
  <2>3. \A t \in Senders : sending'[t] = "flush" <=> sending[t] = "flush"
    BY <1>1
  <2>4. \A t \in Senders : sending'[t] \in {"write", "push"} => sent'[t] < PerSender
    BY <1>1 DEF Store, LockInv
  <2>5. \A t \in Senders : sending'[t] = "push" => back' = <<t, sent'[t] + 1>>
    BY <1>1, <2>2 DEF Store
  <2> QED BY <2>1, <2>3, <2>4, <2>5 DEF Store, LockInv
<1>5. WakeInv'
  BY DEF Store, WakeInv
<1>6. StreamInv'
  BY StreamUnchanged DEF Store
<1>7. EndInv'
  BY <1>1 DEF Store, EndInv
<1> QED BY <1>2, <1>3, <1>4, <1>5, <1>6, <1>7

\* It pushes what the slot holds, which is the command it has stored.
LEMMA PushStep ==
  ASSUME MailboxInv, NEW s \in Senders, Push(s)
  PROVE  MailboxInv'
<1> USE DEF MailboxInv
<1> DEFINE m == <<s, sent[s] + 1>>
<1>1. sent[s] < PerSender /\ cpipe \in Queues(Commands) /\ back = m
  BY DEF Push, LockInv, TypeOK
<1>2. /\ m \in Commands
      /\ Ordered(Append(Stream, m))
      /\ Holds(Append(Stream, m), [sent EXCEPT ![s] = @ + 1])
  BY <1>1, StreamType, AppendOrdered DEF StreamInv, TypeOK
<1>3. /\ cpipe' \in Queues(Commands)
      /\ cpipe'.flushed = cpipe.flushed /\ cpipe'.asleep = cpipe.asleep
      /\ cpipe'.unflushed = Append(cpipe.unflushed, m)
      /\ cpipe'.complete = Len(cpipe'.unflushed) /\ cpipe'.unflushed # << >>
  BY <1>1, <1>2, WrittenFacts DEF Push
<1>4. TypeOK'
  <2>1. sent' \in [Senders -> 0 .. PerSender]
    BY <1>1, MailboxAssumption DEF Push, TypeOK
  <2>2. sending' \in [Senders -> {"idle", "write", "push", "flush", "unlock",
                                  "unlockAndSignal", "signal"}]
    BY DEF Push, TypeOK
  <2> QED BY <1>3, <2>1, <2>2 DEF Push, TypeOK
<1>5. WakeUps'
  BY <1>3 DEF Push, TypeOK, WakeUps, CanRead, Owes
<1>6. LockInv'
  <2>1. sending'[s] = "flush"
    BY DEF Push, TypeOK
  <2>2. \A t \in Senders : Holding(t)' <=> sync' = t
    BY DEF Push, TypeOK, LockInv, Holding
  <2>3. \A t \in Senders : t # s =>
          /\ sending'[t] = sending[t] /\ sent'[t] = sent[t]
          /\ sending[t] \notin {"write", "push"}
    BY DEF Push, TypeOK, LockInv, Holding
  <2> QED BY <2>1, <2>2, <2>3, <1>3 DEF LockInv
<1>7. WakeInv'
  BY <1>3 DEF Push, WakeInv
<1>8. StreamInv'
  <2>1. Stream' = Append(Stream, m)
    BY <1>2, <1>3, WriteStream DEF Push
  <2> QED BY <1>2, <2>1 DEF Push, StreamInv
<1>9. EndInv'
  BY DEF Push, TypeOK, EndInv
<1> QED BY <1>4, <1>5, <1>6, <1>7, <1>8, <1>9

\* The holder of the mutex flushes, and owes a wake-up if the receiver sleeps.
LEMMA FlushStep ==
  ASSUME MailboxInv, NEW s \in Senders, Flush(s)
  PROVE  MailboxInv'
<1> USE DEF MailboxInv
<1>1. /\ cpipe \in Queues(Commands) /\ cpipe.complete = Len(cpipe.unflushed)
      /\ cpipe.unflushed # << >>
  BY DEF Flush, LockInv, TypeOK
<1>2. /\ cpipe' \in Queues(Commands)
      /\ cpipe'.flushed = cpipe.flushed \o cpipe.unflushed /\ cpipe'.flushed # << >>
      /\ cpipe'.unflushed = << >> /\ cpipe'.complete = 0 /\ cpipe'.asleep = FALSE
      /\ FlushWakes(cpipe) <=> cpipe.asleep
  BY <1>1, FlushedFacts DEF Flush
<1>3. AfterFlush = IF ~active /\ ~CanRead(cpipe) THEN "unlockAndSignal" ELSE "unlock"
  BY <1>2 DEF AfterFlush, WakeInv, CanRead
<1>4. \A t \in Senders : sending'[t] = IF t = s THEN AfterFlush ELSE sending[t]
  BY DEF Flush, TypeOK
<1>5. \A t \in Senders : t # s => sending[t] # "flush"
  BY DEF Flush, LockInv, Holding
<1>6. TypeOK'
  BY <1>2, <1>3 DEF Flush, TypeOK
<1>7. WakeUps'
  <2>1. receiving' # "aborted" /\ CanRead(cpipe)' /\ active' = active /\ signals' = signals
    BY <1>2 DEF Flush, WakeUps, CanRead
  <2>2. ~Owes(s)
    BY DEF Flush, Owes
  <2>3. \A t \in Senders : t # s => (Owes(t)' <=> Owes(t))
    BY <1>4 DEF Owes
  <2>4. CASE ~active /\ ~CanRead(cpipe)
    <3>1. Owes(s)' /\ signals = 0 /\ \A t \in Senders : ~Owes(t)
      BY <1>3, <1>4, <2>4 DEF WakeUps, Owes
    <3> QED BY <2>1, <2>3, <2>4, <3>1 DEF WakeUps
  <2>5. CASE active \/ CanRead(cpipe)
    <3>1. ~Owes(s)'
      BY <1>3, <1>4, <2>5 DEF Owes
    <3>2. \A t \in Senders : Owes(t)' <=> Owes(t)
      BY <2>2, <2>3, <3>1
    <3> QED BY <2>1, <2>5, <3>2 DEF WakeUps
  <2> QED BY <2>4, <2>5
<1>8. LockInv'
  <2>1. \A t \in Senders : sending'[t] # "flush"
    BY <1>3, <1>4, <1>5
  <2>2. \A t \in Senders : Holding(t)' <=> sync' = t
    BY <1>3, <1>4 DEF Flush, LockInv, Holding
  <2>3. \A t \in Senders : sending'[t] \in {"write", "push"} =>
          sending'[t] = sending[t] /\ sent'[t] = sent[t] /\ back' = back
    BY <1>3, <1>4 DEF Flush
  <2>4. Len(<< >>) = 0
    OBVIOUS
  <2> QED BY <2>1, <2>2, <2>3, <2>4, <1>2 DEF LockInv
<1>9. WakeInv'
  BY <1>2 DEF Flush, WakeInv
<1>10. StreamInv'
  <2>1. Stream' = Stream
    BY <1>2, FlushStream DEF Flush
  <2> QED BY <2>1 DEF Flush, StreamInv
<1>11. EndInv'
  BY <1>4 DEF Flush, EndInv
<1> QED BY <1>6, <1>7, <1>8, <1>9, <1>10, <1>11

\* send gives the mutex back.
LEMMA UnlockStep ==
  ASSUME MailboxInv, NEW s \in Senders, Unlock(s)
  PROVE  MailboxInv'
<1> USE DEF MailboxInv
<1>1. /\ sending[s] \in {"unlock", "unlockAndSignal"}
      /\ \A t \in Senders : sending'[t] =
           IF t # s THEN sending[t] ELSE IF sending[s] = "unlock" THEN "idle" ELSE "signal"
  BY DEF Unlock, TypeOK
<1>2. TypeOK'
  BY DEF Unlock, TypeOK
<1>3. WakeUps'
  <2>1. \A t \in Senders : Owes(t)' <=> Owes(t)
    BY <1>1 DEF Owes
  <2> QED BY <2>1 DEF Unlock, WakeUps, CanRead
<1>4. LockInv'
  <2>1. \A t \in Senders : Holding(t)' <=> sync' = t
    <3>1. sync = s /\ sync' = NoThread /\ s # NoThread /\ ~Holding(s)'
      BY <1>1, MailboxAssumption DEF Unlock, LockInv, Holding
    <3>2. \A t \in Senders : t # s => (Holding(t)' <=> Holding(t)) /\ t # NoThread
      BY <1>1, MailboxAssumption DEF Holding
    <3> QED BY <3>1, <3>2 DEF LockInv
  <2>2. \A t \in Senders : sending'[t] = "flush" <=> sending[t] = "flush"
    BY <1>1
  <2>3. \A t \in Senders : sending'[t] \in {"write", "push"} =>
          sending'[t] = sending[t] /\ sent'[t] = sent[t] /\ back' = back
    BY <1>1 DEF Unlock
  <2> QED BY <2>1, <2>2, <2>3 DEF Unlock, LockInv
<1>5. WakeInv'
  BY DEF Unlock, WakeInv
<1>6. StreamInv'
  BY StreamUnchanged DEF Unlock
<1>7. EndInv'
  BY <1>1 DEF Unlock, EndInv
<1> QED BY <1>2, <1>3, <1>4, <1>5, <1>6, <1>7

\* The signal that was owed is given.
LEMMA SignalStep ==
  ASSUME MailboxInv, NEW s \in Senders, Signal(s)
  PROVE  MailboxInv'
<1> USE DEF MailboxInv
<1>1. /\ sending[s] = "signal"
      /\ \A t \in Senders : sending'[t] = IF t = s THEN "idle" ELSE sending[t]
  BY DEF Signal, TypeOK
<1>2. Owes(s) /\ ~Owes(s)' /\ \A t \in Senders : t # s => (Owes(t)' <=> Owes(t))
  BY <1>1 DEF Owes
<1>3. ~active /\ CanRead(cpipe) /\ signals = 0 /\ \A t \in Senders : Owes(t) => t = s
  BY <1>2 DEF WakeUps, TypeOK
<1>4. TypeOK'
  <2>1. signals' \in Nat
    <3>1. signals \in Nat
      BY DEF TypeOK
    <3>2. signals' = signals + 1
      BY DEF Signal
    <3> QED BY <3>1, <3>2
  <2>2. sending' \in [Senders -> {"idle", "write", "push", "flush", "unlock",
                                  "unlockAndSignal", "signal"}]
    BY DEF Signal, TypeOK
  <2> QED BY <2>1, <2>2 DEF Signal, TypeOK
<1>5. WakeUps'
  <2>1. signals' = 1 /\ ~active' /\ CanRead(cpipe)' /\ receiving' = receiving
    BY <1>3 DEF Signal, CanRead
  <2>2. \A t \in Senders : ~Owes(t)'
    BY <1>2, <1>3
  <2> QED BY <2>1, <2>2 DEF WakeUps
<1>6. LockInv'
  <2>1. \A t \in Senders : Holding(t)' <=> sync' = t
    <3>1. \A t \in Senders : Holding(t)' <=> Holding(t)
      BY <1>1 DEF Holding
    <3> QED BY <3>1 DEF Signal, LockInv
  <2>2. \A t \in Senders : sending'[t] = "flush" <=> sending[t] = "flush"
    BY <1>1
  <2>3. \A t \in Senders : sending'[t] \in {"write", "push"} =>
          sending'[t] = sending[t] /\ sent'[t] = sent[t] /\ back' = back
    BY <1>1 DEF Signal
  <2> QED BY <2>1, <2>2, <2>3 DEF Signal, LockInv
<1>7. WakeInv'
  BY DEF Signal, WakeInv
<1>8. StreamInv'
  BY StreamUnchanged DEF Signal
<1>9. EndInv'
  BY <1>1 DEF Signal, EndInv
<1> QED BY <1>4, <1>5, <1>6, <1>7, <1>8, <1>9

\* What a read changes, in the active state and after a signal alike.
LEMMA ReturnsStep ==
  ASSUME MailboxInv, Returns, active, active' = active, receiving # "destroyed",
         UNCHANGED <<back, sync, sending, sent, signals>>
  PROVE  MailboxInv'
<1> USE DEF MailboxInv
<1>1. /\ cpipe' \in Queues(Commands) /\ Head(cpipe.flushed) \in Commands
      /\ cpipe'.flushed = Tail(cpipe.flushed) /\ cpipe'.unflushed = cpipe.unflushed
      /\ cpipe'.complete = cpipe.complete /\ cpipe'.asleep = cpipe.asleep
  BY PoppedFacts DEF Returns, TypeOK
<1>2. received' \in Seq(Commands)
  <2>1. received' = Append(received, Head(cpipe.flushed)) /\ received \in Seq(Commands)
    BY DEF Returns, TypeOK
  <2> QED BY <1>1, <2>1
<1>3. TypeOK'
  BY <1>1, <1>2 DEF Returns, TypeOK
<1>4. WakeUps'
  BY DEF Returns, WakeUps, Owes
<1>5. LockInv'
  BY <1>1 DEF LockInv, Holding
<1>6. WakeInv'
  BY <1>1 DEF Returns, WakeInv
<1>7. StreamInv'
  <2>1. Stream' = Stream
    BY <1>1, ReadStream DEF Returns
  <2> QED BY <2>1 DEF StreamInv
<1>8. EndInv'
  BY DEF Returns, EndInv
<1> QED BY <1>3, <1>4, <1>5, <1>6, <1>7, <1>8

\* recv in the active state.
LEMMA RecvStep ==
  ASSUME MailboxInv, Recv
  PROVE  MailboxInv'
<1> USE DEF MailboxInv
<1>1. CASE CanRead(cpipe)
  BY <1>1, ReturnsStep DEF Recv
<1>2. CASE ~CanRead(cpipe)
  <2>1. /\ cpipe' = CheckedEmpty(cpipe) /\ active /\ active' = FALSE /\ receiving = "recv"
        /\ UNCHANGED <<back, receiving, received, sync, sending, sent, signals>>
    BY <1>2 DEF Recv, Returns
  <2>2. /\ cpipe' \in Queues(Commands) /\ cpipe'.asleep = TRUE
        /\ cpipe'.flushed = cpipe.flushed /\ cpipe'.unflushed = cpipe.unflushed
        /\ cpipe'.complete = cpipe.complete
    BY <2>1 DEF TypeOK, Queues, CheckedEmpty
  <2>3. TypeOK'
    BY <2>1, <2>2 DEF TypeOK
  <2>4. WakeUps'
    BY <1>2, <2>1, <2>2 DEF WakeUps, CanRead, Owes
  <2>5. LockInv'
    BY <2>1, <2>2 DEF LockInv, Holding
  <2>6. WakeInv'
    BY <1>2, <2>1, <2>2 DEF WakeInv, CanRead
  <2>7. StreamInv'
    <3>1. Stream' = Stream
      BY <2>1, <2>2 DEF Stream
    <3> QED BY <2>1, <3>1 DEF StreamInv
  <2>8. EndInv'
    BY <2>1 DEF EndInv
  <2> QED BY <2>3, <2>4, <2>5, <2>6, <2>7, <2>8
<1> QED BY <1>1, <1>2

\* recv in the passive state takes the signal.
LEMMA TakeSignalStep ==
  ASSUME MailboxInv, TakeSignal
  PROVE  MailboxInv'
<1> USE DEF MailboxInv
<1>1. CanRead(cpipe) /\ signals = 1 /\ \A s \in Senders : ~Owes(s)
  <2>1. ~active /\ signals # 0
    BY DEF TakeSignal, TypeOK
  <2> QED BY <2>1 DEF WakeUps
<1>2. signals' = 0 /\ active' = TRUE /\ receiving' = "signalled"
  BY <1>1 DEF TakeSignal
<1>3. TypeOK'
  BY <1>2 DEF TakeSignal, TypeOK
<1>8. WakeUps'
  <2>1. CanRead(cpipe)' /\ \A s \in Senders : ~Owes(s)'
    BY <1>1 DEF TakeSignal, CanRead, Owes
  <2> QED BY <1>2, <2>1 DEF WakeUps
<1>4. LockInv'
  BY DEF TakeSignal, LockInv, Holding
<1>5. WakeInv'
  BY <1>1 DEF TakeSignal, WakeInv, CanRead
<1>6. StreamInv'
  BY StreamUnchanged DEF TakeSignal
<1>7. EndInv'
  BY DEF TakeSignal, EndInv
<1> QED BY <1>3, <1>4, <1>5, <1>6, <1>7, <1>8

\* A receiver that has got every command has emptied the stream: no sender is
\* in send, whether before the mutex, in it or after it.
LEMMA AllGotNobodyInSend ==
  ASSUME MailboxInv, Len(received) = PerSender * Cardinality(Senders), sync = NoThread
  PROVE  \A s \in Senders : sending[s] = "idle" /\ sent[s] = PerSender
<1> USE DEF MailboxInv
<1> DEFINE n == Len(received)
           got == {received[i] : i \in 1 .. n}
<1>1. /\ n \in Nat /\ received \in Seq(Commands) /\ got \subseteq Commands
      /\ \A i \in 1 .. n : received[i] \in Commands
  <2>1. received \in Seq(Commands)
    BY DEF TypeOK
  <2> QED BY <2>1
<1>2. \A i, j \in 1 .. n : received[i] = received[j] => i = j
  <2>1. Stream \in Seq(Commands) /\ Ordered(Stream)
    BY StreamType DEF StreamInv
  <2>2. \A i \in 1 .. n : i \in 1 .. Len(Stream) /\ Stream[i] = received[i]
    BY StreamElements
  <2>3. \A i, j \in 1 .. Len(Stream) : Stream[i] = Stream[j] => i = j
    BY <2>1, OrderedInjective
  <2> QED BY <2>2, <2>3, Zenon
<1>3. IsFiniteSet(got) /\ Cardinality(got) = n
  <2> DEFINE f == [i \in 1 .. n |-> received[i]]
  <2>1. f \in Bijection(1 .. n, got)
    <3>1. f \in [1 .. n -> got]
      OBVIOUS
    <3>2. \A i, j \in 1 .. n : f[i] = f[j] => i = j
      BY <1>2
    <3>3. \A y \in got : \E i \in 1 .. n : f[i] = y
      OBVIOUS
    <3> HIDE DEF f, got, n
    <3> QED BY <3>1, <3>2, <3>3 DEF Bijection, Injection, Surjection, IsInjective
  <2>2. ExistsBijection(1 .. n, got)
    BY <2>1, Zenon DEF ExistsBijection
  <2> QED BY <1>1, <2>2, FS_CountingElements, FS_NatBijection
<1>4. IsFiniteSet(Commands) /\ Cardinality(Commands) = n
  <2>1. IsFiniteSet(1 .. PerSender) /\ Cardinality(1 .. PerSender) = PerSender
    BY FS_Interval, MailboxAssumption
  <2>2. /\ IsFiniteSet(Senders \X (1 .. PerSender))
        /\ Cardinality(Senders \X (1 .. PerSender)) = Cardinality(Senders) * PerSender
    BY <2>1, FS_Product, MailboxAssumption
  <2>3. Cardinality(Senders) \in Nat /\ PerSender \in Nat
    BY FS_CardinalityType, MailboxAssumption
  <2>4. Cardinality(Senders) * PerSender = PerSender * Cardinality(Senders)
    BY <2>3
  <2> QED BY <2>2, <2>4 DEF Commands
<1>5. got = Commands
  BY <1>1, <1>3, <1>4, FS_Subset
<1>6. cpipe.flushed = << >>
  <2> SUFFICES ASSUME cpipe.flushed # << >>
               PROVE  FALSE
    OBVIOUS
  <2>1. 1 \in 1 .. Len(cpipe.flushed) /\ cpipe.flushed[1] \in Commands
    BY StreamType
  <2>2. PICK i \in 1 .. n : received[i] = cpipe.flushed[1]
    BY <2>1, <1>5
  <2>3. /\ i \in 1 .. Len(Stream) /\ Stream[i] = received[i]
        /\ n + 1 \in 1 .. Len(Stream) /\ Stream[n + 1] = cpipe.flushed[1]
    BY <2>1, StreamElements, Zenon
  <2>4. i = n + 1
    <3>1. Stream \in Seq(Commands) /\ Ordered(Stream)
      BY StreamType DEF StreamInv
    <3> QED BY <3>1, <2>2, <2>3, OrderedInjective, Zenon
  <2> QED BY <2>4, <1>1
<1>7. ASSUME NEW s \in Senders
      PROVE  sending[s] = "idle"
  <2>1. ~Owes(s)
    BY <1>6 DEF WakeUps, CanRead
  <2>2. ~Holding(s)
    BY MailboxAssumption DEF LockInv
  <2>3. sending[s] \in {"idle", "write", "push", "flush", "unlock", "unlockAndSignal", "signal"}
    BY DEF TypeOK
  <2> QED BY <2>1, <2>2, <2>3 DEF Owes, Holding
<1>8. ASSUME NEW s \in Senders
      PROVE  sent[s] = PerSender
  <2>1. PerSender \in Nat \ {0} /\ sent[s] \in 0 .. PerSender
    BY MailboxAssumption DEF TypeOK
  <2>2. <<s, PerSender>> \in Commands
    BY <2>1 DEF Commands
  <2>3. PICK i \in 1 .. n : received[i] = <<s, PerSender>>
    BY <2>2, <1>5
  <2>4. i \in 1 .. Len(Stream) /\ Stream[i] = <<s, PerSender>>
    BY <2>3, StreamElements, Zenon
  <2>5. Stream[i][2] <= sent[Stream[i][1]]
    BY <2>4, Zenon DEF StreamInv, Holds
  <2>6. <<s, PerSender>>[1] = s /\ <<s, PerSender>>[2] = PerSender
    OBVIOUS
  <2>7. PerSender <= sent[s]
    BY <2>4, <2>5, <2>6, Zenon
  <2> QED BY <2>1, <2>7
<1> QED BY <1>7, <1>8

\* The invariant is inductive.
LEMMA InitMailboxInv == Init => MailboxInv
<1> SUFFICES ASSUME Init PROVE MailboxInv
  OBVIOUS
<1>1. cpipe = [flushed |-> << >>, unflushed |-> << >>, complete |-> 0, asleep |-> TRUE]
  BY DEF Init, CheckedEmpty, EmptyQueue
<1>2. TypeOK
  <2>1. cpipe \in Queues(Commands)
    BY <1>1 DEF Queues
  <2>2. sent \in [Senders -> 0 .. PerSender]
    BY MailboxAssumption DEF Init
  <2>3. received \in Seq(Commands) /\ signals \in Nat
    BY DEF Init
  <2> QED BY <2>1, <2>2, <2>3 DEF Init, TypeOK
<1>3. WakeUps
  BY <1>1 DEF Init, WakeUps, CanRead, Owes
<1>4. LockInv
  BY <1>1, MailboxAssumption DEF Init, LockInv, Holding
<1>5. WakeInv
  BY <1>1 DEF Init, WakeInv
<1>6. StreamInv
  <2>1. Stream = << >>
    BY <1>1 DEF Init, Stream, Joined
  <2>2. \A s \in Senders : sent[s] = 0
    BY DEF Init
  <2> QED BY <2>1, <2>2 DEF StreamInv, Ordered, Holds
<1>7. EndInv
  BY DEF Init, EndInv
<1> QED BY <1>2, <1>3, <1>4, <1>5, <1>6, <1>7 DEF MailboxInv

\* Every step of a sender, of the reader and of the destructor.
LEMMA NextMailboxInv == MailboxInv /\ [Next]_vars => MailboxInv'
<1> SUFFICES ASSUME MailboxInv, [Next]_vars PROVE MailboxInv'
  OBVIOUS
<1>1. ASSUME NEW s \in Senders, Send(s) PROVE MailboxInv'
  BY <1>1, LockStep, StoreStep, PushStep, FlushStep, UnlockStep, SignalStep DEF Send
<1>2. CASE Recv
  BY <1>2, RecvStep
<1>3. CASE TakeSignal
  BY <1>3, TakeSignalStep
<1>4. CASE RecvSignalled
  <2>1. CanRead(cpipe) /\ active /\ receiving = "signalled"
    BY <1>4 DEF RecvSignalled, MailboxInv, WakeUps, WakeInv
  <2> QED BY <1>4, <2>1, ReturnsStep DEF RecvSignalled
<1>5. CASE Destroy
  <2>1. \A s \in Senders : sending[s] = "idle" /\ sent[s] = PerSender
    BY <1>5, AllGotNobodyInSend DEF Destroy, CanLock
  <2>2. UNCHANGED <<cpipe, back, sync, sending, sent, active, signals, received>>
        /\ receiving' = "destroyed"
    BY <1>5 DEF Destroy
  <2>3. TypeOK' /\ WakeUps' /\ LockInv' /\ WakeInv'
    BY <2>2 DEF MailboxInv, TypeOK, WakeUps, CanRead, Owes, LockInv, Holding, WakeInv
  <2>4. StreamInv'
    BY <2>2, StreamUnchanged DEF MailboxInv
  <2>5. EndInv'
    BY <2>1, <2>2 DEF EndInv
  <2> QED BY <2>3, <2>4, <2>5 DEF MailboxInv
<1>6. CASE UNCHANGED vars
  <2>1. StreamInv'
    BY <1>6, StreamUnchanged DEF MailboxInv, vars
  <2> QED BY <1>6, <2>1
          DEF vars, MailboxInv, TypeOK, WakeUps, CanRead, Owes, LockInv, Holding, WakeInv, EndInv
<1> QED BY <1>1, <1>2, <1>3, <1>4, <1>5, <1>6 DEF Next, Receive

\* The inductive invariant of the mailbox.
THEOREM MailboxInvariance == Spec => []MailboxInv
  BY InitMailboxInv, NextMailboxInv, PTL DEF Spec

\* However many threads send at once, a sleeping receiver is given one signal
\* for what it has not seen and no other, so recv never finds the pipe empty
\* after a signal (mailbox.cpp:99).
THEOREM NoWakeUpLost == Spec => []OneWakeUp
<1>1. MailboxInv => OneWakeUp
  BY WakeUpsForm DEF MailboxInv
<1> QED BY <1>1, MailboxInvariance, PTL

\* However many threads send at once, the commands of each are received in
\* their order, each once: nobody stores over a command that is not pushed yet.
THEOREM CommandsInOrder == Spec => []InOrder
<1>1. MailboxInv => InOrder
  BY StreamInOrder DEF MailboxInv
<1> QED BY <1>1, MailboxInvariance, PTL

\* The mailbox is destroyed only when no thread is inside send.
THEOREM DestroyedWhenUnused == Spec => []NobodyInSend
<1>1. MailboxInv => NobodyInSend
  BY DEF MailboxInv, EndInv, NobodyInSend
<1> QED BY <1>1, MailboxInvariance, PTL
=============================================================================
