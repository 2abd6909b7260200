---------------------------- MODULE RouterProofs ----------------------------
(***************************************************************************)
(* What holds of a ROUTER socket for any set of connections, messages of   *)
(* any number of parts and inbound queues of any length.                   *)
(***************************************************************************)
EXTENDS Router, PipeListProofs, FiniteSetTheorems

CommandNames == {"bind", "activate_read", "activate_write", "pipe_term", "pipe_term_ack"}
EndStates == {"active", "waiting_for_delimiter", "delimiter_received",
              "term_ack_sent", "deallocated"}
Reading == {"active", "waiting_for_delimiter"}
Phases == {"connected", "identified", "closed", "gone"}
Ends == [state : EndStates, inActive : BOOLEAN, outActive : BOOLEAN, full : BOOLEAN,
         unflushed : Nat, id : Ids \cup {NoPipe}]

\* The commands on their way.
Pending(c) == {c[i] : i \in 1 .. Len(c)}

\* The commands of a connection: none is there twice, bind comes first, and
\* those of the termination say how far it is.
Commanded(c, e, ph) ==
    /\ c \in Seq(CommandNames) /\ NoTwice(c)
    /\ "bind" \in Pending(c) => c[1] = "bind" /\ e.state = "active"
    /\ "pipe_term" \in Pending(c) => /\ ph \in {"closed", "gone"}
                                     /\ e.state \in {"active", "delimiter_received"}
    /\ "pipe_term_ack" \in Pending(c) => ph = "gone" /\ e.state = "term_ack_sent"

\* Who may sleep: a pipe worth reading is awake, and one that is not has found
\* its queue empty or will be told.
Awake(c, q, e) ==
    /\ q.unflushed = << >> /\ q.complete = 0
    /\ e.inActive => ~q.asleep /\ "activate_read" \notin Pending(c)
    /\ q.asleep => "activate_read" \notin Pending(c) /\ q.flushed = << >>
    /\ ~e.inActive /\ e.state \in Reading => q.asleep \/ "activate_read" \in Pending(c)

\* A pipe that has not been identified is anonymous or not attached yet, and
\* the routing id is the first thing it will read: L are the pipes listed, A
\* the active ones of them, U the anonymous ones.
Placed(p, c, q, e, ph, L, A, U) ==
    /\ "bind" \in Pending(c) => p \notin L /\ p \notin U /\ e.inActive
    /\ "bind" \notin Pending(c) /\ e.state # "deallocated" => p \in L \/ p \in U
    /\ e.state = "deallocated" => p \notin L /\ p \notin U
    /\ p \notin L \/ p \notin U
    /\ p \in A => p \in L /\ e.inActive /\ e.state \in Reading
    /\ p \in L /\ e.inActive /\ e.state \in Reading => p \in A
    /\ p \notin L /\ e.state # "deallocated" => e.id = NoPipe
    /\ ph = "connected" => q.flushed = << >> /\ p \notin L
    /\ "bind" \in Pending(c) \/ (p \in U /\ ~e.inActive) =>
         (ph # "connected" => q.flushed # << >> /\ q.flushed[1] = RoutingId)

\* The socket learns that the connection is closed from the session only.
Open(q, e, ph) ==
    ph \in {"connected", "identified"} =>
      e.state = "active" /\ q.flushed \in Seq(InParts \ {Delimiter})

Conn(p, c, q, e, ph, L, A, U) ==
    /\ q \in Queues(InParts) /\ e \in Ends /\ ph \in Phases
    /\ Commanded(c, e, ph) /\ Awake(c, q, e) /\ Open(q, e, ph)
    /\ Placed(p, c, q, e, ph, L, A, U)

ConnAt(p) == Conn(p, cmds[p], inbox[p], pipe[p], peer[p].phase,
                  Listed(fq), ActivePipes(fq), anonymous)

\* The variables of the socket.
SocketTypes ==
    /\ peer \in [Pipes -> [phase : Phases, next : 0 .. Numbers - 1]]
    /\ cmds \in [Pipes -> Seq(CommandNames)]
    /\ inbox \in [Pipes -> Queues(InParts)]
    /\ pipe \in [Pipes -> Ends]
    /\ anonymous \subseteq Pipes
    /\ WellFormed(Pipes, fq)
    /\ call \in {"none", "xrecv", "xhas_in"}
    /\ currentOut \in Pipes \cup {NoPipe} /\ moreOut \in BOOLEAN
    /\ sending \in [to : Ids \cup {NoPipe}, parts : 0 .. SendParts]
    /\ due \in [Pipes -> 0 .. Numbers - 1]

\* The routing table has the listed pipes under their ids.
Table ==
    /\ \A i \in DOMAIN outPipes : outPipes[i] \in [pipe : Pipes, active : BOOLEAN]
    /\ \A i \in DOMAIN outPipes : /\ outPipes[i].pipe \in Listed(fq)
                                  /\ pipe[outPipes[i].pipe].id = i
                                  /\ i = IdOf(outPipes[i].pipe)
    /\ \A p \in Listed(fq) : /\ pipe[p].id \in DOMAIN outPipes
                             /\ outPipes[pipe[p].id].pipe = p

\* The inductive invariant.
RouterInv == SocketTypes /\ Table /\ NothingHalfSent /\ \A p \in Pipes : ConnAt(p)
-----------------------------------------------------------------------------
(* Commands.                                                               *)

\* A command that is sent.
LEMMA PendingAppend ==
  ASSUME NEW c \in Seq(CommandNames), NEW x \in CommandNames
  PROVE  /\ Append(c, x) \in Seq(CommandNames)
         /\ Pending(Append(c, x)) = Pending(c) \cup {x}
         /\ NoTwice(c) /\ x \notin Pending(c) => NoTwice(Append(c, x))
         /\ Append(c, x)[1] = IF c = << >> THEN x ELSE c[1]
<1> DEFINE S == CommandNames
           d == Append(c, x)
<1>1. c \in Seq(S) /\ x \in S
  OBVIOUS
<1> HIDE DEF S
<1>2. /\ d \in Seq(S) /\ Len(d) = Len(c) + 1 /\ Len(c) \in Nat
      /\ \A i \in 1 .. Len(c) : d[i] = c[i]
      /\ d[Len(c) + 1] = x
  BY <1>1
<1>3. 1 .. Len(d) = 1 .. Len(c) \cup {Len(c) + 1}
  BY <1>2
<1> HIDE DEF d
<1>4. Pending(d) = Pending(c) \cup {x}
  BY <1>2, <1>3 DEF Pending
<1>5. ASSUME NoTwice(c), x \notin Pending(c) PROVE NoTwice(d)
  BY <1>2, <1>3, <1>5 DEF Pending, NoTwice
<1>6. d[1] = IF c = << >> THEN x ELSE c[1]
  <2>1. c = << >> => Len(c) = 0
    OBVIOUS
  <2>2. c # << >> => Len(c) >= 1
    BY <1>1, <1>2
  <2> QED BY <1>2, <2>1, <2>2
<1> QED BY <1>2, <1>4, <1>5, <1>6 DEF S, d

\* A command that is handled.
LEMMA PendingTail ==
  ASSUME NEW c \in Seq(CommandNames), NoTwice(c), c # << >>
  PROVE  /\ Tail(c) \in Seq(CommandNames) /\ NoTwice(Tail(c))
         /\ Pending(Tail(c)) = Pending(c) \ {Head(c)}
         /\ Head(c) = c[1] /\ Head(c) \in Pending(c)
<1> DEFINE S == CommandNames
           d == Tail(c)
<1>1. c \in Seq(S)
  OBVIOUS
<1> HIDE DEF S
<1>2. /\ d \in Seq(S) /\ Len(d) = Len(c) - 1 /\ Len(c) \in Nat /\ Len(c) >= 1
      /\ \A i \in 1 .. Len(d) : d[i] = c[i + 1]
      /\ Head(c) = c[1]
  BY <1>1
<1> HIDE DEF d
<1>3. \A i \in 1 .. Len(d) : i + 1 \in 2 .. Len(c) /\ d[i] = c[i + 1]
  BY <1>2
<1>4. \A i \in 2 .. Len(c) : i - 1 \in 1 .. Len(d) /\ d[i - 1] = c[i]
  BY <1>2
<1>5. 1 .. Len(c) = {1} \cup 2 .. Len(c)
  BY <1>2
<1>6. Pending(d) = {c[i] : i \in 2 .. Len(c)}
  BY <1>3, <1>4 DEF Pending
<1>7. \A i \in 2 .. Len(c) : c[i] # c[1]
  BY <1>2 DEF NoTwice
<1>8. Pending(d) = Pending(c) \ {c[1]}
  BY <1>5, <1>6, <1>7 DEF Pending
<1>9. NoTwice(d)
  BY <1>2, <1>3 DEF NoTwice
<1>10. c[1] \in Pending(c)
  BY <1>2 DEF Pending
<1> QED BY <1>2, <1>8, <1>9, <1>10 DEF S, d

\* A command that waits and one that does not.
LEMMA PendingHead ==
  ASSUME NEW c \in Seq(CommandNames), c # << >>
  PROVE  Head(c) = c[1] /\ Head(c) \in Pending(c)
<1>1. Head(c) = c[1] /\ 1 \in 1 .. Len(c)
  OBVIOUS
<1> QED BY <1>1 DEF Pending

\* There are at most four commands on their way.
LEMMA AtMostFour ==
  ASSUME NEW c, NEW e, NEW ph, Commanded(c, e, ph)
  PROVE  Len(c) <= 4
<1> SUFFICES ASSUME Len(c) > 4 PROVE FALSE
  <2>1. Len(c) \in Nat
    BY DEF Commanded
  <2> QED BY <2>1
<1>1. c \in Seq(CommandNames) /\ Len(c) \in Nat
  BY DEF Commanded
<1>2. /\ 1 \in 1 .. Len(c) /\ 2 \in 1 .. Len(c) /\ 3 \in 1 .. Len(c)
      /\ 4 \in 1 .. Len(c) /\ 5 \in 1 .. Len(c)
  BY <1>1
<1>3. {c[1], c[2], c[3], c[4], c[5]} \subseteq Pending(c)
  BY <1>2 DEF Pending
<1>4. "pipe_term" \notin Pending(c) \/ "pipe_term_ack" \notin Pending(c)
  BY DEF Commanded
<1>5. {c[1], c[2], c[3], c[4], c[5]} \subseteq CommandNames
  BY <1>1, <1>2
<1>6. /\ c[1] # c[2] /\ c[1] # c[3] /\ c[1] # c[4] /\ c[1] # c[5] /\ c[2] # c[3]
      /\ c[2] # c[4] /\ c[2] # c[5] /\ c[3] # c[4] /\ c[3] # c[5] /\ c[4] # c[5]
  BY <1>2 DEF Commanded, NoTwice
<1> QED BY <1>3, <1>4, <1>5, <1>6 DEF CommandNames

-----------------------------------------------------------------------------
(* Queues.                                                                 *)

\* An inbound queue after its session has written parts and flushed them.
Pushed(q, parts) == Flushed([q EXCEPT !.unflushed = parts, !.complete = Len(parts)])

\* What the queue w then has; what was there and what comes has the type T.
HoldsPushed(S, T, q, parts, w) ==
    /\ w \in Queues(S)
    /\ w.unflushed = << >> /\ w.complete = 0 /\ ~w.asleep /\ w.flushed # << >>
    /\ w.flushed[1] = IF q.flushed = << >> THEN parts[1] ELSE q.flushed[1]
    /\ q.flushed \in Seq(T) /\ parts \in Seq(T) => w.flushed \in Seq(T)

\* It is so.
LEMMA PushedQueue ==
  ASSUME NEW S, NEW T, NEW q \in Queues(S), NEW parts \in Seq(S), parts # << >>
  PROVE  HoldsPushed(S, T, q, parts, Pushed(q, parts))
<1> DEFINE n == Len(parts)
           w == [q EXCEPT !.unflushed = parts, !.complete = n]
<1>1. q.flushed \in Seq(S) /\ n \in Nat /\ n > 0
  BY DEF Queues
<1>2. w.flushed = q.flushed /\ w.unflushed = parts /\ w.complete = n
  BY DEF Queues
<1>3. SubSeq(parts, 1, n) = parts /\ SubSeq(parts, n + 1, n) = << >>
  OBVIOUS
<1>4. Pushed(q, parts) = [flushed |-> q.flushed \o parts, unflushed |-> << >>,
                          complete |-> 0, asleep |-> FALSE]
  <2>1. Pushed(q, parts) = Flushed(w)
    BY DEF Pushed
  <2>2. Flushed(w) = [flushed |-> w.flushed \o SubSeq(w.unflushed, 1, w.complete),
                      unflushed |-> SubSeq(w.unflushed, w.complete + 1, Len(w.unflushed)),
                      complete |-> 0, asleep |-> FALSE]
    <3> HIDE DEF w
    <3>1. w.complete # 0
      BY <1>1, <1>2
    <3> QED BY <3>1 DEF Flushed
  <2> HIDE DEF w
  <2>3. /\ w.flushed \o SubSeq(w.unflushed, 1, w.complete) = q.flushed \o parts
        /\ SubSeq(w.unflushed, w.complete + 1, Len(w.unflushed)) = << >>
    BY <1>2, <1>3
  <2> QED BY <2>1, <2>2, <2>3
<1> DEFINE s == q.flushed \o parts
<1>5. s \in Seq(S) /\ s # << >> /\ s[1] = IF q.flushed = << >> THEN parts[1] ELSE q.flushed[1]
  <2>1. s \in Seq(S) /\ Len(s) = Len(q.flushed) + n /\ Len(q.flushed) \in Nat
    BY <1>1
  <2>2. Len(s) > 0
    BY <1>1, <2>1
  <2>3. s # << >>
    BY <2>2
  <2>4. CASE q.flushed = << >>
    BY <1>1, <2>4
  <2>5. CASE q.flushed # << >>
    <3>1. 1 \in 1 .. Len(q.flushed)
      BY <1>1, <2>5
    <3> QED BY <1>1, <2>5, <3>1
  <2> QED BY <2>1, <2>3, <2>4, <2>5
<1>6. q.flushed \in Seq(T) /\ parts \in Seq(T) => s \in Seq(T)
  OBVIOUS
<1> HIDE DEF s
<1>7. Pushed(q, parts) = [flushed |-> s, unflushed |-> << >>, complete |-> 0, asleep |-> FALSE]
  BY <1>4 DEF s
<1>8. << >> \in Seq(S)
  OBVIOUS
<1> QED BY <1>5, <1>6, <1>7, <1>8 DEF Queues, HoldsPushed

\* A queue after a read, and after a look that finds nothing.
LEMMA ReadQueue ==
  ASSUME NEW S, NEW q \in Queues(S)
  PROVE  /\ CanRead(q) => /\ Popped(q) \in Queues(S) /\ Popped(q).flushed = Tail(q.flushed)
                          /\ Head(q.flushed) \in S /\ Head(q.flushed) = q.flushed[1]
         /\ Popped(q).unflushed = q.unflushed /\ Popped(q).complete = q.complete
         /\ Popped(q).asleep = q.asleep
         /\ CheckedEmpty(q) \in Queues(S) /\ CheckedEmpty(q).flushed = q.flushed
         /\ CheckedEmpty(q).unflushed = q.unflushed /\ CheckedEmpty(q).complete = q.complete
         /\ CheckedEmpty(q).asleep
<1>1. q.flushed \in Seq(S)
  BY DEF Queues
<1>2. CanRead(q) => /\ Tail(q.flushed) \in Seq(S) /\ Head(q.flushed) \in S
                    /\ Head(q.flushed) = q.flushed[1]
  BY <1>1 DEF CanRead
<1> DEFINE t == Tail(q.flushed)
<1>3. Popped(q) = [q EXCEPT !.flushed = t]
  BY DEF Popped
<1> HIDE DEF t
<1>4. t \in Seq(S) => Popped(q) \in Queues(S)
  BY <1>3 DEF Queues
<1>5. /\ Popped(q).flushed = t /\ Popped(q).unflushed = q.unflushed
      /\ Popped(q).complete = q.complete /\ Popped(q).asleep = q.asleep
  BY <1>3 DEF Queues
<1>6. /\ CheckedEmpty(q) \in Queues(S) /\ CheckedEmpty(q).flushed = q.flushed
      /\ CheckedEmpty(q).unflushed = q.unflushed /\ CheckedEmpty(q).complete = q.complete
      /\ CheckedEmpty(q).asleep
  BY DEF CheckedEmpty, Queues
<1> QED BY <1>2, <1>4, <1>5, <1>6 DEF t
-----------------------------------------------------------------------------
(* One connection.                                                         *)

\* The commands a session sends at once: one ahead, and one to wake the socket.
LEMMA SentCommands ==
  ASSUME NEW c \in Seq(CommandNames), NEW x \in CommandNames, NEW y \in CommandNames
  PROVE  /\ c \o << >> \o << >> = c
         /\ c \o << >> \o <<x>> = Append(c, x)
         /\ c \o <<y>> \o << >> = Append(c, y)
         /\ c \o <<y>> \o <<x>> = Append(Append(c, y), x)
<1> DEFINE S == CommandNames
<1>1. c \in Seq(S) /\ x \in S /\ y \in S
  OBVIOUS
<1> HIDE DEF S
<1>2. \A d \in Seq(S) : d \o << >> = d
  OBVIOUS
<1>3. \A d \in Seq(S), z \in S : d \o <<z>> = Append(d, z) /\ Append(d, z) \in Seq(S)
  OBVIOUS
<1> QED BY <1>1, <1>2, <1>3

\* The commands d are the commands c and those of Y after them.
WithSent(c, d, Y) ==
    /\ d \in Seq(CommandNames) /\ NoTwice(d)
    /\ Pending(d) = Pending(c) \cup Y
    /\ c # << >> => d[1] = c[1]

\* What a session writes that is at ph and then at ph2.
Pushing(ph, ph2, X, parts) ==
    /\ ph \in {"connected", "identified"}
    /\ ph2 \in {"identified", "closed"} /\ (X = {} \/ ph2 = "closed")
    /\ parts \in Seq(InParts) /\ parts # << >>
    /\ ph2 = "identified" => parts \in Seq(InParts \ {Delimiter})
    /\ ph = "connected" => parts[1] = RoutingId

\* A connection whose session writes parts, and X ahead of them.
LEMMA PushedConn ==
  ASSUME NEW p, NEW c, NEW q, NEW e, NEW ph, NEW L, NEW A, NEW U,
         Conn(p, c, q, e, ph, L, A, U),
         NEW d, NEW X \in {{}, {"pipe_term"}},
         WithSent(c, d, X \cup (IF q.asleep THEN {"activate_read"} ELSE {})),
         NEW ph2, NEW parts, Pushing(ph, ph2, X, parts)
  PROVE  Conn(p, d, Pushed(q, parts), e, ph2, L, A, U)
<1> DEFINE w == Pushed(q, parts)
<1>1. /\ ph \in {"connected", "identified"}
      /\ ph2 \in {"identified", "closed"} /\ (X = {} \/ ph2 = "closed")
      /\ parts \in Seq(InParts) /\ parts # << >>
      /\ ph2 = "identified" => parts \in Seq(InParts \ {Delimiter})
      /\ ph = "connected" => parts[1] = RoutingId
  BY DEF Pushing
<1>2. /\ d \in Seq(CommandNames) /\ NoTwice(d)
      /\ Pending(d) = Pending(c) \cup X \cup (IF q.asleep THEN {"activate_read"} ELSE {})
      /\ c # << >> => d[1] = c[1]
  BY DEF WithSent
<1>3. /\ w \in Queues(InParts)
      /\ w.unflushed = << >> /\ w.complete = 0 /\ ~w.asleep /\ w.flushed # << >>
      /\ w.flushed[1] = IF q.flushed = << >> THEN parts[1] ELSE q.flushed[1]
      /\ ph2 = "identified" => w.flushed \in Seq(InParts \ {Delimiter})
  <2> DEFINE T == InParts \ {Delimiter}
  <2>1. q \in Queues(InParts) /\ q.flushed \in Seq(T)
    BY <1>1 DEF Conn, Open
  <2>2. ph2 = "identified" => parts \in Seq(T)
    BY <1>1
  <2> HIDE DEF T
  <2>3. HoldsPushed(InParts, T, q, parts, w)
    BY <1>1, <2>1, PushedQueue
  <2> HIDE DEF w
  <2> QED BY <2>1, <2>2, <2>3 DEF T, HoldsPushed
<1> HIDE DEF w
<1>4. "bind" \in Pending(c) => c # << >>
  BY DEF Pending
<1>5. Commanded(d, e, ph2)
  BY <1>1, <1>2, <1>4 DEF Conn, Commanded, Open
<1>6. Awake(d, w, e)
  BY <1>2, <1>3 DEF Conn, Awake
<1>7. Open(w, e, ph2)
  BY <1>1, <1>3 DEF Open, Conn
<1>8. Placed(p, d, w, e, ph2, L, A, U)
  <2>1. "bind" \in Pending(d) <=> "bind" \in Pending(c)
    BY <1>2
  <2> QED BY <1>1, <1>3, <2>1 DEF Conn, Placed
<1> QED BY <1>1, <1>3, <1>5, <1>6, <1>7, <1>8 DEF Conn, Phases, w

\* A connection whose session sends a command.
LEMMA CommandedConn ==
  ASSUME NEW p, NEW c, NEW q, NEW e, NEW ph, NEW L, NEW A, NEW U,
         Conn(p, c, q, e, ph, L, A, U),
         NEW x \in {"activate_write", "pipe_term_ack"}, x \notin Pending(c),
         NEW ph2 \in Phases,
         x = "activate_write" => ph2 = ph,
         x = "pipe_term_ack" => ph = "closed" /\ ph2 = "gone" /\ e.state = "term_ack_sent"
  PROVE  Conn(p, Append(c, x), q, e, ph2, L, A, U)
<1> DEFINE d == Append(c, x)
<1>1. c \in Seq(CommandNames) /\ NoTwice(c) /\ x \in CommandNames
  BY DEF Conn, Commanded, CommandNames
<1>2. /\ d \in Seq(CommandNames) /\ Pending(d) = Pending(c) \cup {x} /\ NoTwice(d)
      /\ d[1] = IF c = << >> THEN x ELSE c[1]
  BY <1>1, PendingAppend
<1> HIDE DEF d
<1>3. "bind" \in Pending(c) => c # << >>
  BY DEF Pending
<1>4. Commanded(d, e, ph2)
  BY <1>2, <1>3 DEF Conn, Commanded
<1>5. Awake(d, q, e)
  BY <1>2 DEF Conn, Awake
<1>6. Placed(p, d, q, e, ph2, L, A, U)
  BY <1>2 DEF Conn, Placed
<1>7. Open(q, e, ph2)
  BY DEF Conn, Open
<1> QED BY <1>4, <1>5, <1>6, <1>7 DEF Conn, d

\* The commands that are left when the socket has taken the first one.
LEMMA HandledCommands ==
  ASSUME NEW c, NEW e, NEW ph, Commanded(c, e, ph), c # << >>
  PROVE  /\ Tail(c) \in Seq(CommandNames) /\ NoTwice(Tail(c))
         /\ Pending(Tail(c)) = Pending(c) \ {Head(c)}
         /\ Head(c) \in Pending(c)
         /\ "bind" \notin Pending(Tail(c))
         /\ Head(c) # "bind" => "bind" \notin Pending(c)
<1>1. c \in Seq(CommandNames) /\ NoTwice(c)
  BY DEF Commanded
<1>2. /\ Tail(c) \in Seq(CommandNames) /\ NoTwice(Tail(c))
      /\ Pending(Tail(c)) = Pending(c) \ {Head(c)}
      /\ Head(c) = c[1] /\ Head(c) \in Pending(c)
  BY <1>1, PendingTail
<1>3. "bind" \in Pending(c) => c[1] = "bind"
  BY DEF Commanded
<1> QED BY <1>2, <1>3

\* The first thing that is read from a pipe is the routing id.
LEMMA FirstIsId ==
  ASSUME NEW p, NEW c, NEW q, NEW e, NEW ph, NEW L, NEW A, NEW U,
         Conn(p, c, q, e, ph, L, A, U),
         "bind" \in Pending(c) \/ (p \in U /\ ~e.inActive)
  PROVE  CanRead(q) => Head(q.flushed) = RoutingId /\ Head(q.flushed) # Delimiter
<1>1. RoutingId # Delimiter
  <2>1. RoutingId.part = 0 /\ Delimiter.part = 1
    BY DEF RoutingId, Delimiter
  <2> QED BY <2>1
<1>2. CanRead(q) => Head(q.flushed) = q.flushed[1]
  BY ReadQueue DEF Conn
<1>3. CanRead(q) => q.flushed[1] = RoutingId
  BY DEF Conn, Placed, CanRead
<1> QED BY <1>1, <1>2, <1>3

\* A connection that is to be identified, with the end w.
ToIdentify(p, c, q, e, w, U) ==
    /\ c # << >>
    /\ w \in Ends /\ w.inActive /\ w.state = e.state /\ w.id = e.id
    /\ w.outActive = e.outActive
    /\ \/ Head(c) = "bind"
       \/ /\ Head(c) = "activate_read" /\ p \in U
          /\ ~e.inActive /\ e.state \in Reading

\* What is known of it.
LEMMA IdentifyFacts ==
  ASSUME NEW p, NEW c, NEW q, NEW e, NEW ph, NEW L, NEW A, NEW U, NEW w,
         Conn(p, c, q, e, ph, L, A, U), ToIdentify(p, c, q, e, w, U)
  PROVE  /\ w.state \in Reading /\ w.id = NoPipe
         /\ p \notin L /\ p \notin A
         /\ ~q.asleep /\ q.unflushed = << >> /\ q.complete = 0
         /\ "activate_read" \notin Pending(Tail(c)) /\ "bind" \notin Pending(Tail(c))
         /\ CanRead(q) => Head(q.flushed) = RoutingId /\ Head(q.flushed) # Delimiter
         /\ ~CanRead(q) => ph = "connected"
         /\ Commanded(Tail(c), w, ph)
<1>1. /\ Tail(c) \in Seq(CommandNames) /\ NoTwice(Tail(c))
      /\ Pending(Tail(c)) = Pending(c) \ {Head(c)}
      /\ Head(c) \in Pending(c)
      /\ "bind" \notin Pending(Tail(c))
  BY HandledCommands DEF Conn, ToIdentify
<1>2. "bind" \in Pending(c) \/ (p \in U /\ ~e.inActive)
  BY <1>1 DEF ToIdentify
<1>3. CanRead(q) => Head(q.flushed) = RoutingId /\ Head(q.flushed) # Delimiter
  BY <1>2, FirstIsId
<1>4. ~CanRead(q) => ph = "connected"
  BY <1>2 DEF Conn, Placed, CanRead
<1>5. w.state \in Reading /\ e.state \in Reading
  BY <1>1 DEF ToIdentify, Conn, Commanded, Reading
<1>6. p \notin L /\ p \notin A /\ w.id = NoPipe
  BY <1>1, <1>5 DEF ToIdentify, Conn, Placed, Reading
<1>7. /\ ~q.asleep /\ q.unflushed = << >> /\ q.complete = 0
      /\ "activate_read" \notin Pending(Tail(c))
  BY <1>1 DEF ToIdentify, Conn, Awake, Placed
<1>8. Commanded(Tail(c), w, ph)
  BY <1>1 DEF ToIdentify, Conn, Commanded
<1> QED BY <1>1, <1>3, <1>4, <1>5, <1>6, <1>7, <1>8

\* A connection whose peer is identified, or ignored because its id is taken.
LEMMA FoundConn ==
  ASSUME NEW p, NEW c, NEW q, NEW e, NEW ph, NEW L, NEW A, NEW U, NEW w,
         Conn(p, c, q, e, ph, L, A, U), ToIdentify(p, c, q, e, w, U), CanRead(q),
         NEW x \in Ends, x.state = w.state, x.inActive = w.inActive,
         NEW L2, NEW A2, NEW U2,
         \/ p \in L2 /\ p \in A2 /\ p \notin U2
         \/ p \notin L2 /\ p \notin A2 /\ p \in U2 /\ x.id = w.id
  PROVE  Conn(p, Tail(c), Popped(q), x, ph, L2, A2, U2)
<1> DEFINE d == Tail(c)
           r == Popped(q)
<1>1. /\ w.state \in Reading /\ w.id = NoPipe
      /\ ~q.asleep /\ q.unflushed = << >> /\ q.complete = 0
      /\ "activate_read" \notin Pending(d) /\ "bind" \notin Pending(d)
      /\ Commanded(d, w, ph)
  BY IdentifyFacts
<1>2. /\ r \in Queues(InParts) /\ r.flushed = Tail(q.flushed)
      /\ r.unflushed = q.unflushed /\ r.complete = q.complete /\ r.asleep = q.asleep
  <2>1. q \in Queues(InParts)
    BY DEF Conn
  <2> QED BY <2>1, ReadQueue
<1>3. w.inActive /\ w.state = e.state
  BY DEF ToIdentify
<1> HIDE DEF d, r
<1>4. Commanded(d, x, ph)
  BY <1>1 DEF Commanded
<1>5. Awake(d, r, x)
  BY <1>1, <1>2, <1>3 DEF Awake
<1>6. Open(r, x, ph)
  <2> DEFINE S == InParts \ {Delimiter}
  <2>1. q.flushed \in Seq(S) /\ q.flushed # << >> => Tail(q.flushed) \in Seq(S)
    OBVIOUS
  <2> QED BY <1>2, <1>3, <2>1 DEF Conn, Open, CanRead
<1>7. ph # "connected"
  BY DEF Conn, Placed, CanRead
<1>8. Placed(p, d, r, x, ph, L2, A2, U2)
  BY <1>1, <1>3, <1>7 DEF Placed, Reading
<1> QED BY <1>2, <1>4, <1>5, <1>6, <1>8 DEF Conn, d, r

\* A connection whose peer has not sent its routing id yet.
LEMMA NotFoundConn ==
  ASSUME NEW p, NEW c, NEW q, NEW e, NEW ph, NEW L, NEW A, NEW U, NEW w,
         Conn(p, c, q, e, ph, L, A, U), ToIdentify(p, c, q, e, w, U), ~CanRead(q),
         NEW x \in Ends, x.state = w.state, ~x.inActive, x.id = w.id,
         NEW U2, p \in U2
  PROVE  Conn(p, Tail(c), CheckedEmpty(q), x, ph, L, A, U2)
<1> DEFINE d == Tail(c)
           r == CheckedEmpty(q)
<1>1. /\ w.state \in Reading /\ w.id = NoPipe
      /\ p \notin L /\ p \notin A /\ ph = "connected"
      /\ ~q.asleep /\ q.unflushed = << >> /\ q.complete = 0
      /\ "activate_read" \notin Pending(d) /\ "bind" \notin Pending(d)
      /\ Commanded(d, w, ph)
  BY IdentifyFacts
<1>2. /\ r \in Queues(InParts) /\ r.flushed = q.flushed
      /\ r.unflushed = q.unflushed /\ r.complete = q.complete /\ r.asleep
  <2>1. q \in Queues(InParts)
    BY DEF Conn
  <2> QED BY <2>1, ReadQueue
<1>3. w.inActive /\ w.state = e.state /\ q.flushed = << >>
  BY DEF ToIdentify, CanRead
<1> HIDE DEF d, r
<1>4. Commanded(d, x, ph)
  BY <1>1 DEF Commanded
<1>5. Awake(d, r, x)
  BY <1>1, <1>2, <1>3 DEF Awake
<1>6. Open(r, x, ph)
  BY <1>2, <1>3 DEF Conn, Open
<1>7. Placed(p, d, r, x, ph, L, A, U2)
  BY <1>1, <1>2, <1>3 DEF Placed, Reading
<1> QED BY <1>2, <1>4, <1>5, <1>6, <1>7 DEF Conn, d, r

\* A command that says nothing new: activate_read to a pipe that is not read
\* any more, and activate_write.
LEMMA HeardConn ==
  ASSUME NEW p, NEW c, NEW q, NEW e, NEW ph, NEW L, NEW A, NEW U,
         Conn(p, c, q, e, ph, L, A, U), c # << >>,
         \/ Head(c) = "activate_write"
         \/ Head(c) = "activate_read" /\ (e.inActive \/ e.state \notin Reading)
  PROVE  Conn(p, Tail(c), q, e, ph, L, A, U)
<1> DEFINE d == Tail(c)
<1>1. /\ d \in Seq(CommandNames) /\ NoTwice(d)
      /\ Pending(d) = Pending(c) \ {Head(c)} /\ Head(c) \in Pending(c)
      /\ "bind" \notin Pending(d) /\ "bind" \notin Pending(c)
  BY HandledCommands DEF Conn
<1> HIDE DEF d
<1>2. Commanded(d, e, ph)
  BY <1>1 DEF Conn, Commanded
<1>3. Awake(d, q, e)
  BY <1>1 DEF Conn, Awake
<1>4. Placed(p, d, q, e, ph, L, A, U)
  BY <1>1 DEF Conn, Placed
<1> QED BY <1>2, <1>3, <1>4 DEF Conn, d

\* A listed pipe that is worth reading again.
LEMMA WokenConn ==
  ASSUME NEW p, NEW c, NEW q, NEW e, NEW ph, NEW L, NEW A, NEW U,
         Conn(p, c, q, e, ph, L, A, U), c # << >>, Head(c) = "activate_read",
         ~e.inActive, e.state \in Reading, p \notin U,
         NEW x \in Ends, x.state = e.state, x.inActive, x.id = e.id,
         NEW A2, p \in A2
  PROVE  /\ Conn(p, Tail(c), q, x, ph, L, A2, U)
         /\ p \in L /\ p \notin A
<1> DEFINE d == Tail(c)
<1>1. /\ d \in Seq(CommandNames) /\ NoTwice(d)
      /\ Pending(d) = Pending(c) \ {Head(c)} /\ Head(c) \in Pending(c)
      /\ "bind" \notin Pending(d) /\ "bind" \notin Pending(c)
  BY HandledCommands DEF Conn
<1> HIDE DEF d
<1>2. Commanded(d, x, ph)
  BY <1>1 DEF Conn, Commanded
<1>3. Awake(d, q, x)
  BY <1>1 DEF Conn, Awake
<1>4. p \in L /\ p \notin A
  BY <1>1 DEF Conn, Placed, Reading
<1>5. Placed(p, d, q, x, ph, L, A2, U)
  BY <1>1, <1>4 DEF Conn, Placed
<1>6. Open(q, x, ph)
  BY DEF Conn, Open
<1> QED BY <1>2, <1>3, <1>4, <1>5, <1>6 DEF Conn, d

\* What happens on the way out does not matter on the way in.
LEMMA OutConn ==
  ASSUME NEW p, NEW c, NEW q, NEW e, NEW ph, NEW L, NEW A, NEW U,
         Conn(p, c, q, e, ph, L, A, U),
         NEW x \in Ends, x.state = e.state, x.inActive = e.inActive, x.id = e.id
  PROVE  Conn(p, c, q, x, ph, L, A, U)
<1>1. Commanded(c, x, ph)
  BY DEF Conn, Commanded
<1>2. Awake(c, q, x)
  BY DEF Conn, Awake
<1>3. Placed(p, c, q, x, ph, L, A, U)
  BY DEF Conn, Placed
<1>4. Open(q, x, ph)
  BY DEF Conn, Open
<1> QED BY <1>1, <1>2, <1>3, <1>4 DEF Conn

\* The session has closed its end.
LEMMA TermConn ==
  ASSUME NEW p, NEW c, NEW q, NEW e, NEW ph, NEW L, NEW A, NEW U,
         Conn(p, c, q, e, ph, L, A, U), c # << >>, Head(c) = "pipe_term",
         NEW x \in Ends, x.inActive = e.inActive, x.id = e.id,
         x.state = IF e.state = "active" THEN "waiting_for_delimiter" ELSE "term_ack_sent"
  PROVE  Conn(p, Tail(c), q, x, ph, L, A, U)
<1> DEFINE d == Tail(c)
<1>1. /\ d \in Seq(CommandNames) /\ NoTwice(d)
      /\ Pending(d) = Pending(c) \ {Head(c)} /\ Head(c) \in Pending(c)
      /\ "bind" \notin Pending(d) /\ "bind" \notin Pending(c)
  BY HandledCommands DEF Conn
<1> HIDE DEF d
<1>2. ph \in {"closed", "gone"} /\ e.state \in {"active", "delimiter_received"}
  BY <1>1 DEF Conn, Commanded
<1>3. Commanded(d, x, ph)
  BY <1>1, <1>2 DEF Conn, Commanded
<1>4. Awake(d, q, x)
  BY <1>1, <1>2 DEF Conn, Awake, Reading
<1>5. Placed(p, d, q, x, ph, L, A, U)
  BY <1>1, <1>2 DEF Conn, Placed, Reading
<1>6. Open(q, x, ph)
  BY <1>2 DEF Open
<1> QED BY <1>3, <1>4, <1>5, <1>6 DEF Conn, d

\* A pipe that is about to go is anonymous and has no id, or it is listed.
LEMMA TerminatedPlace ==
  ASSUME NEW p, NEW c, NEW q, NEW e, NEW ph, NEW L, NEW A, NEW U,
         Conn(p, c, q, e, ph, L, A, U), c # << >>, Head(c) = "pipe_term_ack"
  PROVE  /\ p \in U => p \notin L /\ e.id = NoPipe
         /\ p \notin U => p \in L
<1>1. Head(c) \in Pending(c) /\ "bind" \notin Pending(c)
  BY HandledCommands DEF Conn
<1>2. e.state = "term_ack_sent"
  BY <1>1 DEF Conn, Commanded
<1> QED BY <1>1, <1>2 DEF Conn, Placed

\* The pipe is gone.
LEMMA TerminatedConn ==
  ASSUME NEW p, NEW c, NEW q, NEW e, NEW ph, NEW L, NEW A, NEW U,
         Conn(p, c, q, e, ph, L, A, U), c # << >>, Head(c) = "pipe_term_ack",
         NEW x \in Ends, x.inActive = e.inActive, x.state = "deallocated",
         NEW L2, NEW A2, NEW U2, p \notin L2, p \notin A2, p \notin U2
  PROVE  Conn(p, Tail(c), q, x, ph, L2, A2, U2)
<1> DEFINE d == Tail(c)
<1>1. /\ d \in Seq(CommandNames) /\ NoTwice(d)
      /\ Pending(d) = Pending(c) \ {Head(c)} /\ Head(c) \in Pending(c)
      /\ "bind" \notin Pending(d) /\ "bind" \notin Pending(c)
  BY HandledCommands DEF Conn
<1> HIDE DEF d
<1>2. ph = "gone" /\ e.state = "term_ack_sent" /\ "pipe_term" \notin Pending(c)
  BY <1>1 DEF Conn, Commanded
<1>3. Commanded(d, x, ph)
  BY <1>1, <1>2 DEF Conn, Commanded
<1>4. Awake(d, q, x)
  BY <1>1, <1>2 DEF Conn, Awake, Reading
<1>5. Placed(p, d, q, x, ph, L2, A2, U2)
  BY <1>1, <1>2 DEF Conn, Placed, Reading
<1>6. Open(q, x, ph)
  BY <1>2 DEF Open
<1> QED BY <1>3, <1>4, <1>5, <1>6 DEF Conn, d

\* What is known of the end x after a read of the queue q at the end e.
EndRead(e, q, x) ==
    /\ x \in Ends /\ x.id = e.id /\ x.outActive = e.outActive
    /\ x.state = "active" => e.state = "active" /\ x.unflushed = e.unflushed
    /\ ~Readable(e) \/ Fetches(e, q) => x = e
    /\ Readable(e) /\ ~CanRead(q) => x.state = e.state /\ ~x.inActive
    /\ Readable(e) /\ CanRead(q) /\ ~Fetches(e, q) =>
         /\ x.inActive = e.inActive
         /\ e.state = "active" => x.state = "delimiter_received"
         /\ e.state # "active" => x.state = "term_ack_sent"

\* It is so.
LEMMA ReadEnd ==
  ASSUME NEW e \in Ends, NEW q
  PROVE  EndRead(e, q, EndAfterRead(e, q))
<1> DEFINE x == EndAfterRead(e, q)
<1>1. CASE ~Readable(e) \/ Fetches(e, q)
  <2>1. x = e
    BY <1>1 DEF EndAfterRead
  <2>2. Readable(e) => CanRead(q)
    BY <1>1 DEF Fetches
  <2> HIDE DEF x
  <2> QED BY <1>1, <2>1, <2>2 DEF EndRead, x
<1>2. CASE Readable(e) /\ ~Fetches(e, q) /\ ~CanRead(q)
  <2>1. x = [e EXCEPT !.inActive = FALSE]
    BY <1>2 DEF EndAfterRead
  <2> HIDE DEF x
  <2>2. /\ x \in Ends /\ x.id = e.id /\ x.state = e.state /\ x.unflushed = e.unflushed
        /\ ~x.inActive /\ x.outActive = e.outActive
    BY <2>1 DEF Ends
  <2> QED BY <1>2, <2>2 DEF EndRead, x
<1>3. CASE Readable(e) /\ ~Fetches(e, q) /\ CanRead(q) /\ e.state = "active"
  <2>1. x = [e EXCEPT !.state = "delimiter_received"]
    BY <1>3 DEF EndAfterRead
  <2> HIDE DEF x
  <2>2. /\ x \in Ends /\ x.id = e.id /\ x.state = "delimiter_received"
        /\ x.inActive = e.inActive /\ x.outActive = e.outActive
    BY <2>1 DEF Ends, EndStates
  <2> QED BY <1>3, <2>2 DEF EndRead, x
<1>4. CASE Readable(e) /\ ~Fetches(e, q) /\ CanRead(q) /\ e.state # "active"
  <2>1. x = [e EXCEPT !.state = "term_ack_sent", !.unflushed = 0]
    BY <1>4 DEF EndAfterRead
  <2> HIDE DEF x
  <2>2. /\ x \in Ends /\ x.id = e.id /\ x.state = "term_ack_sent"
        /\ x.inActive = e.inActive /\ x.outActive = e.outActive
    BY <2>1 DEF Ends, EndStates
  <2> QED BY <1>4, <2>2 DEF EndRead, x
<1> QED BY <1>1, <1>2, <1>3, <1>4

\* A connection whose pipe has been read in its turn.
LEMMA ReadConn ==
  ASSUME NEW p, NEW c, NEW q, NEW e, NEW ph, NEW L, NEW A, NEW U,
         Conn(p, c, q, e, ph, L, A, U), p \in A,
         NEW A2, p \in A2 <=> Fetches(e, q)
  PROVE  Conn(p, c, QueueAfterRead(e, q), EndAfterRead(e, q), ph, L, A2, U)
<1> DEFINE x == EndAfterRead(e, q)
           r == QueueAfterRead(e, q)
<1>1. /\ p \in L /\ e.inActive /\ p \notin U
      /\ "bind" \notin Pending(c) /\ "activate_read" \notin Pending(c) /\ ~q.asleep
      /\ q \in Queues(InParts) /\ e \in Ends
  BY DEF Conn, Placed, Awake
<1>2. EndRead(e, q, x)
  BY <1>1, ReadEnd
<1>3. Readable(e) <=> e.state \in Reading
  BY <1>1 DEF Readable, Reading
<1>4. CASE ~Readable(e)
  <2>1. x = e /\ ~Fetches(e, q) /\ r = q
    BY <1>2, <1>4 DEF EndRead, Fetches, QueueAfterRead
  <2> HIDE DEF x, r
  <2>2. Placed(p, c, q, e, ph, L, A2, U)
    BY <1>1, <1>3, <1>4, <2>1 DEF Conn, Placed
  <2> QED BY <2>1, <2>2 DEF Conn, x, r
<1>5. CASE Readable(e) /\ ~CanRead(q)
  <2>1. ~Fetches(e, q) /\ r = CheckedEmpty(q) /\ q.flushed = << >>
    BY <1>5 DEF Fetches, QueueAfterRead, CanRead
  <2>2. /\ r \in Queues(InParts) /\ r.flushed = q.flushed
        /\ r.unflushed = q.unflushed /\ r.complete = q.complete /\ r.asleep
    BY <1>1, <2>1, ReadQueue
  <2>3. x \in Ends /\ x.id = e.id /\ x.state = e.state /\ ~x.inActive
    BY <1>2, <1>5 DEF EndRead
  <2> HIDE DEF x, r
  <2>4. Commanded(c, x, ph)
    BY <2>3 DEF Conn, Commanded
  <2>5. Awake(c, r, x)
    BY <1>1, <2>1, <2>2, <2>3 DEF Conn, Awake
  <2>6. Open(r, x, ph)
    BY <2>2, <2>3 DEF Conn, Open
  <2>7. Placed(p, c, r, x, ph, L, A2, U)
    BY <1>1, <2>1, <2>2, <2>3 DEF Conn, Placed
  <2> QED BY <2>2, <2>3, <2>4, <2>5, <2>6, <2>7 DEF Conn, x, r
<1>6. CASE Readable(e) /\ CanRead(q)
  <2>1. r = Popped(q)
    BY <1>6 DEF QueueAfterRead
  <2>2. /\ r \in Queues(InParts) /\ r.flushed = Tail(q.flushed)
        /\ r.unflushed = q.unflushed /\ r.complete = q.complete /\ r.asleep = q.asleep
    BY <1>1, <1>6, <2>1, ReadQueue
  <2>3. x.inActive = e.inActive /\ x \in Ends /\ x.id = e.id
    BY <1>2, <1>6 DEF EndRead
  <2>4. ph # "connected"
    BY <1>6 DEF Conn, Placed, CanRead
  <2> DEFINE T == InParts \ {Delimiter}
  <2>5. q.flushed \in Seq(T) => r.flushed \in Seq(T) /\ Head(q.flushed) # Delimiter
    <3>1. q.flushed # << >>
      BY <1>6 DEF CanRead
    <3>2. q.flushed \in Seq(T) => Tail(q.flushed) \in Seq(T) /\ Head(q.flushed) \in T
      <4> HIDE DEF T
      <4> QED BY <3>1
    <3> QED BY <2>2, <3>2
  <2>6. Fetches(e, q) => x.state = e.state
    BY <1>2 DEF EndRead
  <2>7. ~Fetches(e, q) => /\ ph \notin {"connected", "identified"}
                          /\ x.state \notin Reading /\ x.state # "deallocated"
                          /\ e.state = "active" => x.state = "delimiter_received"
    <3>1. ~Fetches(e, q) => Head(q.flushed) = Delimiter
      BY <1>6 DEF Fetches
    <3>2. ph \in {"connected", "identified"} => q.flushed \in Seq(T)
      BY DEF Conn, Open
    <3> QED BY <1>2, <1>6, <2>5, <3>1, <3>2 DEF EndRead, Reading
  <2> HIDE DEF x, r
  <2>8. Commanded(c, x, ph)
    BY <1>1, <1>3, <1>6, <2>6, <2>7 DEF Conn, Commanded, Reading
  <2>9. Awake(c, r, x)
    BY <1>1, <2>2, <2>3 DEF Conn, Awake
  <2>10. Open(r, x, ph)
    BY <2>5, <2>6, <2>7 DEF Conn, Open
  <2>11. Placed(p, c, r, x, ph, L, A2, U)
    BY <1>1, <1>3, <1>6, <2>2, <2>3, <2>4, <2>6, <2>7 DEF Conn, Placed, Reading
  <2> QED BY <2>2, <2>3, <2>8, <2>9, <2>10, <2>11 DEF Conn, x, r
<1> QED BY <1>4, <1>5, <1>6
-----------------------------------------------------------------------------
(* The steps of the sessions.                                              *)

\* A step that is about the connection p.
About(p) ==
    \A r \in Pipes : r # p =>
      /\ cmds'[r] = cmds[r] /\ inbox'[r] = inbox[r] /\ pipe'[r] = pipe[r]
      /\ peer'[r].phase = peer[r].phase
      /\ r \in Listed(fq') <=> r \in Listed(fq)
      /\ r \in ActivePipes(fq') <=> r \in ActivePipes(fq)
      /\ r \in anonymous' <=> r \in anonymous

\* A connection does not depend on the pipes of the others.
LEMMA SamePlace ==
  ASSUME NEW p, NEW c, NEW q, NEW e, NEW ph, NEW L, NEW A, NEW U,
         Conn(p, c, q, e, ph, L, A, U),
         NEW L2, NEW A2, NEW U2,
         p \in L2 <=> p \in L, p \in A2 <=> p \in A, p \in U2 <=> p \in U
  PROVE  Conn(p, c, q, e, ph, L2, A2, U2)
<1>1. Placed(p, c, q, e, ph, L2, A2, U2)
  BY DEF Conn, Placed
<1> QED BY <1>1 DEF Conn

\* Every connection is all right after a step that is about one and leaves it so.
LEMMA OneConn ==
  ASSUME \A r \in Pipes : ConnAt(r), NEW p \in Pipes, About(p),
         Conn(p, cmds'[p], inbox'[p], pipe'[p], peer'[p].phase,
              Listed(fq'), ActivePipes(fq'), anonymous')
  PROVE  (\A r \in Pipes : ConnAt(r))'
<1> SUFFICES ASSUME NEW r \in Pipes
             PROVE  Conn(r, cmds'[r], inbox'[r], pipe'[r], peer'[r].phase,
                         Listed(fq'), ActivePipes(fq'), anonymous')
  BY DEF ConnAt
<1>1. CASE r = p
  BY <1>1
<1>2. CASE r # p
  <2>1. Conn(r, cmds[r], inbox[r], pipe[r], peer[r].phase, Listed(fq), ActivePipes(fq), anonymous)
    BY DEF ConnAt
  <2>2. /\ cmds'[r] = cmds[r] /\ inbox'[r] = inbox[r] /\ pipe'[r] = pipe[r]
        /\ peer'[r].phase = peer[r].phase
        /\ r \in Listed(fq') <=> r \in Listed(fq)
        /\ r \in ActivePipes(fq') <=> r \in ActivePipes(fq)
        /\ r \in anonymous' <=> r \in anonymous
    BY <1>2 DEF About
  <2>3. Conn(r, cmds[r], inbox[r], pipe[r], peer[r].phase, Listed(fq'), ActivePipes(fq'), anonymous')
    BY <2>1, <2>2, SamePlace
  <2> QED BY <2>2, <2>3
<1> QED BY <1>1, <1>2

\* The types of what belongs to a connection.
LEMMA ConnTypes ==
  ASSUME RouterInv, NEW p \in Pipes
  PROVE  /\ cmds[p] \in Seq(CommandNames) /\ NoTwice(cmds[p])
         /\ inbox[p] \in Queues(InParts) /\ pipe[p] \in Ends
         /\ peer[p].phase \in Phases
         /\ peer[p] \in [phase : Phases, next : 0 .. Numbers - 1]
         /\ Conn(p, cmds[p], inbox[p], pipe[p], peer[p].phase,
                 Listed(fq), ActivePipes(fq), anonymous)
<1>1. Conn(p, cmds[p], inbox[p], pipe[p], peer[p].phase, Listed(fq), ActivePipes(fq), anonymous)
  BY DEF RouterInv, ConnAt
<1>2. peer[p] \in [phase : Phases, next : 0 .. Numbers - 1]
  BY DEF RouterInv, SocketTypes
<1> QED BY <1>1, <1>2 DEF Conn, Commanded

\* The commands of a session that writes: "pipe_term" goes ahead when it
\* closes, and the socket is woken up when it sleeps.
Together(c, X, W) == c \o (IF X = {} THEN << >> ELSE <<"pipe_term">>)
                       \o (IF W = {} THEN << >> ELSE <<"activate_read">>)

\* They come after the others.
LEMMA PushedCommands ==
  ASSUME NEW c \in Seq(CommandNames), NoTwice(c),
         NEW X \in {{}, {"pipe_term"}}, NEW W \in {{}, {"activate_read"}},
         X \cap Pending(c) = {}, W \cap Pending(c) = {}
  PROVE  WithSent(c, Together(c, X, W), X \cup W)
<1> DEFINE d == Together(c, X, W)
<1>1. d = c \o (IF X = {} THEN << >> ELSE <<"pipe_term">>)
             \o (IF W = {} THEN << >> ELSE <<"activate_read">>)
  BY DEF Together
<1> HIDE DEF d
<1> SUFFICES /\ d \in Seq(CommandNames) /\ NoTwice(d)
             /\ Pending(d) = Pending(c) \cup X \cup W
             /\ c # << >> => d[1] = c[1]
  BY DEF WithSent, d
<1> DEFINE x == "activate_read"
           y == "pipe_term"
           f == Append(c, y)
           g == Append(c, x)
           h == Append(f, x)
<1>2. x \in CommandNames /\ y \in CommandNames /\ x # y
  BY DEF CommandNames
<1>3. /\ c \o << >> \o << >> = c
      /\ c \o << >> \o <<x>> = g
      /\ c \o <<y>> \o << >> = f
      /\ c \o <<y>> \o <<x>> = h
  BY <1>2, SentCommands
<1>4. /\ g \in Seq(CommandNames)
      /\ Pending(g) = Pending(c) \cup {x}
      /\ x \notin Pending(c) => NoTwice(g)
      /\ c # << >> => g[1] = c[1]
  BY <1>2, PendingAppend
<1>5. /\ f \in Seq(CommandNames)
      /\ Pending(f) = Pending(c) \cup {y}
      /\ y \notin Pending(c) => NoTwice(f)
      /\ c # << >> => f[1] = c[1]
  BY <1>2, PendingAppend
<1> HIDE DEF f, g
<1>6. /\ h \in Seq(CommandNames)
      /\ Pending(h) = Pending(f) \cup {x}
      /\ NoTwice(f) /\ x \notin Pending(f) => NoTwice(h)
      /\ f # << >> => h[1] = f[1]
  BY <1>2, <1>5, PendingAppend
<1>7. f # << >>
  <2>1. Pending(f) # {}
    BY <1>5
  <2> QED BY <2>1 DEF Pending
<1> HIDE DEF h
<1>8. CASE X = {} /\ W = {}
  <2>1. d = c
    BY <1>1, <1>3, <1>8
  <2> QED BY <1>8, <2>1
<1>9. CASE X = {} /\ W = {x}
  <2>1. d = g /\ x \notin Pending(c)
    BY <1>1, <1>3, <1>9
  <2> HIDE DEF x
  <2> QED BY <1>4, <1>9, <2>1
<1>10. CASE X = {y} /\ W = {}
  <2>1. d = f /\ y \notin Pending(c)
    BY <1>1, <1>3, <1>10
  <2> HIDE DEF y
  <2> QED BY <1>5, <1>10, <2>1
<1>11. CASE X = {y} /\ W = {x}
  <2>1. d = h /\ x \notin Pending(c) /\ y \notin Pending(c)
    BY <1>1, <1>3, <1>11
  <2> HIDE DEF x, y
  <2>2. x \notin Pending(f)
    BY <1>2, <1>5, <2>1
  <2> QED BY <1>5, <1>6, <1>7, <1>11, <2>1, <2>2
<1> QED BY <1>8, <1>9, <1>10, <1>11

\* A step of a session leaves the socket alone.
LEMMA SessionKeeps ==
  ASSUME RouterInv, NEW p \in Pipes, UNCHANGED <<pipe, table, fq, input, output, aborted>>,
         NEW d, cmds' = [cmds EXCEPT ![p] = d],
         NEW w, inbox' = [inbox EXCEPT ![p] = w],
         NEW x \in [phase : Phases, next : 0 .. Numbers - 1], peer' = [peer EXCEPT ![p] = x],
         Conn(p, d, w, pipe[p], x.phase, Listed(fq), ActivePipes(fq), anonymous)
  PROVE  RouterInv'
<1>1. /\ peer \in [Pipes -> [phase : Phases, next : 0 .. Numbers - 1]]
      /\ cmds \in [Pipes -> Seq(CommandNames)] /\ inbox \in [Pipes -> Queues(InParts)]
  BY DEF RouterInv, SocketTypes
<1>2. /\ pipe' = pipe /\ outPipes' = outPipes /\ anonymous' = anonymous /\ fq' = fq
      /\ call' = call /\ due' = due /\ currentOut' = currentOut /\ moreOut' = moreOut
      /\ sending' = sending
  BY DEF table, input, output
<1>3. d \in Seq(CommandNames) /\ w \in Queues(InParts)
  BY DEF Conn, Commanded
<1>4. SocketTypes'
  BY <1>1, <1>2, <1>3 DEF RouterInv, SocketTypes
<1>5. Table'
  BY <1>2 DEF RouterInv, Table
<1>6. NothingHalfSent'
  BY <1>2 DEF RouterInv, NothingHalfSent
<1>7. About(p)
  BY <1>1, <1>2 DEF About
<1>8. cmds'[p] = d /\ inbox'[p] = w /\ pipe'[p] = pipe[p] /\ peer'[p] = x
  BY <1>1, <1>2
<1>9. (\A r \in Pipes : ConnAt(r))'
  BY <1>2, <1>7, <1>8, OneConn DEF RouterInv
<1> QED BY <1>4, <1>5, <1>6, <1>9 DEF RouterInv

\* A session that writes.
LEMMA PushKeeps ==
  ASSUME RouterInv, NEW p \in Pipes,
         NEW X \in {{}, {"pipe_term"}},
         NEW before, before = IF X = {} THEN << >> ELSE <<"pipe_term">>,
         NEW parts, Pushes(p, before, parts),
         NEW x \in [phase : Phases, next : 0 .. Numbers - 1], peer' = [peer EXCEPT ![p] = x],
         Pushing(peer[p].phase, x.phase, X, parts)
  PROVE  RouterInv'
<1> DEFINE c == cmds[p]
           q == inbox[p]
           v == [q EXCEPT !.unflushed = parts, !.complete = Len(parts)]
           W == IF q.asleep THEN {"activate_read"} ELSE {}
           wake == IF FlushWakes(v) THEN <<"activate_read">> ELSE << >>
           d == c \o before \o wake
<1>1. /\ c \in Seq(CommandNames) /\ NoTwice(c) /\ q \in Queues(InParts)
      /\ Conn(p, c, q, pipe[p], peer[p].phase, Listed(fq), ActivePipes(fq), anonymous)
  BY ConnTypes
<1>2. cmds \in [Pipes -> Seq(CommandNames)]
  BY DEF RouterInv, SocketTypes
<1>3. /\ inbox' = [inbox EXCEPT ![p] = Pushed(q, parts)]
      /\ cmds' = [cmds EXCEPT ![p] = d]
      /\ UNCHANGED <<pipe, table, fq, input, output, aborted>>
  BY <1>2 DEF Pushes, Pushed
<1>4. FlushWakes(v) <=> q.asleep
  <2>1. Len(parts) \in Nat /\ Len(parts) > 0
    BY DEF Pushing
  <2>2. v.complete = Len(parts) /\ v.asleep = q.asleep
    BY <1>1 DEF Queues
  <2> HIDE DEF v
  <2> QED BY <2>1, <2>2 DEF FlushWakes
<1> HIDE DEF c, q, v
<1>5. d = Together(c, X, W)
  BY <1>4 DEF Together
<1>6. W \in {{}, {"activate_read"}} /\ W \cap Pending(c) = {} /\ X \cap Pending(c) = {}
  BY <1>1 DEF Conn, Awake, Commanded, Pushing
<1> HIDE DEF W, d
<1>7. WithSent(c, d, X \cup W)
  BY <1>1, <1>5, <1>6, PushedCommands
<1>9. Conn(p, d, Pushed(q, parts), pipe[p], x.phase, Listed(fq), ActivePipes(fq), anonymous)
  <2> DEFINE ph2 == x.phase
  <2>1. Pushing(peer[p].phase, ph2, X, parts)
    OBVIOUS
  <2>2. WithSent(c, d, X \cup (IF q.asleep THEN {"activate_read"} ELSE {}))
    BY <1>7 DEF W
  <2> HIDE DEF ph2
  <2>4. Conn(p, d, Pushed(q, parts), pipe[p], ph2, Listed(fq), ActivePipes(fq), anonymous)
    BY <1>1, <2>1, <2>2, PushedConn
  <2> QED BY <2>4 DEF ph2
<1> QED BY <1>3, <1>9, SessionKeeps DEF q

\* The routing id, the delimiter and the messages are sequences of parts.
LEMMA PartsWritten ==
  /\ <<RoutingId>> \in Seq(InParts \ {Delimiter}) /\ <<RoutingId>> # << >>
  /\ <<RoutingId>>[1] = RoutingId
  /\ <<Delimiter>> \in Seq(InParts) /\ <<Delimiter>> # << >>
<1>1. RoutingId \in InParts /\ Delimiter \in InParts
  BY DEF InParts
<1>2. RoutingId # Delimiter
  <2>1. RoutingId.part = 0 /\ Delimiter.part = 1
    BY DEF RoutingId, Delimiter
  <2> QED BY <2>1
<1> QED BY <1>1, <1>2

\* A message has the parts its peer's messages have, and no delimiter.
LEMMA MessageWritten ==
  ASSUME NEW p \in Pipes, PartsOf[p] > 0, NEW n \in 0 .. Numbers - 1
  PROVE  Message(p, n) \in Seq(InParts \ {Delimiter}) /\ Message(p, n) # << >>
<1> DEFINE k == PartsOf[p]
           T == InParts \ {Delimiter}
           m == Message(p, n)
<1>1. k \in Nat /\ k > 0
  BY RouterAssumption
<1>2. ASSUME NEW j \in 1 .. k PROVE Part(p, n, j) \in T
  <2>1. Part(p, n, j) \in InParts
    <3> DEFINE F(h, g) == {Part(g, h, i) : i \in 1 .. PartsOf[g]}
               G == {F(h, g) : h \in 0 .. Numbers - 1, g \in Pipes}
    <3>1. Part(p, n, j) \in F(n, p)
      OBVIOUS
    <3>2. InParts = {RoutingId, Delimiter} \cup UNION G
      BY DEF InParts
    <3> HIDE DEF F
    <3>3. F(n, p) \in G
      OBVIOUS
    <3> QED BY <3>1, <3>2, <3>3
  <2>2. Part(p, n, j).from = p /\ Delimiter.from = NoPipe
    BY DEF Part, Delimiter
  <2>3. p # NoPipe
    BY RouterAssumption DEF Ids
  <2> QED BY <2>1, <2>2, <2>3
<1>3. m = [j \in 1 .. k |-> Part(p, n, j)]
  BY DEF Message
<1> HIDE DEF m, k, T
<1>4. m \in [1 .. k -> T]
  BY <1>2, <1>3
<1>5. m \in Seq(T) /\ Len(m) = k
  BY <1>1, <1>4
<1>6. m # << >>
  BY <1>1, <1>5
<1> QED BY <1>5, <1>6 DEF m, T

\* The routing id of a peer arrives.
LEMMA InvIdentify ==
  ASSUME RouterInv, NEW p \in Pipes, Identify(p)
  PROVE  RouterInv'
<1> DEFINE x == [peer[p] EXCEPT !.phase = "identified"]
           parts == <<RoutingId>>
<1>1. /\ peer[p] \in [phase : Phases, next : 0 .. Numbers - 1]
      /\ peer \in [Pipes -> [phase : Phases, next : 0 .. Numbers - 1]]
  BY DEF RouterInv, SocketTypes
<1>2. x \in [phase : Phases, next : 0 .. Numbers - 1] /\ x.phase = "identified"
  BY <1>1 DEF Phases
<1>3. /\ peer[p].phase = "connected" /\ peer' = [peer EXCEPT ![p] = x]
      /\ Pushes(p, << >>, parts)
  BY <1>1 DEF Identify
<1>4. parts \in Seq(InParts \ {Delimiter}) /\ parts # << >> /\ parts[1] = RoutingId
  BY PartsWritten
<1> HIDE DEF parts
<1>5. parts \in Seq(InParts)
  BY <1>4
<1>6. Pushing(peer[p].phase, x.phase, {}, parts)
  BY <1>2, <1>3, <1>4, <1>5 DEF Pushing
<1> HIDE DEF x
<1> QED BY <1>2, <1>3, <1>6, PushKeeps

\* A message of a peer arrives.
LEMMA InvArrive ==
  ASSUME RouterInv, NEW p \in Pipes, Arrive(p)
  PROVE  RouterInv'
<1> DEFINE n == (peer[p].next + 1) % Numbers
           x == [peer[p] EXCEPT !.next = n]
           parts == Message(p, peer[p].next)
<1>1. /\ peer[p] \in [phase : Phases, next : 0 .. Numbers - 1]
      /\ peer \in [Pipes -> [phase : Phases, next : 0 .. Numbers - 1]]
  BY DEF RouterInv, SocketTypes
<1>2. n \in 0 .. Numbers - 1
  BY <1>1, RouterAssumption
<1>3. /\ peer[p].phase = "identified" /\ peer' = [peer EXCEPT ![p] = x]
      /\ Pushes(p, << >>, parts) /\ PartsOf[p] > 0
  BY <1>1 DEF Arrive
<1> HIDE DEF n
<1>4. x \in [phase : Phases, next : 0 .. Numbers - 1] /\ x.phase = "identified"
  BY <1>1, <1>2, <1>3
<1>5. parts \in Seq(InParts \ {Delimiter}) /\ parts # << >>
  BY <1>1, <1>3, MessageWritten
<1> HIDE DEF parts
<1>6. parts \in Seq(InParts)
  BY <1>5
<1>7. Pushing(peer[p].phase, x.phase, {}, parts)
  BY <1>3, <1>4, <1>5, <1>6 DEF Pushing
<1> HIDE DEF x
<1> QED BY <1>3, <1>4, <1>7, PushKeeps

\* A peer closes the connection.
LEMMA InvClose ==
  ASSUME RouterInv, NEW p \in Pipes, Close(p)
  PROVE  RouterInv'
<1> DEFINE x == [peer[p] EXCEPT !.phase = "closed"]
           parts == <<Delimiter>>
           before == <<"pipe_term">>
           X == {"pipe_term"}
<1>1. /\ peer[p] \in [phase : Phases, next : 0 .. Numbers - 1]
      /\ peer \in [Pipes -> [phase : Phases, next : 0 .. Numbers - 1]]
  BY DEF RouterInv, SocketTypes
<1>2. x \in [phase : Phases, next : 0 .. Numbers - 1] /\ x.phase = "closed"
  BY <1>1 DEF Phases
<1>3. /\ peer[p].phase = "identified" /\ peer' = [peer EXCEPT ![p] = x]
      /\ Pushes(p, before, parts)
  BY <1>1 DEF Close
<1>4. parts \in Seq(InParts) /\ parts # << >>
  BY PartsWritten
<1>5. before = (IF X = {} THEN << >> ELSE <<"pipe_term">>) /\ X \in {{}, {"pipe_term"}}
  OBVIOUS
<1> HIDE DEF parts, before
<1>6. Pushing(peer[p].phase, x.phase, X, parts)
  BY <1>2, <1>3, <1>4 DEF Pushing
<1> HIDE DEF x, X
<1> QED BY <1>2, <1>3, <1>5, <1>6, PushKeeps

\* A peer has read what was sent to it.
LEMMA InvAcknowledgeWrite ==
  ASSUME RouterInv, NEW p \in Pipes, AcknowledgeWrite(p)
  PROVE  RouterInv'
<1> DEFINE c == cmds[p]
           d == Append(c, "activate_write")
<1>1. /\ inbox[p] \in Queues(InParts) /\ peer[p].phase \in Phases
      /\ peer[p] \in [phase : Phases, next : 0 .. Numbers - 1]
      /\ Conn(p, c, inbox[p], pipe[p], peer[p].phase, Listed(fq), ActivePipes(fq), anonymous)
  BY ConnTypes
<1>2. /\ peer \in [Pipes -> [phase : Phases, next : 0 .. Numbers - 1]]
      /\ inbox \in [Pipes -> Queues(InParts)]
  BY DEF RouterInv, SocketTypes
<1>3. /\ cmds' = [cmds EXCEPT ![p] = d] /\ peer' = [peer EXCEPT ![p] = peer[p]]
      /\ inbox' = [inbox EXCEPT ![p] = inbox[p]]
      /\ UNCHANGED <<pipe, table, fq, input, output, aborted>>
  BY <1>2 DEF AcknowledgeWrite, Commands
<1>4. "activate_write" \notin Pending(c)
  BY DEF AcknowledgeWrite, Pending
<1>5. Conn(p, d, inbox[p], pipe[p], peer[p].phase, Listed(fq), ActivePipes(fq), anonymous)
  BY <1>1, <1>4, CommandedConn
<1> HIDE DEF d
<1> QED BY <1>1, <1>3, <1>5, SessionKeeps

\* A peer ends the termination.
LEMMA InvAcknowledgeTerm ==
  ASSUME RouterInv, NEW p \in Pipes, AcknowledgeTerm(p)
  PROVE  RouterInv'
<1> DEFINE c == cmds[p]
           d == Append(c, "pipe_term_ack")
           x == [peer[p] EXCEPT !.phase = "gone"]
<1>1. /\ inbox[p] \in Queues(InParts)
      /\ peer[p] \in [phase : Phases, next : 0 .. Numbers - 1]
      /\ Conn(p, c, inbox[p], pipe[p], peer[p].phase, Listed(fq), ActivePipes(fq), anonymous)
  BY ConnTypes
<1>2. /\ peer \in [Pipes -> [phase : Phases, next : 0 .. Numbers - 1]]
      /\ inbox \in [Pipes -> Queues(InParts)]
  BY DEF RouterInv, SocketTypes
<1>3. /\ cmds' = [cmds EXCEPT ![p] = d] /\ peer' = [peer EXCEPT ![p] = x]
      /\ inbox' = [inbox EXCEPT ![p] = inbox[p]]
      /\ UNCHANGED <<pipe, table, fq, input, output, aborted>>
      /\ peer[p].phase = "closed" /\ pipe[p].state = "term_ack_sent"
  BY <1>2 DEF AcknowledgeTerm, Commands
<1>4. "pipe_term_ack" \notin Pending(c)
  BY <1>1, <1>3 DEF Conn, Commanded
<1>5. x \in [phase : Phases, next : 0 .. Numbers - 1] /\ x.phase = "gone"
  BY <1>1 DEF Phases
<1> HIDE DEF x
<1>6. x.phase \in Phases
  BY <1>5
<1>7. Conn(p, d, inbox[p], pipe[p], x.phase, Listed(fq), ActivePipes(fq), anonymous)
  BY <1>1, <1>3, <1>4, <1>5, <1>6, CommandedConn
<1> HIDE DEF d
<1> QED BY <1>3, <1>5, <1>7, SessionKeeps
-----------------------------------------------------------------------------
(* The commands.                                                           *)

\* What a command that is handled leaves alone.
LEMMA HandlesFacts ==
  ASSUME RouterInv, NEW p \in Pipes, NEW command, Handles(p, command)
  PROVE  /\ cmds[p] # << >> /\ Head(cmds[p]) = command
         /\ cmds' = [cmds EXCEPT ![p] = Tail(cmds[p])]
         /\ peer' = peer /\ call' = call /\ due' = due
         /\ moreOut' = moreOut /\ sending' = sending
<1>1. cmds \in [Pipes -> Seq(CommandNames)]
  BY DEF RouterInv, SocketTypes
<1> QED BY <1>1 DEF Handles, input

\* The invariant after a command that is about the connection p.
LEMMA CommandKeeps ==
  ASSUME RouterInv, NEW p \in Pipes, NEW command, Handles(p, command),
         NEW x \in Ends, pipe' = [pipe EXCEPT ![p] = x],
         NEW w \in Queues(InParts), inbox' = [inbox EXCEPT ![p] = w],
         WellFormed(Pipes, fq'), anonymous' \subseteq Pipes,
         currentOut' \in Pipes \cup {NoPipe},
         \A r \in Pipes : r # p =>
           /\ r \in Listed(fq') <=> r \in Listed(fq)
           /\ r \in ActivePipes(fq') <=> r \in ActivePipes(fq)
           /\ r \in anonymous' <=> r \in anonymous,
         Conn(p, Tail(cmds[p]), w, x, peer[p].phase,
              Listed(fq'), ActivePipes(fq'), anonymous'),
         Table', NothingHalfSent'
  PROVE  RouterInv'
<1>1. /\ cmds' = [cmds EXCEPT ![p] = Tail(cmds[p])]
      /\ peer' = peer /\ call' = call /\ due' = due
      /\ moreOut' = moreOut /\ sending' = sending
  BY HandlesFacts
<1>2. /\ cmds \in [Pipes -> Seq(CommandNames)] /\ inbox \in [Pipes -> Queues(InParts)]
      /\ pipe \in [Pipes -> Ends]
  BY DEF RouterInv, SocketTypes
<1> DEFINE d == Tail(cmds[p])
<1>3. d \in Seq(CommandNames)
  BY DEF Conn, Commanded
<1> HIDE DEF d
<1>4. /\ cmds' \in [Pipes -> Seq(CommandNames)] /\ inbox' \in [Pipes -> Queues(InParts)]
      /\ pipe' \in [Pipes -> Ends]
      /\ cmds'[p] = d /\ inbox'[p] = w /\ pipe'[p] = x
      /\ \A r \in Pipes : r # p => cmds'[r] = cmds[r] /\ inbox'[r] = inbox[r] /\ pipe'[r] = pipe[r]
  BY <1>1, <1>2, <1>3 DEF d
<1>5. SocketTypes'
  BY <1>1, <1>4 DEF RouterInv, SocketTypes
<1>6. About(p)
  BY <1>1, <1>4 DEF About
<1>7. Conn(p, cmds'[p], inbox'[p], pipe'[p], peer'[p].phase,
           Listed(fq'), ActivePipes(fq'), anonymous')
  BY <1>1, <1>4 DEF d
<1>8. (\A r \in Pipes : ConnAt(r))'
  BY <1>6, <1>7, OneConn DEF RouterInv
<1> QED BY <1>5, <1>8 DEF RouterInv

\* The listed pipes are connections.
LEMMA ListedArePipes ==
  ASSUME SocketTypes
  PROVE  \A r \in Listed(fq) : r \in Pipes
<1>1. WellFormed(Pipes, fq)
  BY DEF SocketTypes
<1>2. fq.pipes \in Seq(Pipes)
  BY <1>1, Fields
<1> QED BY <1>2 DEF Listed

\* The routing table after a step that changes no id and lists the same pipes.
LEMMA TableKept ==
  ASSUME SocketTypes, Table, NEW p \in Pipes,
         NEW x \in Ends, pipe' = [pipe EXCEPT ![p] = x], x.id = pipe[p].id,
         outPipes' = outPipes, Listed(fq') = Listed(fq)
  PROVE  Table'
<1>1. pipe \in [Pipes -> Ends]
  BY DEF SocketTypes
<1>2. \A r \in Pipes : pipe'[r].id = pipe[r].id
  BY <1>1
<1>3. \A r \in Listed(fq) : r \in Pipes
  BY ListedArePipes
<1> QED BY <1>2, <1>3 DEF Table

\* What is half sent is still so when a pipe is not written to.
LEMMA HalfSentKept ==
  ASSUME SocketTypes, NothingHalfSent, NEW p \in Pipes,
         NEW x \in Ends, pipe' = [pipe EXCEPT ![p] = x],
         x.state = "active" => pipe[p].state = "active" /\ x.unflushed = pipe[p].unflushed,
         currentOut = p => x.id = pipe[p].id,
         currentOut \in Listed(fq) => currentOut \in Listed(fq'),
         currentOut' = currentOut, moreOut' = moreOut, sending' = sending
  PROVE  NothingHalfSent'
<1>1. pipe \in [Pipes -> Ends] /\ currentOut \in Pipes \cup {NoPipe}
  BY DEF SocketTypes
<1>2. pipe'[p] = x /\ \A r \in Pipes : r # p => pipe'[r] = pipe[r]
  BY <1>1
<1>3. \A r \in Pipes : pipe'[r].state = "active" =>
         pipe'[r].unflushed = IF r = currentOut THEN sending.parts ELSE 0
  BY <1>2 DEF NothingHalfSent
<1>4. currentOut # NoPipe => /\ moreOut /\ currentOut \in Listed(fq')
                             /\ pipe'[currentOut].id = sending.to
  BY <1>1, <1>2 DEF NothingHalfSent
<1> QED BY <1>3, <1>4 DEF NothingHalfSent

\* A listed pipe that can be read again, and one that cannot.
LEMMA InvReadActivated ==
  ASSUME RouterInv, NEW p \in Pipes, Handles(p, "activate_read"),
         UNCHANGED <<inbox, table, currentOut, aborted>>,
         NEW wakes, wakes = (~pipe[p].inActive /\ pipe[p].state \in Reading),
         ~(wakes /\ p \in anonymous),
         pipe' = [pipe EXCEPT ![p] = IF wakes THEN [pipe[p] EXCEPT !.inActive = TRUE] ELSE @],
         fq' = IF wakes THEN Activated(fq, p) ELSE fq
  PROVE  RouterInv'
<1>1. /\ inbox[p] \in Queues(InParts) /\ pipe[p] \in Ends
      /\ Conn(p, cmds[p], inbox[p], pipe[p], peer[p].phase,
              Listed(fq), ActivePipes(fq), anonymous)
  BY ConnTypes
<1>2. /\ cmds[p] # << >> /\ Head(cmds[p]) = "activate_read"
      /\ moreOut' = moreOut /\ sending' = sending
  BY HandlesFacts
<1>3. /\ inbox \in [Pipes -> Queues(InParts)] /\ pipe \in [Pipes -> Ends]
      /\ WellFormed(Pipes, fq) /\ anonymous \subseteq Pipes /\ currentOut \in Pipes \cup {NoPipe}
      /\ SocketTypes /\ Table /\ NothingHalfSent
  BY DEF RouterInv, SocketTypes
<1>4. /\ inbox' = [inbox EXCEPT ![p] = inbox[p]] /\ anonymous' = anonymous
      /\ outPipes' = outPipes /\ currentOut' = currentOut
  BY <1>3 DEF table
<1>5. CASE wakes
  <2> DEFINE x == [pipe[p] EXCEPT !.inActive = TRUE]
  <2>1. pipe' = [pipe EXCEPT ![p] = x] /\ fq' = Activated(fq, p) /\ p \notin anonymous
    BY <1>5
  <2>2. /\ x \in Ends /\ x.state = pipe[p].state /\ x.inActive /\ x.id = pipe[p].id
        /\ x.unflushed = pipe[p].unflushed
    BY <1>1 DEF Ends
  <2>3. ~pipe[p].inActive /\ pipe[p].state \in Reading
    BY <1>5
  <2> HIDE DEF x
  <2>4. p \in Listed(fq) /\ p \notin ActivePipes(fq)
    <3>1. p \in {p}
      OBVIOUS
    <3> QED BY <1>1, <1>2, <2>1, <2>2, <2>3, <3>1, WokenConn
  <2>5. /\ WellFormed(Pipes, fq') /\ Listed(fq') = Listed(fq)
        /\ ActivePipes(fq') = ActivePipes(fq) \cup {p}
    BY <1>3, <2>1, <2>4, ActivatedList
  <2>6. Conn(p, Tail(cmds[p]), inbox[p], x, peer[p].phase, Listed(fq), ActivePipes(fq'), anonymous)
    <3>1. p \in ActivePipes(fq')
      BY <2>5
    <3> QED BY <1>1, <1>2, <2>1, <2>2, <2>3, <3>1, WokenConn
  <2>7. Table'
    BY <1>3, <1>4, <2>1, <2>2, <2>5, TableKept
  <2>8. NothingHalfSent'
    <3>1. /\ SocketTypes /\ NothingHalfSent /\ x \in Ends /\ pipe' = [pipe EXCEPT ![p] = x]
          /\ x.state = "active" => pipe[p].state = "active" /\ x.unflushed = pipe[p].unflushed
          /\ currentOut = p => x.id = pipe[p].id
          /\ currentOut \in Listed(fq) => currentOut \in Listed(fq')
          /\ currentOut' = currentOut /\ moreOut' = moreOut /\ sending' = sending
      BY <1>2, <1>3, <1>4, <2>1, <2>2, <2>5
    <3> QED BY <3>1, HalfSentKept
  <2> QED BY <1>1, <1>3, <1>4, <2>1, <2>2, <2>5, <2>6, <2>7, <2>8, CommandKeeps
<1>6. CASE ~wakes
  <2>1. pipe' = [pipe EXCEPT ![p] = pipe[p]] /\ fq' = fq
    BY <1>3, <1>6
  <2>2. pipe[p].inActive \/ pipe[p].state \notin Reading
    BY <1>6
  <2>3. Conn(p, Tail(cmds[p]), inbox[p], pipe[p], peer[p].phase, Listed(fq), ActivePipes(fq), anonymous)
    BY <1>1, <1>2, <2>2, HeardConn
  <2>4. Table'
    BY <1>1, <1>3, <1>4, <2>1, TableKept
  <2>5. NothingHalfSent'
    BY <1>1, <1>2, <1>3, <1>4, <2>1, HalfSentKept
  <2> QED BY <1>1, <1>3, <1>4, <2>1, <2>3, <2>4, <2>5, CommandKeeps
<1> QED BY <1>5, <1>6

\* The routing table with one more pipe.
LEMMA TableAdded ==
  ASSUME SocketTypes, Table, NEW p \in Pipes, p \notin Listed(fq),
         NEW x \in Ends, pipe' = [pipe EXCEPT ![p] = x], x.id = IdOf(p),
         ~Taken(x.id), outPipes' = add_out_pipe(x.id, p),
         Listed(fq') = Listed(fq) \cup {p}
  PROVE  Table'
<1> DEFINE id == x.id
           o == outPipes'
<1>1. pipe \in [Pipes -> Ends]
  BY DEF SocketTypes
<1>2. pipe'[p] = x /\ \A r \in Pipes : r # p => pipe'[r] = pipe[r]
  BY <1>1
<1>3. \A r \in Listed(fq) : r \in Pipes /\ r # p
  <2>1. \A r \in Listed(fq) : r \in Pipes
    BY ListedArePipes
  <2> QED BY <2>1
<1>4. /\ DOMAIN o = DOMAIN outPipes \cup {id}
      /\ o[id] = [pipe |-> p, active |-> TRUE]
      /\ \A j \in DOMAIN outPipes : j # id /\ o[j] = outPipes[j]
  <2>1. o = [j \in DOMAIN outPipes \cup {id} |->
               IF j = id THEN [pipe |-> p, active |-> TRUE] ELSE outPipes[j]]
    BY DEF add_out_pipe
  <2>2. id \notin DOMAIN outPipes
    BY DEF Taken
  <2> HIDE DEF o, id
  <2> QED BY <2>1, <2>2
<1>5. /\ o[id] \in [pipe : Pipes, active : BOOLEAN] /\ o[id].pipe = p
  BY <1>4
<1>6. x.id = id /\ id = IdOf(p)
  OBVIOUS
<1> HIDE DEF o, id
<1>7. \A j \in DOMAIN o : o[j] \in [pipe : Pipes, active : BOOLEAN]
  BY <1>4, <1>5 DEF Table
<1>8. \A j \in DOMAIN o : /\ o[j].pipe \in Listed(fq')
                          /\ pipe'[o[j].pipe].id = j
                          /\ j = IdOf(o[j].pipe)
  <2> SUFFICES ASSUME NEW j \in DOMAIN o
               PROVE  /\ o[j].pipe \in Listed(fq') /\ pipe'[o[j].pipe].id = j
                      /\ j = IdOf(o[j].pipe)
    OBVIOUS
  <2>1. CASE j = id
    BY <1>2, <1>5, <1>6, <2>1
  <2>2. CASE j \in DOMAIN outPipes
    <3>1. /\ outPipes[j].pipe \in Listed(fq) /\ pipe[outPipes[j].pipe].id = j
          /\ j = IdOf(outPipes[j].pipe) /\ o[j] = outPipes[j]
      BY <1>4, <2>2 DEF Table
    <3> QED BY <1>2, <1>3, <3>1
  <2> QED BY <1>4, <2>1, <2>2
<1>9. \A r \in Listed(fq') : pipe'[r].id \in DOMAIN o /\ o[pipe'[r].id].pipe = r
  <2> SUFFICES ASSUME NEW r \in Listed(fq')
               PROVE  pipe'[r].id \in DOMAIN o /\ o[pipe'[r].id].pipe = r
    OBVIOUS
  <2>1. CASE r = p
    BY <1>2, <1>4, <1>5, <1>6, <2>1
  <2>2. CASE r \in Listed(fq)
    <3>1. pipe[r].id \in DOMAIN outPipes /\ outPipes[pipe[r].id].pipe = r
      BY <2>2 DEF Table
    <3> QED BY <1>2, <1>3, <1>4, <2>2, <3>1
  <2> QED BY <2>1, <2>2
<1> QED BY <1>7, <1>8, <1>9 DEF Table, o

\* identify_peer, with the end e: the pipe is listed or anonymous.
LEMMA InvIdentifyPeer ==
  ASSUME RouterInv, NEW p \in Pipes, NEW command, Handles(p, command), NEW e,
         ToIdentify(p, cmds[p], inbox[p], pipe[p], e, anonymous),
         e.unflushed = pipe[p].unflushed,
         identify_peer(p, e), currentOut' = currentOut
  PROVE  RouterInv'
<1> DEFINE q == inbox[p]
           c == cmds[p]
<1>1. /\ q \in Queues(InParts) /\ pipe[p] \in Ends /\ peer[p].phase \in Phases
      /\ Conn(p, c, q, pipe[p], peer[p].phase, Listed(fq), ActivePipes(fq), anonymous)
  BY ConnTypes
<1>2. moreOut' = moreOut /\ sending' = sending
  BY HandlesFacts
<1>3. /\ inbox \in [Pipes -> Queues(InParts)] /\ pipe \in [Pipes -> Ends]
      /\ WellFormed(Pipes, fq) /\ anonymous \subseteq Pipes /\ currentOut \in Pipes \cup {NoPipe}
      /\ SocketTypes /\ Table /\ NothingHalfSent
  BY DEF RouterInv, SocketTypes
<1>4. e \in Ends /\ e.inActive /\ e.state = pipe[p].state /\ e.id = pipe[p].id
  BY DEF ToIdentify
<1>5. /\ e.state \in Reading /\ e.id = NoPipe
      /\ p \notin Listed(fq) /\ p \notin ActivePipes(fq)
      /\ CanRead(q) => Head(q.flushed) = RoutingId /\ Head(q.flushed) # Delimiter
  BY <1>1, IdentifyFacts
<1>6. Readable(e)
  BY <1>4, <1>5 DEF Readable, Reading
<1>7. currentOut # p
  <2>1. currentOut # NoPipe => currentOut \in Listed(fq)
    BY <1>3 DEF NothingHalfSent
  <2>2. p # NoPipe
    BY RouterAssumption DEF Ids
  <2> QED BY <1>5, <2>1, <2>2
<1>8. Fetches(e, q) <=> CanRead(q)
  BY <1>5, <1>6 DEF Fetches
<1>9. CASE CanRead(q) /\ ~Taken(IdOf(p))
  <2> DEFINE x == [e EXCEPT !.id = IdOf(p)]
             w == Popped(q)
  <2>1. EndAfterRead(e, q) = e /\ QueueAfterRead(e, q) = w
    BY <1>6, <1>8, <1>9 DEF EndAfterRead, QueueAfterRead
  <2>2. IdOf(p) \in Ids
    BY DEF IdOf, Ids
  <2>3. /\ x \in Ends /\ x.id = IdOf(p) /\ x.state = e.state /\ x.inActive = e.inActive
        /\ x.unflushed = e.unflushed
    BY <1>4, <2>2 DEF Ends
  <2>4. w \in Queues(InParts)
    BY <1>1, <1>9, ReadQueue
  <2>5. /\ pipe' = [pipe EXCEPT ![p] = x] /\ inbox' = [inbox EXCEPT ![p] = w]
        /\ outPipes' = add_out_pipe(IdOf(p), p)
        /\ anonymous' = anonymous \ {p} /\ fq' = Attached(fq, p)
    BY <1>5, <1>8, <1>9, <2>1 DEF identify_peer
  <2> HIDE DEF x, w
  <2>6. /\ WellFormed(Pipes, fq') /\ Listed(fq') = Listed(fq) \cup {p}
        /\ ActivePipes(fq') = ActivePipes(fq) \cup {p}
    BY <1>3, <1>5, <2>5, AttachedList
  <2>7. Conn(p, Tail(c), w, x, peer[p].phase, Listed(fq'), ActivePipes(fq'), anonymous')
    <3>1. p \in Listed(fq') /\ p \in ActivePipes(fq') /\ p \notin anonymous'
      BY <2>5, <2>6
    <3>2. Conn(p, Tail(c), Popped(q), x, peer[p].phase, Listed(fq'), ActivePipes(fq'), anonymous')
      BY <1>1, <1>9, <2>3, <3>1, FoundConn
    <3> QED BY <3>2 DEF w
  <2>8. Table'
    BY <1>3, <1>5, <1>9, <2>3, <2>5, <2>6, TableAdded
  <2>9. NothingHalfSent'
    <3>1. /\ x.state = "active" => pipe[p].state = "active" /\ x.unflushed = pipe[p].unflushed
          /\ currentOut = p => x.id = pipe[p].id
          /\ currentOut \in Listed(fq) => currentOut \in Listed(fq')
      BY <1>4, <1>7, <2>3, <2>6
    <3>2. pipe' = [pipe EXCEPT ![p] = x] /\ x \in Ends
      BY <2>3, <2>5
    <3> QED BY <1>2, <1>3, <3>1, <3>2, HalfSentKept
  <2> QED BY <1>3, <2>3, <2>4, <2>5, <2>6, <2>7, <2>8, <2>9, CommandKeeps
<1>10. CASE ~(CanRead(q) /\ ~Taken(IdOf(p)))
  <2> DEFINE x == EndAfterRead(e, q)
             w == QueueAfterRead(e, q)
  <2>1. /\ pipe' = [pipe EXCEPT ![p] = x] /\ inbox' = [inbox EXCEPT ![p] = w]
        /\ anonymous' = anonymous \cup {p} /\ outPipes' = outPipes /\ fq' = fq
    BY <1>5, <1>8, <1>10 DEF identify_peer
  <2>2. EndRead(e, q, x)
    BY <1>4, ReadEnd
  <2>3. CASE CanRead(q)
    <3>1. x = e /\ w = Popped(q)
      BY <1>6, <1>8, <2>2, <2>3 DEF EndRead, QueueAfterRead
    <3> HIDE DEF x, w
    <3>2. w \in Queues(InParts)
      BY <1>1, <2>3, <3>1, ReadQueue
    <3>3. p \in anonymous'
      BY <2>1
    <3>4. Conn(p, Tail(c), Popped(q), e, peer[p].phase, Listed(fq), ActivePipes(fq), anonymous')
      BY <1>1, <1>4, <1>5, <2>3, <3>3, FoundConn
    <3>5. Conn(p, Tail(c), w, x, peer[p].phase, Listed(fq'), ActivePipes(fq'), anonymous')
      BY <2>1, <3>1, <3>4
    <3>6. x \in Ends /\ x.id = pipe[p].id
      BY <1>4, <3>1
    <3>7. Table'
      BY <1>3, <2>1, <3>6, TableKept
    <3>8. NothingHalfSent'
      <4>1. /\ x.state = "active" => pipe[p].state = "active" /\ x.unflushed = pipe[p].unflushed
            /\ currentOut = p => x.id = pipe[p].id
            /\ currentOut \in Listed(fq) => currentOut \in Listed(fq')
        BY <1>4, <2>1, <3>1
      <4> QED BY <1>2, <1>3, <2>1, <3>6, <4>1, HalfSentKept
    <3> QED BY <1>3, <2>1, <3>2, <3>5, <3>6, <3>7, <3>8, CommandKeeps
  <2>4. CASE ~CanRead(q)
    <3>1. /\ x \in Ends /\ x.id = e.id /\ x.state = e.state /\ ~x.inActive
          /\ x.state = "active" => x.unflushed = e.unflushed
          /\ w = CheckedEmpty(q)
      BY <1>6, <2>2, <2>4 DEF EndRead, QueueAfterRead
    <3> HIDE DEF x, w
    <3>2. w \in Queues(InParts)
      BY <1>1, <3>1, ReadQueue
    <3>3. p \in anonymous'
      BY <2>1
    <3>4. Conn(p, Tail(c), CheckedEmpty(q), x, peer[p].phase, Listed(fq), ActivePipes(fq), anonymous')
      BY <1>1, <2>4, <3>1, <3>3, NotFoundConn
    <3>5. Conn(p, Tail(c), w, x, peer[p].phase, Listed(fq'), ActivePipes(fq'), anonymous')
      BY <2>1, <3>1, <3>4
    <3>6. x \in Ends /\ x.id = pipe[p].id
      BY <1>4, <3>1
    <3>7. Table'
      BY <1>3, <2>1, <3>6, TableKept
    <3>8. NothingHalfSent'
      <4>1. /\ x.state = "active" => pipe[p].state = "active" /\ x.unflushed = pipe[p].unflushed
            /\ currentOut = p => x.id = pipe[p].id
            /\ currentOut \in Listed(fq) => currentOut \in Listed(fq')
        BY <1>4, <2>1, <3>1
      <4> QED BY <1>2, <1>3, <2>1, <3>6, <4>1, HalfSentKept
    <3> QED BY <1>3, <2>1, <3>2, <3>5, <3>6, <3>7, <3>8, CommandKeeps
  <2> QED BY <2>3, <2>4
<1> QED BY <1>9, <1>10

\* A connection is attached.
LEMMA InvAttach ==
  ASSUME RouterInv, NEW p \in Pipes, xattach_pipe(p)
  PROVE  RouterInv'
<1>1. /\ cmds[p] \in Seq(CommandNames) /\ pipe[p] \in Ends
      /\ Conn(p, cmds[p], inbox[p], pipe[p], peer[p].phase,
              Listed(fq), ActivePipes(fq), anonymous)
  BY ConnTypes
<1>2. /\ Handles(p, "bind") /\ identify_peer(p, pipe[p]) /\ currentOut' = currentOut
  BY DEF xattach_pipe
<1>3. cmds[p] # << >> /\ Head(cmds[p]) = "bind"
  BY <1>2, HandlesFacts
<1>4. "bind" \in Pending(cmds[p])
  BY <1>1, <1>3, PendingHead
<1>5. pipe[p].inActive
  BY <1>1, <1>4 DEF Conn, Placed
<1>6. ToIdentify(p, cmds[p], inbox[p], pipe[p], pipe[p], anonymous)
  BY <1>1, <1>3, <1>5 DEF ToIdentify
<1> QED BY <1>2, <1>6, InvIdentifyPeer

\* A pipe is worth reading again.
LEMMA InvRead ==
  ASSUME RouterInv, NEW p \in Pipes, xread_activated(p)
  PROVE  RouterInv'
<1> DEFINE wakes == ~pipe[p].inActive /\ pipe[p].state \in Reading
           woken == [pipe[p] EXCEPT !.inActive = TRUE]
<1>1. pipe[p] \in Ends
  BY ConnTypes
<1>2. /\ Handles(p, "activate_read") /\ currentOut' = currentOut /\ aborted' = aborted
      /\ \/ wakes /\ p \in anonymous /\ identify_peer(p, woken)
         \/ /\ ~(wakes /\ p \in anonymous)
            /\ pipe' = [pipe EXCEPT ![p] = IF wakes THEN woken ELSE @]
            /\ fq' = IF wakes THEN Activated(fq, p) ELSE fq
            /\ UNCHANGED <<inbox, table>>
  BY DEF xread_activated, Reading
<1>3. cmds[p] # << >> /\ Head(cmds[p]) = "activate_read"
  BY <1>2, HandlesFacts
<1>4. CASE wakes /\ p \in anonymous /\ identify_peer(p, woken)
  <2>1. /\ woken \in Ends /\ woken.inActive /\ woken.state = pipe[p].state
        /\ woken.id = pipe[p].id /\ woken.unflushed = pipe[p].unflushed
        /\ woken.outActive = pipe[p].outActive
    BY <1>1 DEF Ends
  <2> HIDE DEF woken
  <2>2. ToIdentify(p, cmds[p], inbox[p], pipe[p], woken, anonymous)
    BY <1>3, <1>4, <2>1 DEF ToIdentify
  <2> QED BY <1>2, <1>4, <2>1, <2>2, InvIdentifyPeer
<1>5. CASE /\ ~(wakes /\ p \in anonymous)
           /\ pipe' = [pipe EXCEPT ![p] = IF wakes THEN woken ELSE @]
           /\ fq' = IF wakes THEN Activated(fq, p) ELSE fq
           /\ UNCHANGED <<inbox, table>>
  BY <1>2, <1>5, InvReadActivated
<1> QED BY <1>2, <1>4, <1>5

\* The routing table, perhaps with b for whether the pipe of the id i can be written.
Flagged(i, b) == {outPipes, [outPipes EXCEPT ![i].active = b]}

\* The routing table when an entry is found to be writable or full.
LEMMA TableFlagged ==
  ASSUME SocketTypes, Table, NEW p \in Pipes,
         NEW x \in Ends, pipe' = [pipe EXCEPT ![p] = x], x.id = pipe[p].id,
         NEW i, NEW b \in BOOLEAN,
         outPipes' \in Flagged(i, b),
         fq' = fq
  PROVE  Table'
<1> DEFINE o == [outPipes EXCEPT ![i].active = b]
<1>1. CASE outPipes' = outPipes
  BY <1>1, TableKept
<1>2. CASE outPipes' = o
  <2>1. pipe \in [Pipes -> Ends]
    BY DEF SocketTypes
  <2>2. \A r \in Pipes : pipe'[r].id = pipe[r].id
    BY <2>1
  <2>3. \A r \in Listed(fq) : r \in Pipes
    BY ListedArePipes
  <2>4. DOMAIN o = DOMAIN outPipes
    OBVIOUS
  <2>5. \A j \in DOMAIN outPipes : /\ o[j] \in [pipe : Pipes, active : BOOLEAN]
                                   /\ o[j].pipe = outPipes[j].pipe
    <3> SUFFICES ASSUME NEW j \in DOMAIN outPipes
                 PROVE  /\ o[j] \in [pipe : Pipes, active : BOOLEAN]
                        /\ o[j].pipe = outPipes[j].pipe
      OBVIOUS
    <3>1. outPipes[j] \in [pipe : Pipes, active : BOOLEAN]
      BY DEF Table
    <3>2. o[j] = IF j = i THEN [outPipes[j] EXCEPT !.active = b] ELSE outPipes[j]
      OBVIOUS
    <3> HIDE DEF o
    <3> QED BY <3>1, <3>2
  <2> HIDE DEF o
  <2> QED BY <1>2, <2>2, <2>3, <2>4, <2>5 DEF Table
<1> QED BY <1>1, <1>2 DEF Flagged

\* A pipe can be written again.
LEMMA InvWrite ==
  ASSUME RouterInv, NEW p \in Pipes, xwrite_activated(p)
  PROVE  RouterInv'
<1> DEFINE e == pipe[p]
           wakes == ~e.outActive /\ e.state = "active"
           known == Taken(e.id) /\ ~outPipes[e.id].active
           b == e.outActive \/ wakes
           x == [e EXCEPT !.full = FALSE, !.outActive = b]
<1>1. /\ inbox[p] \in Queues(InParts) /\ e \in Ends
      /\ Conn(p, cmds[p], inbox[p], e, peer[p].phase,
              Listed(fq), ActivePipes(fq), anonymous)
  BY ConnTypes
<1>2. /\ inbox \in [Pipes -> Queues(InParts)] /\ pipe \in [Pipes -> Ends]
      /\ WellFormed(Pipes, fq) /\ anonymous \subseteq Pipes /\ currentOut \in Pipes \cup {NoPipe}
      /\ SocketTypes /\ Table /\ NothingHalfSent
  BY DEF RouterInv, SocketTypes
<1>3. Handles(p, "activate_write")
  BY DEF xwrite_activated
<1>4. /\ pipe' = [pipe EXCEPT ![p] = x]
      /\ inbox' = [inbox EXCEPT ![p] = inbox[p]] /\ anonymous' = anonymous
      /\ fq' = fq /\ currentOut' = currentOut
      /\ outPipes' \in Flagged(e.id, TRUE)
  BY <1>2 DEF xwrite_activated, Flagged
<1>5. /\ cmds[p] # << >> /\ Head(cmds[p]) = "activate_write"
      /\ moreOut' = moreOut /\ sending' = sending
  BY <1>3, HandlesFacts
<1>6. b \in BOOLEAN
  BY <1>1 DEF Ends
<1> HIDE DEF b
<1>7. /\ x \in Ends /\ x.state = e.state /\ x.inActive = e.inActive /\ x.id = e.id
      /\ x.unflushed = e.unflushed
  BY <1>1, <1>6 DEF Ends
<1> HIDE DEF x
<1>8. Conn(p, Tail(cmds[p]), inbox[p], x, peer[p].phase, Listed(fq), ActivePipes(fq), anonymous)
  <2>1. Conn(p, Tail(cmds[p]), inbox[p], e, peer[p].phase, Listed(fq), ActivePipes(fq), anonymous)
    BY <1>1, <1>5, HeardConn
  <2> QED BY <1>7, <2>1, OutConn
<1>9. Table'
  BY <1>2, <1>4, <1>7, TableFlagged
<1>10. NothingHalfSent'
  BY <1>2, <1>4, <1>5, <1>7, HalfSentKept
<1> QED BY <1>1, <1>2, <1>3, <1>4, <1>7, <1>8, <1>9, <1>10, CommandKeeps

\* A session has closed its end.
LEMMA InvTerm ==
  ASSUME RouterInv, NEW p \in Pipes, process_pipe_term(p)
  PROVE  RouterInv'
<1> DEFINE e == pipe[p]
           x == IF e.state = "active" THEN [e EXCEPT !.state = "waiting_for_delimiter"]
                ELSE [e EXCEPT !.state = "term_ack_sent", !.unflushed = 0]
<1>1. /\ inbox[p] \in Queues(InParts) /\ e \in Ends
      /\ Conn(p, cmds[p], inbox[p], e, peer[p].phase,
              Listed(fq), ActivePipes(fq), anonymous)
  BY ConnTypes
<1>2. /\ inbox \in [Pipes -> Queues(InParts)] /\ pipe \in [Pipes -> Ends]
      /\ WellFormed(Pipes, fq) /\ anonymous \subseteq Pipes /\ currentOut \in Pipes \cup {NoPipe}
      /\ SocketTypes /\ Table /\ NothingHalfSent
  BY DEF RouterInv, SocketTypes
<1>3. Handles(p, "pipe_term")
  BY DEF process_pipe_term
<1>4. /\ pipe' = [pipe EXCEPT ![p] = x]
      /\ inbox' = [inbox EXCEPT ![p] = inbox[p]] /\ anonymous' = anonymous
      /\ fq' = fq /\ currentOut' = currentOut /\ outPipes' = outPipes
  BY <1>2 DEF process_pipe_term, table
<1>5. /\ cmds[p] # << >> /\ Head(cmds[p]) = "pipe_term"
      /\ moreOut' = moreOut /\ sending' = sending
  BY <1>3, HandlesFacts
<1>6. /\ x \in Ends /\ x.inActive = e.inActive /\ x.id = e.id
      /\ x.state = IF e.state = "active" THEN "waiting_for_delimiter" ELSE "term_ack_sent"
  BY <1>1 DEF Ends, EndStates
<1> HIDE DEF x
<1>7. Conn(p, Tail(cmds[p]), inbox[p], x, peer[p].phase, Listed(fq), ActivePipes(fq), anonymous)
  BY <1>1, <1>5, <1>6, TermConn
<1>8. Table'
  BY <1>2, <1>4, <1>6, TableKept
<1>9. NothingHalfSent'
  <2>1. x.state # "active"
    BY <1>6
  <2> QED BY <1>2, <1>4, <1>5, <1>6, <2>1, HalfSentKept
<1> QED BY <1>1, <1>2, <1>3, <1>4, <1>6, <1>7, <1>8, <1>9, CommandKeeps

\* The routing table without a pipe that was there, or without an id nobody has.
LEMMA TableWithout ==
  ASSUME SocketTypes, Table, NEW p \in Pipes,
         NEW x \in Ends, pipe' = [pipe EXCEPT ![p] = x],
         outPipes' = [i \in DOMAIN outPipes \ {pipe[p].id} |-> outPipes[i]],
         Listed(fq') = Listed(fq) \ {p},
         p \notin Listed(fq) => pipe[p].id = NoPipe
  PROVE  Table'
<1> DEFINE o == outPipes'
           id == pipe[p].id
<1>1. pipe \in [Pipes -> Ends]
  BY DEF SocketTypes
<1>2. \A r \in Pipes : r # p => pipe'[r] = pipe[r]
  BY <1>1
<1>3. \A r \in Listed(fq) : r \in Pipes
  BY ListedArePipes
<1>4. DOMAIN o = DOMAIN outPipes \ {id} /\ \A j \in DOMAIN o : o[j] = outPipes[j]
  OBVIOUS
<1> HIDE DEF o
<1>5. \A j \in DOMAIN outPipes : j # NoPipe
  <2> SUFFICES ASSUME NEW j \in DOMAIN outPipes PROVE j # NoPipe
    OBVIOUS
  <2>1. outPipes[j].pipe \in Pipes /\ j = IdOf(outPipes[j].pipe)
    BY <1>3 DEF Table
  <2>2. IdOf(outPipes[j].pipe) \in Ids
    BY <2>1 DEF IdOf, Ids
  <2> QED BY <2>1, <2>2, RouterAssumption
<1>6. ASSUME NEW j \in DOMAIN o
      PROVE  /\ o[j] \in [pipe : Pipes, active : BOOLEAN]
             /\ o[j].pipe \in Listed(fq') /\ pipe'[o[j].pipe].id = j
             /\ j = IdOf(o[j].pipe)
  <2>1. j \in DOMAIN outPipes /\ j # id /\ o[j] = outPipes[j]
    BY <1>4
  <2>2. /\ outPipes[j] \in [pipe : Pipes, active : BOOLEAN]
        /\ outPipes[j].pipe \in Listed(fq) /\ pipe[outPipes[j].pipe].id = j
        /\ j = IdOf(outPipes[j].pipe)
    BY <2>1 DEF Table
  <2>3. outPipes[j].pipe # p
    BY <2>1, <2>2
  <2> QED BY <1>2, <1>3, <2>1, <2>2, <2>3
<1>7. ASSUME NEW r \in Listed(fq')
      PROVE  pipe'[r].id \in DOMAIN o /\ o[pipe'[r].id].pipe = r
  <2>1. r \in Listed(fq) /\ r # p /\ r \in Pipes
    BY <1>3
  <2>2. pipe[r].id \in DOMAIN outPipes /\ outPipes[pipe[r].id].pipe = r /\ pipe'[r] = pipe[r]
    BY <1>2, <2>1 DEF Table
  <2>3. pipe[r].id # id
    <3>1. CASE p \in Listed(fq)
      BY <2>1, <2>2, <3>1 DEF Table
    <3>2. CASE p \notin Listed(fq)
      BY <1>5, <2>2, <3>2
    <3> QED BY <3>1, <3>2
  <2> QED BY <1>4, <2>2, <2>3
<1> QED BY <1>6, <1>7 DEF Table, o

\* The pipe of a peer that has closed is given back.
LEMMA InvTerminated ==
  ASSUME RouterInv, NEW p \in Pipes, xpipe_terminated(p)
  PROVE  RouterInv'
<1> DEFINE e == pipe[p]
           x == [e EXCEPT !.state = "deallocated"]
<1>1. /\ inbox[p] \in Queues(InParts) /\ e \in Ends
      /\ Conn(p, cmds[p], inbox[p], e, peer[p].phase,
              Listed(fq), ActivePipes(fq), anonymous)
  BY ConnTypes
<1>2. /\ inbox \in [Pipes -> Queues(InParts)] /\ pipe \in [Pipes -> Ends]
      /\ WellFormed(Pipes, fq) /\ anonymous \subseteq Pipes /\ currentOut \in Pipes \cup {NoPipe}
      /\ SocketTypes /\ Table /\ NothingHalfSent
  BY DEF RouterInv, SocketTypes
<1>3. Handles(p, "pipe_term_ack")
  BY DEF xpipe_terminated
<1>4. /\ pipe' = [pipe EXCEPT ![p] = x]
      /\ inbox' = [inbox EXCEPT ![p] = inbox[p]] /\ anonymous' = anonymous \ {p}
      /\ fq' = IF p \in anonymous THEN fq ELSE Terminated(fq, p)
      /\ currentOut' = IF currentOut = p THEN NoPipe ELSE currentOut
      /\ outPipes' = [i \in DOMAIN outPipes \ {e.id} |-> outPipes[i]]
  BY <1>2 DEF xpipe_terminated, OutAfterTerm
<1>5. /\ cmds[p] # << >> /\ Head(cmds[p]) = "pipe_term_ack"
      /\ moreOut' = moreOut /\ sending' = sending
  BY <1>3, HandlesFacts
<1>6. x \in Ends /\ x.inActive = e.inActive /\ x.state = "deallocated"
  BY <1>1 DEF Ends, EndStates
<1> HIDE DEF x
<1>7. /\ p \in anonymous => p \notin Listed(fq) /\ e.id = NoPipe
      /\ p \notin anonymous => p \in Listed(fq)
  BY <1>1, <1>5, TerminatedPlace
<1>8. p \notin Listed(fq) => p \notin ActivePipes(fq)
  BY <1>1 DEF Conn, Placed
<1>9. /\ WellFormed(Pipes, fq') /\ Listed(fq') = Listed(fq) \ {p}
      /\ ActivePipes(fq') = ActivePipes(fq) \ {p}
  <2>1. CASE p \in anonymous
    <3>1. Listed(fq) = Listed(fq) \ {p} /\ ActivePipes(fq) = ActivePipes(fq) \ {p}
      BY <1>7, <1>8, <2>1
    <3> QED BY <1>2, <1>4, <2>1, <3>1
  <2>2. CASE p \notin anonymous
    BY <1>2, <1>4, <1>7, <2>2, TerminatedList
  <2> QED BY <2>1, <2>2
<1>10. Conn(p, Tail(cmds[p]), inbox[p], x, peer[p].phase, Listed(fq'), ActivePipes(fq'), anonymous')
  <2>1. p \notin Listed(fq') /\ p \notin ActivePipes(fq') /\ p \notin anonymous'
    BY <1>4, <1>9
  <2> QED BY <1>1, <1>5, <1>6, <2>1, TerminatedConn
<1>11. Table'
  <2>1. p \notin Listed(fq) => pipe[p].id = NoPipe
    BY <1>7
  <2> QED BY <1>2, <1>4, <1>6, <1>9, <2>1, TableWithout
<1>12. NothingHalfSent'
  <2>1. pipe'[p] = x /\ \A r \in Pipes : r # p => pipe'[r] = pipe[r]
    BY <1>2, <1>4
  <2>2. p # NoPipe
    BY RouterAssumption DEF Ids
  <2>3. \A r \in Pipes : pipe'[r].state = "active" =>
          pipe'[r].unflushed = IF r = currentOut' THEN sending.parts ELSE 0
    <3> SUFFICES ASSUME NEW r \in Pipes, pipe'[r].state = "active"
                 PROVE  pipe'[r].unflushed = IF r = currentOut' THEN sending.parts ELSE 0
      OBVIOUS
    <3>1. r # p
      BY <1>6, <2>1
    <3>2. pipe'[r] = pipe[r] /\ (r = currentOut' <=> r = currentOut)
      BY <1>4, <2>1, <3>1, RouterAssumption DEF Ids
    <3> QED BY <1>2, <3>2 DEF NothingHalfSent
  <2>4. currentOut' # NoPipe => /\ moreOut /\ currentOut' \in Listed(fq')
                                /\ pipe'[currentOut'].id = sending.to
    BY <1>2, <1>4, <1>9, <2>1 DEF NothingHalfSent
  <2> QED BY <1>5, <2>3, <2>4 DEF NothingHalfSent
<1>13. currentOut' \in Pipes \cup {NoPipe} /\ anonymous' \subseteq Pipes
  BY <1>2, <1>4
<1>14. \A r \in Pipes : r # p =>
           /\ r \in Listed(fq') <=> r \in Listed(fq)
           /\ r \in ActivePipes(fq') <=> r \in ActivePipes(fq)
           /\ r \in anonymous' <=> r \in anonymous
  BY <1>4, <1>9
<1> QED BY <1>1, <1>3, <1>4, <1>6, <1>9, <1>10, <1>11, <1>12, <1>13, <1>14, CommandKeeps
-----------------------------------------------------------------------------
(* Receiving.                                                              *)

\* A call of the application that touches no pipe.
LEMMA CallKeeps ==
  ASSUME RouterInv, UNCHANGED <<peers, inbox, pipe, table, fq, output>>,
         call' \in {"none", "xrecv", "xhas_in"}, due' \in [Pipes -> 0 .. Numbers - 1]
  PROVE  RouterInv'
<1>1. /\ peer' = peer /\ cmds' = cmds /\ inbox' = inbox /\ pipe' = pipe
      /\ anonymous' = anonymous /\ outPipes' = outPipes /\ fq' = fq
      /\ currentOut' = currentOut /\ moreOut' = moreOut /\ sending' = sending
  BY DEF peers, table, output
<1>2. SocketTypes'
  BY <1>1 DEF RouterInv, SocketTypes
<1>3. Table'
  BY <1>1 DEF RouterInv, Table
<1>4. NothingHalfSent'
  BY <1>1 DEF RouterInv, NothingHalfSent
<1>5. (\A p \in Pipes : ConnAt(p))'
  BY <1>1 DEF RouterInv, ConnAt
<1> QED BY <1>2, <1>3, <1>4, <1>5 DEF RouterInv

\* The number of the next message of a peer.
LEMMA DueType ==
  ASSUME RouterInv, NEW frame, NEW more, Receives(frame, more)
  PROVE  due' \in [Pipes -> 0 .. Numbers - 1]
<1>1. due \in [Pipes -> 0 .. Numbers - 1]
  BY DEF RouterInv, SocketTypes
<1>2. CASE due' = due
  BY <1>1, <1>2
<1>3. CASE due' = [due EXCEPT ![frame.from] = (@ + 1) % Numbers]
  <2>1. Numbers \in Nat /\ Numbers > 0
    BY RouterAssumption
  <2>2. \A k \in 0 .. Numbers - 1 : (k + 1) % Numbers \in 0 .. Numbers - 1
    BY <2>1
  <2> QED BY <1>1, <1>3, <2>2
<1> QED BY <1>2, <1>3 DEF Receives

\* xrecv of what was prefetched, and the begin and the end of a call.
LEMMA InvCall ==
  ASSUME RouterInv, RecvPrefetched \/ Ask("xrecv") \/ Ask("xhas_in") \/ RecvNothing
  PROVE  RouterInv'
<1>1. due \in [Pipes -> 0 .. Numbers - 1] /\ call \in {"none", "xrecv", "xhas_in"}
  BY DEF RouterInv, SocketTypes
<1>2. CASE RecvPrefetched
  <2>1. due' \in [Pipes -> 0 .. Numbers - 1]
    <3>1. \/ Receives(prefetched.id, TRUE) \/ Receives(prefetched.msg, prefetched.msg.more)
      BY <1>2 DEF RecvPrefetched
    <3> QED BY <3>1, DueType
  <2>2. UNCHANGED <<peers, inbox, pipe, table, fq, call, output>>
    BY <1>2 DEF RecvPrefetched
  <2> QED BY <1>1, <2>1, <2>2, CallKeeps
<1>3. CASE Ask("xrecv") \/ Ask("xhas_in")
  <2>1. /\ UNCHANGED <<peers, inbox, pipe, table, fq, due, output>>
        /\ call' \in {"none", "xrecv", "xhas_in"}
    BY <1>3 DEF Ask
  <2> QED BY <1>1, <2>1, CallKeeps
<1>4. CASE RecvNothing
  <2>1. /\ UNCHANGED <<peers, inbox, pipe, table, fq, due, output>>
        /\ call' \in {"none", "xrecv", "xhas_in"}
    BY <1>4 DEF RecvNothing
  <2> QED BY <1>1, <2>1, CallKeeps
<1> QED BY <1>2, <1>3, <1>4

\* The invariant after a step that touches the pipe p and sends no command.
LEMMA PipeKeeps ==
  ASSUME RouterInv, NEW p \in Pipes, peer' = peer, cmds' = cmds, anonymous' = anonymous,
         NEW x \in Ends, pipe' = [pipe EXCEPT ![p] = x],
         NEW w \in Queues(InParts), inbox' = [inbox EXCEPT ![p] = w],
         WellFormed(Pipes, fq'),
         \A r \in Pipes : r # p =>
           /\ r \in Listed(fq') <=> r \in Listed(fq)
           /\ r \in ActivePipes(fq') <=> r \in ActivePipes(fq),
         Conn(p, cmds[p], w, x, peer[p].phase, Listed(fq'), ActivePipes(fq'), anonymous),
         call' \in {"none", "xrecv", "xhas_in"}, due' \in [Pipes -> 0 .. Numbers - 1],
         currentOut' \in Pipes \cup {NoPipe}, moreOut' \in BOOLEAN,
         sending' \in [to : Ids \cup {NoPipe}, parts : 0 .. SendParts],
         Table', NothingHalfSent'
  PROVE  RouterInv'
<1>1. /\ inbox \in [Pipes -> Queues(InParts)] /\ pipe \in [Pipes -> Ends]
  BY DEF RouterInv, SocketTypes
<1>2. /\ inbox' \in [Pipes -> Queues(InParts)] /\ pipe' \in [Pipes -> Ends]
      /\ inbox'[p] = w /\ pipe'[p] = x
      /\ \A r \in Pipes : r # p => inbox'[r] = inbox[r] /\ pipe'[r] = pipe[r]
  BY <1>1
<1>3. SocketTypes'
  BY <1>2 DEF RouterInv, SocketTypes
<1>4. About(p)
  BY <1>2 DEF About
<1>5. Conn(p, cmds'[p], inbox'[p], pipe'[p], peer'[p].phase,
           Listed(fq'), ActivePipes(fq'), anonymous')
  BY <1>2
<1>6. (\A r \in Pipes : ConnAt(r))'
  BY <1>4, <1>5, OneConn DEF RouterInv
<1> QED BY <1>3, <1>6 DEF RouterInv

\* The turn is that of an active pipe.
LEMMA CurrentIsActive ==
  ASSUME NEW S, NEW l, WellFormed(S, l), l.active > 0
  PROVE  Current(l) \in S /\ Current(l) \in ActivePipes(l) /\ Current(l) \in Listed(l)
<1>1. /\ l.pipes \in Seq(S) /\ Len(l.pipes) \in Nat /\ l.active \in Nat
      /\ l.current \in Nat /\ l.active <= Len(l.pipes)
      /\ l.current < l.active \/ l.current = 0
  BY Fields DEF WellFormed
<1>2. l.current + 1 \in 1 .. l.active /\ l.current + 1 \in 1 .. Len(l.pipes)
  BY <1>1
<1> QED BY <1>1, <1>2 DEF Current, ActivePipes, Listed

\* The list after a part: the same pipes in the same places.
LEMMA AfterPart ==
  ASSUME WellFormed(Pipes, fq), fq.active > 0, NEW part
  PROVE  /\ WellFormed(Pipes, FqAfterPart(part))
         /\ Listed(FqAfterPart(part)) = Listed(fq)
         /\ ActivePipes(FqAfterPart(part)) = ActivePipes(fq)
<1> DEFINE l == FqAfterPart(part)
<1>1. CASE l = [fq EXCEPT !.more = TRUE]
  <2>1. fq \in PipeLists(Pipes)
    BY DEF WellFormed
  <2> HIDE DEF l
  <2>2. /\ l \in PipeLists(Pipes) /\ l.pipes = fq.pipes /\ l.active = fq.active
        /\ l.current = fq.current
    BY <1>1, <2>1 DEF PipeLists
  <2> QED BY <2>2 DEF WellFormed, Listed, ActivePipes, l
<1>2. CASE l = NextTurn(fq)
  <2>1. /\ WellFormed(Pipes, l) /\ l.pipes = fq.pipes /\ l.active = fq.active
    BY <1>2, NextTurnList
  <2> HIDE DEF l
  <2> QED BY <2>1 DEF Listed, ActivePipes, l
<1> QED BY <1>1, <1>2 DEF FqAfterPart

\* A round of recvpipe.
LEMMA InvRecvpipe ==
  ASSUME RouterInv, recvpipe
  PROVE  RouterInv'
<1> DEFINE p == Current(fq)
           q == inbox[p]
           e == pipe[p]
           x == EndAfterRead(e, q)
           w == QueueAfterRead(e, q)
<1>1. /\ inbox \in [Pipes -> Queues(InParts)] /\ pipe \in [Pipes -> Ends]
      /\ WellFormed(Pipes, fq) /\ SocketTypes /\ Table /\ NothingHalfSent
      /\ currentOut \in Pipes \cup {NoPipe} /\ moreOut \in BOOLEAN
      /\ sending \in [to : Ids \cup {NoPipe}, parts : 0 .. SendParts]
      /\ due \in [Pipes -> 0 .. Numbers - 1] /\ call \in {"none", "xrecv", "xhas_in"}
  BY DEF RouterInv, SocketTypes
<1>2. fq.active > 0
  BY DEF recvpipe
<1>3. p \in Pipes /\ p \in ActivePipes(fq) /\ p \in Listed(fq)
  BY <1>1, <1>2, CurrentIsActive
<1>4. /\ inbox' = [inbox EXCEPT ![p] = w] /\ pipe' = [pipe EXCEPT ![p] = x]
  BY DEF recvpipe
<1>5. /\ peer' = peer /\ cmds' = cmds /\ anonymous' = anonymous /\ outPipes' = outPipes
      /\ currentOut' = currentOut /\ moreOut' = moreOut /\ sending' = sending
  BY DEF recvpipe, peers, table, output
<1>6. /\ q \in Queues(InParts) /\ e \in Ends
      /\ Conn(p, cmds[p], q, e, peer[p].phase, Listed(fq), ActivePipes(fq), anonymous)
  BY <1>3, ConnTypes
<1>7. EndRead(e, q, x)
  BY <1>6, ReadEnd
<1>8. \/ /\ Fetches(e, q) /\ fq' = FqAfterPart(Head(q.flushed))
         /\ xrecvTakes(p, Head(q.flushed)) \/ xhas_inTakes(p, Head(q.flushed))
      \/ /\ ~Fetches(e, q) /\ fq' = Deactivated(fq) /\ UNCHANGED input
  BY DEF recvpipe
<1> DEFINE part == Head(q.flushed)
<1>9. /\ call' \in {"none", "xrecv", "xhas_in"} /\ due' \in [Pipes -> 0 .. Numbers - 1]
  <2>1. CASE xrecvTakes(p, part)
    <3>1. call' = "none" /\ (Receives(part, part.more) \/ Receives(pipe[p].id, TRUE))
      BY <2>1 DEF xrecvTakes
    <3> HIDE DEF part, p
    <3> QED BY <3>1, DueType
  <2>2. CASE xhas_inTakes(p, part)
    BY <1>1, <2>2 DEF xhas_inTakes
  <2>3. CASE UNCHANGED input
    BY <1>1, <2>3 DEF input
  <2> QED BY <1>8, <2>1, <2>2, <2>3
<1>10. /\ WellFormed(Pipes, fq') /\ Listed(fq') = Listed(fq)
       /\ ActivePipes(fq') = IF Fetches(e, q) THEN ActivePipes(fq) ELSE ActivePipes(fq) \ {p}
  <2>1. CASE Fetches(e, q)
    <3>1. fq' = FqAfterPart(part)
      BY <1>8, <2>1
    <3> HIDE DEF part
    <3> QED BY <1>1, <1>2, <2>1, <3>1, AfterPart
  <2>2. CASE ~Fetches(e, q)
    <3>1. fq' = Deactivated(fq)
      BY <1>8, <2>2
    <3> QED BY <1>1, <1>2, <2>2, <3>1, DeactivatedList
  <2> QED BY <2>1, <2>2
<1> HIDE DEF p
<1>11. Conn(p, cmds[p], w, x, peer[p].phase, Listed(fq'), ActivePipes(fq'), anonymous)
  <2>1. p \in ActivePipes(fq') <=> Fetches(e, q)
    BY <1>3, <1>10
  <2>2. Conn(p, cmds[p], w, x, peer[p].phase, Listed(fq), ActivePipes(fq'), anonymous)
    BY <1>3, <1>6, <2>1, ReadConn
  <2> QED BY <1>10, <2>2
<1>12. x \in Ends /\ x.id = pipe[p].id /\ w \in Queues(InParts)
       /\ (x.state = "active" => pipe[p].state = "active" /\ x.unflushed = pipe[p].unflushed)
  BY <1>7, <1>11 DEF EndRead, Conn
<1> HIDE DEF x, w
<1>13. Table'
  BY <1>1, <1>3, <1>4, <1>5, <1>10, <1>12, TableKept
<1>14. NothingHalfSent'
  <2>1. /\ currentOut = p => x.id = pipe[p].id
        /\ currentOut \in Listed(fq) => currentOut \in Listed(fq')
    BY <1>10, <1>12
  <2> QED BY <1>1, <1>3, <1>4, <1>5, <1>12, <2>1, HalfSentKept
<1>15. \A r \in Pipes : r # p =>
           /\ r \in Listed(fq') <=> r \in Listed(fq)
           /\ r \in ActivePipes(fq') <=> r \in ActivePipes(fq)
  BY <1>10
<1> QED BY <1>1, <1>3, <1>4, <1>5, <1>9, <1>10, <1>11, <1>12, <1>13, <1>14, <1>15, PipeKeeps
-----------------------------------------------------------------------------
(* Sending.                                                                *)

\* The invariant after a part that goes to no pipe.
LEMMA SendKeeps ==
  ASSUME RouterInv, UNCHANGED <<peers, inbox, pipe, table, fq, call, due>>,
         currentOut' \in Pipes \cup {NoPipe}, moreOut' \in BOOLEAN,
         sending' \in [to : Ids \cup {NoPipe}, parts : 0 .. SendParts],
         NothingHalfSent'
  PROVE  RouterInv'
<1>1. /\ peer' = peer /\ cmds' = cmds /\ inbox' = inbox /\ pipe' = pipe
      /\ anonymous' = anonymous /\ outPipes' = outPipes /\ fq' = fq
      /\ call' = call /\ due' = due
  BY DEF peers, table
<1>2. SocketTypes'
  BY <1>1 DEF RouterInv, SocketTypes
<1>3. Table'
  BY <1>1 DEF RouterInv, Table
<1>4. (\A p \in Pipes : ConnAt(p))'
  BY <1>1 DEF RouterInv, ConnAt
<1> QED BY <1>2, <1>3, <1>4 DEF RouterInv

\* The invariant after a part that is about the pipe p, whose end is then x.
LEMMA SendPipeKeeps ==
  ASSUME RouterInv, NEW p \in Pipes,
         UNCHANGED <<peers, inbox, anonymous, fq, call, due>>,
         NEW x \in Ends, pipe' = [pipe EXCEPT ![p] = x],
         x.state = pipe[p].state, x.inActive = pipe[p].inActive, x.id = pipe[p].id,
         NEW i, outPipes' \in Flagged(i, FALSE),
         currentOut' \in Pipes \cup {NoPipe}, moreOut' \in BOOLEAN,
         sending' \in [to : Ids \cup {NoPipe}, parts : 0 .. SendParts],
         NothingHalfSent'
  PROVE  RouterInv'
<1>1. /\ peer' = peer /\ cmds' = cmds /\ anonymous' = anonymous /\ fq' = fq
      /\ call' = call /\ due' = due /\ inbox' = inbox
  BY DEF peers
<1>2. /\ inbox \in [Pipes -> Queues(InParts)] /\ WellFormed(Pipes, fq)
      /\ SocketTypes /\ Table
      /\ due \in [Pipes -> 0 .. Numbers - 1] /\ call \in {"none", "xrecv", "xhas_in"}
  BY DEF RouterInv, SocketTypes
<1>3. /\ inbox[p] \in Queues(InParts)
      /\ Conn(p, cmds[p], inbox[p], pipe[p], peer[p].phase,
              Listed(fq), ActivePipes(fq), anonymous)
  BY ConnTypes
<1>4. Conn(p, cmds[p], inbox[p], x, peer[p].phase, Listed(fq), ActivePipes(fq), anonymous)
  BY <1>3, OutConn
<1>5. Table'
  BY <1>1, <1>2, TableFlagged
<1>6. inbox' = [inbox EXCEPT ![p] = inbox[p]]
  BY <1>1, <1>2
<1>7. /\ WellFormed(Pipes, fq') /\ call' \in {"none", "xrecv", "xhas_in"}
      /\ due' \in [Pipes -> 0 .. Numbers - 1]
      /\ Conn(p, cmds[p], inbox[p], x, peer[p].phase, Listed(fq'), ActivePipes(fq'), anonymous)
      /\ \A r \in Pipes : r # p =>
           /\ r \in Listed(fq') <=> r \in Listed(fq)
           /\ r \in ActivePipes(fq') <=> r \in ActivePipes(fq)
  BY <1>1, <1>2, <1>4
<1> QED BY <1>1, <1>3, <1>5, <1>6, <1>7, PipeKeeps

\* The first part of a message: the id of the peer it is for.
LEMMA InvSendId ==
  ASSUME RouterInv, NEW id \in SendTo, SendId(id)
  PROVE  RouterInv'
<1>1. /\ pipe \in [Pipes -> Ends] /\ Table /\ NothingHalfSent /\ SocketTypes
      /\ currentOut \in Pipes \cup {NoPipe}
  BY DEF RouterInv, SocketTypes
<1>2. /\ ~moreOut /\ moreOut' = TRUE /\ sending' = [to |-> id, parts |-> 0]
      /\ UNCHANGED <<peers, inbox, anonymous, fq, call, due>>
  BY DEF SendId, BetweenMessages
<1>3. currentOut = NoPipe
  BY <1>1, <1>2 DEF NothingHalfSent
<1>4. \A r \in Pipes : pipe[r].state = "active" => pipe[r].unflushed = 0 /\ r # NoPipe
  BY <1>1, <1>3, RouterAssumption DEF NothingHalfSent, Ids
<1>5. /\ sending'.to = id /\ sending'.parts = 0
      /\ sending' \in [to : Ids \cup {NoPipe}, parts : 0 .. SendParts]
  BY <1>2, RouterAssumption
<1>6. CASE ~Taken(id)
  <2>1. currentOut' = currentOut /\ outPipes' = outPipes /\ pipe' = pipe
    BY <1>6 DEF SendId
  <2>2. NothingHalfSent'
    BY <1>3, <1>4, <2>1 DEF NothingHalfSent
  <2>3. UNCHANGED <<peers, inbox, pipe, table, fq, call, due>>
    BY <1>2, <2>1 DEF table
  <2> QED BY <1>1, <1>2, <1>5, <2>1, <2>2, <2>3, SendKeeps
<1>7. CASE Taken(id)
  <2> DEFINE p == outPipes[id].pipe
  <2>1. p \in Listed(fq) /\ pipe[p].id = id /\ p \in Pipes
    BY <1>1, <1>7 DEF Table, Taken
  <2>2. CASE CanWrite(pipe[p])
    <3>1. currentOut' = p /\ outPipes' = outPipes /\ pipe' = pipe
      BY <1>7, <2>2 DEF SendId
    <3> HIDE DEF p
    <3>2. NothingHalfSent'
      BY <1>2, <1>4, <1>5, <2>1, <3>1 DEF NothingHalfSent
    <3>3. UNCHANGED <<peers, inbox, pipe, table, fq, call, due>>
      BY <1>2, <3>1 DEF table
    <3>4. currentOut' \in Pipes \cup {NoPipe}
      BY <2>1, <3>1
    <3> QED BY <1>2, <1>5, <3>2, <3>3, <3>4, SendKeeps
  <2>3. CASE ~CanWrite(pipe[p])
    <3> DEFINE b == pipe[p].outActive /\ ~(pipe[p].full /\ pipe[p].state = "active")
               x == [pipe[p] EXCEPT !.outActive = b]
    <3>1. /\ currentOut' = NoPipe /\ outPipes' = [outPipes EXCEPT ![id].active = FALSE]
          /\ pipe' = [pipe EXCEPT ![p] = x]
      BY <1>1, <1>7, <2>1, <2>3 DEF SendId
    <3>2. pipe[p] \in Ends /\ b \in BOOLEAN
      BY <1>1, <2>1
    <3> HIDE DEF b, p
    <3>3. /\ x \in Ends /\ x.state = pipe[p].state /\ x.inActive = pipe[p].inActive
          /\ x.id = pipe[p].id /\ x.unflushed = pipe[p].unflushed
      BY <3>2 DEF Ends
    <3> HIDE DEF x
    <3>4. pipe'[p] = x /\ \A r \in Pipes : r # p => pipe'[r] = pipe[r]
      BY <1>1, <2>1, <3>1
    <3>5. NothingHalfSent'
      BY <1>4, <3>1, <3>3, <3>4 DEF NothingHalfSent
    <3>6. outPipes' \in Flagged(id, FALSE)
      BY <3>1 DEF Flagged
    <3>7. currentOut' \in Pipes \cup {NoPipe} /\ moreOut' \in BOOLEAN
      BY <1>2, <3>1
    <3>8. pipe' = [pipe EXCEPT ![p] = x] /\ UNCHANGED <<peers, inbox, anonymous, fq, call, due>>
      BY <1>2, <3>1
    <3> QED BY <1>5, <2>1, <3>3, <3>5, <3>6, <3>7, <3>8, SendPipeKeeps
  <2> QED BY <2>2, <2>3
<1> QED BY <1>6, <1>7

\* A later part of a message.
LEMMA InvSendPart ==
  ASSUME RouterInv, SendPart
  PROVE  RouterInv'
<1> DEFINE more == sending.parts + 1 < SendParts
           p == currentOut
<1>1. /\ pipe \in [Pipes -> Ends] /\ Table /\ NothingHalfSent /\ SocketTypes
      /\ currentOut \in Pipes \cup {NoPipe}
      /\ sending \in [to : Ids \cup {NoPipe}, parts : 0 .. SendParts]
  BY DEF RouterInv, SocketTypes
<1>2. /\ moreOut /\ moreOut' = more
      /\ sending' = IF more THEN [sending EXCEPT !.parts = @ + 1] ELSE NotSending
      /\ UNCHANGED <<peers, inbox, table, anonymous, fq, call, due>>
      /\ outPipes' = outPipes
  BY DEF SendPart, input, table
<1>3. sending.parts \in Nat /\ SendParts \in Nat /\ sending.parts + 1 \in Nat
  BY <1>1, RouterAssumption
<1>4. /\ more => sending'.to = sending.to /\ sending'.parts = sending.parts + 1
      /\ ~more => sending'.parts = 0
      /\ sending' \in [to : Ids \cup {NoPipe}, parts : 0 .. SendParts]
  <2>1. CASE more
    <3> DEFINE k == sending.parts + 1
    <3>1. sending' = [sending EXCEPT !.parts = k] /\ k \in 0 .. SendParts
      BY <1>2, <1>3, <2>1
    <3> HIDE DEF k
    <3>2. /\ sending'.to = sending.to /\ sending'.parts = k
          /\ sending' \in [to : Ids \cup {NoPipe}, parts : 0 .. SendParts]
      BY <1>1, <3>1
    <3> QED BY <2>1, <3>2 DEF k
  <2>2. CASE ~more
    BY <1>2, <1>3, <2>2 DEF NotSending
  <2> QED BY <2>1, <2>2
<1>5. moreOut' \in BOOLEAN
  BY <1>2
<1>6. CASE p = NoPipe /\ currentOut' = currentOut /\ pipe' = pipe
  <2>1. NothingHalfSent'
    BY <1>1, <1>6, RouterAssumption DEF NothingHalfSent, Ids
  <2> QED BY <1>1, <1>2, <1>4, <1>5, <1>6, <2>1, SendKeeps
<1>7. CASE /\ p # NoPipe /\ ~CanWrite(pipe[p])
           /\ pipe' = [pipe EXCEPT ![p] = RolledBack(@)] /\ currentOut' = NoPipe
  <2> DEFINE x == [pipe[p] EXCEPT !.unflushed = 0]
  <2>1. p \in Pipes /\ pipe[p] \in Ends /\ pipe' = [pipe EXCEPT ![p] = x]
    BY <1>1, <1>7 DEF RolledBack
  <2>2. /\ x \in Ends /\ x.state = pipe[p].state /\ x.inActive = pipe[p].inActive
        /\ x.id = pipe[p].id /\ x.unflushed = 0
    BY <2>1 DEF Ends
  <2> HIDE DEF x
  <2>3. pipe'[p] = x /\ \A r \in Pipes : r # p => pipe'[r] = pipe[r]
    BY <1>1, <2>1
  <2>4. NothingHalfSent'
    <3>1. \A r \in Pipes : pipe'[r].state = "active" => pipe'[r].unflushed = 0 /\ r # NoPipe
      BY <1>1, <2>2, <2>3, RouterAssumption DEF NothingHalfSent, Ids
    <3> QED BY <1>7, <3>1 DEF NothingHalfSent
  <2>5. outPipes' \in Flagged(NoPipe, FALSE)
    BY <1>2 DEF Flagged
  <2>6. currentOut' \in Pipes \cup {NoPipe}
    BY <1>7
  <2> HIDE DEF p
  <2> QED BY <1>2, <1>4, <1>5, <2>1, <2>2, <2>4, <2>5, <2>6, SendPipeKeeps
<1>8. CASE /\ p # NoPipe /\ CanWrite(pipe[p])
           /\ pipe' = [pipe EXCEPT ![p].unflushed = IF more THEN @ + 1 ELSE 0,
                                   ![p].full = ~more]
           /\ currentOut' = IF more THEN p ELSE NoPipe
  <2> DEFINE u == IF more THEN pipe[p].unflushed + 1 ELSE 0
             f == ~more
             x == [pipe[p] EXCEPT !.unflushed = u, !.full = f]
  <2>1. p \in Pipes /\ pipe[p] \in Ends /\ pipe' = [pipe EXCEPT ![p] = x]
    BY <1>1, <1>8
  <2>2. u \in Nat /\ f \in BOOLEAN
    BY <2>1 DEF Ends
  <2>3. pipe[p].state = "active" /\ pipe[p].unflushed = sending.parts
    BY <1>1, <1>8, <2>1 DEF CanWrite, NothingHalfSent
  <2>4. u = IF more THEN sending.parts + 1 ELSE 0
    BY <2>3
  <2> HIDE DEF u, f
  <2>5. /\ x \in Ends /\ x.state = pipe[p].state /\ x.inActive = pipe[p].inActive
        /\ x.id = pipe[p].id /\ x.unflushed = u
    BY <2>1, <2>2 DEF Ends
  <2> HIDE DEF x
  <2>6. pipe'[p] = x /\ \A r \in Pipes : r # p => pipe'[r] = pipe[r]
    BY <1>1, <2>1
  <2>7. NothingHalfSent'
    <3>1. \A r \in Pipes : r # p /\ pipe'[r].state = "active" => pipe'[r].unflushed = 0 /\ r # NoPipe
      BY <1>1, <2>6, RouterAssumption DEF NothingHalfSent, Ids
    <3>2. p \in Listed(fq) /\ pipe[p].id = sending.to
      BY <1>1, <1>8 DEF NothingHalfSent
    <3>3. p # NoPipe /\ fq' = fq
      BY <1>2, <1>8
    <3>4. CASE more
      <4>1. /\ currentOut' = p /\ moreOut' /\ sending'.to = sending.to
            /\ sending'.parts = sending.parts + 1 /\ x.unflushed = sending.parts + 1
        BY <1>2, <1>4, <1>8, <2>4, <2>5, <3>4
      <4> HIDE DEF more, p
      <4> QED BY <2>5, <2>6, <3>1, <3>2, <3>3, <4>1 DEF NothingHalfSent
    <3>5. CASE ~more
      <4>1. currentOut' = NoPipe /\ x.unflushed = 0
        BY <1>8, <2>4, <2>5, <3>5
      <4> HIDE DEF more, p
      <4> QED BY <2>5, <2>6, <3>1, <3>3, <4>1 DEF NothingHalfSent
    <3> QED BY <3>4, <3>5
  <2>8. outPipes' \in Flagged(NoPipe, FALSE)
    BY <1>2 DEF Flagged
  <2>9. currentOut' \in Pipes \cup {NoPipe}
    BY <1>8, <2>1
  <2> HIDE DEF p
  <2> QED BY <1>2, <1>4, <1>5, <2>1, <2>5, <2>7, <2>8, <2>9, SendPipeKeeps
<1> QED BY <1>6, <1>7, <1>8 DEF SendPart
-----------------------------------------------------------------------------
(* The theorems.                                                           *)

\* A socket without peers.
LEMMA InvInit == Init => RouterInv
<1> SUFFICES ASSUME Init PROVE RouterInv
  OBVIOUS
<1> DEFINE c == <<"bind">>
           q == EmptyQueue
           e == [state |-> "active", inActive |-> TRUE, outActive |-> TRUE,
                 full |-> FALSE, unflushed |-> 0, id |-> NoPipe]
<1>1. /\ peer = [p \in Pipes |-> [phase |-> "connected", next |-> 0]]
      /\ cmds = [p \in Pipes |-> c] /\ inbox = [p \in Pipes |-> q] /\ pipe = [p \in Pipes |-> e]
      /\ anonymous = {} /\ outPipes = << >> /\ fq = EmptyList
      /\ call = "none" /\ currentOut = NoPipe /\ moreOut = FALSE /\ sending = NotSending
      /\ due = [p \in Pipes |-> 0]
  BY DEF Init
<1>2. c \in Seq(CommandNames) /\ Len(c) = 1 /\ c[1] = "bind" /\ NoTwice(c) /\ Pending(c) = {"bind"}
  <2>1. "bind" \in CommandNames
    BY DEF CommandNames
  <2>2. c \in Seq(CommandNames) /\ Len(c) = 1 /\ c[1] = "bind"
    BY <2>1
  <2> HIDE DEF c
  <2>3. 1 .. Len(c) = {1}
    BY <2>2
  <2> QED BY <2>2, <2>3 DEF NoTwice, Pending
<1>3. /\ q \in Queues(InParts) /\ q.flushed = << >> /\ q.unflushed = << >> /\ q.complete = 0
      /\ ~q.asleep /\ q.flushed \in Seq(InParts \ {Delimiter})
  <2> DEFINE n == << >>
  <2>1. n \in Seq(InParts) /\ n \in Seq(InParts \ {Delimiter})
    OBVIOUS
  <2>2. q = [flushed |-> n, unflushed |-> n, complete |-> 0, asleep |-> FALSE]
    BY DEF EmptyQueue
  <2> HIDE DEF n, q
  <2>3. /\ q \in Queues(InParts) /\ q.flushed = n /\ q.unflushed = n /\ q.complete = 0 /\ ~q.asleep
    BY <2>1, <2>2 DEF Queues
  <2> QED BY <2>1, <2>3 DEF n
<1>4. e \in Ends /\ e.state = "active" /\ e.inActive /\ e.unflushed = 0 /\ e.id = NoPipe
  BY DEF Ends, EndStates
<1>5. /\ EmptyList.pipes = << >> /\ EmptyList.active = 0 /\ EmptyList.current = 0
      /\ EmptyList \in PipeLists(Pipes)
  BY DEF EmptyList, PipeLists
<1>6. WellFormed(Pipes, fq)
  BY <1>1, <1>5 DEF WellFormed, NoTwice
<1>7. Listed(fq) = {} /\ ActivePipes(fq) = {}
  BY <1>1, <1>5 DEF Listed, ActivePipes
<1> HIDE DEF c, q, e
<1>8. SocketTypes
  <2>1. 0 \in 0 .. Numbers - 1 /\ 0 \in 0 .. SendParts
    BY RouterAssumption
  <2>2. peer \in [Pipes -> [phase : Phases, next : 0 .. Numbers - 1]]
    BY <1>1, <2>1 DEF Phases
  <2>3. sending \in [to : Ids \cup {NoPipe}, parts : 0 .. SendParts]
    BY <1>1, <2>1 DEF NotSending
  <2>4. due \in [Pipes -> 0 .. Numbers - 1]
    BY <1>1, <2>1
  <2> QED BY <1>1, <1>2, <1>3, <1>4, <1>6, <2>2, <2>3, <2>4 DEF SocketTypes
<1>9. Table
  <2>1. DOMAIN outPipes = {}
    BY <1>1
  <2> QED BY <1>7, <2>1 DEF Table
<1>10. NothingHalfSent
  <2>1. \A p \in Pipes : pipe[p].unflushed = 0 /\ p # NoPipe
    BY <1>1, <1>4, RouterAssumption DEF Ids
  <2> QED BY <1>1, <2>1 DEF NothingHalfSent
<1>11. ASSUME NEW p \in Pipes PROVE ConnAt(p)
  <2>1. Commanded(c, e, "connected")
    BY <1>2, <1>4 DEF Commanded
  <2>2. Awake(c, q, e)
    BY <1>2, <1>3, <1>4 DEF Awake
  <2>3. Open(q, e, "connected")
    BY <1>3, <1>4 DEF Open
  <2>4. Placed(p, c, q, e, "connected", {}, {}, {})
    BY <1>2, <1>3, <1>4 DEF Placed
  <2>5. Conn(p, c, q, e, "connected", {}, {}, {})
    BY <1>3, <1>4, <2>1, <2>2, <2>3, <2>4 DEF Conn, Phases
  <2>6. cmds[p] = c /\ inbox[p] = q /\ pipe[p] = e /\ peer[p].phase = "connected"
    BY <1>1
  <2> QED BY <1>1, <1>7, <2>5, <2>6 DEF ConnAt
<1> QED BY <1>8, <1>9, <1>10, <1>11 DEF RouterInv

\* Every step keeps the invariant.
LEMMA InvNext == RouterInv /\ [Next]_vars => RouterInv'
<1> SUFFICES ASSUME RouterInv, [Next]_vars PROVE RouterInv'
  OBVIOUS
<1>1. ASSUME NEW p \in Pipes, Session(p) PROVE RouterInv'
  BY <1>1, InvIdentify, InvArrive, InvClose, InvAcknowledgeWrite, InvAcknowledgeTerm DEF Session
<1>2. ASSUME NEW p \in Pipes, Command(p) PROVE RouterInv'
  BY <1>2, InvAttach, InvRead, InvWrite, InvTerm, InvTerminated DEF Command
<1>3. CASE Recv \/ Ask("xhas_in")
  BY <1>3, InvCall, InvRecvpipe DEF Recv
<1>4. CASE Send
  BY <1>4, InvSendId, InvSendPart DEF Send
<1>5. CASE UNCHANGED vars
  <2>1. /\ UNCHANGED <<peers, inbox, pipe, table, fq, output>>
        /\ call' = call /\ due' = due
    BY <1>5 DEF vars, input
  <2>2. due \in [Pipes -> 0 .. Numbers - 1] /\ call \in {"none", "xrecv", "xhas_in"}
    BY DEF RouterInv, SocketTypes
  <2> QED BY <2>1, <2>2, CallKeeps
<1> QED BY <1>1, <1>2, <1>3, <1>4, <1>5 DEF Next

\* The invariant holds whatever the sessions, the socket and the application do.
THEOREM RouterInvariance == Spec => []RouterInv
<1>1. Init => RouterInv
  BY InvInit
<1>2. RouterInv /\ [Next]_vars => RouterInv'
  BY InvNext
<1> QED BY <1>1, <1>2, PTL DEF Spec

\* A list without repetition is as long as it has pipes.
LEMMA ListedCount ==
  ASSUME NEW S, NEW l, WellFormed(S, l)
  PROVE  Len(l.pipes) = Cardinality(Listed(l))
<1> DEFINE s == l.pipes
           n == Len(s)
           L == Listed(l)
<1>1. s \in Seq(S) /\ n \in Nat /\ \A i, j \in 1 .. n : s[i] = s[j] => i = j
  BY Fields
<1>2. L = {s[i] : i \in 1 .. n}
  BY DEF Listed
<1>3. DOMAIN s = 1 .. n /\ s = [i \in 1 .. n |-> s[i]]
  BY <1>1
<1> HIDE DEF s, n, L
<1>4. s \in [1 .. n -> L]
  BY <1>2, <1>3
<1>5. s \in Bijection(1 .. n, L)
  <2>1. \A x \in L : \E i \in 1 .. n : s[i] = x
    BY <1>2
  <2>2. s \in Injection(1 .. n, L)
    BY <1>1, <1>4 DEF Injection, IsInjective
  <2>3. s \in Surjection(1 .. n, L)
    BY <1>4, <2>1 DEF Surjection
  <2> QED BY <2>2, <2>3 DEF Bijection
<1>6. ExistsBijection(1 .. n, L)
  BY <1>5 DEF ExistsBijection
<1>7. Cardinality(L) = n
  BY <1>1, <1>6, FS_CountingElements
<1> QED BY <1>7 DEF s, n, L

\* The routing table and the pipes that are read are the same, each under the
\* id its peer announced, and nobody has the id of another one.
THEOREM PeersHaveOneOwner == Spec => []OneOwner
<1>1. RouterInv => OneOwner
  <2> SUFFICES ASSUME RouterInv PROVE OneOwner
    OBVIOUS
  <2>1. WellFormed(Pipes, fq) /\ Table
    BY DEF RouterInv, SocketTypes
  <2>2. Len(fq.pipes) = Cardinality(Listed(fq))
    BY <2>1, ListedCount
  <2>3. {outPipes[i].pipe : i \in DOMAIN outPipes} = Listed(fq)
    BY <2>1 DEF Table
  <2>4. \A i \in DOMAIN outPipes : LET p == outPipes[i].pipe IN pipe[p].id = i /\ i = IdOf(p)
    BY <2>1 DEF Table
  <2>5. Listed(fq) \cap anonymous = {}
    <3> SUFFICES ASSUME NEW p \in Listed(fq), p \in anonymous PROVE FALSE
      OBVIOUS
    <3>1. p \in Pipes
      BY DEF RouterInv, SocketTypes
    <3>2. Conn(p, cmds[p], inbox[p], pipe[p], peer[p].phase, Listed(fq), ActivePipes(fq), anonymous)
      BY <3>1, ConnTypes
    <3> QED BY <3>2 DEF Conn, Placed
  <2> QED BY <2>2, <2>3, <2>4, <2>5 DEF OneOwner
<1> QED BY <1>1, RouterInvariance, PTL

\* A peer is sent whole messages only, and the socket writes to no pipe that is gone.
THEOREM WholeMessagesAreSent == Spec => []NothingHalfSent
<1>1. RouterInv => NothingHalfSent
  BY DEF RouterInv
<1> QED BY <1>1, RouterInvariance, PTL

\* The types, the bounds of the list of pipes, and the four commands that can
\* be on their way.
LEMMA TypesHold == RouterInv => TypeOK
<1> SUFFICES ASSUME RouterInv PROVE TypeOK
  OBVIOUS
<1>1. SocketTypes
  BY DEF RouterInv
<1>2. ASSUME NEW p \in Pipes PROVE inbox[p] \in Queues(InParts) /\ Len(cmds[p]) <= 4
  <2>1. /\ inbox[p] \in Queues(InParts)
        /\ Conn(p, cmds[p], inbox[p], pipe[p], peer[p].phase, Listed(fq), ActivePipes(fq), anonymous)
    BY ConnTypes
  <2>2. Commanded(cmds[p], pipe[p], peer[p].phase)
    BY <2>1 DEF Conn
  <2> QED BY <2>1, <2>2, AtMostFour
<1>3. /\ fq \in PipeLists(Pipes) /\ fq.active <= Len(fq.pipes)
      /\ fq.current < fq.active \/ fq.current = 0
  BY <1>1 DEF SocketTypes, WellFormed
<1> QED BY <1>1, <1>2, <1>3 DEF TypeOK, SocketTypes, Phases

\* A pipe with something to read is active, or a command to make it so is on
\* its way, whatever the peers send and however many there are.
THEOREM NothingIsForgotten == Spec => []NothingForgotten
<1>1. RouterInv => NothingForgotten
  <2> SUFFICES ASSUME RouterInv PROVE NothingForgotten
    OBVIOUS
  <2>1. ASSUME NEW p \in Listed(fq)
        PROVE  /\ CanRead(inbox[p]) /\ pipe[p].state \in {"active", "waiting_for_delimiter"} =>
                    \/ p \in ActivePipes(fq)
                    \/ \E i \in 1 .. Len(cmds[p]) : cmds[p][i] = "activate_read"
               /\ p \in ActivePipes(fq) => pipe[p].inActive
    <3>1. p \in Pipes
      <4>1. SocketTypes
        BY DEF RouterInv
      <4> QED BY <4>1, ListedArePipes
    <3>2. Conn(p, cmds[p], inbox[p], pipe[p], peer[p].phase, Listed(fq), ActivePipes(fq), anonymous)
      BY <3>1, ConnTypes
    <3>3. p \in ActivePipes(fq) => pipe[p].inActive
      BY <3>2 DEF Conn, Placed
    <3>4. CanRead(inbox[p]) /\ pipe[p].state \in Reading =>
            p \in ActivePipes(fq) \/ "activate_read" \in Pending(cmds[p])
      BY <3>2 DEF Conn, Placed, Awake, CanRead
    <3> QED BY <3>3, <3>4 DEF Pending, Reading
  <2>2. TypeOK
    BY TypesHold
  <2> QED BY <2>1, <2>2 DEF NothingForgotten
<1> QED BY <1>1, RouterInvariance, PTL

-----------------------------------------------------------------------------
(* The messages in a queue.                                                *)

\* What follows a part of the peer p: the next part of the message, or the
\* first part of the next message.
After(p, a) ==
    IF a = RoutingId THEN Part(p, 0, 1)
    ELSE IF a.part < PartsOf[p] THEN Part(p, a.number, a.part + 1)
    ELSE Part(p, (a.number + 1) % Numbers, 1)

\* Where the part u is to come, x comes: a connection is closed between messages.
MayFollow(u, x) == x = u \/ (x = Delimiter /\ u.part = 1)

\* Nothing is missing inside of the sequence s, and the delimiter ends it.
Linked(p, s) ==
    \A i \in 1 .. Len(s) - 1 : s[i] # Delimiter /\ MayFollow(After(p, s[i]), s[i + 1])

\* The queue s of the peer p holds whole messages but for what was read of the
\* first one: it begins with u, and ends where the session at ph goes on with
\* its message n.
Whole(p, s, u, ph, n) ==
    /\ Linked(p, s)
    /\ s # << >> => (s[1] = RoutingId /\ u = Part(p, 0, 1)) \/ MayFollow(u, s[1])
    /\ s # << >> => s[Len(s)] = Delimiter \/ After(p, s[Len(s)]).part = 1
    /\ s = << >> => u.part = 1
    /\ ph \in {"connected", "identified"} =>
         Part(p, n, 1) = IF s = << >> THEN u ELSE After(p, s[Len(s)])
    /\ ph = "connected" => n = 0

\* The fields of a part.
LEMMA PartFields ==
  ASSUME NEW p, NEW n, NEW i
  PROVE  /\ Part(p, n, i).from = p /\ Part(p, n, i).number = n /\ Part(p, n, i).part = i
         /\ Part(p, n, i).more = (i < PartsOf[p])
  BY DEF Part

\* A part is neither a routing id nor a delimiter.
LEMMA PartIsPart ==
  ASSUME NEW p \in Pipes, NEW n, NEW i
  PROVE  Part(p, n, i) # RoutingId /\ Part(p, n, i) # Delimiter
<1>1. RoutingId.from = NoPipe /\ Delimiter.from = NoPipe
  BY DEF RoutingId, Delimiter
<1>2. p # NoPipe
  BY RouterAssumption DEF Ids
<1> QED BY <1>1, <1>2, PartFields

\* What follows a part.
LEMMA AfterPartIs ==
  ASSUME NEW p \in Pipes, NEW n, NEW i
  PROVE  After(p, Part(p, n, i)) = IF i < PartsOf[p] THEN Part(p, n, i + 1)
                                   ELSE Part(p, (n + 1) % Numbers, 1)
<1> DEFINE a == Part(p, n, i)
<1>1. a # RoutingId /\ a.number = n /\ a.part = i
  BY PartIsPart, PartFields
<1> HIDE DEF a
<1> QED BY <1>1 DEF After, a

\* A part that is read is one of those its peer sends.
LEMMA PartSent ==
  ASSUME NEW p \in Pipes, NEW n, NEW i, Part(p, n, i) \in InParts
  PROVE  i \in 1 .. PartsOf[p] /\ n \in 0 .. Numbers - 1
<1> DEFINE x == Part(p, n, i)
           F(h, g) == {Part(g, h, j) : j \in 1 .. PartsOf[g]}
           G == {F(h, g) : h \in 0 .. Numbers - 1, g \in Pipes}
<1>1. x # RoutingId /\ x # Delimiter /\ x.from = p /\ x.number = n /\ x.part = i
  BY PartIsPart, PartFields
<1>2. InParts = {RoutingId, Delimiter} \cup UNION G
  BY DEF InParts
<1>3. x \in InParts
  OBVIOUS
<1> HIDE DEF x
<1>4. PICK y \in G : x \in y
  BY <1>1, <1>2, <1>3
<1>5. PICK h \in 0 .. Numbers - 1, g \in Pipes : y = F(h, g)
  OBVIOUS
<1>6. PICK j \in 1 .. PartsOf[g] : x = Part(g, h, j)
  BY <1>4, <1>5
<1>7. x.from = g /\ x.number = h /\ x.part = j
  BY <1>6, PartFields
<1> QED BY <1>1, <1>7

\* A queue that gets longer.
LEMMA LinkedTogether ==
  ASSUME NEW p, NEW S, NEW s \in Seq(S), NEW m \in Seq(S), m # << >>,
         Linked(p, s), Linked(p, m),
         s # << >> => s[Len(s)] # Delimiter /\ MayFollow(After(p, s[Len(s)]), m[1])
  PROVE  /\ Linked(p, s \o m) /\ s \o m # << >>
         /\ (s \o m)[Len(s \o m)] = m[Len(m)]
<1> DEFINE t == s \o m
           j == Len(s)
           k == Len(m)
<1>1. j \in Nat /\ k \in Nat /\ k > 0 /\ Len(t) = j + k
  OBVIOUS
<1>2. /\ \A i \in 1 .. j : t[i] = s[i]
      /\ \A i \in 1 .. k : t[j + i] = m[i]
  OBVIOUS
<1>3. s # << >> <=> j > 0
  OBVIOUS
<1> HIDE DEF t, j, k
<1>4. t # << >>
  BY <1>1
<1>5. t[Len(t)] = m[k]
  <2>1. k \in 1 .. k
    BY <1>1
  <2> QED BY <1>1, <1>2, <2>1
<1>6. ASSUME NEW i \in 1 .. Len(t) - 1
      PROVE  t[i] # Delimiter /\ MayFollow(After(p, t[i]), t[i + 1])
  <2>1. CASE i < j
    <3>1. i \in 1 .. j - 1 /\ i \in 1 .. j /\ i + 1 \in 1 .. j
      BY <1>1, <2>1
    <3>2. t[i] = s[i] /\ t[i + 1] = s[i + 1]
      BY <1>2, <3>1
    <3> QED BY <3>1, <3>2 DEF Linked, j
  <2>2. CASE i = j
    <3>1. i \in 1 .. j /\ 1 \in 1 .. k /\ s # << >>
      BY <1>1, <1>3, <2>2
    <3>2. t[i] = s[j] /\ t[i + 1] = m[1]
      BY <1>2, <2>2, <3>1
    <3> QED BY <3>1, <3>2 DEF j
  <2>3. CASE i > j
    <3> DEFINE h == i - j
    <3>1. h \in 1 .. k - 1 /\ h \in 1 .. k /\ h + 1 \in 1 .. k /\ j + h = i /\ j + (h + 1) = i + 1
      BY <1>1, <2>3
    <3>2. t[i] = m[h] /\ t[i + 1] = m[h + 1]
      BY <1>2, <3>1
    <3> HIDE DEF h
    <3> QED BY <3>1, <3>2 DEF Linked, k
  <2> QED BY <1>1, <2>1, <2>2, <2>3
<1> QED BY <1>4, <1>5, <1>6 DEF Linked, t, k

\* A queue whose first part is read.
LEMMA LinkedTail ==
  ASSUME NEW p, NEW S, NEW s \in Seq(S), s # << >>, Linked(p, s)
  PROVE  /\ Linked(p, Tail(s)) /\ Head(s) = s[1]
         /\ Tail(s) # << >> => /\ s[1] # Delimiter /\ MayFollow(After(p, s[1]), Tail(s)[1])
                               /\ Tail(s)[Len(Tail(s))] = s[Len(s)]
         /\ Tail(s) = << >> => s[Len(s)] = s[1]
<1> DEFINE t == Tail(s)
           k == Len(s)
<1>1. k \in Nat /\ k > 0 /\ Len(t) = k - 1 /\ t \in Seq(S)
  OBVIOUS
<1>2. \A i \in 1 .. k - 1 : t[i] = s[i + 1]
  OBVIOUS
<1>3. Head(s) = s[1]
  OBVIOUS
<1>4. t # << >> => k > 1
  BY <1>1
<1> HIDE DEF t
<1>5. t = << >> => k = 1
  <2>1. t = << >> => Len(t) = 0
    OBVIOUS
  <2> HIDE DEF k
  <2> QED BY <1>1, <2>1
<1>6. ASSUME NEW i \in 1 .. Len(t) - 1
      PROVE  t[i] # Delimiter /\ MayFollow(After(p, t[i]), t[i + 1])
  <2>1. i \in 1 .. k - 1 /\ i + 1 \in 1 .. k - 1
    BY <1>1
  <2>2. t[i] = s[i + 1] /\ t[i + 1] = s[(i + 1) + 1]
    BY <1>2, <2>1
  <2> QED BY <2>1, <2>2 DEF Linked
<1>7. k > 1 => s[1] # Delimiter /\ MayFollow(After(p, s[1]), t[1]) /\ t[k - 1] = s[k]
  <2> SUFFICES ASSUME k > 1
               PROVE  s[1] # Delimiter /\ MayFollow(After(p, s[1]), t[1]) /\ t[k - 1] = s[k]
    OBVIOUS
  <2>1. 1 \in 1 .. k - 1 /\ k - 1 \in 1 .. k - 1 /\ (k - 1) + 1 = k
    BY <1>1
  <2>2. t[1] = s[1 + 1] /\ t[k - 1] = s[k]
    BY <1>2, <2>1
  <2> QED BY <2>1, <2>2 DEF Linked
<1> QED BY <1>1, <1>3, <1>4, <1>5, <1>6, <1>7 DEF Linked, t

\* The queue after its first part, or the routing id, was read.
LEMMA WholeRead ==
  ASSUME NEW p \in Pipes, NEW s \in Seq(InParts), s # << >>, NEW u, NEW ph, NEW n,
         Whole(p, s, u, ph, n), s[1] # Delimiter
  PROVE  /\ s[1] = RoutingId \/ s[1] = u
         /\ Whole(p, Tail(s), After(p, s[1]), ph, n)
<1> DEFINE t == Tail(s)
<1>1. s[1] = RoutingId \/ s[1] = u
  BY DEF Whole, MayFollow
<1>2. /\ Linked(p, t)
      /\ t # << >> => MayFollow(After(p, s[1]), t[1]) /\ t[Len(t)] = s[Len(s)]
      /\ t = << >> => s[Len(s)] = s[1]
  BY LinkedTail DEF Whole
<1> HIDE DEF t
<1> QED BY <1>1, <1>2 DEF Whole, t

\* The queue after the delimiter was read.
LEMMA WholeEnds ==
  ASSUME NEW p \in Pipes, NEW s \in Seq(InParts), s # << >>, NEW u, NEW ph, NEW n,
         Whole(p, s, u, ph, n), s[1] = Delimiter, ph \notin {"connected", "identified"},
         u # Delimiter
  PROVE  Whole(p, Tail(s), u, ph, n) /\ Tail(s) = << >>
<1> DEFINE t == Tail(s)
<1>1. Linked(p, t) /\ t = << >>
  BY LinkedTail DEF Whole
<1>2. Delimiter # RoutingId
  BY PartsWritten
<1>3. u.part = 1
  BY <1>2 DEF Whole, MayFollow
<1> HIDE DEF t
<1> QED BY <1>1, <1>3 DEF Whole, t

\* The queue when the routing id arrives.
LEMMA WholeIdentified ==
  ASSUME NEW p \in Pipes, NEW s, s = << >>, NEW u, NEW n,
         Whole(p, s, u, "connected", n)
  PROVE  Whole(p, <<RoutingId>>, u, "identified", n)
<1> DEFINE m == <<RoutingId>>
<1>1. Len(m) = 1 /\ m[1] = RoutingId /\ m # << >>
  OBVIOUS
<1>2. n = 0 /\ u = Part(p, 0, 1)
  BY DEF Whole
<1>3. After(p, RoutingId) = Part(p, 0, 1) /\ Part(p, 0, 1).part = 1
  BY PartFields DEF After
<1> HIDE DEF m
<1>4. Linked(p, m)
  BY <1>1 DEF Linked
<1> QED BY <1>1, <1>2, <1>3, <1>4 DEF Whole, m

\* The queue when a message arrives.
LEMMA WholeArrived ==
  ASSUME NEW p \in Pipes, NEW s \in Seq(InParts \ {Delimiter}), NEW u, NEW n \in 0 .. Numbers - 1,
         Whole(p, s, u, "identified", n), PartsOf[p] > 0
  PROVE  Whole(p, s \o Message(p, n), u, "identified", (n + 1) % Numbers)
<1> DEFINE m == Message(p, n)
           S == InParts \ {Delimiter}
           k == PartsOf[p]
           t == s \o m
           v == (n + 1) % Numbers
<1>1. m \in Seq(S) /\ m # << >>
  BY MessageWritten
<1>2. k \in Nat /\ k > 0
  BY RouterAssumption
<1>3. Len(m) = k /\ \A i \in 1 .. k : m[i] = Part(p, n, i)
  <2>1. m = [i \in 1 .. k |-> Part(p, n, i)]
    BY DEF Message
  <2> HIDE DEF m, k
  <2> QED BY <1>2, <2>1
<1>4. s # << >> => s[Len(s)] # Delimiter
  <2> HIDE DEF S
  <2>1. s \in Seq(S) => (s # << >> => s[Len(s)] \in S)
    OBVIOUS
  <2> QED BY <2>1 DEF S
<1>5. s \in Seq(S)
  OBVIOUS
<1> HIDE DEF m, S, k
<1>6. \A i \in 1 .. k : After(p, m[i]) = IF i < k THEN Part(p, n, i + 1) ELSE Part(p, v, 1)
  BY <1>3, AfterPartIs DEF k
<1>7. Linked(p, m)
  <2> SUFFICES ASSUME NEW i \in 1 .. k - 1
               PROVE  m[i] # Delimiter /\ MayFollow(After(p, m[i]), m[i + 1])
    BY <1>3 DEF Linked
  <2>1. i \in 1 .. k /\ i + 1 \in 1 .. k /\ i < k
    BY <1>2
  <2> QED BY <1>3, <1>6, <2>1, PartIsPart DEF MayFollow
<1>8. m[1] = Part(p, n, 1) /\ After(p, m[k]) = Part(p, v, 1) /\ Part(p, v, 1).part = 1
  <2>1. 1 \in 1 .. k /\ k \in 1 .. k /\ ~(k < k)
    BY <1>2
  <2> QED BY <1>3, <1>6, <2>1, PartFields
<1>9. s # << >> => MayFollow(After(p, s[Len(s)]), m[1])
  BY <1>8 DEF Whole, MayFollow
<1>10. Linked(p, t) /\ t # << >> /\ t[Len(t)] = m[k]
  BY <1>1, <1>3, <1>4, <1>5, <1>7, <1>9, LinkedTogether DEF Whole
<1>11. t[1] = IF s = << >> THEN m[1] ELSE s[1]
  BY <1>1, <1>5
<1> HIDE DEF t, v
<1> QED BY <1>8, <1>10, <1>11 DEF Whole, MayFollow, t, m, v

\* The queue when its session closes.
LEMMA WholeClosed ==
  ASSUME NEW p \in Pipes, NEW s \in Seq(InParts \ {Delimiter}), NEW u, NEW n,
         Whole(p, s, u, "identified", n)
  PROVE  Whole(p, s \o <<Delimiter>>, u, "closed", n)
<1> DEFINE m == <<Delimiter>>
           S == InParts \ {Delimiter}
           t == s \o m
<1>1. m \in Seq(InParts) /\ m # << >> /\ Len(m) = 1 /\ m[1] = Delimiter
  BY PartsWritten
<1>2. s # << >> => s[Len(s)] # Delimiter
  <2> HIDE DEF S
  <2>1. s \in Seq(S) => (s # << >> => s[Len(s)] \in S)
    OBVIOUS
  <2> QED BY <2>1 DEF S
<1>3. s \in Seq(InParts)
  OBVIOUS
<1> HIDE DEF m, S
<1>4. Linked(p, m)
  BY <1>1 DEF Linked
<1>5. Part(p, n, 1).part = 1
  BY PartFields
<1>6. s # << >> => MayFollow(After(p, s[Len(s)]), m[1])
  BY <1>1, <1>5 DEF Whole, MayFollow
<1>7. Linked(p, t) /\ t # << >> /\ t[Len(t)] = m[1]
  BY <1>1, <1>2, <1>3, <1>4, <1>6, LinkedTogether DEF Whole
<1>8. t[1] = IF s = << >> THEN m[1] ELSE s[1]
  BY <1>1, <1>3
<1> HIDE DEF t
<1> QED BY <1>1, <1>5, <1>7, <1>8 DEF Whole, MayFollow, t, m
-----------------------------------------------------------------------------
(* The message that is being received.                                     *)

Frames == [frame : Ids \cup InParts, more : BOOLEAN]

\* The application is between two messages.
Between == got = << >> \/ ~got[Len(got)].more

\* The frames g are the id of p and the first k parts of its message n.
GotIs(g, p, n, k) ==
    /\ Len(g) = k + 1 /\ g[1] = [frame |-> IdOf(p), more |-> TRUE]
    /\ \A i \in 1 .. k : g[i + 1] = [frame |-> Part(p, n, i), more |-> (i < PartsOf[p])]

\* The socket has taken the first k parts of the next message of the peer p
\* out of its queue: one is prefetched, or the application has all of them.
Holding(p, k) ==
    /\ p = NoPipe => ~prefetched.held /\ Between /\ ~moreIn
    /\ p # NoPipe =>
         /\ p \in Pipes /\ k \in 1 .. PartsOf[p]
         /\ prefetched.held =>
              /\ k = 1 /\ prefetched.msg = Part(p, due[p], 1)
              /\ prefetched.idSent => GotIs(got, p, due[p], 0)
              /\ ~prefetched.idSent => Between /\ ~moreIn /\ prefetched.id = IdOf(p)
         /\ ~prefetched.held => k < PartsOf[p] /\ moreIn /\ GotIs(got, p, due[p], k)

\* It is the turn of that peer until its message has been taken.
Turn(p, k) ==
    /\ fq.more => /\ p \in Pipes /\ k < PartsOf[p]
                  /\ fq.active > 0 /\ Current(fq) = p
    /\ ~fq.more => p = NoPipe \/ k = PartsOf[p]

\* The part of the peer r that the socket is to take next.
Upcoming(d, r, p, k) ==
    IF r # p THEN Part(r, d[r], 1)
    ELSE IF k < PartsOf[r] THEN Part(r, d[r], k + 1)
    ELSE Part(r, (d[r] + 1) % Numbers, 1)

\* The queue of r holds what is to come.
InLine(r, u) ==
    /\ Whole(r, inbox[r].flushed, u, peer[r].phase, peer[r].next)
    /\ r \in Listed(fq) /\ inbox[r].flushed # << >> => inbox[r].flushed[1] # RoutingId

Lines(p, k) == \A r \in Pipes : InLine(r, Upcoming(due, r, p, k))

Serving(p, k) == Holding(p, k) /\ Turn(p, k) /\ Lines(p, k)

\* The last message that was received is that of a peer, and when the
\* application may call what.
Finished ==
    Between /\ got # << >> =>
      \E p \in Pipes : PartsOf[p] > 0 /\ GotIs(got, p, (due[p] + Numbers - 1) % Numbers, PartsOf[p])
Calls ==
    /\ got \in Seq(Frames) /\ moreIn \in BOOLEAN
    /\ prefetched \in [held : BOOLEAN, idSent : BOOLEAN, id : Ids \cup {NoPipe}, msg : InParts]
    /\ Finished
    /\ moreOut => got = << >>
    /\ call # "none" => ~prefetched.held
    /\ call = "xrecv" => ~moreOut
    /\ call = "xhas_in" => ~moreIn

\* A pipe that is not worth writing was found full, and its entry says so.
Writers ==
    \A r \in Pipes : pipe[r].state = "active" /\ ~pipe[r].outActive =>
      r \in Listed(fq) /\ ~outPipes[pipe[r].id].active

\* The inductive invariant.
MessageInv ==
    /\ NoAbort /\ Calls /\ Writers
    /\ \E p \in Pipes \cup {NoPipe}, k \in Nat : Serving(p, k)
-----------------------------------------------------------------------------
(* What a step that receives nothing leaves as it was.                     *)

\* The message that is being received is the same.
LEMMA HoldingKept ==
  ASSUME NEW p, NEW k, Holding(p, k),
         prefetched' = prefetched, got' = got, moreIn' = moreIn, due' = due
  PROVE  Holding(p, k)'
  BY DEF Holding, Between

\* So is what the application has.
LEMMA CallsKept ==
  ASSUME Calls, prefetched' = prefetched, got' = got, moreIn' = moreIn, due' = due,
         call' = call, moreOut' = moreOut
  PROVE  Calls'
  BY DEF Calls, Finished, Between

\* The turn does not pass on when the active pipes stay where they are.
LEMMA TurnKept ==
  ASSUME WellFormed(Pipes, fq), WellFormed(Pipes, fq'), NEW p, NEW k, Turn(p, k),
         fq'.more = fq.more, fq'.current = fq.current, fq'.active >= fq.active,
         \A i \in 1 .. fq.active : fq'.pipes[i] = fq.pipes[i]
  PROVE  Turn(p, k)'
<1>1. fq.active \in Nat /\ fq'.active \in Nat /\ fq.current \in Nat
  BY Fields
<1>2. fq.current < fq.active \/ fq.current = 0
  BY DEF WellFormed
<1>3. fq.active > 0 => fq'.active > 0 /\ Current(fq') = Current(fq)
  <2> SUFFICES ASSUME fq.active > 0 PROVE fq'.active > 0 /\ Current(fq') = Current(fq)
    OBVIOUS
  <2>1. fq.current + 1 \in 1 .. fq.active
    BY <1>1, <1>2
  <2> QED BY <1>1, <2>1 DEF Current
<1> QED BY <1>3 DEF Turn

\* The turn when nothing was being received.
LEMMA NoTurnKept ==
  ASSUME NEW p, NEW k, Turn(p, k), fq.more = FALSE, fq'.more = FALSE
  PROVE  Turn(p, k)'
  BY DEF Turn

\* Who may write after a step about the pipe p that changes no entry.
LEMMA WritersKept ==
  ASSUME SocketTypes, Writers, NEW p \in Pipes,
         NEW x, pipe' = [pipe EXCEPT ![p] = x],
         x.state = "active" => pipe[p].state = "active" /\ x.outActive = pipe[p].outActive,
         x.id = pipe[p].id, outPipes' = outPipes, Listed(fq') = Listed(fq)
  PROVE  Writers'
<1>1. pipe \in [Pipes -> Ends]
  BY DEF SocketTypes
<1>2. pipe'[p] = x /\ \A r \in Pipes : r # p => pipe'[r] = pipe[r]
  BY <1>1
<1> SUFFICES ASSUME NEW r \in Pipes, pipe'[r].state = "active", ~pipe'[r].outActive
             PROVE  r \in Listed(fq') /\ ~outPipes'[pipe'[r].id].active
  BY DEF Writers
<1>3. CASE r = p
  BY <1>2, <1>3 DEF Writers
<1>4. CASE r # p
  BY <1>2, <1>4 DEF Writers
<1> QED BY <1>3, <1>4
-----------------------------------------------------------------------------
(* The steps of the sessions.                                              *)

\* A step of the session of p, which leaves the queue w and the peer x.
LEMMA SessionServes ==
  ASSUME RouterInv, MessageInv, NEW p \in Pipes,
         UNCHANGED <<pipe, table, fq, input, output, aborted>>,
         NEW w, inbox' = [inbox EXCEPT ![p] = w],
         NEW x, peer' = [peer EXCEPT ![p] = x],
         \A u : Whole(p, inbox[p].flushed, u, peer[p].phase, peer[p].next) =>
                  Whole(p, w.flushed, u, x.phase, x.next),
         p \in Listed(fq) /\ (inbox[p].flushed # << >> => inbox[p].flushed[1] # RoutingId) =>
           (w.flushed # << >> => w.flushed[1] # RoutingId)
  PROVE  MessageInv'
<1>1. /\ pipe' = pipe /\ outPipes' = outPipes /\ fq' = fq /\ call' = call
      /\ prefetched' = prefetched /\ got' = got /\ moreIn' = moreIn /\ due' = due
      /\ moreOut' = moreOut /\ aborted' = aborted
  BY DEF table, input, output
<1>2. /\ peer \in [Pipes -> [phase : Phases, next : 0 .. Numbers - 1]]
      /\ inbox \in [Pipes -> Queues(InParts)]
  BY DEF RouterInv, SocketTypes
<1>3. /\ inbox'[p] = w /\ peer'[p] = x
      /\ \A r \in Pipes : r # p => inbox'[r] = inbox[r] /\ peer'[r] = peer[r]
  BY <1>2
<1>4. PICK b \in Pipes \cup {NoPipe}, k \in Nat : Serving(b, k)
  BY DEF MessageInv
<1>5. Holding(b, k)' /\ Turn(b, k)'
  BY <1>1, <1>4, HoldingKept DEF Serving, Lines, Turn
<1>6. ASSUME NEW r \in Pipes PROVE InLine(r, Upcoming(due, r, b, k))'
  <2> DEFINE u == Upcoming(due, r, b, k)
  <2>1. InLine(r, u) /\ u' = u
    BY <1>1, <1>4 DEF Serving, Lines
  <2> HIDE DEF u
  <2>2. CASE r = p
    <3>1. Whole(p, w.flushed, u, x.phase, x.next)
      BY <2>1, <2>2 DEF InLine
    <3>2. InLine(r, u)'
      BY <1>1, <1>3, <2>1, <2>2, <3>1 DEF InLine
    <3> QED BY <3>2 DEF u
  <2>3. CASE r # p
    <3>1. InLine(r, u)'
      BY <1>1, <1>3, <2>1, <2>3 DEF InLine
    <3> QED BY <3>1 DEF u
  <2> QED BY <2>2, <2>3
<1>7. Serving(b, k)'
  BY <1>5, <1>6 DEF Serving, Lines
<1>8. Calls'
  BY <1>1, CallsKept DEF MessageInv
<1>9. Writers' /\ NoAbort'
  BY <1>1 DEF MessageInv, Writers, NoAbort
<1> QED BY <1>7, <1>8, <1>9 DEF MessageInv

\* The parts in a queue after its session has written some.
LEMMA PushedParts ==
  ASSUME NEW q \in Queues(InParts), NEW parts \in Seq(InParts), parts # << >>
  PROVE  Pushed(q, parts).flushed = q.flushed \o parts
<1> DEFINE n == Len(parts)
           w == [q EXCEPT !.unflushed = parts, !.complete = n]
<1>1. n \in Nat /\ n > 0
  OBVIOUS
<1>2. w.flushed = q.flushed /\ w.unflushed = parts /\ w.complete = n
  BY DEF Queues
<1>3. SubSeq(parts, 1, n) = parts
  OBVIOUS
<1>4. Pushed(q, parts) = Flushed(w)
  BY DEF Pushed
<1> HIDE DEF w
<1>5. Flushed(w) = [flushed |-> w.flushed \o SubSeq(w.unflushed, 1, w.complete),
                    unflushed |-> SubSeq(w.unflushed, w.complete + 1, Len(w.unflushed)),
                    complete |-> 0, asleep |-> FALSE]
  <2>1. w.complete # 0
    BY <1>1, <1>2
  <2> QED BY <2>1 DEF Flushed
<1>6. Flushed(w).flushed = w.flushed \o SubSeq(w.unflushed, 1, w.complete)
  <2>1. \A f, g : [flushed |-> f, unflushed |-> g, complete |-> 0, asleep |-> FALSE].flushed = f
    OBVIOUS
  <2> QED BY <1>5, <2>1, Zenon
<1>7. w.flushed \o SubSeq(w.unflushed, 1, w.complete) = q.flushed \o parts
  BY <1>2, <1>3
<1> QED BY <1>4, <1>6, <1>7

\* The routing id of a peer arrives, a message arrives, or the peer closes.
LEMMA MsgPush ==
  ASSUME RouterInv, MessageInv, NEW p \in Pipes, Identify(p) \/ Arrive(p) \/ Close(p)
  PROVE  MessageInv'
<1> DEFINE q == inbox[p]
           n == peer[p].next
           T == InParts \ {Delimiter}
<1>1. /\ q \in Queues(InParts) /\ peer[p] \in [phase : Phases, next : 0 .. Numbers - 1]
      /\ Conn(p, cmds[p], q, pipe[p], peer[p].phase, Listed(fq), ActivePipes(fq), anonymous)
  BY ConnTypes
<1>2. peer \in [Pipes -> [phase : Phases, next : 0 .. Numbers - 1]] /\ n \in 0 .. Numbers - 1
  BY <1>1 DEF RouterInv, SocketTypes
<1>3. ASSUME NEW before, NEW parts, Pushes(p, before, parts)
      PROVE  /\ inbox' = [inbox EXCEPT ![p] = Pushed(q, parts)]
             /\ UNCHANGED <<pipe, table, fq, input, output, aborted>>
  BY <1>3 DEF Pushes, Pushed
<1>4. peer[p].phase \in {"connected", "identified"} => q.flushed \in Seq(T)
  BY <1>1 DEF Conn, Open
<1>5. q.flushed \in Seq(InParts)
  BY <1>1 DEF Queues
<1>6. CASE Identify(p)
  <2> DEFINE parts == <<RoutingId>>
             x == [peer[p] EXCEPT !.phase = "identified"]
             w == Pushed(q, parts)
  <2>1. peer[p].phase = "connected" /\ peer' = [peer EXCEPT ![p] = x] /\ Pushes(p, << >>, parts)
    BY <1>2, <1>6 DEF Identify
  <2>2. q.flushed = << >> /\ p \notin Listed(fq)
    BY <1>1, <2>1 DEF Conn, Placed
  <2>3. w.flushed = parts
    <3>1. parts \in Seq(InParts) /\ parts # << >>
      <4>1. RoutingId \in InParts
        BY DEF InParts
      <4> QED BY <4>1
    <3>2. << >> \o parts = parts
      OBVIOUS
    <3> QED BY <1>1, <2>2, <3>1, <3>2, PushedParts
  <2>4. x.phase = "identified" /\ x.next = n
    BY <1>1
  <2>5. \A u : Whole(p, q.flushed, u, peer[p].phase, n) => Whole(p, parts, u, x.phase, x.next)
    BY <2>1, <2>2, <2>4, WholeIdentified
  <2> HIDE DEF x, w, parts
  <2>6. /\ inbox' = [inbox EXCEPT ![p] = w]
        /\ UNCHANGED <<pipe, table, fq, input, output, aborted>>
    BY <1>3, <2>1 DEF w
  <2>7. \A u : Whole(p, q.flushed, u, peer[p].phase, n) => Whole(p, w.flushed, u, x.phase, x.next)
    BY <2>3, <2>5
  <2> QED BY <2>1, <2>2, <2>6, <2>7, SessionServes
<1>7. CASE Arrive(p)
  <2> DEFINE parts == Message(p, n)
             v == (n + 1) % Numbers
             x == [peer[p] EXCEPT !.next = v]
             w == Pushed(q, parts)
  <2>1. /\ peer[p].phase = "identified" /\ PartsOf[p] > 0
        /\ peer' = [peer EXCEPT ![p] = x] /\ Pushes(p, << >>, parts)
    BY <1>2, <1>7 DEF Arrive
  <2>2. parts \in Seq(T) /\ parts # << >>
    BY <1>2, <2>1, MessageWritten
  <2>3. parts \in Seq(InParts)
    BY <2>2
  <2>4. w.flushed = q.flushed \o parts
    BY <1>1, <2>2, <2>3, PushedParts
  <2> HIDE DEF v
  <2>5. x.phase = "identified" /\ x.next = v
    BY <1>1, <2>1
  <2>6. ASSUME NEW u, Whole(p, q.flushed, u, peer[p].phase, n)
        PROVE  Whole(p, w.flushed, u, x.phase, x.next)
    <3> DEFINE s == q.flushed
    <3>1. s \in Seq(T)
      BY <1>4, <2>1
    <3>2. Whole(p, s, u, "identified", n)
      BY <2>1, <2>6
    <3>3. n \in 0 .. Numbers - 1 /\ PartsOf[p] > 0
      BY <1>2, <2>1
    <3> HIDE DEF s, n
    <3>4. Whole(p, s \o Message(p, n), u, "identified", (n + 1) % Numbers)
      BY <3>1, <3>2, <3>3, WholeArrived
    <3> USE DEF s, n
    <3>5. Whole(p, q.flushed \o parts, u, "identified", v)
      BY <3>4 DEF v
    <3> HIDE DEF x, w, parts, s, n, q
    <3> QED BY <2>4, <2>5, <3>5
  <2>7. \A i \in 1 .. Len(parts) : parts[i] # RoutingId
    <3> DEFINE k == PartsOf[p]
    <3>1. k \in Nat
      BY RouterAssumption
    <3>2. parts = [i \in 1 .. k |-> Part(p, n, i)]
      BY DEF Message
    <3>3. \A i : Part(p, n, i) # RoutingId
      BY PartIsPart
    <3> HIDE DEF parts, k, n
    <3> QED BY <3>1, <3>2, <3>3
  <2> HIDE DEF x, w, parts
  <2>8. /\ inbox' = [inbox EXCEPT ![p] = w]
        /\ UNCHANGED <<pipe, table, fq, input, output, aborted>>
    BY <1>3, <2>1 DEF w
  <2>9. (q.flushed # << >> => q.flushed[1] # RoutingId) => w.flushed[1] # RoutingId
    <3>1. 1 \in 1 .. Len(parts)
      BY <2>2, <2>3
    <3>2. (q.flushed \o parts)[1] = IF q.flushed = << >> THEN parts[1] ELSE q.flushed[1]
      BY <1>5, <2>2, <2>3
    <3> QED BY <2>4, <2>7, <3>1, <3>2
  <2> QED BY <2>1, <2>6, <2>8, <2>9, SessionServes
<1>8. CASE Close(p)
  <2> DEFINE parts == <<Delimiter>>
             x == [peer[p] EXCEPT !.phase = "closed"]
             w == Pushed(q, parts)
  <2>1. /\ peer[p].phase = "identified"
        /\ peer' = [peer EXCEPT ![p] = x] /\ Pushes(p, <<"pipe_term">>, parts)
    BY <1>2, <1>8 DEF Close
  <2>2. parts \in Seq(InParts) /\ parts # << >> /\ parts[1] = Delimiter /\ Delimiter # RoutingId
    BY PartsWritten
  <2>3. w.flushed = q.flushed \o parts
    BY <1>1, <2>2, PushedParts
  <2>4. x.phase = "closed" /\ x.next = n
    BY <1>1
  <2>5. ASSUME NEW u, Whole(p, q.flushed, u, peer[p].phase, n)
        PROVE  Whole(p, w.flushed, u, x.phase, x.next)
    <3> DEFINE s == q.flushed
    <3>1. s \in Seq(T)
      BY <1>4, <2>1
    <3>2. Whole(p, s, u, "identified", n)
      BY <2>1, <2>5
    <3> HIDE DEF s, n
    <3>3. Whole(p, s \o <<Delimiter>>, u, "closed", n)
      BY <3>1, <3>2, WholeClosed
    <3> USE DEF s, n
    <3>4. Whole(p, q.flushed \o parts, u, "closed", n)
      BY <3>3
    <3> HIDE DEF x, w, parts, s, n, q
    <3> QED BY <2>3, <2>4, <3>4
  <2> HIDE DEF x, w, parts
  <2>6. /\ inbox' = [inbox EXCEPT ![p] = w]
        /\ UNCHANGED <<pipe, table, fq, input, output, aborted>>
    BY <1>3, <2>1 DEF w
  <2>7. (q.flushed # << >> => q.flushed[1] # RoutingId) => w.flushed[1] # RoutingId
    <3>1. (q.flushed \o parts)[1] = IF q.flushed = << >> THEN parts[1] ELSE q.flushed[1]
      BY <1>5, <2>2
    <3> QED BY <2>2, <2>3, <3>1
  <2> QED BY <2>1, <2>5, <2>6, <2>7, SessionServes
<1> QED BY <1>6, <1>7, <1>8

\* A peer has read what was sent to it, or ends the termination.
LEMMA MsgAcknowledge ==
  ASSUME RouterInv, MessageInv, NEW p \in Pipes, AcknowledgeWrite(p) \/ AcknowledgeTerm(p)
  PROVE  MessageInv'
<1> DEFINE q == inbox[p]
<1>1. /\ peer \in [Pipes -> [phase : Phases, next : 0 .. Numbers - 1]]
      /\ inbox \in [Pipes -> Queues(InParts)]
      /\ peer[p] \in [phase : Phases, next : 0 .. Numbers - 1]
  BY DEF RouterInv, SocketTypes
<1>2. /\ inbox' = [inbox EXCEPT ![p] = q]
      /\ UNCHANGED <<pipe, table, fq, input, output, aborted>>
  BY <1>1 DEF AcknowledgeWrite, AcknowledgeTerm, Commands
<1>3. CASE AcknowledgeWrite(p)
  <2>1. peer' = [peer EXCEPT ![p] = peer[p]]
    BY <1>1, <1>3 DEF AcknowledgeWrite
  <2> QED BY <1>2, <2>1, SessionServes
<1>4. CASE AcknowledgeTerm(p)
  <2> DEFINE x == [peer[p] EXCEPT !.phase = "gone"]
  <2>1. peer' = [peer EXCEPT ![p] = x] /\ x.phase = "gone" /\ x.next = peer[p].next
    BY <1>1, <1>4 DEF AcknowledgeTerm
  <2> HIDE DEF x
  <2>2. \A u : Whole(p, q.flushed, u, peer[p].phase, peer[p].next) =>
                 Whole(p, q.flushed, u, x.phase, x.next)
    BY <2>1 DEF Whole
  <2> QED BY <1>2, <2>1, <2>2, SessionServes
<1> QED BY <1>3, <1>4
-----------------------------------------------------------------------------
(* The steps of the socket about a connection.                             *)

\* What is to come is a part of a message.
LEMMA UpcomingIsPart ==
  ASSUME NEW d, NEW r \in Pipes, NEW p, NEW k
  PROVE  /\ Upcoming(d, r, p, k) # RoutingId /\ Upcoming(d, r, p, k) # Delimiter
  BY PartIsPart DEF Upcoming

\* The queue after the routing id was read.
LEMMA WholeAfterId ==
  ASSUME NEW p \in Pipes, NEW s \in Seq(InParts), s # << >>, NEW u, NEW ph, NEW n,
         Whole(p, s, u, ph, n), s[1] = RoutingId, u # RoutingId
  PROVE  /\ Whole(p, Tail(s), u, ph, n)
         /\ Tail(s) # << >> => Tail(s)[1] # RoutingId
<1>1. RoutingId # Delimiter
  BY PartsWritten
<1>2. u = Part(p, 0, 1) /\ After(p, s[1]) = u
  BY <1>1 DEF Whole, MayFollow, After
<1>3. Whole(p, Tail(s), u, ph, n)
  BY <1>1, <1>2, WholeRead
<1>4. Tail(s) # << >> => MayFollow(u, Tail(s)[1])
  BY <1>2, LinkedTail DEF Whole
<1> QED BY <1>1, <1>3, <1>4 DEF MayFollow

\* The active pipes stay where they are, and it is the turn of the same one.
SamePlaces ==
    /\ fq'.more = fq.more /\ fq'.current = fq.current /\ fq'.active >= fq.active
    /\ \A i \in 1 .. fq.active : fq'.pipes[i] = fq.pipes[i]

\* It is so when nothing changes.
LEMMA PlacesKept ==
  ASSUME RouterInv, fq' = fq
  PROVE  SamePlaces /\ WellFormed(Pipes, fq')
<1>1. WellFormed(Pipes, fq)
  BY DEF RouterInv, SocketTypes
<1>2. fq.active \in Nat
  BY <1>1, Fields
<1> QED BY <1>1, <1>2 DEF SamePlaces

\* A step about the pipe p that reads nothing for the application and leaves
\* the queue w.
LEMMA StepServes ==
  ASSUME RouterInv, MessageInv, NEW p \in Pipes, peer' = peer,
         prefetched' = prefetched, got' = got, moreIn' = moreIn, due' = due,
         NEW w, inbox' = [inbox EXCEPT ![p] = w],
         WellFormed(Pipes, fq'), SamePlaces,
         \A r \in Pipes : r # p /\ r \in Listed(fq') => r \in Listed(fq),
         \A u : /\ u # RoutingId
                /\ Whole(p, inbox[p].flushed, u, peer[p].phase, peer[p].next)
                /\ p \in Listed(fq) /\ inbox[p].flushed # << >> => inbox[p].flushed[1] # RoutingId
                => /\ Whole(p, w.flushed, u, peer[p].phase, peer[p].next)
                   /\ p \in Listed(fq') /\ w.flushed # << >> => w.flushed[1] # RoutingId
  PROVE  \E b \in Pipes \cup {NoPipe}, k \in Nat : Serving(b, k)'
<1>1. WellFormed(Pipes, fq) /\ inbox \in [Pipes -> Queues(InParts)]
  BY DEF RouterInv, SocketTypes
<1>2. inbox'[p] = w /\ \A r \in Pipes : r # p => inbox'[r] = inbox[r]
  BY <1>1
<1>3. PICK b \in Pipes \cup {NoPipe}, k \in Nat : Serving(b, k)
  BY DEF MessageInv
<1>4. Holding(b, k)'
  BY <1>3, HoldingKept DEF Serving, Lines
<1>5. Turn(b, k)'
  BY <1>1, <1>3, TurnKept DEF Serving, Lines, SamePlaces
<1>6. ASSUME NEW r \in Pipes PROVE InLine(r, Upcoming(due, r, b, k))'
  <2> DEFINE u == Upcoming(due, r, b, k)
  <2>1. InLine(r, u) /\ u' = u /\ u # RoutingId
    BY <1>3, UpcomingIsPart DEF Serving, Lines
  <2> HIDE DEF u
  <2>2. CASE r = p
    <3>1. /\ Whole(p, w.flushed, u, peer[p].phase, peer[p].next)
          /\ p \in Listed(fq') /\ w.flushed # << >> => w.flushed[1] # RoutingId
      BY <2>1, <2>2 DEF InLine
    <3>2. InLine(r, u)'
      BY <1>2, <2>1, <2>2, <3>1 DEF InLine
    <3> QED BY <3>2 DEF u
  <2>3. CASE r # p
    <3>1. InLine(r, u)'
      BY <1>2, <2>1, <2>3 DEF InLine
    <3> QED BY <3>1 DEF u
  <2> QED BY <2>2, <2>3
<1> QED BY <1>4, <1>5, <1>6 DEF Serving, Lines

\* What a command leaves alone of what is received.
LEMMA CommandLeaves ==
  ASSUME RouterInv, MessageInv, NEW p \in Pipes, NEW command, Handles(p, command)
  PROVE  /\ prefetched' = prefetched /\ got' = got /\ moreIn' = moreIn /\ due' = due
         /\ peer' = peer /\ Calls'
<1>1. /\ prefetched' = prefetched /\ got' = got /\ moreIn' = moreIn /\ due' = due
      /\ peer' = peer /\ call' = call /\ moreOut' = moreOut
  BY DEF Handles, input
<1> QED BY <1>1, CallsKept DEF MessageInv

\* A command that changes no queue.
LEMMA QuietCommand ==
  ASSUME RouterInv, MessageInv, NEW p \in Pipes, NEW command, Handles(p, command),
         inbox' = inbox, WellFormed(Pipes, fq'), SamePlaces,
         \A r \in Pipes : r \in Listed(fq') => r \in Listed(fq),
         Writers', NoAbort'
  PROVE  MessageInv'
<1>1. /\ prefetched' = prefetched /\ got' = got /\ moreIn' = moreIn /\ due' = due
      /\ peer' = peer /\ Calls'
  BY CommandLeaves
<1>2. inbox' = [inbox EXCEPT ![p] = inbox[p]]
  BY DEF RouterInv, SocketTypes
<1>3. \E b \in Pipes \cup {NoPipe}, k \in Nat : Serving(b, k)'
  BY <1>1, <1>2, StepServes
<1> QED BY <1>1, <1>3 DEF MessageInv

\* A session has closed its end.
LEMMA MsgTerm ==
  ASSUME RouterInv, MessageInv, NEW p \in Pipes, process_pipe_term(p)
  PROVE  MessageInv'
<1> DEFINE e == pipe[p]
           x == IF e.state = "active" THEN [e EXCEPT !.state = "waiting_for_delimiter"]
                ELSE [e EXCEPT !.state = "term_ack_sent", !.unflushed = 0]
<1>1. e \in Ends /\ SocketTypes /\ Writers
  BY ConnTypes DEF RouterInv, MessageInv
<1>2. /\ Handles(p, "pipe_term") /\ pipe' = [pipe EXCEPT ![p] = x] /\ inbox' = inbox
      /\ fq' = fq /\ outPipes' = outPipes /\ aborted' = aborted
  BY DEF process_pipe_term, table
<1>3. x.state # "active" /\ x.id = e.id
  BY <1>1 DEF Ends
<1> HIDE DEF x
<1>4. Writers'
  BY <1>1, <1>2, <1>3, WritersKept
<1>5. NoAbort'
  BY <1>2 DEF MessageInv, NoAbort
<1>6. SamePlaces /\ WellFormed(Pipes, fq')
  BY <1>2, PlacesKept
<1> QED BY <1>2, <1>4, <1>5, <1>6, QuietCommand

\* A pipe can be written again: it was found full, and the table says so.
LEMMA MsgWrite ==
  ASSUME RouterInv, MessageInv, NEW p \in Pipes, xwrite_activated(p)
  PROVE  MessageInv'
<1> DEFINE e == pipe[p]
           wakes == ~e.outActive /\ e.state = "active"
           known == Taken(e.id) /\ ~outPipes[e.id].active
           b == e.outActive \/ wakes
           x == [e EXCEPT !.full = FALSE, !.outActive = b]
           o == [outPipes EXCEPT ![e.id].active = TRUE]
<1>1. e \in Ends /\ SocketTypes /\ Writers /\ Table /\ pipe \in [Pipes -> Ends]
  BY ConnTypes DEF RouterInv, MessageInv, SocketTypes
<1>2. /\ Handles(p, "activate_write") /\ pipe' = [pipe EXCEPT ![p] = x] /\ inbox' = inbox
      /\ fq' = fq /\ outPipes' = (IF wakes /\ known THEN o ELSE outPipes)
      /\ aborted' = (wakes /\ ~known)
  BY DEF xwrite_activated
<1>3. wakes => known /\ p \in Listed(fq) /\ outPipes[e.id].pipe = p
  BY <1>1 DEF Writers, Table, Taken
<1>4. /\ x.state = e.state /\ x.id = e.id /\ x.outActive = b
  BY <1>1 DEF Ends
<1>5. pipe'[p] = x /\ \A r \in Pipes : r # p => pipe'[r] = pipe[r]
  BY <1>1, <1>2
<1>6. \A j \in DOMAIN outPipes : j # e.id => o[j] = outPipes[j]
  OBVIOUS
<1> HIDE DEF x, o
<1>7. Writers'
  <2> SUFFICES ASSUME NEW r \in Pipes, pipe'[r].state = "active", ~pipe'[r].outActive
               PROVE  r \in Listed(fq') /\ ~outPipes'[pipe'[r].id].active
    BY DEF Writers
  <2>1. r # p
    BY <1>4, <1>5
  <2>2. /\ pipe'[r] = pipe[r] /\ r \in Listed(fq) /\ ~outPipes[pipe[r].id].active
    BY <1>1, <1>5, <2>1 DEF Writers
  <2>3. pipe[r].id \in DOMAIN outPipes /\ outPipes[pipe[r].id].pipe = r
    BY <1>1, <2>2 DEF Table
  <2>4. CASE wakes
    <3>1. pipe[r].id # e.id
      BY <1>3, <2>1, <2>3, <2>4
    <3> QED BY <1>2, <1>6, <2>2, <2>3, <3>1
  <2>5. CASE ~wakes
    BY <1>2, <2>2, <2>5
  <2> QED BY <2>4, <2>5
<1>8. NoAbort'
  BY <1>2, <1>3 DEF NoAbort
<1>9. SamePlaces /\ WellFormed(Pipes, fq')
  BY <1>2, PlacesKept
<1> QED BY <1>2, <1>7, <1>8, <1>9, QuietCommand

\* The pipe of a peer that has closed is given back: it was not its turn.
LEMMA MsgTerminated ==
  ASSUME RouterInv, MessageInv, NEW p \in Pipes, xpipe_terminated(p)
  PROVE  MessageInv'
<1> DEFINE e == pipe[p]
           x == [e EXCEPT !.state = "deallocated"]
<1>1. /\ e \in Ends
      /\ Conn(p, cmds[p], inbox[p], e, peer[p].phase,
              Listed(fq), ActivePipes(fq), anonymous)
  BY ConnTypes
<1>2. WellFormed(Pipes, fq) /\ Writers /\ Table /\ pipe \in [Pipes -> Ends]
  BY DEF RouterInv, SocketTypes, MessageInv
<1>3. /\ Handles(p, "pipe_term_ack") /\ pipe' = [pipe EXCEPT ![p] = x] /\ inbox' = inbox
      /\ fq' = IF p \in anonymous THEN fq ELSE Terminated(fq, p)
      /\ outPipes' = [i \in DOMAIN outPipes \ {e.id} |-> outPipes[i]]
      /\ aborted' = aborted
  BY DEF xpipe_terminated
<1>4. cmds[p] # << >> /\ Head(cmds[p]) = "pipe_term_ack"
  BY <1>3, HandlesFacts
<1>5. x.state = "deallocated"
  BY <1>1 DEF Ends
<1> HIDE DEF x
<1>6. p \notin anonymous => p \in Listed(fq)
  BY <1>1, <1>4, TerminatedPlace
<1>7. p \notin ActivePipes(fq)
  <2>1. "pipe_term_ack" \in Pending(cmds[p])
    BY <1>1, <1>4, PendingHead DEF Conn, Commanded
  <2> QED BY <1>1, <2>1 DEF Conn, Commanded, Placed, Reading
<1>8. SamePlaces /\ WellFormed(Pipes, fq') /\ \A r \in Pipes : r \in Listed(fq') => r \in Listed(fq)
  <2>1. CASE p \in anonymous
    BY <1>3, <2>1, PlacesKept
  <2>2. CASE p \notin anonymous
    <3>1. fq' = Terminated(fq, p) /\ p \in Listed(fq)
      BY <1>3, <1>6, <2>2
    <3>2. fq.active \in Nat
      BY <1>2, Fields
    <3> QED BY <1>2, <1>7, <3>1, <3>2, TerminatedList DEF SamePlaces
  <2> QED BY <2>1, <2>2
<1>9. Writers'
  <2> SUFFICES ASSUME NEW r \in Pipes, pipe'[r].state = "active", ~pipe'[r].outActive
               PROVE  r \in Listed(fq') /\ ~outPipes'[pipe'[r].id].active
    BY DEF Writers
  <2>1. r # p /\ pipe'[r] = pipe[r]
    BY <1>2, <1>3, <1>5
  <2>2. r \in Listed(fq) /\ ~outPipes[pipe[r].id].active
    BY <1>2, <2>1 DEF Writers
  <2>3. r \in Listed(fq')
    BY <1>2, <1>3, <1>6, <2>1, <2>2, TerminatedList
  <2>4. pipe'[r].id \in DOMAIN outPipes'
    BY <2>3, InvTerminated DEF RouterInv, Table
  <2> QED BY <1>3, <2>1, <2>2, <2>3, <2>4
<1>10. NoAbort'
  BY <1>3 DEF MessageInv, NoAbort
<1> QED BY <1>3, <1>8, <1>9, <1>10, QuietCommand

\* A listed pipe that can be read again, and one that cannot.
LEMMA MsgReadActivated ==
  ASSUME RouterInv, MessageInv, NEW p \in Pipes, Handles(p, "activate_read"),
         UNCHANGED <<inbox, table, currentOut, aborted>>,
         NEW wakes, wakes = (~pipe[p].inActive /\ pipe[p].state \in Reading),
         ~(wakes /\ p \in anonymous),
         pipe' = [pipe EXCEPT ![p] = IF wakes THEN [pipe[p] EXCEPT !.inActive = TRUE] ELSE @],
         fq' = IF wakes THEN Activated(fq, p) ELSE fq
  PROVE  MessageInv'
<1> DEFINE x == IF wakes THEN [pipe[p] EXCEPT !.inActive = TRUE] ELSE pipe[p]
<1>1. /\ pipe[p] \in Ends
      /\ Conn(p, cmds[p], inbox[p], pipe[p], peer[p].phase,
              Listed(fq), ActivePipes(fq), anonymous)
  BY ConnTypes
<1>2. WellFormed(Pipes, fq) /\ SocketTypes /\ Writers /\ pipe \in [Pipes -> Ends]
  BY DEF RouterInv, SocketTypes, MessageInv
<1>3. pipe' = [pipe EXCEPT ![p] = x] /\ outPipes' = outPipes /\ inbox' = inbox /\ aborted' = aborted
  BY <1>2 DEF table
<1>4. x.state = pipe[p].state /\ x.outActive = pipe[p].outActive /\ x.id = pipe[p].id
  BY <1>1 DEF Ends
<1> HIDE DEF x
<1>5. SamePlaces /\ WellFormed(Pipes, fq') /\ Listed(fq') = Listed(fq)
  <2>1. CASE wakes
    <3>1. p \in Listed(fq) /\ p \notin ActivePipes(fq)
      <4>1. cmds[p] # << >> /\ Head(cmds[p]) = "activate_read"
        BY HandlesFacts
      <4>2. "bind" \notin Pending(cmds[p])
        BY <1>1, <4>1, HandledCommands DEF Conn
      <4> QED BY <1>1, <2>1, <4>2 DEF Conn, Placed, Reading
    <3>2. fq.active \in Nat
      BY <1>2, Fields
    <3>3. fq' = Activated(fq, p)
      BY <2>1
    <3> QED BY <1>2, <3>1, <3>2, <3>3, ActivatedList DEF SamePlaces
  <2>2. CASE ~wakes
    BY <2>2, PlacesKept
  <2> QED BY <2>1, <2>2
<1>6. Writers'
  BY <1>2, <1>3, <1>4, <1>5, WritersKept
<1>7. NoAbort'
  BY <1>3 DEF MessageInv, NoAbort
<1> QED BY <1>3, <1>5, <1>6, <1>7, QuietCommand

\* identify_peer reads the routing id, and nothing else.
LEMMA MsgIdentifyPeer ==
  ASSUME RouterInv, MessageInv, NEW p \in Pipes, NEW command, Handles(p, command), NEW e,
         ToIdentify(p, cmds[p], inbox[p], pipe[p], e, anonymous),
         identify_peer(p, e), aborted' = aborted
  PROVE  MessageInv'
<1> DEFINE q == inbox[p]
           w == QueueAfterRead(e, q)
           ph == peer[p].phase
           n == peer[p].next
<1>1. /\ q \in Queues(InParts) /\ pipe[p] \in Ends
      /\ Conn(p, cmds[p], q, pipe[p], ph, Listed(fq), ActivePipes(fq), anonymous)
  BY ConnTypes
<1>2. /\ WellFormed(Pipes, fq) /\ SocketTypes /\ Writers /\ Table /\ pipe \in [Pipes -> Ends]
  BY DEF RouterInv, SocketTypes, MessageInv
<1>3. /\ e \in Ends /\ e.inActive /\ e.state = pipe[p].state /\ e.id = pipe[p].id
      /\ e.outActive = pipe[p].outActive
  BY DEF ToIdentify
<1>4. /\ e.state \in Reading /\ p \notin Listed(fq)
      /\ CanRead(q) => Head(q.flushed) = RoutingId /\ Head(q.flushed) # Delimiter
  BY <1>1, IdentifyFacts
<1>5. Readable(e)
  BY <1>3, <1>4 DEF Readable, Reading
<1>6. Fetches(e, q) <=> CanRead(q)
  BY <1>4, <1>5 DEF Fetches
<1>7. inbox' = [inbox EXCEPT ![p] = w]
  BY DEF identify_peer
<1>8. ASSUME NEW u, u # RoutingId, Whole(p, q.flushed, u, ph, n)
      PROVE  /\ Whole(p, w.flushed, u, ph, n)
             /\ p \in Listed(fq') /\ w.flushed # << >> => w.flushed[1] # RoutingId
  <2>1. CASE CanRead(q)
    <3>1. w = Popped(q)
      BY <1>5, <2>1 DEF QueueAfterRead
    <3>2. w.flushed = Tail(q.flushed) /\ Head(q.flushed) = q.flushed[1]
      BY <1>1, <2>1, <3>1, ReadQueue
    <3>3. q.flushed \in Seq(InParts) /\ q.flushed # << >> /\ q.flushed[1] = RoutingId
      BY <1>1, <1>4, <2>1, <3>2 DEF Queues, CanRead
    <3> HIDE DEF w
    <3> QED BY <1>8, <3>2, <3>3, WholeAfterId
  <2>2. CASE ~CanRead(q)
    <3>1. w = CheckedEmpty(q)
      BY <1>5, <2>2 DEF QueueAfterRead
    <3>2. w.flushed = q.flushed /\ q.flushed = << >>
      BY <1>1, <2>2, <3>1, ReadQueue DEF CanRead
    <3> HIDE DEF w
    <3> QED BY <1>8, <3>2
  <2> QED BY <2>1, <2>2
<1>9. pipe[p].state = "active" => pipe[p].outActive
  BY <1>2, <1>4 DEF Writers
<1>10. /\ SamePlaces /\ WellFormed(Pipes, fq') /\ Writers'
       /\ \A r \in Pipes : r # p /\ r \in Listed(fq') => r \in Listed(fq)
  <2>1. CASE CanRead(q) /\ ~Taken(IdOf(p))
    <3> DEFINE x == [e EXCEPT !.id = IdOf(p)]
    <3>1. EndAfterRead(e, q) = e
      BY <1>6, <2>1 DEF EndAfterRead
    <3>2. x.state = e.state /\ x.outActive = e.outActive
      BY <1>3 DEF Ends
    <3>3. /\ pipe' = [pipe EXCEPT ![p] = x] /\ outPipes' = add_out_pipe(IdOf(p), p)
          /\ fq' = Attached(fq, p)
      BY <1>4, <1>6, <2>1, <3>1 DEF identify_peer
    <3> HIDE DEF x
    <3>4. fq.active \in Nat
      BY <1>2, Fields
    <3>5. SamePlaces /\ WellFormed(Pipes, fq') /\ Listed(fq') = Listed(fq) \cup {p}
      BY <1>2, <1>4, <3>3, <3>4, AttachedList DEF SamePlaces
    <3>6. Writers'
      <4> SUFFICES ASSUME NEW r \in Pipes, pipe'[r].state = "active", ~pipe'[r].outActive
                   PROVE  r \in Listed(fq') /\ ~outPipes'[pipe'[r].id].active
        BY DEF Writers
      <4>1. pipe'[p] = x /\ (r # p => pipe'[r] = pipe[r])
        BY <1>2, <3>3
      <4>2. r # p
        BY <1>3, <1>9, <3>2, <4>1
      <4>3. r \in Listed(fq) /\ ~outPipes[pipe[r].id].active /\ pipe'[r] = pipe[r]
        BY <1>2, <4>1, <4>2 DEF Writers
      <4>4. pipe[r].id \in DOMAIN outPipes /\ pipe[r].id # IdOf(p)
        BY <1>2, <2>1, <4>3 DEF Table, Taken
      <4>5. outPipes'[pipe[r].id] = outPipes[pipe[r].id]
        BY <3>3, <4>4 DEF add_out_pipe
      <4> QED BY <3>5, <4>3, <4>5
    <3> QED BY <3>5, <3>6
  <2>2. CASE ~(CanRead(q) /\ ~Taken(IdOf(p)))
    <3> DEFINE x == EndAfterRead(e, q)
    <3>1. pipe' = [pipe EXCEPT ![p] = x] /\ outPipes' = outPipes /\ fq' = fq
      BY <1>4, <1>6, <2>2 DEF identify_peer
    <3>2. EndRead(e, q, x)
      BY <1>3, ReadEnd
    <3>3. x.state = e.state /\ x.outActive = e.outActive /\ x.id = e.id
      BY <1>5, <1>6, <3>2 DEF EndRead
    <3> HIDE DEF x
    <3>4. Writers'
      BY <1>2, <1>3, <3>1, <3>3, WritersKept
    <3> QED BY <3>1, <3>4, PlacesKept
  <2> QED BY <2>1, <2>2
<1>11. /\ prefetched' = prefetched /\ got' = got /\ moreIn' = moreIn /\ due' = due
       /\ peer' = peer /\ Calls'
  BY CommandLeaves
<1>12. \E b \in Pipes \cup {NoPipe}, k \in Nat : Serving(b, k)'
  <2> HIDE DEF w
  <2> QED BY <1>7, <1>8, <1>10, <1>11, StepServes
<1>13. NoAbort'
  BY DEF MessageInv, NoAbort
<1> QED BY <1>10, <1>11, <1>12, <1>13 DEF MessageInv

\* A connection is attached.
LEMMA MsgAttach ==
  ASSUME RouterInv, MessageInv, NEW p \in Pipes, xattach_pipe(p)
  PROVE  MessageInv'
<1>1. /\ cmds[p] \in Seq(CommandNames) /\ pipe[p] \in Ends
      /\ Conn(p, cmds[p], inbox[p], pipe[p], peer[p].phase,
              Listed(fq), ActivePipes(fq), anonymous)
  BY ConnTypes
<1>2. Handles(p, "bind") /\ identify_peer(p, pipe[p]) /\ aborted' = aborted
  BY DEF xattach_pipe
<1>3. cmds[p] # << >> /\ Head(cmds[p]) = "bind"
  BY <1>2, HandlesFacts
<1>4. "bind" \in Pending(cmds[p])
  BY <1>1, <1>3, PendingHead
<1>5. pipe[p].inActive
  BY <1>1, <1>4 DEF Conn, Placed
<1>6. ToIdentify(p, cmds[p], inbox[p], pipe[p], pipe[p], anonymous)
  BY <1>1, <1>3, <1>5 DEF ToIdentify
<1> QED BY <1>2, <1>6, MsgIdentifyPeer

\* A pipe is worth reading again.
LEMMA MsgRead ==
  ASSUME RouterInv, MessageInv, NEW p \in Pipes, xread_activated(p)
  PROVE  MessageInv'
<1> DEFINE wakes == ~pipe[p].inActive /\ pipe[p].state \in Reading
           woken == [pipe[p] EXCEPT !.inActive = TRUE]
<1>1. pipe[p] \in Ends
  BY ConnTypes
<1>2. /\ Handles(p, "activate_read") /\ currentOut' = currentOut /\ aborted' = aborted
      /\ \/ wakes /\ p \in anonymous /\ identify_peer(p, woken)
         \/ /\ ~(wakes /\ p \in anonymous)
            /\ pipe' = [pipe EXCEPT ![p] = IF wakes THEN woken ELSE @]
            /\ fq' = IF wakes THEN Activated(fq, p) ELSE fq
            /\ UNCHANGED <<inbox, table>>
  BY DEF xread_activated, Reading
<1>3. cmds[p] # << >> /\ Head(cmds[p]) = "activate_read"
  BY <1>2, HandlesFacts
<1>4. CASE wakes /\ p \in anonymous /\ identify_peer(p, woken)
  <2>1. /\ woken \in Ends /\ woken.inActive /\ woken.state = pipe[p].state
        /\ woken.id = pipe[p].id /\ woken.outActive = pipe[p].outActive
    BY <1>1 DEF Ends
  <2> HIDE DEF woken
  <2>2. ToIdentify(p, cmds[p], inbox[p], pipe[p], woken, anonymous)
    BY <1>3, <1>4, <2>1 DEF ToIdentify
  <2> QED BY <1>2, <1>4, <2>2, MsgIdentifyPeer
<1>5. CASE /\ ~(wakes /\ p \in anonymous)
           /\ pipe' = [pipe EXCEPT ![p] = IF wakes THEN woken ELSE @]
           /\ fq' = IF wakes THEN Activated(fq, p) ELSE fq
           /\ UNCHANGED <<inbox, table>>
  BY <1>2, <1>5, MsgReadActivated
<1> QED BY <1>2, <1>4, <1>5
-----------------------------------------------------------------------------
(* The steps that receive.                                                 *)

\* In the middle of a message there is more to come.
LEMMA GoesOn ==
  ASSUME NEW g, NEW p \in Pipes, NEW n, NEW k \in Nat, GotIs(g, p, n, k), k < PartsOf[p]
  PROVE  g # << >> /\ g[Len(g)].more
<1>1. Len(g) = k + 1
  BY DEF GotIs
<1>2. g # << >>
  BY <1>1
<1>3. CASE k = 0
  BY <1>1, <1>2, <1>3 DEF GotIs
<1>4. CASE k # 0
  <2>1. k \in 1 .. k
    BY <1>4
  <2>2. g[k + 1] = [frame |-> Part(p, n, k), more |-> (k < PartsOf[p])]
    BY <2>1 DEF GotIs
  <2>3. g[k + 1].more = (k < PartsOf[p])
    BY <2>2
  <2> QED BY <1>1, <1>2, <2>3
<1> QED BY <1>3, <1>4

\* The number before the next one.
LEMMA NumberBefore ==
  ASSUME NEW n \in 0 .. Numbers - 1
  PROVE  /\ (n + 1) % Numbers \in 0 .. Numbers - 1
         /\ (((n + 1) % Numbers) + Numbers - 1) % Numbers = n
<1>1. Numbers \in Nat /\ Numbers > 0
  BY RouterAssumption
<1>2. CASE n + 1 = Numbers
  <2>1. (n + 1) % Numbers = 0
    BY <1>1, <1>2
  <2>2. (0 + Numbers - 1) % Numbers = n
    BY <1>1, <1>2
  <2> QED BY <1>1, <2>1, <2>2
<1>3. CASE n + 1 < Numbers
  <2>1. (n + 1) % Numbers = n + 1
    BY <1>1, <1>3
  <2>2. (n + Numbers) % Numbers = n
    BY <1>1
  <2> QED BY <1>1, <1>3, <2>1, <2>2
<1> QED BY <1>1, <1>2, <1>3

\* The application is given the id of a peer.
LEMMA IdReceived ==
  ASSUME NEW p \in Pipes, NEW n, Between, ~moreOut, Receives(IdOf(p), TRUE)
  PROVE  /\ due' = due /\ GotIs(got', p, n, 0) /\ got' \in Seq(Frames)
         /\ got' # << >> /\ got'[Len(got')].more
<1> DEFINE f == [frame |-> IdOf(p), more |-> TRUE]
<1>1. BetweenMessages
  BY DEF BetweenMessages, Between
<1>2. got' = Append(<< >>, f) /\ due' = due
  BY <1>1 DEF Receives
<1>3. f \in Frames /\ f.more
  BY DEF Frames, IdOf, Ids
<1> HIDE DEF f
<1>4. Append(<< >>, f) = <<f>>
  OBVIOUS
<1>5. Len(got') = 1 /\ got'[1] = f /\ got' \in Seq(Frames) /\ got' # << >>
  BY <1>2, <1>3, <1>4
<1>6. GotIs(got', p, n, 0)
  BY <1>5 DEF GotIs, f
<1> QED BY <1>2, <1>3, <1>5, <1>6

\* The application is given the next part.
LEMMA PartReceived ==
  ASSUME RouterInv, Calls, NEW p \in Pipes, NEW k \in Nat, k < PartsOf[p],
         GotIs(got, p, due[p], k), NEW part, part = Part(p, due[p], k + 1), part \in InParts,
         Receives(part, part.more)
  PROVE  /\ part.more = (k + 1 < PartsOf[p])
         /\ got' \in Seq(Frames) /\ got' # << >> /\ GotIs(got', p, due[p], k + 1)
         /\ got'[Len(got')].more = (k + 1 < PartsOf[p])
         /\ k + 1 < PartsOf[p] => due' = due
         /\ ~(k + 1 < PartsOf[p]) => /\ PartsOf[p] = k + 1
                                     /\ due' = [due EXCEPT ![p] = (due[p] + 1) % Numbers]
         /\ Finished'
<1> DEFINE f == [frame |-> part, more |-> part.more]
           n == due[p]
<1>1. due \in [Pipes -> 0 .. Numbers - 1] /\ got \in Seq(Frames) /\ PartsOf[p] \in Nat
  BY RouterAssumption DEF RouterInv, SocketTypes, Calls
<1>2. part.from = p /\ part.more = (k + 1 < PartsOf[p])
  BY PartFields
<1>3. got # << >> /\ got[Len(got)].more
  BY GoesOn
<1>4. got' = Append(got, f) /\ due' = IF part.more THEN due
                                      ELSE [due EXCEPT ![p] = (due[p] + 1) % Numbers]
  BY <1>1, <1>2, <1>3 DEF Receives, BetweenMessages
<1>5. part.more \in BOOLEAN /\ f \in Frames /\ f.more = part.more
  <2>1. (k + 1 < PartsOf[p]) \in BOOLEAN
    OBVIOUS
  <2>2. part.more \in BOOLEAN
    BY <1>2, <2>1, Zenon
  <2>3. \A m \in BOOLEAN : [frame |-> part, more |-> m] \in Frames
    BY DEF Frames
  <2> QED BY <2>2, <2>3
<1>6. Len(got) = k + 1
  BY DEF GotIs
<1> HIDE DEF f
<1>7. /\ got' \in Seq(Frames) /\ Len(got') = k + 2 /\ got'[k + 2] = f
      /\ \A i \in 1 .. k + 1 : got'[i] = got[i]
  BY <1>1, <1>4, <1>5, <1>6
<1>8. got' # << >>
  BY <1>7
<1>9. GotIs(got', p, n, k + 1)
  <2>1. got'[1] = [frame |-> IdOf(p), more |-> TRUE]
    BY <1>7 DEF GotIs
  <2>2. ASSUME NEW i \in 1 .. k + 1
        PROVE  got'[i + 1] = [frame |-> Part(p, n, i), more |-> (i < PartsOf[p])]
    <3>1. CASE i = k + 1
      BY <1>2, <1>7, <3>1 DEF f
    <3>2. CASE i # k + 1
      <4>1. i \in 1 .. k /\ i + 1 \in 1 .. k + 1
        BY <3>2
      <4> QED BY <1>7, <4>1 DEF GotIs
    <3> QED BY <3>1, <3>2
  <2> QED BY <1>7, <2>1, <2>2 DEF GotIs
<1>10. got'[Len(got')].more = part.more
  BY <1>5, <1>7
<1>11. ~(k + 1 < PartsOf[p]) => PartsOf[p] = k + 1
  BY <1>1
<1>12. Finished'
  <2>1. CASE part.more
    BY <1>8, <1>10, <2>1 DEF Finished, Between
  <2>2. CASE ~part.more
    <3>1. due'[p] = (n + 1) % Numbers
      BY <1>1, <1>4, <2>2
    <3>2. n \in 0 .. Numbers - 1
      BY <1>1
    <3>3. (due'[p] + Numbers - 1) % Numbers = n
      BY <3>1, <3>2, NumberBefore
    <3>4. PartsOf[p] = k + 1 /\ PartsOf[p] > 0
      <4>1. ~(k + 1 < PartsOf[p])
        BY <1>2, <2>2, Zenon
      <4> QED BY <1>1, <1>11, <4>1
    <3>5. PartsOf[p] > 0 /\ GotIs(got', p, (due'[p] + Numbers - 1) % Numbers, PartsOf[p])
      BY <1>9, <3>3, <3>4
    <3> QED BY <3>5 DEF Finished
  <2> QED BY <1>5, <2>1, <2>2
<1> QED BY <1>2, <1>4, <1>7, <1>8, <1>9, <1>10, <1>11, <1>12

\* The begin of a call, and its end when there is nothing.
LEMMA MsgAsk ==
  ASSUME RouterInv, MessageInv, Ask("xrecv") \/ Ask("xhas_in") \/ RecvNothing
  PROVE  MessageInv'
<1>1. /\ peer' = peer /\ inbox' = inbox /\ pipe' = pipe /\ outPipes' = outPipes /\ fq' = fq
      /\ prefetched' = prefetched /\ moreIn' = moreIn /\ got' = got /\ due' = due
      /\ moreOut' = moreOut /\ aborted' = aborted
  BY DEF Ask, RecvNothing, peers, table, output
<1>2. Calls'
  <2>1. /\ call' # "none" => ~prefetched.held
        /\ call' = "xrecv" => ~moreOut
        /\ call' = "xhas_in" => ~moreIn
    BY DEF Ask, RecvNothing
  <2> QED BY <1>1, <2>1 DEF MessageInv, Calls, Finished, Between
<1>3. Writers' /\ NoAbort'
  BY <1>1 DEF MessageInv, Writers, NoAbort
<1>4. PICK b \in Pipes \cup {NoPipe}, k \in Nat : Serving(b, k)
  BY DEF MessageInv
<1>5. Serving(b, k)'
  BY <1>1, <1>4 DEF Serving, Lines, Holding, Between, Turn, InLine
<1> QED BY <1>2, <1>3, <1>5 DEF MessageInv

\* What is to come after the last part of a message.
LEMMA UpcomingNext ==
  ASSUME NEW p \in Pipes, due \in [Pipes -> 0 .. Numbers - 1],
         due' = [due EXCEPT ![p] = (due[p] + 1) % Numbers], NEW r \in Pipes
  PROVE  Upcoming(due', r, NoPipe, 0) =
           IF r = p THEN Part(p, (due[p] + 1) % Numbers, 1) ELSE Part(r, due[r], 1)
<1>1. r # NoPipe
  BY RouterAssumption DEF Ids
<1> QED BY <1>1 DEF Upcoming

\* xrecv of what was prefetched: the id of the peer, then the first part.
LEMMA MsgPrefetched ==
  ASSUME RouterInv, MessageInv, RecvPrefetched
  PROVE  MessageInv'
<1>1. /\ peer' = peer /\ inbox' = inbox /\ pipe' = pipe /\ outPipes' = outPipes /\ fq' = fq
      /\ moreOut' = moreOut /\ aborted' = aborted /\ call' = call
      /\ call = "none" /\ ~moreOut /\ prefetched.held
  BY DEF RecvPrefetched, peers, table, output
<1>2. Writers' /\ NoAbort'
  BY <1>1 DEF MessageInv, Writers, NoAbort
<1>3. PICK p \in Pipes \cup {NoPipe}, k \in Nat : Serving(p, k)
  BY DEF MessageInv
<1>4. p \in Pipes /\ p # NoPipe
  <2>1. p # NoPipe
    BY <1>1, <1>3 DEF Serving, Lines, Holding
  <2> QED BY <2>1
<1>5. /\ k = 1 /\ 1 \in 1 .. PartsOf[p] /\ prefetched.msg = Part(p, due[p], 1)
      /\ prefetched.idSent => GotIs(got, p, due[p], 0)
      /\ ~prefetched.idSent => Between /\ ~moreIn /\ prefetched.id = IdOf(p)
  BY <1>1, <1>3, <1>4 DEF Serving, Lines, Holding
<1>6. /\ Calls /\ due \in [Pipes -> 0 .. Numbers - 1] /\ PartsOf[p] \in Nat
      /\ prefetched \in [held : BOOLEAN, idSent : BOOLEAN, id : Ids \cup {NoPipe}, msg : InParts]
  BY <1>4, RouterAssumption DEF MessageInv, Calls, RouterInv, SocketTypes
<1>7. CASE ~prefetched.idSent
  <2>1. /\ Receives(prefetched.id, TRUE) /\ moreIn' = TRUE
        /\ prefetched' = [prefetched EXCEPT !.idSent = TRUE]
    BY <1>7 DEF RecvPrefetched
  <2>2. /\ due' = due /\ GotIs(got', p, due[p], 0) /\ got' \in Seq(Frames)
        /\ got' # << >> /\ got'[Len(got')].more
    BY <1>1, <1>4, <1>5, <1>7, <2>1, IdReceived
  <2>3. /\ prefetched' \in [held : BOOLEAN, idSent : BOOLEAN, id : Ids \cup {NoPipe}, msg : InParts]
        /\ prefetched'.held = prefetched.held /\ prefetched'.idSent = TRUE
        /\ prefetched'.msg = prefetched.msg
    BY <1>6, <2>1
  <2>4. Calls'
    BY <1>1, <2>1, <2>2, <2>3 DEF Calls, Finished, Between
  <2>5. Holding(p, k)'
    BY <1>1, <1>4, <1>5, <2>2, <2>3 DEF Holding
  <2>6. Serving(p, k)'
    BY <1>1, <1>3, <2>2, <2>5 DEF Serving, Lines, Turn, InLine
  <2> QED BY <1>2, <2>4, <2>6 DEF MessageInv
<1>8. CASE prefetched.idSent
  <2> DEFINE part == prefetched.msg
  <2>1. /\ Receives(part, part.more) /\ moreIn' = part.more /\ prefetched' = NothingPrefetched
    BY <1>8 DEF RecvPrefetched
  <2>2. /\ 0 < PartsOf[p] /\ part = Part(p, due[p], 0 + 1) /\ part \in InParts
        /\ GotIs(got, p, due[p], 0)
    BY <1>5, <1>6, <1>8
  <2> HIDE DEF part
  <2>3. /\ part.more = (0 + 1 < PartsOf[p])
        /\ got' \in Seq(Frames) /\ got' # << >> /\ GotIs(got', p, due[p], 0 + 1)
        /\ got'[Len(got')].more = (0 + 1 < PartsOf[p])
        /\ 0 + 1 < PartsOf[p] => due' = due
        /\ ~(0 + 1 < PartsOf[p]) => /\ PartsOf[p] = 0 + 1
                                    /\ due' = [due EXCEPT ![p] = (due[p] + 1) % Numbers]
        /\ Finished'
    BY <1>4, <1>6, <2>1, <2>2, PartReceived
  <2>4. /\ prefetched' \in [held : BOOLEAN, idSent : BOOLEAN, id : Ids \cup {NoPipe}, msg : InParts]
        /\ ~prefetched'.held
    BY <2>1 DEF NothingPrefetched, InParts
  <2>5. moreIn' = (1 < PartsOf[p]) /\ moreIn' \in BOOLEAN
    BY <2>1, <2>3
  <2>6. Calls'
    BY <1>1, <2>3, <2>4, <2>5 DEF Calls
  <2>7. CASE 1 < PartsOf[p]
    <3>1. Holding(p, k)'
      <4>1. moreIn'
        BY <2>5, <2>7, Zenon
      <4>2. 0 + 1 = 1 /\ due' = due
        BY <2>3, <2>7
      <4>3. k < PartsOf[p] /\ k \in 1 .. PartsOf[p] /\ GotIs(got', p, due'[p], k)
        BY <1>5, <2>3, <2>7, <4>2
      <4> QED BY <1>4, <2>4, <4>1, <4>3 DEF Holding
    <3>2. Serving(p, k)'
      BY <1>1, <1>3, <2>3, <2>7, <3>1 DEF Serving, Lines, Turn, InLine
    <3> QED BY <1>2, <2>6, <3>2 DEF MessageInv
  <2>8. CASE ~(1 < PartsOf[p])
    <3>1. Holding(NoPipe, 0)'
      BY <2>3, <2>4, <2>5, <2>8 DEF Holding, Between
    <3>2. Turn(NoPipe, 0)'
      BY <1>1, <1>3, <1>5, <2>8 DEF Serving, Lines, Turn
    <3>3. ASSUME NEW r \in Pipes PROVE InLine(r, Upcoming(due, r, NoPipe, 0))'
      <4>1. Upcoming(due', r, NoPipe, 0) = Upcoming(due, r, p, k)
        <5>1. Upcoming(due', r, NoPipe, 0) =
                IF r = p THEN Part(p, (due[p] + 1) % Numbers, 1) ELSE Part(r, due[r], 1)
          BY <1>4, <1>6, <2>3, <2>8, UpcomingNext
        <5> QED BY <1>5, <2>8, <5>1 DEF Upcoming
      <4>2. InLine(r, Upcoming(due, r, p, k))
        BY <1>3 DEF Serving, Lines
      <4> QED BY <1>1, <4>1, <4>2 DEF InLine
    <3>4. Serving(NoPipe, 0)'
      BY <3>1, <3>2, <3>3 DEF Serving, Lines
    <3> QED BY <1>2, <2>6, <3>4 DEF MessageInv
  <2> QED BY <2>7, <2>8
<1> QED BY <1>7, <1>8

\* What is to come once the pipe p has given a part.
Moves(p, part, b, k, c, j) ==
    /\ Upcoming(due', p, c, j) = After(p, part)
    /\ \A r \in Pipes : r # p => Upcoming(due', r, c, j) = Upcoming(due, r, b, k)

\* The queues after the pipe p has given a part.
LEMMA FetchedLines ==
  ASSUME RouterInv, NEW p \in Pipes, peer' = peer, NEW w, inbox' = [inbox EXCEPT ![p] = w],
         inbox[p].flushed # << >>, w.flushed = Tail(inbox[p].flushed),
         NEW part, inbox[p].flushed[1] = part, part # Delimiter,
         Listed(fq') = Listed(fq), NEW b, NEW k, NEW c, NEW j,
         Lines(b, k), Moves(p, part, b, k, c, j)
  PROVE  Lines(c, j)'
<1> DEFINE s == inbox[p].flushed
           t == Tail(s)
<1>1. inbox \in [Pipes -> Queues(InParts)] /\ s \in Seq(InParts)
  <2>1. inbox[p] \in Queues(InParts)
    BY ConnTypes
  <2> QED BY <2>1 DEF RouterInv, SocketTypes, Queues
<1>2. inbox'[p] = w /\ \A r \in Pipes : r # p => inbox'[r] = inbox[r]
  BY <1>1
<1>3. s[1] # Delimiter
  OBVIOUS
<1>4. Whole(p, t, After(p, s[1]), peer[p].phase, peer[p].next)
  <2>1. Whole(p, s, Upcoming(due, p, b, k), peer[p].phase, peer[p].next)
    BY DEF InLine, Lines
  <2> HIDE DEF s
  <2> QED BY <1>1, <1>3, <2>1, WholeRead DEF s
<1>5. t # << >> => t[1] # RoutingId
  <2>1. t # << >> => MayFollow(After(p, s[1]), t[1])
    <3>1. Linked(p, s)
      BY DEF InLine, Whole, Lines
    <3> QED BY <1>1, <3>1, LinkedTail
  <2>2. After(p, s[1]) # RoutingId
    BY UpcomingIsPart DEF Moves
  <2>3. Delimiter # RoutingId
    BY PartsWritten
  <2> QED BY <2>1, <2>2, <2>3 DEF MayFollow
<1> HIDE DEF s, t
<1>6. w.flushed = t
  BY DEF s, t
<1> SUFFICES ASSUME NEW r \in Pipes PROVE InLine(r, Upcoming(due, r, c, j))'
  BY DEF Lines
<1>7. CASE r = p
  BY <1>2, <1>4, <1>5, <1>6, <1>7 DEF InLine, Moves, s
<1>8. CASE r # p
  BY <1>2, <1>8 DEF InLine, Lines, Moves
<1> QED BY <1>7, <1>8

\* What a step in which the pipe p gives a part leaves, with the part.
Given(p, part) ==
    /\ call # "none" /\ fq.active > 0 /\ p = Current(fq)
    /\ peer' = peer /\ outPipes' = outPipes /\ moreOut' = moreOut /\ aborted' = aborted
    /\ pipe' = pipe /\ call' = "none"
    /\ inbox' = [inbox EXCEPT ![p] = Popped(@)]
    /\ inbox[p].flushed # << >> /\ inbox[p].flushed[1] = part /\ part # Delimiter
    /\ fq' = FqAfterPart(part)

\* The turn after a part.
LEMMA PartTurn ==
  ASSUME RouterInv, NEW p, NEW part, Given(p, part)
  PROVE  /\ p \in Pipes /\ p \in Listed(fq) /\ Listed(fq') = Listed(fq)
         /\ IF part.more THEN fq'.more /\ fq'.active > 0 /\ Current(fq') = p ELSE ~fq'.more
         /\ Popped(inbox[p]).flushed = Tail(inbox[p].flushed)
         /\ part \in InParts
<1>1. WellFormed(Pipes, fq) /\ fq.active > 0
  BY DEF RouterInv, SocketTypes, Given
<1>2. p \in Pipes /\ p \in Listed(fq)
  BY <1>1, CurrentIsActive DEF Given
<1>3. Listed(fq') = Listed(fq)
  BY <1>1, AfterPart DEF Given
<1>4. part.more => fq'.more /\ fq'.active > 0 /\ Current(fq') = p
  <2> SUFFICES ASSUME part.more PROVE fq'.more /\ fq'.active > 0 /\ Current(fq') = p
    OBVIOUS
  <2>1. fq' = [fq EXCEPT !.more = TRUE]
    BY DEF Given, FqAfterPart
  <2>2. fq \in PipeLists(Pipes)
    BY <1>1 DEF WellFormed
  <2>3. fq'.pipes = fq.pipes /\ fq'.active = fq.active /\ fq'.current = fq.current /\ fq'.more
    BY <2>1, <2>2 DEF PipeLists
  <2> QED BY <1>1, <2>3 DEF Current, Given
<1>5. ~part.more => ~fq'.more
  <2> SUFFICES ASSUME ~part.more PROVE ~fq'.more
    OBVIOUS
  <2>1. fq' = NextTurn(fq)
    BY DEF Given, FqAfterPart
  <2>2. fq'.more = FALSE
    BY <1>1, <2>1, NextTurnList
  <2> QED BY <2>2
<1>6. Popped(inbox[p]).flushed = Tail(inbox[p].flushed) /\ part \in InParts
  <2>1. inbox[p] \in Queues(InParts)
    BY <1>2, ConnTypes
  <2>2. CanRead(inbox[p])
    BY DEF Given, CanRead
  <2>3. Head(inbox[p].flushed) \in InParts /\ Head(inbox[p].flushed) = part
    BY <2>1, <2>2, ReadQueue DEF Given
  <2> QED BY <2>1, <2>2, <2>3, ReadQueue
<1> QED BY <1>2, <1>3, <1>4, <1>5, <1>6

\* The part is the one that is to come.
LEMMA GivenIsUpcoming ==
  ASSUME RouterInv, NEW p, NEW part, Given(p, part), NEW b, NEW k, Serving(b, k)
  PROVE  part = Upcoming(due, p, b, k)
<1>1. p \in Pipes /\ p \in Listed(fq)
  BY PartTurn
<1>2. InLine(p, Upcoming(due, p, b, k))
  BY <1>1 DEF Serving, Lines
<1> QED BY <1>1, <1>2 DEF InLine, Whole, MayFollow, Given

\* A later part of the message that is being received.
LEMMA LaterPart ==
  ASSUME RouterInv, MessageInv, NEW p, NEW part, Given(p, part), fq.more,
         xrecvTakes(p, part) \/ xhas_inTakes(p, part)
  PROVE  MessageInv'
<1>1. /\ p \in Pipes /\ p \in Listed(fq) /\ Listed(fq') = Listed(fq)
      /\ IF part.more THEN fq'.more /\ fq'.active > 0 /\ Current(fq') = p ELSE ~fq'.more
      /\ Popped(inbox[p]).flushed = Tail(inbox[p].flushed) /\ part \in InParts
  BY PartTurn
<1>2. PICK b \in Pipes \cup {NoPipe}, k \in Nat : Serving(b, k)
  BY DEF MessageInv
<1>3. b = p /\ k < PartsOf[p] /\ p # NoPipe
  BY <1>1, <1>2, RouterAssumption DEF Serving, Turn, Given, Ids
<1>4. part = Part(p, due[p], k + 1)
  BY <1>2, <1>3, GivenIsUpcoming DEF Upcoming
<1>5. Calls /\ ~prefetched.held /\ due \in [Pipes -> 0 .. Numbers - 1] /\ PartsOf[p] \in Nat
  BY <1>1, RouterAssumption DEF MessageInv, Calls, Given, RouterInv, SocketTypes
<1>6. moreIn /\ GotIs(got, p, due[p], k) /\ k \in 1 .. PartsOf[p]
  BY <1>2, <1>3, <1>5 DEF Serving, Holding
<1>7. Receives(part, part.more) /\ moreIn' = part.more /\ prefetched' = prefetched
  BY <1>5, <1>6 DEF xrecvTakes, xhas_inTakes, Calls
<1>8. /\ part.more = (k + 1 < PartsOf[p])
      /\ got' \in Seq(Frames) /\ got' # << >> /\ GotIs(got', p, due[p], k + 1)
      /\ got'[Len(got')].more = (k + 1 < PartsOf[p])
      /\ k + 1 < PartsOf[p] => due' = due
      /\ ~(k + 1 < PartsOf[p]) => /\ PartsOf[p] = k + 1
                                  /\ due' = [due EXCEPT ![p] = (due[p] + 1) % Numbers]
      /\ Finished'
  BY <1>1, <1>3, <1>4, <1>5, <1>6, <1>7, PartReceived
<1>9. moreIn' \in BOOLEAN
  BY <1>7, <1>8
<1>10. Calls'
  <2>1. ~moreOut /\ call' = "none" /\ moreOut' = moreOut
    <3>1. got # << >>
      BY <1>3, <1>6, GoesOn
    <3> QED BY <1>5, <3>1 DEF Calls, Given
  <2> QED BY <1>5, <1>7, <1>8, <1>9, <2>1 DEF Calls
<1>11. Writers' /\ NoAbort'
  BY <1>1 DEF MessageInv, Writers, NoAbort, Given
<1>12. /\ peer' = peer /\ inbox' = [inbox EXCEPT ![p] = Popped(inbox[p])]
       /\ inbox[p].flushed # << >> /\ inbox[p].flushed[1] = part /\ part # Delimiter
  BY DEF Given
<1>13. Lines(b, k)
  BY <1>2 DEF Serving
<1>14. After(p, part) = IF k + 1 < PartsOf[p] THEN Part(p, due[p], (k + 1) + 1)
                        ELSE Part(p, (due[p] + 1) % Numbers, 1)
  BY <1>1, <1>4, AfterPartIs
<1>15. CASE k + 1 < PartsOf[p]
  <2>1. part.more /\ moreIn' /\ due' = due
    BY <1>7, <1>8, <1>15, Zenon
  <2>2. k + 1 \in 1 .. PartsOf[p] /\ k + 1 \in Nat
    BY <1>5, <1>15
  <2>3. Holding(p, k + 1)'
    BY <1>1, <1>3, <1>5, <1>7, <1>8, <1>15, <2>1, <2>2 DEF Holding
  <2>4. Turn(p, k + 1)'
    BY <1>1, <1>15, <2>1 DEF Turn
  <2>5. Moves(p, part, b, k, p, k + 1)
    BY <1>3, <1>14, <1>15, <2>1 DEF Upcoming, Moves
  <2>6. Lines(p, k + 1)'
    BY <1>1, <1>12, <1>13, <2>5, FetchedLines
  <2>7. Serving(p, k + 1)'
    BY <2>3, <2>4, <2>6 DEF Serving
  <2> QED BY <1>1, <1>10, <1>11, <2>2, <2>7 DEF MessageInv
<1>16. CASE ~(k + 1 < PartsOf[p])
  <2>1. ~part.more /\ ~moreIn' /\ ~got'[Len(got')].more
    BY <1>7, <1>8, <1>16, Zenon
  <2>2. Holding(NoPipe, 0)'
    BY <1>5, <1>7, <2>1 DEF Holding, Between
  <2>3. Turn(NoPipe, 0)'
    BY <1>1, <2>1 DEF Turn
  <2>4. \A r \in Pipes : Upcoming(due', r, NoPipe, 0) =
          IF r = p THEN Part(p, (due[p] + 1) % Numbers, 1) ELSE Part(r, due[r], 1)
    BY <1>1, <1>5, <1>8, <1>16, UpcomingNext
  <2>5. Moves(p, part, b, k, NoPipe, 0)
    BY <1>1, <1>3, <1>14, <1>16, <2>4 DEF Upcoming, Moves
  <2>6. Lines(NoPipe, 0)'
    BY <1>1, <1>12, <1>13, <2>5, FetchedLines
  <2>7. Serving(NoPipe, 0)'
    BY <2>2, <2>3, <2>6 DEF Serving
  <2> QED BY <1>10, <1>11, <2>7 DEF MessageInv
<1> QED BY <1>15, <1>16

\* The first part of a message: it is kept, and the id goes ahead of it.
LEMMA FirstPart ==
  ASSUME RouterInv, MessageInv, NEW p, NEW part, Given(p, part), ~fq.more,
         xrecvTakes(p, part) \/ xhas_inTakes(p, part)
  PROVE  MessageInv'
<1>1. /\ p \in Pipes /\ p \in Listed(fq) /\ Listed(fq') = Listed(fq)
      /\ IF part.more THEN fq'.more /\ fq'.active > 0 /\ Current(fq') = p ELSE ~fq'.more
      /\ Popped(inbox[p]).flushed = Tail(inbox[p].flushed) /\ part \in InParts
  BY PartTurn
<1>2. PICK b \in Pipes \cup {NoPipe}, k \in Nat : Serving(b, k)
  BY DEF MessageInv
<1>3. Calls /\ ~prefetched.held /\ p # NoPipe /\ PartsOf[p] \in Nat
  BY <1>1, RouterAssumption DEF MessageInv, Calls, Given, Ids
<1>4. b = NoPipe /\ Between /\ ~moreIn
  <2>1. b = NoPipe
    <3> SUFFICES ASSUME b # NoPipe PROVE FALSE
      OBVIOUS
    <3>1. k = PartsOf[b] /\ k < PartsOf[b]
      BY <1>2, <1>3 DEF Serving, Turn, Holding
    <3> QED BY <3>1
  <2> QED BY <1>2, <2>1 DEF Serving, Holding
<1>5. part = Part(p, due[p], 1)
  BY <1>1, <1>2, <1>3, <1>4, GivenIsUpcoming DEF Upcoming
<1>6. 1 \in 1 .. PartsOf[p] /\ part.more = (1 < PartsOf[p])
  BY <1>1, <1>5, PartSent, PartFields
<1>7. pipe[p].id = IdOf(p) /\ IdOf(p) \in Ids
  BY <1>1 DEF RouterInv, Table, IdOf, Ids
<1>8. Writers' /\ NoAbort'
  BY <1>1 DEF MessageInv, Writers, NoAbort, Given
<1>9. Turn(p, 1)'
  <2>1. CASE 1 < PartsOf[p]
    <3>1. part.more
      BY <1>6, <2>1, Zenon
    <3> QED BY <1>1, <2>1, <3>1 DEF Turn
  <2>2. CASE ~(1 < PartsOf[p])
    <3>1. ~part.more
      BY <1>6, <2>2, Zenon
    <3>2. PartsOf[p] = 1
      BY <1>3, <1>6, <2>2
    <3> QED BY <1>1, <3>1, <3>2 DEF Turn
  <2> QED BY <2>1, <2>2
<1>10. due' = due => Lines(p, 1)'
  <2> SUFFICES ASSUME due' = due PROVE Lines(p, 1)'
    OBVIOUS
  <2>1. After(p, part) = IF 1 < PartsOf[p] THEN Part(p, due[p], 1 + 1)
                         ELSE Part(p, (due[p] + 1) % Numbers, 1)
    BY <1>1, <1>5, AfterPartIs
  <2>2. \A r \in Pipes : r # NoPipe
    BY RouterAssumption DEF Ids
  <2>3. Moves(p, part, b, k, p, 1)
    BY <1>4, <2>1, <2>2 DEF Upcoming, Moves
  <2>4. /\ peer' = peer /\ inbox' = [inbox EXCEPT ![p] = Popped(inbox[p])]
        /\ inbox[p].flushed # << >> /\ inbox[p].flushed[1] = part /\ part # Delimiter
    BY DEF Given
  <2>5. Lines(b, k)
    BY <1>2 DEF Serving
  <2> QED BY <1>1, <2>3, <2>4, <2>5, FetchedLines
<1>11. CASE xrecvTakes(p, part)
  <2>1. /\ Receives(IdOf(p), TRUE) /\ moreIn' = moreIn
        /\ prefetched' = [held |-> TRUE, idSent |-> TRUE, id |-> NoPipe, msg |-> part]
    BY <1>4, <1>7, <1>11 DEF xrecvTakes
  <2>2. ~moreOut
    BY <1>3, <1>11 DEF Calls, xrecvTakes
  <2>3. /\ due' = due /\ GotIs(got', p, due[p], 0) /\ got' \in Seq(Frames)
        /\ got' # << >> /\ got'[Len(got')].more
    BY <1>1, <1>4, <2>1, <2>2, IdReceived
  <2>4. /\ prefetched' \in [held : BOOLEAN, idSent : BOOLEAN, id : Ids \cup {NoPipe}, msg : InParts]
        /\ prefetched'.held /\ prefetched'.idSent /\ prefetched'.msg = part
    BY <1>1, <2>1
  <2>5. Calls'
    BY <1>3, <2>1, <2>2, <2>3, <2>4 DEF Calls, Finished, Between, Given
  <2>6. Holding(p, 1)'
    BY <1>1, <1>3, <1>5, <1>6, <2>3, <2>4 DEF Holding
  <2>7. Serving(p, 1)'
    BY <1>9, <1>10, <2>3, <2>6 DEF Serving
  <2> QED BY <1>1, <1>8, <2>5, <2>7 DEF MessageInv
<1>12. CASE xhas_inTakes(p, part)
  <2>1. /\ moreIn' = moreIn /\ got' = got /\ due' = due
        /\ prefetched' = [held |-> TRUE, idSent |-> FALSE, id |-> IdOf(p), msg |-> part]
    BY <1>7, <1>12 DEF xhas_inTakes
  <2>2. /\ prefetched' \in [held : BOOLEAN, idSent : BOOLEAN, id : Ids \cup {NoPipe}, msg : InParts]
        /\ prefetched'.held /\ ~prefetched'.idSent /\ prefetched'.msg = part
        /\ prefetched'.id = IdOf(p)
    BY <1>1, <1>7, <2>1
  <2>3. Calls'
    BY <1>3, <2>1, <2>2 DEF Calls, Finished, Between, Given
  <2>4. Holding(p, 1)'
    BY <1>1, <1>3, <1>4, <1>5, <1>6, <2>1, <2>2 DEF Holding, Between
  <2>5. Serving(p, 1)'
    BY <1>9, <1>10, <2>1, <2>4 DEF Serving
  <2> QED BY <1>1, <1>8, <2>3, <2>5 DEF MessageInv
<1> QED BY <1>11, <1>12

\* A pipe in the middle of a message has the rest of it.
LEMMA RestIsThere ==
  ASSUME RouterInv, MessageInv, NEW p, p = Current(fq), fq.more
  PROVE  inbox[p].flushed # << >> /\ inbox[p].flushed[1] # Delimiter
<1>1. PICK b \in Pipes \cup {NoPipe}, k \in Nat : Serving(b, k)
  BY DEF MessageInv
<1>2. b = p /\ p \in Pipes /\ k < PartsOf[p] /\ p # NoPipe
  BY <1>1, RouterAssumption DEF Serving, Turn, Ids
<1>3. k \in 1 .. PartsOf[p]
  BY <1>1, <1>2 DEF Serving, Holding
<1> DEFINE u == Part(p, due[p], k + 1)
<1>4. InLine(p, u)
  BY <1>1, <1>2 DEF Serving, Lines, Upcoming
<1>5. u.part # 1 /\ u # Delimiter /\ u # Part(p, 0, 1)
  <2>1. u.part = k + 1 /\ Part(p, 0, 1).part = 1
    BY PartFields
  <2>2. k + 1 # 1
    BY <1>3
  <2>3. u # Delimiter
    BY <1>2, PartIsPart
  <2> HIDE DEF u
  <2> QED BY <2>1, <2>2, <2>3
<1> HIDE DEF u
<1> QED BY <1>4, <1>5 DEF InLine, Whole, MayFollow

\* A round of recvpipe.
LEMMA MsgRecvpipe ==
  ASSUME RouterInv, MessageInv, recvpipe
  PROVE  MessageInv'
<1> DEFINE p == Current(fq)
           q == inbox[p]
           e == pipe[p]
           x == EndAfterRead(e, q)
           w == QueueAfterRead(e, q)
           part == Head(q.flushed)
<1>1. /\ inbox \in [Pipes -> Queues(InParts)] /\ pipe \in [Pipes -> Ends]
      /\ WellFormed(Pipes, fq) /\ SocketTypes /\ Writers
  BY DEF RouterInv, SocketTypes, MessageInv
<1>2. call # "none" /\ fq.active > 0
  BY DEF recvpipe
<1>3. p \in Pipes /\ p \in ActivePipes(fq) /\ p \in Listed(fq)
  BY <1>1, <1>2, CurrentIsActive
<1>4. /\ inbox' = [inbox EXCEPT ![p] = w] /\ pipe' = [pipe EXCEPT ![p] = x]
  BY DEF recvpipe
<1>5. /\ peer' = peer /\ outPipes' = outPipes /\ moreOut' = moreOut
  BY DEF recvpipe, peers, table, output
<1>6. /\ q \in Queues(InParts) /\ e \in Ends
      /\ Conn(p, cmds[p], q, e, peer[p].phase, Listed(fq), ActivePipes(fq), anonymous)
  BY <1>3, ConnTypes
<1>7. Readable(e)
  BY <1>3, <1>6 DEF Conn, Placed, Readable, Reading
<1>8. CanRead(q) => part = q.flushed[1]
  BY <1>6, ReadQueue
<1>9. CASE Fetches(e, q)
  <2>1. /\ fq' = FqAfterPart(part) /\ aborted' = aborted
        /\ xrecvTakes(p, part) \/ xhas_inTakes(p, part)
    BY <1>9 DEF recvpipe
  <2>2. x = e /\ w = Popped(q) /\ CanRead(q) /\ part # Delimiter
    BY <1>7, <1>9 DEF EndAfterRead, QueueAfterRead, Fetches
  <2>3. q.flushed # << >> /\ q.flushed[1] = part
    BY <1>8, <2>2 DEF CanRead
  <2>4. call' = "none"
    BY <2>1 DEF xrecvTakes, xhas_inTakes
  <2>5. pipe' = pipe /\ inbox' = [inbox EXCEPT ![p] = Popped(@)]
    BY <1>1, <1>3, <1>4, <2>2
  <2>6. Given(p, part)
    BY <1>2, <1>5, <2>1, <2>2, <2>3, <2>4, <2>5 DEF Given
  <2>7. xrecvTakes(p, part) \/ xhas_inTakes(p, part)
    BY <2>1
  <2> HIDE DEF p, part
  <2> QED BY <2>6, <2>7, LaterPart, FirstPart
<1>10. CASE ~Fetches(e, q)
  <2>1. fq' = Deactivated(fq) /\ aborted' = fq.more /\ UNCHANGED input
    BY <1>10 DEF recvpipe
  <2>2. ~fq.more
    <3> SUFFICES ASSUME fq.more PROVE FALSE
      OBVIOUS
    <3>1. q.flushed # << >> /\ q.flushed[1] # Delimiter
      BY RestIsThere
    <3> QED BY <1>7, <1>8, <1>10, <3>1 DEF Fetches, CanRead
  <2>3. fq.more = FALSE /\ fq'.more = FALSE /\ Listed(fq') = Listed(fq)
    <3>1. fq.more \in BOOLEAN
      BY <1>1, Fields
    <3>2. fq.more = FALSE
      BY <2>2, <3>1
    <3> QED BY <1>1, <1>2, <2>1, <3>2, DeactivatedList
  <2>4. EndRead(e, q, x)
    BY <1>6, ReadEnd
  <2>5. /\ x.state = "active" => e.state = "active"
        /\ x.outActive = e.outActive /\ x.id = e.id
    BY <2>4 DEF EndRead
  <2> HIDE DEF x
  <2>6. Writers' /\ NoAbort'
    <3>1. Writers'
      BY <1>1, <1>3, <1>4, <1>5, <2>3, <2>5, WritersKept
    <3> QED BY <2>1, <2>2, <3>1 DEF NoAbort
  <2>7. /\ call' = call /\ prefetched' = prefetched /\ got' = got /\ moreIn' = moreIn
        /\ due' = due
    BY <2>1 DEF input
  <2>8. Calls'
    BY <1>5, <2>7, CallsKept DEF MessageInv
  <2>9. PICK b \in Pipes \cup {NoPipe}, k \in Nat : Serving(b, k)
    BY DEF MessageInv
  <2>10. Holding(b, k)' /\ Turn(b, k)'
    <3>1. Holding(b, k)'
      BY <2>7, <2>9, HoldingKept DEF Serving
    <3>2. Turn(b, k)'
      BY <2>3, <2>9, NoTurnKept DEF Serving
    <3> QED BY <3>1, <3>2
  <2>11. ASSUME NEW u, u # Delimiter, InLine(p, u)
         PROVE  /\ Whole(p, w.flushed, u, peer[p].phase, peer[p].next)
                /\ w.flushed # << >> => w.flushed[1] # RoutingId
    <3>1. CASE CanRead(q)
      <4>1. w.flushed = Tail(q.flushed)
        BY <1>6, <1>7, <3>1, ReadQueue DEF QueueAfterRead
      <4>2. q.flushed \in Seq(InParts) /\ q.flushed # << >> /\ q.flushed[1] = Delimiter
        BY <1>6, <1>7, <1>8, <1>10, <3>1 DEF Fetches, CanRead, Queues
      <4>3. peer[p].phase \notin {"connected", "identified"}
        <5> DEFINE S == InParts \ {Delimiter}
        <5>1. q.flushed \in Seq(S) /\ q.flushed # << >> => q.flushed[1] \in S
          OBVIOUS
        <5> QED BY <1>6, <4>2, <5>1 DEF Conn, Open
      <4>4. Whole(p, q.flushed, u, peer[p].phase, peer[p].next)
        BY <2>11 DEF InLine
      <4>5. Whole(p, Tail(q.flushed), u, peer[p].phase, peer[p].next) /\ Tail(q.flushed) = << >>
        BY <1>3, <2>11, <4>2, <4>3, <4>4, WholeEnds
      <4> HIDE DEF w
      <4> QED BY <4>1, <4>5
    <3>2. CASE ~CanRead(q)
      <4>1. w.flushed = q.flushed /\ q.flushed = << >>
        BY <1>6, <1>7, <3>2, ReadQueue DEF QueueAfterRead, CanRead
      <4> HIDE DEF w
      <4> QED BY <2>11, <4>1 DEF InLine
    <3> QED BY <3>1, <3>2
  <2> HIDE DEF w, p
  <2>12. Lines(b, k)'
    <3> SUFFICES ASSUME NEW r \in Pipes PROVE InLine(r, Upcoming(due, r, b, k))'
      BY DEF Lines
    <3> DEFINE u == Upcoming(due, r, b, k)
    <3>1. InLine(r, u) /\ u' = u /\ u # Delimiter
      BY <2>7, <2>9, UpcomingIsPart DEF Serving, Lines
    <3> HIDE DEF u
    <3>2. inbox'[p] = w /\ (r # p => inbox'[r] = inbox[r])
      BY <1>1, <1>3, <1>4
    <3>3. InLine(r, u)'
      BY <1>5, <2>3, <2>11, <3>1, <3>2 DEF InLine
    <3> QED BY <3>3 DEF u
  <2>13. Serving(b, k)'
    BY <2>10, <2>12 DEF Serving
  <2> QED BY <2>6, <2>8, <2>13 DEF MessageInv
<1> QED BY <1>9, <1>10
-----------------------------------------------------------------------------
(* The steps that send.                                                    *)

\* A part of a message that is sent changes nothing of what is received.
LEMMA SendServes ==
  ASSUME RouterInv, MessageInv,
         UNCHANGED <<peers, inbox, fq, call, prefetched, moreIn, due>>,
         got' = got \/ (Between /\ got' = << >>),
         call = "none", moreOut' => got' = << >>, Writers', NoAbort'
  PROVE  MessageInv'
<1>1. /\ peer' = peer /\ inbox' = inbox /\ fq' = fq /\ call' = call
      /\ prefetched' = prefetched /\ moreIn' = moreIn /\ due' = due
  BY DEF peers
<1>2. PICK b \in Pipes \cup {NoPipe}, k \in Nat : Serving(b, k)
  BY DEF MessageInv
<1>3. Holding(b, k)' /\ Finished' /\ got' \in Seq(Frames)
  <2>1. CASE got' = got
    BY <1>1, <1>2, <2>1, HoldingKept DEF MessageInv, Calls, Finished, Between, Serving
  <2>2. CASE Between /\ got' = << >>
    <3>1. Between' /\ Finished' /\ got' \in Seq(Frames)
      BY <2>2 DEF Between, Finished
    <3>2. Holding(b, k)
      BY <1>2 DEF Serving
    <3>3. CASE b = NoPipe
      BY <1>1, <3>1, <3>2, <3>3 DEF Holding
    <3>4. CASE b # NoPipe
      <4>1. b \in Pipes /\ k \in 1 .. PartsOf[b] /\ PartsOf[b] \in Nat
        BY <3>2, <3>4, RouterAssumption DEF Holding
      <4>2. \A n, i \in Nat : i < PartsOf[b] => ~GotIs(got, b, n, i)
        BY <2>2, <4>1, GoesOn DEF Between
      <4>3. due[b] \in Nat
        BY <4>1 DEF RouterInv, SocketTypes
      <4>4. prefetched.held /\ ~prefetched.idSent
        <5>1. 0 \in Nat /\ k \in Nat /\ 0 < PartsOf[b]
          BY <4>1
        <5> QED BY <3>2, <3>4, <4>2, <4>3, <5>1 DEF Holding
      <4> QED BY <1>1, <3>1, <3>2, <3>4, <4>4 DEF Holding
    <3> QED BY <3>1, <3>3, <3>4
  <2> QED BY <2>1, <2>2
<1>4. Turn(b, k)' /\ Lines(b, k)'
  BY <1>1, <1>2 DEF Serving, Turn, Lines, InLine
<1>5. Serving(b, k)'
  BY <1>3, <1>4 DEF Serving
<1>6. Calls'
  BY <1>1, <1>3 DEF MessageInv, Calls
<1> QED BY <1>5, <1>6 DEF MessageInv

\* The first part of a message: no pipe is chosen yet, and a pipe that is full
\* is marked in the table.
LEMMA MsgSendId ==
  ASSUME RouterInv, MessageInv, NEW id \in SendTo, SendId(id)
  PROVE  MessageInv'
<1>1. /\ UNCHANGED <<peers, inbox, fq, call, prefetched, moreIn, due>>
      /\ call = "none" /\ BetweenMessages /\ got' = << >>
      /\ aborted' = (currentOut # NoPipe)
  BY DEF SendId
<1>2. Between /\ ~moreOut
  BY <1>1 DEF BetweenMessages, Between
<1>3. NoAbort'
  BY <1>1, <1>2 DEF NoAbort, RouterInv, NothingHalfSent
<1>4. Writers'
  <2> DEFINE p == outPipes[id].pipe
             e == pipe[p]
             b == e.outActive /\ ~(e.full /\ e.state = "active")
             x == [e EXCEPT !.outActive = b]
             o == [outPipes EXCEPT ![id].active = FALSE]
  <2>1. fq' = fq /\ pipe \in [Pipes -> Ends] /\ Table /\ Writers
    BY <1>1 DEF RouterInv, SocketTypes, MessageInv
  <2>2. CASE pipe' = pipe /\ outPipes' = outPipes
    BY <2>1, <2>2 DEF Writers
  <2>3. CASE Taken(id) /\ pipe' = [pipe EXCEPT ![p] = x] /\ outPipes' = o
    <3>1. p \in Pipes /\ p \in Listed(fq) /\ e.id = id /\ e \in Ends
      BY <2>1, <2>3 DEF Table, Taken
    <3>2. b \in BOOLEAN
      BY <3>1 DEF Ends
    <3> HIDE DEF b
    <3>3. x.state = e.state /\ x.id = id
      BY <3>1, <3>2 DEF Ends
    <3>4. \A j \in DOMAIN outPipes : ~outPipes[j].active \/ j = id => ~o[j].active
      <4> SUFFICES ASSUME NEW j \in DOMAIN outPipes, ~outPipes[j].active \/ j = id
                   PROVE  ~o[j].active
        OBVIOUS
      <4>1. outPipes[j] \in [pipe : Pipes, active : BOOLEAN]
        BY <2>1 DEF Table
      <4>2. o[j] = IF j = id THEN [outPipes[j] EXCEPT !.active = FALSE] ELSE outPipes[j]
        OBVIOUS
      <4> HIDE DEF o
      <4> QED BY <4>1, <4>2
    <3> HIDE DEF p, x, o
    <3> SUFFICES ASSUME NEW r \in Pipes, pipe'[r].state = "active", ~pipe'[r].outActive
                 PROVE  r \in Listed(fq') /\ ~outPipes'[pipe'[r].id].active
      BY DEF Writers
    <3>5. pipe'[p] = x /\ (r # p => pipe'[r] = pipe[r])
      BY <2>1, <2>3, <3>1
    <3>6. CASE r = p
      <4>1. id \in DOMAIN outPipes
        BY <2>3 DEF Taken
      <4> QED BY <2>1, <2>3, <3>1, <3>3, <3>4, <3>5, <3>6, <4>1
    <3>7. CASE r # p
      <4>1. r \in Listed(fq) /\ ~outPipes[pipe[r].id].active
        BY <2>1, <3>5, <3>7 DEF Writers
      <4>2. pipe[r].id \in DOMAIN outPipes
        BY <2>1, <4>1 DEF Table
      <4> QED BY <2>1, <2>3, <3>4, <3>5, <3>7, <4>1, <4>2
    <3> QED BY <3>6, <3>7
  <2> QED BY <2>2, <2>3 DEF SendId
<1> QED BY <1>1, <1>2, <1>3, <1>4, SendServes

\* A later part.
LEMMA MsgSendPart ==
  ASSUME RouterInv, MessageInv, SendPart
  PROVE  MessageInv'
<1>1. /\ UNCHANGED <<peers, inbox, fq, call, prefetched, moreIn, due>> /\ got' = got
      /\ outPipes' = outPipes /\ fq' = fq /\ aborted' = aborted /\ call = "none" /\ moreOut
  BY DEF SendPart, table, input
<1>2. got = << >>
  BY <1>1 DEF MessageInv, Calls
<1>3. NoAbort'
  BY <1>1 DEF MessageInv, NoAbort
<1>4. Writers'
  <2>1. SocketTypes /\ Writers /\ pipe \in [Pipes -> Ends] /\ currentOut \in Pipes \cup {NoPipe}
    BY DEF RouterInv, SocketTypes, MessageInv
  <2>2. CASE pipe' = pipe
    BY <1>1, <2>1, <2>2 DEF Writers
  <2>3. CASE pipe' # pipe
    <3> DEFINE more == sending.parts + 1 < SendParts
               p == currentOut
               e == pipe[p]
               n == IF more THEN e.unflushed + 1 ELSE 0
               b == ~more
               y == [e EXCEPT !.unflushed = n, !.full = b]
    <3>1. p \in Pipes /\ (pipe' = [pipe EXCEPT ![p] = RolledBack(e)] \/ pipe' = [pipe EXCEPT ![p] = y])
      BY <2>1, <2>3 DEF SendPart
    <3>2. e \in Ends
      BY <2>1, <3>1
    <3> HIDE DEF n, b, p
    <3>3. y.state = e.state /\ y.outActive = e.outActive /\ y.id = e.id
      BY <3>2 DEF Ends
    <3>4. RolledBack(e).state = e.state /\ RolledBack(e).outActive = e.outActive /\ RolledBack(e).id = e.id
      BY <3>2 DEF Ends, RolledBack
    <3> HIDE DEF y
    <3>5. PICK x : /\ pipe' = [pipe EXCEPT ![p] = x]
                   /\ x.state = e.state /\ x.outActive = e.outActive /\ x.id = e.id
      BY <3>1, <3>3, <3>4
    <3>6. Listed(fq') = Listed(fq)
      BY <1>1
    <3> QED BY <1>1, <2>1, <3>1, <3>5, <3>6, WritersKept
  <2> QED BY <2>2, <2>3
<1> QED BY <1>1, <1>2, <1>3, <1>4, SendServes
-----------------------------------------------------------------------------
(* The theorems.                                                           *)

\* The first state: no message was received or is on its way.
LEMMA MsgInit == Init => MessageInv
<1> SUFFICES ASSUME Init PROVE MessageInv
  OBVIOUS
<1>1. /\ got = << >> /\ call = "none" /\ ~moreOut /\ ~moreIn /\ ~aborted
      /\ due = [p \in Pipes |-> 0] /\ prefetched = NothingPrefetched
  BY DEF Init
<1>2. /\ prefetched \in [held : BOOLEAN, idSent : BOOLEAN, id : Ids \cup {NoPipe}, msg : InParts]
      /\ ~prefetched.held
  BY <1>1 DEF NothingPrefetched, InParts
<1>3. Calls
  <2>1. moreIn \in BOOLEAN
    BY DEF Init
  <2> QED BY <1>1, <1>2, <2>1 DEF Calls, Finished
<1>4. fq = EmptyList /\ ~EmptyList.more /\ Listed(EmptyList) = {}
  <2>1. EmptyList.pipes = << >> /\ EmptyList.more = FALSE
    BY DEF EmptyList
  <2>2. 1 .. Len(<< >>) = {}
    OBVIOUS
  <2> QED BY <2>1, <2>2 DEF Init, Listed
<1>5. Writers
  <2>1. \A p \in Pipes : pipe[p].outActive
    BY DEF Init
  <2> QED BY <2>1 DEF Writers
<1>6. Holding(NoPipe, 0) /\ Turn(NoPipe, 0)
  BY <1>1, <1>2, <1>4 DEF Holding, Between, Turn
<1>7. ASSUME NEW r \in Pipes PROVE InLine(r, Upcoming(due, r, NoPipe, 0))
  <2>1. r # NoPipe
    BY RouterAssumption DEF Ids
  <2>2. Upcoming(due, r, NoPipe, 0) = Part(r, 0, 1)
    BY <1>1, <2>1 DEF Upcoming
  <2>3. inbox[r].flushed = << >>
    BY DEF Init, EmptyQueue
  <2>4. peer[r].phase = "connected" /\ peer[r].next = 0
    BY DEF Init
  <2>5. Linked(r, << >>)
    BY DEF Linked
  <2>6. Part(r, 0, 1).part = 1
    BY PartFields
  <2>7. Whole(r, << >>, Part(r, 0, 1), "connected", 0)
    BY <2>5, <2>6 DEF Whole
  <2> QED BY <2>2, <2>3, <2>4, <2>7 DEF InLine
<1>8. Serving(NoPipe, 0)
  BY <1>6, <1>7 DEF Serving, Lines
<1> QED BY <1>1, <1>3, <1>5, <1>8 DEF MessageInv, NoAbort

\* A step.
LEMMA MsgNext == RouterInv /\ MessageInv /\ [Next]_vars => MessageInv'
<1> SUFFICES ASSUME RouterInv, MessageInv, [Next]_vars PROVE MessageInv'
  OBVIOUS
<1>1. CASE UNCHANGED vars
  <2>1. /\ peer' = peer /\ inbox' = inbox /\ pipe' = pipe /\ outPipes' = outPipes /\ fq' = fq
        /\ prefetched' = prefetched /\ moreIn' = moreIn /\ got' = got /\ due' = due
        /\ moreOut' = moreOut /\ aborted' = aborted /\ call' = call
    BY <1>1 DEF vars, peers, table, input, output
  <2> QED BY <2>1 DEF MessageInv, NoAbort, Calls, Finished, Between, Writers, Serving,
                      Holding, Turn, Lines, InLine
<1>2. ASSUME NEW p \in Pipes, Session(p) PROVE MessageInv'
  BY <1>2, MsgPush, MsgAcknowledge DEF Session
<1>3. ASSUME NEW p \in Pipes, Command(p) PROVE MessageInv'
  BY <1>3, MsgAttach, MsgRead, MsgWrite, MsgTerm, MsgTerminated DEF Command
<1>4. CASE Recv \/ Ask("xhas_in")
  BY <1>4, MsgPrefetched, MsgAsk, MsgRecvpipe DEF Recv
<1>5. CASE Send
  BY <1>5, MsgSendId, MsgSendPart DEF Send
<1> QED BY <1>1, <1>2, <1>3, <1>4, <1>5 DEF Next

\* The queues hold whole messages, and what is received is the next of one of
\* them, whatever the sessions, the commands and the application do.
THEOREM MessagesInvariance == Spec => []MessageInv
<1>1. RouterInv /\ MessageInv /\ RouterInv' /\ [Next]_vars => MessageInv'
  BY MsgNext
<1> QED BY RouterInvariance, MsgInit, <1>1, PTL DEF Spec

\* No assertion of fq_t::recvpipe, router_t::xsend and
\* routing_socket_base_t::xwrite_activated fails.
THEOREM NothingAborts == Spec => []NoAbort
<1>1. MessageInv => NoAbort
  BY DEF MessageInv
<1> QED BY MessagesInvariance, <1>1, PTL

\* The frames of a message are the message.
LEMMA GotMessage ==
  ASSUME NEW p \in Pipes, NEW n, NEW k \in 1 .. PartsOf[p], GotIs(got, p, n, k)
  PROVE  LET parts == [i \in 1 .. Len(got) - 1 |-> got[i + 1].frame]
         IN  /\ Len(got) > 1 /\ Len(parts) = k /\ got[1].frame = IdOf(p)
             /\ parts[1].from = p /\ parts = SubSeq(Message(p, n), 1, k)
             /\ got[Len(got)].more = (k < PartsOf[p])
<1> DEFINE parts == [i \in 1 .. Len(got) - 1 |-> got[i + 1].frame]
           m == Message(p, n)
<1>1. PartsOf[p] \in Nat /\ k \in Nat /\ k >= 1 /\ k <= PartsOf[p]
  BY RouterAssumption
<1>2. Len(got) = k + 1 /\ Len(got) - 1 = k /\ Len(got) > 1
  BY <1>1 DEF GotIs
<1>3. \A i \in 1 .. k : got[i + 1].frame = Part(p, n, i)
  <2> SUFFICES ASSUME NEW i \in 1 .. k PROVE got[i + 1].frame = Part(p, n, i)
    OBVIOUS
  <2>1. got[i + 1] = [frame |-> Part(p, n, i), more |-> (i < PartsOf[p])]
    BY DEF GotIs
  <2> QED BY <2>1
<1>4. parts = [i \in 1 .. k |-> Part(p, n, i)]
  BY <1>2, <1>3
<1>5. got[1].frame = IdOf(p)
  BY DEF GotIs
<1>6. got[k + 1].more = (k < PartsOf[p])
  <2>1. k \in 1 .. k
    BY <1>1
  <2>2. got[k + 1] = [frame |-> Part(p, n, k), more |-> (k < PartsOf[p])]
    BY <2>1 DEF GotIs
  <2> QED BY <2>2
<1>7. SubSeq(m, 1, k) = [i \in 1 .. k |-> Part(p, n, i)]
  <2>1. m = [i \in 1 .. PartsOf[p] |-> Part(p, n, i)]
    BY DEF Message
  <2>2. SubSeq(m, 1, k) = [i \in 1 .. k |-> m[i]]
    <3>1. m \in Seq({Part(p, n, i) : i \in 1 .. PartsOf[p]}) /\ Len(m) = PartsOf[p]
      BY <1>1, <2>1
    <3> HIDE DEF m
    <3> QED BY <1>1, <3>1
  <2>3. \A i \in 1 .. k : m[i] = Part(p, n, i)
    BY <1>1, <2>1
  <2> HIDE DEF m
  <2> QED BY <2>2, <2>3
<1> HIDE DEF parts
<1>8. Len(parts) = k /\ parts[1] = Part(p, n, 1)
  BY <1>1, <1>4
<1>9. parts[1].from = p
  BY <1>8, PartFields
<1> QED BY <1>2, <1>4, <1>5, <1>6, <1>7, <1>8, <1>9 DEF parts

\* What the application receives is the id of a peer and then the parts of the
\* next message of that peer, whole and in order.
THEOREM WholeMessagesAreReceived == Spec => []WholeMessages
<1>1. RouterInv /\ MessageInv => WholeMessages
  <2> SUFFICES ASSUME RouterInv, MessageInv, got # << >>, Len(got) > 1
               PROVE  WholeMessages
    BY DEF WholeMessages
  <2> DEFINE parts == [i \in 1 .. Len(got) - 1 |-> got[i + 1].frame]
  <2>1. \E p \in Pipes : \E k \in 1 .. PartsOf[p] :
          GotIs(got, p, IF k < PartsOf[p] THEN due[p] ELSE (due[p] + Numbers - 1) % Numbers, k)
    <3>1. CASE Between
      <4>1. PICK p \in Pipes :
              PartsOf[p] > 0 /\ GotIs(got, p, (due[p] + Numbers - 1) % Numbers, PartsOf[p])
        BY <3>1 DEF MessageInv, Calls, Finished
      <4>2. PartsOf[p] \in Nat
        BY RouterAssumption
      <4>3. PartsOf[p] \in 1 .. PartsOf[p] /\ ~(PartsOf[p] < PartsOf[p])
        BY <4>1, <4>2
      <4> QED BY <4>1, <4>3
    <3>2. CASE ~Between
      <4>1. PICK p \in Pipes \cup {NoPipe}, k \in Nat : Serving(p, k)
        BY DEF MessageInv
      <4>2. p \in Pipes /\ p # NoPipe /\ k \in 1 .. PartsOf[p]
        BY <3>2, <4>1 DEF Serving, Holding
      <4>3. ~prefetched.held
        <5>1. ~GotIs(got, p, due[p], 0)
          <6> SUFFICES ASSUME GotIs(got, p, due[p], 0) PROVE FALSE
            OBVIOUS
          <6>1. Len(got) = 1
            BY DEF GotIs
          <6>2. ~(1 > 1)
            OBVIOUS
          <6> QED BY <6>1, <6>2
        <5> QED BY <3>2, <4>1, <4>2, <5>1 DEF Serving, Holding
      <4>4. k < PartsOf[p] /\ GotIs(got, p, due[p], k)
        BY <4>1, <4>2, <4>3 DEF Serving, Holding
      <4> QED BY <4>2, <4>4
    <3> QED BY <3>1, <3>2
  <2>2. PICK p \in Pipes : \E k \in 1 .. PartsOf[p] :
          GotIs(got, p, IF k < PartsOf[p] THEN due[p] ELSE (due[p] + Numbers - 1) % Numbers, k)
    BY <2>1
  <2>3. PICK k \in 1 .. PartsOf[p] :
          GotIs(got, p, IF k < PartsOf[p] THEN due[p] ELSE (due[p] + Numbers - 1) % Numbers, k)
    BY <2>2
  <2> DEFINE n == IF k < PartsOf[p] THEN due[p] ELSE (due[p] + Numbers - 1) % Numbers
  <2>4. /\ Len(parts) = k /\ got[1].frame = IdOf(p) /\ parts[1].from = p
        /\ parts = SubSeq(Message(p, n), 1, k) /\ got[Len(got)].more = (k < PartsOf[p])
    <3>1. GotIs(got, p, n, k)
      BY <2>3
    <3> HIDE DEF n
    <3> QED BY <3>1, GotMessage
  <2>5. n = IF got[Len(got)].more THEN due[p] ELSE (due[p] + Numbers - 1) % Numbers
    <3>1. CASE k < PartsOf[p]
      <4>1. got[Len(got)].more
        BY <2>4, <3>1, Zenon
      <4> QED BY <3>1, <4>1
    <3>2. CASE ~(k < PartsOf[p])
      <4>1. ~got[Len(got)].more
        BY <2>4, <3>2, Zenon
      <4> QED BY <3>2, <4>1
    <3> QED BY <3>1, <3>2
  <2>6. got[Len(got)].more <=> k < PartsOf[p]
    BY <2>4, Zenon
  <2>7. p = parts[1].from
    BY <2>4
  <2> HIDE DEF n
  <2> QED BY <2>4, <2>5, <2>6, <2>7, Zenon DEF WholeMessages
<1> QED BY RouterInvariance, MessagesInvariance, <1>1, PTL
=============================================================================
