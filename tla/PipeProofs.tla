----------------------------- MODULE PipeProofs -----------------------------
(***************************************************************************)
(* Proofs about Pipe: the assertions of the handlers never fail, nothing   *)
(* dangles while a pair of pipes terminates, a queue keeps within its high *)
(* water mark, and a pipe that waits for the delimiter has read everything *)
(* that was written.                                                       *)
(***************************************************************************)
EXTENDS Pipe, FiniteSetTheorems, SequenceTheorems, TLAPS

\* The commands of a pipe.
Commands == [type : {"activate_read", "pipe_term", "pipe_term_ack"}]
            \cup [type : {"activate_write"}, msgsRead : Nat]
            \cup [type : {"hiccup"}, pipe : Upipes]

\* The type invariant, with the domain of cmds.
Types == /\ pipe \in [Ends -> [state : States, delay : BOOLEAN,
                               in : Upipes, out : Upipes \cup {Nobody},
                               inActive : BOOLEAN, outActive : BOOLEAN,
                               msgsRead : Nat, msgsWritten : 0 .. Word - 1, peersMsgsRead : Nat]]
         /\ upipe \in [Upipes -> Queues(Parts) \cup {Nobody}]
         /\ cmds \in [Ends -> Seq(Commands)]
         /\ aborted \in BOOLEAN

\* A command of a type is on its way.
Has(s, type) == \E i \in 1 .. Len(s) : s[i].type = type

\* A hiccup that brings the queue u is on its way.
Brings(s, u) == \E i \in 1 .. Len(s) : s[i].type = "hiccup" /\ s[i].pipe = u

\* Nothing follows the acknowledgement; neither a second request to terminate
\* nor a hiccup follows the request.
Ordered(s) == \A i, j \in 1 .. Len(s) : i < j =>
    /\ s[i].type # "pipe_term_ack"
    /\ s[i].type = "pipe_term" => s[j].type \notin {"pipe_term", "hiccup"}

\* The counts that are on their way are at most n.
Reported(s, n) == \A i \in 1 .. Len(s) : s[i].type = "activate_write" => s[i].msgsRead <= n

\* The hiccups on their way lead from the queue that is written to the one that
\* is read, without coming back to a queue.
Chain(s, out, in) ==
    /\ in = out \/ Brings(s, in)
    /\ \A i \in 1 .. Len(s) : s[i].type = "hiccup" =>
          /\ s[i].pipe # out /\ in # out
          /\ \A j \in i + 1 .. Len(s) : s[j].type = "hiccup" => s[i].pipe \notin {s[j].pipe, in}

\* The states in which the other end of one may be.
Meets(s, t) ==
    /\ s = "active" => t \in {"active", "term_req_sent1"}
    /\ s \in {"delimiter_received", "waiting_for_delimiter"} => t = "term_req_sent1"
    /\ s = "term_ack_sent" => t \in {"term_req_sent1", "deallocated"}
    /\ s = "deallocated" => t \in {"term_ack_sent", "term_req_sent2", "deallocated"}

\* An end in state s, whose other end is in state t, has still to receive the
\* request to terminate, the acknowledgement.
Due(s, t) == s \in {"active", "delimiter_received", "term_req_sent1"}
             /\ t \in {"term_req_sent1", "term_req_sent2"}
AckDue(s, t) == s \in {"term_ack_sent", "term_req_sent1", "term_req_sent2"}
                /\ t \in {"term_ack_sent", "term_req_sent2", "deallocated"}

\* The termination protocol as an end sees it: its state s, the one of its peer t,
\* the commands c on their way to it and the queue it writes to.
Handshake(s, t, c, out) ==
    /\ Meets(s, t)
    /\ Has(c, "pipe_term") <=> Due(s, t)
    /\ Has(c, "pipe_term_ack") <=> AckDue(s, t)
    /\ Has(c, "hiccup") => s \in {"active", "delimiter_received", "term_req_sent1"}
    /\ Ordered(c)
    /\ s = "deallocated" => c = << >>
    /\ out = Nobody <=> s \in {"term_ack_sent", "term_req_sent2", "deallocated"}

\* The queues of the direction into e: the one it reads, the one its peer writes
\* to, and those that hiccups bring to its peer.
Owns(e, u) == \/ Alive(e) /\ pipe[e].in = u
              \/ pipe[Peer(e)].out = u
              \/ Brings(cmds[Peer(e)], u)

\* Every queue that exists belongs to one direction.
Owned == \A e \in Ends : \A u \in Upipes :
    /\ upipe[u] # Nobody <=> (Owns(e, u) \/ Owns(Peer(e), u))
    /\ ~(Owns(e, u) /\ Owns(Peer(e), u))

\* A queue: what is not complete has more parts to come, and a delimiter is
\* flushed at once.
Formed(q) == /\ q.complete <= Len(q.unflushed)
             /\ \A i \in q.complete + 1 .. Len(q.unflushed) : q.unflushed[i] = "more"
             /\ \A i \in 1 .. Len(q.unflushed) : q.unflushed[i] # "delimiter"
Contents == \A u \in Upipes : upipe[u] # Nobody => Formed(upipe[u])

\* A queue that a hiccup brings is empty until it has arrived.
Empty(q) == q.flushed = << >> /\ q.unflushed = << >>
Fresh == \A e \in Ends : \A u \in Upipes : Brings(cmds[e], u) => Empty(upipe[u])

\* The delimiter is the last part of a queue.
Closed(q) == /\ \A i \in 1 .. Len(q.flushed) : q.flushed[i] = "delimiter" => i = Len(q.flushed)
           /\ q.unflushed = << >>

\* A reader in state s that has a delimiter in its queue will find it.
Sees(s, q) == s \in {"active", "waiting_for_delimiter"} /\ Delimits(q)

\* Messages in a queue.
Queued(q) == Messages(q.flushed) + Messages(q.unflushed)

\* The flow from an end in state s, which writes to the queue qo at address out,
\* to its peer in state t, which reads the queue qi at address in.  The writer
\* counts mw messages written and knows of pr read, the reader counts mr.  The
\* delimiter is written by an end that terminates, into the queue both use,
\* behind everything else; until then the messages written are those read and
\* those in the queue.
Flow(s, t, out, in, qo, qi, mw, mr, pr, c, hwm) ==
    /\ s = "active" => ~Delimits(qo) /\ mw = mr + Queued(qo)
    /\ Sees(t, qi) => s = "term_req_sent1" /\ out = in /\ Closed(qi) /\ mw = mr + Queued(qi)
    /\ t = "delimiter_received" => ~Has(c, "hiccup") /\ mw = mr
    /\ pr <= mr /\ Reported(c, mr)
    /\ out # Nobody /\ hwm > 0 => Queued(qo) <= hwm

Protocol == \A e \in Ends :
    Handshake(pipe[e].state, pipe[Peer(e)].state, cmds[e], pipe[e].out)
Chained == \A e \in Ends :
    pipe[e].out # Nobody => Chain(cmds[e], pipe[e].out, pipe[Peer(e)].in)
FlowFrom(e) ==
    Flow(pipe[e].state, pipe[Peer(e)].state, pipe[e].out, pipe[Peer(e)].in, Out(e), In(Peer(e)),
         pipe[e].msgsWritten, pipe[Peer(e)].msgsRead, pipe[e].peersMsgsRead, cmds[e], Hwm[e])
Flows == \A e \in Ends : FlowFrom(e)

\* The invariant of a pair of pipes.
PipeInv == Types /\ ~aborted /\ Protocol /\ Chained /\ Owned /\ Contents /\ Fresh /\ Flows
-----------------------------------------------------------------------------
\* The other end of a pipe.
LEMMA PeerEnd ==
  ASSUME NEW e \in Ends
  PROVE  /\ Peer(e) \in Ends /\ Peer(e) # e /\ Peer(Peer(e)) = e
         /\ \A x \in Ends : x = e \/ x = Peer(e)
BY DEF Ends, Peer

\* What the provers have to know of a command sequence that grows by one.
LEMMA AppendFacts ==
  ASSUME NEW s \in Seq(Commands), NEW c \in Commands
  PROVE  /\ Append(s, c) \in Seq(Commands) /\ Len(s) \in Nat
         /\ Len(Append(s, c)) = Len(s) + 1
         /\ \A i \in 1 .. Len(s) : Append(s, c)[i] = s[i]
         /\ Append(s, c)[Len(s) + 1] = c
OBVIOUS

\* What they have to know of one whose first command is taken.
LEMMA TailFacts ==
  ASSUME NEW s \in Seq(Commands), s # << >>
  PROVE  /\ Tail(s) \in Seq(Commands) /\ Head(s) \in Commands /\ Head(s) = s[1]
         /\ Len(s) \in Nat /\ Len(s) >= 1 /\ Len(Tail(s)) = Len(s) - 1
         /\ \A i \in 1 .. Len(Tail(s)) : Tail(s)[i] = s[i + 1]
OBVIOUS

\* The commands of a type, after one more is sent.
LEMMA HasAppend ==
  ASSUME NEW s \in Seq(Commands), NEW c \in Commands, NEW type
  PROVE  Has(Append(s, c), type) <=> (Has(s, type) \/ c.type = type)
<1>1. ASSUME Has(Append(s, c), type) PROVE Has(s, type) \/ c.type = type
  <2>1. PICK i \in 1 .. Len(Append(s, c)) : Append(s, c)[i].type = type
    BY <1>1 DEF Has
  <2>2. CASE i = Len(s) + 1 BY <2>1, <2>2, AppendFacts
  <2>3. CASE i # Len(s) + 1
    <3>1. i \in 1 .. Len(s) BY <2>3, AppendFacts
    <3>2. s[i].type = type BY <2>1, <3>1, AppendFacts
    <3> QED BY <3>1, <3>2 DEF Has
  <2> QED BY <2>2, <2>3
<1>2. ASSUME Has(s, type) PROVE Has(Append(s, c), type)
  <2>1. PICK i \in 1 .. Len(s) : s[i].type = type BY <1>2 DEF Has
  <2>2. i \in 1 .. Len(Append(s, c)) /\ Append(s, c)[i].type = type
    BY <2>1, AppendFacts
  <2> QED BY <2>2 DEF Has
<1>3. ASSUME c.type = type PROVE Has(Append(s, c), type)
  <2>1. Len(s) + 1 \in 1 .. Len(Append(s, c)) /\ Append(s, c)[Len(s) + 1].type = type
    BY <1>3, AppendFacts
  <2> QED BY <2>1 DEF Has
<1> QED BY <1>1, <1>2, <1>3

\* The commands of a type, and the first one.
LEMMA HasTail ==
  ASSUME NEW s \in Seq(Commands), s # << >>, NEW type
  PROVE  Has(s, type) <=> (Head(s).type = type \/ Has(Tail(s), type))
<1>1. ASSUME Has(s, type) PROVE Head(s).type = type \/ Has(Tail(s), type)
  <2>1. PICK i \in 1 .. Len(s) : s[i].type = type BY <1>1 DEF Has
  <2>2. CASE i = 1 BY <2>1, <2>2, TailFacts
  <2>3. CASE i # 1
    <3>1. i - 1 \in 1 .. Len(Tail(s)) BY <2>3, TailFacts
    <3>2. Tail(s)[i - 1] = s[(i - 1) + 1] BY <3>1, TailFacts
    <3>3. (i - 1) + 1 = i OBVIOUS
    <3>4. Tail(s)[i - 1].type = type BY <2>1, <3>2, <3>3
    <3> QED BY <3>1, <3>4 DEF Has
  <2> QED BY <2>2, <2>3
<1>2. ASSUME Head(s).type = type PROVE Has(s, type)
  <2>1. 1 \in 1 .. Len(s) /\ s[1].type = type BY <1>2, TailFacts
  <2> QED BY <2>1 DEF Has
<1>3. ASSUME Has(Tail(s), type) PROVE Has(s, type)
  <2>1. PICK i \in 1 .. Len(Tail(s)) : Tail(s)[i].type = type BY <1>3 DEF Has
  <2>2. i + 1 \in 1 .. Len(s) /\ s[i + 1].type = type BY <2>1, TailFacts
  <2> QED BY <2>2 DEF Has
<1> QED BY <1>1, <1>2, <1>3

\* The queues that hiccups bring, after one more command.
LEMMA BringsAppend ==
  ASSUME NEW s \in Seq(Commands), NEW c \in Commands, NEW u
  PROVE  Brings(Append(s, c), u) <=> (Brings(s, u) \/ (c.type = "hiccup" /\ c.pipe = u))
<1>1. ASSUME Brings(Append(s, c), u) PROVE Brings(s, u) \/ (c.type = "hiccup" /\ c.pipe = u)
  <2>1. PICK i \in 1 .. Len(Append(s, c)) :
           Append(s, c)[i].type = "hiccup" /\ Append(s, c)[i].pipe = u
    BY <1>1 DEF Brings
  <2>2. CASE i = Len(s) + 1 BY <2>1, <2>2, AppendFacts
  <2>3. CASE i # Len(s) + 1
    <3>1. i \in 1 .. Len(s) BY <2>3, AppendFacts
    <3>2. s[i].type = "hiccup" /\ s[i].pipe = u BY <2>1, <3>1, AppendFacts
    <3> QED BY <3>1, <3>2 DEF Brings
  <2> QED BY <2>2, <2>3
<1>2. ASSUME Brings(s, u) PROVE Brings(Append(s, c), u)
  <2>1. PICK i \in 1 .. Len(s) : s[i].type = "hiccup" /\ s[i].pipe = u BY <1>2 DEF Brings
  <2>2. i \in 1 .. Len(Append(s, c)) /\ Append(s, c)[i] = s[i]
    BY <2>1, AppendFacts
  <2> QED BY <2>1, <2>2 DEF Brings
<1>3. ASSUME c.type = "hiccup" /\ c.pipe = u PROVE Brings(Append(s, c), u)
  <2>1. Len(s) + 1 \in 1 .. Len(Append(s, c)) /\ Append(s, c)[Len(s) + 1] = c
    BY AppendFacts
  <2> QED BY <1>3, <2>1 DEF Brings
<1> QED BY <1>1, <1>2, <1>3

\* The queues that hiccups bring, and the first command.
LEMMA BringsTail ==
  ASSUME NEW s \in Seq(Commands), s # << >>, NEW u
  PROVE  Brings(s, u) <=> ((Head(s).type = "hiccup" /\ Head(s).pipe = u) \/ Brings(Tail(s), u))
<1>1. ASSUME Brings(s, u)
      PROVE (Head(s).type = "hiccup" /\ Head(s).pipe = u) \/ Brings(Tail(s), u)
  <2>1. PICK i \in 1 .. Len(s) : s[i].type = "hiccup" /\ s[i].pipe = u BY <1>1 DEF Brings
  <2>2. CASE i = 1 BY <2>1, <2>2, TailFacts
  <2>3. CASE i # 1
    <3>1. i - 1 \in 1 .. Len(Tail(s)) BY <2>3, TailFacts
    <3>2. Tail(s)[i - 1] = s[(i - 1) + 1] BY <3>1, TailFacts
    <3>3. (i - 1) + 1 = i OBVIOUS
    <3> QED BY <2>1, <3>1, <3>2, <3>3 DEF Brings
  <2> QED BY <2>2, <2>3
<1>2. ASSUME Head(s).type = "hiccup" /\ Head(s).pipe = u PROVE Brings(s, u)
  <2>1. 1 \in 1 .. Len(s) /\ s[1] = Head(s) BY TailFacts
  <2> QED BY <1>2, <2>1 DEF Brings
<1>3. ASSUME Brings(Tail(s), u) PROVE Brings(s, u)
  <2>1. PICK i \in 1 .. Len(Tail(s)) : Tail(s)[i].type = "hiccup" /\ Tail(s)[i].pipe = u
    BY <1>3 DEF Brings
  <2>2. i + 1 \in 1 .. Len(s) /\ s[i + 1] = Tail(s)[i] BY <2>1, TailFacts
  <2> QED BY <2>1, <2>2 DEF Brings
<1> QED BY <1>1, <1>2, <1>3

\* A queue is brought by a hiccup.
LEMMA BringsHas ==
  ASSUME NEW s, NEW u, Brings(s, u)
  PROVE  Has(s, "hiccup")
BY DEF Brings, Has

\* Nothing is on its way in the empty sequence.
LEMMA NothingSent ==
  /\ \A type : ~Has(<< >>, type)
  /\ \A u : ~Brings(<< >>, u)
  /\ Ordered(<< >>)
  /\ \A n : Reported(<< >>, n)
  /\ \A u : Chain(<< >>, u, u)
BY DEF Has, Brings, Ordered, Reported, Chain

\* The order of the commands is kept by one more that may come last.
LEMMA OrderedAppend ==
  ASSUME NEW s \in Seq(Commands), NEW c \in Commands, Ordered(s),
         ~Has(s, "pipe_term_ack"),
         Has(s, "pipe_term") => c.type \notin {"pipe_term", "hiccup"}
  PROVE  Ordered(Append(s, c))
<1> DEFINE a == Append(s, c)
<1> SUFFICES ASSUME NEW i \in 1 .. Len(a), NEW j \in 1 .. Len(a), i < j
             PROVE  /\ a[i].type # "pipe_term_ack"
                    /\ a[i].type = "pipe_term" => a[j].type \notin {"pipe_term", "hiccup"}
  BY DEF Ordered
<1>1. i \in 1 .. Len(s) /\ a[i] = s[i] BY AppendFacts
<1>2. s[i].type # "pipe_term_ack" BY <1>1 DEF Has
<1>3. s[i].type = "pipe_term" => Has(s, "pipe_term") BY <1>1 DEF Has
<1>4. CASE j = Len(s) + 1
  <2>1. a[j] = c BY <1>4, AppendFacts
  <2> QED BY <1>1, <1>2, <1>3, <2>1
<1>5. CASE j # Len(s) + 1
  <2>1. j \in 1 .. Len(s) /\ a[j] = s[j] BY <1>5, AppendFacts
  <2> QED BY <1>1, <1>2, <2>1 DEF Ordered
<1> QED BY <1>4, <1>5

\* What follows the first command.
LEMMA OrderedTail ==
  ASSUME NEW s \in Seq(Commands), s # << >>, Ordered(s)
  PROVE  /\ Ordered(Tail(s))
         /\ Head(s).type = "pipe_term_ack" => Tail(s) = << >>
         /\ Head(s).type = "pipe_term" => ~Has(Tail(s), "pipe_term") /\ ~Has(Tail(s), "hiccup")
<1>1. Ordered(Tail(s))
  <2> SUFFICES ASSUME NEW i \in 1 .. Len(Tail(s)), NEW j \in 1 .. Len(Tail(s)), i < j
               PROVE  /\ Tail(s)[i].type # "pipe_term_ack"
                      /\ Tail(s)[i].type = "pipe_term"
                            => Tail(s)[j].type \notin {"pipe_term", "hiccup"}
    BY DEF Ordered
  <2>1. /\ i + 1 \in 1 .. Len(s) /\ j + 1 \in 1 .. Len(s) /\ i + 1 < j + 1
        /\ Tail(s)[i] = s[i + 1] /\ Tail(s)[j] = s[j + 1]
    BY TailFacts
  <2> QED BY <2>1 DEF Ordered
<1>2. ASSUME Head(s).type = "pipe_term_ack" PROVE Tail(s) = << >>
  <2>1. CASE Len(s) >= 2
    <3>1. 1 \in 1 .. Len(s) /\ 2 \in 1 .. Len(s) /\ 1 < 2 /\ s[1] = Head(s)
      BY <2>1, TailFacts
    <3> QED BY <1>2, <3>1 DEF Ordered
  <2>2. CASE Len(s) = 1
    <3>1. Len(Tail(s)) = 0 /\ Tail(s) \in Seq(Commands) BY <2>2, TailFacts
    <3> QED BY <3>1, EmptySeq
  <2> QED BY <2>1, <2>2, TailFacts
<1>3. ASSUME Head(s).type = "pipe_term", NEW type \in {"pipe_term", "hiccup"}, Has(Tail(s), type)
      PROVE  FALSE
  <2>1. PICK i \in 1 .. Len(Tail(s)) : Tail(s)[i].type = type BY <1>3 DEF Has
  <2>2. /\ 1 \in 1 .. Len(s) /\ i + 1 \in 1 .. Len(s) /\ 1 < i + 1
        /\ s[1] = Head(s) /\ s[i + 1] = Tail(s)[i]
    BY <2>1, TailFacts
  <2> QED BY <1>3, <2>1, <2>2 DEF Ordered
<1> QED BY <1>1, <1>2, <1>3

\* The counts on their way, after one more command.
LEMMA ReportedAppend ==
  ASSUME NEW s \in Seq(Commands), NEW c \in Commands, NEW n \in Nat, NEW m \in Nat, n <= m,
         Reported(s, n), c.type = "activate_write" => c.msgsRead <= m
  PROVE  Reported(Append(s, c), m)
<1> DEFINE a == Append(s, c)
<1> SUFFICES ASSUME NEW i \in 1 .. Len(a), a[i].type = "activate_write"
             PROVE  a[i].msgsRead <= m
  BY DEF Reported
<1>1. CASE i = Len(s) + 1 BY <1>1, AppendFacts
<1>2. CASE i # Len(s) + 1
  <2>1. i \in 1 .. Len(s) /\ a[i] = s[i] BY <1>2, AppendFacts
  <2>2. s[i].msgsRead <= n BY <2>1 DEF Reported
  <2>3. s[i] \in Commands /\ s[i].type = "activate_write" BY <2>1
  <2>4. s[i].msgsRead \in Nat BY <2>3 DEF Commands
  <2> QED BY <2>1, <2>2, <2>4
<1> QED BY <1>1, <1>2

\* A reader that has read more.
LEMMA ReportedMore ==
  ASSUME NEW s \in Seq(Commands), NEW n \in Nat, NEW m \in Nat, n <= m, Reported(s, n)
  PROVE  Reported(s, m)
<1> SUFFICES ASSUME NEW i \in 1 .. Len(s), s[i].type = "activate_write"
             PROVE  s[i].msgsRead <= m
  BY DEF Reported
<1>1. s[i].msgsRead <= n BY DEF Reported
<1>2. s[i] \in Commands OBVIOUS
<1>3. s[i].msgsRead \in Nat BY <1>2 DEF Commands
<1> QED BY <1>1, <1>3

\* The first of the counts, and those after it.
LEMMA ReportedTail ==
  ASSUME NEW s \in Seq(Commands), s # << >>, NEW n, Reported(s, n)
  PROVE  /\ Reported(Tail(s), n)
         /\ Head(s).type = "activate_write" => Head(s).msgsRead <= n
<1>1. Reported(Tail(s), n)
  <2> SUFFICES ASSUME NEW i \in 1 .. Len(Tail(s)), Tail(s)[i].type = "activate_write"
               PROVE  Tail(s)[i].msgsRead <= n
    BY DEF Reported
  <2>1. i + 1 \in 1 .. Len(s) /\ Tail(s)[i] = s[i + 1] BY TailFacts
  <2> QED BY <2>1 DEF Reported
<1>2. 1 \in 1 .. Len(s) /\ Head(s) = s[1] BY TailFacts
<1> QED BY <1>1, <1>2 DEF Reported

\* A command that is no hiccup leaves the chain of queues alone.
LEMMA ChainAppend ==
  ASSUME NEW s \in Seq(Commands), NEW c \in Commands, c.type # "hiccup",
         NEW out, NEW in, Chain(s, out, in)
  PROVE  Chain(Append(s, c), out, in)
<1> DEFINE a == Append(s, c)
<1>1. in = out \/ Brings(a, in) BY BringsAppend DEF Chain
<1>2. ASSUME NEW i \in 1 .. Len(a), a[i].type = "hiccup"
      PROVE  i \in 1 .. Len(s) /\ a[i] = s[i] /\ s[i].type = "hiccup"
  BY <1>2, AppendFacts
<1>3. ASSUME NEW i \in 1 .. Len(a), a[i].type = "hiccup"
      PROVE  a[i].pipe # out /\ in # out
  BY <1>2, <1>3 DEF Chain
<1>4. ASSUME NEW i \in 1 .. Len(a), a[i].type = "hiccup",
             NEW j \in i + 1 .. Len(a), a[j].type = "hiccup"
      PROVE  a[i].pipe \notin {a[j].pipe, in}
  <2>1. i \in 1 .. Len(s) /\ a[i] = s[i] /\ s[i].type = "hiccup" BY <1>2, <1>4
  <2>2. j \in 1 .. Len(a) BY AppendFacts
  <2>3. j \in 1 .. Len(s) /\ a[j] = s[j] /\ s[j].type = "hiccup" BY <1>2, <1>4, <2>2
  <2>4. j \in i + 1 .. Len(s) BY <2>3, AppendFacts
  <2> QED BY <2>1, <2>3, <2>4 DEF Chain
<1> HIDE DEF a
<1>5. Chain(a, out, in) BY <1>1, <1>3, <1>4 DEF Chain
<1> QED BY <1>5 DEF a

\* A hiccup that brings a new queue makes the chain longer.
LEMMA ChainHiccup ==
  ASSUME NEW s \in Seq(Commands), NEW c \in Commands, c.type = "hiccup",
         NEW out, NEW in, Chain(s, out, in), c.pipe # out, ~Brings(s, c.pipe)
  PROVE  Chain(Append(s, c), out, c.pipe)
<1> DEFINE a == Append(s, c)
<1>1. Brings(a, c.pipe) BY BringsAppend
<1>2. ASSUME NEW i \in 1 .. Len(a), a[i].type = "hiccup"
      PROVE  \/ i = Len(s) + 1 /\ a[i] = c
             \/ i \in 1 .. Len(s) /\ a[i] = s[i] /\ s[i].type = "hiccup" /\ s[i].pipe # c.pipe
  <2>1. CASE i = Len(s) + 1 BY <2>1, AppendFacts
  <2>2. CASE i # Len(s) + 1
    <3>1. i \in 1 .. Len(s) /\ a[i] = s[i] BY <2>2, AppendFacts
    <3> QED BY <1>2, <3>1 DEF Brings
  <2> QED BY <2>1, <2>2
<1>3. ASSUME NEW i \in 1 .. Len(a), a[i].type = "hiccup"
      PROVE  a[i].pipe # out /\ c.pipe # out
  BY <1>2, <1>3 DEF Chain
<1>4. ASSUME NEW i \in 1 .. Len(a), a[i].type = "hiccup",
             NEW j \in i + 1 .. Len(a), a[j].type = "hiccup"
      PROVE  a[i].pipe \notin {a[j].pipe, c.pipe}
  <2>1. j \in 1 .. Len(a) /\ i < j /\ j <= Len(s) + 1 /\ Len(s) \in Nat BY AppendFacts
  <2>2. i \in 1 .. Len(s) /\ a[i] = s[i] /\ s[i].type = "hiccup" /\ s[i].pipe # c.pipe
    BY <1>2, <1>4, <2>1
  <2>3. CASE j = Len(s) + 1 /\ a[j] = c BY <2>2, <2>3
  <2>4. CASE j \in 1 .. Len(s) /\ a[j] = s[j] /\ s[j].type = "hiccup"
    <3>1. j \in i + 1 .. Len(s) BY <2>4, <2>1
    <3> QED BY <2>2, <2>4, <3>1 DEF Chain
  <2> QED BY <1>2, <1>4, <2>1, <2>3, <2>4
<1> HIDE DEF a
<1>5. Chain(a, out, c.pipe) BY <1>1, <1>3, <1>4 DEF Chain
<1> QED BY <1>5 DEF a

\* The first command: when it is a hiccup the chain starts at the queue it brings.
LEMMA ChainTail ==
  ASSUME NEW s \in Seq(Commands), s # << >>, NEW out, NEW in, Chain(s, out, in)
  PROVE  /\ Head(s).type # "hiccup" => Chain(Tail(s), out, in)
         /\ Head(s).type = "hiccup" => /\ Chain(Tail(s), Head(s).pipe, in)
                                       /\ Head(s).pipe # out /\ in # out
                                       /\ ~Brings(Tail(s), out)
<1> DEFINE a == Tail(s)
<1>1. ASSUME NEW i \in 1 .. Len(a)
      PROVE  i + 1 \in 1 .. Len(s) /\ a[i] = s[i + 1]
  BY TailFacts
<1>2. ASSUME NEW i \in 1 .. Len(a), a[i].type = "hiccup"
      PROVE  a[i].pipe # out /\ in # out
  BY <1>1, <1>2 DEF Chain
<1>3. ASSUME NEW i \in 1 .. Len(a), a[i].type = "hiccup",
             NEW j \in i + 1 .. Len(a), a[j].type = "hiccup"
      PROVE  a[i].pipe \notin {a[j].pipe, in}
  <2>1. Len(a) \in Nat BY TailFacts
  <2>2. j \in 1 .. Len(a) BY <2>1
  <2>3. i + 1 \in 1 .. Len(s) /\ a[i] = s[i + 1] /\ j + 1 \in 1 .. Len(s) /\ a[j] = s[j + 1]
    BY <1>1, <2>2
  <2>4. j + 1 \in (i + 1) + 1 .. Len(s) BY <2>3, <2>1
  <2> QED BY <1>3, <2>3, <2>4 DEF Chain
<1>4. 1 \in 1 .. Len(s) /\ s[1] = Head(s) /\ Len(s) \in Nat BY TailFacts
<1>5. ASSUME Head(s).type # "hiccup" PROVE Chain(a, out, in)
  <2>1. in = out \/ Brings(a, in) BY <1>5, BringsTail DEF Chain
  <2> HIDE DEF a
  <2> QED BY <2>1, <1>2, <1>3 DEF Chain
<1>6. ASSUME Head(s).type = "hiccup"
      PROVE  Chain(a, Head(s).pipe, in) /\ Head(s).pipe # out /\ in # out /\ ~Brings(a, out)
  <2>1. Head(s).pipe # out /\ in # out BY <1>4, <1>6 DEF Chain
  <2>2. in = Head(s).pipe \/ Brings(a, in) BY <2>1, BringsTail DEF Chain
  <2>3. ASSUME NEW i \in 1 .. Len(a), a[i].type = "hiccup"
        PROVE  a[i].pipe # Head(s).pipe /\ in # Head(s).pipe
    <3>1. i + 1 \in 1 .. Len(s) /\ a[i] = s[i + 1] BY <1>1
    <3>2. i + 1 \in 1 + 1 .. Len(s) BY <3>1, <1>4
    <3> QED BY <1>4, <1>6, <2>3, <3>1, <3>2 DEF Chain
  <2>4. ~Brings(a, out) BY <1>2 DEF Brings
  <2> HIDE DEF a
  <2>5. Chain(a, Head(s).pipe, in) BY <2>2, <2>3, <1>3 DEF Chain
  <2> QED BY <2>1, <2>4, <2>5
<1> QED BY <1>5, <1>6

\* While a hiccup is on its way the ends use different queues, afterwards the same.
LEMMA ChainUse ==
  ASSUME NEW s \in Seq(Commands), NEW out, NEW in, Chain(s, out, in)
  PROVE  /\ Has(s, "hiccup") => in # out
         /\ ~Has(s, "hiccup") => in = out
         /\ ~Brings(s, out)
         /\ in # out => Brings(s, in)
<1>1. Has(s, "hiccup") => in # out BY DEF Has, Chain
<1>2. in = out \/ Brings(s, in) BY DEF Chain
<1>3. ~Brings(s, out) BY DEF Brings, Chain
<1> QED BY <1>1, <1>2, <1>3, BringsHas
-----------------------------------------------------------------------------
\* The places of the messages of a queue can be counted.
LEMMA MessagesType ==
  ASSUME NEW s \in Seq(Parts)
  PROVE  /\ IsFiniteSet({i \in DOMAIN s : s[i] = "last"})
         /\ Messages(s) \in Nat
<1> DEFINE M == {i \in DOMAIN s : s[i] = "last"}
<1>1. DOMAIN s = 1 .. Len(s) /\ Len(s) \in Int BY LenProperties
<1>2. IsFiniteSet(1 .. Len(s)) BY <1>1, FS_Interval
<1>3. M \subseteq 1 .. Len(s) BY <1>1
<1>4. IsFiniteSet(M) BY <1>2, <1>3, FS_Subset
<1> QED BY <1>4, FS_CardinalityType DEF Messages

\* The messages of two sequences of parts, one behind the other.
LEMMA MessagesConcat ==
  ASSUME NEW s \in Seq(Parts), NEW t \in Seq(Parts)
  PROVE  Messages(s \o t) = Messages(s) + Messages(t)
<1> DEFINE n == Len(s)
           A == {i \in DOMAIN s : s[i] = "last"}
           B == {i \in DOMAIN t : t[i] = "last"}
           C == {i \in DOMAIN (s \o t) : (s \o t)[i] = "last"}
           D == {i \in n + 1 .. n + Len(t) : t[i - n] = "last"}
           f == [i \in B |-> i + n]
<1>1. n \in Nat /\ Len(t) \in Nat /\ DOMAIN s = 1 .. n /\ DOMAIN t = 1 .. Len(t)
  BY LenProperties
<1>2. /\ DOMAIN (s \o t) = 1 .. n + Len(t)
      /\ \A i \in 1 .. n + Len(t) : (s \o t)[i] = IF i <= n THEN s[i] ELSE t[i - n]
  <2>1. s \o t \in Seq(Parts) /\ Len(s \o t) = n + Len(t) BY ConcatProperties
  <2>2. DOMAIN (s \o t) = 1 .. n + Len(t) BY <2>1, LenProperties
  <2> QED BY <2>2, ConcatProperties
<1>3. IsFiniteSet(A) /\ IsFiniteSet(B) BY MessagesType
<1>4. f \in Bijection(B, D)
  <2>1. \A i \in B : i + n \in D BY <1>1
  <2>2. f \in [B -> D] BY <2>1
  <2>3. \A i, j \in B : f[i] = f[j] => i = j BY <1>1
  <2>4. \A k \in D : \E i \in B : f[i] = k
    <3> SUFFICES ASSUME NEW k \in D PROVE \E i \in B : f[i] = k OBVIOUS
    <3>1. k - n \in B /\ k \in Int BY <1>1
    <3>2. f[k - n] = (k - n) + n BY <3>1
    <3>3. f[k - n] = k BY <3>1, <3>2, <1>1
    <3> QED BY <3>1, <3>3
  <2> HIDE DEF B, D, f
  <2> QED BY <2>2, <2>3, <2>4 DEF Bijection, Injection, Surjection, IsInjective
<1>5. IsFiniteSet(D) /\ Cardinality(D) = Cardinality(B)
  <2> HIDE DEF B, D, f
  <2>1. ExistsBijection(B, D) BY <1>4 DEF ExistsBijection
  <2> QED BY <1>3, <2>1, FS_Bijection
<1>6. C = A \cup D
  <2>1. ASSUME NEW i \in C PROVE i \in A \cup D BY <1>1, <1>2
  <2>2. ASSUME NEW i \in A PROVE i \in C BY <1>1, <1>2
  <2>3. ASSUME NEW i \in D PROVE i \in C
    <3>1. i \in n + 1 .. n + Len(t) /\ t[i - n] = "last" OBVIOUS
    <3>2. i \in 1 .. n + Len(t) /\ ~(i <= n) BY <3>1, <1>1
    <3> QED BY <3>1, <3>2, <1>2
  <2> HIDE DEF A, C, D
  <2> QED BY <2>1, <2>2, <2>3
<1>7. A \cap D = {} BY <1>1
<1>8. Cardinality(C) = Cardinality(A) + Cardinality(B)
  <2> HIDE DEF A, B, C, D
  <2>1. Cardinality(A) \in Nat /\ Cardinality(B) \in Nat BY <1>3, FS_CardinalityType
  <2>2. Cardinality(A \cap D) = 0 BY <1>7, FS_EmptySet
  <2>3. Cardinality(A \cup D) = Cardinality(A) + Cardinality(D) - Cardinality(A \cap D)
    BY <1>3, <1>5, FS_Union
  <2> QED BY <1>5, <1>6, <2>1, <2>2, <2>3
<1> QED BY <1>8 DEF Messages

\* Parts without the last part of a message.
LEMMA MessagesNone ==
  ASSUME NEW s \in Seq(Parts), \A i \in 1 .. Len(s) : s[i] # "last"
  PROVE  Messages(s) = 0
<1>1. {i \in DOMAIN s : s[i] = "last"} = {} BY LenProperties
<1> QED BY <1>1, FS_EmptySet DEF Messages

\* No parts.
LEMMA MessagesEmpty ==
  Messages(<< >>) = 0
<1>1. {i \in DOMAIN << >> : << >>[i] = "last"} = {} OBVIOUS
<1> QED BY <1>1, FS_EmptySet DEF Messages

\* One part.
LEMMA MessagesOne ==
  ASSUME NEW part \in Parts
  PROVE  /\ <<part>> \in Seq(Parts)
         /\ Messages(<<part>>) = IF part = "last" THEN 1 ELSE 0
<1>1. <<part>> \in Seq(Parts) /\ Len(<<part>>) = 1 /\ <<part>>[1] = part OBVIOUS
<1>2. DOMAIN <<part>> = {1} BY <1>1, LenProperties
<1>3. CASE part = "last"
  <2>1. {i \in DOMAIN <<part>> : <<part>>[i] = "last"} = {1} BY <1>1, <1>2, <1>3
  <2>2. Cardinality({1}) = 1 BY FS_Singleton
  <2> QED BY <1>1, <1>3, <2>1, <2>2 DEF Messages
<1>4. CASE part # "last"
  <2>1. \A i \in 1 .. Len(<<part>>) : <<part>>[i] # "last" BY <1>1, <1>4
  <2> QED BY <1>1, <1>4, <2>1, MessagesNone
<1> QED BY <1>3, <1>4

\* One part more.
LEMMA MessagesAppend ==
  ASSUME NEW s \in Seq(Parts), NEW part \in Parts
  PROVE  Messages(Append(s, part)) = Messages(s) + (IF part = "last" THEN 1 ELSE 0)
<1>1. Append(s, part) = s \o <<part>> OBVIOUS
<1> QED BY <1>1, MessagesOne, MessagesConcat

\* One part less.
LEMMA MessagesTail ==
  ASSUME NEW s \in Seq(Parts), s # << >>
  PROVE  Messages(s) = (IF Head(s) = "last" THEN 1 ELSE 0) + Messages(Tail(s))
<1>1. Head(s) \in Parts /\ Tail(s) \in Seq(Parts) /\ s = <<Head(s)>> \o Tail(s) OBVIOUS
<1>2. Messages(<<Head(s)>> \o Tail(s)) = Messages(<<Head(s)>>) + Messages(Tail(s))
  BY <1>1, MessagesOne, MessagesConcat
<1> QED BY <1>1, <1>2, MessagesOne

\* A sequence of parts that is cut in two.
LEMMA Cut ==
  ASSUME NEW s \in Seq(Parts), NEW n \in 0 .. Len(s)
  PROVE  LET a == SubSeq(s, 1, n)
             b == SubSeq(s, n + 1, Len(s))
         IN /\ a \in Seq(Parts) /\ b \in Seq(Parts) /\ s = a \o b
            /\ Len(a) = n /\ Len(b) = Len(s) - n
            /\ \A i \in 1 .. n : a[i] = s[i]
            /\ \A i \in 1 .. Len(s) - n : b[i] = s[n + i]
            /\ Messages(s) = Messages(a) + Messages(b)
<1> DEFINE a == SubSeq(s, 1, n)
           b == SubSeq(s, n + 1, Len(s))
<1>1. Len(s) \in Nat /\ n \in Nat /\ n <= Len(s) BY LenProperties
<1>2. a \in Seq(Parts) /\ Len(a) = n /\ \A i \in 1 .. n : a[i] = s[i] BY <1>1
<1>3. b \in Seq(Parts) /\ Len(b) = Len(s) - n /\ \A i \in 1 .. Len(s) - n : b[i] = s[n + i]
  BY <1>1
<1>4. s = a \o b
  <2> HIDE DEF a, b
  <2>0. a \o b \in Seq(Parts) /\ Len(a \o b) = Len(a) + Len(b) BY <1>2, <1>3, ConcatProperties
  <2>1. a \o b \in Seq(Parts) /\ Len(a \o b) = Len(s) BY <1>1, <1>2, <1>3, <2>0
  <2>2. ASSUME NEW i \in 1 .. Len(s) PROVE (a \o b)[i] = s[i]
    <3>1. (a \o b)[i] = IF i <= n THEN a[i] ELSE b[i - n]
      BY <1>1, <1>2, <1>3, ConcatProperties
    <3>2. CASE i <= n BY <3>1, <3>2, <1>1, <1>2
    <3>3. CASE ~(i <= n)
      <4>1. i - n \in 1 .. Len(s) - n /\ n + (i - n) = i BY <3>3, <1>1
      <4> QED BY <3>1, <3>3, <4>1, <1>3
    <3> QED BY <3>2, <3>3
  <2> QED BY <2>1, <2>2, SeqEqual
<1>5. Messages(s) = Messages(a) + Messages(b)
  <2> HIDE DEF a, b
  <2> QED BY <1>2, <1>3, <1>4, MessagesConcat
<1> QED BY <1>2, <1>3, <1>4, <1>5
-----------------------------------------------------------------------------
\* The fields of a queue.
LEMMA QueueFields ==
  ASSUME NEW q \in Queues(Parts)
  PROVE  /\ q.flushed \in Seq(Parts) /\ q.unflushed \in Seq(Parts)
         /\ q.complete \in Nat /\ q.asleep \in BOOLEAN
         /\ Len(q.flushed) \in Nat /\ Len(q.unflushed) \in Nat
         /\ Messages(q.flushed) \in Nat /\ Messages(q.unflushed) \in Nat
         /\ Queued(q) \in Nat
<1>1. /\ q.flushed \in Seq(Parts) /\ q.unflushed \in Seq(Parts)
      /\ q.complete \in Nat /\ q.asleep \in BOOLEAN
  BY DEF Queues
<1>2. Messages(q.flushed) \in Nat /\ Messages(q.unflushed) \in Nat BY <1>1, MessagesType
<1> QED BY <1>1, <1>2, LenProperties DEF Queued

\* What can be read decides whether a delimiter is in a queue.
LEMMA DelimitsFlushed ==
  ASSUME NEW q, NEW r, q.flushed = r.flushed
  PROVE  Delimits(q) <=> Delimits(r)
BY DEF Delimits

\* Where the delimiter is.
LEMMA DelimitsAt ==
  ASSUME NEW q \in Queues(Parts)
  PROVE  Delimits(q) <=> \E i \in 1 .. Len(q.flushed) : q.flushed[i] = "delimiter"
<1>1. DOMAIN q.flushed = 1 .. Len(q.flushed) BY QueueFields, LenProperties
<1> QED BY <1>1 DEF Delimits

\* A part written.
LEMMA WrittenQueue ==
  ASSUME NEW q \in Queues(Parts), Formed(q), NEW part \in {"more", "last"}
  PROVE  LET r == Written(q, part, part = "more")
         IN /\ r \in Queues(Parts) /\ Formed(r) /\ r.flushed = q.flushed
            /\ Queued(r) = Queued(q) + (IF part = "last" THEN 1 ELSE 0)
<1> DEFINE r == Written(q, part, part = "more")
           n == Len(q.unflushed)
<1>1. part \in Parts BY DEF Parts
<1>2. /\ q.unflushed \in Seq(Parts) /\ q.flushed \in Seq(Parts) /\ q.complete \in Nat
      /\ n \in Nat /\ q.asleep \in BOOLEAN
  BY QueueFields
<1>3. /\ r.flushed = q.flushed /\ r.asleep = q.asleep
      /\ r.unflushed = Append(q.unflushed, part)
      /\ r.complete = IF part = "more" THEN q.complete ELSE n + 1
  BY DEF Written, Queues
<1>4. Append(q.unflushed, part) \in Seq(Parts) BY <1>1, <1>2
<1>5. r \in Queues(Parts)
  <2>1. (IF part = "more" THEN q.complete ELSE n + 1) \in Nat BY <1>2
  <2> QED BY <1>4, <2>1 DEF Written, Queues
<1>6. /\ Len(r.unflushed) = n + 1
      /\ \A i \in 1 .. n : r.unflushed[i] = q.unflushed[i]
      /\ r.unflushed[n + 1] = part
  BY <1>1, <1>2, <1>3
<1>7. Formed(r)
  <2> HIDE DEF r
  <2>1. q.complete <= n /\ \A i \in q.complete + 1 .. n : q.unflushed[i] = "more"
    BY DEF Formed
  <2>2. \A i \in 1 .. n : q.unflushed[i] # "delimiter" BY DEF Formed
  <2>3. r.complete <= n + 1 BY <1>2, <1>3, <2>1
  <2>4. ASSUME NEW i \in r.complete + 1 .. n + 1 PROVE r.unflushed[i] = "more"
    <3>1. part = "more" /\ r.complete = q.complete BY <1>2, <1>3
    <3>2. CASE i = n + 1 BY <3>1, <3>2, <1>6
    <3>3. CASE i # n + 1
      <4>1. i \in q.complete + 1 .. n /\ i \in 1 .. n BY <3>1, <3>3, <1>2
      <4> QED BY <4>1, <2>1, <1>6
    <3> QED BY <3>2, <3>3
  <2>5. ASSUME NEW i \in 1 .. n + 1 PROVE r.unflushed[i] # "delimiter"
    <3>1. CASE i = n + 1 BY <3>1, <1>6
    <3>2. CASE i # n + 1
      <4>1. i \in 1 .. n BY <3>2, <1>2
      <4> QED BY <4>1, <2>2, <1>6
    <3> QED BY <3>1, <3>2
  <2> QED BY <1>6, <2>3, <2>4, <2>5 DEF Formed
<1>8. Queued(r) = Queued(q) + (IF part = "last" THEN 1 ELSE 0)
  <2> HIDE DEF r
  <2>1. Messages(r.unflushed) = Messages(q.unflushed) + (IF part = "last" THEN 1 ELSE 0)
    BY <1>1, <1>2, <1>3, MessagesAppend
  <2>2. Messages(q.flushed) \in Nat /\ Messages(q.unflushed) \in Nat BY QueueFields
  <2> QED BY <1>3, <2>1, <2>2 DEF Queued
<1> QED BY <1>3, <1>5, <1>7, <1>8

\* The parts of an unfinished message taken back.
LEMMA RolledBackQueue ==
  ASSUME NEW q \in Queues(Parts), Formed(q)
  PROVE  LET r == RolledBack(q)
         IN /\ r \in Queues(Parts) /\ Formed(r) /\ r.flushed = q.flushed
            /\ Queued(r) = Queued(q)
            /\ r.complete = q.complete /\ Len(r.unflushed) = q.complete
<1> DEFINE r == RolledBack(q)
           n == Len(q.unflushed)
           a == SubSeq(q.unflushed, 1, q.complete)
           b == SubSeq(q.unflushed, q.complete + 1, n)
<1>1. q.complete \in 0 .. n /\ n \in Nat /\ q.unflushed \in Seq(Parts) /\ q.complete \in Nat
  BY QueueFields DEF Formed
<1>2. /\ a \in Seq(Parts) /\ b \in Seq(Parts) /\ Len(a) = q.complete /\ Len(b) = n - q.complete
      /\ \A i \in 1 .. q.complete : a[i] = q.unflushed[i]
      /\ \A i \in 1 .. n - q.complete : b[i] = q.unflushed[q.complete + i]
      /\ Messages(q.unflushed) = Messages(a) + Messages(b)
  BY <1>1, Cut
<1>3. r.flushed = q.flushed /\ r.complete = q.complete /\ r.unflushed = a
  BY DEF RolledBack, Queues
<1>4. r \in Queues(Parts) BY <1>2 DEF RolledBack, Queues
<1> HIDE DEF r, a, b
<1>5. Messages(b) = 0
  <2>1. ASSUME NEW i \in 1 .. Len(b) PROVE b[i] # "last"
    <3>1. i \in 1 .. n - q.complete BY <1>2
    <3>2. q.complete + i \in q.complete + 1 .. n BY <3>1, <1>1
    <3> QED BY <1>2, <3>1, <3>2 DEF Formed
  <2> QED BY <1>2, <2>1, MessagesNone
<1>6. Queued(r) = Queued(q)
  <2>1. Messages(a) \in Nat BY <1>2, MessagesType
  <2> QED BY <1>2, <1>3, <1>5, <2>1 DEF Queued
<1>7. Formed(r)
  <2>1. r.complete <= Len(r.unflushed) BY <1>1, <1>2, <1>3
  <2>2. \A i \in r.complete + 1 .. Len(r.unflushed) : r.unflushed[i] = "more"
    BY <1>1, <1>2, <1>3
  <2>3. ASSUME NEW i \in 1 .. Len(r.unflushed) PROVE r.unflushed[i] # "delimiter"
    <3>1. i \in 1 .. q.complete /\ i \in 1 .. n BY <1>1, <1>2, <1>3
    <3> QED BY <1>2, <1>3, <3>1 DEF Formed
  <2> QED BY <2>1, <2>2, <2>3 DEF Formed
<1> QED BY <1>2, <1>3, <1>4, <1>6, <1>7 DEF r

\* What is complete made readable.
LEMMA FlushedQueue ==
  ASSUME NEW q \in Queues(Parts), Formed(q)
  PROVE  LET r == Flushed(q)
         IN /\ r \in Queues(Parts) /\ Formed(r) /\ Queued(r) = Queued(q)
            /\ Delimits(r) <=> Delimits(q)
            /\ \A i \in 1 .. Len(r.unflushed) : r.unflushed[i] = "more"
<1> DEFINE r == Flushed(q)
           n == Len(q.unflushed)
           a == SubSeq(q.unflushed, 1, q.complete)
           b == SubSeq(q.unflushed, q.complete + 1, n)
<1>1. /\ q.complete \in 0 .. n /\ n \in Nat /\ q.unflushed \in Seq(Parts) /\ q.complete \in Nat
      /\ q.flushed \in Seq(Parts) /\ Len(q.flushed) \in Nat
  BY QueueFields DEF Formed
<1>2. /\ a \in Seq(Parts) /\ b \in Seq(Parts) /\ Len(a) = q.complete /\ Len(b) = n - q.complete
      /\ \A i \in 1 .. q.complete : a[i] = q.unflushed[i]
      /\ \A i \in 1 .. n - q.complete : b[i] = q.unflushed[q.complete + i]
      /\ Messages(q.unflushed) = Messages(a) + Messages(b)
  BY <1>1, Cut
<1>3. CASE q.complete = 0
  <2>1. r = q BY <1>3 DEF Flushed
  <2>2. \A i \in 1 .. n : q.unflushed[i] = "more" BY <1>3, <1>1 DEF Formed
  <2> QED BY <2>1, <2>2
<1>4. CASE q.complete # 0
  <2>1. r = [flushed |-> q.flushed \o a, unflushed |-> b, complete |-> 0, asleep |-> FALSE]
    BY <1>4 DEF Flushed
  <2> HIDE DEF r, a, b
  <2>2. /\ q.flushed \o a \in Seq(Parts)
        /\ Len(q.flushed \o a) = Len(q.flushed) + q.complete
        /\ \A i \in 1 .. Len(q.flushed) + q.complete :
              (q.flushed \o a)[i] = IF i <= Len(q.flushed) THEN q.flushed[i]
                                    ELSE a[i - Len(q.flushed)]
    <3>1. q.flushed \in Seq(Parts) /\ a \in Seq(Parts) /\ Len(a) = q.complete BY <1>1, <1>2
    <3>2. /\ q.flushed \o a \in Seq(Parts)
          /\ Len(q.flushed \o a) = Len(q.flushed) + Len(a)
          /\ \A i \in 1 .. Len(q.flushed) + Len(a) :
                (q.flushed \o a)[i] = IF i <= Len(q.flushed) THEN q.flushed[i]
                                      ELSE a[i - Len(q.flushed)]
      BY ONLY <3>1, ConcatProperties
    <3> QED BY <3>1, <3>2
  <2>3. r \in Queues(Parts) BY <1>2, <2>1, <2>2 DEF Queues
  <2>4. ASSUME NEW i \in 1 .. Len(b) PROVE b[i] = "more"
    <3>1. i \in 1 .. n - q.complete BY <1>2
    <3>2. q.complete + i \in q.complete + 1 .. n BY <3>1, <1>1
    <3> QED BY <1>2, <3>1, <3>2 DEF Formed
  <2>5. Formed(r)
    <3>1. Len(b) \in Nat BY <1>1, <1>2
    <3> QED BY <2>1, <2>4, <3>1 DEF Formed
  <2>6. Queued(r) = Queued(q)
    <3>1. Messages(q.flushed \o a) = Messages(q.flushed) + Messages(a)
      BY <1>1, <1>2, MessagesConcat
    <3>2. Messages(q.flushed) \in Nat /\ Messages(a) \in Nat /\ Messages(b) \in Nat
      BY <1>1, <1>2, MessagesType
    <3> QED BY <1>2, <2>1, <3>1, <3>2 DEF Queued
  <2>7. ASSUME Delimits(q) PROVE Delimits(r)
    <3>1. PICK i \in 1 .. Len(q.flushed) : q.flushed[i] = "delimiter" BY <2>7, DelimitsAt
    <3>2. i \in 1 .. Len(r.flushed) /\ r.flushed[i] = "delimiter"
      BY <1>1, <2>1, <2>2, <3>1
    <3> QED BY <2>3, <3>2, DelimitsAt
  <2>8. ASSUME Delimits(r) PROVE Delimits(q)
    <3>1. PICK i \in 1 .. Len(r.flushed) : r.flushed[i] = "delimiter" BY <2>3, <2>8, DelimitsAt
    <3>2. i \in 1 .. Len(q.flushed) + q.complete BY <2>1, <2>2
    <3>3. CASE i <= Len(q.flushed)
      <4>1. i \in 1 .. Len(q.flushed) /\ q.flushed[i] = "delimiter"
        BY <2>1, <2>2, <3>1, <3>2, <3>3, <1>1
      <4> QED BY <4>1, DelimitsAt
    <3>4. CASE ~(i <= Len(q.flushed))
      <4>1. i - Len(q.flushed) \in 1 .. q.complete /\ i - Len(q.flushed) \in 1 .. n
        BY <3>2, <3>4, <1>1
      <4>2. a[i - Len(q.flushed)] = "delimiter" BY <2>1, <2>2, <3>1, <3>2, <3>4
      <4>3. q.unflushed[i - Len(q.flushed)] = "delimiter" BY <1>2, <4>1, <4>2
      <4> QED BY <4>1, <4>3 DEF Formed
    <3> QED BY <3>3, <3>4
  <2>9. \A i \in 1 .. Len(r.unflushed) : r.unflushed[i] = "more" BY <2>1, <2>4
  <2> QED BY <2>3, <2>5, <2>6, <2>7, <2>8, <2>9 DEF r
<1> QED BY <1>3, <1>4

\* A delimiter behind what is complete, made readable at once.
LEMMA DelimitedQueue ==
  ASSUME NEW q \in Queues(Parts), Formed(q)
  PROVE  LET r == Flushed(Delimited(q))
         IN /\ r \in Queues(Parts) /\ Formed(r) /\ Queued(r) = Queued(q)
            /\ r.unflushed = << >>
            /\ ~Delimits(q) => Closed(r)
<1> DEFINE r == Flushed(Delimited(q))
           p == RolledBack(q)
           d == Delimited(q)
           t == Append(p.unflushed, "delimiter")
           n == Len(p.unflushed)
<1>1. /\ p \in Queues(Parts) /\ Formed(p) /\ p.flushed = q.flushed /\ Queued(p) = Queued(q)
      /\ p.complete = n
  BY RolledBackQueue
<1> HIDE DEF p
<1>2. /\ p.unflushed \in Seq(Parts) /\ p.flushed \in Seq(Parts) /\ n \in Nat
      /\ Len(p.flushed) \in Nat
  BY <1>1, QueueFields
<1>3. d = [p EXCEPT !.unflushed = t, !.complete = n + 1]
  BY <1>1 DEF Delimited, Written, p, Queues
<1>4. "delimiter" \in Parts BY DEF Parts
<1>5. /\ t \in Seq(Parts) /\ Len(t) = n + 1 /\ t[n + 1] = "delimiter"
      /\ \A i \in 1 .. n : t[i] = p.unflushed[i]
  BY <1>2, <1>4
<1>6. Messages(t) = Messages(p.unflushed)
  <2>1. Messages(t) = Messages(p.unflushed) + (IF "delimiter" = "last" THEN 1 ELSE 0)
    BY <1>2, <1>4, MessagesAppend
  <2>2. Messages(p.unflushed) \in Nat BY <1>2, MessagesType
  <2> HIDE DEF t
  <2> QED BY <2>1, <2>2
<1> HIDE DEF t, d, n
<1>7. d.flushed = p.flushed /\ d.unflushed = t /\ d.complete = n + 1
  BY <1>1, <1>3 DEF Queues
<1>8. SubSeq(t, 1, n + 1) = t /\ SubSeq(t, (n + 1) + 1, n + 1) = << >>
  BY <1>2, <1>5
<1>9. r = [flushed |-> p.flushed \o t, unflushed |-> << >>, complete |-> 0, asleep |-> FALSE]
  <2>1. Flushed(d) = [flushed |-> d.flushed \o SubSeq(d.unflushed, 1, d.complete),
                      unflushed |-> SubSeq(d.unflushed, d.complete + 1, Len(d.unflushed)),
                      complete |-> 0, asleep |-> FALSE]
    BY <1>2, <1>7 DEF Flushed
  <2> QED BY <2>1, <1>5, <1>7, <1>8 DEF d
<1> HIDE DEF r
<1>10. /\ p.flushed \o t \in Seq(Parts)
       /\ Len(p.flushed \o t) = Len(p.flushed) + (n + 1)
       /\ \A i \in 1 .. Len(p.flushed) + (n + 1) :
             (p.flushed \o t)[i] = IF i <= Len(p.flushed) THEN p.flushed[i]
                                   ELSE t[i - Len(p.flushed)]
  <2>1. /\ p.flushed \o t \in Seq(Parts)
        /\ Len(p.flushed \o t) = Len(p.flushed) + Len(t)
        /\ \A i \in 1 .. Len(p.flushed) + Len(t) :
              (p.flushed \o t)[i] = IF i <= Len(p.flushed) THEN p.flushed[i]
                                    ELSE t[i - Len(p.flushed)]
    BY <1>2, <1>5, ConcatProperties
  <2>2. Len(p.flushed) + Len(t) = Len(p.flushed) + (n + 1) BY <1>5
  <2> QED BY <2>1, <2>2
<1>11. r \in Queues(Parts) BY <1>9, <1>10 DEF Queues
<1>12. Formed(r) BY <1>9 DEF Formed
<1>13. Queued(r) = Queued(q)
  <2>1. Messages(p.flushed \o t) = Messages(p.flushed) + Messages(t)
    BY <1>2, <1>5, MessagesConcat
  <2>2. Messages(<< >>) = 0 BY MessagesEmpty
  <2>3. Messages(p.flushed) \in Nat /\ Messages(p.unflushed) \in Nat BY <1>2, MessagesType
  <2> QED BY <1>1, <1>6, <1>9, <2>1, <2>2, <2>3 DEF Queued
<1>14. ASSUME ~Delimits(q) PROVE Closed(r)
  <2>1. ~Delimits(p) BY <1>1, <1>14, DelimitsFlushed
  <2>2. ASSUME NEW i \in 1 .. Len(r.flushed), r.flushed[i] = "delimiter", i # Len(r.flushed)
        PROVE  FALSE
    <3>1. i \in 1 .. Len(p.flushed) + (n + 1) /\ i # Len(p.flushed) + (n + 1)
      BY <2>2, <1>9, <1>10
    <3>2. CASE i <= Len(p.flushed)
      <4>1. i \in 1 .. Len(p.flushed) /\ p.flushed[i] = "delimiter"
        BY <2>2, <3>1, <3>2, <1>2, <1>9, <1>10
      <4> QED BY <2>1, <4>1, <1>1, DelimitsAt
    <3>3. CASE ~(i <= Len(p.flushed))
      <4>0. \A m, k \in Nat : \A x \in 1 .. m + (k + 1) :
               x # m + (k + 1) /\ ~(x <= m) => x - m \in 1 .. k
        OBVIOUS
      <4>1. i - Len(p.flushed) \in 1 .. n BY <3>1, <3>3, <4>0, <1>2
      <4>2. t[i - Len(p.flushed)] = "delimiter" BY <2>2, <3>1, <3>3, <1>9, <1>10
      <4>3. p.unflushed[i - Len(p.flushed)] = "delimiter" BY <4>1, <4>2, <1>5
      <4> QED BY <4>1, <4>3, <1>1 DEF Formed, n
    <3> QED BY <3>2, <3>3
  <2> QED BY <2>2, <1>9 DEF Closed
<1> QED BY <1>9, <1>11, <1>12, <1>13, <1>14 DEF r, d

\* A reader that finds nothing.
LEMMA CheckedQueue ==
  ASSUME NEW q \in Queues(Parts), Formed(q)
  PROVE  LET r == CheckedEmpty(q)
         IN /\ r \in Queues(Parts) /\ Formed(r)
            /\ r.flushed = q.flushed /\ r.unflushed = q.unflushed
<1> DEFINE r == CheckedEmpty(q)
<1>1. r \in Queues(Parts) BY DEF CheckedEmpty, Queues
<1>2. r.flushed = q.flushed /\ r.unflushed = q.unflushed /\ r.complete = q.complete
  BY DEF CheckedEmpty, Queues
<1> HIDE DEF r
<1>3. Formed(r) BY <1>2 DEF Formed
<1> QED BY <1>1, <1>2, <1>3 DEF r

\* A part read.
LEMMA PoppedQueue ==
  ASSUME NEW q \in Queues(Parts), Formed(q), CanRead(q)
  PROVE  LET r == Popped(q)
         IN /\ r \in Queues(Parts) /\ Formed(r) /\ r.unflushed = q.unflushed
            /\ Queued(q) = (IF Head(q.flushed) = "last" THEN 1 ELSE 0) + Queued(r)
            /\ Delimits(r) => Delimits(q)
            /\ Closed(q) => Closed(r)
            /\ Head(q.flushed) = "delimiter" => Delimits(q) /\ (Closed(q) => Queued(q) = 0)
<1> DEFINE r == Popped(q)
           n == Len(q.flushed)
<1>1. q.flushed \in Seq(Parts) /\ q.flushed # << >> /\ q.unflushed \in Seq(Parts)
  BY QueueFields DEF CanRead
<1>2. /\ Tail(q.flushed) \in Seq(Parts) /\ n \in Nat /\ n >= 1 /\ Len(Tail(q.flushed)) = n - 1
      /\ \A i \in 1 .. n - 1 : Tail(q.flushed)[i] = q.flushed[i + 1]
      /\ Head(q.flushed) = q.flushed[1]
  BY <1>1
<1>3. r \in Queues(Parts) BY <1>2 DEF Popped, Queues
<1>4. r.flushed = Tail(q.flushed) /\ r.unflushed = q.unflushed /\ r.complete = q.complete
  BY DEF Popped, Queues
<1> HIDE DEF r
<1>5. Formed(r) BY <1>4 DEF Formed
<1>6. Queued(q) = (IF Head(q.flushed) = "last" THEN 1 ELSE 0) + Queued(r)
  <2>1. Messages(q.flushed) = (IF Head(q.flushed) = "last" THEN 1 ELSE 0) + Messages(r.flushed)
    BY <1>1, <1>4, MessagesTail
  <2>2. Messages(r.flushed) \in Nat /\ Messages(q.unflushed) \in Nat BY <1>1, <1>3, QueueFields
  <2> QED BY <1>4, <2>1, <2>2 DEF Queued
<1>7. ASSUME Delimits(r) PROVE Delimits(q)
  <2>1. PICK i \in 1 .. Len(r.flushed) : r.flushed[i] = "delimiter" BY <1>3, <1>7, DelimitsAt
  <2>2. i + 1 \in 1 .. n /\ q.flushed[i + 1] = "delimiter" BY <1>2, <1>4, <2>1
  <2> QED BY <2>2, DelimitsAt
<1>8. ASSUME Closed(q) PROVE Closed(r)
  <2>1. ASSUME NEW i \in 1 .. Len(r.flushed), r.flushed[i] = "delimiter"
        PROVE  i = Len(r.flushed)
    <3>1. i + 1 \in 1 .. n /\ q.flushed[i + 1] = "delimiter" BY <1>2, <1>4, <2>1
    <3>2. i + 1 = n BY <1>8, <3>1 DEF Closed
    <3> QED BY <1>2, <1>4, <3>2
  <2> QED BY <1>4, <1>8, <2>1 DEF Closed
<1>9. ASSUME Head(q.flushed) = "delimiter"
      PROVE  Delimits(q) /\ (Closed(q) => Queued(q) = 0)
  <2>1. 1 \in 1 .. n /\ q.flushed[1] = "delimiter" BY <1>2, <1>9
  <2>2. ASSUME Closed(q) PROVE Queued(q) = 0
    <3>1. n = 1 BY <2>1, <2>2 DEF Closed
    <3>2. \A i \in 1 .. Len(q.flushed) : q.flushed[i] # "last" BY <2>1, <3>1
    <3>3. Messages(q.flushed) = 0 BY <1>1, <3>2, MessagesNone
    <3>4. q.unflushed = << >> BY <2>2 DEF Closed
    <3>5. Messages(q.unflushed) = 0 BY <3>4, MessagesEmpty
    <3> QED BY <3>3, <3>5 DEF Queued
  <2> QED BY <2>1, <2>2, DelimitsAt
<1> QED BY <1>3, <1>4, <1>5, <1>6, <1>7, <1>8, <1>9 DEF r

\* A queue with nothing in it.
LEMMA EmptyOne ==
  /\ EmptyQueue \in Queues(Parts) /\ Formed(EmptyQueue) /\ Empty(EmptyQueue)
  /\ \A q : Empty(q) => Queued(q) = 0 /\ ~Delimits(q) /\ ~CanRead(q)
<1>1. EmptyQueue \in Queues(Parts) BY DEF EmptyQueue, Queues
<1>2. Formed(EmptyQueue) /\ Empty(EmptyQueue) BY DEF EmptyQueue, Formed, Empty
<1>3. ASSUME NEW q, Empty(q) PROVE Queued(q) = 0 /\ ~Delimits(q) /\ ~CanRead(q)
  <2>1. q.flushed = << >> /\ q.unflushed = << >> BY <1>3 DEF Empty
  <2>3. Messages(<< >>) = 0 BY MessagesEmpty
  <2>4. Queued(q) = 0 BY <2>1, <2>3 DEF Queued
  <2>5. ~Delimits(q) BY <2>1 DEF Delimits
  <2> QED BY <2>1, <2>4, <2>5 DEF CanRead
<1> QED BY <1>1, <1>2, <1>3

\* The messages that are dropped with a queue that has no delimiter.
LEMMA DroppedQueue ==
  ASSUME NEW q \in Queues(Parts), Formed(q)
  PROVE  LET old == Flushed(q).flushed
             dropped == {i \in DOMAIN old : old[i] # "more"}
         IN /\ Cardinality(dropped) \in Nat
            /\ ~Delimits(q) => Cardinality(dropped) = Queued(q)
<1> DEFINE r == Flushed(q)
           dropped == {i \in DOMAIN r.flushed : r.flushed[i] # "more"}
<1>1. /\ r \in Queues(Parts) /\ Queued(r) = Queued(q) /\ (Delimits(r) <=> Delimits(q))
      /\ \A i \in 1 .. Len(r.unflushed) : r.unflushed[i] = "more"
  BY FlushedQueue
<1> HIDE DEF r
<1>2. r.flushed \in Seq(Parts) /\ r.unflushed \in Seq(Parts) /\ Messages(r.flushed) \in Nat
  BY <1>1, QueueFields
<1>3. DOMAIN r.flushed = 1 .. Len(r.flushed) /\ Len(r.flushed) \in Int BY <1>2, LenProperties
<1>4. IsFiniteSet(dropped)
  <2>1. IsFiniteSet(1 .. Len(r.flushed)) BY <1>3, FS_Interval
  <2>2. dropped \subseteq 1 .. Len(r.flushed) BY <1>3
  <2> QED BY <2>1, <2>2, FS_Subset
<1>5. ASSUME ~Delimits(q) PROVE Cardinality(dropped) = Queued(q)
  <2>1. \A i \in DOMAIN r.flushed : r.flushed[i] \in Parts /\ r.flushed[i] # "delimiter"
    BY <1>1, <1>2, <1>3, <1>5 DEF Delimits
  <2>2. \A i \in DOMAIN r.flushed : r.flushed[i] # "more" <=> r.flushed[i] = "last"
    BY <2>1 DEF Parts
  <2>3. dropped = {i \in DOMAIN r.flushed : r.flushed[i] = "last"} BY <2>2
  <2>4. Cardinality(dropped) = Messages(r.flushed) BY <2>3 DEF Messages
  <2>5. Messages(r.unflushed) = 0 BY <1>1, <1>2, MessagesNone
  <2> HIDE DEF dropped
  <2> QED BY <1>1, <1>2, <2>4, <2>5 DEF Queued
<1> QED BY <1>4, <1>5, FS_CardinalityType DEF r

\* Subtraction without wrapping around.
LEMMA MinusExact ==
  ASSUME NEW a \in 0 .. Word - 1, NEW b \in Nat, b <= a
  PROVE  Minus(a, b) = a - b
<1>1. Word \in Nat /\ a - b \in 0 .. Word - 1 BY PipeAssumption
<1> QED BY <1>1 DEF Minus

\* And with it.
LEMMA MinusType ==
  ASSUME NEW a \in Int, NEW b \in Int
  PROVE  Minus(a, b) \in 0 .. Word - 1
<1>1. 1 \in Ends /\ MaxMessages \in [Ends -> 0 .. Word - 1] /\ Word \in Nat
  BY PipeAssumption DEF Ends
<1>2. MaxMessages[1] \in 0 .. Word - 1 BY <1>1
<1>3. Word \in Nat /\ Word > 0 BY <1>1, <1>2
<1> QED BY <1>3 DEF Minus
-----------------------------------------------------------------------------
(* The termination protocol.  The lemmas take the state s of the end that    *)
(* moves, the commands c on their way to it and the queue o it writes to,    *)
(* and the same of its peer: t, d and p.                                     *)

\* The commands that the ends send.
LEMMA CommandFacts ==
  /\ [type |-> "activate_read"] \in Commands
  /\ [type |-> "pipe_term"] \in Commands
  /\ [type |-> "pipe_term_ack"] \in Commands
  /\ \A n \in Nat : [type |-> "activate_write", msgsRead |-> n] \in Commands
  /\ \A u \in Upipes : [type |-> "hiccup", pipe |-> u] \in Commands
BY DEF Commands

\* The commands by their types.
LEMMA CommandKinds ==
  ASSUME NEW c \in Commands
  PROVE  /\ c.type \in {"activate_read", "activate_write", "hiccup", "pipe_term", "pipe_term_ack"}
         /\ c.type = "activate_write" => c.msgsRead \in Nat
         /\ c.type = "hiccup" => c.pipe \in Upipes
BY DEF Commands

\* An end that has not given up its queue sends a command that is not about
\* termination, or a hiccup when it is active.
LEMMA ProtocolSends ==
  ASSUME NEW s \in States, NEW t \in States, NEW c \in Seq(Commands), NEW d \in Seq(Commands),
         NEW o, NEW p, Handshake(s, t, c, o), Handshake(t, s, d, p), o # Nobody,
         NEW m \in Commands,
         m.type \in {"activate_read", "activate_write"} \/ (m.type = "hiccup" /\ s = "active")
  PROVE  Handshake(t, s, Append(d, m), p)
<1> USE DEF Handshake, Meets, Due, AckDue
<1>1. s \notin {"term_ack_sent", "term_req_sent2", "deallocated"} OBVIOUS
<1>2. /\ Has(Append(d, m), "pipe_term") <=> Has(d, "pipe_term")
      /\ Has(Append(d, m), "pipe_term_ack") <=> Has(d, "pipe_term_ack")
      /\ Has(Append(d, m), "hiccup") => Has(d, "hiccup") \/ s = "active"
  BY HasAppend
<1>3. ~Has(d, "pipe_term_ack") /\ (Has(d, "pipe_term") => s # "active") BY <1>1
<1>4. Ordered(Append(d, m)) BY <1>3, OrderedAppend
<1>5. t # "deallocated" BY <1>1
<1> QED BY <1>1, <1>2, <1>4, <1>5

\* An end receives such a command.
LEMMA ProtocolReceives ==
  ASSUME NEW s \in States, NEW t \in States, NEW c \in Seq(Commands), NEW o, NEW o2,
         Handshake(s, t, c, o), c # << >>, o2 = Nobody <=> o = Nobody,
         Head(c).type \in {"activate_read", "activate_write", "hiccup"}
  PROVE  /\ Handshake(s, t, Tail(c), o2)
         /\ Head(c).type = "hiccup" => o # Nobody
<1> USE DEF Handshake
<1>1. s # "deallocated" OBVIOUS
<1>2. /\ Has(Tail(c), "pipe_term") <=> Has(c, "pipe_term")
      /\ Has(Tail(c), "pipe_term_ack") <=> Has(c, "pipe_term_ack")
      /\ Has(Tail(c), "hiccup") => Has(c, "hiccup")
      /\ Head(c).type = "hiccup" => Has(c, "hiccup")
  BY HasTail
<1>3. Ordered(Tail(c)) BY OrderedTail
<1> QED BY <1>1, <1>2, <1>3

\* An end that reads the delimiter before it is told of the termination.
LEMMA ProtocolDelimiter ==
  ASSUME NEW c, NEW d, NEW o, NEW p,
         Handshake("active", "term_req_sent1", c, o), Handshake("term_req_sent1", "active", d, p)
  PROVE  /\ Handshake("delimiter_received", "term_req_sent1", c, o)
         /\ Handshake("term_req_sent1", "delimiter_received", d, p)
BY DEF Handshake, Meets, Due, AckDue

\* An end that has waited for the delimiter acknowledges.
LEMMA ProtocolAcknowledges ==
  ASSUME NEW t \in States, NEW c \in Seq(Commands), NEW d \in Seq(Commands), NEW o, NEW p,
         Handshake("waiting_for_delimiter", t, c, o), Handshake(t, "waiting_for_delimiter", d, p)
  PROVE  /\ Handshake("term_ack_sent", t, c, Nobody)
         /\ Handshake(t, "term_ack_sent", Append(d, [type |-> "pipe_term_ack"]), p)
         /\ ~Has(c, "hiccup") /\ t # "deallocated"
<1> DEFINE m == [type |-> "pipe_term_ack"]
<1> USE DEF Handshake, Meets, Due, AckDue
<1>1. t = "term_req_sent1" OBVIOUS
<1>2. m \in Commands /\ m.type = "pipe_term_ack" BY CommandFacts
<1> HIDE DEF m
<1>3. /\ Has(Append(d, m), "pipe_term") <=> Has(d, "pipe_term")
      /\ Has(Append(d, m), "pipe_term_ack")
      /\ Has(Append(d, m), "hiccup") <=> Has(d, "hiccup")
  BY <1>2, HasAppend
<1>4. ~Has(d, "pipe_term_ack") OBVIOUS
<1>5. Ordered(Append(d, m)) BY <1>2, <1>4, OrderedAppend
<1>6. Handshake(t, "term_ack_sent", Append(d, m), p) BY <1>1, <1>3, <1>5
<1>7. Handshake("term_ack_sent", t, c, Nobody) BY <1>1
<1> QED BY <1>1, <1>6, <1>7 DEF m

\* An end asks its peer to terminate.
LEMMA ProtocolAsks ==
  ASSUME NEW s \in {"active", "delimiter_received"}, NEW t \in States,
         NEW c \in Seq(Commands), NEW d \in Seq(Commands), NEW o, NEW p,
         Handshake(s, t, c, o), Handshake(t, s, d, p), NEW m \in Commands, m.type = "pipe_term"
  PROVE  /\ Handshake("term_req_sent1", t, c, o)
         /\ Handshake(t, "term_req_sent1", Append(d, m), p)
<1> USE DEF Handshake, Meets, Due, AckDue
<1>1. t \in {"active", "term_req_sent1"} OBVIOUS
<1>2. /\ Has(Append(d, m), "pipe_term")
      /\ Has(Append(d, m), "pipe_term_ack") <=> Has(d, "pipe_term_ack")
      /\ Has(Append(d, m), "hiccup") <=> Has(d, "hiccup")
  BY HasAppend
<1>3. ~Has(d, "pipe_term_ack") /\ ~Has(d, "pipe_term") OBVIOUS
<1>4. Ordered(Append(d, m)) BY <1>3, OrderedAppend
<1>5. Handshake(t, "term_req_sent1", Append(d, m), p) BY <1>1, <1>2, <1>3, <1>4
<1>6. Handshake("term_req_sent1", t, c, o) BY <1>1
<1> QED BY <1>5, <1>6

\* An end that is asked to terminate.
LEMMA ProtocolAsked ==
  ASSUME NEW s \in States, NEW t \in States, NEW c \in Seq(Commands), NEW d \in Seq(Commands),
         NEW o, NEW p, Handshake(s, t, c, o), Handshake(t, s, d, p),
         c # << >>, Head(c).type = "pipe_term"
  PROVE  /\ s \in {"active", "delimiter_received", "term_req_sent1"}
         /\ t \in {"term_req_sent1", "term_req_sent2"}
         /\ s # "term_req_sent1" => t = "term_req_sent1"
         /\ ~Has(c, "hiccup")
         /\ Tail(c) \in Seq(Commands) /\ Ordered(Tail(c))
         /\ ~Has(Tail(c), "pipe_term") /\ ~Has(Tail(c), "hiccup")
         /\ Has(Tail(c), "pipe_term_ack") <=> AckDue(s, t)
<1>1. /\ Has(c, "pipe_term")
      /\ Has(c, "pipe_term_ack") <=> Has(Tail(c), "pipe_term_ack")
      /\ Has(c, "hiccup") <=> Has(Tail(c), "hiccup")
  BY HasTail
<1>2. Ordered(c) BY DEF Handshake
<1>3. /\ Ordered(Tail(c)) /\ ~Has(Tail(c), "pipe_term") /\ ~Has(Tail(c), "hiccup")
  BY <1>2, OrderedTail
<1>4. Due(s, t) BY <1>1 DEF Handshake
<1>5. s # "term_req_sent1" => t = "term_req_sent1" BY <1>4 DEF Handshake, Meets, Due
<1>6. Has(c, "pipe_term_ack") <=> AckDue(s, t) BY DEF Handshake
<1>7. Tail(c) \in Seq(Commands) BY TailFacts
<1> QED BY <1>1, <1>3, <1>4, <1>5, <1>6, <1>7 DEF Due

\* It waits for the delimiter.
LEMMA ProtocolWaits ==
  ASSUME NEW t \in States, NEW c \in Seq(Commands), NEW d \in Seq(Commands), NEW o, NEW p,
         Handshake("active", t, c, o), Handshake(t, "active", d, p),
         c # << >>, Head(c).type = "pipe_term"
  PROVE  /\ Handshake("waiting_for_delimiter", t, Tail(c), o)
         /\ Handshake(t, "waiting_for_delimiter", d, p)
<1>1. "active" \in States BY DEF States
<1>2. /\ t = "term_req_sent1" /\ Ordered(Tail(c))
      /\ ~Has(Tail(c), "pipe_term") /\ ~Has(Tail(c), "hiccup")
      /\ Has(Tail(c), "pipe_term_ack") <=> AckDue("active", t)
  BY <1>1, ProtocolAsked
<1> QED BY <1>2 DEF Handshake, Meets, Due, AckDue

\* It acknowledges; when both ends have asked it still waits for its own
\* acknowledgement.
LEMMA ProtocolAnswers ==
  ASSUME NEW s \in States, NEW t \in States, NEW c \in Seq(Commands), NEW d \in Seq(Commands),
         NEW o, NEW p, Handshake(s, t, c, o), Handshake(t, s, d, p),
         c # << >>, Head(c).type = "pipe_term",
         NEW r, r = IF s = "term_req_sent1" THEN "term_req_sent2" ELSE "term_ack_sent"
  PROVE  /\ Handshake(r, t, Tail(c), Nobody)
         /\ Handshake(t, r, Append(d, [type |-> "pipe_term_ack"]), p)
<1> DEFINE m == [type |-> "pipe_term_ack"]
<1>1. /\ s \in {"active", "delimiter_received", "term_req_sent1"}
      /\ t \in {"term_req_sent1", "term_req_sent2"}
      /\ s # "term_req_sent1" => t = "term_req_sent1"
      /\ Ordered(Tail(c))
      /\ ~Has(Tail(c), "pipe_term") /\ ~Has(Tail(c), "hiccup")
      /\ Has(Tail(c), "pipe_term_ack") <=> AckDue(s, t)
  BY ProtocolAsked
<1>2. m \in Commands /\ m.type = "pipe_term_ack" BY CommandFacts
<1> HIDE DEF m
<1> USE DEF Handshake, Meets, Due, AckDue
<1>3. /\ Has(Append(d, m), "pipe_term") <=> Has(d, "pipe_term")
      /\ Has(Append(d, m), "pipe_term_ack")
      /\ Has(Append(d, m), "hiccup") <=> Has(d, "hiccup")
  BY <1>2, HasAppend
<1>4. ~Has(d, "pipe_term_ack") BY <1>1
<1>5. Ordered(Append(d, m)) BY <1>2, <1>4, OrderedAppend
<1>6. r \in {"term_req_sent2", "term_ack_sent"} OBVIOUS
<1>7. Handshake(r, t, Tail(c), Nobody) BY <1>1, <1>6
<1>8. Handshake(t, r, Append(d, m), p) BY <1>1, <1>3, <1>5, <1>6
<1> QED BY <1>7, <1>8 DEF m

\* An end that gets the acknowledgement is gone, and answers if it has asked.
LEMMA ProtocolEnds ==
  ASSUME NEW s \in States, NEW t \in States, NEW c \in Seq(Commands), NEW d \in Seq(Commands),
         NEW o, NEW p, Handshake(s, t, c, o), Handshake(t, s, d, p),
         c # << >>, Head(c).type = "pipe_term_ack"
  PROVE  /\ s \in {"term_ack_sent", "term_req_sent1", "term_req_sent2"}
         /\ t \in {"term_ack_sent", "term_req_sent2", "deallocated"}
         /\ s = "term_req_sent1" => t # "deallocated"
         /\ Tail(c) = << >> /\ ~Has(c, "hiccup") /\ ~Has(d, "hiccup") /\ p = Nobody
         /\ Handshake("deallocated", t, Tail(c), Nobody)
         /\ s = "term_req_sent1" =>
              Handshake(t, "deallocated", Append(d, [type |-> "pipe_term_ack"]), p)
         /\ s # "term_req_sent1" => Handshake(t, "deallocated", d, p)
<1> DEFINE m == [type |-> "pipe_term_ack"]
<1>1. Has(c, "pipe_term_ack") BY HasTail
<1>2. AckDue(s, t) BY <1>1 DEF Handshake
<1>3. Tail(c) = << >>
  <2>1. Ordered(c) BY DEF Handshake
  <2> QED BY <2>1, OrderedTail
<1>4. ~Has(c, "hiccup") /\ ~Has(c, "pipe_term") BY <1>3, HasTail, NothingSent
<1>5. ~Has(d, "hiccup") /\ p = Nobody BY <1>2 DEF Handshake, AckDue
<1>6. s = "term_req_sent1" => t \in {"term_ack_sent", "term_req_sent2"}
  BY <1>2 DEF Handshake, AckDue, Meets
<1>7. s = "term_req_sent1" => t = "term_ack_sent"
  BY <1>2, <1>4, <1>6 DEF Handshake, Due
<1>8. Handshake("deallocated", t, Tail(c), Nobody)
  BY <1>2, <1>3, NothingSent DEF Handshake, Meets, Due, AckDue
<1>9. ASSUME s = "term_req_sent1" PROVE Handshake(t, "deallocated", Append(d, m), p)
  <2>1. m \in Commands /\ m.type = "pipe_term_ack" BY CommandFacts
  <2> HIDE DEF m
  <2>2. /\ Has(Append(d, m), "pipe_term") <=> Has(d, "pipe_term")
        /\ Has(Append(d, m), "pipe_term_ack")
        /\ Has(Append(d, m), "hiccup") <=> Has(d, "hiccup")
    BY <2>1, HasAppend
  <2>3. ~Has(d, "pipe_term_ack") BY <1>9 DEF Handshake, AckDue
  <2>4. Ordered(d) BY DEF Handshake
  <2>5. Ordered(Append(d, m)) BY <2>1, <2>3, <2>4, OrderedAppend
  <2> QED BY <1>7, <1>9, <2>2, <2>5 DEF Handshake, Meets, Due, AckDue
<1>10. ASSUME s # "term_req_sent1" PROVE Handshake(t, "deallocated", d, p)
  <2>1. s \in {"term_ack_sent", "term_req_sent2"} BY <1>2, <1>10 DEF AckDue
  <2>2. Meets(t, "deallocated") BY <1>2, <2>1 DEF AckDue, Handshake, Meets
  <2> QED BY <1>2, <2>1, <2>2 DEF Handshake, Due, AckDue, Meets
<1> QED BY <1>2, <1>3, <1>4, <1>5, <1>6, <1>8, <1>9, <1>10 DEF AckDue
-----------------------------------------------------------------------------
\* The commands b bring the same queues as the commands c.
Alike(c, b) ==
    /\ b \in Seq(Commands)
    /\ \A u : Brings(b, u) <=> Brings(c, u)
    /\ Has(b, "hiccup") <=> Has(c, "hiccup")
    /\ \A out, in : Chain(c, out, in) => Chain(b, out, in)

\* A command sent that is no hiccup.
LEMMA AlikeAppend ==
  ASSUME NEW s \in Seq(Commands), NEW m \in Commands, m.type # "hiccup"
  PROVE  Alike(s, Append(s, m))
<1>1. Append(s, m) \in Seq(Commands) BY AppendFacts
<1>2. \A u : Brings(Append(s, m), u) <=> Brings(s, u) BY BringsAppend
<1>3. Has(Append(s, m), "hiccup") <=> Has(s, "hiccup") BY HasAppend
<1>4. \A out, in : Chain(s, out, in) => Chain(Append(s, m), out, in) BY ChainAppend
<1> QED BY <1>1, <1>2, <1>3, <1>4 DEF Alike

\* A command received that is no hiccup.
LEMMA AlikeTail ==
  ASSUME NEW s \in Seq(Commands), s # << >>, Head(s).type # "hiccup"
  PROVE  Alike(s, Tail(s))
<1>1. Tail(s) \in Seq(Commands) BY TailFacts
<1>2. \A u : Brings(Tail(s), u) <=> Brings(s, u) BY BringsTail
<1>3. Has(Tail(s), "hiccup") <=> Has(s, "hiccup") BY HasTail
<1>4. \A out, in : Chain(s, out, in) => Chain(Tail(s), out, in) BY ChainTail
<1> QED BY <1>1, <1>2, <1>3, <1>4 DEF Alike

\* No command.
LEMMA AlikeSame ==
  ASSUME NEW s \in Seq(Commands)
  PROVE  Alike(s, s)
BY DEF Alike

\* One command after another.
LEMMA AlikeTwo ==
  ASSUME NEW a, NEW b, NEW c, Alike(a, b), Alike(b, c)
  PROVE  Alike(a, c)
BY DEF Alike

\* The fields of an end.
LEMMA EndFields ==
  ASSUME Types, NEW e \in Ends
  PROVE  /\ pipe[e].state \in States /\ pipe[e].delay \in BOOLEAN
         /\ pipe[e].in \in Upipes /\ pipe[e].out \in Upipes \cup {Nobody}
         /\ pipe[e].inActive \in BOOLEAN /\ pipe[e].outActive \in BOOLEAN
         /\ pipe[e].msgsRead \in Nat /\ pipe[e].msgsWritten \in 0 .. Word - 1
         /\ pipe[e].peersMsgsRead \in Nat
         /\ cmds[e] \in Seq(Commands)
         /\ \A u \in Upipes : upipe[u] \in Queues(Parts) \cup {Nobody}
         /\ Hwm[e] \in Nat
<1>1. pipe[e] \in [state : States, delay : BOOLEAN,
                   in : Upipes, out : Upipes \cup {Nobody},
                   inActive : BOOLEAN, outActive : BOOLEAN,
                   msgsRead : Nat, msgsWritten : 0 .. Word - 1, peersMsgsRead : Nat]
  BY DEF Types
<1>2. cmds[e] \in Seq(Commands) /\ \A u \in Upipes : upipe[u] \in Queues(Parts) \cup {Nobody}
  BY DEF Types
<1>3. Hwm[e] \in Nat BY PipeAssumption
<1> QED BY <1>1, <1>2, <1>3

\* The queues of the two directions are apart, and an end that reads something
\* reads the queue that its peer writes to.
LEMMA Apart ==
  ASSUME PipeInv, NEW e \in Ends, NEW w, w = Peer(e)
  PROVE  /\ pipe[e].out # Nobody =>
              /\ pipe[e].out \in Upipes /\ Out(e) \in Queues(Parts) /\ Formed(Out(e))
              /\ Out(e) # Nobody
              /\ pipe[e].out # pipe[w].out
              /\ Alive(e) => pipe[e].out # pipe[e].in
              /\ \A x \in Ends : ~Brings(cmds[x], pipe[e].out)
         /\ Alive(e) => /\ In(e) \in Queues(Parts) /\ Formed(In(e)) /\ In(e) # Nobody
                        /\ Alive(w) => pipe[e].in # pipe[w].in
                        /\ ~Brings(cmds[e], pipe[e].in)
         /\ MayRead(e) => /\ Alive(e) /\ pipe[w].out # Nobody
                          /\ pipe[w].state \in {"active", "term_req_sent1"}
                          /\ CanRead(In(e)) => pipe[e].in = pipe[w].out
         /\ Brings(cmds[w], pipe[e].in) => Empty(In(e))
<1>1. /\ w \in Ends /\ Peer(w) = e /\ e # w /\ \A x \in Ends : x = e \/ x = w
  BY PeerEnd
<1>2. Types /\ Owned /\ Contents /\ Fresh /\ Chained /\ Protocol BY DEF PipeInv
<1>3. \A u \in Upipes : upipe[u] \in Queues(Parts) \cup {Nobody} BY <1>2 DEF Types
<1>4. /\ pipe[e].in \in Upipes /\ pipe[w].in \in Upipes
      /\ pipe[e].out \in Upipes \cup {Nobody} /\ pipe[w].out \in Upipes \cup {Nobody}
      /\ cmds[e] \in Seq(Commands) /\ cmds[w] \in Seq(Commands)
  BY <1>1, <1>2, EndFields
<1>5. \A u \in Upipes : /\ upipe[u] # Nobody <=> (Owns(e, u) \/ Owns(w, u))
                        /\ ~(Owns(e, u) /\ Owns(w, u))
  BY <1>2 DEF Owned
<1>6. \A u : Owns(e, u) <=> \/ Alive(e) /\ pipe[e].in = u
                            \/ pipe[w].out = u
                            \/ Brings(cmds[w], u)
  BY DEF Owns
<1>7. \A u : Owns(w, u) <=> \/ Alive(w) /\ pipe[w].in = u
                            \/ pipe[e].out = u
                            \/ Brings(cmds[e], u)
  BY <1>1 DEF Owns
<1>8. ASSUME pipe[e].out # Nobody
      PROVE  /\ pipe[e].out \in Upipes /\ Out(e) \in Queues(Parts) /\ Formed(Out(e))
             /\ Out(e) # Nobody
             /\ pipe[e].out # pipe[w].out
             /\ Alive(e) => pipe[e].out # pipe[e].in
             /\ \A x \in Ends : ~Brings(cmds[x], pipe[e].out)
  <2>1. pipe[e].out \in Upipes BY <1>4, <1>8
  <2>2. Owns(w, pipe[e].out) /\ ~Owns(e, pipe[e].out) BY <1>5, <1>7, <2>1
  <2>3. Out(e) # Nobody BY <1>5, <2>1, <2>2 DEF Out
  <2>4. Out(e) \in Queues(Parts) /\ Formed(Out(e)) BY <1>2, <1>3, <2>1, <2>3 DEF Out, Contents
  <2>5. ~Brings(cmds[w], pipe[e].out) /\ pipe[e].out # pipe[w].out
        /\ (Alive(e) => pipe[e].out # pipe[e].in)
    BY <1>6, <2>2
  <2>6. Chain(cmds[e], pipe[e].out, pipe[w].in) BY <1>2, <1>8 DEF Chained
  <2>7. ~Brings(cmds[e], pipe[e].out) BY <1>4, <2>6, ChainUse
  <2> QED BY <1>1, <2>1, <2>3, <2>4, <2>5, <2>7
<1>9. ASSUME Alive(e)
      PROVE  /\ In(e) \in Queues(Parts) /\ Formed(In(e)) /\ In(e) # Nobody
             /\ Alive(w) => pipe[e].in # pipe[w].in
             /\ ~Brings(cmds[e], pipe[e].in)
  <2>1. Owns(e, pipe[e].in) /\ ~Owns(w, pipe[e].in) BY <1>4, <1>5, <1>6, <1>9
  <2>2. In(e) # Nobody BY <1>4, <1>5, <2>1 DEF In
  <2>3. In(e) \in Queues(Parts) /\ Formed(In(e)) BY <1>2, <1>3, <1>4, <2>2 DEF In, Contents
  <2> QED BY <1>7, <2>1, <2>2, <2>3
<1>10. ASSUME Brings(cmds[w], pipe[e].in) PROVE Empty(In(e))
  BY <1>1, <1>2, <1>4, <1>10 DEF Fresh, In
<1>11. ASSUME MayRead(e)
       PROVE  /\ Alive(e) /\ pipe[w].out # Nobody
              /\ pipe[w].state \in {"active", "term_req_sent1"}
              /\ CanRead(In(e)) => pipe[e].in = pipe[w].out
  <2>1. pipe[e].state \in {"active", "waiting_for_delimiter"} BY <1>11 DEF MayRead
  <2>2. /\ Handshake(pipe[e].state, pipe[w].state, cmds[e], pipe[e].out)
        /\ Handshake(pipe[w].state, pipe[e].state, cmds[w], pipe[w].out)
    BY <1>1, <1>2 DEF Protocol
  <2>3. pipe[w].state \in {"active", "term_req_sent1"} BY <2>1, <2>2 DEF Handshake, Meets
  <2>4. pipe[w].out # Nobody BY <2>2, <2>3 DEF Handshake
  <2>5. Chain(cmds[w], pipe[w].out, pipe[e].in) BY <1>1, <1>2, <2>4 DEF Chained
  <2>6. CanRead(In(e)) => pipe[e].in = pipe[w].out
    BY <1>4, <1>10, <2>5, ChainUse, EmptyOne
  <2> QED BY <2>1, <2>3, <2>4, <2>6 DEF Alive
<1> QED BY <1>8, <1>9, <1>10, <1>11

\* A queue that stays as it is, or changes in a way that keeps it in order.
Kept(v) == \/ upipe'[v] = upipe[v]
           \/ /\ upipe[v] # Nobody /\ upipe'[v] \in Queues(Parts) /\ Formed(upipe'[v])
              /\ (\E x \in Ends : Brings(cmds[x], v)) => Empty(upipe'[v])

\* A step that exchanges no queue.
LEMMA Stays ==
  ASSUME PipeInv,
         \A x \in Ends : /\ Alike(cmds[x], cmds'[x])
                         /\ pipe'[x].in = pipe[x].in /\ pipe'[x].out = pipe[x].out
                         /\ Alive(x)' <=> Alive(x),
         \A v \in Upipes : Kept(v)
  PROVE  Chained' /\ Owned' /\ Contents' /\ Fresh'
<1>1. Owned /\ Contents /\ Fresh /\ Chained BY DEF PipeInv
<1>2. \A x \in Ends : Peer(x) \in Ends BY PeerEnd
<1>3. \A q \in Queues(Parts) : q # Nobody BY PipeAssumption
<1>4. \A v \in Upipes : upipe'[v] # Nobody <=> upipe[v] # Nobody BY <1>3 DEF Kept
<1>5. ASSUME NEW x \in Ends, NEW u PROVE Owns(x, u)' <=> Owns(x, u)
  <2>1. Brings(cmds'[Peer(x)], u) <=> Brings(cmds[Peer(x)], u) BY <1>2 DEF Alike
  <2> QED BY <1>2, <2>1 DEF Owns
<1>6. Owned' BY <1>1, <1>2, <1>4, <1>5 DEF Owned
<1>7. Contents' BY <1>1, <1>4 DEF Contents, Kept
<1>8. ASSUME NEW x \in Ends, NEW u \in Upipes, Brings(cmds'[x], u) PROVE Empty(upipe'[u])
  <2>1. Brings(cmds[x], u) BY <1>8 DEF Alike
  <2>2. Empty(upipe[u]) BY <1>1, <2>1 DEF Fresh
  <2> QED BY <2>1, <2>2 DEF Kept
<1>9. Fresh' BY <1>8 DEF Fresh
<1>10. ASSUME NEW x \in Ends, pipe'[x].out # Nobody
       PROVE  Chain(cmds'[x], pipe'[x].out, pipe'[Peer(x)].in)
  <2>1. Chain(cmds[x], pipe[x].out, pipe[Peer(x)].in) BY <1>1, <1>10 DEF Chained
  <2>2. Chain(cmds'[x], pipe[x].out, pipe[Peer(x)].in) BY <2>1 DEF Alike
  <2> QED BY <1>2, <2>2
<1>11. Chained' BY <1>10 DEF Chained
<1> QED BY <1>6, <1>7, <1>9, <1>11

\* A step in which an end leaves the queue it writes to, which the other end
\* reads and deletes.
LEMMA GivesUp ==
  ASSUME PipeInv, NEW e \in Ends, NEW w, w = Peer(e),
         \A x \in Ends : Alike(cmds[x], cmds'[x]) /\ pipe'[x].in = pipe[x].in
                         /\ (Alive(x)' <=> Alive(x)),
         pipe[e].out # Nobody, pipe'[e].out = Nobody, pipe'[w].out = pipe[w].out,
         ~Has(cmds[e], "hiccup"), Alive(w),
         \A v \in Upipes : Kept(v)
  PROVE  Chained' /\ Owned' /\ Contents' /\ Fresh'
<1>1. Owned /\ Contents /\ Fresh /\ Chained /\ Types BY DEF PipeInv
<1>2. w \in Ends /\ Peer(w) = e /\ e # w /\ \A x \in Ends : x = e \/ x = w BY PeerEnd
<1>3. \A q \in Queues(Parts) : q # Nobody BY PipeAssumption
<1>4. \A v \in Upipes : upipe'[v] # Nobody <=> upipe[v] # Nobody BY <1>3 DEF Kept
<1>5. pipe[w].in = pipe[e].out
  <2>1. cmds[e] \in Seq(Commands) BY <1>1, EndFields
  <2>2. Chain(cmds[e], pipe[e].out, pipe[w].in) BY <1>1 DEF Chained
  <2> QED BY <2>1, <2>2, ChainUse
<1>6. ASSUME NEW u \in Upipes PROVE Owns(e, u)' <=> Owns(e, u)
  <2>1. Brings(cmds'[w], u) <=> Brings(cmds[w], u) BY <1>2 DEF Alike
  <2> QED BY <2>1 DEF Owns
<1>7. ASSUME NEW u \in Upipes PROVE Owns(w, u)' <=> Owns(w, u)
  <2>1. Brings(cmds'[e], u) <=> Brings(cmds[e], u) BY DEF Alike
  <2>2. u # Nobody BY PipeAssumption
  <2>3. Owns(w, u)' <=> (pipe[w].in = u \/ Brings(cmds[e], u)) BY <1>2, <2>1, <2>2 DEF Owns
  <2>4. Owns(w, u) <=> (pipe[w].in = u \/ Brings(cmds[e], u)) BY <1>2, <1>5 DEF Owns
  <2> QED BY <2>3, <2>4
<1>8. Owned'
  <2>1. \A x \in Ends : \A u \in Upipes : Owns(x, u)' <=> Owns(x, u) BY <1>2, <1>6, <1>7
  <2>2. \A x \in Ends : Peer(x) \in Ends BY PeerEnd
  <2> QED BY <1>1, <1>4, <2>1, <2>2 DEF Owned
<1>9. Contents' BY <1>1, <1>4 DEF Contents, Kept
<1>10. ASSUME NEW x \in Ends, NEW u \in Upipes, Brings(cmds'[x], u) PROVE Empty(upipe'[u])
  <2>1. Brings(cmds[x], u) BY <1>10 DEF Alike
  <2>2. Empty(upipe[u]) BY <1>1, <2>1 DEF Fresh
  <2> QED BY <2>1, <2>2 DEF Kept
<1>11. Fresh' BY <1>10 DEF Fresh
<1>12. ASSUME pipe'[w].out # Nobody PROVE Chain(cmds'[w], pipe'[w].out, pipe'[e].in)
  <2>1. Chain(cmds[w], pipe[w].out, pipe[e].in) BY <1>1, <1>2, <1>12 DEF Chained
  <2>2. Chain(cmds'[w], pipe[w].out, pipe[e].in) BY <1>2, <2>1 DEF Alike
  <2> QED BY <1>2, <2>2
<1>13. Chained' BY <1>2, <1>12 DEF Chained
<1> QED BY <1>8, <1>9, <1>11, <1>13
-----------------------------------------------------------------------------
(* The flow in one direction.                                                *)

\* The messages, the delimiter and its place are in r as they are in q.
Similar(q, r) == /\ Queued(r) = Queued(q)
                 /\ Delimits(r) => Delimits(q)
                 /\ Closed(q) => Closed(r)

\* Flushing, rolling back and finding nothing keep all that.
LEMMA SimilarQueues ==
  ASSUME NEW q \in Queues(Parts), Formed(q)
  PROVE  /\ Similar(q, q) /\ Similar(q, Flushed(q)) /\ Similar(q, RolledBack(q))
         /\ Similar(q, CheckedEmpty(q))
<1>1. q.complete \in Nat /\ q.complete <= Len(q.unflushed) BY QueueFields DEF Formed
<1>2. Closed(q) => q.complete = 0 BY <1>1 DEF Closed
<1>3. Similar(q, q) BY DEF Similar
<1>4. Similar(q, Flushed(q))
  <2>1. Closed(q) => Flushed(q) = q BY <1>2 DEF Flushed
  <2> QED BY <2>1, FlushedQueue DEF Similar
<1>5. Similar(q, RolledBack(q))
  <2> DEFINE r == RolledBack(q)
  <2>1. /\ r \in Queues(Parts) /\ Formed(r) /\ r.flushed = q.flushed
        /\ Queued(r) = Queued(q) /\ Len(r.unflushed) = q.complete
    BY RolledBackQueue
  <2> HIDE DEF r
  <2>2. r.unflushed \in Seq(Parts) BY <2>1, QueueFields
  <2>3. Len(r.unflushed) = 0 => r.unflushed = << >> BY <2>2, EmptySeq
  <2>4. Closed(q) => Closed(r) BY <1>2, <2>1, <2>3 DEF Closed
  <2>5. Delimits(r) => Delimits(q) BY <2>1, DelimitsFlushed
  <2> QED BY <2>1, <2>4, <2>5 DEF Similar, r
<1>6. Similar(q, CheckedEmpty(q))
  <2> DEFINE r == CheckedEmpty(q)
  <2>1. r.flushed = q.flushed /\ r.unflushed = q.unflushed BY CheckedQueue
  <2> HIDE DEF r
  <2>2. Delimits(r) => Delimits(q) BY <2>1, DelimitsFlushed
  <2> QED BY <2>1, <2>2 DEF Similar, Closed, Queued, r
<1> QED BY <1>3, <1>4, <1>5, <1>6

\* A step that neither writes nor reads a message in this direction.
LEMMA FlowKeeps ==
  ASSUME NEW s, NEW t, NEW out, NEW in, NEW qo, NEW qi, NEW mw, NEW mr, NEW pr, NEW c, NEW hwm,
         Flow(s, t, out, in, qo, qi, mw, mr, pr, c, hwm),
         NEW s2, NEW t2, NEW out2, NEW qo2, NEW qi2, NEW pr2, NEW c2,
         s2 = "active" => s = "active" /\ out2 # Nobody /\ (Delimits(qo2) => Delimits(qo)),
         t2 \in {"active", "waiting_for_delimiter"} =>
            /\ t \in {"active", "waiting_for_delimiter"} /\ Similar(qi, qi2)
            /\ out2 = out /\ (s = "term_req_sent1" => s2 = "term_req_sent1"),
         t2 = "delimiter_received" =>
            t = "delimiter_received" /\ (Has(c2, "hiccup") => Has(c, "hiccup")),
         out2 # Nobody => out2 = out /\ Queued(qo2) = Queued(qo),
         pr2 <= mr, Reported(c2, mr)
  PROVE  Flow(s2, t2, out2, in, qo2, qi2, mw, mr, pr2, c2, hwm)
<1>1. s2 = "active" => ~Delimits(qo2) /\ mw = mr + Queued(qo2) BY DEF Flow
<1>2. ASSUME Sees(t2, qi2)
      PROVE  s2 = "term_req_sent1" /\ out2 = in /\ Closed(qi2) /\ mw = mr + Queued(qi2)
  <2>1. Sees(t, qi) /\ Similar(qi, qi2) BY <1>2 DEF Sees, Similar
  <2> QED BY <1>2, <2>1 DEF Sees, Similar, Flow
<1>3. t2 = "delimiter_received" => ~Has(c2, "hiccup") /\ mw = mr BY DEF Flow
<1>4. out2 # Nobody /\ hwm > 0 => Queued(qo2) <= hwm BY DEF Flow
<1> QED BY <1>1, <1>2, <1>3, <1>4 DEF Flow

\* A part written below the high water mark.
LEMMA FlowWrite ==
  ASSUME NEW t, t # "delimiter_received",
         NEW out \in Upipes, NEW in, NEW qo \in Queues(Parts), NEW qi,
         NEW mw \in 0 .. Word - 1, NEW mr \in Nat, NEW pr \in Nat, NEW c, NEW hwm \in Nat,
         Formed(qo), Flow("active", t, out, in, qo, qi, mw, mr, pr, c, hwm),
         NEW part \in {"more", "last"}, ~(hwm > 0 /\ Minus(mw, pr) >= hwm),
         NEW qo2, qo2 = Written(qo, part, part = "more"),
         NEW qi2, qi2 = IF in = out THEN qo2 ELSE qi, in = out => qi = qo,
         NEW mw2, mw2 = IF part = "last" THEN mw + 1 ELSE mw
  PROVE  Flow("active", t, out, in, qo2, qi2, mw2, mr, pr, c, hwm)
<1>1. /\ qo2.flushed = qo.flushed
      /\ Queued(qo2) = Queued(qo) + (IF part = "last" THEN 1 ELSE 0)
  BY WrittenQueue
<1>2. Queued(qo) \in Nat BY QueueFields
<1>3. ~Delimits(qo) /\ mw = mr + Queued(qo) /\ pr <= mr /\ Reported(c, mr)
      /\ (hwm > 0 => Queued(qo) <= hwm) /\ ~Sees(t, qi)
  BY PipeAssumption DEF Flow
<1>4. ~Delimits(qo2) BY <1>1, <1>3, DelimitsFlushed
<1>5. mw2 = mr + Queued(qo2) BY <1>1, <1>2, <1>3
<1>6. ~Sees(t, qi2) BY <1>3, <1>4 DEF Sees
<1>7. Minus(mw, pr) = mw - pr
  <2>1. pr <= mw /\ mw \in Nat BY <1>2, <1>3
  <2> QED BY <2>1, MinusExact
<1>8. hwm > 0 => Queued(qo2) <= hwm BY <1>1, <1>2, <1>3, <1>7
<1> QED BY <1>3, <1>4, <1>5, <1>6, <1>8 DEF Flow

\* A part read that is no delimiter.
LEMMA FlowRead ==
  ASSUME NEW s, NEW t \in {"active", "waiting_for_delimiter"}, NEW out, NEW q \in Queues(Parts),
         NEW mw \in Nat, NEW mr \in Nat, NEW pr \in Nat, NEW c, NEW hwm \in Nat,
         Formed(q), CanRead(q), Flow(s, t, out, out, q, q, mw, mr, pr, c, hwm),
         NEW mr2, mr2 = mr + (IF Head(q.flushed) = "last" THEN 1 ELSE 0),
         NEW c2, Reported(c2, mr2)
  PROVE  Flow(s, t, out, out, Popped(q), Popped(q), mw, mr2, pr, c2, hwm)
<1> DEFINE r == Popped(q)
<1>1. /\ r \in Queues(Parts)
      /\ Queued(q) = (IF Head(q.flushed) = "last" THEN 1 ELSE 0) + Queued(r)
      /\ Delimits(r) => Delimits(q)
      /\ Closed(q) => Closed(r)
  BY PoppedQueue
<1> HIDE DEF r
<1>2. Queued(q) \in Nat /\ Queued(r) \in Nat BY <1>1, QueueFields
<1>3. mr + Queued(q) = mr2 + Queued(r) /\ mr <= mr2 /\ mr2 \in Nat /\ Queued(r) <= Queued(q)
  BY <1>1, <1>2
<1>4. s = "active" => ~Delimits(r) /\ mw = mr2 + Queued(r) BY <1>1, <1>3 DEF Flow
<1>5. ASSUME Sees(t, r)
      PROVE  s = "term_req_sent1" /\ Closed(r) /\ mw = mr2 + Queued(r)
  <2>1. Sees(t, q) BY <1>1, <1>5 DEF Sees
  <2> QED BY <1>1, <1>3, <2>1 DEF Flow
<1>6. pr <= mr2
  <2>1. pr <= mr BY DEF Flow
  <2> QED BY <1>3, <2>1
<1>7. out # Nobody /\ hwm > 0 => Queued(r) <= hwm
  <2>1. out # Nobody /\ hwm > 0 => Queued(q) <= hwm BY DEF Flow
  <2> QED BY <1>2, <1>3, <2>1
<1>8. Flow(s, t, out, out, r, r, mw, mr2, pr, c2, hwm) BY <1>4, <1>5, <1>6, <1>7 DEF Flow
<1> QED BY <1>8 DEF r

\* A reader that has reached the delimiter of a queue that is closed.
LEMMA DelimiterNext ==
  ASSUME NEW q \in Queues(Parts), Formed(q), CanRead(q), Head(q.flushed) = "delimiter"
  PROVE  /\ \A t \in {"active", "waiting_for_delimiter"} : Sees(t, q)
         /\ Closed(q) => Queued(q) = 0
         /\ Queued(Popped(q)) = Queued(q)
<1>1. /\ Queued(q) = (IF Head(q.flushed) = "last" THEN 1 ELSE 0) + Queued(Popped(q))
      /\ Delimits(q) /\ (Closed(q) => Queued(q) = 0) /\ Popped(q) \in Queues(Parts)
  BY PoppedQueue
<1>2. Queued(Popped(q)) = Queued(q)
  <2>1. Queued(Popped(q)) \in Nat BY <1>1, QueueFields
  <2>2. (IF Head(q.flushed) = "last" THEN 1 ELSE 0) = 0 OBVIOUS
  <2> QED BY <1>1, <2>1, <2>2
<1> QED BY <1>1, <1>2 DEF Sees

\* An end that was not told of the termination reads the delimiter.
LEMMA FlowDelimiter ==
  ASSUME NEW s, NEW out, NEW q \in Queues(Parts),
         NEW mw \in Nat, NEW mr \in Nat, NEW pr, NEW c, NEW hwm,
         Formed(q), CanRead(q), Head(q.flushed) = "delimiter", ~Has(c, "hiccup"),
         Flow(s, "active", out, out, q, q, mw, mr, pr, c, hwm)
  PROVE  Flow(s, "delimiter_received", out, out, Popped(q), Popped(q), mw, mr, pr, c, hwm)
<1>1. Sees("active", q) /\ (Closed(q) => Queued(q) = 0) /\ Queued(Popped(q)) = Queued(q)
  BY DelimiterNext
<1>2. s = "term_req_sent1" /\ mw = mr BY <1>1 DEF Flow
<1> QED BY <1>1, <1>2 DEF Flow, Sees

\* An end asks its peer to terminate and writes the delimiter.
LEMMA FlowAsks ==
  ASSUME NEW s \in {"active", "delimiter_received"}, NEW t \in {"active", "term_req_sent1"},
         s = "delimiter_received" => t = "term_req_sent1",
         NEW out, NEW in, NEW qo \in Queues(Parts), NEW qi, Formed(qo),
         NEW mw, NEW mr, NEW pr, NEW c, NEW hwm,
         Flow(s, t, out, in, qo, qi, mw, mr, pr, c, hwm),
         NEW qo2, qo2 = Flushed(Delimited(qo)), NEW qi2, qi2 = IF in = out THEN qo2 ELSE qi
  PROVE  Flow("term_req_sent1", t, out, in, qo2, qi2, mw, mr, pr, c, hwm)
<1>1. Queued(qo2) = Queued(qo) /\ (~Delimits(qo) => Closed(qo2)) BY DelimitedQueue
<1>2. ASSUME Sees(t, qi2)
      PROVE  out = in /\ Closed(qi2) /\ mw = mr + Queued(qi2)
  <2>1. t = "active" /\ s = "active" BY <1>2 DEF Sees
  <2>2. ~Delimits(qo) /\ mw = mr + Queued(qo) /\ ~Sees(t, qi) BY <2>1 DEF Flow
  <2>3. in = out BY <1>2, <2>2
  <2> QED BY <1>1, <2>2, <2>3
<1> QED BY <1>1, <1>2 DEF Flow

\* An end gets a new queue to write to and drops what is in the old one.
LEMMA FlowDrops ==
  ASSUME NEW s, NEW t, NEW out, NEW in, in # out, NEW qo \in Queues(Parts), NEW qi, Formed(qo),
         NEW mw \in 0 .. Word - 1, NEW mr \in Nat, NEW pr, NEW c, NEW hwm \in Nat,
         Flow(s, t, out, in, qo, qi, mw, mr, pr, c, hwm), Has(c, "hiccup"),
         NEW out2, NEW qo2, Empty(qo2), NEW n \in Nat, ~Delimits(qo) => n = Queued(qo),
         NEW c2, Reported(c2, mr)
  PROVE  Flow(s, t, out2, in, qo2, qi, Minus(mw, n), mr, pr, c2, hwm)
<1>1. Queued(qo2) = 0 /\ ~Delimits(qo2) BY EmptyOne
<1>2. Queued(qo) \in Nat BY QueueFields
<1>3. ASSUME s = "active" PROVE Minus(mw, n) = mr + Queued(qo2)
  <2>1. n = Queued(qo) /\ mw = mr + Queued(qo) BY <1>3 DEF Flow
  <2>2. n <= mw /\ mw - n = mr BY <1>2, <2>1
  <2>3. Minus(mw, n) = mw - n BY <2>2, MinusExact
  <2> QED BY <1>1, <2>2, <2>3
<1>4. ~Sees(t, qi) /\ t # "delimiter_received" BY DEF Flow
<1>5. pr <= mr BY DEF Flow
<1> QED BY <1>1, <1>3, <1>4, <1>5 DEF Flow

\* A reader exchanges its queue.
LEMMA FlowHiccup ==
  ASSUME NEW s, NEW out, NEW in, NEW qo, NEW qi, NEW mw, NEW mr, NEW pr, NEW c, NEW hwm,
         Flow(s, "active", out, in, qo, qi, mw, mr, pr, c, hwm),
         NEW in2, NEW c2, Reported(c2, mr)
  PROVE  Flow(s, "active", out, in2, qo, EmptyQueue, mw, mr, pr, c2, hwm)
<1>1. ~Sees("active", EmptyQueue) BY EmptyOne DEF Sees
<1> QED BY <1>1 DEF Flow
-----------------------------------------------------------------------------
(* What a step has to keep.                                                  *)

\* The invariant, as it concerns an end and its peer.
LEMMA View ==
  ASSUME PipeInv, NEW e \in Ends, NEW w, w = Peer(e)
  PROVE  /\ Handshake(pipe[e].state, pipe[w].state, cmds[e], pipe[e].out)
         /\ Handshake(pipe[w].state, pipe[e].state, cmds[w], pipe[w].out)
         /\ Flow(pipe[e].state, pipe[w].state, pipe[e].out, pipe[w].in, Out(e), In(w),
                 pipe[e].msgsWritten, pipe[w].msgsRead, pipe[e].peersMsgsRead, cmds[e], Hwm[e])
         /\ Flow(pipe[w].state, pipe[e].state, pipe[w].out, pipe[e].in, Out(w), In(e),
                 pipe[w].msgsWritten, pipe[e].msgsRead, pipe[w].peersMsgsRead, cmds[w], Hwm[w])
         /\ Reported(cmds[e], pipe[w].msgsRead) /\ Reported(cmds[w], pipe[e].msgsRead)
<1>1. w \in Ends /\ Peer(w) = e BY PeerEnd
<1>2. /\ Handshake(pipe[e].state, pipe[w].state, cmds[e], pipe[e].out)
      /\ Handshake(pipe[w].state, pipe[e].state, cmds[w], pipe[w].out)
  BY <1>1 DEF PipeInv, Protocol
<1>3. FlowFrom(e) /\ FlowFrom(w) BY <1>1 DEF PipeInv, Flows
<1>4. /\ Flow(pipe[e].state, pipe[w].state, pipe[e].out, pipe[w].in, Out(e), In(w),
              pipe[e].msgsWritten, pipe[w].msgsRead, pipe[e].peersMsgsRead, cmds[e], Hwm[e])
      /\ Flow(pipe[w].state, pipe[e].state, pipe[w].out, pipe[e].in, Out(w), In(e),
              pipe[w].msgsWritten, pipe[e].msgsRead, pipe[w].peersMsgsRead, cmds[w], Hwm[w])
  BY <1>1, <1>3 DEF FlowFrom
<1>5. Reported(cmds[e], pipe[w].msgsRead) /\ Reported(cmds[w], pipe[e].msgsRead)
  BY <1>4 DEF Flow
<1> QED BY <1>2, <1>4, <1>5

\* The invariant after a step, put together.
LEMMA Together ==
  ASSUME NEW e \in Ends, NEW w, w = Peer(e),
         Types', ~aborted', (Chained /\ Owned /\ Contents /\ Fresh)',
         Handshake(pipe'[e].state, pipe'[w].state, cmds'[e], pipe'[e].out),
         Handshake(pipe'[w].state, pipe'[e].state, cmds'[w], pipe'[w].out),
         FlowFrom(e)', FlowFrom(w)'
  PROVE  PipeInv'
<1>1. w \in Ends /\ Peer(w) = e /\ \A x \in Ends : x = e \/ x = w BY PeerEnd
<1>2. Protocol' BY <1>1 DEF Protocol
<1>3. Flows' BY <1>1 DEF Flows
<1> QED BY <1>2, <1>3 DEF PipeInv

\* A direction in which no message is written or read.
LEMMA FlowStill ==
  ASSUME PipeInv, NEW x \in Ends, NEW y, y = Peer(x),
         pipe'[y].in = pipe[y].in, pipe'[x].msgsWritten = pipe[x].msgsWritten,
         pipe'[y].msgsRead = pipe[y].msgsRead,
         pipe'[x].peersMsgsRead <= pipe[y].msgsRead, Reported(cmds'[x], pipe[y].msgsRead),
         pipe'[x].state = "active" =>
            /\ pipe[x].state = "active" /\ pipe'[x].out # Nobody
            /\ Delimits(Out(x)') => Delimits(Out(x)),
         pipe'[y].state \in {"active", "waiting_for_delimiter"} =>
            /\ pipe[y].state \in {"active", "waiting_for_delimiter"}
            /\ Similar(In(y), In(y)') /\ pipe'[x].out = pipe[x].out
            /\ pipe[x].state = "term_req_sent1" => pipe'[x].state = "term_req_sent1",
         pipe'[y].state = "delimiter_received" =>
            /\ pipe[y].state = "delimiter_received"
            /\ Has(cmds'[x], "hiccup") => Has(cmds[x], "hiccup"),
         pipe'[x].out # Nobody => pipe'[x].out = pipe[x].out /\ Queued(Out(x)') = Queued(Out(x))
  PROVE  FlowFrom(x)'
<1>1. Flow(pipe[x].state, pipe[y].state, pipe[x].out, pipe[y].in, Out(x), In(y),
           pipe[x].msgsWritten, pipe[y].msgsRead, pipe[x].peersMsgsRead, cmds[x], Hwm[x])
  BY View
<1>2. Flow(pipe'[x].state, pipe'[y].state, pipe'[x].out, pipe[y].in, Out(x)', In(y)',
           pipe[x].msgsWritten, pipe[y].msgsRead, pipe'[x].peersMsgsRead, cmds'[x], Hwm[x])
  BY <1>1, FlowKeeps
<1> QED BY <1>2 DEF FlowFrom

\* What the protocol looks at is as it was.
Untouched(x) == /\ pipe'[x].state = pipe[x].state
                /\ pipe'[x].in = pipe[x].in /\ pipe'[x].out = pipe[x].out
                /\ pipe'[x].msgsRead = pipe[x].msgsRead
                /\ pipe'[x].msgsWritten = pipe[x].msgsWritten
                /\ pipe'[x].peersMsgsRead = pipe[x].peersMsgsRead

\* A queue that stays, or changes in a way that neither end has to notice.
Steady(v) == Kept(v) /\ (upipe[v] # Nobody => Similar(upipe[v], upipe'[v]))

\* A step that only rearranges queues and sends or receives commands about reading.
LEMMA Rearranges ==
  ASSUME PipeInv, Types', ~aborted', NEW e \in Ends, NEW w, w = Peer(e),
         Untouched(e), Untouched(w),
         Alike(cmds[e], cmds'[e]), Alike(cmds[w], cmds'[w]),
         Handshake(pipe[e].state, pipe[w].state, cmds'[e], pipe[e].out),
         Handshake(pipe[w].state, pipe[e].state, cmds'[w], pipe[w].out),
         Reported(cmds'[e], pipe[w].msgsRead), Reported(cmds'[w], pipe[e].msgsRead),
         \A v \in Upipes : Steady(v)
  PROVE  PipeInv'
<1>1. w \in Ends /\ Peer(w) = e /\ \A x \in Ends : x = e \/ x = w BY PeerEnd
<1>2. Types BY DEF PipeInv
<1>3. \A x \in Ends : /\ Alike(cmds[x], cmds'[x])
                      /\ pipe'[x].in = pipe[x].in /\ pipe'[x].out = pipe[x].out
                      /\ Alive(x)' <=> Alive(x)
  BY <1>1 DEF Untouched, Alive
<1>4. \A v \in Upipes : Kept(v) BY DEF Steady
<1>5. Chained' /\ Owned' /\ Contents' /\ Fresh' BY <1>3, <1>4, Stays
<1>6. ASSUME NEW x \in Ends PROVE FlowFrom(x)'
  <2> DEFINE y == Peer(x)
  <2>1. y \in Ends /\ Peer(y) = x BY PeerEnd
  <2> HIDE DEF y
  <2>2. Untouched(x) /\ Untouched(y) /\ Reported(cmds'[x], pipe[y].msgsRead)
    BY <1>1, <2>1 DEF y
  <2>3. Alike(cmds[x], cmds'[x]) BY <1>1
  <2>4. /\ pipe[x].out # Nobody => pipe[x].out \in Upipes /\ Out(x) # Nobody
        /\ Alive(y) => In(y) # Nobody
    BY <2>1, Apart DEF y
  <2>5. pipe[y].in \in Upipes /\ pipe[x].peersMsgsRead <= pipe[y].msgsRead
    <3>1. pipe[y].in \in Upipes BY <1>2, <2>1, EndFields
    <3>2. FlowFrom(x) BY DEF PipeInv, Flows
    <3> QED BY <3>1, <3>2 DEF FlowFrom, Flow, y
  <2>6. pipe[x].out # Nobody => Similar(Out(x), Out(x)')
    BY <2>2, <2>4 DEF Steady, Out, Untouched
  <2>7. pipe[y].state \in {"active", "waiting_for_delimiter"} => Similar(In(y), In(y)')
    BY <2>2, <2>4, <2>5 DEF Steady, In, Untouched, Alive
  <2>8. pipe[x].state = "active" => pipe[x].out # Nobody
    BY <1>1 DEF PipeInv, Protocol, Handshake
  <2>9. /\ pipe'[y].in = pipe[y].in /\ pipe'[x].msgsWritten = pipe[x].msgsWritten
        /\ pipe'[y].msgsRead = pipe[y].msgsRead
        /\ pipe'[x].peersMsgsRead <= pipe[y].msgsRead
        /\ pipe'[x].state = pipe[x].state /\ pipe'[y].state = pipe[y].state
        /\ pipe'[x].out = pipe[x].out
        /\ Has(cmds'[x], "hiccup") => Has(cmds[x], "hiccup")
    BY <2>2, <2>3, <2>5 DEF Untouched, Alike
  <2>10. /\ pipe[x].out # Nobody => Queued(Out(x)') = Queued(Out(x))
         /\ pipe[x].state = "active" => (Delimits(Out(x)') => Delimits(Out(x)))
    BY <2>6, <2>8 DEF Similar
  <2>11. y = Peer(x) BY DEF y
  <2> QED BY <2>2, <2>7, <2>8, <2>9, <2>10, <2>11, FlowStill
<1>7. /\ Handshake(pipe'[e].state, pipe'[w].state, cmds'[e], pipe'[e].out)
      /\ Handshake(pipe'[w].state, pipe'[e].state, cmds'[w], pipe'[w].out)
  BY DEF Untouched
<1> QED BY <1>1, <1>5, <1>6, <1>7, Together
-----------------------------------------------------------------------------
(* The actions, one by one.                                                  *)

\* A sequence of commands gets one more, or none.
LEMMA OneSent ==
  ASSUME NEW s \in Seq(Commands), NEW m \in Commands
  PROVE  s \o <<m>> = Append(s, m) /\ s \o << >> = s
OBVIOUS

\* Commands to the peer.
LEMMA SentTo ==
  ASSUME Types, NEW e \in Ends, NEW w, w = Peer(e), NEW S, cmds' = To(e, S)
  PROVE  /\ cmds'[e] = cmds[e] /\ cmds'[w] = cmds[w] \o S
         /\ cmds[w] \o S \in Seq(Commands) => cmds' \in [Ends -> Seq(Commands)]
BY PeerEnd DEF Types, To

\* Commands to the peer, and one received.
LEMMA HandledBy ==
  ASSUME Types, NEW e \in Ends, NEW w, w = Peer(e), NEW S, cmds' = Handled(e, S),
         cmds[e] # << >>
  PROVE  /\ cmds'[e] = Tail(cmds[e]) /\ cmds'[w] = cmds[w] \o S
         /\ cmds[w] \o S \in Seq(Commands) => cmds' \in [Ends -> Seq(Commands)]
<1>1. e \in Ends /\ w \in Ends /\ e # w /\ \A x \in Ends : x = e \/ x = w BY PeerEnd
<1>2. cmds \in [Ends -> Seq(Commands)] BY DEF Types
<1>3. cmds' = [cmds EXCEPT ![e] = Tail(@), ![w] = @ \o S] BY DEF Handled
<1>4. cmds'[e] = Tail(cmds[e]) /\ cmds'[w] = cmds[w] \o S BY <1>1, <1>2, <1>3
<1>5. Tail(cmds[e]) \in Seq(Commands) BY <1>2, TailFacts
<1>6. cmds[w] \o S \in Seq(Commands) => cmds' \in [Ends -> Seq(Commands)]
  BY <1>1, <1>2, <1>3, <1>5
<1> QED BY <1>4, <1>6

\* The records of the ends.
Pipes == [state : States, delay : BOOLEAN,
          in : Upipes, out : Upipes \cup {Nobody},
          inActive : BOOLEAN, outActive : BOOLEAN,
          msgsRead : Nat, msgsWritten : 0 .. Word - 1, peersMsgsRead : Nat]

\* The type invariant after a step.
LEMMA TypesNext ==
  ASSUME pipe' \in [Ends -> Pipes], upipe' \in [Upipes -> Queues(Parts) \cup {Nobody}],
         cmds' \in [Ends -> Seq(Commands)], aborted' \in BOOLEAN
  PROVE  Types'
BY DEF Types, Pipes

\* A queue that an action replaces.
LEMMA ReplacedQueue ==
  ASSUME Types, NEW u \in Upipes, NEW r \in Queues(Parts), upipe' = [upipe EXCEPT ![u] = r]
  PROVE  /\ upipe' \in [Upipes -> Queues(Parts) \cup {Nobody}]
         /\ upipe'[u] = r
         /\ \A v \in Upipes : v # u => upipe'[v] = upipe[v]
BY DEF Types

\* A step that leaves the pipes alone.
LEMMA StutterKeeps ==
  ASSUME PipeInv, UNCHANGED vars
  PROVE  PipeInv'
<1>1. UNCHANGED <<pipe, upipe, cmds, aborted>> BY DEF vars
<1> QED BY <1>1 DEF PipeInv, Types, Protocol, Chained, Owned, Owns, Contents, Fresh, Flows,
                    FlowFrom, Alive, In, Out

\* One that leaves the queues alone does not disturb them.
LEMMA SteadyQueues ==
  ASSUME PipeInv, UNCHANGED upipe
  PROVE  \A v \in Upipes : Steady(v)
<1>1. \A v \in Upipes : upipe[v] # Nobody => Similar(upipe[v], upipe[v])
  BY DEF Similar
<1> QED BY <1>1 DEF Steady, Kept

\* check_write at the high water mark.
LEMMA WriteFullKeeps ==
  ASSUME PipeInv, NEW e \in Ends, WriteFull(e)
  PROVE  PipeInv'
<1> DEFINE w == Peer(e)
<1>1. w \in Ends /\ e # w BY PeerEnd
<1> HIDE DEF w
<1>2. Types /\ ~aborted BY DEF PipeInv
<1>3. pipe \in [Ends -> Pipes] BY <1>2 DEF Types, Pipes
<1>4. pipe' = [pipe EXCEPT ![e].outActive = FALSE] /\ UNCHANGED <<upipe, cmds, aborted>>
  BY DEF WriteFull
<1>5. pipe' \in [Ends -> Pipes] BY <1>3, <1>4 DEF Pipes
<1>6. Untouched(e) /\ Untouched(w) BY <1>1, <1>3, <1>4 DEF Untouched, Pipes
<1>7. Types' BY <1>2, <1>4, <1>5, TypesNext DEF Types
<1>8. Alike(cmds[e], cmds'[e]) /\ Alike(cmds[w], cmds'[w])
  BY <1>1, <1>2, <1>4, EndFields, AlikeSame
<1>9. /\ Handshake(pipe[e].state, pipe[w].state, cmds'[e], pipe[e].out)
      /\ Handshake(pipe[w].state, pipe[e].state, cmds'[w], pipe[w].out)
      /\ Reported(cmds'[e], pipe[w].msgsRead) /\ Reported(cmds'[w], pipe[e].msgsRead)
  BY <1>4, View DEF w
<1>10. \A v \in Upipes : Steady(v) BY <1>4, SteadyQueues
<1> QED BY <1>2, <1>4, <1>6, <1>7, <1>8, <1>9, <1>10, Rearranges DEF w

\* rollback.
LEMMA RollbackKeeps ==
  ASSUME PipeInv, NEW e \in Ends, Rollback(e)
  PROVE  PipeInv'
<1> DEFINE w == Peer(e)
           u == pipe[e].out
           r == RolledBack(upipe[u])
<1>1. w \in Ends /\ e # w BY PeerEnd
<1> HIDE DEF w
<1>2. Types /\ ~aborted BY DEF PipeInv
<1>3. /\ u # Nobody /\ UNCHANGED <<pipe, cmds>> /\ upipe' = [upipe EXCEPT ![u] = r]
      /\ aborted' = (aborted \/ \E i \in Out(e).complete + 1 .. Len(Out(e).unflushed) :
                                   Out(e).unflushed[i] # "more")
  BY DEF Rollback
<1>4. u \in Upipes /\ Out(e) \in Queues(Parts) /\ Formed(Out(e)) /\ Out(e) # Nobody
      /\ \A x \in Ends : ~Brings(cmds[x], u)
  BY <1>3, Apart
<1>5. upipe[u] \in Queues(Parts) /\ Formed(upipe[u]) /\ upipe[u] # Nobody BY <1>4 DEF Out
<1>6. r \in Queues(Parts) /\ Formed(r) BY <1>5, RolledBackQueue
<1>7. Similar(upipe[u], r) BY <1>5, SimilarQueues
<1> HIDE DEF u, r
<1>8. ~aborted' BY <1>2, <1>3, <1>4 DEF Formed
<1>9. /\ upipe' \in [Upipes -> Queues(Parts) \cup {Nobody}]
      /\ upipe'[u] = r /\ \A v \in Upipes : v # u => upipe'[v] = upipe[v]
  BY <1>2, <1>3, <1>4, <1>6, ReplacedQueue
<1>10. \A v \in Upipes : Steady(v)
  <2>1. Steady(u) BY <1>4, <1>5, <1>6, <1>7, <1>9 DEF Steady, Kept
  <2>2. ASSUME NEW v \in Upipes, v # u PROVE Steady(v)
    <3>1. upipe'[v] = upipe[v] BY <1>9, <2>2
    <3> QED BY <3>1 DEF Steady, Kept, Similar
  <2> QED BY <2>1, <2>2
<1>11. Types' BY <1>2, <1>3, <1>8, <1>9, TypesNext DEF Types, Pipes
<1>12. Untouched(e) /\ Untouched(w) BY <1>3 DEF Untouched
<1>13. Alike(cmds[e], cmds'[e]) /\ Alike(cmds[w], cmds'[w])
  BY <1>1, <1>2, <1>3, EndFields, AlikeSame
<1>14. /\ Handshake(pipe[e].state, pipe[w].state, cmds'[e], pipe[e].out)
       /\ Handshake(pipe[w].state, pipe[e].state, cmds'[w], pipe[w].out)
       /\ Reported(cmds'[e], pipe[w].msgsRead) /\ Reported(cmds'[w], pipe[e].msgsRead)
  BY <1>3, View DEF w
<1> QED BY <1>8, <1>10, <1>11, <1>12, <1>13, <1>14, Rearranges DEF w

\* What flush sends.
LEMMA WakeUpSent ==
  ASSUME NEW s \in Seq(Commands), NEW q
  PROVE  s \o WakeUp(q) \in {s, Append(s, [type |-> "activate_read"])}
<1>1. CASE FlushWakes(q) BY <1>1, CommandFacts, OneSent DEF WakeUp
<1>2. CASE ~FlushWakes(q) BY <1>2, CommandFacts, OneSent DEF WakeUp
<1> QED BY <1>1, <1>2

\* A command that tells the peer to read or to write again may be sent.
LEMMA Wakes ==
  ASSUME PipeInv, NEW e \in Ends, NEW w, w = Peer(e), pipe[e].out # Nobody,
         NEW m \in Commands, m.type \in {"activate_read", "activate_write"},
         NEW n \in Nat, pipe[e].msgsRead <= n, m.type = "activate_write" => m.msgsRead <= n,
         NEW b \in {cmds[w], Append(cmds[w], m)}
  PROVE  /\ b \in Seq(Commands) /\ Alike(cmds[w], b)
         /\ Handshake(pipe[w].state, pipe[e].state, b, pipe[w].out)
         /\ Reported(b, n)
<1>1. w \in Ends BY PeerEnd
<1>2. Types BY DEF PipeInv
<1>3. /\ cmds[w] \in Seq(Commands) /\ cmds[e] \in Seq(Commands) /\ pipe[e].msgsRead \in Nat
      /\ pipe[e].state \in States /\ pipe[w].state \in States
  BY <1>1, <1>2, EndFields
<1>4. /\ Handshake(pipe[e].state, pipe[w].state, cmds[e], pipe[e].out)
      /\ Handshake(pipe[w].state, pipe[e].state, cmds[w], pipe[w].out)
      /\ Reported(cmds[w], pipe[e].msgsRead)
  BY View
<1>5. CASE b = cmds[w] BY <1>3, <1>4, <1>5, AlikeSame, ReportedMore
<1>6. CASE b = Append(cmds[w], m)
  <2>1. Append(cmds[w], m) \in Seq(Commands) BY <1>3, AppendFacts
  <2>2. Alike(cmds[w], Append(cmds[w], m)) BY <1>3, AlikeAppend
  <2>3. Handshake(pipe[w].state, pipe[e].state, Append(cmds[w], m), pipe[w].out)
    BY <1>3, <1>4, ProtocolSends
  <2>4. Reported(Append(cmds[w], m), n) BY <1>3, <1>4, ReportedAppend
  <2> QED BY <1>6, <2>1, <2>2, <2>3, <2>4
<1> QED BY <1>5, <1>6

\* flush.
LEMMA FlushKeeps ==
  ASSUME PipeInv, NEW e \in Ends, Flush(e)
  PROVE  PipeInv'
<1> DEFINE w == Peer(e)
           u == pipe[e].out
           r == Flushed(upipe[u])
           m == [type |-> "activate_read"]
<1>1. w \in Ends /\ e # w BY PeerEnd
<1>2. Types /\ ~aborted BY DEF PipeInv
<1>3. /\ u # Nobody /\ UNCHANGED <<pipe, aborted>> /\ upipe' = [upipe EXCEPT ![u] = r]
      /\ cmds' = To(e, WakeUp(Out(e)))
  BY DEF Flush
<1> HIDE DEF w
<1>4. u \in Upipes /\ Out(e) \in Queues(Parts) /\ Formed(Out(e)) /\ Out(e) # Nobody
      /\ \A x \in Ends : ~Brings(cmds[x], u)
  BY <1>3, Apart
<1>5. upipe[u] \in Queues(Parts) /\ Formed(upipe[u]) /\ upipe[u] # Nobody BY <1>4 DEF Out
<1>6. r \in Queues(Parts) /\ Formed(r) BY <1>5, FlushedQueue
<1>7. Similar(upipe[u], r) BY <1>5, SimilarQueues
<1>8. cmds[w] \in Seq(Commands) /\ cmds[e] \in Seq(Commands) /\ pipe[e].msgsRead \in Nat
  BY <1>1, <1>2, EndFields
<1>9. m \in Commands /\ m.type = "activate_read" BY CommandFacts
<1>10. cmds[w] \o WakeUp(Out(e)) \in {cmds[w], Append(cmds[w], m)} BY <1>8, WakeUpSent
<1> HIDE DEF u, r, m
<1>11. cmds'[e] = cmds[e] /\ cmds'[w] \in {cmds[w], Append(cmds[w], m)}
  BY <1>2, <1>3, <1>10, SentTo DEF w
<1>12. /\ cmds'[w] \in Seq(Commands) /\ Alike(cmds[w], cmds'[w])
       /\ Handshake(pipe[w].state, pipe[e].state, cmds'[w], pipe[w].out)
       /\ Reported(cmds'[w], pipe[e].msgsRead)
  <2>1. w = Peer(e) /\ pipe[e].out # Nobody BY <1>3 DEF w, u
  <2>2. pipe[e].msgsRead <= pipe[e].msgsRead /\ m.type # "activate_write" BY <1>8, <1>9
  <2> QED BY <1>8, <1>9, <1>11, <2>1, <2>2, Wakes
<1>13. cmds' \in [Ends -> Seq(Commands)]
  BY <1>2, <1>3, <1>12, SentTo DEF w
<1>14. /\ upipe' \in [Upipes -> Queues(Parts) \cup {Nobody}]
       /\ upipe'[u] = r /\ \A v \in Upipes : v # u => upipe'[v] = upipe[v]
  BY <1>2, <1>3, <1>4, <1>6, ReplacedQueue
<1>15. \A v \in Upipes : Steady(v)
  <2>1. Steady(u) BY <1>4, <1>5, <1>6, <1>7, <1>14 DEF Steady, Kept
  <2>2. ASSUME NEW v \in Upipes, v # u PROVE Steady(v)
    <3>1. upipe'[v] = upipe[v] BY <1>14, <2>2
    <3> QED BY <3>1 DEF Steady, Kept, Similar
  <2> QED BY <2>1, <2>2
<1>16. Types' BY <1>2, <1>3, <1>13, <1>14, TypesNext DEF Types, Pipes
<1>17. Untouched(e) /\ Untouched(w) BY <1>3 DEF Untouched
<1>18. Alike(cmds[e], cmds'[e]) BY <1>8, <1>11, AlikeSame
<1>19. /\ Handshake(pipe[e].state, pipe[w].state, cmds'[e], pipe[e].out)
       /\ Reported(cmds'[e], pipe[w].msgsRead)
  BY <1>11, View DEF w
<1> QED BY <1>2, <1>3, <1>12, <1>15, <1>16, <1>17, <1>18, <1>19, Rearranges DEF w

\* check_read and read when nothing is there.
LEMMA ReadNothingKeeps ==
  ASSUME PipeInv, NEW e \in Ends, ReadNothing(e)
  PROVE  PipeInv'
<1> DEFINE w == Peer(e)
           u == pipe[e].in
           r == CheckedEmpty(upipe[u])
<1>1. w \in Ends /\ e # w /\ \A x \in Ends : x = e \/ x = w BY PeerEnd
<1> HIDE DEF w
<1>2. Types /\ ~aborted BY DEF PipeInv
<1>3. pipe \in [Ends -> Pipes] /\ u \in Upipes BY <1>2, EndFields DEF Types, Pipes
<1>4. /\ pipe' = [pipe EXCEPT ![e].inActive = FALSE] /\ UNCHANGED <<cmds, aborted>>
      /\ MayRead(e) /\ upipe' = [upipe EXCEPT ![u] = r]
  BY DEF ReadNothing
<1>5. /\ In(e) \in Queues(Parts) /\ Formed(In(e)) /\ In(e) # Nobody
      /\ ~Brings(cmds[e], u) /\ (Brings(cmds[w], u) => Empty(In(e)))
  BY <1>4, Apart DEF w
<1>6. upipe[u] \in Queues(Parts) /\ Formed(upipe[u]) /\ upipe[u] # Nobody BY <1>5 DEF In
<1>7. /\ r \in Queues(Parts) /\ Formed(r)
      /\ r.flushed = upipe[u].flushed /\ r.unflushed = upipe[u].unflushed
  BY <1>6, CheckedQueue
<1>8. Similar(upipe[u], r) BY <1>6, SimilarQueues
<1>9. Empty(upipe[u]) => Empty(r) BY <1>7 DEF Empty
<1>10. (\E x \in Ends : Brings(cmds[x], u)) => Empty(r) BY <1>1, <1>5, <1>9 DEF In
<1> HIDE DEF u, r
<1>11. /\ upipe' \in [Upipes -> Queues(Parts) \cup {Nobody}]
       /\ upipe'[u] = r /\ \A v \in Upipes : v # u => upipe'[v] = upipe[v]
  BY <1>2, <1>3, <1>4, <1>7, ReplacedQueue
<1>12. \A v \in Upipes : Steady(v)
  <2>1. Steady(u) BY <1>6, <1>7, <1>8, <1>10, <1>11 DEF Steady, Kept
  <2>2. ASSUME NEW v \in Upipes, v # u PROVE Steady(v)
    <3>1. upipe'[v] = upipe[v] BY <1>11, <2>2
    <3> QED BY <3>1 DEF Steady, Kept, Similar
  <2> QED BY <2>1, <2>2
<1>13. pipe' \in [Ends -> Pipes] BY <1>3, <1>4 DEF Pipes
<1>14. Types' BY <1>2, <1>4, <1>11, <1>13, TypesNext DEF Types
<1>15. Untouched(e) /\ Untouched(w) BY <1>1, <1>3, <1>4 DEF Untouched, Pipes
<1>16. Alike(cmds[e], cmds'[e]) /\ Alike(cmds[w], cmds'[w])
  BY <1>1, <1>2, <1>4, EndFields, AlikeSame
<1>17. /\ Handshake(pipe[e].state, pipe[w].state, cmds'[e], pipe[e].out)
       /\ Handshake(pipe[w].state, pipe[e].state, cmds'[w], pipe[w].out)
       /\ Reported(cmds'[e], pipe[w].msgsRead) /\ Reported(cmds'[w], pipe[e].msgsRead)
  BY <1>4, View DEF w
<1> QED BY <1>2, <1>4, <1>12, <1>14, <1>15, <1>16, <1>17, Rearranges DEF w

\* process_activate_read.
LEMMA ActivateReadKeeps ==
  ASSUME PipeInv, NEW e \in Ends, ActivateRead(e)
  PROVE  PipeInv'
<1> DEFINE w == Peer(e)
<1>1. w \in Ends /\ e # w BY PeerEnd
<1>2. Types /\ ~aborted BY DEF PipeInv
<1>3. pipe \in [Ends -> Pipes] BY <1>2 DEF Types, Pipes
<1>4. /\ cmds[e] # << >> /\ Head(cmds[e]).type = "activate_read"
      /\ pipe' = [pipe EXCEPT ![e].inActive =
                     @ \/ pipe[e].state \in {"active", "waiting_for_delimiter"}]
      /\ cmds' = Handled(e, << >>) /\ UNCHANGED <<upipe, aborted>>
  BY DEF ActivateRead, Gets
<1>5. /\ cmds[w] \in Seq(Commands) /\ cmds[e] \in Seq(Commands)
      /\ pipe[e].state \in States /\ pipe[w].state \in States
  BY <1>1, <1>2, EndFields
<1>6. cmds[w] \o << >> = cmds[w] BY <1>5, CommandFacts, OneSent
<1> HIDE DEF w
<1>7. cmds'[e] = Tail(cmds[e]) /\ cmds'[w] = cmds[w] /\ cmds' \in [Ends -> Seq(Commands)]
  BY <1>2, <1>4, <1>5, <1>6, HandledBy DEF w
<1>8. pipe' \in [Ends -> Pipes]
  <2>1. PICK v \in BOOLEAN : pipe' = [pipe EXCEPT ![e].inActive = v]
    <3>1. (pipe[e].inActive \/ pipe[e].state \in {"active", "waiting_for_delimiter"}) \in BOOLEAN
      OBVIOUS
    <3> QED BY <1>4, <3>1
  <2> QED BY <1>3, <2>1 DEF Pipes
<1>9. Untouched(e) /\ Untouched(w) BY <1>1, <1>3, <1>4 DEF Untouched, Pipes
<1>10. Types' BY <1>2, <1>4, <1>7, <1>8, TypesNext DEF Types
<1>11. Alike(cmds[e], cmds'[e]) /\ Alike(cmds[w], cmds'[w])
  BY <1>4, <1>5, <1>7, AlikeSame, AlikeTail
<1>12. /\ Handshake(pipe[e].state, pipe[w].state, cmds[e], pipe[e].out)
       /\ Handshake(pipe[w].state, pipe[e].state, cmds[w], pipe[w].out)
       /\ Reported(cmds[e], pipe[w].msgsRead) /\ Reported(cmds[w], pipe[e].msgsRead)
  BY View DEF w
<1>13. Handshake(pipe[e].state, pipe[w].state, cmds'[e], pipe[e].out)
  BY <1>4, <1>5, <1>7, <1>12, ProtocolReceives
<1>14. Reported(cmds'[e], pipe[w].msgsRead) BY <1>4, <1>5, <1>7, <1>12, ReportedTail
<1>15. \A v \in Upipes : Steady(v) BY <1>4, SteadyQueues
<1> QED BY <1>2, <1>4, <1>7, <1>9, <1>10, <1>11, <1>12, <1>13, <1>14, <1>15, Rearranges DEF w

\* Two steps of a proof that come back: the queue that an end writes to changes,
\* the other direction does not see it.
LEMMA WriterApart ==
  ASSUME PipeInv, NEW e \in Ends, NEW w, w = Peer(e), Alive(e), pipe[e].out # Nobody,
         \A v \in Upipes : v # pipe[e].out => upipe'[v] = upipe[v]
  PROVE  /\ pipe[w].out # Nobody => upipe'[pipe[w].out] = Out(w)
         /\ upipe'[pipe[e].in] = In(e)
<1>1. w \in Ends BY PeerEnd
<1>2. Types BY DEF PipeInv
<1>3. pipe[e].in \in Upipes /\ pipe[w].out \in Upipes \cup {Nobody} BY <1>1, <1>2, EndFields
<1>4. pipe[e].out # pipe[w].out /\ pipe[e].out # pipe[e].in BY Apart
<1> QED BY <1>3, <1>4 DEF Out, In

\* The queue that an end reads changes.
LEMMA ReaderApart ==
  ASSUME PipeInv, NEW e \in Ends, NEW w, w = Peer(e), Alive(e),
         \A v \in Upipes : v # pipe[e].in => upipe'[v] = upipe[v]
  PROVE  /\ pipe[e].out # Nobody => upipe'[pipe[e].out] = Out(e)
         /\ Alive(w) => upipe'[pipe[w].in] = In(w)
<1>1. w \in Ends BY PeerEnd
<1>2. Types BY DEF PipeInv
<1>3. pipe[w].in \in Upipes /\ pipe[e].out \in Upipes \cup {Nobody} BY <1>1, <1>2, EndFields
<1>4. (pipe[e].out # Nobody => pipe[e].out # pipe[e].in) /\ (Alive(w) => pipe[e].in # pipe[w].in)
  BY Apart
<1> QED BY <1>3, <1>4 DEF Out, In

\* write.
LEMMA WriteKeeps ==
  ASSUME PipeInv, NEW e \in Ends, NEW part \in {"more", "last"}, Write(e, part)
  PROVE  PipeInv'
<1> DEFINE w == Peer(e)
           u == pipe[e].out
           i == pipe[w].in
           r == Written(upipe[u], part, part = "more")
           n == IF part = "last" THEN pipe[e].msgsWritten + 1 ELSE pipe[e].msgsWritten
<1>1. w \in Ends /\ e # w /\ Peer(w) = e /\ \A x \in Ends : x = e \/ x = w BY PeerEnd
<1>2. Types /\ ~aborted BY DEF PipeInv
<1>3. /\ pipe[e].state = "active" /\ ~Full(e) /\ pipe[e].msgsWritten < MaxMessages[e]
      /\ upipe' = [upipe EXCEPT ![u] = r] /\ UNCHANGED <<cmds, aborted>>
      /\ pipe' = [pipe EXCEPT ![e].msgsWritten = n]
  <2>1. pipe' = [pipe EXCEPT ![e].msgsWritten = IF part = "last" THEN @ + 1 ELSE @]
    BY DEF Write
  <2> QED BY <2>1 DEF Write
<1> HIDE DEF w
<1>4. pipe \in [Ends -> Pipes] BY <1>2 DEF Types, Pipes
<1>5. /\ Handshake(pipe[e].state, pipe[w].state, cmds[e], pipe[e].out)
      /\ Handshake(pipe[w].state, pipe[e].state, cmds[w], pipe[w].out)
      /\ Flow(pipe[e].state, pipe[w].state, u, i, Out(e), In(w),
              pipe[e].msgsWritten, pipe[w].msgsRead, pipe[e].peersMsgsRead, cmds[e], Hwm[e])
      /\ Reported(cmds[w], pipe[e].msgsRead)
  BY View DEF w
<1>6. u # Nobody /\ pipe[w].state # "delimiter_received" /\ Alive(e)
  BY <1>3, <1>5 DEF Handshake, Meets, Alive
<1>7. u \in Upipes /\ Out(e) \in Queues(Parts) /\ Formed(Out(e)) /\ Out(e) # Nobody
      /\ \A x \in Ends : ~Brings(cmds[x], u)
  BY <1>6, Apart
<1>8. upipe[u] \in Queues(Parts) /\ Formed(upipe[u]) /\ upipe[u] # Nobody BY <1>7 DEF Out
<1>9. r \in Queues(Parts) /\ Formed(r) BY <1>8, WrittenQueue
<1>10. /\ i \in Upipes /\ pipe[e].msgsWritten \in 0 .. Word - 1 /\ pipe[w].msgsRead \in Nat
       /\ pipe[e].peersMsgsRead \in Nat /\ Hwm[e] \in Nat
       /\ cmds[e] \in Seq(Commands) /\ cmds[w] \in Seq(Commands)
  BY <1>1, <1>2, EndFields
<1>11. n \in 0 .. Word - 1
  <2>1. MaxMessages[e] \in 0 .. Word - 1 /\ Word \in Nat BY PipeAssumption
  <2> QED BY <1>3, <1>10, <2>1
<1>12. /\ upipe' \in [Upipes -> Queues(Parts) \cup {Nobody}]
       /\ upipe'[u] = r /\ \A v \in Upipes : v # u => upipe'[v] = upipe[v]
  BY <1>2, <1>3, <1>7, <1>9, ReplacedQueue
<1>13. Flow("active", pipe[w].state, u, i, r, upipe'[i],
            n, pipe[w].msgsRead, pipe[e].peersMsgsRead, cmds[e], Hwm[e])
  <2>1. ~(Hwm[e] > 0 /\ Minus(pipe[e].msgsWritten, pipe[e].peersMsgsRead) >= Hwm[e])
    BY <1>3 DEF Full
  <2>2. upipe'[i] = IF i = u THEN r ELSE upipe[i] BY <1>10, <1>12
  <2>3. Flow("active", pipe[w].state, u, i, upipe[u], upipe[i],
             pipe[e].msgsWritten, pipe[w].msgsRead, pipe[e].peersMsgsRead, cmds[e], Hwm[e])
    BY <1>3, <1>5 DEF Out, In
  <2> HIDE DEF u, i
  <2> QED BY <1>6, <1>7, <1>8, <1>10, <2>1, <2>2, <2>3, FlowWrite
<1> HIDE DEF r, n
<1>14. pipe' \in [Ends -> Pipes] BY <1>3, <1>4, <1>11 DEF Pipes
<1>15. /\ pipe'[w] = pipe[w] /\ pipe'[e].msgsWritten = n
       /\ pipe'[e].state = pipe[e].state /\ pipe'[e].in = pipe[e].in /\ pipe'[e].out = u
       /\ pipe'[e].msgsRead = pipe[e].msgsRead /\ pipe'[e].peersMsgsRead = pipe[e].peersMsgsRead
  BY <1>1, <1>3, <1>4 DEF Pipes
<1>16. Types' BY <1>2, <1>3, <1>12, <1>14, TypesNext DEF Types
<1>17. FlowFrom(e)' BY <1>3, <1>12, <1>13, <1>15 DEF FlowFrom, Out, In, w
<1>18. FlowFrom(w)'
  <2>1. /\ pipe[w].out # Nobody => upipe'[pipe[w].out] = Out(w)
        /\ upipe'[pipe[e].in] = In(e)
    BY <1>6, <1>12, WriterApart DEF w
  <2>2. /\ pipe[w].out # Nobody => Out(w)' = Out(w)
        /\ In(e)' = In(e)
    BY <2>1, <1>15 DEF Out, In
  <2>3. pipe[w].state = "active" => pipe[w].out # Nobody BY <1>5 DEF Handshake
  <2>4. Similar(In(e), In(e)) BY DEF Similar
  <2>5. pipe[w].peersMsgsRead <= pipe[e].msgsRead
    BY View DEF Flow, w
  <2> QED BY <1>1, <1>3, <1>5, <1>15, <2>2, <2>3, <2>4, <2>5, FlowStill
<1>19. Chained' /\ Owned' /\ Contents' /\ Fresh'
  <2>1. \A x \in Ends : /\ Alike(cmds[x], cmds'[x])
                        /\ pipe'[x].in = pipe[x].in /\ pipe'[x].out = pipe[x].out
                        /\ Alive(x)' <=> Alive(x)
    BY <1>1, <1>3, <1>10, <1>15, AlikeSame DEF Alive
  <2>2. \A v \in Upipes : Kept(v) BY <1>7, <1>8, <1>9, <1>12 DEF Kept
  <2> QED BY <2>1, <2>2, Stays
<1> QED BY <1>2, <1>3, <1>5, <1>15, <1>16, <1>17, <1>18, <1>19, Together DEF w

\* read of a part.
LEMMA ReadPartKeeps ==
  ASSUME PipeInv, NEW e \in Ends, ReadPart(e)
  PROVE  PipeInv'
<1> DEFINE w == Peer(e)
           u == pipe[e].in
           q == upipe[u]
           r == Popped(q)
           n == pipe[e].msgsRead + (IF Head(q.flushed) = "last" THEN 1 ELSE 0)
           m == [type |-> "activate_write", msgsRead |-> n]
           S == IF lwm(e) > 0 /\ n % lwm(e) = 0 THEN <<m>> ELSE << >>
<1>1. w \in Ends /\ e # w /\ Peer(w) = e /\ \A x \in Ends : x = e \/ x = w BY PeerEnd
<1>2. Types /\ ~aborted BY DEF PipeInv
<1>3. /\ MayRead(e) /\ CanRead(q) /\ Head(q.flushed) # "delimiter"
      /\ upipe' = [upipe EXCEPT ![u] = r] /\ cmds' = To(e, S) /\ UNCHANGED aborted
      /\ pipe' = [pipe EXCEPT ![e].msgsRead = n]
  BY DEF ReadPart, In
<1> HIDE DEF w
<1>4. pipe \in [Ends -> Pipes] BY <1>2 DEF Types, Pipes
<1>5. /\ Handshake(pipe[e].state, pipe[w].state, cmds[e], pipe[e].out)
      /\ Flow(pipe[w].state, pipe[e].state, pipe[w].out, u, Out(w), q,
              pipe[w].msgsWritten, pipe[e].msgsRead, pipe[w].peersMsgsRead, cmds[w], Hwm[w])
      /\ Reported(cmds[e], pipe[w].msgsRead)
  BY View DEF w, In
<1>6. /\ pipe[e].state \in {"active", "waiting_for_delimiter"} /\ pipe[e].out # Nobody
      /\ Alive(e)
  BY <1>3, <1>5 DEF MayRead, Handshake, Alive
<1>7. /\ u \in Upipes /\ pipe[w].msgsWritten \in 0 .. Word - 1 /\ pipe[e].msgsRead \in Nat
      /\ pipe[w].peersMsgsRead \in Nat /\ Hwm[w] \in Nat
      /\ cmds[e] \in Seq(Commands) /\ cmds[w] \in Seq(Commands) /\ Word \in Nat
  BY <1>1, <1>2, EndFields, PipeAssumption
<1>8. /\ q \in Queues(Parts) /\ Formed(q) /\ q # Nobody
      /\ ~Brings(cmds[e], u) /\ ~Brings(cmds[w], u) /\ pipe[w].out = u
  BY <1>3, <1>6, Apart, EmptyOne DEF In, w
<1>9. r \in Queues(Parts) /\ Formed(r) BY <1>3, <1>8, PoppedQueue
<1>10. n \in Nat /\ pipe[e].msgsRead <= n BY <1>7
<1>11. /\ upipe' \in [Upipes -> Queues(Parts) \cup {Nobody}]
       /\ upipe'[u] = r /\ \A v \in Upipes : v # u => upipe'[v] = upipe[v]
  BY <1>2, <1>3, <1>7, <1>9, ReplacedQueue
<1>12. m \in Commands /\ m.type = "activate_write" /\ m.msgsRead = n BY <1>10, CommandFacts
<1> HIDE DEF m
<1>13. cmds[w] \o S \in {cmds[w], Append(cmds[w], m)}
  <2>1. CASE S = <<m>> BY <1>7, <1>12, <2>1, OneSent
  <2>2. CASE S = << >> BY <1>7, <1>12, <2>2, OneSent
  <2> QED BY <2>1, <2>2
<1> HIDE DEF S, n
<1>14. cmds'[e] = cmds[e] /\ cmds'[w] = cmds[w] \o S BY <1>2, <1>3, SentTo DEF w
<1>15. /\ cmds'[w] \in Seq(Commands) /\ Alike(cmds[w], cmds'[w])
       /\ Handshake(pipe[w].state, pipe[e].state, cmds'[w], pipe[w].out)
       /\ Reported(cmds'[w], n)
  <2>1. w = Peer(e) /\ m.msgsRead <= n /\ cmds'[w] \in {cmds[w], Append(cmds[w], m)}
    BY <1>10, <1>12, <1>13, <1>14 DEF w
  <2> QED BY <1>6, <1>10, <1>12, <2>1, Wakes
<1>16. cmds' \in [Ends -> Seq(Commands)] BY <1>2, <1>3, <1>14, <1>15, SentTo DEF w
<1>17. Flow(pipe[w].state, pipe[e].state, pipe[w].out, u, r, r,
            pipe[w].msgsWritten, n, pipe[w].peersMsgsRead, cmds'[w], Hwm[w])
  <2>1. Flow(pipe[w].state, pipe[e].state, u, u, q, q,
             pipe[w].msgsWritten, pipe[e].msgsRead, pipe[w].peersMsgsRead, cmds[w], Hwm[w])
    BY <1>5, <1>8 DEF Out
  <2>2. pipe[w].msgsWritten \in Nat BY <1>7
  <2>3. n = pipe[e].msgsRead + (IF Head(q.flushed) = "last" THEN 1 ELSE 0) BY DEF n
  <2> HIDE DEF u, q
  <2>4. Flow(pipe[w].state, pipe[e].state, u, u, r, r,
             pipe[w].msgsWritten, n, pipe[w].peersMsgsRead, cmds'[w], Hwm[w])
    BY <1>3, <1>6, <1>7, <1>8, <1>15, <2>1, <2>2, <2>3, FlowRead
  <2> QED BY <1>8, <2>4
<1> HIDE DEF r
<1>18. pipe' \in [Ends -> Pipes] BY <1>3, <1>4, <1>10 DEF Pipes
<1>19. /\ pipe'[w] = pipe[w] /\ pipe'[e].msgsRead = n
       /\ pipe'[e].state = pipe[e].state /\ pipe'[e].in = u /\ pipe'[e].out = pipe[e].out
       /\ pipe'[e].msgsWritten = pipe[e].msgsWritten
       /\ pipe'[e].peersMsgsRead = pipe[e].peersMsgsRead
  BY <1>1, <1>3, <1>4 DEF Pipes
<1>20. Types' BY <1>2, <1>3, <1>11, <1>16, <1>18, TypesNext DEF Types
<1>21. FlowFrom(w)' BY <1>1, <1>8, <1>11, <1>17, <1>19 DEF FlowFrom, Out, In
<1>22. FlowFrom(e)'
  <2>1. /\ upipe'[pipe[e].out] = Out(e)
        /\ Alive(w) => upipe'[pipe[w].in] = In(w)
    BY <1>6, <1>11, ReaderApart DEF w
  <2>2. Out(e)' = Out(e) /\ (Alive(w) => In(w)' = In(w)) BY <2>1, <1>19 DEF Out, In
  <2>3. Similar(In(w), In(w)) BY DEF Similar
  <2>4. pipe[e].peersMsgsRead <= pipe[w].msgsRead BY View DEF Flow, w
  <2>5. pipe[w].state \in {"active", "waiting_for_delimiter"} => Similar(In(w), In(w)')
    BY <2>2, <2>3 DEF Alive
  <2> QED BY <1>1, <1>5, <1>6, <1>14, <1>19, <2>2, <2>4, <2>5, FlowStill DEF w
<1>23. Chained' /\ Owned' /\ Contents' /\ Fresh'
  <2>1. \A x \in Ends : /\ Alike(cmds[x], cmds'[x])
                        /\ pipe'[x].in = pipe[x].in /\ pipe'[x].out = pipe[x].out
                        /\ Alive(x)' <=> Alive(x)
    BY <1>1, <1>7, <1>14, <1>15, <1>19, AlikeSame DEF Alive
  <2>2. \A v \in Upipes : Kept(v) BY <1>1, <1>8, <1>9, <1>11 DEF Kept
  <2> QED BY <2>1, <2>2, Stays
<1> QED BY <1>2, <1>3, <1>5, <1>14, <1>15, <1>19, <1>20, <1>21, <1>22, <1>23, Together DEF w

\* An end that has waited for the delimiter sends the acknowledgement.
LEMMA AcknowledgesKeeps ==
  ASSUME PipeInv, NEW e \in Ends, NEW w, w = Peer(e),
         pipe[e].state = "waiting_for_delimiter",
         pipe' \in [Ends -> Pipes], upipe' \in [Upipes -> Queues(Parts) \cup {Nobody}],
         cmds' = To(e, Ack), UNCHANGED aborted,
         pipe'[w] = pipe[w], pipe'[e].state = "term_ack_sent", pipe'[e].out = Nobody,
         pipe'[e].in = pipe[e].in, pipe'[e].msgsRead = pipe[e].msgsRead,
         pipe'[e].msgsWritten = pipe[e].msgsWritten,
         pipe'[e].peersMsgsRead = pipe[e].peersMsgsRead,
         \A v \in Upipes : Kept(v),
         pipe[w].out # Nobody => Queued(Out(w)') = Queued(Out(w))
  PROVE  PipeInv'
<1> DEFINE m == [type |-> "pipe_term_ack"]
<1>1. w \in Ends /\ e # w /\ Peer(w) = e /\ \A x \in Ends : x = e \/ x = w BY PeerEnd
<1>2. Types /\ ~aborted BY DEF PipeInv
<1>3. /\ Handshake(pipe[e].state, pipe[w].state, cmds[e], pipe[e].out)
      /\ Handshake(pipe[w].state, pipe[e].state, cmds[w], pipe[w].out)
      /\ Reported(cmds[e], pipe[w].msgsRead) /\ Reported(cmds[w], pipe[e].msgsRead)
  BY View
<1>4. /\ cmds[e] \in Seq(Commands) /\ cmds[w] \in Seq(Commands) /\ pipe[w].state \in States
      /\ pipe[e].msgsRead \in Nat
  BY <1>1, <1>2, EndFields
<1>5. /\ Handshake("term_ack_sent", pipe[w].state, cmds[e], Nobody)
      /\ Handshake(pipe[w].state, "term_ack_sent", Append(cmds[w], m), pipe[w].out)
      /\ ~Has(cmds[e], "hiccup") /\ pipe[w].state # "deallocated"
  BY <1>3, <1>4, ProtocolAcknowledges
<1>6. m \in Commands /\ m.type = "pipe_term_ack" BY CommandFacts
<1> HIDE DEF m
<1>7. cmds'[e] = cmds[e] /\ cmds'[w] = Append(cmds[w], m) /\ cmds' \in [Ends -> Seq(Commands)]
  <2>1. Ack = <<m>> BY DEF Ack, m
  <2>2. cmds[w] \o <<m>> = Append(cmds[w], m) BY <1>4, <1>6, OneSent
  <2>3. Append(cmds[w], m) \in Seq(Commands) BY <1>4, <1>6, AppendFacts
  <2>4. cmds' = To(e, <<m>>) BY <2>1
  <2>5. /\ cmds'[e] = cmds[e] /\ cmds'[w] = cmds[w] \o <<m>>
        /\ cmds[w] \o <<m>> \in Seq(Commands) => cmds' \in [Ends -> Seq(Commands)]
    <3> HIDE DEF To
    <3> QED BY ONLY <1>2, <2>4, SentTo, e \in Ends, w = Peer(e)
  <2> QED BY <2>2, <2>3, <2>5
<1>8. Types' BY <1>2, <1>7, TypesNext DEF Types
<1>9. Alike(cmds[e], cmds'[e]) /\ Alike(cmds[w], cmds'[w])
  BY <1>4, <1>6, <1>7, AlikeSame, AlikeAppend
<1>10. pipe[e].out # Nobody BY <1>3 DEF Handshake
<1>11. \A x \in Ends : Alike(cmds[x], cmds'[x]) /\ pipe'[x].in = pipe[x].in
                       /\ (Alive(x)' <=> Alive(x))
  BY <1>1, <1>9 DEF Alive
<1>12. Chained' /\ Owned' /\ Contents' /\ Fresh'
  <2>1. Alive(w) BY <1>5 DEF Alive
  <2> QED BY <1>5, <1>10, <1>11, <2>1, GivesUp
<1>13. pipe[w].state = "term_req_sent1" BY <1>3 DEF Handshake, Meets
<1>14. FlowFrom(e)'
  <2>1. pipe[e].peersMsgsRead <= pipe[w].msgsRead BY View DEF Flow
  <2> QED BY <1>3, <1>7, <1>13, <2>1, FlowStill
<1>15. FlowFrom(w)'
  <2>1. pipe[w].peersMsgsRead <= pipe[e].msgsRead BY View DEF Flow
  <2>2. Reported(cmds'[w], pipe[e].msgsRead) BY <1>3, <1>4, <1>6, <1>7, ReportedAppend
  <2> QED BY <1>1, <1>7, <1>13, <2>1, <2>2, FlowStill
<1> QED BY <1>2, <1>5, <1>7, <1>8, <1>12, <1>14, <1>15, Together

\* process_delimiter.
LEMMA ReadDelimiterKeeps ==
  ASSUME PipeInv, NEW e \in Ends, ReadDelimiter(e)
  PROVE  PipeInv'
<1> DEFINE w == Peer(e)
           u == pipe[e].in
           q == upipe[u]
           r == Popped(q)
<1>1. w \in Ends /\ e # w /\ Peer(w) = e /\ \A x \in Ends : x = e \/ x = w BY PeerEnd
<1>2. Types /\ ~aborted BY DEF PipeInv
<1>3. /\ MayRead(e) /\ CanRead(q) /\ Head(q.flushed) = "delimiter" /\ UNCHANGED aborted
  BY DEF ReadDelimiter, In
<1> HIDE DEF w
<1>4. pipe \in [Ends -> Pipes] BY <1>2 DEF Types, Pipes
<1>5. /\ Handshake(pipe[e].state, pipe[w].state, cmds[e], pipe[e].out)
      /\ Handshake(pipe[w].state, pipe[e].state, cmds[w], pipe[w].out)
      /\ Flow(pipe[w].state, pipe[e].state, pipe[w].out, u, Out(w), q,
              pipe[w].msgsWritten, pipe[e].msgsRead, pipe[w].peersMsgsRead, cmds[w], Hwm[w])
      /\ Reported(cmds[e], pipe[w].msgsRead)
  BY View DEF w, In
<1>6. /\ pipe[e].state \in {"active", "waiting_for_delimiter"} /\ pipe[e].out # Nobody
      /\ Alive(e)
  BY <1>3, <1>5 DEF MayRead, Handshake, Alive
<1>7. /\ u \in Upipes /\ pipe[w].msgsWritten \in 0 .. Word - 1 /\ pipe[e].msgsRead \in Nat
      /\ cmds[e] \in Seq(Commands) /\ cmds[w] \in Seq(Commands) /\ Word \in Nat
  BY <1>1, <1>2, EndFields, PipeAssumption
<1>8. /\ q \in Queues(Parts) /\ Formed(q) /\ q # Nobody
      /\ ~Brings(cmds[e], u) /\ ~Brings(cmds[w], u) /\ pipe[w].out = u
      /\ pipe[e].out # u
  BY <1>3, <1>6, Apart, EmptyOne DEF In, w
<1>9. r \in Queues(Parts) /\ Formed(r) BY <1>3, <1>8, PoppedQueue
<1>10. Flow(pipe[w].state, pipe[e].state, u, u, q, q,
            pipe[w].msgsWritten, pipe[e].msgsRead, pipe[w].peersMsgsRead, cmds[w], Hwm[w])
  BY <1>5, <1>8 DEF Out
<1>11. pipe[w].state = "term_req_sent1" /\ pipe[w].msgsWritten = pipe[e].msgsRead
       /\ Queued(r) = Queued(q)
  <2>1. Sees(pipe[e].state, q) /\ (Closed(q) => Queued(q) = 0) /\ Queued(r) = Queued(q)
    BY <1>3, <1>6, <1>8, DelimiterNext
  <2> HIDE DEF u, q, r
  <2>2. /\ pipe[w].state = "term_req_sent1" /\ Closed(q)
        /\ pipe[w].msgsWritten = pipe[e].msgsRead + Queued(q)
    BY <1>10, <2>1 DEF Flow
  <2> QED BY <1>7, <2>1, <2>2
<1>12. ~Has(cmds[w], "hiccup")
  <2>1. u # Nobody BY <1>7, PipeAssumption
  <2>2. Chain(cmds[w], pipe[w].out, u) BY <1>1, <1>8, <2>1 DEF PipeInv, Chained
  <2> QED BY <1>7, <1>8, <2>2, ChainUse
<1>13. CASE ~TermReceived(e)
  <2>1. /\ pipe' = [pipe EXCEPT ![e].state = "delimiter_received"]
        /\ upipe' = [upipe EXCEPT ![u] = r] /\ UNCHANGED cmds
    BY <1>13 DEF ReadDelimiter
  <2>2. pipe[e].state = "active" BY <1>6, <1>13 DEF TermReceived
  <2>3. Flow(pipe[w].state, "delimiter_received", u, u, r, r,
             pipe[w].msgsWritten, pipe[e].msgsRead, pipe[w].peersMsgsRead, cmds[w], Hwm[w])
    <3>1. pipe[w].msgsWritten \in Nat BY <1>7
    <3> HIDE DEF u, q
    <3> QED BY <1>3, <1>7, <1>8, <1>10, <1>12, <2>2, <3>1, FlowDelimiter
  <2> HIDE DEF r
  <2>4. pipe' \in [Ends -> Pipes]
    <3> DEFINE p == [pipe[e] EXCEPT !.state = "delimiter_received"]
    <3>1. pipe[e] \in Pipes /\ "delimiter_received" \in States BY <1>4 DEF States
    <3>2. p \in Pipes BY <3>1 DEF Pipes
    <3>3. pipe' = [pipe EXCEPT ![e] = p] BY <1>4, <2>1
    <3> HIDE DEF p
    <3> QED BY <1>4, <3>2, <3>3
  <2>5. /\ pipe'[w] = pipe[w] /\ pipe'[e].msgsRead = pipe[e].msgsRead
        /\ pipe'[e].state = "delimiter_received" /\ pipe'[e].in = u
        /\ pipe'[e].out = pipe[e].out /\ pipe'[e].msgsWritten = pipe[e].msgsWritten
        /\ pipe'[e].peersMsgsRead = pipe[e].peersMsgsRead
    BY <1>1, <1>4, <2>1 DEF Pipes
  <2>6. /\ upipe' \in [Upipes -> Queues(Parts) \cup {Nobody}]
        /\ upipe'[u] = r /\ \A v \in Upipes : v # u => upipe'[v] = upipe[v]
    BY <1>2, <1>7, <1>9, <2>1, ReplacedQueue
  <2>7. Types' BY <1>2, <1>3, <2>1, <2>4, <2>6, TypesNext DEF Types
  <2>8. FlowFrom(w)' BY <1>1, <1>8, <2>1, <2>3, <2>5, <2>6 DEF FlowFrom, Out, In
  <2>9. FlowFrom(e)'
    <3>1. upipe'[pipe[e].out] = Out(e) BY <1>6, <2>6, ReaderApart DEF w
    <3>2. Out(e)' = Out(e) BY <3>1, <2>5 DEF Out
    <3>3. pipe[e].peersMsgsRead <= pipe[w].msgsRead BY View DEF Flow, w
    <3> QED BY <1>1, <1>5, <1>11, <2>1, <2>5, <3>2, <3>3, FlowStill DEF w
  <2>10. Chained' /\ Owned' /\ Contents' /\ Fresh'
    <3>1. \A x \in Ends : /\ Alike(cmds[x], cmds'[x])
                          /\ pipe'[x].in = pipe[x].in /\ pipe'[x].out = pipe[x].out
                          /\ Alive(x)' <=> Alive(x)
      BY <1>1, <1>6, <1>7, <2>1, <2>5, AlikeSame DEF Alive
    <3>2. \A v \in Upipes : Kept(v) BY <1>1, <1>8, <1>9, <2>6 DEF Kept
    <3> QED BY <3>1, <3>2, Stays
  <2>11. /\ Handshake("delimiter_received", pipe[w].state, cmds[e], pipe[e].out)
         /\ Handshake(pipe[w].state, "delimiter_received", cmds[w], pipe[w].out)
    BY <1>5, <1>11, <2>2, ProtocolDelimiter
  <2> QED BY <1>2, <1>3, <2>1, <2>5, <2>7, <2>8, <2>9, <2>10, <2>11, Together DEF w
<1>14. CASE TermReceived(e)
  <2> DEFINE o == pipe[e].out
             b == RolledBack(upipe[o])
  <2>1. /\ pipe' = [pipe EXCEPT ![e].state = "term_ack_sent", ![e].out = Nobody]
        /\ upipe' = [upipe EXCEPT ![u] = Popped(@), ![o] = RolledBack(@)]
        /\ cmds' = To(e, Ack)
    BY <1>14 DEF ReadDelimiter
  <2>2. pipe[e].state = "waiting_for_delimiter" BY <1>14 DEF TermReceived
  <2>3. o \in Upipes /\ upipe[o] \in Queues(Parts) /\ Formed(upipe[o]) /\ upipe[o] # Nobody
        /\ \A x \in Ends : ~Brings(cmds[x], o)
    BY <1>6, Apart DEF Out
  <2>4. b \in Queues(Parts) /\ Formed(b) BY <2>3, RolledBackQueue
  <2>5. /\ upipe' \in [Upipes -> Queues(Parts) \cup {Nobody}]
        /\ upipe'[u] = r /\ upipe'[o] = b
        /\ \A v \in Upipes : v # u /\ v # o => upipe'[v] = upipe[v]
    BY <1>2, <1>7, <1>8, <1>9, <2>1, <2>3, <2>4 DEF Types
  <2> HIDE DEF b, r
  <2>6. \A v \in Upipes : Kept(v)
    <3>1. Kept(u) BY <1>1, <1>8, <1>9, <2>5 DEF Kept
    <3>2. Kept(o) BY <2>3, <2>4, <2>5 DEF Kept
    <3>3. \A v \in Upipes : v # u /\ v # o => Kept(v) BY <2>5 DEF Kept
    <3> QED BY <3>1, <3>2, <3>3
  <2>7. pipe' \in [Ends -> Pipes]
    <3> DEFINE p == [pipe[e] EXCEPT !.state = "term_ack_sent", !.out = Nobody]
    <3>1. pipe[e] \in Pipes /\ "term_ack_sent" \in States BY <1>4 DEF States
    <3>2. p \in Pipes BY <3>1 DEF Pipes
    <3>3. pipe' = [pipe EXCEPT ![e] = p] BY <1>4, <2>1
    <3> HIDE DEF p
    <3> QED BY <1>4, <3>2, <3>3
  <2>8. /\ pipe'[w] = pipe[w] /\ pipe'[e].msgsRead = pipe[e].msgsRead
        /\ pipe'[e].state = "term_ack_sent" /\ pipe'[e].in = u
        /\ pipe'[e].out = Nobody /\ pipe'[e].msgsWritten = pipe[e].msgsWritten
        /\ pipe'[e].peersMsgsRead = pipe[e].peersMsgsRead
    BY <1>1, <1>4, <2>1 DEF Pipes
  <2>9. Queued(Out(w)') = Queued(Out(w)) BY <1>8, <1>11, <2>5, <2>8 DEF Out
  <2> QED BY <1>3, <2>1, <2>2, <2>5, <2>6, <2>7, <2>8, <2>9, AcknowledgesKeeps DEF w
<1> QED BY <1>13, <1>14

\* process_activate_write.
LEMMA ActivateWriteKeeps ==
  ASSUME PipeInv, NEW e \in Ends, ActivateWrite(e)
  PROVE  PipeInv'
<1> DEFINE w == Peer(e)
           n == Head(cmds[e]).msgsRead
<1>1. w \in Ends /\ e # w /\ Peer(w) = e /\ \A x \in Ends : x = e \/ x = w BY PeerEnd
<1>2. Types /\ ~aborted BY DEF PipeInv
<1>3. pipe \in [Ends -> Pipes] BY <1>2 DEF Types, Pipes
<1>4. /\ cmds[e] # << >> /\ Head(cmds[e]).type = "activate_write"
      /\ pipe' = [pipe EXCEPT ![e].peersMsgsRead = n,
                              ![e].outActive = @ \/ pipe[e].state = "active"]
      /\ cmds' = Handled(e, << >>) /\ UNCHANGED <<upipe, aborted>>
  BY DEF ActivateWrite, Gets
<1>5. /\ cmds[w] \in Seq(Commands) /\ cmds[e] \in Seq(Commands)
      /\ pipe[e].state \in States /\ pipe[w].state \in States
  BY <1>1, <1>2, EndFields
<1>6. cmds[w] \o << >> = cmds[w] BY <1>5, CommandFacts, OneSent
<1> HIDE DEF w
<1>7. cmds'[e] = Tail(cmds[e]) /\ cmds'[w] = cmds[w] /\ cmds' \in [Ends -> Seq(Commands)]
  BY <1>2, <1>4, <1>5, <1>6, HandledBy DEF w
<1>8. n \in Nat BY <1>4, <1>5, TailFacts, CommandKinds
<1>9. /\ Handshake(pipe[e].state, pipe[w].state, cmds[e], pipe[e].out)
      /\ Handshake(pipe[w].state, pipe[e].state, cmds[w], pipe[w].out)
      /\ Reported(cmds[e], pipe[w].msgsRead) /\ Reported(cmds[w], pipe[e].msgsRead)
  BY View DEF w
<1>10. n <= pipe[w].msgsRead /\ Reported(cmds'[e], pipe[w].msgsRead)
  BY <1>4, <1>5, <1>7, <1>9, ReportedTail
<1> HIDE DEF n
<1>11. pipe' \in [Ends -> Pipes]
  <2>1. PICK v \in BOOLEAN : pipe' = [pipe EXCEPT ![e].peersMsgsRead = n, ![e].outActive = v]
    <3>1. (pipe[e].outActive \/ pipe[e].state = "active") \in BOOLEAN OBVIOUS
    <3> QED BY <1>4, <3>1
  <2> DEFINE p == [pipe[e] EXCEPT !.peersMsgsRead = n, !.outActive = v]
  <2>2. pipe[e] \in Pipes BY <1>3
  <2>3. p \in Pipes BY <1>8, <2>2 DEF Pipes
  <2>4. pipe' = [pipe EXCEPT ![e] = p] BY <1>3, <2>1
  <2> HIDE DEF p
  <2> QED BY <1>3, <2>3, <2>4
<1>12. /\ pipe'[w] = pipe[w] /\ pipe'[e].msgsRead = pipe[e].msgsRead
       /\ pipe'[e].state = pipe[e].state /\ pipe'[e].in = pipe[e].in
       /\ pipe'[e].out = pipe[e].out /\ pipe'[e].msgsWritten = pipe[e].msgsWritten
       /\ pipe'[e].peersMsgsRead = n
  BY <1>1, <1>3, <1>4 DEF Pipes
<1>13. Types' BY <1>2, <1>4, <1>7, <1>11, TypesNext DEF Types
<1>14. Alike(cmds[e], cmds'[e]) /\ Alike(cmds[w], cmds'[w])
  BY <1>4, <1>5, <1>7, AlikeSame, AlikeTail
<1>15. Handshake(pipe[e].state, pipe[w].state, cmds'[e], pipe[e].out)
  BY <1>4, <1>5, <1>7, <1>9, ProtocolReceives
<1>16. Chained' /\ Owned' /\ Contents' /\ Fresh'
  <2>1. \A x \in Ends : /\ Alike(cmds[x], cmds'[x])
                        /\ pipe'[x].in = pipe[x].in /\ pipe'[x].out = pipe[x].out
                        /\ Alive(x)' <=> Alive(x)
    BY <1>1, <1>12, <1>14 DEF Alive
  <2>2. \A v \in Upipes : Kept(v) BY <1>4 DEF Kept
  <2> QED BY <2>1, <2>2, Stays
<1>17. \A x \in Ends : Out(x)' = Out(x) /\ In(x)' = In(x) BY <1>1, <1>4, <1>12 DEF Out, In
<1>18. \A x \in Ends : Similar(In(x), In(x)) BY DEF Similar
<1>19. \A x \in Ends : pipe[x].state = "active" => pipe[x].out # Nobody
  BY <1>1, <1>9 DEF Handshake
<1>20. FlowFrom(e)'
  <2>1. Has(cmds'[e], "hiccup") => Has(cmds[e], "hiccup") BY <1>14 DEF Alike
  <2> QED BY <1>1, <1>10, <1>12, <1>17, <1>18, <1>19, <2>1, FlowStill DEF w
<1>21. FlowFrom(w)'
  <2>1. pipe[w].peersMsgsRead <= pipe[e].msgsRead BY View DEF Flow, w
  <2> QED BY <1>1, <1>7, <1>9, <1>12, <1>17, <1>18, <1>19, <2>1, FlowStill
<1> QED BY <1>2, <1>4, <1>7, <1>9, <1>12, <1>13, <1>15, <1>16, <1>20, <1>21, Together DEF w

\* hiccup.
LEMMA HiccupKeeps ==
  ASSUME PipeInv, NEW e \in Ends, Hiccup(e)
  PROVE  PipeInv'
<1> DEFINE w == Peer(e)
<1>1. w \in Ends /\ e # w /\ Peer(w) = e /\ \A x \in Ends : x = e \/ x = w BY PeerEnd
<1>2. Types /\ ~aborted /\ Owned /\ Contents /\ Fresh /\ Chained BY DEF PipeInv
<1>3. pipe \in [Ends -> Pipes] BY <1>2 DEF Types, Pipes
<1>4. PICK u \in Upipes : /\ upipe[u] = Nobody
                          /\ upipe' = [upipe EXCEPT ![u] = EmptyQueue]
                          /\ pipe' = [pipe EXCEPT ![e].in = u, ![e].inActive = TRUE]
                          /\ cmds' = To(e, <<[type |-> "hiccup", pipe |-> u]>>)
  BY DEF Hiccup
<1>5. pipe[e].state = "active" /\ UNCHANGED aborted BY DEF Hiccup
<1> DEFINE m == [type |-> "hiccup", pipe |-> u]
<1>6. m \in Commands /\ m.type = "hiccup" /\ m.pipe = u BY CommandFacts
<1>7. cmds' = To(e, <<m>>) BY <1>4
<1> HIDE DEF w, m
<1>8. /\ Handshake(pipe[e].state, pipe[w].state, cmds[e], pipe[e].out)
      /\ Handshake(pipe[w].state, pipe[e].state, cmds[w], pipe[w].out)
      /\ Flow(pipe[w].state, pipe[e].state, pipe[w].out, pipe[e].in, Out(w), In(e),
              pipe[w].msgsWritten, pipe[e].msgsRead, pipe[w].peersMsgsRead, cmds[w], Hwm[w])
      /\ Reported(cmds[e], pipe[w].msgsRead) /\ Reported(cmds[w], pipe[e].msgsRead)
  BY View DEF w
<1>9. /\ pipe[w].state \in {"active", "term_req_sent1"} /\ Alive(e) /\ Alive(w)
      /\ pipe[e].out # Nobody /\ pipe[w].out # Nobody
  BY <1>5, <1>8 DEF Handshake, Meets, Alive
<1>10. /\ cmds[e] \in Seq(Commands) /\ cmds[w] \in Seq(Commands)
       /\ pipe[e].state \in States /\ pipe[w].state \in States
       /\ pipe[e].msgsRead \in Nat /\ pipe[e].in \in Upipes /\ pipe[w].in \in Upipes
       /\ pipe[e].out \in Upipes \cup {Nobody} /\ pipe[w].out \in Upipes \cup {Nobody}
  BY <1>1, <1>2, EndFields
<1>11. cmds'[e] = cmds[e] /\ cmds'[w] = Append(cmds[w], m) /\ cmds' \in [Ends -> Seq(Commands)]
  <2>1. cmds[w] \o <<m>> = Append(cmds[w], m) BY <1>6, <1>10, OneSent
  <2>2. Append(cmds[w], m) \in Seq(Commands) BY <1>6, <1>10, AppendFacts
  <2>3. w = Peer(e) BY DEF w
  <2>4. /\ cmds'[e] = cmds[e] /\ cmds'[w] = cmds[w] \o <<m>>
        /\ cmds[w] \o <<m>> \in Seq(Commands) => cmds' \in [Ends -> Seq(Commands)]
    BY ONLY <1>2, <1>7, <2>3, SentTo, e \in Ends
  <2> QED BY <2>1, <2>2, <2>4
<1>12. Handshake(pipe[w].state, pipe[e].state, cmds'[w], pipe[w].out)
  BY <1>5, <1>6, <1>8, <1>9, <1>10, <1>11, ProtocolSends
<1>13. pipe' \in [Ends -> Pipes]
  <2> DEFINE p == [pipe[e] EXCEPT !.in = u, !.inActive = TRUE]
  <2>1. pipe[e] \in Pipes BY <1>3
  <2>2. p \in Pipes BY <2>1 DEF Pipes
  <2>3. pipe' = [pipe EXCEPT ![e] = p] BY <1>3, <1>4
  <2> HIDE DEF p
  <2> QED BY <1>3, <2>2, <2>3
<1>14. /\ pipe'[w] = pipe[w] /\ pipe'[e].in = u /\ pipe'[e].out = pipe[e].out
       /\ pipe'[e].state = pipe[e].state /\ pipe'[e].msgsRead = pipe[e].msgsRead
       /\ pipe'[e].msgsWritten = pipe[e].msgsWritten
       /\ pipe'[e].peersMsgsRead = pipe[e].peersMsgsRead
  BY <1>1, <1>3, <1>4 DEF Pipes
<1>15. EmptyQueue \in Queues(Parts) /\ Formed(EmptyQueue) /\ Empty(EmptyQueue)
       /\ EmptyQueue # Nobody
  BY EmptyOne, PipeAssumption
<1>16. /\ upipe' \in [Upipes -> Queues(Parts) \cup {Nobody}]
       /\ upipe'[u] = EmptyQueue /\ \A v \in Upipes : v # u => upipe'[v] = upipe[v]
  BY <1>2, <1>4, <1>15, ReplacedQueue
<1>17. Types' BY <1>2, <1>5, <1>11, <1>13, <1>16, TypesNext DEF Types
<1>18. \A v : /\ Owns(e, v) <=> (pipe[e].in = v \/ pipe[w].out = v \/ Brings(cmds[w], v))
              /\ Owns(w, v) <=> (pipe[w].in = v \/ pipe[e].out = v \/ Brings(cmds[e], v))
  BY <1>1, <1>9 DEF Owns, w
<1>19. ~Owns(e, u) /\ ~Owns(w, u) BY <1>1, <1>2, <1>4 DEF Owned, w
<1>20. /\ u # pipe[w].out /\ ~Brings(cmds[w], u) /\ u # pipe[w].in /\ u # pipe[e].out
  BY <1>18, <1>19
<1>21. Chain(cmds[w], pipe[w].out, pipe[e].in) BY <1>1, <1>2, <1>9 DEF Chained
<1>22. \A v : Brings(cmds'[w], v) <=> (Brings(cmds[w], v) \/ u = v)
  BY <1>6, <1>10, <1>11, BringsAppend
<1>23. Chained'
  <2>1. Chain(cmds'[w], pipe[w].out, u) BY <1>6, <1>10, <1>11, <1>20, <1>21, ChainHiccup
  <2>2. Chain(cmds[e], pipe[e].out, pipe[w].in) BY <1>2, <1>9 DEF Chained, w
  <2> QED BY <1>1, <1>11, <1>14, <2>1, <2>2 DEF Chained, w
<1>24. Owned'
  <2>1. Alive(e)' /\ Alive(w)' BY <1>9, <1>14 DEF Alive
  <2>2. ASSUME NEW v PROVE Owns(e, v)' <=> (Owns(e, v) \/ u = v)
    <3>1. Owns(e, v)' <=> (u = v \/ pipe[w].out = v \/ Brings(cmds'[w], v))
      BY <1>14, <2>1 DEF Owns, w
    <3>2. pipe[e].in = pipe[w].out \/ Brings(cmds[w], pipe[e].in) BY <1>21 DEF Chain
    <3> QED BY <1>18, <1>22, <3>1, <3>2
  <2>3. ASSUME NEW v PROVE Owns(w, v)' <=> Owns(w, v)
    BY <1>1, <1>11, <1>14, <1>18, <2>1 DEF Owns
  <2>4. \A v \in Upipes : /\ upipe[v] # Nobody <=> (Owns(e, v) \/ Owns(w, v))
                          /\ ~(Owns(e, v) /\ Owns(w, v))
    BY <1>2 DEF Owned, w
  <2>5. \A v \in Upipes : /\ upipe'[v] # Nobody <=> (Owns(e, v)' \/ Owns(w, v)')
                          /\ ~(Owns(e, v)' /\ Owns(w, v)')
    BY <1>15, <1>16, <1>19, <2>2, <2>3, <2>4
  <2> QED BY <1>1, <2>5 DEF Owned, w
<1>25. Contents' BY <1>2, <1>15, <1>16 DEF Contents
<1>26. Fresh'
  <2>1. ASSUME NEW x \in Ends, NEW v \in Upipes, Brings(cmds'[x], v), v # u
        PROVE  Empty(upipe'[v])
    <3>1. Brings(cmds[x], v) BY <1>1, <1>11, <1>22, <2>1
    <3> QED BY <1>2, <1>16, <2>1, <3>1 DEF Fresh
  <2> QED BY <1>15, <1>16, <2>1 DEF Fresh
<1>27. FlowFrom(w)'
  <2>1. Reported(cmds'[w], pipe[e].msgsRead) BY <1>6, <1>8, <1>10, <1>11, ReportedAppend
  <2>2. Out(w)' = Out(w) /\ In(e)' = EmptyQueue BY <1>9, <1>10, <1>14, <1>16, <1>20 DEF Out, In
  <2>3. Flow(pipe[w].state, "active", pipe[w].out, u, Out(w), EmptyQueue,
             pipe[w].msgsWritten, pipe[e].msgsRead, pipe[w].peersMsgsRead, cmds'[w], Hwm[w])
    BY <1>5, <1>8, <2>1, FlowHiccup
  <2> QED BY <1>1, <1>5, <1>14, <2>2, <2>3 DEF FlowFrom
<1>28. FlowFrom(e)'
  <2>1. Out(e)' = Out(e) /\ In(w)' = In(w) BY <1>9, <1>10, <1>14, <1>16, <1>20 DEF Out, In
  <2>2. Similar(In(w), In(w)) BY DEF Similar
  <2>3. pipe[e].peersMsgsRead <= pipe[w].msgsRead BY View DEF Flow, w
  <2> QED BY <1>1, <1>8, <1>9, <1>11, <1>14, <2>1, <2>2, <2>3, FlowStill DEF w
<1> QED BY <1>2, <1>5, <1>8, <1>11, <1>12, <1>14, <1>17, <1>23, <1>24, <1>25, <1>26, <1>27,
           <1>28, Together DEF w

\* process_hiccup.
LEMMA ProcessHiccupKeeps ==
  ASSUME PipeInv, NEW e \in Ends, ProcessHiccup(e)
  PROVE  PipeInv'
<1> DEFINE w == Peer(e)
           o == pipe[e].out
           q == upipe[o]
           p == Head(cmds[e]).pipe
           n == Cardinality({i \in DOMAIN Flushed(q).flushed : Flushed(q).flushed[i] # "more"})
           k == Minus(pipe[e].msgsWritten, n)
<1>1. w \in Ends /\ e # w /\ Peer(w) = e /\ \A x \in Ends : x = e \/ x = w BY PeerEnd
<1>2. Types /\ ~aborted /\ Owned /\ Contents /\ Fresh /\ Chained BY DEF PipeInv
<1>3. pipe \in [Ends -> Pipes] BY <1>2 DEF Types, Pipes
<1>4. /\ cmds[e] # << >> /\ Head(cmds[e]).type = "hiccup" /\ cmds' = Handled(e, << >>)
  BY DEF ProcessHiccup, Gets
<1>5. /\ cmds[w] \in Seq(Commands) /\ cmds[e] \in Seq(Commands)
      /\ pipe[e].state \in States /\ pipe[w].state \in States
      /\ pipe[e].in \in Upipes /\ pipe[w].in \in Upipes
      /\ pipe[w].msgsRead \in Nat /\ pipe[e].msgsWritten \in 0 .. Word - 1 /\ Hwm[e] \in Nat
      /\ o \in Upipes \cup {Nobody} /\ pipe[w].out \in Upipes \cup {Nobody}
  BY <1>1, <1>2, EndFields
<1>6. /\ Handshake(pipe[e].state, pipe[w].state, cmds[e], o)
      /\ Handshake(pipe[w].state, pipe[e].state, cmds[w], pipe[w].out)
      /\ Flow(pipe[e].state, pipe[w].state, o, pipe[w].in, q, In(w),
              pipe[e].msgsWritten, pipe[w].msgsRead, pipe[e].peersMsgsRead, cmds[e], Hwm[e])
      /\ Reported(cmds[e], pipe[w].msgsRead) /\ Reported(cmds[w], pipe[e].msgsRead)
  BY View DEF Out
<1>7. p \in Upipes /\ p # Nobody BY <1>4, <1>5, TailFacts, CommandKinds, PipeAssumption
<1>8. o # Nobody BY <1>4, <1>5, <1>6, ProtocolReceives
<1>9. Handshake(pipe[e].state, pipe[w].state, Tail(cmds[e]), p)
  BY <1>4, <1>5, <1>6, <1>7, <1>8, ProtocolReceives
<1>10. /\ upipe' = [upipe EXCEPT ![o] = Nobody] /\ UNCHANGED aborted
       /\ pipe' = [pipe EXCEPT ![e].msgsWritten = k, ![e].out = p, ![e].outActive = TRUE]
  BY <1>8 DEF ProcessHiccup, Out
<1>11. Alive(e) /\ Alive(w) /\ Has(cmds[e], "hiccup")
  <2>1. Has(cmds[e], "hiccup") BY <1>4, <1>5, HasTail
  <2> QED BY <1>6, <2>1 DEF Handshake, Meets, Alive
<1>12. /\ o \in Upipes /\ q \in Queues(Parts) /\ Formed(q) /\ q # Nobody
       /\ \A x \in Ends : ~Brings(cmds[x], o)
  BY <1>8, Apart DEF Out
<1>13. n \in Nat /\ (~Delimits(q) => n = Queued(q)) BY <1>12, DroppedQueue
<1>14. k \in 0 .. Word - 1
  <2> HIDE DEF n
  <2>1. pipe[e].msgsWritten \in Int /\ n \in Int BY <1>5, <1>13
  <2> QED BY <2>1, MinusType
<1> HIDE DEF w, n
<1>15. Chain(cmds[e], o, pipe[w].in) BY <1>2, <1>8 DEF Chained, w
<1>16. /\ Chain(Tail(cmds[e]), p, pipe[w].in) /\ p # o /\ pipe[w].in # o
       /\ ~Brings(Tail(cmds[e]), o)
  BY <1>4, <1>5, <1>15, ChainTail
<1>17. \A v : Brings(cmds[e], v) <=> (p = v \/ Brings(Tail(cmds[e]), v))
  BY <1>4, <1>5, BringsTail
<1>18. Empty(upipe[p]) BY <1>2, <1>7, <1>17 DEF Fresh
<1>19. cmds'[e] = Tail(cmds[e]) /\ cmds'[w] = cmds[w] /\ cmds' \in [Ends -> Seq(Commands)]
  <2>1. cmds[w] \o << >> = cmds[w] BY <1>5, CommandFacts, OneSent
  <2> QED BY <1>2, <1>4, <1>5, <2>1, HandledBy DEF w
<1>20. Reported(cmds'[e], pipe[w].msgsRead) BY <1>4, <1>5, <1>6, <1>19, ReportedTail
<1>21. Flow(pipe[e].state, pipe[w].state, p, pipe[w].in, upipe[p], In(w),
            k, pipe[w].msgsRead, pipe[e].peersMsgsRead, cmds'[e], Hwm[e])
  <2> HIDE DEF o, q, p
  <2> QED BY <1>5, <1>6, <1>11, <1>12, <1>13, <1>16, <1>18, <1>20, FlowDrops
<1> HIDE DEF o, q, p, k
<1>22. pipe' \in [Ends -> Pipes]
  <2> DEFINE r == [pipe[e] EXCEPT !.msgsWritten = k, !.out = p, !.outActive = TRUE]
  <2>1. pipe[e] \in Pipes BY <1>3
  <2>2. r \in Pipes BY <1>7, <1>14, <2>1 DEF Pipes
  <2>3. pipe' = [pipe EXCEPT ![e] = r] BY <1>3, <1>10
  <2> HIDE DEF r
  <2> QED BY <1>3, <2>2, <2>3
<1>23. /\ pipe'[w] = pipe[w] /\ pipe'[e].in = pipe[e].in /\ pipe'[e].out = p
       /\ pipe'[e].state = pipe[e].state /\ pipe'[e].msgsRead = pipe[e].msgsRead
       /\ pipe'[e].msgsWritten = k /\ pipe'[e].peersMsgsRead = pipe[e].peersMsgsRead
  BY <1>1, <1>3, <1>10 DEF Pipes
<1>24. /\ upipe' \in [Upipes -> Queues(Parts) \cup {Nobody}]
       /\ upipe'[o] = Nobody /\ \A v \in Upipes : v # o => upipe'[v] = upipe[v]
  BY <1>2, <1>10, <1>12 DEF Types
<1>25. Types' BY <1>2, <1>10, <1>19, <1>22, <1>24, TypesNext DEF Types
<1>26. Chained'
  <2>1. pipe[w].out # Nobody => Chain(cmds[w], pipe[w].out, pipe[e].in)
    BY <1>1, <1>2 DEF Chained
  <2> QED BY <1>1, <1>16, <1>19, <1>23, <2>1 DEF Chained, w
<1>27. Owned'
  <2>1. Alive(e)' /\ Alive(w)' BY <1>11, <1>23 DEF Alive
  <2>2. ASSUME NEW v PROVE Owns(e, v)' <=> Owns(e, v)
    BY <1>11, <1>19, <1>23, <2>1 DEF Owns, w
  <2>3. ASSUME NEW v PROVE Owns(w, v)' <=> (Owns(w, v) /\ v # o)
    <3>1. Owns(w, v)' <=> (pipe[w].in = v \/ p = v \/ Brings(Tail(cmds[e]), v))
      BY <1>1, <1>19, <1>23, <2>1 DEF Owns
    <3>2. Owns(w, v) <=> (pipe[w].in = v \/ o = v \/ Brings(cmds[e], v))
      BY <1>1, <1>11 DEF Owns, o
    <3> QED BY <1>16, <1>17, <3>1, <3>2
  <2>4. \A v \in Upipes : /\ upipe[v] # Nobody <=> (Owns(e, v) \/ Owns(w, v))
                          /\ ~(Owns(e, v) /\ Owns(w, v))
    BY <1>2 DEF Owned, w
  <2>5. Owns(w, o) BY <1>1 DEF Owns, o
  <2>6. \A v \in Upipes : /\ upipe'[v] # Nobody <=> (Owns(e, v)' \/ Owns(w, v)')
                          /\ ~(Owns(e, v)' /\ Owns(w, v)')
    BY <1>12, <1>24, <2>2, <2>3, <2>4, <2>5
  <2> QED BY <1>1, <2>6 DEF Owned, w
<1>28. Contents' BY <1>2, <1>24 DEF Contents
<1>29. Fresh'
  <2>1. ASSUME NEW x \in Ends, NEW v \in Upipes, Brings(cmds'[x], v)
        PROVE  Empty(upipe'[v])
    <3>1. Brings(cmds[x], v) /\ v # o BY <1>1, <1>12, <1>16, <1>17, <1>19, <2>1
    <3> QED BY <1>2, <1>24, <3>1 DEF Fresh
  <2> QED BY <2>1 DEF Fresh
<1>30. FlowFrom(e)'
  <2>1. Out(e)' = upipe[p] /\ In(w)' = In(w) BY <1>5, <1>7, <1>16, <1>23, <1>24 DEF Out, In
  <2> QED BY <1>21, <1>23, <2>1 DEF FlowFrom, w
<1>31. FlowFrom(w)'
  <2>1. /\ pipe[w].out # Nobody => upipe'[pipe[w].out] = Out(w)
        /\ upipe'[pipe[e].in] = In(e)
    BY <1>8, <1>11, <1>24, WriterApart DEF w, o
  <2>2. /\ pipe[w].out # Nobody => Out(w)' = Out(w)
        /\ In(e)' = In(e)
    BY <2>1, <1>23 DEF Out, In
  <2>3. pipe[w].state = "active" => pipe[w].out # Nobody BY <1>6 DEF Handshake
  <2>4. Similar(In(e), In(e)) BY DEF Similar
  <2>5. pipe[w].peersMsgsRead <= pipe[e].msgsRead BY View DEF Flow, w
  <2> QED BY <1>1, <1>6, <1>19, <1>23, <2>2, <2>3, <2>4, <2>5, FlowStill
<1> QED BY <1>2, <1>6, <1>9, <1>10, <1>19, <1>23, <1>25, <1>26, <1>27, <1>28, <1>29, <1>30,
           <1>31, Together DEF w

\* process_pipe_term.
LEMMA PipeTermKeeps ==
  ASSUME PipeInv, NEW e \in Ends, PipeTerm(e)
  PROVE  PipeInv'
<1> DEFINE w == Peer(e)
<1>1. w \in Ends /\ e # w /\ Peer(w) = e /\ \A x \in Ends : x = e \/ x = w BY PeerEnd
<1>2. Types /\ ~aborted BY DEF PipeInv
<1>3. pipe \in [Ends -> Pipes] BY <1>2 DEF Types, Pipes
<1>4. /\ cmds[e] # << >> /\ Head(cmds[e]).type = "pipe_term" /\ UNCHANGED upipe
      /\ aborted' = (aborted \/ pipe[e].state \notin {"active", "delimiter_received",
                                                     "term_req_sent1"})
  BY DEF PipeTerm, Gets
<1>5. /\ cmds[w] \in Seq(Commands) /\ cmds[e] \in Seq(Commands)
      /\ pipe[e].state \in States /\ pipe[w].state \in States /\ pipe[e].msgsRead \in Nat
  BY <1>1, <1>2, EndFields
<1>6. /\ Handshake(pipe[e].state, pipe[w].state, cmds[e], pipe[e].out)
      /\ Handshake(pipe[w].state, pipe[e].state, cmds[w], pipe[w].out)
      /\ Reported(cmds[e], pipe[w].msgsRead) /\ Reported(cmds[w], pipe[e].msgsRead)
  BY View
<1>7. /\ pipe[e].state \in {"active", "delimiter_received", "term_req_sent1"}
      /\ pipe[w].state \in {"term_req_sent1", "term_req_sent2"}
      /\ ~Has(cmds[e], "hiccup")
      /\ pipe[e].state # "term_req_sent1" => pipe[w].state = "term_req_sent1"
  BY <1>4, <1>5, <1>6, ProtocolAsked
<1>8. ~aborted' /\ aborted' \in BOOLEAN BY <1>2, <1>4, <1>7
<1>9. Alive(e) /\ Alive(w) /\ pipe[e].out # Nobody BY <1>6, <1>7 DEF Alive, Handshake
<1>10. Reported(Tail(cmds[e]), pipe[w].msgsRead) BY <1>4, <1>5, <1>6, ReportedTail
<1>11. Alike(cmds[e], Tail(cmds[e])) /\ Alike(cmds[w], cmds[w])
  BY <1>4, <1>5, AlikeTail, AlikeSame
<1>12. \A v \in Upipes : Kept(v) BY <1>4 DEF Kept
<1>13. /\ pipe[e].peersMsgsRead <= pipe[w].msgsRead
       /\ pipe[w].peersMsgsRead <= pipe[e].msgsRead
  BY View DEF Flow
<1>14. upipe' \in [Upipes -> Queues(Parts) \cup {Nobody}] BY <1>2, <1>4 DEF Types
<1> HIDE DEF w
<1>15. CASE Waits(e)
  <2>1. /\ pipe' = [pipe EXCEPT ![e].state = "waiting_for_delimiter"]
        /\ cmds' = Handled(e, << >>) /\ pipe[e].state = "active"
    BY <1>15 DEF PipeTerm, Waits
  <2>2. cmds'[e] = Tail(cmds[e]) /\ cmds'[w] = cmds[w] /\ cmds' \in [Ends -> Seq(Commands)]
    <3>1. cmds[w] \o << >> = cmds[w] BY <1>5, CommandFacts, OneSent
    <3>2. w = Peer(e) BY DEF w
    <3>3. /\ cmds'[e] = Tail(cmds[e]) /\ cmds'[w] = cmds[w] \o << >>
          /\ cmds[w] \o << >> \in Seq(Commands) => cmds' \in [Ends -> Seq(Commands)]
      BY ONLY <1>2, <1>4, <2>1, <3>2, HandledBy, e \in Ends
    <3> QED BY <1>5, <3>1, <3>3
  <2>3. pipe' \in [Ends -> Pipes]
    <3> DEFINE p == [pipe[e] EXCEPT !.state = "waiting_for_delimiter"]
    <3>1. pipe[e] \in Pipes /\ "waiting_for_delimiter" \in States BY <1>3 DEF States
    <3>2. p \in Pipes BY <3>1 DEF Pipes
    <3>3. pipe' = [pipe EXCEPT ![e] = p] BY <1>3, <2>1
    <3> HIDE DEF p
    <3> QED BY <1>3, <3>2, <3>3
  <2>4. /\ pipe'[w] = pipe[w] /\ pipe'[e].state = "waiting_for_delimiter"
        /\ pipe'[e].in = pipe[e].in /\ pipe'[e].out = pipe[e].out
        /\ pipe'[e].msgsRead = pipe[e].msgsRead
        /\ pipe'[e].msgsWritten = pipe[e].msgsWritten
        /\ pipe'[e].peersMsgsRead = pipe[e].peersMsgsRead
    BY <1>1, <1>3, <2>1 DEF Pipes
  <2>5. Types' BY <1>8, <1>14, <2>2, <2>3, TypesNext
  <2>6. /\ Handshake("waiting_for_delimiter", pipe[w].state, cmds'[e], pipe[e].out)
        /\ Handshake(pipe[w].state, "waiting_for_delimiter", cmds'[w], pipe[w].out)
    BY <1>4, <1>5, <1>6, <2>1, <2>2, ProtocolWaits
  <2>7. Chained' /\ Owned' /\ Contents' /\ Fresh'
    <3>1. \A x \in Ends : /\ Alike(cmds[x], cmds'[x])
                          /\ pipe'[x].in = pipe[x].in /\ pipe'[x].out = pipe[x].out
                          /\ Alive(x)' <=> Alive(x)
      BY <1>1, <1>9, <1>11, <2>2, <2>4 DEF Alive
    <3> QED BY <1>12, <3>1, Stays
  <2>8. pipe[w].state = "term_req_sent1" BY <1>7, <2>1
  <2>9. Out(e)' = Out(e) /\ Out(w)' = Out(w) /\ In(e)' = In(e) BY <1>4, <2>4 DEF Out, In
  <2>10. FlowFrom(e)'
    BY <1>9, <1>10, <1>13, <2>2, <2>4, <2>8, <2>9, FlowStill DEF w
  <2>11. FlowFrom(w)'
    <3>1. Similar(In(e), In(e)) BY DEF Similar
    <3> QED BY <1>1, <1>6, <1>13, <2>1, <2>2, <2>4, <2>8, <2>9, <3>1, FlowStill
  <2> QED BY <1>8, <2>4, <2>5, <2>6, <2>7, <2>10, <2>11, Together DEF w
<1>16. CASE ~Waits(e)
  <2> DEFINE r == IF pipe[e].state = "term_req_sent1" THEN "term_req_sent2" ELSE "term_ack_sent"
             m == [type |-> "pipe_term_ack"]
  <2>1. pipe' = [pipe EXCEPT ![e].out = Nobody, ![e].state = r] /\ cmds' = Handled(e, Ack)
    <3>1. pipe' = [pipe EXCEPT ![e].out = Nobody,
                     ![e].state = IF @ = "term_req_sent1" THEN "term_req_sent2"
                                  ELSE "term_ack_sent"]
      BY <1>16 DEF PipeTerm
    <3>2. cmds' = Handled(e, Ack) BY <1>16 DEF PipeTerm
    <3> QED BY <1>3, <3>1, <3>2 DEF Pipes
  <2>2. r \in {"term_req_sent2", "term_ack_sent"} /\ r \in States BY DEF States
  <2>3. /\ Handshake(r, pipe[w].state, Tail(cmds[e]), Nobody)
        /\ Handshake(pipe[w].state, r, Append(cmds[w], m), pipe[w].out)
    BY <1>4, <1>5, <1>6, ProtocolAnswers
  <2>4. m \in Commands /\ m.type = "pipe_term_ack" BY CommandFacts
  <2>5. cmds' = Handled(e, <<m>>) BY <2>1 DEF Ack
  <2> HIDE DEF r, m
  <2>6. /\ cmds'[e] = Tail(cmds[e]) /\ cmds'[w] = Append(cmds[w], m)
        /\ cmds' \in [Ends -> Seq(Commands)]
    <3>1. cmds[w] \o <<m>> = Append(cmds[w], m) BY <1>5, <2>4, OneSent
    <3>2. Append(cmds[w], m) \in Seq(Commands) BY <1>5, <2>4, AppendFacts
    <3>3. w = Peer(e) BY DEF w
    <3>4. /\ cmds'[e] = Tail(cmds[e]) /\ cmds'[w] = cmds[w] \o <<m>>
          /\ cmds[w] \o <<m>> \in Seq(Commands) => cmds' \in [Ends -> Seq(Commands)]
      BY ONLY <1>2, <1>4, <2>5, <3>3, HandledBy, e \in Ends
    <3> QED BY <3>1, <3>2, <3>4
  <2>7. pipe' \in [Ends -> Pipes]
    <3> DEFINE p == [pipe[e] EXCEPT !.out = Nobody, !.state = r]
    <3>1. pipe[e] \in Pipes BY <1>3
    <3>2. p \in Pipes BY <2>2, <3>1 DEF Pipes
    <3>3. pipe' = [pipe EXCEPT ![e] = p] BY <1>3, <2>1
    <3> HIDE DEF p
    <3> QED BY <1>3, <3>2, <3>3
  <2>8. /\ pipe'[w] = pipe[w] /\ pipe'[e].state = r
        /\ pipe'[e].in = pipe[e].in /\ pipe'[e].out = Nobody
        /\ pipe'[e].msgsRead = pipe[e].msgsRead
        /\ pipe'[e].msgsWritten = pipe[e].msgsWritten
        /\ pipe'[e].peersMsgsRead = pipe[e].peersMsgsRead
    BY <1>1, <1>3, <2>1 DEF Pipes
  <2>9. Types' BY <1>8, <1>14, <2>6, <2>7, TypesNext
  <2>10. Chained' /\ Owned' /\ Contents' /\ Fresh'
    <3>1. Alike(cmds[w], cmds'[w]) BY <1>5, <2>4, <2>6, AlikeAppend
    <3>2. \A x \in Ends : Alike(cmds[x], cmds'[x]) /\ pipe'[x].in = pipe[x].in
                          /\ (Alive(x)' <=> Alive(x))
      BY <1>1, <1>9, <1>11, <2>2, <2>6, <2>8, <3>1 DEF Alive
    <3> QED BY <1>1, <1>7, <1>9, <1>12, <2>8, <3>2, GivesUp DEF w
  <2>11. Out(w)' = Out(w) BY <1>4, <2>8 DEF Out
  <2>12. FlowFrom(e)' BY <1>7, <1>10, <1>13, <2>2, <2>6, <2>8, FlowStill DEF w
  <2>13. FlowFrom(w)'
    <3>1. Reported(cmds'[w], pipe[e].msgsRead) BY <1>5, <1>6, <2>4, <2>6, ReportedAppend
    <3> QED BY <1>1, <1>7, <1>13, <2>2, <2>8, <2>11, <3>1, FlowStill
  <2> QED BY <1>8, <2>3, <2>6, <2>8, <2>9, <2>10, <2>12, <2>13, Together DEF w
<1> QED BY <1>15, <1>16

\* process_pipe_term_ack.
LEMMA PipeTermAckKeeps ==
  ASSUME PipeInv, NEW e \in Ends, PipeTermAck(e)
  PROVE  PipeInv'
<1> DEFINE w == Peer(e)
           i == pipe[e].in
           m == [type |-> "pipe_term_ack"]
           b == IF pipe[e].state = "term_req_sent1" THEN Append(cmds[w], m) ELSE cmds[w]
<1>1. w \in Ends /\ e # w /\ Peer(w) = e /\ \A x \in Ends : x = e \/ x = w BY PeerEnd
<1>2. Types /\ ~aborted /\ Owned /\ Contents /\ Fresh /\ Chained BY DEF PipeInv
<1>3. pipe \in [Ends -> Pipes] BY <1>2 DEF Types, Pipes
<1>4. /\ cmds[e] # << >> /\ Head(cmds[e]).type = "pipe_term_ack"
      /\ pipe' = [pipe EXCEPT ![e].state = "deallocated", ![e].out = Nobody]
      /\ upipe' = [upipe EXCEPT ![i] = Nobody] /\ cmds' = Handled(e, Answer(e))
      /\ aborted' = (aborted \/ pipe[e].state \notin {"term_ack_sent", "term_req_sent1",
                                                     "term_req_sent2"})
  BY DEF PipeTermAck, Gets
<1>5. /\ cmds[w] \in Seq(Commands) /\ cmds[e] \in Seq(Commands)
      /\ pipe[e].state \in States /\ pipe[w].state \in States /\ pipe[e].msgsRead \in Nat
      /\ i \in Upipes
  BY <1>1, <1>2, EndFields
<1>6. /\ Handshake(pipe[e].state, pipe[w].state, cmds[e], pipe[e].out)
      /\ Handshake(pipe[w].state, pipe[e].state, cmds[w], pipe[w].out)
      /\ Reported(cmds[w], pipe[e].msgsRead)
  BY View
<1>7. /\ pipe[e].state \in {"term_ack_sent", "term_req_sent1", "term_req_sent2"}
      /\ pipe[w].state \in {"term_ack_sent", "term_req_sent2", "deallocated"}
      /\ pipe[e].state = "term_req_sent1" => pipe[w].state # "deallocated"
      /\ Tail(cmds[e]) = << >> /\ ~Has(cmds[e], "hiccup") /\ ~Has(cmds[w], "hiccup")
      /\ pipe[w].out = Nobody
      /\ Handshake("deallocated", pipe[w].state, Tail(cmds[e]), Nobody)
      /\ pipe[e].state = "term_req_sent1" =>
           Handshake(pipe[w].state, "deallocated", Append(cmds[w], m), pipe[w].out)
      /\ pipe[e].state # "term_req_sent1" =>
           Handshake(pipe[w].state, "deallocated", cmds[w], pipe[w].out)
  BY <1>4, <1>5, <1>6, ProtocolEnds
<1>8. ~aborted' /\ aborted' \in BOOLEAN BY <1>2, <1>4, <1>7
<1>9. m \in Commands /\ m.type = "pipe_term_ack" BY CommandFacts
<1>10. Answer(e) = IF pipe[e].state = "term_req_sent1" THEN <<m>> ELSE << >> BY DEF Answer, Ack
<1> HIDE DEF w, m
<1>11. cmds[w] \o Answer(e) = b
  <2>1. cmds[w] \o <<m>> = Append(cmds[w], m) /\ cmds[w] \o << >> = cmds[w]
    BY <1>5, <1>9, OneSent
  <2> QED BY <1>10, <2>1
<1>12. /\ b \in Seq(Commands) /\ ~Has(b, "hiccup") /\ Reported(b, pipe[e].msgsRead)
       /\ Handshake(pipe[w].state, "deallocated", b, pipe[w].out)
  <2>1. CASE pipe[e].state = "term_req_sent1"
    <3>1. Append(cmds[w], m) \in Seq(Commands) BY <1>5, <1>9, AppendFacts
    <3>2. ~Has(Append(cmds[w], m), "hiccup") BY <1>5, <1>7, <1>9, HasAppend
    <3>3. Reported(Append(cmds[w], m), pipe[e].msgsRead) BY <1>5, <1>6, <1>9, ReportedAppend
    <3> QED BY <1>7, <2>1, <3>1, <3>2, <3>3
  <2>2. CASE pipe[e].state # "term_req_sent1" BY <1>5, <1>6, <1>7, <2>2
  <2> QED BY <2>1, <2>2
<1> HIDE DEF b, i
<1>13. cmds'[e] = << >> /\ cmds'[w] = b /\ cmds' \in [Ends -> Seq(Commands)]
  <2>1. w = Peer(e) BY DEF w
  <2>2. /\ cmds'[e] = Tail(cmds[e]) /\ cmds'[w] = cmds[w] \o Answer(e)
        /\ cmds[w] \o Answer(e) \in Seq(Commands) => cmds' \in [Ends -> Seq(Commands)]
    BY ONLY <1>2, <1>4, <2>1, HandledBy, e \in Ends
  <2> QED BY <1>7, <1>11, <1>12, <2>2
<1>14. pipe' \in [Ends -> Pipes]
  <2> DEFINE p == [pipe[e] EXCEPT !.state = "deallocated", !.out = Nobody]
  <2>1. pipe[e] \in Pipes /\ "deallocated" \in States BY <1>3 DEF States
  <2>2. p \in Pipes BY <2>1 DEF Pipes
  <2>3. pipe' = [pipe EXCEPT ![e] = p] BY <1>3, <1>4
  <2> HIDE DEF p
  <2> QED BY <1>3, <2>2, <2>3
<1>15. /\ pipe'[w] = pipe[w] /\ pipe'[e].state = "deallocated"
       /\ pipe'[e].in = pipe[e].in /\ pipe'[e].out = Nobody
       /\ pipe'[e].msgsRead = pipe[e].msgsRead
       /\ pipe'[e].msgsWritten = pipe[e].msgsWritten
       /\ pipe'[e].peersMsgsRead = pipe[e].peersMsgsRead
  BY <1>1, <1>3, <1>4 DEF Pipes
<1>16. /\ upipe' \in [Upipes -> Queues(Parts) \cup {Nobody}]
       /\ upipe'[i] = Nobody /\ \A v \in Upipes : v # i => upipe'[v] = upipe[v]
  BY <1>2, <1>4, <1>5 DEF Types
<1>17. Types' BY <1>8, <1>13, <1>14, <1>16, TypesNext
<1>18. \A v : ~Brings(cmds[e], v) /\ ~Brings(cmds[w], v) /\ ~Brings(cmds'[e], v)
              /\ ~Brings(cmds'[w], v)
  BY <1>7, <1>12, <1>13, BringsHas, NothingSent
<1>19. Chained' BY <1>1, <1>7, <1>15 DEF Chained
<1>20. Fresh' BY <1>1, <1>18 DEF Fresh
<1>21. Contents' BY <1>2, <1>16 DEF Contents
<1>22. Owned'
  <2>1. Alive(e) /\ ~Alive(e)' /\ (Alive(w)' <=> Alive(w)) BY <1>7, <1>15 DEF Alive
  <2>2. ASSUME pipe[e].out # Nobody PROVE Alive(w) /\ pipe[w].in = pipe[e].out
    <3>1. pipe[e].state = "term_req_sent1" BY <1>6, <1>7, <2>2 DEF Handshake
    <3>2. Chain(cmds[e], pipe[e].out, pipe[w].in) BY <1>2, <2>2 DEF Chained, w
    <3>3. pipe[w].in = pipe[e].out BY <1>5, <1>7, <3>2, ChainUse
    <3> QED BY <1>7, <3>1, <3>3 DEF Alive
  <2>3. ASSUME NEW v \in Upipes
        PROVE  /\ Owns(e, v) <=> v = i
               /\ ~Owns(e, v)'
               /\ Owns(w, v)' <=> Owns(w, v)
    <3>1. v # Nobody BY PipeAssumption
    <3>2. Owns(e, v) <=> v = i BY <1>7, <1>18, <2>1, <3>1 DEF Owns, w, i
    <3>3. ~Owns(e, v)' BY <1>7, <1>15, <1>18, <2>1, <3>1 DEF Owns, w
    <3>4. Owns(w, v)' <=> (Alive(w) /\ pipe[w].in = v) BY <1>1, <1>15, <1>18, <2>1, <3>1 DEF Owns
    <3>5. Owns(w, v) <=> (Alive(w) /\ pipe[w].in = v) BY <1>1, <1>18, <2>2, <3>1 DEF Owns
    <3> QED BY <3>2, <3>3, <3>4, <3>5
  <2>4. \A v \in Upipes : /\ upipe[v] # Nobody <=> (Owns(e, v) \/ Owns(w, v))
                          /\ ~(Owns(e, v) /\ Owns(w, v))
    BY <1>2 DEF Owned, w
  <2>5. \A v \in Upipes : /\ upipe'[v] # Nobody <=> (Owns(e, v)' \/ Owns(w, v)')
                          /\ ~(Owns(e, v)' /\ Owns(w, v)')
    BY <1>16, <2>3, <2>4
  <2> QED BY <1>1, <2>5 DEF Owned, w
<1>23. /\ pipe[e].peersMsgsRead <= pipe[w].msgsRead
       /\ pipe[w].peersMsgsRead <= pipe[e].msgsRead
  BY View DEF Flow, w
<1>24. FlowFrom(e)'
  <2>1. Reported(cmds'[e], pipe[w].msgsRead) BY <1>13, NothingSent
  <2> QED BY <1>7, <1>15, <1>23, <2>1, FlowStill DEF w
<1>25. FlowFrom(w)' BY <1>1, <1>7, <1>12, <1>13, <1>15, <1>23, FlowStill
<1> QED BY <1>7, <1>8, <1>12, <1>13, <1>15, <1>17, <1>19, <1>20, <1>21, <1>22, <1>24, <1>25,
           Together DEF w

\* What an end sends that asks its peer to terminate and wakes it up.
LEMMA AskSent ==
  ASSUME NEW s \in Seq(Commands), NEW q
  PROVE  LET m == [type |-> "pipe_term"]
             a == [type |-> "activate_read"]
         IN s \o (<<m>> \o WakeUp(q)) \in {Append(s, m), Append(Append(s, m), a)}
<1> DEFINE m == [type |-> "pipe_term"]
           a == [type |-> "activate_read"]
<1>1. m \in Commands /\ a \in Commands BY CommandFacts
<1>2. WakeUp(q) = << >> \/ WakeUp(q) = <<a>> BY DEF WakeUp
<1> HIDE DEF m, a
<1>3. s \o (<<m>> \o << >>) = Append(s, m) BY <1>1
<1>4. s \o (<<m>> \o <<a>>) = Append(Append(s, m), a) BY <1>1
<1>5. s \o (<<m>> \o WakeUp(q)) \in {Append(s, m), Append(Append(s, m), a)}
  BY <1>2, <1>3, <1>4
<1> QED BY <1>5 DEF m, a

\* The peer may get it.
LEMMA Asks ==
  ASSUME PipeInv, NEW e \in Ends, NEW w, w = Peer(e),
         pipe[e].state \in {"active", "delimiter_received"}, pipe[e].out # Nobody,
         NEW q, cmds'[w] = cmds[w] \o (<<[type |-> "pipe_term"]>> \o WakeUp(q))
  PROVE  /\ cmds'[w] \in Seq(Commands) /\ Alike(cmds[w], cmds'[w])
         /\ Reported(cmds'[w], pipe[e].msgsRead)
         /\ Handshake("term_req_sent1", pipe[w].state, cmds[e], pipe[e].out)
         /\ Handshake(pipe[w].state, "term_req_sent1", cmds'[w], pipe[w].out)
<1> DEFINE m == [type |-> "pipe_term"]
           a == [type |-> "activate_read"]
           d == Append(cmds[w], m)
<1>1. m \in Commands /\ m.type = "pipe_term" /\ a \in Commands /\ a.type = "activate_read"
  BY CommandFacts
<1>2. w \in Ends /\ Types BY PeerEnd DEF PipeInv
<1>3. /\ cmds[e] \in Seq(Commands) /\ cmds[w] \in Seq(Commands) /\ pipe[w].state \in States
      /\ pipe[e].msgsRead \in Nat /\ "term_req_sent1" \in States
  BY <1>2, EndFields DEF States
<1>4. cmds'[w] \in {d, Append(d, a)} BY <1>3, AskSent
<1> HIDE DEF m, a
<1>5. /\ Handshake(pipe[e].state, pipe[w].state, cmds[e], pipe[e].out)
      /\ Handshake(pipe[w].state, pipe[e].state, cmds[w], pipe[w].out)
      /\ Reported(cmds[w], pipe[e].msgsRead)
  BY View
<1>6. /\ Handshake("term_req_sent1", pipe[w].state, cmds[e], pipe[e].out)
      /\ Handshake(pipe[w].state, "term_req_sent1", d, pipe[w].out)
  BY <1>1, <1>3, <1>5, ProtocolAsks
<1>7. d \in Seq(Commands) /\ Alike(cmds[w], d) BY <1>1, <1>3, AppendFacts, AlikeAppend
<1>8. Reported(d, pipe[e].msgsRead) BY <1>1, <1>3, <1>5, ReportedAppend
<1>9. CASE cmds'[w] = d BY <1>6, <1>7, <1>8, <1>9
<1>10. CASE cmds'[w] = Append(d, a)
  <2> HIDE DEF d
  <2>1. Append(d, a) \in Seq(Commands) /\ Alike(d, Append(d, a))
    BY <1>1, <1>7, AppendFacts, AlikeAppend
  <2>2. Alike(cmds[w], Append(d, a)) BY <1>7, <2>1, AlikeTwo
  <2>3. Reported(Append(d, a), pipe[e].msgsRead) BY <1>1, <1>3, <1>7, <1>8, ReportedAppend
  <2>4. Handshake(pipe[w].state, "term_req_sent1", Append(d, a), pipe[w].out)
    BY <1>1, <1>3, <1>6, <1>7, ProtocolSends
  <2> QED BY <1>6, <1>10, <2>1, <2>2, <2>3, <2>4
<1> QED BY <1>4, <1>9, <1>10

\* terminate of an end that asks its peer.
LEMMA AsksKeeps ==
  ASSUME PipeInv, NEW e \in Ends, NEW delay, Terminate(e, delay),
         pipe[e].state \in {"active", "delimiter_received"}
  PROVE  PipeInv'
<1> DEFINE w == Peer(e)
           o == pipe[e].out
           i == pipe[w].in
           q == upipe[o]
           r == Flushed(Delimited(q))
           S == <<[type |-> "pipe_term"]>> \o WakeUp(Delimited(q))
<1>1. w \in Ends /\ e # w /\ Peer(w) = e /\ \A x \in Ends : x = e \/ x = w BY PeerEnd
<1>2. Types /\ ~aborted BY DEF PipeInv
<1>3. pipe \in [Ends -> Pipes] BY <1>2 DEF Types, Pipes
<1>4. /\ pipe' = [pipe EXCEPT ![e].outActive = FALSE, ![e].delay = @,
                              ![e].state = "term_req_sent1"]
      /\ upipe' = [upipe EXCEPT ![o] = r] /\ cmds' = To(e, S) /\ UNCHANGED aborted
  BY DEF Terminate, Out
<1>5. /\ Handshake(pipe[e].state, pipe[w].state, cmds[e], o)
      /\ Handshake(pipe[w].state, pipe[e].state, cmds[w], pipe[w].out)
      /\ Flow(pipe[e].state, pipe[w].state, o, i, q, upipe[i],
              pipe[e].msgsWritten, pipe[w].msgsRead, pipe[e].peersMsgsRead, cmds[e], Hwm[e])
      /\ Reported(cmds[w], pipe[e].msgsRead)
  BY View DEF Out, In
<1>6. /\ pipe[w].state \in {"active", "term_req_sent1"} /\ o # Nobody /\ Alive(e) /\ Alive(w)
      /\ pipe[e].state = "delimiter_received" => pipe[w].state = "term_req_sent1"
  BY <1>5 DEF Handshake, Meets, Alive
<1>7. /\ cmds[e] \in Seq(Commands) /\ cmds[w] \in Seq(Commands) /\ pipe[w].state \in States
      /\ pipe[e].msgsRead \in Nat /\ i \in Upipes
  BY <1>1, <1>2, EndFields
<1>8. /\ o \in Upipes /\ q \in Queues(Parts) /\ Formed(q) /\ q # Nobody
      /\ \A x \in Ends : ~Brings(cmds[x], o)
  BY <1>6, Apart DEF Out
<1>9. r \in Queues(Parts) /\ Formed(r) BY <1>8, DelimitedQueue
<1> HIDE DEF w
<1>10. cmds'[e] = cmds[e] /\ cmds'[w] = cmds[w] \o S
       /\ (cmds[w] \o S \in Seq(Commands) => cmds' \in [Ends -> Seq(Commands)])
  <2> HIDE DEF S
  <2>1. w = Peer(e) /\ cmds' = To(e, S) BY <1>4 DEF w
  <2> QED BY ONLY <1>2, <2>1, SentTo, e \in Ends
<1>11. /\ cmds'[w] \in Seq(Commands) /\ Alike(cmds[w], cmds'[w])
       /\ Reported(cmds'[w], pipe[e].msgsRead)
       /\ Handshake("term_req_sent1", pipe[w].state, cmds[e], o)
       /\ Handshake(pipe[w].state, "term_req_sent1", cmds'[w], pipe[w].out)
  <2>1. cmds'[w] = cmds[w] \o (<<[type |-> "pipe_term"]>> \o WakeUp(Delimited(q))) BY <1>10
  <2>2. w = Peer(e) BY DEF w
  <2> HIDE DEF q, S
  <2> QED BY <1>6, <2>1, <2>2, Asks
<1>12. /\ upipe' \in [Upipes -> Queues(Parts) \cup {Nobody}]
       /\ upipe'[o] = r /\ \A v \in Upipes : v # o => upipe'[v] = upipe[v]
  BY <1>2, <1>4, <1>8, <1>9, ReplacedQueue
<1>13. Flow("term_req_sent1", pipe[w].state, o, i, r, upipe'[i],
            pipe[e].msgsWritten, pipe[w].msgsRead, pipe[e].peersMsgsRead, cmds[e], Hwm[e])
  <2>1. upipe'[i] = IF i = o THEN r ELSE upipe[i] BY <1>7, <1>12
  <2> HIDE DEF o, i, q
  <2> QED BY <1>5, <1>6, <1>8, <2>1, FlowAsks
<1> HIDE DEF r, S
<1>14. pipe' \in [Ends -> Pipes]
  <2> DEFINE p == [pipe[e] EXCEPT !.outActive = FALSE, !.state = "term_req_sent1"]
  <2>1. pipe[e] \in Pipes /\ "term_req_sent1" \in States BY <1>3 DEF States
  <2>2. p \in Pipes BY <2>1 DEF Pipes
  <2>3. pipe' = [pipe EXCEPT ![e] = p] BY <1>3, <1>4, <2>1 DEF Pipes
  <2> HIDE DEF p
  <2> QED BY <1>3, <2>2, <2>3
<1>15. /\ pipe'[w] = pipe[w] /\ pipe'[e].state = "term_req_sent1"
       /\ pipe'[e].in = pipe[e].in /\ pipe'[e].out = o
       /\ pipe'[e].msgsRead = pipe[e].msgsRead
       /\ pipe'[e].msgsWritten = pipe[e].msgsWritten
       /\ pipe'[e].peersMsgsRead = pipe[e].peersMsgsRead
  BY <1>1, <1>3, <1>4 DEF Pipes
<1>16. Types' BY <1>2, <1>4, <1>10, <1>11, <1>12, <1>14, TypesNext DEF Types
<1>17. FlowFrom(e)' BY <1>10, <1>12, <1>13, <1>15 DEF FlowFrom, Out, In, w
<1>18. FlowFrom(w)'
  <2>1. pipe[w].out # Nobody => upipe'[pipe[w].out] = Out(w)
    BY <1>6, <1>12, WriterApart DEF w
  <2>2. pipe[w].out # Nobody => Out(w)' = Out(w) BY <2>1, <1>15 DEF Out
  <2>3. pipe[w].state = "active" => pipe[w].out # Nobody BY <1>5 DEF Handshake
  <2>4. pipe[w].peersMsgsRead <= pipe[e].msgsRead BY View DEF Flow, w
  <2> QED BY <1>1, <1>11, <1>15, <2>2, <2>3, <2>4, FlowStill
<1>19. Chained' /\ Owned' /\ Contents' /\ Fresh'
  <2>1. \A x \in Ends : /\ Alike(cmds[x], cmds'[x])
                        /\ pipe'[x].in = pipe[x].in /\ pipe'[x].out = pipe[x].out
                        /\ Alive(x)' <=> Alive(x)
    BY <1>1, <1>6, <1>7, <1>10, <1>11, <1>15, AlikeSame DEF Alive
  <2>2. \A v \in Upipes : Kept(v) BY <1>8, <1>9, <1>12 DEF Kept
  <2> QED BY <2>1, <2>2, Stays
<1> QED BY <1>2, <1>4, <1>10, <1>11, <1>15, <1>16, <1>17, <1>18, <1>19, Together DEF w

\* terminate of an end that waits for the delimiter and goes on waiting.
LEMMA WaitsOnKeeps ==
  ASSUME PipeInv, NEW e \in Ends, NEW delay \in BOOLEAN, Terminate(e, delay), delay,
         pipe[e].state = "waiting_for_delimiter"
  PROVE  PipeInv'
<1> DEFINE w == Peer(e)
           o == pipe[e].out
           q == upipe[o]
           r == Flushed(Delimited(q))
           m == [type |-> "activate_read"]
<1>1. w \in Ends /\ e # w /\ Peer(w) = e /\ \A x \in Ends : x = e \/ x = w BY PeerEnd
<1>2. Types /\ ~aborted BY DEF PipeInv
<1>3. pipe \in [Ends -> Pipes] BY <1>2 DEF Types, Pipes
<1>4. /\ pipe' = [pipe EXCEPT ![e].outActive = FALSE, ![e].delay = delay, ![e].state = @]
      /\ upipe' = [upipe EXCEPT ![o] = r] /\ UNCHANGED aborted
      /\ cmds' = To(e, << >> \o WakeUp(Delimited(q)))
  BY DEF Terminate, Out
<1>5. /\ Handshake(pipe[e].state, pipe[w].state, cmds[e], o)
      /\ Handshake(pipe[w].state, pipe[e].state, cmds[w], pipe[w].out)
      /\ Reported(cmds[e], pipe[w].msgsRead) /\ Reported(cmds[w], pipe[e].msgsRead)
  BY View
<1>6. pipe[w].state = "term_req_sent1" /\ o # Nobody /\ Alive(e)
  BY <1>5 DEF Handshake, Meets, Alive
<1>7. cmds[e] \in Seq(Commands) /\ cmds[w] \in Seq(Commands) /\ pipe[e].msgsRead \in Nat
  BY <1>1, <1>2, EndFields
<1>8. /\ o \in Upipes /\ q \in Queues(Parts) /\ Formed(q) /\ q # Nobody
      /\ \A x \in Ends : ~Brings(cmds[x], o)
  BY <1>6, Apart DEF Out
<1>9. r \in Queues(Parts) /\ Formed(r) /\ Queued(r) = Queued(q) BY <1>8, DelimitedQueue
<1>10. m \in Commands /\ m.type = "activate_read" BY CommandFacts
<1>11. << >> \o WakeUp(Delimited(q)) = WakeUp(Delimited(q))
  <2>1. WakeUp(Delimited(q)) = << >> \/ WakeUp(Delimited(q)) = <<m>> BY DEF WakeUp
  <2> HIDE DEF m
  <2>2. << >> \o << >> = << >> /\ << >> \o <<m>> = <<m>> OBVIOUS
  <2> QED BY <2>1, <2>2
<1>12. cmds[w] \o WakeUp(Delimited(q)) \in {cmds[w], Append(cmds[w], m)} BY <1>7, WakeUpSent
<1>13. cmds' = To(e, WakeUp(Delimited(q))) BY <1>4, <1>11
<1> HIDE DEF w, m, r, q
<1>14. /\ cmds'[e] = cmds[e] /\ cmds'[w] = cmds[w] \o WakeUp(Delimited(q))
       /\ cmds[w] \o WakeUp(Delimited(q)) \in Seq(Commands) => cmds' \in [Ends -> Seq(Commands)]
  <2>1. w = Peer(e) BY DEF w
  <2> QED BY ONLY <1>2, <1>13, <2>1, SentTo, e \in Ends
<1>15. /\ cmds'[w] \in Seq(Commands) /\ Alike(cmds[w], cmds'[w])
       /\ Handshake(pipe[w].state, pipe[e].state, cmds'[w], pipe[w].out)
       /\ Reported(cmds'[w], pipe[e].msgsRead)
  <2>1. w = Peer(e) /\ cmds'[w] \in {cmds[w], Append(cmds[w], m)} BY <1>12, <1>14 DEF w
  <2>2. pipe[e].msgsRead <= pipe[e].msgsRead /\ m.type # "activate_write" BY <1>7, <1>10
  <2> QED BY <1>6, <1>7, <1>10, <2>1, <2>2, Wakes
<1>16. /\ upipe' \in [Upipes -> Queues(Parts) \cup {Nobody}]
       /\ upipe'[o] = r /\ \A v \in Upipes : v # o => upipe'[v] = upipe[v]
  BY <1>2, <1>4, <1>8, <1>9, ReplacedQueue
<1>17. pipe' \in [Ends -> Pipes]
  <2> DEFINE p == [pipe[e] EXCEPT !.outActive = FALSE, !.delay = delay]
  <2>1. pipe[e] \in Pipes BY <1>3
  <2>2. p \in Pipes BY <2>1 DEF Pipes
  <2>3. pipe' = [pipe EXCEPT ![e] = p] BY <1>3, <1>4, <2>1 DEF Pipes
  <2> HIDE DEF p
  <2> QED BY <1>3, <2>2, <2>3
<1>18. Untouched(e) /\ Untouched(w) BY <1>1, <1>3, <1>4 DEF Pipes, Untouched
<1>19. Types' BY <1>2, <1>4, <1>14, <1>15, <1>16, <1>17, TypesNext DEF Types
<1>20. Chained' /\ Owned' /\ Contents' /\ Fresh'
  <2>1. \A x \in Ends : /\ Alike(cmds[x], cmds'[x])
                        /\ pipe'[x].in = pipe[x].in /\ pipe'[x].out = pipe[x].out
                        /\ Alive(x)' <=> Alive(x)
    BY <1>1, <1>7, <1>14, <1>15, <1>18, AlikeSame DEF Alive, Untouched
  <2>2. \A v \in Upipes : Kept(v) BY <1>8, <1>9, <1>16 DEF Kept, q
  <2> QED BY <2>1, <2>2, Stays
<1>21. /\ pipe[e].peersMsgsRead <= pipe[w].msgsRead
       /\ pipe[w].peersMsgsRead <= pipe[e].msgsRead
  BY View DEF Flow, w
<1>22. FlowFrom(e)'
  <2>1. Queued(Out(e)') = Queued(Out(e)) BY <1>9, <1>16, <1>18 DEF Out, Untouched, q
  <2> QED BY <1>5, <1>6, <1>14, <1>18, <1>21, <2>1, FlowStill DEF Untouched, w
<1>23. FlowFrom(w)'
  <2>1. /\ pipe[w].out # Nobody => upipe'[pipe[w].out] = Out(w)
        /\ upipe'[pipe[e].in] = In(e)
    BY <1>6, <1>16, WriterApart DEF w
  <2>2. /\ pipe[w].out # Nobody => Out(w)' = Out(w)
        /\ In(e)' = In(e)
    BY <2>1, <1>18 DEF Out, In, Untouched
  <2>3. Similar(In(e), In(e)) BY DEF Similar
  <2> QED BY <1>1, <1>6, <1>15, <1>18, <1>21, <2>2, <2>3, FlowStill DEF Untouched
<1>24. Handshake(pipe[e].state, pipe[w].state, cmds'[e], pipe[e].out) BY <1>5, <1>14
<1> QED BY <1>2, <1>4, <1>15, <1>18, <1>19, <1>20, <1>22, <1>23, <1>24, Together
        DEF w, Untouched

\* terminate of an end that waits for the delimiter and is told to drop it.
LEMMA DropsKeeps ==
  ASSUME PipeInv, NEW e \in Ends, NEW delay \in BOOLEAN, Terminate(e, delay), ~delay,
         pipe[e].state = "waiting_for_delimiter"
  PROVE  PipeInv'
<1> DEFINE w == Peer(e)
           o == pipe[e].out
           b == RolledBack(upipe[o])
<1>1. w \in Ends /\ e # w BY PeerEnd
<1>2. Types BY DEF PipeInv
<1>3. pipe \in [Ends -> Pipes] BY <1>2 DEF Types, Pipes
<1>4. /\ pipe' = [pipe EXCEPT ![e].delay = delay, ![e].outActive = FALSE,
                              ![e].out = Nobody, ![e].state = "term_ack_sent"]
      /\ upipe' = [upipe EXCEPT ![o] = b] /\ cmds' = To(e, Ack) /\ UNCHANGED aborted
  BY DEF Terminate
<1>5. o # Nobody /\ Alive(e)
  <2>1. Handshake(pipe[e].state, pipe[w].state, cmds[e], o) BY View
  <2> QED BY <2>1 DEF Handshake, Alive
<1>6. /\ o \in Upipes /\ upipe[o] \in Queues(Parts) /\ Formed(upipe[o]) /\ upipe[o] # Nobody
      /\ \A x \in Ends : ~Brings(cmds[x], o)
  BY <1>5, Apart DEF Out
<1>7. b \in Queues(Parts) /\ Formed(b) BY <1>6, RolledBackQueue
<1> HIDE DEF w, b
<1>8. /\ upipe' \in [Upipes -> Queues(Parts) \cup {Nobody}]
      /\ upipe'[o] = b /\ \A v \in Upipes : v # o => upipe'[v] = upipe[v]
  BY <1>2, <1>4, <1>6, <1>7, ReplacedQueue
<1>9. \A v \in Upipes : Kept(v) BY <1>6, <1>7, <1>8 DEF Kept
<1>10. pipe' \in [Ends -> Pipes]
  <2> DEFINE p == [pipe[e] EXCEPT !.delay = delay, !.outActive = FALSE,
                                  !.out = Nobody, !.state = "term_ack_sent"]
  <2>1. pipe[e] \in Pipes /\ "term_ack_sent" \in States BY <1>3 DEF States
  <2>2. p \in Pipes BY <2>1 DEF Pipes
  <2>3. pipe' = [pipe EXCEPT ![e] = p] BY <1>3, <1>4
  <2> HIDE DEF p
  <2> QED BY <1>3, <2>2, <2>3
<1>11. /\ pipe'[w] = pipe[w] /\ pipe'[e].state = "term_ack_sent"
       /\ pipe'[e].in = pipe[e].in /\ pipe'[e].out = Nobody
       /\ pipe'[e].msgsRead = pipe[e].msgsRead
       /\ pipe'[e].msgsWritten = pipe[e].msgsWritten
       /\ pipe'[e].peersMsgsRead = pipe[e].peersMsgsRead
  BY <1>1, <1>3, <1>4 DEF Pipes
<1>12. pipe[w].out # Nobody => Queued(Out(w)') = Queued(Out(w))
  <2>1. pipe[w].out # Nobody => upipe'[pipe[w].out] = Out(w)
    BY <1>5, <1>8, WriterApart DEF w
  <2> QED BY <1>11, <2>1 DEF Out
<1> QED BY <1>4, <1>8, <1>9, <1>10, <1>11, <1>12, AcknowledgesKeeps DEF w

\* terminate.
LEMMA TerminateKeeps ==
  ASSUME PipeInv, NEW e \in Ends, NEW delay \in BOOLEAN, Terminate(e, delay)
  PROVE  PipeInv'
<1>1. CASE pipe[e].state \in {"active", "delimiter_received"} BY <1>1, AsksKeeps
<1>2. CASE pipe[e].state = "waiting_for_delimiter" /\ delay BY <1>2, WaitsOnKeeps
<1>3. CASE pipe[e].state = "waiting_for_delimiter" /\ ~delay BY <1>3, DropsKeeps
<1> QED BY <1>1, <1>2, <1>3 DEF Terminate
-----------------------------------------------------------------------------
(* The theorems.                                                             *)

\* pipepair.
LEMMA InitPipeInv ==
  ASSUME Init
  PROVE  PipeInv
<1>1. PICK delay \in [Ends -> BOOLEAN] :
         pipe = [e \in Ends |->
            [state |-> "active", delay |-> delay[e], in |-> e, out |-> Peer(e),
             inActive |-> TRUE, outActive |-> TRUE,
             msgsRead |-> 0, msgsWritten |-> 0, peersMsgsRead |-> 0]]
  BY DEF Init
<1>2. /\ upipe = [u \in Upipes |-> IF u \in Ends THEN EmptyQueue ELSE Nobody]
      /\ cmds = [e \in Ends |-> << >>] /\ aborted = FALSE
  BY DEF Init
<1>3. /\ Ends \subseteq Upipes /\ Nobody \notin Upipes /\ Hwm \in [Ends -> Nat]
      /\ 0 \in 0 .. Word - 1
  <2>1. MaxMessages[1] \in 0 .. Word - 1 /\ Word \in Nat BY PipeAssumption DEF Ends
  <2> QED BY <2>1, PipeAssumption
<1>4. /\ EmptyQueue \in Queues(Parts) /\ Formed(EmptyQueue) /\ Empty(EmptyQueue)
      /\ EmptyQueue # Nobody /\ Queued(EmptyQueue) = 0 /\ ~Delimits(EmptyQueue)
  BY EmptyOne, PipeAssumption
<1>5. \A e \in Ends : /\ Peer(e) \in Ends /\ Peer(e) # e /\ Peer(Peer(e)) = e
                      /\ \A x \in Ends : x = e \/ x = Peer(e)
  BY PeerEnd
<1>6. \A e \in Ends : /\ pipe[e].state = "active" /\ pipe[e].in = e /\ pipe[e].out = Peer(e)
                      /\ pipe[e].msgsRead = 0 /\ pipe[e].msgsWritten = 0
                      /\ pipe[e].peersMsgsRead = 0 /\ cmds[e] = << >>
  BY <1>1, <1>2
<1>7. \A u \in Upipes : /\ u \in Ends => upipe[u] = EmptyQueue
                        /\ u \notin Ends => upipe[u] = Nobody
  BY <1>2
<1>8. Types
  <2>1. pipe \in [Ends -> Pipes]
    <3>1. ASSUME NEW e \in Ends
          PROVE  [state |-> "active", delay |-> delay[e], in |-> e, out |-> Peer(e),
                  inActive |-> TRUE, outActive |-> TRUE,
                  msgsRead |-> 0, msgsWritten |-> 0, peersMsgsRead |-> 0] \in Pipes
      <4>1. /\ delay[e] \in BOOLEAN /\ e \in Upipes /\ Peer(e) \in Upipes
            /\ "active" \in States
        BY <1>3, <1>5 DEF States
      <4> QED BY <1>3, <4>1 DEF Pipes
    <3> QED BY <1>1, <3>1
  <2>2. upipe \in [Upipes -> Queues(Parts) \cup {Nobody}] BY <1>2, <1>4
  <2>3. cmds \in [Ends -> Seq(Commands)]
    <3>1. << >> \in Seq(Commands) OBVIOUS
    <3> QED BY <1>2, <3>1
  <2> QED BY <1>2, <2>1, <2>2, <2>3 DEF Types, Pipes
<1>9. Protocol
  <2>1. ASSUME NEW e \in Ends PROVE Handshake("active", "active", << >>, Peer(e))
    <3>1. Peer(e) # Nobody BY <1>3, <1>5
    <3> QED BY <3>1, NothingSent DEF Handshake, Meets, Due, AckDue
  <2> QED BY <1>5, <1>6, <2>1 DEF Protocol
<1>10. Chained BY <1>5, <1>6, NothingSent DEF Chained
<1>11. Owned
  <2>1. ASSUME NEW e \in Ends, NEW u PROVE Owns(e, u) <=> u = e
    <3>1. ~Brings(cmds[Peer(e)], u) BY <1>5, <1>6, NothingSent
    <3> QED BY <1>5, <1>6, <3>1 DEF Owns, Alive
  <2> QED BY <1>4, <1>5, <1>7, <2>1 DEF Owned
<1>12. Contents BY <1>4, <1>7 DEF Contents
<1>13. Fresh BY <1>6, NothingSent DEF Fresh
<1>14. Flows
  <2>1. ASSUME NEW e \in Ends PROVE FlowFrom(e)
    <3>1. Out(e) = EmptyQueue /\ In(Peer(e)) = EmptyQueue BY <1>3, <1>5, <1>6, <1>7 DEF Out, In
    <3>2. Hwm[e] \in Nat BY <1>3
    <3>3. Flow("active", "active", Peer(e), Peer(e), EmptyQueue, EmptyQueue, 0, 0, 0,
               << >>, Hwm[e])
      BY <1>4, <3>2, NothingSent DEF Flow, Sees
    <3> QED BY <1>5, <1>6, <3>1, <3>3 DEF FlowFrom
  <2> QED BY <2>1 DEF Flows
<1> QED BY <1>2, <1>8, <1>9, <1>10, <1>11, <1>12, <1>13, <1>14 DEF PipeInv

\* The invariant is inductive.
LEMMA NextPipeInv ==
  ASSUME PipeInv, [Next]_vars
  PROVE  PipeInv'
<1>1. CASE UNCHANGED vars BY <1>1, StutterKeeps
<1>2. ASSUME NEW e \in Ends, NEW part \in Writes[e], Write(e, part) PROVE PipeInv'
  <2>1. part \in {"more", "last"} BY PipeAssumption DEF Parts
  <2> QED BY <1>2, <2>1, WriteKeeps
<1>3. ASSUME NEW e \in Ends, WriteFull(e) \/ Rollback(e) \/ Flush(e) PROVE PipeInv'
  BY <1>3, WriteFullKeeps, RollbackKeeps, FlushKeeps
<1>4. ASSUME NEW e \in Ends, Read(e) PROVE PipeInv'
  BY <1>4, ReadNothingKeeps, ReadPartKeeps, ReadDelimiterKeeps DEF Read
<1>5. ASSUME NEW e \in Ends, Command(e) PROVE PipeInv'
  BY <1>5, ActivateReadKeeps, ActivateWriteKeeps, ProcessHiccupKeeps, PipeTermKeeps,
     PipeTermAckKeeps DEF Command
<1>6. ASSUME NEW e \in Ends, Hiccup(e) PROVE PipeInv' BY <1>6, HiccupKeeps
<1>7. ASSUME NEW e \in Ends, NEW delay \in BOOLEAN, Terminate(e, delay) PROVE PipeInv'
  BY <1>7, TerminateKeeps
<1> QED BY <1>1, <1>2, <1>3, <1>4, <1>5, <1>6, <1>7 DEF Next

\* The handshake of the two ends, the way of the queues between them and the
\* balance of the messages hold for good, whatever the limits are, however many
\* messages and hiccups there are, and in whatever order the ends terminate.
THEOREM PipeInvariant == Spec => []PipeInv
<1>1. Init => PipeInv BY InitPipeInv
<1>2. PipeInv /\ [Next]_vars => PipeInv' BY NextPipeInv
<1> QED BY <1>1, <1>2, PTL DEF Spec

\* Type correctness of the two pipe_t objects, their queues and their commands.
THEOREM PipeTypeCorrect == Spec => []TypeOK
<1>1. PipeInv => TypeOK BY DEF PipeInv, Types, TypeOK, Commands
<1> QED BY <1>1, PipeInvariant, PTL

\* No assertion of rollback and of the handlers of pipe.cpp fails.
THEOREM PipeNeverAborts == Spec => []NoAbort
<1>1. PipeInv => NoAbort BY DEF PipeInv, NoAbort
<1> QED BY <1>1, PipeInvariant, PTL

\* Every queue is deleted once and by the end that has it last, and no command
\* reaches an end that has deleted itself.
THEOREM PipeNothingDangles == Spec => []NothingDangles
<1>1. ASSUME PipeInv PROVE NothingDangles
  <2>1. Types /\ Owned BY <1>1 DEF PipeInv
  <2>2. \A e \in Ends : Peer(e) \in Ends BY PeerEnd
  <2>3. ASSUME NEW e \in Ends
        PROVE  /\ ~Alive(e) => cmds[e] = << >> /\ pipe[e].out = Nobody
               /\ Alive(e) => In(e) # Nobody
               /\ pipe[e].out # Nobody => Out(e) # Nobody
    <3>1. Handshake(pipe[e].state, pipe[Peer(e)].state, cmds[e], pipe[e].out) BY <1>1, View
    <3>2. ~Alive(e) => cmds[e] = << >> /\ pipe[e].out = Nobody BY <3>1 DEF Alive, Handshake
    <3>3. /\ Alive(e) => In(e) # Nobody
          /\ pipe[e].out # Nobody => Out(e) # Nobody
      BY <1>1, Apart
    <3> QED BY <3>2, <3>3
  <2>4. ASSUME \A e \in Ends : ~Alive(e), NEW u \in Upipes PROVE upipe[u] = Nobody
    <3>1. \A e \in Ends : cmds[e] = << >> /\ pipe[e].out = Nobody BY <2>3, <2>4
    <3>2. u # Nobody BY PipeAssumption
    <3>3. \A e \in Ends : ~Owns(e, u) BY <2>2, <2>4, <3>1, <3>2, NothingSent DEF Owns
    <3>4. 1 \in Ends BY DEF Ends
    <3> QED BY <2>1, <2>2, <3>3, <3>4 DEF Owned
  <2> QED BY <2>3, <2>4 DEF NothingDangles
<1> QED BY <1>1, PipeInvariant, PTL

\* check_hwm keeps the messages in a queue within the limit of the writer,
\* though it looks at the count of messages read that it was told last, and
\* though a hiccup takes messages back.
THEOREM PipeWithinHwm == Spec => []WithinHwm
<1>1. ASSUME PipeInv PROVE WithinHwm
  <2>1. ASSUME NEW e \in Ends, pipe[e].out # Nobody, Hwm[e] > 0 PROVE Queued(Out(e)) <= Hwm[e]
    <3>1. Flow(pipe[e].state, pipe[Peer(e)].state, pipe[e].out, pipe[Peer(e)].in, Out(e),
               In(Peer(e)), pipe[e].msgsWritten, pipe[Peer(e)].msgsRead, pipe[e].peersMsgsRead,
               cmds[e], Hwm[e])
      BY <1>1, View
    <3> QED BY <2>1, <3>1 DEF Flow
  <2> QED BY <2>1 DEF WithinHwm, Queued
<1> QED BY <1>1, PipeInvariant, PTL

\* The only ways into term_ack_sent: process_delimiter, process_pipe_term and a
\* call of terminate without the delay.
LEMMA WaysOut ==
  ASSUME PipeInv, Next, NEW e \in Ends,
         pipe[e].state # "term_ack_sent", pipe'[e].state = "term_ack_sent"
  PROVE  \/ ReadDelimiter(e) \/ PipeTerm(e)
         \/ \E delay \in BOOLEAN : Terminate(e, delay)
<1>1. Types BY DEF PipeInv
<1>2. pipe \in [Ends -> Pipes] BY <1>1 DEF Types, Pipes
<1>3. PICK x \in Ends : \/ \E part \in Writes[x] : Write(x, part)
                        \/ WriteFull(x) \/ Rollback(x) \/ Flush(x)
                        \/ Read(x) \/ Command(x) \/ Hiccup(x)
                        \/ \E delay \in BOOLEAN : Terminate(x, delay)
  BY DEF Next
<1>4. CASE \E part \in Writes[x] : Write(x, part) BY <1>2, <1>4 DEF Write, Pipes
<1>5. CASE WriteFull(x) \/ Rollback(x) \/ Flush(x)
  BY <1>2, <1>5 DEF WriteFull, Rollback, Flush, Pipes
<1>6. CASE ReadNothing(x) \/ ReadPart(x)
  <2>1. PICK v : pipe' = [pipe EXCEPT ![x].inActive = v] \/ pipe' = [pipe EXCEPT ![x].msgsRead = v]
    BY <1>6 DEF ReadNothing, ReadPart
  <2> QED BY <1>2, <2>1 DEF Pipes
<1>7. CASE ActivateRead(x) \/ ActivateWrite(x)
  <2>1. CASE ActivateRead(x)
    <3>1. PICK v : pipe' = [pipe EXCEPT ![x].inActive = v] BY <2>1 DEF ActivateRead
    <3> QED BY <1>2, <3>1 DEF Pipes
  <2>2. CASE ActivateWrite(x)
    <3>1. PICK n, v : pipe' = [pipe EXCEPT ![x].peersMsgsRead = n, ![x].outActive = v]
      BY <2>2 DEF ActivateWrite
    <3> QED BY <1>2, <3>1 DEF Pipes
  <2> QED BY <1>7, <2>1, <2>2
<1>8. CASE ProcessHiccup(x)
  <2>1. CASE pipe[x].out = Nobody BY <1>8, <2>1 DEF ProcessHiccup
  <2>2. CASE pipe[x].out # Nobody
    <3>1. PICK n, o : pipe' = [pipe EXCEPT ![x].msgsWritten = n, ![x].out = o,
                                           ![x].outActive = TRUE]
      BY <1>8, <2>2 DEF ProcessHiccup
    <3> QED BY <1>2, <3>1 DEF Pipes
  <2> QED BY <2>1, <2>2
<1>9. CASE PipeTermAck(x) BY <1>2, <1>9 DEF PipeTermAck, Pipes
<1>10. CASE Hiccup(x) BY <1>2, <1>10 DEF Hiccup, Pipes
<1>11. ASSUME ReadDelimiter(x), x # e PROVE FALSE
  BY <1>2, <1>11 DEF ReadDelimiter, Pipes
<1>12. ASSUME PipeTerm(x), x # e PROVE FALSE BY <1>2, <1>12 DEF PipeTerm, Pipes
<1>13. ASSUME NEW delay \in BOOLEAN, Terminate(x, delay), x # e PROVE FALSE
  BY <1>2, <1>13 DEF Terminate, Pipes
<1> QED BY <1>3, <1>4, <1>5, <1>6, <1>7, <1>8, <1>9, <1>10, <1>11, <1>12, <1>13
        DEF Read, Command

\* The last part an end reads before it acknowledges is the delimiter, and that
\* is behind every message its peer has written.
LEMMA NothingLeft ==
  ASSUME PipeInv, Next, NEW e \in Ends,
         pipe[e].state # "term_ack_sent", pipe'[e].state = "term_ack_sent", pipe'[e].delay
  PROVE  pipe'[e].msgsRead = pipe'[Peer(e)].msgsWritten
<1> DEFINE w == Peer(e)
<1>1. w \in Ends /\ e # w BY PeerEnd
<1>2. Types BY DEF PipeInv
<1>3. pipe \in [Ends -> Pipes] BY <1>2 DEF Types, Pipes
<1>4. Flow(pipe[w].state, pipe[e].state, pipe[w].out, pipe[e].in, Out(w), In(e),
           pipe[w].msgsWritten, pipe[e].msgsRead, pipe[w].peersMsgsRead, cmds[w], Hwm[w])
  BY View
<1> HIDE DEF w
<1>5. pipe[e].msgsRead \in Nat /\ pipe[w].msgsWritten \in 0 .. Word - 1 /\ Word \in Nat
  BY <1>1, <1>2, EndFields, PipeAssumption
<1>6. CASE ReadDelimiter(e)
  <2>1. /\ MayRead(e) /\ CanRead(In(e)) /\ Head(In(e).flushed) = "delimiter"
    BY <1>6 DEF ReadDelimiter
  <2>2. In(e) \in Queues(Parts) /\ Formed(In(e)) BY <2>1, Apart
  <2>3. Sees(pipe[e].state, In(e)) /\ (Closed(In(e)) => Queued(In(e)) = 0)
    BY <2>1, <2>2, DelimiterNext DEF MayRead
  <2>4. Closed(In(e)) /\ pipe[w].msgsWritten = pipe[e].msgsRead + Queued(In(e))
    BY <1>4, <2>3 DEF Flow
  <2>5. pipe[w].msgsWritten = pipe[e].msgsRead BY <1>5, <2>3, <2>4
  <2>6. pipe'[w] = pipe[w] /\ pipe'[e].msgsRead = pipe[e].msgsRead
    BY <1>1, <1>3, <1>6 DEF ReadDelimiter, Pipes
  <2> QED BY <2>5, <2>6 DEF w
<1>7. CASE PipeTerm(e)
  <2>1. ~Waits(e) BY <1>3, <1>7 DEF PipeTerm, Pipes
  <2>2. pipe' = [pipe EXCEPT ![e].out = Nobody,
                   ![e].state = IF @ = "term_req_sent1" THEN "term_req_sent2"
                                ELSE "term_ack_sent"]
    BY <1>7, <2>1 DEF PipeTerm
  <2>3. /\ pipe'[w] = pipe[w] /\ pipe'[e].msgsRead = pipe[e].msgsRead
        /\ pipe'[e].delay = pipe[e].delay /\ pipe[e].state # "term_req_sent1"
    BY <1>1, <1>3, <2>2 DEF Pipes
  <2>4. pipe[e].state # "active" BY <2>1, <2>3 DEF Waits
  <2>5. pipe[e].state \in {"active", "delimiter_received", "term_req_sent1"}
    <3>1. aborted' = (aborted \/ pipe[e].state \notin {"active", "delimiter_received",
                                                     "term_req_sent1"})
      BY <1>7 DEF PipeTerm
    <3>2. ~aborted' BY NextPipeInv DEF PipeInv
    <3> QED BY <3>1, <3>2
  <2>6. pipe[w].msgsWritten = pipe[e].msgsRead BY <1>4, <2>3, <2>4, <2>5 DEF Flow
  <2> QED BY <2>3, <2>6 DEF w
<1>8. ASSUME NEW delay \in BOOLEAN, Terminate(e, delay) PROVE FALSE
  BY <1>3, <1>8 DEF Terminate, Pipes
<1> QED BY <1>6, <1>7, <1>8, WaysOut

\* A pipe that terminates because its peer has asked it to, without having been
\* told to drop what is pending, has read every message that the peer has
\* written (and that no hiccup has dropped).
THEOREM PipeNothingLeftBehind == Spec => NothingLeftBehind
<1>1. ASSUME PipeInv, [Next]_vars
      PROVE  [\A e \in Ends :
                /\ pipe[e].state # "term_ack_sent" /\ pipe'[e].state = "term_ack_sent"
                /\ pipe'[e].delay
                => pipe'[e].msgsRead = pipe'[Peer(e)].msgsWritten]_vars
  BY <1>1, NothingLeft
<1> QED BY <1>1, PipeInvariant, PTL DEF Spec, NothingLeftBehind
=============================================================================
