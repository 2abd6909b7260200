------------------------------- MODULE Router -------------------------------
(***************************************************************************)
(* A ROUTER socket with the options ComuFrame leaves it (router.cpp,       *)
(* fq.cpp and the routing table of socket_base.cpp, all in                 *)
(* ExternalLib/libzmq/src): it names its peers by their routing ids, reads *)
(* them in turn, puts the id in front of what it returns, and sends where  *)
(* the first part of a message says.  Each peer is the session of one      *)
(* connection, in a thread of its own: it writes its routing id, then      *)
(* messages, and closes.  Of the pipe in between (Pipe) the model keeps    *)
(* what the socket can tell: its inbound queue, whether it is worth        *)
(* reading or writing, and how far its termination is.                     *)
(***************************************************************************)
EXTENDS FlushQueue, PipeList, FiniteSets

CONSTANTS Pipes,       \* the connections
          Named,       \* the pipes whose peers chose the routing id Name
          Name,        \* that id; the other peers have one made for them
          Closing,     \* the pipes whose peers may close the connection
          Busy,        \* the pipes whose peers never stop sending
          PartsOf,     \* how many parts the messages of each peer have, 0: it sends none
          SendTo,      \* the routing ids the application sends to
          SendParts,   \* how many parts follow the id
          Queue,       \* bound: messages in an inbound queue
          Numbers,     \* bound: messages are numbered 0 .. Numbers - 1 and again
          NoPipe       \* NULL

\* An id made by _next_integral_routing_id++ is different from every other.
Ids == Pipes \cup {Name}
IdOf(p) == IF p \in Named THEN Name ELSE p

ASSUME RouterAssumption ==
    /\ IsFiniteSet(Pipes)
    /\ {Named, Closing, Busy} \subseteq SUBSET Pipes
    /\ Name \notin Pipes /\ NoPipe \notin Ids /\ SendTo \subseteq Ids
    /\ PartsOf \in [Pipes -> Nat]
    /\ SendParts \in Nat
    /\ Queue \in Nat \ {0} /\ Numbers \in Nat /\ Numbers > Queue

Part(p, n, i) == [from |-> p, number |-> n, part |-> i, more |-> i < PartsOf[p]]
RoutingId == [from |-> NoPipe, number |-> 0, part |-> 0, more |-> FALSE]
Delimiter == [from |-> NoPipe, number |-> 0, part |-> 1, more |-> FALSE]
Message(p, n) == [i \in 1 .. PartsOf[p] |-> Part(p, n, i)]
InParts == {RoutingId, Delimiter}
             \cup UNION {{Part(p, n, i) : i \in 1 .. PartsOf[p]} :
                         n \in 0 .. Numbers - 1, p \in Pipes}

VARIABLES
  peer,       \* how far each session is, and the number of its next message
  cmds,       \* the commands of each session on their way to the socket
  inbox,      \* the inbound queues
  pipe,       \* the socket's ends of the pipes
  anonymous,  \* _anonymous_pipes
  outPipes,   \* _out_pipes: routing id -> pipe, and whether it can be written
  fq,         \* _fq
  call,       \* the call of the application that is inside fq_t::recvpipe
  prefetched, \* _prefetched, _prefetched_id, _prefetched_msg, _routing_id_sent
  moreIn,     \* _more_in
  currentOut, \* _current_out
  moreOut,    \* _more_out
  sending,    \* what the application sends: the id, and how many parts so far
  got,        \* the frames the application has received of a message
  due,        \* the number of the next message of each peer
  aborted     \* a zmq_assert has failed

peers == <<peer, cmds>>
table == <<anonymous, outPipes>>
input == <<call, prefetched, moreIn, got, due>>
output == <<currentOut, moreOut, sending>>
vars == <<peers, inbox, pipe, table, fq, input, output, aborted>>

NotSending == [to |-> NoPipe, parts |-> 0]
NothingPrefetched == [held |-> FALSE, idSent |-> FALSE, id |-> NoPipe, msg |-> RoutingId]

Init ==
    /\ peer = [p \in Pipes |-> [phase |-> "connected", next |-> 0]]
    /\ cmds = [p \in Pipes |-> <<"bind">>]
    /\ inbox = [p \in Pipes |-> EmptyQueue]
    /\ pipe = [p \in Pipes |-> [state |-> "active", inActive |-> TRUE, outActive |-> TRUE,
                                full |-> FALSE, unflushed |-> 0, id |-> NoPipe]]
    /\ anonymous = {} /\ outPipes = << >>
    /\ fq = EmptyList
    /\ call = "none" /\ prefetched = NothingPrefetched /\ moreIn = FALSE
    /\ currentOut = NoPipe /\ moreOut = FALSE
    /\ sending = NotSending
    /\ got = << >> /\ due = [p \in Pipes |-> 0]
    /\ aborted = FALSE
-----------------------------------------------------------------------------
(* The sessions.                                                           *)

\* A session writes parts and flushes them as one, and wakes the socket up
\* when it sleeps; "before" is the command that goes ahead.
Pushes(p, before, parts) ==
    LET q == [inbox[p] EXCEPT !.unflushed = parts, !.complete = Len(parts)] IN
    /\ inbox' = [inbox EXCEPT ![p] = Flushed(q)]
    /\ cmds' = [cmds EXCEPT ![p] =
         @ \o before \o IF FlushWakes(q) THEN <<"activate_read">> ELSE << >>]
    /\ UNCHANGED <<pipe, table, fq, input, output, aborted>>

\* mechanism_ready: the peer's routing id, after the bind command.
Identify(p) ==
    /\ peer[p].phase = "connected"
    /\ peer' = [peer EXCEPT ![p].phase = "identified"]
    /\ Pushes(p, << >>, <<RoutingId>>)

Arrive(p) ==
    /\ peer[p].phase = "identified" /\ PartsOf[p] > 0
    /\ p \in Busy \/ peer[p].next < Numbers - 1
    /\ Len(inbox[p].flushed) <= (Queue - 1) * PartsOf[p]
    /\ Pushes(p, << >>, Message(p, peer[p].next))
    /\ peer' = [peer EXCEPT ![p].next = (@ + 1) % Numbers]

\* The connection is gone: pipe_t::terminate in the session.
Close(p) ==
    /\ p \in Closing /\ peer[p].phase = "identified"
    /\ peer' = [peer EXCEPT ![p].phase = "closed"]
    /\ Pushes(p, <<"pipe_term">>, <<Delimiter>>)

Commands(p, command) ==
    /\ cmds' = [cmds EXCEPT ![p] = Append(@, command)]
    /\ UNCHANGED <<inbox, pipe, table, fq, input, output, aborted>>

\* The session has read the message sent to it.
AcknowledgeWrite(p) ==
    /\ peer[p].phase = "identified" /\ pipe[p].full
    /\ \A i \in 1 .. Len(cmds[p]) : cmds[p][i] # "activate_write"
    /\ Commands(p, "activate_write")
    /\ UNCHANGED peer

\* The last message of the termination protocol.
AcknowledgeTerm(p) ==
    /\ peer[p].phase = "closed" /\ pipe[p].state = "term_ack_sent"
    /\ peer' = [peer EXCEPT ![p].phase = "gone"]
    /\ Commands(p, "pipe_term_ack")

Session(p) == \/ Identify(p) \/ Arrive(p) \/ Close(p)
              \/ AcknowledgeWrite(p) \/ AcknowledgeTerm(p)
-----------------------------------------------------------------------------
(* Reading a pipe: pipe_t::read on the socket's end e with the queue q.    *)

Readable(e) == e.inActive /\ e.state \in {"active", "waiting_for_delimiter"}

\* Mutant: a pipe that is told to terminate drops what it has not read.
FetchesWhileActive(e, q) == /\ Readable(e) /\ e.state = "active" /\ CanRead(q)
                            /\ Head(q.flushed) # Delimiter

\* It returns a part.
Fetches(e, q) == Readable(e) /\ CanRead(q) /\ Head(q.flushed) # Delimiter

\* It makes the pipe passive when there is nothing, and takes the pipe on with
\* its termination when it reads the delimiter.
EndAfterRead(e, q) ==
    IF ~Readable(e) \/ Fetches(e, q) THEN e
    ELSE IF ~CanRead(q) THEN [e EXCEPT !.inActive = FALSE]
    ELSE IF e.state = "active" THEN [e EXCEPT !.state = "delimiter_received"]
    ELSE [e EXCEPT !.state = "term_ack_sent", !.unflushed = 0]

QueueAfterRead(e, q) ==
    IF ~Readable(e) THEN q ELSE IF CanRead(q) THEN Popped(q) ELSE CheckedEmpty(q)
-----------------------------------------------------------------------------
(* Commands, handled by the thread of the socket between two calls.        *)

Handles(p, command) ==
    /\ call = "none" /\ ~aborted
    /\ cmds[p] # << >> /\ Head(cmds[p]) = command
    /\ cmds' = [cmds EXCEPT ![p] = Tail(@)]
    /\ UNCHANGED <<peer, input, moreOut, sending>>

\* Mutant: an id that is taken is given to the new pipe as well.
TakenNever(id) == FALSE

\* lookup_out_pipe.
Taken(id) == id \in DOMAIN outPipes

\* add_out_pipe.
add_out_pipe(id, p) ==
    [i \in DOMAIN outPipes \cup {id} |->
       IF i = id THEN [pipe |-> p, active |-> TRUE] ELSE outPipes[i]]

\* identify_peer, on the pipe p that is e when it is called: the first part is
\* the routing id.  A pipe that has none yet, or whose id is taken, is anonymous.
identify_peer(p, e) ==
    LET q == inbox[p]
        part == Head(q.flushed)
        id == IF part = RoutingId THEN IdOf(p) ELSE part
        read == EndAfterRead(e, q)
        queue == QueueAfterRead(e, q)
        found == Fetches(e, q)
    IN IF found /\ ~Taken(id)
       THEN /\ inbox' = [inbox EXCEPT ![p] = queue]
            /\ pipe' = [pipe EXCEPT ![p] = [read EXCEPT !.id = id]]
            /\ outPipes' = add_out_pipe(id, p)
            /\ anonymous' = anonymous \ {p}
            /\ fq' = Attached(fq, p)
       ELSE /\ pipe' = [pipe EXCEPT ![p] = read]
            /\ inbox' = [inbox EXCEPT ![p] = queue]
            /\ anonymous' = anonymous \cup {p}
            /\ UNCHANGED <<outPipes, fq>>

\* xattach_pipe.
xattach_pipe(p) ==
    /\ Handles(p, "bind")
    /\ identify_peer(p, pipe[p])
    /\ UNCHANGED <<currentOut, aborted>>

\* process_activate_read and xread_activated.
xread_activated(p) ==
    LET wakes == ~pipe[p].inActive
                   /\ pipe[p].state \in {"active", "waiting_for_delimiter"}
        woken == [pipe[p] EXCEPT !.inActive = TRUE]
    IN
    /\ Handles(p, "activate_read")
    /\ \/ wakes /\ p \in anonymous /\ identify_peer(p, woken)
       \/ /\ ~(wakes /\ p \in anonymous)
          /\ pipe' = [pipe EXCEPT ![p] = IF wakes THEN woken ELSE @]
          /\ fq' = IF wakes THEN Activated(fq, p) ELSE fq
          /\ UNCHANGED <<inbox, table>>
    /\ UNCHANGED <<currentOut, aborted>>

\* process_activate_write and xwrite_activated, with its two assertions.
xwrite_activated(p) ==
    LET e == pipe[p]
        wakes == ~e.outActive /\ e.state = "active"
        known == Taken(e.id) /\ ~outPipes[e.id].active
    IN
    /\ Handles(p, "activate_write")
    /\ pipe' = [pipe EXCEPT ![p].full = FALSE, ![p].outActive = @ \/ wakes]
    /\ aborted' = (wakes /\ ~known)
    /\ outPipes' = IF wakes /\ known THEN [outPipes EXCEPT ![e.id].active = TRUE]
                   ELSE outPipes
    /\ UNCHANGED <<inbox, anonymous, fq, currentOut>>

\* Mutant: a delimiter that was read before the command is not remembered.
process_pipe_term_forgets(p) ==
    /\ Handles(p, "pipe_term")
    /\ pipe' = [pipe EXCEPT ![p].state =
         IF @ = "active" THEN "waiting_for_delimiter" ELSE @]
    /\ UNCHANGED <<inbox, table, fq, currentOut, aborted>>

\* process_pipe_term.
process_pipe_term(p) ==
    /\ Handles(p, "pipe_term")
    /\ pipe' = [pipe EXCEPT ![p] =
         IF @.state = "active" THEN [@ EXCEPT !.state = "waiting_for_delimiter"]
         ELSE [@ EXCEPT !.state = "term_ack_sent", !.unflushed = 0]]
    /\ UNCHANGED <<inbox, table, fq, currentOut, aborted>>

\* Mutant: the socket goes on writing to the pipe that is gone.
OutAfterTermKept(p) == currentOut

\* A message half sent to the pipe has lost its pipe.
OutAfterTerm(p) == IF currentOut = p THEN NoPipe ELSE currentOut

\* process_pipe_term_ack and xpipe_terminated; an anonymous pipe has no id and
\* is in no list.
xpipe_terminated(p) ==
    /\ Handles(p, "pipe_term_ack")
    /\ pipe' = [pipe EXCEPT ![p].state = "deallocated"]
    /\ anonymous' = anonymous \ {p}
    /\ outPipes' = [i \in DOMAIN outPipes \ {pipe[p].id} |-> outPipes[i]]
    /\ fq' = IF p \in anonymous THEN fq ELSE Terminated(fq, p)
    /\ currentOut' = OutAfterTerm(p)
    /\ UNCHANGED <<inbox, aborted>>

Command(p) == \/ xattach_pipe(p) \/ xread_activated(p) \/ xwrite_activated(p)
              \/ process_pipe_term(p) \/ xpipe_terminated(p)
-----------------------------------------------------------------------------
(* Receiving.                                                              *)

\* The application sends and receives whole messages (multipart_t); in the
\* middle of one it may poll the socket and do nothing else.
BetweenMessages == ~moreOut /\ ~(got # << >> /\ got[Len(got)].more)

\* The application is given a frame; the last one ends the message.
Receives(frame, more) ==
    LET before == IF BetweenMessages THEN << >> ELSE got
    IN /\ got' = Append(before, [frame |-> frame, more |-> more])
       /\ due' = IF more THEN due ELSE [due EXCEPT ![frame.from] = (@ + 1) % Numbers]

\* xrecv with something prefetched: the id first, then the part.
RecvPrefetched ==
    /\ call = "none" /\ ~aborted /\ ~moreOut
    /\ prefetched.held
    /\ IF ~prefetched.idSent
         THEN /\ Receives(prefetched.id, TRUE)
              /\ prefetched' = [prefetched EXCEPT !.idSent = TRUE]
              /\ moreIn' = TRUE
         ELSE /\ Receives(prefetched.msg, prefetched.msg.more)
              /\ prefetched' = NothingPrefetched
              /\ moreIn' = prefetched.msg.more
    /\ UNCHANGED <<peers, inbox, pipe, table, fq, call, output, aborted>>

\* xrecv with nothing prefetched, and xhas_in between two messages, ask the
\* pipes in turn.
Ask(from) ==
    /\ call = "none" /\ ~aborted
    /\ ~prefetched.held
    /\ IF from = "xhas_in" THEN ~moreIn ELSE ~moreOut
    /\ call' = from
    /\ UNCHANGED <<peers, inbox, pipe, table, fq, prefetched, moreIn, got, due, output, aborted>>

\* Mutant: the turn passes on after every part.
FqAfterPartAlways(part) == NextTurn(fq)

\* recvpipe leaves the turn with a pipe until its message has been read.
FqAfterPart(part) == IF part.more THEN [fq EXCEPT !.more = TRUE] ELSE NextTurn(fq)

\* What xrecv does with a part: the first part of a message is kept and the id
\* of the pipe returned instead.  (The loops that skip a repeated routing id
\* are for connections the socket makes itself; this one binds.)
xrecvTakes(p, part) ==
    /\ call = "xrecv"
    /\ \/ /\ moreIn
          /\ Receives(part, part.more)
          /\ moreIn' = part.more
          /\ UNCHANGED prefetched
       \/ /\ ~moreIn
          /\ Receives(pipe[p].id, TRUE)
          /\ prefetched' = [held |-> TRUE, idSent |-> TRUE, id |-> NoPipe, msg |-> part]
          /\ UNCHANGED moreIn
    /\ call' = "none"

\* What xhas_in does with it: the part and the id are kept for xrecv.
xhas_inTakes(p, part) ==
    /\ call = "xhas_in"
    /\ prefetched' = [held |-> TRUE, idSent |-> FALSE, id |-> pipe[p].id, msg |-> part]
    /\ call' = "none"
    /\ UNCHANGED <<moreIn, got, due>>

\* One round of fq_t::recvpipe: the current pipe gives a part or leaves the
\* active ones.
recvpipe ==
    LET p == Current(fq)
        q == inbox[p]
    IN
    /\ call # "none" /\ ~aborted /\ fq.active > 0
    /\ inbox' = [inbox EXCEPT ![p] = QueueAfterRead(pipe[p], q)]
    /\ pipe' = [pipe EXCEPT ![p] = EndAfterRead(pipe[p], q)]
    /\ IF Fetches(pipe[p], q)
         THEN /\ fq' = FqAfterPart(Head(q.flushed))
              /\ \/ xrecvTakes(p, Head(q.flushed))
                 \/ xhas_inTakes(p, Head(q.flushed))
              /\ UNCHANGED aborted
         ELSE /\ fq' = Deactivated(fq)
              /\ aborted' = fq.more
              /\ UNCHANGED input
    /\ UNCHANGED <<peers, table, output>>

\* No pipe is active: EAGAIN.
RecvNothing ==
    /\ call # "none" /\ ~aborted /\ fq.active = 0
    /\ call' = "none"
    /\ UNCHANGED <<peers, inbox, pipe, table, fq, prefetched, moreIn, got, due, output, aborted>>

Recv == RecvPrefetched \/ Ask("xrecv") \/ recvpipe \/ RecvNothing
-----------------------------------------------------------------------------
(* Sending.                                                                *)

\* check_write, with a high water mark of one message.
CanWrite(e) == e.outActive /\ e.state = "active" /\ ~e.full

\* xsend of the first part: the id of the pipe the rest goes to; the application
\* answers what it has received.  A message to
\* nobody, or to a pipe that is full or closed, is dropped.
SendId(id) ==
    /\ call = "none" /\ ~aborted /\ BetweenMessages
    /\ got # << >> /\ got' = << >>
    /\ aborted' = (currentOut # NoPipe)
    /\ moreOut' = TRUE
    /\ sending' = [to |-> id, parts |-> 0]
    /\ IF ~Taken(id)
         THEN UNCHANGED <<currentOut, outPipes, pipe>>
         ELSE LET p == outPipes[id].pipe IN
              IF CanWrite(pipe[p])
                THEN currentOut' = p /\ UNCHANGED <<outPipes, pipe>>
                ELSE /\ currentOut' = NoPipe
                     /\ outPipes' = [outPipes EXCEPT ![id].active = FALSE]
                     /\ pipe' = [pipe EXCEPT ![p].outActive =
                                   @ /\ ~(pipe[p].full /\ pipe[p].state = "active")]
    /\ UNCHANGED <<peers, inbox, anonymous, fq, call, prefetched, moreIn, due>>

\* rollback.
RolledBack(e) == [e EXCEPT !.unflushed = 0]

\* xsend of a later part: it is written to the pipe the id has chosen, and the
\* last one is flushed; a pipe that was closed in between is rolled back.
SendPart ==
    LET more == sending.parts + 1 < SendParts
        p == currentOut
    IN
    /\ call = "none" /\ ~aborted /\ moreOut
    /\ moreOut' = more
    /\ sending' = IF more THEN [sending EXCEPT !.parts = @ + 1] ELSE NotSending
    /\ \/ p = NoPipe /\ UNCHANGED <<currentOut, pipe>>
       \/ /\ p # NoPipe /\ ~CanWrite(pipe[p])
          /\ pipe' = [pipe EXCEPT ![p] = RolledBack(@)]
          /\ currentOut' = NoPipe
       \/ /\ p # NoPipe /\ CanWrite(pipe[p])
          /\ pipe' = [pipe EXCEPT ![p].unflushed = IF more THEN @ + 1 ELSE 0,
                                  ![p].full = ~more]
          /\ currentOut' = IF more THEN p ELSE NoPipe
    /\ UNCHANGED <<peers, inbox, table, fq, input, aborted>>

Send == (\E id \in SendTo : SendId(id)) \/ SendPart

Next == \/ \E p \in Pipes : Session(p) \/ Command(p)
        \/ Recv \/ Ask("xhas_in") \/ Send

\* Fairness: the application ends the messages it sends and goes on receiving,
\* and the socket handles its commands whenever a receive finds nothing, and
\* else every so many receives.
Fairness == /\ WF_vars(SendPart) /\ WF_vars(Recv)
            /\ \A p \in Pipes : SF_vars(Command(p))
            /\ \A p \in Pipes : WF_vars(Identify(p) \/ AcknowledgeTerm(p))

Spec == Init /\ [][Next]_vars /\ Fairness
-----------------------------------------------------------------------------
TypeOK ==
    /\ peer \in [Pipes -> [phase : {"connected", "identified", "closed", "gone"},
                           next : 0 .. Numbers - 1]]
    /\ \A p \in Pipes : inbox[p] \in Queues(InParts) /\ Len(cmds[p]) <= 4
    /\ anonymous \subseteq Pipes
    /\ fq \in PipeLists(Pipes)
    /\ fq.active <= Len(fq.pipes) /\ (fq.current < fq.active \/ fq.current = 0)
    /\ call \in {"none", "xrecv", "xhas_in"}
    /\ currentOut \in Pipes \cup {NoPipe}
    /\ sending \in [to : Ids \cup {NoPipe}, parts : 0 .. SendParts]
    /\ due \in [Pipes -> 0 .. Numbers - 1]

\* The assertions of the socket hold: the rest of a message is there once its
\* first part was read, whatever happens to the connection (fq.cpp:107), a new
\* message starts with no pipe chosen (router.cpp:193), and only a pipe that
\* was found full is told that it can be written (socket_base.cpp:2102).
NoAbort == ~aborted

\* What the application receives is the id of a peer and then, one after the
\* other and nothing in between, the parts of the next message of that peer:
\* whether it asks with xhas_in first or not, whoever comes, goes or sends in
\* the meantime, nothing is lost, repeated, reordered or mixed up.
WholeMessages ==
    got # << >> =>
      LET id == got[1].frame
          parts == [i \in 1 .. Len(got) - 1 |-> got[i + 1].frame]
          p == parts[1].from
          next == IF got[Len(got)].more THEN due[p] ELSE (due[p] + Numbers - 1) % Numbers
      IN Len(got) > 1 => /\ id = IdOf(p)
                         /\ parts = SubSeq(Message(p, next), 1, Len(parts))
                         /\ got[Len(got)].more <=> Len(parts) < PartsOf[p]

\* The routing table and the pipes that are read are the same, each pipe is
\* there under the id its peer announced, and no peer has an id that another
\* one has.  In particular a pipe that was ignored because its id was taken is
\* not looked at again, so that no message is taken for an id.
OneOwner ==
    /\ {outPipes[i].pipe : i \in DOMAIN outPipes} = Listed(fq)
    /\ Listed(fq) \cap anonymous = {} /\ Len(fq.pipes) = Cardinality(Listed(fq))
    /\ \A i \in DOMAIN outPipes : LET p == outPipes[i].pipe IN pipe[p].id = i /\ i = IdOf(p)

\* A pipe with something to read is active, or a command to make it so is on
\* its way: recvpipe gives up no pipe for good, and the turn and the number of
\* active pipes (in TypeOK) stay inside the list.
NothingForgotten ==
  /\ TypeOK
  /\ \A p \in Listed(fq) :
        /\ CanRead(inbox[p]) /\ pipe[p].state \in {"active", "waiting_for_delimiter"} =>
             \/ p \in ActivePipes(fq)
             \/ \E i \in 1 .. Len(cmds[p]) : cmds[p][i] = "activate_read"
        /\ p \in ActivePipes(fq) => pipe[p].inActive

\* A peer is sent whole messages only: the parts in a pipe that were not
\* flushed are all that the application has sent of its message, and they are
\* taken back when the pipe closes first.  The socket writes to no pipe that
\* is gone.
NothingHalfSent ==
    /\ currentOut # NoPipe => /\ moreOut /\ currentOut \in Listed(fq)
                              /\ pipe[currentOut].id = sending.to
    /\ \A p \in Pipes : pipe[p].state = "active" =>
         pipe[p].unflushed = IF p = currentOut THEN sending.parts ELSE 0

\* Nobody starves: the messages that wait in a pipe are read though another
\* peer never stops sending.
Delivered == \A p \in Pipes \ Busy : p \in Listed(fq) ~> inbox[p].flushed = << >>

\* The pipe of a peer that has closed is given back, once what the peer had
\* sent is read, unless the socket ignores it.
ClosedIsGivenBack ==
    \A p \in Closing : (peer[p].phase = "closed" /\ p \in Listed(fq))
                       ~> pipe[p].state = "deallocated"
=============================================================================
