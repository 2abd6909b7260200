------------------------------- MODULE Dealer -------------------------------
(***************************************************************************)
(* The sending half of a DEALER socket: lb_t (ExternalLib/libzmq/src/      *)
(* lb.cpp) as dealer.cpp uses it deals the messages of the application to  *)
(* the pipes of the socket in turn, all parts of a message to one pipe.    *)
(* Pipes are attached, fill up, are disconnected by the application or     *)
(* closed by the peer at any time between two calls, in the middle of a    *)
(* message too.  Of a pipe (Pipe) the model keeps the outbound queue and   *)
(* its termination; its high water mark is one message.  Receiving is the  *)
(* fq_t of Router; here peers send nothing but the delimiter.              *)
(***************************************************************************)
EXTENDS PipeList, FiniteSets

CONSTANTS Pipes,   \* the connections
          Lasting, \* the pipes nobody closes
          Parts,   \* how many parts a message has
          Numbers  \* bound: messages are numbered 0 .. Numbers - 1 and again

ASSUME DealerAssumption == /\ IsFiniteSet(Pipes) /\ Lasting \subseteq Pipes
                           /\ Parts \in Nat \ {0} /\ Numbers \in Nat /\ Numbers > 1

VARIABLES
  lb,       \* _pipes, _active, _current, _more
  dropping, \* _dropping
  call,     \* the loop the socket is in, of sendpipe or of has_out
  pipe,     \* the socket's ends of the pipes
  closed,   \* the pipes whose peers have closed
  app       \* the number and the part the application sends next

vars == <<lb, dropping, call, pipe, closed, app>>

Message(n) == [i \in 1 .. Parts |-> [number |-> n, part |-> i]]

NewPipe == [state |-> "new", outActive |-> TRUE, full |-> FALSE,
            unflushed |-> << >>, flushed |-> << >>]

Init ==
    /\ lb = EmptyList
    /\ dropping = FALSE
    /\ call = "none"
    /\ pipe = [p \in Pipes |-> NewPipe]
    /\ closed = {}
    /\ app = [number |-> 0, part |-> 1]
-----------------------------------------------------------------------------
(* Between two calls: commands, and what the application does to pipes.    *)

Idle == call = "none"

\* xattach_pipe.
Attach(p) ==
    /\ Idle /\ pipe[p].state = "new"
    /\ pipe' = [pipe EXCEPT ![p].state = "active"]
    /\ lb' = Attached(lb, p)
    /\ UNCHANGED <<dropping, call, closed, app>>

\* The peer reads the message it was sent and says so: process_activate_write
\* and xwrite_activated.  Waking a pipe that is active would leave the array
\* (WritableIsActive excludes it); nothing is modelled beyond that point.
WriteActivated(p) ==
    LET wakes == ~pipe[p].outActive /\ pipe[p].state = "active" IN
    /\ Idle /\ pipe[p].full
    /\ wakes => lb.active < Len(lb.pipes)
    /\ pipe' = [pipe EXCEPT ![p].full = FALSE, ![p].flushed = << >>,
                            ![p].outActive = @ \/ wakes]
    /\ lb' = IF wakes THEN Activated(lb, p) ELSE lb
    /\ UNCHANGED <<dropping, call, closed, app>>

\* The peer closes: its command and the delimiter reach the socket in either
\* order, the delimiter when the application receives or polls.
PeerCloses(p) ==
    /\ p \notin Lasting \cup closed /\ pipe[p].state = "active"
    /\ closed' = closed \cup {p}
    /\ UNCHANGED <<lb, dropping, call, pipe, app>>

\* Mutant: what was written stays.
RolledBackKept(e) == e

\* pipe_t::rollback.
RolledBack(e) == [e EXCEPT !.unflushed = << >>]

process_pipe_term(p) ==
    /\ Idle /\ p \in closed
    /\ \/ /\ pipe[p].state = "active"
          /\ pipe' = [pipe EXCEPT ![p].state = "waiting_for_delimiter"]
       \/ /\ pipe[p].state = "delimiter_received"
          /\ pipe' = [pipe EXCEPT ![p].state = "term_ack_sent"]
    /\ UNCHANGED <<lb, dropping, call, closed, app>>

process_delimiter(p) ==
    /\ Idle /\ p \in closed
    /\ \/ /\ pipe[p].state = "active"
          /\ pipe' = [pipe EXCEPT ![p].state = "delimiter_received"]
       \/ /\ pipe[p].state = "waiting_for_delimiter"
          /\ pipe' = [pipe EXCEPT ![p] = RolledBack([@ EXCEPT !.state = "term_ack_sent"])]
    /\ UNCHANGED <<lb, dropping, call, closed, app>>

\* zmq_disconnect: pipe_t::terminate (false).
Disconnect(p) ==
    /\ Idle /\ p \notin Lasting
    /\ pipe[p].state \in {"active", "waiting_for_delimiter", "delimiter_received"}
    /\ pipe' = [pipe EXCEPT ![p] =
         RolledBack([@ EXCEPT !.outActive = FALSE, !.state =
           IF @ = "waiting_for_delimiter" THEN "term_ack_sent" ELSE "term_req_sent1"])]
    /\ UNCHANGED <<lb, dropping, call, closed, app>>

\* Mutant: the rest of a message is not dropped when its pipe goes.
DropsNever(p) == dropping

\* lb_t::pipe_terminated: the current pipe takes a half-sent message with it.
Drops(p) == dropping \/ (Index(lb, p) = lb.current /\ lb.more)

\* process_pipe_term_ack and xpipe_terminated.  The connection may be made again.
PipeTerminated(p) ==
    /\ Idle /\ pipe[p].state \in {"term_ack_sent", "term_req_sent1"}
    /\ pipe' = [pipe EXCEPT ![p] = NewPipe]
    /\ closed' = closed \ {p}
    /\ dropping' = Drops(p)
    /\ lb' = Terminated(lb, p)
    /\ UNCHANGED <<call, app>>

Event(p) == \/ Attach(p) \/ WriteActivated(p) \/ PeerCloses(p) \/ process_pipe_term(p)
            \/ process_delimiter(p) \/ Disconnect(p) \/ PipeTerminated(p)
-----------------------------------------------------------------------------
(* Sending a part: dealer_t::xsend, that is lb_t::sendpipe.                *)

More == app.part < Parts

\* The application goes on to the next part, or to the next message.
SendsNext ==
    app' = IF More THEN [app EXCEPT !.part = @ + 1]
           ELSE [number |-> (app.number + 1) % Numbers, part |-> 1]

\* pipe_t::check_write.
CanWrite(p) == pipe[p].outActive /\ pipe[p].state = "active" /\ ~pipe[p].full

\* What check_write does when it fails: a full pipe has to be woken up.
Refused(p) ==
    [pipe EXCEPT ![p].outActive = @ /\ ~(pipe[p].state = "active" /\ pipe[p].full)]

\* Mutant: dropping goes on after the end of the message.
DropsOnAlways == TRUE

\* The last part of the message ends the dropping.
DropsOn == More

DropPart ==
    /\ Idle /\ dropping
    /\ lb' = [lb EXCEPT !.more = More]
    /\ dropping' = DropsOn
    /\ SendsNext
    /\ UNCHANGED <<call, pipe, closed>>

\* The current pipe takes the part; the last part is flushed and the turn is
\* the next pipe's.
WritePart ==
    LET p == Current(lb)
        parts == Append(pipe[p].unflushed, app)
    IN
    /\ call \in {"none", "send"} /\ ~dropping
    /\ lb.active > 0 /\ CanWrite(p)
    /\ \/ /\ More
          /\ pipe' = [pipe EXCEPT ![p].unflushed = parts]
          /\ lb' = [lb EXCEPT !.more = TRUE]
       \/ /\ ~More
          /\ pipe' = [pipe EXCEPT ![p].unflushed = << >>, ![p].flushed = parts,
                                  ![p].full = TRUE]
          /\ lb' = NextTurn(lb)
    /\ SendsNext
    /\ call' = "none"
    /\ UNCHANGED <<dropping, closed>>

\* The current pipe cannot take the rest of a message: the message is given
\* up, and a blocking send drops this part (socket_base_t::send on -2).
GiveUp ==
    LET p == Current(lb) IN
    /\ call \in {"none", "send"} /\ ~dropping
    /\ lb.active > 0 /\ ~CanWrite(p) /\ lb.more
    /\ pipe' = [Refused(p) EXCEPT ![p] = RolledBack(@)]
    /\ dropping' = More
    /\ lb' = [lb EXCEPT !.more = FALSE]
    /\ SendsNext
    /\ call' = "none"
    /\ UNCHANGED closed

\* The current pipe cannot take a message: the next active one is tried, by
\* sendpipe and by has_out alike.
TryNext(loop) ==
    LET p == Current(lb) IN
    /\ call \in {"none", loop} /\ ~lb.more
    /\ loop = "send" => ~dropping
    /\ lb.active > 0 /\ ~CanWrite(p)
    /\ pipe' = Refused(p)
    /\ lb' = Deactivated(lb)
    /\ call' = IF lb.active > 1 THEN loop ELSE "none"
    /\ UNCHANGED <<dropping, closed, app>>

\* has_out finds a pipe.
HasOut ==
    /\ call = "has_out" /\ CanWrite(Current(lb))
    /\ call' = "none"
    /\ UNCHANGED <<lb, dropping, pipe, closed, app>>

Send == DropPart \/ WritePart \/ GiveUp \/ TryNext("send")

Next == Send \/ TryNext("has_out") \/ HasOut \/ \E p \in Pipes : Event(p)

\* Fairness: the application goes on sending, peers read what they are sent,
\* and commands are handled in every call.
Fairness == /\ WF_vars(Send) /\ WF_vars(HasOut)
            /\ \A p \in Pipes : /\ SF_vars(WriteActivated(p))
                                /\ WF_vars(Attach(p))

Spec == Init /\ [][Next]_vars /\ Fairness
-----------------------------------------------------------------------------
TypeOK ==
    /\ lb \in PipeLists(Pipes)
    /\ lb.active <= Len(lb.pipes) /\ (lb.current < lb.active \/ lb.current = 0)
    /\ dropping \in BOOLEAN
    /\ call \in {"none", "send", "has_out"}
    /\ \A p \in Pipes :
         /\ pipe[p].state \in {"new", "active", "waiting_for_delimiter", "delimiter_received",
                               "term_ack_sent", "term_req_sent1"}
         /\ Len(pipe[p].unflushed) < Parts /\ Len(pipe[p].flushed) <= Parts
    /\ closed \subseteq Pipes
    /\ app \in [number : 0 .. Numbers - 1, part : 1 .. Parts]

\* "Peers shall receive either all message parts of a message or none at all"
\* (zmq_msg_send): what a peer is given is one whole message, whatever pipes
\* come, go or fill up between its parts.
AllOrNothing ==
    \A p \in Pipes : pipe[p].flushed # << >> =>
                       \E n \in 0 .. Numbers - 1 : pipe[p].flushed = Message(n)

\* A half-sent message is in the current pipe only, and is what the application
\* has sent of it; nothing of a message that was given up stays behind.
HalfSentIsCurrent ==
    \A p \in Pipes : pipe[p].unflushed # << >> =>
        \/ pipe[p].state = "term_ack_sent"
        \/ /\ lb.more /\ ~dropping /\ p = Current(lb) /\ lb.current < lb.active
           /\ pipe[p].unflushed = SubSeq(Message(app.number), 1, app.part - 1)

\* The open pipes that were not found full are exactly the active ones: lb_t
\* passes over no pipe for good, and is never told to activate a pipe that is
\* active, for which activated would swap past the end of the array; the turn
\* and the number of active pipes (in TypeOK) stay inside the list.
WritableIsActive ==
  /\ TypeOK
  /\ \A p \in Listed(lb) : pipe[p].state = "active" =>
                             (pipe[p].outActive <=> p \in ActivePipes(lb))

\* Every pipe that stays is dealt messages again and again: none is left out
\* while the others come and go, and no message that was given up stops the rest.
EverybodyIsDealt == \A p \in Lasting : []<>(pipe[p].flushed # << >>)
=============================================================================
