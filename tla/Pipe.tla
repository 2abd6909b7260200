-------------------------------- MODULE Pipe --------------------------------
(***************************************************************************)
(* A pair of pipe_t objects (ExternalLib/libzmq/src/pipe.cpp): the two     *)
(* ends of a connection inside ZeroMQ, in two threads, joined by a queue   *)
(* of message parts in each direction and by the commands they send each   *)
(* other.  Modelled are reading and writing with high and low water marks, *)
(* flushing and waking up, rolling back, the hiccup (a reader that         *)
(* exchanges its queue), and the termination protocol with its delimiter.  *)
(* The sink of an end, a socket or a session, may call it at any time      *)
(* until it is told that the pipe has terminated.  Parts that neither end  *)
(* counts (routing ids, credentials) and conflating pipes are left out.    *)
(***************************************************************************)
EXTENDS FlushQueue, Integers, FiniteSets

CONSTANTS Hwm,         \* hwms_ of pipepair: the outbound limit of each end
          Word,        \* 2^64, the modulus of the counters
          Upipes,      \* the addresses of the queues
          Writes,      \* the kinds of parts the sink of each end writes
          Hiccups,     \* the ends whose sinks reconnect (sessions of SUB sockets)
          MaxMessages, \* bound: messages the sink of each end writes
          MaxParts,    \* bound: parts of a message
          MaxCommands, \* bound: commands that wait for an end when it hiccups
          Nobody       \* NULL, and no queue behind an address

Ends == {1, 2}
Peer(e) == 3 - e
Parts == {"more", "last", "delimiter"}

ASSUME PipeAssumption == /\ Hwm \in [Ends -> Nat]
                         /\ Word \in Nat /\ MaxParts \in Nat /\ MaxCommands \in Nat
                         /\ MaxMessages \in [Ends -> 0 .. Word - 1]
                         /\ Writes \in [Ends -> SUBSET (Parts \ {"delimiter"})]
                         /\ Hiccups \subseteq Ends
                         /\ Ends \subseteq Upipes
                         /\ Nobody \notin Upipes \cup Queues(Parts)

VARIABLES
  pipe,   \* the two pipe_t objects
  upipe,  \* the queues, by their addresses
  cmds,   \* the commands on their way to each end
  aborted \* a zmq_assert has failed

vars == <<pipe, upipe, cmds, aborted>>

States == {"active", "delimiter_received", "waiting_for_delimiter",
           "term_ack_sent", "term_req_sent1", "term_req_sent2", "deallocated"}

\* pipepair: each end writes into the queue the other one reads.
Init ==
    /\ \E delay \in [Ends -> BOOLEAN] :
         pipe = [e \in Ends |->
            [state |-> "active", delay |-> delay[e], in |-> e, out |-> Peer(e),
             inActive |-> TRUE, outActive |-> TRUE,
             msgsRead |-> 0, msgsWritten |-> 0, peersMsgsRead |-> 0]]
    /\ upipe = [u \in Upipes |-> IF u \in Ends THEN EmptyQueue ELSE Nobody]
    /\ cmds = [e \in Ends |-> << >>]
    /\ aborted = FALSE

Alive(e) == pipe[e].state # "deallocated"
In(e) == upipe[pipe[e].in]
Out(e) == upipe[pipe[e].out]

\* Commands to the other end of the pipe, after those of the command it handles.
To(e, sent) == [cmds EXCEPT ![Peer(e)] = @ \o sent]
Handled(e, sent) == [cmds EXCEPT ![e] = Tail(@), ![Peer(e)] = @ \o sent]
-----------------------------------------------------------------------------
\* Mutant: the low water mark of the other direction.
lwmOutbound(e) == (Hwm[e] + 1) \div 2

\* compute_lwm of the inbound limit, which is the peer's outbound one.
lwm(e) == (Hwm[Peer(e)] + 1) \div 2

\* Mutant: arithmetic without the width of the counters.
MinusUnbounded(a, b) == a - b

\* Unsigned subtraction.
Minus(a, b) == (a - b) % Word

\* Mutant: one message too many.
FullBeyond(e) == Hwm[e] > 0 /\ Minus(pipe[e].msgsWritten, pipe[e].peersMsgsRead) > Hwm[e]

\* check_hwm.
Full(e) == Hwm[e] > 0 /\ Minus(pipe[e].msgsWritten, pipe[e].peersMsgsRead) >= Hwm[e]

\* write of a part when check_write lets it: the parts of a message before its
\* last one are incomplete, a message counts when its last part is written.
Write(e, part) ==
    /\ pipe[e].state = "active" /\ pipe[e].outActive
    /\ ~Full(e)
    /\ pipe[e].msgsWritten < MaxMessages[e]
    /\ part = "more" => Len(Out(e).unflushed) - Out(e).complete + 1 < MaxParts
    /\ upipe' = [upipe EXCEPT ![pipe[e].out] = Written(@, part, part = "more")]
    /\ pipe' = [pipe EXCEPT ![e].msgsWritten = IF part = "last" THEN @ + 1 ELSE @]
    /\ UNCHANGED <<cmds, aborted>>

\* check_write when the pipe is full: the end stops writing until the peer
\* says that it has read.
WriteFull(e) ==
    /\ pipe[e].state = "active" /\ pipe[e].outActive
    /\ Full(e)
    /\ pipe' = [pipe EXCEPT ![e].outActive = FALSE]
    /\ UNCHANGED <<upipe, cmds, aborted>>

\* rollback: the parts of an unfinished message are taken back.
RolledBack(q) == [q EXCEPT !.unflushed = SubSeq(@, 1, q.complete)]

Rollback(e) ==
    /\ Alive(e) /\ pipe[e].out # Nobody
    /\ CanUnwrite(Out(e))
    /\ upipe' = [upipe EXCEPT ![pipe[e].out] = RolledBack(@)]
    /\ aborted' = (aborted \/ \E i \in Out(e).complete + 1 .. Len(Out(e).unflushed) :
                                 Out(e).unflushed[i] # "more")
    /\ UNCHANGED <<pipe, cmds>>

\* flush, and what it sends to a sleeping reader.
WakeUp(q) == IF FlushWakes(q) THEN <<[type |-> "activate_read"]>> ELSE << >>

Flush(e) ==
    /\ Alive(e) /\ pipe[e].state # "term_ack_sent" /\ pipe[e].out # Nobody
    /\ Out(e).complete > 0
    /\ upipe' = [upipe EXCEPT ![pipe[e].out] = Flushed(@)]
    /\ cmds' = To(e, WakeUp(Out(e)))
    /\ UNCHANGED <<pipe, aborted>>
-----------------------------------------------------------------------------
MayRead(e) == pipe[e].inActive /\ pipe[e].state \in {"active", "waiting_for_delimiter"}

\* check_read and read when there is nothing to read.
ReadNothing(e) ==
    /\ MayRead(e)
    /\ ~CanRead(In(e))
    /\ upipe' = [upipe EXCEPT ![pipe[e].in] = CheckedEmpty(@)]
    /\ pipe' = [pipe EXCEPT ![e].inActive = FALSE]
    /\ UNCHANGED <<cmds, aborted>>

\* read of a part.  Whenever the count of messages read is a multiple of the
\* low water mark the peer is told.
ReadPart(e) ==
    LET part == Head(In(e).flushed)
        msgsRead == pipe[e].msgsRead + (IF part = "last" THEN 1 ELSE 0) IN
    /\ MayRead(e)
    /\ CanRead(In(e)) /\ part # "delimiter"
    /\ upipe' = [upipe EXCEPT ![pipe[e].in] = Popped(@)]
    /\ pipe' = [pipe EXCEPT ![e].msgsRead = msgsRead]
    /\ cmds' = To(e, IF lwm(e) > 0 /\ msgsRead % lwm(e) = 0
                     THEN <<[type |-> "activate_write", msgsRead |-> msgsRead]>> ELSE << >>)
    /\ UNCHANGED aborted

Ack == <<[type |-> "pipe_term_ack"]>>

\* Mutant: the command is not waited for.
TermReceivedAlways(e) == TRUE

\* The command of the peer that terminates the pipe has come.
TermReceived(e) == pipe[e].state = "waiting_for_delimiter"

\* check_read and read when the delimiter is next: process_delimiter.  An end
\* that knows of the termination acknowledges it, one that does not waits for
\* the command.
ReadDelimiter(e) ==
    /\ MayRead(e)
    /\ CanRead(In(e)) /\ Head(In(e).flushed) = "delimiter"
    /\ IF ~TermReceived(e)
         THEN /\ pipe' = [pipe EXCEPT ![e].state = "delimiter_received"]
              /\ upipe' = [upipe EXCEPT ![pipe[e].in] = Popped(@)]
              /\ UNCHANGED cmds
         ELSE /\ pipe' = [pipe EXCEPT ![e].state = "term_ack_sent", ![e].out = Nobody]
              /\ upipe' = [upipe EXCEPT ![pipe[e].in] = Popped(@),
                                        ![pipe[e].out] = RolledBack(@)]
              /\ cmds' = To(e, Ack)
    /\ UNCHANGED aborted
-----------------------------------------------------------------------------
Gets(e, type) == cmds[e] # << >> /\ Head(cmds[e]).type = type

\* process_activate_read.
ActivateRead(e) ==
    /\ Gets(e, "activate_read")
    /\ pipe' = [pipe EXCEPT ![e].inActive =
                   @ \/ pipe[e].state \in {"active", "waiting_for_delimiter"}]
    /\ cmds' = Handled(e, << >>)
    /\ UNCHANGED <<upipe, aborted>>

\* process_activate_write.
ActivateWrite(e) ==
    /\ Gets(e, "activate_write")
    /\ pipe' = [pipe EXCEPT ![e].peersMsgsRead = Head(cmds[e]).msgsRead,
                            ![e].outActive = @ \/ pipe[e].state = "active"]
    /\ cmds' = Handled(e, << >>)
    /\ UNCHANGED <<upipe, aborted>>

\* hiccup: the end replaces its inbound queue and leaves the old one to the peer.
Hiccup(e) ==
    /\ e \in Hiccups /\ Len(cmds[e]) < MaxCommands
    /\ pipe[e].state = "active"
    /\ \E u \in Upipes :
          /\ upipe[u] = Nobody
          /\ upipe' = [upipe EXCEPT ![u] = EmptyQueue]
          /\ pipe' = [pipe EXCEPT ![e].in = u, ![e].inActive = TRUE]
          /\ cmds' = To(e, <<[type |-> "hiccup", pipe |-> u]>>)
    /\ UNCHANGED aborted

\* process_hiccup: what the peer has not read is dropped and not counted any
\* more, the old queue is deleted, the new one takes its place.
ProcessHiccup(e) ==
    LET old == Flushed(Out(e)).flushed
        dropped == {i \in DOMAIN old : old[i] # "more"} IN
    /\ Gets(e, "hiccup")
    /\ IF pipe[e].out = Nobody
         THEN /\ aborted' = TRUE
              /\ UNCHANGED <<pipe, upipe>>
         ELSE /\ upipe' = [upipe EXCEPT ![pipe[e].out] = Nobody]
              /\ pipe' = [pipe EXCEPT ![e].msgsWritten = Minus(@, Cardinality(dropped)),
                                      ![e].out = Head(cmds[e]).pipe,
                                      ![e].outActive = TRUE]
              /\ UNCHANGED aborted
    /\ cmds' = Handled(e, << >>)

\* Mutant: pending messages are dropped though the delay is set.
WaitsNever(e) == FALSE

\* Pending messages are read before the termination is acknowledged.
Waits(e) == pipe[e].state = "active" /\ pipe[e].delay

\* process_pipe_term: the peer has called terminate.
PipeTerm(e) ==
    LET p == pipe[e] IN
    /\ Gets(e, "pipe_term")
    /\ IF Waits(e)
         THEN /\ pipe' = [pipe EXCEPT ![e].state = "waiting_for_delimiter"]
              /\ cmds' = Handled(e, << >>)
         ELSE /\ pipe' = [pipe EXCEPT ![e].out = Nobody,
                            ![e].state = IF @ = "term_req_sent1" THEN "term_req_sent2"
                                         ELSE "term_ack_sent"]
              /\ cmds' = Handled(e, Ack)
    /\ aborted' = (aborted \/ p.state \notin {"active", "delimiter_received", "term_req_sent1"})
    /\ UNCHANGED upipe

\* Mutants: the acknowledgement is always answered, or never.
AnswerAlways(e) == Ack
AnswerNever(e) == << >>

\* An end that has asked for the termination itself answers with its own.
Answer(e) == IF pipe[e].state = "term_req_sent1" THEN Ack ELSE << >>

\* process_pipe_term_ack: the end and the queue it reads are deallocated.
PipeTermAck(e) ==
    LET p == pipe[e] IN
    /\ Gets(e, "pipe_term_ack")
    /\ pipe' = [pipe EXCEPT ![e].state = "deallocated", ![e].out = Nobody]
    /\ upipe' = [upipe EXCEPT ![p.in] = Nobody]
    /\ cmds' = Handled(e, Answer(e))
    /\ aborted' = (aborted \/ p.state \notin {"term_ack_sent", "term_req_sent1", "term_req_sent2"})
-----------------------------------------------------------------------------
Delimited(q) == Written(RolledBack(q), "delimiter", FALSE)
Delimits(q) == \E i \in DOMAIN q.flushed : q.flushed[i] = "delimiter"

\* terminate.  From active and delimiter_received the peer is asked to terminate
\* and gets a delimiter behind what was written; an end that waits for the
\* delimiter acknowledges at once when the delay is lifted, and otherwise goes
\* on waiting, but writes a delimiter too.  In the other states nothing happens.
\* (The delay is not kept in a state from which nothing reads it again.  Bound:
\* no second delimiter is written before the first one has been read.)
Terminate(e, delay) ==
    LET p == pipe[e]
        asks == p.state \in {"active", "delimiter_received"} IN
    /\ \/ /\ asks \/ (p.state = "waiting_for_delimiter" /\ delay /\ ~Delimits(Out(e)))
          /\ pipe' = [pipe EXCEPT ![e].outActive = FALSE,
                                  ![e].delay = IF asks THEN @ ELSE delay,
                                  ![e].state = IF asks THEN "term_req_sent1" ELSE @]
          /\ upipe' = [upipe EXCEPT ![p.out] = Flushed(Delimited(@))]
          /\ cmds' = To(e, (IF asks THEN <<[type |-> "pipe_term"]>> ELSE << >>)
                             \o WakeUp(Delimited(Out(e))))
       \/ /\ p.state = "waiting_for_delimiter" /\ ~delay
          /\ pipe' = [pipe EXCEPT ![e].delay = delay, ![e].outActive = FALSE,
                                  ![e].out = Nobody, ![e].state = "term_ack_sent"]
          /\ upipe' = [upipe EXCEPT ![p.out] = RolledBack(@)]
          /\ cmds' = To(e, Ack)
    /\ UNCHANGED aborted

Command(e) == \/ ActivateRead(e) \/ ActivateWrite(e) \/ ProcessHiccup(e)
              \/ PipeTerm(e) \/ PipeTermAck(e)
Read(e) == ReadNothing(e) \/ ReadPart(e) \/ ReadDelimiter(e)

Next == \E e \in Ends :
    \/ \E part \in Writes[e] : Write(e, part)
    \/ WriteFull(e) \/ Rollback(e) \/ Flush(e)
    \/ Read(e) \/ Command(e) \/ Hiccup(e)
    \/ \E delay \in BOOLEAN : Terminate(e, delay)

\* Fairness: both threads process their commands, every sink reads while it may
\* and flushes what it has written.  The session of a SUB socket, which alone
\* hiccups, is told to terminate without a delay (xsub.cpp:50 sets linger to 0).
Fairness ==
    /\ \A e \in Ends : WF_vars(Command(e)) /\ WF_vars(Read(e)) /\ WF_vars(Flush(e))
    /\ \A e \in Hiccups : WF_vars(pipe[e].state = "waiting_for_delimiter" /\ Terminate(e, FALSE))

Spec == Init /\ [][Next]_vars /\ Fairness
-----------------------------------------------------------------------------
TypeOK ==
    /\ pipe \in [Ends -> [state : States, delay : BOOLEAN,
                          in : Upipes, out : Upipes \cup {Nobody},
                          inActive : BOOLEAN, outActive : BOOLEAN,
                          msgsRead : Nat, msgsWritten : 0 .. Word - 1, peersMsgsRead : Nat]]
    /\ upipe \in [Upipes -> Queues(Parts) \cup {Nobody}]
    /\ \A e \in Ends : cmds[e] \in Seq([type : {"activate_read", "pipe_term", "pipe_term_ack"}]
                                  \cup [type : {"activate_write"}, msgsRead : Nat]
                                  \cup [type : {"hiccup"}, pipe : Upipes])
    /\ aborted \in BOOLEAN

\* The assertions of the handlers (pipe.cpp:269, 309, 332, 382) hold: whichever
\* end terminates, both at once included, no command finds its end in a state
\* it does not expect.
NoAbort == ~aborted

\* The two ends agree on who deletes what: no command is on its way to an end
\* that is gone, an end that still has a queue has one that exists, and when
\* both ends are gone so are all the queues, those a hiccup has left behind too.
NothingDangles ==
    /\ \A e \in Ends : /\ ~Alive(e) => cmds[e] = << >>
                       /\ Alive(e) => In(e) # Nobody
                       /\ pipe[e].out # Nobody => Out(e) # Nobody
    /\ (\A e \in Ends : ~Alive(e)) => \A u \in Upipes : upipe[u] = Nobody

\* The messages in a queue never exceed the limit of the end that writes them.
Messages(parts) == Cardinality({i \in DOMAIN parts : parts[i] = "last"})
WithinHwm ==
    \A e \in Ends : pipe[e].out # Nobody /\ Hwm[e] > 0 =>
        Messages(Out(e).flushed) + Messages(Out(e).unflushed) <= Hwm[e]

\* An end that terminates because its peer asked it to, and that has not been
\* told to drop what is pending, has read every message the peer has written.
NothingLeftBehind ==
    [][\A e \in Ends :
         /\ pipe[e].state # "term_ack_sent" /\ pipe'[e].state = "term_ack_sent"
         /\ pipe'[e].delay
         => pipe'[e].msgsRead = pipe'[Peer(e)].msgsWritten]_vars

\* A writer that has stopped at the high water mark goes on once its peer has
\* read enough, unless the pipe terminates: the low water mark of the reader
\* and the limit of the writer fit each other.
WriterResumes ==
    \A e \in Ends : pipe[e].state = "active" /\ ~pipe[e].outActive
                    ~> pipe[e].state # "active" \/ pipe[e].outActive

\* Once either end terminates, both ends are deallocated in the end.
TerminationCompletes ==
    (\E e \in Ends : pipe[e].state = "term_req_sent1") ~> (\A e \in Ends : ~Alive(e))
=============================================================================
