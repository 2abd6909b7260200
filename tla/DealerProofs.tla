---------------------------- MODULE DealerProofs ----------------------------
(***************************************************************************)
(* Dealer for any number of parts and messages and for at most two pipes.  *)
(* Three pipes are too many: a pipe that goes may then take the turn from  *)
(* a third one that has half of a message (the run dealer_three).          *)
(***************************************************************************)
EXTENDS Dealer, PipeListProofs

\* There are no three different pipes.
AtMostTwo == \A p, q, r \in Pipes : p = q \/ q = r \/ p = r

AppParts == [number : 0 .. Numbers - 1, part : 1 .. Parts]

PipeStates == {"new", "active", "waiting_for_delimiter", "delimiter_received",
               "term_ack_sent", "term_req_sent1"}

Ends == [state : PipeStates, outActive : BOOLEAN, full : BOOLEAN,
         unflushed : Seq(AppParts), flushed : Seq(AppParts)]

\* What the application has sent of its message.
Sent == SubSeq(Message(app.number), 1, app.part - 1)

\* The types, and the array of pipes.
Types ==
    /\ WellFormed(Pipes, lb)
    /\ dropping \in BOOLEAN
    /\ call \in {"none", "send", "has_out"}
    /\ pipe \in [Pipes -> Ends]
    /\ closed \subseteq Pipes
    /\ app \in AppParts

\* The pipes that are attached are listed, and those that were not found full
\* are the active ones.
Awake ==
    /\ \A p \in Pipes : p \in Listed(lb) <=> pipe[p].state # "new"
    /\ \A p \in Pipes : pipe[p].state = "new" => pipe[p].outActive /\ ~pipe[p].full
    /\ \A p \in Pipes : pipe[p].state = "active" =>
                          (pipe[p].outActive <=> p \in ActivePipes(lb))
    /\ call # "none" => lb.active > 0 /\ ~lb.more

\* Between messages the application is at a first part; in a message, the
\* current pipe is active and has what was sent, unless it was rolled back.
Half ==
    /\ ~dropping /\ ~lb.more => app.part = 1
    /\ ~dropping /\ lb.more =>
         /\ lb.current < lb.active
         /\ app.part > 1
         /\ pipe[Current(lb)].unflushed \in {<< >>, Sent}
         /\ pipe[Current(lb)].state = "active" =>
              pipe[Current(lb)].unflushed = Sent /\ ~pipe[Current(lb)].full
    /\ HalfSentIsCurrent
    /\ \A p \in Pipes : Len(pipe[p].unflushed) < Parts /\ Len(pipe[p].flushed) <= Parts

\* The inductive invariant.
DealerInv == Types /\ Awake /\ Half /\ AllOrNothing

\* The fields of an end, and their types.
LEMMA EndFields ==
  ASSUME Types, NEW p \in Pipes
  PROVE  /\ pipe[p] \in Ends
         /\ pipe[p].state \in PipeStates /\ pipe[p].outActive \in BOOLEAN
         /\ pipe[p].full \in BOOLEAN /\ pipe[p].unflushed \in Seq(AppParts)
         /\ pipe[p].flushed \in Seq(AppParts)
<1>1. pipe[p] \in Ends
  BY DEF Types
<1> QED BY <1>1 DEF Ends

\* A rollback leaves an end.
LEMMA RolledBackEnd ==
  ASSUME NEW e \in Ends
  PROVE  RolledBack(e) \in Ends
<1> DEFINE u == << >>
<1>1. u \in Seq(AppParts)
  OBVIOUS
<1>2. RolledBack(e) = [e EXCEPT !.unflushed = u]
  BY DEF RolledBack
<1> HIDE DEF u
<1> QED BY <1>1, <1>2 DEF Ends

\* The turn is that of a listed, active pipe.
LEMMA CurrentPipe ==
  ASSUME Types, lb.current < lb.active \/ lb.active > 0
  PROVE  Current(lb) \in Pipes /\ Current(lb) \in ActivePipes(lb) /\ Current(lb) \in Listed(lb)
<1>1. /\ lb.pipes \in Seq(Pipes) /\ Len(lb.pipes) \in Nat /\ lb.active \in Nat
      /\ lb.current \in Nat /\ lb.active <= Len(lb.pipes)
      /\ lb.current < lb.active \/ lb.current = 0
  BY Fields DEF Types, WellFormed
<1>2. lb.current + 1 \in 1 .. lb.active /\ lb.current + 1 \in 1 .. Len(lb.pipes)
  BY <1>1
<1> QED BY <1>1, <1>2 DEF Current, ActivePipes, Listed

\* A step that changes the state of one end: it does not come back to life,
\* and loses parts only to a rollback or to its peer.
EndChange(p) ==
    /\ pipe' \in [Pipes -> Ends]
    /\ \A q \in Pipes : q # p => pipe'[q] = pipe[q]
    /\ pipe[p].state # "new" /\ pipe'[p].state # "new"
    /\ pipe'[p].state = "active" =>
         /\ pipe[p].state = "active" /\ pipe'[p].outActive = pipe[p].outActive
         /\ pipe'[p].full => pipe[p].full
         /\ pipe'[p].unflushed = pipe[p].unflushed
    /\ pipe[p].state = "term_ack_sent" => pipe'[p].state = "term_ack_sent"
    /\ pipe'[p].unflushed \in {<< >>, pipe[p].unflushed}
    /\ pipe'[p].flushed \in {<< >>, pipe[p].flushed}
    /\ closed' \subseteq Pipes
    /\ UNCHANGED <<lb, dropping, call, app>>

\* What the peer does to an end of a pipe keeps the invariant.
LEMMA EndChangeKeeps ==
  ASSUME DealerInv, NEW p \in Pipes, EndChange(p)
  PROVE  DealerInv'
<1> USE DEF DealerInv
<1>1. Types'
  BY DEF Types, EndChange
<1>2. Awake'
  BY DEF Awake, EndChange
<1>3. Half'
  <2>1. Sent' = Sent /\ Current(lb)' = Current(lb) /\ lb' = lb /\ dropping' = dropping /\ app' = app
    BY DEF Sent, EndChange
  <2>2. ~dropping /\ lb.more =>
         /\ pipe'[Current(lb)].unflushed \in {<< >>, Sent}
         /\ pipe'[Current(lb)].state = "active" =>
              pipe'[Current(lb)].unflushed = Sent /\ ~pipe'[Current(lb)].full
    <3> SUFFICES ASSUME ~dropping, lb.more
                 PROVE  /\ pipe'[Current(lb)].unflushed \in {<< >>, Sent}
                        /\ pipe'[Current(lb)].state = "active" =>
                             pipe'[Current(lb)].unflushed = Sent /\ ~pipe'[Current(lb)].full
      OBVIOUS
    <3>1. Current(lb) \in Pipes
      BY CurrentPipe DEF Half
    <3> QED BY <3>1 DEF Half, EndChange
  <2>3. \A q \in Pipes : pipe'[q].unflushed # << >> =>
          pipe'[q].unflushed = pipe[q].unflushed /\ (pipe[q].state = "term_ack_sent" => pipe'[q].state = "term_ack_sent")
    BY DEF EndChange
  <2>4. HalfSentIsCurrent'
    BY <2>1, <2>3 DEF Half, HalfSentIsCurrent, Sent
  <2>5. \A q \in Pipes : Len(pipe'[q].unflushed) < Parts /\ Len(pipe'[q].flushed) <= Parts
    BY DealerAssumption DEF Half, EndChange
  <2> QED BY <2>1, <2>2, <2>4, <2>5 DEF Half
<1>4. AllOrNothing'
  BY DEF AllOrNothing, EndChange
<1> QED BY <1>1, <1>2, <1>3, <1>4

\* A socket without pipes.
LEMMA InvInit == Init => DealerInv
<1> SUFFICES ASSUME Init PROVE DealerInv
  OBVIOUS
<1>1. NewPipe \in Ends
  BY DEF NewPipe, Ends, PipeStates
<1>2. /\ EmptyList.pipes = << >> /\ EmptyList.active = 0 /\ EmptyList.current = 0
      /\ EmptyList.more = FALSE /\ EmptyList \in PipeLists(Pipes)
  BY DEF EmptyList, PipeLists
<1>3. app \in AppParts /\ app.part = 1
  BY DealerAssumption DEF Init, AppParts
<1>4. Types
  <2>1. WellFormed(Pipes, EmptyList)
    BY <1>2 DEF WellFormed, NoTwice
  <2>2. pipe \in [Pipes -> Ends]
    BY <1>1 DEF Init
  <2> QED BY <1>3, <2>1, <2>2 DEF Types, Init
<1>5. /\ NewPipe.state = "new" /\ NewPipe.outActive = TRUE /\ NewPipe.full = FALSE
      /\ NewPipe.unflushed = << >> /\ NewPipe.flushed = << >>
  BY DEF NewPipe
<1>6. Listed(lb) = {}
  BY <1>2 DEF Listed, Init
<1>7. Awake
  BY <1>2, <1>5, <1>6 DEF Awake, Init
<1>8. Half
  BY <1>2, <1>3, <1>5, DealerAssumption DEF Half, HalfSentIsCurrent, Init
<1>9. AllOrNothing
  BY <1>5 DEF AllOrNothing, Init
<1> QED BY <1>4, <1>7, <1>8, <1>9 DEF DealerInv

\* The termination protocol takes back what is not flushed.
LEMMA InvProcess ==
  ASSUME DealerInv, NEW p \in Pipes, process_pipe_term(p) \/ process_delimiter(p) \/ Disconnect(p)
  PROVE  DealerInv'
<1>1. pipe[p] \in Ends /\ pipe[p].unflushed \in Seq(AppParts) /\ pipe \in [Pipes -> Ends]
  BY EndFields DEF DealerInv, Types
<1>2. closed' \subseteq Pipes /\ UNCHANGED <<lb, dropping, call, app>>
  BY DEF process_pipe_term, process_delimiter, Disconnect, DealerInv, Types
<1>3. CASE process_pipe_term(p)
  <2>1. PICK x \in PipeStates \ {"new", "active"} :
           /\ pipe' = [pipe EXCEPT ![p].state = x]
           /\ pipe[p].state \in {"active", "delimiter_received"}
    BY <1>3 DEF process_pipe_term, PipeStates
  <2>2. /\ pipe'[p].state = x /\ pipe'[p].unflushed = pipe[p].unflushed
        /\ pipe'[p].flushed = pipe[p].flushed
        /\ \A q \in Pipes : q # p => pipe'[q] = pipe[q]
    BY <1>1, <2>1 DEF Ends
  <2>3. pipe' \in [Pipes -> Ends]
    BY <1>1, <2>1 DEF Ends
  <2>4. EndChange(p)
    BY <1>2, <2>1, <2>2, <2>3 DEF EndChange
  <2> QED BY <2>4, EndChangeKeeps
<1>4. CASE process_delimiter(p)
  <2>1. CASE pipe[p].state = "active" /\ pipe' = [pipe EXCEPT ![p].state = "delimiter_received"]
    <3>2. /\ pipe'[p].state = "delimiter_received" /\ pipe'[p].unflushed = pipe[p].unflushed
          /\ pipe'[p].flushed = pipe[p].flushed
          /\ \A q \in Pipes : q # p => pipe'[q] = pipe[q]
      BY <1>1, <2>1 DEF Ends
    <3>3. pipe' \in [Pipes -> Ends]
      BY <1>1, <2>1 DEF Ends, PipeStates
    <3>4. EndChange(p)
      BY <1>2, <2>1, <3>2, <3>3 DEF EndChange
    <3> QED BY <3>4, EndChangeKeeps
  <2>2. CASE /\ pipe[p].state = "waiting_for_delimiter"
             /\ pipe' = [pipe EXCEPT ![p] = RolledBack([@ EXCEPT !.state = "term_ack_sent"])]
    <3>2. /\ pipe'[p].state = "term_ack_sent" /\ pipe'[p].unflushed = << >>
          /\ pipe'[p].flushed = pipe[p].flushed
          /\ \A q \in Pipes : q # p => pipe'[q] = pipe[q]
      BY <1>1, <2>2 DEF Ends, RolledBack
    <3>3. pipe' \in [Pipes -> Ends]
      <4> DEFINE e == [pipe[p] EXCEPT !.state = "term_ack_sent"]
      <4>1. e \in Ends
        BY <1>1 DEF Ends, PipeStates
      <4>2. RolledBack(e) \in Ends
        BY <4>1, RolledBackEnd
      <4>3. pipe' = [pipe EXCEPT ![p] = RolledBack(e)]
        BY <2>2
      <4> HIDE DEF e
      <4> QED BY <1>1, <4>2, <4>3
    <3>4. EndChange(p)
      BY <1>2, <2>2, <3>2, <3>3 DEF EndChange
    <3> QED BY <3>4, EndChangeKeeps
  <2> QED BY <1>4, <2>1, <2>2 DEF process_delimiter
<1>5. CASE Disconnect(p)
  <2>1. PICK x \in {"term_ack_sent", "term_req_sent1"} :
           pipe' = [pipe EXCEPT ![p] = RolledBack([@ EXCEPT !.outActive = FALSE, !.state = x])]
    BY <1>5 DEF Disconnect
  <2>2. pipe[p].state \in {"active", "waiting_for_delimiter", "delimiter_received"}
    BY <1>5 DEF Disconnect
  <2>3. /\ pipe'[p].state = x /\ pipe'[p].unflushed = << >>
        /\ pipe'[p].flushed = pipe[p].flushed
        /\ \A q \in Pipes : q # p => pipe'[q] = pipe[q]
    BY <1>1, <2>1 DEF Ends, RolledBack
  <2>4. pipe' \in [Pipes -> Ends]
    <3> DEFINE e == [pipe[p] EXCEPT !.outActive = FALSE, !.state = x]
    <3>1. e \in Ends
      BY <1>1 DEF Ends, PipeStates
    <3>2. RolledBack(e) \in Ends
      BY <3>1, RolledBackEnd
    <3>3. pipe' = [pipe EXCEPT ![p] = RolledBack(e)]
      BY <2>1
    <3> HIDE DEF e
    <3> QED BY <1>1, <3>2, <3>3
  <2>5. EndChange(p)
    BY <1>2, <2>2, <2>3, <2>4 DEF EndChange
  <2> QED BY <2>5, EndChangeKeeps
<1> QED BY <1>3, <1>4, <1>5

\* A step that leaves the half-sent message in the current pipe, or drops it.
LEMMA HalfKept ==
  ASSUME Types, Half, app' = app, lb'.more = lb.more, dropping => dropping',
         lb.more /\ ~dropping' =>
           /\ lb'.current < lb'.active /\ Current(lb') = Current(lb)
           /\ pipe'[Current(lb)].unflushed = pipe[Current(lb)].unflushed
           /\ pipe'[Current(lb)].state = pipe[Current(lb)].state
           /\ pipe'[Current(lb)].full => pipe[Current(lb)].full,
         \A q \in Pipes : pipe'[q].unflushed # << >> =>
           /\ pipe'[q].unflushed = pipe[q].unflushed
           /\ pipe'[q].state = pipe[q].state
           /\ lb.more /\ ~dropping /\ q = Current(lb) => ~dropping',
         \A q \in Pipes : Len(pipe'[q].unflushed) < Parts /\ Len(pipe'[q].flushed) <= Parts
  PROVE  Half'
<1>1. Sent' = Sent
  BY DEF Sent
<1>2. ~dropping' /\ ~lb'.more => app'.part = 1
  BY DEF Half
<1>3. ASSUME ~dropping', lb'.more
      PROVE  /\ lb'.current < lb'.active
             /\ app'.part > 1
             /\ pipe'[Current(lb')].unflushed \in {<< >>, Sent}
             /\ pipe'[Current(lb')].state = "active" =>
                  pipe'[Current(lb')].unflushed = Sent /\ ~pipe'[Current(lb')].full
  BY <1>3 DEF Half
<1>4. HalfSentIsCurrent'
  <2> SUFFICES ASSUME NEW q \in Pipes, pipe'[q].unflushed # << >>, pipe'[q].state # "term_ack_sent"
               PROVE  /\ lb'.more /\ ~dropping' /\ q = Current(lb') /\ lb'.current < lb'.active
                      /\ pipe'[q].unflushed = Sent'
    BY DEF HalfSentIsCurrent, Sent
  <2>1. /\ lb.more /\ ~dropping /\ q = Current(lb)
        /\ pipe[q].unflushed = Sent
    BY DEF Half, HalfSentIsCurrent, Sent
  <2> QED BY <1>1, <2>1
<1> QED BY <1>1, <1>2, <1>3, <1>4 DEF Half

\* A new pipe is empty and goes to the end of the active ones.
LEMMA InvAttach ==
  ASSUME DealerInv, NEW p \in Pipes, Attach(p)
  PROVE  DealerInv'
<1> USE DEF DealerInv
<1>1. /\ pipe[p] \in Ends /\ pipe \in [Pipes -> Ends] /\ pipe[p].state = "new"
      /\ pipe' = [pipe EXCEPT ![p].state = "active"] /\ lb' = Attached(lb, p)
      /\ call = "none" /\ UNCHANGED <<dropping, call, closed, app>>
  BY EndFields DEF Attach, Idle, Types
<1>2. /\ pipe'[p].state = "active" /\ pipe'[p].unflushed = pipe[p].unflushed
      /\ pipe'[p].flushed = pipe[p].flushed /\ pipe'[p].outActive = pipe[p].outActive
      /\ pipe' \in [Pipes -> Ends]
      /\ \A q \in Pipes : q # p => pipe'[q] = pipe[q]
  BY <1>1 DEF Ends, PipeStates
<1>3. p \notin Listed(lb)
  BY <1>1 DEF Awake
<1>4. /\ WellFormed(Pipes, lb')
      /\ Listed(lb') = Listed(lb) \cup {p}
      /\ ActivePipes(lb') = ActivePipes(lb) \cup {p}
      /\ lb'.current = lb.current /\ lb'.more = lb.more /\ lb'.active = lb.active + 1
      /\ \A i \in 1 .. lb.active : lb'.pipes[i] = lb.pipes[i]
  BY <1>1, <1>3, AttachedList DEF Types
<1>5. Types'
  BY <1>1, <1>2, <1>4 DEF Types
<1>6. Awake'
  BY <1>1, <1>2, <1>4 DEF Awake
<1>7. Half'
  <2>1. pipe[p].unflushed = << >>
    <3>1. lb.current < lb.active => p # Current(lb)
      BY <1>3, CurrentPipe
    <3> QED BY <1>1, <3>1 DEF Half, HalfSentIsCurrent
  <2>2. lb.more /\ ~dropping =>
           /\ lb'.current < lb'.active /\ Current(lb') = Current(lb)
           /\ pipe'[Current(lb)] = pipe[Current(lb)]
    <3> SUFFICES ASSUME lb.more, ~dropping
                 PROVE  /\ lb'.current < lb'.active /\ Current(lb') = Current(lb)
                        /\ pipe'[Current(lb)] = pipe[Current(lb)]
      OBVIOUS
    <3>1. /\ lb.current < lb.active /\ lb.current \in Nat /\ lb.active \in Nat
          /\ Current(lb) \in Listed(lb) /\ Current(lb) \in Pipes
      BY CurrentPipe, Fields DEF Half, Types
    <3>2. lb.current + 1 \in 1 .. lb.active
      BY <3>1
    <3> QED BY <1>2, <1>3, <1>4, <3>1, <3>2 DEF Current
  <2>3. \A q \in Pipes : pipe'[q].unflushed # << >> => pipe'[q] = pipe[q]
    BY <1>2, <2>1
  <2>4. \A q \in Pipes : Len(pipe'[q].unflushed) < Parts /\ Len(pipe'[q].flushed) <= Parts
    BY <1>2 DEF Half
  <2> QED BY <1>1, <1>4, <2>2, <2>3, <2>4, HalfKept
<1>8. AllOrNothing'
  BY <1>2 DEF AllOrNothing
<1> QED BY <1>5, <1>6, <1>7, <1>8

\* A pipe that can be written again joins the active ones.
LEMMA InvWriteActivated ==
  ASSUME DealerInv, NEW p \in Pipes, WriteActivated(p)
  PROVE  DealerInv'
<1> DEFINE wakes == ~pipe[p].outActive /\ pipe[p].state = "active"
<1> USE DEF DealerInv
<1>1. /\ pipe[p] \in Ends /\ pipe \in [Pipes -> Ends] /\ pipe[p].full
      /\ pipe[p].outActive \in BOOLEAN
      /\ call = "none" /\ UNCHANGED <<dropping, call, closed, app>>
  BY EndFields DEF WriteActivated, Idle, Types
<1>2. /\ pipe' = [pipe EXCEPT ![p].full = FALSE, ![p].flushed = << >>,
                              ![p].outActive = pipe[p].outActive \/ wakes]
      /\ lb' = IF wakes THEN Activated(lb, p) ELSE lb
  BY DEF WriteActivated
<1>3. /\ pipe'[p].state = pipe[p].state /\ pipe'[p].unflushed = pipe[p].unflushed
      /\ pipe'[p].flushed = << >> /\ pipe'[p].full = FALSE
      /\ pipe'[p].outActive = (pipe[p].outActive \/ wakes)
      /\ \A q \in Pipes : q # p => pipe'[q] = pipe[q]
  BY <1>1, <1>2 DEF Ends
<1>4. pipe' \in [Pipes -> Ends]
  <2> DEFINE b == pipe[p].outActive \/ wakes
             n == << >>
             e == [pipe[p] EXCEPT !.full = FALSE, !.flushed = n, !.outActive = b]
  <2>1. b \in BOOLEAN /\ n \in Seq(AppParts)
    OBVIOUS
  <2>2. pipe' = [pipe EXCEPT ![p] = e]
    BY <1>1, <1>2
  <2> HIDE DEF b, n
  <2>3. e \in Ends
    BY <1>1, <2>1 DEF Ends
  <2> HIDE DEF e
  <2> QED BY <1>1, <2>2, <2>3
<1>5. CASE ~wakes
  <2>1. pipe[p].state # "new"
    BY <1>1, <1>5 DEF Awake
  <2>2. EndChange(p)
    BY <1>1, <1>2, <1>3, <1>4, <1>5, <2>1 DEF EndChange, Types
  <2> QED BY <2>2, EndChangeKeeps
<1>6. CASE wakes
  <2>1. p \in Listed(lb) /\ p \notin ActivePipes(lb) /\ lb' = Activated(lb, p)
    BY <1>2, <1>6 DEF Awake
  <2>2. /\ WellFormed(Pipes, lb')
        /\ Listed(lb') = Listed(lb)
        /\ ActivePipes(lb') = ActivePipes(lb) \cup {p}
        /\ lb'.current = lb.current /\ lb'.more = lb.more /\ lb'.active = lb.active + 1
        /\ \A i \in 1 .. lb.active : lb'.pipes[i] = lb.pipes[i]
    BY <2>1, ActivatedList DEF Types
  <2>3. Types'
    BY <1>1, <1>4, <2>2 DEF Types
  <2>4. Awake'
    BY <1>1, <1>3, <1>6, <2>2 DEF Awake
  <2>5. Half'
    <3>1. lb.more /\ ~dropping => lb'.current < lb'.active /\ Current(lb') = Current(lb) /\ Current(lb) \in Pipes
      <4> SUFFICES ASSUME lb.more, ~dropping
                   PROVE  lb'.current < lb'.active /\ Current(lb') = Current(lb) /\ Current(lb) \in Pipes
        OBVIOUS
      <4>1. /\ lb.current < lb.active /\ lb.current \in Nat /\ lb.active \in Nat
            /\ Current(lb) \in Pipes
        BY CurrentPipe, Fields DEF Half, Types
      <4>2. lb.current + 1 \in 1 .. lb.active
        BY <4>1
      <4> QED BY <2>2, <4>1, <4>2 DEF Current
    <3>2. \A q \in Pipes : /\ pipe'[q].unflushed = pipe[q].unflushed /\ pipe'[q].state = pipe[q].state
                           /\ pipe'[q].full => pipe[q].full
      BY <1>3
    <3>3. \A q \in Pipes : Len(pipe'[q].unflushed) < Parts /\ Len(pipe'[q].flushed) <= Parts
      <4>1. Len(pipe'[p].unflushed) < Parts /\ Len(pipe'[p].flushed) <= Parts
        BY <1>3, DealerAssumption DEF Half
      <4> QED BY <1>3, <4>1 DEF Half
    <3> QED BY <1>1, <2>2, <3>1, <3>2, <3>3, HalfKept
  <2>6. AllOrNothing'
    BY <1>3 DEF AllOrNothing
  <2> QED BY <2>3, <2>4, <2>5, <2>6
<1> QED BY <1>5, <1>6

\* Of two pipes, one that goes leaves the turn to the other.
LEMMA TwoPipesTurn ==
  ASSUME AtMostTwo, Types, lb.current < lb.active, NEW p \in Listed(lb), p # Current(lb)
  PROVE  /\ Terminated(lb, p).current < Terminated(lb, p).active
         /\ Current(Terminated(lb, p)) = Current(lb)
<1> DEFINE m == Terminated(lb, p)
           i == Index(lb, p)
<1>1. /\ lb.pipes \in Seq(Pipes) /\ Len(lb.pipes) \in Nat /\ lb.active \in Nat
      /\ lb.current \in Nat /\ lb.active <= Len(lb.pipes)
      /\ \A j, k \in 1 .. Len(lb.pipes) : lb.pipes[j] = lb.pipes[k] => j = k
  BY Fields DEF Types
<1>2. /\ i \in Nat /\ i < Len(lb.pipes) /\ lb.pipes[i + 1] = p
      /\ p \in ActivePipes(lb) <=> i < lb.active
  BY IndexOf DEF Types
<1>3. IF p \in ActivePipes(lb)
      THEN /\ m.active = lb.active - 1
           /\ m.current = (IF lb.current = lb.active - 1 THEN 0 ELSE lb.current)
           /\ \A k \in 1 .. (lb.active - 1) : m.pipes[k] =
                IF k = i + 1 THEN lb.pipes[lb.active] ELSE lb.pipes[k]
      ELSE /\ m.active = lb.active
           /\ m.current = lb.current
           /\ \A k \in 1 .. lb.active : m.pipes[k] = lb.pipes[k]
  BY TerminatedList DEF Types
<1>4. i # lb.current
  BY <1>2 DEF Current
<1> HIDE DEF m, i
<1>5. CASE p \notin ActivePipes(lb)
  <2>1. lb.current + 1 \in 1 .. lb.active
    BY <1>1
  <2> QED BY <1>3, <1>5, <2>1 DEF Current, m
<1>6. CASE p \in ActivePipes(lb)
  <2>1. ~(Len(lb.pipes) >= 3)
    <3> SUFFICES ASSUME Len(lb.pipes) >= 3 PROVE FALSE
      OBVIOUS
    <3>1. 1 \in 1 .. Len(lb.pipes) /\ 2 \in 1 .. Len(lb.pipes) /\ 3 \in 1 .. Len(lb.pipes)
      BY <1>1
    <3>2. lb.pipes[1] \in Pipes /\ lb.pipes[2] \in Pipes /\ lb.pipes[3] \in Pipes
      BY <1>1, <3>1
    <3>3. lb.pipes[1] # lb.pipes[2] /\ lb.pipes[2] # lb.pipes[3] /\ lb.pipes[1] # lb.pipes[3]
      BY <1>1, <3>1
    <3> QED BY <3>2, <3>3 DEF AtMostTwo
  <2>2. lb.active = 2 /\ ((i = 0 /\ lb.current = 1) \/ (i = 1 /\ lb.current = 0))
    BY <1>1, <1>2, <1>4, <1>6, <2>1
  <2>3. m.active = 1 /\ m.current = 0 /\ m.pipes[1] = IF i = 0 THEN lb.pipes[2] ELSE lb.pipes[1]
    BY <1>3, <1>6, <2>2
  <2> QED BY <2>2, <2>3 DEF Current, m
<1> QED BY <1>5, <1>6

\* With two pipes the one that stays is at index 0, or was current already.
LEMMA InvPipeTerminated ==
  ASSUME AtMostTwo, DealerInv, NEW p \in Pipes, PipeTerminated(p)
  PROVE  DealerInv'
<1> USE DEF DealerInv
<1>1. /\ pipe \in [Pipes -> Ends] /\ pipe[p].state # "new"
      /\ pipe' = [pipe EXCEPT ![p] = NewPipe] /\ lb' = Terminated(lb, p)
      /\ dropping' = Drops(p) /\ closed' \subseteq Pipes
      /\ call = "none" /\ UNCHANGED <<call, app>>
  BY DEF PipeTerminated, Idle, Types
<1>2. NewPipe \in Ends /\ NewPipe.state = "new" /\ NewPipe.outActive = TRUE /\ NewPipe.full = FALSE
      /\ NewPipe.unflushed = << >> /\ NewPipe.flushed = << >>
  <2>1. << >> \in Seq(AppParts)
    OBVIOUS
  <2> QED BY <2>1 DEF NewPipe, Ends, PipeStates
<1>3. /\ pipe' \in [Pipes -> Ends] /\ pipe'[p] = NewPipe
      /\ \A q \in Pipes : q # p => pipe'[q] = pipe[q]
  BY <1>1, <1>2
<1>4. p \in Listed(lb)
  BY <1>1 DEF Awake
<1>5. /\ WellFormed(Pipes, lb')
      /\ Listed(lb') = Listed(lb) \ {p}
      /\ ActivePipes(lb') = ActivePipes(lb) \ {p}
      /\ lb'.more = lb.more
  BY <1>1, <1>4, TerminatedList DEF Types
<1>6. /\ dropping \in BOOLEAN /\ dropping' = (dropping \/ (Index(lb, p) = lb.current /\ lb.more))
      /\ lb.pipes[Index(lb, p) + 1] = p
      /\ lb.more \in BOOLEAN
  BY <1>1, <1>4, IndexOf, Fields DEF Drops, Types
<1>7. Types'
  <2>1. dropping' \in BOOLEAN
    BY <1>6
  <2> QED BY <1>1, <1>3, <1>5, <2>1 DEF Types
<1>8. Awake'
  BY <1>1, <1>2, <1>3, <1>5 DEF Awake
<1>9. Half'
  <2>1. lb.more /\ ~dropping /\ p # Current(lb) => Index(lb, p) # lb.current
    BY <1>6 DEF Current
  <2>2. lb.more /\ ~dropping' => ~dropping /\ p # Current(lb)
    <3> SUFFICES ASSUME lb.more, ~dropping', p = Current(lb) PROVE FALSE
      BY <1>6
    <3>1. ~dropping /\ lb.current < lb.active
      BY <1>6 DEF Half
    <3>2. Index(lb, p) # lb.current
      BY <1>6
    <3>3. /\ Index(lb, p) \in Nat /\ Index(lb, p) < Len(lb.pipes)
          /\ lb.current \in Nat /\ lb.active \in Nat /\ lb.active <= Len(lb.pipes) /\ Len(lb.pipes) \in Nat
          /\ \A j, k \in 1 .. Len(lb.pipes) : lb.pipes[j] = lb.pipes[k] => j = k
      BY <1>4, IndexOf, Fields DEF Types
    <3>4. Index(lb, p) + 1 \in 1 .. Len(lb.pipes) /\ lb.current + 1 \in 1 .. Len(lb.pipes)
      BY <3>1, <3>3
    <3>5. Index(lb, p) + 1 = lb.current + 1
      BY <1>6, <3>3, <3>4 DEF Current
    <3> QED BY <3>2, <3>3, <3>5
  <2>3. lb.more /\ ~dropping' => lb'.current < lb'.active /\ Current(lb') = Current(lb)
    BY <1>1, <1>4, <2>2, TwoPipesTurn DEF Half
  <2>4. lb.more /\ ~dropping' => pipe'[Current(lb)] = pipe[Current(lb)]
    <3> SUFFICES ASSUME lb.more, ~dropping' PROVE pipe'[Current(lb)] = pipe[Current(lb)]
      OBVIOUS
    <3>1. Current(lb) \in Pipes
      BY <2>2, CurrentPipe DEF Half
    <3> QED BY <1>3, <2>2, <3>1
  <2>5. \A q \in Pipes : pipe'[q].unflushed # << >> => q # p /\ pipe'[q] = pipe[q]
    BY <1>2, <1>3
  <2>6. ASSUME NEW q \in Pipes, pipe'[q].unflushed # << >>, lb.more, ~dropping, q = Current(lb)
        PROVE  ~dropping'
    BY <1>6, <2>1, <2>5, <2>6
  <2>7. \A q \in Pipes : Len(pipe'[q].unflushed) < Parts /\ Len(pipe'[q].flushed) <= Parts
    <3>1. Len(pipe'[p].unflushed) < Parts /\ Len(pipe'[p].flushed) <= Parts
      BY <1>2, <1>3, DealerAssumption
    <3> QED BY <1>3, <3>1 DEF Half
  <2>8. dropping => dropping'
    BY <1>6
  <2> QED BY <1>1, <1>5, <2>3, <2>4, <2>5, <2>6, <2>7, <2>8, HalfKept
<1>10. AllOrNothing'
  BY <1>2, <1>3 DEF AllOrNothing
<1> QED BY <1>7, <1>8, <1>9, <1>10

\* A message is the part sent next after the parts sent before.
LEMMA MessageParts ==
  ASSUME NEW n \in 0 .. Numbers - 1, NEW k \in 1 .. Parts
  PROVE  /\ Message(n) \in Seq(AppParts) /\ Len(Message(n)) = Parts
         /\ SubSeq(Message(n), 1, k - 1) \in Seq(AppParts)
         /\ Len(SubSeq(Message(n), 1, k - 1)) = k - 1
         /\ Append(SubSeq(Message(n), 1, k - 1), [number |-> n, part |-> k])
              = SubSeq(Message(n), 1, k)
         /\ SubSeq(Message(n), 1, Parts) = Message(n)
<1> DEFINE m == Message(n)
<1>1. Parts \in Nat /\ k \in Nat /\ k - 1 \in Nat
  BY DealerAssumption
<1>2. \A i \in 1 .. Parts : [number |-> n, part |-> i] \in AppParts
  BY DEF AppParts
<1>3. /\ m \in Seq(AppParts) /\ Len(m) = Parts
      /\ m[k] = [number |-> n, part |-> k]
  BY <1>1, <1>2 DEF Message
<1>4. [number |-> n, part |-> k] \in AppParts
  BY <1>2
<1> DEFINE x == [number |-> n, part |-> k]
<1> HIDE DEF m, x
<1>5. /\ SubSeq(m, 1, k - 1) \in Seq(AppParts) /\ Len(SubSeq(m, 1, k - 1)) = k - 1
      /\ SubSeq(m, 1, Parts) = m
  BY <1>1, <1>3
<1>6. Append(SubSeq(m, 1, k - 1), x) = SubSeq(m, 1, k)
  BY <1>1, <1>3, <1>4 DEF x
<1> QED BY <1>3, <1>5, <1>6 DEF m, x

\* The application goes on.
LEMMA NextPart ==
  ASSUME Types, SendsNext
  PROVE  /\ app' \in AppParts
         /\ app = [number |-> app.number, part |-> app.part]
         /\ app.number \in 0 .. Numbers - 1 /\ app.part \in 1 .. Parts
         /\ More => app'.number = app.number /\ app'.part = app.part + 1
         /\ ~More => app'.part = 1 /\ app.part = Parts
<1>1. app \in AppParts /\ Parts \in Nat \ {0} /\ Numbers \in Nat \ {0}
  BY DealerAssumption DEF Types
<1>2. app.number \in 0 .. Numbers - 1 /\ app.part \in 1 .. Parts
      /\ app = [number |-> app.number, part |-> app.part]
  BY <1>1 DEF AppParts
<1>3. CASE More
  <2>1. app.part + 1 \in 1 .. Parts
    BY <1>1, <1>2, <1>3 DEF More
  <2>2. app' = [app EXCEPT !.part = app.part + 1]
    BY <1>3 DEF SendsNext
  <2> QED BY <1>1, <1>2, <1>3, <2>1, <2>2 DEF AppParts
<1>4. CASE ~More
  <2>1. (app.number + 1) % Numbers \in 0 .. Numbers - 1
    BY <1>1, <1>2
  <2>2. app' = [number |-> (app.number + 1) % Numbers, part |-> 1]
    BY <1>4 DEF SendsNext
  <2>3. app.part = Parts /\ 1 \in 1 .. Parts
    BY <1>1, <1>2, <1>4 DEF More
  <2> QED BY <1>2, <1>4, <2>1, <2>2, <2>3 DEF AppParts
<1> QED BY <1>3, <1>4

\* Only the field that says whether a message goes on is assigned.
LEMMA WithMore ==
  ASSUME NEW b \in BOOLEAN, WellFormed(Pipes, lb), lb' = [lb EXCEPT !.more = b]
  PROVE  /\ WellFormed(Pipes, lb') /\ lb'.pipes = lb.pipes /\ lb'.active = lb.active
         /\ lb'.current = lb.current /\ lb'.more = b
         /\ Listed(lb') = Listed(lb) /\ ActivePipes(lb') = ActivePipes(lb)
         /\ Current(lb') = Current(lb)
<1>1. /\ lb' \in PipeLists(Pipes) /\ lb'.pipes = lb.pipes /\ lb'.active = lb.active
      /\ lb'.current = lb.current /\ lb'.more = b
  BY DEF WellFormed, PipeLists
<1> QED BY <1>1 DEF WellFormed, Listed, ActivePipes, Current

\* A part of a message whose pipe is gone is written nowhere.
LEMMA InvDropPart ==
  ASSUME DealerInv, DropPart
  PROVE  DealerInv'
<1> USE DEF DealerInv
<1>1. More \in BOOLEAN
  BY DEF More
<1>2. /\ call = "none" /\ dropping /\ lb' = [lb EXCEPT !.more = More] /\ dropping' = More
      /\ SendsNext /\ UNCHANGED <<call, pipe, closed>>
  BY DEF DropPart, DropsOn, Idle
<1>3. /\ WellFormed(Pipes, lb') /\ Listed(lb') = Listed(lb) /\ ActivePipes(lb') = ActivePipes(lb)
      /\ lb'.more = More
  BY <1>1, <1>2, WithMore DEF Types
<1>4. app' \in AppParts /\ (~More => app'.part = 1)
  BY <1>2, NextPart
<1>5. Types'
  BY <1>1, <1>2, <1>3, <1>4 DEF Types
<1>6. Awake'
  BY <1>2, <1>3 DEF Awake
<1>7. Half'
  <2>1. \A q \in Pipes : pipe[q].unflushed # << >> => pipe[q].state = "term_ack_sent"
    BY <1>2 DEF Half, HalfSentIsCurrent
  <2>2. HalfSentIsCurrent'
    BY <1>2, <2>1 DEF HalfSentIsCurrent
  <2>3. ~dropping' => ~lb'.more /\ app'.part = 1
    BY <1>2, <1>3, <1>4
  <2> QED BY <1>2, <2>2, <2>3 DEF Half
<1>8. AllOrNothing'
  BY <1>2 DEF AllOrNothing
<1> QED BY <1>5, <1>6, <1>7, <1>8

\* The pipe that takes a part has all that was sent before it.
LEMMA WriterHasSent ==
  ASSUME DealerInv, ~dropping, lb.active > 0, CanWrite(Current(lb)), SendsNext
  PROVE  /\ Current(lb) \in Pipes
         /\ pipe[Current(lb)].unflushed = Sent
         /\ Append(pipe[Current(lb)].unflushed, app) = SubSeq(Message(app.number), 1, app.part)
         /\ \A q \in Pipes : pipe[q].unflushed # << >> /\ q # Current(lb) =>
                               pipe[q].state = "term_ack_sent"
<1> USE DEF DealerInv
<1> DEFINE p == Current(lb)
<1>1. p \in Pipes
  BY CurrentPipe
<1>2. pipe[p].state = "active"
  BY DEF CanWrite
<1>3. /\ app = [number |-> app.number, part |-> app.part]
      /\ app.number \in 0 .. Numbers - 1 /\ app.part \in 1 .. Parts
  BY NextPart
<1>4. pipe[p].unflushed = Sent
  <2>1. CASE lb.more
    BY <1>2, <2>1 DEF Half
  <2>2. CASE ~lb.more
    <3>1. pipe[p].unflushed = << >> /\ app.part = 1
      BY <1>1, <1>2, <2>2 DEF Half, HalfSentIsCurrent
    <3>2. Message(app.number) \in Seq(AppParts)
      BY <1>3, MessageParts
    <3>3. SubSeq(Message(app.number), 1, 0) = << >>
      BY <3>2
    <3> QED BY <3>1, <3>3 DEF Sent
  <2> QED BY <2>1, <2>2
<1>5. Append(Sent, app) = SubSeq(Message(app.number), 1, app.part)
  BY <1>3, MessageParts DEF Sent
<1>6. \A q \in Pipes : pipe[q].unflushed # << >> /\ q # p => pipe[q].state = "term_ack_sent"
  BY DEF Half, HalfSentIsCurrent
<1> QED BY <1>1, <1>4, <1>5, <1>6

\* A part goes to the current pipe, and the last one flushes it.
LEMMA InvWritePart ==
  ASSUME DealerInv, WritePart
  PROVE  DealerInv'
<1> USE DEF DealerInv
<1> DEFINE p == Current(lb)
           parts == Append(pipe[p].unflushed, app)
<1>1. /\ ~dropping /\ lb.active > 0 /\ CanWrite(p) /\ SendsNext
      /\ call' = "none" /\ UNCHANGED <<dropping, closed>>
  BY DEF WritePart
<1>2. /\ p \in Pipes /\ pipe[p].unflushed = Sent
      /\ parts = SubSeq(Message(app.number), 1, app.part)
      /\ \A q \in Pipes : pipe[q].unflushed # << >> /\ q # p => pipe[q].state = "term_ack_sent"
  BY <1>1, WriterHasSent
<1>3. /\ app' \in AppParts /\ app.number \in 0 .. Numbers - 1 /\ app.part \in 1 .. Parts
      /\ More => app'.number = app.number /\ app'.part = app.part + 1
      /\ ~More => app'.part = 1 /\ app.part = Parts
  BY <1>1, NextPart
<1>4. /\ pipe[p] \in Ends /\ pipe \in [Pipes -> Ends] /\ pipe[p].unflushed \in Seq(AppParts)
      /\ pipe[p].state = "active" /\ ~pipe[p].full /\ app \in AppParts
  BY <1>1, <1>2, EndFields DEF Types, CanWrite
<1>5. parts \in Seq(AppParts) /\ Len(parts) = app.part
  <2>1. Len(Sent) = app.part - 1
    BY <1>3, MessageParts DEF Sent
  <2>2. parts \in Seq(AppParts) /\ Len(parts) = Len(pipe[p].unflushed) + 1
    BY <1>4
  <2>3. Len(parts) = (app.part - 1) + 1
    BY <1>2, <2>1, <2>2
  <2> QED BY <1>3, <2>2, <2>3
<1>6. WellFormed(Pipes, lb) /\ Parts \in Nat /\ Parts > 0
  BY DealerAssumption DEF Types
<1>7. CASE More /\ pipe' = [pipe EXCEPT ![p].unflushed = parts] /\ lb' = [lb EXCEPT !.more = TRUE]
  <2>1. /\ WellFormed(Pipes, lb') /\ lb'.active = lb.active
        /\ lb'.current = lb.current /\ lb'.more = TRUE
        /\ Listed(lb') = Listed(lb) /\ ActivePipes(lb') = ActivePipes(lb)
        /\ Current(lb') = p
    BY <1>6, <1>7, WithMore
  <2> HIDE DEF p, parts
  <2>2. /\ pipe'[p].unflushed = parts /\ pipe'[p].state = "active" /\ ~pipe'[p].full
        /\ pipe'[p].outActive = pipe[p].outActive /\ pipe'[p].flushed = pipe[p].flushed
        /\ pipe' \in [Pipes -> Ends]
        /\ \A q \in Pipes : q # p => pipe'[q] = pipe[q]
    BY <1>2, <1>4, <1>5, <1>7 DEF Ends
  <2>3. Types'
    BY <1>1, <1>3, <2>1, <2>2 DEF Types
  <2>4. Awake'
    BY <1>1, <1>4, <2>1, <2>2 DEF Awake
  <2>5. lb.current < lb.active
    BY <1>1, <1>6 DEF WellFormed
  <2>6. parts = Sent' /\ app'.part > 1 /\ app.part < Parts
    BY <1>2, <1>3, <1>7 DEF Sent, More
  <2>7. HalfSentIsCurrent'
    <3>1. ASSUME NEW q \in Pipes, pipe'[q].unflushed # << >>, pipe'[q].state # "term_ack_sent"
          PROVE  q = p
      BY <1>2, <2>2, <3>1
    <3> QED BY <1>1, <2>1, <2>2, <2>5, <2>6, <3>1 DEF HalfSentIsCurrent, Sent
  <2>8. \A q \in Pipes : Len(pipe'[q].unflushed) < Parts /\ Len(pipe'[q].flushed) <= Parts
    BY <1>5, <2>2, <2>6 DEF Half
  <2>9. Half'
    BY <1>1, <2>1, <2>2, <2>5, <2>6, <2>7, <2>8 DEF Half
  <2>10. AllOrNothing'
    BY <2>2 DEF AllOrNothing
  <2> QED BY <2>3, <2>4, <2>9, <2>10
<1>8. CASE /\ ~More /\ lb' = NextTurn(lb)
           /\ pipe' = [pipe EXCEPT ![p].unflushed = << >>, ![p].flushed = parts, ![p].full = TRUE]
  <2>1. /\ WellFormed(Pipes, lb') /\ lb'.pipes = lb.pipes /\ lb'.active = lb.active
        /\ lb'.more = FALSE
    BY <1>1, <1>6, <1>8, NextTurnList
  <2>2. Listed(lb') = Listed(lb) /\ ActivePipes(lb') = ActivePipes(lb)
    BY <2>1 DEF Listed, ActivePipes
  <2> HIDE DEF p, parts
  <2>3. /\ pipe'[p].unflushed = << >> /\ pipe'[p].state = "active" /\ pipe'[p].full = TRUE
        /\ pipe'[p].outActive = pipe[p].outActive /\ pipe'[p].flushed = parts
        /\ \A q \in Pipes : q # p => pipe'[q] = pipe[q]
    BY <1>2, <1>4, <1>5, <1>8 DEF Ends
  <2>4. pipe' \in [Pipes -> Ends]
    <3> DEFINE n == << >>
               e == [pipe[p] EXCEPT !.unflushed = n, !.flushed = parts, !.full = TRUE]
    <3>1. n \in Seq(AppParts)
      OBVIOUS
    <3>3. pipe' = [pipe EXCEPT ![p] = e]
      BY <1>2, <1>4, <1>8
    <3> HIDE DEF n
    <3>2. e \in Ends
      BY <1>4, <1>5, <3>1 DEF Ends
    <3> HIDE DEF e
    <3> QED BY <1>2, <1>4, <3>2, <3>3
  <2>5. Types'
    BY <1>1, <1>3, <2>1, <2>4 DEF Types
  <2>6. Awake'
    BY <1>1, <1>4, <2>1, <2>2, <2>3 DEF Awake
  <2>7. HalfSentIsCurrent'
    BY <1>2, <2>3 DEF HalfSentIsCurrent
  <2>8. \A q \in Pipes : Len(pipe'[q].unflushed) < Parts /\ Len(pipe'[q].flushed) <= Parts
    <3>1. Len(pipe'[p].unflushed) < Parts /\ Len(pipe'[p].flushed) <= Parts
      BY <1>3, <1>5, <1>6, <2>3
    <3> QED BY <2>3, <3>1 DEF Half
  <2>9. Half'
    BY <1>3, <1>8, <2>1, <2>7, <2>8 DEF Half
  <2>10. AllOrNothing'
    <3>1. parts = Message(app.number)
      BY <1>2, <1>3, <1>8, MessageParts
    <3> QED BY <1>3, <2>3, <3>1 DEF AllOrNothing
  <2> QED BY <2>5, <2>6, <2>9, <2>10
<1> QED BY <1>7, <1>8 DEF WritePart

\* No active pipe: nothing of the message was sent.
LEMMA InvGiveUp ==
  ASSUME DealerInv, GiveUp
  PROVE  DealerInv'
<1> USE DEF DealerInv
<1> DEFINE p == Current(lb)
<1>1. /\ ~dropping /\ lb.active > 0 /\ ~CanWrite(p) /\ lb.more /\ SendsNext
      /\ pipe' = [Refused(p) EXCEPT ![p] = RolledBack(@)]
      /\ dropping' = More /\ lb' = [lb EXCEPT !.more = FALSE]
      /\ call' = "none" /\ closed' = closed
  BY DEF GiveUp
<1>2. p \in Pipes /\ p \in ActivePipes(lb)
  BY <1>1, CurrentPipe
<1>3. /\ pipe[p] \in Ends /\ pipe \in [Pipes -> Ends] /\ pipe[p].state # "active"
      /\ pipe[p].outActive \in BOOLEAN
  BY <1>1, <1>2, EndFields DEF Types, CanWrite, Awake, Half
<1>4. app' \in AppParts /\ (~More => app'.part = 1) /\ More \in BOOLEAN
  BY <1>1, NextPart DEF More
<1>5. /\ WellFormed(Pipes, lb') /\ Listed(lb') = Listed(lb) /\ ActivePipes(lb') = ActivePipes(lb)
      /\ lb'.more = FALSE
  BY <1>1, WithMore DEF Types
<1>6. Refused(p) = [pipe EXCEPT ![p] = [pipe[p] EXCEPT !.outActive = pipe[p].outActive]]
  BY <1>2, <1>3 DEF Refused
<1> HIDE DEF p
<1> DEFINE e == [pipe[p] EXCEPT !.outActive = pipe[p].outActive]
<1>7. /\ e \in Ends /\ e.state = pipe[p].state /\ e.outActive = pipe[p].outActive
      /\ e.full = pipe[p].full /\ e.flushed = pipe[p].flushed
  BY <1>3 DEF Ends
<1>8. pipe' = [pipe EXCEPT ![p] = RolledBack(e)]
  BY <1>1, <1>2, <1>3, <1>6
<1> HIDE DEF e
<1>9. /\ RolledBack(e) \in Ends /\ RolledBack(e).state = pipe[p].state
      /\ RolledBack(e).outActive = pipe[p].outActive /\ RolledBack(e).full = pipe[p].full
      /\ RolledBack(e).flushed = pipe[p].flushed /\ RolledBack(e).unflushed = << >>
  <2>1. RolledBack(e) \in Ends
    BY <1>7, RolledBackEnd
  <2> QED BY <1>7, <2>1 DEF RolledBack, Ends
<1>10. /\ pipe' \in [Pipes -> Ends] /\ pipe'[p] = RolledBack(e)
       /\ \A q \in Pipes : q # p => pipe'[q] = pipe[q]
  BY <1>2, <1>3, <1>8, <1>9
<1>11. Types'
  BY <1>1, <1>4, <1>5, <1>10 DEF Types
<1>12. Awake'
  <2>1. \A q \in Pipes : /\ pipe'[q].state = pipe[q].state /\ pipe'[q].full = pipe[q].full
                         /\ pipe'[q].outActive = pipe[q].outActive
    BY <1>9, <1>10
  <2> QED BY <1>1, <1>5, <2>1 DEF Awake
<1>13. Half'
  <2>1. HalfSentIsCurrent'
    <3>1. \A q \in Pipes : pipe[q].unflushed # << >> /\ q # p => pipe[q].state = "term_ack_sent"
      BY <1>1 DEF Half, HalfSentIsCurrent, p
    <3> QED BY <1>9, <1>10, <3>1 DEF HalfSentIsCurrent
  <2>2. \A q \in Pipes : Len(pipe'[q].unflushed) < Parts /\ Len(pipe'[q].flushed) <= Parts
    <3>1. Len(pipe'[p].unflushed) < Parts /\ Len(pipe'[p].flushed) <= Parts
      BY <1>2, <1>9, <1>10, DealerAssumption DEF Half
    <3> QED BY <1>10, <3>1 DEF Half
  <2> QED BY <1>1, <1>4, <1>5, <2>1, <2>2 DEF Half
<1>14. AllOrNothing'
  BY <1>2, <1>9, <1>10 DEF AllOrNothing
<1> QED BY <1>11, <1>12, <1>13, <1>14

\* A pipe that cannot be written leaves the active ones; no message is half in it.
LEMMA InvTryNext ==
  ASSUME DealerInv, NEW loop \in {"send", "has_out"}, TryNext(loop)
  PROVE  DealerInv'
<1> USE DEF DealerInv
<1> DEFINE p == Current(lb)
           b == pipe[p].outActive /\ ~(pipe[p].state = "active" /\ pipe[p].full)
           e == [pipe[p] EXCEPT !.outActive = b]
<1>1. /\ ~lb.more /\ lb.active > 0 /\ ~CanWrite(p) /\ pipe' = Refused(p)
      /\ lb' = Deactivated(lb) /\ call' = (IF lb.active > 1 THEN loop ELSE "none")
      /\ UNCHANGED <<dropping, closed, app>>
  BY DEF TryNext
<1>2. p \in Pipes /\ p \in ActivePipes(lb) /\ p \in Listed(lb)
  BY <1>1, CurrentPipe
<1>3. /\ pipe[p] \in Ends /\ pipe \in [Pipes -> Ends] /\ pipe[p].state # "new"
      /\ pipe[p].outActive \in BOOLEAN /\ pipe[p].full \in BOOLEAN
  BY <1>2, EndFields DEF Types, Awake
<1>4. /\ WellFormed(Pipes, lb') /\ Listed(lb') = Listed(lb)
      /\ ActivePipes(lb') = ActivePipes(lb) \ {p}
      /\ lb'.active = lb.active - 1 /\ lb'.more = lb.more
  BY <1>1, DeactivatedList DEF Types
<1>5. pipe' = [pipe EXCEPT ![p] = e]
  BY <1>1, <1>2, <1>3 DEF Refused
<1>6. b \in BOOLEAN
  BY <1>3
<1>7. pipe[p].state = "active" => ~b
  BY <1>1, <1>2, <1>3 DEF CanWrite, Awake
<1> HIDE DEF p, b
<1>8. /\ e \in Ends /\ e.state = pipe[p].state /\ e.outActive = b
      /\ e.unflushed = pipe[p].unflushed /\ e.flushed = pipe[p].flushed /\ e.full = pipe[p].full
  BY <1>3, <1>6 DEF Ends
<1> HIDE DEF e
<1>9. /\ pipe' \in [Pipes -> Ends] /\ pipe'[p] = e
      /\ \A q \in Pipes : q # p => pipe'[q] = pipe[q]
  BY <1>2, <1>3, <1>5, <1>8
<1>10. \A q \in Pipes : /\ pipe'[q].state = pipe[q].state /\ pipe'[q].unflushed = pipe[q].unflushed
                        /\ pipe'[q].flushed = pipe[q].flushed
  BY <1>8, <1>9
<1>11. Types'
  BY <1>1, <1>4, <1>9 DEF Types
<1>12. Awake'
  <2>1. call' # "none" => lb'.active > 0 /\ ~lb'.more
    <3>1. lb.active \in Nat
      BY Fields DEF Types
    <3> QED BY <1>1, <1>4, <3>1
  <2>2. \A q \in Pipes : pipe'[q].state = "active" => (pipe'[q].outActive <=> q \in ActivePipes(lb'))
    BY <1>4, <1>7, <1>8, <1>9 DEF Awake
  <2>3. \A q \in Pipes : pipe'[q].state = "new" => pipe'[q].outActive /\ ~pipe'[q].full
    BY <1>3, <1>8, <1>9 DEF Awake
  <2> QED BY <1>4, <1>10, <2>1, <2>2, <2>3 DEF Awake
<1>13. Half'
  BY <1>1, <1>4, <1>10 DEF Half, HalfSentIsCurrent
<1>14. AllOrNothing'
  BY <1>10 DEF AllOrNothing
<1> QED BY <1>11, <1>12, <1>13, <1>14

\* Every step keeps the invariant when there are at most two pipes.
LEMMA InvStep ==
  ASSUME AtMostTwo, DealerInv, [Next]_vars
  PROVE  DealerInv'
<1>1. ASSUME UNCHANGED <<lb, dropping, pipe, app>>, closed' \subseteq Pipes,
             call' = call \/ call' = "none"
      PROVE  DealerInv'
  <2>1. Types' /\ Awake' /\ AllOrNothing'
    BY <1>1 DEF DealerInv, Types, Awake, AllOrNothing
  <2>2. Half'
    BY <1>1 DEF DealerInv, Half, Sent, HalfSentIsCurrent, Current, Message
  <2> QED BY <2>1, <2>2 DEF DealerInv
<1>2. CASE UNCHANGED vars
  BY <1>1, <1>2 DEF vars, DealerInv, Types
<1>3. CASE HasOut
  BY <1>1, <1>3 DEF HasOut, DealerInv, Types
<1>4. CASE Send
  BY <1>4, InvDropPart, InvWritePart, InvGiveUp, InvTryNext DEF Send
<1>5. CASE TryNext("has_out")
  BY <1>5, InvTryNext
<1>6. ASSUME NEW p \in Pipes, Event(p)
      PROVE  DealerInv'
  <2>1. CASE PeerCloses(p)
    BY <1>1, <2>1 DEF PeerCloses, DealerInv, Types
  <2> QED BY <1>6, <2>1, InvAttach, InvWriteActivated, InvProcess, InvPipeTerminated DEF Event
<1> QED BY <1>2, <1>3, <1>4, <1>5, <1>6 DEF Next

\* The inductive invariant holds throughout.
LEMMA DealerInvariance ==
  ASSUME AtMostTwo
  PROVE  Spec => []DealerInv
<1>1. DealerInv /\ [Next]_vars => DealerInv'
  BY InvStep
<1> QED BY InvInit, <1>1, PTL DEF Spec

\* "Peers shall receive either all message parts of a message or none at all":
\* a socket with one or two connections keeps that promise of zmq_msg_send,
\* whatever the length of the messages and however its pipes come and go.
THEOREM WholeMessagesDealt ==
  ASSUME AtMostTwo
  PROVE  Spec => []AllOrNothing
<1>1. DealerInv => AllOrNothing
  BY DEF DealerInv
<1> QED BY <1>1, DealerInvariance, PTL

\* What was sent of a message is in the current pipe and nowhere else.
THEOREM NothingLeftBehind ==
  ASSUME AtMostTwo
  PROVE  Spec => []HalfSentIsCurrent
<1>1. DealerInv => HalfSentIsCurrent
  BY DEF DealerInv, Half
<1> QED BY <1>1, DealerInvariance, PTL

\* lb_t passes over no writable pipe for good, is never told to activate a pipe
\* that is active, and keeps its turn and its counter inside the array.
THEOREM NoPipePassedOver ==
  ASSUME AtMostTwo
  PROVE  Spec => []WritableIsActive
<1>1. DealerInv => WritableIsActive
  <2> SUFFICES ASSUME DealerInv PROVE WritableIsActive
    OBVIOUS
  <2>1. /\ lb \in PipeLists(Pipes) /\ lb.active <= Len(lb.pipes)
        /\ lb.current < lb.active \/ lb.current = 0
    BY DEF DealerInv, Types, WellFormed
  <2>2. \A p \in Pipes : pipe[p].state \in PipeStates
    BY EndFields DEF DealerInv
  <2>3. TypeOK
    BY <2>1, <2>2 DEF DealerInv, Types, Half, TypeOK, PipeStates, AppParts
  <2>4. Listed(lb) \subseteq Pipes
    <3>1. lb.pipes \in Seq(Pipes)
      BY <2>1 DEF PipeLists
    <3> QED BY <3>1 DEF Listed
  <2> QED BY <2>3, <2>4 DEF DealerInv, Awake, WritableIsActive
<1> QED BY <1>1, DealerInvariance, PTL
=============================================================================
