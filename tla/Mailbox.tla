------------------------------ MODULE Mailbox ------------------------------
(***************************************************************************)
(* mailbox_t (ExternalLib/libzmq/src/mailbox.cpp) with its signaler        *)
(* (signaler.cpp): the commands that the threads of a ZeroMQ process send  *)
(* to the thread that owns a socket.  Every thread may send; one receives, *)
(* and destroys the mailbox once it has got the last command it waits for. *)
(* The command pipe is the queue that YPipe is shown to implement for one  *)
(* writer.  Here several threads write to it, so a write is taken apart    *)
(* where a second writer would do harm: ypipe_t::write stores the command  *)
(* in the slot of the terminator, and then pushes a new terminator.        *)
(***************************************************************************)
EXTENDS FlushQueue, FiniteSets

CONSTANTS Senders,   \* the threads that send commands
          PerSender, \* bound: how many commands each of them sends
          NoThread   \* the mutex is free

ASSUME MailboxAssumption == /\ PerSender \in Nat \ {0}
                            /\ IsFiniteSet(Senders)
                            /\ NoThread \notin Senders \cup {"receiver"}

Commands == Senders \X (1 .. PerSender)

\* What the slot of the first terminator holds: nothing that was sent.
NoCommand == <<NoThread, 0>>

VARIABLES
  cpipe,    \* _cpipe
  back,     \* what its last slot, the terminator, holds
  sync,     \* _sync: the thread that holds the mutex, or NoThread
  sending,  \* where each sender is in send
  sent,     \* how many commands each sender has written
  active,   \* _active
  signals,  \* the count of the eventfd the signaler is
  receiving,\* where the receiver is in recv
  received  \* the commands recv has returned

vars == <<cpipe, back, sync, sending, sent, active, signals, receiving, received>>

\* The constructor: check_read puts the pipe into its passive state.
Init ==
    /\ cpipe = CheckedEmpty(EmptyQueue)
    /\ back = NoCommand
    /\ sync = NoThread
    /\ sending = [s \in Senders |-> "idle"]
    /\ sent = [s \in Senders |-> 0]
    /\ active = FALSE
    /\ signals = 0
    /\ receiving = "recv"
    /\ received = << >>

\* Mutants: the destructor, or send, does not wait for the mutex.
CanLockDestroying(t) == t = "receiver" \/ sync = NoThread
CanLockSending(t) == t # "receiver" \/ sync = NoThread

\* mutex_t::lock can be taken by t.
CanLock(t) == sync = NoThread
-----------------------------------------------------------------------------
\* send: lock, write (Store and Push) and flush.  The flush is the step at which
\* the receiver can see the command.
Lock(s) ==
    /\ sending[s] = "idle"
    /\ sent[s] < PerSender
    /\ CanLock(s)
    /\ sync' = s
    /\ sending' = [sending EXCEPT ![s] = "write"]
    /\ UNCHANGED <<cpipe, back, sent, active, signals, receiving, received>>

\* ypipe_t::write stores the command in the slot at the back of the queue,
Store(s) ==
    /\ sending[s] = "write"
    /\ back' = <<s, sent[s] + 1>>
    /\ sending' = [sending EXCEPT ![s] = "push"]
    /\ UNCHANGED <<cpipe, sync, sent, active, signals, receiving, received>>

\* and pushes: whatever that slot holds by now is an item of the queue.
Push(s) ==
    /\ sending[s] = "push"
    /\ cpipe' = Written(cpipe, back, FALSE)
    /\ sent' = [sent EXCEPT ![s] = @ + 1]
    /\ sending' = [sending EXCEPT ![s] = "flush"]
    /\ UNCHANGED <<back, sync, active, signals, receiving, received>>

\* Mutants: what flush returns is not looked at, or taken for its opposite.
AfterFlushAlways == "unlockAndSignal"
AfterFlushNever == "unlock"

\* A flush that returns false is followed by a signal.
AfterFlush == IF FlushWakes(cpipe) THEN "unlockAndSignal" ELSE "unlock"

Flush(s) ==
    /\ sending[s] = "flush"
    /\ cpipe' = Flushed(cpipe)
    /\ sending' = [sending EXCEPT ![s] = AfterFlush]
    /\ UNCHANGED <<back, sync, sent, active, signals, receiving, received>>

Unlock(s) ==
    /\ sending[s] \in {"unlock", "unlockAndSignal"}
    /\ sync' = NoThread
    /\ sending' = [sending EXCEPT ![s] = IF @ = "unlock" THEN "idle" ELSE "signal"]
    /\ UNCHANGED <<cpipe, back, sent, active, signals, receiving, received>>

\* The signaler's send, after the mutex has been given back.
Signal(s) ==
    /\ sending[s] = "signal"
    /\ signals' = signals + 1
    /\ sending' = [sending EXCEPT ![s] = "idle"]
    /\ UNCHANGED <<cpipe, back, sync, sent, active, receiving, received>>
-----------------------------------------------------------------------------
\* recv returns the command it reads.
Returns ==
    /\ CanRead(cpipe)
    /\ received' = Append(received, Head(cpipe.flushed))
    /\ cpipe' = Popped(cpipe)
    /\ receiving' = "recv"

\* recv in the active state: it reads, or finds nothing and turns passive.
Recv ==
    /\ receiving = "recv" /\ active
    /\ \/ /\ Returns
          /\ UNCHANGED active
       \/ /\ ~CanRead(cpipe)
          /\ cpipe' = CheckedEmpty(cpipe)
          /\ active' = FALSE
          /\ UNCHANGED <<receiving, received>>
    /\ UNCHANGED <<back, sync, sending, sent, signals>>

\* recv in the passive state waits for a signal and takes it (the eventfd is
\* read as a whole and what exceeds one is put back).  A wait that times out
\* returns -1 and changes nothing.
TakeSignal ==
    /\ receiving = "recv" /\ ~active
    /\ signals > 0
    /\ signals' = signals - 1
    /\ active' = TRUE
    /\ receiving' = "signalled"
    /\ UNCHANGED <<cpipe, back, sync, sending, sent, received>>

\* After the signal there must be a command: zmq_assert (ok).
RecvSignalled ==
    /\ receiving = "signalled"
    /\ IF CanRead(cpipe) THEN Returns
       ELSE /\ receiving' = "aborted"
            /\ UNCHANGED <<cpipe, received>>
    /\ UNCHANGED <<back, sync, sending, sent, active, signals>>

\* The destructor: when the last command has come the receiver takes and
\* gives back the mutex, and the mailbox is gone.
Destroy ==
    /\ receiving = "recv"
    /\ Len(received) = PerSender * Cardinality(Senders)
    /\ CanLock("receiver")
    /\ receiving' = "destroyed"
    /\ UNCHANGED <<cpipe, back, sync, sending, sent, active, signals, received>>

Send(s) == Lock(s) \/ Store(s) \/ Push(s) \/ Flush(s) \/ Unlock(s) \/ Signal(s)
Receive == Recv \/ TakeSignal \/ RecvSignalled \/ Destroy

Next == Receive \/ \E s \in Senders : Send(s)

\* Fairness: every thread goes on when it can.
Fairness == WF_vars(Receive) /\ \A s \in Senders : WF_vars(Send(s))

Spec == Init /\ [][Next]_vars /\ Fairness
-----------------------------------------------------------------------------
TypeOK ==
    /\ cpipe \in Queues(Commands)
    /\ back \in Commands \cup {NoCommand}
    /\ sync \in Senders \cup {NoThread}
    /\ sending \in [Senders -> {"idle", "write", "push", "flush", "unlock",
                                "unlockAndSignal", "signal"}]
    /\ sent \in [Senders -> 0 .. PerSender]
    /\ active \in BOOLEAN
    /\ signals \in Nat
    /\ receiving \in {"recv", "signalled", "aborted", "destroyed"}
    /\ received \in Seq(Commands)

Owes(s) == sending[s] \in {"unlockAndSignal", "signal"}

\* A wake-up is neither lost nor given twice: when the receiver is passive and
\* a command is in the pipe, there is exactly one signal, in the eventfd or in
\* the hands of one sender, and in every other case there is none.  Hence the
\* assertion after the signal (mailbox.cpp:99) holds, however many senders
\* pass between a flush and its signal.  (TypeOK is the part of it about types.)
OneWakeUp ==
    LET owing == {s \in Senders : Owes(s)} IN
    /\ TypeOK
    /\ receiving # "aborted"
    /\ receiving = "signalled" => CanRead(cpipe)
    /\ IF ~active /\ CanRead(cpipe)
         THEN \/ signals = 1 /\ owing = {}
              \/ signals = 0 /\ \E s \in Senders : owing = {s}
         ELSE signals = 0 /\ owing = {}

\* No thread is inside send any more when the mailbox is destroyed: the mutex
\* in the destructor (mailbox.cpp:50) and the signal being given after unlock
\* do not let a sender touch a mailbox that is gone.
NobodyInSend == receiving = "destroyed" => \A s \in Senders : sending[s] = "idle"

\* The commands of each sender are received in the order they were sent, each
\* of them once and none left out, although every thread writes to the same
\* slot at the back of the pipe: no sender pushes what another one has put
\* there (mailbox.cpp:61, the mutex that ypipe_t asks its users for).
InOrder ==
    /\ \A i, j \in 1 .. Len(received) :
         i < j /\ received[i][1] = received[j][1] => received[i][2] < received[j][2]
    /\ \A i \in 1 .. Len(received) : \A n \in 1 .. received[i][2] :
         \E j \in 1 .. i : received[j] = <<received[i][1], n>>

\* Every command is received, and the mailbox can go: no wake-up is lost.
AllReceived == <>(receiving = "destroyed")
=============================================================================
