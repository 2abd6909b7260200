----------------------------- MODULE WakeQueue -----------------------------
(***************************************************************************)
(* What ypipe_t promises to its two users, one writer and one reader, as a *)
(* state machine over FlushQueue: YPipe implements it, and the mailbox and *)
(* the message pipes are modelled on its operations.                       *)
(***************************************************************************)
EXTENDS FlushQueue

CONSTANTS Items,   \* what is written into the queue
          Partial, \* the items that are written as incomplete ones
          Nothing  \* no item has been read yet

VARIABLES queue,  \* the queue
          awake,  \* whether the reader has been told, or never needed to be
          owed,   \* the writer has been told to wake the reader up
          read    \* the item read last

vars == <<queue, awake, owed, read>>

Init == /\ queue = EmptyQueue
        /\ awake = TRUE
        /\ owed = FALSE
        /\ read = Nothing

Write == \E item \in Items :
            /\ queue' = Written(queue, item, item \in Partial)
            /\ UNCHANGED <<awake, owed, read>>

Unwrite == /\ CanUnwrite(queue)
           /\ queue' = Unwritten(queue)
           /\ UNCHANGED <<awake, owed, read>>

Flush == /\ queue.complete > 0
         /\ queue' = Flushed(queue)
         /\ owed' = (owed \/ FlushWakes(queue))
         /\ UNCHANGED <<awake, read>>

Read == /\ awake
        /\ CanRead(queue)
        /\ read' = Head(queue.flushed)
        /\ queue' = Popped(queue)
        /\ UNCHANGED <<awake, owed>>

FallAsleep == /\ awake
              /\ ~CanRead(queue)
              /\ queue' = CheckedEmpty(queue)
              /\ awake' = FALSE
              /\ UNCHANGED <<owed, read>>

WakeUp == /\ owed
          /\ owed' = FALSE
          /\ awake' = TRUE
          /\ UNCHANGED <<queue, read>>

Next == Write \/ Unwrite \/ Flush \/ Read \/ FallAsleep \/ WakeUp

\* The reader reads again and again while there is something to read and it
\* is awake, and it is woken up when the writer owes it.
Spec == Init /\ [][Next]_vars /\ WF_vars(Read) /\ WF_vars(WakeUp)
=============================================================================
