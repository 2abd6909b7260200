----------------------------- MODULE FlushQueue ----------------------------
(***************************************************************************)
(* The queue of ypipe_t (ExternalLib/libzmq/src/ypipe.hpp) as its users    *)
(* see it: a FIFO into which the writer puts items in two steps, write and *)
(* flush, from which it can take an incomplete item back, and that says    *)
(* once when a flush finds the reader asleep.                              *)
(***************************************************************************)
EXTENDS Naturals, Sequences

\* A queue: the items the reader may read, the items written but not flushed,
\* how many of those end a complete item, and whether the reader has found
\* the queue empty and was not told otherwise since.
Queues(Item) == [flushed : Seq(Item), unflushed : Seq(Item),
                 complete : Nat, asleep : BOOLEAN]

EmptyQueue == [flushed |-> << >>, unflushed |-> << >>,
               complete |-> 0, asleep |-> FALSE]

\* ypipe_t::write.
Written(q, item, incomplete) ==
    [q EXCEPT !.unflushed = Append(@, item),
              !.complete = IF incomplete THEN @ ELSE Len(q.unflushed) + 1]

\* ypipe_t::unwrite, which succeeds only on an item no complete one follows.
CanUnwrite(q) == q.complete < Len(q.unflushed)
Unwritten(q) ==
    [q EXCEPT !.unflushed = SubSeq(@, 1, Len(@) - 1)]

\* ypipe_t::flush; it returns false, and the caller must wake the reader up,
\* exactly when it flushes something while the reader is asleep.
FlushWakes(q) == q.complete > 0 /\ q.asleep
Flushed(q) ==
    IF q.complete = 0 THEN q
    ELSE [flushed |-> q.flushed \o SubSeq(q.unflushed, 1, q.complete),
          unflushed |-> SubSeq(q.unflushed, q.complete + 1, Len(q.unflushed)),
          complete |-> 0, asleep |-> FALSE]

\* ypipe_t::check_read, ypipe_t::read.
CanRead(q) == q.flushed # << >>
CheckedEmpty(q) == [q EXCEPT !.asleep = TRUE]
Popped(q) == [q EXCEPT !.flushed = Tail(@)]
=============================================================================
