------------------------------ MODULE PipeList -----------------------------
(***************************************************************************)
(* The list of pipes that fq_t and lb_t (ExternalLib/libzmq/src/fq.cpp and *)
(* lb.cpp) keep in an array_t (array.hpp): the first "active" pipes are    *)
(* the ones worth trying, "current" is the index, from 0, of the one whose *)
(* turn it is, and "more" says that a message is half read or written.     *)
(***************************************************************************)
EXTENDS Naturals, Sequences

PipeLists(Pipe) == [pipes : Seq(Pipe), active : Nat, current : Nat, more : BOOLEAN]

EmptyList == [pipes |-> << >>, active |-> 0, current |-> 0, more |-> FALSE]

Listed(l) == {l.pipes[i] : i \in 1 .. Len(l.pipes)}
ActivePipes(l) == {l.pipes[i] : i \in 1 .. l.active}
Current(l) == l.pipes[l.current + 1]

\* array_t::index and array_t::swap, with the indices of array_t.
Index(l, p) == (CHOOSE i \in 1 .. Len(l.pipes) : l.pipes[i] = p) - 1
Swapped(s, i, j) == [s EXCEPT ![i + 1] = s[j + 1], ![j + 1] = s[i + 1]]

\* array_t::erase: the last pipe takes the place of the one that goes.
Erased(s, i) == SubSeq([s EXCEPT ![i + 1] = s[Len(s)]], 1, Len(s) - 1)

\* Mutant: the pipe stays where it is.
ActivatedInPlace(l, p) == [l EXCEPT !.active = @ + 1]

\* fq_t::activated, lb_t::activated.
Activated(l, p) == [l EXCEPT !.pipes = Swapped(@, Index(l, p), l.active),
                             !.active = @ + 1]

\* fq_t::attach, lb_t::attach.
Attached(l, p) == Activated([l EXCEPT !.pipes = Append(@, p)], p)

\* The current pipe leaves the active ones: the last of them takes its place.
Deactivated(l) ==
    [l EXCEPT !.active = @ - 1,
              !.pipes = Swapped(@, l.current, l.active - 1),
              !.current = IF @ = l.active - 1 THEN 0 ELSE @]

\* fq_t::pipe_terminated, and lb_t::pipe_terminated but for _dropping.
Terminated(l, p) ==
    LET i == Index(l, p)
        deactivated == [l EXCEPT !.active = @ - 1,
                                 !.pipes = Swapped(@, i, l.active - 1),
                                 !.current = IF @ = l.active - 1 THEN 0 ELSE @]
        kept == IF i < l.active THEN deactivated ELSE l
    IN [kept EXCEPT !.pipes = Erased(@, Index(kept, p))]

\* Mutant: the turn stays.
NextTurnStays(l) == [l EXCEPT !.more = FALSE]

\* The end of a message: the turn of the next active pipe.
NextTurn(l) == [l EXCEPT !.current = (@ + 1) % l.active, !.more = FALSE]
=============================================================================
