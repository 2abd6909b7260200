------------------------------ MODULE MCYPipe ------------------------------
(* Items that end a message and items that more of it follows, chunks of   *)
(* two slots and four addresses for them.                                  *)
EXTENDS YPipe
CONSTANTS end, more, k1, k2, k3, k4, none
MCItems == {end, more}
MCPartial == {more}
MCChunks == {k1, k2, k3, k4}
=============================================================================
