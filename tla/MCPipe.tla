------------------------------- MODULE MCPipe -------------------------------
(* A SUB socket, end 1, that writes to the session of its connection, end  *)
(* 2, which reconnects; the other direction carries delimiters only.       *)
EXTENDS Pipe, TLC
CONSTANT none
MCHwm == 1 :> 2 @@ 2 :> 5
MCWrites == 1 :> {"more", "last"} @@ 2 :> {}
MCMaxMessages == 1 :> 3 @@ 2 :> 0
=============================================================================
