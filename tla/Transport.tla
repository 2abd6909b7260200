----------------------------- MODULE Transport -----------------------------
(***************************************************************************)
(* The ZeroMQ sockets between Central (one ROUTER) and the nodes (one      *)
(* DEALER each), and the operating-system processes the nodes run in, as   *)
(* the code of ComuFrame/ uses them.                                       *)
(*                                                                         *)
(* A connection is a pair of FIFO queues: up[n] holds what node n sent and *)
(* Central has not read, down[n] the reverse; a message in flight is in    *)
(* its queue.  A DEALER queues what it sends before its peer is bound.     *)
(* A send is one step: the sockets block, so sendStrMSG's loop over failed *)
(* sends is never entered.                                                 *)
(***************************************************************************)
EXTENDS Naturals, Sequences, FiniteSets

CONSTANTS Nodes,      \* node identities (the DEALERs' routing ids)
          Processes,  \* the processes that host nodes (tests/LaunchNode.cpp: one for two)
          ProcessOf   \* which process a node runs in

ASSUME TransportAssumption ==
  /\ IsFiniteSet(Nodes)
  /\ ProcessOf \in [Nodes -> Processes]

VARIABLES up,     \* node -> messages sent to Central: [state, data] pairs
          down,   \* node -> messages sent by Central: sequences of parts
          exited  \* the processes that have terminated

transportVars == <<up, down, exited>>

Alive(n) == ProcessOf[n] \notin exited

\* What a node's message carries after its routing id: the sender's state
\* and a payload (the YAML of its packets, the YAML of its requests, or text).
Payload == { "sendingPackets", "requestedData", "subscribed" }
UpMessage == [state : {"registration", "syncronization"}, data : Payload]

TransportInit ==
  /\ up = [n \in Nodes |-> <<>>]
  /\ down = [n \in Nodes |-> <<>>]
  /\ exited = {}

\* up after node n sends [state, data] on its DEALER.
Dealt(n, state, data) ==
  [up EXCEPT ![n] = Append(@, [state |-> state, data |-> data])]

\* up after Central reads the oldest message of node n.
Taken(n) == [up EXCEPT ![n] = Tail(@)]

\* down after Central sends `parts` to every node of `dest`.  The ROUTER drops
\* what it cannot route, and a message that is a routing id and nothing else.
Routed(dest, parts) ==
  [n \in Nodes |-> IF n \in dest /\ Alive(n) /\ parts # <<>>
                   THEN Append(down[n], parts) ELSE down[n]]

\* down after node n reads its oldest message.
Fetched(n) == [down EXCEPT ![n] = Tail(@)]

\* Process p terminates: all its nodes stop; Central may still receive any
\* prefix of what they had sent.
ExitProcess(p) ==
  /\ exited' = exited \cup {p}
  /\ down' = [n \in Nodes |-> IF ProcessOf[n] = p THEN <<>> ELSE down[n]]
  /\ \E kept \in [Nodes -> UNION {0..Len(up[n]) : n \in Nodes}] :
       /\ \A n \in Nodes : /\ kept[n] <= Len(up[n])
                           /\ ProcessOf[n] # p => kept[n] = Len(up[n])
       /\ up' = [n \in Nodes |-> SubSeq(up[n], 1, kept[n])]
=============================================================================
