---------------------------- MODULE MCComuFrame ----------------------------
(***************************************************************************)
(* Small instances of ComuFrame for TLC.                                   *)
(***************************************************************************)
EXTENDS ComuFrame

CONSTANTS n1, n2, n3, n4, d1, d2, t1, t2

\* Every node in a process of its own.
OwnProcess == [n \in Nodes |-> n]
\* tests/LaunchNode.cpp: one process for all nodes.
OneProcess == [n \in Nodes |-> n1]

\* Every node publishes on a port of its own.
OwnPort == [n \in Nodes |-> n]
\* Config/NodeTest1.yaml and NodeTest2.yaml: the same pubPort.
SamePort == [n \in Nodes |-> n1]

\* Every node requests something; one node requests nothing (it has no
\* configuration file).
AllRequest == [n \in Nodes |-> IF n = n1 THEN {d1} ELSE {d1, d2}]
OneDefault == [n \in Nodes |-> IF n = n1 THEN {} ELSE {d1, d2}]

\* Answers to a request for nothing are empty; others list one or two packets.
SomeAnswers == [r \in SUBSET Data |->
                  IF r = {} THEN {<<>>}
                  ELSE IF r = {d1} THEN {<<t1>>}
                  ELSE {<<t1, t2>>}]

\* The same, but the answer to a request may be empty.
SparseAnswers == [r \in SUBSET Data |-> IF r = {d1} THEN {<<>>, <<t1>>} ELSE SomeAnswers[r]]
=============================================================================
