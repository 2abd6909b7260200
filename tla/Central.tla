------------------------------ MODULE Central ------------------------------
(***************************************************************************)
(* ComuFrame/Central.cpp: the service thread, which registers the expected *)
(* number of nodes, collects and answers one data request per node and     *)
(* then releases all nodes together, and the wait of the main thread for   *)
(* it.  The local variables of the service thread are state here because   *)
(* they live as long as the thread.                                        *)
(***************************************************************************)
EXTENDS Transport, Functions, Fsm

CONSTANTS expectedClient, \* how many nodes Central waits for (Central.yaml)
          Data,           \* names of data, as "name_type"
          RequestedData,  \* node -> the data its configuration requests
          Topics,         \* what an answer lists: packet names, or the "can't find" text
          Answers         \* request -> the lists DataBase::providePackets may return

\* The fixed words of Central's messages; packet names ("name_sender") and the
\* "can't find" text are none of them.
Words == {"connected", "registration", "syncronization", "AllSubscribed"}

ASSUME CentralAssumption ==
  /\ expectedClient \in Nat
  /\ RequestedData \in [Nodes -> SUBSET Data]
  /\ Answers \in [SUBSET Data -> SUBSET Seq(Topics)]
  /\ Words \cap Topics = {}

VARIABLES
  serviceThread,        \* where the service thread is
  centralState,         \* Central::state
  connectedClients,     \* the vector of registered nodes
  requestMap,           \* node -> data it requested, for the nodes that asked
  unanswered,           \* what the answering loop has still to visit
  pollExpired,          \* the last poll of the request loop ran into its timeout
  toCheckSubscriptions, \* clients that have not confirmed their subscriptions
  serviceChannel,       \* inproc://serviceChannel, service thread to main thread
  mainThread            \* "waiting" for the service thread, then "polling"

centralVars == <<serviceThread, centralState, connectedClients, requestMap,
                 unanswered, pollExpired, toCheckSubscriptions,
                 serviceChannel, mainThread>>

CentralInit ==
  /\ serviceThread = "binding"
  /\ centralState = "Registration"
  /\ connectedClients = <<>>
  /\ requestMap = [n \in {} |-> {}]
  /\ unanswered = {}
  /\ pollExpired = FALSE
  /\ toCheckSubscriptions = <<>>
  /\ serviceChannel = <<>>
  /\ mainThread = "waiting"

Clients == Range(connectedClients)

\* The service thread binds its sockets and enters registerClient.
Bind ==
  /\ serviceThread = "binding"
  /\ serviceThread' = "registering"
  /\ UNCHANGED <<transportVars, centralState, connectedClients, requestMap,
                 unanswered, pollExpired, toCheckSubscriptions,
                 serviceChannel, mainThread>>

\* registerClient's test for a node that is already in the vector.
KnownNever(n) == FALSE
Known(n) == n \in Clients

\* One round of registerClient: a node already in the vector is confirmed
\* again, whatever it sent; a new one is added when it is in Central's state,
\* and is told Central's state otherwise.
RegisterClient(n) ==
  /\ serviceThread = "registering"
  /\ Len(connectedClients) < expectedClient
  /\ up[n] # <<>>
  /\ LET fresh == ~Known(n) /\ Head(up[n]).state = toString[centralState]
     IN /\ connectedClients' =
             IF fresh THEN Append(connectedClients, n) ELSE connectedClients
        /\ down' = Routed({n}, << IF Known(n) \/ fresh THEN "connected"
                                  ELSE toString[centralState] >>)
  /\ up' = Taken(n)
  /\ UNCHANGED <<exited, serviceThread, centralState, requestMap, unanswered,
                 pollExpired, toCheckSubscriptions, serviceChannel, mainThread>>

\* registerClient returns; the new state is announced to every client.
EndRegistration ==
  /\ serviceThread = "registering"
  /\ Len(connectedClients) >= expectedClient
  /\ centralState' = nextState(centralState)
  /\ down' = Routed(Clients, <<toString[centralState'], toString[centralState']>>)
  /\ serviceThread' = "requests"
  /\ UNCHANGED <<up, exited, connectedClients, requestMap, unanswered, pollExpired,
                 toCheckSubscriptions, serviceChannel, mainThread>>

\* YAML::Load of a request: requestedData is a map of data; any plain text is
\* a scalar, and iterating over a scalar yields nothing.
ParseRequest(n, data) == IF data = "requestedData" THEN RequestedData[n] ELSE {}

\* The request loop's test of a message (and a form without the state).
IsRequestAnyState(n) == n \notin DOMAIN requestMap
IsRequest(n) ==
  /\ Head(up[n]).state = toString[centralState]
  /\ n \notin DOMAIN requestMap

\* The request loop takes the first message each node sends in Central's state;
\* the loop ends when it has as many requests as there are clients.
AcceptRequest(n) ==
  /\ serviceThread = "requests"
  /\ up[n] # <<>>
  /\ IsRequest(n)
  /\ requestMap' = [m \in DOMAIN requestMap \cup {n} |->
                      IF m = n THEN ParseRequest(n, Head(up[n]).data)
                      ELSE requestMap[m]]
  /\ IF Cardinality(DOMAIN requestMap') = Len(connectedClients)
     THEN serviceThread' = "answering" /\ unanswered' = DOMAIN requestMap'
     ELSE UNCHANGED <<serviceThread, unanswered>>
  /\ pollExpired' = FALSE
  /\ up' = Taken(n)
  /\ UNCHANGED <<down, exited, centralState, connectedClients,
                 toCheckSubscriptions, serviceChannel, mainThread>>

\* Anything else that arrives during the request loop is discarded.
DiscardMessage(n) ==
  /\ serviceThread = "requests"
  /\ up[n] # <<>>
  /\ ~IsRequest(n)
  /\ pollExpired' = FALSE
  /\ up' = Taken(n)
  /\ UNCHANGED <<down, exited, serviceThread, centralState, connectedClients,
                 requestMap, unanswered, toCheckSubscriptions, serviceChannel,
                 mainThread>>

\* Ten seconds without a message: the loop logs "sending registration again"
\* and polls once more.
RequestTimeout ==
  /\ serviceThread = "requests"
  /\ pollExpired' = TRUE
  /\ UNCHANGED <<transportVars, serviceThread, centralState, connectedClients,
                 requestMap, unanswered, toCheckSubscriptions, serviceChannel,
                 mainThread>>

\* One round of the loop over requestMap (an unordered map: any order).  After
\* the last, the main thread is told and every client is still to be checked.
Answer(n) ==
  /\ serviceThread = "answering"
  /\ n \in unanswered
  /\ \E answer \in Answers[requestMap[n]] : down' = Routed({n}, answer)
  /\ unanswered' = unanswered \ {n}
  /\ IF unanswered' = {}
     THEN /\ serviceThread' = "checking"
          /\ serviceChannel' = Append(serviceChannel, "syncronization Completed")
          /\ toCheckSubscriptions' = connectedClients
     ELSE UNCHANGED <<serviceThread, serviceChannel, toCheckSubscriptions>>
  /\ UNCHANGED <<up, exited, centralState, connectedClients, requestMap, pollExpired,
                 mainThread>>

\* A vector without its i-th element.
Erase(vector, i) ==
  [j \in 1..(Len(vector) - 1) |-> IF j < i THEN vector[j] ELSE vector[j + 1]]

\* The checking loop's test of a message.
Confirms(n) ==
  /\ Head(up[n]).state = "syncronization"
  /\ n \in Range(toCheckSubscriptions)

\* Whom the checking loop releases when it has `left` clients to check and n
\* has just confirmed (and forms that stop early or tell only the last one).
ReleasedEarly(n, left) == IF left <= 1 THEN Clients ELSE {}
ReleasedLast(n, left) == IF left = 0 THEN {n} ELSE {}
ReleasedBy(n, left) == IF left = 0 THEN Clients ELSE {}

\* A message in the syncronization state from a client still to be checked
\* counts as its confirmation; the last one releases all clients.
CountSubscription(n) ==
  /\ serviceThread = "checking"
  /\ up[n] # <<>>
  /\ Confirms(n)
  /\ \E i \in DOMAIN toCheckSubscriptions :
       /\ toCheckSubscriptions[i] = n
       /\ \A j \in 1..(i - 1) : toCheckSubscriptions[j] # n
       /\ toCheckSubscriptions' = Erase(toCheckSubscriptions, i)
  /\ down' = Routed(ReleasedBy(n, Len(toCheckSubscriptions')),
                    <<toString[centralState], "AllSubscribed">>)
  /\ up' = Taken(n)
  /\ UNCHANGED <<exited, serviceThread, centralState, connectedClients, requestMap,
                 unanswered, pollExpired, serviceChannel, mainThread>>

\* Any other message is only logged.
IgnoreMessage(n) ==
  /\ serviceThread = "checking"
  /\ up[n] # <<>>
  /\ ~Confirms(n)
  /\ up' = Taken(n)
  /\ UNCHANGED <<down, exited, centralVars>>

\* The main thread reads "syncronization Completed" and starts the timer thread.
StartTimer ==
  /\ mainThread = "waiting"
  /\ serviceChannel # <<>>
  /\ serviceChannel' = Tail(serviceChannel)
  /\ mainThread' = "polling"
  /\ UNCHANGED <<transportVars, serviceThread, centralState, connectedClients,
                 requestMap, unanswered, pollExpired, toCheckSubscriptions>>

CentralNext ==
  \/ Bind
  \/ EndRegistration
  \/ RequestTimeout
  \/ StartTimer
  \/ \E n \in Nodes : \/ RegisterClient(n)
                      \/ AcceptRequest(n)
                      \/ DiscardMessage(n)
                      \/ Answer(n)
                      \/ CountSubscription(n)
                      \/ IgnoreMessage(n)
=============================================================================
