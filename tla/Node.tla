-------------------------------- MODULE Node --------------------------------
(***************************************************************************)
(* ComuFrame/Node.cpp: the service, main, publisher and subscriber threads *)
(* of every node, joined by inproc PAIR sockets, each a FIFO queue here.   *)
(* The local variables that outlive a step are functions on Nodes.         *)
(***************************************************************************)
EXTENDS Transport, Fsm

CONSTANTS Configured, \* the nodes whose configuration file could be loaded
          PubPort,    \* node -> the TCP port its publisher binds
          MaxResend   \* bound: registrations a node repeats after a timeout

ASSUME NodeAssumption == MaxResend \in Nat /\ Configured \subseteq Nodes

VARIABLES
  nodeService,   \* where the service thread is
  nodeState,     \* Node::state
  resends,       \* registrations sent again so far (bounded by MaxResend)
  subscriptions, \* Node::subscriptions
  serviceToMain, \* inproc://serviceChannel, service thread to main thread
  mainToService, \* inproc://serviceChannel, main thread to service thread
  mainToSub,     \* inproc://subChannel, main thread to subscriber thread
  subToMain,     \* inproc://subChannel, subscriber thread to main thread
  mainSeen,      \* the texts the main thread has reported from the service thread
  subThread,     \* "waiting", then "subscribed"
  pubThread      \* "starting", then "bound" (and waiting for its first message)

nodeVars == <<nodeService, nodeState, resends, subscriptions, serviceToMain,
              mainToService, mainToSub, subToMain, mainSeen, subThread, pubThread>>

NodeInit ==
  /\ nodeService = [n \in Nodes |-> "connecting"]
  /\ nodeState = [n \in Nodes |-> "Registration"]
  /\ resends = [n \in Nodes |-> 0]
  /\ subscriptions = [n \in Nodes |-> <<>>]
  /\ serviceToMain = [n \in Nodes |-> <<>>]
  /\ mainToService = [n \in Nodes |-> <<>>]
  /\ mainToSub = [n \in Nodes |-> <<>>]
  /\ subToMain = [n \in Nodes |-> <<>>]
  /\ mainSeen = [n \in Nodes |-> {}]
  /\ subThread = [n \in Nodes |-> "waiting"]
  /\ pubThread = [n \in Nodes |-> "starting"]

\* queue after node n posts `data` on one of its inproc channels; sendStrMSG
\* puts the node's state in front of whatever it sends.
Posted(queue, n, data) ==
  [queue EXCEPT ![n] = Append(@, [state |-> toString[nodeState[n]], data |-> data])]

\* queue after its oldest message at node n is read.
Read(queue, n) == [queue EXCEPT ![n] = Tail(@)]

At(n, place) == Alive(n) /\ nodeService[n] = place
Goto(n, place) == nodeService' = [nodeService EXCEPT ![n] = place]

\* The default options have no ":" between address and port; ZeroMQ takes no
\* such endpoint.
EndpointsWellFormed(n) == n \in Configured

\* The service thread connects to Central and sends the registration.
SendRegistration(n) ==
  /\ At(n, "connecting")
  /\ EndpointsWellFormed(n)
  /\ up' = Dealt(n, toString[nodeState[n]], "sendingPackets")
  /\ Goto(n, "awaitAck")
  /\ UNCHANGED <<down, exited, nodeState, resends, subscriptions, serviceToMain,
                 mainToService, mainToSub, subToMain, mainSeen, subThread, pubThread>>

\* The connect of the service thread or of the subscriber thread throws, and the
\* exception that leaves the thread terminates the process.
FailToConnect(n) ==
  /\ Alive(n)
  /\ ~EndpointsWellFormed(n)
  /\ ExitProcess(ProcessOf[n])
  /\ UNCHANGED nodeVars

\* receiveStrMsgTimeout finds nothing for five seconds and sends the
\* registration again.  The answer may be on its way: down[n] is not tested.
ResendRegistration(n) ==
  /\ At(n, "awaitAck")
  /\ resends[n] < MaxResend
  /\ resends' = [resends EXCEPT ![n] = @ + 1]
  /\ up' = Dealt(n, toString[nodeState[n]], "sendingPackets")
  /\ UNCHANGED <<down, exited, nodeService, nodeState, subscriptions, serviceToMain,
                 mainToService, mainToSub, subToMain, mainSeen, subThread, pubThread>>

\* receiveStrMsgTimeout takes the first message, whatever it says, as the ack.
ReceiveAck(n) ==
  /\ At(n, "awaitAck")
  /\ down[n] # <<>>
  /\ down' = Fetched(n)
  /\ nodeState' = [nodeState EXCEPT ![n] = nextState(@)]
  /\ Goto(n, "awaitNotice")
  /\ UNCHANGED <<up, exited, resends, subscriptions, serviceToMain, mainToService,
                 mainToSub, subToMain, mainSeen, subThread, pubThread>>

\* A node that sends its request without awaiting the announcement.
SendRequestAtOnce(n) ==
  /\ At(n, "awaitNotice")
  /\ up' = Dealt(n, toString[nodeState[n]], "requestedData")
  /\ Goto(n, "awaitAnswer")
  /\ UNCHANGED <<down, exited, nodeState, resends, subscriptions, serviceToMain,
                 mainToService, mainToSub, subToMain, mainSeen, subThread, pubThread>>

\* The next message, whatever it says, is taken as the announcement of the
\* new phase; the node answers it with its request.
SendRequest(n) ==
  /\ At(n, "awaitNotice")
  /\ down[n] # <<>>
  /\ down' = Fetched(n)
  /\ up' = Dealt(n, toString[nodeState[n]], "requestedData")
  /\ Goto(n, "awaitAnswer")
  /\ UNCHANGED <<exited, nodeState, resends, subscriptions, serviceToMain,
                 mainToService, mainToSub, subToMain, mainSeen, subThread, pubThread>>

\* The parts of the next message, whatever they are, become the subscriptions.
ReceiveSubscriptions(n) ==
  /\ At(n, "awaitAnswer")
  /\ down[n] # <<>>
  /\ down' = Fetched(n)
  /\ subscriptions' = [subscriptions EXCEPT ![n] = @ \o Head(down[n])]
  /\ serviceToMain' = Posted(serviceToMain, n, "received subscriptions")
  /\ Goto(n, "serving")
  /\ UNCHANGED <<up, exited, nodeState, resends, mainToService, mainToSub,
                 subToMain, mainSeen, subThread, pubThread>>

\* The service loop forwards to Central what the main thread hands it.  It looks
\* at that socket first, but a poll is a look at one moment: by the time the
\* other socket is read something may have arrived here, so the preference is
\* not a guard (nor is it one in MainFromSub).
ForwardToCentral(n) ==
  /\ At(n, "serving")
  /\ mainToService[n] # <<>>
  /\ up' = Dealt(n, toString[nodeState[n]], Head(mainToService[n]).data)
  /\ mainToService' = Read(mainToService, n)
  /\ UNCHANGED <<down, exited, nodeService, nodeState, resends, subscriptions,
                 serviceToMain, mainToSub, subToMain, mainSeen, subThread, pubThread>>

\* The service loop reads two parts of a message from Central and passes
\* AllSubscribed on.  When there is only one part the second popstr reads past
\* the end of the message: the first part is not "syncronization" then, so
\* whatever is read is ignored, if the process survives the read.
ReceiveFromCentral(n) ==
  /\ At(n, "serving")
  /\ down[n] # <<>>
  /\ down' = Fetched(n)
  /\ serviceToMain' = IF Head(down[n]) = <<"syncronization", "AllSubscribed">>
                      THEN Posted(serviceToMain, n, "AllSubscribed")
                      ELSE serviceToMain
  /\ UNCHANGED <<up, exited, nodeService, nodeState, resends, subscriptions,
                 mainToService, mainToSub, subToMain, mainSeen, subThread, pubThread>>

ReadPastEnd(n) ==
  /\ At(n, "serving")
  /\ down[n] # <<>>
  /\ Len(Head(down[n])) < 2
  /\ ExitProcess(ProcessOf[n])
  /\ UNCHANGED nodeVars

\* The main thread polls its sockets.  It reports every text of the service
\* thread, and only "received subscriptions" makes it do something.
MainFromService(n) ==
  /\ Alive(n)
  /\ serviceToMain[n] # <<>>
  /\ serviceToMain' = Read(serviceToMain, n)
  /\ LET msg == Head(serviceToMain[n])
     IN /\ mainSeen' = IF msg.state = "syncronization"
                       THEN [mainSeen EXCEPT ![n] = @ \cup {msg.data}] ELSE mainSeen
        /\ mainToSub' = IF msg.state = "syncronization"
                           /\ msg.data = "received subscriptions"
                        THEN Posted(mainToSub, n, "received subscriptions")
                        ELSE mainToSub
  /\ UNCHANGED <<transportVars, nodeService, nodeState, resends, subscriptions,
                 mainToService, subToMain, subThread, pubThread>>

MainFromSub(n) ==
  /\ Alive(n)
  /\ subToMain[n] # <<>>
  /\ subToMain' = Read(subToMain, n)
  /\ mainToService' = IF Head(subToMain[n]) =
                         [state |-> "syncronization", data |-> "subscribed"]
                      THEN Posted(mainToService, n, "subscribed")
                      ELSE mainToService
  /\ UNCHANGED <<transportVars, nodeService, nodeState, resends, subscriptions,
                 serviceToMain, mainToSub, mainSeen, subThread, pubThread>>

\* The subscriber thread, once told, sets its filters and reports.
Subscribe(n) ==
  /\ Alive(n)
  /\ subThread[n] = "waiting"
  /\ mainToSub[n] # <<>>
  /\ mainToSub' = Read(mainToSub, n)
  /\ subThread' = [subThread EXCEPT ![n] = "subscribed"]
  /\ subToMain' = Posted(subToMain, n, "subscribed")
  /\ UNCHANGED <<transportVars, nodeService, nodeState, resends, subscriptions,
                 serviceToMain, mainToService, mainSeen, pubThread>>

\* Another live node has the port of n (and a form that never finds it taken).
PortNeverTaken(n) == FALSE
PortTaken(n) == \E m \in Nodes : /\ m # n
                                 /\ PubPort[m] = PubPort[n]
                                 /\ Alive(m) /\ pubThread[m] = "bound"

\* The publisher thread binds its port; zmq::error_t leaves the thread when
\* the port is taken or malformed, and that terminates the process.
BindPublisher(n) ==
  /\ Alive(n)
  /\ pubThread[n] = "starting"
  /\ EndpointsWellFormed(n)
  /\ ~PortTaken(n)
  /\ pubThread' = [pubThread EXCEPT ![n] = "bound"]
  /\ UNCHANGED <<transportVars, nodeService, nodeState, resends, subscriptions,
                 serviceToMain, mainToService, mainToSub, subToMain, mainSeen,
                 subThread>>

FailToBind(n) ==
  /\ Alive(n)
  /\ pubThread[n] = "starting"
  /\ ~EndpointsWellFormed(n) \/ PortTaken(n)
  /\ ExitProcess(ProcessOf[n])
  /\ UNCHANGED nodeVars

NodeNext(n) ==
  \/ SendRegistration(n)
  \/ FailToConnect(n)
  \/ ResendRegistration(n)
  \/ ReceiveAck(n)
  \/ SendRequest(n)
  \/ ReceiveSubscriptions(n)
  \/ ForwardToCentral(n)
  \/ ReceiveFromCentral(n)
  \/ ReadPastEnd(n)
  \/ MainFromService(n)
  \/ MainFromSub(n)
  \/ Subscribe(n)
  \/ BindPublisher(n)
  \/ FailToBind(n)
=============================================================================
