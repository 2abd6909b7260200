----------------------------- MODULE ComuFrame -----------------------------
(***************************************************************************)
(* The start-up of a ComuFrame system: one Central and a set of nodes,     *)
(* composed over the transport they share.                                 *)
(***************************************************************************)
EXTENDS Central, Node

vars == <<transportVars, centralVars, nodeVars>>

Init == TransportInit /\ CentralInit /\ NodeInit

Next ==
  \/ CentralNext /\ UNCHANGED nodeVars
  \/ \E n \in Nodes : NodeNext(n) /\ UNCHANGED centralVars

Spec == Init /\ [][Next]_vars

\* Every thread that can take a step eventually does (they are free-running
\* threads blocked only on their sockets), and a ROUTER serves its peers in
\* turn.  Nothing is assumed of the timeouts.
Fairness ==
  /\ WF_vars((Bind \/ EndRegistration \/ \E n \in Nodes : Answer(n))
             /\ UNCHANGED nodeVars)
  /\ WF_vars(StartTimer /\ UNCHANGED nodeVars)
  /\ \A n \in Nodes :
       /\ WF_vars(RegisterClient(n) /\ UNCHANGED nodeVars)
       /\ WF_vars((AcceptRequest(n) \/ DiscardMessage(n)) /\ UNCHANGED nodeVars)
       /\ WF_vars((CountSubscription(n) \/ IgnoreMessage(n)) /\ UNCHANGED nodeVars)
       /\ WF_vars((SendRegistration(n) \/ FailToConnect(n) \/ ReceiveAck(n) \/ SendRequest(n)
                     \/ ReceiveSubscriptions(n) \/ ForwardToCentral(n)
                     \/ ReceiveFromCentral(n) \/ ReadPastEnd(n))
                  /\ UNCHANGED centralVars)
       /\ WF_vars((MainFromService(n) \/ MainFromSub(n)) /\ UNCHANGED centralVars)
       /\ WF_vars(Subscribe(n) /\ UNCHANGED centralVars)
       /\ WF_vars((BindPublisher(n) \/ FailToBind(n)) /\ UNCHANGED centralVars)

FairSpec == Spec /\ Fairness

-----------------------------------------------------------------------------
\* What travels on the inproc channels of a node.
InprocMessage(texts) == [state : {"registration", "syncronization"}, data : texts]
ServiceNews == InprocMessage({"received subscriptions", "AllSubscribed"})
SubscribeOrder == InprocMessage({"received subscriptions"})
Confirmation == InprocMessage({"subscribed"})

\* Type invariant of the composed system: the values the variables of Central
\* and of the nodes, and the messages in their queues, can take.
TypeOK ==
  /\ up \in [Nodes -> Seq(UpMessage)]
  /\ down \in [Nodes -> Seq(Seq(Topics \cup Words))]
  /\ exited \subseteq Processes
  /\ serviceThread \in {"binding", "registering", "requests", "answering", "checking"}
  /\ centralState \in {"Registration", "Syncronization"}
  /\ connectedClients \in Seq(Nodes)
  /\ DOMAIN requestMap \subseteq Nodes
  /\ requestMap \in [DOMAIN requestMap -> SUBSET Data]
  /\ unanswered \subseteq DOMAIN requestMap
  /\ pollExpired \in BOOLEAN
  /\ toCheckSubscriptions \in Seq(Nodes)
  /\ serviceChannel \in Seq({"syncronization Completed"})
  /\ mainThread \in {"waiting", "polling"}
  /\ nodeService \in [Nodes -> {"connecting", "awaitAck", "awaitNotice",
                                "awaitAnswer", "serving"}]
  /\ nodeState \in [Nodes -> {"Registration", "Syncronization"}]
  /\ resends \in [Nodes -> 0..MaxResend]
  /\ subscriptions \in [Nodes -> Seq(Topics \cup Words)]
  /\ serviceToMain \in [Nodes -> Seq(ServiceNews)]
  /\ mainToService \in [Nodes -> Seq(Confirmation)]
  /\ mainToSub \in [Nodes -> Seq(SubscribeOrder)]
  /\ subToMain \in [Nodes -> Seq(Confirmation)]
  /\ mainSeen \in [Nodes -> SUBSET {"received subscriptions", "AllSubscribed"}]
  /\ subThread \in [Nodes -> {"waiting", "subscribed"}]
  /\ pubThread \in [Nodes -> {"starting", "bound"}]

Subscribed == {n \in Nodes : subThread[n] = "subscribed"}

\* Central has found every client subscribed and sent AllSubscribed.
Released ==
  /\ serviceThread = "checking"
  /\ connectedClients # <<>>
  /\ toCheckSubscriptions = <<>>

Told == {n \in Nodes : "AllSubscribed" \in mainSeen[n]}

\* The vector registerClient builds counts nodes, not registrations: however
\* often a node repeats its registration it is there once, and there are never
\* more than the expected number.
RegisteredOnce ==
  /\ IsInjective(connectedClients)
  /\ Len(connectedClients) <= expectedClient

\* The request loop counts requests against clients without asking who sent
\* them; still only clients get into requestMap, so that when the loop ends
\* each client has an entry, and the timer starts only after that.
RequestsComeFromClients ==
  /\ DOMAIN requestMap \subseteq Clients
  /\ serviceThread \in {"answering", "checking"} => DOMAIN requestMap = Clients
  /\ mainThread = "polling" => serviceThread = "checking"

\* AllSubscribed is sent only when the subscriber thread of every client has
\* set its filters, although the checking loop takes any message in the
\* syncronization state as the confirmation.
NoEarlyRelease == Released => Clients \subseteq Subscribed

\* The start-up protocol implements the barrier.
Barrier == INSTANCE SubscriptionBarrier
             WITH registered <- Clients, subscribed <- Subscribed,
                  released <- Released, told <- Told

ImplementsBarrier == Barrier!Spec

\* What Central stores as a node's request is what the node's configuration
\* requests (initServiceThread, the request loop).
RequestsAreConfigured == \A n \in DOMAIN requestMap : requestMap[n] = RequestedData[n]

\* What a node stores as its subscriptions is an answer of the data base to
\* its own request (initServiceThread of Node).
SubscriptionsAreAnswers ==
  \A n \in Nodes : nodeService[n] = "serving" =>
                     subscriptions[n] \in Answers[RequestedData[n]]

StartedUp ==
  Len(connectedClients) = expectedClient /\ Clients # {} /\ Clients \subseteq Told

\* Start-up completes: as many nodes as Central expects are registered, and the
\* main thread of each has seen AllSubscribed.
StartUpCompletes == <>StartedUp

\* receiveStrMsgTimeout "will keep trying": with repeated registrations start-up
\* still completes, as long as no process terminates.
RetriesComplete == <>(StartedUp \/ exited # {})

\* "can't load configration file, using default options" (the constructor of
\* Node): a node that says so goes on to register.
DefaultsRegister ==
  \A n \in Nodes \ Configured : <>(nodeService[n] # "connecting")

\* Two nodes configured with one publisher port do not run side by side: the
\* process of the second to bind terminates (initPubThread catches nothing).
PortClashIsFatal ==
  (\E m, n \in Nodes : m # n /\ PubPort[m] = PubPort[n]) => <>(exited # {})
-----------------------------------------------------------------------------
(***************************************************************************)
(* The inductive invariant behind RegisteredOnce, RequestsComeFromClients, *)
(* NoEarlyRelease and ImplementsBarrier.                                   *)
(***************************************************************************)

\* Central's phase and its Fsm state move together.
PhaseInv ==
  /\ serviceThread \in {"binding", "registering"} =>
       centralState = "Registration" /\ DOMAIN requestMap = {}
  /\ serviceThread \in {"requests", "answering", "checking"} =>
       centralState = "Syncronization"
  /\ serviceChannel # <<>> => serviceThread = "checking"
  /\ Range(toCheckSubscriptions) \subseteq Clients

\* A node leaves Registration only after Central has registered it.
NodeInv ==
  \A n \in Nodes :
    /\ nodeState[n] = "Registration" <=> nodeService[n] \in {"connecting", "awaitAck"}
    /\ nodeState[n] = "Syncronization" => n \in Clients
    /\ down[n] # <<>> => n \in Clients
    /\ n \in DOMAIN requestMap => nodeService[n] \in {"awaitAnswer", "serving"}

\* The order in which a node's messages wait for Central: registrations carry
\* the registration state; its one request, until Central has accepted
\* something as the request, comes before its confirmation.
UpMessageInv(n, i) ==
  LET msg == up[n][i]
  IN /\ msg.state = "registration" <=> msg.data = "sendingPackets"
     /\ msg.data # "sendingPackets" => nodeService[n] \in {"awaitAnswer", "serving"}
     /\ msg.data = "subscribed" => subThread[n] = "subscribed"
     /\ msg.data = "requestedData" =>
          /\ n \notin DOMAIN requestMap
          /\ \A j \in 1..(i - 1) : up[n][j].data = "sendingPackets"

UpInv == \A n \in Nodes : \A i \in 1..Len(up[n]) : UpMessageInv(n, i)

\* Inside a node the confirmation starts at the subscriber thread, and the
\* subscriber thread is told by the serving service thread.
InprocInv ==
  \A n \in Nodes :
    /\ subToMain[n] # <<>> \/ mainToService[n] # <<>> => subThread[n] = "subscribed"
    /\ mainToSub[n] # <<>> \/ serviceToMain[n] # <<>> \/ subThread[n] = "subscribed" =>
         nodeService[n] = "serving"

\* Central's count of confirmations.
CheckInv ==
  serviceThread = "checking" =>
    Clients \subseteq Range(toCheckSubscriptions) \cup Subscribed

\* AllSubscribed is in transit, or seen, only after the release.
ReleaseInv ==
  \A n \in Nodes :
    \/ <<"syncronization", "AllSubscribed">> \in Range(down[n])
    \/ \E msg \in Range(serviceToMain[n]) : msg.data = "AllSubscribed"
    \/ n \in Told
    => Released /\ n \in Clients

IInv == /\ TypeOK /\ RegisteredOnce /\ RequestsComeFromClients
        /\ PhaseInv /\ NodeInv /\ UpInv /\ InprocInv /\ CheckInv /\ ReleaseInv
=============================================================================
