-------------------------- MODULE ComuFrameProofs --------------------------
(***************************************************************************)
(* What holds of the start-up protocol for every set of nodes and every    *)
(* value of the other constants.  The argument is the inductive invariant  *)
(* IInv: a node moves on only after Central has registered it (NodeInv),   *)
(* so what Central reads in the syncronization state comes from a client;  *)
(* the order of a node's messages (UpInv) then makes the message Central   *)
(* counts as a confirmation a real one, and the rest follows.              *)
(*                                                                         *)
(* The lemmas come in this order: sequences and queues; one lemma per      *)
(* action of a node and of Central; the invariant and what it implies; the *)
(* refinement of SubscriptionBarrier.                                      *)
(***************************************************************************)
EXTENDS ComuFrame, FiniteSetTheorems, SequenceTheorems, TLAPS

\* What appending one element does to a sequence, its indices and its range.
LEMMA AppendFacts ==
  ASSUME NEW S, NEW s \in Seq(S), NEW e \in S
  PROVE  /\ Append(s, e) \in Seq(S)
         /\ Len(Append(s, e)) = Len(s) + 1
         /\ \A i \in 1..Len(s) : Append(s, e)[i] = s[i]
         /\ Append(s, e)[Len(s) + 1] = e
         /\ Range(Append(s, e)) = Range(s) \cup {e}
<1>1. /\ Append(s, e) \in Seq(S)
      /\ Len(Append(s, e)) = Len(s) + 1
      /\ \A i \in 1..Len(s) : Append(s, e)[i] = s[i]
      /\ Append(s, e)[Len(s) + 1] = e
  OBVIOUS
<1>2. DOMAIN Append(s, e) = 1..(Len(s) + 1) /\ DOMAIN s = 1..Len(s) /\ Len(s) \in Nat
  BY <1>1
<1>3. 1..(Len(s) + 1) = 1..Len(s) \cup {Len(s) + 1}
  BY <1>2
<1> QED BY <1>1, <1>2, <1>3 DEF Range

\* What reading the first element of a sequence leaves.
LEMMA TailFacts ==
  ASSUME NEW S, NEW s \in Seq(S), s # <<>>
  PROVE  /\ Tail(s) \in Seq(S)
         /\ Head(s) \in S /\ Head(s) = s[1]
         /\ Len(s) >= 1 /\ Len(Tail(s)) = Len(s) - 1
         /\ \A i \in 1..Len(Tail(s)) : Tail(s)[i] = s[i + 1]
         /\ Range(Tail(s)) \subseteq Range(s) /\ Head(s) \in Range(s)
<1>1. /\ Tail(s) \in Seq(S)
      /\ Head(s) \in S /\ Head(s) = s[1]
      /\ Len(s) >= 1 /\ Len(Tail(s)) = Len(s) - 1
      /\ \A i \in 1..Len(Tail(s)) : Tail(s)[i] = s[i + 1]
  OBVIOUS
<1>2. DOMAIN Tail(s) = 1..(Len(s) - 1) /\ DOMAIN s = 1..Len(s) /\ Len(s) \in Nat
  BY <1>1
<1>3. \A i \in 1..(Len(s) - 1) : i + 1 \in 1..Len(s)
  BY <1>2
<1>4. 1 \in 1..Len(s)
  BY <1>1, <1>2
<1> QED BY <1>1, <1>2, <1>3, <1>4 DEF Range

\* Erasing the k-th element of a vector loses at most that element
\* (toCheckSubscriptions.erase in Central's checking loop).
LEMMA EraseFacts ==
  ASSUME NEW S, NEW s \in Seq(S), NEW k \in 1..Len(s)
  PROVE  /\ Erase(s, k) \in Seq(S)
         /\ Len(Erase(s, k)) = Len(s) - 1
         /\ Range(Erase(s, k)) \subseteq Range(s)
         /\ Range(s) \subseteq Range(Erase(s, k)) \cup {s[k]}
<1>1. Erase(s, k) \in Seq(S)
  BY DEF Erase
<1>2. Len(Erase(s, k)) = Len(s) - 1
  BY DEF Erase
<1>3. \A j \in 1..(Len(s) - 1) : Erase(s, k)[j] = IF j < k THEN s[j] ELSE s[j + 1]
  BY DEF Erase
<1>4. Range(Erase(s, k)) \subseteq Range(s)
  BY <1>1, <1>2, <1>3 DEF Range
<1>5. ASSUME NEW i \in 1..Len(s), i # k
      PROVE  s[i] \in Range(Erase(s, k))
  <2>1. CASE i < k
    BY <2>1, <1>1, <1>2, <1>3, <1>5 DEF Range
  <2>2. CASE i > k
    <3>1. i - 1 \in 1..(Len(s) - 1) /\ ~(i - 1 < k) /\ (i - 1) + 1 = i
      BY <2>2
    <3>2. Erase(s, k)[i - 1] = s[i]
      BY <3>1, <1>3
    <3>3. i - 1 \in DOMAIN Erase(s, k)
      BY <3>1, <1>1, <1>2
    <3> QED BY <3>2, <3>3 DEF Range
  <2> QED BY <2>1, <2>2, <1>5
<1>6. ASSUME NEW x \in Range(s)
      PROVE  x \in Range(Erase(s, k)) \cup {s[k]}
  <2>1. PICK i \in 1..Len(s) : x = s[i]
    BY <1>6 DEF Range
  <2> QED BY <2>1, <1>5
<1> QED BY <1>1, <1>2, <1>4, <1>6

\* A sequence without repetitions has as many elements as it is long, which is
\* what lets Central compare requestMap.size() with connectedClients.size().
LEMMA InjectiveCount ==
  ASSUME NEW S, NEW s \in Seq(S), IsInjective(s)
  PROVE  IsFiniteSet(Range(s)) /\ Cardinality(Range(s)) = Len(s)
<1>1. s \in Bijection(1..Len(s), Range(s))
  BY DEF Bijection, Injection, Surjection, IsInjective, Range
<1>2. ExistsBijection(1..Len(s), Range(s))
  BY <1>1 DEF ExistsBijection
<1> QED BY <1>2, FS_CountingElements, FS_NatBijection, LenProperties

\* The two phases start-up goes through, as they appear in messages.
LEMMA Strings ==
  /\ toString["Registration"] = "registration"
  /\ toString["Syncronization"] = "syncronization"
  /\ nextState("Registration") = "Syncronization"
  BY DEF toString, nextState

\* A send on one queue of a family of FIFO queues.
LEMMA Enqueue ==
  ASSUME NEW S, NEW q \in [Nodes -> Seq(S)], NEW n \in Nodes, NEW e \in S
  PROVE  LET p == [q EXCEPT ![n] = Append(@, e)]
         IN /\ p \in [Nodes -> Seq(S)]
            /\ \A m \in Nodes : m # n => p[m] = q[m]
            /\ p[n] # <<>> /\ Len(p[n]) = Len(q[n]) + 1 /\ Len(q[n]) \in Nat
            /\ \A i \in 1..Len(q[n]) : p[n][i] = q[n][i]
            /\ p[n][Len(q[n]) + 1] = e
            /\ Range(p[n]) = Range(q[n]) \cup {e}
<1> DEFINE p == [q EXCEPT ![n] = Append(@, e)]
<1>1. q[n] \in Seq(S)
  OBVIOUS
<1>2. p[n] = Append(q[n], e)
  OBVIOUS
<1>3. Append(q[n], e) # <<>> /\ Len(q[n]) \in Nat
  BY <1>1
<1> QED BY <1>1, <1>2, <1>3, AppendFacts

\* A receive from one queue of a family of FIFO queues.
LEMMA Dequeue ==
  ASSUME NEW S, NEW q \in [Nodes -> Seq(S)], NEW n \in Nodes, q[n] # <<>>
  PROVE  LET p == [q EXCEPT ![n] = Tail(@)]
         IN /\ p \in [Nodes -> Seq(S)]
            /\ \A m \in Nodes : m # n => p[m] = q[m]
            /\ Len(p[n]) = Len(q[n]) - 1 /\ Len(q[n]) \in Nat /\ Len(q[n]) >= 1
            /\ Head(q[n]) \in S /\ Head(q[n]) = q[n][1]
            /\ \A i \in 1..Len(p[n]) : p[n][i] = q[n][i + 1]
            /\ Range(p[n]) \subseteq Range(q[n]) /\ Head(q[n]) \in Range(q[n])
<1> DEFINE p == [q EXCEPT ![n] = Tail(@)]
<1>1. q[n] \in Seq(S)
  OBVIOUS
<1>2. p[n] = Tail(q[n])
  OBVIOUS
<1>3. Len(q[n]) \in Nat
  BY <1>1
<1> QED BY <1>1, <1>2, <1>3, TailFacts

\* A send of Central's ROUTER adds its message to the queues of addressees only.
LEMMA RoutedFacts ==
  ASSUME NEW dest, NEW parts \in Seq(Topics \cup Words),
         down \in [Nodes -> Seq(Seq(Topics \cup Words))]
  PROVE  /\ Routed(dest, parts) \in [Nodes -> Seq(Seq(Topics \cup Words))]
         /\ \A m \in Nodes : m \notin dest => Routed(dest, parts)[m] = down[m]
         /\ \A m \in Nodes : Range(Routed(dest, parts)[m]) \subseteq Range(down[m]) \cup {parts}
<1> DEFINE S == Seq(Topics \cup Words)
<1>1. ASSUME NEW m \in Nodes
      PROVE  /\ down[m] \in Seq(S) /\ Append(down[m], parts) \in Seq(S)
             /\ Range(Append(down[m], parts)) = Range(down[m]) \cup {parts}
  <2>1. down[m] \in Seq(S) /\ parts \in S
    OBVIOUS
  <2> HIDE DEF S
  <2> QED BY <2>1, AppendFacts
<1>2. \A m \in Nodes : Routed(dest, parts)[m] =
        IF m \in dest /\ Alive(m) /\ parts # <<>> THEN Append(down[m], parts) ELSE down[m]
  BY DEF Routed
<1>3. Routed(dest, parts) \in [Nodes -> Seq(S)]
  BY <1>1 DEF Routed
<1> QED BY <1>1, <1>2, <1>3

\* A prefix of a sequence agrees with it.
LEMMA PrefixFacts ==
  ASSUME NEW S, NEW s \in Seq(S), NEW k \in Nat, k <= Len(s)
  PROVE  /\ SubSeq(s, 1, k) \in Seq(S)
         /\ Len(SubSeq(s, 1, k)) = k
         /\ \A i \in 1..k : SubSeq(s, 1, k)[i] = s[i]
<1>1. Len(s) \in Nat /\ \A i \in 1..k : s[i] \in S
  OBVIOUS
<1>2. SubSeq(s, 1, k) = [i \in 1..k |-> s[i]]
  BY <1>1
<1> QED BY <1>1, <1>2

\* The end of a process shortens queues and adds nothing to them.
LEMMA ExitFacts ==
  ASSUME NEW p \in Processes, ExitProcess(p),
         up \in [Nodes -> Seq(UpMessage)],
         down \in [Nodes -> Seq(Seq(Topics \cup Words))],
         exited \subseteq Processes
  PROVE  /\ exited' \subseteq Processes
         /\ up' \in [Nodes -> Seq(UpMessage)]
         /\ down' \in [Nodes -> Seq(Seq(Topics \cup Words))]
         /\ \A m \in Nodes : \A i \in 1..Len(up'[m]) :
              i \in 1..Len(up[m]) /\ up'[m][i] = up[m][i]
         /\ \A m \in Nodes : down'[m] = <<>> \/ down'[m] = down[m]
<1>1. PICK kept \in [Nodes -> UNION {0..Len(up[n]) : n \in Nodes}] :
        /\ \A n \in Nodes : kept[n] <= Len(up[n])
        /\ up' = [n \in Nodes |-> SubSeq(up[n], 1, kept[n])]
  BY DEF ExitProcess
<1>2. ASSUME NEW m \in Nodes
      PROVE  /\ SubSeq(up[m], 1, kept[m]) \in Seq(UpMessage)
             /\ \A i \in 1..Len(SubSeq(up[m], 1, kept[m])) :
                  /\ i \in 1..Len(up[m])
                  /\ SubSeq(up[m], 1, kept[m])[i] = up[m][i]
  <2>1. up[m] \in Seq(UpMessage) /\ Len(up[m]) \in Nat
    OBVIOUS
  <2>2. kept[m] \in Nat /\ kept[m] <= Len(up[m])
    <3>1. kept[m] \in UNION {0..Len(up[n]) : n \in Nodes}
      BY <1>1
    <3> QED BY <3>1, <1>1
  <2>3. 1..kept[m] \subseteq 1..Len(up[m])
    BY <2>1, <2>2
  <2> DEFINE prefix == SubSeq(up[m], 1, kept[m])
  <2>4. /\ prefix \in Seq(UpMessage) /\ Len(prefix) = kept[m]
        /\ \A i \in 1..kept[m] : prefix[i] = up[m][i]
    BY <2>1, <2>2, PrefixFacts, Zenon
  <2> HIDE DEF prefix
  <2>5. \A i \in 1..Len(prefix) : i \in 1..Len(up[m]) /\ prefix[i] = up[m][i]
    BY <2>3, <2>4
  <2> QED BY <2>4, <2>5 DEF prefix
<1>3. exited' \subseteq Processes
  BY DEF ExitProcess
<1>4. down' = [m \in Nodes |-> IF ProcessOf[m] = p THEN <<>> ELSE down[m]]
  BY DEF ExitProcess
<1>5. <<>> \in Seq(Seq(Topics \cup Words))
  OBVIOUS
<1>6. \A m \in Nodes : down'[m] = <<>> \/ down'[m] = down[m]
  BY <1>4
<1>7. down' \in [Nodes -> Seq(Seq(Topics \cup Words))]
  BY <1>4, <1>5
<1> QED BY <1>1, <1>2, <1>3, <1>6, <1>7

\* The conjuncts of the invariant that only speak of Central survive the steps
\* of nodes.
LEMMA CentralUnchanged ==
  ASSUME IInv, UNCHANGED centralVars
  PROVE  RegisteredOnce' /\ RequestsComeFromClients' /\ PhaseInv' /\ Clients' = Clients
  BY DEF IInv, centralVars, RegisteredOnce, RequestsComeFromClients, PhaseInv, Clients

\* A node's send, as the proof of UpInv uses it.
LEMMA DealtFacts ==
  ASSUME TypeOK, NEW n \in Nodes, NEW msg \in UpMessage,
         up' = [up EXCEPT ![n] = Append(@, msg)]
  PROVE  /\ up' \in [Nodes -> Seq(UpMessage)]
         /\ \A m \in Nodes : m # n => up'[m] = up[m]
         /\ Len(up'[n]) = Len(up[n]) + 1 /\ Len(up[n]) \in Nat
         /\ \A i \in 1..Len(up[n]) : up'[n][i] = up[n][i]
         /\ up'[n][Len(up[n]) + 1] = msg
<1>1. up \in [Nodes -> Seq(UpMessage)]
  BY DEF TypeOK
<1> QED BY <1>1, Enqueue

\* Central's receive.
LEMMA TakenFacts ==
  ASSUME TypeOK, NEW n \in Nodes, up[n] # <<>>
  PROVE  /\ Taken(n) \in [Nodes -> Seq(UpMessage)]
         /\ \A m \in Nodes : m # n => Taken(n)[m] = up[m]
         /\ Len(Taken(n)[n]) = Len(up[n]) - 1 /\ Len(up[n]) \in Nat /\ Len(up[n]) >= 1
         /\ Head(up[n]) \in UpMessage /\ Head(up[n]) = up[n][1]
         /\ \A i \in 1..Len(Taken(n)[n]) : Taken(n)[n][i] = up[n][i + 1]
<1>1. up \in [Nodes -> Seq(UpMessage)]
  BY DEF TypeOK
<1> QED BY <1>1, Dequeue DEF Taken

\* A node's receive.
LEMMA FetchedFacts ==
  ASSUME TypeOK, NEW n \in Nodes, down[n] # <<>>
  PROVE  /\ Fetched(n) \in [Nodes -> Seq(Seq(Topics \cup Words))]
         /\ \A m \in Nodes : m # n => Fetched(n)[m] = down[m]
         /\ Head(down[n]) \in Seq(Topics \cup Words)
         /\ Head(down[n]) \in Range(down[n])
         /\ \A m \in Nodes : Range(Fetched(n)[m]) \subseteq Range(down[m])
<1> DEFINE S == Seq(Topics \cup Words)
<1>1. down \in [Nodes -> Seq(S)]
  BY DEF TypeOK
<1> HIDE DEF S
<1>2. /\ Fetched(n) \in [Nodes -> Seq(S)]
      /\ \A m \in Nodes : m # n => Fetched(n)[m] = down[m]
      /\ Head(down[n]) \in S /\ Head(down[n]) \in Range(down[n])
      /\ Range(Fetched(n)[n]) \subseteq Range(down[n])
  BY <1>1, Dequeue DEF Fetched
<1>3. \A m \in Nodes : Range(Fetched(n)[m]) \subseteq Range(down[m])
  BY <1>2
<1> QED BY <1>2, <1>3 DEF S

\* SendRegistration preserves the invariant.
LEMMA SendRegistrationStep ==
  ASSUME IInv, NEW n \in Nodes, SendRegistration(n), UNCHANGED centralVars
  PROVE  IInv'
<1> USE DEF IInv
<1>1. RegisteredOnce' /\ RequestsComeFromClients' /\ PhaseInv' /\ Clients' = Clients
  BY CentralUnchanged
<1>2. /\ up' \in [Nodes -> Seq(UpMessage)]
      /\ \A m \in Nodes : m # n => up'[m] = up[m]
      /\ Len(up'[n]) = Len(up[n]) + 1 /\ Len(up[n]) \in Nat
      /\ \A i \in 1..Len(up[n]) : up'[n][i] = up[n][i]
      /\ up'[n][Len(up[n]) + 1] = [state |-> "registration", data |-> "sendingPackets"]
  <2>1. up' = [up EXCEPT ![n] = Append(@, [state |-> "registration", data |-> "sendingPackets"])]
    BY Strings DEF SendRegistration, Dealt, TypeOK, NodeInv, At
  <2>2. [state |-> "registration", data |-> "sendingPackets"] \in UpMessage
    BY DEF UpMessage, Payload
  <2> QED BY <2>1, <2>2, DealtFacts
<1>5. TypeOK'
  BY <1>1, <1>2, Strings, NodeAssumption
     DEF TypeOK, SendRegistration, At, Goto, centralVars, transportVars, nodeVars
<1>6. NodeInv'
  BY <1>1, <1>2, Strings
     DEF TypeOK, NodeInv, SendRegistration, At, Goto, centralVars, transportVars
<1>7. UpInv'
  <2> SUFFICES ASSUME NEW m \in Nodes, NEW i \in 1..Len(up'[m])
               PROVE  UpMessageInv(m, i)'
    BY DEF UpInv
  <2>1. CASE m # n
    <3>1. up'[m] = up[m] /\ UpMessageInv(m, i)
      BY <1>2, <2>1 DEF UpInv
    <3> QED BY <3>1, <2>1 DEF UpMessageInv, TypeOK, SendRegistration, At, Goto, centralVars
  <2>2. CASE m = n /\ i \in 1..Len(up[n])
    <3>1. UpMessageInv(n, i) /\ up'[n][i] = up[n][i]
      BY <1>2, <2>2 DEF UpInv
    <3>2. \A j \in 1..(i - 1) : up'[n][j] = up[n][j]
      BY <1>2, <2>2
    <3> QED BY <3>1, <3>2, <2>2
               DEF UpMessageInv, TypeOK, SendRegistration, At, Goto, centralVars
  <2>3. CASE m = n /\ i = Len(up[n]) + 1
    <3>1. up'[n][i] = [state |-> "registration", data |-> "sendingPackets"]
      BY <1>2, <2>3
    <3> QED BY <3>1, <2>3 DEF UpMessageInv
  <2> QED BY <1>2, <2>1, <2>2, <2>3
<1>8. InprocInv'
  BY <1>1, <1>2
     DEF TypeOK, InprocInv, SendRegistration, At, Goto, centralVars, transportVars
<1>9. CheckInv'
  BY <1>1, <1>2
     DEF TypeOK, CheckInv, Subscribed, SendRegistration, At, Goto, centralVars,
         transportVars
<1>10. ReleaseInv'
  BY <1>1, <1>2
     DEF TypeOK, ReleaseInv, Released, Told, SendRegistration, At, Goto, centralVars,
         transportVars
<1> QED BY <1>1, <1>5, <1>6, <1>7, <1>8, <1>9, <1>10

\* ResendRegistration preserves the invariant.
LEMMA ResendRegistrationStep ==
  ASSUME IInv, NEW n \in Nodes, ResendRegistration(n), UNCHANGED centralVars
  PROVE  IInv'
<1> USE DEF IInv
<1>1. RegisteredOnce' /\ RequestsComeFromClients' /\ PhaseInv' /\ Clients' = Clients
  BY CentralUnchanged
<1>2. /\ up' \in [Nodes -> Seq(UpMessage)]
      /\ \A m \in Nodes : m # n => up'[m] = up[m]
      /\ Len(up'[n]) = Len(up[n]) + 1 /\ Len(up[n]) \in Nat
      /\ \A i \in 1..Len(up[n]) : up'[n][i] = up[n][i]
      /\ up'[n][Len(up[n]) + 1] = [state |-> "registration", data |-> "sendingPackets"]
  <2>1. up' = [up EXCEPT ![n] = Append(@, [state |-> "registration", data |-> "sendingPackets"])]
    BY Strings DEF ResendRegistration, Dealt, TypeOK, NodeInv, At
  <2>2. [state |-> "registration", data |-> "sendingPackets"] \in UpMessage
    BY DEF UpMessage, Payload
  <2> QED BY <2>1, <2>2, DealtFacts
<1>5. TypeOK'
  <2>1. resends \in [Nodes -> 0..MaxResend] /\ resends[n] < MaxResend
    BY DEF TypeOK, ResendRegistration
  <2>2. resends[n] + 1 \in 0..MaxResend
    BY <2>1, NodeAssumption
  <2>3. resends' \in [Nodes -> 0..MaxResend]
    BY <2>1, <2>2 DEF ResendRegistration
  <2> QED BY <1>1, <1>2, <2>3 DEF TypeOK, ResendRegistration, centralVars
<1>6. NodeInv'
  BY <1>1, <1>2, Strings
     DEF TypeOK, NodeInv, ResendRegistration, At, Goto, centralVars, transportVars
<1>7. UpInv'
  <2> SUFFICES ASSUME NEW m \in Nodes, NEW i \in 1..Len(up'[m])
               PROVE  UpMessageInv(m, i)'
    BY DEF UpInv
  <2>1. CASE m # n
    <3>1. up'[m] = up[m] /\ UpMessageInv(m, i)
      BY <1>2, <2>1 DEF UpInv
    <3> QED BY <3>1, <2>1
               DEF UpMessageInv, TypeOK, ResendRegistration, At, Goto, centralVars
  <2>2. CASE m = n /\ i \in 1..Len(up[n])
    <3>1. UpMessageInv(n, i) /\ up'[n][i] = up[n][i]
      BY <1>2, <2>2 DEF UpInv
    <3>2. \A j \in 1..(i - 1) : up'[n][j] = up[n][j]
      BY <1>2, <2>2
    <3> QED BY <3>1, <3>2, <2>2
               DEF UpMessageInv, TypeOK, ResendRegistration, At, Goto, centralVars
  <2>3. CASE m = n /\ i = Len(up[n]) + 1
    <3>1. up'[n][i] = [state |-> "registration", data |-> "sendingPackets"]
      BY <1>2, <2>3
    <3> QED BY <3>1, <2>3 DEF UpMessageInv
  <2> QED BY <1>2, <2>1, <2>2, <2>3
<1>8. InprocInv'
  BY <1>1, <1>2
     DEF TypeOK, InprocInv, ResendRegistration, At, Goto, centralVars, transportVars
<1>9. CheckInv'
  BY <1>1, <1>2
     DEF TypeOK, CheckInv, Subscribed, ResendRegistration, At, Goto, centralVars,
         transportVars
<1>10. ReleaseInv'
  BY <1>1, <1>2
     DEF TypeOK, ReleaseInv, Released, Told, ResendRegistration, At, Goto, centralVars,
         transportVars
<1> QED BY <1>1, <1>5, <1>6, <1>7, <1>8, <1>9, <1>10

\* ReceiveAck preserves the invariant.
LEMMA ReceiveAckStep ==
  ASSUME IInv, NEW n \in Nodes, ReceiveAck(n), UNCHANGED centralVars
  PROVE  IInv'
<1> USE DEF IInv
<1>1. RegisteredOnce' /\ RequestsComeFromClients' /\ PhaseInv' /\ Clients' = Clients
  BY CentralUnchanged
<1>3. /\ down[n] # <<>> /\ down' = Fetched(n)
      /\ down' \in [Nodes -> Seq(Seq(Topics \cup Words))]
      /\ \A m \in Nodes : m # n => down'[m] = down[m]
      /\ Head(down[n]) \in Seq(Topics \cup Words)
      /\ Head(down[n]) \in Range(down[n])
      /\ \A m \in Nodes : Range(down'[m]) \subseteq Range(down[m])
  BY FetchedFacts DEF ReceiveAck
<1>4. nodeState' = [nodeState EXCEPT ![n] = "Syncronization"] /\ nodeState[n] = "Registration"
  BY Strings DEF TypeOK, NodeInv, ReceiveAck, At
<1>5. TypeOK'
  <2>1. /\ nodeState' \in [Nodes -> {"Registration", "Syncronization"}]
        /\ nodeService' \in [Nodes -> {"connecting", "awaitAck", "awaitNotice",
                                       "awaitAnswer", "serving"}]
    BY <1>4 DEF TypeOK, ReceiveAck, Goto
  <2> QED BY <1>1, <1>3, <2>1 DEF TypeOK, ReceiveAck, centralVars
<1>6. NodeInv'
  <2> SUFFICES ASSUME NEW m \in Nodes
               PROVE  /\ nodeState'[m] = "Registration" <=> nodeService'[m] \in {"connecting", "awaitAck"}
                      /\ nodeState'[m] = "Syncronization" => m \in Clients'
                      /\ down'[m] # <<>> => m \in Clients'
                      /\ m \in DOMAIN requestMap' => nodeService'[m] \in {"awaitAnswer", "serving"}
    BY DEF NodeInv
  <2>1. CASE m # n
    <3>1. nodeState'[m] = nodeState[m] /\ nodeService'[m] = nodeService[m]
      BY <1>4, <2>1 DEF TypeOK, ReceiveAck, Goto
    <3> QED BY <1>1, <1>3, <2>1, <3>1 DEF NodeInv, ReceiveAck, centralVars
  <2>2. CASE m = n
    BY <1>1, <1>3, <1>4, <2>2 DEF TypeOK, NodeInv, ReceiveAck, At, Goto, centralVars
  <2> QED BY <2>1, <2>2
<1>7. UpInv'
  <2> SUFFICES ASSUME NEW m \in Nodes, NEW i \in 1..Len(up[m])
               PROVE  UpMessageInv(m, i)'
    BY DEF UpInv, ReceiveAck, transportVars
  <2>1. UpMessageInv(m, i)
    BY DEF UpInv
  <2> QED BY <2>1
             DEF UpMessageInv, TypeOK, NodeInv, ReceiveAck, At, Goto, centralVars,
                 transportVars
<1>8. InprocInv'
  BY <1>1, <1>3 DEF TypeOK, InprocInv, ReceiveAck, At, Goto, centralVars, transportVars
<1>9. CheckInv'
  BY <1>1, <1>3
     DEF TypeOK, CheckInv, Subscribed, ReceiveAck, At, Goto, centralVars, transportVars
<1>10. ReleaseInv'
  BY <1>1, <1>3
     DEF TypeOK, ReleaseInv, Released, Told, ReceiveAck, At, Goto, centralVars,
         transportVars
<1> QED BY <1>1, <1>5, <1>6, <1>7, <1>8, <1>9, <1>10

\* SendRequest preserves the invariant.
LEMMA SendRequestStep ==
  ASSUME IInv, NEW n \in Nodes, SendRequest(n), UNCHANGED centralVars
  PROVE  IInv'
<1> USE DEF IInv
<1>1. RegisteredOnce' /\ RequestsComeFromClients' /\ PhaseInv' /\ Clients' = Clients
  BY CentralUnchanged
<1>2. /\ up' \in [Nodes -> Seq(UpMessage)]
      /\ \A m \in Nodes : m # n => up'[m] = up[m]
      /\ Len(up'[n]) = Len(up[n]) + 1 /\ Len(up[n]) \in Nat
      /\ \A i \in 1..Len(up[n]) : up'[n][i] = up[n][i]
      /\ up'[n][Len(up[n]) + 1] = [state |-> "syncronization", data |-> "requestedData"]
  <2>1. up' = [up EXCEPT ![n] = Append(@, [state |-> "syncronization", data |-> "requestedData"])]
    BY Strings DEF SendRequest, Dealt, TypeOK, NodeInv, At
  <2>2. [state |-> "syncronization", data |-> "requestedData"] \in UpMessage
    BY DEF UpMessage, Payload
  <2> QED BY <2>1, <2>2, DealtFacts
<1>3. /\ down[n] # <<>> /\ down' = Fetched(n)
      /\ down' \in [Nodes -> Seq(Seq(Topics \cup Words))]
      /\ \A m \in Nodes : m # n => down'[m] = down[m]
      /\ Head(down[n]) \in Seq(Topics \cup Words)
      /\ Head(down[n]) \in Range(down[n])
      /\ \A m \in Nodes : Range(down'[m]) \subseteq Range(down[m])
  BY FetchedFacts DEF SendRequest
<1>5. TypeOK'
  BY <1>1, <1>2, <1>3, Strings, NodeAssumption
     DEF TypeOK, SendRequest, At, Goto, centralVars, transportVars, nodeVars
<1>6. NodeInv'
  <2> SUFFICES ASSUME NEW m \in Nodes
               PROVE  /\ nodeState'[m] = "Registration" <=> nodeService'[m] \in {"connecting", "awaitAck"}
                      /\ nodeState'[m] = "Syncronization" => m \in Clients'
                      /\ down'[m] # <<>> => m \in Clients'
                      /\ m \in DOMAIN requestMap' => nodeService'[m] \in {"awaitAnswer", "serving"}
    BY DEF NodeInv
  <2>1. CASE m # n
    <3>1. nodeState'[m] = nodeState[m] /\ nodeService'[m] = nodeService[m]
      BY <2>1 DEF TypeOK, SendRequest, Goto
    <3> QED BY <1>1, <1>3, <2>1, <3>1 DEF NodeInv, SendRequest, centralVars
  <2>2. CASE m = n
    BY <1>1, <1>3, <2>2 DEF TypeOK, NodeInv, SendRequest, At, Goto, centralVars
  <2> QED BY <2>1, <2>2
<1>7. UpInv'
  <2> SUFFICES ASSUME NEW m \in Nodes, NEW i \in 1..Len(up'[m])
               PROVE  UpMessageInv(m, i)'
    BY DEF UpInv
  <2>1. CASE m # n
    <3>1. up'[m] = up[m] /\ UpMessageInv(m, i)
      BY <1>2, <2>1 DEF UpInv
    <3> QED BY <3>1, <2>1 DEF UpMessageInv, TypeOK, SendRequest, At, Goto, centralVars
  <2>2. CASE m = n /\ i \in 1..Len(up[n])
    <3>1. UpMessageInv(n, i) /\ up'[n][i] = up[n][i]
      BY <1>2, <2>2 DEF UpInv
    <3>2. \A j \in 1..(i - 1) : up'[n][j] = up[n][j]
      BY <1>2, <2>2
    <3> QED BY <3>1, <3>2, <2>2 DEF UpMessageInv, TypeOK, SendRequest, At, Goto, centralVars
  <2>3. CASE m = n /\ i = Len(up[n]) + 1
    <3>1. up'[n][i] = [state |-> "syncronization", data |-> "requestedData"]
      BY <1>2, <2>3
    <3>2. /\ n \notin DOMAIN requestMap' /\ nodeService'[n] = "awaitAnswer"
          /\ nodeService[n] = "awaitNotice"
      BY DEF NodeInv, TypeOK, SendRequest, At, Goto, centralVars
    <3>3. \A j \in 1..Len(up[n]) : up[n][j].data = "sendingPackets"
      BY <3>2 DEF UpInv, UpMessageInv
    <3>4. \A j \in 1..(i - 1) : up'[n][j].data = "sendingPackets"
      BY <1>2, <2>3, <3>3
    <3> QED BY <3>1, <3>2, <3>4, <2>3 DEF UpMessageInv
  <2> QED BY <1>2, <2>1, <2>2, <2>3
<1>8. InprocInv'
  BY <1>1, <1>2, <1>3
     DEF TypeOK, InprocInv, SendRequest, At, Goto, centralVars, transportVars
<1>9. CheckInv'
  BY <1>1, <1>2, <1>3
     DEF TypeOK, CheckInv, Subscribed, SendRequest, At, Goto, centralVars, transportVars
<1>10. ReleaseInv'
  BY <1>1, <1>2, <1>3
     DEF TypeOK, ReleaseInv, Released, Told, SendRequest, At, Goto, centralVars,
         transportVars
<1> QED BY <1>1, <1>5, <1>6, <1>7, <1>8, <1>9, <1>10

\* What a node's threads post on its inproc channels.
LEMMA InprocTypes ==
  ASSUME TypeOK, NEW n \in Nodes
  PROVE  LET st == toString[nodeState[n]]
         IN /\ [state |-> st, data |-> "received subscriptions"] \in ServiceNews
            /\ [state |-> st, data |-> "AllSubscribed"] \in ServiceNews
            /\ [state |-> st, data |-> "received subscriptions"] \in SubscribeOrder
            /\ [state |-> st, data |-> "subscribed"] \in Confirmation
<1>1. toString[nodeState[n]] \in {"registration", "syncronization"}
  BY Strings DEF TypeOK
<1> QED BY <1>1 DEF ServiceNews, SubscribeOrder, Confirmation, InprocMessage

\* A receive on an inproc channel.
LEMMA ReadFacts ==
  ASSUME NEW M, NEW queue \in [Nodes -> Seq(M)], NEW n \in Nodes, queue[n] # <<>>
  PROVE  /\ Read(queue, n) \in [Nodes -> Seq(M)]
         /\ \A m \in Nodes : m # n => Read(queue, n)[m] = queue[m]
         /\ Range(Read(queue, n)[n]) \subseteq Range(queue[n])
         /\ Head(queue[n]) \in M /\ Head(queue[n]) \in Range(queue[n])
  BY Dequeue DEF Read

\* ReceiveSubscriptions preserves the invariant.
LEMMA ReceiveSubscriptionsStep ==
  ASSUME IInv, NEW n \in Nodes, ReceiveSubscriptions(n), UNCHANGED centralVars
  PROVE  IInv'
<1> USE DEF IInv
<1>1. RegisteredOnce' /\ RequestsComeFromClients' /\ PhaseInv' /\ Clients' = Clients
  BY CentralUnchanged
<1>2. /\ down' \in [Nodes -> Seq(Seq(Topics \cup Words))]
      /\ \A m \in Nodes : m # n => down'[m] = down[m]
      /\ down[n] # <<>> /\ Head(down[n]) \in Seq(Topics \cup Words)
      /\ \A m \in Nodes : Range(down'[m]) \subseteq Range(down[m])
  BY FetchedFacts DEF ReceiveSubscriptions
<1>3. /\ serviceToMain' \in [Nodes -> Seq(ServiceNews)]
      /\ \A m \in Nodes : m # n => serviceToMain'[m] = serviceToMain[m]
      /\ \A x \in Range(serviceToMain'[n]) :
           x \in Range(serviceToMain[n]) \/ x.data = "received subscriptions"
  <2> DEFINE e == [state |-> toString[nodeState[n]], data |-> "received subscriptions"]
             posted == Posted(serviceToMain, n, "received subscriptions")
  <2>1. serviceToMain \in [Nodes -> Seq(ServiceNews)]
    BY DEF TypeOK
  <2>2. e \in ServiceNews
    BY InprocTypes
  <2>3. posted = [serviceToMain EXCEPT ![n] = Append(@, e)]
    BY DEF Posted
  <2>4. serviceToMain' = posted \/ serviceToMain' = serviceToMain
    BY DEF ReceiveSubscriptions
  <2>5. e.data = "received subscriptions"
    OBVIOUS
  <2> HIDE DEF IInv, e, posted
  <2>6. serviceToMain[n] \in Seq(ServiceNews) /\ posted[n] = Append(serviceToMain[n], e)
    BY <2>1, <2>3
  <2>7. posted[n] \in Seq(ServiceNews) /\ Range(posted[n]) = Range(serviceToMain[n]) \cup {e}
    BY <2>2, <2>6, AppendFacts
  <2>8. posted \in [Nodes -> Seq(ServiceNews)] /\ \A m \in Nodes : m # n => posted[m] = serviceToMain[m]
    BY <2>1, <2>3, <2>7
  <2> QED BY <2>1, <2>4, <2>5, <2>7, <2>8
<1>4. nodeService' \in [Nodes -> {"connecting", "awaitAck", "awaitNotice",
                                  "awaitAnswer", "serving"}]
      /\ nodeService'[n] = "serving" /\ nodeService[n] = "awaitAnswer"
      /\ \A m \in Nodes : m # n => nodeService'[m] = nodeService[m]
  BY DEF TypeOK, ReceiveSubscriptions, At, Goto
<1>5. TypeOK'
  <2>1. subscriptions' \in [Nodes -> Seq(Topics \cup Words)]
    <3>1. subscriptions[n] \in Seq(Topics \cup Words)
      BY DEF TypeOK
    <3>2. subscriptions[n] \o Head(down[n]) \in Seq(Topics \cup Words)
      BY <1>2, <3>1, ConcatProperties
    <3> QED BY <3>2 DEF TypeOK, ReceiveSubscriptions
  <2> QED BY <1>1, <1>2, <1>3, <1>4, <2>1 DEF TypeOK, ReceiveSubscriptions, centralVars
<1>6. NodeInv'
  BY <1>1, <1>2, <1>4 DEF NodeInv, ReceiveSubscriptions, centralVars
<1>7. UpInv'
  <2> SUFFICES ASSUME NEW m \in Nodes, NEW i \in 1..Len(up[m])
               PROVE  UpMessageInv(m, i)'
    BY DEF UpInv, ReceiveSubscriptions
  <2>1. UpMessageInv(m, i)
    BY DEF UpInv
  <2> QED BY <2>1, <1>4 DEF UpMessageInv, ReceiveSubscriptions, centralVars
<1>8. InprocInv'
  BY <1>3, <1>4 DEF InprocInv, ReceiveSubscriptions
<1>9. CheckInv'
  BY <1>1 DEF CheckInv, Subscribed, ReceiveSubscriptions, centralVars
<1>10. ReleaseInv'
  <2>1. \A m \in Nodes : (\E x \in Range(serviceToMain'[m]) : x.data = "AllSubscribed")
          => \E x \in Range(serviceToMain[m]) : x.data = "AllSubscribed"
    BY <1>3
  <2>2. Released' = Released /\ Told' = Told
    BY DEF Released, Told, ReceiveSubscriptions, centralVars
  <2> QED BY <1>1, <1>2, <2>1, <2>2 DEF ReleaseInv
<1> QED BY <1>1, <1>5, <1>6, <1>7, <1>8, <1>9, <1>10

\* ForwardToCentral preserves the invariant.
LEMMA ForwardToCentralStep ==
  ASSUME IInv, NEW n \in Nodes, ForwardToCentral(n), UNCHANGED centralVars
  PROVE  IInv'
<1> USE DEF IInv
<1>1. RegisteredOnce' /\ RequestsComeFromClients' /\ PhaseInv' /\ Clients' = Clients
  BY CentralUnchanged
<1>2. /\ mainToService' \in [Nodes -> Seq(Confirmation)]
      /\ \A m \in Nodes : m # n => mainToService'[m] = mainToService[m]
      /\ mainToService[n] # <<>>
      /\ Head(mainToService[n]) \in Confirmation
  <2>1. /\ mainToService \in [Nodes -> Seq(Confirmation)] /\ mainToService[n] # <<>>
        /\ mainToService' = Read(mainToService, n)
    BY DEF TypeOK, ForwardToCentral
  <2> HIDE DEF IInv
  <2> QED BY <2>1, ReadFacts
<1>3. nodeService[n] = "serving" /\ nodeState[n] = "Syncronization"
  BY DEF TypeOK, NodeInv, ForwardToCentral, At
<1>4. /\ up' \in [Nodes -> Seq(UpMessage)]
      /\ \A m \in Nodes : m # n => up'[m] = up[m]
      /\ Len(up'[n]) = Len(up[n]) + 1 /\ Len(up[n]) \in Nat
      /\ \A i \in 1..Len(up[n]) : up'[n][i] = up[n][i]
      /\ up'[n][Len(up[n]) + 1] = [state |-> "syncronization", data |-> "subscribed"]
  <2>1. Head(mainToService[n]).data = "subscribed"
    BY <1>2 DEF Confirmation, InprocMessage
  <2>2. up' = [up EXCEPT ![n] = Append(@, [state |-> "syncronization", data |-> "subscribed"])]
    BY <1>3, <2>1, Strings DEF ForwardToCentral, Dealt
  <2>3. [state |-> "syncronization", data |-> "subscribed"] \in UpMessage
    BY DEF UpMessage, Payload
  <2> QED BY <2>2, <2>3, DealtFacts
<1>5. TypeOK'
  BY <1>1, <1>2, <1>4 DEF TypeOK, ForwardToCentral, centralVars
<1>6. NodeInv'
  BY <1>1 DEF NodeInv, ForwardToCentral, centralVars
<1>7. UpInv'
  <2> SUFFICES ASSUME NEW m \in Nodes, NEW i \in 1..Len(up'[m])
               PROVE  UpMessageInv(m, i)'
    BY DEF UpInv
  <2>1. CASE m # n
    <3>1. up'[m] = up[m] /\ UpMessageInv(m, i)
      BY <1>4, <2>1 DEF UpInv
    <3> QED BY <3>1 DEF UpMessageInv, ForwardToCentral, centralVars
  <2>2. CASE m = n /\ i \in 1..Len(up[n])
    <3>1. UpMessageInv(n, i) /\ up'[n][i] = up[n][i]
      BY <1>4, <2>2 DEF UpInv
    <3>2. \A j \in 1..(i - 1) : up'[n][j] = up[n][j]
      BY <1>4, <2>2
    <3> QED BY <3>1, <3>2, <2>2 DEF UpMessageInv, ForwardToCentral, centralVars
  <2>3. CASE m = n /\ i = Len(up[n]) + 1
    <3>1. up'[n][i] = [state |-> "syncronization", data |-> "subscribed"]
      BY <1>4, <2>3
    <3>2. subThread'[n] = "subscribed" /\ nodeService'[n] = "serving"
      BY <1>2, <1>3 DEF InprocInv, ForwardToCentral
    <3> QED BY <3>1, <3>2, <2>3 DEF UpMessageInv
  <2> QED BY <1>4, <2>1, <2>2, <2>3
<1>8. InprocInv'
  BY <1>2 DEF InprocInv, ForwardToCentral
<1>9. CheckInv'
  BY <1>1 DEF CheckInv, Subscribed, ForwardToCentral, centralVars
<1>10. ReleaseInv'
  BY <1>1 DEF ReleaseInv, Released, Told, ForwardToCentral, centralVars
<1> QED BY <1>1, <1>5, <1>6, <1>7, <1>8, <1>9, <1>10

\* ReceiveFromCentral preserves the invariant.
LEMMA ReceiveFromCentralStep ==
  ASSUME IInv, NEW n \in Nodes, ReceiveFromCentral(n), UNCHANGED centralVars
  PROVE  IInv'
<1> USE DEF IInv
<1>1. RegisteredOnce' /\ RequestsComeFromClients' /\ PhaseInv' /\ Clients' = Clients
  BY CentralUnchanged
<1>2. /\ down' \in [Nodes -> Seq(Seq(Topics \cup Words))]
      /\ \A m \in Nodes : m # n => down'[m] = down[m]
      /\ down[n] # <<>> /\ Head(down[n]) \in Range(down[n])
      /\ \A m \in Nodes : Range(down'[m]) \subseteq Range(down[m])
  BY FetchedFacts DEF ReceiveFromCentral
<1>3. /\ serviceToMain' \in [Nodes -> Seq(ServiceNews)]
      /\ \A m \in Nodes : m # n => serviceToMain'[m] = serviceToMain[m]
      /\ \/ serviceToMain' = serviceToMain
         \/ Head(down[n]) = <<"syncronization", "AllSubscribed">>
  <2> DEFINE e == [state |-> toString[nodeState[n]], data |-> "AllSubscribed"]
             posted == Posted(serviceToMain, n, "AllSubscribed")
  <2>1. serviceToMain \in [Nodes -> Seq(ServiceNews)]
    BY DEF TypeOK
  <2>2. e \in ServiceNews
    BY InprocTypes
  <2>3. posted = [serviceToMain EXCEPT ![n] = Append(@, e)]
    BY DEF Posted
  <2>4. \/ serviceToMain' = serviceToMain
        \/ /\ Head(down[n]) = <<"syncronization", "AllSubscribed">>
           /\ serviceToMain' = posted
    BY DEF ReceiveFromCentral
  <2>5. e.data = "AllSubscribed"
    OBVIOUS
  <2> HIDE DEF IInv, e, posted
  <2>6. serviceToMain[n] \in Seq(ServiceNews) /\ posted[n] = Append(serviceToMain[n], e)
    BY <2>1, <2>3
  <2>7. posted[n] \in Seq(ServiceNews) /\ Range(posted[n]) = Range(serviceToMain[n]) \cup {e}
    BY <2>2, <2>6, AppendFacts
  <2>8. posted \in [Nodes -> Seq(ServiceNews)] /\ \A m \in Nodes : m # n => posted[m] = serviceToMain[m]
    BY <2>1, <2>3, <2>7
  <2> QED BY <2>1, <2>4, <2>5, <2>7, <2>8
<1>4. nodeService[n] = "serving"
  BY DEF ReceiveFromCentral, At
<1>5. TypeOK'
  BY <1>1, <1>2, <1>3 DEF TypeOK, ReceiveFromCentral, centralVars
<1>6. NodeInv'
  BY <1>1, <1>2 DEF NodeInv, ReceiveFromCentral, centralVars
<1>7. UpInv'
  BY DEF UpInv, UpMessageInv, ReceiveFromCentral, centralVars
<1>8. InprocInv'
  BY <1>3, <1>4 DEF InprocInv, ReceiveFromCentral
<1>9. CheckInv'
  BY <1>1 DEF CheckInv, Subscribed, ReceiveFromCentral, centralVars
<1>10. ReleaseInv'
  BY <1>1, <1>2, <1>3 DEF ReleaseInv, Released, Told, ReceiveFromCentral, centralVars
<1> QED BY <1>1, <1>5, <1>6, <1>7, <1>8, <1>9, <1>10

\* The end of a process (FailToConnect, ReadPastEnd, FailToBind) preserves the invariant.
LEMMA ExitStep ==
  ASSUME IInv, NEW n \in Nodes, ExitProcess(ProcessOf[n]),
         UNCHANGED nodeVars, UNCHANGED centralVars
  PROVE  IInv'
<1> USE DEF IInv
<1>1. RegisteredOnce' /\ RequestsComeFromClients' /\ PhaseInv' /\ Clients' = Clients
  BY CentralUnchanged
<1>2. /\ exited' \subseteq Processes
      /\ up' \in [Nodes -> Seq(UpMessage)]
      /\ down' \in [Nodes -> Seq(Seq(Topics \cup Words))]
      /\ \A m \in Nodes : \A i \in 1..Len(up'[m]) :
           i \in 1..Len(up[m]) /\ up'[m][i] = up[m][i]
      /\ \A m \in Nodes : down'[m] = <<>> \/ down'[m] = down[m]
  BY ExitFacts, TransportAssumption DEF TypeOK
<1>5. TypeOK'
  BY <1>1, <1>2 DEF TypeOK, nodeVars, centralVars
<1>6. NodeInv'
  BY <1>1, <1>2 DEF NodeInv, nodeVars, centralVars
<1>7. UpInv'
  <2> SUFFICES ASSUME NEW m \in Nodes, NEW i \in 1..Len(up'[m])
               PROVE  UpMessageInv(m, i)'
    BY DEF UpInv
  <2>1. UpMessageInv(m, i) /\ up'[m][i] = up[m][i]
    BY <1>2 DEF UpInv
  <2>2. Len(up'[m]) \in Nat
    BY <1>2
  <2>3. \A j \in 1..(i - 1) : up'[m][j] = up[m][j]
    BY <1>2, <2>2
  <2> QED BY <2>1, <2>3 DEF UpMessageInv, nodeVars, centralVars
<1>8. InprocInv'
  BY DEF InprocInv, nodeVars
<1>9. CheckInv'
  BY <1>1 DEF CheckInv, Subscribed, nodeVars, centralVars
<1>10. ReleaseInv'
  <2>1. \A m \in Nodes : Range(down'[m]) \subseteq Range(down[m])
    <3>1. Range(<<>>) = {}
      BY DEF Range
    <3> QED BY <1>2, <3>1
  <2> QED BY <1>1, <2>1 DEF ReleaseInv, Released, Told, nodeVars, centralVars
<1> QED BY <1>1, <1>5, <1>6, <1>7, <1>8, <1>9, <1>10

\* MainFromService preserves the invariant.
LEMMA MainFromServiceStep ==
  ASSUME IInv, NEW n \in Nodes, MainFromService(n), UNCHANGED centralVars
  PROVE  IInv'
<1> USE DEF IInv
<1> DEFINE T == {"received subscriptions", "AllSubscribed"}
           msg == Head(serviceToMain[n])
<1>1. RegisteredOnce' /\ RequestsComeFromClients' /\ PhaseInv' /\ Clients' = Clients
  BY CentralUnchanged
<1>2. /\ serviceToMain' \in [Nodes -> Seq(ServiceNews)]
      /\ \A m \in Nodes : Range(serviceToMain'[m]) \subseteq Range(serviceToMain[m])
      /\ serviceToMain[n] # <<>>
      /\ \A m \in Nodes : m # n => serviceToMain'[m] = serviceToMain[m]
      /\ msg \in ServiceNews /\ msg \in Range(serviceToMain[n])
  <2>1. serviceToMain \in [Nodes -> Seq(ServiceNews)] /\ serviceToMain[n] # <<>>
    BY DEF TypeOK, MainFromService
  <2>2. serviceToMain' = Read(serviceToMain, n)
    BY DEF MainFromService
  <2>3. /\ Read(serviceToMain, n) \in [Nodes -> Seq(ServiceNews)]
        /\ \A m \in Nodes : m # n => Read(serviceToMain, n)[m] = serviceToMain[m]
        /\ Range(Read(serviceToMain, n)[n]) \subseteq Range(serviceToMain[n])
        /\ msg \in ServiceNews /\ msg \in Range(serviceToMain[n])
    BY <2>1, ReadFacts
  <2> QED BY <2>1, <2>2, <2>3
<1>3. /\ mainSeen' \in [Nodes -> SUBSET T]
      /\ \A m \in Nodes : m # n => mainSeen'[m] = mainSeen[m]
      /\ mainSeen'[n] = mainSeen[n] \/ mainSeen'[n] = mainSeen[n] \cup {msg.data}
  <2>1. msg.data \in T /\ mainSeen \in [Nodes -> SUBSET T]
    BY <1>2 DEF ServiceNews, InprocMessage, TypeOK
  <2>2. \/ mainSeen' = mainSeen
        \/ mainSeen' = [mainSeen EXCEPT ![n] = @ \cup {msg.data}]
    BY DEF MainFromService
  <2> QED BY <2>1, <2>2
<1>4. /\ mainToSub' \in [Nodes -> Seq(SubscribeOrder)]
      /\ \A m \in Nodes : m # n => mainToSub'[m] = mainToSub[m]
  <2> DEFINE e == [state |-> toString[nodeState[n]], data |-> "received subscriptions"]
             posted == Posted(mainToSub, n, "received subscriptions")
  <2>1. mainToSub \in [Nodes -> Seq(SubscribeOrder)]
    BY DEF TypeOK
  <2>2. e \in SubscribeOrder
    BY InprocTypes
  <2>3. posted = [mainToSub EXCEPT ![n] = Append(@, e)]
    BY DEF Posted
  <2>4. mainToSub' = posted \/ mainToSub' = mainToSub
    BY DEF MainFromService
  <2>5. e.data = "received subscriptions"
    OBVIOUS
  <2> HIDE DEF IInv, e, posted
  <2>6. mainToSub[n] \in Seq(SubscribeOrder) /\ posted[n] = Append(mainToSub[n], e)
    BY <2>1, <2>3
  <2>7. posted[n] \in Seq(SubscribeOrder) /\ Range(posted[n]) = Range(mainToSub[n]) \cup {e}
    BY <2>2, <2>6, AppendFacts
  <2>8. posted \in [Nodes -> Seq(SubscribeOrder)] /\ \A m \in Nodes : m # n => posted[m] = mainToSub[m]
    BY <2>1, <2>3, <2>7
  <2> QED BY <2>1, <2>4, <2>5, <2>7, <2>8
<1>5. TypeOK'
  BY <1>1, <1>2, <1>3, <1>4 DEF TypeOK, MainFromService, transportVars, centralVars
<1>6. NodeInv'
  BY <1>1 DEF NodeInv, MainFromService, transportVars, centralVars
<1>7. UpInv'
  BY DEF UpInv, UpMessageInv, MainFromService, transportVars, centralVars
<1>8. InprocInv'
  BY <1>2, <1>4 DEF InprocInv, MainFromService
<1>9. CheckInv'
  BY <1>1 DEF CheckInv, Subscribed, MainFromService, centralVars
<1>10. ReleaseInv'
  <2>1. ASSUME NEW m \in Nodes, m \in Told'
        PROVE  m \in Told \/ \E x \in Range(serviceToMain[m]) : x.data = "AllSubscribed"
    BY <1>2, <1>3, <2>1 DEF Told
  <2>2. Released' = Released /\ down' = down
    BY DEF Released, MainFromService, transportVars, centralVars
  <2> QED BY <1>1, <1>2, <2>1, <2>2 DEF ReleaseInv
<1> QED BY <1>1, <1>5, <1>6, <1>7, <1>8, <1>9, <1>10

\* MainFromSub preserves the invariant.
LEMMA MainFromSubStep ==
  ASSUME IInv, NEW n \in Nodes, MainFromSub(n), UNCHANGED centralVars
  PROVE  IInv'
<1> USE DEF IInv
<1>1. RegisteredOnce' /\ RequestsComeFromClients' /\ PhaseInv' /\ Clients' = Clients
  BY CentralUnchanged
<1>2. /\ subToMain' \in [Nodes -> Seq(Confirmation)]
      /\ \A m \in Nodes : m # n => subToMain'[m] = subToMain[m]
      /\ subToMain[n] # <<>>
  <2>1. /\ subToMain \in [Nodes -> Seq(Confirmation)] /\ subToMain[n] # <<>>
        /\ subToMain' = Read(subToMain, n)
    BY DEF TypeOK, MainFromSub
  <2> HIDE DEF IInv
  <2> QED BY <2>1, ReadFacts
<1>3. /\ mainToService' \in [Nodes -> Seq(Confirmation)]
      /\ \A m \in Nodes : m # n => mainToService'[m] = mainToService[m]
  <2> DEFINE e == [state |-> toString[nodeState[n]], data |-> "subscribed"]
             posted == Posted(mainToService, n, "subscribed")
  <2>1. mainToService \in [Nodes -> Seq(Confirmation)]
    BY DEF TypeOK
  <2>2. e \in Confirmation
    BY InprocTypes
  <2>3. posted = [mainToService EXCEPT ![n] = Append(@, e)]
    BY DEF Posted
  <2>4. mainToService' = posted \/ mainToService' = mainToService
    BY DEF MainFromSub
  <2>5. e.data = "subscribed"
    OBVIOUS
  <2> HIDE DEF IInv, e, posted
  <2>6. mainToService[n] \in Seq(Confirmation) /\ posted[n] = Append(mainToService[n], e)
    BY <2>1, <2>3
  <2>7. posted[n] \in Seq(Confirmation) /\ Range(posted[n]) = Range(mainToService[n]) \cup {e}
    BY <2>2, <2>6, AppendFacts
  <2>8. posted \in [Nodes -> Seq(Confirmation)] /\ \A m \in Nodes : m # n => posted[m] = mainToService[m]
    BY <2>1, <2>3, <2>7
  <2> QED BY <2>1, <2>4, <2>5, <2>7, <2>8
<1>5. TypeOK'
  BY <1>1, <1>2, <1>3 DEF TypeOK, MainFromSub, transportVars, centralVars
<1>6. NodeInv'
  BY <1>1 DEF NodeInv, MainFromSub, transportVars, centralVars
<1>7. UpInv'
  BY DEF UpInv, UpMessageInv, MainFromSub, transportVars, centralVars
<1>8. InprocInv'
  BY <1>2, <1>3 DEF InprocInv, MainFromSub
<1>9. CheckInv'
  BY <1>1 DEF CheckInv, Subscribed, MainFromSub, centralVars
<1>10. ReleaseInv'
  BY <1>1 DEF ReleaseInv, Released, Told, MainFromSub, transportVars, centralVars
<1> QED BY <1>1, <1>5, <1>6, <1>7, <1>8, <1>9, <1>10

\* Subscribe preserves the invariant.
LEMMA SubscribeStep ==
  ASSUME IInv, NEW n \in Nodes, Subscribe(n), UNCHANGED centralVars
  PROVE  IInv'
<1> USE DEF IInv
<1>1. RegisteredOnce' /\ RequestsComeFromClients' /\ PhaseInv' /\ Clients' = Clients
  BY CentralUnchanged
<1>2. /\ mainToSub' \in [Nodes -> Seq(SubscribeOrder)]
      /\ \A m \in Nodes : m # n => mainToSub'[m] = mainToSub[m]
      /\ mainToSub[n] # <<>>
  <2>1. /\ mainToSub \in [Nodes -> Seq(SubscribeOrder)] /\ mainToSub[n] # <<>>
        /\ mainToSub' = Read(mainToSub, n)
    BY DEF TypeOK, Subscribe
  <2> HIDE DEF IInv
  <2> QED BY <2>1, ReadFacts
<1>3. /\ subToMain' \in [Nodes -> Seq(Confirmation)]
      /\ \A m \in Nodes : m # n => subToMain'[m] = subToMain[m]
  <2> DEFINE e == [state |-> toString[nodeState[n]], data |-> "subscribed"]
             posted == Posted(subToMain, n, "subscribed")
  <2>1. subToMain \in [Nodes -> Seq(Confirmation)]
    BY DEF TypeOK
  <2>2. e \in Confirmation
    BY InprocTypes
  <2>3. posted = [subToMain EXCEPT ![n] = Append(@, e)]
    BY DEF Posted
  <2>4. subToMain' = posted \/ subToMain' = subToMain
    BY DEF Subscribe
  <2>5. e.data = "subscribed"
    OBVIOUS
  <2> HIDE DEF IInv, e, posted
  <2>6. subToMain[n] \in Seq(Confirmation) /\ posted[n] = Append(subToMain[n], e)
    BY <2>1, <2>3
  <2>7. posted[n] \in Seq(Confirmation) /\ Range(posted[n]) = Range(subToMain[n]) \cup {e}
    BY <2>2, <2>6, AppendFacts
  <2>8. posted \in [Nodes -> Seq(Confirmation)] /\ \A m \in Nodes : m # n => posted[m] = subToMain[m]
    BY <2>1, <2>3, <2>7
  <2> QED BY <2>1, <2>4, <2>5, <2>7, <2>8
<1>4. /\ subThread' \in [Nodes -> {"waiting", "subscribed"}]
      /\ subThread'[n] = "subscribed"
      /\ \A m \in Nodes : m # n => subThread'[m] = subThread[m]
  BY DEF TypeOK, Subscribe
<1>5. TypeOK'
  BY <1>1, <1>2, <1>3, <1>4 DEF TypeOK, Subscribe, transportVars, centralVars
<1>6. NodeInv'
  BY <1>1 DEF NodeInv, Subscribe, transportVars, centralVars
<1>7. UpInv'
  BY <1>4 DEF UpInv, UpMessageInv, Subscribe, transportVars, centralVars
<1>8. InprocInv'
  <2>1. nodeService[n] = "serving"
    BY <1>2 DEF InprocInv
  <2> QED BY <1>2, <1>3, <1>4, <2>1 DEF InprocInv, Subscribe
<1>9. CheckInv'
  BY <1>1, <1>4 DEF CheckInv, Subscribed, centralVars
<1>10. ReleaseInv'
  BY <1>1 DEF ReleaseInv, Released, Told, Subscribe, transportVars, centralVars
<1> QED BY <1>1, <1>5, <1>6, <1>7, <1>8, <1>9, <1>10

\* BindPublisher preserves the invariant.
LEMMA BindPublisherStep ==
  ASSUME IInv, NEW n \in Nodes, BindPublisher(n), UNCHANGED centralVars
  PROVE  IInv'
<1> USE DEF IInv
<1>1. RegisteredOnce' /\ RequestsComeFromClients' /\ PhaseInv' /\ Clients' = Clients
  BY CentralUnchanged
<1>2. pubThread' \in [Nodes -> {"starting", "bound"}]
  BY DEF TypeOK, BindPublisher
<1>5. TypeOK'
  BY <1>1, <1>2 DEF TypeOK, BindPublisher, transportVars, centralVars
<1>6. NodeInv' /\ InprocInv'
  BY <1>1 DEF NodeInv, InprocInv, BindPublisher, transportVars, centralVars
<1>7. UpInv'
  BY DEF UpInv, UpMessageInv, BindPublisher, transportVars, centralVars
<1>9. CheckInv'
  BY <1>1 DEF CheckInv, Subscribed, BindPublisher, centralVars
<1>10. ReleaseInv'
  BY <1>1 DEF ReleaseInv, Released, Told, BindPublisher, transportVars, centralVars
<1> QED BY <1>1, <1>5, <1>6, <1>7, <1>9, <1>10

\* What only speaks of nodes survives the steps of Central.
LEMMA NodesUnchanged ==
  ASSUME IInv, UNCHANGED nodeVars
  PROVE  InprocInv' /\ Subscribed' = Subscribed /\ Told' = Told
  BY DEF IInv, nodeVars, InprocInv, Subscribed, Told

\* UpInv survives a receive of Central, also when the message read becomes the
\* node's request.
LEMMA UpTaken ==
  ASSUME IInv, NEW n \in Nodes, up[n] # <<>>, up' = Taken(n), UNCHANGED nodeVars,
         \A m \in Nodes : m \in DOMAIN requestMap' =>
           m \in DOMAIN requestMap \/ (m = n /\ Head(up[n]).data # "sendingPackets")
  PROVE  UpInv' /\ up' \in [Nodes -> Seq(UpMessage)]
<1>1. /\ up' \in [Nodes -> Seq(UpMessage)]
      /\ \A m \in Nodes : m # n => up'[m] = up[m]
      /\ Len(up'[n]) = Len(up[n]) - 1 /\ Len(up[n]) \in Nat /\ Len(up[n]) >= 1
      /\ Head(up[n]) = up[n][1]
      /\ \A i \in 1..Len(up'[n]) : up'[n][i] = up[n][i + 1]
  BY TakenFacts DEF IInv
<1> SUFFICES ASSUME NEW m \in Nodes, NEW i \in 1..Len(up'[m])
             PROVE  UpMessageInv(m, i)'
  BY <1>1 DEF UpInv
<1>2. CASE m # n
  <2>1. up'[m] = up[m] /\ UpMessageInv(m, i)
    BY <1>1, <1>2 DEF IInv, UpInv
  <2> QED BY <2>1, <1>2 DEF UpMessageInv, nodeVars
<1>3. CASE m = n
  <2>1. i + 1 \in 1..Len(up[n]) /\ up'[n][i] = up[n][i + 1] /\ i \in Nat /\ i >= 1
    BY <1>1, <1>3
  <2>2. UpMessageInv(n, i + 1)
    BY <2>1 DEF IInv, UpInv
  <2>3. \A j \in 1..(i - 1) : up'[n][j] = up[n][j + 1] /\ j + 1 \in 1..((i + 1) - 1)
    <3>1. i \in 1..Len(up'[n])
      BY <1>3
    <3>2. \A j \in 1..(i - 1) : j \in 1..Len(up'[n]) /\ j + 1 \in 1..((i + 1) - 1)
      BY <1>1, <2>1, <3>1
    <3> QED BY <1>1, <3>2
  <2>4. up[n][i + 1].data = "requestedData" =>
          /\ up[n][1].data = "sendingPackets"
          /\ n \notin DOMAIN requestMap
          /\ \A j \in 1..(i - 1) : up'[n][j].data = "sendingPackets"
    <3>1. 1 \in 1..((i + 1) - 1)
      BY <2>1
    <3> QED BY <2>2, <2>3, <3>1 DEF UpMessageInv
  <2>5. up[n][i + 1].data = "requestedData" => n \notin DOMAIN requestMap'
    BY <1>1, <2>4
  <2> QED BY <1>3, <2>1, <2>2, <2>4, <2>5 DEF UpMessageInv, nodeVars
<1> QED BY <1>2, <1>3

\* Bind preserves the invariant.
LEMMA BindStep ==
  ASSUME IInv, Bind, UNCHANGED nodeVars
  PROVE  IInv'
<1> USE DEF IInv
<1>1. InprocInv' /\ Subscribed' = Subscribed /\ Told' = Told
  BY NodesUnchanged
<1>2. Clients' = Clients
  BY DEF Clients, Bind
<1>3. TypeOK'
  BY DEF TypeOK, Bind, transportVars, nodeVars
<1>4. RegisteredOnce' /\ RequestsComeFromClients' /\ PhaseInv'
  BY <1>2 DEF RegisteredOnce, RequestsComeFromClients, PhaseInv, Bind
<1>5. NodeInv' /\ UpInv'
  BY <1>2 DEF NodeInv, UpInv, UpMessageInv, Bind, transportVars, nodeVars
<1>6. CheckInv'
  BY DEF CheckInv, Bind
<1>7. ReleaseInv'
  BY <1>1 DEF ReleaseInv, Released, Bind, transportVars, nodeVars
<1> QED BY <1>1, <1>3, <1>4, <1>5, <1>6, <1>7

\* RequestTimeout preserves the invariant.
LEMMA RequestTimeoutStep ==
  ASSUME IInv, RequestTimeout, UNCHANGED nodeVars
  PROVE  IInv'
<1> USE DEF IInv
<1>1. InprocInv' /\ Subscribed' = Subscribed /\ Told' = Told
  BY NodesUnchanged
<1>2. Clients' = Clients
  BY DEF Clients, RequestTimeout
<1>3. TypeOK'
  BY DEF TypeOK, RequestTimeout, transportVars, nodeVars
<1>4. RegisteredOnce' /\ RequestsComeFromClients' /\ PhaseInv'
  BY <1>2 DEF RegisteredOnce, RequestsComeFromClients, PhaseInv, RequestTimeout
<1>5. NodeInv' /\ UpInv'
  BY <1>2 DEF NodeInv, UpInv, UpMessageInv, RequestTimeout, transportVars, nodeVars
<1>6. CheckInv'
  BY DEF CheckInv, RequestTimeout
<1>7. ReleaseInv'
  BY <1>1, <1>2 DEF ReleaseInv, Released, RequestTimeout, transportVars, nodeVars
<1> QED BY <1>1, <1>3, <1>4, <1>5, <1>6, <1>7

\* StartTimer preserves the invariant.
LEMMA StartTimerStep ==
  ASSUME IInv, StartTimer, UNCHANGED nodeVars
  PROVE  IInv'
<1> USE DEF IInv
<1>1. InprocInv' /\ Subscribed' = Subscribed /\ Told' = Told
  BY NodesUnchanged
<1>2. Clients' = Clients
  BY DEF Clients, StartTimer
<1>3. TypeOK'
  <2>1. serviceChannel' \in Seq({"syncronization Completed"})
    BY TailFacts DEF TypeOK, StartTimer
  <2> QED BY <2>1 DEF TypeOK, StartTimer, transportVars, nodeVars
<1>4. RegisteredOnce' /\ RequestsComeFromClients' /\ PhaseInv'
  BY <1>2 DEF RegisteredOnce, RequestsComeFromClients, PhaseInv, StartTimer
<1>5. NodeInv' /\ UpInv'
  BY <1>2 DEF NodeInv, UpInv, UpMessageInv, StartTimer, transportVars, nodeVars
<1>6. CheckInv'
  BY <1>1, <1>2 DEF CheckInv, StartTimer
<1>7. ReleaseInv'
  BY <1>1, <1>2 DEF ReleaseInv, Released, StartTimer, transportVars, nodeVars
<1> QED BY <1>1, <1>3, <1>4, <1>5, <1>6, <1>7

\* DiscardMessage preserves the invariant.
LEMMA DiscardMessageStep ==
  ASSUME IInv, NEW n \in Nodes, DiscardMessage(n), UNCHANGED nodeVars
  PROVE  IInv'
<1> USE DEF IInv
<1>1. InprocInv' /\ Subscribed' = Subscribed /\ Told' = Told
  BY NodesUnchanged
<1>2. Clients' = Clients
  BY DEF Clients, DiscardMessage
<1>3. UpInv' /\ up' \in [Nodes -> Seq(UpMessage)]
  BY UpTaken DEF DiscardMessage
<1>4. TypeOK'
  BY <1>3 DEF TypeOK, DiscardMessage, nodeVars
<1>5. RegisteredOnce' /\ RequestsComeFromClients' /\ PhaseInv'
  BY <1>2 DEF RegisteredOnce, RequestsComeFromClients, PhaseInv, DiscardMessage
<1>6. NodeInv'
  BY <1>2 DEF NodeInv, DiscardMessage, nodeVars
<1>7. CheckInv'
  BY DEF CheckInv, DiscardMessage
<1>8. ReleaseInv'
  BY <1>1, <1>2 DEF ReleaseInv, Released, DiscardMessage, nodeVars
<1> QED BY <1>1, <1>3, <1>4, <1>5, <1>6, <1>7, <1>8

\* IgnoreMessage preserves the invariant.
LEMMA IgnoreMessageStep ==
  ASSUME IInv, NEW n \in Nodes, IgnoreMessage(n), UNCHANGED nodeVars
  PROVE  IInv'
<1> USE DEF IInv
<1>1. InprocInv' /\ Subscribed' = Subscribed /\ Told' = Told
  BY NodesUnchanged
<1>2. RegisteredOnce' /\ RequestsComeFromClients' /\ PhaseInv' /\ Clients' = Clients
  BY CentralUnchanged DEF IgnoreMessage
<1>3. UpInv' /\ up' \in [Nodes -> Seq(UpMessage)]
  BY UpTaken DEF IgnoreMessage, centralVars
<1>4. TypeOK'
  BY <1>3 DEF TypeOK, IgnoreMessage, nodeVars, centralVars
<1>6. NodeInv'
  BY <1>2 DEF NodeInv, IgnoreMessage, nodeVars, centralVars
<1>7. CheckInv'
  BY <1>1, <1>2 DEF CheckInv, IgnoreMessage, centralVars
<1>8. ReleaseInv'
  BY <1>1, <1>2 DEF ReleaseInv, Released, IgnoreMessage, nodeVars, centralVars
<1> QED BY <1>1, <1>2, <1>3, <1>4, <1>6, <1>7, <1>8

\* A round of registerClient: whoever sent the message is a client afterwards,
\* once, and is told "connected"; the reply for a wrong state is never needed.
LEMMA RegisterClientFacts ==
  ASSUME IInv, NEW n \in Nodes, RegisterClient(n)
  PROVE  /\ serviceThread = "registering" /\ serviceThread' = "registering"
         /\ connectedClients' \in Seq(Nodes)
         /\ Clients' = Clients \cup {n}
         /\ RegisteredOnce'
         /\ down' = Routed({n}, <<"connected">>)
<1> USE DEF IInv
<1>1. /\ serviceThread = "registering" /\ serviceThread' = "registering"
      /\ centralState = "Registration" /\ toString[centralState] = "registration"
  BY Strings DEF RegisterClient, PhaseInv
<1>2. n \notin Clients => Head(up[n]).state = "registration"
  <2>1. Len(up[n]) >= 1 /\ Len(up[n]) \in Nat /\ Head(up[n]) = up[n][1]
        /\ Head(up[n]) \in UpMessage
    BY TakenFacts DEF RegisterClient
  <2>2. UpMessageInv(n, 1)
    BY <2>1 DEF UpInv
  <2>3. n \notin Clients => nodeService[n] \notin {"awaitAnswer", "serving"}
    BY DEF NodeInv, TypeOK
  <2> QED BY <2>1, <2>2, <2>3 DEF UpMessageInv
<1>3. /\ Known(n) => connectedClients' = connectedClients
      /\ ~Known(n) => connectedClients' = Append(connectedClients, n)
      /\ down' = Routed({n}, <<"connected">>)
  BY <1>1, <1>2 DEF RegisterClient, Known
<1>4. /\ connectedClients' \in Seq(Nodes)
      /\ Clients' = Clients \cup {n}
      /\ RegisteredOnce'
  <2>1. CASE Known(n)
    BY <1>3, <2>1 DEF TypeOK, RegisteredOnce, Clients, Known
  <2>2. CASE ~Known(n)
    <3>1. connectedClients \in Seq(Nodes) /\ Len(connectedClients) \in Nat
      <4>1. connectedClients \in Seq(Nodes)
        BY DEF TypeOK
      <4> HIDE DEF IInv
      <4> QED BY <4>1
    <3>2. /\ connectedClients' \in Seq(Nodes)
          /\ Len(connectedClients') = Len(connectedClients) + 1
          /\ \A i \in 1..Len(connectedClients) : connectedClients'[i] = connectedClients[i]
          /\ connectedClients'[Len(connectedClients) + 1] = n
          /\ Clients' = Clients \cup {n}
      <4>1. connectedClients' = Append(connectedClients, n)
        BY <1>3, <2>2
      <4> HIDE DEF IInv
      <4>2. Clients' = Range(connectedClients')
        BY DEF Clients
      <4> QED BY <3>1, <4>1, <4>2, AppendFacts DEF Clients
    <3>3. Len(connectedClients') <= expectedClient
      BY <3>1, <3>2, CentralAssumption DEF RegisterClient
    <3>4. \A i \in 1..Len(connectedClients) : connectedClients[i] # n
      BY <2>2, <3>1 DEF Known, Clients, Range
    <3>5. \A i, j \in 1..Len(connectedClients) :
            connectedClients[i] = connectedClients[j] => i = j
      BY <3>1 DEF RegisteredOnce, IsInjective
    <3>6. \A i, j \in 1..Len(connectedClients') :
            connectedClients'[i] = connectedClients'[j] => i = j
      <4>1. \A i \in 1..Len(connectedClients') :
              i \in 1..Len(connectedClients) \/ i = Len(connectedClients) + 1
        BY <3>1, <3>2
      <4> QED BY <3>2, <3>4, <3>5, <4>1
    <3>7. IsInjective(connectedClients')
      BY <3>2, <3>6 DEF IsInjective
    <3> QED BY <3>2, <3>3, <3>7 DEF RegisteredOnce
  <2> QED BY <2>1, <2>2
<1> QED BY <1>1, <1>3, <1>4

\* RegisterClient preserves the invariant.
LEMMA RegisterClientStep ==
  ASSUME IInv, NEW n \in Nodes, RegisterClient(n), UNCHANGED nodeVars
  PROVE  IInv'
<1> USE DEF IInv
<1> DEFINE reply == <<"connected">>
<1>1. InprocInv' /\ Subscribed' = Subscribed /\ Told' = Told
  BY NodesUnchanged
<1>2. /\ serviceThread = "registering" /\ serviceThread' = "registering"
      /\ connectedClients' \in Seq(Nodes) /\ Clients' = Clients \cup {n} /\ RegisteredOnce'
      /\ down' = Routed({n}, reply)
  BY RegisterClientFacts
<1>3. UpInv' /\ up' \in [Nodes -> Seq(UpMessage)]
  BY UpTaken DEF RegisterClient
<1>4. /\ down' \in [Nodes -> Seq(Seq(Topics \cup Words))]
      /\ \A m \in Nodes : m # n => down'[m] = down[m]
      /\ \A m \in Nodes : Range(down'[m]) \subseteq Range(down[m]) \cup {reply}
  <2>1. reply \in Seq(Topics \cup Words)
    BY DEF Words
  <2>2. down \in [Nodes -> Seq(Seq(Topics \cup Words))]
    BY DEF TypeOK
  <2>3. down' = Routed({n}, reply)
    BY <1>2
  <2> HIDE DEF IInv, reply
  <2> QED BY <2>1, <2>2, <2>3, RoutedFacts
<1>5. TypeOK'
  BY <1>2, <1>3, <1>4 DEF TypeOK, RegisterClient, nodeVars
<1>6. RequestsComeFromClients' /\ PhaseInv'
  BY <1>2 DEF RequestsComeFromClients, PhaseInv, RegisterClient
<1>7. NodeInv'
  BY <1>2, <1>4 DEF NodeInv, RegisterClient, nodeVars
<1>8. CheckInv'
  BY <1>2 DEF CheckInv
<1>9. ReleaseInv'
  <2>1. reply # <<"syncronization", "AllSubscribed">>
    OBVIOUS
  <2>2. ~Released
    BY <1>2 DEF Released
  <2> QED BY <1>1, <1>4, <2>1, <2>2 DEF ReleaseInv, nodeVars
<1> QED BY <1>1, <1>2, <1>3, <1>5, <1>6, <1>7, <1>8, <1>9

\* EndRegistration preserves the invariant.
LEMMA EndRegistrationStep ==
  ASSUME IInv, EndRegistration, UNCHANGED nodeVars
  PROVE  IInv'
<1> USE DEF IInv
<1> DEFINE notice == <<"syncronization", "syncronization">>
<1>1. InprocInv' /\ Subscribed' = Subscribed /\ Told' = Told
  BY NodesUnchanged
<1>2. Clients' = Clients
  BY DEF Clients, EndRegistration
<1>3. /\ serviceThread = "registering" /\ serviceThread' = "requests"
      /\ centralState' = "Syncronization" /\ DOMAIN requestMap = {}
  BY Strings DEF EndRegistration, PhaseInv
<1>4. /\ down' \in [Nodes -> Seq(Seq(Topics \cup Words))]
      /\ \A m \in Nodes : m \notin Clients => down'[m] = down[m]
      /\ \A m \in Nodes : Range(down'[m]) \subseteq Range(down[m]) \cup {notice}
  <2>1. down' = Routed(Clients, notice)
    BY <1>3, Strings DEF EndRegistration
  <2>2. notice \in Seq(Topics \cup Words)
    BY DEF Words
  <2>3. down \in [Nodes -> Seq(Seq(Topics \cup Words))]
    BY DEF TypeOK
  <2> HIDE DEF notice
  <2> QED BY <2>1, <2>2, <2>3, RoutedFacts
<1>5. TypeOK'
  BY <1>3, <1>4 DEF TypeOK, EndRegistration, nodeVars
<1>6. RegisteredOnce' /\ RequestsComeFromClients' /\ PhaseInv'
  BY <1>2, <1>3 DEF RegisteredOnce, RequestsComeFromClients, PhaseInv, EndRegistration
<1>7. NodeInv'
  BY <1>2, <1>4 DEF NodeInv, EndRegistration, nodeVars
<1>8. UpInv'
  BY DEF UpInv, UpMessageInv, EndRegistration, nodeVars
<1>9. CheckInv'
  BY <1>3 DEF CheckInv
<1>10. ReleaseInv'
  <2>1. notice # <<"syncronization", "AllSubscribed">>
    OBVIOUS
  <2>2. ~Released
    BY <1>3 DEF Released
  <2> QED BY <1>1, <1>4, <2>1, <2>2 DEF ReleaseInv, nodeVars
<1> QED BY <1>1, <1>5, <1>6, <1>7, <1>8, <1>9, <1>10

\* AcceptRequest preserves the invariant.
LEMMA AcceptRequestStep ==
  ASSUME IInv, NEW n \in Nodes, AcceptRequest(n), UNCHANGED nodeVars
  PROVE  IInv'
<1> USE DEF IInv
<1>1. InprocInv' /\ Subscribed' = Subscribed /\ Told' = Told
  BY NodesUnchanged
<1>2. Clients' = Clients
  BY DEF Clients, AcceptRequest
<1>3. serviceThread = "requests" /\ centralState = "Syncronization" /\ ~Released
  BY DEF AcceptRequest, PhaseInv, Released
<1>4. /\ Head(up[n]).data # "sendingPackets"
      /\ nodeService[n] \in {"awaitAnswer", "serving"} /\ n \in Clients
  <2>1. Len(up[n]) >= 1 /\ Len(up[n]) \in Nat /\ Head(up[n]) = up[n][1]
        /\ Head(up[n]) \in UpMessage
    BY TakenFacts DEF AcceptRequest
  <2>2. UpMessageInv(n, 1)
    BY <2>1 DEF UpInv
  <2>3. Head(up[n]).state = "syncronization"
    BY <1>3, Strings DEF AcceptRequest, IsRequest
  <2>4. Head(up[n]).data # "sendingPackets" /\ nodeService[n] \in {"awaitAnswer", "serving"}
    BY <2>1, <2>2, <2>3 DEF UpMessageInv
  <2> QED BY <2>4 DEF NodeInv, TypeOK
<1>5. /\ DOMAIN requestMap' = DOMAIN requestMap \cup {n}
      /\ requestMap' \in [DOMAIN requestMap' -> SUBSET Data]
  <2>1. ParseRequest(n, Head(up[n]).data) \in SUBSET Data
    BY CentralAssumption DEF ParseRequest
  <2> QED BY <2>1 DEF AcceptRequest, TypeOK
<1>6. UpInv' /\ up' \in [Nodes -> Seq(UpMessage)]
  BY <1>4, <1>5, UpTaken DEF AcceptRequest
<1>7. \/ serviceThread' = "requests" /\ unanswered' = unanswered
      \/ /\ serviceThread' = "answering" /\ unanswered' = DOMAIN requestMap'
         /\ DOMAIN requestMap' = Clients
  <2>1. DOMAIN requestMap' \subseteq Clients
    BY <1>4, <1>5 DEF RequestsComeFromClients
  <2>2. IsFiniteSet(Clients) /\ Cardinality(Clients) = Len(connectedClients)
    BY InjectiveCount DEF RegisteredOnce, TypeOK, Clients
  <2>3. Cardinality(DOMAIN requestMap') = Len(connectedClients)
          => DOMAIN requestMap' = Clients
    BY <2>1, <2>2, FS_Subset
  <2> QED BY <1>3, <2>3 DEF AcceptRequest
<1>8. TypeOK'
  BY <1>5, <1>6, <1>7 DEF TypeOK, AcceptRequest, nodeVars
<1>9. RegisteredOnce' /\ RequestsComeFromClients' /\ PhaseInv'
  BY <1>2, <1>3, <1>4, <1>5, <1>7
     DEF RegisteredOnce, RequestsComeFromClients, PhaseInv, AcceptRequest
<1>10. NodeInv'
  BY <1>2, <1>4, <1>5 DEF NodeInv, AcceptRequest, nodeVars
<1>11. CheckInv'
  BY <1>7 DEF CheckInv
<1>12. ReleaseInv'
  BY <1>1, <1>3 DEF ReleaseInv, AcceptRequest, nodeVars
<1> QED BY <1>1, <1>6, <1>8, <1>9, <1>10, <1>11, <1>12

\* Answer preserves the invariant.
LEMMA AnswerStep ==
  ASSUME IInv, NEW n \in Nodes, Answer(n), UNCHANGED nodeVars
  PROVE  IInv'
<1> USE DEF IInv
<1>1. InprocInv' /\ Subscribed' = Subscribed /\ Told' = Told
  BY NodesUnchanged
<1>2. Clients' = Clients
  BY DEF Clients, Answer
<1>3. /\ serviceThread = "answering" /\ centralState = "Syncronization"
      /\ DOMAIN requestMap = Clients /\ n \in Clients /\ ~Released
  BY DEF Answer, PhaseInv, RequestsComeFromClients, TypeOK, Released
<1>4. PICK answer \in Seq(Topics) : down' = Routed({n}, answer)
  <2>1. requestMap[n] \in SUBSET Data
    BY <1>3 DEF TypeOK
  <2> QED BY <2>1, CentralAssumption DEF Answer
<1>5. /\ down' \in [Nodes -> Seq(Seq(Topics \cup Words))]
      /\ \A m \in Nodes : m # n => down'[m] = down[m]
      /\ \A m \in Nodes : Range(down'[m]) \subseteq Range(down[m]) \cup {answer}
  <2>1. answer \in Seq(Topics \cup Words)
    OBVIOUS
  <2>2. down \in [Nodes -> Seq(Seq(Topics \cup Words))]
    BY DEF TypeOK
  <2> QED BY <1>4, <2>1, <2>2, RoutedFacts
<1>6. answer # <<"syncronization", "AllSubscribed">>
  <2>1. "syncronization" \notin Topics
    BY CentralAssumption DEF Words
  <2>2. answer # <<>> => answer[1] \in Topics
    BY <1>4
  <2>3. <<"syncronization", "AllSubscribed">>[1] = "syncronization"
        /\ <<"syncronization", "AllSubscribed">> # <<>>
    OBVIOUS
  <2> QED BY <2>1, <2>2, <2>3
<1>7. /\ serviceThread' \in {"answering", "checking"}
      /\ serviceChannel' \in Seq({"syncronization Completed"})
      /\ serviceThread' # "checking" =>
           serviceChannel' = serviceChannel /\ toCheckSubscriptions' = toCheckSubscriptions
      /\ serviceThread' = "checking" => toCheckSubscriptions' = connectedClients
  <2>1. serviceChannel \in Seq({"syncronization Completed"})
    BY DEF TypeOK
  <2>2. Append(serviceChannel, "syncronization Completed")
          \in Seq({"syncronization Completed"})
    <3> DEFINE S == {"syncronization Completed"}
               e == "syncronization Completed"
    <3>1. e \in S
      OBVIOUS
    <3> HIDE DEF S, e, IInv
    <3>2. Append(serviceChannel, e) \in Seq(S)
      BY <2>1, <3>1, AppendFacts DEF S
    <3> QED BY <3>2 DEF S, e
  <2> QED BY <1>3, <2>1, <2>2 DEF Answer
<1>8. TypeOK'
  <2>1. unanswered' \subseteq DOMAIN requestMap' /\ toCheckSubscriptions' \in Seq(Nodes)
    BY <1>7 DEF Answer, TypeOK
  <2> QED BY <1>5, <1>7, <2>1 DEF TypeOK, Answer, nodeVars
<1>9. RegisteredOnce' /\ RequestsComeFromClients' /\ PhaseInv'
  <2>1. Range(toCheckSubscriptions') \subseteq Clients
    BY <1>7 DEF PhaseInv, Clients
  <2> QED BY <1>2, <1>3, <1>7, <2>1
          DEF RegisteredOnce, RequestsComeFromClients, PhaseInv, Answer
<1>10. NodeInv'
  BY <1>2, <1>3, <1>5 DEF NodeInv, Answer, nodeVars
<1>11. UpInv'
  BY DEF UpInv, UpMessageInv, Answer, nodeVars
<1>12. CheckInv'
  BY <1>2, <1>7 DEF CheckInv, Clients
<1>13. ReleaseInv'
  BY <1>1, <1>3, <1>5, <1>6 DEF ReleaseInv, nodeVars
<1> QED BY <1>1, <1>8, <1>9, <1>10, <1>11, <1>12, <1>13

\* CountSubscription preserves the invariant.
LEMMA CountSubscriptionStep ==
  ASSUME IInv, NEW n \in Nodes, CountSubscription(n), UNCHANGED nodeVars
  PROVE  IInv'
<1> USE DEF IInv
<1> DEFINE release == <<"syncronization", "AllSubscribed">>
<1>1. InprocInv' /\ Subscribed' = Subscribed /\ Told' = Told
  BY NodesUnchanged
<1>2. Clients' = Clients
  BY DEF Clients, CountSubscription
<1>3. /\ serviceThread = "checking" /\ serviceThread' = "checking"
      /\ centralState = "Syncronization" /\ toString[centralState] = "syncronization"
      /\ DOMAIN requestMap = Clients /\ n \in Clients
  BY Strings DEF CountSubscription, PhaseInv, RequestsComeFromClients, Confirms
<1>4. UpInv' /\ up' \in [Nodes -> Seq(UpMessage)]
  BY UpTaken DEF CountSubscription
<1>5. n \in Subscribed
  <2>1. Len(up[n]) >= 1 /\ Len(up[n]) \in Nat /\ Head(up[n]) = up[n][1]
        /\ Head(up[n]) \in UpMessage
    BY TakenFacts DEF CountSubscription
  <2>2. UpMessageInv(n, 1)
    BY <2>1 DEF UpInv
  <2>3. Head(up[n]).state = "syncronization"
    BY DEF CountSubscription, Confirms
  <2>4. Head(up[n]).data = "subscribed"
    BY <1>3, <2>1, <2>2, <2>3 DEF UpMessageInv, UpMessage, Payload
  <2> QED BY <2>1, <2>2, <2>4 DEF UpMessageInv, Subscribed
<1>6. /\ toCheckSubscriptions # <<>>
      /\ toCheckSubscriptions' \in Seq(Nodes)
      /\ Range(toCheckSubscriptions') \subseteq Range(toCheckSubscriptions)
      /\ Range(toCheckSubscriptions) \subseteq Range(toCheckSubscriptions') \cup {n}
  <2>1. toCheckSubscriptions \in Seq(Nodes)
    BY DEF TypeOK
  <2>2. PICK i \in DOMAIN toCheckSubscriptions :
          /\ toCheckSubscriptions[i] = n
          /\ toCheckSubscriptions' = Erase(toCheckSubscriptions, i)
    BY DEF CountSubscription
  <2> HIDE DEF IInv
  <2>3. i \in 1..Len(toCheckSubscriptions) /\ toCheckSubscriptions # <<>>
    BY <2>1, <2>2
  <2> QED BY <2>1, <2>2, <2>3, EraseFacts
<1>7. /\ down' \in [Nodes -> Seq(Seq(Topics \cup Words))]
      /\ \A m \in Nodes : m \notin Clients => down'[m] = down[m]
      /\ toCheckSubscriptions' # <<>> => down' = down
      /\ \A m \in Nodes : Range(down'[m]) \subseteq Range(down[m]) \cup {release}
  <2> DEFINE dest == ReleasedBy(n, Len(toCheckSubscriptions'))
  <2>1. down' = Routed(dest, release)
    BY <1>3 DEF CountSubscription
  <2>2. release \in Seq(Topics \cup Words)
    BY DEF Words
  <2>3. down \in [Nodes -> Seq(Seq(Topics \cup Words))]
    BY DEF TypeOK
  <2>4. dest \subseteq Clients
    BY DEF ReleasedBy
  <2>5. toCheckSubscriptions' # <<>> => dest = {}
    BY <1>6 DEF ReleasedBy
  <2> HIDE DEF IInv, release, dest
  <2>6. /\ down' \in [Nodes -> Seq(Seq(Topics \cup Words))]
        /\ \A m \in Nodes : m \notin dest => down'[m] = down[m]
        /\ \A m \in Nodes : Range(down'[m]) \subseteq Range(down[m]) \cup {release}
    <3>1. /\ Routed(dest, release) \in [Nodes -> Seq(Seq(Topics \cup Words))]
          /\ \A m \in Nodes : m \notin dest => Routed(dest, release)[m] = down[m]
          /\ \A m \in Nodes : Range(Routed(dest, release)[m]) \subseteq Range(down[m]) \cup {release}
      BY <2>2, <2>3, RoutedFacts
    <3> QED BY <2>1, <3>1
  <2> QED BY <2>3, <2>4, <2>5, <2>6
<1>8. TypeOK'
  BY <1>4, <1>6, <1>7 DEF TypeOK, CountSubscription, nodeVars
<1>9. RegisteredOnce' /\ RequestsComeFromClients' /\ PhaseInv'
  BY <1>2, <1>3, <1>6
     DEF RegisteredOnce, RequestsComeFromClients, PhaseInv, CountSubscription
<1>10. NodeInv'
  BY <1>2, <1>7 DEF NodeInv, CountSubscription, nodeVars
<1>11. CheckInv'
  BY <1>1, <1>2, <1>3, <1>5, <1>6 DEF CheckInv
<1>12. ReleaseInv'
  <2>1. ~Released
    BY <1>6 DEF Released
  <2>2. connectedClients' = connectedClients /\ connectedClients # <<>>
    BY <1>3 DEF Clients, Range, CountSubscription
  <2>3. CASE toCheckSubscriptions' # <<>>
    BY <1>1, <1>7, <2>1, <2>3 DEF ReleaseInv, nodeVars
  <2>4. CASE toCheckSubscriptions' = <<>>
    <3>1. Released'
      BY <1>3, <2>2, <2>4 DEF Released
    <3> QED BY <1>1, <1>2, <1>7, <2>1, <3>1 DEF ReleaseInv, nodeVars
  <2> QED BY <2>3, <2>4
<1> QED BY <1>1, <1>4, <1>8, <1>9, <1>10, <1>11, <1>12

\* The invariant holds when the threads start.
LEMMA InitIInv == Init => IInv
<1> SUFFICES ASSUME Init
             PROVE  IInv
  OBVIOUS
<1> USE DEF Init, TransportInit, CentralInit, NodeInit
<1>1. Clients = {} /\ Told = {} /\ \A m \in Nodes : Range(down[m]) = {} /\ Range(serviceToMain[m]) = {}
  BY DEF Clients, Range, Told
<1>2. TypeOK
  <2>1. \A S : <<>> \in Seq(S)
    OBVIOUS
  <2>2. requestMap \in [DOMAIN requestMap -> SUBSET Data] /\ DOMAIN requestMap = {}
    OBVIOUS
  <2>3. resends \in [Nodes -> 0..MaxResend]
    BY NodeAssumption
  <2>4. /\ up \in [Nodes -> Seq(UpMessage)]
        /\ down \in [Nodes -> Seq(Seq(Topics \cup Words))]
        /\ subscriptions \in [Nodes -> Seq(Topics \cup Words)]
    BY <2>1
  <2>5. /\ serviceToMain \in [Nodes -> Seq(ServiceNews)]
        /\ mainToService \in [Nodes -> Seq(Confirmation)]
        /\ mainToSub \in [Nodes -> Seq(SubscribeOrder)]
        /\ subToMain \in [Nodes -> Seq(Confirmation)]
    BY <2>1
  <2>6. /\ connectedClients \in Seq(Nodes) /\ toCheckSubscriptions \in Seq(Nodes)
        /\ serviceChannel \in Seq({"syncronization Completed"})
    BY <2>1
  <2>7. /\ nodeService \in [Nodes -> {"connecting", "awaitAck", "awaitNotice",
                                     "awaitAnswer", "serving"}]
        /\ nodeState \in [Nodes -> {"Registration", "Syncronization"}]
        /\ mainSeen \in [Nodes -> SUBSET {"received subscriptions", "AllSubscribed"}]
        /\ subThread \in [Nodes -> {"waiting", "subscribed"}]
        /\ pubThread \in [Nodes -> {"starting", "bound"}]
    OBVIOUS
  <2> QED BY <2>2, <2>3, <2>4, <2>5, <2>6, <2>7 DEF TypeOK
<1>3. RegisteredOnce
  BY CentralAssumption DEF RegisteredOnce, IsInjective
<1>4. RequestsComeFromClients /\ PhaseInv /\ NodeInv /\ UpInv /\ InprocInv /\ CheckInv
  BY <1>1 DEF RequestsComeFromClients, PhaseInv, NodeInv, UpInv, InprocInv, CheckInv, Range
<1>5. ReleaseInv
  BY <1>1 DEF ReleaseInv
<1> QED BY <1>2, <1>3, <1>4, <1>5 DEF IInv

\* Every step of Central, of a node, and the end of a process preserve the
\* invariant.
LEMMA NextIInv == IInv /\ [Next]_vars => IInv'
<1> SUFFICES ASSUME IInv, [Next]_vars
             PROVE  IInv'
  OBVIOUS
<1>1. CASE CentralNext /\ UNCHANGED nodeVars
  BY <1>1, BindStep, EndRegistrationStep, RequestTimeoutStep, StartTimerStep,
     RegisterClientStep, AcceptRequestStep, DiscardMessageStep, AnswerStep,
     CountSubscriptionStep, IgnoreMessageStep DEF CentralNext
<1>2. ASSUME NEW n \in Nodes, NodeNext(n), UNCHANGED centralVars
      PROVE  IInv'
  BY <1>2, SendRegistrationStep, ResendRegistrationStep, ReceiveAckStep, SendRequestStep,
     ReceiveSubscriptionsStep, ForwardToCentralStep, ReceiveFromCentralStep,
     MainFromServiceStep, MainFromSubStep, SubscribeStep, BindPublisherStep, ExitStep
     DEF NodeNext, FailToConnect, ReadPastEnd, FailToBind
<1>3. CASE UNCHANGED vars
  <2> USE <1>3 DEF IInv, vars, transportVars, centralVars, nodeVars
  <2>1. RegisteredOnce' /\ RequestsComeFromClients' /\ PhaseInv' /\ Clients' = Clients
    BY CentralUnchanged
  <2>2. InprocInv' /\ Subscribed' = Subscribed /\ Told' = Told
    BY NodesUnchanged
  <2>3. TypeOK'
    BY DEF TypeOK
  <2>4. NodeInv'
    BY <2>1 DEF NodeInv
  <2>5. UpInv'
    BY DEF UpInv, UpMessageInv
  <2>6. CheckInv' /\ ReleaseInv'
    BY <2>1, <2>2 DEF CheckInv, ReleaseInv, Released
  <2> QED BY <2>1, <2>2, <2>3, <2>4, <2>5, <2>6
<1> QED BY <1>1, <1>2, <1>3 DEF Next

\* The inductive invariant holds of the start-up protocol for every number of
\* nodes, expected clients and repeated registrations.
THEOREM Invariance == Spec => []IInv
<1> QED BY InitIInv, NextIInv, PTL DEF Spec

\* Every variable and every message in transit keeps its type.
THEOREM TypeCorrect == Spec => []TypeOK
<1>1. IInv => TypeOK
  BY DEF IInv
<1> QED BY <1>1, Invariance, PTL

\* registerClient counts every node once and stops at expectedClient, however
\* often nodes repeat their registrations.
THEOREM NodesRegisterOnce == Spec => []RegisteredOnce
<1>1. IInv => RegisteredOnce
  BY DEF IInv
<1> QED BY <1>1, Invariance, PTL

\* The request loop, which does not ask who sends, ends with exactly one request
\* of each client; Central starts its timer only after that.
THEOREM OnlyClientsRequest == Spec => []RequestsComeFromClients
<1>1. IInv => RequestsComeFromClients
  BY DEF IInv
<1> QED BY <1>1, Invariance, PTL

\* Central sends AllSubscribed only after the subscriber thread of every client
\* has set its filters, although it takes any syncronization message as the
\* confirmation.
THEOREM ReleaseIsNotEarly == Spec => []NoEarlyRelease
<1>1. IInv => NoEarlyRelease
  <2>1. Range(<<>>) = {}
    BY DEF Range
  <2> QED BY <2>1 DEF IInv, CheckInv, Released, NoEarlyRelease
<1> QED BY <1>1, Invariance, PTL

\* Every step of the protocol is a step of the barrier or changes nothing the
\* barrier sees.
LEMMA BarrierStep ==
  ASSUME IInv, IInv', [Next]_vars
  PROVE  [Barrier!Next]_(Barrier!barrierVars)
<1> DEFINE Stutter == /\ Clients' = Clients /\ Subscribed' = Subscribed
                      /\ Told' = Told /\ Released' = Released
<1> SUFFICES Stutter \/ Barrier!Next
  BY DEF Barrier!barrierVars
<1> HIDE DEF Stutter
<1>1. ASSUME UNCHANGED nodeVars, UNCHANGED <<serviceThread, connectedClients, toCheckSubscriptions>>
      PROVE  Stutter
  BY <1>1 DEF Stutter, nodeVars, Clients, Released, Subscribed, Told
<1>2. ASSUME UNCHANGED centralVars, UNCHANGED <<subThread, mainSeen>>
      PROVE  Stutter
  BY <1>2 DEF Stutter, centralVars, Clients, Released, Subscribed, Told
<1>3. ASSUME UNCHANGED nodeVars
      PROVE  Subscribed' = Subscribed /\ Told' = Told
  BY <1>3 DEF nodeVars, Subscribed, Told
<1>4. ASSUME UNCHANGED centralVars
      PROVE  Clients' = Clients /\ Released' = Released
  BY <1>4 DEF centralVars, Clients, Released
<1>5. ASSUME UNCHANGED nodeVars, serviceThread' # "checking", serviceThread # "checking",
             connectedClients' = connectedClients
      PROVE  Stutter
  BY <1>5, <1>3 DEF Stutter, Clients, Released
<1>6. CASE CentralNext /\ UNCHANGED nodeVars
  <2>1. CASE Bind \/ EndRegistration
    BY <1>5, <1>6, <2>1 DEF Bind, EndRegistration
  <2>2. CASE RequestTimeout \/ StartTimer
    BY <1>1, <1>6, <2>2 DEF RequestTimeout, StartTimer
  <2>3. ASSUME NEW n \in Nodes, RegisterClient(n)
        PROVE  Barrier!Register(n)
    <3>1. Clients' = Clients \cup {n} /\ Released = FALSE /\ Released' = FALSE
      BY <1>6, <2>3, RegisterClientFacts DEF Released
    <3> QED BY <1>3, <1>6, <3>1 DEF Barrier!Register
  <2>4. ASSUME NEW n \in Nodes, AcceptRequest(n)
        PROVE  Stutter
    BY <1>5, <1>6, <2>4 DEF AcceptRequest
  <2>5. ASSUME NEW n \in Nodes, DiscardMessage(n)
        PROVE  Stutter
    BY <1>1, <1>6, <2>5 DEF DiscardMessage
  <2>6. ASSUME NEW n \in Nodes, Answer(n)
        PROVE  Stutter
    <3>1. Released = FALSE /\ Released' = FALSE /\ connectedClients' = connectedClients
      BY <2>6 DEF Answer, Released
    <3> QED BY <1>3, <1>6, <3>1 DEF Stutter, Clients
  <2>7. ASSUME NEW n \in Nodes, CountSubscription(n)
        PROVE  Stutter \/ Barrier!Release
    <3>1. Clients' = Clients /\ Released = FALSE /\ Released' \in BOOLEAN
      BY <2>7 DEF CountSubscription, Clients, Released
    <3>2. CASE Released' = FALSE
      BY <1>3, <1>6, <3>1, <3>2 DEF Stutter
    <3>3. CASE Released' = TRUE
      <4>1. Clients' \subseteq Subscribed'
        <5>1. Range(<<>>) = {}
          BY DEF Range
        <5> QED BY <3>3, <5>1 DEF IInv, CheckInv, Released
      <4>2. Clients # {}
        BY <2>7 DEF CountSubscription, Confirms, IInv, PhaseInv
      <4> QED BY <1>3, <1>6, <3>1, <3>3, <4>1, <4>2 DEF Barrier!Release
    <3> QED BY <3>1, <3>2, <3>3
  <2>8. ASSUME NEW n \in Nodes, IgnoreMessage(n)
        PROVE  Stutter
    BY <1>1, <1>6, <2>8 DEF IgnoreMessage, centralVars
  <2> QED BY <1>6, <2>1, <2>2, <2>3, <2>4, <2>5, <2>6, <2>7, <2>8
             DEF CentralNext, Barrier!Next
<1>7. ASSUME NEW n \in Nodes, NodeNext(n), UNCHANGED centralVars
      PROVE  Stutter \/ Barrier!Next
  <2>1. CASE SendRegistration(n) \/ ResendRegistration(n) \/ ReceiveAck(n) \/ SendRequest(n)
    BY <1>2, <1>7, <2>1 DEF SendRegistration, ResendRegistration, ReceiveAck, SendRequest
  <2>2. CASE ReceiveSubscriptions(n) \/ ForwardToCentral(n) \/ ReceiveFromCentral(n)
    BY <1>2, <1>7, <2>2 DEF ReceiveSubscriptions, ForwardToCentral, ReceiveFromCentral
  <2>3. CASE FailToConnect(n) \/ ReadPastEnd(n) \/ FailToBind(n)
    BY <1>2, <1>7, <2>3 DEF FailToConnect, ReadPastEnd, FailToBind, nodeVars
  <2>4. CASE MainFromSub(n) \/ BindPublisher(n)
    BY <1>2, <1>7, <2>4 DEF MainFromSub, BindPublisher
  <2>5. CASE MainFromService(n)
    <3>1. Subscribed' = Subscribed
      BY <2>5 DEF MainFromService, Subscribed
    <3>2. Told' \subseteq Told \cup {n} /\ Told \subseteq Told'
      <4>1. \/ mainSeen' = mainSeen
            \/ mainSeen' = [mainSeen EXCEPT ![n] = @ \cup {Head(serviceToMain[n]).data}]
        BY <2>5 DEF MainFromService
      <4>2. mainSeen \in [Nodes -> SUBSET {"received subscriptions", "AllSubscribed"}]
        BY DEF IInv, TypeOK
      <4>3. \A m \in Nodes : mainSeen[m] \subseteq mainSeen'[m] /\ (m # n => mainSeen'[m] = mainSeen[m])
        BY <4>1, <4>2
      <4> QED BY <4>3 DEF Told
    <3>3. CASE Told' = Told
      BY <1>4, <1>7, <3>1, <3>3 DEF Stutter
    <3>4. CASE Told' = Told \cup {n}
      <4>1. Released' /\ n \in Clients'
        BY <3>4 DEF IInv, ReleaseInv
      <4> QED BY <1>4, <1>7, <3>1, <3>4, <4>1 DEF Barrier!Tell, Barrier!Next
    <3> QED BY <3>2, <3>3, <3>4
  <2>6. CASE Subscribe(n)
    <3>1. Subscribed' = Subscribed \cup {n} /\ Told' = Told
      <4>1. subThread \in [Nodes -> {"waiting", "subscribed"}]
        BY DEF IInv, TypeOK
      <4>2. \A m \in Nodes : subThread'[m] = IF m = n THEN "subscribed" ELSE subThread[m]
        BY <2>6, <4>1 DEF Subscribe
      <4>3. mainSeen' = mainSeen
        BY <2>6 DEF Subscribe
      <4> QED BY <4>2, <4>3 DEF Subscribed, Told
    <3>2. n \in Clients
      <4>1. nodeService[n] = "serving"
        BY <2>6 DEF Subscribe, IInv, InprocInv
      <4> QED BY <4>1 DEF IInv, NodeInv, TypeOK
    <3> QED BY <1>4, <1>7, <3>1, <3>2 DEF Barrier!Subscribe, Barrier!Next
  <2> QED BY <1>7, <2>1, <2>2, <2>3, <2>4, <2>5, <2>6 DEF NodeNext
<1>8. CASE UNCHANGED vars
  BY <1>2, <1>8 DEF vars, centralVars, nodeVars
<1> QED BY <1>6, <1>7, <1>8 DEF Next

\* Central and the nodes implement the subscription barrier, with retries,
\* bystanders and processes that end.
THEOREM BarrierImplemented == Spec => ImplementsBarrier
<1>1. Init => Barrier!Init
  <2>1. Range(<<>>) = {}
    BY DEF Range
  <2> QED BY <2>1 DEF Init, TransportInit, CentralInit, NodeInit, Barrier!Init,
             Clients, Subscribed, Released, Told
<1>2. IInv /\ IInv' /\ [Next]_vars => [Barrier!Next]_(Barrier!barrierVars)
  BY BarrierStep
<1> QED BY <1>1, <1>2, Invariance, PTL DEF Spec, ImplementsBarrier, Barrier!Spec

-----------------------------------------------------------------------------
(***************************************************************************)
(* When no node repeats its registration (none waits longer than the five  *)
(* seconds of receiveStrMsgTimeout), the messages of a node and Central    *)
(* alternate, and each is taken for what it is.                            *)
(***************************************************************************)

\* What a node n has sent and not received yet, by its phase s and Central's
\* phase st: C are the clients, D the nodes with a request.
Once(n, C, D, st, s, u, d, sub) ==
  /\ s = "connecting" => u = <<>> /\ n \notin C
  /\ n \notin C => Len(u) <= 1
  /\ st \in {"binding", "registering"} /\ n \in C =>
       /\ u = <<>> /\ Len(d) <= 1 /\ s \in {"awaitAck", "awaitNotice"}
       /\ s = "awaitNotice" => d = <<>>
  /\ s = "awaitAck" => Len(d) <= 2
  /\ s = "awaitNotice" => Len(d) <= 1
  /\ s = "awaitAnswer" /\ n \notin D => d = <<>>
  /\ s = "awaitAnswer" => Range(d) \subseteq Answers[RequestedData[n]]
  /\ s = "serving" => n \in D
  /\ s # "serving" => sub = <<>>

OnceAt(n) == Once(n, Clients, DOMAIN requestMap, serviceThread,
                  nodeService[n], up[n], down[n], subscriptions[n])

\* The inductive invariant without repeated registrations.
OnceInv == /\ IInv /\ RequestsAreConfigured /\ SubscriptionsAreAnswers
           /\ \A n \in Nodes : OnceAt(n)

\* Part of queue s, as reading it or the end of a process leaves it.
Shrunk(s, t) == Len(t) <= Len(s) /\ (s = <<>> => t = <<>>) /\ Range(t) \subseteq Range(s)

\* A queue nobody touches.
LEMMA ShrunkSame ==
  ASSUME NEW S, NEW s \in Seq(S)
  PROVE  Shrunk(s, s)
<1>1. Len(s) \in Nat
  OBVIOUS
<1> QED BY <1>1 DEF Shrunk

\* A queue whose oldest message is read.
LEMMA ShrunkTail ==
  ASSUME NEW S, NEW s \in Seq(S), s # <<>>
  PROVE  Shrunk(s, Tail(s))
<1>1. Len(s) \in Nat /\ Len(Tail(s)) = Len(s) - 1 /\ Range(Tail(s)) \subseteq Range(s)
  BY TailFacts
<1> QED BY <1>1 DEF Shrunk

\* A step that moves nothing forward but the requests and Central's phase.
LEMMA OnceShrunk ==
  ASSUME NEW n, NEW C, NEW B, NEW D, NEW E, NEW st, NEW su, NEW s, NEW S, NEW T,
         NEW u \in Seq(S), NEW v \in Seq(S), NEW d \in Seq(T), NEW e \in Seq(T), NEW sub,
         Once(n, C, D, st, s, u, d, sub), D \subseteq E, n \in C <=> n \in B,
         su \in {"binding", "registering"} => st \in {"binding", "registering"},
         Shrunk(u, v), Shrunk(d, e)
  PROVE  Once(n, B, E, su, s, v, e, sub)
<1>1. Len(u) \in Nat /\ Len(v) \in Nat /\ Len(d) \in Nat /\ Len(e) \in Nat
  OBVIOUS
<1>2. Len(v) <= Len(u) /\ Len(e) <= Len(d)
  BY DEF Shrunk
<1>3. (Len(u) <= 1 => Len(v) <= 1) /\ (Len(d) <= 1 => Len(e) <= 1) /\ (Len(d) <= 2 => Len(e) <= 2)
  BY <1>1, <1>2
<1> QED BY <1>3, Zenon DEF Once, Shrunk

\* What the type invariant says of the queues.
LEMMA QueueTypes ==
  ASSUME IInv, NEW n \in Nodes
  PROVE  /\ up[n] \in Seq(UpMessage) /\ down[n] \in Seq(Seq(Topics \cup Words))
         /\ Len(up[n]) \in Nat /\ Len(down[n]) \in Nat
<1> DEFINE S == UpMessage
           T == Seq(Topics \cup Words)
<1>1. up \in [Nodes -> Seq(S)] /\ down \in [Nodes -> Seq(T)]
  BY DEF IInv, TypeOK
<1> HIDE DEF S, T
<1>2. up[n] \in Seq(S) /\ down[n] \in Seq(T)
  BY <1>1
<1>3. Len(up[n]) \in Nat /\ Len(down[n]) \in Nat
  BY <1>2
<1> QED BY <1>2, <1>3 DEF S, T

\* The same after a step.
LEMMA QueueTypesNext ==
  ASSUME IInv', NEW n \in Nodes
  PROVE  /\ up'[n] \in Seq(UpMessage) /\ down'[n] \in Seq(Seq(Topics \cup Words))
         /\ Len(up'[n]) \in Nat /\ Len(down'[n]) \in Nat
<1> DEFINE S == UpMessage
           T == Seq(Topics \cup Words)
<1>1. up' \in [Nodes -> Seq(S)] /\ down' \in [Nodes -> Seq(T)]
  BY DEF IInv, TypeOK
<1> HIDE DEF S, T
<1>2. up'[n] \in Seq(S) /\ down'[n] \in Seq(T)
  BY <1>1
<1>3. Len(up'[n]) \in Nat /\ Len(down'[n]) \in Nat
  BY <1>2
<1> QED BY <1>2, <1>3 DEF S, T

\* Whatever is not read or cut off stays.
LEMMA QueuesSame ==
  ASSUME IInv, NEW m \in Nodes
  PROVE  Shrunk(up[m], up[m]) /\ Shrunk(down[m], down[m])
  BY QueueTypes, ShrunkSame

\* The same for a step of the system and one node.
LEMMA OnceKept ==
  ASSUME OnceInv, IInv', NEW m \in Nodes,
         nodeService'[m] = nodeService[m], subscriptions'[m] = subscriptions[m],
         m \in Clients <=> m \in Clients', DOMAIN requestMap \subseteq DOMAIN requestMap',
         serviceThread' \in {"binding", "registering"}
           => serviceThread \in {"binding", "registering"},
         Shrunk(up[m], up'[m]), Shrunk(down[m], down'[m])
  PROVE  OnceAt(m)'
<1> DEFINE S == UpMessage
           T == Seq(Topics \cup Words)
           C == Clients
           B == Clients'
           u == up[m]
           v == up'[m]
           d == down[m]
           e == down'[m]
           s == nodeService[m]
           sub == subscriptions[m]
           D == DOMAIN requestMap
           E == DOMAIN requestMap'
<1>1. u \in Seq(S) /\ v \in Seq(S) /\ d \in Seq(T) /\ e \in Seq(T)
  BY QueueTypes, QueueTypesNext DEF OnceInv
<1>2. Once(m, C, D, serviceThread, s, u, d, sub)
  BY DEF OnceInv, OnceAt
<1>3. D \subseteq E /\ Shrunk(u, v) /\ Shrunk(d, e) /\ (m \in C <=> m \in B)
  OBVIOUS
<1> HIDE DEF S, T, C, B, u, v, d, e, s, sub, D, E
<1>4. Once(m, B, E, serviceThread', s, v, e, sub)
  BY <1>1, <1>2, <1>3, OnceShrunk
<1> QED BY <1>4 DEF B, u, v, d, e, s, sub, D, E, OnceAt

\* A step of node n leaves the other nodes as they are.
LEMMA OnceOthers ==
  ASSUME OnceInv, IInv', NEW n \in Nodes, UNCHANGED centralVars,
         \A m \in Nodes : m # n => /\ up'[m] = up[m] /\ down'[m] = down[m]
                                   /\ nodeService'[m] = nodeService[m]
                                   /\ subscriptions'[m] = subscriptions[m],
         OnceAt(n)'
  PROVE  \A m \in Nodes : OnceAt(m)'
<1> SUFFICES ASSUME NEW m \in Nodes, m # n
             PROVE  OnceAt(m)'
  OBVIOUS
<1>1. /\ nodeService'[m] = nodeService[m] /\ subscriptions'[m] = subscriptions[m]
      /\ Clients' = Clients /\ requestMap' = requestMap /\ serviceThread' = serviceThread
  BY DEF centralVars, Clients
<1>2. Shrunk(up[m], up'[m]) /\ Shrunk(down[m], down'[m])
  BY QueuesSame DEF OnceInv
<1> QED BY <1>1, <1>2, OnceKept

\* Only a node that begins to serve has subscriptions to account for.
LEMMA SubscriptionsKept ==
  ASSUME OnceInv, subscriptions' = subscriptions,
         \A m \in Nodes : nodeService'[m] = "serving" => nodeService[m] = "serving"
  PROVE  SubscriptionsAreAnswers'
  BY DEF OnceInv, SubscriptionsAreAnswers

\* A step that neither sends nor registers anything.
LEMMA OnceQuiet ==
  ASSUME OnceInv, IInv', UNCHANGED <<nodeService, subscriptions, requestMap, connectedClients>>,
         serviceThread' \in {"binding", "registering"}
           => serviceThread \in {"binding", "registering"},
         \A m \in Nodes : Shrunk(up[m], up'[m]) /\ Shrunk(down[m], down'[m])
  PROVE  OnceInv'
<1>1. \A m \in Nodes : OnceAt(m)'
  BY OnceKept DEF Clients
<1>2. SubscriptionsAreAnswers'
  BY SubscriptionsKept
<1>3. RequestsAreConfigured'
  BY DEF OnceInv, RequestsAreConfigured
<1> QED BY <1>1, <1>2, <1>3 DEF OnceInv

\* Central's reading of one message.
LEMMA OnceTaken ==
  ASSUME IInv, NEW n \in Nodes, up[n] # <<>>, up' = Taken(n), NEW m \in Nodes
  PROVE  Shrunk(up[m], up'[m])
<1>1. up \in [Nodes -> Seq(UpMessage)]
  BY DEF IInv, TypeOK
<1>2. up'[m] = IF m = n THEN Tail(up[m]) ELSE up[m]
  BY <1>1 DEF Taken
<1> QED BY <1>2, QueueTypes, ShrunkSame, ShrunkTail

\* A node's reading of one message.
LEMMA OnceFetched ==
  ASSUME IInv, NEW n \in Nodes, down[n] # <<>>, down' = Fetched(n), NEW m \in Nodes
  PROVE  Shrunk(down[m], down'[m])
<1> DEFINE T == Seq(Topics \cup Words)
<1>1. down \in [Nodes -> Seq(T)] /\ down[m] \in Seq(T)
  BY QueueTypes DEF IInv, TypeOK
<1> HIDE DEF T
<1>2. down'[m] = IF m = n THEN Tail(down[m]) ELSE down[m]
  BY <1>1 DEF Fetched
<1> QED BY <1>1, <1>2, ShrunkSame, ShrunkTail

\* The end of a process only shortens queues.
LEMMA OnceExit ==
  ASSUME OnceInv, IInv', NEW n \in Nodes, ExitProcess(ProcessOf[n]),
         UNCHANGED nodeVars, UNCHANGED centralVars
  PROVE  OnceInv'
<1>1. ProcessOf[n] \in Processes
  BY TransportAssumption
<1>2. /\ \A m \in Nodes : \A i \in 1..Len(up'[m]) :
            i \in 1..Len(up[m]) /\ up'[m][i] = up[m][i]
      /\ \A m \in Nodes : down'[m] = <<>> \/ down'[m] = down[m]
  BY <1>1, ExitFacts DEF OnceInv, IInv, TypeOK
<1>3. ASSUME NEW m \in Nodes
      PROVE  Shrunk(up[m], up'[m]) /\ Shrunk(down[m], down'[m])
  <2> DEFINE u == up[m]
             v == up'[m]
             d == down[m]
             S == UpMessage
  <2>1. u \in Seq(S) /\ v \in Seq(S) /\ Len(d) \in Nat
    BY QueueTypes, QueueTypesNext DEF OnceInv
  <2>2. \A i \in 1..Len(v) : i \in 1..Len(u) /\ v[i] = u[i]
    BY <1>2
  <2>3. down'[m] = <<>> \/ down'[m] = d
    BY <1>2
  <2> HIDE DEF u, v, d, S
  <2>4. Len(v) <= Len(u) /\ Len(u) \in Nat /\ Len(v) \in Nat
    <3>1. Len(v) \in Nat /\ Len(u) \in Nat
      BY <2>1
    <3> QED BY <2>2, <3>1
  <2>5. Range(v) \subseteq Range(u)
    BY <2>1, <2>2 DEF Range
  <2>6. u = <<>> => v = <<>>
    BY <2>1, <2>4
  <2>7. Shrunk(d, down'[m])
    <3>1. Len(<<>>) = 0 /\ Range(<<>>) = {}
      BY DEF Range
    <3> QED BY <2>1, <2>3, <3>1 DEF Shrunk
  <2>8. Shrunk(u, v)
    BY <2>4, <2>5, <2>6 DEF Shrunk
  <2> QED BY <2>7, <2>8 DEF u, v, d
<1> QED BY <1>3, OnceQuiet DEF nodeVars, centralVars

\* SendRegistration: nothing of the node is under way yet.
LEMMA OnceSendRegistration ==
  ASSUME OnceInv, IInv', NEW n \in Nodes, SendRegistration(n), UNCHANGED centralVars
  PROVE  OnceInv'
<1>1. /\ nodeService[n] = "connecting" /\ down' = down /\ subscriptions' = subscriptions
      /\ Clients' = Clients /\ requestMap' = requestMap /\ serviceThread' = serviceThread
  BY DEF SendRegistration, At, centralVars, Clients
<1>2. \A m \in Nodes : nodeService'[m] = IF m = n THEN "awaitAck" ELSE nodeService[m]
  BY DEF SendRegistration, Goto, OnceInv, IInv, TypeOK
<1>3. up[n] = <<>> /\ n \notin Clients /\ subscriptions[n] = <<>>
  BY <1>1 DEF OnceInv, OnceAt, Once
<1>4. down[n] = <<>>
  BY <1>3 DEF OnceInv, IInv, NodeInv
<1>5. Len(up'[n]) = 1 /\ \A m \in Nodes : m # n => up'[m] = up[m]
  <2>1. up \in [Nodes -> Seq(UpMessage)]
    BY DEF OnceInv, IInv, TypeOK
  <2>2. up'[n] = Append(<<>>, [state |-> toString[nodeState[n]], data |-> "sendingPackets"])
    BY <1>3, <2>1 DEF SendRegistration, Dealt
  <2>3. \A m \in Nodes : m # n => up'[m] = up[m]
    BY <2>1 DEF SendRegistration, Dealt
  <2> QED BY <2>2, <2>3
<1>6. OnceAt(n)'
  <2>1. Len(<<>>) <= 2 /\ 1 <= 1
    OBVIOUS
  <2> QED BY <1>1, <1>2, <1>3, <1>4, <1>5, <2>1 DEF OnceAt, Once
<1>7. \A m \in Nodes : OnceAt(m)'
  BY <1>1, <1>2, <1>5, <1>6, OnceOthers
<1>8. SubscriptionsAreAnswers' /\ RequestsAreConfigured'
  BY <1>1, <1>2, SubscriptionsKept DEF OnceInv, RequestsAreConfigured
<1> QED BY <1>7, <1>8 DEF OnceInv

\* ReceiveAck: the ack leaves at most the announcement behind.
LEMMA OnceReceiveAck ==
  ASSUME OnceInv, IInv', NEW n \in Nodes, ReceiveAck(n), UNCHANGED centralVars
  PROVE  OnceInv'
<1>1. /\ nodeService[n] = "awaitAck" /\ up' = up /\ subscriptions' = subscriptions
      /\ Clients' = Clients /\ requestMap' = requestMap /\ serviceThread' = serviceThread
      /\ down[n] # <<>> /\ down' = Fetched(n)
  BY DEF ReceiveAck, At, centralVars, Clients
<1>2. \A m \in Nodes : nodeService'[m] = IF m = n THEN "awaitNotice" ELSE nodeService[m]
  BY DEF ReceiveAck, Goto, OnceInv, IInv, TypeOK
<1>3. n \in Clients /\ n \notin DOMAIN requestMap
  BY <1>1 DEF OnceInv, IInv, NodeInv
<1>4. /\ \A m \in Nodes : m # n => down'[m] = down[m]
      /\ down'[n] \in Seq(Seq(Topics \cup Words))
      /\ Len(down[n]) \in Nat /\ Len(down'[n]) = Len(down[n]) - 1
  <2> DEFINE T == Seq(Topics \cup Words)
  <2>1. down \in [Nodes -> Seq(T)]
    BY DEF OnceInv, IInv, TypeOK
  <2> HIDE DEF T
  <2>2. /\ \A m \in Nodes : m # n => down'[m] = down[m]
        /\ down'[n] \in Seq(T)
        /\ Len(down[n]) \in Nat /\ Len(down'[n]) = Len(down[n]) - 1
    BY <1>1, <2>1, Dequeue DEF Fetched
  <2> QED BY <2>2 DEF T
<1>5. /\ Len(down[n]) <= 2 /\ subscriptions[n] = <<>>
      /\ serviceThread \in {"binding", "registering"} => up[n] = <<>> /\ Len(down[n]) <= 1
  BY <1>1, <1>3 DEF OnceInv, OnceAt, Once
<1>6. Len(down'[n]) <= 1 /\ (Len(down[n]) <= 1 => down'[n] = <<>>)
  <2>1. Len(down'[n]) = 0 => down'[n] = <<>>
    BY <1>4
  <2> QED BY <1>4, <1>5, <2>1
<1>7. OnceAt(n)'
  BY <1>1, <1>2, <1>3, <1>5, <1>6 DEF OnceAt, Once
<1>8. \A m \in Nodes : OnceAt(m)'
  BY <1>1, <1>2, <1>4, <1>7, OnceOthers
<1>9. SubscriptionsAreAnswers' /\ RequestsAreConfigured'
  BY <1>1, <1>2, SubscriptionsKept DEF OnceInv, RequestsAreConfigured
<1> QED BY <1>8, <1>9 DEF OnceInv

\* SendRequest: the message read was the announcement, and the last one.
LEMMA OnceSendRequest ==
  ASSUME OnceInv, IInv', NEW n \in Nodes, SendRequest(n), UNCHANGED centralVars
  PROVE  OnceInv'
<1>1. /\ nodeService[n] = "awaitNotice" /\ subscriptions' = subscriptions
      /\ Clients' = Clients /\ requestMap' = requestMap /\ serviceThread' = serviceThread
      /\ down[n] # <<>> /\ down' = Fetched(n)
  BY DEF SendRequest, At, centralVars, Clients
<1>2. \A m \in Nodes : nodeService'[m] = IF m = n THEN "awaitAnswer" ELSE nodeService[m]
  BY DEF SendRequest, Goto, OnceInv, IInv, TypeOK
<1>3. n \in Clients /\ n \notin DOMAIN requestMap
  BY <1>1 DEF OnceInv, IInv, NodeInv
<1>4. \A m \in Nodes : m # n => up'[m] = up[m]
  BY DEF SendRequest, Dealt, OnceInv, IInv, TypeOK
<1>5. /\ \A m \in Nodes : m # n => down'[m] = down[m]
      /\ down'[n] \in Seq(Seq(Topics \cup Words))
      /\ Len(down[n]) \in Nat /\ Len(down'[n]) = Len(down[n]) - 1
  <2> DEFINE T == Seq(Topics \cup Words)
  <2>1. down \in [Nodes -> Seq(T)]
    BY DEF OnceInv, IInv, TypeOK
  <2> HIDE DEF T
  <2>2. /\ \A m \in Nodes : m # n => down'[m] = down[m]
        /\ down'[n] \in Seq(T)
        /\ Len(down[n]) \in Nat /\ Len(down'[n]) = Len(down[n]) - 1
    BY <1>1, <2>1, Dequeue DEF Fetched
  <2> QED BY <2>2 DEF T
<1>6. /\ Len(down[n]) <= 1 /\ subscriptions[n] = <<>>
      /\ serviceThread \notin {"binding", "registering"}
  BY <1>1, <1>3 DEF OnceInv, OnceAt, Once
<1>7. down'[n] = <<>> /\ Range(down'[n]) = {}
  <2>1. down'[n] = <<>>
    <3>1. Len(down'[n]) \in Nat
      BY QueueTypesNext
    <3>2. Len(down'[n]) = 0 => down'[n] = <<>>
      BY <1>5
    <3> QED BY <1>5, <1>6, <3>1, <3>2
  <2> QED BY <2>1 DEF Range
<1>8. OnceAt(n)'
  BY <1>1, <1>2, <1>3, <1>6, <1>7 DEF OnceAt, Once
<1>9. \A m \in Nodes : OnceAt(m)'
  BY <1>1, <1>2, <1>4, <1>5, <1>8, OnceOthers
<1>10. SubscriptionsAreAnswers' /\ RequestsAreConfigured'
  BY <1>1, <1>2, SubscriptionsKept DEF OnceInv, RequestsAreConfigured
<1> QED BY <1>9, <1>10 DEF OnceInv

\* ReceiveSubscriptions: Central has accepted the request, so what has come is
\* the answer.
LEMMA OnceReceiveSubscriptions ==
  ASSUME OnceInv, IInv', NEW n \in Nodes, ReceiveSubscriptions(n), UNCHANGED centralVars
  PROVE  OnceInv'
<1>1. /\ nodeService[n] = "awaitAnswer" /\ up' = up
      /\ Clients' = Clients /\ requestMap' = requestMap /\ serviceThread' = serviceThread
      /\ down[n] # <<>> /\ down' = Fetched(n)
  BY DEF ReceiveSubscriptions, At, centralVars, Clients
<1>2. \A m \in Nodes : nodeService'[m] = IF m = n THEN "serving" ELSE nodeService[m]
  BY DEF ReceiveSubscriptions, Goto, OnceInv, IInv, TypeOK
<1>3. n \in Clients /\ n \in DOMAIN requestMap
  <2>1. n \in Clients
    BY <1>1 DEF OnceInv, IInv, NodeInv
  <2> QED BY <1>1, <2>1 DEF OnceInv, OnceAt, Once
<1>4. /\ subscriptions[n] = <<>> /\ Range(down[n]) \subseteq Answers[RequestedData[n]]
      /\ serviceThread \notin {"binding", "registering"}
  BY <1>1, <1>3 DEF OnceInv, OnceAt, Once
<1>5. /\ Head(down[n]) \in Range(down[n]) /\ Head(down[n]) \in Seq(Topics \cup Words)
      /\ \A m \in Nodes : m # n => down'[m] = down[m]
  BY <1>1, FetchedFacts DEF OnceInv, IInv
<1>6. \A m \in Nodes : subscriptions'[m] = IF m = n THEN Head(down[n]) ELSE subscriptions[m]
  <2>1. subscriptions \in [Nodes -> Seq(Topics \cup Words)]
    BY DEF OnceInv, IInv, TypeOK
  <2> DEFINE S == Topics \cup Words
             h == Head(down[n])
  <2>2. h \in Seq(S)
    BY <1>5
  <2> HIDE DEF S, h
  <2>3. <<>> \o h = h
    BY <2>2
  <2> QED BY <1>4, <2>1, <2>3 DEF ReceiveSubscriptions, h
<1>7. OnceAt(n)'
  BY <1>1, <1>2, <1>3, <1>4 DEF OnceAt, Once
<1>8. \A m \in Nodes : OnceAt(m)'
  BY <1>1, <1>2, <1>5, <1>6, <1>7, OnceOthers
<1>9. SubscriptionsAreAnswers'
  BY <1>2, <1>4, <1>5, <1>6 DEF OnceInv, SubscriptionsAreAnswers
<1>10. RequestsAreConfigured'
  BY <1>1 DEF OnceInv, RequestsAreConfigured
<1> QED BY <1>8, <1>9, <1>10 DEF OnceInv

\* ForwardToCentral: a serving node has nothing left to be mistaken.
LEMMA OnceForwardToCentral ==
  ASSUME OnceInv, IInv', NEW n \in Nodes, ForwardToCentral(n), UNCHANGED centralVars
  PROVE  OnceInv'
<1>1. /\ nodeService[n] = "serving" /\ nodeService' = nodeService /\ down' = down
      /\ subscriptions' = subscriptions
      /\ Clients' = Clients /\ requestMap' = requestMap /\ serviceThread' = serviceThread
  BY DEF ForwardToCentral, At, centralVars, Clients
<1>2. \A m \in Nodes : m # n => up'[m] = up[m]
  BY DEF ForwardToCentral, Dealt, OnceInv, IInv, TypeOK
<1>3. n \in DOMAIN requestMap /\ n \in Clients /\ serviceThread \notin {"binding", "registering"}
  <2>1. n \in DOMAIN requestMap
    BY <1>1 DEF OnceInv, OnceAt, Once
  <2> QED BY <2>1 DEF OnceInv, IInv, RequestsComeFromClients, PhaseInv
<1>4. OnceAt(n)'
  BY <1>1, <1>3 DEF OnceAt, Once
<1>5. \A m \in Nodes : OnceAt(m)'
  BY <1>1, <1>2, <1>4, OnceOthers
<1>6. SubscriptionsAreAnswers' /\ RequestsAreConfigured'
  BY <1>1, SubscriptionsKept DEF OnceInv, RequestsAreConfigured
<1> QED BY <1>5, <1>6 DEF OnceInv

\* A send of Central makes a queue one longer at most.
LEMMA RoutedLength ==
  ASSUME IInv, IInv', NEW dest, NEW parts \in Seq(Topics \cup Words),
         down' = Routed(dest, parts), NEW m \in Nodes
  PROVE  /\ m \notin dest => down'[m] = down[m]
         /\ Len(down'[m]) <= Len(down[m]) + 1
         /\ Range(down'[m]) \subseteq Range(down[m]) \cup {parts}
<1> DEFINE T == Seq(Topics \cup Words)
<1>1. down[m] \in Seq(T) /\ parts \in T /\ Len(down[m]) \in Nat
  BY QueueTypes
<1>2. down'[m] = IF m \in dest /\ Alive(m) /\ parts # <<>> THEN Append(down[m], parts) ELSE down[m]
  BY DEF Routed
<1> HIDE DEF T
<1>3. /\ Len(Append(down[m], parts)) = Len(down[m]) + 1
      /\ Range(Append(down[m], parts)) = Range(down[m]) \cup {parts}
  BY <1>1, AppendFacts
<1> QED BY <1>1, <1>2, <1>3

\* RegisterClient: the message was the registration of a new node.
LEMMA OnceRegisterClient ==
  ASSUME OnceInv, IInv', NEW n \in Nodes, RegisterClient(n), UNCHANGED nodeVars
  PROVE  OnceInv'
<1>1. /\ serviceThread = "registering" /\ serviceThread' = "registering"
      /\ Clients' = Clients \cup {n} /\ down' = Routed({n}, <<"connected">>)
  BY RegisterClientFacts DEF OnceInv
<1>2. /\ up[n] # <<>> /\ up' = Taken(n) /\ requestMap' = requestMap
      /\ nodeService' = nodeService /\ subscriptions' = subscriptions
  BY DEF RegisterClient, nodeVars
<1>3. /\ nodeService[n] # "connecting" /\ n \notin Clients /\ Len(up[n]) <= 1
      /\ nodeService[n] # "serving" => subscriptions[n] = <<>>
  BY <1>1, <1>2 DEF OnceInv, OnceAt, Once
<1>4. nodeService[n] = "awaitAck" /\ down[n] = <<>>
  <2>1. nodeState[n] = "Registration" /\ down[n] = <<>>
    BY <1>3 DEF OnceInv, IInv, NodeInv, TypeOK
  <2> QED BY <1>3, <2>1 DEF OnceInv, IInv, NodeInv
<1>5. /\ \A m \in Nodes : m # n => down'[m] = down[m]
      /\ Len(down'[n]) <= 1
  <2>1. <<"connected">> \in Seq(Topics \cup Words)
    BY DEF Words
  <2>2. \A m \in Nodes : /\ m \notin {n} => down'[m] = down[m]
                         /\ Len(down'[m]) <= Len(down[m]) + 1
    BY <1>1, <2>1, RoutedLength DEF OnceInv
  <2>3. Len(down[n]) = 0
    BY <1>4
  <2> QED BY <2>2, <2>3
<1>6. up'[n] = <<>>
  <2>1. /\ Len(up'[n]) = Len(up[n]) - 1 /\ Len(up[n]) \in Nat /\ Len(up[n]) >= 1
        /\ up'[n] \in Seq(UpMessage)
    BY <1>2, TakenFacts DEF OnceInv, IInv
  <2>2. Len(up'[n]) = 0
    <3> DEFINE k == Len(up[n])
               l == Len(up'[n])
    <3>1. l = k - 1 /\ k \in Nat /\ k >= 1 /\ k <= 1
      BY <1>3, <2>1
    <3> HIDE DEF k, l
    <3>2. l = 0
      BY <3>1
    <3> QED BY <3>2 DEF l
  <2> QED BY <2>1, <2>2
<1>7. OnceAt(n)'
  <2>1. Len(down'[n]) <= 2 /\ Len(up'[n]) <= 1
    <3>1. Len(down'[n]) \in Nat
      BY QueueTypesNext
    <3> QED BY <1>5, <1>6, <3>1
  <2> QED BY <1>1, <1>2, <1>3, <1>4, <1>5, <1>6, <2>1 DEF OnceAt, Once
<1>8. ASSUME NEW m \in Nodes, m # n
      PROVE  OnceAt(m)'
  <2>1. Shrunk(up[m], up'[m]) /\ Shrunk(down[m], down'[m])
    BY <1>2, <1>5, <1>8, OnceTaken, QueuesSame DEF OnceInv
  <2> QED BY <1>1, <1>2, <1>8, <2>1, OnceKept
<1>9. SubscriptionsAreAnswers' /\ RequestsAreConfigured'
  BY <1>2, SubscriptionsKept DEF OnceInv, RequestsAreConfigured
<1> QED BY <1>7, <1>8, <1>9 DEF OnceInv

\* EndRegistration: one announcement for each client, after its ack.
LEMMA OnceEndRegistration ==
  ASSUME OnceInv, IInv', EndRegistration, UNCHANGED nodeVars
  PROVE  OnceInv'
<1>1. /\ serviceThread = "registering" /\ serviceThread' = "requests"
      /\ Clients' = Clients /\ requestMap' = requestMap /\ up' = up
      /\ nodeService' = nodeService /\ subscriptions' = subscriptions
  BY DEF EndRegistration, nodeVars, Clients
<1>2. down' = Routed(Clients, <<"syncronization", "syncronization">>)
  <2>1. centralState = "Registration"
    BY <1>1 DEF OnceInv, IInv, PhaseInv
  <2> QED BY <2>1, Strings DEF EndRegistration
<1>3. ASSUME NEW m \in Nodes
      PROVE  /\ m \notin Clients => down'[m] = down[m]
             /\ Len(down'[m]) <= Len(down[m]) + 1
  <2> DEFINE notice == <<"syncronization", "syncronization">>
             C == Clients
  <2>1. notice \in Seq(Topics \cup Words)
    BY DEF Words
  <2>2. down' = Routed(C, notice)
    BY <1>2
  <2> HIDE DEF notice, C
  <2>3. (m \notin C => down'[m] = down[m]) /\ Len(down'[m]) <= Len(down[m]) + 1
    BY <2>1, <2>2, RoutedLength DEF OnceInv
  <2> QED BY <2>3 DEF C
<1>4. ASSUME NEW m \in Nodes, m \notin Clients
      PROVE  OnceAt(m)'
  <2>1. Shrunk(up[m], up'[m]) /\ Shrunk(down[m], down'[m])
    BY <1>1, <1>3, <1>4, QueuesSame DEF OnceInv
  <2> QED BY <1>1, <2>1, OnceKept
<1>5. ASSUME NEW m \in Nodes, m \in Clients
      PROVE  OnceAt(m)'
  <2>1. /\ up[m] = <<>> /\ Len(down[m]) <= 1 /\ nodeService[m] \in {"awaitAck", "awaitNotice"}
        /\ nodeService[m] = "awaitNotice" => down[m] = <<>>
        /\ subscriptions[m] = <<>>
    BY <1>1, <1>5 DEF OnceInv, OnceAt, Once
  <2>2. /\ Len(down'[m]) <= 2
        /\ nodeService[m] = "awaitNotice" => Len(down'[m]) <= 1
    <3>1. Len(down'[m]) \in Nat /\ Len(down[m]) \in Nat /\ Len(<<>>) = 0
      BY QueueTypes, QueueTypesNext DEF OnceInv
    <3>2. Len(down'[m]) <= Len(down[m]) + 1
      BY <1>3
    <3>3. nodeService[m] = "awaitNotice" => Len(down[m]) = 0
      BY <2>1, <3>1
    <3> QED BY <2>1, <3>1, <3>2, <3>3
  <2> QED BY <1>1, <1>5, <2>1, <2>2 DEF OnceAt, Once
<1>6. SubscriptionsAreAnswers' /\ RequestsAreConfigured'
  BY <1>1, SubscriptionsKept DEF OnceInv, RequestsAreConfigured
<1> QED BY <1>4, <1>5, <1>6 DEF OnceInv

\* AcceptRequest: the first syncronization message of a node is its request,
\* not the confirmation of an earlier one.
LEMMA OnceAcceptRequest ==
  ASSUME OnceInv, IInv', NEW n \in Nodes, AcceptRequest(n), UNCHANGED nodeVars
  PROVE  OnceInv'
<1>1. /\ up[n] # <<>> /\ up' = Taken(n) /\ down' = down /\ Clients' = Clients
      /\ nodeService' = nodeService /\ subscriptions' = subscriptions
      /\ serviceThread = "requests" /\ serviceThread' \in {"requests", "answering"}
      /\ n \notin DOMAIN requestMap
  BY DEF AcceptRequest, nodeVars, Clients, IsRequest
<1>2. requestMap' = [m \in DOMAIN requestMap \cup {n} |->
                       IF m = n THEN ParseRequest(n, Head(up[n]).data) ELSE requestMap[m]]
  BY DEF AcceptRequest
<1>3. Head(up[n]).data = "requestedData"
  <2>1. Len(up[n]) >= 1 /\ Len(up[n]) \in Nat /\ Head(up[n]) = up[n][1]
        /\ Head(up[n]) \in UpMessage
    BY <1>1, TakenFacts DEF OnceInv, IInv
  <2>2. UpMessageInv(n, 1)
    BY <2>1 DEF OnceInv, IInv, UpInv
  <2>3. Head(up[n]).state = "syncronization"
    BY <1>1, Strings DEF AcceptRequest, IsRequest, OnceInv, IInv, PhaseInv
  <2>4. subThread[n] # "subscribed"
    <3>1. nodeService[n] # "serving"
      BY <1>1 DEF OnceInv, OnceAt, Once
    <3> QED BY <3>1 DEF OnceInv, IInv, InprocInv
  <2> QED BY <2>1, <2>2, <2>3, <2>4 DEF UpMessageInv, UpMessage, Payload
<1>4. RequestsAreConfigured'
  BY <1>2, <1>3 DEF OnceInv, RequestsAreConfigured, ParseRequest
<1>5. ASSUME NEW m \in Nodes
      PROVE  OnceAt(m)'
  <2>1. Shrunk(up[m], up'[m]) /\ Shrunk(down[m], down'[m])
    BY <1>1, OnceTaken, QueuesSame DEF OnceInv
  <2>2. DOMAIN requestMap \subseteq DOMAIN requestMap'
    BY <1>2
  <2> QED BY <1>1, <2>1, <2>2, OnceKept
<1>6. SubscriptionsAreAnswers'
  BY <1>1, SubscriptionsKept
<1> QED BY <1>4, <1>5, <1>6 DEF OnceInv

\* Answer: the data base is asked for what the node requested.
LEMMA OnceAnswer ==
  ASSUME OnceInv, IInv', NEW n \in Nodes, Answer(n), UNCHANGED nodeVars
  PROVE  OnceInv'
<1>1. /\ up' = up /\ Clients' = Clients /\ requestMap' = requestMap
      /\ nodeService' = nodeService /\ subscriptions' = subscriptions
      /\ serviceThread = "answering" /\ serviceThread' \in {"answering", "checking"}
      /\ n \in unanswered
  BY DEF Answer, nodeVars, Clients
<1>2. n \in DOMAIN requestMap /\ requestMap[n] = RequestedData[n] /\ n \in Clients
  BY <1>1 DEF OnceInv, IInv, TypeOK, RequestsAreConfigured, RequestsComeFromClients
<1>3. PICK answer \in Answers[RequestedData[n]] : down' = Routed({n}, answer)
  BY <1>2 DEF Answer
<1>4. answer \in Seq(Topics \cup Words)
  <2>1. answer \in Seq(Topics)
    BY CentralAssumption
  <2> QED BY <2>1
<1>5. \A m \in Nodes : /\ m # n => down'[m] = down[m]
                       /\ Range(down'[m]) \subseteq Range(down[m]) \cup {answer}
  <2> SUFFICES ASSUME NEW m \in Nodes
               PROVE  /\ m \notin {n} => down'[m] = down[m]
                      /\ Range(down'[m]) \subseteq Range(down[m]) \cup {answer}
    OBVIOUS
  <2> DEFINE dest == {n}
  <2>1. down' = Routed(dest, answer)
    BY <1>3
  <2> HIDE DEF dest
  <2>2. /\ m \notin dest => down'[m] = down[m]
        /\ Range(down'[m]) \subseteq Range(down[m]) \cup {answer}
    BY <1>4, <2>1, RoutedLength DEF OnceInv
  <2> QED BY <2>2 DEF dest
<1>6. nodeService[n] \in {"awaitAnswer", "serving"}
  BY <1>2 DEF OnceInv, IInv, NodeInv
<1>7. /\ nodeService[n] = "awaitAnswer" => Range(down[n]) \subseteq Answers[RequestedData[n]]
      /\ nodeService[n] # "serving" => subscriptions[n] = <<>>
  BY DEF OnceInv, OnceAt, Once
<1>8. nodeService[n] = "awaitAnswer" => Range(down'[n]) \subseteq Answers[RequestedData[n]]
  BY <1>3, <1>5, <1>7
<1>9. OnceAt(n)'
  BY <1>1, <1>2, <1>6, <1>7, <1>8 DEF OnceAt, Once
<1>10. ASSUME NEW m \in Nodes, m # n
       PROVE  OnceAt(m)'
  <2>1. Shrunk(up[m], up'[m]) /\ Shrunk(down[m], down'[m])
    BY <1>1, <1>5, <1>10, QueuesSame DEF OnceInv
  <2> QED BY <1>1, <2>1, OnceKept
<1>11. SubscriptionsAreAnswers' /\ RequestsAreConfigured'
  BY <1>1, SubscriptionsKept DEF OnceInv, RequestsAreConfigured
<1> QED BY <1>9, <1>10, <1>11 DEF OnceInv

\* CountSubscription: AllSubscribed goes to clients that all serve by then.
LEMMA OnceCountSubscription ==
  ASSUME OnceInv, IInv', NEW n \in Nodes, CountSubscription(n), UNCHANGED nodeVars
  PROVE  OnceInv'
<1>1. /\ up[n] # <<>> /\ up' = Taken(n) /\ Clients' = Clients /\ requestMap' = requestMap
      /\ nodeService' = nodeService /\ subscriptions' = subscriptions
      /\ serviceThread = "checking" /\ serviceThread' = "checking"
  BY DEF CountSubscription, nodeVars, Clients
<1> DEFINE dest == ReleasedBy(n, Len(toCheckSubscriptions'))
           release == <<"syncronization", "AllSubscribed">>
<1>2. down' = Routed(dest, release)
  <2>1. centralState = "Syncronization"
    BY <1>1 DEF OnceInv, IInv, PhaseInv
  <2> QED BY <2>1, Strings DEF CountSubscription
<1>3. release \in Seq(Topics \cup Words)
  BY DEF Words
<1>4. \A m \in dest : m \in Clients /\ subThread'[m] = "subscribed"
  <2> SUFFICES ASSUME dest # {}
               PROVE  Clients' \subseteq Subscribed'
    BY <1>1 DEF ReleasedBy, Subscribed
  <2>1. Len(toCheckSubscriptions') = 0 /\ toCheckSubscriptions' \in Seq(Nodes)
    BY DEF ReleasedBy, IInv, TypeOK
  <2>2. Range(toCheckSubscriptions') = {}
    BY <2>1 DEF Range
  <2> QED BY <1>1, <2>2 DEF IInv, CheckInv
<1> HIDE DEF dest, release
<1>5. ASSUME NEW m \in Nodes
      PROVE  OnceAt(m)'
  <2>1. Shrunk(up[m], up'[m])
    BY <1>1, OnceTaken DEF OnceInv
  <2>2. CASE m \notin dest
    <3>1. down'[m] = down[m]
      BY <1>2, <1>3, <2>2, RoutedLength DEF OnceInv
    <3>2. Shrunk(down[m], down'[m])
      BY <3>1, QueuesSame DEF OnceInv
    <3> QED BY <1>1, <2>1, <3>2, OnceKept
  <2>3. CASE m \in dest
    <3>1. nodeService[m] = "serving" /\ m \in Clients
      BY <1>1, <1>4, <2>3 DEF IInv, InprocInv
    <3>2. m \in DOMAIN requestMap
      BY <3>1 DEF OnceInv, OnceAt, Once
    <3> QED BY <1>1, <3>1, <3>2 DEF OnceAt, Once
  <2> QED BY <2>2, <2>3
<1>6. SubscriptionsAreAnswers' /\ RequestsAreConfigured'
  BY <1>1, SubscriptionsKept DEF OnceInv, RequestsAreConfigured
<1> QED BY <1>5, <1>6 DEF OnceInv

\* Before the threads run nothing is registered, sent or subscribed.
LEMMA InitOnceInv == Init => OnceInv
<1> SUFFICES ASSUME Init
             PROVE  OnceInv
  OBVIOUS
<1>1. IInv
  BY InitIInv
<1>2. Clients = {}
  BY DEF Init, CentralInit, Clients, Range
<1>3. RequestsAreConfigured /\ SubscriptionsAreAnswers
  BY DEF Init, CentralInit, NodeInit, RequestsAreConfigured, SubscriptionsAreAnswers
<1>4. \A n \in Nodes : OnceAt(n)
  <2>1. Len(<<>>) <= 1
    OBVIOUS
  <2> QED BY <1>2, <2>1 DEF Init, TransportInit, CentralInit, NodeInit, OnceAt, Once
<1> QED BY <1>1, <1>3, <1>4 DEF OnceInv

\* Every step preserves the invariant when no registration is repeated.
LEMMA NextOnceInv ==
  ASSUME MaxResend = 0, OnceInv, [Next]_vars
  PROVE  OnceInv'
<1>1. IInv'
  BY NextIInv DEF OnceInv
<1>2. \A m \in Nodes : Shrunk(up[m], up[m]) /\ Shrunk(down[m], down[m])
  BY QueuesSame DEF OnceInv
<1>3. CASE CentralNext /\ UNCHANGED nodeVars
  <2>1. CASE Bind \/ RequestTimeout \/ StartTimer
    BY <1>1, <1>2, <1>3, <2>1, OnceQuiet
       DEF Bind, RequestTimeout, StartTimer, transportVars, nodeVars
  <2>2. ASSUME NEW n \in Nodes, DiscardMessage(n) \/ IgnoreMessage(n)
        PROVE  OnceInv'
    <3>1. /\ up[n] # <<>> /\ up' = Taken(n) /\ down' = down
          /\ UNCHANGED <<nodeService, subscriptions, requestMap, connectedClients, serviceThread>>
      BY <1>3, <2>2 DEF DiscardMessage, IgnoreMessage, nodeVars, centralVars
    <3>2. \A m \in Nodes : Shrunk(up[m], up'[m]) /\ Shrunk(down[m], down'[m])
      BY <1>2, <3>1, OnceTaken DEF OnceInv
    <3> QED BY <1>1, <3>1, <3>2, OnceQuiet
  <2> QED BY <1>1, <1>3, <2>1, <2>2, OnceEndRegistration, OnceRegisterClient,
             OnceAcceptRequest, OnceAnswer, OnceCountSubscription DEF CentralNext
<1>4. ASSUME NEW n \in Nodes, NodeNext(n), UNCHANGED centralVars
      PROVE  OnceInv'
  <2>1. ~ResendRegistration(n)
    <3>1. resends[n] \in 0..MaxResend
      BY DEF OnceInv, IInv, TypeOK
    <3> QED BY <3>1 DEF ResendRegistration
  <2>2. CASE FailToConnect(n) \/ ReadPastEnd(n) \/ FailToBind(n)
    BY <1>1, <1>4, <2>2, OnceExit DEF FailToConnect, ReadPastEnd, FailToBind
  <2>3. CASE MainFromService(n) \/ MainFromSub(n) \/ Subscribe(n) \/ BindPublisher(n)
    <3>1. UNCHANGED <<up, down, nodeService, subscriptions>>
      BY <2>3 DEF MainFromService, MainFromSub, Subscribe, BindPublisher, transportVars
    <3> QED BY <1>1, <1>2, <1>4, <3>1, OnceQuiet DEF centralVars
  <2>4. CASE ReceiveFromCentral(n)
    <3>1. /\ down[n] # <<>> /\ down' = Fetched(n) /\ up' = up
          /\ UNCHANGED <<nodeService, subscriptions>>
      BY <2>4 DEF ReceiveFromCentral
    <3>2. \A m \in Nodes : Shrunk(up[m], up'[m]) /\ Shrunk(down[m], down'[m])
      BY <1>2, <3>1, OnceFetched DEF OnceInv
    <3> QED BY <1>1, <1>4, <3>1, <3>2, OnceQuiet DEF centralVars
  <2> QED BY <1>1, <1>4, <2>1, <2>2, <2>3, <2>4, OnceSendRegistration, OnceReceiveAck,
             OnceSendRequest, OnceReceiveSubscriptions, OnceForwardToCentral DEF NodeNext
<1>5. CASE UNCHANGED vars
  BY <1>1, <1>2, <1>5, OnceQuiet DEF vars, transportVars, centralVars, nodeVars
<1> QED BY <1>3, <1>4, <1>5 DEF Next

\* When no node waits long enough to repeat its registration, the messages of
\* each node and Central alternate, whatever processes end meanwhile.
THEOREM OnceInvariance ==
  ASSUME MaxResend = 0
  PROVE  Spec => []OnceInv
<1>1. OnceInv /\ [Next]_vars => OnceInv'
  BY NextOnceInv
<1> QED BY <1>1, InitOnceInv, PTL DEF Spec

\* Without repeated registrations what Central stores as a node's request is
\* what the node's configuration asks for, although the request loop takes any
\* first message in the syncronization state.
THEOREM RequestsAreTheirs ==
  ASSUME MaxResend = 0
  PROVE  Spec => []RequestsAreConfigured
<1>1. OnceInv => RequestsAreConfigured
  BY DEF OnceInv
<1> QED BY <1>1, OnceInvariance, PTL

\* Without repeated registrations what a node stores as its subscriptions is an
\* answer of the data base to its own request, although it takes any third
\* message for that.
THEOREM AnswersAreTheirs ==
  ASSUME MaxResend = 0
  PROVE  Spec => []SubscriptionsAreAnswers
<1>1. OnceInv => SubscriptionsAreAnswers
  BY DEF OnceInv
<1> QED BY <1>1, OnceInvariance, PTL
=============================================================================
