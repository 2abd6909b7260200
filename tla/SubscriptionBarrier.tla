------------------------ MODULE SubscriptionBarrier ------------------------
(***************************************************************************)
(* What the start-up protocol promises: nodes register, each registered    *)
(* node subscribes, and Central releases the nodes only after every        *)
(* registered node has subscribed.  No queue, thread or timeout appears.   *)
(***************************************************************************)
CONSTANT Nodes

VARIABLES registered,  \* nodes Central has accepted
          subscribed,  \* nodes whose subscriber thread has set its filters
          released,    \* Central has sent AllSubscribed
          told         \* nodes whose main thread has seen AllSubscribed

barrierVars == <<registered, subscribed, released, told>>

Init ==
  /\ registered = {}
  /\ subscribed = {}
  /\ released = FALSE
  /\ told = {}

Register(n) ==
  /\ ~released
  /\ registered' = registered \cup {n}
  /\ UNCHANGED <<subscribed, released, told>>

Subscribe(n) ==
  /\ n \in registered
  /\ subscribed' = subscribed \cup {n}
  /\ UNCHANGED <<registered, released, told>>

Release ==
  /\ ~released
  /\ registered # {}
  /\ registered \subseteq subscribed
  /\ released' = TRUE
  /\ UNCHANGED <<registered, subscribed, told>>

Tell(n) ==
  /\ released
  /\ n \in registered
  /\ told' = told \cup {n}
  /\ UNCHANGED <<registered, subscribed, released>>

Next == \/ Release
        \/ \E n \in Nodes : Register(n) \/ Subscribe(n) \/ Tell(n)

Spec == Init /\ [][Next]_barrierVars
=============================================================================
