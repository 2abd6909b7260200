-------------------------------- MODULE Fsm --------------------------------
(***************************************************************************)
(* The phase machine that Central and every Node carry as `state`          *)
(* (ComuFrame/fsm.h, ComuFrame/fsm.cpp).  A state is named by its          *)
(* enumerator; what travels in messages is the string toString gives it.   *)
(***************************************************************************)

\* enum State of fsm.h.
State == { "Registration", "Syncronization", "SyncroComplete", "Trimming",
           "TrimmingComplete", "Running", "Freeze", "Crash" }

\* Fsm::toString: the strings the two ends of a connection compare.
toString == [ Registration     |-> "registration",
              Syncronization   |-> "syncronization",
              SyncroComplete   |-> "syncroComplete",
              Trimming         |-> "trimming",
              TrimmingComplete |-> "trimmingComplete",
              Running          |-> "running",
              Freeze           |-> "freeze",
              Crash            |-> "crash" ]

\* A form of nextState in which one case falls through into the next.
nextStateFallsThrough(s) ==
  CASE s = "Registration"     -> "SyncroComplete"
    [] OTHER                  -> s

\* Fsm::nextState: Freeze and Crash refuse to move (the default case).
nextState(s) ==
  CASE s = "Registration"     -> "Syncronization"
    [] s = "Syncronization"   -> "SyncroComplete"
    [] s = "SyncroComplete"   -> "Trimming"
    [] s = "Trimming"         -> "TrimmingComplete"
    [] s = "TrimmingComplete" -> "Running"
    [] s = "Running"          -> "Freeze"
    [] OTHER                  -> s
=============================================================================
