------------------------------ MODULE MCRouter ------------------------------
(* Two peers with the same routing id, one of which closes, and a third.   *)
EXTENDS Router, TLC
CONSTANTS p1, p2, p3
MCPipes == {p1, p2, p3}
MCNamed == {p1, p2}
MCPartsOf == p1 :> 2 @@ p2 :> 0 @@ p3 :> 1
=============================================================================
