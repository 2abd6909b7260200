------------------------------ MODULE MCDealer ------------------------------
(* A DEALER with two connections, one of which may be closed.              *)
EXTENDS Dealer
CONSTANTS p1, p2, p3
=============================================================================
