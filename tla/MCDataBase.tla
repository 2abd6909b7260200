---------------------------- MODULE MCDataBase ----------------------------
(***************************************************************************)
(* Small instances of DataBase for TLC.                                    *)
(***************************************************************************)
EXTENDS DataBase

CONSTANTS d1, d2, p1, p2, p3

=============================================================================
