----------------------------- MODULE MCMailbox -----------------------------
(* Three threads that send to one mailbox.                                 *)
EXTENDS Mailbox
CONSTANTS s1, s2, s3
MCSenders == {s1, s2, s3}
=============================================================================
