------------------------- MODULE MCCaptureSessions -------------------------
(* The sessions on a small instance.                                       *)
EXTENDS CaptureSessions
=============================================================================
