-------------------------- MODULE MCLiveConversion --------------------------
(***************************************************************************)
(* The live conversion on small streams; the configurations give it its    *)
(* limits, a ring buffer or none, and a clock.                             *)
(***************************************************************************)
EXTENDS LiveConversion
=============================================================================
