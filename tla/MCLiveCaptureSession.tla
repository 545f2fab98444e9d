------------------------ MODULE MCLiveCaptureSession ------------------------
(***************************************************************************)
(* The Live Capture Session for TLC.  The constants are given in the       *)
(* configurations; the choices are interchangeable.                        *)
(***************************************************************************)
EXTENDS LiveCaptureSession, TLC

ChoicesAreAlike == Permutations(Choices)
=============================================================================
