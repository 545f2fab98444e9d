------------------------------ MODULE LiveRun ------------------------------
(***************************************************************************)
(* What the conversion of one live stream promises to the LiveCapture that *)
(* runs it, and through it to the Live Capture Session (convertStream(),   *)
(* LiveObserver and ConversionResult of pcap_converter.h): no text file is *)
(* announced before the capture's header came, files are kept only if one  *)
(* was announced, and it ends once.  The Live Capture Session's workers    *)
(* (LiveCaptureSession.tla) take the same steps.                           *)
(***************************************************************************)
EXTENDS Naturals

VARIABLES
    phase,   \* "header": the capture's header is awaited; "packets"; "ended"
    sent,    \* the text files announced
    result   \* what it came to

Results == {"Stopped", "Converted", "FailedKept", "FailedRemoved"}

Init == phase = "header" /\ sent = 0 /\ result = "None"

HeaderCame == phase = "header" /\ phase' = "packets" /\ UNCHANGED <<sent, result>>

FirstOfText == phase = "packets" /\ sent' = sent + 1 /\ UNCHANGED <<phase, result>>

\* It ends: before the header, Stopped or failed; after it, Converted or
\* failed, and a failed one keeps its files if it announced one.
Finish(r) ==
    /\ phase # "ended"
    /\ r = "Stopped" => phase = "header"
    /\ r = "Converted" => phase = "packets"
    /\ r = "FailedKept" => sent > 0
    /\ phase' = "ended"
    /\ result' = r
    /\ UNCHANGED sent

Next == HeaderCame \/ FirstOfText \/ \E r \in Results : Finish(r)

Spec == Init /\ [][Next]_<<phase, sent, result>>
=============================================================================
