------------------------------ MODULE Activity ------------------------------
(***************************************************************************)
(* The Activity rule (activity.h, activity.cpp): whether opening a capture *)
(* file, starting a live capture or exporting packets may start now, given *)
(* what runs, and if not, why.  Every session asks it before it starts.    *)
(***************************************************************************)

\* What the user may start, and why it may be refused.
Activities == {"OpenFile", "LiveCapture", "Export"}
Refusals == {"None", "Converting", "Capturing", "Exporting"}

\* What runs now, of what the rule weighs.
RunningActivities == [converting : BOOLEAN, capturing : BOOLEAN, exporting : BOOLEAN]

\* Why activity may not start while running runs.  Opening a file and a live
\* capture exclude each other, and a conversion is named first; an export
\* waits for another export only.
activityRefusal(activity, running) ==
    IF activity = "Export"
    THEN IF running.exporting THEN "Exporting" ELSE "None"
    ELSE IF running.converting THEN "Converting"
    ELSE IF running.capturing THEN "Capturing" ELSE "None"
=============================================================================
