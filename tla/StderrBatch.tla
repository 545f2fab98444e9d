---------------------------- MODULE StderrBatch ----------------------------
(***************************************************************************)
(* What a capture program writes to stderr on its way to the UI thread     *)
(* (live_capture.cpp): batches of lines, at most one an interval, and the  *)
(* oldest lines of a batch that is full dropped and counted.               *)
(***************************************************************************)
EXTENDS Integers

CONSTANTS
    BatchLines,  \* kStderrBatchLines
    MaxLines     \* bound: the lines the program writes

ASSUME BatchAssumption == BatchLines \in Nat \ {0} /\ MaxLines \in Nat

VARIABLES
    lines,    \* pendingStderr_.lines, how many
    dropped,  \* pendingStderr_.dropped
    posted,   \* pendingStderr_.posted
    wrote,    \* the lines the program wrote
    told,     \* the lines and ...
    lost,     \* ... the dropped lines the UI was told of
    flushes,  \* the flushes posted, and the timers running, that look again
    looking,  \* flushStderrLines() found nothing, and has not looked again
    end       \* the worker's end: none, posted, told

stderrVars == <<lines, dropped, posted, wrote, told, lost, flushes, looking, end>>

StderrTypeOK ==
    /\ lines \in 0..BatchLines /\ dropped \in 0..MaxLines /\ posted \in BOOLEAN
    /\ wrote \in 0..MaxLines /\ told \in 0..MaxLines /\ lost \in 0..MaxLines
    /\ flushes \in 0..1 /\ looking \in BOOLEAN /\ end \in {"none", "posted", "told"}

StderrInit ==
    /\ lines = 0 /\ dropped = 0 /\ posted = FALSE /\ wrote = 0 /\ told = 0 /\ lost = 0
    /\ flushes = 0 /\ looking = FALSE /\ end = "none"

\* takeStderrLine(), on the capture's thread.
takeStderrLine ==
    /\ wrote < MaxLines
    /\ wrote' = wrote + 1
    /\ lines' = IF lines < BatchLines THEN lines + 1 ELSE lines
    /\ dropped' = IF lines < BatchLines THEN dropped ELSE dropped + 1
    /\ posted' = TRUE
    /\ flushes' = IF posted THEN flushes ELSE flushes + 1
    /\ UNCHANGED <<told, lost, looking, end>>

\* emitStderrLines()
emitStderrLines ==
    /\ told' = told + lines /\ lost' = lost + dropped
    /\ lines' = 0 /\ dropped' = 0

\* flushStderrLines(): after a batch it looks again, an interval later.
flushStderrLines ==
    /\ flushes > 0 /\ ~looking
    /\ emitStderrLines
    /\ IF lines = 0 /\ dropped = 0
       THEN looking' = TRUE /\ flushes' = flushes - 1
       ELSE UNCHANGED <<looking, flushes>>
    /\ UNCHANGED <<posted, wrote, end>>

\* Its second look, under the lock: a line that came meanwhile posts no flush.
LookAgain ==
    /\ looking
    /\ looking' = FALSE
    /\ IF lines = 0 THEN posted' = FALSE /\ UNCHANGED flushes
                    ELSE flushes' = flushes + 1 /\ UNCHANGED posted
    /\ UNCHANGED <<lines, dropped, wrote, told, lost, end>>

\* The conversion is over: its end is told after what was written before.
PostEnd ==
    /\ end = "none"
    /\ end' = "posted"
    /\ UNCHANGED <<lines, dropped, posted, wrote, told, lost, flushes, looking>>
TellEnd ==
    /\ end = "posted" /\ ~looking
    /\ emitStderrLines
    /\ end' = "told"
    /\ UNCHANGED <<posted, wrote, flushes, looking>>

StderrOver == end = "told" /\ wrote = MaxLines /\ lines = 0 /\ UNCHANGED stderrVars

StderrNext ==
    takeStderrLine \/ flushStderrLines \/ LookAgain \/ PostEnd \/ TellEnd \/ StderrOver

StderrSpec == StderrInit /\ [][StderrNext]_stderrVars

\* A line that waits has a flush that will look for it, whenever it came: none
\* waits for the next line, or for ever; and every line is told or counted.
LinesAreTold ==
    /\ lines + dropped > 0 => flushes > 0 \/ looking
    /\ told + lost + lines + dropped = wrote
=============================================================================
