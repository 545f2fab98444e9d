-------------------------- MODULE CaptureSessions --------------------------
(***************************************************************************)
(* The work the plugin does in the background for the user interface, and  *)
(* for the host: opening a capture file (FileConversionSession), exporting *)
(* packets (ExportSession), each on a BackgroundJob's one worker thread,   *)
(* and converting a capture LogSquirl itself opens (host_converter.cpp),   *)
(* on a thread of the host.  The dialogs that come before a conversion and *)
(* an export run event loops of their own: while one is open, everything   *)
(* else may happen on the UI thread, also the shutdown that deletes the    *)
(* sessions the dialog returns to.                                         *)
(*                                                                         *)
(* A packet, a file's text and progress are abstracted away.  A conversion *)
(* is known by its number, and so is the private directory it writes; an   *)
(* export is known by its number and the path it writes.  What a live      *)
(* capture does is in LiveCaptureSession: here it runs or not.             *)
(***************************************************************************)
EXTENDS Naturals, Sequences, Activity

CONSTANTS Paths,       \* the files a dialog may return
          MaxJobs,     \* the conversions and exports of a behaviour
          MaxDialogs   \* the dialogs open at a time

ASSUME CaptureSessionsAssumption == MaxJobs \in Nat /\ MaxDialogs \in Nat

VARIABLES
    sessions,   \* the CaptureSessions, and where their destructor is
    keeper,     \* g_converter.sessions is set
    dialogs,    \* the dialogs open, the one opened last in front
    state,      \* FileConversionSession::state_, ExportSession::state_
    chosen,     \* filePath_ and request_.outputPath, what the session tells
    outcome,    \* their outcome_
    jobs,       \* the jobs started so far
    job,        \* the number of the job that runs (its watcher, the host's call), or 0
    cancel,     \* its cancel flag
    given,      \* the path its work was given
    at,         \* where its worker is
    result,     \* what the worker returned
    hostAsked,  \* the host's user cancelled the host's conversion
    posted,     \* keepConverted() events posted to the sessions
    capturing,  \* LiveCaptureSession::isBusy()
    dirs,       \* the conversions' directories on disk
    aside,      \* the exports' unfinished files on disk
    written,    \* the exports that replaced a file, with the path
    opened,     \* the conversions whose tab the catalog opened
    kept        \* the host's conversions the catalog keeps

vars == <<sessions, keeper, dialogs, state, chosen, outcome, jobs, job, cancel, given, at,
          result, hostAsked, posted, capturing, dirs, aside, written, opened, kept>>

uiVars == <<sessions, keeper, dialogs, state, chosen, outcome, capturing, opened, kept>>
jobVars == <<jobs, job, cancel, given, at, result>>
diskVars == <<dirs, aside, written>>

Sessions == {"conversion", "export"}          \* what a BackgroundJob works for
Jobs == Sessions \union {"host"}
Converts == {"conversion", "host"}            \* the jobs that run convertPcap()
NoPath == "none"
Statuses == {"None", "Converted", "Exported", "Cancelled", "Failed"}

Stages == {"none", "opening", "working", "written", "ending", "committing", "done", "copying",
           "copied"}
\* What a session tells of the job that ended last; with it, which job that
\* was and the path its work was given.
NoOutcome == [status |-> "None", path |-> NoPath, id |-> 0, given |-> NoPath]
Outcome == [status : Statuses \ {"None"}, path : Paths, id : 1..MaxJobs, given : Paths]

Init ==
    /\ sessions = "open" /\ keeper = TRUE /\ dialogs = <<>>
    /\ state = [s \in Sessions |-> "Idle"]
    /\ chosen = [s \in Sessions |-> NoPath]
    /\ outcome = [s \in Sessions |-> NoOutcome]
    /\ jobs = 0
    /\ job = [j \in Jobs |-> 0]
    /\ cancel = [j \in Jobs |-> FALSE]
    /\ given = [j \in Jobs |-> NoPath]
    /\ at = [j \in Jobs |-> "none"]
    /\ result = [j \in Jobs |-> "None"]
    /\ hostAsked = FALSE /\ posted = {} /\ capturing = FALSE
    /\ dirs = {} /\ aside = {} /\ written = {} /\ opened = {} /\ kept = {}

-----------------------------------------------------------------------------
(* The sessions, on the UI thread.                                         *)

\* The UI thread runs the event loop, of the app or of the dialog in front:
\* it does not wait in the sessions' destructor.
Listening == sessions = "open"

isBusy(s) == state[s] # "Idle"
runningActivities ==
    [converting |-> isBusy("conversion"), capturing |-> capturing, exporting |-> isBusy("export")]

refusal(s) ==
    activityRefusal(IF s = "conversion" THEN "OpenFile" ELSE "Export", runningActivities)

isRunning(j) == job[j] # 0

\* BackgroundJob::start, on a worker of its own with a cancel flag of its own.
JobStart(j, path) ==
    /\ jobs < MaxJobs
    /\ jobs' = jobs + 1
    /\ job' = [job EXCEPT ![j] = jobs + 1]
    /\ cancel' = [cancel EXCEPT ![j] = FALSE]
    /\ given' = [given EXCEPT ![j] = path]
    /\ at' = [at EXCEPT ![j] = "opening"]
    /\ result' = [result EXCEPT ![j] = "None"]

\* The session starts the job of path, once nothing refuses it; a job that
\* runs still is not replaced.
SessionStart(s, path) ==
    /\ IF refusal(s) # "None"
         THEN UNCHANGED <<state, chosen, outcome, jobVars>>
         ELSE /\ chosen' = [chosen EXCEPT ![s] = path]
              /\ outcome' = [outcome EXCEPT ![s] = NoOutcome]
              /\ state' = [state EXCEPT ![s] = "Running"]
              /\ IF isRunning(s) THEN UNCHANGED jobVars ELSE JobStart(s, path)
    /\ UNCHANGED <<sessions, keeper, hostAsked, posted, capturing, diskVars, opened, kept>>

\* The dialog in front, and the ones behind it.
Front == dialogs[Len(dialogs)]
Behind == SubSeq(dialogs, 1, Len(dialogs) - 1)
OnlyDialogs ==
    UNCHANGED <<sessions, keeper, state, chosen, outcome, jobVars, hostAsked, posted, capturing,
                diskVars, opened, kept>>

\* A dialog opens, with an event loop of its own.
Ask(dialog) ==
    /\ Len(dialogs) < MaxDialogs
    /\ dialogs' = Append(dialogs, dialog)
    /\ OnlyDialogs

\* Open pcap… and Export packets…: refused, or asked.
AskFile == Listening /\ refusal("conversion") = "None" /\ Ask("openFile")
AskPackets == Listening /\ refusal("export") = "None" /\ Ask("confirm")

\* The dialog in front is closed with nothing chosen, or after the sessions
\* that asked are gone: the call that opened it returns.
DialogReturns ==
    /\ dialogs # <<>> /\ sessions \in {"open", "gone"}
    /\ dialogs' = Behind
    /\ OnlyDialogs

\* The packets to export are confirmed: the file is asked for next.
Confirmed ==
    /\ Listening /\ dialogs # <<>> /\ Front = "confirm"
    /\ dialogs' = Append(Behind, "exportFile")
    /\ OnlyDialogs

\* A file is chosen: chooseAndOpen() and ExportSession::start go on, if the
\* sessions they were called on are there still.
FileChosen(path) ==
    /\ Listening /\ dialogs # <<>> /\ Front = "openFile"
    /\ dialogs' = Behind
    /\ SessionStart("conversion", path)
ExportFileChosen(path) ==
    /\ Listening /\ dialogs # <<>> /\ Front = "exportFile"
    /\ dialogs' = Behind
    /\ SessionStart("export", path)

\* FileConversionSession::cancel, ExportSession::cancel.
Cancel(s) ==
    /\ Listening /\ state[s] = "Running"
    /\ cancel' = [cancel EXCEPT ![s] = TRUE]
    /\ state' = [state EXCEPT ![s] = "Cancelling"]
    /\ UNCHANGED <<sessions, keeper, dialogs, chosen, outcome, jobs, job, given, at, result,
                   hostAsked, posted, capturing, diskVars, opened, kept>>

\* A live capture starts, unless it is refused, and ends.
LiveStarts ==
    /\ Listening /\ activityRefusal("LiveCapture", runningActivities) = "None"
    /\ capturing' = TRUE
    /\ UNCHANGED <<sessions, keeper, dialogs, state, chosen, outcome, jobVars, hostAsked, posted,
                   diskVars, opened, kept>>
LiveEnds ==
    /\ Listening /\ capturing /\ capturing' = FALSE
    /\ UNCHANGED <<sessions, keeper, dialogs, state, chosen, outcome, jobVars, hostAsked, posted,
                   diskVars, opened, kept>>

-----------------------------------------------------------------------------
(* The result of a job, on the UI thread.                                  *)

\* Variants: a cancel is not settled, or taken to have won over an export that
\* replaced its file already.
settleAsIs(s) == result[s]
settleAlways(s) == IF cancel[s] THEN "Cancelled" ELSE result[s]

\* BackgroundJob::settle: a cancel wins over a job that was done when it
\* came; an export that replaced its file stands.
settle(s) == IF cancel[s] /\ result[s] # "Exported" THEN "Cancelled" ELSE result[s]

\* What settle() leaves on disk: a cancelled conversion's directory goes.
Settled(s) == IF settle(s) = "Cancelled" THEN dirs \ {job[s]} ELSE dirs

\* The job is forgotten, whatever becomes of its cancel flag.
ForgetJob(j) ==
    /\ job' = [job EXCEPT ![j] = 0]
    /\ given' = [given EXCEPT ![j] = NoPath]
    /\ at' = [at EXCEPT ![j] = "none"]
    /\ result' = [result EXCEPT ![j] = "None"]
    /\ UNCHANGED jobs

\* Variant: the cancel flag is kept.
FinishButCancel(s) == ForgetJob(s) /\ UNCHANGED cancel

\* BackgroundJob::finish: the job is forgotten, with its cancel flag.
Finish(s) == ForgetJob(s) /\ cancel' = [cancel EXCEPT ![s] = FALSE]

\* The worker is done and its result delivered: the session is idle, and
\* tells how it ended of the path it holds.
Delivered(s) ==
    /\ Listening /\ isRunning(s) /\ at[s] = "done"
    /\ Finish(s)
    /\ dirs' = Settled(s)
    /\ state' = [state EXCEPT ![s] = "Idle"]
    /\ outcome' = [outcome EXCEPT ![s] = [status |-> settle(s), path |-> chosen[s],
                                         id |-> job[s], given |-> given[s]]]
    /\ UNCHANGED <<sessions, keeper, dialogs, chosen, hostAsked, posted, capturing, aside,
                   written, kept>>

\* FileConversionSession::finish: a capture that was converted has its tab.
ConversionFinished ==
    /\ Delivered("conversion")
    /\ opened' = IF settle("conversion") = "Converted"
                 THEN opened \union {job["conversion"]} ELSE opened

\* ExportSession::finish.
ExportFinished == Delivered("export") /\ UNCHANGED opened


-----------------------------------------------------------------------------
(* The workers: convertPcap() and exportPackets().                         *)

\* The worker of j goes on, or returns.
Goes(j, stage) == at' = [at EXCEPT ![j] = stage] /\ UNCHANGED <<jobs, job, cancel, given, result>>
Returns(j, status) ==
    /\ at' = [at EXCEPT ![j] = "done"]
    /\ result' = [result EXCEPT ![j] = status]
    /\ UNCHANGED <<jobs, job, cancel, given>>
WorkerStep == UNCHANGED <<uiVars, hostAsked, posted>>

\* The capture is open: the conversion makes its private directory, the
\* export a file aside of the one it will replace.
OpenConversion(j) ==
    /\ at[j] = "opening"
    /\ Goes(j, "working")
    /\ dirs' = dirs \union {job[j]}
    /\ UNCHANGED <<aside, written>> /\ WorkerStep
OpenExport ==
    /\ at["export"] = "opening"
    /\ Goes("export", "working")
    /\ aside' = aside \union {job["export"]}
    /\ UNCHANGED <<dirs, written>> /\ WorkerStep

\* What the worker wrote so far goes, with the object that held it.
DropOutput(j) ==
    /\ dirs' = dirs \ {job[j]}
    /\ aside' = aside \ {job[j]}
    /\ UNCHANGED written

\* Variant: the cancel is looked at only at the end.
SeeNoCancel(j) == FALSE

\* The cancel is looked at between two packets.
SeeCancel(j) ==
    /\ at[j] = "working" /\ cancel[j]
    /\ Returns(j, "Cancelled") /\ DropOutput(j) /\ WorkerStep

\* Variant: a worker that threw has no result, and none is put in its place.
FailUntold(j) ==
    /\ at[j] \in {"opening", "working", "committing"}
    /\ Returns(j, "None") /\ DropOutput(j) /\ WorkerStep

\* The capture cannot be read, the output not written, or the export's file
\* is the capture's own.
Fail(j) ==
    /\ at[j] \in {"opening", "working", "committing"}
    /\ Returns(j, "Failed") /\ DropOutput(j) /\ WorkerStep

\* The last packet is written; a conversion's directory is kept from here on.
WriteLast(j) ==
    /\ at[j] = "working"
    /\ Goes(j, IF j \in Converts THEN "written" ELSE "ending")
    /\ UNCHANGED diskVars /\ WorkerStep

\* applyCancelRequest: a cancel that came with the last packet wins.
ApplyCancel(j) ==
    /\ at[j] = "written"
    /\ \/ /\ ~cancel[j] /\ Returns(j, "Converted") /\ UNCHANGED diskVars
       \/ cancel[j] /\ Returns(j, "Cancelled") /\ DropOutput(j)
    /\ WorkerStep

\* The same of an export, looked at before its file replaces the chosen one.
EndExport ==
    /\ at["export"] = "ending"
    /\ \/ ~cancel["export"] /\ Goes("export", "committing") /\ UNCHANGED diskVars
       \/ cancel["export"] /\ Returns("export", "Cancelled") /\ DropOutput("export")
    /\ WorkerStep

\* QSaveFile::commit: the file aside replaces the chosen one at once.
Commit ==
    /\ at["export"] = "committing"
    /\ Returns("export", "Exported")
    /\ aside' = aside \ {job["export"]}
    /\ written' = written \union {<<given["export"], job["export"]>>}
    /\ UNCHANGED dirs /\ WorkerStep

-----------------------------------------------------------------------------
(* The host's conversion: convertForHost(), on a thread of the host, which *)
(* waits for a conversion on another and copies its text.                  *)

HostConvert ==
    /\ sessions # "gone" /\ ~isRunning("host")
    /\ JobStart("host", NoPath)
    /\ hostAsked' = FALSE
    /\ UNCHANGED <<uiVars, posted, diskVars>>

\* The host's user presses Cancel, in the host.
HostCancel ==
    /\ isRunning("host") /\ ~hostAsked /\ hostAsked' = TRUE
    /\ UNCHANGED <<uiVars, jobVars, posted, diskVars>>

\* The wait carries the Cancel over to the conversion.
CarryCancel ==
    /\ at["host"] \in {"opening", "working", "written"} /\ hostAsked /\ ~cancel["host"]
    /\ cancel' = [cancel EXCEPT !["host"] = TRUE]
    /\ UNCHANGED <<uiVars, jobs, job, given, at, result, hostAsked, posted, diskVars>>

\* The host is answered; the conversion's directory is removed, if any.
HostAnswer == Finish("host")
HostRemoves == dirs' = dirs \ {job["host"]} /\ UNCHANGED <<aside, written>>

\* The conversion is done: a Cancel wins, also one not carried over.
HostTakes ==
    /\ at["host"] = "done"
    /\ IF cancel["host"] \/ hostAsked \/ result["host"] # "Converted"
         THEN HostAnswer /\ HostRemoves
         ELSE Goes("host", "copying") /\ UNCHANGED diskVars
    /\ UNCHANGED <<uiVars, hostAsked, posted>>

\* The text is copied into the host's file, chunk by chunk: the copy ends,
\* fails, or sees the Cancel.  The directory goes in each case.
HostCopies ==
    /\ at["host"] = "copying"
    /\ Goes("host", "copied") \/ HostAnswer
    /\ HostRemoves
    /\ UNCHANGED <<uiVars, hostAsked, posted>>

\* keepConvertedCapture: under the mutex, an event for the UI thread is
\* posted to the sessions, if they are there.
HostKeeps ==
    /\ at["host"] = "copied"
    /\ posted' = IF keeper THEN posted \union {job["host"]} ELSE posted
    /\ HostAnswer
    /\ UNCHANGED <<uiVars, hostAsked, diskVars>>

\* The event is delivered: the catalog keeps the capture.
KeepConverted(id) ==
    /\ Listening /\ id \in posted
    /\ posted' = posted \ {id}
    /\ kept' = kept \union {id}
    /\ UNCHANGED <<sessions, keeper, dialogs, state, chosen, outcome, jobVars, hostAsked,
                   capturing, diskVars, opened>>

-----------------------------------------------------------------------------
(* The shutdown, on the UI thread, from the app's event loop or a dialog's.*)

\* Variant: the host's converter is not told.
ShutdownUntold ==
    /\ sessions = "open" /\ sessions' = "closing"
    /\ UNCHANGED <<keeper, dialogs, state, chosen, outcome, jobVars, hostAsked, posted,
                   capturing, diskVars, opened, kept>>

\* The host's converter is told first that there are no sessions to keep
\* anything in.
Shutdown ==
    /\ sessions = "open" /\ sessions' = "closing" /\ keeper' = FALSE
    /\ UNCHANGED <<dialogs, state, chosen, outcome, jobVars, hostAsked, posted, capturing,
                   diskVars, opened, kept>>

\* cancelAndWait() begins: the cancel, and the wait for the worker.
CancelJob(s) == cancel' = [cancel EXCEPT ![s] = isRunning(s)]

\* The destructor: the live capture is stopped, the conversion cancelled.
CloseLive ==
    /\ sessions = "closing" /\ sessions' = "conversion" /\ capturing' = FALSE
    /\ CancelJob("conversion")
    /\ UNCHANGED <<keeper, dialogs, state, chosen, outcome, jobs, job, given, at, result,
                   hostAsked, posted, diskVars, opened, kept>>

\* cancelAndWait() ends: the worker is done, what it wrote is settled, and
\* the result, posted or not, is delivered to no one.
CancelledAndWaited(s) ==
    /\ at[s] \in {"none", "done"}
    /\ dirs' = Settled(s) /\ UNCHANGED <<aside, written>>

\* The conversion's session is gone, and the export cancelled.
CloseConversion ==
    /\ sessions = "conversion" /\ sessions' = "export"
    /\ CancelledAndWaited("conversion")
    /\ ForgetJob("conversion")
    /\ cancel' = [cancel EXCEPT !["conversion"] = FALSE, !["export"] = isRunning("export")]
    /\ UNCHANGED <<keeper, dialogs, state, chosen, outcome, hostAsked, posted, capturing,
                   opened, kept>>

\* The sessions are gone, and the events posted to them.
CloseExport ==
    /\ sessions = "export" /\ sessions' = "gone"
    /\ CancelledAndWaited("export")
    /\ Finish("export")
    /\ posted' = {}
    /\ UNCHANGED <<keeper, dialogs, state, chosen, outcome, hostAsked, capturing, opened,
                   kept>>

\* Nothing is left to do.
Done ==
    /\ sessions = "gone" /\ dialogs = <<>> /\ ~isRunning("host")
    /\ UNCHANGED vars

-----------------------------------------------------------------------------
Worker(j) ==
    \/ SeeCancel(j) \/ Fail(j) \/ WriteLast(j)
    \/ j \in Converts /\ (OpenConversion(j) \/ ApplyCancel(j))
    \/ j = "export" /\ (OpenExport \/ EndExport \/ Commit)

Host == HostConvert \/ HostCancel \/ CarryCancel \/ HostTakes \/ HostCopies \/ HostKeeps

Close == CloseLive \/ CloseConversion \/ CloseExport

Next ==
    \/ AskFile \/ AskPackets
    \/ \E path \in Paths : FileChosen(path) \/ ExportFileChosen(path)
    \/ \E s \in Sessions : Cancel(s)
    \/ ConversionFinished \/ ExportFinished
    \/ DialogReturns \/ Confirmed \/ LiveStarts \/ LiveEnds
    \/ \E j \in Jobs : Worker(j)
    \/ Host \/ \E id \in posted : KeepConverted(id)
    \/ Shutdown \/ Close \/ Done

\* The steps of a worker that looks at a cancel, and of one that has nothing
\* left to read.  A worker may read on for ever while no one cancels it.
Winding(j) ==
    \/ SeeCancel(j)
    \/ j \in Converts /\ (OpenConversion(j) \/ ApplyCancel(j))
    \/ j = "export" /\ (OpenExport \/ EndExport \/ Commit)

Spec == Init /\ [][Next]_vars
FairSpec ==
    /\ Spec
    /\ \A j \in Jobs : WF_vars(Winding(j))
    /\ WF_vars(ConversionFinished) /\ WF_vars(ExportFinished)
    /\ WF_vars(Close)
    /\ WF_vars(CarryCancel) /\ WF_vars(HostTakes) /\ WF_vars(HostCopies) /\ WF_vars(HostKeeps)

-----------------------------------------------------------------------------
(* Properties.                                                             *)

TypeOK ==
    /\ sessions \in {"open", "closing", "conversion", "export", "gone"} /\ keeper \in BOOLEAN
    /\ dialogs \in Seq({"openFile", "confirm", "exportFile"}) /\ Len(dialogs) <= MaxDialogs
    /\ state \in [Sessions -> {"Idle", "Running", "Cancelling"}]
    /\ chosen \in [Sessions -> Paths \union {NoPath}]
    /\ outcome \in [Sessions -> Outcome \union {NoOutcome}]
    /\ jobs \in 0..MaxJobs /\ job \in [Jobs -> 0..MaxJobs] /\ cancel \in [Jobs -> BOOLEAN]
    /\ given \in [Jobs -> Paths \union {NoPath}] /\ at \in [Jobs -> Stages]
    /\ result \in [Jobs -> Statuses]
    /\ hostAsked \in BOOLEAN /\ capturing \in BOOLEAN
    /\ posted \subseteq 1..MaxJobs /\ dirs \subseteq 1..MaxJobs /\ aside \subseteq 1..MaxJobs
    /\ written \subseteq (Paths \X (1..MaxJobs))
    /\ opened \subseteq 1..MaxJobs /\ kept \subseteq 1..MaxJobs

\* A session is busy exactly while its job runs, and cancelling exactly while
\* its job is asked to stop (file_conversion_session.cpp, export_session.cpp
\* beside background_job.h): were they to come apart, a session would refuse
\* every later start, or start a job that BackgroundJob ignores.
BusyWhileJobRuns ==
    sessions = "open" => \A s \in Sessions :
        /\ isBusy(s) <=> isRunning(s)
        /\ state[s] = "Cancelling" <=> cancel[s]

\* No file is converted while a live capture runs, also when one started
\* while the dialog that chose the file was open (activity.cpp).
ConversionExcludesCapture == ~(isBusy("conversion") /\ capturing)

\* What a session tells is what its job did, and of the file its job was
\* given: an export told as Exported replaced the file it names, one told as
\* cancelled or failed replaced none, a capture told as opened has its tab,
\* and the text of one that is not is gone (file_conversion_session.cpp,
\* export_session.cpp: finish).
OutcomeIsWhatHappened == \A s \in Sessions : outcome[s].status # "None" =>
    LET o == outcome[s] IN
    /\ o.path = o.given
    /\ IF s = "export"
         THEN /\ o.status = "Exported" <=> \E p \in Paths : <<p, o.id>> \in written
              /\ o.status = "Exported" => <<o.path, o.id>> \in written
         ELSE /\ o.status = "Converted" <=> o.id \in opened
              /\ o.status = "Converted" <=> o.id \in dirs

\* Every directory on disk has its tab, or a worker that will remove or hand
\* it over, and every tab its directory; no export leaves a file aside once
\* its worker is done (background_job.h: settle, host_converter.cpp:
\* removeOutput).
NothingIsLeftBehind ==
    /\ opened \subseteq dirs
    /\ dirs \subseteq opened \union {job[j] : j \in Converts}
    /\ aside \subseteq {job["export"]}
    /\ at["export"] = "done" => aside = {}

\* Once the sessions are gone no worker of theirs runs, no session is busy
\* again and no event is posted to them: the library is unloaded next
\* (capture_sessions.cpp: ~CaptureSessions, plugin.cpp:
\* logsquirl_plugin_shutdown).
GoneIsQuiet == sessions = "gone" =>
    /\ \A s \in Sessions : ~isRunning(s) /\ at[s] = "none"
    /\ posted = {} /\ ~capturing

\* No tab opens for a conversion the user cancelled, and no event reaches
\* sessions being deleted (background_job.h: "a cancel wins").
CancelledOpensNoTab ==
    [][opened' # opened => state["conversion"] = "Running" /\ sessions = "open"]_vars

\* A cancelled conversion or export ends (background_job.h: cancel).
CancelEnds ==
    \A s \in Sessions : state[s] = "Cancelling" ~> (state[s] = "Idle" \/ sessions = "gone")

\* The shutdown's waits end, whatever the workers were doing
\* (background_job.h: cancelAndWait).
ShutdownEnds == sessions = "closing" ~> sessions = "gone"

\* The host is answered once its user cancelled (host_converter.cpp).
HostIsAnswered == hostAsked ~> ~isRunning("host")

\* Sessions and jobs agree on what runs, so that the Activity rule is asked of what does
\* run: no conversion runs beside a live capture.
JobsExclude == BusyWhileJobRuns /\ ConversionExcludesCapture

\* What a session tells is what is on the disk, and nothing else is.
DiskIsAsTold == OutcomeIsWhatHappened /\ NothingIsLeftBehind

\* What was asked to end ends: a cancelled job, the shutdown, and the host's wait.
RequestsEnd == CancelEnds /\ ShutdownEnds /\ HostIsAnswered
=============================================================================
