------------------------- MODULE LiveCaptureSession -------------------------
(***************************************************************************)
(* The Live Capture Session (live_capture_session.cpp) on the UI thread,   *)
(* with the LiveCapture runs it starts (live_capture.cpp), each a worker   *)
(* thread and a capture program.                                           *)
(*                                                                         *)
(* A worker tells the session what happens by posting to the UI thread's   *)
(* event queue, so everything the session learns is old when it learns it: *)
(* a capture has ended before finished() is delivered, and its program is  *)
(* still being ended until done() is.  A choice whose kind must be asked   *)
(* first is checked on a worker of its own, and its answer may come after  *)
(* the choice was dropped.                                                 *)
(*                                                                         *)
(* What the conversion of one live stream does is reduced to what it tells *)
(* the session: text files that may be opened, snapshots, and a result.    *)
(***************************************************************************)
EXTENDS Activity, Integers, Sequences

CONSTANTS
    Choices,       \* what the user may choose to capture
    NoChoice,      \* no choice
    MaxRuns,       \* bound: captures started in a behaviour
    MaxChecks,     \* bound: the check counter
    MaxFiles,      \* bound: text files of one capture (a ring buffer's)
    MaxSnapshots,  \* bound: snapshots of one text file
    DirectStarts   \* whether start() is called directly (the session's
                   \* interface), or only as the app does, by startWhenIdle()

ASSUME NoChoiceAssumption == NoChoice \notin Choices
ASSUME BoundsAssumption ==
    /\ MaxRuns \in Nat
    /\ MaxChecks \in Nat
    /\ MaxFiles \in Nat
    /\ MaxSnapshots \in Nat
ASSUME DirectStartsAssumption == DirectStarts \in BOOLEAN

VARIABLES
    \* The session, on the UI thread.
    state,      \* state_
    pending,    \* pending_: the choice that waits for the last run to be done
    choice,     \* choice_: the choice running, being checked, or the last
    checks,     \* checks_: the number of the latest check
    runs,       \* runs_: the number of the latest run; run_ is that run
    files,      \* files_: the text files of the run that have a tab, in order
    outcome,    \* outcome_: what the latest run came to
    \* The capture catalog.
    entries,    \* per run and text file, what its tab shows
    capturing,  \* capturing_: whether the tabs of the last run are capturing
    \* The LiveCapture runs and their workers.
    worker,     \* per run, how far its worker thread is
    program,    \* per run, whether its capture program runs
    stop,       \* per run, the stop flag it shares with the session
    done,       \* per run, done_: whether done was delivered
    sent,       \* per run, the text files readyToOpen was posted for
    snapshots,  \* per run, the snapshots posted since its last text file
    \* Between them.
    asking,     \* the checks the check worker still has to ask for, in order
    events,     \* the UI thread's event queue
    converting, \* whether the File Conversion Session is busy (the host)
    ui,         \* the UI thread: running, or how far the shutdown is
    asked       \* history: the latest choice the user asked for

sessionVars == <<state, pending, choice, checks, runs, files, outcome>>
catalogVars == <<entries, capturing>>
workerVars == <<worker, program, stop, sent, snapshots>>
vars == <<sessionVars, catalogVars, workerVars, done, asking, events, converting, ui, asked>>

RunIds == 1..MaxRuns
FileIds == 1..MaxFiles

States == {"Idle", "Checking", "Capturing", "Stopping"}

\* A worker: not started; making its source; waiting for the capture's header;
\* converting packets; ended, its program being ended; over.
Phases == {"none", "opening", "header", "packets", "ending", "over"}

\* What convertStream() returns to a live capture: Stopped before the header
\* came, Converted, Failed with what was captured kept (a stream that broke
\* off after a packet), or Failed with its directory removed.
Results == {"Stopped", "Converted", "FailedKept", "FailedRemoved"}

Outcomes == {"None", "Captured", "Empty", "Stopped", "FailedWithFiles", "Failed"}

\* What a tab shows: nothing is known of the file, it was opened, the latest
\* snapshot, the final summary, or the final summary with the error.
Entries == {"none", "opened", "snapshot", "final", "error"}

CheckedEvent(n, c) == [kind |-> "checked", check |-> n, choice |-> c]
RunEvent(kind, r) == [kind |-> kind, run |-> r]
ReadyToOpenEvent(r, f) == [kind |-> "readyToOpen", run |-> r, file |-> f]
FinishedEvent(r, result) == [kind |-> "finished", run |-> r, result |-> result]

Events ==
    [kind : {"checked"}, check : Nat, choice : Choices]
    \union [kind : {"readyToOpen"}, run : RunIds, file : FileIds]
    \union [kind : {"snapshot", "done"}, run : RunIds]
    \union [kind : {"finished"}, run : RunIds, result : Results]

TypeOK ==
    /\ state \in States
    /\ pending \in Choices \union {NoChoice}
    /\ choice \in Choices \union {NoChoice}
    /\ checks \in Nat
    /\ runs \in 0..MaxRuns
    /\ files \in Seq(FileIds)
    /\ outcome \in Outcomes
    /\ entries \in [RunIds -> [FileIds -> Entries]]
    /\ capturing \in BOOLEAN
    /\ worker \in [RunIds -> Phases]
    /\ program \in [RunIds -> BOOLEAN]
    /\ stop \in [RunIds -> BOOLEAN]
    /\ done \in [RunIds -> BOOLEAN]
    /\ sent \in [RunIds -> 0..MaxFiles]
    /\ snapshots \in [RunIds -> 0..MaxSnapshots]
    /\ asking \in Seq([check : Nat, choice : Choices])
    /\ events \in Seq(Events)
    /\ converting \in BOOLEAN
    /\ ui \in {"running", "closing", "joining", "closed"}
    /\ asked \in Choices \union {NoChoice}

Init ==
    /\ state = "Idle"
    /\ pending = NoChoice
    /\ choice = NoChoice
    /\ checks = 0
    /\ runs = 0
    /\ files = << >>
    /\ outcome = "None"
    /\ entries = [r \in RunIds |-> [f \in FileIds |-> "none"]]
    /\ capturing = FALSE
    /\ worker = [r \in RunIds |-> "none"]
    /\ program = [r \in RunIds |-> FALSE]
    /\ stop = [r \in RunIds |-> FALSE]
    /\ done = [r \in RunIds |-> FALSE]
    /\ sent = [r \in RunIds |-> 0]
    /\ snapshots = [r \in RunIds |-> 0]
    /\ asking = << >>
    /\ events = << >>
    /\ converting = FALSE
    /\ ui = "running"
    /\ asked = NoChoice

-----------------------------------------------------------------------------
(* Starting *)

\* Variant: the session weighs itself only, not the conversion.
RefuseItselfOnly(st) == st # "Idle"

\* The session's own refusal, with its state st: it weighs what the host says
\* runs, and whether it is busy itself.
refuseWhileBusy(st) ==
    activityRefusal("LiveCapture",
        [converting |-> converting, capturing |-> st # "Idle", exporting |-> FALSE]) # "None"

\* run(): the last run is let go of (retired: its stop flag set, its listener
\* told nothing more), and the next one starts on a worker of its own.
Run(c) ==
    /\ runs < MaxRuns
    /\ runs' = runs + 1
    /\ choice' = c
    /\ files' = << >>
    /\ capturing' = TRUE
    /\ outcome' = "None"
    /\ state' = "Capturing"
    /\ worker' = [worker EXCEPT ![runs + 1] = "opening"]
    /\ stop' = [r \in RunIds |-> stop[r] \/ r = runs]
    /\ UNCHANGED <<entries, program, sent, snapshots>>

\* start(choice), called in state st with ck checks so far: refused, the
\* choice's kind asked on the check worker, or the capture started.  Whether
\* a choice has a problem, and whether its kind must be asked, is outside.
Start(c, st, ck) ==
    \/ \* refused: busy, or liveChoiceProblem() says why
       /\ state' = st
       /\ checks' = ck
       /\ UNCHANGED <<choice, runs, files, outcome, catalogVars, workerVars, asking>>
    \/ \* validationNeedsAsking()
       /\ ~refuseWhileBusy(st)
       /\ ck + 1 < MaxChecks
       /\ state' = "Checking"
       /\ checks' = ck + 1
       /\ choice' = c
       /\ asking' = Append(asking, [check |-> ck + 1, choice |-> c])
       /\ UNCHANGED <<runs, files, outcome, catalogVars, workerVars>>
    \/ \* startChecked()
       /\ ~refuseWhileBusy(st)
       /\ Run(c)
       /\ checks' = ck
       /\ UNCHANGED asking

\* start() as the session's interface has it.
StartDirectly(c) ==
    /\ ui = "running"
    /\ DirectStarts
    /\ asked' = c
    /\ Start(c, state, checks)
    /\ UNCHANGED <<pending, done, events, converting, ui>>

\* Variant: a run that has ended counts as done, its program or not.
LastRunHasEnded == state \in {"Idle", "Checking"}

\* isDone() of the latest run, or there is none.
LastRunIsDone == \A r \in RunIds : r = runs => done[r]

\* startWhenIdle(): a running capture is stopped and the choice waits for its
\* program to end; a check that runs is dropped for it.
StartWhenIdle(c) ==
    /\ ui = "running"
    /\ asked' = c
    /\ \/ \* a capture runs, or is being stopped
          /\ state \in {"Capturing", "Stopping"}
          /\ pending' = c
          /\ state' = "Stopping"
          /\ stop' = [stop EXCEPT ![runs] = @ \/ state = "Capturing"]
          /\ UNCHANGED <<choice, checks, runs, files, outcome, catalogVars,
                         worker, program, sent, snapshots, asking>>
       \/ \* ended, but its program is still ending
          /\ state \in {"Idle", "Checking"}
          /\ ~LastRunIsDone
          /\ pending' = c
          /\ state' = "Idle"
          /\ checks' = IF state = "Checking" THEN checks + 1 ELSE checks
          /\ UNCHANGED <<choice, runs, files, outcome, catalogVars, workerVars, asking>>
       \/ /\ state \in {"Idle", "Checking"}
          /\ LastRunIsDone
          /\ Start(c, "Idle", IF state = "Checking" THEN checks + 1 ELSE checks)
          /\ UNCHANGED pending
    /\ UNCHANGED <<done, events, converting, ui>>

\* Variant: a capture told to stop counts as ended at once.
StopAtOnce ==
    /\ ui = "running"
    /\ state = "Capturing"
    /\ stop' = [stop EXCEPT ![runs] = TRUE]
    /\ state' = "Idle"
    /\ UNCHANGED <<pending, choice, checks, runs, files, outcome, catalogVars, worker,
                   program, sent, snapshots, done, asking, events, converting,
                   ui, asked>>

\* stop(): the running capture is told to stop, a running check is dropped.
Stop ==
    /\ ui = "running"
    /\ \/ /\ state = "Checking"
          /\ checks' = checks + 1
          /\ state' = "Idle"
          /\ UNCHANGED stop
       \/ /\ state = "Capturing"
          /\ stop' = [stop EXCEPT ![runs] = TRUE]
          /\ state' = "Stopping"
          /\ UNCHANGED checks
    /\ UNCHANGED <<pending, choice, runs, files, outcome, catalogVars, worker,
                   program, sent, snapshots, done, asking, events, converting,
                   ui, asked>>

-----------------------------------------------------------------------------
(* The workers *)

\* The check worker asked the kind of the choice it has to: its answer is
\* posted, whether or not the check was dropped meanwhile.
CheckAnswered ==
    /\ asking # << >>
    /\ asking' = Tail(asking)
    /\ events' = Append(events, CheckedEvent(Head(asking).check, Head(asking).choice))
    /\ UNCHANGED <<sessionVars, catalogVars, workerVars, done, converting, ui, asked>>

\* makeSource() made the source: its capture program runs.
SourceMade(r) ==
    /\ worker[r] = "opening"
    /\ worker' = [worker EXCEPT ![r] = "header"]
    /\ program' = [program EXCEPT ![r] = TRUE]
    /\ UNCHANGED <<sessionVars, catalogVars, stop, sent, snapshots, done, asking,
                   events, converting, ui, asked>>

\* The worker posts finished() with its result; its program still runs.
Finish(r, result) ==
    /\ worker' = [worker EXCEPT ![r] = "ending"]
    /\ events' = Append(events, FinishedEvent(r, result))
    /\ UNCHANGED <<sessionVars, catalogVars, program, stop, sent, snapshots, done,
                   asking, converting, ui, asked>>

\* makeSource() threw, or returned none: there is no program.
SourceFailed(r) ==
    /\ worker[r] = "opening"
    /\ Finish(r, "FailedRemoved")

\* The capture's header came, and its output was opened.
HeaderCame(r) ==
    /\ worker[r] = "header"
    /\ worker' = [worker EXCEPT ![r] = "packets"]
    /\ UNCHANGED <<sessionVars, catalogVars, program, stop, sent, snapshots, done,
                   asking, events, converting, ui, asked>>

\* The stream ended before its header came: stopped, or at its duration.
StoppedBeforeHeader(r) ==
    /\ worker[r] = "header"
    /\ Finish(r, "Stopped")

\* The first packet of a text file was written and flushed: readyToOpen is
\* posted, and a snapshot behind it.
FirstOfText(r) ==
    /\ worker[r] = "packets"
    /\ sent[r] < MaxFiles
    /\ sent' = [sent EXCEPT ![r] = @ + 1]
    /\ snapshots' = [snapshots EXCEPT ![r] = 0]
    /\ events' = events \o <<ReadyToOpenEvent(r, sent[r] + 1), RunEvent("snapshot", r)>>
    /\ UNCHANGED <<sessionVars, catalogVars, worker, program, stop, done, asking,
                   converting, ui, asked>>

\* A later snapshot, by the Live Output's cadence or as a ring buffer's next
\* file starts.
Snapshot(r) ==
    /\ worker[r] = "packets"
    /\ sent[r] > 0
    /\ snapshots[r] < MaxSnapshots
    /\ snapshots' = [snapshots EXCEPT ![r] = @ + 1]
    /\ events' = Append(events, RunEvent("snapshot", r))
    /\ UNCHANGED <<sessionVars, catalogVars, worker, program, stop, sent, done,
                   asking, converting, ui, asked>>

\* The stream ended: stopped, closed by its program, or by a stop condition.
StreamEnded(r) ==
    /\ worker[r] = "packets"
    /\ Finish(r, "Converted")

\* The stream broke off: what was captured is kept, once there is a packet.
StreamBrokeOff(r) ==
    /\ worker[r] \in {"header", "packets"}
    /\ Finish(r, IF sent[r] > 0 THEN "FailedKept" ELSE "FailedRemoved")

\* A file could not be written, or memory ran out: the directory is removed.
OutputFailed(r) ==
    /\ worker[r] \in {"header", "packets"}
    /\ Finish(r, "FailedRemoved")

\* source.reset(): the capture program is ended, and done() posted.
ProgramEnded(r) ==
    /\ worker[r] = "ending"
    /\ worker' = [worker EXCEPT ![r] = "over"]
    /\ program' = [program EXCEPT ![r] = FALSE]
    /\ events' = Append(events, RunEvent("done", r))
    /\ UNCHANGED <<sessionVars, catalogVars, stop, sent, snapshots, done, asking,
                   converting, ui, asked>>

-----------------------------------------------------------------------------
(* What the UI thread is told *)

\* The event at the head of the queue is delivered; the UI thread is not
\* blocked in the shutdown.
Deliver(kind) ==
    /\ ui = "running"
    /\ events # << >>
    /\ Head(events).kind = kind
    /\ events' = Tail(events)
    /\ UNCHANGED <<converting, ui, asked>>

\* Variant: a run that was let go of is listened to.
ListeningToAll(r) == TRUE

\* A run that was let go of tells nothing more: it is disconnected, and the
\* session's listeners compare its number with the latest.
Listening(r) == r = runs

\* Variant: an answer is taken for the check that runs, whichever it is of.
CheckedAny ==
    /\ Deliver("checked")
    /\ \/ /\ state # "Checking"
          /\ UNCHANGED <<sessionVars, catalogVars, workerVars, done, asking>>
       \/ /\ state = "Checking"
          /\ \/ /\ state' = "Idle"
                /\ UNCHANGED <<choice, runs, files, outcome, catalogVars, workerVars>>
             \/ ~refuseWhileBusy("Idle") /\ Run(Head(events).choice)
          /\ UNCHANGED <<pending, checks, done, asking>>

\* checked(): the kind of the choice was asked.
Checked ==
    /\ Deliver("checked")
    /\ \/ \* stopped, or another choice is checked
          /\ Head(events).check # checks \/ state # "Checking"
          /\ UNCHANGED <<sessionVars, catalogVars, workerVars, done, asking>>
       \/ \* a problem now, refused, or the capture starts; not asked again
          /\ Head(events).check = checks
          /\ state = "Checking"
          /\ \/ /\ state' = "Idle"
                /\ UNCHANGED <<choice, runs, files, outcome, catalogVars, workerVars>>
             \/ ~refuseWhileBusy("Idle") /\ Run(Head(events).choice)
          /\ UNCHANGED <<pending, checks, done, asking>>

\* Variant: a capture being stopped opens no more tabs.
OpenFileUnlessStopping ==
    /\ Deliver("readyToOpen")
    /\ LET r == Head(events).run
           f == Head(events).file
           opens == Listening(r) /\ state = "Capturing"
       IN  /\ files' = IF opens THEN Append(files, f) ELSE files
           /\ entries' = IF opens THEN [entries EXCEPT ![r][f] = "opened"] ELSE entries
    /\ UNCHANGED <<state, pending, choice, checks, runs, outcome, capturing,
                   workerVars, done, asking>>

\* openFile(): the text file is kept in the catalog and opened in a tab.
OpenFile ==
    /\ Deliver("readyToOpen")
    /\ LET r == Head(events).run
           f == Head(events).file
       IN  /\ files' = IF Listening(r) THEN Append(files, f) ELSE files
           /\ entries' = IF Listening(r) THEN [entries EXCEPT ![r][f] = "opened"] ELSE entries
    /\ UNCHANGED <<state, pending, choice, checks, runs, outcome, capturing,
                   workerVars, done, asking>>

\* Whether the latest run's text file f has a tab.
HasTab(f) == \E i \in DOMAIN files : files[i] = f

\* The entries of the latest run's files, each shown as shows says.
ShowFiles(shows) ==
    [r \in RunIds |-> [f \in FileIds |->
        IF r = runs /\ HasTab(f) THEN shows ELSE entries[r][f]]]

\* takeSnapshot(): every tab of the capture shows its summary so far.
TakeSnapshot ==
    /\ Deliver("snapshot")
    /\ entries' = IF Listening(Head(events).run) THEN ShowFiles("snapshot") ELSE entries
    /\ UNCHANGED <<sessionVars, capturing, workerVars, done, asking>>

\* Variant: the status of the conversion is the outcome.
OutcomeAsConverted(result) == result

\* What a run that ended with result comes to, with the tabs it has.
OutcomeOf(result) ==
    CASE result = "Stopped" -> "Stopped"
      [] result = "Converted" -> IF files = << >> THEN "Empty" ELSE "Captured"
      [] result = "FailedKept" /\ files # << >> -> "FailedWithFiles"
      [] OTHER -> "Failed"

\* finish(): the outcome, after the catalog's entries were made final.
Finished ==
    /\ Deliver("finished")
    /\ IF ~Listening(Head(events).run)
       THEN UNCHANGED <<state, outcome, entries, capturing>>
       ELSE LET came == OutcomeOf(Head(events).result)
            IN  /\ capturing' = FALSE
                /\ state' = "Idle"
                /\ outcome' = came
                /\ entries' = CASE came = "Captured" -> ShowFiles("final")
                                [] came = "FailedWithFiles" -> ShowFiles("error")
                                [] OTHER -> entries
    /\ UNCHANGED <<pending, choice, checks, runs, files, workerVars, done, asking>>

\* Variant: only a capture that is still being stopped starts the pending one.
RunDoneWhileStopping ==
    /\ Deliver("done")
    /\ done' = [done EXCEPT ![Head(events).run] = TRUE]
    /\ IF ~Listening(Head(events).run) \/ pending = NoChoice \/ state # "Stopping"
       THEN UNCHANGED <<sessionVars, catalogVars, workerVars, asking>>
       ELSE /\ pending' = NoChoice
            /\ Start(pending, state, checks)

\* done() of the latest run: the pending start starts, now that the program
\* of the last one has ended.
RunDone ==
    /\ Deliver("done")
    /\ done' = [done EXCEPT ![Head(events).run] = TRUE]
    /\ IF ~Listening(Head(events).run) \/ pending = NoChoice
       THEN UNCHANGED <<sessionVars, catalogVars, workerVars, asking>>
       ELSE /\ pending' = NoChoice
            /\ Start(pending, state, checks)

-----------------------------------------------------------------------------
(* The host *)

\* The File Conversion Session starts a conversion, if the Activity rule lets
\* it, or ends one.
ConversionStarts ==
    /\ ui = "running"
    /\ activityRefusal("OpenFile", [converting |-> converting, capturing |-> state # "Idle",
                                    exporting |-> FALSE]) = "None"
    /\ converting' = TRUE
    /\ UNCHANGED <<sessionVars, catalogVars, workerVars, done, asking, events, ui, asked>>

ConversionEnds ==
    /\ converting
    /\ converting' = FALSE
    /\ UNCHANGED <<sessionVars, catalogVars, workerVars, done, asking, events, ui, asked>>

\* The plugin is shut down: the session's destructor waits for its check
\* worker, with the check cancelled.
Close ==
    /\ ui = "running"
    /\ ui' = "closing"
    /\ UNCHANGED <<sessionVars, catalogVars, workerVars, done, asking, events,
                   converting, asked>>

\* Then it lets go of its run, which is stopped, not waited for.
Retire ==
    /\ ui = "closing"
    /\ asking = << >>
    /\ ui' = "joining"
    /\ stop' = [r \in RunIds |-> stop[r] \/ r = runs]
    /\ UNCHANGED <<sessionVars, catalogVars, worker, program, sent, snapshots, done,
                   asking, events, converting, asked>>

\* The File Conversion Session cancelled its conversion and waited for it;
\* then joinLiveCaptures() waits for the workers of the captures let go of,
\* and what was posted for them is dropped.
Join ==
    /\ ui = "joining"
    /\ ~converting
    /\ \A r \in RunIds : worker[r] \in {"none", "over"}
    /\ ui' = "closed"
    /\ events' = << >>
    /\ UNCHANGED <<sessionVars, catalogVars, workerVars, done, asking, converting, asked>>

\* The library may be unloaded.
Terminated == ui = "closed" /\ UNCHANGED vars

-----------------------------------------------------------------------------
User ==
    \/ \E c \in Choices : StartWhenIdle(c) \/ StartDirectly(c)
    \/ Stop
    \/ Close

Worker(r) ==
    \/ SourceMade(r)
    \/ SourceFailed(r)
    \/ HeaderCame(r)
    \/ StoppedBeforeHeader(r)
    \/ FirstOfText(r)
    \/ Snapshot(r)
    \/ StreamEnded(r)
    \/ StreamBrokeOff(r)
    \/ OutputFailed(r)
    \/ ProgramEnded(r)

EventLoop == Checked \/ OpenFile \/ TakeSnapshot \/ Finished \/ RunDone

Next ==
    \/ User
    \/ CheckAnswered
    \/ \E r \in RunIds : Worker(r)
    \/ EventLoop
    \/ ConversionStarts
    \/ ConversionEnds
    \/ Retire
    \/ Join
    \/ Terminated

\* A worker told to stop comes to an end: its stream reads as ended.
Ends(r) ==
    /\ stop[r]
    /\ \/ SourceMade(r) \/ SourceFailed(r)
       \/ StoppedBeforeHeader(r) \/ StreamEnded(r) \/ StreamBrokeOff(r) \/ OutputFailed(r)

\* The UI thread runs its event loop and its shutdown; the check worker's
\* listing has a timeout; a stopped stream ends, and ending a capture program
\* kills it in the end.
Fairness ==
    /\ WF_vars(EventLoop)
    /\ WF_vars(Retire)
    /\ WF_vars(Join)
    /\ WF_vars(ui = "joining" /\ ConversionEnds)
    /\ WF_vars(CheckAnswered)
    /\ \A r \in RunIds : WF_vars(Ends(r)) /\ WF_vars(ProgramEnded(r))

Spec == Init /\ [][Next]_vars
FairSpec == Spec /\ Fairness

-----------------------------------------------------------------------------
(* What makes it correct *)

\* Two capture programs never run at once: a pending start waits until the
\* last run's program has ended (runDone()), and so does a start in between,
\* when the last capture has ended but its program has not.
OneProgram == \A r, s \in RunIds : program[r] /\ program[s] => r = s

\* While a live capture runs or is being checked no file is converted, and the
\* other way around, however the two are started: the activities refuse each
\* other when they start, not when they are asked for.
CaptureExcludesConversion == ~(converting /\ state # "Idle")

\* What is being checked or captured is what the user asked for last, though a
\* dropped check answers late and a pending start waits (checks_, pending_).
LatestChoiceRuns == state \in {"Checking", "Capturing"} => choice = asked

\* A session that says it captures nothing has no worker that still captures:
\* Idle comes with the end of the run, not with the request to stop.
IdleMeansEnded ==
    state \in {"Idle", "Checking"} /\ runs > 0 => worker[runs] \in {"ending", "over"}

\* When a run's outcome is told, every text file it announced has its tab, the
\* oldest first, and the tabs of a capture that kept its files show the final
\* summary.
OutcomeIsComplete ==
    outcome # "None" =>
        /\ files = [f \in 1..sent[runs] |-> f]
        /\ outcome \in {"Captured", "FailedWithFiles"} =>
               \A f \in 1..sent[runs] : entries[runs][f] \in {"final", "error"}

\* The pending start is taken up only as the latest run is done: a run let go of
\* tells its end too, and must not use it up.
PendingIsTakenUpOnce ==
    [][pending # NoChoice /\ pending' = NoChoice => runs > 0 /\ done'[runs]]_vars

\* Once the shutdown is over, no worker and no capture program of the plugin
\* runs: the host may unload the library.
ClosedIsQuiet ==
    ui = "closed" =>
        /\ asking = << >> /\ events = << >>
        /\ \A r \in RunIds : worker[r] \in {"none", "over"} /\ ~program[r]

\* A pending start comes to its turn, as the capture it waits for is stopped and
\* ends, unless start() begins another meanwhile or the plugin is shut down.
PendingIsResolved ==
    \A r \in RunIds :
        pending # NoChoice /\ runs = r /\ state \in {"Idle", "Stopping"}
            ~> pending = NoChoice \/ ui # "running" \/ runs # r

\* The shutdown waits for workers that do end.
ShutdownEnds == ui = "closing" ~> ui = "closed"

\* What is told to have ended has: an idle session captures nothing, and a closed one
\* leaves nothing running (live_capture_session.cpp: finish, ~LiveCaptureSession).
EndIsQuiet == IdleMeansEnded /\ ClosedIsQuiet

\* Who waits does not wait for ever: a pending start, and the shutdown.
WaitsEnd == PendingIsResolved /\ ShutdownEnds
=============================================================================
