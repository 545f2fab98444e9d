----------------------- MODULE CaptureSessionsProofs -----------------------
(***************************************************************************)
(* Proofs about the Capture Sessions, for any paths and any number of jobs *)
(* and dialogs.                                                            *)
(***************************************************************************)
EXTENDS CaptureSessions, TLAPS

(***************************************************************************)
(* The inductive invariant, as a conjunction of named parts.               *)
(***************************************************************************)

\* The stages of a worker, and the results it may return, by the work it does.
StagesOf(j) ==
    IF j = "export" THEN {"opening", "working", "ending", "committing", "done"}
    ELSE IF j = "conversion" THEN {"opening", "working", "written", "done"}
    ELSE {"opening", "working", "written", "done", "copying", "copied"}
ResultsOf(j) ==
    IF j = "export" THEN {"Exported", "Cancelled", "Failed"}
    ELSE {"Converted", "Cancelled", "Failed"}

\* A job that is over is forgotten, with its cancel flag; one that runs has a
\* number already given and a stage of its kind; a worker that is done has a
\* result.
JobsAreSound == \A j \in Jobs :
    /\ job[j] = 0 => at[j] = "none" /\ ~cancel[j]
    /\ job[j] # 0 => job[j] <= jobs /\ at[j] \in StagesOf(j)
    /\ at[j] = "done" => result[j] \in ResultsOf(j)

\* A session's job was given the path the session holds.
SessionsHoldTheirPath ==
    \A s \in Sessions : job[s] # 0 => given[s] \in Paths /\ chosen[s] = given[s]

\* A job's number is its own: no other job that runs has it, and it is not
\* among those of the jobs that are over, of the tabs, of the files replaced
\* and of the outcomes told.
NumbersAreOwn ==
    /\ \A i, k \in Jobs : i # k /\ job[i] # 0 => job[i] # job[k]
    /\ opened \subseteq 1..jobs
    /\ \A j \in Jobs : job[j] \notin opened
    /\ \A p \in Paths, n \in 1..MaxJobs : <<p, n>> \in written => n <= jobs
    /\ \A s \in Sessions : outcome[s].status # "None" =>
           outcome[s].id <= jobs /\ \A j \in Jobs : job[j] # outcome[s].id

\* What a worker wrote is on disk from its first packet until it drops it or
\* another takes it over, and a worker that is done tells what is there.
ConvertWork(c) ==
    /\ at[c] \in {"working", "written", "copying"} => job[c] \in dirs
    /\ at[c] = "done" => (job[c] \in dirs <=> result[c] = "Converted")
    /\ at[c] = "copied" => job[c] \notin dirs
ExportWork ==
    /\ aside \subseteq {job["export"]}
    /\ at["export"] \in {"none", "opening", "done"} => aside = {}
    /\ job["export"] # 0 => \A p \in Paths : <<p, job["export"]>> \in written <=>
           at["export"] = "done" /\ result["export"] = "Exported" /\ p = given["export"]
WorkIsOnDisk == ExportWork /\ \A c \in Converts : ConvertWork(c)

\* How far the shutdown is.
ClosingInOrder ==
    /\ keeper => sessions = "open"
    /\ sessions \in {"conversion", "export", "gone"} => ~capturing
    /\ sessions = "conversion" /\ job["conversion"] # 0 => cancel["conversion"]
    /\ sessions \in {"export", "gone"} => job["conversion"] = 0
    /\ sessions = "gone" => job["export"] = 0 /\ posted = {}

\* TypeOK, of the jobs and of the rest.
JobTypes ==
    /\ jobs \in 0..MaxJobs /\ job \in [Jobs -> 0..MaxJobs] /\ cancel \in [Jobs -> BOOLEAN]
    /\ given \in [Jobs -> Paths \union {NoPath}] /\ at \in [Jobs -> Stages]
    /\ result \in [Jobs -> Statuses]
DialogTypes ==
    dialogs \in Seq({"openFile", "confirm", "exportFile"}) /\ Len(dialogs) <= MaxDialogs
UiTypes ==
    /\ sessions \in {"open", "closing", "conversion", "export", "gone"} /\ keeper \in BOOLEAN
    /\ state \in [Sessions -> {"Idle", "Running", "Cancelling"}]
    /\ chosen \in [Sessions -> Paths \union {NoPath}]
    /\ outcome \in [Sessions -> Outcome \union {NoOutcome}]
    /\ hostAsked \in BOOLEAN /\ capturing \in BOOLEAN
DiskTypes ==
    /\ posted \subseteq 1..MaxJobs /\ dirs \subseteq 1..MaxJobs /\ aside \subseteq 1..MaxJobs
    /\ written \subseteq (Paths \X (1..MaxJobs))
    /\ opened \subseteq 1..MaxJobs /\ kept \subseteq 1..MaxJobs

\* The parts make up the type invariant.
LEMMA TypeParts == TypeOK <=> JobTypes /\ DialogTypes /\ UiTypes /\ DiskTypes
  BY DEF TypeOK, JobTypes, DialogTypes, UiTypes, DiskTypes

JobInv == JobTypes /\ JobsAreSound /\ SessionsHoldTheirPath
TypeInv == JobInv /\ DialogTypes /\ UiTypes /\ DiskTypes
AgreeInv == BusyWhileJobRuns /\ ConversionExcludesCapture /\ ClosingInOrder
OutputInv == NumbersAreOwn /\ WorkIsOnDisk /\ NothingIsLeftBehind /\ OutcomeIsWhatHappened
SessionsInv == TypeInv /\ AgreeInv /\ OutputInv

-----------------------------------------------------------------------------
(* What the steps of a job keep.                                           *)

\* A worker goes on to another stage of its kind.
LEMMA GoesKeepsJobs ==
    ASSUME JobInv, NEW j \in Jobs, job[j] # 0, NEW stage \in StagesOf(j) \ {"done"},
           Goes(j, stage), UNCHANGED chosen
    PROVE  JobInv'
  <1>1. JobTypes'
    BY DEF JobInv, JobTypes, Goes, Stages, StagesOf
  <1>2. \A i \in Jobs : at'[i] = IF i = j THEN stage ELSE at[i]
    BY DEF JobInv, JobTypes, Goes
  <1>3. JobsAreSound'
    BY <1>2 DEF JobInv, JobsAreSound, Goes
  <1>4. QED
    BY <1>1, <1>3 DEF JobInv, SessionsHoldTheirPath, Goes

\* A worker returns a result of its kind.
LEMMA ReturnsKeepsJobs ==
    ASSUME JobInv, NEW j \in Jobs, job[j] # 0, NEW status \in ResultsOf(j),
           Returns(j, status), UNCHANGED chosen
    PROVE  JobInv'
  <1>1. JobTypes'
    BY DEF JobInv, JobTypes, Returns, Stages, ResultsOf, Statuses
  <1>2. \A i \in Jobs : /\ at'[i] = IF i = j THEN "done" ELSE at[i]
                        /\ result'[i] = IF i = j THEN status ELSE result[i]
    BY DEF JobInv, JobTypes, Returns
  <1>3. JobsAreSound'
    BY <1>2 DEF JobInv, JobsAreSound, Returns, StagesOf
  <1>4. QED
    BY <1>1, <1>3 DEF JobInv, SessionsHoldTheirPath, Returns

\* A job starts, of a path its session holds.
LEMMA StartKeepsJobs ==
    ASSUME JobInv, NEW j \in Jobs, NEW path \in Paths \union {NoPath}, JobStart(j, path),
           IF j \in Sessions THEN path \in Paths /\ chosen' = [chosen EXCEPT ![j] = path]
                             ELSE UNCHANGED chosen,
           chosen \in [Sessions -> Paths \union {NoPath}]
    PROVE  JobInv'
  <1> USE CaptureSessionsAssumption
  <1>1. jobs + 1 \in 1..MaxJobs /\ jobs' = jobs + 1 /\ jobs \in Nat
    BY DEF JobInv, JobTypes, JobStart
  <1>2. JobTypes'
    BY <1>1 DEF JobInv, JobTypes, JobStart, Stages, Statuses
  <1>3. \A i \in Jobs : /\ job'[i] = IF i = j THEN jobs + 1 ELSE job[i]
                        /\ cancel'[i] = IF i = j THEN FALSE ELSE cancel[i]
                        /\ given'[i] = IF i = j THEN path ELSE given[i]
                        /\ at'[i] = IF i = j THEN "opening" ELSE at[i]
                        /\ result'[i] = IF i = j THEN "None" ELSE result[i]
    BY DEF JobInv, JobTypes, JobStart
  <1>4. \A i \in Jobs : job[i] \in Nat
    BY DEF JobInv, JobTypes
  <1>5. JobsAreSound'
    <2>1. "opening" \in StagesOf(j)
      BY DEF StagesOf
    <2>2. \A i \in Jobs : job[i] <= jobs => job[i] <= jobs'
      BY <1>1, <1>4
    <2>3. jobs + 1 # 0 /\ jobs + 1 <= jobs'
      BY <1>1
    <2>4. QED
      BY <1>3, <2>1, <2>2, <2>3 DEF JobInv, JobsAreSound
  <1>6. SessionsHoldTheirPath'
    <2>1. \A s \in Sessions : s \in Jobs
      BY DEF Sessions, Jobs
    <2>2. \A s \in Sessions : chosen'[s] = IF s = j THEN path ELSE chosen[s]
      OBVIOUS
    <2>3. QED
      BY <1>3, <2>1, <2>2 DEF JobInv, SessionsHoldTheirPath
  <1>7. QED
    BY <1>2, <1>5, <1>6 DEF JobInv

\* A job is forgotten, and its cancel flag with it.
LEMMA ForgetKeepsJobs ==
    ASSUME JobInv, NEW j \in Jobs, ForgetJob(j), UNCHANGED chosen,
           cancel' \in [Jobs -> BOOLEAN], \A k \in Jobs : cancel'[k] => k # j /\ job[k] # 0
    PROVE  JobInv'
  <1>1. JobTypes'
    <2>1. 0 \in 0..MaxJobs
      BY CaptureSessionsAssumption
    <2>2. QED
      BY <2>1 DEF JobInv, JobTypes, ForgetJob, Stages, Statuses
  <1>2. \A k \in Jobs : /\ job'[k] = IF k = j THEN 0 ELSE job[k]
                        /\ given'[k] = IF k = j THEN NoPath ELSE given[k]
                        /\ at'[k] = IF k = j THEN "none" ELSE at[k]
                        /\ result'[k] = IF k = j THEN "None" ELSE result[k]
    BY DEF JobInv, JobTypes, ForgetJob
  <1>3. JobsAreSound'
    BY <1>2 DEF JobInv, JobsAreSound, ForgetJob
  <1>4. SessionsHoldTheirPath'
    <2>1. \A s \in Sessions : s \in Jobs
      BY DEF Sessions, Jobs
    <2>2. QED
      BY <1>2, <2>1 DEF JobInv, SessionsHoldTheirPath
  <1>5. QED
    BY <1>1, <1>3, <1>4 DEF JobInv

\* BackgroundJob::finish is such a step.
LEMMA FinishKeepsJobs ==
    ASSUME JobInv, NEW j \in Jobs, Finish(j), UNCHANGED chosen
    PROVE  JobInv'
  <1>1. cancel' \in [Jobs -> BOOLEAN]
    BY DEF Finish, JobInv, JobTypes
  <1>2. \A k \in Jobs : cancel'[k] => k # j /\ job[k] # 0
    BY DEF Finish, JobInv, JobTypes, JobsAreSound
  <1>3. QED
    BY <1>1, <1>2, ForgetKeepsJobs DEF Finish

\* A job that runs is asked to stop.
LEMMA CancelKeepsJobs ==
    ASSUME JobInv, NEW j \in Jobs, NEW flag \in BOOLEAN, flag => job[j] # 0,
           cancel' = [cancel EXCEPT ![j] = flag],
           UNCHANGED <<jobs, job, given, at, result, chosen>>
    PROVE  JobInv'
  <1>1. JobTypes'
    BY DEF JobInv, JobTypes
  <1>2. \A k \in Jobs : cancel'[k] = IF k = j THEN flag ELSE cancel[k]
    BY DEF JobInv, JobTypes
  <1>3. QED
    BY <1>1, <1>2 DEF JobInv, JobsAreSound, SessionsHoldTheirPath

-----------------------------------------------------------------------------
(* What the steps keep of the types of the rest.                           *)

\* A step that touches nothing of the UI thread's.
LEMMA UiKept ==
    ASSUME UiTypes, DialogTypes, UNCHANGED uiVars, hostAsked' \in BOOLEAN
    PROVE  UiTypes' /\ DialogTypes'
  BY DEF UiTypes, DialogTypes, uiVars

\* A step that writes, removes, posts and opens nothing.
LEMMA DiskKept ==
    ASSUME DiskTypes, UNCHANGED <<diskVars, posted, opened, kept>>
    PROVE  DiskTypes'
  BY DEF DiskTypes, diskVars

\* A step that touches neither the jobs nor what the sessions hold.
LEMMA JobsKept ==
    ASSUME JobInv, UNCHANGED <<jobVars, chosen>>
    PROVE  JobInv'
  BY DEF JobInv, JobTypes, JobsAreSound, SessionsHoldTheirPath, jobVars

\* The dialogs behind the one in front leave room for another.
LEMMA BehindTypes ==
    ASSUME DialogTypes, dialogs # <<>>
    PROVE  /\ Behind \in Seq({"openFile", "confirm", "exportFile"})
           /\ Len(Behind) \in Nat /\ Len(Behind) < MaxDialogs /\ Len(Behind) <= MaxDialogs
  BY CaptureSessionsAssumption DEF DialogTypes, Behind

\* A dialog goes from the front of a stack that has room.
LEMMA AppendTypes ==
    ASSUME NEW ds \in Seq({"openFile", "confirm", "exportFile"}), Len(ds) < MaxDialogs,
           NEW d \in {"openFile", "confirm", "exportFile"}, dialogs' = Append(ds, d)
    PROVE  DialogTypes'
  BY CaptureSessionsAssumption DEF DialogTypes

\* A worker that is somewhere works for a job that runs.
LEMMA WorkerRuns ==
    ASSUME JobInv, NEW j \in Jobs, at[j] # "none"
    PROVE  job[j] # 0 /\ job[j] \in 1..MaxJobs
  BY CaptureSessionsAssumption DEF JobInv, JobTypes, JobsAreSound

\* A worker drops what it wrote.
LEMMA DropTypes ==
    ASSUME DiskTypes, NEW j \in Jobs, DropOutput(j), UNCHANGED <<posted, opened, kept>>
    PROVE  DiskTypes'
  BY DEF DiskTypes, DropOutput

\* What settle() leaves is among what was there.
LEMMA SettledTypes ==
    ASSUME DiskTypes, NEW s \in Sessions
    PROVE  Settled(s) \subseteq 1..MaxJobs
  BY DEF DiskTypes, Settled

-----------------------------------------------------------------------------
(* Every step keeps the types.                                             *)

\* What is not refused is not under way (activity.cpp).
LEMMA IdleUnlessRefused ==
    ASSUME NEW s \in Sessions, refusal(s) = "None"
    PROVE  ~isBusy(s) /\ (s = "conversion" => ~capturing)
  BY DEF Sessions, refusal, activityRefusal, runningActivities

\* A session starts, or is refused.
LEMMA StartTypes ==
    ASSUME TypeInv, BusyWhileJobRuns, Listening, NEW s \in Sessions, NEW path \in Paths,
           SessionStart(s, path), dialogs # <<>>, dialogs' = Behind
    PROVE  TypeInv'
  <1>1. s \in Jobs
    BY DEF Sessions, Jobs
  <1>2. DiskTypes' /\ DialogTypes'
    BY DiskKept, BehindTypes DEF TypeInv, SessionStart, DialogTypes
  <1>3. CASE refusal(s) # "None"
    <2>1. UNCHANGED <<state, chosen, outcome, jobVars>>
      BY <1>3 DEF SessionStart
    <2>2. JobInv'
      BY <2>1, JobsKept DEF TypeInv
    <2>3. UiTypes'
      BY <2>1 DEF TypeInv, UiTypes, SessionStart
    <2>4. QED
      BY <1>2, <2>2, <2>3 DEF TypeInv
  <1>4. CASE refusal(s) = "None"
    <2>1. /\ chosen' = [chosen EXCEPT ![s] = path]
          /\ outcome' = [outcome EXCEPT ![s] = NoOutcome]
          /\ state' = [state EXCEPT ![s] = "Running"]
          /\ IF isRunning(s) THEN UNCHANGED jobVars ELSE JobStart(s, path)
      BY <1>4 DEF SessionStart
    <2>2. UiTypes'
      BY <2>1 DEF TypeInv, UiTypes, SessionStart
    <2>3. JobInv'
      <3>1. ~isRunning(s)
        BY <1>4, IdleUnlessRefused DEF BusyWhileJobRuns, Listening, isBusy
      <3>2. JobStart(s, path)
        BY <2>1, <3>1
      <3>3. chosen \in [Sessions -> Paths \union {NoPath}]
        BY DEF TypeInv, UiTypes
      <3>4. QED
        BY <1>1, <2>1, <3>2, <3>3, StartKeepsJobs DEF TypeInv
    <2>4. QED
      BY <1>2, <2>2, <2>3 DEF TypeInv
  <1>5. QED
    BY <1>3, <1>4

\* A session tells the path it holds.
LEMMA DeliveredTypes ==
    ASSUME TypeInv, NEW s \in Sessions, Delivered(s), opened' \subseteq 1..MaxJobs
    PROVE  TypeInv'
  <1>1. s \in Jobs /\ at[s] = "done" /\ job[s] # 0
    BY DEF Sessions, Jobs, Delivered, isRunning
  <1>2. JobInv'
    BY <1>1, FinishKeepsJobs DEF TypeInv, Delivered
  <1>3. DialogTypes'
    BY DEF TypeInv, DialogTypes, Delivered
  <1>4. DiskTypes'
    BY SettledTypes DEF TypeInv, DiskTypes, Delivered
  <1>5. UiTypes'
    <2>1. result[s] \in ResultsOf(s)
      BY <1>1 DEF TypeInv, JobInv, JobsAreSound
    <2>2. settle(s) \in Statuses \ {"None"}
      BY <2>1 DEF settle, Statuses, ResultsOf
    <2>3. chosen[s] \in Paths /\ given[s] \in Paths /\ job[s] \in 1..MaxJobs
      BY <1>1, WorkerRuns DEF TypeInv, JobInv, SessionsHoldTheirPath
    <2>4. [status |-> settle(s), path |-> chosen[s], id |-> job[s], given |-> given[s]]
            \in Outcome
      BY <2>2, <2>3 DEF Outcome
    <2>5. QED
      BY <2>4 DEF TypeInv, UiTypes, Delivered
  <1>6. QED
    BY <1>2, <1>3, <1>4, <1>5 DEF TypeInv

\* A worker goes on to a stage of its kind, or returns a result of its kind.
LEMMA WorkerTypes ==
    ASSUME TypeInv, NEW j \in Jobs, at[j] # "none", WorkerStep, DiskTypes',
           \/ \E stage \in StagesOf(j) \ {"done"} : Goes(j, stage)
           \/ \E status \in ResultsOf(j) : Returns(j, status)
    PROVE  TypeInv'
  <1>1. UNCHANGED chosen /\ job[j] # 0
    BY WorkerRuns DEF WorkerStep, uiVars, TypeInv
  <1>2. JobInv'
    BY <1>1, GoesKeepsJobs, ReturnsKeepsJobs DEF TypeInv
  <1>3. UiTypes' /\ DialogTypes'
    BY UiKept DEF TypeInv, WorkerStep, UiTypes
  <1>4. QED
    BY <1>2, <1>3 DEF TypeInv

\* The host is answered, or its conversion goes on.
LEMMA HostTypes ==
    ASSUME TypeInv, UNCHANGED <<uiVars, hostAsked>>, at["host"] # "none", DiskTypes',
           \/ \E stage \in StagesOf("host") \ {"done"} : Goes("host", stage)
           \/ HostAnswer
    PROVE  TypeInv'
  <1>1. "host" \in Jobs /\ UNCHANGED chosen
    BY DEF Jobs, uiVars
  <1>2. job["host"] # 0
    BY <1>1, WorkerRuns DEF TypeInv
  <1>3. JobInv'
    BY <1>1, <1>2, GoesKeepsJobs, FinishKeepsJobs DEF TypeInv, HostAnswer
  <1>4. UiTypes' /\ DialogTypes'
    BY UiKept DEF TypeInv, UiTypes
  <1>5. QED
    BY <1>3, <1>4 DEF TypeInv

\* Every step keeps the types, of sessions that agree with their jobs.
LEMMA TypeStep ==
    ASSUME TypeInv, BusyWhileJobRuns, [Next]_vars
    PROVE  TypeInv'
  <1> USE DEF TypeInv
  <1>1. CASE AskFile
    <2>1. JobInv'
      BY <1>1, JobsKept DEF AskFile, Ask, OnlyDialogs
    <2>2. DialogTypes'
      BY <1>1, AppendTypes DEF AskFile, Ask, DialogTypes
    <2>3. UiTypes'
      BY <1>1 DEF AskFile, Ask, OnlyDialogs, UiTypes
    <2>4. DiskTypes'
      BY <1>1, DiskKept DEF AskFile, Ask, OnlyDialogs
    <2>5. QED
      BY <2>1, <2>2, <2>3, <2>4
  <1>2. CASE AskPackets
    <2>1. JobInv'
      BY <1>2, JobsKept DEF AskPackets, Ask, OnlyDialogs
    <2>2. DialogTypes'
      BY <1>2, AppendTypes DEF AskPackets, Ask, DialogTypes
    <2>3. UiTypes'
      BY <1>2 DEF AskPackets, Ask, OnlyDialogs, UiTypes
    <2>4. DiskTypes'
      BY <1>2, DiskKept DEF AskPackets, Ask, OnlyDialogs
    <2>5. QED
      BY <2>1, <2>2, <2>3, <2>4
  <1>3. CASE DialogReturns
    <2>1. JobInv'
      BY <1>3, JobsKept DEF DialogReturns, OnlyDialogs
    <2>2. DialogTypes'
      BY <1>3, BehindTypes DEF DialogReturns, DialogTypes
    <2>3. UiTypes'
      BY <1>3 DEF DialogReturns, OnlyDialogs, UiTypes
    <2>4. DiskTypes'
      BY <1>3, DiskKept DEF DialogReturns, OnlyDialogs
    <2>5. QED
      BY <2>1, <2>2, <2>3, <2>4
  <1>4. CASE Confirmed
    <2>1. JobInv'
      BY <1>4, JobsKept DEF Confirmed, OnlyDialogs
    <2>2. DialogTypes'
      BY <1>4, BehindTypes, AppendTypes DEF Confirmed
    <2>3. UiTypes'
      BY <1>4 DEF Confirmed, OnlyDialogs, UiTypes
    <2>4. DiskTypes'
      BY <1>4, DiskKept DEF Confirmed, OnlyDialogs
    <2>5. QED
      BY <2>1, <2>2, <2>3, <2>4
  <1>5. ASSUME NEW path \in Paths, FileChosen(path) PROVE TypeInv'
    BY <1>5, StartTypes DEF FileChosen, Sessions
  <1>6. ASSUME NEW path \in Paths, ExportFileChosen(path) PROVE TypeInv'
    BY <1>6, StartTypes DEF ExportFileChosen, Sessions
  <1>7. ASSUME NEW s \in Sessions, Cancel(s) PROVE TypeInv'
    <2>1. JobInv'
      <3>1. s \in Jobs /\ job[s] # 0
        BY <1>7 DEF Sessions, Jobs, Cancel, BusyWhileJobRuns, Listening, isBusy, isRunning
      <3>2. QED
        BY <1>7, <3>1, CancelKeepsJobs DEF Cancel
    <2>2. DialogTypes'
      BY <1>7 DEF Cancel, DialogTypes
    <2>3. UiTypes'
      BY <1>7 DEF Cancel, UiTypes
    <2>4. DiskTypes'
      BY <1>7, DiskKept DEF Cancel
    <2>5. QED
      BY <2>1, <2>2, <2>3, <2>4
  <1>8. CASE ConversionFinished
    <2>1. job["conversion"] \in 1..MaxJobs
      BY <1>8, WorkerRuns DEF ConversionFinished, Delivered, Jobs, Sessions
    <2>2. opened' \subseteq 1..MaxJobs
      BY <1>8, <2>1 DEF ConversionFinished, DiskTypes
    <2>3. QED
      BY <1>8, <2>2, DeliveredTypes DEF ConversionFinished, Sessions
  <1>9. CASE ExportFinished
    BY <1>9, DeliveredTypes DEF ExportFinished, Sessions, DiskTypes
  <1>10. CASE LiveStarts
    <2>1. JobInv'
      BY <1>10, JobsKept DEF LiveStarts
    <2>2. DialogTypes'
      BY <1>10 DEF LiveStarts, DialogTypes
    <2>3. UiTypes'
      BY <1>10 DEF LiveStarts, UiTypes
    <2>4. DiskTypes'
      BY <1>10, DiskKept DEF LiveStarts
    <2>5. QED
      BY <2>1, <2>2, <2>3, <2>4
  <1>11. CASE LiveEnds
    <2>1. JobInv'
      BY <1>11, JobsKept DEF LiveEnds
    <2>2. DialogTypes'
      BY <1>11 DEF LiveEnds, DialogTypes
    <2>3. UiTypes'
      BY <1>11 DEF LiveEnds, UiTypes
    <2>4. DiskTypes'
      BY <1>11, DiskKept DEF LiveEnds
    <2>5. QED
      BY <2>1, <2>2, <2>3, <2>4
  <1>12. ASSUME NEW j \in Jobs, SeeCancel(j) PROVE TypeInv'
    <2>1. DiskTypes'
      BY <1>12, DropTypes DEF SeeCancel, WorkerStep, uiVars
    <2>2. QED
      BY <1>12, <2>1, WorkerTypes DEF SeeCancel, ResultsOf
  <1>13. ASSUME NEW j \in Jobs, Fail(j) PROVE TypeInv'
    <2>1. DiskTypes'
      BY <1>13, DropTypes DEF Fail, WorkerStep, uiVars
    <2>2. QED
      BY <1>13, <2>1, WorkerTypes DEF Fail, ResultsOf
  <1>14. ASSUME NEW j \in Jobs, WriteLast(j) PROVE TypeInv'
    <2>1. DiskTypes'
      BY <1>14, DiskKept DEF WriteLast, WorkerStep, uiVars
    <2>2. QED
      BY <1>14, <2>1, WorkerTypes DEF WriteLast, StagesOf, Converts, Jobs, Sessions
  <1>15. ASSUME NEW j \in Jobs, OpenConversion(j) PROVE TypeInv'
    <2>1. DiskTypes'
      BY <1>15, WorkerRuns DEF OpenConversion, WorkerStep, uiVars, DiskTypes
    <2>2. QED
      BY <1>15, <2>1, WorkerTypes DEF OpenConversion, StagesOf
  <1>16. ASSUME NEW j \in Jobs, j \in Converts, ApplyCancel(j) PROVE TypeInv'
    <2>1. DiskTypes'
      BY <1>16, DropTypes, DiskKept DEF ApplyCancel, WorkerStep, uiVars
    <2>2. QED
      BY <1>16, <2>1, WorkerTypes DEF ApplyCancel, ResultsOf, Converts
  <1>17. CASE OpenExport
    <2>1. "export" \in Jobs
      BY DEF Jobs, Sessions
    <2>2. DiskTypes'
      BY <1>17, <2>1, WorkerRuns DEF OpenExport, WorkerStep, uiVars, DiskTypes
    <2>3. QED
      BY <1>17, <2>1, <2>2, WorkerTypes DEF OpenExport, StagesOf
  <1>18. CASE EndExport
    <2>1. "export" \in Jobs
      BY DEF Jobs, Sessions
    <2>2. DiskTypes'
      BY <1>18, <2>1, DropTypes, DiskKept DEF EndExport, WorkerStep, uiVars
    <2>3. QED
      BY <1>18, <2>1, <2>2, WorkerTypes DEF EndExport, ResultsOf, StagesOf
  <1>19. CASE Commit
    <2>1. "export" \in Jobs
      BY DEF Jobs, Sessions
    <2>2. job["export"] \in 1..MaxJobs /\ given["export"] \in Paths
      BY <1>19, <2>1, WorkerRuns DEF Commit, JobInv, SessionsHoldTheirPath, Sessions
    <2>3. DiskTypes'
      <3>1. written' \subseteq Paths \X (1..MaxJobs)
        BY <1>19, <2>2 DEF Commit, DiskTypes
      <3>2. QED
        BY <1>19, <3>1 DEF Commit, WorkerStep, uiVars, DiskTypes
    <2>4. QED
      BY <1>19, <2>1, <2>3, WorkerTypes DEF Commit, ResultsOf
  <1>20. CASE HostConvert
    <2>1. JobInv'
      BY <1>20, StartKeepsJobs DEF HostConvert, Jobs, Sessions, UiTypes, uiVars
    <2>2. DialogTypes'
      BY <1>20, UiKept DEF HostConvert
    <2>3. UiTypes'
      BY <1>20, UiKept DEF HostConvert
    <2>4. DiskTypes'
      BY <1>20, DiskKept DEF HostConvert, uiVars
    <2>5. QED
      BY <2>1, <2>2, <2>3, <2>4
  <1>21. CASE HostCancel
    <2>1. JobInv'
      BY <1>21, JobsKept DEF HostCancel, uiVars
    <2>2. DialogTypes'
      BY <1>21, UiKept DEF HostCancel
    <2>3. UiTypes'
      BY <1>21, UiKept DEF HostCancel
    <2>4. DiskTypes'
      BY <1>21, DiskKept DEF HostCancel, uiVars
    <2>5. QED
      BY <2>1, <2>2, <2>3, <2>4
  <1>22. CASE CarryCancel
    <2>1. JobInv'
      <3>1. "host" \in Jobs
        BY DEF Jobs
      <3>2. job["host"] # 0
        BY <1>22, <3>1, WorkerRuns DEF CarryCancel
      <3>3. QED
        BY <1>22, <3>1, <3>2, CancelKeepsJobs DEF CarryCancel, uiVars
    <2>2. DialogTypes'
      BY <1>22, UiKept DEF CarryCancel, UiTypes
    <2>3. UiTypes'
      BY <1>22, UiKept DEF CarryCancel, UiTypes
    <2>4. DiskTypes'
      BY <1>22, DiskKept DEF CarryCancel, uiVars
    <2>5. QED
      BY <2>1, <2>2, <2>3, <2>4
  <1>23. CASE HostTakes
    <2>1. DiskTypes'
      BY <1>23 DEF HostTakes, HostRemoves, DiskTypes, uiVars, diskVars
    <2>2. QED
      BY <1>23, <2>1, HostTypes DEF HostTakes, StagesOf
  <1>24. CASE HostCopies
    <2>1. DiskTypes'
      BY <1>24 DEF HostCopies, HostRemoves, DiskTypes, uiVars, diskVars
    <2>2. QED
      BY <1>24, <2>1, HostTypes DEF HostCopies, StagesOf
  <1>25. CASE HostKeeps
    <2>1. job["host"] \in 1..MaxJobs
      BY <1>25, WorkerRuns DEF HostKeeps, Jobs
    <2>2. DiskTypes'
      BY <1>25, <2>1 DEF HostKeeps, DiskTypes, uiVars, diskVars
    <2>3. QED
      BY <1>25, <2>2, HostTypes DEF HostKeeps
  <1>26. ASSUME NEW id \in posted, KeepConverted(id) PROVE TypeInv'
    <2>1. JobInv'
      BY <1>26, JobsKept DEF KeepConverted
    <2>2. DialogTypes'
      BY <1>26 DEF KeepConverted, DialogTypes
    <2>3. UiTypes'
      BY <1>26 DEF KeepConverted, UiTypes
    <2>4. DiskTypes'
      BY <1>26 DEF KeepConverted, DiskTypes, diskVars
    <2>5. QED
      BY <2>1, <2>2, <2>3, <2>4
  <1>27. CASE Shutdown
    <2>1. JobInv'
      BY <1>27, JobsKept DEF Shutdown
    <2>2. DialogTypes'
      BY <1>27 DEF Shutdown, DialogTypes
    <2>3. UiTypes'
      BY <1>27 DEF Shutdown, UiTypes
    <2>4. DiskTypes'
      BY <1>27, DiskKept DEF Shutdown
    <2>5. QED
      BY <2>1, <2>2, <2>3, <2>4
  <1>28. CASE CloseLive
    <2>1. JobInv'
      BY <1>28, CancelKeepsJobs DEF CloseLive, CancelJob, isRunning, Jobs, Sessions
    <2>2. DialogTypes'
      BY <1>28 DEF CloseLive, DialogTypes
    <2>3. UiTypes'
      BY <1>28 DEF CloseLive, UiTypes
    <2>4. DiskTypes'
      BY <1>28, DiskKept DEF CloseLive
    <2>5. QED
      BY <2>1, <2>2, <2>3, <2>4
  <1>29. CASE CloseConversion
    <2>1. JobInv'
      <3>1. "conversion" \in Jobs
        BY DEF Jobs, Sessions
      <3>2. cancel' \in [Jobs -> BOOLEAN]
        BY <1>29 DEF CloseConversion, JobInv, JobTypes, isRunning
      <3>3. \A k \in Jobs : cancel'[k] => k # "conversion" /\ job[k] # 0
        BY <1>29 DEF CloseConversion, JobInv, JobTypes, JobsAreSound, isRunning
      <3>4. QED
        BY <1>29, <3>1, <3>2, <3>3, ForgetKeepsJobs DEF CloseConversion
    <2>2. DialogTypes'
      BY <1>29 DEF CloseConversion, DialogTypes
    <2>3. UiTypes'
      BY <1>29 DEF CloseConversion, UiTypes
    <2>4. DiskTypes'
      BY <1>29, SettledTypes DEF CloseConversion, CancelledAndWaited, DiskTypes, Sessions
    <2>5. QED
      BY <2>1, <2>2, <2>3, <2>4
  <1>30. CASE CloseExport
    <2>1. JobInv'
      BY <1>30, FinishKeepsJobs DEF CloseExport, Jobs, Sessions
    <2>2. DialogTypes'
      BY <1>30 DEF CloseExport, DialogTypes
    <2>3. UiTypes'
      BY <1>30 DEF CloseExport, UiTypes
    <2>4. DiskTypes'
      BY <1>30, SettledTypes DEF CloseExport, CancelledAndWaited, DiskTypes, Sessions
    <2>5. QED
      BY <2>1, <2>2, <2>3, <2>4
  <1>31. CASE UNCHANGED vars
    <2>1. JobInv'
      BY <1>31, JobsKept DEF vars, jobVars
    <2>2. DialogTypes'
      BY <1>31 DEF vars, DialogTypes
    <2>3. UiTypes'
      BY <1>31 DEF vars, UiTypes
    <2>4. DiskTypes'
      BY <1>31, DiskKept DEF vars, diskVars
    <2>5. QED
      BY <2>1, <2>2, <2>3, <2>4
  <1>32. QED
    BY <1>1, <1>2, <1>3, <1>4, <1>5, <1>6, <1>7, <1>8, <1>9, <1>10, <1>11,
       <1>12, <1>13, <1>14, <1>15, <1>16, <1>17, <1>18, <1>19, <1>20, <1>21,
       <1>22, <1>23, <1>24, <1>25, <1>26, <1>27, <1>28, <1>29, <1>30, <1>31
    DEF Next, Worker, Host, Close, Done

-----------------------------------------------------------------------------
(* The sessions, their jobs and the shutdown agree.                        *)

\* A step of a worker or of the host changes no session.
LEMMA AgreeKept ==
    ASSUME AgreeInv, UNCHANGED <<sessions, keeper, state, capturing, posted>>,
           \A s \in Sessions : job'[s] = job[s] /\ cancel'[s] = cancel[s]
    PROVE  AgreeInv'
  BY DEF AgreeInv, BusyWhileJobRuns, ConversionExcludesCapture, ClosingInOrder, isBusy,
         isRunning, Sessions

\* A session starts, or is refused: it is busy with its job.
LEMMA StartAgrees ==
    ASSUME TypeInv, AgreeInv, Listening, NEW s \in Sessions, NEW path \in Paths,
           SessionStart(s, path)
    PROVE  AgreeInv'
  <1>1. CASE refusal(s) # "None"
    BY <1>1, AgreeKept DEF SessionStart, jobVars
  <1>2. CASE refusal(s) = "None"
    <2>1. ~isBusy(s) /\ ~isRunning(s) /\ (s = "conversion" => ~capturing)
      BY <1>2, IdleUnlessRefused DEF AgreeInv, BusyWhileJobRuns, Listening
    <2>2. JobStart(s, path) /\ state' = [state EXCEPT ![s] = "Running"]
      BY <1>2, <2>1 DEF SessionStart
    <2>3. jobs + 1 # 0 /\ \A i \in Sessions : i \in Jobs
      BY DEF TypeInv, JobInv, JobTypes, Sessions, Jobs
    <2>4. \A i \in Sessions : /\ job'[i] = IF i = s THEN jobs + 1 ELSE job[i]
                              /\ cancel'[i] = IF i = s THEN FALSE ELSE cancel[i]
                              /\ state'[i] = IF i = s THEN "Running" ELSE state[i]
      BY <2>2, <2>3 DEF JobStart, TypeInv, JobInv, JobTypes, UiTypes
    <2>5. BusyWhileJobRuns'
      BY <2>3, <2>4 DEF AgreeInv, BusyWhileJobRuns, isBusy, isRunning, SessionStart, Listening
    <2>6. ConversionExcludesCapture'
      BY <2>1, <2>4 DEF AgreeInv, ConversionExcludesCapture, isBusy, SessionStart, Sessions
    <2>7. ClosingInOrder'
      BY DEF AgreeInv, ClosingInOrder, SessionStart, Listening
    <2>8. QED
      BY <2>5, <2>6, <2>7 DEF AgreeInv
  <1>3. QED
    BY <1>1, <1>2

\* A result is delivered: the session is idle, and its job forgotten.
LEMMA DeliveredAgrees ==
    ASSUME TypeInv, AgreeInv, NEW s \in Sessions, Delivered(s)
    PROVE  AgreeInv'
  <1>1. \A i \in Sessions : i \in Jobs
    BY DEF Sessions, Jobs
  <1>2. \A i \in Sessions : /\ job'[i] = IF i = s THEN 0 ELSE job[i]
                            /\ cancel'[i] = IF i = s THEN FALSE ELSE cancel[i]
                            /\ state'[i] = IF i = s THEN "Idle" ELSE state[i]
    BY <1>1 DEF Delivered, Finish, ForgetJob, TypeInv, JobInv, JobTypes, UiTypes
  <1>3. BusyWhileJobRuns'
    <2>1. \A i \in Sessions : /\ state[i] # "Idle" <=> job[i] # 0
                              /\ state[i] = "Cancelling" <=> cancel[i]
      BY DEF AgreeInv, BusyWhileJobRuns, isBusy, isRunning, Delivered, Listening
    <2>2. \A i \in Sessions : /\ state'[i] # "Idle" <=> job'[i] # 0
                              /\ state'[i] = "Cancelling" <=> cancel'[i]
      BY <1>2, <2>1
    <2>3. QED
      BY <2>2 DEF BusyWhileJobRuns, isBusy, isRunning
  <1>4. ConversionExcludesCapture'
    BY <1>2 DEF AgreeInv, ConversionExcludesCapture, isBusy, Delivered, Sessions
  <1>5. ClosingInOrder'
    BY DEF AgreeInv, ClosingInOrder, Delivered, Listening
  <1>6. QED
    BY <1>3, <1>4, <1>5 DEF AgreeInv

\* Every step keeps the sessions, their jobs and the shutdown in agreement.
LEMMA AgreeStep ==
    ASSUME TypeInv, AgreeInv, [Next]_vars
    PROVE  AgreeInv'
  <1> USE DEF TypeInv
  <1>1. CASE AskFile
    BY <1>1, AgreeKept DEF AskFile, Ask, OnlyDialogs, jobVars
  <1>2. CASE AskPackets
    BY <1>2, AgreeKept DEF AskPackets, Ask, OnlyDialogs, jobVars
  <1>3. CASE DialogReturns
    BY <1>3, AgreeKept DEF DialogReturns, OnlyDialogs, jobVars
  <1>4. CASE Confirmed
    BY <1>4, AgreeKept DEF Confirmed, OnlyDialogs, jobVars
  <1>5. ASSUME NEW path \in Paths, FileChosen(path) PROVE AgreeInv'
    BY <1>5, StartAgrees DEF FileChosen, Sessions
  <1>6. ASSUME NEW path \in Paths, ExportFileChosen(path) PROVE AgreeInv'
    BY <1>6, StartAgrees DEF ExportFileChosen, Sessions
  <1>7. ASSUME NEW s \in Sessions, Cancel(s) PROVE AgreeInv'
    BY <1>7 DEF Cancel, JobInv, JobTypes, UiTypes,
           AgreeInv, BusyWhileJobRuns, ConversionExcludesCapture, ClosingInOrder, isBusy,
           isRunning, Sessions, Jobs, Listening
  <1>8. CASE ConversionFinished
    BY <1>8, DeliveredAgrees DEF ConversionFinished, Sessions
  <1>9. CASE ExportFinished
    BY <1>9, DeliveredAgrees DEF ExportFinished, Sessions
  <1>10. CASE LiveStarts
    BY <1>10 DEF LiveStarts, jobVars, activityRefusal, runningActivities,
           AgreeInv, BusyWhileJobRuns, ConversionExcludesCapture, ClosingInOrder, isBusy,
           isRunning, Sessions, Jobs, Listening
  <1>11. CASE LiveEnds
    BY <1>11 DEF LiveEnds, jobVars,
           AgreeInv, BusyWhileJobRuns, ConversionExcludesCapture, ClosingInOrder, isBusy,
           isRunning, Sessions, Jobs, Listening
  <1>12. ASSUME NEW j \in Jobs, SeeCancel(j) PROVE AgreeInv'
    BY <1>12, AgreeKept DEF SeeCancel, Returns, WorkerStep, uiVars
  <1>13. ASSUME NEW j \in Jobs, Fail(j) PROVE AgreeInv'
    BY <1>13, AgreeKept DEF Fail, Returns, WorkerStep, uiVars
  <1>14. ASSUME NEW j \in Jobs, WriteLast(j) PROVE AgreeInv'
    BY <1>14, AgreeKept DEF WriteLast, Goes, WorkerStep, uiVars
  <1>15. ASSUME NEW j \in Jobs, OpenConversion(j) PROVE AgreeInv'
    BY <1>15, AgreeKept DEF OpenConversion, Goes, WorkerStep, uiVars
  <1>16. ASSUME NEW j \in Jobs, ApplyCancel(j) PROVE AgreeInv'
    BY <1>16, AgreeKept DEF ApplyCancel, Returns, WorkerStep, uiVars
  <1>17. CASE OpenExport
    BY <1>17, AgreeKept DEF OpenExport, Goes, WorkerStep, uiVars
  <1>18. CASE EndExport
    BY <1>18, AgreeKept DEF EndExport, Goes, Returns, WorkerStep, uiVars
  <1>19. CASE Commit
    BY <1>19, AgreeKept DEF Commit, Returns, WorkerStep, uiVars
  <1>20. CASE HostConvert
    <2>1. \A s \in Sessions : s \in Jobs /\ s # "host"
      BY DEF Sessions, Jobs
    <2>2. QED
      BY <1>20, <2>1, AgreeKept DEF HostConvert, JobStart, JobInv, JobTypes, uiVars
  <1>21. CASE HostCancel
    BY <1>21, AgreeKept DEF HostCancel, uiVars, jobVars
  <1>22. CASE CarryCancel
    <2>1. \A s \in Sessions : s \in Jobs /\ s # "host"
      BY DEF Sessions, Jobs
    <2>2. QED
      BY <1>22, <2>1, AgreeKept DEF CarryCancel, JobInv, JobTypes, uiVars
  <1>23. CASE HostTakes
    <2>1. \A s \in Sessions : s \in Jobs /\ s # "host"
      BY DEF Sessions, Jobs
    <2>2. QED
      BY <1>23, <2>1, AgreeKept DEF HostTakes, HostAnswer, Finish, ForgetJob, Goes, JobInv,
         JobTypes, uiVars
  <1>24. CASE HostCopies
    <2>1. \A s \in Sessions : s \in Jobs /\ s # "host"
      BY DEF Sessions, Jobs
    <2>2. QED
      BY <1>24, <2>1, AgreeKept DEF HostCopies, HostAnswer, Finish, ForgetJob, Goes, JobInv,
         JobTypes, uiVars
  <1>25. CASE HostKeeps
    <2>1. \A s \in Sessions : s \in Jobs /\ s # "host"
      BY DEF Sessions, Jobs
    <2>2. \A s \in Sessions : job'[s] = job[s] /\ cancel'[s] = cancel[s]
      BY <1>25, <2>1 DEF HostKeeps, HostAnswer, Finish, ForgetJob, JobInv, JobTypes
    <2>3. QED
      BY <1>25, <2>2 DEF HostKeeps, uiVars,
         AgreeInv, BusyWhileJobRuns, ConversionExcludesCapture, ClosingInOrder, isBusy,
         isRunning, Sessions, Jobs, Listening
  <1>26. ASSUME NEW id \in posted, KeepConverted(id) PROVE AgreeInv'
    BY <1>26 DEF KeepConverted, jobVars,
           AgreeInv, BusyWhileJobRuns, ConversionExcludesCapture, ClosingInOrder, isBusy,
           isRunning, Sessions, Jobs, Listening
  <1>27. CASE Shutdown
    BY <1>27 DEF Shutdown, jobVars,
           AgreeInv, BusyWhileJobRuns, ConversionExcludesCapture, ClosingInOrder, isBusy,
           isRunning, Sessions, Jobs, Listening
  <1>28. CASE CloseLive
    BY <1>28 DEF CloseLive, CancelJob, JobInv, JobTypes,
           AgreeInv, BusyWhileJobRuns, ConversionExcludesCapture, ClosingInOrder, isBusy,
           isRunning, Sessions, Jobs, Listening
  <1>29. CASE CloseConversion
    BY <1>29 DEF CloseConversion, Finish, ForgetJob, JobInv, JobTypes, jobVars,
           AgreeInv, BusyWhileJobRuns, ConversionExcludesCapture, ClosingInOrder, isBusy,
           isRunning, Sessions, Jobs, Listening
  <1>30. CASE CloseExport
    BY <1>30 DEF CloseExport, Finish, ForgetJob, JobInv, JobTypes, jobVars,
           AgreeInv, BusyWhileJobRuns, ConversionExcludesCapture, ClosingInOrder, isBusy,
           isRunning, Sessions, Jobs, Listening
  <1>31. CASE UNCHANGED vars
    BY <1>31, AgreeKept DEF vars
  <1>32. QED
    BY <1>1, <1>2, <1>3, <1>4, <1>5, <1>6, <1>7, <1>8, <1>9, <1>10, <1>11,
       <1>12, <1>13, <1>14, <1>15, <1>16, <1>17, <1>18, <1>19, <1>20, <1>21,
       <1>22, <1>23, <1>24, <1>25, <1>26, <1>27, <1>28, <1>29, <1>30, <1>31
    DEF Next, Worker, Host, Close, Done

-----------------------------------------------------------------------------
(* What the workers write is where it belongs.                             *)

\* A step that touches no worker, no file and no outcome.
LEMMA OutputKept ==
    ASSUME OutputInv, UNCHANGED <<jobs, job, given, at, result, diskVars, opened, outcome>>
    PROVE  OutputInv'
  BY DEF OutputInv, NumbersAreOwn, WorkIsOnDisk, ConvertWork, ExportWork, NothingIsLeftBehind,
         OutcomeIsWhatHappened, diskVars

\* The number of a job that runs is told of no job that is over.
LEMMA ToldIsOver ==
    ASSUME TypeInv, NumbersAreOwn, NEW s \in Sessions, outcome[s].status # "None"
    PROVE  /\ outcome[s] \in Outcome /\ outcome[s].id \in 1..jobs
           /\ \A j \in Jobs : job[j] # outcome[s].id
  <1>1. outcome[s] \in Outcome
    BY DEF TypeInv, UiTypes, NoOutcome
  <1>2. outcome[s].id \in 1..MaxJobs
    BY <1>1 DEF Outcome
  <1>3. QED
    BY <1>1, <1>2, CaptureSessionsAssumption DEF NumbersAreOwn, TypeInv, JobInv, JobTypes

\* A step in which no job starts or ends, and only j may replace a file.
LEMMA NumbersKept ==
    ASSUME TypeInv, NumbersAreOwn, UNCHANGED <<jobs, job, opened, outcome>>, NEW j \in Jobs,
           \A p \in Paths, n \in 1..MaxJobs :
               <<p, n>> \in written' => <<p, n>> \in written \/ n = job[j]
    PROVE  NumbersAreOwn'
  <1>1. job[j] <= jobs
    BY DEF TypeInv, JobInv, JobTypes, JobsAreSound
  <1>2. \A p \in Paths, n \in 1..MaxJobs : <<p, n>> \in written' => n <= jobs
    BY <1>1 DEF NumbersAreOwn
  <1>3. QED
    BY <1>2 DEF NumbersAreOwn

\* What was told stays true while only what job j wrote changes.
LEMMA OutcomeKept ==
    ASSUME TypeInv, OutputInv, UNCHANGED <<outcome, opened>>, NEW j \in Jobs,
           \A n \in 1..MaxJobs : n # job[j] =>
               /\ n \in dirs' <=> n \in dirs
               /\ \A p \in Paths : <<p, n>> \in written' <=> <<p, n>> \in written
    PROVE  OutcomeIsWhatHappened'
  <1> SUFFICES ASSUME NEW s \in Sessions, outcome[s].status # "None"
               PROVE  LET o == outcome[s] IN
                      /\ o.path = o.given
                      /\ IF s = "export"
                           THEN /\ o.status = "Exported" <=>
                                      \E p \in Paths : <<p, o.id>> \in written'
                                /\ o.status = "Exported" => <<o.path, o.id>> \in written'
                           ELSE /\ o.status = "Converted" <=> o.id \in opened
                                /\ o.status = "Converted" <=> o.id \in dirs'
    BY DEF OutcomeIsWhatHappened
  <1>1. outcome[s].id \in 1..MaxJobs /\ outcome[s].path \in Paths /\ outcome[s].id # job[j]
    BY ToldIsOver DEF OutputInv, Outcome
  <1>2. QED
    BY <1>1 DEF OutputInv, OutcomeIsWhatHappened

\* A job starts: its number is new, and nothing is written in its name.
LEMMA StartOutput ==
    ASSUME TypeInv, OutputInv, NEW j \in Jobs, job[j] = 0, NEW path \in Paths \union {NoPath},
           JobStart(j, path), UNCHANGED <<diskVars, opened>>,
           \A s \in Sessions : outcome'[s] = outcome[s] \/ outcome'[s].status = "None"
    PROVE  OutputInv'
  <1> USE CaptureSessionsAssumption
  <1>1. jobs + 1 \in 1..MaxJobs /\ jobs' = jobs + 1 /\ jobs \in Nat
    BY DEF TypeInv, JobInv, JobTypes, JobStart
  <1>2. \A i \in Jobs : /\ job'[i] = IF i = j THEN jobs + 1 ELSE job[i]
                        /\ at'[i] = IF i = j THEN "opening" ELSE at[i]
                        /\ result'[i] = IF i = j THEN "None" ELSE result[i]
                        /\ given'[i] = IF i = j THEN path ELSE given[i]
    BY DEF TypeInv, JobInv, JobTypes, JobStart
  <1>3. \A i \in Jobs : job[i] \in Nat /\ job[i] <= jobs
    BY <1>1 DEF TypeInv, JobInv, JobTypes, JobsAreSound
  <1>4. UNCHANGED <<dirs, aside, written, opened>> /\ at[j] = "none"
    BY DEF diskVars, TypeInv, JobInv, JobsAreSound
  <1>5. NumbersAreOwn'
    <2>1. \A i, k \in Jobs : i # k /\ job'[i] # 0 => job'[i] # job'[k]
      BY <1>1, <1>2, <1>3 DEF OutputInv, NumbersAreOwn
    <2>2. opened \subseteq 1..jobs' /\ \A i \in Jobs : job'[i] \notin opened
      BY <1>1, <1>2, <1>3 DEF OutputInv, NumbersAreOwn
    <2>3. \A p \in Paths, n \in 1..MaxJobs : <<p, n>> \in written => n <= jobs'
      BY <1>1 DEF OutputInv, NumbersAreOwn
    <2>4. ASSUME NEW s \in Sessions, outcome'[s].status # "None"
          PROVE  outcome'[s].id <= jobs' /\ \A i \in Jobs : job'[i] # outcome'[s].id
      BY <1>1, <1>2, <1>3, <2>4, ToldIsOver DEF OutputInv
    <2>5. QED
      BY <1>4, <2>1, <2>2, <2>3, <2>4 DEF NumbersAreOwn
  <1>6. WorkIsOnDisk'
    <2>1. ExportWork'
      <3>1. CASE j = "export"
        <4>1. aside = {}
          BY <1>4, <3>1 DEF OutputInv, WorkIsOnDisk, ExportWork
        <4>2. \A p \in Paths : <<p, jobs + 1>> \notin written
          BY <1>1 DEF OutputInv, NumbersAreOwn
        <4>3. QED
          BY <1>2, <1>4, <3>1, <4>1, <4>2 DEF ExportWork
      <3>2. CASE j # "export"
        <4>1. /\ job'["export"] = job["export"] /\ at'["export"] = at["export"]
              /\ result'["export"] = result["export"] /\ given'["export"] = given["export"]
          BY <1>2, <3>2 DEF Jobs, Sessions
        <4>2. QED
          BY <1>4, <4>1 DEF OutputInv, WorkIsOnDisk, ExportWork
      <3>3. QED
        BY <3>1, <3>2
    <2>2. \A c \in Converts : c \in Jobs
      BY DEF Converts, Jobs, Sessions
    <2>3. \A c \in Converts : ConvertWork(c)'
      BY <1>2, <1>4, <2>2 DEF OutputInv, WorkIsOnDisk, ConvertWork
    <2>4. QED
      BY <2>1, <2>3 DEF WorkIsOnDisk
  <1>7. NothingIsLeftBehind'
    <2>1. \A c \in Converts : c \in Jobs /\ 0 \notin dirs
      BY DEF Converts, Jobs, Sessions, TypeInv, DiskTypes
    <2>2. dirs \subseteq opened \union {job'[c] : c \in Converts}
      BY <1>2, <2>1 DEF OutputInv, NothingIsLeftBehind
    <2>3. QED
      BY <1>4, <1>6, <2>2 DEF OutputInv, NothingIsLeftBehind, WorkIsOnDisk, ExportWork
  <1>8. OutcomeIsWhatHappened'
    BY <1>4 DEF OutputInv, OutcomeIsWhatHappened
  <1>9. QED
    BY <1>5, <1>6, <1>7, <1>8 DEF OutputInv

\* A job is forgotten: what it wrote has its tab, or is gone.
LEMMA ForgetOutput ==
    ASSUME TypeInv, OutputInv, NEW j \in Jobs, ForgetJob(j), UNCHANGED <<aside, written>>,
           j = "export" => at[j] \in {"none", "done"},
           \A n \in 1..MaxJobs : n # job[j] => (n \in dirs' <=> n \in dirs),
           dirs' \subseteq 1..MaxJobs,
           opened' = opened \/ (job[j] # 0 /\ opened' = opened \union {job[j]}),
           job[j] \in dirs' <=> job[j] \in opened',
           \A s \in Sessions : \/ outcome'[s] = outcome[s]
                               \/ s = j /\ job[j] # 0 /\ outcome'[s].id = job[j]
    PROVE  NumbersAreOwn' /\ WorkIsOnDisk' /\ NothingIsLeftBehind'
  <1>1. \A i \in Jobs : /\ job'[i] = IF i = j THEN 0 ELSE job[i]
                        /\ at'[i] = IF i = j THEN "none" ELSE at[i]
                        /\ result'[i] = IF i = j THEN "None" ELSE result[i]
                        /\ given'[i] = IF i = j THEN NoPath ELSE given[i]
    BY DEF TypeInv, JobInv, JobTypes, ForgetJob
  <1>2. \A i \in Jobs : /\ job[i] \in 0..MaxJobs /\ job[i] <= jobs
                        /\ i # j /\ job[i] # 0 => job[i] # job[j]
                        /\ job[i] = 0 => at[i] = "none"
    BY DEF TypeInv, JobInv, JobTypes, JobsAreSound, OutputInv, NumbersAreOwn
  <1>3. jobs' = jobs /\ jobs \in Nat
    BY CaptureSessionsAssumption DEF ForgetJob, TypeInv, JobInv, JobTypes
  <1>4. NumbersAreOwn'
    <2>1. \A i, k \in Jobs : i # k /\ job'[i] # 0 => job'[i] # job'[k]
      BY <1>1 DEF OutputInv, NumbersAreOwn
    <2>2. opened' \subseteq 1..jobs
      <3>1. job[j] # 0 => job[j] \in 1..jobs
        BY <1>2, <1>3
      <3>2. opened \subseteq 1..jobs
        BY DEF OutputInv, NumbersAreOwn
      <3>3. QED
        BY <3>1, <3>2
    <2>3. \A i \in Jobs : job'[i] \notin opened'
      <3>1. 0 \notin opened'
        BY <2>2
      <3>2. \A i \in Jobs : i # j => job[i] \notin opened'
        BY <1>2, <3>1 DEF OutputInv, NumbersAreOwn
      <3>3. QED
        BY <1>1, <3>1, <3>2
    <2>4. ASSUME NEW s \in Sessions, outcome'[s].status # "None"
          PROVE  outcome'[s].id <= jobs' /\ \A i \in Jobs : job'[i] # outcome'[s].id
      <3>1. CASE outcome'[s] = outcome[s]
        <4>1. outcome[s].id \in 1..jobs /\ \A i \in Jobs : job[i] # outcome[s].id
          BY <2>4, <3>1, ToldIsOver DEF OutputInv
        <4>2. QED
          BY <1>1, <1>3, <3>1, <4>1
      <3>2. CASE s = j /\ job[j] # 0 /\ outcome'[s].id = job[j]
        BY <1>1, <1>2, <1>3, <3>2
      <3>3. QED
        BY <3>1, <3>2
    <2>5. QED
      BY <1>3, <2>1, <2>2, <2>3, <2>4 DEF OutputInv, NumbersAreOwn
  <1>5. WorkIsOnDisk'
    <2>1. ExportWork'
      <3>1. CASE j = "export"
        BY <1>1, <3>1 DEF OutputInv, WorkIsOnDisk, ExportWork
      <3>2. CASE j # "export"
        <4>1. /\ job'["export"] = job["export"] /\ at'["export"] = at["export"]
              /\ result'["export"] = result["export"] /\ given'["export"] = given["export"]
          BY <1>1, <3>2 DEF Jobs, Sessions
        <4>2. QED
          BY <4>1 DEF OutputInv, WorkIsOnDisk, ExportWork
      <3>3. QED
        BY <3>1, <3>2
    <2>2. ASSUME NEW c \in Converts PROVE ConvertWork(c)'
      <3>1. c \in Jobs
        BY DEF Converts, Jobs, Sessions
      <3>2. CASE c = j
        BY <1>1, <3>1, <3>2 DEF ConvertWork
      <3>3. CASE c # j
        <4>1. job'[c] = job[c] /\ at'[c] = at[c] /\ result'[c] = result[c]
          BY <1>1, <3>1, <3>3
        <4>2. at[c] # "none" => (job[c] \in dirs' <=> job[c] \in dirs)
          BY <1>2, <3>1, <3>3
        <4>3. QED
          BY <4>1, <4>2 DEF OutputInv, WorkIsOnDisk, ConvertWork
      <3>4. QED
        BY <3>2, <3>3
    <2>3. QED
      BY <2>1, <2>2 DEF WorkIsOnDisk
  <1>6. NothingIsLeftBehind'
    <2>1. opened' \subseteq dirs'
      <3>1. ASSUME NEW n \in opened' PROVE n \in dirs'
        BY DEF OutputInv, NothingIsLeftBehind, TypeInv, DiskTypes
      <3>2. QED
        BY <3>1
    <2>2. ASSUME NEW n \in dirs', n \notin opened' PROVE \E c \in Converts : n = job'[c]
      <3>1. n # job[j] /\ n \in dirs /\ n \notin opened
        BY <2>2
      <3>2. PICK c \in Converts : n = job[c]
        BY <3>1 DEF OutputInv, NothingIsLeftBehind
      <3>3. c \in Jobs
        BY DEF Converts, Jobs, Sessions
      <3>4. QED
        BY <1>1, <3>1, <3>2, <3>3
    <2>3. QED
      BY <1>5, <2>1, <2>2 DEF NothingIsLeftBehind, WorkIsOnDisk, ExportWork
  <1>7. QED
    BY <1>4, <1>5, <1>6

\* A worker takes a step: only what it wrote changes.
LEMMA WorkerOutput ==
    ASSUME TypeInv, OutputInv, DiskTypes', NEW j \in Jobs, job[j] # 0,
           UNCHANGED <<jobs, job, given, opened, outcome>>,
           \A i \in Jobs : i # j => at'[i] = at[i] /\ result'[i] = result[i],
           \A n \in 1..MaxJobs : n # job[j] => (n \in dirs' <=> n \in dirs),
           \A p \in Paths, n \in 1..MaxJobs :
               n # job[j] => (<<p, n>> \in written' <=> <<p, n>> \in written),
           j = "export" => ExportWork' /\ job[j] \notin dirs',
           j \in Converts => ConvertWork(j)' /\ UNCHANGED <<aside, written>>
    PROVE  OutputInv'
  <1>1. NumbersAreOwn'
    BY NumbersKept DEF OutputInv
  <1>2. OutcomeIsWhatHappened'
    BY OutcomeKept
  <1>3. j = "export" \/ j \in Converts
    BY DEF Jobs, Sessions, Converts
  <1>4. WorkIsOnDisk'
    <2>1. ExportWork'
      <3>1. CASE j \in Converts
        <4>1. at'["export"] = at["export"] /\ result'["export"] = result["export"]
          BY <3>1 DEF Jobs, Sessions, Converts
        <4>2. QED
          BY <3>1, <4>1 DEF OutputInv, WorkIsOnDisk, ExportWork
      <3>2. QED
        BY <1>3, <3>1
    <2>2. ASSUME NEW c \in Converts PROVE ConvertWork(c)'
      <3>1. c \in Jobs
        BY DEF Converts, Jobs, Sessions
      <3>2. CASE c # j
        <4>1. at[c] # "none" => job[c] \in 1..MaxJobs /\ job[c] # job[j]
          BY <3>1, <3>2, WorkerRuns DEF TypeInv, OutputInv, NumbersAreOwn
        <4>2. QED
          BY <3>1, <3>2, <4>1 DEF OutputInv, WorkIsOnDisk, ConvertWork
      <3>3. QED
        BY <3>2
    <2>3. QED
      BY <2>1, <2>2 DEF WorkIsOnDisk
  <1>5. NothingIsLeftBehind'
    <2>1. opened \subseteq dirs'
      BY DEF OutputInv, NothingIsLeftBehind, NumbersAreOwn, TypeInv, DiskTypes
    <2>2. ASSUME NEW n \in dirs', n \notin opened PROVE \E c \in Converts : n = job[c]
      <3>1. CASE n = job[j]
        BY <1>3, <3>1
      <3>2. CASE n # job[j]
        <4>1. n \in dirs
          BY <3>2 DEF DiskTypes
        <4>2. QED
          BY <2>2, <4>1 DEF OutputInv, NothingIsLeftBehind
      <3>3. QED
        BY <3>1, <3>2
    <2>3. QED
      BY <1>4, <2>1, <2>2 DEF NothingIsLeftBehind, WorkIsOnDisk, ExportWork
  <1>6. QED
    BY <1>1, <1>2, <1>4, <1>5 DEF OutputInv

\* A session starts a job, or is refused.
LEMMA SessionStartOutput ==
    ASSUME TypeInv, AgreeInv, OutputInv, Listening, NEW s \in Sessions, NEW path \in Paths,
           SessionStart(s, path)
    PROVE  OutputInv'
  <1>1. CASE refusal(s) # "None"
    BY <1>1, OutputKept DEF SessionStart, jobVars
  <1>2. CASE refusal(s) = "None"
    <2>1. s \in Jobs /\ job[s] = 0
      BY <1>2, IdleUnlessRefused DEF AgreeInv, BusyWhileJobRuns, Listening, isRunning,
         Sessions,
         Jobs
    <2>2. JobStart(s, path) /\ outcome' = [outcome EXCEPT ![s] = NoOutcome]
      BY <1>2, <2>1 DEF SessionStart, isRunning
    <2>3. \A i \in Sessions : outcome'[i] = outcome[i] \/ outcome'[i].status = "None"
      BY <2>2 DEF TypeInv, UiTypes, NoOutcome
    <2>4. QED
      BY <2>1, <2>2, <2>3, StartOutput DEF SessionStart
  <1>3. QED
    BY <1>1, <1>2

\* The number of an export names no directory.
LEMMA ExportHasNoDirectory ==
    ASSUME TypeInv, OutputInv
    PROVE  job["export"] \notin dirs /\ job["export"] \notin opened
  <1>1. "export" \in Jobs /\ "export" \notin Converts /\ \A c \in Converts : c \in Jobs
    BY DEF Jobs, Sessions, Converts
  <1>2. 0 \notin dirs
    BY DEF TypeInv, DiskTypes
  <1>3. QED
    BY <1>1, <1>2 DEF OutputInv, NothingIsLeftBehind, NumbersAreOwn

\* What settle() leaves of a job that is done is what its outcome says.
LEMMA SettledOutput ==
    ASSUME TypeInv, OutputInv, NEW s \in Sessions, at[s] \in {"none", "done"}
    PROVE  /\ \A n \in 1..MaxJobs : n # job[s] => (n \in Settled(s) <=> n \in dirs)
           /\ Settled(s) \subseteq 1..MaxJobs
           /\ at[s] = "none" => job[s] \notin Settled(s)
           /\ s = "conversion" /\ at[s] = "done" =>
                  (job[s] \in Settled(s) <=> settle(s) = "Converted")
           /\ s = "export" => job[s] \notin Settled(s)
  <1>1. /\ \A n \in 1..MaxJobs : n # job[s] => (n \in Settled(s) <=> n \in dirs)
        /\ Settled(s) \subseteq dirs /\ Settled(s) \subseteq 1..MaxJobs
    BY SettledTypes DEF Settled, TypeInv
  <1>2. at[s] = "none" => job[s] \notin Settled(s)
    <2>1. ASSUME at[s] = "none" PROVE job[s] = 0
      BY <2>1 DEF TypeInv, JobInv, JobsAreSound, StagesOf, Sessions, Jobs
    <2>2. QED
      BY <1>1, <2>1
  <1>3. s = "export" => job[s] \notin Settled(s)
    BY <1>1, ExportHasNoDirectory
  <1>4. s = "conversion" /\ at[s] = "done" =>
            (job[s] \in Settled(s) <=> settle(s) = "Converted")
    <2>1. s = "conversion" /\ at[s] = "done" =>
              (job[s] \in dirs <=> result[s] = "Converted") /\ result[s] # "Exported"
      BY DEF OutputInv, WorkIsOnDisk, ConvertWork, Converts, TypeInv, JobInv, JobsAreSound,
         ResultsOf, Jobs, Sessions
    <2>2. QED
      BY <2>1 DEF Settled, settle
  <1>5. QED
    BY <1>1, <1>2, <1>3, <1>4

\* A result is delivered: the session tells what happened.
LEMMA DeliveredOutput ==
    ASSUME TypeInv, OutputInv, NEW s \in Sessions, Delivered(s),
           opened' = IF s = "conversion" /\ settle(s) = "Converted"
                     THEN opened \union {job[s]} ELSE opened
    PROVE  OutputInv'
  <1>1. s \in Jobs /\ at[s] = "done" /\ job[s] # 0 /\ job[s] \in 1..MaxJobs
    BY WorkerRuns DEF Sessions, Jobs, Delivered, TypeInv
  <1>2. ForgetJob(s) /\ dirs' = Settled(s) /\ UNCHANGED <<aside, written>>
    BY DEF Delivered, Finish
  <1>3. job[s] \notin opened /\ s \in {"conversion", "export"}
    BY <1>1 DEF OutputInv, NumbersAreOwn, Sessions
  <1>4. job[s] \in dirs' <=> job[s] \in opened'
    BY <1>1, <1>2, <1>3, SettledOutput
  <1>5. \A i \in Sessions :
           outcome'[i] = IF i = s THEN [status |-> settle(s), path |-> chosen[s],
           id |-> job[s],
                                        given |-> given[s]]
                         ELSE outcome[i]
    BY DEF Delivered, TypeInv, UiTypes
  <1>6. NumbersAreOwn' /\ WorkIsOnDisk' /\ NothingIsLeftBehind'
    <2>1. \A n \in 1..MaxJobs : n # job[s] => (n \in dirs' <=> n \in dirs)
      BY <1>1, <1>2, SettledOutput
    <2>2. dirs' \subseteq 1..MaxJobs
      BY <1>1, <1>2, SettledOutput
    <2>3. \A i \in Sessions : \/ outcome'[i] = outcome[i]
                              \/ i = s /\ job[s] # 0 /\ outcome'[i].id = job[s]
      BY <1>1, <1>5
    <2>4. opened' = opened \/ (job[s] # 0 /\ opened' = opened \union {job[s]})
      BY <1>1
    <2>5. QED
      BY <1>1, <1>2, <1>4, <2>1, <2>2, <2>3, <2>4, ForgetOutput
  <1>7. OutcomeIsWhatHappened'
    <2> SUFFICES ASSUME NEW i \in Sessions, outcome'[i].status # "None"
                 PROVE  LET o == outcome'[i] IN
                        /\ o.path = o.given
                        /\ IF i = "export"
                             THEN /\ o.status = "Exported" <=>
                                        \E p \in Paths : <<p, o.id>> \in written'
                                  /\ o.status = "Exported" => <<o.path, o.id>> \in written'
                             ELSE /\ o.status = "Converted" <=> o.id \in opened'
                                  /\ o.status = "Converted" <=> o.id \in dirs'
      BY DEF OutcomeIsWhatHappened
    <2>1. CASE i # s
      <3>1. outcome'[i] = outcome[i] /\ outcome[i].status # "None"
        BY <1>5, <2>1
      <3>2. outcome[i].id \in 1..MaxJobs /\ outcome[i].id # job[s]
        BY <1>1, <3>1, ToldIsOver DEF OutputInv, Outcome
      <3>3. outcome[i].id \in opened' <=> outcome[i].id \in opened
        BY <3>2
      <3>4. outcome[i].id \in dirs' <=> outcome[i].id \in dirs
        BY <1>1, <1>2, <3>2, SettledOutput
      <3>5. QED
        BY <1>2, <3>1, <3>3, <3>4 DEF OutputInv, OutcomeIsWhatHappened
    <2>2. CASE i = s
      <3>1. /\ outcome'[i].status = settle(s) /\ outcome'[i].id = job[s]
            /\ outcome'[i].path = given[s] /\ outcome'[i].given = given[s] /\ given[s] \in Paths
        BY <1>1, <1>5, <2>2 DEF TypeInv, JobInv, SessionsHoldTheirPath
      <3>2. CASE s = "export"
        <4>1. settle(s) = "Exported" <=> result[s] = "Exported"
          BY DEF settle
        <4>2. \A p \in Paths : <<p,
        job[s]>> \in written <=> result[s] = "Exported" /\ p = given[s]
          BY <1>1, <3>2 DEF OutputInv, WorkIsOnDisk, ExportWork
        <4>3. QED
          BY <1>2, <2>2, <3>1, <3>2, <4>1, <4>2
      <3>3. CASE s = "conversion"
        <4>1. job[s] \in dirs' <=> settle(s) = "Converted"
          BY <1>1, <1>2, <3>3, SettledOutput
        <4>2. QED
          BY <1>4, <2>2, <3>1, <3>3, <4>1
      <3>4. QED
        BY <1>3, <3>2, <3>3
    <2>3. QED
      BY <2>1, <2>2
  <1>8. QED
    BY <1>6, <1>7 DEF OutputInv

\* A job is settled at the shutdown, with no tab and no one told.
LEMMA WaitedOutput ==
    ASSUME TypeInv, OutputInv, NEW s \in Sessions, CancelledAndWaited(s), ForgetJob(s),
           at[s] = "done" => settle(s) # "Converted", UNCHANGED <<opened, outcome>>
    PROVE  OutputInv'
  <1>1. s \in Jobs /\ at[s] \in {"none", "done"} /\ s \in {"conversion", "export"}
    BY DEF Sessions, Jobs, CancelledAndWaited
  <1>2. dirs' = Settled(s) /\ UNCHANGED <<aside, written>>
    BY DEF CancelledAndWaited
  <1>3. job[s] \notin dirs' /\ job[s] \notin opened
    BY <1>1, <1>2, SettledOutput DEF OutputInv, NumbersAreOwn
  <1>4. \A n \in 1..MaxJobs : n # job[s] => (n \in dirs' <=> n \in dirs)
    BY <1>1, <1>2, SettledOutput
  <1>5. dirs' \subseteq 1..MaxJobs
    BY <1>1, <1>2, SettledOutput
  <1>6. NumbersAreOwn' /\ WorkIsOnDisk' /\ NothingIsLeftBehind'
    BY <1>1, <1>2, <1>3, <1>4, <1>5, ForgetOutput
  <1>7. OutcomeIsWhatHappened'
    BY <1>1, <1>2, <1>4, OutcomeKept
  <1>8. QED
    BY <1>6, <1>7 DEF OutputInv

\* The host is answered, with the conversion's directory gone.
LEMMA AnswerOutput ==
    ASSUME TypeInv, OutputInv, HostAnswer, UNCHANGED <<aside, written, opened, outcome>>,
           dirs' = dirs \ {job["host"]}
    PROVE  OutputInv'
  <1>1. "host" \in Jobs /\ ForgetJob("host")
    BY DEF Jobs, HostAnswer, Finish
  <1>2. job["host"] \notin opened /\ dirs' \subseteq 1..MaxJobs
    BY <1>1 DEF OutputInv, NumbersAreOwn, TypeInv, DiskTypes
  <1>3. NumbersAreOwn' /\ WorkIsOnDisk' /\ NothingIsLeftBehind'
    BY <1>1, <1>2, ForgetOutput
  <1>4. OutcomeIsWhatHappened'
    BY <1>1, OutcomeKept
  <1>5. QED
    BY <1>3, <1>4 DEF OutputInv

\* What a conversion drops is no export's file.
LEMMA DropsNothingAside ==
    ASSUME TypeInv, OutputInv, NEW j \in Converts, job[j] # 0
    PROVE  aside \ {job[j]} = aside
  <1>1. j \in Jobs /\ "export" \in Jobs /\ j # "export"
    BY DEF Jobs, Sessions, Converts
  <1>2. job[j] # job["export"]
    BY <1>1 DEF OutputInv, NumbersAreOwn
  <1>3. QED
    BY <1>2 DEF OutputInv, WorkIsOnDisk, ExportWork

\* Every step keeps what is on disk owned, and what was told true.
LEMMA OutputStep ==
    ASSUME TypeInv, AgreeInv, OutputInv, TypeInv', [Next]_vars
    PROVE  OutputInv'
  <1> USE DEF TypeInv
  <1>1. CASE AskFile
    BY <1>1, OutputKept DEF AskFile, Ask, OnlyDialogs, jobVars
  <1>2. CASE AskPackets
    BY <1>2, OutputKept DEF AskPackets, Ask, OnlyDialogs, jobVars
  <1>3. CASE DialogReturns
    BY <1>3, OutputKept DEF DialogReturns, OnlyDialogs, jobVars
  <1>4. CASE Confirmed
    BY <1>4, OutputKept DEF Confirmed, OnlyDialogs, jobVars
  <1>5. ASSUME NEW path \in Paths, FileChosen(path) PROVE OutputInv'
    BY <1>5, SessionStartOutput DEF FileChosen, Sessions
  <1>6. ASSUME NEW path \in Paths, ExportFileChosen(path) PROVE OutputInv'
    BY <1>6, SessionStartOutput DEF ExportFileChosen, Sessions
  <1>7. ASSUME NEW s \in Sessions, Cancel(s) PROVE OutputInv'
    BY <1>7, OutputKept DEF Cancel
  <1>8. CASE ConversionFinished
    BY <1>8, DeliveredOutput DEF ConversionFinished, Sessions
  <1>9. CASE ExportFinished
    BY <1>9, DeliveredOutput DEF ExportFinished, Sessions
  <1>10. CASE LiveStarts
    BY <1>10, OutputKept DEF LiveStarts, jobVars
  <1>11. CASE LiveEnds
    BY <1>11, OutputKept DEF LiveEnds, jobVars
  <1>12. ASSUME NEW j \in Jobs, SeeCancel(j) PROVE OutputInv'
    <2>1. job[j] # 0 /\ job[j] \in 1..MaxJobs
      BY <1>12, WorkerRuns DEF SeeCancel
    <2>2. UNCHANGED <<jobs, job, given, opened, outcome>>
      BY <1>12 DEF SeeCancel, Returns, WorkerStep, uiVars
    <2>3. \A i \in Jobs : /\ at'[i] = IF i = j THEN "done" ELSE at[i]
                          /\ i # j => result'[i] = result[i]
      BY <1>12 DEF SeeCancel, Returns, JobInv, JobTypes
    <2>4. result'[j] \in {"Cancelled", "Failed"}
      BY <1>12 DEF SeeCancel, Returns, JobInv, JobTypes
    <2>5. dirs' = dirs \ {job[j]} /\ aside' = aside \ {job[j]} /\ written' = written
      BY <1>12 DEF SeeCancel, DropOutput
    <2>6. j = "export" => ExportWork' /\ job[j] \notin dirs'
      BY <1>12, <2>2, <2>3, <2>4, <2>5 DEF SeeCancel, OutputInv, WorkIsOnDisk, ExportWork
    <2>7. j \in Converts => ConvertWork(j)' /\ UNCHANGED <<aside, written>>
      BY <1>12, <2>1, <2>2, <2>3, <2>4, <2>5, DropsNothingAside DEF SeeCancel, OutputInv,
         ConvertWork
    <2>8. QED
      BY <2>1, <2>2, <2>3, <2>5, <2>6, <2>7, WorkerOutput
  <1>13. ASSUME NEW j \in Jobs, Fail(j) PROVE OutputInv'
    <2>1. job[j] # 0 /\ job[j] \in 1..MaxJobs
      BY <1>13, WorkerRuns DEF Fail
    <2>2. UNCHANGED <<jobs, job, given, opened, outcome>>
      BY <1>13 DEF Fail, Returns, WorkerStep, uiVars
    <2>3. \A i \in Jobs : /\ at'[i] = IF i = j THEN "done" ELSE at[i]
                          /\ i # j => result'[i] = result[i]
      BY <1>13 DEF Fail, Returns, JobInv, JobTypes
    <2>4. result'[j] \in {"Cancelled", "Failed"}
      BY <1>13 DEF Fail, Returns, JobInv, JobTypes
    <2>5. dirs' = dirs \ {job[j]} /\ aside' = aside \ {job[j]} /\ written' = written
      BY <1>13 DEF Fail, DropOutput
    <2>6. j = "export" => ExportWork' /\ job[j] \notin dirs'
      BY <1>13, <2>2, <2>3, <2>4, <2>5 DEF Fail, OutputInv, WorkIsOnDisk, ExportWork
    <2>7. j \in Converts => ConvertWork(j)' /\ UNCHANGED <<aside, written>>
      BY <1>13, <2>1, <2>2, <2>3, <2>4, <2>5, DropsNothingAside DEF Fail, OutputInv,
         ConvertWork
    <2>8. QED
      BY <2>1, <2>2, <2>3, <2>5, <2>6, <2>7, WorkerOutput
  <1>14. ASSUME NEW j \in Jobs, WriteLast(j) PROVE OutputInv'
    <2>1. job[j] # 0 /\ job[j] \in 1..MaxJobs
      BY <1>14, WorkerRuns DEF WriteLast
    <2>2. UNCHANGED <<jobs, job, given, opened, outcome>>
      BY <1>14 DEF WriteLast, Goes, WorkerStep, uiVars
    <2>3. \A i \in Jobs :
            at'[i] = IF i = j THEN (IF j \in Converts THEN "written" ELSE "ending") ELSE at[i]
      BY <1>14 DEF WriteLast, Goes, JobInv, JobTypes
    <2>4. UNCHANGED <<dirs, aside, written, result>>
      BY <1>14 DEF WriteLast, Goes, diskVars
    <2>5. j = "export" => ExportWork' /\ job[j] \notin dirs'
      BY <1>14, <2>2, <2>3, <2>4, ExportHasNoDirectory DEF WriteLast, OutputInv,
         WorkIsOnDisk, ExportWork, Converts
    <2>6. j \in Converts => ConvertWork(j)' /\ UNCHANGED <<aside, written>>
      BY <1>14, <2>2, <2>3, <2>4 DEF WriteLast, OutputInv, WorkIsOnDisk, ConvertWork
    <2>7. QED
      BY <2>1, <2>2, <2>3, <2>4, <2>5, <2>6, WorkerOutput
  <1>15. ASSUME NEW j \in Jobs, j \in Converts, OpenConversion(j) PROVE OutputInv'
    <2>1. job[j] # 0 /\ job[j] \in 1..MaxJobs
      BY <1>15, WorkerRuns DEF OpenConversion
    <2>2. UNCHANGED <<jobs, job, given, opened, outcome>>
      BY <1>15 DEF OpenConversion, Goes, WorkerStep, uiVars
    <2>3. \A i \in Jobs : at'[i] = IF i = j THEN "working" ELSE at[i]
      BY <1>15 DEF OpenConversion, Goes, JobInv, JobTypes
    <2>4. dirs' = dirs \union {job[j]} /\ UNCHANGED <<aside, written, result>>
      BY <1>15 DEF OpenConversion, Goes
    <2>5. ConvertWork(j)' /\ j # "export"
      BY <1>15, <2>2, <2>3, <2>4 DEF ConvertWork, Converts
    <2>6. QED
      BY <2>1, <2>2, <2>3, <2>4, <2>5, WorkerOutput
  <1>16. ASSUME NEW j \in Jobs, j \in Converts, ApplyCancel(j) PROVE OutputInv'
    <2>1. job[j] # 0 /\ job[j] \in 1..MaxJobs
      BY <1>16, WorkerRuns DEF ApplyCancel
    <2>2. UNCHANGED <<jobs, job, given, opened, outcome>>
      BY <1>16 DEF ApplyCancel, Returns, WorkerStep, uiVars
    <2>3. \A i \in Jobs : /\ at'[i] = IF i = j THEN "done" ELSE at[i]
                          /\ i # j => result'[i] = result[i]
      BY <1>16 DEF ApplyCancel, Returns, JobInv, JobTypes
    <2>4. \/ result'[j] = "Converted" /\ UNCHANGED diskVars
          \/ result'[j] = "Cancelled" /\ DropOutput(j)
      BY <1>16 DEF ApplyCancel, Returns, JobInv, JobTypes
    <2>5. j # "export" /\ UNCHANGED <<aside, written>>
      BY <1>16, <2>1, <2>4, DropsNothingAside DEF Converts, DropOutput, diskVars
    <2>6. \A n \in 1..MaxJobs : n # job[j] => (n \in dirs' <=> n \in dirs)
      BY <2>4 DEF DropOutput, diskVars
    <2>7. ConvertWork(j)'
      <3>1. job[j] \in dirs
        BY <1>16 DEF ApplyCancel, OutputInv, WorkIsOnDisk, ConvertWork
      <3>2. job[j] \in dirs' <=> result'[j] = "Converted"
        BY <2>4, <3>1 DEF DropOutput, diskVars
      <3>3. QED
        BY <2>2, <2>3, <3>2 DEF ConvertWork
    <2>8. QED
      BY <2>1, <2>2, <2>3, <2>5, <2>6, <2>7, WorkerOutput
  <1>17. CASE OpenExport
    <2>1. "export" \in Jobs /\ "export" \notin Converts
      BY DEF Jobs, Sessions, Converts
    <2>2. job["export"] # 0 /\ job["export"] \in 1..MaxJobs
      BY <1>17, <2>1, WorkerRuns DEF OpenExport
    <2>3. UNCHANGED <<jobs, job, given, opened, outcome>>
      BY <1>17 DEF OpenExport, Goes, WorkerStep, uiVars
    <2>4. \A i \in Jobs : at'[i] = IF i = "export" THEN "working" ELSE at[i]
      BY <1>17 DEF OpenExport, Goes, JobInv, JobTypes
    <2>5. aside' = aside \union {job["export"]} /\ UNCHANGED <<dirs, written, result>>
      BY <1>17 DEF OpenExport, Goes
    <2>6. ExportWork' /\ job["export"] \notin dirs'
      BY <1>17, <2>1, <2>3, <2>4, <2>5, ExportHasNoDirectory DEF OpenExport, OutputInv,
         WorkIsOnDisk, ExportWork
    <2>7. QED
      BY <2>1, <2>2, <2>3, <2>4, <2>5, <2>6, WorkerOutput
  <1>18. CASE EndExport
    <2>1. "export" \in Jobs /\ "export" \notin Converts
      BY DEF Jobs, Sessions, Converts
    <2>2. job["export"] # 0 /\ job["export"] \in 1..MaxJobs
      BY <1>18, <2>1, WorkerRuns DEF EndExport
    <2>3. UNCHANGED <<jobs, job, given, opened, outcome>>
      BY <1>18 DEF EndExport, Goes, Returns, WorkerStep, uiVars
    <2>4. \A i \in Jobs : i # "export" => at'[i] = at[i] /\ result'[i] = result[i]
      BY <1>18 DEF EndExport, Goes, Returns, JobInv, JobTypes
    <2>5. \/ at'["export"] = "committing" /\ UNCHANGED <<dirs, aside, written, result>>
          \/ at'["export"] = "done" /\ result'["export"] = "Cancelled" /\ DropOutput("export")
      BY <1>18, <2>1 DEF EndExport, Goes, Returns, JobInv, JobTypes, diskVars
    <2>6. ExportWork'
      BY <1>18, <2>3, <2>5 DEF EndExport, DropOutput, OutputInv, WorkIsOnDisk, ExportWork
    <2>7. job["export"] \notin dirs' /\ UNCHANGED written
      BY <2>5, ExportHasNoDirectory DEF DropOutput
    <2>8. \A n \in 1..MaxJobs : n # job["export"] => (n \in dirs' <=> n \in dirs)
      BY <2>5 DEF DropOutput
    <2>9. QED
      BY <2>1, <2>2, <2>3, <2>4, <2>6, <2>7, <2>8, WorkerOutput
  <1>19. CASE Commit
    <2>1. "export" \in Jobs /\ "export" \notin Converts
      BY DEF Jobs, Sessions, Converts
    <2>2. job["export"] # 0 /\ job["export"] \in 1..MaxJobs
      BY <1>19, <2>1, WorkerRuns DEF Commit
    <2>3. UNCHANGED <<jobs, job, given, opened, outcome>>
      BY <1>19 DEF Commit, Returns, WorkerStep, uiVars
    <2>4. \A i \in Jobs : i # "export" => at'[i] = at[i] /\ result'[i] = result[i]
      BY <1>19 DEF Commit, Returns, JobInv, JobTypes
    <2>5. at'["export"] = "done" /\ result'["export"] = "Exported"
      BY <1>19, <2>1 DEF Commit, Returns, JobInv, JobTypes
    <2>6. /\ aside' = aside \ {job["export"]} /\ UNCHANGED dirs
          /\ written' = written \union {<<given["export"], job["export"]>>}
      BY <1>19 DEF Commit
    <2>7. ExportWork'
      BY <1>19, <2>2, <2>3, <2>5, <2>6 DEF Commit, OutputInv, WorkIsOnDisk, ExportWork
    <2>8. QED
      BY <2>1, <2>2, <2>3, <2>4, <2>6, <2>7, ExportHasNoDirectory, WorkerOutput
  <1>20. CASE HostConvert
    BY <1>20, StartOutput DEF HostConvert, isRunning, Jobs, uiVars
  <1>21. CASE HostCancel
    BY <1>21, OutputKept DEF HostCancel, uiVars, jobVars
  <1>22. CASE CarryCancel
    BY <1>22, OutputKept DEF CarryCancel, uiVars
  <1>23. CASE HostTakes
    <2>1. "host" \in Jobs /\ "host" \in Converts /\ "host" # "export"
      BY DEF Jobs, Converts
    <2>2. job["host"] # 0 /\ job["host"] \in 1..MaxJobs
      BY <1>23, <2>1, WorkerRuns DEF HostTakes
    <2>3. UNCHANGED <<opened, outcome>>
      BY <1>23 DEF HostTakes, uiVars
    <2>4. CASE HostAnswer /\ HostRemoves
      BY <2>3, <2>4, AnswerOutput DEF HostRemoves
    <2>5. CASE Goes("host", "copying") /\ UNCHANGED diskVars /\ result["host"] = "Converted"
      <3>1. \A i \in Jobs : at'[i] = IF i = "host" THEN "copying" ELSE at[i]
        BY <2>5 DEF Goes, JobInv, JobTypes
      <3>2. UNCHANGED <<jobs, job, given, result, dirs, aside, written>>
        BY <2>5 DEF Goes, diskVars
      <3>3. ConvertWork("host")'
        BY <1>23, <2>1, <2>5, <3>1, <3>2 DEF HostTakes, OutputInv, WorkIsOnDisk, ConvertWork
      <3>4. QED
        BY <2>1, <2>2, <2>3, <3>1, <3>2, <3>3, WorkerOutput
    <2>6. QED
      BY <1>23, <2>4, <2>5 DEF HostTakes
  <1>24. CASE HostCopies
    <2>1. "host" \in Jobs /\ "host" \in Converts /\ "host" # "export"
      BY DEF Jobs, Converts
    <2>2. job["host"] # 0 /\ job["host"] \in 1..MaxJobs
      BY <1>24, <2>1, WorkerRuns DEF HostCopies
    <2>3. UNCHANGED <<opened, outcome>>
      BY <1>24 DEF HostCopies, uiVars
    <2>4. CASE HostAnswer
      BY <1>24, <2>3, <2>4, AnswerOutput DEF HostCopies, HostRemoves
    <2>5. CASE Goes("host", "copied")
      <3>1. \A i \in Jobs : at'[i] = IF i = "host" THEN "copied" ELSE at[i]
        BY <2>5 DEF Goes, JobInv, JobTypes
      <3>2. /\ UNCHANGED <<jobs, job, given, result, aside, written>>
            /\ dirs' = dirs \ {job["host"]}
        BY <1>24, <2>5 DEF HostCopies, Goes, HostRemoves
      <3>3. ConvertWork("host")'
        BY <2>1, <3>1, <3>2 DEF ConvertWork
      <3>4. QED
        BY <2>1, <2>2, <2>3, <3>1, <3>2, <3>3, WorkerOutput
    <2>6. QED
      BY <1>24, <2>4, <2>5 DEF HostCopies
  <1>25. CASE HostKeeps
    <2>1. "host" \in Jobs /\ "host" \in Converts /\ "host" # "export"
      BY DEF Jobs, Converts
    <2>2. job["host"] # 0 /\ job["host"] \in 1..MaxJobs
      BY <1>25, <2>1, WorkerRuns DEF HostKeeps
    <2>3. UNCHANGED <<opened, outcome>>
      BY <1>25 DEF HostKeeps, uiVars
    <2>4. job["host"] \notin dirs
      BY <1>25, <2>1 DEF HostKeeps, OutputInv, WorkIsOnDisk, ConvertWork
    <2>5. dirs' = dirs \ {job["host"]} /\ UNCHANGED <<aside, written>>
      BY <1>25, <2>4 DEF HostKeeps, diskVars
    <2>6. QED
      BY <1>25, <2>3, <2>5, AnswerOutput DEF HostKeeps
  <1>26. ASSUME NEW id \in posted, KeepConverted(id) PROVE OutputInv'
    BY <1>26, OutputKept DEF KeepConverted, jobVars
  <1>27. CASE Shutdown
    BY <1>27, OutputKept DEF Shutdown, jobVars
  <1>28. CASE CloseLive
    BY <1>28, OutputKept DEF CloseLive
  <1>29. CASE CloseConversion
    <2>1. at["conversion"] = "done" => settle("conversion") # "Converted"
      <3>1. at["conversion"] = "done" => job["conversion"] # 0
        BY WorkerRuns DEF Jobs, Sessions
      <3>2. QED
        BY <1>29, <3>1 DEF CloseConversion, AgreeInv, ClosingInOrder, settle, JobInv,
           JobsAreSound,
           ResultsOf, Jobs, Sessions
    <2>2. QED
      BY <1>29, <2>1, WaitedOutput DEF CloseConversion, Sessions
  <1>30. CASE CloseExport
    <2>1. at["export"] = "done" => settle("export") # "Converted"
      BY DEF settle, JobInv, JobsAreSound, ResultsOf, Jobs, Sessions
    <2>2. QED
      BY <1>30, <2>1, WaitedOutput DEF CloseExport, Finish, Sessions
  <1>31. CASE UNCHANGED vars
    BY <1>31, OutputKept DEF vars, diskVars
  <1>32. QED
    BY <1>1, <1>2, <1>3, <1>4, <1>5, <1>6, <1>7, <1>8, <1>9, <1>10, <1>11,
       <1>12, <1>13, <1>14, <1>15, <1>16, <1>17, <1>18, <1>19, <1>20, <1>21,
       <1>22, <1>23, <1>24, <1>25, <1>26, <1>27, <1>28, <1>29, <1>30, <1>31
    DEF Next, Worker, Host, Close, Done

-----------------------------------------------------------------------------
(* The theorems.                                                           *)

\* The invariant holds at the start,
LEMMA SessionsInitially == Init => SessionsInv
  <1> SUFFICES ASSUME Init PROVE SessionsInv
    OBVIOUS
  <1>1. JobInv
    BY CaptureSessionsAssumption DEF Init, JobInv, JobTypes, JobsAreSound,
       SessionsHoldTheirPath, Stages, Statuses, Sessions, Jobs
  <1>2. DialogTypes
    BY CaptureSessionsAssumption DEF Init, DialogTypes
  <1>3. UiTypes /\ DiskTypes
    BY DEF Init, UiTypes, DiskTypes
  <1>4. AgreeInv
    BY DEF Init, AgreeInv, BusyWhileJobRuns, ConversionExcludesCapture, ClosingInOrder, isBusy,
       isRunning, Sessions, Jobs
  <1>5. \A s \in Sessions : outcome[s].status = "None"
    BY DEF Init, NoOutcome
  <1>6. OutputInv
    BY <1>5 DEF Init, OutputInv, NumbersAreOwn, WorkIsOnDisk, ConvertWork, ExportWork,
       NothingIsLeftBehind, OutcomeIsWhatHappened, Sessions, Jobs, Converts
  <1>7. QED
    BY <1>1, <1>2, <1>3, <1>4, <1>6 DEF SessionsInv, TypeInv

\* and every step keeps it,
LEMMA SessionsStep == SessionsInv /\ [Next]_vars => SessionsInv'
  BY TypeStep, AgreeStep, OutputStep DEF SessionsInv, AgreeInv

\* so that it always holds.
LEMMA SessionsAlways == Spec => []SessionsInv
  BY SessionsInitially, SessionsStep, PTL DEF Spec

\* The sessions are type correct: with it, no job is known by a number never
\* given and no outcome is told of a path no dialog returned
\* (file_conversion_session.cpp, export_session.cpp, host_converter.cpp).
THEOREM SessionsTypeCorrect == Spec => []TypeOK
  <1>1. SessionsInv => TypeOK
    BY TypeParts DEF SessionsInv, TypeInv, JobInv
  <1>2. QED
    BY <1>1, SessionsAlways, PTL

\* A session is busy exactly while its job runs and cancelling exactly while
\* the job is asked to stop, whatever happens while a dialog is open
\* (background_job.h: isRunning, cancel).
THEOREM SessionsAgree == Spec => []BusyWhileJobRuns
  <1>1. SessionsInv => BusyWhileJobRuns
    BY DEF SessionsInv, AgreeInv
  <1>2. QED
    BY <1>1, SessionsAlways, PTL

\* No file is converted while a live capture runs (activity.cpp:
\* activityRefusal, asked again after the dialog).
THEOREM ConversionsExclude == Spec => []ConversionExcludesCapture
  <1>1. SessionsInv => ConversionExcludesCapture
    BY DEF SessionsInv, AgreeInv
  <1>2. QED
    BY <1>1, SessionsAlways, PTL

\* What a session tells is what its job did, of the file it was given
\* (file_conversion_session.cpp, export_session.cpp: finish).
THEOREM OutcomesAreTrue == Spec => []OutcomeIsWhatHappened
  <1>1. SessionsInv => OutcomeIsWhatHappened
    BY DEF SessionsInv, OutputInv
  <1>2. QED
    BY <1>1, SessionsAlways, PTL

\* Every directory and every file aside has an owner that will hand it over
\* or remove it (background_job.h: settle, host_converter.cpp: removeOutput).
THEOREM DiskIsClean == Spec => []NothingIsLeftBehind
  <1>1. SessionsInv => NothingIsLeftBehind
    BY DEF SessionsInv, OutputInv
  <1>2. QED
    BY <1>1, SessionsAlways, PTL

\* Sessions and jobs agree on what runs, and so the Activity rule lets no
\* conversion run beside a live capture (background_job.h: isRunning; activity.cpp).
THEOREM SessionsExclude == Spec => []JobsExclude
  BY SessionsAgree, ConversionsExclude, PTL DEF JobsExclude

\* What a session tells is what is on the disk, and nothing of a job that ended
\* stays there (background_job.h: settle; host_converter.cpp: removeOutput).
THEOREM DiskIsTold == Spec => []DiskIsAsTold
  BY OutcomesAreTrue, DiskIsClean, PTL DEF DiskIsAsTold

\* Once the sessions are gone nothing of theirs runs and nothing is posted to
\* them (capture_sessions.cpp: ~CaptureSessions).
THEOREM ShutdownIsQuiet == Spec => []GoneIsQuiet
  <1>1. SessionsInv => GoneIsQuiet
    BY DEF SessionsInv, TypeInv, JobInv, JobsAreSound, AgreeInv, ClosingInOrder, GoneIsQuiet,
       isRunning, Sessions, Jobs
  <1>2. QED
    BY <1>1, SessionsAlways, PTL

\* No tab opens for a conversion the user cancelled, and none during the
\* shutdown (background_job.h: settle).
THEOREM CancelWins == Spec => CancelledOpensNoTab
  <1>1. ASSUME SessionsInv, [Next]_vars, opened' # opened
        PROVE  state["conversion"] = "Running" /\ sessions = "open"
    <2>1. ConversionFinished
      BY <1>1 DEF Next, Worker, Host, Close, Done, vars, uiVars, AskFile, AskPackets, Ask,
         OnlyDialogs, DialogReturns, Confirmed, FileChosen, ExportFileChosen, SessionStart,
         Cancel, ExportFinished, LiveStarts, LiveEnds, SeeCancel, Fail, WriteLast, WorkerStep,
         OpenConversion, ApplyCancel, OpenExport, EndExport, Commit, HostConvert, HostCancel,
         CarryCancel, HostTakes, HostCopies, HostKeeps, KeepConverted, Shutdown, CloseLive,
         CloseConversion, CloseExport
    <2>2. settle("conversion") = "Converted"
      BY <1>1, <2>1 DEF ConversionFinished
    <2>3. sessions = "open" /\ job["conversion"] # 0
      BY <2>1 DEF ConversionFinished, Delivered, Listening, isRunning
    <2>4. ~cancel["conversion"]
      BY <2>2 DEF settle
    <2>5. state["conversion"] \notin {"Idle", "Cancelling"}
      BY <1>1, <2>3, <2>4 DEF SessionsInv, AgreeInv, BusyWhileJobRuns, isBusy, isRunning,
         Sessions
    <2>6. QED
      BY <1>1, <2>3, <2>5 DEF SessionsInv, TypeInv, UiTypes, Sessions
  <1>2. QED
    BY <1>1, SessionsAlways, PTL DEF Spec, CancelledOpensNoTab
=============================================================================
