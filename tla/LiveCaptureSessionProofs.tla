---------------------- MODULE LiveCaptureSessionProofs ----------------------
(***************************************************************************)
(* Proofs about the Live Capture Session, for every number of choices,     *)
(* captures, checks and files.                                             *)
(***************************************************************************)
EXTENDS LiveCaptureSession, SequenceTheorems, TLAPS

\* The head and the rest of a queue that is not empty.
LEMMA QueueHead ==
    ASSUME NEW S, NEW q \in Seq(S), q # << >>
    PROVE  /\ Head(q) \in S
           /\ Tail(q) \in Seq(S)
           /\ Len(Tail(q)) = Len(q) - 1
           /\ \A i \in 1..Len(Tail(q)) : i + 1 \in 1..Len(q) /\ Tail(q)[i] = q[i + 1]
           /\ Head(q) = q[1] /\ 1 \in 1..Len(q)
  <1>1. Len(q) \in Nat /\ Len(q) # 0
    BY EmptySeq
  <1>2. QED
    BY <1>1, HeadTailProperties

\* What a start leaves type-correct, called in any state and with any number
\* of checks so far.
LEMMA StartTypeOK ==
    ASSUME TypeOK, NEW c \in Choices, NEW st \in States, NEW ck \in Nat, Start(c, st, ck)
    PROVE  /\ state' \in States
           /\ choice' \in Choices \union {NoChoice}
           /\ checks' \in Nat
           /\ runs' \in 0..MaxRuns
           /\ files' \in Seq(FileIds)
           /\ outcome' \in Outcomes
           /\ entries' \in [RunIds -> [FileIds -> Entries]]
           /\ capturing' \in BOOLEAN
           /\ worker' \in [RunIds -> Phases]
           /\ program' \in [RunIds -> BOOLEAN]
           /\ stop' \in [RunIds -> BOOLEAN]
           /\ sent' \in [RunIds -> 0..MaxFiles]
           /\ snapshots' \in [RunIds -> 0..MaxSnapshots]
           /\ asking' \in Seq([check : Nat, choice : Choices])
  <1> USE BoundsAssumption
  <1>1. CASE /\ state' = st /\ checks' = ck
             /\ UNCHANGED <<choice, runs, files, outcome, catalogVars, workerVars, asking>>
    BY <1>1 DEF TypeOK, catalogVars, workerVars
  <1>2. CASE /\ state' = "Checking" /\ checks' = ck + 1 /\ choice' = c
             /\ asking' = Append(asking, [check |-> ck + 1, choice |-> c])
             /\ UNCHANGED <<runs, files, outcome, catalogVars, workerVars>>
    <2>1. asking' \in Seq([check : Nat, choice : Choices])
      <3>1. [check |-> ck + 1, choice |-> c] \in [check : Nat, choice : Choices]
        OBVIOUS
      <3>2. QED
        BY <1>2, <3>1, AppendProperties DEF TypeOK
    <2>2. QED
      BY <1>2, <2>1 DEF TypeOK, catalogVars, workerVars, States
  <1>3. CASE Run(c) /\ checks' = ck /\ UNCHANGED asking
    BY <1>3 DEF TypeOK, Run, States, Outcomes, Phases, RunIds
  <1>4. QED
    BY <1>1, <1>2, <1>3 DEF Start

\* Every step of the session, its workers, its event loop and its host keeps
\* the types.
LEMMA TypeOKStep == TypeOK /\ [Next]_vars => TypeOK'
  <1> SUFFICES ASSUME TypeOK, [Next]_vars PROVE TypeOK'
    OBVIOUS
  <1> USE BoundsAssumption, DirectStartsAssumption
  <1>1. CASE UNCHANGED vars
    BY <1>1 DEF vars, sessionVars, catalogVars, workerVars, TypeOK
  <1>2. ASSUME NEW c \in Choices, StartWhenIdle(c) PROVE TypeOK'
    <2>1. CASE state \in {"Capturing", "Stopping"} /\ pending' = c
      BY <1>2, <2>1 DEF StartWhenIdle, TypeOK, States, catalogVars, workerVars, Start, Run
    <2>2. CASE state \in {"Idle", "Checking"} /\ ~LastRunIsDone
      BY <1>2, <2>2 DEF StartWhenIdle, TypeOK, States, catalogVars, workerVars
    <2>3. CASE state \in {"Idle", "Checking"} /\ LastRunIsDone
      <3> DEFINE ck == IF state = "Checking" THEN checks + 1 ELSE checks
      <3>1. ck \in Nat /\ "Idle" \in States
        BY DEF TypeOK, States
      <3>2. Start(c, "Idle", ck)
        BY <1>2, <2>3 DEF StartWhenIdle
      <3> HIDE DEF ck
      <3>3. /\ asked' = c /\ pending' = pending
            /\ UNCHANGED <<done, events, converting, ui>>
        BY <1>2, <2>3 DEF StartWhenIdle
      <3>4. QED
        BY <3>1, <3>2, <3>3, StartTypeOK DEF TypeOK
    <2>4. QED
      BY <2>1, <2>2, <2>3, <1>2 DEF StartWhenIdle
  <1>3. ASSUME NEW c \in Choices, StartDirectly(c) PROVE TypeOK'
    <2>1. Start(c, state, checks) /\ state \in States /\ checks \in Nat
      BY <1>3 DEF StartDirectly, TypeOK
    <2>2. QED
      BY <1>3, <2>1, StartTypeOK DEF StartDirectly, TypeOK
  <1>4. CASE Stop
    <2>1. checks' \in Nat /\ state' \in States
      BY <1>4 DEF Stop, TypeOK, States
    <2>2. stop' \in [RunIds -> BOOLEAN]
      BY <1>4 DEF Stop, TypeOK
    <2>3. QED
      BY <1>4, <2>1, <2>2 DEF Stop, TypeOK, catalogVars
  <1>5. CASE Close
    BY <1>5 DEF Close, TypeOK, sessionVars, catalogVars, workerVars
  <1>6. CASE CheckAnswered
    <2>1. /\ Head(asking) \in [check : Nat, choice : Choices]
          /\ Tail(asking) \in Seq([check : Nat, choice : Choices])
      BY <1>6, QueueHead DEF CheckAnswered, TypeOK
    <2>2. CheckedEvent(Head(asking).check, Head(asking).choice) \in Events
      BY <2>1 DEF CheckedEvent, Events
    <2>3. events' \in Seq(Events)
      BY <1>6, <2>2, AppendProperties DEF CheckAnswered, TypeOK
    <2>4. QED
      BY <1>6, <2>1, <2>3 DEF CheckAnswered, TypeOK, sessionVars, catalogVars, workerVars
  <1>7. ASSUME NEW r \in RunIds, Worker(r) PROVE TypeOK'
    <2>1. ASSUME NEW result \in Results, Finish(r, result) PROVE TypeOK'
      <3>1. FinishedEvent(r, result) \in Events
        BY DEF FinishedEvent, Events
      <3>2. events' \in Seq(Events)
        BY <2>1, <3>1, AppendProperties DEF Finish, TypeOK
      <3>3. QED
        BY <2>1, <3>2 DEF Finish, TypeOK, sessionVars, catalogVars, Phases
    <2>2. CASE SourceMade(r)
      BY <2>2 DEF SourceMade, TypeOK, sessionVars, catalogVars, Phases
    <2>3. CASE HeaderCame(r)
      BY <2>3 DEF HeaderCame, TypeOK, sessionVars, catalogVars, Phases
    <2>4. CASE FirstOfText(r)
      <3>1. sent[r] + 1 \in FileIds /\ sent[r] \in Nat
        BY <2>4 DEF FirstOfText, TypeOK, FileIds
      <3>2. ReadyToOpenEvent(r, sent[r] + 1) \in Events
        BY <3>1 DEF ReadyToOpenEvent, Events
      <3>3. RunEvent("snapshot", r) \in Events
        BY DEF RunEvent, Events
      <3>4. events' \in Seq(Events)
        BY <2>4, <3>2, <3>3, ConcatProperties DEF FirstOfText, TypeOK
      <3>5. sent' \in [RunIds -> 0..MaxFiles] /\ snapshots' \in [RunIds -> 0..MaxSnapshots]
        BY <2>4, <3>1 DEF FirstOfText, TypeOK, FileIds
      <3>6. QED
        BY <2>4, <3>4, <3>5 DEF FirstOfText, TypeOK, sessionVars, catalogVars
    <2>5. CASE Snapshot(r)
      <3>1. RunEvent("snapshot", r) \in Events
        BY DEF RunEvent, Events
      <3>2. events' \in Seq(Events)
        BY <2>5, <3>1, AppendProperties DEF Snapshot, TypeOK
      <3>3. QED
        BY <2>5, <3>2 DEF Snapshot, TypeOK, sessionVars, catalogVars
    <2>6. CASE ProgramEnded(r)
      <3>1. RunEvent("done", r) \in Events
        BY DEF RunEvent, Events
      <3>2. events' \in Seq(Events)
        BY <2>6, <3>1, AppendProperties DEF ProgramEnded, TypeOK
      <3>3. QED
        BY <2>6, <3>2 DEF ProgramEnded, TypeOK, sessionVars, catalogVars, Phases
    <2>7. CASE \/ SourceFailed(r) \/ StoppedBeforeHeader(r) \/ StreamEnded(r)
               \/ StreamBrokeOff(r) \/ OutputFailed(r)
      BY <2>1, <2>7 DEF SourceFailed, StoppedBeforeHeader, StreamEnded, StreamBrokeOff,
                        OutputFailed, Results
    <2>8. QED
      BY <1>7, <2>2, <2>3, <2>4, <2>5, <2>6, <2>7 DEF Worker
  <1>8. CASE EventLoop
    <2>1. events # << >>
      BY <1>8 DEF EventLoop, Checked, OpenFile, TakeSnapshot, Finished, RunDone, Deliver
    <2>2. Head(events) \in Events /\ Tail(events) \in Seq(Events)
      BY <2>1, QueueHead DEF TypeOK
    <2>3. CASE Checked
      <3>1. Head(events).choice \in Choices
        BY <2>2, <2>3 DEF Checked, Deliver, Events
      <3>2. CASE UNCHANGED <<sessionVars, catalogVars, workerVars, done, asking>>
        BY <2>2, <2>3, <3>2 DEF Checked, Deliver, TypeOK, sessionVars, catalogVars, workerVars
      <3>3. CASE /\ state' = "Idle"
                 /\ UNCHANGED <<choice, runs, files, outcome, catalogVars, workerVars>>
                 /\ UNCHANGED <<pending, checks, done, asking>>
        BY <2>2, <2>3, <3>3 DEF Checked, Deliver, TypeOK, States, catalogVars, workerVars
      <3>4. CASE Run(Head(events).choice) /\ UNCHANGED <<pending, checks, done, asking>>
        <4>1. /\ UNCHANGED <<converting, ui, asked>> /\ events' = Tail(events)
          BY <2>3 DEF Checked, Deliver
        <4>2. QED
          BY <2>2, <3>1, <3>4, <4>1 DEF Run, TypeOK, States, Outcomes, Phases, RunIds
      <3>5. QED
        BY <2>3, <3>2, <3>3, <3>4 DEF Checked
    <2>4. CASE OpenFile
      <3>1. Head(events).run \in RunIds /\ Head(events).file \in FileIds
        BY <2>2, <2>4 DEF OpenFile, Deliver, Events
      <3>2. files' \in Seq(FileIds)
        BY <2>4, <3>1, AppendProperties DEF OpenFile, TypeOK
      <3>3. entries' \in [RunIds -> [FileIds -> Entries]]
        BY <2>4, <3>1 DEF OpenFile, TypeOK, Entries
      <3>4. QED
        BY <2>2, <2>4, <3>2, <3>3 DEF OpenFile, Deliver, TypeOK, workerVars
    <2>5. ASSUME NEW shows \in Entries PROVE ShowFiles(shows) \in [RunIds -> [FileIds -> Entries]]
      BY <2>5 DEF ShowFiles, TypeOK
    <2>6. CASE TakeSnapshot
      <3>1. entries' \in [RunIds -> [FileIds -> Entries]]
        BY <2>6, <2>5 DEF TakeSnapshot, TypeOK, Entries
      <3>2. QED
        BY <2>2, <2>6, <3>1 DEF TakeSnapshot, Deliver, TypeOK, sessionVars, workerVars
    <2>7. CASE Finished
      <3>1. CASE ~Listening(Head(events).run)
        BY <2>2, <2>7, <3>1 DEF Finished, Deliver, TypeOK, workerVars
      <3>2. CASE Listening(Head(events).run)
        <4>1. OutcomeOf(Head(events).result) \in Outcomes
          BY DEF OutcomeOf, Outcomes
        <4>2. "final" \in Entries /\ "error" \in Entries
          BY DEF Entries
        <4>3. entries' \in [RunIds -> [FileIds -> Entries]]
          BY <2>7, <3>2, <2>5, <4>2 DEF Finished, TypeOK
        <4>4. /\ capturing' = FALSE /\ state' = "Idle"
              /\ outcome' = OutcomeOf(Head(events).result)
          BY <2>7, <3>2 DEF Finished
        <4>5. /\ UNCHANGED <<pending, choice, checks, runs, files, workerVars, done, asking>>
              /\ UNCHANGED <<converting, ui, asked>> /\ events' = Tail(events)
          BY <2>7 DEF Finished, Deliver
        <4>6. QED
          BY <2>2, <4>1, <4>3, <4>4, <4>5 DEF TypeOK, workerVars, States
      <3>3. QED
        BY <3>1, <3>2
    <2>8. CASE RunDone
      <3>1. Head(events).run \in RunIds
        BY <2>2, <2>8 DEF RunDone, Deliver, Events
      <3>2. done' \in [RunIds -> BOOLEAN]
        BY <2>8, <3>1 DEF RunDone, TypeOK
      <3>3. CASE UNCHANGED <<sessionVars, catalogVars, workerVars, asking>>
        BY <2>2, <2>8, <3>2, <3>3
           DEF RunDone, Deliver, TypeOK, sessionVars, catalogVars, workerVars
      <3>4. CASE pending # NoChoice /\ pending' = NoChoice /\ Start(pending, state, checks)
        <4>1. pending \in Choices /\ state \in States /\ checks \in Nat
          BY <3>4 DEF TypeOK
        <4>2. UNCHANGED <<converting, ui, asked>> /\ events' = Tail(events)
          BY <2>8 DEF RunDone, Deliver
        <4>3. QED
          BY <2>2, <3>2, <3>4, <4>1, <4>2, StartTypeOK DEF TypeOK
      <3>5. QED
        BY <2>8, <3>3, <3>4 DEF RunDone
    <2>9. QED
      BY <1>8, <2>3, <2>4, <2>6, <2>7, <2>8 DEF EventLoop
  <1>9. CASE ConversionStarts \/ ConversionEnds
    BY <1>9 DEF ConversionStarts, ConversionEnds, TypeOK, sessionVars, catalogVars, workerVars
  <1>10. CASE Retire
    BY <1>10 DEF Retire, TypeOK, sessionVars, catalogVars
  <1>11. CASE Join
    BY <1>11 DEF Join, TypeOK, sessionVars, catalogVars, workerVars
  <1>12. CASE Terminated
    BY <1>12, <1>1 DEF Terminated
  <1>13. QED
    BY <1>1, <1>2, <1>3, <1>4, <1>5, <1>6, <1>7, <1>8, <1>9, <1>10, <1>11, <1>12
       DEF Next, User

\* The initial state has the types.
LEMMA InitTypeOK == Init => TypeOK
  <1> SUFFICES ASSUME Init PROVE TypeOK
    OBVIOUS
  <1>1. files \in Seq(FileIds) /\ events \in Seq(Events)
        /\ asking \in Seq([check : Nat, choice : Choices])
    BY DEF Init
  <1>2. /\ program \in [RunIds -> BOOLEAN] /\ stop \in [RunIds -> BOOLEAN]
        /\ done \in [RunIds -> BOOLEAN] /\ capturing \in BOOLEAN /\ converting \in BOOLEAN
    BY Zenon DEF Init
  <1>3. /\ worker \in [RunIds -> Phases]
        /\ entries \in [RunIds -> [FileIds -> Entries]]
    BY DEF Init, Phases, Entries
  <1>4. /\ runs \in 0..MaxRuns /\ checks \in Nat
        /\ sent \in [RunIds -> 0..MaxFiles] /\ snapshots \in [RunIds -> 0..MaxSnapshots]
    BY BoundsAssumption DEF Init
  <1>5. QED
    BY <1>1, <1>2, <1>3, <1>4 DEF Init, TypeOK, States, Outcomes

\* The session, its runs and its event queue keep their types, whatever the
\* number of captures, checks and files.
THEOREM TypeCorrect == Spec => []TypeOK
  BY InitTypeOK, TypeOKStep, PTL DEF Spec

-----------------------------------------------------------------------------
(* One capture program at a time.  OneProgram is not inductive: that the   *)
(* next run starts only after the last one's program has ended rests on    *)
(* what a done() event, queued or delivered, says of the worker it is from.*)

\* A program belongs to a worker that has one.
ProgramsHaveWorkers == \A r \in RunIds : program[r] => worker[r] \in {"header", "packets", "ending"}

\* The runs after the latest have not started, those before it are over.
RunsAreInOrder ==
    \A r \in RunIds : /\ r > runs => worker[r] = "none"
                      /\ r < runs => worker[r] = "over"

\* done() is told of workers that are over only, and so is what it sets.
QueuedDoneIsOver ==
    \A i \in 1..Len(events) : events[i].kind = "done" => worker[events[i].run] = "over"
DoneIsOver == \A r \in RunIds : done[r] => worker[r] = "over"

\* A choice is checked only once the last run is done.
CheckingAfterDone == state = "Checking" => LastRunIsDone

OneProgramInv ==
    /\ TypeOK
    /\ ProgramsHaveWorkers
    /\ RunsAreInOrder
    /\ QueuedDoneIsOver
    /\ DoneIsOver
    /\ CheckingAfterDone

\* Starting the next run once the last one's worker is over keeps the order of
\* the runs, and undoes no worker's end.
LEMMA RunKeepsOrder ==
    ASSUME OneProgramInv, NEW c, Run(c), \A r \in RunIds : r = runs => worker[r] = "over"
    PROVE  /\ ProgramsHaveWorkers' /\ RunsAreInOrder'
           /\ \A r \in RunIds : worker[r] = "over" => worker'[r] = "over"
  <1>1. runs \in Nat /\ runs + 1 \in RunIds /\ runs' = runs + 1
    BY BoundsAssumption DEF OneProgramInv, TypeOK, Run, RunIds
  <1>2. worker' = [worker EXCEPT ![runs + 1] = "opening"] /\ program' = program
    BY DEF Run
  <1>3. worker[runs + 1] = "none"
    BY <1>1 DEF OneProgramInv, RunsAreInOrder
  <1>4. \A r \in RunIds : worker'[r] = IF r = runs + 1 THEN "opening" ELSE worker[r]
    BY <1>1, <1>2 DEF OneProgramInv, TypeOK
  <1>5. ProgramsHaveWorkers'
    BY <1>2, <1>3, <1>4 DEF OneProgramInv, ProgramsHaveWorkers
  <1>6. RunsAreInOrder'
    BY <1>1, <1>4 DEF OneProgramInv, RunsAreInOrder, RunIds
  <1>7. QED
    BY <1>3, <1>4, <1>5, <1>6

\* The same of start(), which may also leave all as it is, or check first.
LEMMA StartKeepsOrder ==
    ASSUME OneProgramInv, NEW c, NEW st, NEW ck, Start(c, st, ck),
           \A r \in RunIds : r = runs => worker[r] = "over"
    PROVE  /\ ProgramsHaveWorkers' /\ RunsAreInOrder'
           /\ \A r \in RunIds : worker[r] = "over" => worker'[r] = "over"
           /\ state' = "Checking" => runs' = runs
  <1>1. CASE Run(c)
    BY <1>1, RunKeepsOrder DEF Run
  <1>2. CASE UNCHANGED <<runs, workerVars>>
    BY <1>2 DEF OneProgramInv, ProgramsHaveWorkers, RunsAreInOrder, workerVars
  <1>3. QED
    BY <1>1, <1>2 DEF Start

\* Events of another kind, queued behind the others, are no done().
LEMMA QueueOther ==
    ASSUME OneProgramInv, NEW new \in Seq(Events), events' = events \o new,
           \A i \in 1..Len(new) : new[i].kind # "done",
           \A r \in RunIds : worker[r] = "over" => worker'[r] = "over"
    PROVE  QueuedDoneIsOver'
  <1>1. events \in Seq(Events) /\ Len(events) \in Nat /\ Len(new) \in Nat
    BY DEF OneProgramInv, TypeOK
  <1>2. Len(events') = Len(events) + Len(new)
    BY <1>1
  <1>3. ASSUME NEW i \in 1..Len(events'), events'[i].kind = "done"
        PROVE  worker'[events'[i].run] = "over"
    <2>1. i \in 1..Len(events) /\ events'[i] = events[i]
      <3>1. CASE i > Len(events)
        <4>1. i - Len(events) \in 1..Len(new) /\ events'[i] = new[i - Len(events)]
          BY <1>1, <1>2, <3>1
        <4>2. QED
          BY <1>3, <4>1
      <3>2. CASE i <= Len(events)
        BY <1>1, <1>2, <3>2
      <3>3. QED
        BY <1>1, <3>1, <3>2
    <2>2. events[i] \in Events /\ events[i].run \in RunIds
      BY <1>1, <1>3, <2>1 DEF Events
    <2>3. QED
      BY <1>3, <2>1, <2>2 DEF OneProgramInv, QueuedDoneIsOver
  <1>4. QED
    BY <1>3 DEF QueuedDoneIsOver

\* Delivering an event leaves a queue that says no more than it did.
LEMMA DeliverKeepsQueue ==
    ASSUME OneProgramInv, events # << >>, events' = Tail(events),
           \A r \in RunIds : worker[r] = "over" => worker'[r] = "over"
    PROVE  QueuedDoneIsOver'
  <1>1. events \in Seq(Events)
    BY DEF OneProgramInv, TypeOK
  <1>2. ASSUME NEW i \in 1..Len(events'), events'[i].kind = "done"
        PROVE  worker'[events'[i].run] = "over"
    <2>1. i + 1 \in 1..Len(events) /\ events'[i] = events[i + 1]
      BY <1>1, <1>2, QueueHead
    <2>2. events[i + 1] \in Events /\ events[i + 1].run \in RunIds
      BY <1>1, <1>2, <2>1 DEF Events
    <2>3. QED
      BY <1>2, <2>1, <2>2 DEF OneProgramInv, QueuedDoneIsOver
  <1>3. QED
    BY <1>2 DEF QueuedDoneIsOver

\* The invariant is kept by every step, if captures are started as the app
\* starts them.
LEMMA OneProgramStep ==
    ASSUME DirectStarts = FALSE, OneProgramInv, [Next]_vars
    PROVE  OneProgramInv'
  <1>0. TypeOK'
    BY TypeOKStep DEF OneProgramInv
  <1> USE DEF OneProgramInv
  <1>1. CASE UNCHANGED vars
    BY <1>0, <1>1 DEF vars, sessionVars, catalogVars, workerVars, ProgramsHaveWorkers,
       RunsAreInOrder, QueuedDoneIsOver, DoneIsOver, CheckingAfterDone, LastRunIsDone
  <1>2. ASSUME NEW c \in Choices, StartWhenIdle(c) PROVE OneProgramInv'
    <2>1. UNCHANGED <<done, events>>
      BY <1>2 DEF StartWhenIdle
    <2>2. CASE UNCHANGED <<runs, worker, program>> /\ state' # "Checking"
      BY <1>0, <2>1, <2>2 DEF ProgramsHaveWorkers, RunsAreInOrder, QueuedDoneIsOver,
         DoneIsOver, CheckingAfterDone
    <2>3. CASE /\ LastRunIsDone
               /\ Start(c, "Idle", IF state = "Checking" THEN checks + 1 ELSE checks)
      <3>1. \A r \in RunIds : r = runs => worker[r] = "over"
        BY <2>3 DEF LastRunIsDone, DoneIsOver
      <3>2. /\ ProgramsHaveWorkers' /\ RunsAreInOrder'
            /\ \A r \in RunIds : worker[r] = "over" => worker'[r] = "over"
            /\ state' = "Checking" => runs' = runs
        BY <2>3, <3>1, StartKeepsOrder
      <3>3. QueuedDoneIsOver'
        <4>1. \A i \in 1..Len(events) : events[i].kind = "done" => events[i].run \in RunIds
          BY DEF TypeOK, Events
        <4>2. QED
          BY <2>1, <3>2, <4>1 DEF QueuedDoneIsOver
      <3>4. DoneIsOver' /\ CheckingAfterDone'
        BY <2>1, <2>3, <3>2 DEF DoneIsOver, CheckingAfterDone, LastRunIsDone
      <3>5. QED
        BY <1>0, <3>2, <3>3, <3>4
    <2>4. QED
      BY <1>2, <2>2, <2>3 DEF StartWhenIdle, workerVars
  <1>3. ASSUME NEW c \in Choices, StartDirectly(c) PROVE OneProgramInv'
    BY <1>3 DEF StartDirectly
  <1>4. CASE Stop \/ Close \/ Retire \/ ConversionStarts \/ ConversionEnds \/ Terminated
    <2>1. UNCHANGED <<runs, worker, program, done, events>>
      BY <1>4 DEF Stop, Close, Retire, ConversionStarts, ConversionEnds, Terminated,
         vars, sessionVars, workerVars
    <2>2. state' = "Checking" => state = "Checking"
      BY <1>4 DEF Stop, Close, Retire, ConversionStarts, ConversionEnds, Terminated,
         vars, sessionVars
    <2>3. QED
      BY <1>0, <2>1, <2>2 DEF ProgramsHaveWorkers, RunsAreInOrder, QueuedDoneIsOver,
         DoneIsOver, CheckingAfterDone, LastRunIsDone
  <1>5. CASE CheckAnswered
    <2>1. UNCHANGED <<state, runs, worker, program, done>>
      BY <1>5 DEF CheckAnswered, sessionVars, workerVars
    <2>2. Head(asking) \in [check : Nat, choice : Choices]
      BY <1>5, QueueHead DEF CheckAnswered, TypeOK
    <2> DEFINE e == CheckedEvent(Head(asking).check, Head(asking).choice)
    <2>3. e \in Events /\ e.kind # "done"
      BY <2>2 DEF CheckedEvent, Events
    <2>4. events' = events \o <<e>>
      BY <1>5, <2>3 DEF CheckAnswered, TypeOK
    <2> HIDE DEF e
    <2>5. QueuedDoneIsOver'
      <3>1. <<e>> \in Seq(Events) /\ \A i \in 1..Len(<<e>>) : <<e>>[i].kind # "done"
        BY <2>3
      <3>2. \A r \in RunIds : worker[r] = "over" => worker'[r] = "over"
        BY <2>1
      <3>3. QED
        BY <2>4, <3>1, <3>2, QueueOther
    <2>6. QED
      BY <1>0, <2>1, <2>5 DEF ProgramsHaveWorkers, RunsAreInOrder, DoneIsOver,
         CheckingAfterDone, LastRunIsDone
  <1>6. ASSUME NEW r \in RunIds, Worker(r) PROVE OneProgramInv'
    <2>1. UNCHANGED <<state, runs, done>>
      BY <1>6 DEF Worker, SourceMade, SourceFailed, HeaderCame, StoppedBeforeHeader,
         FirstOfText, Snapshot, StreamEnded, StreamBrokeOff, OutputFailed, ProgramEnded,
         Finish, sessionVars
    <2>2. runs \in Nat /\ r \in Nat /\ worker[r] \notin {"none", "over"}
      BY <1>6, BoundsAssumption DEF Worker, SourceMade, SourceFailed, HeaderCame,
         StoppedBeforeHeader, FirstOfText, Snapshot, StreamEnded, StreamBrokeOff,
         OutputFailed, ProgramEnded, TypeOK, RunIds
    <2>3. r = runs
      BY <2>2 DEF RunsAreInOrder
    \* The worker of the latest run moves on; what it posts is not its done().
    <2>4. ASSUME NEW phase, worker' = [worker EXCEPT ![r] = phase],
                 \A x \in RunIds : program'[x] =>
                     (program[x] /\ x # r) \/ phase \in {"header", "packets", "ending"},
                 \A x \in RunIds \ {r} : program'[x] => program[x],
                 QueuedDoneIsOver'
          PROVE  OneProgramInv'
      <3>1. \A x \in RunIds : worker'[x] = IF x = r THEN phase ELSE worker[x]
        BY <2>4 DEF TypeOK
      <3>2. ProgramsHaveWorkers'
        BY <2>4, <3>1 DEF ProgramsHaveWorkers
      <3>3. RunsAreInOrder'
        BY <2>1, <2>2, <2>3, <3>1 DEF RunsAreInOrder, RunIds
      <3>4. DoneIsOver' /\ CheckingAfterDone'
        BY <2>1, <2>2, <3>1 DEF DoneIsOver, CheckingAfterDone, LastRunIsDone
      <3>5. QED
        BY <1>0, <2>4, <3>2, <3>3, <3>4
    <2>5. \A x \in RunIds : worker[x] = "over" => x # r
      BY <2>2
    <2>6. ASSUME NEW result \in Results, Finish(r, result) PROVE OneProgramInv'
      <3> DEFINE e == FinishedEvent(r, result)
      <3>1. e \in Events /\ e.kind # "done" /\ events' = events \o <<e>>
        BY <2>6 DEF Finish, FinishedEvent, Events, TypeOK
      <3> HIDE DEF e
      <3>2. /\ worker' = [worker EXCEPT ![r] = "ending"] /\ program' = program
            /\ \A x \in RunIds : worker[x] = "over" => worker'[x] = "over"
        BY <2>5, <2>6 DEF Finish, TypeOK
      <3>3. QueuedDoneIsOver'
        <4>1. <<e>> \in Seq(Events) /\ \A i \in 1..Len(<<e>>) : <<e>>[i].kind # "done"
          BY <3>1
        <4>2. QED
          BY <3>1, <3>2, <4>1, QueueOther
      <3>4. QED
        BY <2>4, <3>2, <3>3
    <2>7. CASE SourceMade(r) \/ HeaderCame(r)
      <3>1. /\ events' = events
            /\ \/ worker' = [worker EXCEPT ![r] = "header"]
               \/ worker' = [worker EXCEPT ![r] = "packets"]
            /\ \A x \in RunIds \ {r} : program'[x] => program[x]
        BY <2>7 DEF SourceMade, HeaderCame, TypeOK
      <3>2. \A x \in RunIds : worker[x] = "over" => worker'[x] = "over"
        BY <2>5, <3>1 DEF TypeOK
      <3>3. \A i \in 1..Len(events) : events[i].kind = "done" => events[i].run \in RunIds
        BY DEF TypeOK, Events
      <3>4. QueuedDoneIsOver'
        BY <3>1, <3>2, <3>3 DEF QueuedDoneIsOver
      <3>5. QED
        BY <2>4, <3>1, <3>4
    <2>8. CASE FirstOfText(r) \/ Snapshot(r)
      <3>1. UNCHANGED <<worker, program>>
        BY <2>8 DEF FirstOfText, Snapshot
      <3>2. PICK new \in Seq(Events) : /\ events' = events \o new
                                       /\ \A i \in 1..Len(new) : new[i].kind # "done"
        <4>1. CASE Snapshot(r)
          <5>1. RunEvent("snapshot", r) \in Events
            BY DEF RunEvent, Events
          <5>2. /\ <<RunEvent("snapshot", r)>> \in Seq(Events)
                /\ events' = events \o <<RunEvent("snapshot", r)>>
            BY <4>1, <5>1 DEF Snapshot, TypeOK
          <5>3. \A i \in 1..1 : <<RunEvent("snapshot", r)>>[i].kind # "done"
            BY DEF RunEvent
          <5>4. QED
            BY <5>2, <5>3
        <4>2. CASE FirstOfText(r)
          <5> DEFINE new == <<ReadyToOpenEvent(r, sent[r] + 1), RunEvent("snapshot", r)>>
          <5>1. sent[r] + 1 \in FileIds
            BY <4>2, BoundsAssumption DEF FirstOfText, TypeOK, FileIds
          <5>2. new \in Seq(Events) /\ Len(new) = 2
            BY <5>1 DEF RunEvent, ReadyToOpenEvent, Events
          <5>3. new[1].kind # "done" /\ new[2].kind # "done"
            BY DEF RunEvent, ReadyToOpenEvent
          <5>4. events' = events \o new
            BY <4>2 DEF FirstOfText
          <5> HIDE DEF new
          <5>5. \A i \in 1..Len(new) : new[i].kind # "done"
            <6>1. ASSUME NEW i \in 1..Len(new) PROVE i = 1 \/ i = 2
              BY <5>2
            <6>2. QED
              BY <5>3, <6>1
          <5>6. QED
            BY <5>2, <5>4, <5>5
        <4>3. QED
          BY <2>8, <4>1, <4>2
      <3>3. QueuedDoneIsOver'
        BY <3>1, <3>2, QueueOther
      <3>4. QED
        BY <1>0, <2>1, <3>1, <3>3 DEF ProgramsHaveWorkers, RunsAreInOrder, DoneIsOver,
           CheckingAfterDone, LastRunIsDone
    <2>9. CASE ProgramEnded(r)
      <3> DEFINE e == RunEvent("done", r)
      <3>1. /\ worker' = [worker EXCEPT ![r] = "over"]
            /\ program' = [program EXCEPT ![r] = FALSE]
            /\ events' = Append(events, e)
        BY <2>9 DEF ProgramEnded
      <3>2. \A x \in RunIds : worker'[x] = IF x = r THEN "over" ELSE worker[x]
        BY <3>1 DEF TypeOK
      <3>3. QueuedDoneIsOver'
        <4>1. events \in Seq(Events) /\ Len(events) \in Nat
          BY DEF TypeOK
        <4>2. ASSUME NEW i \in 1..Len(events'), events'[i].kind = "done"
              PROVE  worker'[events'[i].run] = "over"
          <5>1. CASE i = Len(events) + 1
            BY <3>1, <3>2, <4>1, <5>1 DEF RunEvent
          <5>2. CASE i # Len(events) + 1
            <6>1. i \in 1..Len(events) /\ events'[i] = events[i]
              BY <3>1, <4>1, <5>2
            <6>2. events[i] \in Events /\ events[i].run \in RunIds
              BY <4>1, <4>2, <6>1 DEF Events
            <6>3. QED
              BY <3>2, <4>2, <6>1, <6>2 DEF QueuedDoneIsOver
          <5>3. QED
            BY <5>1, <5>2
        <4>3. QED
          BY <4>2 DEF QueuedDoneIsOver
      <3>4. \A x \in RunIds : program'[x] => program[x] /\ x # r
        BY <3>1 DEF TypeOK
      <3>5. QED
        BY <2>4, <3>1, <3>3, <3>4
    <2>10. CASE \/ SourceFailed(r) \/ StoppedBeforeHeader(r) \/ StreamEnded(r)
                \/ StreamBrokeOff(r) \/ OutputFailed(r)
      BY <2>6, <2>10 DEF SourceFailed, StoppedBeforeHeader, StreamEnded, StreamBrokeOff,
                         OutputFailed, Results
    <2>11. QED
      BY <1>6, <2>7, <2>8, <2>9, <2>10 DEF Worker
  <1>7. CASE EventLoop
    <2>1. events # << >> /\ events' = Tail(events)
      BY <1>7 DEF EventLoop, Checked, OpenFile, TakeSnapshot, Finished, RunDone, Deliver
    <2>2. Head(events) \in Events /\ Head(events) = events[1] /\ 1 \in 1..Len(events)
      BY <2>1, QueueHead DEF TypeOK
    <2>3. CASE Checked
      <3>1. UNCHANGED done
        BY <2>3 DEF Checked
      <3>2. CASE state' = "Idle" /\ UNCHANGED <<runs, workerVars>>
        <4>1. QueuedDoneIsOver'
          BY <2>1, <3>2, DeliverKeepsQueue DEF workerVars
        <4>2. QED
          BY <1>0, <3>1, <3>2, <4>1 DEF workerVars, ProgramsHaveWorkers, RunsAreInOrder,
             DoneIsOver, CheckingAfterDone
      <3>3. CASE UNCHANGED <<sessionVars, workerVars>>
        <4>1. QueuedDoneIsOver'
          BY <2>1, <3>3, DeliverKeepsQueue DEF workerVars
        <4>2. QED
          BY <1>0, <3>1, <3>3, <4>1 DEF sessionVars, workerVars, ProgramsHaveWorkers,
             RunsAreInOrder, DoneIsOver, CheckingAfterDone, LastRunIsDone
      <3>4. CASE state = "Checking" /\ Run(Head(events).choice)
        <4>1. \A r \in RunIds : r = runs => worker[r] = "over"
          BY <3>4 DEF CheckingAfterDone, LastRunIsDone, DoneIsOver
        <4>2. /\ ProgramsHaveWorkers' /\ RunsAreInOrder'
              /\ \A r \in RunIds : worker[r] = "over" => worker'[r] = "over"
          BY <3>4, <4>1, RunKeepsOrder
        <4>3. QueuedDoneIsOver'
          BY <2>1, <4>2, DeliverKeepsQueue
        <4>4. DoneIsOver' /\ CheckingAfterDone'
          BY <3>1, <3>4, <4>2 DEF DoneIsOver, CheckingAfterDone, Run
        <4>5. QED
          BY <1>0, <4>2, <4>3, <4>4
      <3>5. QED
        BY <2>3, <3>2, <3>3, <3>4 DEF Checked
    <2>4. CASE OpenFile \/ TakeSnapshot \/ Finished
      <3>1. UNCHANGED <<runs, worker, program, done>>
        BY <2>4 DEF OpenFile, TakeSnapshot, Finished, sessionVars, workerVars
      <3>2. state' = "Checking" => state = "Checking"
        BY <2>4 DEF OpenFile, TakeSnapshot, Finished, sessionVars
      <3>3. QueuedDoneIsOver'
        BY <2>1, <3>1, DeliverKeepsQueue
      <3>4. QED
        BY <1>0, <3>1, <3>2, <3>3 DEF ProgramsHaveWorkers, RunsAreInOrder, DoneIsOver,
           CheckingAfterDone, LastRunIsDone
    <2>5. CASE RunDone
      <3> DEFINE d == Head(events).run
      <3>1. d \in RunIds /\ worker[d] = "over"
        BY <2>2, <2>5 DEF RunDone, Deliver, Events, QueuedDoneIsOver
      <3>2. \A r \in RunIds : done'[r] = (r = d \/ done[r])
        BY <2>5, <3>1, Zenon DEF RunDone, TypeOK
      <3>3. CASE UNCHANGED <<sessionVars, catalogVars, workerVars, asking>>
        <4>1. QueuedDoneIsOver'
          BY <2>1, <3>3, DeliverKeepsQueue DEF workerVars
        <4>2. DoneIsOver' /\ CheckingAfterDone'
          BY <3>1, <3>2, <3>3 DEF workerVars, sessionVars, DoneIsOver, CheckingAfterDone,
             LastRunIsDone
        <4>3. QED
          BY <1>0, <3>3, <4>1, <4>2 DEF workerVars, sessionVars, ProgramsHaveWorkers,
             RunsAreInOrder
      <3>4. CASE d = runs /\ Start(pending, state, checks)
        <4>1. \A r \in RunIds : r = runs => worker[r] = "over"
          BY <3>1, <3>4
        <4>2. /\ ProgramsHaveWorkers' /\ RunsAreInOrder'
              /\ \A r \in RunIds : worker[r] = "over" => worker'[r] = "over"
              /\ state' = "Checking" => runs' = runs
          BY <3>4, <4>1, StartKeepsOrder
        <4>3. QueuedDoneIsOver'
          BY <2>1, <4>2, DeliverKeepsQueue
        <4>4. DoneIsOver' /\ CheckingAfterDone'
          BY <3>1, <3>2, <3>4, <4>2 DEF DoneIsOver, CheckingAfterDone, LastRunIsDone
        <4>5. QED
          BY <1>0, <4>2, <4>3, <4>4
      <3>5. QED
        BY <2>5, <3>3, <3>4 DEF RunDone, Listening
    <2>6. QED
      BY <1>7, <2>3, <2>4, <2>5 DEF EventLoop
  <1>8. CASE Join
    <2>1. UNCHANGED <<state, runs, worker, program, done>> /\ events' = << >>
      BY <1>8 DEF Join, sessionVars, workerVars
    <2>2. QED
      BY <1>0, <2>1 DEF ProgramsHaveWorkers, RunsAreInOrder, QueuedDoneIsOver, DoneIsOver,
         CheckingAfterDone, LastRunIsDone
  <1>9. QED
    BY <1>1, <1>2, <1>3, <1>4, <1>5, <1>6, <1>7, <1>8 DEF Next, User

\* Started as the app starts them, by startWhenIdle() and the pending start of
\* runDone(), two capture programs never run at once: however often the user
\* starts and stops, and however late the workers' events are delivered.
THEOREM OneProgramAtATime == ASSUME DirectStarts = FALSE PROVE Spec => []OneProgram
  <1>1. Init => OneProgramInv
    <2> SUFFICES ASSUME Init PROVE OneProgramInv
      OBVIOUS
    <2>1. TypeOK
      BY InitTypeOK
    <2>2. QED
      BY <2>1 DEF Init, OneProgramInv, ProgramsHaveWorkers, RunsAreInOrder, QueuedDoneIsOver,
         DoneIsOver, CheckingAfterDone, RunIds
  <1>2. OneProgramInv /\ [Next]_vars => OneProgramInv'
    BY OneProgramStep
  <1>3. OneProgramInv => OneProgram
    <2> SUFFICES ASSUME OneProgramInv, NEW r \in RunIds, NEW s \in RunIds, program[r], program[s]
                 PROVE  r = s
      BY DEF OneProgram
    <2>1. runs \in Nat /\ r \in Nat /\ s \in Nat
      BY BoundsAssumption DEF OneProgramInv, TypeOK, RunIds
    <2>2. worker[r] \notin {"none", "over"} /\ worker[s] \notin {"none", "over"}
      BY DEF OneProgramInv, ProgramsHaveWorkers
    <2>3. QED
      BY <2>1, <2>2 DEF OneProgramInv, RunsAreInOrder
  <1>4. QED
    BY <1>1, <1>2, <1>3, PTL DEF Spec

-----------------------------------------------------------------------------
(* The event queue, as the set of what waits in it, and what each kind of  *)
(* step does to the queue and to the session.                              *)

\* The events that wait in a queue.
Waiting(q) == {q[i] : i \in 1..Len(q)}

\* Appending an event to a queue adds that one to those that wait.
LEMMA WaitingAppend ==
    ASSUME NEW S, NEW q \in Seq(S), NEW e
    PROVE  Waiting(Append(q, e)) = Waiting(q) \union {e}
  <1>1. /\ Len(Append(q, e)) = Len(q) + 1 /\ Len(q) \in Nat
        /\ \A i \in 1..Len(q) : Append(q, e)[i] = q[i]
        /\ Append(q, e)[Len(q) + 1] = e
    BY AppendProperties
  <1> DEFINE a == Append(q, e)
  <1> HIDE DEF a
  <1>2. ASSUME NEW x \in Waiting(a) PROVE x \in Waiting(q) \union {e}
    <2>1. PICK i \in 1..Len(a) : x = a[i]
      BY DEF Waiting
    <2>2. i \in 1..Len(q) \/ i = Len(q) + 1
      BY <1>1 DEF a
    <2>3. QED
      BY <1>1, <2>1, <2>2 DEF Waiting, a
  <1>3. ASSUME NEW x \in Waiting(q) \union {e} PROVE x \in Waiting(a)
    <2>1. CASE x = e
      <3>1. Len(q) + 1 \in 1..Len(a) /\ a[Len(q) + 1] = x
        BY <1>1, <2>1 DEF a
      <3>2. QED
        BY <3>1 DEF Waiting
    <2>2. CASE x \in Waiting(q)
      <3>1. PICK i \in 1..Len(q) : x = q[i]
        BY <2>2 DEF Waiting
      <3>2. i \in 1..Len(a) /\ a[i] = x
        BY <1>1, <3>1 DEF a
      <3>3. QED
        BY <3>2 DEF Waiting
    <2>3. QED
      BY <2>1, <2>2
  <1>4. QED
    BY <1>2, <1>3 DEF a

\* Taking the head of a queue leaves no event that did not wait.
LEMMA WaitingTail ==
    ASSUME NEW S, NEW q \in Seq(S), q # << >>
    PROVE  /\ Waiting(Tail(q)) \subseteq Waiting(q) /\ Head(q) \in Waiting(q)
           /\ Waiting(q) \subseteq S
  <1>1. /\ \A i \in 1..Len(Tail(q)) : i + 1 \in 1..Len(q) /\ Tail(q)[i] = q[i + 1]
        /\ Head(q) = q[1] /\ 1 \in 1..Len(q)
    BY QueueHead
  <1>2. QED
    BY <1>1 DEF Waiting

\* What waits in a typed queue has the type.
LEMMA WaitingTyped == ASSUME NEW S, NEW q \in Seq(S) PROVE Waiting(q) \subseteq S
  BY DEF Waiting

\* What the workers and the check worker append to the queue, and the UI thread
\* takes from it.
LEMMA FirstOfTextEvents ==
    ASSUME TypeOK, NEW r \in RunIds, FirstOfText(r)
    PROVE  /\ sent[r] + 1 \in FileIds
           /\ events' = Append(Append(events, ReadyToOpenEvent(r, sent[r] + 1)), RunEvent("snapshot", r))
           /\ Append(events, ReadyToOpenEvent(r, sent[r] + 1)) \in Seq(Events)
           /\ ReadyToOpenEvent(r, sent[r] + 1) \in Events /\ RunEvent("snapshot", r) \in Events
           /\ Waiting(events') = Waiting(events)
                  \union {ReadyToOpenEvent(r, sent[r] + 1), RunEvent("snapshot", r)}
  <1>1. sent[r] + 1 \in FileIds
    BY BoundsAssumption DEF FirstOfText, TypeOK, FileIds
  <1>2. ReadyToOpenEvent(r, sent[r] + 1) \in Events /\ RunEvent("snapshot", r) \in Events
    BY <1>1 DEF ReadyToOpenEvent, RunEvent, Events
  <1> DEFINE a == ReadyToOpenEvent(r, sent[r] + 1)
             b == RunEvent("snapshot", r)
  <1> HIDE DEF a, b
  <1>3. events \o <<a, b>> = Append(Append(events, a), b)
    BY <1>2 DEF TypeOK, a, b
  <1>4. /\ events' = Append(Append(events, a), b) /\ a \in Events /\ b \in Events
        /\ events \in Seq(Events) /\ Append(events, a) \in Seq(Events)
    BY <1>2, <1>3 DEF FirstOfText, a, b, TypeOK
  <1>5. Waiting(events') = (Waiting(events) \union {a}) \union {b}
    BY <1>4, WaitingAppend
  <1>6. QED
    BY <1>1, <1>4, <1>5 DEF a, b

\* A step of a worker leaves the session, the catalog and the UI thread as they are;
\* the ways it ends its run are one step, Finish.
LEMMA WorkerSteps ==
    ASSUME TypeOK, NEW r \in RunIds, Worker(r)
    PROVE  /\ UNCHANGED <<sessionVars, catalogVars, stop, done, asking, converting, ui, asked>>
           /\ \/ SourceMade(r)
              \/ HeaderCame(r)
              \/ FirstOfText(r)
              \/ Snapshot(r)
              \/ ProgramEnded(r)
              \/ \E result \in Results :
                    worker[r] \in {"opening", "header", "packets"} /\ Finish(r, result)
  <1>1. UNCHANGED <<sessionVars, catalogVars, stop, done, asking, converting, ui, asked>>
    BY DEF Worker, SourceMade, SourceFailed, HeaderCame, StoppedBeforeHeader,
       FirstOfText, Snapshot, StreamEnded, StreamBrokeOff, OutputFailed, ProgramEnded, Finish
  <1>2. QED
    BY <1>1 DEF Worker, SourceFailed, StoppedBeforeHeader, StreamEnded, StreamBrokeOff,
       OutputFailed, Results

\* start() refuses, checks or starts; it does the last two in an idle session only, and
\* never while a file is converted.
LEMMA StartSteps ==
    ASSUME TypeOK, NEW c, NEW st, NEW ck, Start(c, st, ck)
    PROVE  \/ /\ state' = st /\ checks' = ck
              /\ UNCHANGED <<choice, runs, files, outcome, catalogVars, workerVars, asking>>
           \/ /\ st = "Idle" /\ ~converting
              /\ state' = "Checking" /\ checks' = ck + 1 /\ choice' = c
              /\ asking' = Append(asking, [check |-> ck + 1, choice |-> c])
              /\ UNCHANGED <<runs, files, outcome, catalogVars, workerVars>>
           \/ /\ st = "Idle" /\ ~converting
              /\ Run(c) /\ checks' = ck /\ asking' = asking
  BY DEF Start, refuseWhileBusy, activityRefusal, TypeOK

-----------------------------------------------------------------------------
(* A live capture excludes a conversion: inductive as it stands.           *)

\* The exclusion is kept by every step: each activity asks the rule as it starts.
LEMMA ExclusionStep == TypeOK /\ CaptureExcludesConversion /\ [Next]_vars => CaptureExcludesConversion'
  <1> SUFFICES ASSUME TypeOK, CaptureExcludesConversion, [Next]_vars
               PROVE  CaptureExcludesConversion'
    OBVIOUS
  <1> USE DEF CaptureExcludesConversion
  <1>1. CASE UNCHANGED <<state, converting>>
    BY <1>1
  <1>2. ASSUME NEW c, NEW st, NEW ck, Start(c, st, ck), converting' = converting,
               st \in {"Idle", state}
        PROVE  CaptureExcludesConversion'
    BY <1>2, StartSteps
  <1>3. ASSUME NEW c \in Choices, StartWhenIdle(c) PROVE CaptureExcludesConversion'
    BY <1>2, <1>3 DEF StartWhenIdle
  <1>4. ASSUME NEW c \in Choices, StartDirectly(c) PROVE CaptureExcludesConversion'
    BY <1>2, <1>4 DEF StartDirectly
  <1>5. CASE Stop
    BY <1>5 DEF Stop
  <1>6. ASSUME NEW r \in RunIds, Worker(r) PROVE CaptureExcludesConversion'
    BY <1>1, <1>6, WorkerSteps DEF sessionVars
  <1>7. CASE EventLoop
    <2>1. converting' = converting
      BY <1>7 DEF EventLoop, Checked, OpenFile, TakeSnapshot, Finished, RunDone, Deliver
    <2>2. CASE Checked
      BY <2>1, <2>2 DEF Checked, sessionVars
    <2>3. CASE OpenFile \/ TakeSnapshot \/ Finished
      BY <2>1, <2>3 DEF OpenFile, TakeSnapshot, Finished, sessionVars
    <2>4. CASE RunDone
      BY <1>2, <2>1, <2>4 DEF RunDone, sessionVars
    <2>5. QED
      BY <1>7, <2>2, <2>3, <2>4 DEF EventLoop
  <1>8. CASE ConversionStarts
    BY <1>8 DEF ConversionStarts, activityRefusal, sessionVars
  <1>9. CASE ConversionEnds
    BY <1>9 DEF ConversionEnds, sessionVars
  <1>10. CASE CheckAnswered \/ Close \/ Retire \/ Join \/ Terminated \/ UNCHANGED vars
    BY <1>1, <1>10 DEF CheckAnswered, Close, Retire, Join, Terminated, vars, sessionVars
  <1>11. QED
    BY <1>3, <1>4, <1>5, <1>6, <1>7, <1>8, <1>9, <1>10 DEF Next, User

\* A live capture and a file conversion never run together, however the capture is
\* started, by start() or by startWhenIdle(), and however late its check's answer or the end
\* of the last run comes (activity.cpp: activityRefusal, asked by both sessions).
THEOREM OneActivityAtATime == Spec => []CaptureExcludesConversion
  <1>1. Init => CaptureExcludesConversion
    BY DEF Init, CaptureExcludesConversion
  <1>2. QED
    BY <1>1, InitTypeOK, TypeOKStep, ExclusionStep, PTL DEF Spec

-----------------------------------------------------------------------------
(* The ends are quiet.  What Idle and closed say of the workers rests on what*)
(* the queue says of them: finished() is told of ended captures only, and of*)
(* runs that were started.                                                 *)

\* The capture of run r has ended, its program perhaps not.
HasEnded(r) == worker[r] \in {"ending", "over"}

\* The runs after the latest have not started, have sent nothing and are not done.
LaterRunsAreNew == \A r \in RunIds : r > runs => worker[r] = "none" /\ sent[r] = 0 /\ ~done[r]

\* What a queued event of a run says of it: the run was started, and finished() is told of
\* a capture that has ended only.
RunEventIsTrue(e) ==
    e.kind # "checked" => e.run <= runs /\ (e.kind = "finished" => HasEnded(e.run))
\* So it is of all that waits in the queue.
EventsAreTrue == \A e \in Waiting(events) : RunEventIsTrue(e)

\* The shutdown lets go of the run only after the check worker's last answer.
JoinedAfterChecks == ui \in {"joining", "closed"} => asking = << >>

\* What the quiet ends rest on.
QuietInv ==
    /\ LaterRunsAreNew
    /\ EventsAreTrue
    /\ ProgramsHaveWorkers
    /\ JoinedAfterChecks
    /\ IdleMeansEnded
    /\ ClosedIsQuiet

\* What waits in the queue stays true, as runs only go up and ended captures stay ended.
LEMMA TruthIsKept ==
    ASSUME TypeOK, EventsAreTrue, runs \in Nat, runs' \in Nat, runs' >= runs,
           \A r \in RunIds : r <= runs /\ HasEnded(r) => HasEnded(r)'
    PROVE  \A e \in Waiting(events) : RunEventIsTrue(e)'
  <1>1. ASSUME NEW e \in Waiting(events) PROVE RunEventIsTrue(e)'
    <2>1. e \in Events
      BY WaitingTyped DEF TypeOK
    <2>2. SUFFICES ASSUME e.kind # "checked"
                   PROVE  e.run <= runs' /\ (e.kind = "finished" => HasEnded(e.run)')
      BY DEF RunEventIsTrue, HasEnded
    <2>3. e.run \in RunIds /\ e.run \in Nat
      BY <2>1, <2>2 DEF Events, RunIds
    <2>4. e.run <= runs /\ (e.kind = "finished" => HasEnded(e.run))
      BY <2>2 DEF EventsAreTrue, RunEventIsTrue
    <2>5. QED
      BY <2>3, <2>4
  <1>2. QED
    BY <1>1

\* The invariant as a run is started.
LEMMA RunQuiet ==
    ASSUME TypeOK, QuietInv, NEW c, Run(c), UNCHANGED <<asking, ui>>, ui = "running",
           \A r \in RunIds : r > runs => done'[r] = done[r],
           Waiting(events') \subseteq Waiting(events)
    PROVE  QuietInv'
  <1>1. runs \in Nat /\ runs + 1 \in RunIds /\ runs' = runs + 1
    BY BoundsAssumption DEF TypeOK, Run, RunIds
  <1>2. /\ worker' = [worker EXCEPT ![runs + 1] = "opening"] /\ UNCHANGED <<program, sent>>
        /\ state' = "Capturing"
    BY DEF Run
  <1>3. \A r \in RunIds : worker'[r] = IF r = runs + 1 THEN "opening" ELSE worker[r]
    BY <1>1, <1>2 DEF TypeOK
  <1>4. worker[runs + 1] = "none"
    BY <1>1 DEF QuietInv, LaterRunsAreNew
  <1>5. LaterRunsAreNew'
    BY <1>1, <1>2, <1>3 DEF QuietInv, LaterRunsAreNew, RunIds
  <1>6. EventsAreTrue'
    <2>1. \A r \in RunIds : r <= runs /\ HasEnded(r) => HasEnded(r)'
      BY <1>1, <1>3 DEF HasEnded, RunIds
    <2>2. \A e \in Waiting(events) : RunEventIsTrue(e)'
      BY <1>1, <2>1, TruthIsKept DEF QuietInv
    <2>3. QED
      BY <2>2 DEF EventsAreTrue
  <1>7. ProgramsHaveWorkers'
    BY <1>2, <1>3, <1>4 DEF QuietInv, ProgramsHaveWorkers
  <1>8. QED
    BY <1>2, <1>5, <1>6, <1>7 DEF QuietInv, JoinedAfterChecks, IdleMeansEnded, ClosedIsQuiet

\* The invariant in a step that starts no run and moves no worker.
LEMMA RestQuiet ==
    ASSUME TypeOK, QuietInv, UNCHANGED <<runs, worker, program, sent>>,
           \A r \in RunIds : r > runs => done'[r] = done[r],
           state' \in {"Idle", "Checking"} => state \in {"Idle", "Checking"} \/ HasEnded(runs),
           ui' \in {"joining", "closed"} => asking' = << >>,
           ui' = "closed" => ui = "closed",
           ui' = "closed" => events' = << >>,
           Waiting(events') \subseteq Waiting(events)
    PROVE  QuietInv'
  <1>1. runs \in Nat
    BY BoundsAssumption DEF TypeOK
  <1>2. LaterRunsAreNew'
    BY DEF QuietInv, LaterRunsAreNew
  <1>3. EventsAreTrue'
    BY <1>1 DEF QuietInv, EventsAreTrue, RunEventIsTrue, HasEnded
  <1>4. ProgramsHaveWorkers' /\ JoinedAfterChecks'
    BY DEF QuietInv, ProgramsHaveWorkers, JoinedAfterChecks
  <1>5. IdleMeansEnded'
    BY <1>1 DEF QuietInv, IdleMeansEnded, HasEnded
  <1>6. ClosedIsQuiet'
    BY DEF QuietInv, ClosedIsQuiet
  <1>7. QED
    BY <1>2, <1>3, <1>4, <1>5, <1>6 DEF QuietInv

\* Every step keeps the invariant.
LEMMA QuietStep == TypeOK /\ QuietInv /\ [Next]_vars => QuietInv'
  <1> SUFFICES ASSUME TypeOK, QuietInv, [Next]_vars PROVE QuietInv'
    OBVIOUS
  <1>0. runs \in Nat /\ runs \in 0..MaxRuns
    BY BoundsAssumption DEF TypeOK
  <1>1. CASE UNCHANGED vars
    BY <1>1, RestQuiet DEF vars, sessionVars, workerVars, QuietInv, JoinedAfterChecks, ClosedIsQuiet
  <1>2. ASSUME NEW c, NEW st, NEW ck, Start(c, st, ck), ui = "running", ui' = ui,
               \A r \in RunIds : r > runs => done'[r] = done[r], 
               st \in {"Idle", "Checking"} => state \in {"Idle", "Checking"} \/ HasEnded(runs),
               Waiting(events') \subseteq Waiting(events)
        PROVE  QuietInv'
    <2>1. CASE Run(c) /\ asking' = asking
      BY <1>2, <2>1, RunQuiet
    <2>2. CASE /\ UNCHANGED <<runs, worker, program, sent>>
               /\ state' \in {st, "Checking"}
               /\ (state' = "Checking" => st \in {"Idle", "Checking"})
      BY <1>2, <2>2, RestQuiet
    <2>3. QED
      BY <1>2, <2>1, <2>2, StartSteps DEF workerVars
  <1>3. ASSUME NEW c \in Choices, StartWhenIdle(c) PROVE QuietInv'
    <2>1. ui = "running" /\ UNCHANGED <<done, events, ui>>
      BY <1>3 DEF StartWhenIdle
    <2>2. CASE state \in {"Capturing", "Stopping"} /\ state' = "Stopping"
      BY <1>3, <2>1, <2>2, RestQuiet DEF StartWhenIdle
    <2>3. CASE state \in {"Idle", "Checking"} /\ state' = "Idle" /\ UNCHANGED workerVars /\ runs' = runs
      BY <1>3, <2>1, <2>3, RestQuiet DEF workerVars
    <2>4. CASE /\ state \in {"Idle", "Checking"}
               /\ Start(c, "Idle", IF state = "Checking" THEN checks + 1 ELSE checks)
      BY <1>2, <2>1, <2>4
    <2>5. QED
      BY <1>3, <2>2, <2>3, <2>4 DEF StartWhenIdle
  <1>4. ASSUME NEW c \in Choices, StartDirectly(c) PROVE QuietInv'
    BY <1>2, <1>4 DEF StartDirectly
  <1>5. CASE Stop
    BY <1>5, RestQuiet DEF Stop
  <1>6. CASE Close \/ ConversionStarts \/ ConversionEnds
    BY <1>6, RestQuiet DEF Close, ConversionStarts, ConversionEnds, sessionVars, workerVars,
       QuietInv, JoinedAfterChecks, ClosedIsQuiet
  <1>7. CASE Retire
    BY <1>7, RestQuiet DEF Retire, sessionVars
  <1>8. CASE Join
    <2>1. UNCHANGED <<sessionVars, workerVars, done, asking>> /\ events' = << >> /\ asking = << >>
      BY <1>8 DEF Join, QuietInv, JoinedAfterChecks
    <2>2. LaterRunsAreNew' /\ ProgramsHaveWorkers' /\ JoinedAfterChecks'
      BY <2>1 DEF QuietInv, LaterRunsAreNew, ProgramsHaveWorkers, JoinedAfterChecks, sessionVars,
         workerVars
    <2>3. EventsAreTrue'
      BY <2>1 DEF EventsAreTrue, Waiting
    <2>4. IdleMeansEnded'
      BY <2>1 DEF QuietInv, IdleMeansEnded, sessionVars, workerVars
    <2>5. ClosedIsQuiet'
      <3>1. \A r \in RunIds : worker[r] \in {"none", "over"} /\ ~program[r]
        BY <1>8 DEF Join, QuietInv, ProgramsHaveWorkers
      <3>2. QED
        BY <2>1, <3>1 DEF ClosedIsQuiet, workerVars
    <2>6. QED
      BY <2>2, <2>3, <2>4, <2>5 DEF QuietInv
  <1>9. CASE EventLoop
    <2>1. /\ ui = "running" /\ ui' = ui /\ events # << >> /\ events' = Tail(events)
      BY <1>9 DEF EventLoop, Checked, OpenFile, TakeSnapshot, Finished, RunDone, Deliver
    <2>2. /\ Waiting(events') \subseteq Waiting(events)
          /\ Head(events) \in Waiting(events) /\ Head(events) \in Events
      BY <2>1, WaitingTail DEF TypeOK
    <2>3. RunEventIsTrue(Head(events))
      BY <2>2 DEF QuietInv, EventsAreTrue
    <2>4. CASE Checked
      <3>1. UNCHANGED <<done, asking>>
        BY <2>4 DEF Checked
      <3>2. CASE UNCHANGED <<sessionVars, workerVars>>
        BY <2>1, <2>2, <3>1, <3>2, RestQuiet DEF sessionVars, workerVars
      <3>3. CASE state = "Checking" /\ state' = "Idle" /\ UNCHANGED <<runs, workerVars>>
        BY <2>1, <2>2, <3>1, <3>3, RestQuiet DEF workerVars
      <3>4. CASE Run(Head(events).choice)
        BY <2>1, <2>2, <3>1, <3>4, RunQuiet
      <3>5. QED
        BY <2>4, <3>2, <3>3, <3>4 DEF Checked
    <2>5. CASE OpenFile \/ TakeSnapshot
      BY <2>1, <2>2, <2>5, RestQuiet DEF OpenFile, TakeSnapshot, sessionVars, workerVars
    <2>6. CASE Finished
      <3>1. Head(events).kind = "finished"
        BY <2>6 DEF Finished, Deliver
      <3>2. Listening(Head(events).run) => HasEnded(runs)
        BY <2>3, <3>1 DEF RunEventIsTrue, Listening
      <3>3. UNCHANGED <<runs, workerVars, done, asking>> /\ (state' = state \/ Listening(Head(events).run))
        BY <2>6 DEF Finished
      <3>4. QED
        BY <2>1, <2>2, <3>2, <3>3, RestQuiet DEF workerVars
    <2>7. CASE RunDone
      <3>1. Head(events).kind = "done" /\ done' = [done EXCEPT ![Head(events).run] = TRUE]
        BY <2>7 DEF RunDone, Deliver
      <3>2. Head(events).run \in RunIds /\ Head(events).run <= runs
        BY <2>2, <2>3, <3>1 DEF RunEventIsTrue, Events
      <3>3. ASSUME NEW r \in RunIds, r > runs PROVE done'[r] = done[r]
        <4>1. r # Head(events).run
          BY <1>0, <3>2, <3>3 DEF RunIds
        <4>2. QED
          BY <3>1, <4>1, Zenon DEF TypeOK
      <3>4. CASE UNCHANGED <<sessionVars, workerVars, asking>>
        BY <2>1, <2>2, <3>3, <3>4, RestQuiet DEF sessionVars, workerVars
      <3>5. CASE Start(pending, state, checks)
        BY <1>2, <2>1, <2>2, <3>3, <3>5
      <3>6. QED
        BY <2>7, <3>4, <3>5 DEF RunDone
    <2>8. QED
      BY <1>9, <2>4, <2>5, <2>6, <2>7 DEF EventLoop
  <1>10. CASE CheckAnswered
    <2> DEFINE e == CheckedEvent(Head(asking).check, Head(asking).choice)
    <2>1. e.kind = "checked" /\ events' = Append(events, e)
      BY <1>10 DEF CheckAnswered, CheckedEvent
    <2>2. /\ UNCHANGED <<sessionVars, workerVars, done, ui>>
          /\ asking # << >>
      BY <1>10 DEF CheckAnswered
    <2> HIDE DEF e
    <2>3. Waiting(events') = Waiting(events) \union {e}
      BY <2>1, WaitingAppend DEF TypeOK
    <2>4. EventsAreTrue'
      BY <2>1, <2>2, <2>3 DEF QuietInv, EventsAreTrue, RunEventIsTrue, HasEnded, sessionVars,
         workerVars
    <2>5. QED
      BY <2>2, <2>4 DEF QuietInv, LaterRunsAreNew, ProgramsHaveWorkers, JoinedAfterChecks,
         IdleMeansEnded, ClosedIsQuiet, sessionVars, workerVars
  <1>11. ASSUME NEW r \in RunIds, Worker(r) PROVE QuietInv'
    <2>1. UNCHANGED <<sessionVars, done, asking, ui>>
      BY <1>11, WorkerSteps
    <2>2. worker[r] \notin {"none", "over"} /\ ui # "closed" /\ r <= runs /\ r \in Nat
      <3>1. worker[r] \notin {"none", "over"}
        BY <1>11 DEF Worker, SourceMade, SourceFailed, HeaderCame, StoppedBeforeHeader,
           FirstOfText, Snapshot, StreamEnded, StreamBrokeOff, OutputFailed, ProgramEnded
      <3>2. QED
        BY <1>0, <3>1 DEF QuietInv, LaterRunsAreNew, ClosedIsQuiet, RunIds
    \* What holds of the workers' variables, given what they are and what is posted.
    <2>3. ASSUME NEW phase \in Phases, worker' = [worker EXCEPT ![r] = phase], phase # "none",
                 HasEnded(r) => phase \in {"ending", "over"},
                 \A x \in RunIds \ {r} : sent'[x] = sent[x] /\ program'[x] = program[x],
                 program'[r] => phase \in {"header", "packets", "ending"},
                 NEW new, Waiting(events') = Waiting(events) \union new,
                 \A e \in new : RunEventIsTrue(e)'
          PROVE  QuietInv'
      <3>1. \A x \in RunIds : worker'[x] = IF x = r THEN phase ELSE worker[x]
        BY <2>3 DEF TypeOK
      <3>2. LaterRunsAreNew'
        BY <2>1, <2>2, <2>3, <3>1, <1>0 DEF QuietInv, LaterRunsAreNew, sessionVars, RunIds
      <3>3. EventsAreTrue'
        <4>1. \A x \in RunIds : x <= runs /\ HasEnded(x) => HasEnded(x)'
          BY <2>3, <3>1 DEF HasEnded
        <4>2. \A e \in Waiting(events) : RunEventIsTrue(e)'
          BY <1>0, <2>1, <4>1, TruthIsKept DEF QuietInv, sessionVars
        <4>3. QED
          BY <2>3, <4>2 DEF EventsAreTrue
      <3>4. ProgramsHaveWorkers'
        BY <2>3, <3>1 DEF QuietInv, ProgramsHaveWorkers
      <3>5. IdleMeansEnded'
        BY <1>0, <2>1, <2>3, <3>1 DEF QuietInv, IdleMeansEnded, HasEnded, sessionVars, RunIds
      <3>6. QED
        BY <2>1, <2>2, <3>2, <3>3, <3>4, <3>5 DEF QuietInv, JoinedAfterChecks, ClosedIsQuiet
    <2>4. CASE SourceMade(r) \/ HeaderCame(r)
      <3>1. PICK phase \in {"header", "packets"} : worker' = [worker EXCEPT ![r] = phase]
        BY <2>4 DEF SourceMade, HeaderCame
      <3>2. /\ \A x \in RunIds \ {r} : program'[x] = program[x]
            /\ UNCHANGED <<sent, events>> /\ ~HasEnded(r)
        BY <2>4 DEF SourceMade, HeaderCame, TypeOK, HasEnded
      <3> DEFINE new == {}
      <3>3. phase \in Phases /\ Waiting(events') = Waiting(events) \union new
        BY <3>1, <3>2 DEF Phases
      <3>4. \A e \in new : RunEventIsTrue(e)'
        OBVIOUS
      <3> HIDE DEF new
      <3>5. QED
        BY <2>3, <3>1, <3>2, <3>3, <3>4
    <2>5. CASE FirstOfText(r)
      <3>1. UNCHANGED <<worker, program>> /\ \A x \in RunIds \ {r} : sent'[x] = sent[x]
        BY <2>5 DEF FirstOfText, TypeOK
      <3>2. worker' = [worker EXCEPT ![r] = worker[r]] /\ worker[r] \in Phases
        BY <3>1 DEF TypeOK
      <3> DEFINE new == {ReadyToOpenEvent(r, sent[r] + 1), RunEvent("snapshot", r)}
      <3>3. Waiting(events') = Waiting(events) \union new
        BY <2>5, FirstOfTextEvents
      <3>4. \A e \in new : RunEventIsTrue(e)'
        BY <2>1, <2>2 DEF RunEventIsTrue, ReadyToOpenEvent, RunEvent, sessionVars
      <3> HIDE DEF new
      <3>5. program'[r] => worker[r] \in {"header", "packets", "ending"}
        BY <3>1 DEF QuietInv, ProgramsHaveWorkers
      <3>6. QED
        BY <2>2, <2>3, <3>1, <3>2, <3>3, <3>4, <3>5 DEF HasEnded
    <2>6. CASE Snapshot(r)
      <3>1. UNCHANGED <<worker, program, sent>>
        BY <2>6 DEF Snapshot
      <3>2. worker' = [worker EXCEPT ![r] = worker[r]] /\ worker[r] \in Phases
        BY <3>1 DEF TypeOK
      <3> DEFINE new == {RunEvent("snapshot", r)}
      <3>3. Waiting(events') = Waiting(events) \union new
        BY <2>6, WaitingAppend DEF TypeOK, Snapshot
      <3>4. \A e \in new : RunEventIsTrue(e)'
        BY <2>1, <2>2 DEF RunEventIsTrue, RunEvent, sessionVars
      <3> HIDE DEF new
      <3>5. program'[r] => worker[r] \in {"header", "packets", "ending"}
        BY <3>1 DEF QuietInv, ProgramsHaveWorkers
      <3>6. QED
        BY <2>2, <2>3, <3>1, <3>2, <3>3, <3>4, <3>5 DEF HasEnded
    <2>7. CASE ProgramEnded(r)
      <3>1. /\ worker' = [worker EXCEPT ![r] = "over"] /\ sent' = sent
            /\ program' = [program EXCEPT ![r] = FALSE]
        BY <2>7 DEF ProgramEnded
      <3>2. ~program'[r] /\ \A x \in RunIds \ {r} : program'[x] = program[x]
        BY <3>1 DEF TypeOK
      <3> DEFINE new == {RunEvent("done", r)}
      <3>3. Waiting(events') = Waiting(events) \union new
        BY <2>7, WaitingAppend DEF TypeOK, ProgramEnded
      <3>4. \A e \in new : RunEventIsTrue(e)'
        BY <2>1, <2>2 DEF RunEventIsTrue, RunEvent, sessionVars
      <3> HIDE DEF new
      <3>5. "over" \in Phases
        BY DEF Phases
      <3>6. QED
        BY <2>3, <3>1, <3>2, <3>3, <3>4, <3>5
    <2>8. ASSUME NEW result \in Results, worker[r] \in {"opening", "header", "packets"}, Finish(r, result)
          PROVE  QuietInv'
      <3>1. worker' = [worker EXCEPT ![r] = "ending"] /\ UNCHANGED <<sent, program>>
        BY <2>8 DEF Finish
      <3> DEFINE new == {FinishedEvent(r, result)}
      <3>2. Waiting(events') = Waiting(events) \union new
        BY <2>8, WaitingAppend DEF TypeOK, Finish
      <3>3. \A e \in new : RunEventIsTrue(e)'
        BY <2>1, <2>2, <3>1 DEF RunEventIsTrue, FinishedEvent, HasEnded, sessionVars, TypeOK
      <3> HIDE DEF new
      <3>4. "ending" \in Phases
        BY DEF Phases
      <3>5. QED
        BY <2>3, <3>1, <3>2, <3>3, <3>4
    <2>9. QED
      BY <1>11, <2>4, <2>5, <2>6, <2>7, <2>8, WorkerSteps
  <1>12. CASE Terminated
    BY <1>1, <1>12 DEF Terminated
  <1>13. QED
    BY <1>1, <1>3, <1>4, <1>5, <1>6, <1>7, <1>8, <1>9, <1>10, <1>11, <1>12 DEF Next, User

\* The initial state has the invariant.
LEMMA InitQuiet == Init => QuietInv
  BY DEF Init, QuietInv, LaterRunsAreNew, EventsAreTrue, Waiting, ProgramsHaveWorkers,
     JoinedAfterChecks, IdleMeansEnded, ClosedIsQuiet

\* A session that says it captures nothing has no worker that still captures, and once
\* the shutdown is over nothing of the plugin runs, waits to be asked or is queued
\* (live_capture_session.cpp: finish, ~LiveCaptureSession, joinLiveCaptures).
THEOREM EndsAreQuiet == Spec => []EndIsQuiet
  <1>1. QuietInv => EndIsQuiet
    BY DEF QuietInv, EndIsQuiet
  <1>2. QED
    BY <1>1, InitTypeOK, TypeOKStep, InitQuiet, QuietStep, PTL DEF Spec

-----------------------------------------------------------------------------
(* What a queue tells of one run, as events are appended and delivered.    *)

\* The event announces a text file of run r.
Announces(e, r) == e.kind = "readyToOpen" /\ e.run = r
\* The event tells of run r's text files or of its end: what the session's listeners of
\* a run act on, done() aside.
Speaks(e, r) == e.kind \in {"readyToOpen", "snapshot", "finished"} /\ e.run = r

\* The text files of run r that are announced in the queue q, in order, are those
\* after the first `from` of them, up to the first `to`.
Announced(q, r, from, to) ==
    /\ \A i \in 1..Len(q) : Announces(q[i], r) => q[i].file \in (from + 1)..to
    /\ \A i, j \in 1..Len(q) :
          i < j /\ Announces(q[i], r) /\ Announces(q[j], r) => q[i].file < q[j].file
    /\ \A f \in (from + 1)..to : \E i \in 1..Len(q) : Announces(q[i], r) /\ q[i].file = f

\* The queue tells nothing more of run r's text files or end.
Silent(q, r) == \A i \in 1..Len(q) : ~Speaks(q[i], r)

\* Behind finished() of run r, the queue tells nothing more of its text files or end.
EndsOnce(q, r) ==
    \A i, j \in 1..Len(q) :
        i < j /\ q[i].kind = "finished" /\ q[i].run = r => ~Speaks(q[j], r)

\* The positions of a queue an event was appended to.
LEMMA Appended ==
    ASSUME NEW S, NEW q \in Seq(S), NEW e \in S
    PROVE  /\ Append(q, e) \in Seq(S) /\ Len(Append(q, e)) = Len(q) + 1 /\ Len(q) \in Nat
           /\ \A i \in 1..Len(Append(q, e)) :
                 \/ i = Len(q) + 1 /\ Append(q, e)[i] = e
                 \/ i \in 1..Len(q) /\ i <= Len(q) /\ Append(q, e)[i] = q[i]
           /\ \A i \in 1..Len(q) : i \in 1..Len(Append(q, e)) /\ Append(q, e)[i] = q[i]
           /\ Len(q) + 1 \in 1..Len(Append(q, e)) /\ Append(q, e)[Len(q) + 1] = e
  OBVIOUS

\* A queue that is silent of a run stays so behind an event that does not speak of it.
LEMMA SilentAppend ==
    ASSUME NEW q \in Seq(Events), NEW e \in Events, NEW r \in RunIds, Silent(q, r), ~Speaks(e, r)
    PROVE  Silent(Append(q, e), r)
  BY Appended DEF Silent

\* The rest of a silent queue is silent.
LEMMA SilentTail ==
    ASSUME NEW q \in Seq(Events), q # << >>, NEW r \in RunIds, Silent(q, r)
    PROVE  Silent(Tail(q), r) /\ ~Speaks(Head(q), r)
  BY QueueHead DEF Silent

\* An event may be appended if it does not speak of the run, or the run's end is not queued.
LEMMA EndsOnceAppend ==
    ASSUME NEW q \in Seq(Events), NEW e \in Events, NEW r \in RunIds, EndsOnce(q, r),
           \/ ~Speaks(e, r)
           \/ \A x \in Waiting(q) : ~(x.kind = "finished" /\ x.run = r)
    PROVE  EndsOnce(Append(q, e), r)
  <1> DEFINE a == Append(q, e)
  <1>0. \A i \in 1..Len(a) : \/ i = Len(q) + 1 /\ a[i] = e
                             \/ i \in 1..Len(q) /\ a[i] = q[i]
    BY Appended
  <1>1. Len(q) \in Nat /\ Len(a) = Len(q) + 1
    BY Appended
  <1> HIDE DEF a
  <1>2. ASSUME NEW i \in 1..Len(a), NEW j \in 1..Len(a), i < j, a[i].kind = "finished", a[i].run = r
        PROVE  ~Speaks(a[j], r)
    <2>1. i \in 1..Len(q) /\ a[i] = q[i] /\ q[i] \in Waiting(q)
      BY <1>0, <1>1, <1>2 DEF Waiting
    <2>2. CASE j \in 1..Len(q) /\ a[j] = q[j]
      BY <1>2, <2>1, <2>2 DEF EndsOnce
    <2>3. CASE a[j] = e
      BY <1>2, <2>1, <2>3
    <2>4. QED
      BY <1>0, <2>2, <2>3
  <1>3. QED
    BY <1>2 DEF EndsOnce, a

\* Delivering finished() leaves a queue that tells no more of the run.
LEMMA EndsOnceTail ==
    ASSUME NEW q \in Seq(Events), q # << >>, NEW r \in RunIds, EndsOnce(q, r)
    PROVE  /\ EndsOnce(Tail(q), r)
           /\ Head(q).kind = "finished" /\ Head(q).run = r => Silent(Tail(q), r)
  <1>1. /\ \A i \in 1..Len(Tail(q)) : i + 1 \in 1..Len(q) /\ Tail(q)[i] = q[i + 1] /\ 1 < i + 1
        /\ Head(q) = q[1] /\ 1 \in 1..Len(q)
    BY QueueHead
  <1>2. ASSUME NEW i \in 1..Len(Tail(q)), NEW j \in 1..Len(Tail(q)), i < j,
               Tail(q)[i].kind = "finished", Tail(q)[i].run = r
        PROVE  ~Speaks(Tail(q)[j], r)
    <2>1. i + 1 \in 1..Len(q) /\ j + 1 \in 1..Len(q) /\ i + 1 < j + 1
      BY <1>1, <1>2
    <2>2. QED
      BY <1>1, <1>2, <2>1 DEF EndsOnce
  <1>3. QED
    BY <1>1, <1>2 DEF EndsOnce, Silent

\* A queue that announces the files after `from` up to `to` and gets the next one's
\* announcement announces one more.
LEMMA AnnouncedAppend ==
    ASSUME NEW q \in Seq(Events), NEW e \in Events, NEW r \in RunIds, NEW from \in Nat, NEW to \in Nat,
           Announced(q, r, from, to)
    PROVE  /\ ~Announces(e, r) => Announced(Append(q, e), r, from, to)
           /\ Announces(e, r) /\ e.file = to + 1 /\ from <= to
                 => Announced(Append(q, e), r, from, to + 1)
  <1> DEFINE a == Append(q, e)
  <1>0. \A i \in 1..Len(a) : \/ i = Len(q) + 1 /\ a[i] = e
                             \/ i \in 1..Len(q) /\ a[i] = q[i]
    BY Appended
  <1>1. Len(q) \in Nat /\ Len(a) = Len(q) + 1
    BY Appended
  <1>2. \A i \in 1..Len(q) : i \in 1..Len(a) /\ a[i] = q[i]
    BY Appended
  <1>3. Len(q) + 1 \in 1..Len(a) /\ a[Len(q) + 1] = e
    BY Appended
  <1> HIDE DEF a
  <1>4. ASSUME ~Announces(e, r) PROVE Announced(a, r, from, to)
    <2>1. \A i \in 1..Len(a) : Announces(a[i], r) => i \in 1..Len(q) /\ a[i] = q[i]
      BY <1>0, <1>4
    <2>2. \A i \in 1..Len(a) : Announces(a[i], r) => a[i].file \in (from + 1)..to
      BY <2>1 DEF Announced
    <2>3. \A i, j \in 1..Len(a) :
             i < j /\ Announces(a[i], r) /\ Announces(a[j], r) => a[i].file < a[j].file
      BY <2>1 DEF Announced
    <2>4. \A f \in (from + 1)..to : \E i \in 1..Len(a) : Announces(a[i], r) /\ a[i].file = f
      BY <1>2 DEF Announced
    <2>5. QED
      BY <2>2, <2>3, <2>4 DEF Announced
  <1>5. ASSUME Announces(e, r), e.file = to + 1, from <= to PROVE Announced(a, r, from, to + 1)
    <2>1. \A i \in 1..Len(q) : Announces(q[i], r) => q[i].file \in (from + 1)..to
      BY DEF Announced
    <2>2. \A i \in 1..Len(a) : Announces(a[i], r) => a[i].file \in (from + 1)..(to + 1)
      BY <1>0, <1>5, <2>1
    <2>3. ASSUME NEW i \in 1..Len(a), NEW j \in 1..Len(a), i < j, Announces(a[i], r), Announces(a[j], r)
          PROVE  a[i].file < a[j].file
      <3>1. i \in 1..Len(q) /\ a[i] = q[i]
        BY <1>0, <1>1, <2>3
      <3>2. CASE j \in 1..Len(q) /\ a[j] = q[j]
        BY <2>3, <3>1, <3>2 DEF Announced
      <3>3. CASE a[j] = e
        BY <1>5, <2>1, <2>3, <3>1, <3>3
      <3>4. QED
        BY <1>0, <3>2, <3>3
    <2>4. ASSUME NEW f \in (from + 1)..(to + 1)
          PROVE  \E i \in 1..Len(a) : Announces(a[i], r) /\ a[i].file = f
      <3>1. CASE f = to + 1
        BY <1>3, <1>5, <3>1
      <3>2. CASE f \in (from + 1)..to
        BY <1>2, <3>2 DEF Announced
      <3>3. QED
        BY <3>1, <3>2
    <2>5. QED
      BY <2>2, <2>3, <2>4 DEF Announced
  <1>6. QED
    BY <1>4, <1>5 DEF a

\* The announcement at the head of such a queue is that of the first file it announces.
LEMMA AnnouncedTail ==
    ASSUME NEW q \in Seq(Events), q # << >>, NEW r \in RunIds, NEW from \in Nat, NEW to \in Nat,
           Announced(q, r, from, to)
    PROVE  /\ ~Announces(Head(q), r) => Announced(Tail(q), r, from, to)
           /\ Announces(Head(q), r) => /\ Head(q).file = from + 1 /\ from < to
                                       /\ Announced(Tail(q), r, from + 1, to)
  <1> DEFINE t == Tail(q)
  <1>0. /\ Len(t) = Len(q) - 1 /\ Len(q) \in Nat
        /\ \A i \in 1..Len(t) : i + 1 \in 1..Len(q) /\ t[i] = q[i + 1] /\ 1 < i + 1
        /\ Head(q) = q[1] /\ 1 \in 1..Len(q)
    BY QueueHead
  <1> HIDE DEF t
  <1>1. \A i \in 1..Len(q) : i # 1 => i - 1 \in 1..Len(t) /\ t[i - 1] = q[i]
    <2>1. ASSUME NEW i \in 1..Len(q), i # 1 PROVE i - 1 \in 1..Len(t) /\ t[i - 1] = q[i]
      <3>1. i - 1 \in 1..Len(t) /\ (i - 1) + 1 = i
        BY <1>0, <2>1
      <3>2. QED
        BY <1>0, <3>1
    <2>2. QED
      BY <2>1
  <1>2. \A i, j \in 1..Len(t) :
           i < j /\ Announces(t[i], r) /\ Announces(t[j], r) => t[i].file < t[j].file
    <2>1. ASSUME NEW i \in 1..Len(t), NEW j \in 1..Len(t), i < j PROVE i + 1 < j + 1
      BY <2>1
    <2>2. QED
      BY <1>0, <2>1 DEF Announced
  <1>3. ASSUME ~Announces(Head(q), r) PROVE Announced(t, r, from, to)
    <2>1. \A i \in 1..Len(t) : Announces(t[i], r) => t[i].file \in (from + 1)..to
      BY <1>0 DEF Announced
    <2>2. ASSUME NEW f \in (from + 1)..to
          PROVE  \E i \in 1..Len(t) : Announces(t[i], r) /\ t[i].file = f
      <3>1. PICK i \in 1..Len(q) : Announces(q[i], r) /\ q[i].file = f
        BY DEF Announced
      <3>2. i # 1
        BY <1>0, <1>3, <3>1
      <3>3. QED
        BY <1>1, <3>1, <3>2
    <2>3. QED
      BY <1>2, <2>1, <2>2 DEF Announced
  <1>4. ASSUME Announces(Head(q), r)
        PROVE  Head(q).file = from + 1 /\ from < to /\ Announced(t, r, from + 1, to)
    <2>1. q[1].file \in (from + 1)..to
      BY <1>0, <1>4 DEF Announced
    <2>2. \A i \in 1..Len(q) : i # 1 /\ Announces(q[i], r) => q[1].file < q[i].file
      <3>1. \A i \in 1..Len(q) : i # 1 => 1 < i
        BY <1>0
      <3>2. QED
        BY <1>0, <1>4, <3>1 DEF Announced
    <2>3. q[1].file = from + 1
      <3>1. PICK i \in 1..Len(q) : Announces(q[i], r) /\ q[i].file = from + 1
        BY <2>1 DEF Announced
      <3>2. i = 1 \/ q[1].file < from + 1
        BY <2>2, <3>1
      <3>3. QED
        BY <2>1, <3>1, <3>2
    <2>4. \A i \in 1..Len(t) : Announces(t[i], r) => t[i].file \in ((from + 1) + 1)..to
      <3>1. ASSUME NEW i \in 1..Len(t), Announces(t[i], r)
            PROVE  t[i].file \in ((from + 1) + 1)..to
        <4>1. i + 1 \in 1..Len(q) /\ i + 1 # 1 /\ t[i] = q[i + 1]
          BY <1>0
        <4>2. q[i + 1].file \in (from + 1)..to /\ q[1].file < q[i + 1].file
          BY <2>2, <3>1, <4>1 DEF Announced
        <4>3. QED
          BY <2>3, <4>1, <4>2
      <3>2. QED
        BY <3>1
    <2>5. ASSUME NEW f \in ((from + 1) + 1)..to
          PROVE  \E i \in 1..Len(t) : Announces(t[i], r) /\ t[i].file = f
      <3>1. f \in (from + 1)..to /\ f # from + 1
        OBVIOUS
      <3>2. PICK i \in 1..Len(q) : Announces(q[i], r) /\ q[i].file = f
        BY <3>1 DEF Announced
      <3>3. i # 1
        BY <2>3, <3>1, <3>2
      <3>4. QED
        BY <1>1, <3>2, <3>3
    <2>6. QED
      BY <1>0, <1>2, <2>1, <2>3, <2>4, <2>5 DEF Announced
  <1>5. QED
    BY <1>3, <1>4 DEF t

-----------------------------------------------------------------------------
(* Complete outcomes.  That no announcement is missed rests on the order of the*)
(* queue: the announcements of the latest run that wait in it go on where the*)
(* tabs leave off, and its finished() is behind them all.                  *)

\* The tabs are those of the first text files, the oldest first.
FilesInOrder == files = [f \in 1..Len(files) |-> f]

\* What waits in the queue of the latest run: every text file it sent that has no tab yet,
\* in order, and nothing behind its end.
AnnouncedOnce ==
    runs > 0 =>
        /\ Len(files) <= sent[runs]
        /\ ui # "closed" => Announced(events, runs, Len(files), sent[runs])
        /\ EndsOnce(events, runs)

\* An outcome is told once all is: no file of the run is without its tab.
OutcomeIsTheEnd ==
    outcome # "None" =>
        runs > 0 /\ Len(files) = sent[runs] /\ Silent(events, runs) /\ HasEnded(runs)

\* The tabs of a capture that kept its files show its final summary, or the error.
TabsAreFinal ==
    outcome \in {"Captured", "FailedWithFiles"} =>
        \A f \in 1..Len(files) : entries[runs][f] \in {"final", "error"}

\* What the complete outcomes rest on.
OutcomeInv ==
    /\ FilesInOrder
    /\ AnnouncedOnce
    /\ OutcomeIsTheEnd
    /\ TabsAreFinal

\* The invariant as a run is started: the queue tells nothing of it yet, though it may
\* still tell of the runs let go of.
LEMMA RunOutcome ==
    ASSUME TypeOK, QuietInv, OutcomeInv, NEW c, Run(c), NEW q \in Seq(Events), events' = q,
           Waiting(q) \subseteq Waiting(events), ui' = ui
    PROVE  OutcomeInv'
  <1>1. runs \in Nat /\ runs + 1 \in RunIds /\ runs' = runs + 1
    BY BoundsAssumption DEF TypeOK, Run, RunIds
  <1>2. /\ files' = << >> /\ outcome' = "None" /\ sent' = sent
    BY DEF Run
  <1>3. sent[runs + 1] = 0
    BY <1>1 DEF QuietInv, LaterRunsAreNew
  <1>4. \A i \in 1..Len(q) : q[i].kind = "checked" \/ q[i].run # runs + 1
    <2>1. ASSUME NEW i \in 1..Len(q) PROVE q[i].kind = "checked" \/ q[i].run # runs + 1
      <3>1. q[i] \in Waiting(events)
        BY DEF Waiting
      <3>2. QED
        BY <1>1, <3>1 DEF QuietInv, EventsAreTrue, RunEventIsTrue
    <2>2. QED
      BY <2>1
  <1>5. Announced(q, runs + 1, 0, 0)
    BY <1>4 DEF Announced, Announces
  <1>6. EndsOnce(q, runs + 1)
    BY <1>4 DEF EndsOnce
  <1>7. Len(files') = 0
    BY <1>2
  <1>8. AnnouncedOnce'
    BY <1>1, <1>2, <1>3, <1>5, <1>6, <1>7 DEF AnnouncedOnce
  <1>9. FilesInOrder'
    BY <1>2, <1>7 DEF FilesInOrder
  <1>10. QED
    BY <1>2, <1>8, <1>9 DEF OutcomeInv, OutcomeIsTheEnd, TabsAreFinal

\* Steps that neither start a run nor are about what the latest one tells.
LEMMA RestOutcome ==
    ASSUME TypeOK, OutcomeInv, UNCHANGED <<runs, files, outcome, entries>>,
           sent'[runs] = sent[runs], HasEnded(runs) => HasEnded(runs)',
           ui' # "closed" => ui # "closed",
           NEW q \in Seq(Events), events' = q,
           runs > 0 => /\ ui # "closed" => Announced(q, runs, Len(files), sent[runs])
                       /\ EndsOnce(q, runs)
                       /\ Silent(events, runs) => Silent(q, runs)
    PROVE  OutcomeInv'
  <1>1. FilesInOrder' /\ TabsAreFinal'
    BY DEF OutcomeInv, FilesInOrder, TabsAreFinal
  <1>2. AnnouncedOnce'
    BY DEF OutcomeInv, AnnouncedOnce
  <1>3. OutcomeIsTheEnd'
    BY DEF OutcomeInv, OutcomeIsTheEnd, HasEnded
  <1>4. QED
    BY <1>1, <1>2, <1>3 DEF OutcomeInv

\* Steps that leave the run, its tabs and the queue as they are.
LEMMA SameOutcome ==
    ASSUME TypeOK, OutcomeInv, UNCHANGED <<runs, files, outcome, entries, worker, sent, events>>,
           ui' # "closed" => ui # "closed"
    PROVE  OutcomeInv'
  BY DEF OutcomeInv, FilesInOrder, TabsAreFinal, AnnouncedOnce, OutcomeIsTheEnd, HasEnded

\* An event that is appended, or delivered, and tells nothing of the latest run's
\* text files or end.
LEMMA OtherAppended ==
    ASSUME TypeOK, OutcomeInv, NEW e \in Events, ~Speaks(e, runs), runs > 0
    PROVE  /\ ui # "closed" => Announced(Append(events, e), runs, Len(files), sent[runs])
           /\ EndsOnce(Append(events, e), runs)
           /\ Silent(events, runs) => Silent(Append(events, e), runs)
           /\ Append(events, e) \in Seq(Events)
  <1>1. runs \in RunIds /\ Len(files) \in Nat /\ sent[runs] \in Nat /\ events \in Seq(Events)
    BY BoundsAssumption DEF TypeOK, RunIds
  <1>2. ~Announces(e, runs)
    BY DEF Speaks, Announces
  <1>3. QED
    BY <1>1, <1>2, AnnouncedAppend, EndsOnceAppend, SilentAppend DEF OutcomeInv, AnnouncedOnce

\* A delivered event leaves a queue that tells no more of the latest run than it did.
LEMMA OtherDelivered ==
    ASSUME TypeOK, OutcomeInv, events # << >>, runs > 0
    PROVE  /\ ui # "closed" /\ ~Speaks(Head(events), runs)
                 => Announced(Tail(events), runs, Len(files), sent[runs])
           /\ EndsOnce(Tail(events), runs)
           /\ Silent(events, runs) => Silent(Tail(events), runs)
           /\ Tail(events) \in Seq(Events)
  <1>1. runs \in RunIds /\ Len(files) \in Nat /\ sent[runs] \in Nat /\ events \in Seq(Events)
    BY BoundsAssumption DEF TypeOK, RunIds
  <1>2. ~Speaks(Head(events), runs) => ~Announces(Head(events), runs)
    BY DEF Speaks, Announces
  <1>3. QED
    BY <1>1, <1>2, AnnouncedTail, EndsOnceTail, SilentTail, QueueHead DEF OutcomeInv, AnnouncedOnce

\* The invariant in a step of a worker, of the latest run or of one let go of.
LEMMA WorkerOutcome ==
    ASSUME TypeOK, QuietInv, OutcomeInv, NEW r \in RunIds, Worker(r)
    PROVE  OutcomeInv'
  <1>1. UNCHANGED <<sessionVars, catalogVars, ui>>
    BY WorkerSteps
  <1>2. worker[r] \notin {"none", "over"} /\ ui # "closed" /\ r <= runs /\ r \in Nat /\ runs \in RunIds
        /\ runs > 0 /\ runs \in Nat
    <2>1. worker[r] \notin {"none", "over"}
      BY DEF Worker, SourceMade, SourceFailed, HeaderCame, StoppedBeforeHeader,
         FirstOfText, Snapshot, StreamEnded, StreamBrokeOff, OutputFailed, ProgramEnded
    <2>2. QED
      BY <2>1, BoundsAssumption DEF QuietInv, LaterRunsAreNew, ClosedIsQuiet, RunIds, TypeOK
  <1>3. events \in Seq(Events) /\ Len(files) \in Nat /\ sent[runs] \in Nat
    BY <1>2, BoundsAssumption DEF TypeOK
  \* An event that does not speak of the latest run is appended.
  <1>4. ASSUME NEW e \in Events, ~Speaks(e, runs), events' = Append(events, e), sent' = sent,
               HasEnded(runs) => HasEnded(runs)'
        PROVE  OutcomeInv'
    <2>1. UNCHANGED <<runs, files, outcome, entries>>
      BY <1>1 DEF sessionVars, catalogVars
    <2>2. QED
      BY <1>1, <1>2, <1>4, <2>1, OtherAppended, RestOutcome
  <1>5. \A x \in RunIds : HasEnded(x) /\ x # r => HasEnded(x)'
    BY DEF HasEnded, Worker, SourceMade, SourceFailed, HeaderCame, StoppedBeforeHeader,
       FirstOfText, Snapshot, StreamEnded, StreamBrokeOff, OutputFailed, ProgramEnded, Finish, TypeOK
  <1>6. CASE SourceMade(r) \/ HeaderCame(r)
    <2>1. UNCHANGED <<runs, files, outcome, entries, sent, events>>
      BY <1>1, <1>6 DEF sessionVars, catalogVars, SourceMade, HeaderCame
    <2>2. ~HasEnded(r)
      BY <1>6 DEF SourceMade, HeaderCame, HasEnded
    <2>3. QED
      BY <1>1, <1>2, <1>3, <1>5, <2>1, <2>2, RestOutcome DEF OutcomeInv, AnnouncedOnce
  <1>7. CASE FirstOfText(r)
    <2> DEFINE a == ReadyToOpenEvent(r, sent[r] + 1)
               b == RunEvent("snapshot", r)
    <2>1. /\ events' = Append(Append(events, a), b) /\ Append(events, a) \in Seq(Events)
          /\ a \in Events /\ b \in Events
      BY <1>7, FirstOfTextEvents
    <2>2. /\ Announces(a, r) /\ a.file = sent[r] + 1 /\ a.kind = "readyToOpen" /\ a.run = r
          /\ ~Announces(b, r) /\ b.kind = "snapshot" /\ b.run = r
      BY DEF Announces, ReadyToOpenEvent, RunEvent
    <2> HIDE DEF a, b
    <2>3. worker[r] = "packets" /\ UNCHANGED worker /\ sent' = [sent EXCEPT ![r] = @ + 1]
      BY <1>7 DEF FirstOfText
    <2>4. UNCHANGED <<runs, files, outcome, entries>>
      BY <1>1 DEF sessionVars, catalogVars
    <2>5. CASE r # runs
      <3>1. ~Speaks(a, runs) /\ ~Speaks(b, runs) /\ ~Announces(a, runs) /\ ~Announces(b, runs)
        BY <2>2, <2>5 DEF Speaks, Announces
      <3>2. /\ ui # "closed" => Announced(events', runs, Len(files), sent[runs])
            /\ EndsOnce(events', runs)
            /\ Silent(events, runs) => Silent(events', runs)
            /\ events' \in Seq(Events)
        <4>1. /\ ui # "closed" => Announced(Append(events, a), runs, Len(files), sent[runs])
              /\ EndsOnce(Append(events, a), runs)
              /\ Silent(events, runs) => Silent(Append(events, a), runs)
          BY <1>2, <2>1, <3>1, OtherAppended
        <4>2. QED
          BY <1>2, <1>3, <2>1, <3>1, <4>1, Appended, AnnouncedAppend, EndsOnceAppend, SilentAppend
      <3>3. sent'[runs] = sent[runs]
        BY <1>2, <2>3, <2>5 DEF TypeOK
      <3>4. HasEnded(runs) => HasEnded(runs)'
        BY <2>3, <2>4 DEF HasEnded
      <3>5. QED
        BY <1>1, <2>4, <3>2, <3>3, <3>4, RestOutcome
    <2>6. CASE r = runs
      <3>1. outcome = "None"
        BY <2>3, <2>6 DEF OutcomeInv, OutcomeIsTheEnd, HasEnded
      <3>2. \A x \in Waiting(events) : ~(x.kind = "finished" /\ x.run = runs)
        BY <2>3, <2>6 DEF QuietInv, EventsAreTrue, RunEventIsTrue, HasEnded
      <3>3. EndsOnce(Append(events, a), runs) /\ Announced(Append(events, a), runs, Len(files), sent[runs] + 1)
        BY <1>2, <1>3, <2>1, <2>2, <2>6, <3>2, AnnouncedAppend, EndsOnceAppend DEF OutcomeInv,
           AnnouncedOnce
      <3>4. \A x \in Waiting(Append(events, a)) : ~(x.kind = "finished" /\ x.run = runs)
        BY <1>3, <2>1, <2>2, <3>2, WaitingAppend
      <3>5. EndsOnce(events', runs) /\ Announced(events', runs, Len(files), sent[runs] + 1)
        <4> DEFINE q == Append(events, a)
        <4>1. q \in Seq(Events) /\ events' = Append(q, b)
          BY <2>1
        <4>2. EndsOnce(q, runs) /\ Announced(q, runs, Len(files), sent[runs] + 1)
              /\ \A x \in Waiting(q) : ~(x.kind = "finished" /\ x.run = runs)
          BY <3>3, <3>4
        <4>3. sent[runs] + 1 \in Nat /\ ~Announces(b, runs)
          BY <1>3, <2>2, <2>6
        <4> HIDE DEF q
        <4>4. EndsOnce(Append(q, b), runs)
          BY <1>2, <2>1, <4>1, <4>2, EndsOnceAppend
        <4>5. Announced(Append(q, b), runs, Len(files), sent[runs] + 1)
          BY <1>2, <1>3, <2>1, <4>1, <4>2, <4>3, AnnouncedAppend
        <4>6. QED
          BY <4>1, <4>4, <4>5
      <3>6. sent'[runs] = sent[runs] + 1
        BY <1>2, <2>3, <2>6 DEF TypeOK
      <3>7. AnnouncedOnce'
        BY <1>2, <1>3, <2>4, <3>5, <3>6 DEF OutcomeInv, AnnouncedOnce
      <3>8. QED
        BY <2>4, <3>1, <3>7 DEF OutcomeInv, OutcomeIsTheEnd, TabsAreFinal, FilesInOrder
    <2>7. QED
      BY <2>5, <2>6
  <1>8. ASSUME NEW e \in Events, e.kind \in {"snapshot", "finished"}, e.run = r, ~HasEnded(r),
               events' = Append(events, e), sent' = sent
        PROVE  OutcomeInv'
    <2>1. UNCHANGED <<runs, files, outcome, entries>>
      BY <1>1 DEF sessionVars, catalogVars
    <2>2. CASE r # runs
      <3>1. ~Speaks(e, runs) /\ (HasEnded(runs) => HasEnded(runs)')
        BY <1>2, <1>5, <1>8, <2>1, <2>2 DEF Speaks, HasEnded
      <3>2. QED
        BY <1>4, <1>8, <3>1
    <2>3. CASE r = runs
      <3>1. outcome = "None"
        BY <1>8, <2>3 DEF OutcomeInv, OutcomeIsTheEnd
      <3>2. \A x \in Waiting(events) : ~(x.kind = "finished" /\ x.run = runs)
        BY <1>8, <2>3 DEF QuietInv, EventsAreTrue, RunEventIsTrue
      <3>3. EndsOnce(events', runs) /\ Announced(events', runs, Len(files), sent[runs])
        BY <1>2, <1>3, <1>8, <3>2, AnnouncedAppend, EndsOnceAppend DEF OutcomeInv, AnnouncedOnce,
           Announces
      <3>4. AnnouncedOnce'
        BY <1>8, <2>1, <3>3 DEF OutcomeInv, AnnouncedOnce
      <3>5. QED
        BY <2>1, <3>1, <3>4 DEF OutcomeInv, OutcomeIsTheEnd, TabsAreFinal, FilesInOrder
    <2>4. QED
      BY <2>2, <2>3
  <1>9. CASE Snapshot(r)
    <2> DEFINE e == RunEvent("snapshot", r)
    <2>1. e \in Events /\ e.kind = "snapshot" /\ e.run = r
      BY DEF RunEvent, Events
    <2>2. ~HasEnded(r) /\ events' = Append(events, e) /\ sent' = sent
      BY <1>9 DEF Snapshot, HasEnded
    <2> HIDE DEF e
    <2>3. QED
      BY <1>8, <2>1, <2>2
  <1>10. ASSUME NEW result \in Results, worker[r] \in {"opening", "header", "packets"}, Finish(r, result)
         PROVE  OutcomeInv'
    <2> DEFINE e == FinishedEvent(r, result)
    <2>1. e \in Events /\ e.kind = "finished" /\ e.run = r
      BY DEF FinishedEvent, Events
    <2>2. ~HasEnded(r) /\ events' = Append(events, e) /\ sent' = sent
      BY <1>10 DEF Finish, HasEnded
    <2> HIDE DEF e
    <2>3. QED
      BY <1>8, <2>1, <2>2
  <1>11. CASE ProgramEnded(r)
    <2> DEFINE e == RunEvent("done", r)
    <2>1. e \in Events /\ ~Speaks(e, runs)
      BY DEF RunEvent, Events, Speaks
    <2>2. events' = Append(events, e) /\ sent' = sent /\ worker' = [worker EXCEPT ![r] = "over"]
      BY <1>11 DEF ProgramEnded
    <2> HIDE DEF e
    <2>3. HasEnded(runs) => HasEnded(runs)'
      BY <1>1, <1>2, <2>2 DEF HasEnded, TypeOK, sessionVars
    <2>4. QED
      BY <1>4, <2>1, <2>2, <2>3
  <1>12. QED
    BY <1>6, <1>7, <1>9, <1>10, <1>11, WorkerSteps

\* The invariant as start() is called.
LEMMA StartOutcome ==
    ASSUME TypeOK, QuietInv, OutcomeInv, NEW c, NEW st, NEW ck, Start(c, st, ck), ui = "running", ui' = ui,
           \/ events' = events
           \/ events # << >> /\ events' = Tail(events) /\ ~Speaks(Head(events), runs)
    PROVE  OutcomeInv'
  <1>1. events \in Seq(Events) /\ events' \in Seq(Events) /\ Waiting(events') \subseteq Waiting(events)
    <2>1. events \in Seq(Events)
      BY DEF TypeOK
    <2>2. events # << >> => Tail(events) \in Seq(Events) /\ Waiting(Tail(events)) \subseteq Waiting(events)
      BY <2>1, QueueHead, WaitingTail
    <2>3. QED
      BY <2>1, <2>2
  <1>2. CASE Run(c)
    BY <1>1, <1>2, RunOutcome
  <1>3. CASE UNCHANGED <<runs, files, outcome, entries, worker, sent>>
    <2>1. CASE events' = events
      BY <1>3, <2>1, SameOutcome
    <2>2. CASE events # << >> /\ events' = Tail(events) /\ ~Speaks(Head(events), runs)
      BY <1>1, <1>3, <2>2, OtherDelivered, RestOutcome DEF HasEnded
    <2>3. QED
      BY <2>1, <2>2
  <1>4. QED
    BY <1>2, <1>3, StartSteps DEF workerVars, catalogVars

\* Every file that has a tab is shown.
LEMMA ShownFiles ==
    ASSUME TypeOK, FilesInOrder, runs \in RunIds, Len(files) <= sent[runs], NEW shows,
           NEW f \in 1..Len(files)
    PROVE  ShowFiles(shows)[runs][f] = shows
  <1>1. Len(files) \in Nat /\ sent[runs] \in 0..MaxFiles /\ f \in FileIds
    BY BoundsAssumption DEF TypeOK, FileIds
  <1>2. f \in DOMAIN files /\ files[f] = f
    BY <1>1 DEF TypeOK, FilesInOrder
  <1>3. QED
    BY <1>1, <1>2 DEF ShowFiles, HasTab

\* The invariant as the UI thread delivers an event.
LEMMA DeliveredOutcome ==
    ASSUME TypeOK, QuietInv, OutcomeInv, EventLoop
    PROVE  OutcomeInv'
  <1>1. /\ ui = "running" /\ ui' = ui /\ events # << >> /\ events' = Tail(events)
    BY DEF EventLoop, Checked, OpenFile, TakeSnapshot, Finished, RunDone, Deliver
  <1>2. /\ Waiting(events') \subseteq Waiting(events)
        /\ Head(events) \in Waiting(events) /\ Head(events) \in Events /\ events' \in Seq(Events)
        /\ events \in Seq(Events)
    BY <1>1, WaitingTail, QueueHead DEF TypeOK
  <1>3. RunEventIsTrue(Head(events))
    BY <1>2 DEF QuietInv, EventsAreTrue
  \* The event tells nothing of the latest run.
  <1>4. ASSUME ~Speaks(Head(events), runs), UNCHANGED <<runs, files, outcome, entries, worker, sent>>
        PROVE  OutcomeInv'
    BY <1>1, <1>2, <1>4, OtherDelivered, RestOutcome DEF HasEnded
  <1>5. CASE Checked
    <2>1. ~Speaks(Head(events), runs)
      BY <1>5 DEF Checked, Deliver, Speaks
    <2>2. CASE Run(Head(events).choice)
      BY <1>1, <1>2, <2>2, RunOutcome
    <2>3. CASE UNCHANGED <<runs, files, outcome, catalogVars, workerVars>>
      BY <1>4, <2>1, <2>3 DEF catalogVars, workerVars
    <2>4. QED
      BY <1>5, <2>2, <2>3 DEF Checked, sessionVars
  <1>6. CASE RunDone
    <2>1. ~Speaks(Head(events), runs)
      BY <1>6 DEF RunDone, Deliver, Speaks
    <2>2. CASE Start(pending, state, checks)
      BY <1>1, <2>1, <2>2, StartOutcome
    <2>3. CASE UNCHANGED <<sessionVars, catalogVars, workerVars, asking>>
      BY <1>4, <2>1, <2>3 DEF sessionVars, catalogVars, workerVars
    <2>4. QED
      BY <1>6, <2>2, <2>3 DEF RunDone
  <1>7. CASE (OpenFile \/ TakeSnapshot \/ Finished) /\ Head(events).run # runs
    <2>1. UNCHANGED <<runs, files, outcome, entries, worker, sent>>
      BY <1>7 DEF OpenFile, TakeSnapshot, Finished, Listening, sessionVars, workerVars
    <2>2. QED
      BY <1>4, <1>7, <2>1 DEF Speaks
  <1>8. CASE (OpenFile \/ TakeSnapshot \/ Finished) /\ Head(events).run = runs
    <2>0. Head(events).kind \in {"readyToOpen", "snapshot", "finished"}
      BY <1>8 DEF OpenFile, TakeSnapshot, Finished, Deliver
    <2>1. /\ Speaks(Head(events), runs) /\ runs \in RunIds /\ runs \in Nat /\ runs > 0
          /\ Len(files) \in Nat /\ sent[runs] \in 0..MaxFiles /\ sent[runs] \in Nat
      <3>1. Speaks(Head(events), runs) /\ runs \in RunIds
        BY <1>2, <1>8, <2>0 DEF Speaks, Events
      <3>2. QED
        BY <3>1, BoundsAssumption DEF TypeOK, RunIds
    <2>2. /\ Len(files) <= sent[runs] /\ Announced(events, runs, Len(files), sent[runs])
          /\ EndsOnce(events, runs) /\ EndsOnce(Tail(events), runs)
      BY <1>1, <2>1, OtherDelivered DEF OutcomeInv, AnnouncedOnce
    <2>3. outcome = "None"
      <3>1. ~Silent(events, runs)
        BY <1>1, <1>2, <2>1, SilentTail
      <3>2. QED
        BY <3>1 DEF OutcomeInv, OutcomeIsTheEnd
    <2>4. /\ ~Announces(Head(events), runs) => Announced(Tail(events), runs, Len(files), sent[runs])
          /\ Announces(Head(events), runs) =>
                /\ Head(events).file = Len(files) + 1 /\ Len(files) < sent[runs]
                /\ Announced(Tail(events), runs, Len(files) + 1, sent[runs])
      BY <1>1, <1>2, <2>1, <2>2, AnnouncedTail
    <2>5. CASE OpenFile
      <3> DEFINE f == Head(events).file
      <3>1. Announces(Head(events), runs) /\ f \in FileIds /\ f = Len(files) + 1
        BY <1>2, <1>8, <2>4, <2>5 DEF OpenFile, Deliver, Announces, Events
      <3>2. files' = Append(files, f) /\ UNCHANGED <<runs, outcome, worker, sent>>
        BY <1>8, <2>5 DEF OpenFile, Listening, workerVars
      <3> HIDE DEF f
      <3>3. /\ Len(files') = Len(files) + 1 /\ files \in Seq(FileIds)
            /\ \A i \in 1..Len(files) : files'[i] = files[i] /\ files'[Len(files) + 1] = f
        BY <3>1, <3>2 DEF TypeOK
      <3>4. FilesInOrder'
        <4>1. files' = [i \in 1..Len(files') |-> files'[i]]
          BY <3>1, <3>2, <3>3
        <4>2. ASSUME NEW i \in 1..Len(files') PROVE files'[i] = i
          <5>1. i \in 1..Len(files) => files[i] = i
            BY DEF OutcomeInv, FilesInOrder
          <5>2. i \in 1..Len(files) \/ i = Len(files) + 1
            BY <2>1, <3>3
          <5>3. files'[Len(files) + 1] = f
            BY <3>1, <3>2 DEF TypeOK
          <5>4. QED
            BY <3>1, <3>3, <5>1, <5>2, <5>3
        <4>3. QED
          BY <4>1, <4>2 DEF FilesInOrder
      <3>5. AnnouncedOnce'
        BY <1>1, <2>1, <2>2, <2>4, <3>1, <3>2, <3>3 DEF AnnouncedOnce
      <3>6. QED
        BY <2>3, <3>2, <3>4, <3>5 DEF OutcomeInv, OutcomeIsTheEnd, TabsAreFinal
    <2>6. CASE TakeSnapshot
      <3>1. ~Announces(Head(events), runs)
        BY <2>6 DEF TakeSnapshot, Deliver, Announces
      <3>2. UNCHANGED <<runs, files, outcome, worker, sent>>
        BY <2>6 DEF TakeSnapshot, sessionVars, workerVars
      <3>3. QED
        BY <1>1, <2>1, <2>2, <2>3, <2>4, <3>1, <3>2
           DEF OutcomeInv, FilesInOrder, AnnouncedOnce, OutcomeIsTheEnd, TabsAreFinal
    <2>7. CASE Finished
      <3>1. ~Announces(Head(events), runs) /\ Head(events).kind = "finished"
        BY <2>7 DEF Finished, Deliver, Announces
      <3>2. UNCHANGED <<runs, files, worker, sent>>
        BY <2>7 DEF Finished, workerVars
      <3>3. Silent(Tail(events), runs)
        BY <1>1, <1>2, <1>8, <2>1, <2>2, <3>1, EndsOnceTail
      <3>4. Announced(Tail(events), runs, Len(files), sent[runs])
        BY <2>4, <3>1
      <3>5. Len(files) = sent[runs]
        <4>1. ASSUME Len(files) < sent[runs] PROVE FALSE
          <5>1. Len(files) + 1 \in (Len(files) + 1)..sent[runs]
            BY <2>1, <4>1
          <5>2. PICK i \in 1..Len(Tail(events)) : Announces(Tail(events)[i], runs)
            BY <3>4, <5>1 DEF Announced
          <5>3. QED
            BY <3>3, <5>2 DEF Silent, Speaks, Announces
        <4>2. QED
          BY <2>1, <2>2, <4>1
      <3>6. HasEnded(runs)
        BY <1>3, <1>8, <3>1 DEF RunEventIsTrue
      <3>7. FilesInOrder' /\ AnnouncedOnce'
        BY <1>1, <2>1, <2>2, <3>2, <3>4 DEF OutcomeInv, FilesInOrder, AnnouncedOnce
      <3>8. OutcomeIsTheEnd'
        BY <1>1, <2>1, <3>2, <3>3, <3>5, <3>6 DEF OutcomeIsTheEnd, HasEnded
      <3>9. TabsAreFinal'
        <4>1. ASSUME outcome' \in {"Captured", "FailedWithFiles"}
              PROVE  entries' \in {ShowFiles("final"), ShowFiles("error")}
          BY <1>8, <2>7, <4>1 DEF Finished, Listening
        <4>2. ASSUME NEW f \in 1..Len(files)
              PROVE  ShowFiles("final")[runs][f] = "final" /\ ShowFiles("error")[runs][f] = "error"
          BY <2>1, <2>2, ShownFiles DEF OutcomeInv
        <4>3. QED
          BY <3>2, <4>1, <4>2 DEF TabsAreFinal
      <3>10. QED
        BY <3>7, <3>8, <3>9 DEF OutcomeInv
    <2>8. QED
      BY <1>8, <2>5, <2>6, <2>7
  <1>9. QED
    BY <1>5, <1>6, <1>7, <1>8 DEF EventLoop

\* Every step keeps the invariant.
LEMMA OutcomeStep == TypeOK /\ QuietInv /\ OutcomeInv /\ [Next]_vars => OutcomeInv'
  <1> SUFFICES ASSUME TypeOK, QuietInv, OutcomeInv, [Next]_vars PROVE OutcomeInv'
    OBVIOUS
  <1>1. CASE UNCHANGED vars
    BY <1>1, SameOutcome DEF vars, sessionVars, catalogVars, workerVars
  <1>2. ASSUME NEW c \in Choices, StartWhenIdle(c) PROVE OutcomeInv'
    <2>1. ui = "running" /\ UNCHANGED <<events, ui>>
      BY <1>2 DEF StartWhenIdle
    <2>2. CASE UNCHANGED <<runs, files, outcome, catalogVars, worker, sent>>
      BY <2>1, <2>2, SameOutcome DEF catalogVars
    <2>3. CASE Start(c, "Idle", IF state = "Checking" THEN checks + 1 ELSE checks)
      BY <2>1, <2>3, StartOutcome
    <2>4. QED
      BY <1>2, <2>2, <2>3 DEF StartWhenIdle, workerVars
  <1>3. ASSUME NEW c \in Choices, StartDirectly(c) PROVE OutcomeInv'
    BY <1>3, StartOutcome DEF StartDirectly
  <1>4. CASE Stop \/ Close \/ Retire \/ ConversionStarts \/ ConversionEnds \/ Terminated
    BY <1>1, <1>4, SameOutcome DEF Stop, Close, Retire, ConversionStarts, ConversionEnds,
       Terminated,
       sessionVars, catalogVars, workerVars
  <1>5. CASE CheckAnswered
    <2> DEFINE e == CheckedEvent(Head(asking).check, Head(asking).choice)
    <2>1. UNCHANGED <<runs, files, outcome, entries, worker, sent, ui>>
      BY <1>5 DEF CheckAnswered, sessionVars, catalogVars, workerVars
    <2>2. e \in Events /\ ~Speaks(e, runs)
      <3>1. Head(asking) \in [check : Nat, choice : Choices]
        BY <1>5, QueueHead DEF CheckAnswered, TypeOK
      <3>2. QED
        BY <3>1 DEF CheckedEvent, Events, Speaks
    <2>3. events' = Append(events, e) /\ events' \in Seq(Events)
      BY <1>5, <2>2, AppendProperties DEF CheckAnswered, TypeOK
    <2> HIDE DEF e
    <2>4. QED
      BY <2>1, <2>2, <2>3, OtherAppended, RestOutcome DEF HasEnded
  <1>6. ASSUME NEW r \in RunIds, Worker(r) PROVE OutcomeInv'
    BY <1>6, WorkerOutcome
  <1>7. CASE EventLoop
    BY <1>7, DeliveredOutcome
  <1>8. CASE Join
    <2>1. UNCHANGED <<runs, files, outcome, entries, worker, sent>> /\ events' = << >> /\ ui' = "closed"
      BY <1>8 DEF Join, sessionVars, catalogVars, workerVars
    <2>2. AnnouncedOnce' /\ FilesInOrder' /\ TabsAreFinal'
      BY <2>1 DEF OutcomeInv, AnnouncedOnce, FilesInOrder, TabsAreFinal, EndsOnce
    <2>3. OutcomeIsTheEnd'
      BY <2>1 DEF OutcomeInv, OutcomeIsTheEnd, Silent, HasEnded
    <2>4. QED
      BY <2>2, <2>3 DEF OutcomeInv
  <1>9. QED
    BY <1>1, <1>2, <1>3, <1>4, <1>5, <1>6, <1>7, <1>8 DEF Next, User

\* The initial state has the invariant.
LEMMA InitOutcome == Init => OutcomeInv
  BY DEF Init, OutcomeInv, FilesInOrder, AnnouncedOnce, OutcomeIsTheEnd, TabsAreFinal

\* When the outcome of a run is told, every text file it announced has its tab, in order,
\* and the tabs of a capture that kept its files show the final summary or the error: for
\* every number of runs, of files of a ring buffer and of events still queued, those of the
\* runs let go of among them (live_capture_session.cpp: openFile, finish).
THEOREM OutcomesAreComplete == Spec => []OutcomeIsComplete
  <1>1. TypeOK /\ OutcomeInv => OutcomeIsComplete
    <2> SUFFICES ASSUME TypeOK, OutcomeInv, outcome # "None" PROVE OutcomeIsComplete
      BY DEF OutcomeIsComplete
    <2>1. Len(files) = sent[runs] /\ files = [f \in 1..Len(files) |-> f]
      BY DEF OutcomeInv, OutcomeIsTheEnd, FilesInOrder
    <2>2. QED
      BY <2>1 DEF OutcomeInv, TabsAreFinal, OutcomeIsComplete
  <1>2. QED
    BY <1>1, InitTypeOK, TypeOKStep, InitQuiet, QuietStep, InitOutcome, OutcomeStep, PTL DEF Spec

-----------------------------------------------------------------------------
(* The latest choice is the one that runs.  It rests on the numbers of the *)
(* checks, and on done() coming behind finished() in the queue: a pending start*)
(* finds the session idle.                                                 *)

\* Check n is of the choice c that the session checks, unless it was dropped.
CheckIsTrue(n, c) == n <= checks /\ (n = checks /\ state = "Checking" => c = choice)

\* So it is of the checks still to be asked for, and of their answers in the queue.
ChecksAreTrue ==
    /\ \A a \in Waiting(asking) : CheckIsTrue(a.check, a.choice)
    /\ \A e \in Waiting(events) : e.kind = "checked" => CheckIsTrue(e.check, e.choice)

\* Checks stay true as the counter goes up, the session leaves Checking, or nothing changes.
LEMMA ChecksKept ==
    ASSUME TypeOK, ChecksAreTrue, checks' \in Nat, checks' >= checks,
           checks' > checks \/ state' # "Checking" \/ (state = "Checking" /\ choice' = choice)
    PROVE  /\ \A a \in Waiting(asking) : CheckIsTrue(a.check, a.choice)'
           /\ \A e \in Waiting(events) : e.kind = "checked" => CheckIsTrue(e.check, e.choice)'
  <1>1. ASSUME NEW n \in Nat, NEW c, CheckIsTrue(n, c) PROVE CheckIsTrue(n, c)'
    BY <1>1 DEF CheckIsTrue, TypeOK
  <1>2. ASSUME NEW a \in Waiting(asking) PROVE CheckIsTrue(a.check, a.choice)'
    <2>1. a.check \in Nat
      <3>1. Waiting(asking) \subseteq [check : Nat, choice : Choices]
        BY WaitingTyped DEF TypeOK
      <3>2. QED
        BY <3>1
    <2>2. QED
      BY <1>1, <2>1 DEF ChecksAreTrue
  <1>3. ASSUME NEW e \in Waiting(events), e.kind = "checked" PROVE CheckIsTrue(e.check, e.choice)'
    <2>1. e \in Events
      BY WaitingTyped DEF TypeOK
    <2>2. e.check \in Nat
      BY <1>3, <2>1 DEF Events
    <2>3. QED
      BY <1>1, <1>3, <2>2 DEF ChecksAreTrue
  <1>4. QED
    BY <1>2, <1>3

\* The checks as start() is called, with a counter that is no lower.
LEMMA StartChecks ==
    ASSUME TypeOK, ChecksAreTrue, NEW c, NEW st, NEW ck \in Nat, Start(c, st, ck),
           ck >= checks, st # "Checking", Waiting(events') \subseteq Waiting(events)
    PROVE  ChecksAreTrue'
  <1>0. checks \in Nat /\ asking \in Seq([check : Nat, choice : Choices])
    BY DEF TypeOK
  <1>1. CASE state' # "Checking" /\ checks' = ck /\ asking' = asking
    BY <1>0, <1>1, ChecksKept DEF ChecksAreTrue
  <1>2. CASE /\ state' = "Checking" /\ checks' = ck + 1 /\ choice' = c
             /\ asking' = Append(asking, [check |-> ck + 1, choice |-> c])
    <2>1. Waiting(asking') = Waiting(asking) \union {[check |-> ck + 1, choice |-> c]}
      BY <1>0, <1>2, WaitingAppend
    <2>2. CheckIsTrue(ck + 1, c)'
      BY <1>2 DEF CheckIsTrue
    <2>3. checks' \in Nat /\ checks' > checks /\ checks' >= checks
      BY <1>0, <1>2
    <2>4. QED
      BY <2>1, <2>2, <2>3, ChecksKept DEF ChecksAreTrue
  <1>3. QED
    BY <1>1, <1>2, StartSteps DEF Run

\* The checks in a step that starts and drops none.
LEMMA SameChecks ==
    ASSUME TypeOK, ChecksAreTrue, UNCHANGED <<checks, choice, asking>>,
           state' = "Checking" => state = "Checking",
           NEW new, Waiting(events') \subseteq Waiting(events) \union new,
           \A e \in new : e.kind # "checked"
    PROVE  ChecksAreTrue'
  <1>1. checks \in Nat
    BY DEF TypeOK
  <1>2. /\ \A a \in Waiting(asking) : CheckIsTrue(a.check, a.choice)'
        /\ \A e \in Waiting(events) : e.kind = "checked" => CheckIsTrue(e.check, e.choice)'
    BY <1>1, ChecksKept
  <1>3. QED
    BY <1>2 DEF ChecksAreTrue

\* Every step keeps the checks true, if captures are started as the app starts them.
LEMMA ChecksStep ==
    ASSUME DirectStarts = FALSE, TypeOK, ChecksAreTrue, [Next]_vars,
           pending # NoChoice => state # "Checking"
    PROVE  ChecksAreTrue'
  <1>0. checks \in Nat /\ asking \in Seq([check : Nat, choice : Choices]) /\ events \in Seq(Events)
    BY DEF TypeOK
  <1>a. ASSUME UNCHANGED <<checks, choice, asking>>, state' = "Checking" => state = "Checking",
               Waiting(events') \subseteq Waiting(events)
        PROVE  ChecksAreTrue'
    <2> DEFINE new == {}
    <2>1. Waiting(events') \subseteq Waiting(events) \union new /\ \A e \in new : e.kind # "checked"
      BY <1>a
    <2> HIDE DEF new
    <2>2. QED
      BY <1>a, <2>1, SameChecks
  <1>1. CASE UNCHANGED vars
    BY <1>1, <1>a DEF vars, sessionVars
  <1>2. ASSUME NEW c \in Choices, StartWhenIdle(c) PROVE ChecksAreTrue'
    <2>1. events' = events
      BY <1>2 DEF StartWhenIdle
    <2>2. CASE state' = "Stopping" /\ UNCHANGED <<checks, choice, asking>>
      BY <1>a, <2>1, <2>2
    <2>3. CASE /\ state' = "Idle" /\ UNCHANGED <<choice, asking>>
               /\ checks' = IF state = "Checking" THEN checks + 1 ELSE checks
      <3>1. checks' \in Nat /\ checks' >= checks
        BY <1>0, <2>3
      <3>2. QED
        BY <2>1, <2>3, <3>1, ChecksKept DEF ChecksAreTrue
    <2>4. CASE Start(c, "Idle", IF state = "Checking" THEN checks + 1 ELSE checks)
      <3> DEFINE ck == IF state = "Checking" THEN checks + 1 ELSE checks
      <3>1. ck \in Nat /\ ck >= checks /\ Start(c, "Idle", ck)
        BY <1>0, <2>4
      <3> HIDE DEF ck
      <3>2. QED
        BY <2>1, <3>1, StartChecks
    <2>5. QED
      BY <1>2, <2>2, <2>3, <2>4 DEF StartWhenIdle
  <1>3. ASSUME NEW c \in Choices, StartDirectly(c) PROVE ChecksAreTrue'
    BY <1>3 DEF StartDirectly
  <1>4. CASE Stop
    <2>1. CASE state' # "Checking" /\ checks' = checks + 1
      BY <1>0, <1>4, <2>1, ChecksKept DEF Stop, ChecksAreTrue
    <2>2. CASE state' # "Checking" /\ checks' = checks
      BY <1>4, <1>a, <2>2 DEF Stop
    <2>3. QED
      BY <1>4, <2>1, <2>2 DEF Stop
  <1>5. CASE Close \/ Retire \/ ConversionStarts \/ ConversionEnds \/ Terminated
    BY <1>1, <1>5, <1>a DEF Close, Retire, ConversionStarts, ConversionEnds, Terminated, sessionVars
  <1>6. CASE Join
    <2>1. Waiting(events') = {}
      BY <1>6 DEF Join, Waiting
    <2>2. QED
      BY <1>6, <1>a, <2>1 DEF Join, sessionVars
  <1>7. CASE CheckAnswered
    <2> DEFINE a == Head(asking)
               e == CheckedEvent(a.check, a.choice)
    <2>1. a \in Waiting(asking) /\ Waiting(Tail(asking)) \subseteq Waiting(asking)
      BY <1>0, <1>7, WaitingTail DEF CheckAnswered
    <2>2. /\ UNCHANGED <<state, checks, choice>> /\ asking' = Tail(asking)
          /\ events' = Append(events, e)
      BY <1>7 DEF CheckAnswered, sessionVars
    <2>3. e.check = a.check /\ e.choice = a.choice
      BY DEF CheckedEvent
    <2> HIDE DEF e, a
    <2>4. Waiting(events') = Waiting(events) \union {e}
      BY <1>0, <2>2, WaitingAppend
    <2>5. QED
      BY <2>1, <2>2, <2>3, <2>4 DEF ChecksAreTrue, CheckIsTrue
  <1>8. ASSUME NEW r \in RunIds, Worker(r) PROVE ChecksAreTrue'
    <2>1. UNCHANGED <<state, checks, choice, asking>>
      BY <1>8, WorkerSteps DEF sessionVars
    <2>2. ASSUME NEW new, Waiting(events') = Waiting(events) \union new, \A e \in new : e.kind # "checked"
          PROVE  ChecksAreTrue'
      BY <2>1, <2>2, SameChecks
    <2>3. CASE SourceMade(r) \/ HeaderCame(r)
      BY <1>a, <2>1, <2>3 DEF SourceMade, HeaderCame
    <2>4. CASE FirstOfText(r)
      <3> DEFINE new == {ReadyToOpenEvent(r, sent[r] + 1), RunEvent("snapshot", r)}
      <3>1. Waiting(events') = Waiting(events) \union new
        BY <2>4, FirstOfTextEvents
      <3>2. \A e \in new : e.kind # "checked"
        BY DEF ReadyToOpenEvent, RunEvent
      <3> HIDE DEF new
      <3>3. QED
        BY <2>2, <3>1, <3>2
    <2>5. ASSUME NEW e, events' = Append(events, e), e.kind # "checked" PROVE ChecksAreTrue'
      <3>1. Waiting(events') = Waiting(events) \union {e}
        BY <1>0, <2>5, WaitingAppend
      <3> DEFINE new == {e}
      <3>2. Waiting(events') = Waiting(events) \union new /\ \A x \in new : x.kind # "checked"
        BY <2>5, <3>1
      <3> HIDE DEF new
      <3>3. QED
        BY <2>2, <3>2
    <2>6. CASE Snapshot(r) \/ ProgramEnded(r)
      BY <2>5, <2>6 DEF Snapshot, ProgramEnded, RunEvent
    <2>7. ASSUME NEW result \in Results, Finish(r, result) PROVE ChecksAreTrue'
      BY <2>5, <2>7 DEF Finish, FinishedEvent
    <2>8. QED
      BY <1>8, <2>3, <2>4, <2>6, <2>7, WorkerSteps
  <1>9. CASE EventLoop
    <2>1. events # << >> /\ events' = Tail(events)
      BY <1>9 DEF EventLoop, Checked, OpenFile, TakeSnapshot, Finished, RunDone, Deliver
    <2>2. Waiting(events') \subseteq Waiting(events)
      BY <1>0, <2>1, WaitingTail
    <2>3. CASE Checked
      BY <1>a, <2>2, <2>3, <1>0, ChecksKept DEF Checked, Run, sessionVars, ChecksAreTrue
    <2>4. CASE OpenFile \/ TakeSnapshot \/ Finished
      BY <1>a, <2>2, <2>4 DEF OpenFile, TakeSnapshot, Finished, sessionVars
    <2>5. CASE RunDone
      <3>1. CASE UNCHANGED <<sessionVars, asking>>
        BY <1>a, <2>2, <3>1 DEF sessionVars
      <3>2. CASE pending # NoChoice /\ Start(pending, state, checks)
        BY <1>0, <2>2, <3>2, StartChecks
      <3>3. QED
        BY <2>5, <3>1, <3>2 DEF RunDone
    <2>6. QED
      BY <1>9, <2>3, <2>4, <2>5 DEF EventLoop
  <1>10. QED
    BY <1>1, <1>2, <1>3, <1>4, <1>5, <1>6, <1>7, <1>8, <1>9 DEF Next, User

\* The event is finished() of run r, or its done().
EndsRun(e, r) == e.kind = "finished" /\ e.run = r
\* The event is done() of run r.
IsDone(e, r) == e.kind = "done" /\ e.run = r

\* The end of run r's capture is yet to be delivered.
EndIsQueued(q, r) == \E e \in Waiting(q) : EndsRun(e, r)

\* done() of run r comes behind its finished() in the queue.
DoneIsBehind(q, r) ==
    \A j \in 1..Len(q) : IsDone(q[j], r) => \E i \in 1..Len(q) : i < j /\ EndsRun(q[i], r)

\* The pending choice is the one asked for last, and waits for a run that is not done.
PendingIsAsked ==
    pending # NoChoice =>
        pending = asked /\ state \in {"Idle", "Stopping"} /\ runs > 0 /\ ~done[runs]

\* A session that captures, or is stopping its capture, has not been told of its end: if the
\* capture has ended, finished() waits in the queue, and done() comes behind it only.
EndIsToCome ==
    state \in {"Capturing", "Stopping"} =>
        /\ runs > 0 /\ ~done[runs]
        /\ ui # "closed" /\ HasEnded(runs) => EndIsQueued(events, runs)
        /\ DoneIsBehind(events, runs)

\* What the latest choice rests on.
LatestInv ==
    /\ LatestChoiceRuns
    /\ PendingIsAsked
    /\ EndIsToCome
    /\ ChecksAreTrue

\* A done() may be appended once the run's end is queued.
LEMMA DoneBehindAppend ==
    ASSUME NEW q \in Seq(Events), NEW e \in Events, NEW r \in RunIds, DoneIsBehind(q, r),
           IsDone(e, r) => EndIsQueued(q, r)
    PROVE  DoneIsBehind(Append(q, e), r)
  <1> DEFINE a == Append(q, e)
  <1>0. \A i \in 1..Len(a) : \/ i = Len(q) + 1 /\ a[i] = e
                             \/ i \in 1..Len(q) /\ a[i] = q[i]
    BY Appended
  <1>1. /\ Len(q) \in Nat /\ Len(a) = Len(q) + 1
        /\ \A i \in 1..Len(q) : i \in 1..Len(a) /\ a[i] = q[i] /\ i < Len(q) + 1
    BY Appended
  <1> HIDE DEF a
  <1>2. ASSUME NEW j \in 1..Len(a), IsDone(a[j], r)
        PROVE  \E i \in 1..Len(a) : i < j /\ EndsRun(a[i], r)
    <2>1. CASE j \in 1..Len(q) /\ a[j] = q[j]
      BY <1>1, <1>2, <2>1 DEF DoneIsBehind
    <2>2. CASE j = Len(q) + 1 /\ a[j] = e
      BY <1>1, <1>2, <2>2 DEF EndIsQueued, Waiting
    <2>3. QED
      BY <1>0, <2>1, <2>2
  <1>3. QED
    BY <1>2 DEF DoneIsBehind, a

\* As long as the run's end is queued, the head is not its done().
LEMMA DoneBehindTail ==
    ASSUME NEW q \in Seq(Events), q # << >>, NEW r \in RunIds, DoneIsBehind(q, r)
    PROVE  /\ ~IsDone(Head(q), r)
           /\ ~EndsRun(Head(q), r) => DoneIsBehind(Tail(q), r)
           /\ ~EndsRun(Head(q), r) /\ EndIsQueued(q, r) => EndIsQueued(Tail(q), r)
  <1> DEFINE t == Tail(q)
  <1>0. /\ Len(t) = Len(q) - 1 /\ Len(q) \in Nat
        /\ \A i \in 1..Len(t) : i + 1 \in 1..Len(q) /\ t[i] = q[i + 1]
        /\ Head(q) = q[1] /\ 1 \in 1..Len(q)
    BY QueueHead
  <1> HIDE DEF t
  <1>1. \A i \in 1..Len(q) : i # 1 => i - 1 \in 1..Len(t) /\ t[i - 1] = q[i]
    <2>1. ASSUME NEW i \in 1..Len(q), i # 1 PROVE i - 1 \in 1..Len(t) /\ t[i - 1] = q[i]
      <3>1. i - 1 \in 1..Len(t) /\ (i - 1) + 1 = i
        BY <1>0, <2>1
      <3>2. QED
        BY <1>0, <3>1
    <2>2. QED
      BY <2>1
  <1>2. ~IsDone(Head(q), r)
    BY <1>0 DEF DoneIsBehind
  <1>3. ASSUME ~EndsRun(Head(q), r), NEW j \in 1..Len(t), IsDone(t[j], r)
        PROVE  \E i \in 1..Len(t) : i < j /\ EndsRun(t[i], r)
    <2>1. PICK i \in 1..Len(q) : i < j + 1 /\ EndsRun(q[i], r)
      BY <1>0, <1>3 DEF DoneIsBehind
    <2>2. i # 1
      BY <1>0, <1>3, <2>1
    <2>3. i - 1 \in 1..Len(t) /\ i - 1 < j /\ EndsRun(t[i - 1], r)
      BY <1>1, <2>1, <2>2
    <2>4. QED
      BY <2>3
  <1>4. ASSUME ~EndsRun(Head(q), r), EndIsQueued(q, r) PROVE EndIsQueued(t, r)
    <2>1. PICK i \in 1..Len(q) : EndsRun(q[i], r)
      BY <1>4 DEF EndIsQueued, Waiting
    <2>2. i # 1
      BY <1>0, <1>4, <2>1
    <2>3. QED
      BY <1>1, <2>1, <2>2 DEF EndIsQueued, Waiting
  <1>5. QED
    BY <1>2, <1>3, <1>4 DEF DoneIsBehind, t

\* An end that is queued stays queued behind further events.
LEMMA EndQueuedAppend ==
    ASSUME NEW q \in Seq(Events), NEW e \in Events, NEW r \in RunIds,
           EndIsQueued(q, r) \/ EndsRun(e, r)
    PROVE  EndIsQueued(Append(q, e), r)
  BY WaitingAppend DEF EndIsQueued

\* Starting the next run, of the choice asked for last.
LEMMA RunLatest ==
    ASSUME TypeOK, QuietInv, NEW c, Run(c), c = asked', pending' = NoChoice,
           Waiting(events') \subseteq Waiting(events),
           \A r \in RunIds : r > runs => ~done'[r],
           ChecksAreTrue'
    PROVE  LatestInv'
  <1>1. runs \in Nat /\ runs + 1 \in RunIds /\ runs' = runs + 1 /\ runs + 1 > runs
    BY BoundsAssumption DEF TypeOK, Run, RunIds
  <1>2. choice' = c /\ state' = "Capturing" /\ worker' = [worker EXCEPT ![runs + 1] = "opening"]
    BY DEF Run
  <1>3. ~HasEnded(runs)'
    BY <1>1, <1>2 DEF HasEnded, TypeOK
  <1>4. \A e \in Waiting(events') : ~IsDone(e, runs + 1)
    BY <1>1 DEF QuietInv, EventsAreTrue, RunEventIsTrue, IsDone
  <1>5. DoneIsBehind(events', runs + 1)
    BY <1>4 DEF DoneIsBehind, Waiting
  <1>6. EndIsToCome'
    BY <1>1, <1>3, <1>5 DEF EndIsToCome
  <1>7. QED
    BY <1>2, <1>6 DEF LatestInv, LatestChoiceRuns, PendingIsAsked

\* Steps that leave the session's state, its choice and its run as they are.
LEMMA SameLatest ==
    ASSUME TypeOK, LatestInv, UNCHANGED <<state, pending, choice, runs, asked>>,
           runs > 0 => done'[runs] = done[runs],
           state \in {"Capturing", "Stopping"} =>
               /\ ui' # "closed" /\ HasEnded(runs)' => EndIsQueued(events', runs)
               /\ DoneIsBehind(events', runs),
           ChecksAreTrue'
    PROVE  LatestInv'
  <1>1. LatestChoiceRuns' /\ PendingIsAsked'
    BY DEF LatestInv, LatestChoiceRuns, PendingIsAsked
  <1>2. EndIsToCome'
    BY DEF LatestInv, EndIsToCome
  <1>3. QED
    BY <1>1, <1>2 DEF LatestInv

\* start() by startWhenIdle(), or for the pending choice.
LEMMA StartLatest ==
    ASSUME TypeOK, QuietInv, NEW c, NEW st, NEW ck, Start(c, st, ck), st # "Capturing", st # "Stopping",
           st # "Checking", c = asked', pending' = NoChoice,
           Waiting(events') \subseteq Waiting(events),
           \A r \in RunIds : r > runs => done'[r] = done[r],
           ChecksAreTrue'
    PROVE  LatestInv'
  <1>1. CASE Run(c)
    <2>1. \A r \in RunIds : r > runs => ~done'[r]
      BY DEF QuietInv, LaterRunsAreNew
    <2>2. QED
      BY <1>1, <2>1, RunLatest
  <1>2. CASE state' = st
    BY <1>2 DEF LatestInv, LatestChoiceRuns, PendingIsAsked, EndIsToCome
  <1>3. CASE state' = "Checking" /\ choice' = c
    BY <1>3 DEF LatestInv, LatestChoiceRuns, PendingIsAsked, EndIsToCome
  <1>4. QED
    BY <1>1, <1>2, <1>3, StartSteps

\* The invariant in a step of a worker.
LEMMA WorkerLatest ==
    ASSUME TypeOK, QuietInv, LatestInv, NEW r \in RunIds, Worker(r), ChecksAreTrue'
    PROVE  LatestInv'
  <1>0. UNCHANGED <<state, pending, choice, runs, asked, done, ui>>
    BY WorkerSteps DEF sessionVars
  <1>1. worker[r] \notin {"none", "over"} /\ ui # "closed" /\ events \in Seq(Events)
        /\ runs \in Nat
    <2>1. worker[r] \notin {"none", "over"}
      BY DEF Worker, SourceMade, SourceFailed, HeaderCame, StoppedBeforeHeader,
         FirstOfText, Snapshot, StreamEnded, StreamBrokeOff, OutputFailed, ProgramEnded
    <2>2. QED
      BY <2>1, BoundsAssumption DEF QuietInv, ClosedIsQuiet, TypeOK
  <1>2. SUFFICES ASSUME state \in {"Capturing", "Stopping"}
                 PROVE  /\ HasEnded(runs)' => EndIsQueued(events', runs)
                        /\ DoneIsBehind(events', runs)
    BY <1>0, SameLatest
  <1>3. /\ runs \in RunIds /\ DoneIsBehind(events, runs)
        /\ HasEnded(runs) => EndIsQueued(events, runs)
    BY <1>1, <1>2 DEF LatestInv, EndIsToCome, TypeOK, RunIds
  <1>4. ASSUME NEW e \in Events, events' = Append(events, e), IsDone(e, runs) => HasEnded(runs),
               HasEnded(runs)' => HasEnded(runs) \/ EndsRun(e, runs)
        PROVE  /\ HasEnded(runs)' => EndIsQueued(events', runs)
               /\ DoneIsBehind(events', runs)
    BY <1>1, <1>3, <1>4, DoneBehindAppend, EndQueuedAppend
  <1>5. CASE SourceMade(r) \/ HeaderCame(r)
    <2>1. HasEnded(runs)' => HasEnded(runs)
      BY <1>0, <1>3, <1>5 DEF SourceMade, HeaderCame, HasEnded, TypeOK
    <2>2. QED
      BY <1>3, <1>5, <2>1 DEF SourceMade, HeaderCame
  <1>6. CASE FirstOfText(r)
    <2> DEFINE a == ReadyToOpenEvent(r, sent[r] + 1)
               b == RunEvent("snapshot", r)
    <2>1. /\ events' = Append(Append(events, a), b) /\ Append(events, a) \in Seq(Events)
          /\ a \in Events /\ b \in Events
      BY <1>6, FirstOfTextEvents
    <2>2. ~IsDone(a, runs) /\ ~IsDone(b, runs)
      BY DEF IsDone, ReadyToOpenEvent, RunEvent
    <2> HIDE DEF a, b
    <2>3. /\ DoneIsBehind(Append(events, a), runs)
          /\ EndIsQueued(events, runs) => EndIsQueued(Append(events, a), runs)
      BY <1>1, <1>3, <2>1, <2>2, DoneBehindAppend, EndQueuedAppend
    <2>4. /\ DoneIsBehind(events', runs)
          /\ EndIsQueued(Append(events, a), runs) => EndIsQueued(events', runs)
      <3> DEFINE q == Append(events, a)
      <3>1. q \in Seq(Events) /\ DoneIsBehind(q, runs) /\ events' = Append(q, b)
        BY <2>1, <2>3
      <3> HIDE DEF q
      <3>2. DoneIsBehind(Append(q, b), runs) /\ (EndIsQueued(q, runs) => EndIsQueued(Append(q, b), runs))
        BY <1>3, <2>1, <2>2, <3>1, DoneBehindAppend, EndQueuedAppend
      <3>3. QED
        BY <3>1, <3>2 DEF q
    <2>5. HasEnded(runs)' => HasEnded(runs)
      BY <1>0, <1>6 DEF FirstOfText, HasEnded
    <2>6. QED
      BY <1>3, <2>3, <2>4, <2>5
  <1>7. CASE Snapshot(r)
    <2> DEFINE e == RunEvent("snapshot", r)
    <2>1. e \in Events /\ ~IsDone(e, runs)
      BY DEF RunEvent, Events, IsDone
    <2>2. events' = Append(events, e) /\ (HasEnded(runs)' => HasEnded(runs))
      BY <1>0, <1>7 DEF Snapshot, HasEnded
    <2> HIDE DEF e
    <2>3. QED
      BY <1>4, <2>1, <2>2
  <1>8. CASE ProgramEnded(r)
    <2> DEFINE e == RunEvent("done", r)
    <2>1. e \in Events /\ (IsDone(e, runs) => r = runs)
      BY DEF RunEvent, Events, IsDone
    <2>2. events' = Append(events, e) /\ HasEnded(r) /\ worker' = [worker EXCEPT ![r] = "over"]
      BY <1>8 DEF ProgramEnded, HasEnded
    <2> HIDE DEF e
    <2>3. HasEnded(runs)' => HasEnded(runs)
      BY <1>0, <1>3, <2>2 DEF HasEnded, TypeOK
    <2>4. QED
      BY <1>4, <2>1, <2>2, <2>3
  <1>9. ASSUME NEW result \in Results, Finish(r, result)
        PROVE  /\ HasEnded(runs)' => EndIsQueued(events', runs)
               /\ DoneIsBehind(events', runs)
    <2> DEFINE e == FinishedEvent(r, result)
    <2>1. e \in Events /\ ~IsDone(e, runs) /\ (r = runs => EndsRun(e, runs))
      BY DEF FinishedEvent, Events, IsDone, EndsRun
    <2>2. events' = Append(events, e) /\ worker' = [worker EXCEPT ![r] = "ending"]
      BY <1>9 DEF Finish
    <2> HIDE DEF e
    <2>3. HasEnded(runs)' => HasEnded(runs) \/ r = runs
      BY <1>0, <1>3, <2>2 DEF HasEnded, TypeOK
    <2>4. QED
      BY <1>4, <2>1, <2>2, <2>3
  <1>10. QED
    BY <1>5, <1>6, <1>7, <1>8, <1>9, WorkerSteps

\* The invariant as the UI thread delivers an event.
LEMMA DeliveredLatest ==
    ASSUME TypeOK, QuietInv, LatestInv, EventLoop, ChecksAreTrue'
    PROVE  LatestInv'
  <1>1. /\ ui = "running" /\ ui' = ui /\ events # << >> /\ events' = Tail(events) /\ asked' = asked
    BY DEF EventLoop, Checked, OpenFile, TakeSnapshot, Finished, RunDone, Deliver
  <1>2. events \in Seq(Events)
    BY DEF TypeOK
  <1>3. /\ Waiting(events') \subseteq Waiting(events)
        /\ Head(events) \in Waiting(events) /\ Head(events) \in Events
    BY <1>1, <1>2, WaitingTail
  <1>4. RunEventIsTrue(Head(events)) /\ runs \in Nat /\ runs <= MaxRuns
    BY <1>3, BoundsAssumption DEF QuietInv, EventsAreTrue, TypeOK
  <1>5. state \in {"Capturing", "Stopping"} =>
            /\ ~IsDone(Head(events), runs)
            /\ ~EndsRun(Head(events), runs) =>
                   /\ HasEnded(runs) => EndIsQueued(events', runs)
                   /\ DoneIsBehind(events', runs)
    <2>1. SUFFICES ASSUME state \in {"Capturing", "Stopping"}
                   PROVE  /\ ~IsDone(Head(events), runs)
                          /\ ~EndsRun(Head(events), runs) =>
                                 /\ HasEnded(runs) => EndIsQueued(events', runs)
                                 /\ DoneIsBehind(events', runs)
      OBVIOUS
    <2>2. /\ DoneIsBehind(events, runs) /\ (HasEnded(runs) => EndIsQueued(events, runs))
          /\ runs > 0
      BY <1>1, <2>1 DEF LatestInv, EndIsToCome
    <2>3. runs \in RunIds
      BY <1>4, <2>2 DEF RunIds
    <2>4. QED
      BY <1>1, <1>2, <2>2, <2>3, DoneBehindTail
  \* The event does not end the latest run, and leaves the session as it is.
  <1>6. ASSUME UNCHANGED <<state, pending, choice, runs, worker>>, ~EndsRun(Head(events), runs),
               runs > 0 => done'[runs] = done[runs]
        PROVE  LatestInv'
    BY <1>1, <1>5, <1>6, SameLatest DEF HasEnded
  <1>7. CASE Checked
    <2>0. ~EndsRun(Head(events), runs) /\ Head(events).kind = "checked"
      BY <1>7 DEF Checked, Deliver, EndsRun
    <2>1. CASE UNCHANGED <<sessionVars, catalogVars, workerVars, done, asking>>
      BY <1>6, <2>0, <2>1 DEF sessionVars, workerVars
    <2>2. CASE /\ state = "Checking" /\ Head(events).check = checks
               /\ UNCHANGED <<pending, checks, done, asking>>
               /\ (state' = "Idle" /\ runs' = runs) \/ Run(Head(events).choice)
      <3>1. pending = NoChoice /\ Head(events).choice = asked
        BY <1>3, <2>0, <2>2 DEF LatestInv, PendingIsAsked, LatestChoiceRuns, ChecksAreTrue,
           CheckIsTrue
      <3>2. CASE Run(Head(events).choice)
        <4>1. \A r \in RunIds : r > runs => ~done'[r]
          BY <2>2 DEF QuietInv, LaterRunsAreNew
        <4>2. QED
          BY <1>1, <1>3, <2>2, <3>1, <3>2, <4>1, RunLatest
      <3>3. CASE state' = "Idle"
        BY <2>2, <3>1, <3>3 DEF LatestInv, LatestChoiceRuns, PendingIsAsked, EndIsToCome
      <3>4. QED
        BY <2>2, <3>2, <3>3
    <2>3. QED
      BY <1>7, <2>1, <2>2 DEF Checked
  <1>8. CASE OpenFile \/ TakeSnapshot
    BY <1>6, <1>8 DEF OpenFile, TakeSnapshot, Deliver, EndsRun, sessionVars, workerVars
  <1>9. CASE Finished
    <2>1. CASE ~Listening(Head(events).run)
      BY <1>6, <1>9, <2>1 DEF Finished, Listening, EndsRun, workerVars
    <2>2. CASE Listening(Head(events).run)
      <3>1. state' = "Idle" /\ UNCHANGED <<pending, runs, done>>
        BY <1>9, <2>2 DEF Finished
      <3>2. QED
        BY <1>1, <3>1 DEF LatestInv, LatestChoiceRuns, PendingIsAsked, EndIsToCome
    <2>3. QED
      BY <2>1, <2>2
  <1>10. CASE RunDone
    <2>1. /\ Head(events).kind = "done" /\ ~EndsRun(Head(events), runs)
          /\ done' = [done EXCEPT ![Head(events).run] = TRUE]
      BY <1>10 DEF RunDone, Deliver, EndsRun
    <2>2. Head(events).run \in RunIds /\ Head(events).run <= runs
      BY <1>3, <1>4, <2>1 DEF RunEventIsTrue, Events
    <2>3. \A r \in RunIds : r # Head(events).run => done'[r] = done[r]
      BY <2>1, Zenon DEF TypeOK
    <2>4. CASE ~Listening(Head(events).run)
      <3>1. runs > 0 => done'[runs] = done[runs]
        BY <1>4, <2>3, <2>4 DEF Listening, RunIds
      <3>2. QED
        BY <1>6, <1>10, <2>1, <2>4, <3>1 DEF RunDone, sessionVars, workerVars
    <2>5. CASE Listening(Head(events).run)
      <3>1. state \notin {"Capturing", "Stopping"}
        BY <1>5, <2>1, <2>5 DEF Listening, IsDone
      <3>2. CASE pending = NoChoice /\ UNCHANGED sessionVars
        BY <1>1, <3>1, <3>2 DEF sessionVars, LatestInv, LatestChoiceRuns, PendingIsAsked,
           EndIsToCome
      <3>3. CASE pending # NoChoice /\ pending' = NoChoice /\ Start(pending, state, checks)
        <4>1. state = "Idle" /\ pending = asked'
          BY <1>1, <3>1, <3>3 DEF LatestInv, PendingIsAsked
        <4>2. \A r \in RunIds : r > runs => done'[r] = done[r]
          BY <1>4, <2>2, <2>3 DEF RunIds
        <4>3. QED
          BY <1>3, <3>3, <4>1, <4>2, StartLatest
      <3>4. QED
        BY <1>10, <2>5, <3>2, <3>3 DEF RunDone
    <2>6. QED
      BY <2>4, <2>5
  <1>11. QED
    BY <1>7, <1>8, <1>9, <1>10 DEF EventLoop

\* Every step keeps the invariant, if captures are started as the app starts them.
LEMMA LatestStep ==
    ASSUME DirectStarts = FALSE, TypeOK, QuietInv, LatestInv, [Next]_vars
    PROVE  LatestInv'
  <1>0. ChecksAreTrue'
    BY ChecksStep DEF LatestInv, PendingIsAsked
  <1>1. CASE UNCHANGED vars
    BY <1>0, <1>1, SameLatest DEF vars, sessionVars, workerVars, HasEnded, LatestInv, EndIsToCome
  <1>2. ASSUME NEW c \in Choices, StartWhenIdle(c) PROVE LatestInv'
    <2>1. asked' = c /\ UNCHANGED <<done, events, ui>> /\ runs \in Nat /\ runs <= MaxRuns
      BY <1>2, BoundsAssumption DEF StartWhenIdle, TypeOK
    <2>2. CASE /\ state \in {"Capturing", "Stopping"} /\ state' = "Stopping"
               /\ pending' = c /\ UNCHANGED <<runs, worker>>
      BY <1>0, <2>1, <2>2 DEF LatestInv, LatestChoiceRuns, PendingIsAsked, EndIsToCome, HasEnded
    <2>3. CASE ~LastRunIsDone /\ state' = "Idle" /\ pending' = c /\ runs' = runs
      <3>1. runs > 0 /\ ~done[runs]
        BY <2>1, <2>3 DEF LastRunIsDone, RunIds
      <3>2. QED
        BY <1>0, <2>1, <2>3, <3>1 DEF LatestInv, LatestChoiceRuns, PendingIsAsked, EndIsToCome
    <2>4. CASE /\ LastRunIsDone /\ UNCHANGED pending
               /\ Start(c, "Idle", IF state = "Checking" THEN checks + 1 ELSE checks)
      <3>1. pending = NoChoice
        BY <2>1, <2>4 DEF LatestInv, PendingIsAsked, LastRunIsDone, RunIds
      <3>2. QED
        BY <1>0, <2>1, <2>4, <3>1, StartLatest
    <2>5. QED
      BY <1>2, <2>2, <2>3, <2>4 DEF StartWhenIdle
  <1>3. ASSUME NEW c \in Choices, StartDirectly(c) PROVE LatestInv'
    BY <1>3 DEF StartDirectly
  <1>4. CASE Stop
    <2>1. UNCHANGED <<pending, runs, worker, done, events, ui>> /\ asked' = asked
      BY <1>4 DEF Stop
    <2>2. pending = NoChoice
      BY <1>4 DEF Stop, LatestInv, PendingIsAsked
    <2>3. CASE state' = "Idle"
      BY <1>0, <2>1, <2>2, <2>3 DEF LatestInv, LatestChoiceRuns, PendingIsAsked, EndIsToCome
    <2>4. CASE state = "Capturing" /\ state' = "Stopping"
      BY <1>0, <2>1, <2>2, <2>4 DEF LatestInv, LatestChoiceRuns, PendingIsAsked, EndIsToCome,
         HasEnded
    <2>5. QED
      BY <1>4, <2>3, <2>4 DEF Stop
  <1>5. CASE Close \/ Retire \/ ConversionStarts \/ ConversionEnds
    <2>1. /\ UNCHANGED <<state, pending, choice, runs, asked, done, events, worker>>
          /\ ui' # "closed" => ui # "closed"
      BY <1>5 DEF Close, Retire, ConversionStarts, ConversionEnds, sessionVars, workerVars
    <2>2. QED
      BY <1>0, <2>1, SameLatest DEF LatestInv, EndIsToCome, HasEnded
  <1>6. CASE Join
    <2>1. /\ UNCHANGED <<state, pending, choice, runs, asked, done>> /\ events' = << >> /\ ui' = "closed"
      BY <1>6 DEF Join, sessionVars
    <2>2. DoneIsBehind(events', runs)
      BY <2>1 DEF DoneIsBehind
    <2>3. QED
      BY <1>0, <2>1, <2>2, SameLatest
  <1>7. CASE CheckAnswered
    <2> DEFINE e == CheckedEvent(Head(asking).check, Head(asking).choice)
    <2>1. UNCHANGED <<state, pending, choice, runs, asked, done, worker, ui>>
      BY <1>7 DEF CheckAnswered, sessionVars, workerVars
    <2>2. e \in Events /\ \A r : ~IsDone(e, r)
      <3>1. Head(asking) \in [check : Nat, choice : Choices]
        BY <1>7, QueueHead DEF CheckAnswered, TypeOK
      <3>2. QED
        BY <3>1 DEF CheckedEvent, Events, IsDone
    <2>3. events' = Append(events, e) /\ events \in Seq(Events)
      BY <1>7 DEF CheckAnswered, TypeOK
    <2> HIDE DEF e
    <2>4. ASSUME state \in {"Capturing", "Stopping"}
          PROVE  /\ ui' # "closed" /\ HasEnded(runs)' => EndIsQueued(events', runs)
                 /\ DoneIsBehind(events', runs)
      <3>1. /\ runs \in RunIds /\ DoneIsBehind(events, runs)
            /\ ui # "closed" /\ HasEnded(runs) => EndIsQueued(events, runs)
        BY <2>4, BoundsAssumption DEF LatestInv, EndIsToCome, TypeOK, RunIds
      <3>2. QED
        BY <2>1, <2>2, <2>3, <3>1, DoneBehindAppend, EndQueuedAppend DEF HasEnded
    <2>5. QED
      BY <1>0, <2>1, <2>4, SameLatest
  <1>8. ASSUME NEW r \in RunIds, Worker(r) PROVE LatestInv'
    BY <1>0, <1>8, WorkerLatest
  <1>9. CASE EventLoop
    BY <1>0, <1>9, DeliveredLatest
  <1>10. CASE Terminated
    BY <1>1, <1>10 DEF Terminated
  <1>11. QED
    BY <1>1, <1>2, <1>3, <1>4, <1>5, <1>6, <1>7, <1>8, <1>9, <1>10 DEF Next, User

\* The initial state has the invariant.
LEMMA InitLatest == Init => LatestInv
  BY DEF Init, LatestInv, LatestChoiceRuns, PendingIsAsked, EndIsToCome, ChecksAreTrue, Waiting

\* Started as the app starts captures, what the session checks or captures is what the user
\* asked for last, however late a dropped check is answered, however long the last run's
\* program takes to end, and whatever was asked for in between (checks_, pending_).
THEOREM LatestChoiceIsRun == ASSUME DirectStarts = FALSE PROVE Spec => []LatestChoiceRuns
  <1>1. TypeOK /\ QuietInv /\ LatestInv /\ [Next]_vars => LatestInv'
    BY LatestStep
  <1>2. LatestInv => LatestChoiceRuns
    BY DEF LatestInv
  <1>3. QED
    BY <1>1, <1>2, InitTypeOK, TypeOKStep, InitQuiet, QuietStep, InitLatest, PTL DEF Spec

\* A pending start is taken up only as the latest run is done: no done() of a run that was
\* let go of uses it up (live_capture_session.cpp: runDone).
THEOREM PendingIsTakenUp == Spec => PendingIsTakenUpOnce
  <1>1. TypeOK /\ [Next]_vars =>
            [pending # NoChoice /\ pending' = NoChoice => runs > 0 /\ done'[runs]]_vars
    <2> SUFFICES ASSUME TypeOK, [Next]_vars, pending # NoChoice, pending' = NoChoice
                 PROVE  runs > 0 /\ done'[runs]
      OBVIOUS
    <2>1. RunDone
      <3>1. ASSUME NEW c \in Choices PROVE ~StartWhenIdle(c)
        BY NoChoiceAssumption DEF StartWhenIdle
      <3>2. ASSUME NEW c \in Choices PROVE ~StartDirectly(c)
        BY DEF StartDirectly
      <3>3. ASSUME NEW r \in RunIds PROVE ~Worker(r)
        BY WorkerSteps DEF sessionVars
      <3>4. ~Checked /\ ~OpenFile /\ ~TakeSnapshot /\ ~Finished
        BY DEF Checked, OpenFile, TakeSnapshot, Finished, sessionVars
      <3>5. /\ ~Stop /\ ~Close /\ ~CheckAnswered /\ ~ConversionStarts /\ ~ConversionEnds
            /\ ~Retire /\ ~Join /\ ~Terminated /\ ~UNCHANGED vars
        BY DEF Stop, Close, CheckAnswered, ConversionStarts, ConversionEnds, Retire, Join,
           Terminated, vars, sessionVars
      <3>6. QED
        BY <3>1, <3>2, <3>3, <3>4, <3>5 DEF Next, User, EventLoop
    <2>2. events # << >> /\ Head(events).kind = "done" /\ Head(events).run = runs
      BY <2>1 DEF RunDone, Deliver, Listening, sessionVars
    <2>3. Head(events) \in Events
      BY <2>2, QueueHead DEF TypeOK
    <2>4. runs \in RunIds
      BY <2>2, <2>3 DEF Events
    <2>5. done' = [done EXCEPT ![runs] = TRUE]
      BY <2>1, <2>2 DEF RunDone
    <2>6. done'[runs]
      BY <2>4, <2>5, Zenon DEF TypeOK
    <2>7. QED
      BY <2>4, <2>6 DEF RunIds
  <1>2. QED
    BY <1>1, InitTypeOK, TypeOKStep, PTL DEF Spec, PendingIsTakenUpOnce
=============================================================================
