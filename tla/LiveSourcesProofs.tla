------------------------- MODULE LiveSourcesProofs -------------------------
(***************************************************************************)
(* Proofs about the live sources: the temporary directories, for any ids   *)
(* and any number of directories; the batches of stderr lines, for any     *)
(* size of a batch and any number of lines; the programs the plugin runs,  *)
(* for any sets of them and any bytes; a capture on a device, at whatever  *)
(* command of its script Stop comes; and the form that offers them, for    *)
(* any answers of the listings.                                            *)
(***************************************************************************)
EXTENDS LiveSources, LiveCaptureForm, TLAPS

(***************************************************************************)
(* The temporary directories.  A directory that is kept has the id of a    *)
(* process that runs the plugin, so neither a start, which spares such     *)
(* ids, nor the end of another process removes it.                         *)
(***************************************************************************)

TempInv ==
    \A n \in kept : n \in DOMAIN dirs /\ dirs[n] \in ours

LEMMA TempStep == TempInv /\ [TempNext]_tempVars => TempInv'
<1> SUFFICES ASSUME TempInv, [TempNext]_tempVars PROVE TempInv'
    OBVIOUS
<1>1. ASSUME NEW pid \in Pids, Load(pid) PROVE TempInv'
    BY <1>1 DEF TempInv, Load, removeStaleTempDirs, removeTempDirs, isProcessRunning
<1>2. ASSUME NEW pid \in Pids, MakeTempDir(pid) PROVE TempInv'
    BY <1>2 DEF TempInv, MakeTempDir
<1>3. ASSUME NEW pid \in Pids, Unload(pid) PROVE TempInv'
    BY <1>3 DEF TempInv, Unload, removeOwnTempDirs, removeTempDirs
<1>4. ASSUME NEW pid \in Pids, Crash(pid) PROVE TempInv'
    BY <1>4 DEF TempInv, Crash
<1>5. ASSUME NEW pid \in Pids, OtherProcess(pid) PROVE TempInv'
    BY <1>5 DEF TempInv, OtherProcess
<1>6. CASE UNCHANGED tempVars
    BY <1>6 DEF TempInv, tempVars
<1> QED
    BY <1>1, <1>2, <1>3, <1>4, <1>5, <1>6 DEF TempNext

\* Whoever starts, ends or crashes, and whatever id it has: no process loses a
\* directory it made and still uses (removeStaleTempDirs(), removeOwnTempDirs()).
THEOREM RunningKeepTheirDirs == TempSpec => []TempDirsAreKept
<1>1. TempInit => TempInv
    BY DEF TempInit, TempInv
<1>2. TempInv => TempDirsAreKept
    BY DEF TempInv, TempDirsAreKept
<1> QED
    BY <1>1, <1>2, TempStep, PTL DEF TempSpec

\* A process that starts clears away what crashes left, but for the directories
\* whose id is in use again (removeStaleTempDirs()).
THEOREM StartsClearTheStale == TempSpec => StaleAreRemoved
<1> DEFINE Clears == \A pid \in ours' \ ours : \A n \in DOMAIN dirs' : dirs'[n] \in ours' \cup others
           DirInv == \A n \in DOMAIN dirs : dirs[n] \in Pids
           OursInv == ours \subseteq Pids
<1>1. TempInit => DirInv
    BY DEF TempInit
<1>2. DirInv /\ [TempNext]_tempVars => DirInv'
    <2> SUFFICES ASSUME DirInv, [TempNext]_tempVars PROVE DirInv'
        OBVIOUS
    <2>1. ASSUME NEW pid \in Pids, Load(pid) PROVE DirInv'
        BY <2>1 DEF Load, removeStaleTempDirs, removeTempDirs
    <2>2. ASSUME NEW pid \in Pids, MakeTempDir(pid) PROVE DirInv'
        BY <2>2 DEF MakeTempDir
    <2>3. ASSUME NEW pid \in Pids, Unload(pid) PROVE DirInv'
        BY <2>3 DEF Unload, removeOwnTempDirs, removeTempDirs
    <2>4. ASSUME NEW pid \in Pids, Crash(pid) \/ OtherProcess(pid) PROVE DirInv'
        BY <2>4 DEF Crash, OtherProcess
    <2>5. CASE UNCHANGED tempVars
        BY <2>5 DEF tempVars
    <2> QED
        BY <2>1, <2>2, <2>3, <2>4, <2>5 DEF TempNext
<1>3. DirInv /\ [TempNext]_tempVars => [Clears]_tempVars
    <2> SUFFICES ASSUME DirInv, [TempNext]_tempVars PROVE Clears \/ UNCHANGED tempVars
        OBVIOUS
    <2>1. ASSUME NEW pid \in Pids, Load(pid) PROVE Clears
        BY <2>1 DEF Load, removeStaleTempDirs, removeTempDirs, isProcessRunning
    <2>2. ASSUME NEW pid \in Pids,
                 MakeTempDir(pid) \/ Unload(pid) \/ Crash(pid) \/ OtherProcess(pid)
          PROVE ours' \ ours = {}
        BY <2>2 DEF MakeTempDir, Unload, Crash, OtherProcess
    <2> QED
        BY <2>1, <2>2 DEF TempNext
<1> QED
    BY <1>1, <1>2, <1>3, PTL DEF TempSpec, StaleAreRemoved

(***************************************************************************)
(* The batches of stderr lines.  A line that waits was posted for, and     *)
(* what was posted is either a flush on its way or one that looks a second *)
(* time; lines are dropped from full batches only, so its second look need *)
(* not ask for dropped ones.                                               *)
(***************************************************************************)

StderrCounts ==
    /\ lines \in 0..BatchLines
    /\ dropped \in Nat /\ wrote \in Nat /\ told \in Nat /\ lost \in Nat
    /\ dropped # 0 => lines = BatchLines
    /\ told + lost + lines + dropped = wrote

StderrFlags ==
    /\ posted \in BOOLEAN /\ looking \in BOOLEAN
    /\ posted /\ ~looking => flushes = 1
    /\ looking => posted /\ flushes = 0
    /\ ~posted => flushes = 0
    /\ lines # 0 => posted

LEMMA CountsStep == StderrCounts /\ [StderrNext]_stderrVars => StderrCounts'
<1> SUFFICES ASSUME StderrCounts, [StderrNext]_stderrVars PROVE StderrCounts'
    OBVIOUS
<1> USE BatchAssumption DEF StderrCounts
<1>1. CASE takeStderrLine
    BY <1>1 DEF takeStderrLine
<1>2. CASE emitStderrLines /\ UNCHANGED wrote
    BY <1>2 DEF emitStderrLines
<1>3. CASE UNCHANGED <<lines, dropped, wrote, told, lost>>
    BY <1>3
<1> QED
    BY <1>1, <1>2, <1>3 DEF StderrNext, flushStderrLines, LookAgain, PostEnd, TellEnd,
                            StderrOver, stderrVars

LEMMA FlagsStep == StderrFlags /\ [StderrNext]_stderrVars => StderrFlags'
<1> SUFFICES ASSUME StderrFlags, [StderrNext]_stderrVars PROVE StderrFlags'
    OBVIOUS
<1> USE DEF StderrFlags
<1>1. CASE takeStderrLine
    BY <1>1 DEF takeStderrLine
<1>2. CASE flushStderrLines
    <2>1. flushes # 0
        BY <1>2 DEF flushStderrLines
    <2>2. posted /\ ~looking /\ flushes = 1
        BY <2>1
    <2>3. posted' = posted /\ lines' = 0
        BY <1>2 DEF flushStderrLines, emitStderrLines
    <2>4. CASE lines = 0 /\ dropped = 0
        <3>1. looking' = TRUE /\ flushes' = flushes - 1
            BY <1>2, <2>4 DEF flushStderrLines
        <3>2. flushes' = 0
            BY <2>2, <3>1
        <3> QED
            BY <2>2, <2>3, <3>1, <3>2
    <2>5. CASE ~(lines = 0 /\ dropped = 0)
        <3>1. looking' = looking /\ flushes' = flushes
            BY <1>2, <2>5 DEF flushStderrLines
        <3> QED
            BY <2>2, <2>3, <3>1
    <2> QED
        BY <2>4, <2>5
<1>3. CASE LookAgain
    <2>1. looking /\ looking' = FALSE /\ lines' = lines
        BY <1>3 DEF LookAgain
    <2>2. posted /\ flushes = 0
        BY <2>1
    <2>3. CASE lines = 0
        BY <1>3, <2>1, <2>2, <2>3 DEF LookAgain
    <2>4. CASE lines # 0
        <3>1. posted' = posted /\ flushes' = flushes + 1
            BY <1>3, <2>4 DEF LookAgain
        <3>2. flushes' = 1
            BY <2>2, <3>1
        <3> QED
            BY <2>1, <2>2, <3>1, <3>2
    <2> QED
        BY <2>3, <2>4
<1>4. CASE TellEnd
    BY <1>4 DEF TellEnd, emitStderrLines
<1>5. CASE UNCHANGED <<lines, posted, looking, flushes>>
    BY <1>5
<1> QED
    BY <1>1, <1>2, <1>3, <1>4, <1>5 DEF StderrNext, PostEnd, StderrOver, stderrVars

\* However lines, flushes and the run's end fall: a line of a program's error output
\* that waits has a flush that will look for it, and every line was told or counted
\* as dropped (takeStderrLine(), flushStderrLines()).
THEOREM EveryLineIsTold == StderrSpec => []LinesAreTold
<1>1. StderrInit => StderrCounts /\ StderrFlags
    <2> SUFFICES ASSUME StderrInit PROVE StderrCounts /\ StderrFlags
        OBVIOUS
    <2>1. StderrCounts
        BY BatchAssumption DEF StderrInit, StderrCounts
    <2>2. StderrFlags
        BY DEF StderrInit, StderrFlags
    <2> QED
        BY <2>1, <2>2
<1>2. StderrCounts /\ StderrFlags => LinesAreTold
    BY BatchAssumption DEF StderrCounts, StderrFlags, LinesAreTold
<1> QED
    BY <1>1, <1>2, CountsStep, FlagsStep, PTL DEF StderrSpec

(***************************************************************************)
(* The programs.  Each is described by itself, and a step changes one: its *)
(* own, or its thread's, or one the shutdown signals.  That a thread never *)
(* signals a group that took its program's id needs that reaping and the   *)
(* mark that it happened are one step for that thread, which QProcess      *)
(* tells before the thread goes on.  That one ended by the plugin is not   *)
(* blamed needs that whoever signals has said so before.                   *)
(***************************************************************************)

\* A program's states and its thread's: one runs between its start and its reaping; a group's
\* id is free once its leader is reaped, and QProcess has yet to say so while it waits.
ProcessInv(p) ==
    /\ leader[p] = "none" => helper[p] = "none"
    /\ pc[p] \in {"new", "registered"} => leader[p] = "none"
    /\ pc[p] \notin {"new", "registered", "over"} => leader[p] # "none"
    /\ exit[p] # "none" <=> leader[p] \in {"exited", "reaped"}
    /\ leader[p] = "foreign" => helper[p] \in {"none", "foreign", "gone"}
    /\ helper[p] = "foreign" => leader[p] \notin {"polite", "stubborn"}
    /\ idTaken[p] => leader[p] = "reaped"
    /\ reaped[p] <=> leader[p] = "reaped" /\ ~slot[p]
    /\ slot[p] => leader[p] = "reaped" /\ pc[p] \in {"reading", "looking", "listing", "waiting", "killed"}
    /\ pc[p] \in {"waiting", "killed"} => ended[p]
    /\ pc[p] = "over" => leader[p] \notin {"polite", "stubborn"}

\* A source's: one that a signal ended was asked to end, and its polite helper with it; one
\* whose stream ended, or failed, did so by itself.
SourceInv(p) ==
    p \in Sources =>
        /\ pc[p] \notin {"registered", "listing", "taking"}
        /\ exit[p] = "ended" => ended[p] /\ helper[p] # "polite"
        /\ pc[p] = "lastRead" => leader[p] = "reaped"
        /\ result[p] \in {"ended", "failed"} =>
            /\ pc[p] \in {"ending", "waiting", "killed", "over"}
            /\ leader[p] = "reaped" /\ read[p] = written[p]
            /\ exit[p] = (IF result[p] = "ended" THEN "zero" ELSE "code")

\* A listing's.
ListingInv(p) ==
    p \in Listings =>
        /\ pc[p] \notin {"reading", "looking", "lastRead"}
        /\ read[p] <= ListingLimit
        /\ pc[p] \in {"new", "registered", "started", "listing"} => exit[p] # "ended" /\ result[p] = "none"
        /\ result[p] = "answer" =>
            /\ leader[p] = "reaped" /\ exit[p] \in {"zero", "code"}
            /\ pc[p] = "over" => read[p] = written[p]
        /\ result[p] = "cancelled" => p \in cancelled /\ pc[p] = "over"
        /\ result[p] = "overflow" => written[p] > ListingLimit

\* The shutdown's: it ends sources that it asked to, and is over after every thread.
UiInv ==
    /\ asking \cup ending \subseteq Sources
    /\ \A p \in ending : ended[p]
    /\ ui \in {"askingAgain", "over"} => \A p \in Programs : pc[p] = "over"

\* The three.
ProgramInv(p) == ProcessInv(p) /\ SourceInv(p) /\ ListingInv(p)

\* The invariant of the programs.
ProgramsInv == TypeOK /\ OwnerSignalsItsOwn /\ UiInv /\ \A p \in Programs : ProgramInv(p)

(* The steps.                                                              *)

\* Nothing is done to a program.
Same(q) ==
    /\ leader'[q] = leader[q] /\ helper'[q] = helper[q] /\ exit'[q] = exit[q]
    /\ idTaken'[q] = idTaken[q] /\ written'[q] = written[q] /\ read'[q] = read[q]
    /\ slot'[q] = slot[q] /\ reaped'[q] = reaped[q] /\ ended'[q] = ended[q]
    /\ pc'[q] = pc[q] /\ result'[q] = result[q]

\* What is true of a program stays so while nothing is done to it, though listings are cancelled.
LEMMA Others ==
    ASSUME NEW q \in Programs, ProgramInv(q), Same(q), cancelled \subseteq cancelled'
    PROVE  ProgramInv(q)'
  <1>1. ProcessInv(q)'
    BY DEF ProgramInv, ProcessInv, Same
  <1>2. SourceInv(q)'
    BY DEF ProgramInv, SourceInv, Same
  <1>3. ListingInv(q)'
    BY DEF ProgramInv, ListingInv, Same
  <1> QED
    BY <1>1, <1>2, <1>3 DEF ProgramInv

(* Signals. *)

\* What the values of leader, helper, exit and stray are.
SignalTypes ==
    /\ leader \in [Programs -> Manners \cup {"none", "exited", "reaped"}]
    /\ helper \in [Programs -> Manners \cup {"none", "gone"}]
    /\ exit \in [Programs -> {"none", "zero", "code", "ended"}]
    /\ stray \subseteq {"owner", "ui"} \X Programs

\* A signal ends those of a program's group that hear it.
Heard(p, hard) ==
    /\ leader'[p] = IF Hears(leader[p], hard) THEN "exited" ELSE leader[p]
    /\ exit'[p] = IF Hears(leader[p], hard) THEN "ended" ELSE exit[p]
    /\ helper'[p] = IF Hears(helper[p], hard) THEN "gone" ELSE helper[p]

\* No one of the group hears of it.
NotHeard(p) == leader'[p] = leader[p] /\ exit'[p] = exit[p] /\ helper'[p] = helper[p]

\* A signal changes one program's group, and strays only to one that took its id.
LEMMA SignalIs ==
    ASSUME TypeOK, NEW p \in Programs, NEW who \in {"owner", "ui"}, NEW hard \in BOOLEAN,
           Signal(who, p, hard)
    PROVE  /\ SignalTypes'
           /\ \A q \in Programs : q # p => NotHeard(q)
           /\ IF Started(p) /\ ~reaped[p] THEN Heard(p, hard) ELSE NotHeard(p)
           /\ stray' = stray \/ (idTaken[p] /\ ~reaped[p] /\ stray' = stray \cup {<<who, p>>})
  <1>1. CASE Started(p) /\ ~reaped[p]
    <2>1. Kill(p, hard) /\ stray' = IF idTaken[p] THEN stray \cup {<<who, p>>} ELSE stray
      BY <1>1 DEF Signal
    <2>2. leader' \in [Programs -> Manners \cup {"none", "exited", "reaped"}]
      BY <2>1 DEF Kill, TypeOK
    <2>3. helper' \in [Programs -> Manners \cup {"none", "gone"}]
      BY <2>1 DEF Kill, TypeOK
    <2>4. exit' \in [Programs -> {"none", "zero", "code", "ended"}]
      BY <2>1 DEF Kill, TypeOK
    <2>5. Heard(p, hard)
      BY <2>1 DEF Kill, TypeOK, Heard
    <2>6. \A q \in Programs : q # p => NotHeard(q)
      BY <2>1 DEF Kill, TypeOK, NotHeard
    <2>7. stray' \subseteq {"owner", "ui"} \X Programs
      BY <2>1 DEF TypeOK
    <2> QED
      BY <1>1, <2>1, <2>2, <2>3, <2>4, <2>5, <2>6, <2>7 DEF SignalTypes
  <1>2. CASE ~(Started(p) /\ ~reaped[p])
    BY <1>2 DEF Signal, TypeOK, SignalTypes, NotHeard
  <1> QED
    BY <1>1, <1>2

\* Whoever ends a group first asks it.
LEMMA AskIs ==
    ASSUME TypeOK, NEW p \in Programs, NEW who \in {"owner", "ui"}, NEW hard \in BOOLEAN,
           Ask(who, p, hard)
    PROVE  /\ SignalTypes' /\ ended' \in [Programs -> BOOLEAN]
           /\ \A q \in Programs : q # p => NotHeard(q) /\ ended'[q] = ended[q]
           /\ IF ~ended[p] /\ Started(p) /\ ~reaped[p] THEN Heard(p, hard) ELSE NotHeard(p)
           /\ ended'[p]
           /\ stray' = stray \/ (idTaken[p] /\ ~reaped[p] /\ stray' = stray \cup {<<who, p>>})
  <1>1. ended' \in [Programs -> BOOLEAN] /\ ended'[p] /\ \A q \in Programs : q # p => ended'[q] = ended[q]
    BY DEF Ask, TypeOK
  <1>2. CASE ended[p]
    BY <1>1, <1>2 DEF Ask, TypeOK, SignalTypes, NotHeard
  <1>3. CASE ~ended[p]
    <2>1. Signal(who, p, hard)
      BY <1>3 DEF Ask
    <2> QED
      BY <1>1, <1>3, <2>1, SignalIs
  <1> QED
    BY <1>2, <1>3

(* The types. *)

\* Every step keeps the types.
LEMMA TypeStep == TypeOK /\ [Next]_vars => TypeOK'
  <1> SUFFICES ASSUME TypeOK, [Next]_vars PROVE TypeOK'
    OBVIOUS
  <1> USE DEF Programs, Sources
  <1>1. ASSUME NEW p \in Programs, Write(p) PROVE TypeOK'
    BY <1>1, OutputAssumption DEF TypeOK, Write, flagVars, threadVars, uiVars
  <1>2. ASSUME NEW p \in Programs, Exit(p) \/ HelperExit(p) PROVE TypeOK'
    BY <1>2 DEF TypeOK, Exit, HelperExit, flagVars, threadVars, uiVars
  <1>3. ASSUME NEW p \in Programs, TakeId(p) PROVE TypeOK'
    BY <1>3 DEF TypeOK, TakeId, flagVars, threadVars, uiVars
  <1>4. ASSUME NEW p \in Programs, Reap(p) \/ Finished(p) PROVE TypeOK'
    BY <1>4 DEF TypeOK, Reap, Finished, procVars, flagVars, threadVars, uiVars
  <1>5. ASSUME NEW p \in Programs, Register(p) \/ CancelledEarly(p) \/ StartFails(p) PROVE TypeOK'
    BY <1>5 DEF TypeOK, Register, CancelledEarly, StartFails, ReadyToStart, Goto, EndWith,
       procVars, flagVars, threadVars, uiVars
  <1>6. ASSUME NEW p \in Programs, startProcess(p) PROVE TypeOK'
    BY <1>6 DEF TypeOK, startProcess, ReadyToStart, Goto, Manners, procVars, flagVars,
       threadVars, uiVars
  <1>7. ASSUME NEW p \in Programs, Enroll(p) PROVE TypeOK'
    BY <1>7 DEF TypeOK, Enroll, Goto, procVars, flagVars, threadVars, uiVars
  <1>8. ASSUME NEW p \in Programs,
               Stopped(p) \/ NothingCame(p) \/ Look(p) \/ StreamEnds(p) \/ ListingEnds(p)
        PROVE  TypeOK'
    BY <1>8 DEF TypeOK, Stopped, NothingCame, Look, StreamEnds, ListingEnds, Goto, EndWith,
       procVars, flagVars, threadVars, uiVars
  <1>9. ASSUME NEW p \in Programs, TakeBytes(p) PROVE TypeOK'
    BY <1>9, OutputAssumption DEF TypeOK, TakeBytes, Goto, procVars, flagVars, threadVars, uiVars
  <1>10. ASSUME NEW p \in Programs, Terminate(p) PROVE TypeOK'
    <2>1. Ask("owner", p, p \in Listings) /\ Goto(p, "waiting")
      BY <1>10 DEF Terminate
    <2>2. SignalTypes' /\ ended' \in [Programs -> BOOLEAN]
      <3>1. (p \in Listings) \in BOOLEAN
        OBVIOUS
      <3> QED
        BY <2>1, <3>1, AskIs
    <2> QED
      BY <1>10, <2>2 DEF TypeOK, SignalTypes, Terminate, Goto, uiVars
  <1>11. ASSUME NEW p \in Programs, GraceIsOver(p) PROVE TypeOK'
    <2>1. Signal("owner", p, TRUE)
      BY <1>11 DEF GraceIsOver
    <2>2. SignalTypes'
      BY <2>1, SignalIs
    <2> QED
      BY <1>11, <2>2 DEF TypeOK, SignalTypes, GraceIsOver, Goto, flagVars, uiVars
  <1>12. ASSUME NEW p \in Programs, Gone(p) \/ GiveUp(p) PROVE TypeOK'
    BY <1>12 DEF TypeOK, Gone, GiveUp, Leave, Goto, procVars, flagVars, threadVars, uiVars
  <1>13. ASSUME NEW p \in Programs, TakeListing(p) PROVE TypeOK'
    <2>1. /\ SignalTypes' /\ ended' \in [Programs -> BOOLEAN]
          /\ pc' \in [Programs -> {"new", "registered", "started", "reading", "looking", "lastRead",
                                   "listing", "ending", "waiting", "killed", "taking", "over"}]
          /\ result' \in [Programs -> {"none", "unstarted", "stopped", "ended", "failed",
                                       "answer", "cancelled", "late", "overflow"}]
          /\ read' \in [Programs -> 0..MaxBytes]
      <3>1. CASE written[p] > ListingLimit
        <4>1. /\ Signal("owner", p, TRUE) /\ EndWith(p, "taking", "overflow")
              /\ ended' = [ended EXCEPT ![p] = TRUE]
              /\ read' = [read EXCEPT ![p] = ListingLimit]
          BY <1>13, <3>1 DEF TakeListing
        <4>2. SignalTypes'
          BY <4>1, SignalIs
        <4>3. ListingLimit \in 0..MaxBytes
          BY <3>1, OutputAssumption DEF TypeOK
        <4> QED
          BY <4>1, <4>2, <4>3 DEF EndWith, Goto, TypeOK
      <3>2. CASE ~(written[p] > ListingLimit)
        <4>1. /\ UNCHANGED <<pc, result, ended, leader, helper, exit, stray>>
              /\ read' = [read EXCEPT ![p] = written[p]]
          BY <1>13, <3>2 DEF TakeListing
        <4> QED
          BY <4>1 DEF TypeOK, SignalTypes
      <3> QED
        BY <3>1, <3>2
    <2> QED
      BY <1>13, <2>1 DEF TypeOK, SignalTypes, TakeListing, uiVars
  <1>14. ASSUME NEW p \in Programs, Return(p) PROVE TypeOK'
    <2>1. leader' \in [Programs -> Manners \cup {"none", "exited", "reaped"}]
      BY <1>14 DEF TypeOK, Return
    <2>2. exit' \in [Programs -> {"none", "zero", "code", "ended"}] /\ reaped' \in [Programs -> BOOLEAN]
      BY <1>14 DEF TypeOK, Return
    <2>3. read' \in [Programs -> 0..MaxBytes]
      BY <1>14, OutputAssumption DEF TypeOK, Return
    <2>4. /\ pc' = [pc EXCEPT ![p] = "over"]
          /\ result'= [result EXCEPT ![p] = IF written[p] > ListingLimit THEN "overflow"
                                            ELSE IF result[p] = "late" /\ p \in cancelled THEN "cancelled"
                                            ELSE result[p]]
      BY <1>14 DEF Return, Goto, EndWith
    <2>5. running' \subseteq Listings
      BY <1>14 DEF TypeOK, Return
    <2> QED
      BY <1>14, <2>1, <2>2, <2>3, <2>4, <2>5 DEF TypeOK, Return, uiVars
  <1>15. ASSUME NEW p \in Programs, UiGone(p) \/ CancelScope(p) PROVE TypeOK'
    BY <1>15 DEF TypeOK, UiGone, CancelScope, procVars, flagVars, threadVars
  <1>16. ASSUME NEW p \in Programs, UiAsk(p) PROVE TypeOK'
    <2>1. Ask("ui", p, FALSE)
      BY <1>16 DEF UiAsk
    <2>2. SignalTypes' /\ ended' \in [Programs -> BOOLEAN]
      BY <2>1, AskIs
    <2> QED
      BY <1>16, <2>2 DEF TypeOK, SignalTypes, UiAsk, threadVars
  <1>17. ASSUME NEW p \in Programs, UiKill(p) PROVE TypeOK'
    <2>1. Signal("ui", p, TRUE)
      BY <1>17 DEF UiKill
    <2>2. SignalTypes'
      BY <2>1, SignalIs
    <2> QED
      BY <1>17, <2>2 DEF TypeOK, SignalTypes, UiKill, threadVars, flagVars
  <1>18. CASE Shutdown \/ BeginEnding \/ Join \/ EndShutdown
    BY <1>18 DEF TypeOK, Shutdown, BeginEnding, Join, EndShutdown, procVars, flagVars,
       threadVars, uiVars
  <1>19. CASE UNCHANGED vars
    BY <1>19 DEF TypeOK, vars, procVars, flagVars, threadVars, uiVars
  <1> HIDE DEF Programs, Sources
  <1>20. QED
    BY <1>1, <1>4, <1>5, <1>6, <1>7, <1>8, <1>9, <1>10, <1>12, <1>13, <1>14, <1>15, <1>18, <1>19,
       <1>2, <1>3, <1>11, <1>16, <1>17 DEF Next, Owner, Ui, Over

(* The steps of a program and its thread. *)

\* A step that is one program's: the others are as they were, what ended stays ended.
OnlyOf(p) ==
    /\ \A q \in Programs : q # p => Same(q)
    /\ \A q \in Programs : ended[q] => ended'[q]
    /\ UNCHANGED uiVars
    /\ \A q \in Programs : <<"owner", q>> \in stray' => <<"owner", q>> \in stray

\* The steps of a program and of its thread that signal no group.
LEMMA QuietSteps ==
    ASSUME TypeOK, NEW p \in Programs, ProgramInv(p),
           Write(p) \/ Exit(p) \/ HelperExit(p) \/ TakeId(p) \/ Reap(p) \/ Finished(p) \/ Register(p) \/
           CancelledEarly(p) \/ StartFails(p) \/ startProcess(p) \/ Enroll(p) \/ Stopped(p) \/
           TakeBytes(p) \/ NothingCame(p) \/ Look(p) \/ StreamEnds(p) \/ Gone(p) \/ GiveUp(p) \/
           ListingEnds(p)
    PROVE  ProgramInv(p)' /\ OnlyOf(p)
  <1> USE DEF ProgramInv
  <1>1. ASSUME Write(p) PROVE ProgramInv(p)' /\ OnlyOf(p)
    <2>1. /\ Runs(leader[p]) /\ written'[p] = written[p] + 1
          /\ leader'[p] = leader[p] /\ helper'[p] = helper[p] /\ exit'[p] = exit[p]
          /\ idTaken'[p] = idTaken[p] /\ read'[p] = read[p] /\ slot'[p] = slot[p]
          /\ reaped'[p] = reaped[p] /\ ended'[p] = ended[p] /\ pc'[p] = pc[p]
          /\ result'[p] = result[p]
      BY <1>1 DEF TypeOK, Write, flagVars, threadVars
    <2>2. ProcessInv(p)'
      BY <2>1 DEF ProcessInv, Runs, Manners
    <2>3. SourceInv(p)'
      BY <2>1, OutputAssumption DEF SourceInv, ProcessInv, Runs, Manners
    <2>4. ListingInv(p)'
      BY <1>1, <2>1, OutputAssumption DEF TypeOK, ListingInv, ProcessInv, Runs, Manners, uiVars,
         Write
    <2>5. OnlyOf(p)
      BY <1>1 DEF TypeOK, OnlyOf, Same, uiVars, Write, flagVars, threadVars
    <2> QED
      BY <2>2, <2>3, <2>4, <2>5 DEF ProgramInv
  <1>2. ASSUME Exit(p) PROVE ProgramInv(p)' /\ OnlyOf(p)
    <2>1. /\ Runs(leader[p]) /\ exit'[p] \in {"zero", "code"}
          /\ leader'[p] = "exited"
          /\ helper'[p] = helper[p] /\ idTaken'[p] = idTaken[p] /\ written'[p] = written[p]
          /\ read'[p] = read[p] /\ slot'[p] = slot[p] /\ reaped'[p] = reaped[p]
          /\ ended'[p] = ended[p] /\ pc'[p] = pc[p] /\ result'[p] = result[p]
      BY <1>2 DEF TypeOK, Exit, flagVars, threadVars
    <2>2. ProcessInv(p)'
      BY <2>1 DEF ProcessInv, Runs, Manners
    <2>3. SourceInv(p)'
      BY <2>1 DEF SourceInv, ProcessInv, Runs, Manners
    <2>4. ListingInv(p)'
      BY <1>2, <2>1 DEF ListingInv, ProcessInv, Runs, Manners, uiVars, Exit
    <2>5. OnlyOf(p)
      BY <1>2 DEF TypeOK, OnlyOf, Same, uiVars, Exit, flagVars, threadVars
    <2> QED
      BY <2>2, <2>3, <2>4, <2>5 DEF ProgramInv
  <1>3. ASSUME HelperExit(p) PROVE ProgramInv(p)' /\ OnlyOf(p)
    <2>1. /\ Runs(helper[p])
          /\ helper'[p] = "gone"
          /\ leader'[p] = leader[p] /\ exit'[p] = exit[p] /\ idTaken'[p] = idTaken[p]
          /\ written'[p] = written[p] /\ read'[p] = read[p] /\ slot'[p] = slot[p]
          /\ reaped'[p] = reaped[p] /\ ended'[p] = ended[p] /\ pc'[p] = pc[p]
          /\ result'[p] = result[p]
      BY <1>3 DEF TypeOK, HelperExit, flagVars, threadVars
    <2>2. ProcessInv(p)'
      BY <2>1 DEF ProcessInv, Runs, Manners
    <2>3. SourceInv(p)'
      BY <2>1 DEF SourceInv, ProcessInv, Runs, Manners
    <2>4. ListingInv(p)'
      BY <1>3, <2>1 DEF ListingInv, ProcessInv, Runs, Manners, uiVars, HelperExit
    <2>5. OnlyOf(p)
      BY <1>3 DEF TypeOK, OnlyOf, Same, uiVars, HelperExit, flagVars, threadVars
    <2> QED
      BY <2>2, <2>3, <2>4, <2>5 DEF ProgramInv
  <1>4. ASSUME TakeId(p) PROVE ProgramInv(p)' /\ OnlyOf(p)
    <2>1. /\ leader[p] = "reaped"
          /\ idTaken'[p] = TRUE
          /\ leader'[p] = leader[p] /\ helper'[p] = helper[p] /\ exit'[p] = exit[p]
          /\ written'[p] = written[p] /\ read'[p] = read[p] /\ slot'[p] = slot[p]
          /\ reaped'[p] = reaped[p] /\ ended'[p] = ended[p] /\ pc'[p] = pc[p]
          /\ result'[p] = result[p]
      BY <1>4 DEF TypeOK, TakeId, flagVars, threadVars
    <2>2. ProcessInv(p)'
      BY <2>1 DEF ProcessInv
    <2>3. SourceInv(p)'
      BY <2>1 DEF SourceInv, ProcessInv
    <2>4. ListingInv(p)'
      BY <1>4, <2>1 DEF ListingInv, ProcessInv, uiVars, TakeId
    <2>5. OnlyOf(p)
      BY <1>4 DEF TypeOK, OnlyOf, Same, uiVars, TakeId, flagVars, threadVars
    <2> QED
      BY <2>2, <2>3, <2>4, <2>5 DEF ProgramInv
  <1>5. ASSUME Reap(p) PROVE ProgramInv(p)' /\ OnlyOf(p)
    <2>1. /\ leader[p] = "exited" /\ pc[p] \in {"reading", "looking", "listing", "waiting", "killed"}
          /\ leader'[p] = "reaped"
          /\ slot'[p] = TRUE
          /\ helper'[p] = helper[p] /\ exit'[p] = exit[p] /\ idTaken'[p] = idTaken[p]
          /\ written'[p] = written[p] /\ read'[p] = read[p] /\ reaped'[p] = reaped[p]
          /\ ended'[p] = ended[p] /\ pc'[p] = pc[p] /\ result'[p] = result[p]
      BY <1>5 DEF TypeOK, Reap, flagVars
    <2>2. ProcessInv(p)'
      BY <2>1 DEF ProcessInv
    <2>3. SourceInv(p)'
      BY <2>1 DEF SourceInv, ProcessInv
    <2>4. ListingInv(p)'
      BY <1>5, <2>1 DEF ListingInv, ProcessInv, uiVars, Reap
    <2>5. OnlyOf(p)
      BY <1>5 DEF TypeOK, OnlyOf, Same, uiVars, Reap, flagVars
    <2> QED
      BY <2>2, <2>3, <2>4, <2>5 DEF ProgramInv
  <1>6. ASSUME Finished(p) PROVE ProgramInv(p)' /\ OnlyOf(p)
    <2>1. /\ slot[p]
          /\ slot'[p] = FALSE
          /\ reaped'[p] = TRUE
          /\ leader'[p] = leader[p] /\ helper'[p] = helper[p] /\ exit'[p] = exit[p]
          /\ idTaken'[p] = idTaken[p] /\ written'[p] = written[p] /\ read'[p] = read[p]
          /\ ended'[p] = ended[p] /\ pc'[p] = pc[p] /\ result'[p] = result[p]
      BY <1>6 DEF TypeOK, Finished, procVars
    <2>2. ProcessInv(p)'
      BY <2>1 DEF ProcessInv
    <2>3. SourceInv(p)'
      BY <2>1 DEF SourceInv, ProcessInv
    <2>4. ListingInv(p)'
      BY <1>6, <2>1 DEF ListingInv, ProcessInv, uiVars, Finished
    <2>5. OnlyOf(p)
      BY <1>6 DEF TypeOK, OnlyOf, Same, uiVars, Finished, procVars
    <2> QED
      BY <2>2, <2>3, <2>4, <2>5 DEF ProgramInv
  <1>7. ASSUME Register(p) PROVE ProgramInv(p)' /\ OnlyOf(p)
    <2>1. /\ pc[p] = "new" /\ p \in Listings
          /\ pc'[p] = "registered"
          /\ leader'[p] = leader[p] /\ helper'[p] = helper[p] /\ exit'[p] = exit[p]
          /\ idTaken'[p] = idTaken[p] /\ written'[p] = written[p] /\ read'[p] = read[p]
          /\ slot'[p] = slot[p] /\ reaped'[p] = reaped[p] /\ ended'[p] = ended[p]
          /\ result'[p] = result[p]
      BY <1>7 DEF TypeOK, Register, Goto, procVars, flagVars
    <2>2. ProcessInv(p)'
      BY <2>1 DEF ProcessInv
    <2>3. SourceInv(p)'
      BY <2>1, ProgramsAssumption DEF SourceInv, ProcessInv
    <2>4. ListingInv(p)'
      BY <1>7, <2>1, ProgramsAssumption DEF ListingInv, ProcessInv, uiVars, Register
    <2>5. OnlyOf(p)
      BY <1>7 DEF TypeOK, OnlyOf, Same, uiVars, Register, Goto, procVars, flagVars
    <2> QED
      BY <2>2, <2>3, <2>4, <2>5 DEF ProgramInv
  <1>8. ASSUME CancelledEarly(p) PROVE ProgramInv(p)' /\ OnlyOf(p)
    <2>1. /\ pc[p] = "registered" /\ p \in cancelled
          /\ pc'[p] = "over"
          /\ result'[p] = "cancelled"
          /\ leader'[p] = leader[p] /\ helper'[p] = helper[p] /\ exit'[p] = exit[p]
          /\ idTaken'[p] = idTaken[p] /\ written'[p] = written[p] /\ read'[p] = read[p]
          /\ slot'[p] = slot[p] /\ reaped'[p] = reaped[p] /\ ended'[p] = ended[p]
      BY <1>8 DEF TypeOK, CancelledEarly, EndWith, Goto, procVars, flagVars
    <2>2. ProcessInv(p)'
      BY <2>1 DEF ProcessInv
    <2>3. SourceInv(p)'
      BY <2>1 DEF SourceInv, ProcessInv
    <2>4. ListingInv(p)'
      BY <1>8, <2>1 DEF ListingInv, ProcessInv, uiVars, CancelledEarly
    <2>5. OnlyOf(p)
      BY <1>8 DEF TypeOK, OnlyOf, Same, uiVars, CancelledEarly, EndWith, Goto, procVars, flagVars
    <2> QED
      BY <2>2, <2>3, <2>4, <2>5 DEF ProgramInv
  <1>9. ASSUME StartFails(p) PROVE ProgramInv(p)' /\ OnlyOf(p)
    <2>1. /\ pc[p] \in {"new", "registered"}
          /\ pc'[p] = "over"
          /\ result'[p] = "unstarted"
          /\ leader'[p] = leader[p] /\ helper'[p] = helper[p] /\ exit'[p] = exit[p]
          /\ idTaken'[p] = idTaken[p] /\ written'[p] = written[p] /\ read'[p] = read[p]
          /\ slot'[p] = slot[p] /\ reaped'[p] = reaped[p] /\ ended'[p] = ended[p]
      BY <1>9 DEF TypeOK, StartFails, ReadyToStart, EndWith, Goto, procVars, flagVars
    <2>2. ProcessInv(p)'
      BY <2>1 DEF ProcessInv
    <2>3. SourceInv(p)'
      BY <2>1 DEF SourceInv, ProcessInv
    <2>4. ListingInv(p)'
      BY <1>9, <2>1 DEF ListingInv, ProcessInv, uiVars, StartFails
    <2>5. OnlyOf(p)
      BY <1>9 DEF TypeOK, OnlyOf, Same, uiVars, StartFails, ReadyToStart, EndWith, Goto,
         procVars, flagVars
    <2> QED
      BY <2>2, <2>3, <2>4, <2>5 DEF ProgramInv
  <1>10. ASSUME startProcess(p) PROVE ProgramInv(p)' /\ OnlyOf(p)
    <2>1. /\ pc[p] \in {"new", "registered"} /\ leader'[p] \in Manners
          /\ helper'[p] \in {"none"} \cup IF leader'[p] = "foreign" THEN {"foreign"} ELSE Manners \ {"foreign"}
          /\ pc'[p] = "started"
          /\ exit'[p] = exit[p] /\ idTaken'[p] = idTaken[p] /\ written'[p] = written[p]
          /\ read'[p] = read[p] /\ slot'[p] = slot[p] /\ reaped'[p] = reaped[p]
          /\ ended'[p] = ended[p] /\ result'[p] = result[p]
      BY <1>10 DEF TypeOK, startProcess, ReadyToStart, Goto, Manners, flagVars
    <2>2. ProcessInv(p)'
      BY <2>1 DEF ProcessInv, Manners
    <2>3. SourceInv(p)'
      BY <2>1 DEF SourceInv, ProcessInv, Manners
    <2>4. ListingInv(p)'
      BY <1>10, <2>1 DEF ListingInv, ProcessInv, Manners, uiVars, startProcess
    <2>5. OnlyOf(p)
      BY <1>10 DEF TypeOK, OnlyOf, Same, uiVars, startProcess, ReadyToStart, Goto, Manners, flagVars
    <2> QED
      BY <2>2, <2>3, <2>4, <2>5 DEF ProgramInv
  <1>11. ASSUME Enroll(p) PROVE ProgramInv(p)' /\ OnlyOf(p)
    <2>1. /\ pc[p] = "started"
          /\ pc'[p] = (IF p \in Sources THEN "reading" ELSE "listing")
          /\ leader'[p] = leader[p] /\ helper'[p] = helper[p] /\ exit'[p] = exit[p]
          /\ idTaken'[p] = idTaken[p] /\ written'[p] = written[p] /\ read'[p] = read[p]
          /\ slot'[p] = slot[p] /\ reaped'[p] = reaped[p] /\ ended'[p] = ended[p]
          /\ result'[p] = result[p]
      BY <1>11 DEF TypeOK, Enroll, Goto, procVars
    <2>2. ProcessInv(p)'
      BY <2>1 DEF ProcessInv
    <2>3. SourceInv(p)'
      BY <2>1, ProgramsAssumption DEF SourceInv, ProcessInv
    <2>4. ListingInv(p)'
      BY <1>11, <2>1, ProgramsAssumption DEF ListingInv, ProcessInv, uiVars, Enroll
    <2>5. OnlyOf(p)
      BY <1>11 DEF TypeOK, OnlyOf, Same, uiVars, Enroll, Goto, procVars
    <2> QED
      BY <2>2, <2>3, <2>4, <2>5 DEF ProgramInv
  <1>12. ASSUME Stopped(p) PROVE ProgramInv(p)' /\ OnlyOf(p)
    <2>1. /\ pc[p] = "reading" /\ ~slot[p]
          /\ pc'[p] = "ending"
          /\ result'[p] = "stopped"
          /\ leader'[p] = leader[p] /\ helper'[p] = helper[p] /\ exit'[p] = exit[p]
          /\ idTaken'[p] = idTaken[p] /\ written'[p] = written[p] /\ read'[p] = read[p]
          /\ slot'[p] = slot[p] /\ reaped'[p] = reaped[p] /\ ended'[p] = ended[p]
      BY <1>12 DEF TypeOK, Stopped, EndWith, Goto, procVars, flagVars
    <2>2. ProcessInv(p)'
      BY <2>1 DEF ProcessInv
    <2>3. SourceInv(p)'
      BY <2>1 DEF SourceInv, ProcessInv
    <2>4. ListingInv(p)'
      BY <1>12, <2>1 DEF ListingInv, ProcessInv, uiVars, Stopped
    <2>5. OnlyOf(p)
      BY <1>12 DEF TypeOK, OnlyOf, Same, uiVars, Stopped, EndWith, Goto, procVars, flagVars
    <2> QED
      BY <2>2, <2>3, <2>4, <2>5 DEF ProgramInv
  <1>13. ASSUME TakeBytes(p) PROVE ProgramInv(p)' /\ OnlyOf(p)
    <2>1. /\ pc[p] \in {"reading", "lastRead"} /\ ~slot[p]
          /\ pc'[p] = "reading"
          /\ leader'[p] = leader[p] /\ helper'[p] = helper[p] /\ exit'[p] = exit[p]
          /\ idTaken'[p] = idTaken[p] /\ written'[p] = written[p] /\ slot'[p] = slot[p]
          /\ reaped'[p] = reaped[p] /\ ended'[p] = ended[p] /\ result'[p] = result[p]
      BY <1>13 DEF TypeOK, TakeBytes, Goto, procVars, flagVars
    <2>2. ProcessInv(p)'
      BY <2>1 DEF ProcessInv
    <2>3. SourceInv(p)'
      BY <2>1 DEF SourceInv, ProcessInv
    <2>4. ListingInv(p)'
      BY <1>13, <2>1 DEF ListingInv, ProcessInv, uiVars, TakeBytes
    <2>5. OnlyOf(p)
      BY <1>13 DEF TypeOK, OnlyOf, Same, uiVars, TakeBytes, Goto, procVars, flagVars
    <2> QED
      BY <2>2, <2>3, <2>4, <2>5 DEF ProgramInv
  <1>14. ASSUME NothingCame(p) PROVE ProgramInv(p)' /\ OnlyOf(p)
    <2>1. /\ pc[p] = "reading" /\ ~slot[p]
          /\ pc'[p] = "looking"
          /\ leader'[p] = leader[p] /\ helper'[p] = helper[p] /\ exit'[p] = exit[p]
          /\ idTaken'[p] = idTaken[p] /\ written'[p] = written[p] /\ read'[p] = read[p]
          /\ slot'[p] = slot[p] /\ reaped'[p] = reaped[p] /\ ended'[p] = ended[p]
          /\ result'[p] = result[p]
      BY <1>14 DEF TypeOK, NothingCame, Goto, procVars, flagVars
    <2>2. ProcessInv(p)'
      BY <2>1 DEF ProcessInv
    <2>3. SourceInv(p)'
      BY <2>1 DEF SourceInv, ProcessInv
    <2>4. ListingInv(p)'
      BY <1>14, <2>1 DEF ListingInv, ProcessInv, uiVars, NothingCame
    <2>5. OnlyOf(p)
      BY <1>14 DEF TypeOK, OnlyOf, Same, uiVars, NothingCame, Goto, procVars, flagVars
    <2> QED
      BY <2>2, <2>3, <2>4, <2>5 DEF ProgramInv
  <1>15. ASSUME Look(p) PROVE ProgramInv(p)' /\ OnlyOf(p)
    <2>1. /\ pc[p] = "looking" /\ ~slot[p]
          /\ pc'[p] = (IF NotRunning(p) THEN "lastRead" ELSE "reading")
          /\ leader'[p] = leader[p] /\ helper'[p] = helper[p] /\ exit'[p] = exit[p]
          /\ idTaken'[p] = idTaken[p] /\ written'[p] = written[p] /\ read'[p] = read[p]
          /\ slot'[p] = slot[p] /\ reaped'[p] = reaped[p] /\ ended'[p] = ended[p]
          /\ result'[p] = result[p]
      BY <1>15 DEF TypeOK, Look, Goto, procVars, flagVars
    <2>2. ProcessInv(p)'
      BY <2>1 DEF ProcessInv, NotRunning
    <2>3. SourceInv(p)'
      BY <2>1 DEF SourceInv, ProcessInv, NotRunning
    <2>4. ListingInv(p)'
      BY <1>15, <2>1 DEF ListingInv, ProcessInv, NotRunning, uiVars, Look
    <2>5. OnlyOf(p)
      BY <1>15 DEF TypeOK, OnlyOf, Same, uiVars, Look, Goto, procVars, flagVars
    <2> QED
      BY <2>2, <2>3, <2>4, <2>5 DEF ProgramInv
  <1>16. ASSUME StreamEnds(p) PROVE ProgramInv(p)' /\ OnlyOf(p)
    <2>1. /\ ((pc[p] = "reading" /\ NotRunning(p)) \/ pc[p] = "lastRead")
          /\ read[p] = written[p]
          /\ pc'[p] = "ending"
          /\ result'[p] = (IF ended[p] THEN "stopped" ELSE IF exit[p] = "zero" THEN "ended" ELSE "failed")
          /\ leader'[p] = leader[p] /\ helper'[p] = helper[p] /\ exit'[p] = exit[p]
          /\ idTaken'[p] = idTaken[p] /\ written'[p] = written[p] /\ read'[p] = read[p]
          /\ slot'[p] = slot[p] /\ reaped'[p] = reaped[p] /\ ended'[p] = ended[p]
      BY <1>16 DEF TypeOK, StreamEnds, EndWith, Goto, procVars, flagVars
    <2>2. ProcessInv(p)'
      BY <2>1 DEF ProcessInv, NotRunning, TypeOK
    <2>3. SourceInv(p)'
      BY <2>1 DEF SourceInv, ProcessInv, NotRunning, TypeOK
    <2>4. ListingInv(p)'
      BY <1>16, <2>1 DEF ListingInv, ProcessInv, NotRunning, TypeOK, uiVars, StreamEnds
    <2>5. OnlyOf(p)
      BY <1>16 DEF TypeOK, OnlyOf, Same, uiVars, StreamEnds, EndWith, Goto, procVars, flagVars
    <2> QED
      BY <2>2, <2>3, <2>4, <2>5 DEF ProgramInv
  <1>17. ASSUME Gone(p) PROVE ProgramInv(p)' /\ OnlyOf(p)
    <2>1. /\ pc[p] \in {"waiting", "killed"} /\ ~slot[p] /\ ~Alive(p)
          /\ pc'[p] = (IF p \in Listings THEN "taking" ELSE "over")
          /\ leader'[p] = leader[p] /\ helper'[p] = helper[p] /\ exit'[p] = exit[p]
          /\ idTaken'[p] = idTaken[p] /\ written'[p] = written[p] /\ read'[p] = read[p]
          /\ slot'[p] = slot[p] /\ reaped'[p] = reaped[p] /\ ended'[p] = ended[p]
          /\ result'[p] = result[p]
      BY <1>17 DEF TypeOK, Gone, Leave, Goto, procVars
    <2>2. ProcessInv(p)'
      BY <2>1 DEF ProcessInv, Alive, Started, HasGroup, Runs, Manners
    <2>3. SourceInv(p)'
      BY <2>1, ProgramsAssumption DEF SourceInv, ProcessInv, Alive, Started, HasGroup, Runs, Manners
    <2>4. ListingInv(p)'
      BY <1>17, <2>1, ProgramsAssumption DEF ListingInv, ProcessInv, Alive, Started, HasGroup,
         Runs, Manners, uiVars, Gone
    <2>5. OnlyOf(p)
      BY <1>17 DEF TypeOK, OnlyOf, Same, uiVars, Gone, Leave, Goto, procVars
    <2> QED
      BY <2>2, <2>3, <2>4, <2>5 DEF ProgramInv
  <1>18. ASSUME GiveUp(p) PROVE ProgramInv(p)' /\ OnlyOf(p)
    <2>1. /\ pc[p] = "killed" /\ ~slot[p] /\ "foreign" \in {leader[p], helper[p]}
          /\ pc'[p] = (IF p \in Listings THEN "taking" ELSE "over")
          /\ leader'[p] = leader[p] /\ helper'[p] = helper[p] /\ exit'[p] = exit[p]
          /\ idTaken'[p] = idTaken[p] /\ written'[p] = written[p] /\ read'[p] = read[p]
          /\ slot'[p] = slot[p] /\ reaped'[p] = reaped[p] /\ ended'[p] = ended[p]
          /\ result'[p] = result[p]
      BY <1>18 DEF TypeOK, GiveUp, Leave, Goto, procVars
    <2>2. ProcessInv(p)'
      BY <2>1 DEF ProcessInv
    <2>3. SourceInv(p)'
      BY <2>1, ProgramsAssumption DEF SourceInv, ProcessInv
    <2>4. ListingInv(p)'
      BY <1>18, <2>1, ProgramsAssumption DEF ListingInv, ProcessInv, uiVars, GiveUp
    <2>5. OnlyOf(p)
      BY <1>18 DEF TypeOK, OnlyOf, Same, uiVars, GiveUp, Leave, Goto, procVars
    <2> QED
      BY <2>2, <2>3, <2>4, <2>5 DEF ProgramInv
  <1>19. ASSUME ListingEnds(p) PROVE ProgramInv(p)' /\ OnlyOf(p)
    <2>1. /\ pc[p] = "listing" /\ ~slot[p]
          /\ pc'[p] = (IF NotRunning(p) THEN "taking" ELSE "ending")
          /\ result'[p] = (IF NotRunning(p) THEN "answer" ELSE "late")
          /\ leader'[p] = leader[p] /\ helper'[p] = helper[p] /\ exit'[p] = exit[p]
          /\ idTaken'[p] = idTaken[p] /\ written'[p] = written[p] /\ read'[p] = read[p]
          /\ slot'[p] = slot[p] /\ reaped'[p] = reaped[p] /\ ended'[p] = ended[p]
      BY <1>19 DEF TypeOK, ListingEnds, EndWith, Goto, procVars, flagVars
    <2>2. ProcessInv(p)'
      BY <2>1 DEF ProcessInv, NotRunning, TypeOK
    <2>3. SourceInv(p)'
      BY <2>1 DEF SourceInv, ProcessInv, NotRunning, TypeOK
    <2>4. ListingInv(p)'
      BY <1>19, <2>1 DEF ListingInv, ProcessInv, NotRunning, TypeOK, uiVars, ListingEnds
    <2>5. OnlyOf(p)
      BY <1>19 DEF TypeOK, OnlyOf, Same, uiVars, ListingEnds, EndWith, Goto, procVars, flagVars
    <2> QED
      BY <2>2, <2>3, <2>4, <2>5 DEF ProgramInv
  <1> QED
    BY <1>1, <1>2, <1>3, <1>4, <1>5, <1>6, <1>7, <1>8, <1>9, <1>10, <1>11, <1>12, <1>13, <1>14,
       <1>15, <1>16, <1>17, <1>18, <1>19

\* The steps that signal: a thread's ...
LEMMA SignallingSteps ==
    ASSUME TypeOK, NEW p \in Programs, ProgramInv(p),
           Terminate(p) \/ GraceIsOver(p) \/ TakeListing(p) \/ Return(p)
    PROVE  ProgramInv(p)' /\ OnlyOf(p)
  <1> USE DEF ProgramInv
  <1>0. ~slot[p] => ~(idTaken[p] /\ ~reaped[p])
    BY DEF ProcessInv
  <1>1. ASSUME Terminate(p) PROVE ProgramInv(p)' /\ OnlyOf(p)
    <2>1. /\ pc[p] = "ending" /\ ~slot[p] /\ Ask("owner", p, p \in Listings)
          /\ pc' = [pc EXCEPT ![p] = "waiting"]
          /\ idTaken' = idTaken /\ written' = written /\ reaped' = reaped
          /\ read' = read /\ slot' = slot /\ result' = result /\ UNCHANGED uiVars
      BY <1>1 DEF Terminate, Goto
    <2>2. (p \in Listings) \in BOOLEAN
      OBVIOUS
    <2>3. /\ \A q \in Programs : q # p => NotHeard(q) /\ ended'[q] = ended[q]
          /\ IF ~ended[p] /\ Started(p) /\ ~reaped[p] THEN Heard(p, p \in Listings) ELSE NotHeard(p)
          /\ ended'[p]
          /\ stray' = stray
      BY <1>0, <2>1, <2>2, AskIs
    <2>4. pc'[p] = "waiting"
      BY <2>1 DEF TypeOK
    <2>5. ProcessInv(p)'
      BY <2>1, <2>3, <2>4 DEF ProcessInv, Heard, NotHeard, Hears
    <2>6. SourceInv(p)'
      BY <2>1, <2>3, <2>4, ProgramsAssumption DEF SourceInv, ProcessInv, Heard, NotHeard, Hears
    <2>7. ListingInv(p)'
      BY <2>1, <2>3, <2>4 DEF ListingInv, Heard, NotHeard, Hears, uiVars
    <2>8. OnlyOf(p)
      BY <2>1, <2>3 DEF OnlyOf, Same, NotHeard, TypeOK
    <2> QED
      BY <2>5, <2>6, <2>7, <2>8
  <1>2. ASSUME GraceIsOver(p) PROVE ProgramInv(p)' /\ OnlyOf(p)
    <2>1. /\ pc[p] = "waiting" /\ ~slot[p] /\ Signal("owner", p, TRUE)
          /\ pc' = [pc EXCEPT ![p] = "killed"]
          /\ idTaken' = idTaken /\ written' = written /\ reaped' = reaped /\ ended' = ended
          /\ read' = read /\ slot' = slot /\ result' = result /\ UNCHANGED uiVars
      BY <1>2 DEF GraceIsOver, Goto, flagVars
    <2>3. /\ \A q \in Programs : q # p => NotHeard(q)
          /\ IF Started(p) /\ ~reaped[p] THEN Heard(p, TRUE) ELSE NotHeard(p)
          /\ stray' = stray
      BY <1>0, <2>1, SignalIs
    <2>4. pc'[p] = "killed"
      BY <2>1 DEF TypeOK
    <2>5. ProcessInv(p)'
      BY <2>1, <2>3, <2>4 DEF ProcessInv, Heard, NotHeard, Hears
    <2>6. SourceInv(p)'
      BY <2>1, <2>3, <2>4 DEF SourceInv, ProcessInv, Heard, NotHeard, Hears
    <2>7. ListingInv(p)'
      BY <2>1, <2>3, <2>4 DEF ListingInv, Heard, NotHeard, Hears, uiVars
    <2>8. OnlyOf(p)
      BY <2>1, <2>3 DEF OnlyOf, Same, NotHeard, TypeOK
    <2> QED
      BY <2>5, <2>6, <2>7, <2>8
  <1>3. ASSUME TakeListing(p), written[p] > ListingLimit PROVE ProgramInv(p)' /\ OnlyOf(p)
    <2>1. /\ pc[p] = "listing" /\ ~slot[p] /\ Signal("owner", p, TRUE)
          /\ pc' = [pc EXCEPT ![p] = "taking"] /\ result' = [result EXCEPT ![p] = "overflow"]
          /\ read' = [read EXCEPT ![p] = ListingLimit] /\ ended' = [ended EXCEPT ![p] = TRUE]
          /\ idTaken' = idTaken /\ written' = written /\ reaped' = reaped
          /\ slot' = slot /\ UNCHANGED uiVars
      BY <1>3 DEF TakeListing, EndWith, Goto
    <2>3. /\ \A q \in Programs : q # p => NotHeard(q)
          /\ IF Started(p) /\ ~reaped[p] THEN Heard(p, TRUE) ELSE NotHeard(p)
          /\ stray' = stray
      BY <1>0, <2>1, SignalIs
    <2>4. pc'[p] = "taking" /\ result'[p] = "overflow" /\ read'[p] = ListingLimit /\ ended'[p]
      BY <2>1 DEF TypeOK
    <2>5. ProcessInv(p)'
      BY <2>1, <2>3, <2>4 DEF ProcessInv, Heard, NotHeard, Hears
    <2>6. SourceInv(p)'
      BY <2>1 DEF SourceInv
    <2>7. ListingInv(p)'
      BY <1>3, <2>1, <2>3, <2>4, OutputAssumption DEF ListingInv
    <2>8. OnlyOf(p)
      BY <2>1, <2>3 DEF OnlyOf, Same, NotHeard, TypeOK
    <2> QED
      BY <2>5, <2>6, <2>7, <2>8
  <1>4. ASSUME TakeListing(p), ~(written[p] > ListingLimit) PROVE ProgramInv(p)' /\ OnlyOf(p)
    <2>1. /\ pc[p] = "listing" /\ read' = [read EXCEPT ![p] = written[p]]
          /\ leader' = leader /\ helper' = helper /\ exit' = exit /\ idTaken' = idTaken
          /\ written' = written /\ slot' = slot /\ reaped' = reaped /\ ended' = ended
          /\ pc' = pc /\ result' = result /\ stray' = stray /\ UNCHANGED uiVars
      BY <1>4 DEF TakeListing
    <2>2. read'[p] = written[p] /\ written[p] <= ListingLimit
      BY <1>4, <2>1, OutputAssumption DEF TypeOK
    <2>3. ProcessInv(p)'
      BY <2>1 DEF ProcessInv
    <2>4. SourceInv(p)'
      BY <2>1 DEF SourceInv
    <2>5. ListingInv(p)'
      BY <2>1, <2>2 DEF ListingInv, uiVars
    <2>6. OnlyOf(p)
      BY <2>1 DEF OnlyOf, Same, TypeOK
    <2> QED
      BY <2>3, <2>4, <2>5, <2>6
  <1>5. ASSUME Return(p) PROVE ProgramInv(p)' /\ OnlyOf(p)
    <2>1. /\ pc[p] = "taking"
          /\ helper' = helper /\ idTaken' = idTaken /\ written' = written /\ ended' = ended
          /\ slot' = slot /\ stray' = stray /\ UNCHANGED uiVars
          /\ leader'[p] = (IF leader[p] = "foreign" THEN "foreign" ELSE "reaped")
          /\ exit'[p] = (IF Hears(leader[p], TRUE) THEN "ended" ELSE exit[p])
          /\ reaped'[p] = (leader'[p] = "reaped")
          /\ read'[p] = (IF written[p] > ListingLimit THEN ListingLimit ELSE written[p])
          /\ pc'[p] = "over"
          /\ result'[p] = (IF written[p] > ListingLimit THEN "overflow"
                           ELSE IF result[p] = "late" /\ p \in cancelled THEN "cancelled"
                           ELSE result[p])
      BY <1>5 DEF Return, EndWith, Goto, TypeOK
    <2>2. ProcessInv(p)'
      BY <2>1 DEF ProcessInv, Hears, TypeOK, Manners
    <2>3. SourceInv(p)'
      BY <2>1 DEF SourceInv
    <2>4. ListingInv(p)'
      BY <2>1, OutputAssumption DEF ListingInv, ProcessInv, Hears, uiVars, TypeOK
    <2>5. OnlyOf(p)
      BY <1>5 DEF Return, EndWith, Goto, OnlyOf, Same, TypeOK
    <2> QED
      BY <2>2, <2>3, <2>4, <2>5
  <1> QED
    BY <1>1, <1>2, <1>3, <1>4, <1>5

\* ... and the shutdown's.
LEMMA ShutdownSignals ==
    ASSUME TypeOK, UiInv, NEW p \in Programs, ProgramInv(p), UiAsk(p) \/ UiKill(p)
    PROVE  /\ ProgramInv(p)' /\ ended'[p] /\ pc' = pc /\ cancelled' = cancelled
           /\ \A q \in Programs : q # p => Same(q)
           /\ \A q \in Programs : <<"owner", q>> \in stray' => <<"owner", q>> \in stray
  <1> USE DEF ProgramInv
  <1>0. p \in Sources /\ p \notin Listings
    BY ProgramsAssumption DEF UiInv, UiAsk, UiKill
  <1>1. /\ idTaken' = idTaken /\ written' = written /\ reaped' = reaped /\ pc' = pc
        /\ read' = read /\ slot' = slot /\ result' = result /\ cancelled' = cancelled
    BY DEF UiAsk, UiKill, threadVars, flagVars
  <1>2. /\ \A q \in Programs : q # p => NotHeard(q) /\ ended'[q] = ended[q]
        /\ ended'[p]
        /\ NotHeard(p) \/ Heard(p, TRUE) \/ Heard(p, FALSE)
        /\ stray' = stray \/ stray' = stray \cup {<<"ui", p>>}
    <2>1. CASE UiAsk(p)
      <3>1. Ask("ui", p, FALSE)
        BY <2>1 DEF UiAsk
      <3> QED
        BY <3>1, AskIs
    <2>2. CASE UiKill(p)
      <3>1. Signal("ui", p, TRUE) /\ ended' = ended /\ ended[p]
        BY <2>2 DEF UiKill, UiInv, flagVars
      <3> QED
        BY <3>1, SignalIs
    <2> QED
      BY <2>1, <2>2
  <1>3. ProcessInv(p)'
    BY <1>1, <1>2 DEF ProcessInv, Heard, NotHeard, Hears
  <1>4. SourceInv(p)'
    BY <1>1, <1>2 DEF SourceInv, ProcessInv, Heard, NotHeard, Hears
  <1>5. ListingInv(p)'
    BY <1>0 DEF ListingInv
  <1>6. \A q \in Programs : q # p => Same(q)
    BY <1>1, <1>2 DEF Same, NotHeard
  <1>7. \A q \in Programs : <<"owner", q>> \in stray' => <<"owner", q>> \in stray
    BY <1>2
  <1> QED
    BY <1>1, <1>2, <1>3, <1>4, <1>5, <1>6, <1>7

\* A thread that is over takes no step.
LEMMA OverIsOver ==
    ASSUME NEW p \in Programs, ProcessInv(p), pc[p] = "over"
    PROVE  ~Owner(p)
  <1>1. ~slot[p]
    BY DEF ProcessInv
  <1>2. ~(Reap(p) \/ Finished(p) \/ Register(p) \/ CancelledEarly(p) \/ Enroll(p) \/ Stopped(p) \/ TakeBytes(p))
    BY <1>1 DEF Reap, Finished, Register, CancelledEarly, Enroll, Stopped, TakeBytes
  <1>3. ~(StartFails(p) \/ startProcess(p))
    BY DEF StartFails, startProcess, ReadyToStart
  <1>4. ~(NothingCame(p) \/ Look(p) \/ StreamEnds(p) \/ Terminate(p) \/ Gone(p) \/ GraceIsOver(p) \/ GiveUp(p))
    BY DEF NothingCame, Look, StreamEnds, Terminate, Gone, GraceIsOver, GiveUp
  <1>5. ~(TakeListing(p) \/ ListingEnds(p) \/ Return(p))
    BY DEF TakeListing, ListingEnds, Return
  <1> QED
    BY <1>2, <1>3, <1>4, <1>5 DEF Owner

\* The invariant.
LEMMA ProgramsStep == ProgramsInv /\ [Next]_vars => ProgramsInv'
  <1> SUFFICES ASSUME ProgramsInv, [Next]_vars PROVE ProgramsInv'
    OBVIOUS
  <1>0. TypeOK /\ OwnerSignalsItsOwn /\ UiInv /\ \A p \in Programs : ProgramInv(p)
    BY DEF ProgramsInv
  <1>t. TypeOK'
    BY <1>0, TypeStep
  <1>1. ASSUME NEW p \in Programs, Write(p) \/ Exit(p) \/ HelperExit(p) \/ TakeId(p) \/ Owner(p)
        PROVE  ProgramsInv'
    <2>1. ProgramInv(p)' /\ OnlyOf(p)
      BY <1>0, <1>1, QuietSteps, SignallingSteps DEF Owner
    <2>2. \A q \in Programs : ProgramInv(q)'
      BY <1>0, <2>1, Others DEF OnlyOf, uiVars
    <2>3. OwnerSignalsItsOwn'
      BY <1>0, <2>1 DEF OnlyOf, OwnerSignalsItsOwn
    <2>4. pc[p] = "over" => pc' = pc
      <3>1. pc[p] = "over" => ~Owner(p)
        BY <1>0, OverIsOver DEF ProgramInv
      <3>2. Write(p) \/ Exit(p) \/ HelperExit(p) \/ TakeId(p) => pc' = pc
        BY DEF Write, Exit, HelperExit, TakeId, threadVars
      <3> QED
        BY <1>1, <3>1, <3>2
    <2>5. UiInv'
      BY <1>0, <2>1, <2>4 DEF OnlyOf, UiInv, uiVars, TypeOK
    <2> QED
      BY <1>t, <2>2, <2>3, <2>5 DEF ProgramsInv
  <1>2. ASSUME NEW p \in Programs, UiAsk(p) \/ UiKill(p) PROVE ProgramsInv'
    <2>1. /\ ProgramInv(p)' /\ ended'[p] /\ pc' = pc /\ cancelled' = cancelled
          /\ \A q \in Programs : q # p => Same(q)
          /\ \A q \in Programs : <<"owner", q>> \in stray' => <<"owner", q>> \in stray
      BY <1>0, <1>2, ShutdownSignals
    <2>2. \A q \in Programs : ProgramInv(q)'
      BY <1>0, <2>1, Others
    <2>3. OwnerSignalsItsOwn'
      BY <1>0, <2>1 DEF OwnerSignalsItsOwn
    <2>4. UiInv'
      <3>1. \A q \in Programs : ended[q] => ended'[q]
        BY <2>1 DEF Same
      <3>2. asking' \cup ending' \subseteq asking \cup ending /\ ending' \subseteq ending \cup {p} /\ ui' = ui
        BY <1>2 DEF UiAsk, UiKill
      <3>3. ending \subseteq Programs
        BY <1>0 DEF TypeOK
      <3> QED
        BY <1>0, <2>1, <3>1, <3>2, <3>3 DEF UiInv
    <2> QED
      BY <1>t, <2>2, <2>3, <2>4 DEF ProgramsInv
  <1>3. ASSUME UNCHANGED <<procVars, flagVars, threadVars, stray>>, cancelled \subseteq cancelled',
               asking' \cup ending' \subseteq Sources, ending' \subseteq ending,
               ui' \in {"askingAgain", "over"} => \A q \in Programs : pc[q] = "over"
        PROVE  ProgramsInv'
    <2>1. \A q \in Programs : Same(q)
      BY <1>3 DEF Same, procVars, flagVars, threadVars
    <2>2. \A q \in Programs : ProgramInv(q)'
      BY <1>0, <1>3, <2>1, Others
    <2>3. OwnerSignalsItsOwn'
      BY <1>0, <1>3 DEF OwnerSignalsItsOwn
    <2>4. UiInv'
      BY <1>0, <1>3 DEF UiInv, procVars, flagVars, threadVars
    <2> QED
      BY <1>t, <2>2, <2>3, <2>4 DEF ProgramsInv
  <1>4. ASSUME NEW p \in Programs, CancelScope(p) \/ UiGone(p) PROVE ProgramsInv'
    BY <1>0, <1>3, <1>4 DEF CancelScope, UiGone, UiInv
  <1>5. CASE Shutdown \/ BeginEnding
    BY <1>0, <1>3, <1>5 DEF Shutdown, BeginEnding, UiInv, TypeOK
  <1>6. CASE Join \/ EndShutdown
    BY <1>0, <1>3, <1>6 DEF Join, EndShutdown, UiInv, TypeOK
  <1>7. CASE UNCHANGED vars
    BY <1>0, <1>3, <1>7 DEF vars, uiVars, UiInv
  <1> QED
    BY <1>1, <1>2, <1>4, <1>5, <1>6, <1>7 DEF Next, Ui, Over

\* It holds as the plugin is loaded.
LEMMA ProgramsInitially == Init => ProgramsInv
  <1> SUFFICES ASSUME Init PROVE ProgramsInv
    OBVIOUS
  <1>1. TypeOK
    <2>1. 0 \in 0..MaxBytes
      BY OutputAssumption
    <2>2. pc \in [Programs -> {"new", "registered", "started", "reading", "looking", "lastRead",
                            "listing", "ending", "waiting", "killed", "taking", "over"}]
      BY DEF Init
    <2>3. /\ written \in [Programs -> 0..MaxBytes] /\ read \in [Programs -> 0..MaxBytes]
          /\ leader \in [Programs -> Manners \cup {"none", "exited", "reaped"}]
          /\ helper \in [Programs -> Manners \cup {"none", "gone"}]
          /\ exit \in [Programs -> {"none", "zero", "code", "ended"}]
      BY <2>1 DEF Init
    <2> QED
      BY <2>2, <2>3 DEF Init, TypeOK
  <1>2. \A p \in Programs : pc[p] \in {"new", "over"}
    BY DEF Init
  <1>3. ASSUME NEW p \in Programs PROVE ProgramInv(p)
    BY <1>2, OutputAssumption DEF Init, ProgramInv, ProcessInv, SourceInv, ListingInv
  <1> QED
    BY <1>1, <1>3 DEF ProgramsInv, Init, OwnerSignalsItsOwn, UiInv

\* It always holds.
LEMMA ProgramsAlways == Spec => []ProgramsInv
  BY ProgramsInitially, ProgramsStep, PTL DEF Spec

\* What it says of the ends of sources and listings.
LEMMA ProgramsGive == ProgramsInv => EndIsTrue /\ ListingIsTrue /\ EndedWithThePlugin
  <1> SUFFICES ASSUME ProgramsInv PROVE EndIsTrue /\ ListingIsTrue /\ EndedWithThePlugin
    OBVIOUS
  <1>0. /\ TypeOK /\ UiInv /\ \A p \in Programs : ProcessInv(p) /\ SourceInv(p) /\ ListingInv(p)
        /\ Sources \subseteq Programs /\ Listings \subseteq Programs
    BY DEF ProgramsInv, ProgramInv, Programs
  <1>1. EndIsTrue
    BY <1>0 DEF EndIsTrue, SourceInv
  <1>2. ListingIsTrue
    <2> SUFFICES ASSUME NEW p \in Listings, pc[p] = "over"
                 PROVE  /\ result[p] = "answer" => exit[p] \in {"zero", "code"} /\ read[p] = written[p]
                        /\ result[p] = "cancelled" => p \in cancelled
                        /\ result[p] = "overflow" => written[p] > ListingLimit
                        /\ read[p] <= ListingLimit
                        /\ leader[p] \notin {"polite", "stubborn"}
      BY DEF ListingIsTrue
    <2> QED
      BY <1>0 DEF ListingInv, ProcessInv
  <1>3. EndedWithThePlugin
    <2> SUFFICES ASSUME ui = "over", NEW p \in Sources
                 PROVE  /\ leader[p] \notin {"polite", "stubborn"}
                        /\ helper[p] = "polite" => exit[p] \in {"zero", "code"}
      BY DEF EndedWithThePlugin
    <2>1. pc[p] = "over" /\ ProcessInv(p) /\ SourceInv(p)
      BY <1>0 DEF UiInv
    <2>2. leader[p] \in Manners \cup {"none", "exited", "reaped"} /\ exit[p] \in {"none", "zero", "code", "ended"}
      BY <1>0 DEF TypeOK
    <2> QED
      BY <2>1, <2>2 DEF ProcessInv, SourceInv, Manners
  <1> QED
    BY <1>1, <1>2, <1>3

(***************************************************************************)
(* A capture on a device.  Two scripts run side by side, the capture's and *)
(* Stop's.  What one finds tells it what the other will still do: a pid    *)
(* that is there is of a script past its beginning, which makes nothing    *)
(* any more; where there is none yet, the mark left before is still to be  *)
(* looked for.                                                             *)
(***************************************************************************)

\* The steps of the script before it looks for the mark: it will see one that is there.
Begins == {"making", "entering", "starting", "leavingPid"}

\* The steps at which its files may be there, and are removed if the mark is.
HasFiles == {"leavingPid", "looking", "waiting", "removingPid", "removingErr"}

\* The script is on the device.
ScriptRuns == script \notin {"none", "over"}

\* Files are in the capture's directory, which the script makes;
\* a pid there is of a script that waits, or was cut off.
FilesInv ==
    /\ pidFile \/ errFile => dir = "own"
    /\ script \in {"none", "making"} => dir # "own"
    /\ pidFile => script \in {"looking", "waiting", "removingPid"} \/ cut

\* The script starts with the source and goes with adb, or before it; tcpdump runs on only
\* if it was cut off.
ScriptInv ==
    /\ capture = "new" => script = "none"
    /\ script = "none" => capture \in {"new", "over"} /\ ~mark /\ ~adb
    /\ cut => script = "over" /\ ~adb
    /\ cut /\ ~missed => capture \in {"reading", "ended", "cleaning", "over"}
    /\ script \in {"none", "making", "entering", "starting"} => tcpdump # "running"
    /\ script \in {"removingPid", "removingErr", "removingDir", "unmarking"} => tcpdump = "ended"
    /\ script = "over" /\ tcpdump = "running" => cut
    /\ ~adb => capture \in {"new", "over"} \/ script = "over"
    /\ capture \in {"ended", "cleaning", "over"} => ~adb

\* A mark is Stop's, and stays until the script, or Stop after it, removes it.
MarkInv ==
    /\ mark /\ script = "over" => missed
    /\ capture \in {"new", "reading", "marking", "ended", "cleaning"} => ~mark
    /\ capture \in {"testing", "refusing", "readingPid", "killing", "removingPid"} /\ ScriptRuns => mark

\* What Stop found is so still: a script that has left its pid does not begin again; what may
\* yet be made, or is there as Stop removes the directory, is the script's to
\* remove, as the mark tells it.
StopInv ==
    /\ capture \in {"readingPid", "killing", "removingPid", "unmarking", "removingErr", "removingDir"} =>
            script # "making"
    /\ capture \in {"killing", "removingPid", "unmarking"} => script \notin Begins
    /\ capture = "unmarking" => ~pidFile
    /\ ~missed =>
        /\ capture = "refusing" => dir # "own"
        /\ capture \in {"removingErr", "removingDir"} /\ (script \in Begins \/ pidFile) => mark
        /\ capture = "removingDir" /\ errFile => mark /\ script \in HasFiles

\* What is left as the source goes is the script's to remove.
CleanInv ==
    capture = "over" /\ ~missed /\ (dir = "own" \/ (script = "making" /\ dir = "absent")) =>
        \/ mark /\ script \in Begins \cup HasFiles
        \/ script = "removingDir" /\ ~errFile

\* The invariant of a capture on a device.
DeviceInv == AdbTypeOK /\ FilesInv /\ ScriptInv /\ MarkInv /\ StopInv /\ CleanInv

\* Every step keeps the types.
LEMMA DeviceTypes == AdbTypeOK /\ [AdbNext]_adbVars => AdbTypeOK'
  <1> SUFFICES ASSUME AdbTypeOK, [AdbNext]_adbVars PROVE AdbTypeOK'
    OBVIOUS
  <1> USE DEF AdbTypeOK, deviceFiles, ScriptKeeps, SourceKeeps
  <1>1. CASE MakeDir \/ EnterDir \/ StartTcpdump \/ LeavePid \/ LookForMark \/ WaitForTcpdump
    BY <1>1 DEF MakeDir, EnterDir, StartTcpdump, LeavePid, LookForMark, KillIfRuns, WaitForTcpdump
  <1>2. CASE RemovePid \/ RemoveErr \/ LeaveDir \/ RemoveMark \/ TcpdumpEnds
    BY <1>2 DEF RemovePid, RemoveErr, LeaveDir, RemoveDir, RemoveMark, TcpdumpEnds
  <1>3. CASE NoAccess \/ makeSource \/ AdbEnds
    BY <1>3 DEF NoAccess, makeSource, AdbEnds
  <1>4. CASE Captured \/ DeviceStreamEnds \/ StopCapture
    BY <1>4 DEF Captured, DeviceStreamEnds, StopCapture
  <1>5. CASE Mark \/ TestDir \/ Refuse \/ ReadPid
    BY <1>5 DEF Mark, TestDir, Refuse, ReadPid
  <1>6. CASE KillTcpdump \/ StopRemovesPid \/ Unmark
    BY <1>6 DEF KillTcpdump, KillIfRuns, StopRemovesPid, Unmark
  <1>7. CASE StopRemovesErr \/ StopRemovesDir
    BY <1>7 DEF StopRemovesErr, StopRemovesDir, RemoveDir
  <1>8. CASE Destroy \/ CleanDevice
    BY <1>8 DEF Destroy, CleanDevice, KillIfRuns
  <1>9. CASE UNCHANGED adbVars
    BY <1>9 DEF adbVars
  <1> QED
    BY <1>1, <1>2, <1>3, <1>4, <1>5, <1>6, <1>7, <1>8, <1>9 DEF AdbNext, AdbOver

\* Every command of the two scripts, and each step of adb and tcpdump, keeps it.
LEMMA DeviceStep == DeviceInv /\ [AdbNext]_adbVars => DeviceInv'
  <1> SUFFICES ASSUME DeviceInv, [AdbNext]_adbVars PROVE FilesInv' /\ ScriptInv' /\ MarkInv' /\ StopInv' /\ CleanInv'
    BY DeviceTypes DEF DeviceInv
  <1> USE DEF Begins, HasFiles, ScriptRuns, deviceFiles
  <1>1. CASE MakeDir
    BY <1>1 DEF DeviceInv, AdbTypeOK, FilesInv, ScriptInv, MarkInv, StopInv, CleanInv, MakeDir,
       ScriptKeeps
  <1>2. CASE EnterDir
    BY <1>2 DEF DeviceInv, AdbTypeOK, FilesInv, ScriptInv, MarkInv, StopInv, CleanInv, EnterDir,
       ScriptKeeps
  <1>3. CASE StartTcpdump
    BY <1>3 DEF DeviceInv, AdbTypeOK, FilesInv, ScriptInv, MarkInv, StopInv, CleanInv,
       StartTcpdump, ScriptKeeps
  <1>4. CASE LeavePid
    BY <1>4 DEF DeviceInv, AdbTypeOK, FilesInv, ScriptInv, MarkInv, StopInv, CleanInv, LeavePid,
       ScriptKeeps
  <1>5. CASE LookForMark
    BY <1>5 DEF DeviceInv, AdbTypeOK, FilesInv, ScriptInv, MarkInv, StopInv, CleanInv,
       LookForMark, KillIfRuns, ScriptKeeps
  <1>6. CASE WaitForTcpdump
    BY <1>6 DEF DeviceInv, AdbTypeOK, FilesInv, ScriptInv, MarkInv, StopInv, CleanInv,
       WaitForTcpdump, ScriptKeeps
  <1>7. CASE RemovePid
    BY <1>7 DEF DeviceInv, AdbTypeOK, FilesInv, ScriptInv, MarkInv, StopInv, CleanInv, RemovePid,
       ScriptKeeps
  <1>8. CASE RemoveErr
    BY <1>8 DEF DeviceInv, AdbTypeOK, FilesInv, ScriptInv, MarkInv, StopInv, CleanInv, RemoveErr,
       ScriptKeeps
  <1>9. CASE LeaveDir
    BY <1>9 DEF DeviceInv, AdbTypeOK, FilesInv, ScriptInv, MarkInv, StopInv, CleanInv, LeaveDir,
       RemoveDir, ScriptKeeps
  <1>10. CASE RemoveMark
    BY <1>10 DEF DeviceInv, AdbTypeOK, FilesInv, ScriptInv, MarkInv, StopInv, CleanInv,
       RemoveMark, ScriptKeeps
  <1>11. CASE TcpdumpEnds
    BY <1>11 DEF DeviceInv, AdbTypeOK, FilesInv, ScriptInv, MarkInv, StopInv, CleanInv, TcpdumpEnds
  <1>12. CASE NoAccess
    BY <1>12 DEF DeviceInv, AdbTypeOK, FilesInv, ScriptInv, MarkInv, StopInv, CleanInv, NoAccess,
       SourceKeeps
  <1>13. CASE makeSource
    BY <1>13 DEF DeviceInv, AdbTypeOK, FilesInv, ScriptInv, MarkInv, StopInv, CleanInv, makeSource
  <1>14. CASE AdbEnds
    <2>1. FilesInv'
      BY <1>14 DEF DeviceInv, AdbTypeOK, FilesInv, ScriptInv, MarkInv, StopInv, CleanInv, AdbEnds
    <2>2. ScriptInv'
      BY <1>14 DEF DeviceInv, AdbTypeOK, FilesInv, ScriptInv, MarkInv, StopInv, CleanInv, AdbEnds
    <2>3. MarkInv'
      BY <1>14 DEF DeviceInv, AdbTypeOK, FilesInv, ScriptInv, MarkInv, StopInv, CleanInv, AdbEnds
    <2>4. StopInv'
      BY <1>14 DEF DeviceInv, AdbTypeOK, FilesInv, ScriptInv, MarkInv, StopInv, CleanInv, AdbEnds
    <2>5. CleanInv'
      BY <1>14 DEF DeviceInv, AdbTypeOK, FilesInv, ScriptInv, MarkInv, StopInv, CleanInv, AdbEnds
    <2> QED
      BY <2>1, <2>2, <2>3, <2>4, <2>5
  <1>15. CASE Captured
    BY <1>15 DEF DeviceInv, AdbTypeOK, FilesInv, ScriptInv, MarkInv, StopInv, CleanInv, Captured,
       SourceKeeps
  <1>16. CASE DeviceStreamEnds
    BY <1>16 DEF DeviceInv, AdbTypeOK, FilesInv, ScriptInv, MarkInv, StopInv, CleanInv,
       DeviceStreamEnds, SourceKeeps
  <1>17. CASE StopCapture
    BY <1>17 DEF DeviceInv, AdbTypeOK, FilesInv, ScriptInv, MarkInv, StopInv, CleanInv,
       StopCapture, SourceKeeps
  <1>18. CASE Mark
    BY <1>18 DEF DeviceInv, AdbTypeOK, FilesInv, ScriptInv, MarkInv, StopInv, CleanInv, Mark
  <1>19. CASE TestDir
    BY <1>19 DEF DeviceInv, AdbTypeOK, FilesInv, ScriptInv, MarkInv, StopInv, CleanInv, TestDir,
       SourceKeeps
  <1>20. CASE Refuse
    BY <1>20 DEF DeviceInv, AdbTypeOK, FilesInv, ScriptInv, MarkInv, StopInv, CleanInv, Refuse,
       SourceKeeps
  <1>21. CASE ReadPid
    BY <1>21 DEF DeviceInv, AdbTypeOK, FilesInv, ScriptInv, MarkInv, StopInv, CleanInv, ReadPid,
       SourceKeeps
  <1>22. CASE KillTcpdump
    BY <1>22 DEF DeviceInv, AdbTypeOK, FilesInv, ScriptInv, MarkInv, StopInv, CleanInv,
       KillTcpdump, KillIfRuns, SourceKeeps
  <1>23. CASE StopRemovesPid
    BY <1>23 DEF DeviceInv, AdbTypeOK, FilesInv, ScriptInv, MarkInv, StopInv, CleanInv,
       StopRemovesPid, SourceKeeps
  <1>24. CASE Unmark
    BY <1>24 DEF DeviceInv, AdbTypeOK, FilesInv, ScriptInv, MarkInv, StopInv, CleanInv, Unmark,
       SourceKeeps
  <1>25. CASE StopRemovesErr
    BY <1>25 DEF DeviceInv, AdbTypeOK, FilesInv, ScriptInv, MarkInv, StopInv, CleanInv,
       StopRemovesErr, SourceKeeps
  <1>26. CASE StopRemovesDir
    BY <1>26 DEF DeviceInv, AdbTypeOK, FilesInv, ScriptInv, MarkInv, StopInv, CleanInv,
       StopRemovesDir, RemoveDir, SourceKeeps
  <1>27. CASE Destroy
    BY <1>27 DEF DeviceInv, AdbTypeOK, FilesInv, ScriptInv, MarkInv, StopInv, CleanInv, Destroy,
       SourceKeeps
  <1>28. CASE CleanDevice
    BY <1>28 DEF DeviceInv, AdbTypeOK, FilesInv, ScriptInv, MarkInv, StopInv, CleanInv,
       CleanDevice, KillIfRuns, SourceKeeps
  <1>29. CASE UNCHANGED adbVars
    BY <1>29 DEF adbVars, DeviceInv, FilesInv, ScriptInv, MarkInv, StopInv, CleanInv
  <1> QED
    BY <1>1, <1>2, <1>3, <1>4, <1>5, <1>6, <1>7, <1>8, <1>9, <1>10, <1>11, <1>12, <1>13, <1>14,
       <1>15, <1>16, <1>17, <1>18, <1>19, <1>20, <1>21, <1>22, <1>23, <1>24, <1>25, <1>26, <1>27,
       <1>28, <1>29 DEF AdbNext, AdbOver

\* So a device is clean.
LEMMA DeviceAlways == AdbSpec => [](AdbTypeOK /\ DeviceIsClean)
  <1>1. AdbInit => DeviceInv
    BY DEF AdbInit, DeviceInv, AdbTypeOK, FilesInv, ScriptInv, MarkInv, StopInv, CleanInv,
       Begins, HasFiles, ScriptRuns
  <1>2. DeviceInv => AdbTypeOK /\ DeviceIsClean
    BY DEF DeviceInv, AdbTypeOK, FilesInv, ScriptInv, MarkInv, CleanInv, DeviceIsClean, Begins,
       HasFiles
  <1> QED
    BY <1>1, <1>2, DeviceStep, PTL DEF AdbSpec

(***************************************************************************)
(* All of them.                                                            *)
(***************************************************************************)

\* Every step of a capture on a server keeps the types.
LEMMA ServerTypes == SshSpec => []SshTypeOK
  <1>1. SshInit => SshTypeOK
    BY DEF SshInit, SshTypeOK
  <1>2. SshTypeOK /\ [SshNext]_sshVars => SshTypeOK'
    <2> SUFFICES ASSUME SshTypeOK, [SshNext]_sshVars PROVE SshTypeOK'
      OBVIOUS
    <2> USE DEF SshTypeOK
    <2>1. CASE Script
      BY <2>1 DEF Script, Prepare, StartInBackground, StartWatchdog, WaitForDump, KillWatchdog
    <2>2. CASE Watchdog
      BY <2>2 DEF Watchdog, ReadToEnd, WatchdogKills
    <2>3. CASE RunSsh \/ DumpEnds \/ SshEnds
      BY <2>3 DEF RunSsh, DumpEnds, SshEnds
    <2>4. CASE UNCHANGED sshVars
      BY <2>4 DEF sshVars
    <2> QED
      BY <2>1, <2>2, <2>3, <2>4 DEF SshNext, SshOver
  <1> QED
    BY <1>1, <1>2, PTL DEF SshSpec

\* The lines of a program are counted within their bounds.
LEMMA StderrTypes == StderrSpec => []StderrTypeOK
  <1> DEFINE Ends == wrote <= MaxLines /\ end \in {"none", "posted", "told"}
  <1>1. StderrInit => StderrCounts /\ StderrFlags /\ Ends
    <2> SUFFICES ASSUME StderrInit PROVE StderrCounts /\ StderrFlags /\ Ends
      OBVIOUS
    <2>1. StderrCounts /\ Ends
      BY BatchAssumption DEF StderrInit, StderrCounts
    <2>2. StderrFlags
      BY DEF StderrInit, StderrFlags
    <2> QED
      BY <2>1, <2>2
  <1>2. StderrCounts /\ Ends /\ [StderrNext]_stderrVars => Ends'
    BY BatchAssumption DEF StderrCounts, StderrNext, takeStderrLine, flushStderrLines,
       emitStderrLines,
       LookAgain, PostEnd, TellEnd, StderrOver, stderrVars
  <1>3. StderrCounts /\ StderrFlags /\ Ends => StderrTypeOK
    BY BatchAssumption DEF StderrCounts, StderrFlags, StderrTypeOK
  <1> QED
    BY <1>1, <1>2, <1>3, CountsStep, FlagsStep, PTL DEF StderrSpec

\* The directories are numbered as they are made.
LEMMA TempTypes == TempSpec => []TempTypeOK
  <1>1. TempInit => TempTypeOK
    BY DirsAssumption DEF TempInit, TempTypeOK
  <1>2. TempTypeOK /\ [TempNext]_tempVars => TempTypeOK'
    <2> SUFFICES ASSUME TempTypeOK, [TempNext]_tempVars PROVE TempTypeOK'
      OBVIOUS
    <2> USE DirsAssumption DEF TempTypeOK
    <2>1. ASSUME NEW pid \in Pids, Load(pid) PROVE TempTypeOK'
      BY <2>1 DEF Load, removeStaleTempDirs, removeTempDirs
    <2>2. ASSUME NEW pid \in Pids, MakeTempDir(pid) PROVE TempTypeOK'
      BY <2>2 DEF MakeTempDir
    <2>3. ASSUME NEW pid \in Pids, Unload(pid) PROVE TempTypeOK'
      BY <2>3 DEF Unload, removeOwnTempDirs, removeTempDirs
    <2>4. ASSUME NEW pid \in Pids, Crash(pid) \/ OtherProcess(pid) PROVE TempTypeOK'
      BY <2>4 DEF Crash, OtherProcess
    <2>5. CASE UNCHANGED tempVars
      BY <2>5 DEF tempVars
    <2> QED
      BY <2>1, <2>2, <2>3, <2>4, <2>5 DEF TempNext
  <1> QED
    BY <1>1, <1>2, PTL DEF TempSpec

\* What is told of a program is what it did, for any programs, bytes, limits and lines:
\* a stream that ended or failed did so by itself and was read to its end, whoever
\* signals its program and whenever it ends; a listing that answers has all of its
\* output; every line of error output is told or counted
\* (ProcessSource::failure(), runListing(), takeStderrLine()).
THEOREM WhatIsToldIsTrue == SourcesSpec => []ToldIsTrue
  <1>1. ProgramsInv => TypeOK /\ EndIsTrue /\ ListingIsTrue
    BY ProgramsGive DEF ProgramsInv
  <1> QED
    BY <1>1, ProgramsAlways, StderrTypes, EveryLineIsTold, PTL DEF SourcesSpec, ToldIsTrue

\* Nothing of a capture stays behind, and nothing of another's is touched, for any
\* programs, ids and directories: no program outlives the plugin, nor a file or a
\* tcpdump the source on a device; a thread signals only its program's group; a
\* directory in use stays (endProcessGroup(), adbStopScript(), removeStaleTempDirs()).
THEOREM NothingIsLeftBehind == SourcesSpec => []NothingStaysBehind
  <1>1. ProgramsInv => OwnerSignalsItsOwn /\ EndedWithThePlugin
    BY ProgramsGive DEF ProgramsInv
  <1> QED
    BY <1>1, ProgramsAlways, DeviceAlways, ServerTypes, TempTypes, RunningKeepTheirDirs, PTL
    DEF SourcesSpec, NothingStaysBehind

(***************************************************************************)
(* The live capture form: what it offers can be captured, whatever the     *)
(* listings answer, and when.                                              *)
(*                                                                         *)
(* Start is not computed at every change: a device may be chosen, and an   *)
(* extcap's arguments may become known, without a word to the dialog. The  *)
(* invariant says why that is no harm: such a device is one that can be    *)
(* captured, and the arguments become known while the form waits for them. *)
(***************************************************************************)

\* What a device's and an interface's field may hold.
OfDevice == Texts(Devices)
OfInterface == Texts(Interfaces) \cup {"any"}

\* The choices remembered as Refresh was pressed.
Remember == [source : Kinds, device : OfDevice, interface : OfInterface,
             common : {"", "snaplen", "filter", "limits"},
             options : UNION {OptionsOf(kind) : kind \in Kinds}]

\* The types, those of the choice remembered and of the extcap's target too.
TypeInv ==
    /\ FormTypeOK
    /\ wanted \in Remember
    /\ target \in OfDevice \X OfInterface

\* The extcap's options are of the device and interface the fields hold.
TargetInv == source = "extcap" => target = <<device, interface>>

\* One question at most is current; it is of the target, which is complete, and
\* the form waits for its answer.
AskInv ==
    /\ \A q \in asks : q.current =>
            source = "extcap" /\ pending /\ q.target = target /\ "" \notin {target[1], target[2]}
    /\ \A q, r \in asks : q.current /\ r.current => q = r

\* The current listings are of the source. Where devices are listed, one at most is
\* current, and a current one of interfaces is of the device chosen.
FormListingInv ==
    /\ \A l \in listings : l.current => l.kind = source
    /\ DevicesOf(source) = "listed" =>
        /\ \A l, m \in listings : l.current /\ m.current => l = m
        /\ \A l \in listings : l.current /\ l.what = "interfaces" => l.device = device

(* Listings and questions that start.                                      *)

\* Listings made stale are none of them current.
LEMMA StaleIs ==
    ASSUME NEW S, S \subseteq Listing
    PROVE  Stale(S) \subseteq Listing /\ \A l \in Stale(S) : ~l.current
  <1>1. ASSUME NEW l \in S PROVE [l EXCEPT !.current = FALSE] \in Listing /\ ~[l EXCEPT !.current = FALSE].current
    BY DEF Listing
  <1>2. QED
    BY <1>1 DEF Stale

\* Nor are questions.
LEMMA StaleAsks ==
    ASSUME NEW S, S \subseteq Question
    PROVE  Stale(S) \subseteq Question /\ \A q \in Stale(S) : ~q.current
  <1>1. ASSUME NEW q \in S PROVE [q EXCEPT !.current = FALSE] \in Question /\ ~[q EXCEPT !.current = FALSE].current
    BY DEF Question
  <1>2. QED
    BY <1>1 DEF Stale

\* A new listing.
New(what, kind, of) ==
    [what |-> what, kind |-> kind, device |-> of, options |-> options[kind], current |-> TRUE]

\* What runs once a listing started.
LEMMA StartIs ==
    ASSUME FormTypeOK, NEW what \in {"devices", "interfaces"}, NEW kind \in Kinds, NEW of \in OfDevice, NEW S, S \subseteq Listing
    PROVE  /\ Start(what, kind, of, S) \subseteq Listing
           /\ \A l : l \in Start(what, kind, of, S) <=> l \in S \/ l = New(what, kind, of)
  <1>1. Start(what, kind, of, S) = S \cup {New(what, kind, of)}
    BY DEF Start, New
  <1>2. New(what, kind, of) \in Listing
    BY DEF New, Listing, FormTypeOK, OfDevice
  <1>3. QED
    BY <1>1, <1>2

\* A new target makes the questions stale, and is to be asked for; the same changes nothing.
LEMMA SetTargetTrue ==
    ASSUME TypeInv, NEW new \in OfDevice \X OfInterface, setTarget(new)
    PROVE  /\ target' = new /\ asks' \subseteq Question /\ pending' \in BOOLEAN
           /\ target' # target => pending' /\ \A q \in asks' : ~q.current
           /\ target' = target => UNCHANGED <<pending, asks>>
  BY StaleAsks DEF setTarget, TypeInv, FormTypeOK

(* What the programs answer.                                               *)

\* What the two answers without more hold.
LEMMA RecordsAre ==
    /\ \A why : Nothing(why).targets = {} /\ Nothing(why).error = why /\ Nothing(why).cannotCapture = ""
    /\ \A S : Listed(S).targets = S /\ Listed(S).error = "" /\ Listed(S).cannotCapture = ""
  BY DEF Nothing, Listed

\* A listing of devices names some there are; where they are only listed, one that
\* failed names none.
LEMMA DevicesAnswered ==
    ASSUME NEW kind, NEW there, NEW a \in DeviceAnswers(kind, there)
    PROVE  /\ a.targets \subseteq Devices /\ a.cannotCapture = ""
           /\ DevicesOf(kind) = "listed" /\ a.error # "" => a.targets = {}
  <1> DEFINE reasons == {"install", "listing", "no device"}
  <1>1. CASE kind = "adb"
    <2>1. PICK said \in Said, seen \in SUBSET Devices : a = AdbDevices(there, said, seen)
      BY <1>1 DEF DeviceAnswers
    <2>2. a = Listed(seen) \/ \E w \in reasons : a = Nothing(w)
      BY <2>1 DEF AdbDevices
    <2>3. QED
      BY <2>2, RecordsAre
  <1>2. CASE kind = "extcap"
    <2>1. a = Nothing("install") \/ a = Listed(Devices)
      BY <1>2 DEF DeviceAnswers, ExtcapDevices
    <2>2. QED
      BY <2>1, RecordsAre
  <1>3. CASE kind \notin {"adb", "extcap"}
    <2>1. PICK S \in SUBSET Devices : a = Listed(S)
      BY <1>3 DEF DeviceAnswers
    <2>2. QED
      BY <1>3, <2>1 DEF Listed, DevicesOf
  <1>4. QED
    BY <1>1, <1>2, <1>3

\* A listing of interfaces names some there are, or any.
LEMMA InterfacesAnswered ==
    ASSUME NEW kind, NEW of, NEW there, NEW a \in InterfaceAnswers(kind, of, there)
    PROVE  a.targets \subseteq Interfaces \cup {"any"} /\ a.cannotCapture \in {"", "denied"}
  <1> DEFINE Good(x) == x.targets \subseteq Interfaces \cup {"any"} /\ x.cannotCapture \in {"", "denied"}
  <1>1. \A why : Good(Nothing(why))
    BY DEF Nothing
  <1>2. ASSUME NEW S \in SUBSET (Interfaces \cup {"any"}), NEW e, NEW c \in {"", "denied"}
        PROVE  Good([targets |-> S, error |-> e, cannotCapture |-> c])
    OBVIOUS
  <1>3. \A S \in SUBSET (Interfaces \cup {"any"}) : Good(Listed(S))
    BY DEF Listed
  <1> HIDE DEF Good
  <1>4. \A said \in Said : said.lines \in SUBSET (Interfaces \cup {"any"}) /\ said.lines \cup {"any"} \in SUBSET (Interfaces \cup {"any"})
    BY DEF Said
  <1>5. ASSUME NEW t, NEW said \in Said, NEW b PROVE Good(LocalListing(t, said, b))
    BY <1>1, <1>2, <1>3, <1>4 DEF LocalListing
  <1>6. ASSUME NEW said \in Said, NEW ip PROVE Good(SshListing(of, there, said, ip))
    <2>1. CASE HostProblem(of) # "" \/ ~there \/ said.error
      BY <1>1, <2>1 DEF SshListing
    <2>2. CASE ~(HostProblem(of) # "" \/ ~there \/ said.error)
      <3>1. PICK e : SshListing(of, there, said, ip) = [targets |-> said.lines, error |-> e, cannotCapture |-> ""]
        BY <2>2 DEF SshListing
      <3>2. QED
        BY <1>2, <1>4, <3>1
    <2>3. QED
      BY <2>1, <2>2
  <1>7. ASSUME NEW said \in Said, NEW root PROVE Good(AdbListing(of, there, said, root))
    <2>1. PICK e, f : AdbListing(of, there, said, root) \in
            {Nothing(f), [targets |-> said.lines \cup {"any"}, error |-> e, cannotCapture |-> ""]}
      BY DEF AdbListing
    <2>2. QED
      BY <1>1, <1>2, <1>4, <2>1
  <1>8. ASSUME NEW S, NEW said \in Said PROVE Good(ExtcapListing(of, S, said))
    BY <1>1, <1>3, <1>4 DEF ExtcapListing
  <1>9. ASSUME NEW x, Good(x) PROVE Good(CommandListing(x))
    BY <1>1, <1>9 DEF CommandListing
  <1>10. Good(a)
    <2>1. CASE kind = "local"
      BY <1>5, <2>1 DEF InterfaceAnswers
    <2>2. CASE kind = "command"
      <3>1. PICK said \in Said, b \in BOOLEAN, t \in BOOLEAN : a = CommandListing(LocalListing(t, said, b))
        BY <2>2 DEF InterfaceAnswers
      <3>2. QED
        BY <1>5, <1>9, <3>1
    <2>3. CASE kind = "ssh"
      <3>1. PICK said \in Said, ip \in BOOLEAN : a = SshListing(of, there, said, ip)
        BY <2>3 DEF InterfaceAnswers
      <3>2. QED
        BY <1>6, <3>1
    <2>4. CASE kind = "adb"
      <3>1. PICK said \in Said, root \in BOOLEAN : a = AdbListing(of, there, said, root)
        BY <2>4 DEF InterfaceAnswers
      <3>2. QED
        BY <1>7, <3>1
    <2>5. CASE kind \notin {"local", "command", "ssh", "adb"}
      <3>1. PICK said \in Said : a = ExtcapListing(of, IF there THEN Devices ELSE {}, said)
        BY <2>5 DEF InterfaceAnswers
      <3>2. QED
        BY <1>8, <3>1
    <2>6. QED
      BY <2>1, <2>2, <2>3, <2>4, <2>5
  <1>11. QED
    BY <1>10 DEF Good

(* A change of the source, and of the target.                              *)

\* How the kinds have their devices.
LEMMA KindsAre ==
    /\ \A kind \in Kinds : DevicesOf(kind) \in {"none", "typed", "listed"}
    /\ DevicesOf("extcap") = "listed" /\ DevicesOf("ssh") = "typed" /\ "extcap" \in Kinds
  BY DEF Kinds, DevicesOf

\* What any change of the source is to the invariant.
SourceIs(kind, remembered) ==
    /\ source' = kind
    /\ device' \in {"", remembered.device} /\ interface' \in {"", remembered.interface}
    /\ DevicesOf(kind) = "listed" => device' = ""
    /\ cannot' = "" /\ listed' = <<>>
    /\ listings' \subseteq Listing
    /\ \A l \in listings' : l.current => l.kind = kind /\ (DevicesOf(kind) = "listed" => l.what = "devices")
    /\ \A l, m \in listings' : l.current /\ m.current => l = m
    /\ target' = IF kind = "extcap" THEN <<device', interface'>> ELSE <<"", "">>
    /\ pending' \in BOOLEAN /\ asks' = {}

\* Every change of the source leaves that.
LEMMA SourceChanged ==
    ASSUME TypeInv, NEW kind \in Kinds, NEW remembered, sourceChanged(kind, remembered)
    PROVE  SourceIs(kind, remembered)
  <1> DEFINE what == IF DevicesOf(kind) = "none" THEN "interfaces" ELSE "devices"
  <1>1. listings \subseteq Listing /\ Stale(listings) \subseteq Listing /\ \A l \in Stale(listings) : ~l.current
    BY StaleIs DEF TypeInv, FormTypeOK
  <1>2. what \in {"interfaces", "devices"} /\ "" \in OfDevice /\ (DevicesOf(kind) = "listed" => what = "devices")
    BY DEF OfDevice, Texts
  <1>3. listings' = Stale(listings) \/ listings' = Start(what, kind, "", Stale(listings))
    BY DEF sourceChanged
  <1> HIDE DEF what
  <1>4. (\A l : l \in Start(what, kind, "", Stale(listings)) <=> l \in Stale(listings) \/ l = New(what, kind, ""))
        /\ Start(what, kind, "", Stale(listings)) \subseteq Listing
    <2>1. FormTypeOK
      BY DEF TypeInv
    <2>2. QED
      BY <1>1, <1>2, <2>1, StartIs
  <1>5. New(what, kind, "").kind = kind /\ New(what, kind, "").what = what
    BY DEF New
  <1>6. /\ listings' \subseteq Listing
        /\ \A l \in listings' : l.current => l.kind = kind /\ (DevicesOf(kind) = "listed" => l.what = "devices")
        /\ \A l, m \in listings' : l.current /\ m.current => l = m
    BY <1>1, <1>2, <1>3, <1>4, <1>5
  <1>7. kind = "extcap" => DevicesOf(kind) = "listed"
    BY DEF DevicesOf
  <1>8. /\ source' = kind
        /\ device' \in {"", remembered.device} /\ interface' \in {"", remembered.interface}
        /\ DevicesOf(kind) = "listed" => device' = ""
        /\ cannot' = "" /\ listed' = <<>>
        /\ target' = (IF kind = "extcap" THEN <<"", interface'>> ELSE <<"", "">>)
        /\ pending' \in BOOLEAN /\ asks' = {}
    BY DEF sourceChanged
  <1>9. QED
    BY <1>6, <1>7, <1>8 DEF SourceIs

\* What telling the options their target leaves.
LEMMA Told ==
    ASSUME TypeInv, device' \in OfDevice, interface' \in OfInterface, tellTarget
    PROVE  /\ target' \in OfDevice \X OfInterface /\ asks' \subseteq Question /\ pending' \in BOOLEAN
           /\ source = "extcap" => target' = <<device', interface'>>
           /\ target' # target => pending' /\ \A q \in asks' : ~q.current
           /\ target' = target => UNCHANGED <<pending, asks>>
  <1>1. CASE source = "extcap"
    <2>1. <<device', interface'>> \in OfDevice \X OfInterface /\ setTarget(<<device', interface'>>)
      BY <1>1 DEF tellTarget
    <2>2. QED
      BY <2>1, SetTargetTrue
  <1>2. CASE source # "extcap"
    BY <1>2 DEF tellTarget, TypeInv, FormTypeOK
  <1>3. QED
    BY <1>1, <1>2

\* The inductive invariant: what is to be shown, and what it rests on.
FormInv == TypeInv /\ TargetInv /\ AskInv /\ FormListingInv /\ StartIsTrue /\ ListIsOfTheChoice

\* Every change of the source keeps it.
LEMMA NewSource ==
    ASSUME TypeInv, NEW kind \in Kinds, NEW r \in Remember, sourceChanged(kind, r),
           wanted' \in Remember, UNCHANGED available, common' \in {"", "snaplen", "filter", "limits"},
           options' \in [Kinds -> UNION {OptionsOf(k) : k \in Kinds}], edits' \in 0..MaxEdits, Changed
    PROVE  FormInv'
  <1>1. SourceIs(kind, r)
    BY SourceChanged
  <1>2. r.device \in OfDevice /\ r.interface \in OfInterface /\ "" \in OfDevice /\ "" \in OfInterface
    BY DEF Remember, OfDevice, OfInterface, Texts
  <1>3. device' \in OfDevice /\ interface' \in OfInterface /\ target' \in OfDevice \X OfInterface
    BY <1>1, <1>2 DEF SourceIs
  <1>4. start' \in BOOLEAN /\ StartIsTrue'
    BY DEF Changed, StartIsTrue
  <1>5. TypeInv'
    BY <1>1, <1>3, <1>4 DEF TypeInv, FormTypeOK, SourceIs, OfDevice, OfInterface
  <1>6. TargetInv' /\ AskInv' /\ ListIsOfTheChoice'
    BY <1>1 DEF SourceIs, TargetInv, AskInv, ListIsOfTheChoice
  <1>7. FormListingInv'
    <2>1. \A l \in listings' : l.current /\ l.what = "interfaces" => DevicesOf(source') # "listed"
      BY <1>1 DEF SourceIs
    <2>2. QED
      BY <1>1, <2>1 DEF SourceIs, FormListingInv
  <1>8. QED
    BY <1>4, <1>5, <1>6, <1>7 DEF FormInv

\* The choice can be remembered.
LEMMA ChoiceIs == TypeInv => choice \in Remember
  <1> SUFFICES ASSUME TypeInv PROVE choice \in Remember
    OBVIOUS
  <1> DEFINE d == IF DevicesOf(source) = "none" THEN "" ELSE device
             o == options[source]
  <1>1. d \in OfDevice /\ o \in UNION {OptionsOf(kind) : kind \in Kinds}
    BY DEF TypeInv, FormTypeOK, OfDevice, Texts
  <1>2. choice = [source |-> source, device |-> d, interface |-> interface, common |-> common, options |-> o]
    BY DEF choice
  <1> HIDE DEF d, o
  <1>3. QED
    BY <1>1, <1>2 DEF TypeInv, FormTypeOK, Remember, OfInterface

\* A listing of the source started.
LEMMA FormStarted ==
    ASSUME FormTypeOK, NEW what \in {"devices", "interfaces"}, NEW of \in OfDevice, NEW S,
           S \subseteq Listing, NEW next, next = Start(what, source, of, S)
    PROVE  next \subseteq Listing /\ \A l : l \in next <=> l \in S \/ l = New(what, source, of)
  <1>1. source \in Kinds
    BY DEF FormTypeOK
  <1>2. QED
    BY <1>1, StartIs

\* What a listing's start keeps.
LEMMA NewListing ==
    ASSUME TypeInv, NEW what \in {"devices", "interfaces"}, NEW of \in OfDevice,
           what = "interfaces" => of = device',
           listings' = Start(what, source, of, Stale(listings)), UNCHANGED source
    PROVE  listings' \subseteq Listing /\ FormListingInv' /\ \E l \in listings' : l.current
  <1>1. listings \subseteq Listing /\ Stale(listings) \subseteq Listing /\ \A l \in Stale(listings) : ~l.current
        /\ source \in Kinds
    BY StaleIs DEF TypeInv, FormTypeOK
  <1>2. (\A l : l \in listings' <=> l \in Stale(listings) \/ l = New(what, source, of)) /\ listings' \subseteq Listing
    BY <1>1, FormStarted DEF TypeInv
  <1>3. New(what, source, of).kind = source /\ New(what, source, of).what = what
        /\ New(what, source, of).device = of /\ New(what, source, of).current
    BY DEF New
  <1>4. QED
    BY <1>1, <1>2, <1>3 DEF FormListingInv

\* The options' target changed, or did not.
LEMMA AskTold ==
    ASSUME FormInv, UNCHANGED source, tellTarget, device' \in OfDevice, interface' \in OfInterface
    PROVE  AskInv' /\ TargetInv'
  <1>1. /\ source = "extcap" => target' = <<device', interface'>>
        /\ target' # target => pending' /\ \A q \in asks' : ~q.current
        /\ target' = target => UNCHANGED <<pending, asks>>
    BY Told DEF FormInv
  <1>2. CASE target' = target
    <2>0. pending' = pending /\ asks' = asks /\ AskInv
      BY <1>1, <1>2 DEF FormInv
    <2>1. AskInv'
      BY <1>2, <2>0 DEF AskInv
    <2>2. TargetInv'
      BY <1>1, <1>2 DEF TargetInv
    <2>3. QED
      BY <2>1, <2>2
  <1>3. CASE target' # target
    BY <1>1, <1>3 DEF FormInv, AskInv, TargetInv
  <1>4. QED
    BY <1>2, <1>3

(* When there is no problem.                                               *)

\* A choice, of a kind whose hosts are not typed, that can be captured.
Fine(c, there, args) ==
    /\ c.source \in Kinds \cap there /\ c.common = ""
    /\ c.source = "local" => c.interface # ""
    /\ c.source = "adb" => c.device \notin {"", "bad"} /\ c.interface \notin {"", "bad"}
    /\ c.source = "extcap" =>
        /\ c.device \in Devices /\ c.interface # ""
        /\ <<c.device, c.interface>> \in args => c.options # ""
    /\ c.source = "command" =>
        /\ c.options \notin {"", "bad"}
        /\ c.options = "line {interface}" => c.interface \notin {"", "bad"}

\* The form, of a kind whose hosts are not typed, that can be captured.
FormIsFine ==
    /\ cannot = "" /\ Fine(choice, available, known)
    /\ source = "extcap" /\ pending => "" \in {target[1], target[2]}

\* A choice has no problem just when it can be captured.
LEMMA LiveProblem ==
    ASSUME NEW c, c.source # "ssh", NEW there, NEW args
    PROVE  liveChoiceProblem(c, there, args) = "" <=> Fine(c, there, args)
  <1>0. "" \notin Devices
    BY TextsAssumption
  <1>1. CASE c.source \notin Kinds \cap there \/ c.common # ""
    BY <1>1 DEF liveChoiceProblem, Fine
  <1>2. CASE c.source \in Kinds \cap there /\ c.common = ""
    <2>1. CASE c.source = "local"
      BY <1>2, <2>1 DEF liveChoiceProblem, Fine, InterfaceProblem
    <2>2. CASE c.source = "adb"
      BY <1>2, <2>2 DEF liveChoiceProblem, Fine, AdbProblem, RefusedInterface, InterfaceProblem
    <2>3. CASE c.source = "extcap"
      BY <1>0, <1>2, <2>3 DEF liveChoiceProblem, Fine, ExtcapProblem, InterfaceProblem,
         extcapArgumentProblem
    <2>4. CASE c.source = "command"
      BY <1>2, <2>4 DEF liveChoiceProblem, Fine, CommandProblem, InterfaceProblem
    <2>5. QED
      BY <1>2, <2>1, <2>2, <2>3, <2>4 DEF Kinds
  <1>3. QED
    BY <1>1, <1>2

\* What the form's choice holds, now and after a step.
LEMMA ChoiceFields ==
    /\ choice.source = source /\ choice.interface = interface /\ choice.common = common
    /\ choice.options = options[source]
    /\ choice.device = IF DevicesOf(source) = "none" THEN "" ELSE device
  BY DEF choice

LEMMA ChoiceFieldsThen ==
    /\ choice'.source = source' /\ choice'.interface = interface' /\ choice'.common = common'
    /\ choice'.options = options'[source']
    /\ choice'.device = IF DevicesOf(source') = "none" THEN "" ELSE device'
  BY DEF choice

\* Nor has the form, now and after a step.
LEMMA FormProblem == source # "ssh" => (problem = "" <=> FormIsFine)
  <1>1. CASE source # "ssh"
    <2>1. liveChoiceProblem(choice, available, known) = "" <=> Fine(choice, available, known)
      BY <1>1, ChoiceFields, LiveProblem
    <2>2. QED
      BY <2>1 DEF problem, FormIsFine
  <1>2. QED
    BY <1>1

LEMMA FormProblemThen == source' # "ssh" => (problem' = "" <=> FormIsFine')
  <1>1. CASE source' # "ssh"
    <2>1. liveChoiceProblem(choice', available', known') = "" <=> Fine(choice', available', known')
      BY <1>1, ChoiceFieldsThen, LiveProblem
    <2>2. QED
      BY <2>1 DEF problem, FormIsFine
  <1>2. QED
    BY <1>1

\* Start may stay as it is, where the form stays one that can be captured.
LEMMA StartStays ==
    ASSUME StartIsTrue, UNCHANGED <<start, source>>, source # "ssh" /\ FormIsFine => FormIsFine'
    PROVE  StartIsTrue'
  <1>1. CASE start /\ source # "ssh"
    <2>1. problem = ""
      BY <1>1 DEF StartIsTrue, DevicesOf
    <2>2. problem' = ""
      BY <1>1, <2>1, FormProblem, FormProblemThen
    <2>3. QED
      BY <2>2 DEF StartIsTrue
  <1>2. CASE ~start \/ source = "ssh"
    BY <1>2 DEF StartIsTrue, DevicesOf
  <1>3. QED
    BY <1>1, <1>2

\* Nothing of the form's own changed but what is said.
LEMMA ChangedTrue == Changed => StartIsTrue' /\ start' \in BOOLEAN
  BY DEF Changed, StartIsTrue

(* What the user does.                                                     *)

\* Each of the user's changes keeps the invariant: another source, a choice remembered,
LEMMA PickSourceStep ==
    ASSUME FormInv, edits' \in 0..MaxEdits, NEW kind \in Kinds, PickSource(kind)
    PROVE  FormInv'
  BY NewSource DEF PickSource, FormInv, TypeInv, FormTypeOK

LEMMA SetChoiceStep ==
    ASSUME FormInv, edits' \in 0..MaxEdits, NEW c \in Remembered, setChoice(c)
    PROVE  FormInv'
  <1>1. c \in Remember /\ c.source \in Kinds /\ c.common \in {"", "snaplen", "filter", "limits"}
        /\ c.options \in UNION {OptionsOf(k) : k \in Kinds}
    BY DEF Remembered, Choice, Remember, OfDevice, OfInterface
  <1> DEFINE o == UNION {OptionsOf(k) : k \in Kinds}
  <1>2. options' \in [Kinds -> o]
    <2>1. options \in [Kinds -> o]
      BY DEF FormInv, TypeInv, FormTypeOK
    <2>2. options' = [options EXCEPT ![c.source] = c.options]
      BY DEF setChoice
    <2>3. c.options \in o
      BY <1>1
    <2> HIDE DEF o
    <2>4. QED
      BY <2>1, <2>2, <2>3
  <1>3. QED
    BY <1>1, <1>2, NewSource DEF setChoice, FormInv

\* a program installed, which nothing tells the form,
LEMMA InstallStep ==
    ASSUME FormInv, UNCHANGED edits, NEW kind \in Kinds, Install(kind)
    PROVE  FormInv'
  <1>1. /\ available' = available \cup {kind}
        /\ UNCHANGED <<source, device, interface, common, options, wanted, cannot, listings, listed, target,
                       pending, asks, known, start, edits>>
    BY DEF Install, chosenVars, extcapVars
  <1>2. TypeInv'
    BY <1>1 DEF FormInv, TypeInv, FormTypeOK
  <1>3. TargetInv' /\ ListIsOfTheChoice'
    BY <1>1 DEF FormInv, TargetInv, ListIsOfTheChoice
  <1>4. AskInv' /\ FormListingInv'
    BY <1>1 DEF FormInv, AskInv, FormListingInv
  <1>5. choice' = choice
    BY <1>1 DEF choice
  <1>6. FormIsFine => FormIsFine'
    BY <1>1, <1>5 DEF FormIsFine, Fine
  <1>7. StartIsTrue'
    BY <1>1, <1>6, StartStays DEF FormInv
  <1>8. QED
    BY <1>2, <1>3, <1>4, <1>7 DEF FormInv

\* a refresh,
LEMMA RefreshStep ==
    ASSUME FormInv, edits' \in 0..MaxEdits, refresh
    PROVE  FormInv'
  <1>1. CASE source \notin available
    BY <1>1, NewSource DEF refresh, FormInv, TypeInv, FormTypeOK
  <1>2. CASE source \in available
    <2> DEFINE what == IF DevicesOf(source) = "none" THEN "interfaces" ELSE "devices"
    <2>1. /\ wanted' = choice
          /\ listings' = Start(what, source, "", Stale(listings))
          /\ UNCHANGED <<available, common, options, known, source, device, interface, cannot, listed, target,
                         pending, asks, start>>
      BY <1>2 DEF refresh
    <2>2. choice \in Remember
      BY ChoiceIs DEF FormInv
    <2>3. listings \subseteq Listing /\ Stale(listings) \subseteq Listing /\ \A l \in Stale(listings) : ~l.current
      BY StaleIs DEF FormInv, TypeInv, FormTypeOK
    <2>4. what \in {"devices", "interfaces"} /\ "" \in OfDevice
          /\ (DevicesOf(source) = "listed" => what = "devices")
      BY DEF OfDevice, Texts
    <2> HIDE DEF what
    <2>5. listings' \subseteq Listing /\ \A l : l \in listings' <=> l \in Stale(listings) \/ l = New(what, source, "")
      <3>1. FormTypeOK
        BY DEF FormInv, TypeInv
      <3>2. \A next : next = Start(what, source, "", Stale(listings)) =>
              next \subseteq Listing /\ \A l : l \in next <=> l \in Stale(listings) \/ l = New(what, source, "")
        BY <2>3, <2>4, <3>1, FormStarted
      <3>3. listings' = Start(what, source, "", Stale(listings))
        BY <2>1
      <3>4. QED
        BY <3>2, <3>3
    <2>6. New(what, source, "").kind = source /\ New(what, source, "").what = what /\ New(what, source, "").current
      BY DEF New
    <2>7. FormListingInv' /\ \E l \in listings' : l.current
      <3>1. \A l \in listings' : l.current => l = New(what, source, "")
        BY <2>3, <2>5
      <3>2. New(what, source, "") \in listings'
        BY <2>5
      <3>3. DevicesOf(source) = "listed" => New(what, source, "").what # "interfaces"
        BY <2>4, <2>6
      <3>4. source' = source
        BY <2>1
      <3>5. FormListingInv'
        BY <2>6, <3>1, <3>3, <3>4 DEF FormListingInv
      <3>6. QED
        BY <2>6, <3>2, <3>5
    <2>8. TypeInv'
      BY <2>1, <2>2, <2>5 DEF FormInv, TypeInv, FormTypeOK
    <2>9. TargetInv' /\ AskInv'
      BY <2>1 DEF FormInv, TargetInv, AskInv
    <2>10. ListIsOfTheChoice'
      BY <2>1, <2>7 DEF FormInv, ListIsOfTheChoice
    <2>11. choice' = choice
      BY <2>1 DEF choice
    <2>12. FormIsFine => FormIsFine'
      BY <2>1, <2>11 DEF FormIsFine
    <2>13. StartIsTrue'
      BY <2>1, <2>12, StartStays DEF FormInv
    <2>14. QED
      BY <2>7, <2>8, <2>9, <2>10, <2>13 DEF FormInv
  <1>3. QED
    BY <1>1, <1>2

\* a device chosen: where nothing is told, it is one that can be captured,
LEMMA PickDeviceStep ==
    ASSUME FormInv, edits' \in 0..MaxEdits, NEW picked \in Devices, PickDevice(picked)
    PROVE  FormInv'
  <1>1. /\ DevicesOf(source) # "none" /\ source \in available
        /\ device' = picked /\ listings' = Start("interfaces", source, picked, Stale(listings))
        /\ tellTarget
        /\ UNCHANGED <<available, source, interface, common, options, wanted, cannot, listed, known>>
        /\ IF target' = target THEN UNCHANGED start ELSE Changed
    BY DEF PickDevice
  <1>2. device' \in OfDevice /\ interface' \in OfInterface /\ picked \in OfDevice
        /\ interface \in OfInterface
    BY <1>1 DEF FormInv, TypeInv, FormTypeOK, OfDevice, OfInterface, Texts
  <1>3. /\ target' \in OfDevice \X OfInterface /\ asks' \subseteq Question /\ pending' \in BOOLEAN
        /\ source = "extcap" => target' = <<device', interface'>>
        /\ target' = target => UNCHANGED <<pending, asks>>
    BY <1>1, <1>2, Told DEF FormInv
  <1>4. listings' \subseteq Listing /\ FormListingInv' /\ \E l \in listings' : l.current
    BY <1>1, <1>2, NewListing DEF FormInv
  <1>5. AskInv' /\ TargetInv'
    BY <1>1, <1>2, AskTold
  <1>6. ListIsOfTheChoice'
    BY <1>1, <1>4 DEF FormInv, ListIsOfTheChoice
  <1>7. StartIsTrue' /\ start' \in BOOLEAN
    <2>1. CASE target' # target
      BY <1>1, <2>1, ChangedTrue
    <2>2. CASE target' = target
      <3>1. UNCHANGED <<start, source, interface, common, options, cannot, available, known, pending, target>>
        BY <1>1, <1>3, <2>2
      <3>2. source = "extcap" => device' = device
        BY <1>3, <2>2 DEF FormInv, TargetInv
      <3>3. picked \notin {"", "bad"}
        BY TextsAssumption
      <3>4. ASSUME source # "ssh", FormIsFine PROVE FormIsFine'
        <4>1. /\ choice'.source = choice.source /\ choice'.interface = choice.interface
              /\ choice'.common = choice.common /\ choice'.options = choice.options
              /\ choice'.device = picked
              /\ choice.source = "extcap" => choice'.device = choice.device
          BY <1>1, <3>1, <3>2, ChoiceFields, ChoiceFieldsThen
        <4>2. Fine(choice', available', known')
          BY <3>1, <3>3, <3>4, <4>1 DEF FormIsFine, Fine
        <4>3. QED
          BY <3>1, <3>4, <4>2 DEF FormIsFine
      <3>5. StartIsTrue'
        BY <3>1, <3>4, StartStays DEF FormInv
      <3>6. QED
        BY <3>1, <3>5 DEF FormInv, TypeInv, FormTypeOK
    <2>3. QED
      BY <2>1, <2>2
  <1>8. TypeInv'
    BY <1>1, <1>2, <1>3, <1>4, <1>7 DEF FormInv, TypeInv, FormTypeOK, OfDevice, OfInterface
  <1>9. QED
    BY <1>4, <1>5, <1>6, <1>7, <1>8 DEF FormInv

\* a host typed,
LEMMA TypeDeviceStep ==
    ASSUME FormInv, edits' \in 0..MaxEdits, NEW text \in Texts(Devices), TypeDevice(text)
    PROVE  FormInv'
  <1>1. /\ DevicesOf(source) = "typed" /\ device' = text
        /\ UNCHANGED <<available, source, interface, common, options, wanted, cannot, listings, listed,
                       target, pending, asks, known, start>>
    BY DEF TypeDevice, extcapVars
  <1>2. source # "extcap"
    BY <1>1, KindsAre
  <1>3. TypeInv'
    BY <1>1 DEF FormInv, TypeInv, FormTypeOK, OfDevice, OfInterface
  <1>4. TargetInv' /\ AskInv'
    BY <1>1, <1>2 DEF FormInv, TargetInv, AskInv
  <1>5. FormListingInv' /\ ListIsOfTheChoice' /\ StartIsTrue'
    BY <1>1 DEF FormInv, FormListingInv, ListIsOfTheChoice, StartIsTrue
  <1>6. QED
    BY <1>3, <1>4, <1>5 DEF FormInv

\* an interface,
LEMMA PickInterfaceStep ==
    ASSUME FormInv, edits' \in 0..MaxEdits, NEW picked \in Texts(Interfaces), PickInterface(picked)
    PROVE  FormInv'
  <1>1. /\ interface' = picked /\ tellTarget
        /\ UNCHANGED <<device, available, source, common, options, wanted, cannot, listings, listed, known>>
        /\ Changed
    BY DEF PickInterface
  <1>2. device' \in OfDevice /\ interface' \in OfInterface
    BY <1>1 DEF FormInv, TypeInv, FormTypeOK, OfDevice, OfInterface
  <1>3. target' \in OfDevice \X OfInterface /\ asks' \subseteq Question /\ pending' \in BOOLEAN
    BY <1>1, <1>2, Told DEF FormInv
  <1>4. AskInv' /\ TargetInv' /\ StartIsTrue' /\ start' \in BOOLEAN
    BY <1>1, <1>2, AskTold, ChangedTrue
  <1>5. FormListingInv' /\ ListIsOfTheChoice'
    BY <1>1 DEF FormInv, FormListingInv, ListIsOfTheChoice
  <1>6. TypeInv'
    BY <1>1, <1>2, <1>3, <1>4 DEF FormInv, TypeInv, FormTypeOK, OfDevice, OfInterface
  <1>7. QED
    BY <1>4, <1>5, <1>6 DEF FormInv

\* what all sources have,
LEMMA EditCommonStep ==
    ASSUME FormInv, edits' \in 0..MaxEdits, NEW wrong \in {"", "filter"}, EditCommon(wrong)
    PROVE  FormInv'
  <1>1. /\ common' = wrong /\ Changed
        /\ UNCHANGED <<available, source, device, interface, options, wanted, cannot, listings, listed,
                       target, pending, asks, known>>
    BY DEF EditCommon, extcapVars
  <1>2. StartIsTrue' /\ start' \in BOOLEAN
    BY <1>1, ChangedTrue
  <1>3. TypeInv'
    BY <1>1, <1>2 DEF FormInv, TypeInv, FormTypeOK
  <1>4. TargetInv' /\ AskInv' /\ FormListingInv' /\ ListIsOfTheChoice'
    BY <1>1 DEF FormInv, TargetInv, AskInv, FormListingInv, ListIsOfTheChoice
  <1>5. QED
    BY <1>2, <1>3, <1>4 DEF FormInv

\* and the source's own options.
LEMMA EditOptionsStep ==
    ASSUME FormInv, edits' \in 0..MaxEdits, NEW value, EditOptions(value)
    PROVE  FormInv'
  <1> DEFINE o == UNION {OptionsOf(k) : k \in Kinds}
             x == [what |-> "interfaces", kind |-> source, device |-> device, options |-> value, current |-> TRUE]
  <1>1. /\ value \in OptionsOf(source)
        /\ options' = [options EXCEPT ![source] = value]
        /\ listings' = (IF source = "ssh" /\ device # "" THEN listings \cup {x} ELSE listings)
        /\ UNCHANGED <<available, source, device, interface, common, wanted, cannot, listed,
                       target, pending, asks, known>>
        /\ Changed
    BY DEF EditOptions, extcapVars
  <1>2. StartIsTrue' /\ start' \in BOOLEAN
    BY <1>1, ChangedTrue
  <1>3. value \in o /\ options \in [Kinds -> o] /\ source \in Kinds
    BY <1>1 DEF FormInv, TypeInv, FormTypeOK
  <1>4. x \in Listing /\ x.kind = source
    BY <1>3 DEF Listing, FormInv, TypeInv, FormTypeOK
  <1>5. options' \in [Kinds -> o]
    <2> HIDE DEF o
    <2>1. QED
      BY <1>1, <1>3
  <1> HIDE DEF x
  <1>6. listings' \subseteq Listing
    BY <1>1, <1>4 DEF FormInv, TypeInv, FormTypeOK
  <1>7. TypeInv'
    BY <1>1, <1>2, <1>5, <1>6 DEF FormInv, TypeInv, FormTypeOK
  <1>8. FormListingInv'
    <2>1. CASE source = "ssh"
      <3>1. DevicesOf(source) # "listed"
        BY <2>1, KindsAre
      <3>2. QED
        BY <1>1, <1>4, <3>1 DEF FormInv, FormListingInv
    <2>2. CASE source # "ssh"
      BY <1>1, <2>2 DEF FormInv, FormListingInv
    <2>3. QED
      BY <2>1, <2>2
  <1>9. ListIsOfTheChoice'
    <2>1. CASE source = "ssh"
      <3>1. DevicesOf(source) # "listed"
        BY <2>1, KindsAre
      <3>2. QED
        BY <1>1, <3>1 DEF FormInv, ListIsOfTheChoice
    <2>2. CASE source # "ssh"
      BY <1>1, <2>2 DEF FormInv, ListIsOfTheChoice
    <2>3. QED
      BY <2>1, <2>2
  <1>10. TargetInv' /\ AskInv'
    BY <1>1 DEF FormInv, TargetInv, AskInv
  <1>11. QED
    BY <1>2, <1>7, <1>8, <1>9, <1>10 DEF FormInv

(* What the listings answer.                                               *)

\* A listing that is not current is dropped.
LEMMA DropStep ==
    ASSUME FormInv, UNCHANGED edits, NEW l \in listings, Drop(l)
    PROVE  FormInv'
  <1>1. /\ ~l.current /\ listings' = listings \ {l}
        /\ UNCHANGED <<available, source, device, interface, common, options, wanted, cannot, listed,
                       target, pending, asks, known, start>>
    BY DEF Drop, IsShown, chosenVars, extcapVars
  <1>2. TypeInv'
    BY <1>1 DEF FormInv, TypeInv, FormTypeOK
  <1>3. TargetInv' /\ AskInv' /\ FormListingInv'
    BY <1>1 DEF FormInv, TargetInv, AskInv, FormListingInv
  <1>4. ListIsOfTheChoice'
    BY <1>1 DEF FormInv, ListIsOfTheChoice
  <1>5. choice' = choice
    BY <1>1 DEF choice
  <1>6. FormIsFine => FormIsFine'
    BY <1>1, <1>5 DEF FormIsFine
  <1>7. StartIsTrue'
    BY <1>1, <1>6, StartStays DEF FormInv
  <1>8. QED
    BY <1>2, <1>3, <1>4, <1>7 DEF FormInv

\* A field is filled with what was listed, or nothing.
LEMMA FillIs ==
    ASSUME NEW targets, NEW remembered, NEW before, NEW x \in Fill(targets, remembered, before)
    PROVE  x \in targets \cup {""}
  BY DEF Fill

\* The devices were listed: the interfaces of the one shown are next.
LEMMA DevicesStep ==
    ASSUME FormInv, UNCHANGED edits, NEW l \in listings, l.current,
           NEW answer \in DeviceAnswers(l.kind, l.kind \in available), DevicesListed(l, answer)
    PROVE  FormInv'
  <1>1. /\ device' \in (IF DevicesOf(l.kind) = "typed"
                        THEN {IF device = "" THEN Wanted(l.kind, wanted.device) ELSE device}
                        ELSE Fill(answer.targets, Wanted(l.kind, wanted.device), device))
        /\ tellTarget
        /\ UNCHANGED <<interface, available, source, common, options, wanted, listed, known>>
        /\ IF answer.error # "" \/ device' = ""
           THEN cannot' = answer.cannotCapture /\ listings' = listings \ {l} /\ Changed
           ELSE /\ listings' = Start("interfaces", source, device', listings \ {l})
                /\ UNCHANGED cannot
                /\ IF target' = target THEN UNCHANGED start ELSE Changed
    BY DEF DevicesListed
  <1>2. l.kind = source /\ source \in Kinds /\ FormTypeOK /\ TypeInv
    BY DEF FormInv, TypeInv, FormTypeOK, FormListingInv
  <1>3. answer.targets \subseteq Devices /\ answer.cannotCapture = ""
        /\ (DevicesOf(source) = "listed" /\ answer.error # "" => answer.targets = {})
    BY <1>2, DevicesAnswered
  <1>4. DevicesOf(source) # "typed" => device' \in answer.targets \cup {""}
    <2>1. CASE DevicesOf(source) = "typed"
      BY <2>1
    <2>2. CASE DevicesOf(source) # "typed"
      <3>1. device' \in Fill(answer.targets, Wanted(l.kind, wanted.device), device)
        BY <1>1, <1>2, <2>2
      <3>2. QED
        BY <3>1, FillIs
    <2>3. QED
      BY <2>1, <2>2
  <1>5. device' \in OfDevice /\ interface' \in OfInterface
    <2>1. device \in OfDevice /\ Wanted(l.kind, wanted.device) \in OfDevice /\ Devices \cup {""} \subseteq OfDevice
          /\ interface \in OfInterface
      BY <1>2 DEF TypeInv, FormTypeOK, Remember, Wanted, OfDevice, OfInterface, Texts
    <2>2. CASE DevicesOf(source) = "typed"
      BY <1>1, <1>2, <2>1, <2>2
    <2>3. CASE DevicesOf(source) # "typed"
      BY <1>1, <1>3, <1>4, <2>1, <2>3
    <2>4. QED
      BY <2>2, <2>3
  <1>6. /\ target' \in OfDevice \X OfInterface /\ asks' \subseteq Question /\ pending' \in BOOLEAN
        /\ source = "extcap" => target' = <<device', interface'>>
        /\ target' = target => UNCHANGED <<pending, asks>>
    BY <1>1, <1>2, <1>5, Told
  <1>7. AskInv' /\ TargetInv'
    BY <1>1, <1>5, AskTold
  <1>8. listings \ {l} \subseteq Listing
    BY <1>2 DEF FormTypeOK
  <1>9. DevicesOf(source) = "listed" => \A m \in listings \ {l} : ~m.current
    BY DEF FormInv, FormListingInv
  <1>10. CASE answer.error # "" \/ device' = ""
    <2>1. cannot' = "" /\ listings' = listings \ {l} /\ StartIsTrue' /\ start' \in BOOLEAN
      BY <1>1, <1>3, <1>10, ChangedTrue
    <2>2. DevicesOf(source) = "listed" => device' = ""
      BY <1>3, <1>4, <1>10
    <2>3. TypeInv'
      BY <1>1, <1>2, <1>5, <1>6, <1>8, <2>1 DEF TypeInv, FormTypeOK, OfDevice, OfInterface
    <2>4. ListIsOfTheChoice'
      BY <1>1, <2>2 DEF FormInv, ListIsOfTheChoice
    <2>5. FormListingInv'
      BY <1>1, <1>9, <2>1 DEF FormInv, FormListingInv
    <2>6. QED
      BY <1>7, <2>1, <2>3, <2>4, <2>5 DEF FormInv
  <1>11. CASE ~(answer.error # "" \/ device' = "")
    <2> DEFINE S == listings \ {l}
    <2>1. /\ listings' = Start("interfaces", source, device', S)
          /\ UNCHANGED cannot /\ device' # "" /\ S \subseteq Listing
          /\ IF target' = target THEN UNCHANGED start ELSE Changed
      BY <1>1, <1>8, <1>11
    <2>2. /\ listings' \subseteq Listing
          /\ \A m : m \in listings' <=> m \in S \/ m = New("interfaces", source, device')
      <3> HIDE DEF S
      <3>1. \A of \in OfDevice : \A next : next = Start("interfaces", source, of, S) =>
              next \subseteq Listing /\ \A m : m \in next <=> m \in S \/ m = New("interfaces", source, of)
        BY <1>2, <2>1, FormStarted
      <3>2. listings' = Start("interfaces", source, device', S)
        BY <2>1
      <3>3. QED
        BY <1>5, <3>1, <3>2
    <2>3. New("interfaces", source, device').kind = source /\ New("interfaces", source, device').device = device'
          /\ New("interfaces", source, device').current
      BY DEF New
    <2>4. FormListingInv' /\ \E m \in listings' : m.current
      <3>1. \A m \in listings' : m.current => m.kind = source
        BY <2>2, <2>3 DEF FormInv, FormListingInv
      <3>2. DevicesOf(source) = "listed" =>
              \A m \in listings' : m.current => m = New("interfaces", source, device')
        BY <1>9, <2>2
      <3>3. source' = source
        BY <1>1
      <3>4. FormListingInv'
        BY <2>3, <3>1, <3>2, <3>3 DEF FormListingInv
      <3>5. QED
        BY <2>2, <2>3, <3>4
    <2>5. ListIsOfTheChoice'
      BY <1>1, <2>4 DEF FormInv, ListIsOfTheChoice
    <2>6. StartIsTrue' /\ start' \in BOOLEAN
      <3>1. CASE target' # target
        BY <2>1, <3>1, ChangedTrue
      <3>2. CASE target' = target
        <4>1. UNCHANGED <<start, source, interface, common, options, cannot, available, known, pending, target>>
          BY <1>1, <1>6, <2>1, <3>2
        <4>2. source = "extcap" => device' = device
          BY <1>6, <3>2 DEF FormInv, TargetInv
        <4>3. source \notin {"ssh"} => device' \notin {"", "bad"}
          BY <1>3, <1>4, <2>1, TextsAssumption DEF DevicesOf
        <4>4. ASSUME source # "ssh", FormIsFine PROVE FormIsFine'
          <5>1. /\ choice'.source = choice.source /\ choice'.interface = choice.interface
                /\ choice'.common = choice.common /\ choice'.options = choice.options
                /\ choice.source = source
                /\ choice.source = "adb" => choice'.device \notin {"", "bad"}
                /\ choice.source = "extcap" => choice'.device = choice.device
            BY <4>1, <4>2, <4>3, ChoiceFields, ChoiceFieldsThen DEF DevicesOf
          <5>2. Fine(choice', available', known')
            BY <4>1, <4>4, <5>1 DEF FormIsFine, Fine
          <5>3. QED
            BY <4>1, <4>4, <5>2 DEF FormIsFine
        <4>5. StartIsTrue'
          BY <4>1, <4>4, StartStays DEF FormInv
        <4>6. QED
          BY <4>1, <4>5 DEF FormInv, TypeInv, FormTypeOK
      <3>3. QED
        BY <3>1, <3>2
    <2>7. TypeInv'
      BY <1>1, <1>2, <1>5, <1>6, <2>1, <2>2, <2>6 DEF TypeInv, FormTypeOK, OfDevice, OfInterface
    <2>8. QED
      BY <1>7, <2>4, <2>5, <2>6, <2>7 DEF FormInv
  <1>12. QED
    BY <1>10, <1>11

\* The interfaces were listed, of the choice.
LEMMA InterfacesStep ==
    ASSUME FormInv, UNCHANGED edits, NEW l \in listings, l.current, l.what = "interfaces",
           NEW answer \in InterfaceAnswers(l.kind, l.device, l.kind \in available), InterfacesListed(l, answer)
    PROVE  FormInv'
  <1> DEFINE remembered == Wanted(l.kind, wanted.interface)
  <1>1. /\ interface' \in (IF remembered \notin answer.targets /\ remembered # "" THEN {remembered}
                           ELSE IF answer.targets = {} /\ interface # "" THEN {interface}
                           ELSE Fill(answer.targets, remembered, interface))
        /\ cannot' = answer.cannotCapture /\ listings' = listings \ {l} /\ listed' = <<l.kind, l.device>>
        /\ tellTarget /\ Changed
        /\ UNCHANGED <<device, available, source, common, options, wanted, known>>
    BY DEF InterfacesListed
  <1>2. l.kind = source /\ source \in Kinds /\ FormTypeOK /\ TypeInv
    BY DEF FormInv, TypeInv, FormTypeOK, FormListingInv
  <1>3. answer.targets \subseteq Interfaces \cup {"any"} /\ answer.cannotCapture \in {"", "denied"}
    BY InterfacesAnswered
  <1>4. device' \in OfDevice /\ interface' \in OfInterface
    <2>1. interface \in OfInterface /\ remembered \in OfInterface /\ Interfaces \cup {"any"} \cup {""} \subseteq OfInterface
          /\ device \in OfDevice
      BY <1>2 DEF TypeInv, FormTypeOK, Remember, Wanted, OfDevice, OfInterface, Texts
    <2> HIDE DEF remembered
    <2>2. interface' \in {remembered, interface} \/ interface' \in answer.targets \cup {""}
      BY <1>1, FillIs
    <2>3. QED
      BY <1>1, <1>3, <2>1, <2>2
  <1> HIDE DEF remembered
  <1>5. target' \in OfDevice \X OfInterface /\ asks' \subseteq Question /\ pending' \in BOOLEAN
    BY <1>1, <1>2, <1>4, Told
  <1>6. AskInv' /\ TargetInv' /\ StartIsTrue' /\ start' \in BOOLEAN
    BY <1>1, <1>4, AskTold, ChangedTrue
  <1>7. FormListingInv'
    BY <1>1 DEF FormInv, FormListingInv
  <1>8. ListIsOfTheChoice'
    <2>1. DevicesOf(source) = "listed" => l.device = device
      BY DEF FormInv, FormListingInv
    <2>2. QED
      BY <1>1, <1>2, <2>1 DEF ListIsOfTheChoice
  <1>9. TypeInv'
    BY <1>1, <1>2, <1>3, <1>4, <1>5, <1>6 DEF TypeInv, FormTypeOK, OfDevice, OfInterface
  <1>10. QED
    BY <1>6, <1>7, <1>8, <1>9 DEF FormInv

(* What the extcap answers.                                                *)

\* A question starts, when none is current.
LEMMA AskStep ==
    ASSUME FormInv, UNCHANGED edits, AskExtcap
    PROVE  FormInv'
  <1> DEFINE x == [target |-> target, current |-> TRUE, answer |-> "none"]
  <1>1. /\ source = "extcap" /\ pending /\ \A q \in asks : ~q.current
        /\ IF "" \in {target[1], target[2]} THEN pending' = FALSE /\ UNCHANGED asks
           ELSE asks' = asks \cup {x} /\ UNCHANGED pending
        /\ UNCHANGED <<available, source, device, interface, common, options, wanted, cannot, listings, listed,
                       target, known>>
        /\ Changed
    BY DEF AskExtcap, chosenVars
  <1>2. StartIsTrue' /\ start' \in BOOLEAN
    BY <1>1, ChangedTrue
  <1>3. x \in Question /\ x.target = target /\ x.current
    BY DEF Question, FormInv, TypeInv, OfDevice, OfInterface
  <1> HIDE DEF x
  <1>4. asks' \subseteq Question /\ pending' \in BOOLEAN
    BY <1>1, <1>3 DEF FormInv, TypeInv, FormTypeOK
  <1>5. AskInv'
    BY <1>1, <1>3 DEF AskInv
  <1>6. TypeInv'
    BY <1>1, <1>2, <1>4 DEF FormInv, TypeInv, FormTypeOK
  <1>7. TargetInv' /\ FormListingInv' /\ ListIsOfTheChoice'
    BY <1>1 DEF FormInv, TargetInv, FormListingInv, ListIsOfTheChoice
  <1>8. QED
    BY <1>2, <1>5, <1>6, <1>7 DEF FormInv

\* Arguments become known only while Start is not offered, since the question is
\* current then; that fewer are known makes no problem.
LEMMA ConfigStep ==
    ASSUME FormInv, UNCHANGED edits, NEW q \in asks, config(q)
    PROVE  FormInv'
  <1>1. PICK answer \in {"args", "error"} :
          /\ q.current \/ answer = "error"
          /\ asks' = (asks \ {q}) \cup {[q EXCEPT !.answer = answer]}
          /\ known' = (IF answer = "args" THEN known \cup {q.target} ELSE known \ {q.target})
    BY DEF config
  <1>2. UNCHANGED <<available, source, device, interface, common, options, wanted, cannot, listings, listed,
                    target, pending, start>>
    BY DEF config, chosenVars
  <1> DEFINE r == [q EXCEPT !.answer = answer]
  <1>3. r \in Question /\ r.target = q.target /\ r.current = q.current
    BY DEF Question, FormInv, TypeInv, FormTypeOK
  <1> HIDE DEF r
  <1>4. asks' = (asks \ {q}) \cup {r}
    BY <1>1 DEF r
  <1>5. TypeInv'
    BY <1>2, <1>3, <1>4 DEF FormInv, TypeInv, FormTypeOK
  <1>6. AskInv'
    BY <1>2, <1>3, <1>4 DEF FormInv, AskInv
  <1>7. TargetInv' /\ FormListingInv' /\ ListIsOfTheChoice'
    BY <1>2 DEF FormInv, TargetInv, FormListingInv, ListIsOfTheChoice
  <1>8. StartIsTrue'
    <2>1. choice' = choice
      BY <1>2 DEF choice
    <2>2. CASE answer = "args"
      <3>1. source = "extcap" /\ pending /\ "" \notin {target[1], target[2]}
        BY <1>1, <2>2 DEF FormInv, AskInv
      <3>2. ~FormIsFine
        BY <3>1 DEF FormIsFine
      <3>3. QED
        BY <1>2, <3>2, StartStays DEF FormInv
    <2>3. CASE answer = "error"
      <3>1. known' \subseteq known
        BY <1>1, <2>3
      <3>2. FormIsFine => FormIsFine'
        BY <1>2, <2>1, <3>1 DEF FormIsFine, Fine
      <3>3. QED
        BY <1>2, <3>2, StartStays DEF FormInv
    <2>4. QED
      BY <2>2, <2>3
  <1>9. QED
    BY <1>5, <1>6, <1>7, <1>8 DEF FormInv

\* An answer is shown, or dropped.
LEMMA ShowStep ==
    ASSUME FormInv, UNCHANGED edits, NEW q \in asks, Show(q)
    PROVE  FormInv'
  <1>1. /\ asks' = asks \ {q}
        /\ UNCHANGED <<available, source, device, interface, common, options, wanted, cannot, listings, listed,
                       target, known>>
        /\ IF q.current THEN pending' = FALSE /\ Changed ELSE UNCHANGED <<pending, start>>
    BY DEF Show, chosenVars
  <1>2. StartIsTrue' /\ start' \in BOOLEAN
    <2>1. CASE q.current
      BY <1>1, <2>1, ChangedTrue
    <2>2. CASE ~q.current
      <3>1. choice' = choice
        BY <1>1 DEF choice
      <3>2. FormIsFine => FormIsFine'
        BY <1>1, <2>2, <3>1 DEF FormIsFine
      <3>3. QED
        BY <1>1, <2>2, <3>2, StartStays DEF FormInv, TypeInv, FormTypeOK
    <2>3. QED
      BY <2>1, <2>2
  <1>3. pending' \in BOOLEAN /\ asks' \subseteq Question
    BY <1>1 DEF FormInv, TypeInv, FormTypeOK
  <1>4. TypeInv'
    BY <1>1, <1>2, <1>3 DEF FormInv, TypeInv, FormTypeOK
  <1>5. AskInv'
    BY <1>1 DEF FormInv, AskInv
  <1>6. TargetInv' /\ FormListingInv' /\ ListIsOfTheChoice'
    BY <1>1 DEF FormInv, TargetInv, FormListingInv, ListIsOfTheChoice
  <1>7. QED
    BY <1>2, <1>4, <1>5, <1>6 DEF FormInv

(* Always.                                                                 *)

\* It holds as the dialog opens,
LEMMA FormStarts == FormInit => FormInv
  <1> SUFFICES ASSUME FormInit PROVE FormInv
    OBVIOUS
  <1> DEFINE o == UNION {OptionsOf(k) : k \in Kinds}
             x == [what |-> "interfaces", kind |-> "local", device |-> "", options |-> "", current |-> TRUE]
  <1>1. "" \in o /\ "sudo" \in o /\ "local" \in Kinds /\ "" \in OfDevice /\ "" \in OfInterface
    BY DEF OptionsOf, Kinds, OfDevice, OfInterface, Texts
  <1>2. options \in [Kinds -> o]
    <2> HIDE DEF o
    <2>1. QED
      BY <1>1 DEF FormInit
  <1>3. x \in Listing /\ x.kind = "local" /\ listings = {x}
    BY <1>1 DEF Listing, FormInit, OfDevice
  <1>4. NoChoice \in Remember
    BY <1>1 DEF NoChoice, Remember
  <1> HIDE DEF x
  <1>5. TypeInv
    <2>1. 0 \in 0..MaxEdits
      BY FormAssumption
    <2>2. available \subseteq Kinds
      BY DEF FormInit
    <2>3. FormTypeOK
      BY <1>1, <1>2, <1>3, <2>1, <2>2 DEF FormInit, FormTypeOK, OfDevice, OfInterface
    <2>4. QED
      BY <1>1, <1>4, <2>3 DEF FormInit, TypeInv
  <1>6. TargetInv /\ AskInv /\ ListIsOfTheChoice /\ StartIsTrue
    BY DEF FormInit, TargetInv, AskInv, ListIsOfTheChoice, StartIsTrue
  <1>7. FormListingInv
    BY <1>3 DEF FormInit, FormListingInv, DevicesOf
  <1>8. QED
    BY <1>5, <1>6, <1>7 DEF FormInv

\* and after every step.
LEMMA FormStep == FormInv /\ [FormNext]_formVars => FormInv'
  <1> SUFFICES ASSUME FormInv, [FormNext]_formVars PROVE FormInv'
    OBVIOUS
  <1>1. edits \in 0..MaxEdits
    BY DEF FormInv, TypeInv, FormTypeOK
  <1>2. CASE edits < MaxEdits /\ Edit /\ edits' = edits + 1
    <2>1. edits' \in 0..MaxEdits
      BY <1>1, <1>2, FormAssumption
    <2>2. QED
      BY <1>2, <2>1, PickSourceStep, SetChoiceStep, RefreshStep, PickDeviceStep, TypeDeviceStep,
         PickInterfaceStep, EditCommonStep, EditOptionsStep DEF Edit
  <1>3. CASE Answer /\ UNCHANGED edits
    <2>1. ASSUME NEW l \in listings, Answered(l) PROVE FormInv'
      <3>1. l.current
        BY <2>1 DEF Answered, IsShown
      <3>2. CASE l.what = "devices" /\ \E answer \in DeviceAnswers(l.kind, l.kind \in available) : DevicesListed(l, answer)
        BY <1>3, <3>1, <3>2, DevicesStep
      <3>3. CASE l.what = "interfaces" /\ \E answer \in InterfaceAnswers(l.kind, l.device, l.kind \in available) :
                    InterfacesListed(l, answer)
        BY <1>3, <3>1, <3>3, InterfacesStep
      <3>4. QED
        BY <2>1, <3>2, <3>3 DEF Answered
    <2>2. QED
      BY <1>3, <2>1, InstallStep, DropStep, AskStep, ConfigStep, ShowStep DEF Answer
  <1>4. CASE UNCHANGED formVars
    <2>1. UNCHANGED <<available, source, device, interface, common, options, wanted, cannot, listings, listed,
                      target, pending, asks, known, start, edits>>
      BY <1>4 DEF formVars, chosenVars, extcapVars
    <2>2. TypeInv'
      BY <2>1 DEF FormInv, TypeInv, FormTypeOK
    <2>3. TargetInv' /\ AskInv' /\ FormListingInv' /\ ListIsOfTheChoice'
      BY <2>1 DEF FormInv, TargetInv, AskInv, FormListingInv, ListIsOfTheChoice
    <2>4. choice' = choice
      BY <2>1 DEF choice
    <2>5. FormIsFine => FormIsFine'
      BY <2>1, <2>4 DEF FormIsFine
    <2>6. StartIsTrue'
      BY <2>1, <2>5, StartStays DEF FormInv
    <2>7. QED
      BY <2>2, <2>3, <2>6 DEF FormInv
  <1>5. QED
    BY <1>2, <1>3, <1>4 DEF FormNext

\* For any devices and interfaces, and however many listings and questions run at once:
\* Start is not offered while something is wrong with the choice, and the interfaces
\* offered are those of the source and, with no listing to come, of the device
\* (LiveCaptureForm::problem, listInterfaces, ExtcapOptionsWidget).
THEOREM FormOffersWhatItCan == FormSpec => []FormIsTrue
  <1>1. FormInv => FormIsTrue
    BY DEF FormInv, TypeInv, FormIsTrue
  <1>2. QED
    BY <1>1, FormStarts, FormStep, PTL DEF FormSpec

=============================================================================
