---------------------------- MODULE AdbCapture ----------------------------
(***************************************************************************)
(* A capture on an Android device (adb_source.cpp): the script that runs   *)
(* tcpdump on the device and leaves its pid there, read through a local    *)
(* adb, and the scripts that end it and remove its files as the capture's  *)
(* source goes.  The scripts are shell scripts of the plugin that run side *)
(* by side on the device; one command of a script is one step.             *)
(***************************************************************************)

VARIABLES
    capture,    \* the DeviceCaptureSource: new, reading, one of Stop's steps, ..., over
    outcome,   \* what the stream came to
    captured,  \* captured_
    adb,       \* whether the local adb exec-out runs
    script,    \* where the capture's script is on the device
    tcpdump,   \* none, running, ended
    dir,       \* the capture's directory: absent, own, other
    mark,      \* the stop mark is there
    pidFile,   \* kAdbPidFile
    errFile,   \* kAdbErrFile
    cut,       \* history: adb was cut off while the script ran
    missed     \* history: Stop and the script passed each other, see DeviceIsClean

deviceFiles == <<dir, mark, pidFile, errFile>>
adbVars == <<capture, outcome, captured, adb, script, tcpdump, deviceFiles, cut, missed>>

AdbTypeOK ==
    /\ capture \in {"new", "reading", "ended", "marking", "testing", "refusing", "readingPid",
                   "killing", "removingPid", "unmarking", "removingErr", "removingDir",
                   "cleaning", "over"}
    /\ outcome \in {"none", "noAccess", "stopped", "ended", "failed"}
    /\ captured \in BOOLEAN /\ adb \in BOOLEAN
    /\ script \in {"none", "making", "entering", "starting", "leavingPid", "looking", "waiting",
                   "removingPid", "removingErr", "removingDir", "unmarking", "over"}
    /\ tcpdump \in {"none", "running", "ended"}
    /\ dir \in {"absent", "own", "other"}
    /\ mark \in BOOLEAN /\ pidFile \in BOOLEAN /\ errFile \in BOOLEAN
    /\ cut \in BOOLEAN /\ missed \in BOOLEAN

AdbInit ==
    /\ capture = "new"
    /\ outcome = "none"
    /\ captured = FALSE
    /\ adb = FALSE
    /\ script = "none"
    /\ tcpdump = "none"
    /\ dir \in {"absent", "other"}
    /\ mark = FALSE /\ pidFile = FALSE /\ errFile = FALSE
    /\ cut = FALSE /\ missed = FALSE

\* rmdir of the capture's directory, which fails while files are in it.
RemoveDir == dir' = IF dir = "own" /\ ~pidFile /\ ~errFile THEN "absent" ELSE dir

KillIfRuns(running) == tcpdump' = IF running = "running" THEN "ended" ELSE running

-----------------------------------------------------------------------------
(* The script of the capture, adbCaptureScript().                          *)

ScriptKeeps == UNCHANGED <<capture, outcome, captured, adb, cut>>

\* mkdir makes nothing where anything is.
MakeDir ==
    /\ script = "making"
    /\ IF dir = "absent"
       THEN /\ dir' = "own" /\ script' = "entering"
            /\ missed' = (missed \/ capture = "refusing")
            /\ UNCHANGED mark
       ELSE mark' = FALSE /\ script' = "over" /\ UNCHANGED <<dir, missed>>
    /\ ScriptKeeps /\ UNCHANGED <<tcpdump, pidFile, errFile>>

\* enterCaptureDir(): the directory may have been removed meanwhile.
EnterDir ==
    /\ script = "entering"
    /\ IF dir = "own" THEN script' = "starting" /\ UNCHANGED mark
                      ELSE script' = "over" /\ mark' = FALSE
    /\ ScriptKeeps /\ UNCHANGED <<tcpdump, dir, pidFile, errFile, missed>>

\* In a directory that was removed nothing is made, and nothing started.
StartTcpdump ==
    /\ script = "starting"
    /\ tcpdump' = IF dir = "own" THEN "running" ELSE "ended"
    /\ errFile' = (dir = "own")
    /\ script' = "leavingPid"
    /\ ScriptKeeps /\ UNCHANGED <<dir, mark, pidFile, missed>>

LeavePid ==
    /\ script = "leavingPid"
    /\ pidFile' = (dir = "own")
    /\ script' = "looking"
    /\ ScriptKeeps /\ UNCHANGED <<tcpdump, dir, mark, errFile, missed>>

LookForMark ==
    /\ script = "looking"
    /\ IF mark THEN KillIfRuns(tcpdump) ELSE UNCHANGED tcpdump
    /\ script' = "waiting"
    /\ ScriptKeeps /\ UNCHANGED <<deviceFiles, missed>>

WaitForTcpdump ==
    /\ script = "waiting"
    /\ tcpdump = "ended"
    /\ script' = "removingPid"
    /\ ScriptKeeps /\ UNCHANGED <<tcpdump, deviceFiles, missed>>

RemovePid ==
    /\ script = "removingPid"
    /\ pidFile' = FALSE
    /\ script' = "removingErr"
    /\ ScriptKeeps /\ UNCHANGED <<tcpdump, dir, mark, errFile, missed>>

RemoveErr ==
    /\ script = "removingErr"
    /\ errFile' = (errFile /\ ~mark)
    /\ script' = "removingDir"
    /\ ScriptKeeps /\ UNCHANGED <<tcpdump, dir, mark, pidFile, missed>>

LeaveDir ==
    /\ script = "removingDir"
    /\ RemoveDir
    /\ script' = "unmarking"
    /\ ScriptKeeps /\ UNCHANGED <<tcpdump, mark, pidFile, errFile, missed>>

RemoveMark ==
    /\ script = "unmarking"
    /\ mark' = FALSE
    /\ script' = "over"
    /\ ScriptKeeps /\ UNCHANGED <<tcpdump, dir, pidFile, errFile, missed>>

\* tcpdump ends by itself, and once it writes when adb has ended.
TcpdumpEnds ==
    /\ tcpdump = "running"
    /\ tcpdump' = "ended"
    /\ UNCHANGED <<capture, outcome, captured, adb, script, deviceFiles, cut, missed>>

-----------------------------------------------------------------------------
(* The source.                                                             *)

SourceKeeps == UNCHANGED <<script, cut, missed>>

\* makeSource(): the device is probed first; without root or tcpdump there is
\* no capture.
NoAccess ==
    /\ capture = "new"
    /\ capture' = "over" /\ outcome' = "noAccess"
    /\ SourceKeeps /\ UNCHANGED <<captured, adb, tcpdump, deviceFiles>>

makeSource ==
    /\ capture = "new"
    /\ capture' = "reading"
    /\ adb' = TRUE /\ script' = "making"
    /\ UNCHANGED <<outcome, captured, tcpdump, deviceFiles, cut, missed>>

\* adb ends with the script; or it is cut off, and the script with it.
AdbEnds ==
    /\ adb
    /\ adb' = FALSE
    /\ cut' = (script # "over")
    /\ missed' = (missed \/ (script # "over" /\ capture \notin {"reading", "ended"}))
    /\ script' = "over"
    /\ UNCHANGED <<capture, outcome, captured, tcpdump, deviceFiles>>

\* readFor(): a part of the capture, which tcpdump begins with a header.
Captured ==
    /\ capture = "reading"
    /\ adb
    /\ ~captured
    /\ tcpdump = "running"
    /\ captured' = TRUE
    /\ SourceKeeps /\ UNCHANGED <<capture, outcome, adb, tcpdump, deviceFiles>>

\* readFor(): the stream has ended with adb; without a capture, the device is
\* asked what tcpdump said.
DeviceStreamEnds ==
    /\ capture = "reading"
    /\ ~adb
    /\ capture' = "ended"
    /\ outcome' = IF captured /\ ~cut THEN "ended" ELSE "failed"
    /\ SourceKeeps /\ UNCHANGED <<captured, adb, tcpdump, deviceFiles>>

\* The destructor of a source whose stream was stopped, adb running; the scripts
\* are Stop's, adbStopScript().  Reading the stream may have ended just then.
StopCapture ==
    /\ capture = "reading"
    /\ capture' = IF adb THEN "marking" ELSE "cleaning"
    /\ outcome' = "stopped"
    /\ SourceKeeps /\ UNCHANGED <<captured, adb, tcpdump, deviceFiles>>

\* Variant: the pid is looked for before the mark is left.
MarkLate ==
    /\ capture = "marking"
    /\ capture' = IF dir = "own" /\ ~pidFile THEN "removingErr" ELSE "testing"
    /\ mark' = ~(dir = "own" /\ ~pidFile)
    /\ SourceKeeps /\ UNCHANGED <<outcome, captured, adb, tcpdump, dir, pidFile, errFile>>

Mark ==
    /\ capture = "marking"
    /\ mark' = TRUE
    /\ missed' = (missed \/ script = "over")
    /\ capture' = "testing"
    /\ UNCHANGED <<script, cut, outcome, captured, adb, tcpdump, dir, pidFile, errFile>>

TestDir ==
    /\ capture = "testing"
    /\ capture' = IF dir = "own" THEN "readingPid" ELSE "refusing"
    /\ SourceKeeps /\ UNCHANGED <<outcome, captured, adb, tcpdump, deviceFiles>>

\* A directory there, but refused: the script refuses it too, and does not look
\* for the mark.
Refuse ==
    /\ capture = "refusing"
    /\ mark' = (mark /\ dir = "absent")
    /\ capture' = "over"
    /\ adb' = FALSE
    /\ SourceKeeps /\ UNCHANGED <<outcome, captured, tcpdump, dir, pidFile, errFile>>

ReadPid ==
    /\ capture = "readingPid"
    /\ capture' = IF pidFile THEN "killing" ELSE "removingErr"
    /\ SourceKeeps /\ UNCHANGED <<outcome, captured, adb, tcpdump, deviceFiles>>

KillTcpdump ==
    /\ capture = "killing"
    /\ KillIfRuns(tcpdump)
    /\ capture' = "removingPid"
    /\ SourceKeeps /\ UNCHANGED <<outcome, captured, adb, deviceFiles>>

StopRemovesPid ==
    /\ capture = "removingPid"
    /\ pidFile' = FALSE
    /\ capture' = "unmarking"
    /\ SourceKeeps /\ UNCHANGED <<outcome, captured, adb, tcpdump, dir, mark, errFile>>

Unmark ==
    /\ capture = "unmarking"
    /\ mark' = FALSE
    /\ capture' = "removingErr"
    /\ SourceKeeps /\ UNCHANGED <<outcome, captured, adb, tcpdump, dir, pidFile, errFile>>

StopRemovesErr ==
    /\ capture = "removingErr"
    /\ errFile' = FALSE
    /\ capture' = "removingDir"
    /\ SourceKeeps /\ UNCHANGED <<outcome, captured, adb, tcpdump, dir, mark, pidFile>>

\* The local adb is ended last, by the ProcessSource.
StopRemovesDir ==
    /\ capture = "removingDir"
    /\ RemoveDir
    /\ capture' = "over"
    /\ adb' = FALSE
    /\ SourceKeeps /\ UNCHANGED <<outcome, captured, tcpdump, mark, pidFile, errFile>>

\* The destructor of a source whose adb has ended, and the script with it:
\* adbCleanupScript().
Destroy ==
    /\ capture = "ended"
    /\ capture' = "cleaning"
    /\ SourceKeeps /\ UNCHANGED <<outcome, captured, adb, tcpdump, deviceFiles>>

CleanDevice ==
    /\ capture = "cleaning"
    /\ IF dir = "own"
       THEN /\ IF pidFile THEN KillIfRuns(tcpdump) ELSE UNCHANGED tcpdump
            /\ pidFile' = FALSE /\ errFile' = FALSE /\ dir' = "absent"
       ELSE UNCHANGED <<tcpdump, pidFile, errFile, dir>>
    /\ mark' = FALSE
    /\ capture' = "over"
    /\ SourceKeeps /\ UNCHANGED <<outcome, captured, adb>>

AdbOver == capture = "over" /\ script \in {"none", "over"} /\ UNCHANGED adbVars

AdbNext ==
    \/ MakeDir \/ EnterDir \/ StartTcpdump \/ LeavePid \/ LookForMark \/ WaitForTcpdump
    \/ RemovePid \/ RemoveErr \/ LeaveDir \/ RemoveMark \/ TcpdumpEnds
    \/ NoAccess \/ makeSource \/ AdbEnds \/ Captured \/ DeviceStreamEnds \/ StopCapture
    \/ Mark \/ TestDir \/ Refuse \/ ReadPid \/ KillTcpdump \/ StopRemovesPid \/ Unmark
    \/ StopRemovesErr \/ StopRemovesDir \/ Destroy \/ CleanDevice
    \/ AdbOver

AdbSpec == AdbInit /\ [][AdbNext]_adbVars

-----------------------------------------------------------------------------
(* What the code must keep.                                                *)

\* Once a source is gone and the capture's script is over, nothing of the
\* capture is left on the device: no file, no stop mark, and tcpdump has ended,
\* at whatever command of the script Stop came.  Only a tcpdump whose adb was
\* cut off before it left its pid runs until it writes.  A Stop whose adb is cut
\* off meanwhile, which comes when the script is over already (its mark is left
\* then), or which tests for the directory while it is made, misses the script.
DeviceIsClean ==
    capture = "over" /\ script = "over" /\ ~missed =>
        /\ dir # "own" /\ ~mark /\ ~pidFile /\ ~errFile
        /\ tcpdump # "running" \/ cut

=============================================================================
