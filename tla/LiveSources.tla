----------------------------- MODULE LiveSources -----------------------------
(***************************************************************************)
(* The live sources side by side: the programs the plugin runs, a capture  *)
(* on a device and one on a server, the batches of stderr lines and the    *)
(* temporary directories.  They share no state; what is promised of them   *)
(* is promised of them together.                                           *)
(***************************************************************************)
EXTENDS ProcessSource, AdbCapture, SshCapture, StderrBatch, TempDirs

SourcesSpec == Spec /\ AdbSpec /\ SshSpec /\ StderrSpec /\ TempSpec

\* What is told of a program is what it did: how it ended, what it listed, and every line
\* of its error output, or how many were dropped.
ToldIsTrue == TypeOK /\ StderrTypeOK /\ EndIsTrue /\ ListingIsTrue /\ LinesAreTold

\* Nothing of a capture stays behind, and nothing of another's is touched: no program
\* here or on a device, no file there; a group that took a program's id is not
\* signalled, a directory that another process uses is kept.
NothingStaysBehind ==
    /\ AdbTypeOK /\ SshTypeOK /\ TempTypeOK
    /\ OwnerSignalsItsOwn /\ EndedWithThePlugin
    /\ DeviceIsClean /\ TempDirsAreKept

\* What was left does end: the shutdown's waits, the tcpdump on a server whose
\* connection dropped, the directories a crash left.
LeftoversEnd == ShutdownEnds /\ RemoteEnds /\ StaleAreRemoved
==============================================================================
