------------------------------ MODULE TempDirs ------------------------------
(***************************************************************************)
(* The temporary directories of the plugin's processes (tempdirs.cpp),     *)
(* which are named by the process id: each process removes its own as it   *)
(* shuts down, and those a crashed one left as it starts.  Ids are used    *)
(* again, by the plugin's processes and by others.                         *)
(***************************************************************************)
EXTENDS Integers, FiniteSets

CONSTANTS
    Pids,    \* the process ids
    MaxDirs  \* bound: the directories made

ASSUME DirsAssumption == MaxDirs \in Nat

VARIABLES
    ours,    \* the ids of the processes that run the plugin
    others,  \* the ids of other processes
    dirs,    \* the directories there: their number |-> the id in their name
    kept,    \* the numbers of the directories of a process that runs
    made     \* how many were made

tempVars == <<ours, others, dirs, kept, made>>

TempTypeOK ==
    /\ ours \subseteq Pids /\ others \subseteq Pids
    /\ DOMAIN dirs \subseteq 1..MaxDirs /\ \A n \in DOMAIN dirs : dirs[n] \in Pids
    /\ kept \subseteq 1..MaxDirs /\ made \in 0..MaxDirs

TempInit == ours = {} /\ others = {} /\ dirs = <<>> /\ kept = {} /\ made = 0

\* isProcessRunning()
isProcessRunning(pid) == pid \in ours \cup others

\* removeTempDirs(): the directories whose id is among those to remove.
removeTempDirs(pids) ==
    dirs' = [n \in {m \in DOMAIN dirs : dirs[m] \notin pids} |-> dirs[n]]

removeStaleTempDirs(self) ==
    removeTempDirs({pid \in Pids : pid # self /\ ~isProcessRunning(pid)})

removeOwnTempDirs(self) == removeTempDirs({self})

\* The plugin is loaded into a process that started.
Load(self) ==
    /\ ~isProcessRunning(self)
    /\ ours' = ours \cup {self}
    /\ removeStaleTempDirs(self)
    /\ UNCHANGED <<others, kept, made>>

\* tempDirTemplate(): a conversion makes its directory.
MakeTempDir(self) ==
    /\ self \in ours
    /\ made < MaxDirs
    /\ made' = made + 1
    /\ dirs' = [n \in DOMAIN dirs \cup {made + 1} |-> IF n = made + 1 THEN self ELSE dirs[n]]
    /\ kept' = kept \cup {made + 1}
    /\ UNCHANGED <<ours, others>>

Unload(self) ==
    /\ self \in ours
    /\ ours' = ours \ {self}
    /\ kept' = {n \in kept : dirs[n] # self}
    /\ removeOwnTempDirs(self)
    /\ UNCHANGED <<others, made>>

Crash(self) ==
    /\ self \in ours
    /\ ours' = ours \ {self}
    /\ kept' = {n \in kept : dirs[n] # self}
    /\ UNCHANGED <<others, dirs, made>>

OtherProcess(pid) ==
    /\ pid \notin ours
    /\ others' = IF pid \in others THEN others \ {pid} ELSE others \cup {pid}
    /\ UNCHANGED <<ours, dirs, kept, made>>

TempNext ==
    \E pid \in Pids :
        Load(pid) \/ MakeTempDir(pid) \/ Unload(pid) \/ Crash(pid) \/ OtherProcess(pid)

TempSpec == TempInit /\ [][TempNext]_tempVars

\* No process loses a directory it made and still uses, whoever starts, ends or
\* crashes beside it and whose id it has.
TempDirsAreKept == kept \subseteq DOMAIN dirs

\* A start clears away what a crash left, unless its id is in use again.
StaleAreRemoved ==
    [][\A pid \in ours' \ ours : \A n \in DOMAIN dirs' :
          dirs'[n] \in ours' \cup others]_tempVars
=============================================================================
