--------------------------- MODULE MCLiveSources ---------------------------
(***************************************************************************)
(* The live sources for TLC: the programs the plugin runs, the captures on *)
(* a device and on a server, the batches of stderr lines, the temporary    *)
(* directories and the form, each explored by itself.                      *)
(***************************************************************************)
EXTENDS LiveSources, LiveCaptureForm

VARIABLE part  \* the part explored

allVars == <<part, vars, adbVars, sshVars, stderrVars, tempVars, formVars>>

\* A part that is not explored is in one of its initial states.
PartsInit ==
    /\ part \in {"process", "adb", "ssh", "stderr", "temp", "form"}
    /\ Init /\ (part # "process" => \A p \in Programs : pc[p] = "over")
    /\ AdbInit /\ (part # "adb" => dir = "absent")
    /\ SshInit /\ StderrInit /\ TempInit
    /\ FormInit /\ (part # "form" => available = Kinds)

PartsNext ==
    \/ part = "process" /\ Next
       /\ UNCHANGED <<part, adbVars, sshVars, stderrVars, tempVars, formVars>>
    \/ part = "adb" /\ AdbNext
       /\ UNCHANGED <<part, vars, sshVars, stderrVars, tempVars, formVars>>
    \/ part = "ssh" /\ SshNext
       /\ UNCHANGED <<part, vars, adbVars, stderrVars, tempVars, formVars>>
    \/ part = "stderr" /\ StderrNext
       /\ UNCHANGED <<part, vars, adbVars, sshVars, tempVars, formVars>>
    \/ part = "temp" /\ TempNext
       /\ UNCHANGED <<part, vars, adbVars, sshVars, stderrVars, formVars>>
    \/ part = "form" /\ FormNext
       /\ UNCHANGED <<part, vars, adbVars, sshVars, stderrVars, tempVars>>

\* The fairness of the parts, while they are explored.
PartsFairness ==
    /\ \A p \in Programs : WF_allVars(part = "process" /\ Owner(p)
                                      /\ UNCHANGED <<part, adbVars, sshVars, stderrVars, tempVars, formVars>>)
    /\ WF_allVars(part = "process" /\ ui # "open" /\ Ui
                  /\ UNCHANGED <<part, adbVars, sshVars, stderrVars, tempVars, formVars>>)
    /\ WF_allVars(part = "ssh" /\ Script
                  /\ UNCHANGED <<part, vars, adbVars, stderrVars, tempVars, formVars>>)
    /\ WF_allVars(part = "ssh" /\ Watchdog
                  /\ UNCHANGED <<part, vars, adbVars, stderrVars, tempVars, formVars>>)

PartsSpec == PartsInit /\ [][PartsNext]_allVars /\ PartsFairness
=============================================================================
