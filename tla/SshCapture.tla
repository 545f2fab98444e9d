----------------------------- MODULE SshCapture -----------------------------
(***************************************************************************)
(* A capture on a server over SSH (ssh_source.cpp): the script on the      *)
(* server runs tcpdump in the background and a watchdog that ends it once  *)
(* the script's stdin closes, which is as the local ssh ends or the        *)
(* connection drops.                                                       *)
(***************************************************************************)

VARIABLES
    ssh,       \* the local ssh runs, its stdin held open
    stdin,     \* the remote stdin is open
    remote,    \* where the script is: preparing, starting, ..., over
    dump,      \* the remote tcpdump, or the sudo in front of it
    watchdog,  \* none, reading, killing, over
    status     \* what ssh's exit says of the script

sshVars == <<ssh, stdin, remote, dump, watchdog, status>>

SshTypeOK ==
    /\ ssh \in BOOLEAN /\ stdin \in BOOLEAN
    /\ remote \in {"none", "preparing", "starting", "watching", "waiting", "unwatching", "over"}
    /\ dump \in {"none", "running", "ended"}
    /\ watchdog \in {"none", "reading", "killing", "over"}
    /\ status \in {"none", "refused", "tcpdump"}

SshInit ==
    /\ ssh = FALSE /\ stdin = FALSE /\ remote = "none"
    /\ dump = "none" /\ watchdog = "none" /\ status = "none"

\* SshSourceKind::command(): ssh runs the script, its stdin a pipe.
RunSsh ==
    /\ remote = "none"
    /\ ssh' = TRUE /\ stdin' = TRUE /\ remote' = "preparing"
    /\ UNCHANGED <<dump, watchdog, status>>

\* The script without $SSH_CLIENT cannot leave its own connection out.
Prepare ==
    /\ remote = "preparing"
    /\ \/ remote' = "starting" /\ UNCHANGED status
       \/ remote' = "over" /\ status' = "refused"
    /\ UNCHANGED <<ssh, stdin, dump, watchdog>>

StartInBackground ==
    /\ remote = "starting"
    /\ dump' = "running"
    /\ remote' = "watching"
    /\ UNCHANGED <<ssh, stdin, watchdog, status>>

StartWatchdog ==
    /\ remote = "watching"
    /\ watchdog' = "reading"
    /\ remote' = "waiting"
    /\ UNCHANGED <<ssh, stdin, dump, status>>

\* Variant: the watchdog ends once it has read stdin to its end.
ReadOnly ==
    /\ watchdog = "reading" /\ ~stdin
    /\ watchdog' = "over"
    /\ UNCHANGED <<ssh, stdin, remote, dump, status>>

ReadToEnd ==
    /\ watchdog = "reading" /\ ~stdin
    /\ watchdog' = "killing"
    /\ UNCHANGED <<ssh, stdin, remote, dump, status>>

WatchdogKills ==
    /\ watchdog = "killing"
    /\ dump' = "ended"
    /\ watchdog' = "over"
    /\ UNCHANGED <<ssh, stdin, remote, status>>

DumpEnds ==
    /\ dump = "running"
    /\ dump' = "ended"
    /\ UNCHANGED <<ssh, stdin, remote, watchdog, status>>

\* wait $pid; the watchdog is killed, and the script exits as tcpdump did.
WaitForDump ==
    /\ remote = "waiting" /\ dump = "ended"
    /\ remote' = "unwatching" /\ status' = "tcpdump"
    /\ UNCHANGED <<ssh, stdin, dump, watchdog>>

KillWatchdog ==
    /\ remote = "unwatching"
    /\ watchdog' = "over"
    /\ remote' = "over"
    /\ UNCHANGED <<ssh, stdin, dump, status>>

\* ssh ends with the script, with Stop, which closes its stdin, or as the
\* connection drops; sshd sends no signal then.
SshEnds ==
    /\ ssh
    /\ ssh' = FALSE /\ stdin' = FALSE
    /\ UNCHANGED <<remote, dump, watchdog, status>>

SshOver == remote = "over" /\ ~ssh /\ UNCHANGED sshVars

Script == Prepare \/ StartInBackground \/ StartWatchdog \/ WaitForDump \/ KillWatchdog
Watchdog == ReadToEnd \/ WatchdogKills

SshNext == RunSsh \/ Script \/ Watchdog \/ DumpEnds \/ SshEnds \/ SshOver

\* The server runs the script and its watchdog; tcpdump may run for ever.
SshFairness == WF_sshVars(Script) /\ WF_sshVars(Watchdog)
SshSpec == SshInit /\ [][SshNext]_sshVars /\ SshFairness

\* However early Stop comes or the connection drops, the tcpdump on the server
\* ends, and leaves no watchdog behind.
RemoteEnds == ~ssh /\ remote # "none" ~> dump # "running" /\ watchdog \in {"none", "over"}
=============================================================================
