--------------------------- MODULE ProcessSource ---------------------------
(***************************************************************************)
(* The programs the plugin runs (process_source.cpp, capture_source.cpp,   *)
(* capture_pipe.cpp, live_source.cpp) and the shutdown that ends them      *)
(* (plugin.cpp), on Unix.                                                  *)
(*                                                                         *)
(* Each program runs in a process group of its own, with a helper it may   *)
(* have started, and is owned by one thread: a capture read from its       *)
(* stdout, a capture read from a pipe it writes to, or a listing.  A       *)
(* program is known by the thread that runs it.  Time is abstract: a wait  *)
(* may run out whenever what it waits for is not there.                    *)
(***************************************************************************)
EXTENDS Integers, FiniteSets

CONSTANTS
    StdoutSources,  \* the programs whose capture is their stdout,
    PipeSources,    \* ... is written to a pipe,
    Listings,       \* ... and those that list devices or interfaces
    MaxPrograms,    \* bound: the programs that are run
    MaxBytes,       \* bound: the bytes a program writes
    ListingLimit    \* kListingOutputLimit

Sources == StdoutSources \cup PipeSources
Programs == Sources \cup Listings

ASSUME ProgramsAssumption ==
    /\ IsFiniteSet(Programs)
    /\ StdoutSources \cap PipeSources = {}
    /\ Sources \cap Listings = {}
ASSUME OutputAssumption == MaxPrograms \in Nat /\ MaxBytes \in Nat /\ ListingLimit \in Nat

VARIABLES
    leader,    \* the program: none, one of Manners while it runs, exited, reaped
    helper,    \* a process it started in its group: none, one of Manners, gone
    exit,      \* how it ended: none, zero, code, ended (by a signal of the plugin)
    idTaken,   \* the group's id is another group's now
    written,   \* the bytes it wrote to its capture or listing
    read,      \* those of them its thread has taken
    slot,      \* QProcess has reaped it, and says finished() next
    reaped,    \* ProcessGroup::reaped
    ended,     \* ProcessGroup::ended
    registry,  \* the groups terminateCaptureProcesses() knows
    pc,        \* where the thread of a program is
    result,    \* what came of the stream, or the listing
    stop,      \* the captures were told to stop
    running,   \* runningListings
    cancelled, \* the listings that were cancelled
    ui,        \* where the shutdown is
    asking,    \* terminateCaptureProcesses(): the groups still to ask ...
    ending,    \* ... to end, and ...
    killed,    \* ... of those, the ones given a SIGKILL
    stray      \* history: <<who, program>>, a signal that went to another group

procVars == <<leader, helper, exit, idTaken, written>>
flagVars == <<reaped, ended, registry>>
threadVars == <<pc, read, slot, result, running>>
uiVars == <<stop, cancelled, ui, asking, ending, killed>>
vars == <<procVars, flagVars, threadVars, uiVars, stray>>

\* What a process does on SIGTERM; one of another user hears no signal at all.
Manners == {"polite", "stubborn", "foreign"}

TypeOK ==
    /\ leader \in [Programs -> Manners \cup {"none", "exited", "reaped"}]
    /\ helper \in [Programs -> Manners \cup {"none", "gone"}]
    /\ exit \in [Programs -> {"none", "zero", "code", "ended"}]
    /\ idTaken \in [Programs -> BOOLEAN]
    /\ written \in [Programs -> 0..MaxBytes]
    /\ read \in [Programs -> 0..MaxBytes]
    /\ slot \in [Programs -> BOOLEAN]
    /\ reaped \in [Programs -> BOOLEAN]
    /\ ended \in [Programs -> BOOLEAN]
    /\ registry \subseteq Sources
    /\ pc \in [Programs -> {"new", "registered", "started", "reading", "looking", "lastRead",
                            "listing", "ending", "waiting", "killed", "taking", "over"}]
    /\ result \in [Programs -> {"none", "unstarted", "stopped", "ended", "failed",
                                "answer", "cancelled", "late", "overflow"}]
    /\ stop \in BOOLEAN
    /\ running \subseteq Listings
    /\ cancelled \subseteq Listings
    /\ ui \in {"open", "stopping", "asking", "ending", "joining", "askingAgain",
               "endingAgain", "over"}
    /\ asking \subseteq Programs /\ ending \subseteq Programs /\ killed \subseteq Programs
    /\ stray \subseteq {"owner", "ui"} \X Programs

Init ==
    /\ leader = [p \in Programs |-> "none"]
    /\ helper = [p \in Programs |-> "none"]
    /\ exit = [p \in Programs |-> "none"]
    /\ idTaken = [p \in Programs |-> FALSE]
    /\ written = [p \in Programs |-> 0]
    /\ read = [p \in Programs |-> 0]
    /\ slot = [p \in Programs |-> FALSE]
    /\ reaped = [p \in Programs |-> FALSE]
    /\ ended = [p \in Programs |-> FALSE]
    /\ registry = {}
    /\ pc \in [Programs -> {"new", "over"}]
    /\ Cardinality({p \in Programs : pc[p] = "new"}) <= MaxPrograms
    /\ result = [p \in Programs |-> "none"]
    /\ stop = FALSE
    /\ running = {}
    /\ cancelled = {}
    /\ ui = "open"
    /\ asking = {} /\ ending = {} /\ killed = {}
    /\ stray = {}

-----------------------------------------------------------------------------
(* The programs, which the operating system runs.                          *)

Runs(process) == process \in Manners
HasGroup(p) == Runs(leader[p]) \/ leader[p] = "exited" \/ Runs(helper[p])

Write(p) ==
    /\ Runs(leader[p])
    /\ written[p] < MaxBytes
    /\ written' = [written EXCEPT ![p] = @ + 1]
    /\ UNCHANGED <<leader, helper, exit, idTaken, flagVars, threadVars, uiVars, stray>>

Exit(p) ==
    /\ Runs(leader[p])
    /\ leader' = [leader EXCEPT ![p] = "exited"]
    /\ exit' \in {[exit EXCEPT ![p] = how] : how \in {"zero", "code"}}
    /\ UNCHANGED <<helper, idTaken, written, flagVars, threadVars, uiVars, stray>>

HelperExit(p) ==
    /\ Runs(helper[p])
    /\ helper' = [helper EXCEPT ![p] = "gone"]
    /\ UNCHANGED <<leader, exit, idTaken, written, flagVars, threadVars, uiVars, stray>>

\* The id of a group that is gone is given to another.
TakeId(p) ==
    /\ leader[p] = "reaped"
    /\ ~HasGroup(p)
    /\ ~idTaken[p]
    /\ idTaken' = [idTaken EXCEPT ![p] = TRUE]
    /\ UNCHANGED <<leader, helper, exit, written, flagVars, threadVars, uiVars, stray>>

\* kill(): the processes of the group a signal ends.
Hears(process, hard) == process = "polite" \/ (hard /\ process = "stubborn")
Kill(p, hard) ==
    /\ leader' = [leader EXCEPT ![p] = IF Hears(@, hard) THEN "exited" ELSE @]
    /\ exit' = [exit EXCEPT ![p] = IF Hears(leader[p], hard) THEN "ended" ELSE @]
    /\ helper' = [helper EXCEPT ![p] = IF Hears(@, hard) THEN "gone" ELSE @]

-----------------------------------------------------------------------------
(* Process groups.                                                         *)

Started(p) == leader[p] # "none"
NotRunning(p) == leader[p] = "reaped" /\ ~slot[p]

\* alive(): another group that has the id answers for it too.
Alive(p) == Started(p) /\ ~reaped[p] /\ (HasGroup(p) \/ idTaken[p])

\* signalGroup()
Signal(who, p, hard) ==
    IF Started(p) /\ ~reaped[p]
    THEN /\ Kill(p, hard)
         /\ stray' = IF idTaken[p] THEN stray \cup {<<who, p>>} ELSE stray
    ELSE UNCHANGED <<leader, helper, exit, stray>>

\* endProcessGroup(), up to its first wait: whoever ends a group first asks it.
Ask(who, p, hard) ==
    /\ IF ended[p] THEN UNCHANGED <<leader, helper, exit, stray>> ELSE Signal(who, p, hard)
    /\ ended' = [ended EXCEPT ![p] = TRUE]

-----------------------------------------------------------------------------
(* The thread of a program.                                                *)

\* QProcess reaps its program while its thread waits for it, and says so next.
Reap(p) ==
    /\ leader[p] = "exited"
    /\ pc[p] \in {"reading", "looking", "listing", "waiting", "killed"}
    /\ leader' = [leader EXCEPT ![p] = "reaped"]
    /\ slot' = [slot EXCEPT ![p] = TRUE]
    /\ UNCHANGED <<helper, exit, idTaken, written, flagVars, pc, read, result, running, uiVars,
                   stray>>

\* The slot of QProcess::finished in startProcess().
Finished(p) ==
    /\ slot[p]
    /\ slot' = [slot EXCEPT ![p] = FALSE]
    /\ reaped' = [reaped EXCEPT ![p] = TRUE]
    /\ registry' = registry \ {p}
    /\ UNCHANGED <<procVars, ended, pc, read, result, running, uiVars, stray>>

\* The thread goes on at a place, with a result.
Goto(p, place) == pc' = [pc EXCEPT ![p] = place]
EndWith(p, place, what) == Goto(p, place) /\ result' = [result EXCEPT ![p] = what]

\* runListing() makes itself known, to be cancelled.
Register(p) ==
    /\ p \in Listings
    /\ pc[p] = "new"
    /\ running' = running \cup {p}
    /\ Goto(p, "registered")
    /\ UNCHANGED <<procVars, flagVars, read, slot, result, uiVars, stray>>

CancelledEarly(p) ==
    /\ pc[p] = "registered"
    /\ p \in cancelled
    /\ EndWith(p, "over", "cancelled")
    /\ running' = running \ {p}
    /\ UNCHANGED <<procVars, flagVars, read, slot, uiVars, stray>>

\* startProcess(), of a ProcessSource or a listing.
ReadyToStart(p) ==
    \/ p \in Sources /\ pc[p] = "new"
    \/ pc[p] = "registered" /\ p \notin cancelled

StartFails(p) ==
    /\ ReadyToStart(p)
    /\ EndWith(p, "over", "unstarted")
    /\ running' = running \ {p}
    /\ UNCHANGED <<procVars, flagVars, read, slot, uiVars, stray>>

startProcess(p) ==
    /\ ReadyToStart(p)
    /\ \E manners \in Manners :
        /\ leader' = [leader EXCEPT ![p] = manners]
        /\ helper' \in {[helper EXCEPT ![p] = h] :
                            h \in {"none"} \cup IF manners = "foreign" THEN {"foreign"}
                                                ELSE Manners \ {"foreign"}}
    /\ Goto(p, "started")
    /\ UNCHANGED <<exit, idTaken, written, flagVars, read, slot, result, running, uiVars, stray>>

\* The ProcessSource enrolls its group: the shutdown knows it from now on.
Enroll(p) ==
    /\ pc[p] = "started"
    /\ registry' = IF p \in Sources THEN registry \cup {p} ELSE registry
    /\ Goto(p, IF p \in Sources THEN "reading" ELSE "listing")
    /\ UNCHANGED <<procVars, reaped, ended, read, slot, result, running, uiVars, stray>>

\* StreamSource::read() sees the stop flag before it waits.
Stopped(p) ==
    /\ pc[p] = "reading"
    /\ ~slot[p]
    /\ stop
    /\ EndWith(p, "ending", "stopped")
    /\ UNCHANGED <<procVars, flagVars, read, slot, running, uiVars, stray>>

\* readFor(): bytes that came are handed on, whatever the program does.
TakeBytes(p) ==
    /\ ~slot[p]
    /\ \/ pc[p] = "reading" /\ ~stop
       \/ pc[p] = "lastRead"
    /\ read[p] < written[p]
    /\ read' = [read EXCEPT ![p] = @ + 1]
    /\ Goto(p, "reading")
    /\ UNCHANGED <<procVars, flagVars, slot, result, running, uiVars, stray>>

\* PipeSource::readFor(): nothing came in time.  Whether the program has ended
\* is looked at next.
NothingCame(p) ==
    /\ p \in PipeSources
    /\ pc[p] = "reading"
    /\ ~slot[p]
    /\ ~stop
    /\ read[p] = written[p]
    /\ Goto(p, "looking")
    /\ UNCHANGED <<procVars, flagVars, read, slot, result, running, uiVars, stray>>

\* Variant: a pipe is not read again once its program has ended.
LookOnce(p) ==
    /\ pc[p] = "looking"
    /\ ~slot[p]
    /\ IF NotRunning(p)
       THEN EndWith(p, "ending", IF ended[p] THEN "stopped"
                                 ELSE IF exit[p] = "zero" THEN "ended" ELSE "failed")
       ELSE Goto(p, "reading") /\ UNCHANGED result
    /\ UNCHANGED <<procVars, flagVars, read, slot, running, uiVars, stray>>

\* What it wrote before it ended is still in the pipe.
Look(p) ==
    /\ pc[p] = "looking"
    /\ ~slot[p]
    /\ Goto(p, IF NotRunning(p) THEN "lastRead" ELSE "reading")
    /\ UNCHANGED <<procVars, flagVars, read, slot, result, running, uiVars, stray>>

\* The stream ends with its program, and breaks off if that failed, unless it
\* was ended on purpose: failure(), endedOnPurpose().
StreamEnds(p) ==
    /\ \/ p \in StdoutSources /\ pc[p] = "reading" /\ ~stop /\ NotRunning(p)
       \/ pc[p] = "lastRead"
    /\ read[p] = written[p]
    /\ EndWith(p, "ending", IF ended[p] THEN "stopped"
                            ELSE IF exit[p] = "zero" THEN "ended" ELSE "failed")
    /\ UNCHANGED <<procVars, flagVars, read, slot, running, uiVars, stray>>

\* The destructor, ProcessSource::terminate(): asks the group to end; a listing
\* given up kills it at once.
Terminate(p) ==
    /\ pc[p] = "ending"
    /\ ~slot[p]
    /\ Ask("owner", p, p \in Listings)
    /\ Goto(p, "waiting")
    /\ UNCHANGED <<idTaken, written, reaped, registry, read, slot, result, running, uiVars>>

\* waitUntilGone(), and the end of endProcessGroup(); a source withdraws.
Leave(p) ==
    /\ Goto(p, IF p \in Listings THEN "taking" ELSE "over")
    /\ registry' = registry \ {p}
    /\ UNCHANGED <<procVars, reaped, ended, read, slot, result, running, uiVars, stray>>
Gone(p) ==
    /\ pc[p] \in {"waiting", "killed"}
    /\ ~slot[p]
    /\ ~Alive(p)
    /\ Leave(p)
GraceIsOver(p) ==
    /\ pc[p] = "waiting"
    /\ ~slot[p]
    /\ Alive(p)
    /\ Signal("owner", p, TRUE)
    /\ Goto(p, "killed")
    /\ UNCHANGED <<idTaken, written, flagVars, read, slot, result, running, uiVars>>
GiveUp(p) ==
    /\ pc[p] = "killed"
    /\ ~slot[p]
    /\ "foreign" \in {leader[p], helper[p]}
    /\ Leave(p)

\* take(): the bytes a listing's program wrote are taken as they come; too many
\* kill its group.
TakeListing(p) ==
    /\ pc[p] = "listing"
    /\ ~slot[p]
    /\ read[p] < written[p]
    /\ IF written[p] > ListingLimit
       THEN /\ read' = [read EXCEPT ![p] = ListingLimit]
            /\ EndWith(p, "taking", "overflow")
            /\ ended' = [ended EXCEPT ![p] = TRUE]
            /\ Signal("owner", p, TRUE)
       ELSE /\ read' = [read EXCEPT ![p] = written[p]]
            /\ UNCHANGED <<pc, result, ended, leader, helper, exit, stray>>
    /\ UNCHANGED <<idTaken, written, reaped, registry, slot, running, uiVars>>

\* runListing()'s wait is over: its program ended, it was cancelled, or the time
\* is up.
ListingEnds(p) ==
    /\ pc[p] = "listing"
    /\ ~slot[p]
    /\ IF NotRunning(p)
       THEN EndWith(p, "taking", "answer")
       ELSE EndWith(p, "ending", "late")
    /\ UNCHANGED <<procVars, flagVars, read, slot, running, uiVars, stray>>

\* The program is killed and reaped, whatever the group did, and what is left of
\* its output taken.
Return(p) ==
    /\ pc[p] = "taking"
    /\ leader' = [leader EXCEPT ![p] = IF @ = "foreign" THEN @ ELSE "reaped"]
    /\ exit' = [exit EXCEPT ![p] = IF Hears(leader[p], TRUE) THEN "ended" ELSE @]
    /\ reaped' = [reaped EXCEPT ![p] = leader'[p] = "reaped"]
    /\ read' = [read EXCEPT ![p] = IF written[p] > ListingLimit THEN ListingLimit ELSE written[p]]
    /\ EndWith(p, "over", IF written[p] > ListingLimit THEN "overflow"
                          ELSE IF result[p] = "late" /\ p \in cancelled THEN "cancelled"
                          ELSE result[p])
    /\ running' = running \ {p}
    /\ UNCHANGED <<helper, idTaken, written, ended, registry, slot, uiVars, stray>>

Owner(p) ==
    \/ Reap(p) \/ Finished(p) \/ Register(p) \/ CancelledEarly(p)
    \/ StartFails(p) \/ startProcess(p) \/ Enroll(p)
    \/ Stopped(p) \/ TakeBytes(p) \/ NothingCame(p) \/ Look(p) \/ StreamEnds(p)
    \/ Terminate(p) \/ Gone(p) \/ GraceIsOver(p) \/ GiveUp(p)
    \/ TakeListing(p) \/ ListingEnds(p) \/ Return(p)

-----------------------------------------------------------------------------
(* The UI thread: a form that closes, and logsquirl_plugin_shutdown().     *)

\* The flag of a listing's ListingCancelScope is set.
CancelScope(p) ==
    /\ ui = "open"
    /\ p \in Listings \ cancelled
    /\ cancelled' = cancelled \cup {p}
    /\ UNCHANGED <<procVars, flagVars, threadVars, stop, ui, asking, ending, killed, stray>>

\* The sessions are deleted, which tells the captures to stop.
Shutdown ==
    /\ ui = "open"
    /\ ui' = "stopping"
    /\ stop' = TRUE
    /\ UNCHANGED <<procVars, flagVars, threadVars, cancelled, asking, ending, killed, stray>>

\* cancelListings(), and terminateCaptureProcesses() copies the registry.
BeginEnding ==
    /\ ui = "stopping"
    /\ ui' = "asking"
    /\ cancelled' = cancelled \cup running
    /\ asking' = registry
    /\ UNCHANGED <<procVars, flagVars, threadVars, stop, ending, killed, stray>>

\* Every group is asked first, so that they end in parallel.
UiAsk(p) ==
    /\ p \in asking
    /\ Ask("ui", p, FALSE)
    /\ asking' = asking \ {p}
    /\ ending' = ending \cup {p}
    /\ UNCHANGED <<idTaken, written, reaped, registry, threadVars, stop, cancelled, ui, killed>>

\* endProcessGroup() of each, which cannot reap.
UiGone(p) ==
    /\ asking = {}
    /\ p \in ending
    /\ ~Alive(p) \/ p \in killed
    /\ ending' = ending \ {p}
    /\ UNCHANGED <<procVars, flagVars, threadVars, stop, cancelled, ui, asking, killed, stray>>
UiKill(p) ==
    /\ asking = {}
    /\ p \in ending \ killed
    /\ Alive(p)
    /\ Signal("ui", p, TRUE)
    /\ killed' = killed \cup {p}
    /\ UNCHANGED <<idTaken, written, flagVars, threadVars, stop, cancelled, ui, asking, ending>>

\* joinLiveCaptures() waits for every thread; then a second
\* terminateCaptureProcesses().
Join ==
    /\ ui = "asking" /\ asking = {} /\ ending = {}
    /\ \A p \in Programs : pc[p] = "over"
    /\ ui' = "askingAgain"
    /\ asking' = registry
    /\ killed' = {}
    /\ UNCHANGED <<procVars, flagVars, threadVars, stop, cancelled, ending, stray>>

EndShutdown ==
    /\ ui = "askingAgain" /\ asking = {} /\ ending = {}
    /\ ui' = "over"
    /\ UNCHANGED <<procVars, flagVars, threadVars, stop, cancelled, asking, ending, killed, stray>>

Ui == Shutdown \/ BeginEnding \/ Join \/ EndShutdown
      \/ \E p \in Programs : CancelScope(p) \/ UiAsk(p) \/ UiGone(p) \/ UiKill(p)

Over == ui = "over" /\ UNCHANGED vars

Next ==
    \/ \E p \in Programs : Write(p) \/ Exit(p) \/ HelperExit(p) \/ TakeId(p) \/ Owner(p)
    \/ Ui
    \/ Over

\* A thread goes on when it can, and its waits end; so does the shutdown once it
\* has begun.  Nothing is assumed of the programs.
Fairness ==
    /\ \A p \in Programs : WF_vars(Owner(p))
    /\ WF_vars(ui # "open" /\ Ui)

Spec == Init /\ [][Next]_vars
FairSpec == Spec /\ Fairness

-----------------------------------------------------------------------------
(* What the code must keep.                                                *)

\* What a stream is said to have come to is what its program did: one that
\* ended well ended by itself and every byte it wrote was read, and one that
\* is blamed for a failure failed by itself, it was not ended by the plugin,
\* whichever thread asked it to end and whenever it ended.
EndIsTrue ==
    \A p \in Sources :
        /\ result[p] = "ended" => exit[p] = "zero"
        /\ result[p] = "failed" => exit[p] = "code"
        /\ result[p] \in {"ended", "failed"} => read[p] = written[p]

\* A listing that answers has all its program wrote, which ended by itself
\* within the limit; one that does not says why; and its program is over
\* when it returns, if it can be ended at all.
ListingIsTrue ==
    \A p \in Listings : pc[p] = "over" =>
        /\ result[p] = "answer" => exit[p] \in {"zero", "code"} /\ read[p] = written[p]
        /\ result[p] = "cancelled" => p \in cancelled
        /\ result[p] = "overflow" => written[p] > ListingLimit
        /\ read[p] <= ListingLimit
        /\ leader[p] \notin {"polite", "stubborn"}

\* The thread that owns a program never signals a group that took its id.  (The
\* UI thread may, between QProcess's reaping and the mark that it did.)
OwnerSignalsItsOwn == \A p \in Programs : <<"owner", p>> \notin stray

\* No capture program outlives the plugin, nor does what it started, unless it
\* is another user's, ignores SIGTERM, or is left by a program that ended by
\* itself; not even the program a thread was starting as the plugin shut down.
EndedWithThePlugin ==
    ui = "over" => \A p \in Sources :
        /\ leader[p] \notin {"polite", "stubborn"}
        /\ helper[p] = "polite" => exit[p] \in {"zero", "code"}

\* The shutdown ends, whatever the programs do.
ShutdownEnds == ui # "open" ~> ui = "over"

=============================================================================
