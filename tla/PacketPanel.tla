----------------------------- MODULE PacketPanel -----------------------------
(***************************************************************************)
(* The Packet Panel (packet_panel.cpp, selected_packet_line.cpp) with its  *)
(* Stream tab, over the Capture Catalog: it asks the host for the selected *)
(* line, reads the line's packet on a thread of its own, and follows the   *)
(* stream of that packet.                                                  *)
(*                                                                         *)
(* The selection is the host's: whenever it is asked, it tells a line of   *)
(* any tab, or why there is none.                                          *)
(***************************************************************************)
EXTENDS CaptureCatalog, StreamContentView

CONSTANTS
    Selections,    \* what the host tells of the selection
    TellsSelected, \* hostCapabilities.selectedLogLines
    MaxReads       \* bound: the packets read

VARIABLES
    panel,       \* the members of the PacketPanel
    reads,       \* the reads its pool has to do
    readResults  \* the reads that ended, whose watchers were not told yet

panelVars == <<panel, reads, readResults>>

NoPacket == [number |-> 0, stream |-> "none"]

\* A selection: the lines' first, as readPacketLine() reads it, or the host's result.
Selection == [result : {"lines", "no selection", "no file", "failed"}, isPacketLine : BOOLEAN,
              packet : [number : Nat, stream : {"none", "unnumbered", "numbered"}]]

\* A packet of a stream gives the contents of that stream.
ASSUME PanelAssumption ==
    /\ Selections \subseteq Selection /\ Selections # {} /\ TellsSelected \in BOOLEAN /\ MaxReads \in Nat
    /\ \A index \in Indexes \ {NoIndex}, s \in Selections :
        s.packet.number # 0 /\ s.packet.stream # "none" => <<index, s.packet.number>> \in Streams

Statuses == {"no capture", "needs host", "select", "no file", "failed", "no packet line", "no number",
             "reading", "shown", "read failed"}

PanelTypeOK ==
    /\ panel.index \in Indexes /\ panel.cursor \in Indexes
    /\ panel.last \in Selections \cup {None}
    /\ panel.selectedPacket \in Nat /\ panel.shownPacket \in Nat
    /\ panel.reading \in BOOLEAN /\ panel.waiting \in Nat
    /\ panel.status \in Statuses /\ panel.tab \in {"Packet", "Stream"}
    /\ panel.followEnabled \in BOOLEAN /\ panel.linesEnabled \in BOOLEAN

\* selectedPacketLine(): why the selection has no packet, or "".
WhyNoPacket(s) ==
    CASE s.result = "no selection" -> "select"
      [] s.result = "no file" -> "no file"
      [] s.result = "failed" -> "failed"
      [] s.result = "lines" /\ ~s.isPacketLine -> "no packet line"
      [] s.result = "lines" /\ s.isPacketLine /\ s.packet.number = 0 -> "no number"
      [] OTHER -> ""

\* streamContentProblem() and streamLinesProblem() are empty.
CanFollow(p) == p.selectedPacket # 0 /\ p.selected.stream # "none"
CanFilter(p) == CanFollow(p) /\ p.selected.stream # "unnumbered"
updateStreamActions(p) == [p EXCEPT !.followEnabled = CanFollow(p), !.linesEnabled = CanFilter(p)]

\* Variant: a read still running is shown when it ends.
showReasonMeanwhile(p, why) ==
    updateStreamActions(
        [p EXCEPT !.reading = FALSE, !.selectedPacket = 0, !.shownPacket = 0, !.shownFrom = NoIndex, !.status = why])

\* showReason(): a read still running is of a selection no longer shown.
showReason(p, why) ==
    updateStreamActions(
        [p EXCEPT !.generation = IF p.reading THEN @ + 1 ELSE @, !.reading = FALSE, !.selectedPacket = 0,
                  !.shownPacket = 0, !.shownFrom = NoIndex, !.status = why])

\* showPacket(): the read is on the panel's queue, with the cursor it has now.
showPacket(p, number) ==
    LET q == showReason(p, "reading")
        cursor == IF q.cursor = NoIndex THEN q.index ELSE q.cursor IN
    [updateStreamActions([q EXCEPT !.selectedPacket = number]) EXCEPT
        !.cursor = cursor, !.generation = @ + 1, !.reading = TRUE,
        !.queued = Append(@, [number |-> number, cursor |-> cursor, generation |-> q.generation + 1, ok |-> FALSE])]

showSelection(p, s) ==
    LET q == [p EXCEPT !.selected = IF WhyNoPacket(s) = "" THEN s.packet ELSE NoPacket] IN
    IF WhyNoPacket(s) # "" THEN showReason(q, WhyNoPacket(s)) ELSE showPacket(q, s.packet.number)

\* poll()
poll(p, force, selection) ==
    IF p.index = NoIndex THEN showReason(p, "no capture")
    ELSE IF ~TellsSelected THEN showReason(p, "needs host")
    ELSE IF ~force /\ p.last = selection THEN p
    ELSE showSelection([p EXCEPT !.last = selection], selection)

\* settled(): what waits for the packet runs.
settled(p) == [p EXCEPT !.waiting = 0]

\* setCapture(): the read that runs keeps the cursor of the capture before.
WithCapture(index, selection) ==
    LET p == [panel EXCEPT !.index = index, !.cursor = NoIndex, !.last = None, !.tab = "Packet"] IN
    IF index = NoIndex THEN showReason(p, "no capture")
    ELSE IF p.visible THEN poll(p, FALSE, selection) ELSE showReason(p, "select")

\* The reads of p are handed to the pool, which the bound allows.
Ask(p) ==
    /\ panel' = [p EXCEPT !.queued = <<>>, !.asked = @ + Len(p.queued)]
    /\ panel.asked + Len(p.queued) <= MaxReads
    /\ reads' = reads \o p.queued

PanelInit ==
    /\ panel = [index |-> NoIndex, cursor |-> NoIndex, last |-> None, selected |-> NoPacket, selectedPacket |-> 0,
                shownPacket |-> 0, shownFrom |-> NoIndex, generation |-> 0, reading |-> FALSE, waiting |-> 0,
                status |-> "no capture", tab |-> "Packet", visible |-> FALSE, followEnabled |-> FALSE,
                linesEnabled |-> FALSE, queued |-> <<>>, asked |-> 0]
    /\ reads = <<>> /\ readResults = <<>>

-----------------------------------------------------------------------------

\* The catalog changes, and the sidebar draws the front if it is told: showFront().
FrontIsDrawn ==
    /\ CatalogNext
    /\ IF shown'.entry.index = panel.index THEN UNCHANGED <<panelVars, viewVars>>
       ELSE /\ \E s \in Selections : Ask(WithCapture(shown'.entry.index, s))
            /\ ClearView
            /\ UNCHANGED readResults

\* showEvent() polls, and so does the timer while the panel is visible.
ShowPanel(s) ==
    /\ ~panel.visible
    /\ Ask(poll([panel EXCEPT !.visible = TRUE], FALSE, s))
    /\ UNCHANGED <<catalogVars, viewVars, readResults>>

HidePanel ==
    /\ panel.visible
    /\ panel' = [panel EXCEPT !.visible = FALSE]
    /\ UNCHANGED <<catalogVars, viewVars, reads, readResults>>

TimerPolls(s) ==
    /\ panel.visible /\ TellsSelected /\ panel.last # s
    /\ Ask(poll(panel, FALSE, s))
    /\ UNCHANGED <<catalogVars, viewVars, readResults>>

Refreshed(then, s) ==
    LET p == poll([panel EXCEPT !.waiting = @ + then], TRUE, s) IN IF p.reading THEN p ELSE settled(p)

\* SidebarWidget::showPacketDetails(): the notification waits for the packet.
ShowPacketDetails(s) ==
    /\ panel.waiting = 0
    /\ Ask(Refreshed(1, s))
    /\ UNCHANGED <<catalogVars, viewVars, readResults>>

\* followStreamContent(), by the panel's button, also while the packet is read.
FollowButton ==
    /\ panel.followEnabled /\ CanFollow(panel)
    /\ Follow(<<panel.index, panel.selectedPacket>>)
    /\ panel' = [panel EXCEPT !.tab = "Stream"]
    /\ UNCHANGED <<catalogVars, reads, readResults>>

\* SidebarWidget::followStreamContent(): the selection is read first.
FollowFromMenu(s) ==
    LET p == Refreshed(0, s) IN
    /\ Ask([p EXCEPT !.tab = IF CanFollow(p) THEN "Stream" ELSE @])
    /\ IF CanFollow(p) THEN Follow(<<p.index, p.selectedPacket>>) ELSE UNCHANGED viewVars
    /\ UNCHANGED <<catalogVars, readResults>>

\* The pool: a read the selection moved on from is not begun.
ReadPacket(ok) ==
    /\ reads # <<>>
    /\ reads' = Tail(reads)
    /\ readResults' = Append(readResults, [Head(reads) EXCEPT !.ok = ok /\ Head(reads).generation = panel.generation])
    /\ UNCHANGED <<catalogVars, viewVars, panel>>

\* The read's watcher is told: showRead(), or why the packet is not shown.
ReadEnds ==
    /\ readResults # <<>>
    /\ LET r == Head(readResults) IN
        panel' = IF r.generation # panel.generation THEN panel
                 ELSE IF r.ok
                 THEN settled([panel EXCEPT !.reading = FALSE, !.shownPacket = r.number, !.shownFrom = r.cursor,
                                            !.status = "shown"])
                 ELSE settled(showReason([panel EXCEPT !.reading = FALSE], "read failed"))
    /\ readResults' = Tail(readResults)
    /\ UNCHANGED <<catalogVars, viewVars, reads>>

PanelNext ==
    \/ FrontIsDrawn \/ HidePanel \/ FollowButton \/ ReadEnds
    \/ \E s \in Selections : ShowPanel(s) \/ TimerPolls(s) \/ ShowPacketDetails(s) \/ FollowFromMenu(s)
    \/ \E ok \in BOOLEAN : ReadPacket(ok)

\* What goes on in the Stream tab itself.
TabNext ==
    \/ UserInView \/ ReadStep \/ ExportBegins \/ ExportStep \/ Told
    \/ \E stream \in Streams : FileChanges(stream)

allPanelVars == <<catalogVars, panelVars, viewVars>>

PanelSpec ==
    /\ CatalogInit /\ PanelInit /\ ViewInit
    /\ [][PanelNext \/ (TabNext /\ UNCHANGED <<catalogVars, panelVars>>)]_allPanelVars

-----------------------------------------------------------------------------

\* The panel is of the capture in front: the packet it shows was read from that capture,
\* by the number of the line it read last, never by a read of a tab or a line before;
\* the packet it says it reads is being read; and its Stream tab follows none but a
\* stream of that capture.
PanelIsOfTheFront ==
    /\ panel.index = front.entry.index
    /\ panel.shownPacket # 0 =>
        panel.shownFrom = panel.index /\ panel.shownPacket = panel.selectedPacket /\ ~panel.reading
    /\ panel.selectedPacket # 0 =>
        panel.last # None /\ panel.selectedPacket = panel.last.packet.number /\ panel.selected = panel.last.packet
    /\ panel.reading =>
        \E r \in ToSet(reads) \cup ToSet(readResults) :
            r.generation = panel.generation /\ r.number = panel.selectedPacket /\ r.cursor = panel.index
    /\ view.stream # None => view.stream[1] = panel.index

\* The buttons for the packet's stream are enabled while they would work for the line
\* read last (updateStreamActions()), at every change of the tab, the line or the read.
ButtonsAreTrue ==
    panel.followEnabled = CanFollow(panel) /\ panel.linesEnabled = CanFilter(panel)

\* The sidebar shows the tab in front: what it drew of it, the packet of the line
\* selected there, and what its buttons offer for that.
PanelShowsTheFront ==
    /\ CatalogTypeOK /\ PanelTypeOK
    /\ DrawnIsTheFront /\ PanelIsOfTheFront
    /\ ButtonsAreTrue
=============================================================================
