-------------------------- MODULE StreamContentView --------------------------
(***************************************************************************)
(* The Stream tab (stream_content_view.cpp): the content of the stream     *)
(* followed, read a budget at a time on a thread of its own, rendered as   *)
(* the user chose, and exported (exportStreamContent).                     *)
(*                                                                         *)
(* What the reader hands out of a stream is given by Contents: per packet  *)
(* its direction, and its bytes or how many are missing.  How it gets      *)
(* there is StreamContent's.  A byte is a character or a line feed.        *)
(***************************************************************************)
EXTENDS Integers, Sequences, FiniteSets, SequencesExt, FiniteSetsExt

CONSTANTS
    Contents,   \* the streams followed: their transport and what their packets give
    ShowBytes,  \* kShowBytes
    MaxShown,   \* kMaxShownBytes
    LineChars,  \* kMaxStreamLineChars
    Chosen,     \* the directions shown: sets of 0 (the client's) and 1
    MaxChoices, \* bound: the choices of a format or directions
    MaxTasks    \* bound: the reads and exports begun

Streams == DOMAIN Contents
Formats == {"text", "hex"}
None == <<>>

\* What a packet gives: its bytes, or how many are missing.
StreamChunk == [direction : {0, 1}, missing : Nat, bytes : Seq({"x", "nl"})]

\* A stream is one of its packets.
ASSUME ViewAssumption ==
    /\ ShowBytes \in Nat \ {0} /\ MaxShown \in Nat \ {0} /\ LineChars \in Nat \ {0} /\ MaxTasks \in Nat
    /\ Chosen \subseteq SUBSET {0, 1} /\ {0, 1} \in Chosen /\ MaxChoices \in Nat
    /\ \A s \in Streams :
        /\ Contents[s].udp \in BOOLEAN
        /\ Contents[s].packets \in Seq(StreamChunk) /\ Contents[s].packets # <<>>
        /\ \A i \in DOMAIN Contents[s].packets :
            LET c == Contents[s].packets[i] IN c.missing > 0 => c.bytes = <<>>

VARIABLES
    view,     \* the members of the StreamContentView
    tasks,    \* what its pool has to do: the first runs
    results,  \* the tasks that ended, whose watchers were not told yet
    exported, \* the file exported to; None: there is none
    gone,     \* the streams whose capture file was changed
    choices   \* bound

viewVars == <<view, tasks, results, exported, gone, choices>>

Task == [kind : {"read", "export"}, id : Nat, generation : Nat, stream : Streams, next : Nat,
         budget : Nat, chunks : Seq(StreamChunk),
         status : {"", "Done", "More", "Cancelled", "Failed"}, cancel : BOOLEAN, raw : BOOLEAN,
         format : Formats, directions : Chosen, opened : BOOLEAN]

ViewTypeOK ==
    /\ view.stream \in Streams \cup {None} /\ view.reader \in Nat
    /\ view.format \in Formats /\ view.directions \in Chosen
    /\ view.busy \in BOOLEAN /\ view.more \in BOOLEAN /\ view.rerenderPending \in BOOLEAN
    /\ view.dialog \in {"", "raw", "text"}
    /\ Len(tasks) + Len(results) <= MaxTasks
    /\ \A t \in ToSet(tasks) \cup ToSet(results) : t \in Task
    /\ gone \subseteq Streams

-----------------------------------------------------------------------------
(* StreamRenderer.  Its text is a sequence of characters and line feeds, of *)
(* gaps, and of lines of a hex dump with their offsets.                    *)

Renderer(format, directions, udp) ==
    [format |-> format, directions |-> directions, udp |-> udp, lastDirection |-> -1,
     lastWasGap |-> FALSE, column |-> 0, offset |-> [d \in {0, 1} |-> 0]]

\* streamText(): a line is broken at LineChars.
streamText(bytes, column) ==
    FoldLeft(LAMBDA a, b :
        IF b = "nl" THEN [text |-> Append(a.text, <<"nl">>), column |-> 0]
        ELSE IF a.column > 0 /\ a.column + 1 > LineChars
             THEN [text |-> a.text \o <<<<"nl">>, <<b>>>>, column |-> 1]
             ELSE [text |-> Append(a.text, <<b>>), column |-> a.column + 1],
        [text |-> <<>>, column |-> column], bytes)

HexLines(r, c) == <<<<c.direction, r.offset[c.direction], c.missing, Len(c.bytes)>>>>

BeginsALine(r, c) ==
    /\ r.lastDirection # c.direction \/ r.udp \/ c.missing > 0 \/ r.lastWasGap
    /\ r.column > 0

TextOfChunk(r, c) ==
    LET begin == IF BeginsALine(r, c) THEN <<<<"nl">>>> ELSE <<>>
        column == IF BeginsALine(r, c) THEN 0 ELSE r.column IN
    IF c.missing > 0 THEN [text |-> begin \o <<<<"gap", c.missing>>, <<"nl">>>>, column |-> column]
    ELSE [streamText(c.bytes, column) EXCEPT !.text = begin \o @]

\* A chunk of a direction that is not shown gives nothing.
render(a, c) ==
    LET r == a.renderer IN
    IF c.direction \notin r.directions THEN a
    ELSE IF r.format = "hex" THEN
        [text |-> a.text \o HexLines(r, c),
         renderer |-> [r EXCEPT !.offset[c.direction] = @ + c.missing + Len(c.bytes)]]
    ELSE
        [text |-> a.text \o TextOfChunk(r, c).text,
         renderer |-> [r EXCEPT !.column = TextOfChunk(r, c).column,
                                !.lastDirection = c.direction, !.lastWasGap = c.missing > 0]]

Rendered(renderer, chunks) == FoldLeft(render, [text |-> <<>>, renderer |-> renderer], chunks)

SizeOfChunks(chunks) == FoldLeft(LAMBDA n, c : n + Len(c.bytes), 0, chunks)

-----------------------------------------------------------------------------
(* The view, on the UI thread.                                             *)

NoStream(generation, format, directions, dialog) ==
    [stream |-> None, reader |-> 0, opened |-> FALSE, generation |-> generation, task |-> 0, chunks |-> <<>>,
     shownBytes |-> 0, content |-> <<>>, renderer |-> None, busy |-> FALSE, more |-> FALSE,
     rerenderPending |-> FALSE, format |-> format, directions |-> directions, lastError |-> "",
     dialog |-> dialog]

ViewInit ==
    /\ view = NoStream(1, "text", {0, 1}, "")
    /\ tasks = <<>> /\ results = <<>> /\ exported = None /\ gone = {} /\ choices = 0

\* cancel(): the flag of the task begun last.
CancelTask(id) ==
    [i \in DOMAIN tasks |-> IF tasks[i].id = id THEN [tasks[i] EXCEPT !.cancel = TRUE] ELSE tasks[i]]

\* clear()
Cleared == [NoStream(view.generation + 1, view.format, view.directions, view.dialog) EXCEPT !.task = view.task]

Begun(v, kind, next, budget, raw) ==
    [kind |-> kind, id |-> v.task, generation |-> v.generation, stream |-> v.stream, next |-> next,
     budget |-> budget, chunks |-> <<>>, status |-> "", cancel |-> FALSE, raw |-> raw,
     format |-> IF kind = "read" THEN "text" ELSE v.format,
     directions |-> IF kind = "read" THEN {0, 1} ELSE v.directions, opened |-> kind = "read" /\ v.opened]

ClearView ==
    /\ view' = Cleared
    /\ tasks' = CancelTask(view.task)
    /\ UNCHANGED <<results, exported, gone, choices>>

Follow(stream) ==
    LET v == [Cleared EXCEPT !.stream = stream, !.reader = 1, !.busy = TRUE, !.task = view.task + 1,
                  !.renderer = Renderer(view.format, view.directions, FALSE)] IN
    /\ view.task < MaxTasks /\ view.dialog = ""
    /\ view' = v
    /\ tasks' = Append(CancelTask(view.task), Begun(v, "read", 1, ShowBytes, FALSE))
    /\ UNCHANGED <<results, exported, gone, choices>>

ShowMore ==
    LET v == [view EXCEPT !.busy = TRUE, !.task = @ + 1] IN
    /\ ~view.busy /\ view.more /\ view.reader > 0 /\ view.shownBytes < MaxShown
    /\ view.task < MaxTasks /\ view.dialog = ""
    /\ view' = v
    /\ tasks' = Append(tasks, Begun(v, "read", view.reader, Min({ShowBytes, MaxShown - view.shownBytes}), FALSE))
    /\ UNCHANGED <<results, exported, gone, choices>>

Cancel ==
    /\ view.busy /\ view.dialog = ""
    /\ tasks' = CancelTask(view.task) /\ tasks' # tasks
    /\ UNCHANGED <<view, results, exported, gone, choices>>

\* rerender(): all of it anew, if there is a stream.
Rerender(v) ==
    IF v.reader = 0 THEN [v EXCEPT !.rerenderPending = FALSE]
    ELSE LET all == Rendered(Renderer(v.format, v.directions, Contents[v.stream].udp), v.chunks) IN
         [v EXCEPT !.rerenderPending = FALSE, !.content = all.text, !.renderer = all.renderer]

\* setFormat() and setDirections(): when the task that runs ends, if one does.
Choose(format, directions) ==
    LET v == [view EXCEPT !.format = format, !.directions = directions] IN
    /\ (format = view.format) # (directions = view.directions)
    /\ view.dialog = "" /\ choices < MaxChoices
    /\ view' = IF view.busy THEN [v EXCEPT !.rerenderPending = TRUE] ELSE Rerender(v)
    /\ choices' = choices + 1
    /\ UNCHANGED <<tasks, results, exported, gone>>

\* chooseExport(): the dialog runs an event loop of its own.
ChooseExport(raw) ==
    /\ view.reader > 0 /\ ~view.busy /\ view.dialog = ""
    /\ view' = [view EXCEPT !.dialog = IF raw THEN "raw" ELSE "text"]
    /\ UNCHANGED <<tasks, results, exported, gone, choices>>

\* The dialog ends, with a path or none: exportTo() looks again.
DialogEnds(accepted) ==
    LET v == [view EXCEPT !.busy = TRUE, !.task = @ + 1, !.dialog = ""] IN
    /\ view.dialog # ""
    /\ IF accepted /\ view.reader > 0 /\ ~view.busy
       THEN /\ view.task < MaxTasks
            /\ view' = v
            /\ tasks' = Append(tasks, Begun(v, "export", 1, 0, view.dialog = "raw"))
       ELSE view' = [view EXCEPT !.dialog = ""] /\ UNCHANGED tasks
    /\ UNCHANGED <<results, exported, gone, choices>>

-----------------------------------------------------------------------------
(* The pool: one task at a time, a packet a step.                          *)

Packets(t) == Contents[t.stream].packets
Ends(t, status) == tasks' = Tail(tasks) /\ results' = Append(results, [t EXCEPT !.status = status])
GoesOn(t) == tasks' = <<t>> \o Tail(tasks) /\ UNCHANGED results

\* The bytes of the directions chosen.
RawBytes(chunks, directions) ==
    FoldLeft(LAMBDA a, c : IF c.direction \in directions THEN a \o c.bytes ELSE a, <<>>, chunks)

\* The whole of what an export wrote: the file is opened first, and the renderer made,
\* before the reader has read a packet.
WrittenBy(t) ==
    IF t.raw THEN RawBytes(t.chunks, t.directions)
    ELSE Rendered(Renderer(t.format, t.directions, FALSE), t.chunks).text

FileOfExport(t, done) ==
    [stream |-> t.stream, raw |-> t.raw, format |-> t.format, directions |-> t.directions,
     data |-> WrittenBy(t), writing |-> ~done]

\* StreamContentReader::read() a packet on: it fails, is cancelled, goes on or ends.
Opens(t) == IF t.kind = "read" THEN ~t.opened ELSE t.next = 1
Stops(t) ==
    IF t.stream \in gone /\ (Opens(t) \/ ~t.cancel) THEN "Failed"
    ELSE IF t.cancel THEN "Cancelled" ELSE ""

Opened(t) == [t EXCEPT !.opened = @ \/ t.stream \notin gone]
Taken(t) == [Opened(t) EXCEPT !.chunks = Append(@, Packets(t)[t.next]), !.next = @ + 1]

ReadStep ==
    /\ tasks # <<>> /\ Head(tasks).kind = "read"
    /\ LET t == Head(tasks) IN
        IF Stops(t) # "" THEN Ends(Opened(t), Stops(t))
        ELSE LET u == Taken(t) IN
             IF u.next > Len(Packets(t)) THEN Ends(u, "Done")
             ELSE IF SizeOfChunks(u.chunks) >= t.budget THEN Ends(u, "More") ELSE GoesOn(u)
    /\ UNCHANGED <<view, exported, gone, choices>>

\* exportStreamContent(): a file it cannot write to the end is removed.
ExportBegins ==
    /\ tasks # <<>> /\ Head(tasks).kind = "export" /\ ~Head(tasks).opened
    /\ \/ Ends(Head(tasks), "Failed") /\ UNCHANGED exported
       \/ LET t == [Head(tasks) EXCEPT !.opened = TRUE] IN
            GoesOn(t) /\ exported' = FileOfExport(t, FALSE)
    /\ UNCHANGED <<view, gone, choices>>

ExportStep ==
    /\ tasks # <<>> /\ Head(tasks).kind = "export" /\ Head(tasks).opened
    /\ LET t == Head(tasks) IN
        \/ Stops(t) # "" /\ Ends(t, Stops(t)) /\ exported' = None
        \/ Stops(t) = "" /\ Ends(t, "Failed") /\ exported' = None
        \/ /\ Stops(t) = ""
           /\ LET u == Taken(t) IN
                IF u.next > Len(Packets(t)) THEN Ends(u, "Done") /\ exported' = FileOfExport(u, TRUE)
                ELSE GoesOn(u) /\ exported' = FileOfExport(u, FALSE)
    /\ UNCHANGED <<view, gone, choices>>

\* The capture file is changed, moved or removed, or its part rotated away.
FileChanges(stream) ==
    /\ stream \notin gone
    /\ gone' = gone \cup {stream}
    /\ UNCHANGED <<view, tasks, results, exported, choices>>

-----------------------------------------------------------------------------
(* A task's watcher is told that it ended.                                 *)

\* finishRead(): what was read is appended, or all of it rendered anew.
Shown(t) ==
    LET idle == [view EXCEPT !.busy = FALSE, !.lastError = ""]
        first == Renderer(view.format, view.directions, Contents[t.stream].udp)
        more == Rendered(IF view.chunks = <<>> THEN first ELSE view.renderer, t.chunks)
        read == [idle EXCEPT !.chunks = @ \o t.chunks, !.shownBytes = @ + SizeOfChunks(t.chunks),
                     !.reader = t.next, !.opened = t.opened, !.more = t.status \in {"More", "Cancelled"},
                     !.content = @ \o more.text, !.renderer = more.renderer,
                     !.lastError = IF t.status \in {"Failed", "Cancelled"} THEN t.status ELSE ""] IN
    IF t.status = "Failed" /\ view.chunks = <<>> /\ t.chunks = <<>>
    THEN [idle EXCEPT !.reader = 0, !.more = FALSE]
    ELSE IF view.rerenderPending THEN Rerender(read) ELSE read

\* Variant: a choice made while an export ran is forgotten.
ExportShownOnly(t) ==
    [view EXCEPT !.busy = FALSE, !.lastError = "export " \o t.status, !.rerenderPending = FALSE]

ExportShown(t) ==
    LET idle == [view EXCEPT !.busy = FALSE, !.lastError = "export " \o t.status] IN
    IF view.rerenderPending THEN Rerender(idle) ELSE idle

Told ==
    /\ results # <<>>
    /\ LET t == Head(results) IN
        view' = IF t.generation # view.generation THEN view
                ELSE IF t.kind = "read" THEN Shown(t) ELSE ExportShown(t)
    /\ results' = Tail(results)
    /\ UNCHANGED <<tasks, exported, gone, choices>>

\* What the user does in the tab.
UserInView ==
    \/ ShowMore \/ Cancel
    \/ \E f \in Formats, d \in Chosen : Choose(f, d)
    \/ \E raw \in BOOLEAN : ChooseExport(raw)
    \/ \E accepted \in BOOLEAN : DialogEnds(accepted)

-----------------------------------------------------------------------------

Prefix(seq, n) == SubSeq(seq, 1, n)
ShownOf(v) == Prefix(Contents[v.stream].packets, Len(v.chunks))

\* What the tab holds is the stream it follows from its start, each packet once and none
\* of a stream followed before, however reads were cancelled and went on: its reader
\* stands behind what is shown while no task runs.
HeldIsTheStream ==
    view.stream # None =>
        /\ view.chunks = ShownOf(view)
        /\ ~view.busy /\ view.reader > 0 => view.reader = Len(view.chunks) + 1

\* What the tab shows while no task runs is what it holds, rendered in the format and for
\* the directions chosen now: shown a part at a time as if all at once, and no choice
\* made while a read or an export ran is lost.
ShownIsAsChosen ==
    view.stream # None /\ ~view.busy /\ view.reader > 0 =>
        view.content = Rendered(Renderer(view.format, view.directions, Contents[view.stream].udp), view.chunks).text

\* A tab that is busy has a task of the stream it follows to wait for, and one that is
\* not has none; any other task was told to stop, so that the tab's end waits for no
\* whole read (~StreamContentView()).
BusyWithItsTask ==
    /\ view.busy <=> \E t \in ToSet(tasks) \cup ToSet(results) : t.generation = view.generation
    /\ \A t \in ToSet(tasks) : t.cancel \/ t.id = view.task

\* A text but for its line feeds.
Unbroken(text) == SelectSeq(text, LAMBDA x : x # <<"nl">>)

\* A file exported to that is not being written has the whole stream, in the directions
\* chosen: none is left of an export that failed or was cancelled.
ExportIsWhole ==
    exported # None /\ ~exported.writing =>
        LET c == Contents[exported.stream].packets IN
        IF exported.raw
        THEN exported.data = RawBytes(c, exported.directions)
        ELSE Unbroken(exported.data)
             = Unbroken(Rendered(Renderer(exported.format, exported.directions, FALSE), c).text)

\* A text exported is the text the tab would show (stream_content_view.h: "otherwise the
\* text as shown").
ExportIsAsShown ==
    exported # None /\ ~exported.writing /\ ~exported.raw =>
        exported.data = Rendered(Renderer(exported.format, exported.directions, Contents[exported.stream].udp),
                                 Contents[exported.stream].packets).text

\* The Stream tab shows the stream followed, as chosen, with a task only while it is
\* busy, and an export of it is whole.
TabShowsTheStream ==
    /\ ViewTypeOK
    /\ HeldIsTheStream /\ ShownIsAsChosen
    /\ BusyWithItsTask /\ ExportIsWhole
=============================================================================
