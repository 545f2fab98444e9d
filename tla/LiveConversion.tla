--------------------------- MODULE LiveConversion ---------------------------
(***************************************************************************)
(* The conversion of one live stream (convertOrThrow() of                  *)
(* pcap_converter.cpp), with its LiveInput, the Live Output that decides   *)
(* when to flush, to send a snapshot, to start a ring buffer's next file   *)
(* and to stop (live_output.cpp), and the raw capture's files              *)
(* (raw_capture.cpp).                                                      *)
(*                                                                         *)
(* The worker reads its clock several times for each packet and each wait, *)
(* and time passes in between.  The stream is a sequence of records, each  *)
(* of one unit: section headers (a pcap's global header is one),           *)
(* interface declarations, and packets of a declared interface.  A file is *)
(* the sequence of the records in it, by their place in the stream.        *)
(***************************************************************************)
EXTENDS Integers, Sequences, SequencesExt, FiniteSets

CONSTANTS
    Duration, PacketLimit, ByteLimit,    \* LiveLimits: when it stops; 0 is never
    RingFiles, FileBytes, FileDuration,  \* LiveLimits: the ring buffer; 0 is none
    LastPacketNumber,                    \* lastPacketNumber_
    FlushInterval, SnapshotInterval,     \* kLiveFlushInterval, kLiveSnapshotInterval
    DiskFails,                           \* whether a file may fail to be written
    MaxInterfaces,                       \* bound: the interfaces of a section
    MaxSections,                         \* bound: the sections of the stream
    MaxRecords,                          \* bound: the records of the stream
    MaxAhead,                            \* bound: the records that wait to be read
    MaxTime                              \* bound: the clock

ASSUME LimitsAssumption ==
    {Duration, PacketLimit, ByteLimit, RingFiles, FileBytes, FileDuration} \subseteq Nat
ASSUME ClockAssumption ==
    /\ FlushInterval \in Nat /\ SnapshotInterval \in Nat
    /\ LastPacketNumber \in Nat \ {0}
    /\ DiskFails \in BOOLEAN
ASSUME BoundsAssumption ==
    {MaxInterfaces, MaxSections, MaxRecords, MaxAhead, MaxTime} \subseteq Nat

VARIABLES
    \* The stream and the clock.
    clock, stream,
    streamEnd,    \* "open"; "closed" by its writer; "stopped"; "broken" off
    \* The conversion.
    pc,           \* how far the worker is
    read,         \* the records read
    packets,      \* recorder.packets(): the packets converted
    timedOut,     \* timedOut_ of the input
    flushFailed, writeFailed,
    stoppedBy, result,
    \* The Live Output.
    live,
    \* The files, and what was handed out.
    files,        \* their contents, and how far the ones written are readable
    opened,       \* the files whose text was announced, in order
    snapshot,     \* the latest LiveSnapshot
    shown         \* the one the UI thread has

streamVars == <<clock, stream, streamEnd>>
vars == <<streamVars, pc, read, packets, timedOut, flushFailed, writeFailed, stoppedBy,
          result, live, files, opened, snapshot, shown>>

ringBuffer == RingFiles > 0 /\ (FileBytes > 0 \/ FileDuration > 0)

-----------------------------------------------------------------------------
(* The stream.                                                             *)

Record(kind, iface) == [kind |-> kind, iface |-> iface]

\* The section headers, and the places of the packets, up to place n.
SectionsUpTo(n) == {i \in 1..n : stream[i].kind = "section"}
PacketPlaces == {i \in DOMAIN stream : stream[i].kind = "packet"}

\* CaptureReader::headers() after the record at place n: its section's header
\* and the interfaces declared in it so far; a new section starts them anew.
headersAt(n) ==
    LET headers[i \in 1..n] ==
            IF stream[i].kind = "section" THEN <<i>>
            ELSE IF stream[i].kind = "interface" THEN Append(headers[i - 1], i)
            ELSE headers[i - 1]
    IN  headers[n]

\* The number of the packet at place n, and the place of packet p.
NumberOf(n) == Cardinality({i \in PacketPlaces : i <= n})
PlaceOf(p) == CHOOSE n \in PacketPlaces : NumberOf(n) = p

\* The records that may come next: a first section, then declarations and
\* packets of what was declared.
NextRecords ==
    IF stream = <<>>
    THEN {Record("section", 0)}
    ELSE LET declared == Len(headersAt(Len(stream))) - 1
         IN  (IF Cardinality(SectionsUpTo(Len(stream))) < MaxSections
              THEN {Record("section", 0)} ELSE {})
             \cup (IF declared < MaxInterfaces THEN {Record("interface", 0)} ELSE {})
             \cup {Record("packet", i) :
                    i \in IF MaxInterfaces = 0 THEN {0} ELSE 1..declared}

Arrive(record) ==
    /\ streamEnd = "open"
    /\ Len(stream) < MaxRecords
    /\ Len(stream) - read < MaxAhead
    /\ stream' = Append(stream, record)
    /\ UNCHANGED <<clock, streamEnd, pc, read, packets, timedOut, flushFailed, writeFailed,
                   stoppedBy, result, live, files, opened, snapshot, shown>>

\* The stream ends: its writer closes it, the user stops it, or it breaks off.
StreamEnds(how) ==
    /\ streamEnd = "open"
    /\ streamEnd' = how
    /\ UNCHANGED <<clock, stream, pc, read, packets, timedOut, flushFailed, writeFailed,
                   stoppedBy, result, live, files, opened, snapshot, shown>>

Tick ==
    /\ clock < MaxTime
    /\ clock' = clock + 1
    /\ UNCHANGED <<stream, streamEnd, pc, read, packets, timedOut, flushFailed, writeFailed,
                   stoppedBy, result, live, files, opened, snapshot, shown>>

\* The latest snapshot is delivered on the UI thread, sooner or later.
ShowSnapshot ==
    /\ shown # snapshot
    /\ shown' = snapshot
    /\ UNCHANGED <<streamVars, pc, read, packets, timedOut, flushFailed, writeFailed,
                   stoppedBy, result, live, files, opened, snapshot>>

-----------------------------------------------------------------------------
(* The files: the raw files kept, a text for each, and the sizes up to     *)
(* which the ones written are readable.                                    *)

\* CapturePart: the first file has nothing copied ahead.
FirstPart == [number |-> 1, packetsBefore |-> 0, streamOffset |-> 0, headerOffsets |-> <<>>]

\* fileOffset(): the place in the part's file of the stream's record n; 0 if
\* it is in neither its records nor its headers.
fileOffset(part, n) ==
    IF n > part.streamOffset
    THEN n - part.streamOffset + Len(part.headerOffsets)
    ELSE IF \E k \in DOMAIN part.headerOffsets : part.headerOffsets[k] = n
         THEN CHOOSE k \in DOMAIN part.headerOffsets : part.headerOffsets[k] = n
         ELSE 0

Current(f) == Last(f.parts)

\* DiskLiveFiles::open(), and what was read before it (attach()).
OpenFiles(n) ==
    [parts |-> <<FirstPart>>, raw |-> [k \in {1} |-> [i \in 1..n |-> i]],
     text |-> [k \in {1} |-> <<>>], rawReadable |-> 0, textReadable |-> 0]

writeRaw(f, n) == [f EXCEPT !.raw[Current(f).number] = Append(@, n)]

\* A packet's line goes to the text of the raw file written.
writeLine(f, p) == [f EXCEPT !.text[Current(f).number] = Append(@, p)]

flush(f) ==
    [f EXCEPT !.rawReadable = Len(f.raw[Current(f).number]),
              !.textReadable = Len(f.text[Current(f).number])]

\* rawFileSize()
rawFileSize(f) == Len(Current(f).headerOffsets) + (read - Current(f).streamOffset)

\* Whether rotate() can split the raw capture there.
CanSplit(f, cut, headers) ==
    /\ cut \in Current(f).streamOffset..read
    /\ \A k \in DOMAIN headers : fileOffset(Current(f), headers[k]) # 0 /\ headers[k] <= cut

\* The size of the part's file once it ends at cut.
EndOf(part, cut) == cut - part.streamOffset + Len(part.headerOffsets)

\* startNext(), rotate(): the current file ends at cut, what was read past it
\* moves to the next one, behind a copy of the headers, read back from where
\* they lie in this one; the oldest file beyond the ring buffer's is deleted,
\* and the next text starts.
startNext(f, cut, packetsBefore, headers) ==
    LET current == Current(f)
        number == current.number + 1
        here == f.raw[current.number]
        end == EndOf(current, cut)
        head == [k \in DOMAIN headers |-> here[fileOffset(current, headers[k])]]
        next == [number |-> number, packetsBefore |-> packetsBefore, streamOffset |-> cut,
                 headerOffsets |-> headers]
        parts == Append(f.parts, next)
        kept == IF Len(parts) > RingFiles THEN Tail(parts) ELSE parts
        numbers == {kept[i].number : i \in DOMAIN kept}
    IN  [parts |-> kept,
         raw |-> [i \in numbers |->
                    CASE i = number -> head \o SubSeq(here, end + 1, Len(here))
                      [] i = current.number -> SubSeq(here, 1, end)
                      [] OTHER -> f.raw[i]],
         text |-> [i \in DOMAIN f.text \cup {number} |-> IF i = number THEN <<>> ELSE f.text[i]],
         rawReadable |-> 0, textReadable |-> 0]

\* Variant: every file is copied whole.
SaveWhole(f) == FlattenSeq([i \in DOMAIN f.parts |-> f.raw[f.parts[i].number]])

\* saveCaptureParts(): the first file whole, the others without the headers
\* copied ahead.
saveCaptureParts(f) ==
    FlattenSeq([i \in DOMAIN f.parts |->
        LET part == f.parts[i]
            here == f.raw[part.number]
        IN  IF i = 1 THEN here ELSE SubSeq(here, Len(part.headerOffsets) + 1, Len(here))])

-----------------------------------------------------------------------------
(* The Live Output: what to do now, as a LiveStep, and its state after.    *)

\* LiveOutput(): started now, with nothing written yet.
NewLiveOutput ==
    [lastFlush |-> 0, lastSnapshot |-> 0, firstOfText |-> TRUE, snapshotPending |-> FALSE,
     fileStarted |-> 0, fileHasPacket |-> FALSE, fileFull |-> FALSE, fileEnd |-> 0,
     packetsInFiles |-> 0, fileHeaders |-> <<>>]

\* LiveStep
Step == [flush |-> FALSE, firstOfText |-> FALSE, snapshot |-> FALSE]

Due(since, interval) == clock - since >= interval

\* snapshotAt(): a snapshot's index points into the raw file, flushed first.
snapshotAt(step) == [step EXCEPT !.flush = TRUE, !.snapshot = TRUE]

\* The Live Output once step is handed out: what it does counts as done.
After(l, step) ==
    [l EXCEPT !.lastFlush = IF step.flush THEN clock ELSE @,
              !.lastSnapshot = IF step.snapshot THEN clock ELSE @,
              !.snapshotPending = @ /\ ~step.snapshot]

\* fileOver(), with what beforePacket() asks before it.
fileOver(l) ==
    /\ l.fileHasPacket /\ ringBuffer
    /\ l.fileFull \/ (FileDuration > 0 /\ Due(l.fileStarted, FileDuration))

\* beforePacket(): the Live Output once the next file has started.
NextFile(l) ==
    [l EXCEPT !.fileStarted = clock, !.fileHasPacket = FALSE, !.fileFull = FALSE,
              !.firstOfText = TRUE]

\* Variant: the headers are those of the capture's start.
FilePacketFirstHeaders(l, f) ==
    IF ~ringBuffer
    THEN l
    ELSE [l EXCEPT !.fileHasPacket = TRUE,
                   !.fileFull = FileBytes > 0 /\ rawFileSize(f) >= FileBytes,
                   !.fileEnd = read,
                   !.packetsInFiles = packets + 1,
                   !.fileHeaders = IF @ = <<>> THEN headersAt(read) ELSE @]

\* packet(): the packet just converted, its line written to f.
FilePacket(l, f) ==
    IF ~ringBuffer
    THEN l
    ELSE [l EXCEPT !.fileHasPacket = TRUE,
                   !.fileFull = FileBytes > 0 /\ rawFileSize(f) >= FileBytes,
                   !.fileEnd = read,
                   !.packetsInFiles = packets + 1,
                   !.fileHeaders = headersAt(read)]

packetStep(l) ==
    IF l.firstOfText
    THEN snapshotAt([Step EXCEPT !.flush = TRUE, !.firstOfText = TRUE])
    ELSE LET step == [Step EXCEPT !.flush = Due(l.lastFlush, FlushInterval)]
         IN  IF Due(l.lastSnapshot, SnapshotInterval) THEN snapshotAt(step) ELSE step

\* Variant: a wait flushes nothing but for a snapshot.
waitStepUnflushed(l) ==
    IF l.snapshotPending /\ Due(l.lastSnapshot, SnapshotInterval) THEN snapshotAt(Step) ELSE Step

\* beforeWait()
waitStep(l) ==
    LET step == [Step EXCEPT !.flush = TRUE]
    IN  IF l.snapshotPending /\ Due(l.lastSnapshot, SnapshotInterval) THEN snapshotAt(step) ELSE step

snapshotWaits(l) == l.snapshotPending /\ ~Due(l.lastSnapshot, SnapshotInterval)

durationOver == Duration > 0 /\ Due(0, Duration)

\* stopAt(), with p packets converted: the first condition reached.
stopAt(p) ==
    IF PacketLimit > 0 /\ p >= PacketLimit THEN "Packets"
    ELSE IF ByteLimit > 0 /\ read >= ByteLimit THEN "Bytes"
    ELSE IF durationOver THEN "Duration"
    ELSE IF p >= LastPacketNumber THEN "PacketNumbers"
    ELSE "None"

-----------------------------------------------------------------------------
(* The conversion.                                                         *)

NoSnapshot == [packets |-> 0, parts |-> <<>>, size |-> 0]
NoFiles == [parts |-> <<>>, raw |-> <<>>, text |-> <<>>, rawReadable |-> 0, textReadable |-> 0]

Init ==
    /\ clock = 0
    /\ stream = <<>>
    /\ streamEnd = "open"
    /\ pc = "open"
    /\ read = 0
    /\ packets = 0
    /\ timedOut = FALSE
    /\ flushFailed = FALSE
    /\ writeFailed = FALSE
    /\ stoppedBy = "None"
    /\ result = "None"
    /\ live = NewLiveOutput
    /\ files = NoFiles
    /\ opened = <<>>
    /\ snapshot = NoSnapshot
    /\ shown = NoSnapshot

\* Whether a file can be written now.
Succeeds == IF DiskFails THEN BOOLEAN ELSE {TRUE}

\* The stream has something to read, or has ended; a stopped one at once.
StreamReady == streamEnd # "open" \/ Len(stream) > read

\* ready() of the input: it has ended at its deadline too.
Ready == timedOut \/ StreamReady \/ durationOver
TimedOut == timedOut \/ (~StreamReady /\ durationOver)

\* read() returns nothing.
AtEnd ==
    \/ TimedOut
    \/ streamEnd = "stopped"
    \/ streamEnd \in {"closed", "broken"} /\ Len(stream) = read

HasRecord == ~timedOut /\ streamEnd # "stopped" /\ Len(stream) > read

\* act(): does what step says with the files f, p packets converted.
act(step, f, p) ==
    \E ok \in Succeeds :
        LET done == step.flush /\ ok
            g == IF done THEN flush(f) ELSE f
            bad == flushFailed \/ (step.flush /\ ~ok)
        IN  /\ files' = g
            /\ flushFailed' = bad
            /\ opened' = IF step.firstOfText /\ ~bad
                         THEN Append(opened, Current(g).number) ELSE opened
            /\ snapshot' = IF step.snapshot
                           THEN [packets |-> p, parts |-> g.parts, size |-> g.rawReadable]
                           ELSE snapshot

Finish(r) ==
    /\ pc' = "over"
    /\ result' = r

\* reader.open(): the first section's header came, and the files are opened
\* with it in the raw one, or cannot be.
Open ==
    /\ pc = "open"
    /\ HasRecord
    /\ read' = 1
    /\ \/ /\ pc' = "next"
          /\ files' = OpenFiles(1)
          /\ UNCHANGED result
       \/ /\ DiskFails
          /\ Finish("FailedRemoved")
          /\ UNCHANGED files
    /\ UNCHANGED <<streamVars, packets, timedOut, flushFailed, writeFailed, stoppedBy, live,
                   opened, snapshot, shown>>

\* The stream ended before its header came.
EndBeforeHeader ==
    /\ pc = "open"
    /\ AtEnd
    /\ timedOut' = TimedOut
    /\ Finish(IF streamEnd = "stopped" \/ TimedOut THEN "Stopped" ELSE "FailedRemoved")
    /\ stoppedBy' = IF TimedOut THEN "Duration" ELSE stoppedBy
    /\ UNCHANGED <<streamVars, read, packets, flushFailed, writeFailed, live, files, opened,
                   snapshot, shown>>

\* reader.next() reads a record, which is written to the raw file; a packet
\* is converted.
ReadRecord ==
    /\ pc = "next"
    /\ HasRecord
    /\ read' = read + 1
    /\ pc' = IF stream[read + 1].kind = "packet" THEN "before" ELSE "next"
    /\ \E ok \in Succeeds :
        /\ files' = IF ok THEN writeRaw(files, read + 1) ELSE files
        /\ writeFailed' = (writeFailed \/ ~ok)
    /\ UNCHANGED <<streamVars, packets, timedOut, flushFailed, stoppedBy, result, live,
                   opened, snapshot, shown>>

\* reader.next(): there is no more.
ReadEnds ==
    /\ pc = "next"
    /\ AtEnd
    /\ timedOut' = TimedOut
    /\ pc' = "ended"
    /\ UNCHANGED <<streamVars, read, packets, flushFailed, writeFailed, stoppedBy, result,
                   live, files, opened, snapshot, shown>>

\* The input is about to wait for the stream: beforeWait().
BeforeWait ==
    /\ pc = "next"
    /\ ~Ready
    /\ act(waitStep(live), files, packets)
    /\ live' = After(live, waitStep(live))
    /\ pc' = "waits"
    /\ UNCHANGED <<streamVars, read, packets, timedOut, writeFailed, stoppedBy, result, shown>>

\* Whether the snapshot of a burst's last packets waits for its turn.
SnapshotWaits ==
    /\ pc = "waits"
    /\ pc' = IF snapshotWaits(live) THEN "awaiting" ELSE "blocked"
    /\ UNCHANGED <<streamVars, read, packets, timedOut, flushFailed, writeFailed, stoppedBy,
                   result, live, files, opened, snapshot, shown>>

\* Its turn comes, or the stream has something: beforeWait() again.
AwaitSnapshot ==
    /\ pc = "awaiting"
    /\ Ready \/ ~snapshotWaits(live)
    /\ timedOut' = TimedOut
    /\ act(waitStep(live), files, packets)
    /\ live' = After(live, waitStep(live))
    /\ pc' = "blocked"
    /\ UNCHANGED <<streamVars, read, packets, writeFailed, stoppedBy, result, shown>>

\* Variant: a wait ends when something comes only.
WaitForever ==
    /\ pc = "blocked"
    /\ StreamReady
    /\ timedOut' = TimedOut
    /\ pc' = "next"
    /\ UNCHANGED <<streamVars, read, packets, flushFailed, writeFailed, stoppedBy, result,
                   live, files, opened, snapshot, shown>>

\* The wait is over: read() goes on.
WaitEnds ==
    /\ pc = "blocked"
    /\ Ready
    /\ timedOut' = TimedOut
    /\ pc' = "next"
    /\ UNCHANGED <<streamVars, read, packets, flushFailed, writeFailed, stoppedBy, result,
                   live, files, opened, snapshot, shown>>

\* beforePacket(): a ring buffer's file that is full or old ends before this
\* packet, and the next one starts.
BeforePacket ==
    /\ pc = "before"
    /\ IF ~fileOver(live)
       THEN /\ pc' = IF flushFailed THEN "failed" ELSE "packet"
            /\ UNCHANGED <<live, files, flushFailed, opened, snapshot>>
       ELSE \/ LET f == startNext(files, live.fileEnd, live.packetsInFiles, live.fileHeaders)
                   step == snapshotAt(Step)
               IN  /\ CanSplit(files, live.fileEnd, live.fileHeaders)
                   /\ act(step, f, packets)
                   /\ live' = After(NextFile(live), step)
                   /\ pc' = IF flushFailed' THEN "failed" ELSE "packet"
            \/ /\ DiskFails \/ ~CanSplit(files, live.fileEnd, live.fileHeaders)
               /\ pc' = "failed"
               /\ UNCHANGED <<live, files, flushFailed, opened, snapshot>>
    /\ UNCHANGED <<streamVars, read, packets, timedOut, writeFailed, stoppedBy, result, shown>>

\* The packet's line is written, and packet() says what to do, and whether
\* the capture ends with it.
Packet ==
    /\ pc = "packet"
    /\ \/ LET f == writeLine(files, packets + 1)
              l == [FilePacket(live, f) EXCEPT !.snapshotPending = TRUE]
              step == packetStep(l)
              stop == stopAt(packets + 1)
              broken == flushFailed' \/ writeFailed
          IN  /\ act(step, f, packets + 1)
              /\ live' = [After(l, step) EXCEPT !.firstOfText = FALSE]
              /\ packets' = packets + 1
              /\ stoppedBy' = IF broken THEN stoppedBy ELSE stop
              /\ pc' = CASE broken -> "failed"
                         [] ~broken /\ stop # "None" -> "ended"
                         [] OTHER -> "next"
       \/ /\ DiskFails
          /\ pc' = "failed"
          /\ UNCHANGED <<live, files, flushFailed, opened, snapshot, packets, stoppedBy>>
    /\ UNCHANGED <<streamVars, read, timedOut, writeFailed, result, shown>>

\* A file could not be written: the directory is removed.
Fail ==
    /\ pc = "failed"
    /\ Finish("FailedRemoved")
    /\ UNCHANGED <<streamVars, read, packets, timedOut, flushFailed, writeFailed, stoppedBy,
                   live, files, opened, snapshot, shown>>

\* Variant: what was captured is kept whenever the stream broke off.
EndKeeping ==
    /\ pc = "ended"
    /\ stoppedBy' = IF timedOut THEN "Duration" ELSE stoppedBy
    /\ LET broken == streamEnd = "broken" /\ ~timedOut /\ stoppedBy = "None"
       IN  \/ /\ ~writeFailed
              /\ Finish(IF broken THEN "FailedKept" ELSE "Converted")
              /\ files' = flush(files)
           \/ /\ writeFailed \/ DiskFails
              /\ Finish("FailedRemoved")
              /\ UNCHANGED files
    /\ UNCHANGED <<streamVars, read, packets, timedOut, flushFailed, writeFailed, live,
                   opened, snapshot, shown>>

\* The stream ended, or a stop condition was reached: the files are closed.
\* One that broke off keeps what was captured, once there is a packet.
End ==
    /\ pc = "ended"
    /\ stoppedBy' = IF timedOut THEN "Duration" ELSE stoppedBy
    /\ LET broken == streamEnd = "broken" /\ ~timedOut /\ stoppedBy = "None"
       IN  \/ /\ broken /\ packets = 0
              /\ Finish("FailedRemoved")
              /\ UNCHANGED files
           \/ /\ ~(broken /\ packets = 0) /\ ~writeFailed
              /\ Finish(IF broken THEN "FailedKept" ELSE "Converted")
              /\ files' = flush(files)
           \/ /\ ~(broken /\ packets = 0) /\ (writeFailed \/ DiskFails)
              /\ Finish("FailedRemoved")
              /\ UNCHANGED files
    /\ UNCHANGED <<streamVars, read, packets, timedOut, flushFailed, writeFailed, live,
                   opened, snapshot, shown>>

Done == pc = "over" /\ UNCHANGED vars

Worker ==
    \/ Open \/ EndBeforeHeader
    \/ ReadRecord \/ ReadEnds
    \/ BeforeWait \/ SnapshotWaits \/ AwaitSnapshot \/ WaitEnds
    \/ BeforePacket \/ Packet \/ Fail \/ End

Next ==
    \/ \E record \in NextRecords : Arrive(record)
    \/ \E how \in {"closed", "stopped", "broken"} : StreamEnds(how)
    \/ Tick
    \/ ShowSnapshot
    \/ Worker
    \/ Done

Spec == Init /\ [][Next]_vars

\* The worker runs, and time passes.
FairSpec == Spec /\ WF_vars(Worker) /\ WF_vars(Tick)

-----------------------------------------------------------------------------
(* What makes it correct.                                                  *)

Converting == pc \notin {"open", "over"}
Kept == {files.parts[i] : i \in DOMAIN files.parts}

\* The files kept, saved as one, are the headers the first one needs and then
\* the stream from where it starts to what was read last, without a hole and
\* without a copied header in between.
SavedIsTheStream ==
    Converting /\ ~writeFailed =>
        LET first == Head(files.parts)
        IN  saveCaptureParts(files) =
                first.headerOffsets \o [i \in 1..(read - first.streamOffset) |-> first.streamOffset + i]

\* Each file of a ring buffer is a capture of its own, as Wireshark reads it:
\* its records are in the stream's order, each once; a packet follows its own
\* section's header, and what was declared before it in that section, all of
\* it and nothing else; and none is without a packet.
EachFileIsACapture ==
    Converting /\ ~writeFailed => \A part \in Kept :
        LET here == files.raw[part.number]
            IsPacket(k) == stream[here[k]].kind = "packet"
        IN  /\ \A j, k \in DOMAIN here : j < k => here[j] < here[k]
            /\ \A k \in DOMAIN here : IsPacket(k) =>
                LET before == {j \in 1..k : stream[here[j]].kind = "section"}
                    start == CHOOSE j \in before : \A i \in before : i <= j
                IN  /\ before # {}
                    /\ {here[j] : j \in {i \in start..k : ~IsPacket(i)}} = Range(headersAt(here[k]))
            /\ part # Current(files) \/ part.number > 1 => \E k \in DOMAIN here : IsPacket(k)

\* The text of a file holds the lines of the packets in it, each packet in one
\* text: a line goes to the text of the file its record was moved to.
TextIsOfItsFile ==
    pc \in {"next", "blocked"} /\ ~writeFailed => \A part \in Kept :
        LET here == files.raw[part.number]
            held == Cardinality({k \in DOMAIN here : stream[here[k]].kind = "packet"})
        IN  files.text[part.number] = [i \in 1..held |-> part.packetsBefore + i]

\* partOf(): the file packet p is in, by the snapshot's parts.
PartOf(parts, p) ==
    CHOOSE i \in DOMAIN parts :
        /\ parts[i].packetsBefore < p
        /\ \A j \in DOMAIN parts : j > i => parts[j].packetsBefore >= p

\* A packet of a snapshot, however old when it is looked at, is read from its
\* file where the snapshot's index says, and readable there, or its file was
\* deleted: rotating moves and cuts nothing the index points at.
SnapshotReadsItsPackets ==
    Converting /\ ~flushFailed /\ ~writeFailed =>
        \A p \in 1..shown.packets :
            p > Head(shown.parts).packetsBefore =>
                LET part == shown.parts[PartOf(shown.parts, p)]
                    at == fileOffset(part, PlaceOf(p))
                IN  part.number \in DOMAIN files.raw =>
                        /\ at \in DOMAIN files.raw[part.number]
                        /\ files.raw[part.number][at] = PlaceOf(p)
                        /\ part.number = Current(files).number => at <= files.rawReadable

\* Texts are announced each once, in order, none skipped, and only when a line
\* of it is readable; when a capture ends with packets, every text was.
TextsAreAnnounced ==
    /\ opened = [i \in DOMAIN opened |-> i]
    /\ Converting => \A i \in DOMAIN opened :
            i = Current(files).number => files.textReadable > 0
    /\ result \in {"Converted", "FailedKept"} /\ packets > 0 =>
            Len(opened) = Current(files).number

\* While the worker waits for the stream, all it wrote is readable: no line of
\* a burst stays in a buffer until the next packet comes.
WaitsWithNothingBuffered ==
    pc \in {"awaiting", "blocked"} /\ ~flushFailed =>
        /\ files.rawReadable = Len(files.raw[Current(files).number])
        /\ files.textReadable = Len(files.text[Current(files).number])

\* A capture that ends well lacks nothing: every packet it read has its line,
\* and no write failed on the way, though a failure before a wait is noticed
\* only with the next packet.
ConvertedIsComplete ==
    result \in {"Converted", "FailedKept"} =>
        /\ ~writeFailed
        /\ packets = NumberOf(read)
        /\ files.textReadable = Len(files.text[Current(files).number])

\* The conversion keeps what the session was promised.
Run == INSTANCE LiveRun WITH
    phase <- CASE pc = "open" -> "header" [] pc = "over" -> "ended" [] OTHER -> "packets",
    sent <- Len(opened)
KeepsThePromise == Run!Spec

\* A capture with a duration ends, though nothing comes any more.
DurationEnds == <>(pc = "over")

\* The files are what they are taken for: each a capture of its own, its text and its
\* snapshots of the packets it holds, as a ring buffer moves on.
FilesAreTrue == EachFileIsACapture /\ TextIsOfItsFile /\ SnapshotReadsItsPackets

\* What was converted is passed on: a text is announced before it is shown anything of,
\* no wait for the next packet leaves converted lines in a buffer, and a capture that
\* ends well lacks none.
TextIsPassedOn == TextsAreAnnounced /\ WaitsWithNothingBuffered /\ ConvertedIsComplete
=============================================================================
