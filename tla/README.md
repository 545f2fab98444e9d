# LogSquirl tcpdump plugin: TLA+ verification

This directory holds TLA+ models of the plugin, the TLC configurations that check
them on small instances, and TLAPS proofs. Source paths below are relative to the
repository (`src/…` is its `src` directory). `PROJECT.json` lists, for every
definition that models code, the lines it models, and for every property a variant
of the code that breaks it.

## 1. The system

The plugin shows packet captures as text in LogSquirl. It opens capture files,
captures live by running a program (tcpdump, an extcap program, adb, ssh, any
command), converts packets to lines, and shows details, streams and statistics of
the capture in front.

| Component | State it keeps | Operations | Interacts with |
|---|---|---|---|
| Live Capture Session (`live_capture_session.*`) | state (Idle, Checking, Capturing, Stopping), the choice, the pending start, the number of the latest check, the latest run, the files and outcome | startWhenIdle, start, stop; the events its runs and checks post | Activity rule, Live Capture, Capture Catalog |
| Live Capture (`live_capture.*`) | a worker thread, its stop flag, its source, posted events, the batch of stderr lines | start, stop, isDone, join at shutdown | the Converter on its thread, the session through the UI event queue |
| Capture Sessions (`capture_sessions.*`) | the three sessions | dialogs, save, destructor | everything the user starts |
| File Conversion session, Export session, Background Job | state, request, outcome; watcher, cancel flag, worker | start, cancel, delivery of the result, cancelAndWait | Converter, Packet Export, Catalog |
| Host converter (`host_converter.*`, `plugin.cpp`) | the running conversion of a host thread, the mutex-guarded pointer to the sessions | convert_ex, poll, copy, keep | Converter; Catalog through a posted event |
| Converter (`pcap_converter.*`) with Live Output and Raw Capture | files written, what is flushed, snapshots, ring buffer parts | per packet, per wait, end | Capture Source, Live Capture |
| Process Source, Capture Pipe (`process_source.*`, `capture_pipe.*`, `capture_source.*`) | a program and its group, a registry of them, bytes read and to read | start, read, wait, terminate; the shutdown's ending of all | Live Capture's thread, listings, UI thread at shutdown |
| Live Source Kinds (`local_`, `adb_`, `ssh_`, `extcap_`, `command_source.*`) | a device's or server's script with its files | list devices and interfaces, refuse a choice, capture, stop | form, Process Source |
| Live capture form, extcap options | the choice, the latest listing's generation | edits, listings' answers, Start | Live Source Kinds on threads |
| Byte Stream Orderer | next sequence number, early segments | place, hold, pop, reset | Stream Content, TCP Reassembly |
| Stream Content, Stream tab | two directions of a followed stream, gaps, client; what is shown, its task | read a budget at a time, choose, export | Packet Panel |
| TCP Reassembly | messages held per direction, memory counted, an order of use | segment by segment; let go at the limit | Packet Pipeline, TCP Analysis |
| Capture readers, Capture Index, cursor, Packet Export | offsets, checkpoints, sections, access points, parts | next, read by number, resume, export | Converter, export, panel |
| Parser | the record of one packet | one packet at a time | Pipeline |
| Packet Pipeline and Recorder: Tracker, Analysis, Labels, Media Expectations, Names, Conversations, Stats | bounded tables for the whole capture | one packet at a time; summary | Converter |
| TLS Decryption, key log | sessions, keys and numbers per direction, the log's lines so far | record by record | TCP Reassembly, HTTP/2 |
| Capture Catalog | entry per tab, live tabs, tab in front, observers | open, update, end, front | sessions, panel, host |
| Packet Panel, Conversations table, sidebar | the line selected, its read, buttons; rows, order, selection | polls, reads' ends, front changes; sort, snapshot | Catalog, host |
| Temporary directories | directories named by process id | make, remove own, remove stale | plugin load and shutdown |
| Display filter, formatter, settings, Regex Lab, dialogs | little or none | user actions | host |

What is hard in it:

* **Two threads per run and a queue between them.** A live run posts events to the
  UI thread. By the time they are delivered the session may have been stopped,
  started again, or closed; a check of a choice may answer after another choice
  was made. The same holds for listings, packet reads and stream reads.
* **Dialogs are event loops.** Everything a dialog's caller checked before may be
  untrue when it returns, including that its object exists.
* **A cancel races the end of the work**, and the two kinds of work settle it
  differently: a conversion is taken back, an export that replaced its file is not.
* **Programs end when they like**: between two looks at them, before they are asked
  to, never; their process ids are used again; and a capture's other half is a script
  on a device or server that loses its connection.
* **Packets are lost, resent, reordered, cut and overlap**, sequence numbers wrap,
  and ports are used again by a new connection.
* **Memory is bounded**: what is held per direction, in total, how many early
  segments, sessions, streams, names, labels; each limit lets something go that the
  others must hear of.
* **A live conversion writes files a viewer reads meanwhile**; ring buffer files
  begin with copies of headers, end at a cut, and are deleted.

## 2. Modules

| Module | Models | Extends / uses |
|---|---|---|
| `Activity` | the rule of what may start beside what runs | |
| `LiveCaptureSession` | session, live runs' workers, event queue, conversion beside it, shutdown | `Activity` |
| `LiveCaptureSessionProofs` | theorems about it | `LiveCaptureSession`, TLAPS |
| `CaptureSessions` | file conversion, export, background jobs, host conversion, dialogs, shutdown | `Activity` |
| `CaptureSessionsProofs` | theorems about it | `CaptureSessions`, TLAPS |
| `LiveRun` | abstract specification: what the worker of a live run promises the session | |
| `LiveConversion` | the live conversion: stream, Live Output, raw and text files, snapshots; implements `LiveRun` | instance of `LiveRun` |
| `LiveConversionProofs` | theorems about it and its refinement | `LiveConversion`, TLAPS |
| `ProcessSource` | programs, their groups and helpers, streams of stdout or a pipe, listings, the shutdown | |
| `AdbCapture`, `SshCapture` | a capture's script on a device, on a server | |
| `StderrBatch` | what a program writes to stderr on its way to the UI thread | |
| `TempDirs` | the temporary directories of several processes | |
| `LiveSources` | these five side by side, and what is promised of them together | the five |
| `LiveSourcesProofs` | theorems about them and the form | `LiveSources`, `LiveCaptureForm`, TLAPS |
| `LiveSourceKinds` | what each kind lists, and why it cannot capture a choice | |
| `LiveCaptureForm` | the form and an extcap's options, with listings that answer later | `LiveSourceKinds` |
| `ByteStreamOrderer` | sequence arithmetic and held segments | |
| `StreamContent` | the reader of a followed TCP stream | `ByteStreamOrderer` |
| `StreamContentProofs` | theorems about the reader and its orderers | `StreamContent`, `FoldProofs`, TLAPS |
| `FoldProofs` | what a loop over a list, a fold, comes to | TLAPS |
| `TcpReassembly` | reassembly of messages under memory limits | `ByteStreamOrderer` |
| `TcpReassemblyProofs` | the theorem about its tables and its memory | `TcpReassembly`, `FoldProofs`, TLAPS |
| `PcapngCapture` | a pcapng capture read, indexed, split into a ring's files, read back, exported | |
| `GzipSource` | a compressed capture, its access points and seek | |
| `PcapStream` | the choice of a stream's reader, and a pcap's records | |
| `PacketDissection` | a packet's layers and tunnels | |
| `TcpAnalysis` | a TCP stream's relative numbers, markers and round-trip time | |
| `PacketPipeline` | the steps of a packet and the tables they fill; the summary | |
| `TlsDecryption` | TLS sessions, keys, lost records, the key log, HTTP/2's memory | |
| `CaptureCatalog` | the tabs' captures, the front, and who is told | |
| `StreamContentView` | the Stream tab: reads, choices, rendering, export | |
| `PacketPanel` | the selected line's packet, its read, the buttons | `CaptureCatalog`, `StreamContentView` |
| `PacketPanelProofs` | theorems about the catalog, the panel, the Stream tab and the Conversations table | `PacketPanel`, `ConversationTable`, `FoldProofs`, TLAPS |
| `ConversationTable` | the Conversations table | |
| `MC…` | instances for TLC | |

The header of each module says what stands for what. Definitions headed *Variant* are
the plausible mistakes the mutants of `PROJECT.json` put in place of the definition
that follows them; no specification uses them.

### LiveCaptureSession

`state`, `choice`, `pending`, `checks`, `runs`, `files`, `outcome` are the members
of the session; `worker`, `program`, `done` are a run's thread, the program it
started and `isDone()`; `events` is the queue to the UI thread, `asking` the checks
under way. One action per public operation (`StartWhenIdle`, `StartDirectly`,
`Stop`), per step of the worker that can be seen from outside (`SourceMade`,
`HeaderCame`, `FirstOfText`, `Snapshot`, `StreamEnded`, `OutputFailed`,
`ProgramEnded`, …), per delivered event, and for the shutdown (`Close`, `Retire`,
`Join`). Packets are not modelled; a capture is known by its run and file numbers.

### CaptureSessions

`job[…]` is a `BackgroundJob` with its worker (or the host's call), `state`,
`chosen`, `outcome` the members of the two sessions, `dialogs` the stack of open
dialogs, `sessions` the progress of the destructor, in which the UI thread handles
no event. On disk are the conversions' directories, the exports' unfinished files
and the files they replaced. A worker may read on for ever unless it is cancelled.
A live capture is one flag here: what it does is in `LiveCaptureSession`.

### LiveConversion and LiveRun

A record of the stream (section header, interface, packet) is one unit of length.
`stream` is what arrived, `read` how much was read, `files` the raw files' parts
and contents and the texts, with what is flushed; `live` is `LiveOutput`; `snapshot`
is the last one posted and `shown` the last one delivered. `waitStep`, `packetStep`
and `fileOver` are the decisions of `live_output.cpp`, `act` what the Converter does
with them. Each reading of the clock is a step of its own. Opening the reader is
done when the first section header is there; waits inside a record are not
modelled. Writes and flushes fail at any time where `DiskFails`. `LiveRun` says
what `LiveCaptureSession` relies on: texts are announced in order, and a run ends
in one result, which has files only if a text was announced.

### The live sources

In `ProcessSource` each program belongs to the thread that runs it; the thread's steps
(`pc`), the program's (`Write`, `Exit`, `HelperExit`), QProcess's reaping and the
reuse of an id by another process group, and the UI thread's shutdown interleave.
Time is abstract: a wait runs out whenever what it waits for is not there. The scripts
of `AdbCapture` and `SshCapture` are the shell scripts of `adb_source.cpp` and
`ssh_source.cpp` command by command; adb, ssh and the connection end at any step.
`StderrBatch` counts lines; `TempDirs` has processes that start, end, crash, and take
each other's ids. They share nothing: `SourcesSpec` of `LiveSources` has all five go on
at once, and the run explores them one at a time (`PartsSpec`). In `LiveCaptureForm` an answer is anything the kind's listing may
give (`LiveSourceKinds`), and comes at any time.

### Streams

Sequence numbers are modulo `SeqSpace` (the code: 2^32) and compared as the code
does, by the sign of their difference; the initial numbers of the instances lie so
that they wrap. A byte is known by its connection and its place in the stream, so
that what is put together can be compared with what was sent. Captured are any
segments of the stream, in any order, again, overlapping, cut by a snap length, and
segments may be missing. An acknowledgment may be of anything up to one past the
end. In `TcpReassembly` the length of a message is told by its header
(`tcpMessageExtent`, external: each protocol has its own), and TCP Analysis by the
highest byte it has seen.

### The captures and their packets

In `PcapngCapture` a block is one byte long and known by its place in the capture, a
file a sequence of such places; `Convert`, `rotate` and `Snapshot` are the
converter's side, `ReadPacket` and `ExportPacket` the reader's, over the snapshot it
has. `GzipSource` and `PcapStream` know a byte by its offset, so that what is handed
out can be compared with the file. `PacketDissection` knows a field by the header it
was read from. `TcpAnalysis` has two ends that send, lose and send again, with their
acknowledgments and windows, in up to two connections. `PacketPipeline` runs each packet
through the tracker, the media expectations, the labels, the recorder's tables and
the names in the code's order and takes summaries between them; `history` is what was
shown. In `TlsDecryption` a record opens with its own key and number only; the
capture misses some records and the log's lines come when they come.

### The panels

`CaptureCatalog` has the tabs' entries and what the sidebar drew last; `PacketPanel`
asks the host for the selected line, which tells one of any tab, and reads its packet
on a thread (`ReadPacket`, `ReadEnds`); `StreamContentView` reads a budget at a time
(`ReadStep`, `Told`) while the user follows, chooses, cancels and exports. `PanelSpec`
has the steps of both.
`ConversationTable` is a model of its own, with the selection as a row that Qt's
view and the model's persistent indexes move.

## 3. Runs

| Run | Question | Bounds |
|---|---|---|
| `live_session` | Never two programs, never beside a conversion, the choice made last is captured, outcomes are complete, what has ended is quiet | 2 choices (symmetric), 2 runs, 4 checks, 2 files a run: enough for a pending start, a stale check and a retired run at once |
| `live_session_fair` | Pending starts come to their turn and only theirs, the shutdown ends; `start()` called at any time | 1 choice, 2 runs, 3 checks, 1 file and a snapshot a run |
| `sessions` | Conversions, exports and host conversions: outcome, disk and tabs agree; cancels and waits end | 2 jobs at a time or in sequence, 2 dialogs over each other, 2 paths |
| `stream_content` | What is shown is the stream, in order, with gaps where bytes are missing | 2 connections of the client on the same ports, 3 bytes each, 1 of the server with none, 2 early segments; no window scaling is offered |
| `reassembly` | Messages held and returned are those sent; memory is counted and bounded | one direction in 2 connections, messages of 2, 5, 4 and 1 bytes with a limit of 3 a direction; or directions of 3 streams (symmetric) that compete for memory, sending four bytes each in whole segments |
| `reassembly_syn` | *violation*: bytes sent with a SYN are held one place off | the same with data in the SYN |
| `live_conversion` | The files saved are the stream, each a capture; what was converted is passed on; the refinement of `LiveRun`; a duration ends the capture | 6 records, 2 sections, 2 interfaces; a ring of 2 files full at 4 records or 2 ticks; clock to 3; writes fail at any time |
| `live_sources` | What is told of programs is what they did, nothing of them stays behind, what is left ends, the form offers what can be captured | a program of each sort, one at a time, of 2 bytes; one capture on a device, one on a server; 5 lines in batches of 2; 3 process ids, 2 directories; 1 device with 1 interface, 2 listings at once, 3 edits |
| `capture_files` | A packet read back, sought or exported is the one converted; a stream is read as the file would be | 5 captures of up to 9 blocks with two sections, a ring of 0 or 2 files, 2 packets between checkpoints, 2 packets read; 4 compressed files of up to 15 tokens, window and span 2; streams with preambles around the limit of 2 |
| `packets` | A packet's fields, markers, labels, names and decrypted records are true of what was captured | packets of up to 3 nested tunnels with lengths one off; 5 segments in sequence numbers modulo 16 that wrap, 1 lost or sent again; 3 packets of 10 kinds through tables of 2 or 3; up to 10 TLS records of 2 connections with 2 not captured, 7 plans |
| `panel` | The panel, the Stream tab and the table show what is in front, followed, and selected | a live tab, a converted one and one without capture, 3 changes, 2 reads; 2 streams, 2 tasks, 2 choices; 3 snapshots, 3 columns, 4 sorts |
| `stream_export` | *violation*: a UDP stream exported as text is not the text shown | the Stream tab of `panel` |

Each bound is a constant of the configuration or a list in the `MC` module. They are
chosen so that every action fires and every limit of the code is passed: a pending start
while a run ends, a segment too many, a memory limit reached by another direction, a file
of the ring deleted, a deadline between two packets, a tunnel too deep, a table full.
Four runs have parts: components that share no state are explored side by side in one
run, of which each behaviour explores one (`part`), the others staying in an initial
state. A property named at the end of a module is the conjunction of the properties above
it; each of those has its own comment.

Deadlock is checked where the system goes on or stutters by an action of its own when it
is over (`Terminated`, `Done`). In `live_sources`, `capture_files`, `packets` and `panel`
a behaviour ends: the program is over, the capture is read, the bound of the user's
actions is reached.

### Fairness

* UI events are delivered and the destructor goes on when it can: Qt's event loop
  runs (`WF` of the deliveries).
* A worker that is told to stop or cancelled hears it: each loop looks at its flag
  between packets and the files read are regular files, or the stream's wait polls
  the stop flag. A worker that is not told may go on for ever: no fairness is
  assumed of the end of a file or stream.
* In `live_conversion` time passes and the worker runs.
* In `live_sources` the threads that own programs and the UI thread at shutdown take
  their steps, and a script's shell and its watchdog theirs; none is assumed of the
  programs, which may never end, nor of a connection.

### What the code does otherwise

Two disagreements of the code with its comments are runs (`findings` of `PROJECT.json`).
Met while modelling, without a run of their own:

* `live_capture_session.h:142` says of a Failed outcome that "files keep what was
  captured, if a packet came"; a write failure after the first packet removes the
  directory and the outcome has no files (`pcap_converter.cpp:450-463`,
  `live_capture_session.cpp:477`).
* Before it waits, the converter looks at the clock twice (`pcap_converter.cpp:401-407`):
  a snapshot that is due in between is not sent, and the last packets of a burst stay
  unshown while the stream is quiet.
* A rotation cuts the last file where the new one begins (`raw_capture.cpp:202`), so a
  file shrinks behind a snapshot that has it as Growing, whose reader then says that it
  "has changed since it was converted" (`capture_index.cpp:185-200`) until the next one.
* `packet_export.h:35-38` promises each section's header ahead of its first exported
  packet. `exportPackets` knows a section by where its header starts in its file
  (`packet_export.cpp:366`); in a capture split into files two sections may start at the
  same place of two files. `ExportIsTheChoice` asks for headers of the packet's own
  section only where the capture is one file or one section.
* `tls_decryption.h:81-82` has the HTTP/2 sessions together hold at most
  `kHttp2MemoryLimit`; at the limit `abandonHeaders` lets go of a direction's header
  blocks and table, but not of a frame header it has begun to read
  (`describe_http.cpp:606`): a few bytes a direction can pass the limit.
* `TlsDecryption::lost` (`tls_decryption.cpp:831`) marks data as missing by the type of
  the record that was found: in TLS 1.2 an alert that follows hides the loss.
* A SYN captured without a window scale after segments that were scaled leaves
  `lastWindow` to shift by -1 (`tcp_analysis.cpp:80`): undefined behaviour, modelled as
  the processors do it.
* A segment that is sent again is dropped only if bytes after it were seen
  (`tcp_reassembly.cpp:501`): the last one seen is described twice.
* A start that comes directly, past a pending one, leaves that waiting for its run
  (`live_capture_session.cpp:263`); the app does not call it so.
* `setCapture` clears the followed stream at every snapshot of a live capture
  (`packet_panel.cpp:293-304`), which has an index of its own.
* The Save button keeps the state it had as a conversion began until it ends
  (`sidebarwidget.cpp:711`).

## 4. Proofs

Each theorem holds for any value of the constants that satisfies the assumptions named
in the component's module; those that need more say so. An invariant of a run is seldom
inductive, and each of the strengthenings named below was checked by TLC on that run's
instance before it was proved.

### LiveCaptureSessionProofs

For any sets of choices and any bounds:

* `TypeCorrect`: `TypeOK`.
* `OneProgramAtATime`: with starts only through `startWhenIdle` (`DirectStarts = FALSE`,
  as the app does) at most one capture program runs. `OneProgram` is not inductive: that
  the last run is done, which `startWhenIdle` asks, must mean that its worker is over,
  and the flag comes through the queue. `OneProgramInv` adds that programs have a
  worker, that earlier runs are over and later ones have none, that a queued or
  delivered *done* is of a worker that is over, and that a choice is checked only
  after the last run is done.
* `OneActivityAtATime`: `CaptureExcludesConversion`.
* `EndsAreQuiet`: `EndIsQuiet`. What has ended stays quiet because nothing of an earlier
  run is delivered to the session: *finished* is queued of captures that have
  ended only, and of runs that were started (`QuietInv`).
* `OutcomesAreComplete`: `OutcomeIsComplete`. `OutcomeInv` follows the files from the
  worker's events through the queue into the outcome.
* `LatestChoiceIsRun`: `LatestChoiceRuns`, with `DirectStarts = FALSE`. `LatestInv` says
  where the choice made last is at each moment: pending, in a check under way, or in the
  run; a stale check is told by its number.
* `PendingIsTakenUp`: the action property `PendingIsTakenUpOnce`: a pending start is
  taken up only as the latest run is done. That this comes about is liveness, and TLC's.

### CaptureSessionsProofs

For any set of paths and any number of jobs and dialogs:

* `SessionsTypeCorrect`, `SessionsExclude`, `DiskIsTold`, `ShutdownIsQuiet`: each
  invariant of the run `sessions`;
* `CancelWins`: its action property `CancelledOpensNoTab`.

They follow from one inductive invariant, `SessionsInv`, in three groups that are
shown to be kept one after the other. `TypeInv` adds to the types that a job that is
over is forgotten with its flag, that a worker is at a stage, and returns a result,
of its kind, and that a session holds the path its job was given. `AgreeInv` is
`BusyWhileJobRuns`, `ConversionExcludesCapture` and how far the shutdown is: that a
start is not refused must mean that no job runs, or the path would change under the
job. `OutputInv` adds to `NothingIsLeftBehind` and `OutcomeIsWhatHappened` that the
number of a job that runs is no other's, nor that of a tab, a file or an outcome
(so a worker that drops what it wrote drops nothing else), and which stages have
something on disk. `SessionsAlways` puts the groups together.

### LiveConversionProofs

For any stream, ring and clock (`TextsAssumption`: there is room for a text):

* `ConvertedIsPassedOn`: `TextIsPassedOn`. `FlushedInv` says at which steps of the
  worker a text may have something unflushed, `CountInv` that the packets counted are
  those of the texts, `EndInv` what each way to end has flushed and announced.
* `SavedIsStream`: `SavedIsTheStream`. `ContentInv`: a raw file holds the headers
  copied at its rotation and then the stream from where its part starts to where the next
  one starts, so the files put together are what was read. `headersAt` and `FlattenSeq`
  are recursive functions; that each unfolds at every index is proved by a least
  counterexample (`LeastNat`, from `NatLessThanWellFounded`).
* `FilesHoldWhatTheySay`: `FilesAreTrue`. What a part says was noted at different times
  by different code: `packet()` notes where the last packet ends and the headers there,
  `startNext()` cuts the file at that place several records later and moves what follows,
  and a snapshot is a copy that may be looked at after the files it names are deleted.
  `RingInv` ties the four together. A part starts behind a packet, with the headers and
  the count of packets of that place (`PartsWell`); what the Live Output noted is true of
  the last packet converted (`FileEndWell`); the text of a file is the packets between its
  count and the next one's (`TextsWell`); and a snapshot, the one sent last and the one
  looked at, agrees with every part that is still there, ends before the parts that are
  new, and points no further than what is flushed (`SnapshotWell`). From it, a raw file
  read alone has each packet behind its section's header and all that was declared in it
  (`FileSections`), it holds as many packets as the stream between its ends (`FileCount`),
  and the part that `partOf()` finds is the one the packet is in (`PartFound`). It is
  inductive beside `ContentInv` and with `NotedInv`: only a ring buffer takes notes.
* `PromiseHolds`: the refinement `KeepsThePromise`: `LiveConversion` implements
  `LiveRun`. The initial state maps to the initial state, and each step of the worker
  either announces the next text, ends the run, or stutters; `EndInv` is what the end
  needs, a result with files only if a text was announced.

### LiveSourcesProofs

About the five modules of `LiveSources` side by side (`SourcesSpec`), for any programs,
ids, directories (`DirsAssumption`), sizes of a batch and numbers of lines, and about the
live capture form, for any devices, interfaces and listings:

* `WhatIsToldIsTrue`: `ToldIsTrue`; `NothingIsLeftBehind`: `NothingStaysBehind`. The
  two are put together from the parts:
* The programs (`ProgramsInv`) are described each by itself, as a step changes one
  program and the ids of the system. An owner signals its own group only because the
  program is reaped and marked as ended in one step of its thread, and whoever signals
  has looked at that mark first; a kill at the shutdown is of a program not reaped yet.
* The device (`DeviceInv`) has two scripts that may run at once, the one that captures
  and the one that cleans up. A pid file there means that the first is past its
  beginning, or that the mark left before it is still to be looked for; so whichever
  comes last finds what the other left.
* `RunningKeepTheirDirs`: `TempDirsAreKept`, as a directory in use has the id of a
  process that runs; `StartsClearTheStale`: the action property `StaleAreRemoved`.
* `EveryLineIsTold`: `LinesAreTold`. The invariant ties the three flags together:
  what was posted is one flush on its way or one at its second look, a line that waits
  was posted for, and lines are dropped from full batches only, so that the second
  look may ask for `lines` alone.

* `FormOffersWhatItCan`: `FormIsTrue`: what the form offers can be captured. The Start
  button is not recomputed at every change, so it is not equal to what a fresh look would
  say. `FormInv` says why this does no harm: the device chosen is one that can be captured
  whenever Start is on (`StartIsTrue`); arguments become known only while the form waits
  for them (`AskInv`); of the listings and questions under way one is current, and only
  its answer counts (`FormListingInv`, `ListIsOfTheChoice`).

### PacketPanelProofs

For any captures, selections, streams, summaries, budgets and bounds:

* `SidebarShowsTheFront`: `DrawnIsTheFront`, a part of `PanelShowsTheFront`. Each
  change is either announced or shown to leave what is in front as it was
  (`EntryAnnounced`, `SameFront`); that one entry at most has the hint needs that none has
  it before it is shown.
* `PanelShowsWhatIsInFront`: `PanelShowsTheFront`. Each read on its way is of the
  panel's generation or an older one, generations are distinct, and the current one is
  of the packet and index that are selected: an answer that is taken is of what is in
  front. Nothing the Stream tab does changes the stream it follows.
* `TabShowsWhatIsFollowed`: `TabShowsTheStream`. `TabInv` has three parts. What the tab
  holds is its stream from the start (`Held`). Its text is that, rendered as chosen, or a
  rendering anew is pending, in which case a task runs (`AsChosen`). And of the tasks,
  those that wait, the one that runs and those that ended but were not told of
  (`TasksHold`): a tab that is busy has one of its own generation, whose chunks go on
  right where the tab's end; every other that has not ended was cancelled; and a file
  being written has what its task read so far. So a read that was cancelled and is told of
  late appends nothing, or what comes next, and none begins beside another.
  That a content shown part by part is the one rendered at once is `RenderedJoin`: the
  rendering is a fold, and a fold over two lists, one after the other, goes on from where
  the first one ended (`FoldProofs`). The panel begins to follow only a stream there is
  (`StreamIs`): a selected packet that is in a stream is one of that stream's packets
  (`PanelAssumption`), which therefore has one at least (`ViewAssumption`).

* `TableShowsTheSummary`: `TableShowsTheSnapshot`, with that the rows shown are of
  different conversations (`TableInv`). `RowsAreOrdered` is that `before()` is a total
  order, ties being broken by the stream; a row's place is the number of rows ahead of it,
  and by counting, each place is that of one row (`RowsHaveAPlace`), so a sort neither
  loses nor doubles a row, in either direction (`SortedKeeps`).

### StreamContentProofs

For two ends that send any number of bytes in any number of connections, any limits on
what may be held, and any sequence numbers, as long as what an end sends in a connection
lies within half of their space (`WindowAssumption`; TCP's window keeps to that) and one
segment fits into what may be held (`EarlyAssumption`):

* `StreamIsShown`: `OutIsTheStream`; `HeldIsNotLost`: `HeldIsKept`;
  `OpenerIsTheClient`: `ClientIsTheOpener`.

`IInv` says where a direction is. It is at some place of the connection its end is in
(`SideAt`): its orderer's next number is that of the place, every segment held is a run of
the connection's bytes at its number, and what was handed out ends right before the place,
each byte as far from the end as its place is. Of a segment that begins before the place
the bytes that were passed were handed out. Between packets nothing held begins at or
before the place (`Waits`), and what was due is handed out or held (`ReadsEnd`).
That is more than the runs check: `OutIsTheStream` tells nothing of what comes next.

The argument goes up from the operators. `popNext`, `firstEarlySeq`, `PopAll` and
`SkipToHeld` are folds over the segments held. `FoldRuns` and `FoldUpTo`, of `FoldProofs`,
show by a least counterexample that such a fold is a function of the number of turns that keeps to its
recurrence; so each loop is told by its turns (`PopAllSteps`, `HeldSteps`, ...), and what a
turn keeps the loop keeps. A loop does what it must in as many turns as there are segments
because a turn with a segment that is next, or that must be skipped to, leaves fewer of
them: `PopAllKeeps` and `SkipToHeldKeeps` count them down. `AfterIs` is the arithmetic of
the wrap: `seqAfter` of two places of a connection is the distance of the places. `Keeps`
composes over all of it: nothing is lost, and no more is held than before, which is why the
limits hold (`Within`). `TakenKeeps`, `AckedKeeps` and `FinishedKeeps` put this together
for a packet, an acknowledgement in the other direction, and the end; `ReadKeeps` for
`read()`, which may name the ends the other way round only while nothing was read.

### TcpReassemblyProofs

* `TablesTrue`: `TablesAreTrue`, for any streams, connections, segments and messages, any
  limits and any costs of an entry and of a segment held early (`LimitsAssumption`), as
  long as a direction sends no more than its messages (`MessagesAssumption`).

Between packets each direction is counted with what it holds and within its limits
(`Good`). Within `segment()` that is not so: `appendEarly()` takes segments out of the
orderer and counts only when it is done, so the direction at hand may be counted with more
than it holds, and none other (`Near`). What the operations need of each other is said of
that state. `makeRoom()` lets other directions go and leaves the one it makes room for as
it was (`Kept`), which is why its caller's entry, copied before, is still the table's. The
bytes counted are a fold over the order of use: `CostDrop`, `CostAppend` and `CostChange`
say what it comes to when a direction is let go, used again, or holds something else, as
each stands in the order once (`Once`).

That a buffer is within the limit when a message is begun rests on the framing: what is
left after the whole messages is shorter than its message (`WalkIs`), so a buffer for a
message within the limit holds it. That needs the payload's bytes in their places
(`InPlace`) and the places where messages begin (`StartsAre`). A segment described as part
of a message is held when its packet is done (`Comes`), unless its FIN, or a reset without
bytes, ends the direction (`ApplyIs`).

### Only model-checked

* The liveness properties: fairness and ENABLED are out of the prover's reach.
* What `TcpReassembly` holds and returns, byte by byte (`HeldIsTheMessage`,
  `ReturnedAreMessages`): these rest on the orderer standing at the end of the held bytes,
  which a SYN with data breaks (`HeldEndsAtNextSeq`). The run checks them for captures
  without such a SYN; no theorem states them.
* The properties of `PcapngCapture`, `GzipSource`, `PcapStream`,
  `PacketDissection`, `TcpAnalysis`, `PacketPipeline` and `TlsDecryption`, which fold over
  sequences and sets as `StreamContent` does. What a fold computes is an induction over
  data; a least counterexample takes its place in `StreamContentProofs`,
  `PacketPanelProofs` and `TcpReassemblyProofs`, fold by fold, and each of these would need the same for every fold
  it uses.

## 5. Not modelled

* **Parsers of single messages** (`describe_*.cpp`) turn bytes into a line of text in one
  call and keep no state, but for HTTP/2, whose state is in `TcpReassembly` and
  `TlsDecryption`: their hazards are lengths and pointers within a buffer, which the
  repository's unit tests and fuzzers reach.
* **Display filters, formatter, packet lines, Regex Lab**: from a text to a text, without
  state; a property would have to follow the text character by character.
* **Ciphers and HPACK's table**: a record opens with its key and number; what is in it is
  external.
* **Settings, dialogs, layout, texts**: widgets and files of settings without a property
  a reviewer would argue about.
* **Windows**: job objects and named pipes of `process_source.cpp` and `capture_pipe.cpp`.

The components of `PROJECT.json` say the same part by part.

## 6. Plan

1. A UDP reader in `StreamContent`, so that `StreamContentView`'s contents are its chunks.
2. The named pipes of `capture_pipe.cpp`, and Save As as a step of `CaptureSessions`.
