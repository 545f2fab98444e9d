--------------------------- MODULE PcapngCapture ---------------------------
(***************************************************************************)
(* A capture read back (pcapng_reader.cpp, capture_index.cpp) and its      *)
(* packets exported (packet_export.cpp), while it is still converted and   *)
(* split into the files of a ring buffer (raw_capture.cpp).                *)
(*                                                                         *)
(* The capture is a sequence of blocks, each one byte long: section        *)
(* headers, interface descriptions, packets, others and unreadable ones.   *)
(* A file of it holds blocks of it, each known by its place in the         *)
(* capture: the headers copied ahead, and its own.  Offsets count from 0.  *)
(***************************************************************************)
EXTENDS Integers, Sequences, FiniteSets, SequencesExt, FiniteSetsExt

CONSTANTS
    Captures,       \* the captures: sequences of Block, a section header first
    Interval,       \* packets between two checkpoints
    RingSizes,      \* how many files may be kept of a capture, 0 if it is not split
    MaxInterfaces,  \* kMaxInterfaces
    MaxReads        \* bound: the packets read

Block == [type : {"section", "interface", "packet", "other", "broken"}, swap : BOOLEAN, iface : Nat]

ASSUME CapturesAssumption ==
    \A c \in Captures : c \in Seq(Block) /\ c # <<>> /\ c[1].type = "section"
ASSUME IndexAssumption ==
    /\ Interval \in Nat \ {0} /\ RingSizes \subseteq Nat /\ MaxInterfaces \in Nat /\ MaxReads \in Nat

VARIABLES
    capture,      \* the blocks that come
    ring,         \* RawCapture::ringFiles_
    reader,       \* the Converter's reader
    checkpoints,  \* CaptureIndex::checkpoints_
    parts,        \* RawCapture::parts_
    index,        \* the index a cursor has: packets, checkpoints, files
    cursor,       \* CaptureCursor: its reader and the part that reads, or none
    last,         \* what the last read came to
    chosen,       \* history: the packets to be exported
    todo,         \* PacketNumbers: the ranges still to be exported
    exported,     \* the blocks the export has written
    section,      \* exportPackets(): section and ...
    headersOfIt,  \* ... headersOfIt
    result,       \* what the export came to
    reads         \* bound

convertVars == <<capture, ring, reader, checkpoints, parts>>
exportVars == <<chosen, todo, exported, section, headersOfIt, result>>
captureVars == <<convertVars, index, cursor, last, exportVars, reads>>

-----------------------------------------------------------------------------
(* PcapngReader, of a file: a sequence of places in the capture.           *)

BlockAt(file, offset) == capture[file[offset + 1] + 1]

Closed == [at |-> 0, packets |-> 0, swap |-> FALSE, section |-> 0, interfaces |-> <<>>,
           open |-> FALSE, broken |-> FALSE, record |-> 0]

\* readBlockHeader(), readSectionHeader(), readInterface(), finishBlock(): the
\* reader after the block that comes next, which is no packet.
ReadBlock(r, block) ==
    IF block.type = "section"
    THEN [r EXCEPT !.at = @ + 1, !.swap = block.swap, !.section = r.at, !.interfaces = <<>>]
    ELSE IF block.type = "broken" \/ block.swap # r.swap
            \/ (block.type = "interface" /\ Len(r.interfaces) >= MaxInterfaces)
    THEN [r EXCEPT !.open = FALSE, !.broken = TRUE]
    ELSE IF block.type = "interface"
    THEN [r EXCEPT !.at = @ + 1, !.interfaces = Append(@, r.at)]
    ELSE [r EXCEPT !.at = @ + 1]

\* readBlocksUpToPacket(): read on in the file until a packet, its end or a block
\* that cannot be read.
readBlocksUpToPacket(r, file) ==
    FoldLeft(LAMBDA s, place :
                IF ~s.open \/ capture[place + 1].type = "packet" \/ file[s.at + 1] # place THEN s
                ELSE ReadBlock(s, capture[place + 1]),
             r, SubSeq(file, r.at + 1, Len(file)))

\* readPacket(): a packet of an interface its section declared.
readPacket(r, block) ==
    IF block.swap # r.swap \/ block.iface >= Len(r.interfaces)
    THEN [r EXCEPT !.open = FALSE, !.broken = TRUE]
    ELSE [r EXCEPT !.at = @ + 1, !.packets = @ + 1, !.record = r.at]

\* next(): the reader after the next packet, not open if there is none.
nextPacket(r, file) ==
    LET there == readBlocksUpToPacket(r, file)
    IN  IF ~there.open \/ there.at = Len(file) THEN [there EXCEPT !.open = FALSE]
        ELSE readPacket(there, BlockAt(file, there.at))

\* open(): the section header, and the blocks up to the first packet.
openReader(file) ==
    readBlocksUpToPacket(ReadBlock([Closed EXCEPT !.open = TRUE], BlockAt(file, 0)), file)

\* checkpoint(): the place of the next packet, and its section's state.
checkpointOf(r) ==
    [packetsBefore |-> r.packets, offset |-> r.at, swap |-> r.swap, section |-> r.section,
     interfaces |-> r.interfaces]

\* resume(): never back to what open() has read.
resume(r, c) ==
    IF ~r.open \/ c.offset < r.at THEN [r EXCEPT !.open = FALSE]
    ELSE [r EXCEPT !.at = c.offset, !.packets = c.packetsBefore, !.swap = c.swap,
                   !.section = c.section, !.interfaces = c.interfaces]

\* headers(): where the headers a file of the last packet needs lie.
headersOf(r) == <<r.section>> \o r.interfaces

-----------------------------------------------------------------------------
(* CapturePart and CaptureIndex.                                           *)

\* A file of the capture, blocks and all: what it holds once it is written up to
\* `end', a place in the capture.
FileOf(part, end) == part.copied \o [i \in 1..(end - part.streamOffset) |-> part.streamOffset + i - 1]
headerLength(part) == Len(part.copied)

Nowhere == -1
\* CapturePart::fileOffset()
fileOffset(part, offset) ==
    IF offset >= part.streamOffset THEN offset - part.streamOffset + headerLength(part)
    ELSE IF \E i \in DOMAIN part.copied : part.copied[i] = offset
         THEN (CHOOSE i \in DOMAIN part.copied : part.copied[i] = offset) - 1
         ELSE Nowhere

\* setCaptureParts(): the files as they are now, and the checkpoints of those
\* rotated away dropped.
setCaptureParts(packets, points, there) ==
    [packets |-> packets, files |-> there,
     checkpoints |-> IF there[1].packetsBefore = 0 THEN points
                     ELSE SelectSeq(points, LAMBDA c : c.packetsBefore > there[1].packetsBefore)]

rotatedAway == index.files[1].packetsBefore
\* fileOf(): the last file whose packets start before it.
fileOf(number) ==
    CHOOSE i \in DOMAIN index.files :
        /\ index.files[i].packetsBefore < number
        /\ \A j \in (i + 1)..Len(index.files) : index.files[j].packetsBefore >= number

\* nearest(): the last checkpoint before a packet, as one of the part, or none.
nearest(number, part) ==
    LET before == {i \in DOMAIN index.checkpoints : index.checkpoints[i].packetsBefore < number}
    IN  IF before = {} THEN <<>>
        ELSE LET c == index.checkpoints[Max(before)]
             IN  IF c.packetsBefore > part.packetsBefore /\ c.offset >= part.streamOffset
                 THEN <<[c EXCEPT !.packetsBefore = @ - part.packetsBefore,
                                  !.offset = fileOffset(part, c.offset)]>>
                 ELSE <<>>

\* A file is named by its number, and there as long as the ring buffer keeps it.
Exists(part) == \E i \in DOMAIN parts : parts[i].number = part.number
\* What the file of the part holds now: one that is written holds what the
\* reader has read at least.
FileNow(part) ==
    LET later == {i \in DOMAIN parts : parts[i].number = part.number + 1}
    IN  FileOf(part, IF later = {} THEN reader.at ELSE parts[Max(later)].streamOffset)

-----------------------------------------------------------------------------
(* The conversion.                                                         *)

Whole == [i \in 1..Len(capture) |-> i - 1]

CaptureInit ==
    /\ capture \in Captures
    /\ ring \in RingSizes
    /\ reader = openReader(Whole)
    /\ checkpoints = <<>>
    /\ parts = <<[number |-> 1, packetsBefore |-> 0, streamOffset |-> 0, copied |-> <<>>]>>
    /\ index = [packets |-> 0, files |-> parts, checkpoints |-> <<>>]
    /\ cursor = [part |-> 0, reader |-> Closed]
    /\ last = [number |-> 0, block |-> 0, headers |-> <<>>, error |-> ""]
    /\ chosen = {} /\ todo = <<>> /\ exported = <<>> /\ section = Nowhere /\ headersOfIt = 0
    /\ result = "none"
    /\ reads = 0

\* The Converter's reader returns a packet, which CaptureIndex::note() notes.
Convert ==
    /\ nextPacket(reader, Whole).open
    /\ reader' = nextPacket(reader, Whole)
    /\ checkpoints' = IF reader'.packets % Interval = 0 THEN Append(checkpoints, checkpointOf(reader'))
                      ELSE checkpoints
    /\ UNCHANGED <<capture, ring, parts, index, cursor, last, exportVars, reads>>

\* RawCapture::rotate(), between two packets: the headers are copied from where
\* they lie in the file so far, and the oldest file goes.
rotate ==
    LET current == parts[Len(parts)]
        headers == headersOf(reader)
        next == [number |-> current.number + 1, packetsBefore |-> reader.packets,
                 streamOffset |-> reader.at, copied |-> headers]
    IN  /\ ring > 0
        /\ reader.packets > current.packetsBefore
        /\ \A i \in DOMAIN headers : fileOffset(current, headers[i]) # Nowhere
        /\ parts' = IF Len(parts) < ring THEN Append(parts, next) ELSE Append(Tail(parts), next)
        /\ UNCHANGED <<capture, ring, reader, checkpoints, index, cursor, last, exportVars, reads>>

\* A snapshot of the index for those that read packets.
Snapshot ==
    /\ todo = <<>>
    /\ index' = setCaptureParts(reader.packets, checkpoints, parts)
    /\ cursor' = [part |-> 0, reader |-> Closed]
    /\ UNCHANGED <<convertVars, last, exportVars, reads>>

-----------------------------------------------------------------------------
(* CaptureCursor.                                                          *)

\* Variant: the headers of a checkpoint stay where they lay in the capture.
RelocateNone(r, part) == r

\* relocateHeaders(): a checkpoint's headers, where they lie in the part.
relocateHeaders(r, part) ==
    LET where(offset) == fileOffset(part, offset)
    IN  IF Nowhere \in {where(headersOf(r)[i]) : i \in DOMAIN headersOf(r)}
        THEN [r EXCEPT !.open = FALSE]
        ELSE [r EXCEPT !.section = where(@),
                       !.interfaces = [i \in DOMAIN @ |-> where(@[i])]]

\* reopen(): a reader of the part's file, from the checkpoint if there is one.
reopen(part, c) ==
    LET opened == openReader(FileNow(part))
    IN  IF c = <<>> THEN opened
        ELSE IF ~resume(opened, c[1]).open THEN [Closed EXCEPT !.at = 0]
        ELSE relocateHeaders(resume(opened, c[1]), part)

\* The packets up to one are read, one after another.
ReadUpTo(r, file, local) ==
    FoldLeft(LAMBDA s, n : IF s.open /\ s.packets < n THEN nextPacket(s, file) ELSE s,
             r, [i \in 1..local |-> i])

\* read(): on from where the cursor is, unless it reads another file, or the
\* packet is behind it or a checkpoint between the two.
GoesOn(local, part, c) ==
    /\ cursor.reader.open
    /\ cursor.part = part.number
    /\ cursor.reader.packets < local
    /\ c # <<>> => cursor.reader.packets >= c[1].packetsBefore

Fails(number, why) ==
    /\ cursor' = [part |-> 0, reader |-> Closed]
    /\ last' = [number |-> number, block |-> 0, headers |-> <<>>, error |-> why]

ReadFrom(number, part, c) ==
    LET local == number - part.packetsBefore
        from == IF GoesOn(local, part, c) THEN cursor.reader ELSE reopen(part, c)
        r == ReadUpTo(from, FileNow(part), local)
    IN  IF ~Exists(part)
        THEN Fails(number, IF part.number = index.files[Len(index.files)].number THEN "gone" ELSE "rotated away")
        ELSE IF ~r.open \/ r.packets # local THEN Fails(number, "changed")
        ELSE /\ cursor' = [part |-> part.number, reader |-> r]
             /\ last' = [number |-> number, block |-> FileNow(part)[r.record + 1],
                         headers |-> headersOf(r), error |-> ""]

read(number) ==
    IF number > index.packets \/ number = 0 THEN Fails(number, "no packet")
    ELSE IF number <= rotatedAway THEN Fails(number, "rotated away")
    ELSE LET part == index.files[fileOf(number)]
         IN  ReadFrom(number, part, nearest(number, part))

\* The packet panel reads a packet.
ReadPacket(number) ==
    /\ todo = <<>> /\ reads < MaxReads
    /\ reads' = reads + 1
    /\ read(number)
    /\ UNCHANGED <<convertVars, index, exportVars>>

-----------------------------------------------------------------------------
(* exportPackets().                                                        *)

\* parsePacketSet(): a piece that names no packets of the capture is skipped.
Valid(range) == range[1] > 0 /\ range[1] <= range[2] /\ range[2] <= index.packets
NumbersOf(ranges) == UNION {r[1]..r[2] : r \in ranges}

\* Variant: ranges that overlap are not made one.
RangesKept(ranges) == SetToSortSeq(ranges, LAMBDA a, b : a[1] < b[1] \/ (a[1] = b[1] /\ a[2] < b[2]))

\* PacketNumbers::ofRanges(): sorted, those that overlap or touch made one.
ofRanges(ranges) ==
    FoldLeft(LAMBDA merged, r :
                IF merged # <<>> /\ r[1] <= merged[Len(merged)][2] + 1
                THEN [merged EXCEPT ![Len(merged)] = <<@[1], Max({@[2], r[2]})>>]
                ELSE Append(merged, r),
             <<>>, SetToSortSeq(ranges, LAMBDA a, b : a[1] < b[1] \/ (a[1] = b[1] /\ a[2] < b[2])))

StartExport(pieces) ==
    LET ranges == {r \in pieces : Valid(r)}
    IN  /\ todo = <<>> /\ result = "none"
        /\ ranges # {}
        /\ chosen' = NumbersOf(ranges)
        /\ todo' = ofRanges(ranges)
        /\ result' = "running"
        /\ cursor' = [part |-> 0, reader |-> Closed]
        /\ UNCHANGED <<convertVars, index, last, exported, section, headersOfIt, reads>>

\* How many of a packet's headers are there already: none in another section,
\* which is told by where its header starts in the packet's file.
HeadersThere(headers) == IF headers[1] # section THEN 0 ELSE headersOfIt

\* One packet: its headers that are not there yet, and its record, copied from
\* the file it was read from.
ExportPacket ==
    LET number == todo[1][1]
        rest == IF number = todo[1][2] THEN Tail(todo) ELSE <<<<number + 1, todo[1][2]>>>> \o Tail(todo)
    IN  /\ todo # <<>>
        /\ read(number)
        /\ IF last'.error # ""
           THEN result' = "failed" /\ todo' = <<>> /\ exported' = <<>> /\ UNCHANGED <<section, headersOfIt>>
           ELSE LET file == FileNow(index.files[fileOf(number)])
                    headers == last'.headers
                    missing == SubSeq(headers, HeadersThere(headers) + 1, Len(headers))
                IN  /\ exported' = exported \o [i \in DOMAIN missing |-> file[missing[i] + 1]]
                                            \o <<last'.block>>
                    /\ section' = headers[1]
                    /\ headersOfIt' = Len(headers)
                    /\ todo' = rest
                    /\ result' = IF rest = <<>> THEN "exported" ELSE result
        /\ UNCHANGED <<convertVars, index, chosen, reads>>

CaptureNext ==
    \/ Convert \/ rotate \/ Snapshot
    \/ \E number \in 0..(index.packets + 1) : ReadPacket(number)
    \/ \E a, b \in (0..(index.packets + 1)) \X (1..(index.packets + 1)) : StartExport({a, b})
    \/ ExportPacket

CaptureSpec == CaptureInit /\ [][CaptureNext]_captureVars

-----------------------------------------------------------------------------
(* What the code must keep.                                                *)

CaptureTypeOK ==
    /\ capture \in Captures
    /\ reader.at \in 0..Len(capture) /\ reader.packets \in 0..Len(capture)
    /\ ring > 0 => Len(parts) \in 1..ring
    /\ \A i \in DOMAIN checkpoints : checkpoints[i].packetsBefore % Interval = 0
    /\ index.packets \in 0..reader.packets
    /\ chosen \subseteq 1..index.packets
    /\ result \in {"none", "running", "exported", "failed"}
    /\ reads \in 0..MaxReads

\* The place of packet `number' of the capture, and its headers: the last section
\* header before it and the interfaces declared between the two.
Places(type) == {i \in 0..(Len(capture) - 1) : capture[i + 1].type = type}
PlaceOf(number) == CHOOSE i \in Places("packet") :
                        Cardinality({j \in Places("packet") : j <= i}) = number
SectionAt(i) == Max({s \in Places("section") : s < i})
InterfacesAt(i) == {j \in Places("interface") : SectionAt(i) < j /\ j < i}

HeadersLieThere(file) ==
    /\ file[last.headers[1] + 1] = SectionAt(last.block)
    /\ {file[last.headers[j] + 1] : j \in 2..Len(last.headers)} = InterfacesAt(last.block)

\* A packet read back is the packet of its number, and the headers of its section
\* and interfaces, which an export copies, lie where they are said to, from whichever checkpoint and file it is read, wherever
\* the cursor was before, and whatever the ring buffer did since the index was
\* taken; it cannot be read only if its file was rotated away.
ReadIsThePacket ==
    last.number > 0 /\ last.error # "no packet" =>
        IF last.error # "" THEN last.number <= parts[1].packetsBefore
        ELSE /\ last.block = PlaceOf(last.number)
             /\ \A i \in DOMAIN parts : parts[i].number = cursor.part =>
                    HeadersLieThere(FileNow(parts[i]))

\* Where in the export the section of a packet of it starts, for one that reads
\* the export.
TypeIn(i) == capture[exported[i] + 1].type
ExportedSection(i) == Max({j \in 1..i : TypeIn(j) = "section"})
Exported == {i \in DOMAIN exported : TypeIn(i) = "packet"}

\* packet_export.h: each section's header and the interfaces it declared are
\* ahead of its first exported packet, so that every packet's interface ID still
\* names its interface.
ExportedUnderItsSection ==
    \A i \in Exported :
        /\ exported[ExportedSection(i)] = SectionAt(exported[i])
        /\ {exported[j] : j \in {k \in ExportedSection(i)..i : TypeIn(k) = "interface"}}
              = InterfacesAt(exported[i])

\* An export has the packets chosen, each once and in their order, and all of
\* them once it is done; a reader of it finds each in its section, among the
\* interfaces that had been declared (of a capture that is split, if it has one
\* section).
ExportIsTheChoice ==
    /\ \A i, j \in Exported : i < j => exported[i] < exported[j]
    /\ {exported[i] : i \in Exported} \subseteq {PlaceOf(n) : n \in chosen}
    /\ result = "exported" => {exported[i] : i \in Exported} = {PlaceOf(n) : n \in chosen}
    /\ ring = 0 \/ Cardinality(Places("section")) = 1 => ExportedUnderItsSection

\* A packet read back by its place in the index is the packet converted there, with its
\* own section and interfaces.
ReadBackIsThePacket == CaptureTypeOK /\ ReadIsThePacket
=============================================================================
