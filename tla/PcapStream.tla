----------------------------- MODULE PcapStream -----------------------------
(***************************************************************************)
(* Choosing the reader of a capture that comes as a stream, and reading a  *)
(* pcap's records of it (capture_reader.cpp, pcap_parser.cpp): how far the *)
(* stream is looked at ahead, which bytes reach the reader, and where a    *)
(* reader that resumes at a checkpoint goes on.                            *)
(*                                                                         *)
(* A byte is known by what starts at it: text or binary data, a pcap or    *)
(* pcapng header (or just the magic of one), a record of n bytes.          *)
(***************************************************************************)
EXTENDS Integers, Sequences, FiniteSets, SequencesExt, FiniteSetsExt

CONSTANTS
    Streams,     \* what may come: sequences of Byte
    HeaderLen,   \* the bytes of a pcap global header, 24 in the code
    RecordLen,   \* those of a record header, 16
    MaxPreamble, \* kMaxPreamble
    MaxKept      \* kMaxDissectedBytes

Byte == [at : {"text", "bin", "gzip", "pcap", "pcap 3.0", "pcapng", "pcapng magic", "record"}, n : Nat]

ASSUME StreamsAssumption == \A s \in Streams : s \in Seq(Byte)
ASSUME LengthsAssumption ==
    /\ HeaderLen \in Nat \ {0} /\ RecordLen \in Nat \ {0} /\ MaxPreamble \in Nat /\ MaxKept \in Nat

VARIABLES
    stream,     \* what comes
    pos,        \* how much of it was read
    peeked,     \* HeadSource::head_, read ahead
    needed,     \* makeCaptureReader(): the bytes the next step of it needs
    phase,      \* what is done with the stream
    start,      \* CaptureReader::start_
    bytesRead,  \* bytesRead_
    count,      \* packetCount_
    kept,       \* the length of packet_
    records,    \* the records read: number, offset and length
    truncated,  \* truncated_
    point       \* the checkpoint to resume at, or none

streamVars == <<stream, pos, peeked, needed, phase, start, bytesRead, count, kept, records,
                truncated, point>>

StreamTypeOK ==
    /\ pos \in 0..Len(stream)
    /\ needed \in HeaderLen..(HeaderLen + MaxPreamble)
    /\ phase \in {"peeking", "none", "too small", "pcapng", "found", "unsupported", "open", "ended"}
    /\ start \in 0..MaxPreamble
    /\ bytesRead \in Nat /\ count \in Nat /\ kept \in 0..MaxKept
    /\ truncated \in BOOLEAN

StreamInit ==
    /\ stream \in Streams
    /\ pos = 0 /\ peeked = <<>> /\ needed = HeaderLen /\ phase = "peeking"
    /\ start = 0 /\ bytesRead = 0 /\ count = 0 /\ kept = 0 /\ records = {} /\ truncated = FALSE
    /\ point = <<>>

-----------------------------------------------------------------------------
(* findCaptureStart()                                                      *)

\* isPcapHeader(), and at the stream's start the magic alone.
PcapAt(head, i) == head[i + 1].at = "pcap" \/ (i = 0 /\ head[1].at = "pcap 3.0")
\* isPcapNgHeader(), and at the stream's start the magic alone.
PcapngAt(head, i) == head[i + 1].at = "pcapng" \/ (i = 0 /\ head[1].at = "pcapng magic")
\* isPreambleText(): the pcapng magic is made of line ends.
isPreambleText(byte) == byte.at \in {"text", "pcapng magic", "pcapng"}

\* Where the search stops: at a header, at binary data, or where there may be one
\* that has not come yet.
Stops(head) ==
    {i \in 0..MaxPreamble :
        i + HeaderLen > Len(head) \/ PcapAt(head, i) \/ PcapngAt(head, i) \/ ~isPreambleText(head[i + 1])}

findCaptureStart(head) ==
    IF Len(head) >= 2 /\ head[1].at = "gzip" THEN [found |-> "none", offset |-> 0]
    ELSE IF Stops(head) = {} THEN [found |-> "none", offset |-> 0]
    ELSE LET i == Min(Stops(head))
         IN  IF i + HeaderLen > Len(head) THEN [found |-> "more", offset |-> i + HeaderLen]
             ELSE IF PcapAt(head, i) THEN [found |-> "pcap", offset |-> i]
             ELSE IF PcapngAt(head, i) THEN [found |-> "pcapng", offset |-> i]
             ELSE [found |-> "none", offset |-> 0]

-----------------------------------------------------------------------------
(* HeadSource over a source that returns what it has, 1 byte at least.     *)

Rest == SubSeq(stream, pos + 1, Len(stream))

\* What read() and skip() go through: the bytes looked at, then the source's.
Unread == peeked \o Rest

\* Variant: what was looked at is not read again.
ConsumeBehind(n) == peeked' = <<>> /\ pos' = Min({Len(stream), pos + n})

\* read() and skip() of n bytes, as far as they are there.
Consume(n) ==
    /\ peeked' = SubSeq(peeked, Min({n, Len(peeked)}) + 1, Len(peeked))
    /\ pos' = Min({Len(stream), pos + Max({0, n - Len(peeked)})})

\* peek(), one read of the source.
Peek(n) ==
    /\ phase = "peeking"
    /\ Len(peeked) < needed /\ Rest # <<>>
    /\ n <= Min({needed - Len(peeked), Len(Rest)})
    /\ peeked' = peeked \o SubSeq(Rest, 1, n)
    /\ pos' = pos + n
    /\ UNCHANGED <<stream, needed, phase, start, bytesRead, count, kept, records, truncated, point>>

\* What the next step of the decision needs.
StepNeeds(offset) == offset

\* makeCaptureReader(): once the bytes needed are there, or all there are.
Choose ==
    LET decision == findCaptureStart(peeked)
    IN  /\ phase = "peeking"
        /\ Len(peeked) >= needed \/ Rest = <<>>
        /\ IF decision.found = "more"
           THEN IF Len(peeked) < needed
                THEN phase' = (IF Len(peeked) < HeaderLen THEN "too small" ELSE "none") /\ UNCHANGED needed
                ELSE needed' = StepNeeds(decision.offset) /\ UNCHANGED phase
           ELSE phase' = (IF decision.found = "pcap" THEN "found" ELSE decision.found) /\ UNCHANGED needed
        /\ start' = IF decision.found \in {"pcap", "pcapng"} THEN decision.offset ELSE start
        /\ UNCHANGED <<stream, pos, peeked, bytesRead, count, kept, records, truncated, point>>

-----------------------------------------------------------------------------
(* PcapReader                                                              *)

\* open(): the global header, of a version that is supported.
Open ==
    /\ phase = "found"
    /\ Consume(start + HeaderLen)
    /\ bytesRead' = start + HeaderLen
    /\ phase' = IF Unread[start + 1].at = "pcap" THEN "open" ELSE "unsupported"
    /\ UNCHANGED <<stream, needed, start, count, kept, records, truncated, point>>

\* CaptureReader::resume(): on to the checkpoint.
Resume ==
    /\ phase = "open" /\ point # <<>>
    /\ Consume(point[1].offset - bytesRead)
    /\ bytesRead' = point[1].offset
    /\ count' = point[1].packetsBefore
    /\ point' = <<>>
    /\ UNCHANGED <<stream, needed, phase, start, kept, records, truncated>>

\* Where a record that comes next ends.
RecordEnds == RecordLen + Unread[1].n

WholeRecord == Len(Unread) >= RecordLen /\ Len(Unread) >= RecordEnds

\* next(): the next record, of which the first bytes are kept.
NextRecord ==
    /\ phase = "open" /\ point = <<>>
    /\ WholeRecord
    /\ Consume(RecordEnds)
    /\ bytesRead' = bytesRead + RecordEnds
    /\ count' = count + 1
    /\ kept' = Min({Unread[1].n, MaxKept})
    /\ records' = records \cup {[number |-> count', offset |-> bytesRead, length |-> RecordEnds]}
    /\ UNCHANGED <<stream, needed, phase, start, truncated, point>>

\* next(): the stream ends, in a record or behind one.
NoRecord ==
    /\ phase = "open" /\ point = <<>>
    /\ ~WholeRecord
    /\ phase' = "ended"
    /\ truncated' = (Unread # <<>>)
    /\ Consume(Len(Unread))
    /\ bytesRead' = bytesRead + Len(Unread)
    /\ UNCHANGED <<stream, needed, start, count, kept, records, point>>

\* The capture is opened again, to be read on from here: checkpoint().
ReadAgain ==
    /\ phase = "open" /\ point = <<>>
    /\ point' = <<[packetsBefore |-> count, offset |-> bytesRead]>>
    /\ pos' = 0 /\ peeked' = <<>> /\ needed' = HeaderLen /\ phase' = "peeking" /\ start' = 0
    /\ bytesRead' = 0 /\ count' = 0
    /\ UNCHANGED <<stream, kept, records, truncated>>

StreamNext ==
    \/ \E n \in 1..(HeaderLen + MaxPreamble) : Peek(n)
    \/ Choose \/ Open \/ Resume \/ NextRecord \/ NoRecord \/ ReadAgain

StreamSpec == StreamInit /\ [][StreamNext]_streamVars

-----------------------------------------------------------------------------
(* What the code must keep.                                                *)

\* The reader is chosen as it would be with the whole stream at hand, however it
\* comes, and a capture is never waited for longer than it takes to tell it: for
\* all that has come of a stream that is waited for, it may become one.
ChosenAsIfWhole ==
    LET whole == findCaptureStart(stream).found
    IN  /\ phase = "peeking" /\ Len(peeked) < needed =>
               \/ findCaptureStart(peeked).found = "more"
               \/ peeked[1].at = "gzip"
        /\ phase \in {"found", "open", "ended", "unsupported"} => whole = "pcap"
        /\ phase = "pcapng" => whole = "pcapng"
        /\ phase \in {"none", "too small"} => whole \in {"none", "more"}

\* The records a reader returns are those of the stream, each under its number and
\* at its place: not one byte that was looked at ahead is missing or read twice,
\* also by a reader that resumed; and a capture that was cut off says so.
Starts == {i \in 0..(Len(stream) - 1) : stream[i + 1].at = "record"}
NumberAt(i) == Cardinality({j \in Starts : j <= i})
RecordsAreTheStreams ==
    /\ \A r \in records :
          /\ r.offset \in Starts
          /\ r.number = NumberAt(r.offset)
          /\ r.length = RecordLen + stream[r.offset + 1].n
    /\ phase = "ended" =>
          truncated <=> \E i \in Starts : i + RecordLen > Len(stream)
                                          \/ i + RecordLen + stream[i + 1].n > Len(stream)

\* A stream is read as the file of its bytes would be: the same reader is chosen for
\* it, and that gives the same records, in however small pieces the bytes come.
StreamIsRead == StreamTypeOK /\ ChosenAsIfWhole /\ RecordsAreTheStreams
=============================================================================
