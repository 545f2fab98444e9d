--------------------------- MODULE MCCaptureFiles ---------------------------
(***************************************************************************)
(* The reading of captures for TLC: a pcapng capture that is indexed, read *)
(* back and exported while it is split, a compressed one, and a pcap that  *)
(* comes as a stream, each explored by itself.                             *)
(***************************************************************************)
EXTENDS PcapngCapture, GzipSource, PcapStream

CONSTANT Parts  \* the parts explored
VARIABLE part   \* the one explored

\* Captures: interfaces declared on the way, two sections of different byte order,
\* a section without interfaces, too many interfaces, an unreadable block.
Of(t, swap, i) == [type |-> t, swap |-> swap, iface |-> i]
MCCaptures == {
    <<Of("section", FALSE, 0), Of("interface", FALSE, 0), Of("packet", FALSE, 0), Of("interface", FALSE, 0),
      Of("packet", FALSE, 1), Of("other", FALSE, 0), Of("packet", FALSE, 0), Of("packet", FALSE, 1)>>,
    <<Of("section", FALSE, 0), Of("interface", FALSE, 0), Of("packet", FALSE, 0), Of("packet", FALSE, 0),
      Of("section", TRUE, 0), Of("interface", TRUE, 0), Of("interface", TRUE, 0), Of("packet", TRUE, 1),
      Of("packet", TRUE, 0)>>,
    <<Of("section", FALSE, 0), Of("interface", FALSE, 0), Of("packet", FALSE, 0), Of("section", FALSE, 0),
      Of("packet", FALSE, 0)>>,
    <<Of("section", TRUE, 0), Of("interface", TRUE, 0), Of("packet", TRUE, 0), Of("interface", TRUE, 0),
      Of("interface", TRUE, 0), Of("interface", TRUE, 0), Of("packet", TRUE, 0)>>,
    <<Of("section", FALSE, 0), Of("interface", FALSE, 0), Of("packet", FALSE, 0), Of("broken", FALSE, 0),
      Of("packet", FALSE, 0)>> }

\* Files: two members, garbage behind a member, a member cut off, one that is corrupt.
Member == <<"header", "block", "byte", "byte", "block", "ref", "byte", "trailer">>
MCFiles == {
    Member \o <<"header", "block", "byte", "byte", "block", "ref", "trailer">>,
    Member \o <<"garbage">>,
    Member \o <<"header", "block", "byte">>,
    <<"header", "block", "byte", "byte", "ref", "block", "ref", "garbage", "byte">> }

\* Streams: preambles of each length ahead of each kind of header, and records of
\* each length, whole or cut off.
Bytes1(at, n) == [i \in 1..n |-> [at |-> at, n |-> 0]]
HeaderOf(at) == Bytes1(at, 1) \o Bytes1("bin", HeaderLen - 1)
RecordOf(n) == <<[at |-> "record", n |-> n]>> \o Bytes1("bin", RecordLen - 1 + n)
Preambles == UNION {{Bytes1("text", n), Bytes1("text", n) \o Bytes1("pcapng magic", 1)} : n \in 0..(MaxPreamble + 1)}
MCStreams ==
    {p \o HeaderOf(at) \o SubSeq(RecordOf(1) \o RecordOf(3) \o RecordOf(0), 1, n) :
        p \in Preambles, at \in {"pcap", "pcapng", "pcap 3.0", "bin", "gzip"}, n \in {0, 5, 7, 8, 9, 10}}
    \cup {Bytes1("text", n) : n \in 0..HeaderLen}

allVars == <<part, captureVars, gzipVars, streamVars>>

\* A part that is not explored is in one of its initial states.
PartsInit ==
    /\ part \in Parts
    /\ CaptureInit /\ (part # "pcapng" => Len(capture) = 8 /\ ring = 0)
    /\ GzipInit /\ (part # "gzip" => file = Member \o <<"garbage">>)
    /\ StreamInit /\ (part # "stream" => stream = <<>>)

PartsNext ==
    \/ part = "pcapng" /\ CaptureNext /\ UNCHANGED <<part, gzipVars, streamVars>>
    \/ part = "gzip" /\ GzipNext /\ UNCHANGED <<part, captureVars, streamVars>>
    \/ part = "stream" /\ StreamNext /\ UNCHANGED <<part, captureVars, gzipVars>>

PartsSpec == PartsInit /\ [][PartsNext]_allVars


=============================================================================
