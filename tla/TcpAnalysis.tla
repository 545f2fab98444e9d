---------------------------- MODULE TcpAnalysis ----------------------------
(***************************************************************************)
(* The TCP Analysis (tcp_analysis.cpp): the relative numbers of a stream's *)
(* segments, their markers and the initial round-trip time, from what each *)
(* direction keeps (TcpDirection), as its segments are captured.           *)
(*                                                                         *)
(* Two ends, 1 the client, send segments; bytes are known by their offset  *)
(* in what an end sends, the SYN being byte 0.  A segment may be sent      *)
(* again, and may not be captured.  Sequence numbers wrap at Modulus.      *)
(***************************************************************************)
EXTENDS Integers, Sequences, FiniteSets, FiniteSetsExt

CONSTANTS
    Modulus,       \* 2^32
    Isns,          \* the initial sequence numbers
    Senders,       \* the ends that send data
    Windows,       \* the windows as sent
    OutOfOrderT,   \* kOutOfOrderNs
    FastT,         \* kFastRetransmissionNs
    Waits,         \* how long after the segment before a segment is captured
    MaxFlight,     \* the bytes that are not acknowledged, RFC 7323's 2^30
    MaxSegments,   \* segments sent
    MaxFaults      \* segments sent again or not captured

Ends == 1..2
Other(d) == 3 - d

ASSUME TcpAssumption ==
    /\ Modulus \in {2 * n : n \in 4..20}
    /\ Senders \subseteq 1..2 /\ Isns \subseteq 0..(Modulus - 1) /\ Windows \subseteq Nat /\ Waits \subseteq Nat
    /\ {OutOfOrderT, FastT, MaxFlight, MaxSegments, MaxFaults} \subseteq Nat

VARIABLES
    isn,       \* the ends' initial sequence numbers
    sent,      \* how many bytes each has sent, the SYN one of them; 0: none
    acked,     \* how many of the other's bytes each has acknowledged
    now,       \* the time
    tcp,       \* StreamState::tcp
    seg,       \* the last segment captured, and what the analysis made of it
    taken,     \* the bytes of each end that were captured, other than by a probe
    clean,     \* every segment was captured, none sent again, no window closed
    synTime,   \* when the client's last SYN was captured
    segments, faults

tcpVars == <<isn, sent, acked, now, tcp, seg, taken, clean, synTime, segments, faults>>

Direction == [baseSeq |-> 0, nextSeq |-> 0, lastAck |-> 0, lastNonDupAck |-> 0, lastTime |-> 0,
              dupAcks |-> 0, window |-> 0, windowScale |-> 0, flags |-> {}]
SegmentFlags == {"WindowKnown", "WindowScaled", "KeepAlive", "ZeroWindowProbe", "AdvancedWithData"}
NoSegment == [number |-> 0]

TcpTypeOK ==
    /\ isn \in [Ends -> 0..(Modulus - 1)]
    /\ sent \in [Ends -> Nat] /\ acked \in [Ends -> Nat]
    /\ \A d \in Ends :
          /\ {tcp[d].baseSeq, tcp[d].nextSeq, tcp[d].lastAck} \subseteq 0..(Modulus - 1)
          /\ tcp[d].flags \subseteq SegmentFlags \cup {"BaseSeqSet", "SynSeen", "SynPending"}
          /\ taken[d] \subseteq 0..(sent[d] - 1)
    /\ segments \in 0..MaxSegments /\ faults \in 0..MaxFaults

-----------------------------------------------------------------------------
(* The arithmetic.                                                         *)

Wrap(n) == n % Modulus
seqBefore(a, b) == Wrap(a - b) >= Modulus \div 2
seqAfter(a, b) == Wrap(a - b) \in 1..(Modulus \div 2 - 1)
elapsedNs(then, at) == IF at > then THEN at - then ELSE 0
\* A shift by -1 is undefined in C++; the processors take the count modulo the width.
windowOf(dir, raw, scaled) ==
    IF ~scaled THEN raw
    ELSE IF dir.windowScale = 0 THEN Wrap(raw * (Modulus \div 2))
    ELSE Wrap(raw * 2 ^ (dir.windowScale - 1))
lastWindow(dir) == windowOf(dir, dir.window, "WindowScaled" \in dir.flags)
When(condition, is) == IF condition THEN {is} ELSE {}

-----------------------------------------------------------------------------
(* The analysis of segment s, sent in direction f, r the other one.        *)

\* Variant: a SYN sent again starts a new connection.
AnySynStarts(f, s) == "SYN" \in s.flags /\ "ACK" \notin s.flags /\ "BaseSeqSet" \in f.flags
startsNewConnection(f, s) ==
    /\ "SYN" \in s.flags /\ "ACK" \notin s.flags
    /\ "BaseSeqSet" \in f.flags /\ f.baseSeq # s.seq

learnBases(f, r, s) ==
    << IF "BaseSeqSet" \in f.flags THEN f
       ELSE [f EXCEPT !.baseSeq = IF "SYN" \in s.flags THEN s.seq ELSE Wrap(s.seq - 1),
                      !.flags = @ \cup {"BaseSeqSet"}],
       IF "BaseSeqSet" \in r.flags \/ "ACK" \notin s.flags THEN r
       ELSE [r EXCEPT !.baseSeq = Wrap(s.ack - 1), !.flags = @ \cup {"BaseSeqSet"}] >>

\* followHandshake(), and the window scale of a SYN.
followHandshake(f, s) ==
    IF "SYN" \notin s.flags THEN [f EXCEPT !.flags = @ \ {"SynPending"}]
    ELSE [f EXCEPT
           !.flags = @ \cup {"SynSeen"}
                     \cup When("ACK" \notin s.flags /\ ("SynSeen" \notin f.flags \/ "SynPending" \in f.flags),
                               "SynPending"),
           !.windowScale = IF s.shift = 0 THEN 0 ELSE s.shift + 1]

\* The initial round-trip time, of the segment that completes the handshake.
initialRtt(f, r, s) ==
    IF "SYN" \notin s.flags /\ "SynPending" \in f.flags /\ "ACK" \in s.flags /\ "SynSeen" \in r.flags
    THEN {elapsedNs(f.lastTime, s.time)} ELSE {}

\* A segment as the classification sees it: relative numbers, the window scaled.
Relative(f, r, s) ==
    LET scaled == "SYN" \notin s.flags /\ f.windowScale # 0 /\ r.windowScale # 0
    IN  [s EXCEPT !.seq = Wrap(@ - f.baseSeq),
                  !.ack = IF "ACK" \in s.flags THEN Wrap(@ - r.baseSeq) ELSE 0,
                  !.scaled = scaled, !.window = windowOf(f, s.raw, scaled)]

Plain(s) == s.flags \cap {"SYN", "FIN", "RST"} = {}
WindowKnown(dir) == "WindowKnown" \in dir.flags
Probe(f, r, s) == s.len = 1 /\ s.seq = f.nextSeq /\ WindowKnown(r) /\ r.window = 0

\* checkAck(): what repeats the last segment's position and window, without data.
Repeats(f, s) ==
    s.len = 0 /\ WindowKnown(f) /\ s.window = lastWindow(f) /\ s.seq = f.nextSeq /\ Plain(s)
RepeatMarker(f, r, s) ==
    IF s.window # 0 /\ s.ack = f.lastAck /\ "KeepAlive" \in r.flags THEN {"KeepAliveAck"}
    ELSE IF s.window = 0 /\ s.ack \in {f.lastAck, Wrap(f.lastAck + 1)} /\ "ZeroWindowProbe" \in r.flags
         THEN {"ZeroWindowProbeAck"}
    ELSE When(s.window # 0 /\ s.ack = f.lastAck, "DupAck")

ScaleKnown(f, r) == "SynSeen" \in r.flags \/ ("SynSeen" \in f.flags /\ f.windowScale = 0)

\* checkAck().
checkAck(f, r, s) ==
    IF Probe(f, r, s) THEN {"ZeroWindowProbe"}
    ELSE When(s.window = 0 /\ Plain(s), "ZeroWindow")
         \cup When(f.nextSeq # 0 /\ seqAfter(s.seq, f.nextSeq) /\ "RST" \notin s.flags, "NotCaptured")
         \cup When(s.len <= 1 /\ f.nextSeq # 0 /\ s.seq = Wrap(f.nextSeq - 1) /\ Plain(s), "KeepAlive")
         \cup When(/\ s.len = 0 /\ s.window # 0 /\ Plain(s)
                   /\ ~WindowKnown(f) \/ s.window # lastWindow(f)
                   /\ s.seq = f.nextSeq /\ s.ack = f.lastAck, "WindowUpdate")
         \cup When(/\ s.len > 0 /\ ScaleKnown(f, r) /\ WindowKnown(r) /\ Plain(s)
                   /\ Wrap(s.seq + s.len) = Wrap(r.lastAck + lastWindow(r)), "WindowFull")
         \cup (IF Repeats(f, s) THEN RepeatMarker(f, r, s) ELSE {})

SynFin(s) == IF s.flags \cap {"SYN", "FIN"} # {} THEN 1 ELSE 0

\* The data was acknowledged already.
Spurious(f, r, s) == s.len > 0 /\ r.lastAck # 0 /\ ~seqAfter(s.seq + s.len, r.lastAck)

NotAdvanced(f, s) ==
    /\ f.nextSeq # 0 /\ seqBefore(s.seq, f.nextSeq)
    /\ ~(s.len > 1 /\ Wrap(f.nextSeq - 1) = s.seq)

\* classify(): whether a segment is sent again, or late.
SentAgain(f, r, s) ==
    LET t == elapsedNs(r.lastTime, s.time)
    IN  IF Spurious(f, r, s) THEN {"SpuriousRetransmission"}
        ELSE IF ~NotAdvanced(f, s) THEN {}
        ELSE IF t < FastT /\ r.dupAcks >= 2 /\ r.lastAck = s.seq THEN {"FastRetransmission"}
        ELSE IF t < OutOfOrderT /\ (\/ f.nextSeq # Wrap(s.seq + s.len + SynFin(s))
                                    \/ "AdvancedWithData" \notin f.flags)
             THEN {"OutOfOrder"}
        ELSE {"Retransmission"}

\* classify(): the markers of the segment.
Markers(f, r, s) ==
    LET m == checkAck(f, r, s)
    IN  m \cup (IF (s.len > 0 \/ SynFin(s) = 1) /\ "KeepAlive" \notin m THEN SentAgain(f, r, s) ELSE {})

DupAcks(f, s, m) == IF s.ack # f.lastAck THEN 0 ELSE f.dupAcks + (IF "DupAck" \in m THEN 1 ELSE 0)

\* classify(): what its direction keeps of the segment.
Remember(f, s, m) ==
    LET next == Wrap(s.seq + s.len + SynFin(s))
        data == IF f.nextSeq = 0 \/ seqAfter(next, Wrap(f.nextSeq + SynFin(s)))
                THEN When(s.len > 0, "AdvancedWithData")
                ELSE f.flags \cap {"AdvancedWithData"}
    IN  [f EXCEPT
           !.nextSeq = IF (f.nextSeq = 0 \/ seqAfter(next, f.nextSeq)) /\ "ZeroWindowProbe" \notin m
                       THEN next ELSE @,
           !.lastNonDupAck = IF s.ack # f.lastAck THEN s.number ELSE @,
           !.dupAcks = DupAcks(f, s, m),
           !.flags = (@ \ SegmentFlags) \cup {"WindowKnown"} \cup When(s.scaled, "WindowScaled") \cup data
                     \cup (m \cap {"KeepAlive", "ZeroWindowProbe"}),
           !.window = s.raw, !.lastAck = s.ack, !.lastTime = s.time]

\* checkAck(): the receiver took the probe's byte after all.
ProbeTaken(f, r, s, m) ==
    IF "ZeroWindowProbeAck" \in m /\ s.ack = Wrap(f.lastAck + 1) THEN [r EXCEPT !.nextSeq = s.ack] ELSE r

\* analyseTcp(): of fresh or known directions, to those after, and what is shown.
Analysed(f, r, s) ==
    LET g == followHandshake(f, s)
        x == Relative(g, r, s)
        m == Markers(g, r, x)
    IN  [ fwd |-> Remember(g, x, m), rev |-> ProbeTaken(g, r, x, m), rtt |-> initialRtt(f, r, s),
          seq |-> x.seq, ack |-> x.ack, markers |-> m, dupOf |-> g.lastNonDupAck, dups |-> DupAcks(g, x, m),
          shift |-> IF "WindowScaled" \in g.flags THEN g.windowScale - 1 ELSE 0 ]

analyseTcp(d, s, old) ==
    LET b == IF startsNewConnection(old[d], s)
             THEN learnBases(Direction, Direction, s)
             ELSE learnBases(old[d], old[Other(d)], s)
    IN  Analysed(b[1], b[2], s)

-----------------------------------------------------------------------------
(* The ends, and the capture of what they send.                            *)

TcpInit ==
    /\ isn \in [Ends -> Isns]
    /\ sent \in {[d \in Ends |-> 0], [d \in Ends |-> 3]} /\ acked = sent  \* before, or amid
    /\ now = 10 /\ tcp = [d \in Ends |-> Direction] /\ seg = NoSegment
    /\ taken = [d \in Ends |-> {}] /\ clean = TRUE /\ synTime = 0 /\ segments = Min({1, sent[1]}) /\ faults = 0

\* A segment from `at' on is captured, after a while, or it is not captured.
Segment(d, flags, at, len, ack, raw, shift) ==
    \E wait \in IF at < sent[d] \/ "SYN" \in flags THEN Waits ELSE {0} :
      LET s == [number |-> segments + 1, time |-> now + wait, flags |-> flags, seq |-> Wrap(isn'[d] + at),
                ack |-> Wrap(isn'[Other(d)] + ack), len |-> len, raw |-> raw, shift |-> shift,
                window |-> 0, scaled |-> FALSE]
          a == analyseTcp(d, s, tcp)
          bytes == at..(at + len + SynFin(s) - 1)
          seen == IF isn' # isn THEN {} ELSE taken[d]
      IN  /\ now' = s.time /\ synTime' = IF "SYN" \in flags /\ d = 1 THEN s.time ELSE synTime
          /\ tcp' = [e \in Ends |-> IF e = d THEN a.fwd ELSE a.rev]
          /\ taken' = [taken EXCEPT ![d] = IF "ZeroWindowProbe" \in a.markers THEN seen ELSE seen \cup bytes,
                                    ![Other(d)] = IF isn' # isn THEN {} ELSE @]
          /\ seg' = [dir |-> d, flags |-> flags, number |-> s.number, at |-> at, len |-> len, ackOf |-> ack,
                     seq |-> a.seq, ack |-> a.ack, markers |-> a.markers, rtt |-> a.rtt, dups |-> a.dups,
                     dupOf |-> a.dupOf, shift |-> a.shift, again |-> bytes # {} /\ bytes \subseteq seen]

Captured(d, flags, at, len, ack, raw, shift) ==
    /\ segments < MaxSegments /\ segments' = segments + 1
    /\ \/ Segment(d, flags, at, len, ack, raw, shift) /\ UNCHANGED faults
       \/ faults < MaxFaults /\ faults' = faults + 1 /\ UNCHANGED <<now, tcp, taken, seg, synTime>>
    /\ clean' = (clean /\ faults' = faults /\ raw # 0)

LastRaw(d) == IF WindowKnown(tcp[d]) THEN tcp[d].window ELSE Max(Windows)

\* The client opens a connection, the first or another with another number.
OpenConnection ==
    /\ sent[1] = 0 \/ sent[2] > 0
    /\ segments < MaxSegments /\ segments' = segments + 1
    /\ isn' = [d \in Ends |-> Wrap(isn[d] + 6)] /\ isn'[1] # tcp[1].baseSeq
    /\ sent' = [d \in Ends |-> 2 - d] /\ acked' = [d \in Ends |-> 0]
    /\ clean' = TRUE /\ UNCHANGED faults
    /\ \E shift \in 0..1 : Segment(1, {"SYN"}, 0, 0, 0, Max(Windows), shift)

SynAck ==
    /\ sent = [d \in Ends |-> 2 - d]
    /\ sent' = [d \in Ends |-> 1] /\ acked' = [acked EXCEPT ![2] = 1] /\ UNCHANGED isn
    /\ \E shift \in 0..1 : Captured(2, {"SYN", "ACK"}, 0, 0, 1, Max(Windows), shift)

Open1(d) == sent[d] > 0 /\ sent[Other(d)] > 0
Acks(d) == {Max({1, acked[d]}), sent[Other(d)]}

\* New data, or the end of it.
Send(d) ==
    /\ Open1(d)
    /\ \E len \in 1..2, ack \in Acks(d) :
          /\ sent[d] + len - acked[Other(d)] < MaxFlight
          /\ sent' = [sent EXCEPT ![d] = @ + len]
          /\ acked' = [acked EXCEPT ![d] = ack] /\ UNCHANGED isn
          /\ Captured(d, {"ACK"}, sent[d], len, ack, LastRaw(d), 0)

Finish(d) ==
    /\ Open1(d)
    /\ sent' = [sent EXCEPT ![d] = @ + 1] /\ UNCHANGED <<isn, acked>>
    /\ Captured(d, {"ACK", "FIN"}, sent[d], 0, Max({1, acked[d]}), LastRaw(d), 0)

\* An acknowledgement, with a window.
Acknowledge(d) ==
    /\ Open1(d)
    /\ \E ack \in Acks(d), raw \in Windows :
          /\ acked' = [acked EXCEPT ![d] = ack] /\ UNCHANGED <<isn, sent>>
          /\ Captured(d, {"ACK"}, sent[d], 0, ack, raw, 0)

\* What was sent is sent again: a SYN, data, or a keep-alive.
Again(d) ==
    /\ faults < MaxFaults /\ faults' = faults + 1 /\ clean' = FALSE
    /\ segments < MaxSegments /\ segments' = segments + 1
    /\ UNCHANGED <<isn, sent, acked>>
    /\ \/ /\ sent[d] = 1
          /\ \E shift \in 0..1 :
                Segment(d, IF d = 1 THEN {"SYN"} ELSE {"SYN", "ACK"}, 0, 0, d - 1, Max(Windows), shift)
       \/ /\ Open1(d)
          /\ \E at \in 1..(sent[d] - 1), len \in 0..2 :
                /\ at + len <= sent[d] /\ (len = 0 => at = sent[d] - 1)
                /\ Segment(d, {"ACK"}, at, len, Max({1, acked[d]}), LastRaw(d), 0)

TcpNext ==
    \/ OpenConnection \/ SynAck
    \/ \E d \in Senders : Send(d) \/ Finish(d)
    \/ \E d \in Ends : Acknowledge(d) \/ Again(d)

TcpSpec == TcpInit /\ [][TcpNext]_tcpVars

-----------------------------------------------------------------------------
(* What the code must keep.                                                *)

Loss == {"NotCaptured", "OutOfOrder", "Retransmission", "FastRetransmission", "SpuriousRetransmission"}
IsThere == seg # NoSegment

\* The relative numbers are true where the connection's SYNs were captured, also
\* where the sequence numbers wrap and where the ports are used again: a segment
\* shows the offset of its first byte, and of the byte it acknowledges.
RelativeIsTheOffset ==
    /\ IsThere /\ 0 \in taken[seg.dir] => seg.seq = seg.at
    /\ IsThere /\ 0 \in taken[Other(seg.dir)] /\ "ACK" \in seg.flags => seg.ack = seg.ackOf

\* A connection that was captured whole and lost nothing gets no marker that tells
\* of loss, wherever the sequence numbers wrap, and wherever the capture began.
NoFalseAlarm == IsThere /\ clean => seg.markers \cap Loss = {}

\* A segment all of whose bytes were captured before is marked as one sent again,
\* or as what keeps a connection alive.
SentAgainIsMarked ==
    IsThere /\ seg.again => seg.markers \cap ((Loss \ {"NotCaptured"}) \cup {"KeepAlive"}) # {}

\* The initial round-trip time is shown by the first segment of the client that
\* follows a handshake both of whose SYNs were captured, and by no other.
RttIsTheHandshakes ==
    IsThere /\ seg.rtt # {} =>
        /\ seg.dir = 1 /\ "SYN" \notin seg.flags
        /\ \A d \in Ends : 0 \in taken[d]
        /\ seg.rtt = {now - synTime}
        /\ taken[1] \subseteq {0} \cup seg.at..(seg.at + seg.len)

\* What is said of a segment is true of its connection: its relative numbers, whether it
\* was sent before or something is missing, and the round trip of the handshake.
AnalysisIsTrue ==
    /\ TcpTypeOK
    /\ RelativeIsTheOffset /\ RttIsTheHandshakes
    /\ NoFalseAlarm /\ SentAgainIsMarked
=============================================================================
