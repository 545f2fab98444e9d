-------------------------- MODULE PacketPipeline --------------------------
(***************************************************************************)
(* The Packet Pipeline and the Packet Recorder: the steps every packet     *)
(* goes through between the reader and its line, the state they keep for   *)
(* the whole capture, and the summary taken of it, again and again in a    *)
(* live capture: stream_tracker.cpp, media_expectations.cpp,               *)
(* stream_labels.cpp, conversations.cpp, capture_stats.cpp, host_names.cpp *)
(* and packet_recorder.cpp.                                                *)
(*                                                                         *)
(* A packet is known by its ends, what a describer recognises in it on its *)
(* own, and what it teaches; `history' is every packet so far as shown.    *)
(***************************************************************************)
EXTENDS Integers, Sequences, FiniteSets, SequencesExt, FiniteSetsExt, Functions

CONSTANTS
    Kinds,        \* the packets that come
    Moves,        \* how far the time moves between two, also back
    MaxStreams,   \* PipelineOptions::maxStreams
    MaxLabels,    \* StreamLabels::kMaxLabels
    MaxExpected,  \* MediaExpectations::max_
    IdleSeconds,  \* kIdleSeconds
    MaxNames,     \* HostNames::maxNames_
    MaxEndpoints, \* CaptureStats::maxEndpoints
    ChunkRows,    \* ConversationRows::kChunkRows
    ExactValues,  \* RunningMedian::kExactValues
    SubBuckets,   \* RunningMedian::kSubBuckets
    MaxPackets    \* packets of the capture

ASSUME PipelineAssumption ==
    /\ {MaxStreams, MaxLabels, MaxNames, ChunkRows, SubBuckets} \subseteq Nat \ {0}
    /\ {MaxExpected, IdleSeconds, MaxEndpoints, ExactValues, MaxPackets} \subseteq Nat

VARIABLES
    ids,       \* StreamTracker: the conversations, in the order they were numbered
    labelOf,   \* StreamState::label of each, 0 without one
    labels,    \* StreamLabels::labels_
    expected,  \* MediaExpectations::expected_
    counts,    \* ConversationStats::Counts of each stream
    made,      \* the chunks of rows made last: rows, and whether a packet came since
    madeStart, \* the capture's start they were made with
    stats,     \* CaptureStats
    names,     \* HostNames: the addresses' names, the one learned longest ago first
    summary,   \* the CaptureSummary taken last, and of how many packets
    clock,     \* the last packet's time
    history    \* the packets, each with the protocol, name and stream it was shown with

pipelineVars == <<ids, labelOf, labels, expected, counts, made, madeStart, stats, names, summary, clock, history>>

NoSummary == [of |-> 0]
PipelineInit ==
    /\ ids = <<>> /\ labelOf = <<>> /\ labels = <<>>
    /\ expected = <<>>
    /\ counts = <<>> /\ made = <<>> /\ madeStart = 0
    /\ stats = [packets |-> 0, first |-> 0, last |-> 0, endpoints |-> <<>>, others |-> 0, otherPackets |-> 0,
                exact |-> <<>>, buckets |-> <<>>]
    /\ names = <<>> /\ summary = NoSummary
    /\ clock = 2 * IdleSeconds + 2 /\ history = <<>>

PipelineTypeOK ==
    /\ Len(ids) <= MaxStreams /\ Len(labels) <= MaxLabels
    /\ Len(labelOf) = Len(ids) /\ Len(counts) <= Len(ids)
    /\ \A i \in DOMAIN labelOf : labelOf[i] \in 0..Len(labels)
    /\ Cardinality(DOMAIN expected) <= MaxExpected
    /\ Len(names) <= MaxNames /\ Cardinality(DOMAIN stats.endpoints) <= MaxEndpoints
    /\ \A i, j \in DOMAIN names : names[i].address = names[j].address => i = j
    /\ Len(stats.exact) <= ExactValues

-----------------------------------------------------------------------------
(* StreamTracker::track(), and the state a new connection starts from.     *)

ConversationOf(k) == <<k.tcp, {k.from, k.to}>>
Number(k) == IF \E i \in DOMAIN ids : ids[i] = ConversationOf(k)
             THEN CHOOSE i \in DOMAIN ids : ids[i] = ConversationOf(k)
             ELSE IF Len(ids) < MaxStreams THEN Len(ids) + 1 ELSE 0
track(n, k) == IF n = Len(ids) + 1 THEN Append(ids, ConversationOf(k)) ELSE ids

\* analyseTcp(): a new connection on the same ports starts from a fresh state.
LabelBefore(n, k) == IF n > Len(ids) \/ k.opens THEN 0 ELSE labelOf[n]

-----------------------------------------------------------------------------
(* MediaExpectations.                                                      *)

Without(e, ends) == [x \in DOMAIN e \ ends |-> e[x]]

\* expect(): past the limit, the one whose last packet is the oldest is replaced.
expect(e, end, call, at) ==
    LET oldest == CHOOSE x \in DOMAIN e : \A y \in DOMAIN e : e[x].lastSeen <= e[y].lastSeen
        kept == IF end \notin DOMAIN e /\ Cardinality(DOMAIN e) >= MaxExpected THEN Without(e, {oldest}) ELSE e
    IN  [x \in DOMAIN kept \cup {end} |->
            IF x = end THEN [id |-> call.id, origin |-> call.origin, lastSeen |-> at] ELSE kept[x]]

\* Variant: an SDP body replaces what either side of its call announced.
ReplacedByAny(e, call) == {x \in DOMAIN e : e[x].id = call.id}

\* announce(): a BYE ends its call's, a body replaces its own side's.
Replaced(e, call) == {x \in DOMAIN e : e[x].id = call.id /\ (call.ends \/ e[x].origin = call.origin)}
announce(e, call, at) ==
    LET kept == Without(e, Replaced(e, call))
    IN  IF call.ends \/ MaxExpected = 0 THEN kept
        ELSE FoldLeft(LAMBDA f, end : expect(f, end, call, at), kept, call.media)

\* find(): a fresh one; an expired one is forgotten.
Idle(e, end, at) == end \in DOMAIN e /\ at - e[end].lastSeen > IdleSeconds
Expired(e, k, at) == IF Idle(e, k.to, at) THEN {k.to} ELSE {}
ExpiredFrom(e, k, at) ==
    IF k.to \in DOMAIN e /\ ~Idle(e, k.to, at) THEN {}
    ELSE Expired(e, k, at) \cup (IF Idle(e, k.from, at) THEN {k.from} ELSE {})

\* MediaExpectations::apply().
Announced(k, at) == FoldLeft(LAMBDA e, call : announce(e, call, at), expected, k.calls)
MediaEnd(e, k, at) == {x \in {k.to, k.from} : x \in DOMAIN e /\ ~Idle(e, x, at)}
IsMedia(e, k, at) == ~k.tcp /\ k.len > 0 /\ MediaEnd(e, k, at) # {} /\ k.rtp
applyMedia(e, k, at) ==
    IF k.tcp \/ k.len = 0 THEN e
    ELSE LET fresh == Without(e, ExpiredFrom(e, k, at))
             end == IF k.to \in MediaEnd(e, k, at) THEN k.to ELSE k.from
         IN  IF IsMedia(e, k, at) THEN [fresh EXCEPT ![end] = [@ EXCEPT !.lastSeen = at]] ELSE fresh

-----------------------------------------------------------------------------
(* StreamLabels::apply(), last: the first protocol recognised sticks.      *)

Recognised(e, k, at) == IF IsMedia(e, k, at) THEN "RTP" ELSE k.says
IndexOf(said) == CHOOSE i \in DOMAIN labels : labels[i] = said
LabelAfter(before, said) ==
    IF said = "" \/ before # 0 THEN before
    ELSE IF said \in ToSet(labels) THEN IndexOf(said)
    ELSE IF Len(labels) < MaxLabels THEN Len(labels) + 1 ELSE 0
LabelsAfter(before, said) ==
    IF said # "" /\ before = 0 /\ said \notin ToSet(labels) /\ Len(labels) < MaxLabels
    THEN Append(labels, said) ELSE labels
Protocol(n, k, before, said) ==
    IF said # "" THEN said
    ELSE IF n # 0 /\ before # 0 THEN labels[before] ELSE IF k.tcp THEN "TCP" ELSE "UDP"

-----------------------------------------------------------------------------
(* PacketRecorder::record(): the counts.                                   *)

\* ConversationStats::add().
CountsOf(c, k, label, at) ==
    [c EXCEPT !.fromA = @ + (IF k.from = c.a THEN 1 ELSE 0), !.fromB = @ + (IF k.from = c.a THEN 0 ELSE 1),
              !.first = Min({@, at}), !.last = Max({@, at}),
              !.label = IF label # 0 THEN label ELSE @]
addConversation(n, k, label, at) ==
    IF n = 0 THEN counts
    ELSE IF n <= Len(counts) THEN [counts EXCEPT ![n] = CountsOf(@, k, label, at)]
    ELSE Append(counts, CountsOf([a |-> k.from, fromA |-> 0, fromB |-> 0, first |-> at, last |-> at, label |-> 0],
                                 k, label, at))

\* The streams of a transport by number, and the chunk of the rows one is in.
Streams(all, tcp) == SelectSeq([i \in DOMAIN all |-> i], LAMBDA i : all[i][1] = tcp)
ChunkOf(all, n) == <<all[n][1], (Cardinality({i \in 1..(n - 1) : all[i][1] = all[n][1]})) \div ChunkRows>>
Changed(all, n) ==
    IF n # 0 /\ ChunkOf(all, n) \in DOMAIN made
    THEN [made EXCEPT ![ChunkOf(all, n)] = [@ EXCEPT !.changed = TRUE]] ELSE made

\* CaptureStats::countEndpoint(): past the limit, an unknown one counts as another.
countEndpoint(s, host) ==
    IF host \in DOMAIN s.endpoints THEN [s EXCEPT !.endpoints = [@ EXCEPT ![host] = @ + 1]]
    ELSE IF Cardinality(DOMAIN s.endpoints) < MaxEndpoints
         THEN [s EXCEPT !.endpoints = [x \in DOMAIN @ \cup {host} |-> IF x = host THEN 1 ELSE @[x]]]
         ELSE [s EXCEPT !.others = @ + 1]

\* RunningMedian: exact values, then buckets a SubBuckets'th of a power of two wide.
highestBit(value) == CHOOSE b \in 0..value : 2 ^ b <= value /\ value < 2 ^ (b + 1)
SubBits == highestBit(SubBuckets)
bucketOf(value) ==
    IF value < SubBuckets THEN value
    ELSE SubBuckets * (highestBit(value) - SubBits + 1) + value \div 2 ^ (highestBit(value) - SubBits) - SubBuckets
bucketMiddle(bucket) ==
    IF bucket < SubBuckets THEN bucket
    ELSE LET shift == bucket \div SubBuckets - 1
         IN  (SubBuckets + (bucket % SubBuckets)) * 2 ^ shift + (2 ^ shift) \div 2
BucketsOf(s, value) == Append([i \in DOMAIN s.exact |-> bucketOf(s.exact[i])], bucketOf(value))
addRtt(s, value) ==
    IF s.buckets # <<>> THEN [s EXCEPT !.buckets = Append(@, bucketOf(value))]
    ELSE IF Len(s.exact) < ExactValues THEN [s EXCEPT !.exact = Append(@, value)]
    ELSE [s EXCEPT !.buckets = BucketsOf(s, value), !.exact = <<>>]
Upper(values) == SortSeq(values, <)[Len(values) \div 2 + 1]
median(s) ==
    IF s.buckets # <<>> THEN bucketMiddle(Upper(s.buckets))
    ELSE IF s.exact # <<>> THEN Upper(s.exact) ELSE 0

\* CaptureStats::add(), addTcpAnalysis().
addStats(n, k, at) ==
    LET s == [stats EXCEPT !.packets = @ + 1,
                           !.first = IF stats.packets = 0 THEN at ELSE Min({@, at}),
                           !.last = IF stats.packets = 0 THEN at ELSE Max({@, at}),
                           !.otherPackets = @ + (IF n = 0 THEN 1 ELSE 0)]
        t == IF k.rtt = 0 THEN s ELSE addRtt(s, k.rtt)
    IN  countEndpoint(countEndpoint(t, k.from.host), k.to.host)

-----------------------------------------------------------------------------
(* HostNames.                                                              *)

HasName(list, address) == \E i \in DOMAIN list : list[i].address = address
find(list, address) == IF HasName(list, address)
                       THEN (CHOOSE i \in DOMAIN list : list[i].address = address) ELSE 0
NameOf(list, address) == IF HasName(list, address) THEN list[find(list, address)].name ELSE ""
\* add(): the name learned last; past the limit, the one learned longest ago goes.
addName(list, answer) ==
    IF HasName(list, answer.address) THEN Append(RemoveAt(list, find(list, answer.address)), answer)
    ELSE Append(IF Len(list) >= MaxNames THEN Tail(list) ELSE list, answer)
learn(k) == FoldLeft(addName, names, k.answers)

\* The names a packet's line is written with.
NamesShown(k) == names

-----------------------------------------------------------------------------
\* PacketPipeline::run(), PacketRecorder::record(), in their order.
Packet(k, at) ==
    LET n == Number(k)
        all == track(n, k)
        before == IF n = 0 THEN 0 ELSE LabelBefore(n, k)
        media == Announced(k, at)
        said == Recognised(media, k, at)
        after == IF n = 0 THEN 0 ELSE LabelAfter(before, said)
    IN  /\ ids' = all
        /\ expected' = applyMedia(media, k, at)
        /\ labels' = IF n = 0 THEN labels ELSE LabelsAfter(before, said)
        /\ labelOf' = IF n = 0 THEN labelOf ELSE [i \in 1..Len(all) |-> IF i = n THEN after ELSE labelOf[i]]
        /\ counts' = addConversation(n, k, after, at)
        /\ made' = Changed(all, n)
        /\ stats' = addStats(n, k, at)
        /\ names' = learn(k)
        /\ clock' = at
        /\ history' = Append(history, [kind |-> k, time |-> at, stream |-> n,
                                       protocol |-> Protocol(n, k, before, said), media |-> IsMedia(media, k, at),
                                       name |-> NameOf(NamesShown(k), k.from.host)])
        /\ UNCHANGED <<madeStart, summary>>

run ==
    /\ Len(history) < MaxPackets
    /\ \E k \in Kinds, move \in Moves : clock + move >= 0 /\ Packet(k, clock + move)

\* ConversationStats::row().
row(n) ==
    [stream |-> n, a |-> counts[n].a, fromA |-> counts[n].fromA, fromB |-> counts[n].fromB,
     protocol |-> IF counts[n].label = 0 THEN "" ELSE labels[counts[n].label],
     start |-> counts[n].first - stats.first, duration |-> counts[n].last - counts[n].first]
ChunkRowsOf(tcp, c) ==
    LET s == Streams(ids, tcp) IN [i \in 1..Min({ChunkRows, Len(s) - c * ChunkRows}) |-> row(s[c * ChunkRows + i])]
Chunks(tcp) == {<<tcp, c>> : c \in 0..((Len(Streams(ids, tcp)) - 1) \div ChunkRows)}

\* ConversationStats::rows(): chunks without a packet since are those made before.
Shared(c) ==
    /\ madeStart = stats.first /\ c \in DOMAIN made /\ ~made[c].changed
    /\ Len(made[c].rows) = Len(ChunkRowsOf(c[1], c[2]))
rows == [c \in UNION {Chunks(tcp) : tcp \in BOOLEAN} |->
            IF Shared(c) THEN made[c] ELSE [rows |-> ChunkRowsOf(c[1], c[2]), changed |-> FALSE]]

\* PacketRecorder::summary(): while the capture runs, and when it ends.
summarise ==
    /\ summary.of # Len(history)
    /\ made' = rows /\ madeStart' = stats.first
    /\ summary' = [of |-> Len(history), packets |-> stats.packets, seconds |-> stats.last - stats.first,
                   rows |-> [c \in DOMAIN made' |-> made'[c].rows],
                   endpoints |-> stats.endpoints, others |-> stats.others, otherPackets |-> stats.otherPackets,
                   median |-> median(stats), limit |-> stats.otherPackets > 0,
                   names |-> [x \in {y \in DOMAIN stats.endpoints : HasName(names, y)} |-> NameOf(names, x)]]
    /\ UNCHANGED <<ids, labelOf, labels, expected, counts, stats, names, clock, history>>

PipelineNext == run \/ summarise

PipelineSpec == PipelineInit /\ [][PipelineNext]_pipelineVars

-----------------------------------------------------------------------------
(* What the code must keep.                                                *)

Packets1 == DOMAIN history
\* The connection's packets before packet i: of its stream, since it was opened last.
Before(i) ==
    {j \in 1..(i - 1) : /\ history[j].stream = history[i].stream
                        /\ \A o \in (j + 1)..i : history[o].stream = history[i].stream => ~history[o].kind.opens}
SaidBefore(i) == {j \in Before(i) : history[j].kind.says # "" \/ history[j].media}

\* A packet nothing recognises is shown as its connection's protocol: the first one
\* recognised on it, unless the capture has more protocols than can be numbered,
\* and never as one of an older connection on its ports.
LabelIsOfTheConnection ==
    \A i \in Packets1 :
        LET said == SaidBefore(i)
            plain == history[i].kind.says = "" /\ ~history[i].media
        IN  plain => IF history[i].stream = 0 \/ said = {} THEN history[i].protocol \in {"TCP", "UDP"}
                     ELSE \/ history[i].protocol = history[Min(said)].protocol
                          \/ Len(labels) = MaxLabels

\* A packet is shown as media only if a call that was not over announced one of its
\* ends, its side announced nothing else since, and the end was not idle since.
MediaIsAnnounced ==
    \A i \in Packets1 : history[i].media =>
        \E j \in 1..i, c \in {"call", "other"}, o \in {"caller", "callee"}, end \in {history[i].kind.to, history[i].kind.from} :
            /\ \E call \in ToSet(history[j].kind.calls) :
                  ~call.ends /\ call.id = c /\ call.origin = o /\ end \in ToSet(call.media)
            /\ \A b \in (j + 1)..i : \A call \in ToSet(history[b].kind.calls) :
                  call.id = c => ~call.ends /\ (call.origin = o => end \in ToSet(call.media))
            /\ \E b \in j..i : b < i /\ history[i].time - history[b].time <= IdleSeconds
                               /\ (b = j \/ (history[b].media /\ end \in {history[b].kind.to, history[b].kind.from}))

\* The media both sides of a call announced is expected while the call lasts, as
\* far as the limit allows, whatever its other side announced since.
BothSidesAreExpected ==
    \A i \in Packets1 : i = Len(history) => \A call \in ToSet(history[i].kind.calls) : ~call.ends =>
        \A j \in 1..(i - 1) : \A first \in ToSet(history[j].kind.calls) :
            /\ first.id = call.id /\ first.origin # call.origin /\ ~first.ends
            /\ \A b \in (j + 1)..i : \A c \in ToSet(history[b].kind.calls) :
                  c.id = first.id => ~c.ends /\ c.origin # first.origin
            /\ \A b \in j..i : history[i].time - history[b].time \in 0..IdleSeconds
            /\ Cardinality(UNION {UNION {ToSet(c.media) : c \in ToSet(history[b].kind.calls)} : b \in 1..i}) <= MaxExpected
            => ToSet(first.media) \subseteq DOMAIN expected

\* A name labels an address from the packet after the answer that gave it, and is
\* the last one given; only the limit takes it away again.
NameIsOfAnEarlierAnswer ==
    \A i \in Packets1 : history[i].name # "" =>
        \E j \in 1..(i - 1) :
            /\ \E a \in ToSet(history[j].kind.answers) : a = [address |-> history[i].kind.from.host, name |-> history[i].name]
            /\ \A b \in (j + 1)..(i - 1) : \A a \in ToSet(history[b].kind.answers) :
                  a.address = history[i].kind.from.host => a.name = history[i].name

\* The counts of the first packets, taken anew.
Of(n) == {i \in 1..summary.of : history[i].stream = n}
Rtts == SelectSeq([i \in 1..summary.of |-> history[i].kind.rtt], LAMBDA r : r # 0)

\* The summary, whatever rows of it were made for an earlier one, counts every
\* packet so far once: in its stream's row or among those past the stream limit, and
\* at its ends or among those past the endpoint limit.
SummaryIsTheCapture ==
    summary # NoSummary =>
        /\ summary.packets = summary.of
        /\ \A c \in DOMAIN summary.rows : \A i \in DOMAIN summary.rows[c] :
              LET r == summary.rows[c][i]
                  own == Of(r.stream)
                  times == {history[p].time : p \in own}
                  all == {history[p].time : p \in 1..summary.of}
              IN  /\ r.a = history[Min(own)].kind.from
                  /\ r.fromA = Cardinality({p \in own : history[p].kind.from = r.a})
                  /\ r.fromA + r.fromB = Cardinality(own)
                  /\ r.start = Min(times) - Min(all) /\ r.duration = Max(times) - Min(times)
        /\ LET listed == UNION {{summary.rows[c][i].stream : i \in DOMAIN summary.rows[c]} : c \in DOMAIN summary.rows}
           IN  listed = {history[p].stream : p \in 1..summary.of} \ {0}
        /\ summary.otherPackets = Cardinality(Of(0))
        /\ 2 * summary.packets
             = summary.others + MapThenSumSet(LAMBDA x : summary.endpoints[x], DOMAIN summary.endpoints)

\* The median of the round-trip times is one of theirs, the upper middle one, to within
\* half a bucket once they are too many to keep.
MedianIsClose ==
    summary # NoSummary /\ Rtts # <<>> =>
        LET exact == Upper(Rtts)
        IN  IF Len(Rtts) <= ExactValues THEN summary.median = exact
            ELSE LET off == IF summary.median > exact THEN summary.median - exact ELSE exact - summary.median
                 IN  off * 2 * SubBuckets <= exact

\* What packets taught about the capture is told of the right ones: labels of their
\* connection, media of the call that announced them, names of an earlier answer; and
\* the summary is that of the packets before.
CaptureIsLearned ==
    /\ PipelineTypeOK
    /\ LabelIsOfTheConnection /\ NameIsOfAnEarlierAnswer
    /\ MediaIsAnnounced /\ BothSidesAreExpected
    /\ SummaryIsTheCapture /\ MedianIsClose
=============================================================================
