--------------------------- MODULE TcpReassembly ---------------------------
(***************************************************************************)
(* The TCP Reassembly (tcp_reassembly.cpp): per TCP stream and direction,  *)
(* the bytes of an application message that is not complete yet, held      *)
(* within a limit of the direction and one of all directions together.     *)
(*                                                                         *)
(* A packet is one step: apply() is called for every packet, in capture    *)
(* order.  The bytes a direction sends are messages one after the other,   *)
(* each byte known by its connection and its place; which bytes make a     *)
(* message is the Payload Describer's to say (tcpMessageExtent()), which   *)
(* knows a message's length once it has its header, and finds none in      *)
(* bytes from the middle of one.  What is described is reduced to its      *)
(* kind: of a packet's own bytes, of part of a message, of whole messages. *)
(***************************************************************************)
EXTENDS ByteStreamOrderer, FiniteSets

CONSTANTS
    Streams,            \* the streams with a state (stream.state)
    MessageLengths,     \* the lengths of the messages a direction sends, in order
    HeaderLengths,      \* per message, the bytes of it that tell its length
    Length,             \* per direction of each stream, the bytes it sends of them
    FirstSeq,           \* per connection, the sequence number of its first byte
    MaxSegment,         \* bound: the bytes of a segment
    AckPlaces,          \* bound: the places acknowledgements tell of
    MayBeHttp2,         \* the streams that may turn out to be HTTP/2
    Snaplen,            \* the bytes of a segment the capture has at most, if it cuts them
    SynData,            \* whether a SYN may carry bytes (TCP Fast Open)
    MemoryLimit,        \* memoryLimit_
    StreamLimit,        \* streamLimit_
    MaxEarlySegments,   \* kMaxEarlySegments
    EntryOverhead,      \* kEntryOverhead
    EarlyOverhead,      \* kEarlySegmentOverhead
    MaxSkip             \* kMaxSkip

Keys == Streams \X {0, 1}
Connections == DOMAIN FirstSeq

\* Where message n begins, and where the last one ends.
StartOf(n) == FoldLeft(LAMBDA sum, length : sum + length, 0, SubSeq(MessageLengths, 1, n - 1))

\* A byte of a message: its connection and its place.
Bytes == Connections \X (0..(StartOf(Len(MessageLengths) + 1) - 1))

\* What is held of a direction (TcpReassembly::Entry).
Entry == [held : Seq(Bytes), capacity : Nat, order : Orderer(Bytes), skipping : BOOLEAN,
          skipFrom : SeqNumbers, skipEnd : SeqNumbers, cost : Nat]

ASSUME MessagesAssumption ==
    /\ MessageLengths \in Seq(Nat \ {0})
    /\ HeaderLengths \in Seq(Nat \ {0}) /\ Len(HeaderLengths) = Len(MessageLengths)
    /\ MaxSegment \in Nat \ {0}
    /\ FirstSeq \in Seq(SeqNumbers) /\ FirstSeq # <<>>
    /\ Length \in [Keys -> Nat]
    /\ \A key \in Keys :
        2 * (Length[key] + 2) < SeqSpace /\ Length[key] <= StartOf(Len(MessageLengths) + 1)
    /\ Snaplen \in Nat
    /\ AckPlaces \subseteq Nat
    /\ SynData \in BOOLEAN
    /\ MayBeHttp2 \subseteq Streams
ASSUME LimitsAssumption ==
    {MemoryLimit, StreamLimit, MaxEarlySegments, EntryOverhead, EarlyOverhead, MaxSkip} \subseteq Nat
ASSUME NoEntryAssumption == Unset \notin Entry

VARIABLES
    entries,     \* entries_: per direction, what it holds, or Unset
    lru,         \* lru_: the held directions, the one used longest ago first
    used,        \* used_: the bytes counted as held
    heldBits,    \* the directions whose heldBit of StreamState::reassembly is set
    letGoBits,   \* the directions whose letGoBit is set
    http2,       \* the streams whose StreamState::kHttp2 is set
    connection,  \* the capture: per stream, its connection
    sent,        \* TcpDirection::nextSeq: the places each direction was seen to send, FIN included
    outcome      \* what the last packet was described as, and the messages returned

vars == <<entries, lru, used, heldBits, letGoBits, http2, connection, sent, outcome>>

Max2(a, b) == IF a > b THEN a ELSE b
Min2(a, b) == IF a < b THEN a ELSE b

\* The sequence number of place pos of a connection.
SeqAt(conn, pos) == (FirstSeq[conn] + pos) % SeqSpace

-----------------------------------------------------------------------------
(* The messages, as the Payload Describer frames them.                     *)

\* Where the messages begin, the last one's end included.
Starts == {StartOf(n) : n \in 1..(Len(MessageLengths) + 1)}
MessageAt(start) == CHOOSE n \in DOMAIN MessageLengths : StartOf(n) = start
EndAfter(start) == start + MessageLengths[MessageAt(start)]

\* No message begins there (MessageExtent::framer 0).
NoMessage == [framed |-> FALSE, length |-> 0, needsMore |-> FALSE]

\* tcpMessageExtent(): the message that begins the bytes, its length one more
\* than those given while its header is not there.
tcpMessageExtent(bytes) ==
    IF bytes[1][2] \notin Starts
    THEN NoMessage
    ELSE LET length == MessageLengths[MessageAt(bytes[1][2])]
             known == Len(bytes) >= Min2(HeaderLengths[MessageAt(bytes[1][2])], length)
         IN  [framed |-> TRUE,
              length |-> IF known THEN length ELSE Len(bytes) + 1,
              needsMore |-> Len(bytes) < length]

\* Variant: bytes that begin with a message are whole messages.
walkAll(bytes) == [end |-> Len(bytes), incomplete |-> NoMessage]

\* walkMessages(): where the bytes stop being whole messages, and the message
\* that goes on past them.
walkMessages(bytes) ==
    LET first == bytes[1][2]
        ends == {s - first : s \in {t \in Starts : first <= t /\ t <= first + Len(bytes)}}
        end == IF first \in Starts THEN CHOOSE e \in ends : \A f \in ends : f <= e
                                   ELSE Len(bytes)
    IN  [end |-> end,
         incomplete |-> IF end = Len(bytes) THEN NoMessage
                        ELSE tcpMessageExtent(SubSeq(bytes, end + 1, Len(bytes)))]

\* announcedPast(): the incomplete message is longer than limit, and its header
\* says by how much.
announcedPast(extent, rest, limit) ==
    extent.framed /\ extent.length > limit /\ extent.length > rest + 1

-----------------------------------------------------------------------------
(* The table, its order and its memory.  t is the table: entries, lru,     *)
(* used and the bits.                                                      *)

Table == [entries |-> entries, lru |-> lru, used |-> used,
          heldBits |-> heldBits, letGoBits |-> letGoBits]

\* The table with another entry for key.
With(t, key, entry) == [t EXCEPT !.entries = [@ EXCEPT ![key] = entry]]

release(t, key) ==
    IF t.entries[key] = Unset
    THEN t
    ELSE [With(t, key, Unset) EXCEPT !.used = @ - t.entries[key].cost,
                                     !.lru = RemoveFirst(@, key),
                                     !.heldBits = @ \ {key}]

\* The bytes an entry is counted with.
Footprint(entry) ==
    EntryOverhead + entry.capacity + earlyBytes(entry.order)
        + EarlyOverhead * Len(entry.order.early)

recharge(t, key) ==
    LET entry == [t.entries[key] EXCEPT !.cost = Footprint(t.entries[key])]
    IN  [With(t, key, entry) EXCEPT !.used = @ - t.entries[key].cost + entry.cost]

\* Variant: one direction is let go at most.
makeRoomOnce(t, bytes, keep) ==
    LET others == SelectSeq(t.lru, LAMBDA key : key # keep)
        room == IF t.used + bytes <= MemoryLimit \/ others = <<>> THEN t
                ELSE release([t EXCEPT !.letGoBits = @ \cup {others[1]}], others[1])
    IN  [ok |-> room.used + bytes <= MemoryLimit \/ others # <<>>, t |-> room]

\* makeRoom(): lets go of the directions that waited longest, never keep,
\* until bytes more fit.
makeRoom(t, bytes, keep) ==
    LET letGo(u, key) ==
            IF u.used + bytes > MemoryLimit /\ key # keep
            THEN [release(u, key) EXCEPT !.letGoBits = @ \cup {key}]
            ELSE u
        tried(u) == [ok |-> u.used + bytes <= MemoryLimit, t |-> u]
    IN  tried(FoldLeft(letGo, t, t.lru))

\* reserve(): room in the buffer of key for extra more bytes, grown by half at
\* least, within the limits.
reserve(t, key, extra) ==
    LET entry == t.entries[key]
        early == earlyBytes(entry.order)
        needed == Len(entry.held) + extra
        grown == Max2(needed, Min2(entry.capacity + entry.capacity \div 2, StreamLimit - early))
        grow(room) ==
            IF room.ok
            THEN [ok |-> TRUE, t |-> recharge(With(room.t, key, [entry EXCEPT !.capacity = grown]), key)]
            ELSE room
    IN  IF needed + early > StreamLimit THEN [ok |-> FALSE, t |-> t]
        ELSE IF needed <= entry.capacity THEN [ok |-> TRUE, t |-> t]
        ELSE grow(makeRoom(t, grown - entry.capacity, key))

append(t, key, bytes) ==
    LET more(entry) == [entry EXCEPT !.held = @ \o bytes, !.order = advance(@, Len(bytes))]
        put(room) == IF room.ok THEN [ok |-> TRUE, t |-> With(room.t, key, more(room.t.entries[key]))]
                                ELSE room
    IN  put(reserve(t, key, Len(bytes)))

\* holdEarly() of the reassembly: a segment that came early, if it can be held.
HoldSegment(t, key, seq, payload) ==
    LET entry == t.entries[key]
        more == [entry EXCEPT !.order = holdEarly(@, seq, payload)]
        put(room) == IF room.ok THEN [ok |-> TRUE, t |-> recharge(With(room.t, key, more), key)]
                                ELSE room
    IN  IF holds(entry.order, seq, Len(payload)) THEN [ok |-> TRUE, t |-> t]
        ELSE IF \/ Len(entry.order.early) >= MaxEarlySegments
                \/ entry.capacity + earlyBytes(entry.order) + Len(payload) > StreamLimit
        THEN [ok |-> FALSE, t |-> t]
        ELSE put(makeRoom(t, EarlyOverhead + Len(payload), key))

\* appendEarly(): the segments that came early and are next now.
appendEarly(t, key) ==
    LET one(a, i) ==
            LET popped == popNext(a.t.entries[key].order)
                u == With(a.t, key, [a.t.entries[key] EXCEPT !.order = popped.order])
            IN  IF ~a.ok THEN a
                ELSE IF popped.bytes = <<>> THEN [ok |-> TRUE, t |-> u]
                ELSE append(u, key, popped.bytes)
        counted(all) == IF all.ok THEN [ok |-> TRUE, t |-> recharge(all.t, key)] ELSE all
    IN  counted(FoldLeft(one, [ok |-> TRUE, t |-> t], t.entries[key].order.early))

\* A new entry of key, counted and used last.
Insert(t, key, entry) ==
    recharge([With(t, key, entry) EXCEPT !.lru = Append(@, key), !.heldBits = @ \cup {key}], key)

Touch(t, key) == [t EXCEPT !.lru = Append(RemoveFirst(@, key), key)]

NewEntry == [held |-> <<>>, capacity |-> 0, order |-> reset(0), skipping |-> FALSE,
             skipFrom |-> 0, skipEnd |-> 0, cost |-> 0]

\* skip(): the rest of a message past the limit, from sequence number from on,
\* in place of what the direction holds.
skip(t, key, from, bytes) ==
    LET put(room) ==
            IF ~room.ok THEN room.t
            ELSE Insert(room.t, key, [NewEntry EXCEPT !.skipping = TRUE, !.skipFrom = from,
                                                      !.skipEnd = (from + bytes) % SeqSpace])
    IN  IF bytes > MaxSkip THEN release(t, key)
        ELSE put(makeRoom(release(t, key), EntryOverhead, key))

-----------------------------------------------------------------------------
(* What a segment comes to: the table after it, and how it is described.   *)

\* A packet keeps its own description, or is described as part of a message,
\* as part of one past the limit, or from whole messages; it may be marked with
\* the limit, and the whole messages are returned.
Kinds == {"own", "segment", "continuation", "messages"}
Taken(t, kind, limit, bytes) ==
    [t |-> t, out |-> [kind |-> kind, limit |-> limit, bytes |-> bytes, key |-> Unset]]

NoOutcome == [kind |-> "own", limit |-> FALSE, bytes |-> <<>>, key |-> Unset]

\* The next message's bytes rest go on being held by key, in a buffer as large
\* as it announces if there is room, else of its bytes at hand.
HoldRest(t, key, rest, extent) ==
    LET buffered(u, bytes, capacity) ==
            recharge(With(u, key, [u.entries[key] EXCEPT !.held = bytes, !.capacity = capacity]), key)
        put(room, capacity) ==
            IF room.ok THEN [ok |-> TRUE, t |-> buffered(room.t, rest, capacity)]
                       ELSE [ok |-> FALSE, t |-> release(room.t, key)]
        again(first, wanted) ==
            IF first.ok THEN put(first, wanted)
                        ELSE put(makeRoom(first.t, Len(rest), key), Len(rest))
        hold(u) ==
            LET wanted == Max2(Len(rest),
                               Min2(extent.length, StreamLimit - earlyBytes(u.entries[key].order)))
            IN  again(makeRoom(u, wanted, key), wanted)
    IN  hold(buffered(t, <<>>, 0))

\* continueMessage(): what the held bytes of key hold now.
continueMessage(t, key) ==
    LET entry == t.entries[key]
        go(walk) ==
            LET whole == SubSeq(entry.held, 1, walk.end)
                rest == SubSeq(entry.held, walk.end + 1, Len(entry.held))
                holding(next) == Taken(next.t, "messages", ~next.ok, whole)
            IN  IF announcedPast(walk.incomplete, Len(rest), StreamLimit)
                THEN Taken(skip(t, key, entry.order.nextSeq, walk.incomplete.length - Len(rest)),
                           "messages", TRUE, whole)
                ELSE IF walk.end = 0 THEN Taken(t, "segment", FALSE, <<>>)
                ELSE IF ~walk.incomplete.framed
                THEN Taken(release(t, key), "messages", FALSE, whole)
                ELSE holding(HoldRest(t, key, rest, walk.incomplete))
    IN  go(walkMessages(entry.held))

\* startMessage(): holds the message a segment that ends at sequence number end
\* ends in, when nothing is held; after tells that the payload follows a
\* skipped message in its segment.
startMessage(t, key, end, payload, after) ==
    LET kind == IF after THEN "messages" ELSE "own"
        go(walk, extent) ==
            LET whole == SubSeq(payload, 1, walk.end)
                rest == SubSeq(payload, walk.end + 1, Len(payload))
                buffer == Max2(Len(rest), Min2(extent.length, StreamLimit))
                past(u) == Taken(IF announcedPast(extent, Len(rest), StreamLimit)
                                 THEN skip(u, key, end, extent.length - Len(rest)) ELSE u,
                                 kind, TRUE, <<>>)
                put(room) ==
                    IF ~room.ok THEN past(room.t)
                    ELSE Taken(Insert(room.t, key, [NewEntry EXCEPT !.held = rest,
                                                        !.capacity = buffer, !.order = reset(end)]),
                               IF walk.end = 0 THEN "segment" ELSE "messages", FALSE, whole)
            IN  IF ~extent.framed THEN Taken(t, kind, FALSE, whole)
                ELSE IF extent.length > StreamLimit THEN past(release(t, key))
                ELSE put(makeRoom(release(t, key), EntryOverhead + buffer, key))
        begin(walk) == go(walk, walk.incomplete)
    IN  IF ~tcpMessageExtent(payload).framed THEN Taken(t, kind, FALSE, <<>>)
        ELSE begin(walkMessages(payload))

\* skipSegment(): a segment of a direction that skips a message; past is TRUE
\* when it lies past the message, to be taken as any.
skipSegment(t, key, seq, len, cut, payload) ==
    LET entry == t.entries[key]
        u == Touch(t, key)
        end == (seq + len) % SeqSpace
        offset == seqAfter(entry.skipEnd, seq)
        within(taken) == [past |-> FALSE, taken |-> taken]
    IN  IF seqAfter(entry.skipFrom, seq) > 0 THEN within(Taken(u, "own", FALSE, <<>>))
        ELSE IF seqAfter(end, entry.skipEnd) <= 0
        THEN within(Taken(IF end = entry.skipEnd THEN release(u, key) ELSE u,
                          "continuation", FALSE, <<>>))
        ELSE IF offset <= 0 THEN [past |-> TRUE, taken |-> Taken(release(u, key), "own", FALSE, <<>>)]
        ELSE IF cut THEN within(Taken(release(u, key), "continuation", FALSE, <<>>))
        ELSE within(startMessage(release(u, key), key, end,
                                 SubSeq(payload, offset + 1, Len(payload)), TRUE))

\* segment(): takes a segment's payload, in sequence order; sentBefore tells
\* that bytes after it were seen.
segment(t, key, seq, len, cut, payload, sentBefore) ==
    LET entry == IF key \in t.heldBits THEN t.entries[key] ELSE Unset
        noRoom(u) == Taken(release(u, key), "own", TRUE, <<>>)
        start(u) == IF sentBefore THEN Taken(u, "own", FALSE, <<>>)
                    ELSE startMessage(u, key, (seq + len) % SeqSpace, payload, FALSE)
        \* A segment of a skipped message, or past it, to be taken as any.
        skipped(s) == IF ~s.past \/ cut THEN s.taken ELSE start(s.taken.t)
        \* The segment came early, or is next with the early ones after it.
        early(held) == IF held.ok THEN Taken(held.t, "segment", FALSE, <<>>)
                       ELSE start(release(held.t, key))
        all(held) == IF held.ok THEN continueMessage(held.t, key) ELSE noRoom(held.t)
        next(held) == IF held.ok THEN all(appendEarly(held.t, key)) ELSE noRoom(held.t)
        take(u, at) ==
            IF at.fit = "Early" THEN early(HoldSegment(u, key, seq, payload))
            ELSE IF at.fit = "Taken" THEN Taken(u, "own", FALSE, <<>>)
            ELSE next(append(u, key, SubSeq(payload, at.overlap + 1, len)))
    IN  IF entry # Unset /\ entry.skipping
        THEN skipped(skipSegment(t, key, seq, len, cut, payload))
        ELSE IF cut THEN Taken(IF entry # Unset THEN release(t, key) ELSE t, "own", FALSE, <<>>)
        ELSE IF entry = Unset THEN start(t)
        ELSE take(Touch(t, key), place(entry.order, seq, len))

-----------------------------------------------------------------------------
(* The packets of the capture, and apply() for each.                       *)

Init ==
    /\ entries = [key \in Keys |-> Unset]
    /\ lru = <<>>
    /\ used = 0
    /\ heldBits = {}
    /\ letGoBits = {}
    /\ http2 = {}
    /\ connection = [stream \in Streams |-> 1]
    /\ sent = [key \in Keys |-> 0]
    /\ outcome = NoOutcome

Both(stream) == {<<stream, 0>>, <<stream, 1>>}
releaseBoth(t, stream) == release(release(t, <<stream, 0>>), <<stream, 1>>)

\* apply(): takes a packet of key with the table t, its payload at sequence
\* number seq; ack is what it acknowledges of the other direction, or Unset.
apply(t, key, packet, seq, payload, ack, sentBefore) ==
    LET stream == key[1]
        other == <<stream, 1 - key[2]>>
        opened == IF packet.syn THEN releaseBoth(t, stream) ELSE t
        gap == /\ ack # Unset
               /\ other \in opened.heldBits
               /\ ~opened.entries[other].skipping
               /\ seqAfter(ack, opened.entries[other].order.nextSeq) > 0
        acked == IF gap THEN release(opened, other) ELSE opened
        letGo == key \in acked.letGoBits
        marked(taken) == IF letGo THEN Taken(taken.t, taken.out.kind, TRUE, taken.out.bytes) ELSE taken
        ended(taken) ==
            IF packet.rst THEN [taken EXCEPT !.t = releaseBoth(@, stream)]
            ELSE IF packet.fin THEN [taken EXCEPT !.t = release(@, key)] ELSE taken
    IN  ended(IF packet.len > 0 /\ stream \notin http2
              THEN marked(segment([acked EXCEPT !.letGoBits = @ \ {key}], key, seq, packet.len,
                                  packet.cut, payload, sentBefore))
              ELSE Taken(acked, "own", FALSE, <<>>))

\* What the capture may hold of a direction: a segment of its bytes, cut at the
\* snaplen or whole, its SYN, its FIN after the last byte, a reset, and an
\* acknowledgement of the other direction's places.
Segments(key) ==
    {packet \in [pos : 0..Length[key], len : 0..MaxSegment, cut : BOOLEAN, syn : BOOLEAN,
                 fin : BOOLEAN, rst : BOOLEAN] :
        /\ packet.pos + packet.len <= Length[key]
        /\ packet.cut => packet.len > Snaplen
        /\ packet.syn => packet.pos = 0 /\ ~packet.fin /\ (packet.len = 0 \/ SynData)
        /\ packet.fin => packet.pos + packet.len = Length[key]
        /\ packet.rst => packet.len = 0 /\ packet.pos = 0 /\ ~packet.syn /\ ~packet.fin}
SegmentsOf == [key \in Keys |-> Segments(key)]
\* Only a direction that sends is acknowledged, its FIN included.
AcksOf(key) ==
    LET other == Length[<<key[1], 1 - key[2]>>]
    IN  {Unset} \cup IF other = 0 THEN {} ELSE AckPlaces \cap 0..(other + 1)

\* Variant: the state of the old connection is kept.
ForgetNothing(t, stream) == t

\* The StreamState a SYN of a new connection makes afresh (analyseTcp()).
Forget(t, stream) ==
    [t EXCEPT !.heldBits = @ \ Both(stream), !.letGoBits = @ \ Both(stream)]

\* A packet goes through the analysis, which follows how far its direction has
\* sent, then through apply().
Packet(key, packet, ackPos) ==
    LET stream == key[1]
        conn == connection'[stream]
        new == connection' # connection
        seq == (SeqAt(conn, packet.pos) - IF packet.syn THEN 1 ELSE 0) % SeqSpace
        payload == [i \in 1..packet.len |-> <<conn, packet.pos + i - 1>>]
        ack == IF ackPos = Unset THEN Unset ELSE SeqAt(conn, ackPos)
        end == packet.pos + packet.len + IF packet.fin THEN 1 ELSE 0
        seen == IF new THEN [k \in Keys |-> IF k \in Both(stream) THEN 0 ELSE sent[k]] ELSE sent
        becomes(taken) ==
            /\ entries' = taken.t.entries
            /\ lru' = taken.t.lru
            /\ used' = taken.t.used
            /\ heldBits' = taken.t.heldBits
            /\ letGoBits' = taken.t.letGoBits
            /\ outcome' = [taken.out EXCEPT !.key = IF packet.fin THEN Unset ELSE key]
    IN  /\ \/ UNCHANGED connection
           \/ /\ packet.syn /\ ackPos = Unset
              /\ connection[stream] + 1 \in Connections
              /\ connection' = [connection EXCEPT ![stream] = @ + 1]
        /\ sent' = [seen EXCEPT ![key] = Max2(@, end)]
        /\ becomes(apply(IF new THEN Forget(Table, stream) ELSE Table, key, packet, seq, payload,
                         ack, seen[key] > end))
        /\ http2' = IF new THEN http2 \ {stream} ELSE http2

\* A SYN of a new connection whose header is bogus: the analysis forgets the
\* stream's state, apply() leaves the packet and what is held as they are.
BogusSyn(stream) ==
    /\ connection[stream] + 1 \in Connections
    /\ connection' = [connection EXCEPT ![stream] = @ + 1]
    /\ sent' = [k \in Keys |-> IF k \in Both(stream) THEN 0 ELSE sent[k]]
    /\ heldBits' = Forget(Table, stream).heldBits
    /\ letGoBits' = Forget(Table, stream).letGoBits
    /\ http2' = http2 \ {stream}
    /\ outcome' = NoOutcome
    /\ UNCHANGED <<entries, lru, used>>

\* The stream turns out to be HTTP/2 (describe_http.cpp).
BecomesHttp2(stream) ==
    /\ stream \in MayBeHttp2 \ http2
    /\ http2' = http2 \cup {stream}
    /\ outcome' = NoOutcome
    /\ UNCHANGED <<entries, lru, used, heldBits, letGoBits, connection, sent>>

\* What a stream's packets may be.
PacketOf(stream) ==
    \E key \in Both(stream) : \E packet \in SegmentsOf[key] :
        \E ackPos \in AcksOf(key) : Packet(key, packet, ackPos)

Next == \E stream \in Streams : PacketOf(stream) \/ BogusSyn(stream) \/ BecomesHttp2(stream)

Spec == Init /\ [][Next]_vars

-----------------------------------------------------------------------------
(* What the code must keep.                                                *)

Entries == {key \in Keys : entries[key] # Unset}

\* The table, the bits and the outcome have their types.
TypeOK ==
    /\ entries \in [Keys -> Entry \cup {Unset}]
    /\ used \in Nat
    /\ lru \in Seq(Keys)
    /\ heldBits \subseteq Keys /\ letGoBits \subseteq Keys /\ http2 \subseteq Streams
    /\ outcome.kind \in Kinds /\ outcome.limit \in BOOLEAN

\* The memory counted is the memory held, whatever was moved, dropped or let
\* go on the way, and never more than the limit of all directions.
MemoryIsCounted ==
    /\ \A key \in Entries : entries[key].cost = Footprint(entries[key])
    /\ used = FoldLeft(LAMBDA sum, key : sum + entries[key].cost, 0, lru)
    /\ used <= MemoryLimit

\* A direction holds no more than its limit, its buffer and the segments that
\* came early together.
DirectionIsBounded ==
    \A key \in Entries :
        /\ Len(entries[key].held) <= entries[key].capacity
        /\ entries[key].capacity + earlyBytes(entries[key].order) <= StreamLimit
        /\ Len(entries[key].order.early) <= MaxEarlySegments

\* The table, the order its directions were used in and the bits in the
\* streams' states agree: a direction found by its bit has its entry, and each
\* entry has one place in the order.
TablesAgree ==
    /\ heldBits \subseteq Entries
    /\ ToSet(lru) = Entries
    /\ Len(lru) = Cardinality(Entries)

Held(key) == key \in heldBits /\ ~entries[key].skipping

\* What a direction holds is what it sent: from the start of a message of its
\* connection on, every byte in its place and the message not complete; the
\* segments held early lie past it.  One that skips the rest of a message past
\* the limit skips to where a message ends.
HeldIsTheMessage ==
    /\ \A key \in Keys : Held(key) =>
           LET held == entries[key].held
               order == entries[key].order
           IN  /\ held # <<>>
               /\ held[1][1] = connection[key[1]]
               /\ held[1][2] \in Starts
               /\ \A i \in DOMAIN held : held[i] = <<held[1][1], held[1][2] + i - 1>>
               /\ held[1][2] + Len(held) < EndAfter(held[1][2])
               /\ \A i \in DOMAIN order.early : seqAfter(order.early[i].seq, order.nextSeq) > 0
    /\ \A key \in heldBits : entries[key].skipping =>
           \E start \in Starts : entries[key].skipEnd = SeqAt(connection[key[1]], start)

\* The held bytes end at the orderer's nextSeq(), as the comment on
\* Entry::order says: the next byte taken is the one that was sent next.
HeldEndsAtNextSeq ==
    \A key \in Keys : Held(key) =>
        LET held == entries[key].held
        IN  entries[key].order.nextSeq = SeqAt(held[1][1], held[1][2] + Len(held))

\* A segment described as part of a message that completes later is held for
\* it, unless its FIN ends the direction: making room for a segment lets other
\* directions go, never its own.
SegmentsAreHeld ==
    outcome.kind = "segment" /\ outcome.key # Unset => Held(outcome.key)

\* What is returned as whole messages is that: the bytes of one or more
\* messages of a connection, none missing, none from elsewhere.
ReturnedAreMessages ==
    outcome.bytes # <<>> =>
        LET bytes == outcome.bytes
        IN  /\ {bytes[1][2], bytes[Len(bytes)][2] + 1} \subseteq Starts
            /\ \A i \in DOMAIN bytes : bytes[i] = <<bytes[1][1], bytes[1][2] + i - 1>>

\* The tables agree with what is held, and what is held with the limits, whichever
\* direction makes room for which (tcp_reassembly.h: Entry, used_, lru_).
TablesAreTrue ==
    /\ TypeOK /\ TablesAgree
    /\ DirectionIsBounded /\ MemoryIsCounted
    /\ SegmentsAreHeld
=============================================================================
