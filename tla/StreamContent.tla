--------------------------- MODULE StreamContent ---------------------------
(***************************************************************************)
(* The Stream Content Reader (stream_content.cpp): the content of one TCP  *)
(* stream, read back packet by packet from its capture and handed out in   *)
(* the order the bytes were sent, the bytes the capture lacks as gaps.     *)
(*                                                                         *)
(* The capture is the environment.  Two ends exchange bytes, each known by *)
(* its connection and its place in what its end sent; the capture holds    *)
(* any segments of them, cut anew when sent again, in any order, cut short *)
(* at the snaplen, or not at all, and any acknowledgement.  An end may     *)
(* open another connection on the same ports.                              *)
(***************************************************************************)
EXTENDS ByteStreamOrderer, FiniteSets

CONSTANTS
    Length,            \* per end, the bytes it sends in a connection
    FirstSeq,          \* per end and connection, its first byte's sequence number
    MaxConnections,    \* bound: per end, the connections it opens on the ports
    Snaplen,           \* the bytes of a segment the capture has at most
    Windows,           \* the windows the ends offer, and ...
    WindowShifts,      \* ... the scale shifts their SYNs offer
    MaxWindowShift,    \* kMaxWindowShift
    MaxEarlySegments,  \* kMaxEarlySegments
    MaxEarlyBytes      \* kMaxEarlyBytes

Ends == {"client", "server"}
Connections(end) == 1..MaxConnections[end]
Directions == {0, 1}

ASSUME EndsAssumption ==
    /\ MaxConnections \in [Ends -> Nat \ {0}]
    /\ Snaplen \in Nat
    /\ Length \in [Ends -> Nat]
    /\ \A end \in Ends : FirstSeq[end] \in [Connections(end) -> SeqNumbers]
\* A connection's bytes, and its FIN, lie within half the sequence space.
ASSUME WindowAssumption ==
    /\ \A end \in Ends : 2 * (Length[end] + 2) < SeqSpace
    /\ Windows \subseteq Nat
    /\ WindowShifts \subseteq Nat
    /\ MaxWindowShift \in Nat
\* Any one segment may be held: takeTcp() places a segment again after it made
\* room for it, until it is placed.
ASSUME EarlyAssumption ==
    /\ MaxEarlySegments \in Nat \ {0}
    /\ MaxEarlyBytes \in Nat
    /\ \A end \in Ends : Length[end] <= MaxEarlyBytes

VARIABLES
    ends,         \* ends_: the end that is direction 0, and the one that is 1
    endsKnown,    \* endsKnown_
    order,        \* order_, per direction
    started,      \* started_
    finSeq,       \* finSeq_
    sentEnd,      \* sentEnd_
    synSeen,      \* synSeen_
    windowShift,  \* windowShift_
    flushed,      \* flushed_: the last packet was read
    out,          \* per direction, what the sink was given: bytes, and Missing ones
    connection,   \* the capture: per end, its connection
    opener,       \* history: the end that opened the stream, if the first packet tells
    owed,         \* history: per end, the bytes captured when their turn was to come
    cut           \* history: per end, those of them that came in a segment too many

vars == <<ends, endsKnown, order, started, finSeq, sentEnd, synSeen, windowShift, flushed,
          out, connection, opener, owed, cut>>

Missing == <<0, 0>>

\* The sequence number of place pos in an end's connection.
SeqAt(end, conn, pos) == (FirstSeq[end][conn] + pos) % SeqSpace

\* What the capture may hold of an end: a segment of its bytes, the FIN
\* after its last byte, and an acknowledgement of the other end's.
Other(end) == CHOOSE other \in Ends : other # end
Packets ==
    [end \in Ends |->
        {packet \in [pos : 0..Length[end], len : 0..Length[end], syn : BOOLEAN, fin : BOOLEAN,
                     shift : WindowShifts \cup {Unset},
                     ack : 0..(Length[Other(end)] + 1) \cup {Unset}, window : Windows \cup {0}] :
            /\ packet.pos + packet.len <= Length[end]
            /\ packet.syn => packet.pos = 0 /\ ~packet.fin
            /\ packet.fin => packet.pos + packet.len = Length[end]
            /\ ~packet.syn => packet.shift = Unset
            /\ IF packet.ack = Unset THEN packet.window = 0 ELSE packet.window \in Windows}]

-----------------------------------------------------------------------------
(* The operations on one direction: its orderer and what it handed out.    *)

\* popNext(): hands out the held bytes that are next now, segment by segment.
PopAll(side) ==
    LET handOut(s, popped) ==
            [order |-> advance(popped.order, Len(popped.bytes)), out |-> s.out \o popped.bytes]
        pop(s, i) == handOut(s, popNext(s.order))
    IN  FoldLeft(pop, side, side.order.early)

\* order.skipTo(), and handOutGap() for the bytes skipped.
SkipGap(side, seq) ==
    LET skipped == skipTo(side.order, seq)
    IN  [order |-> skipped.order, out |-> side.out \o [i \in 1..skipped.gap |-> Missing]]

\* Skips to the first held segment as long as there is one that begins before
\* upTo; all of them if upTo is Unset.
SkipToHeld(side, upTo) ==
    LET next(s, i) ==
            LET first == firstEarlySeq(s.order)
            IN  IF first # Unset /\ (upTo = Unset \/ seqAfter(first, upTo) < 0)
                THEN PopAll(SkipGap(s, first)) ELSE s
    IN  FoldLeft(next, side, side.order.early)

\* flush(): the bytes before every held segment are taken as missing.
Flush(side) == SkipToHeld(side, Unset)

\* Variant: the held segments before seq are not handed out first.
SkipOverHeld(side, seq, fin) ==
    LET upTo == IF fin # Unset /\ seqAfter(seq, fin) > 0 THEN fin ELSE seq
    IN  IF seqAfter(upTo, side.order.nextSeq) <= 0 THEN side ELSE PopAll(SkipGap(side, upTo))

\* skipTo(): the bytes up to seq are taken as missing, and those held up to
\* there; a FIN takes a sequence number, no byte.
SkipTo(side, seq, fin) ==
    LET upTo == IF fin # Unset /\ seqAfter(seq, fin) > 0 THEN fin ELSE seq
    IN  IF seqAfter(upTo, side.order.nextSeq) <= 0
        THEN side
        ELSE PopAll(SkipGap(SkipToHeld(side, upTo), upTo))

\* Whether a segment that came early is one too many to hold.
TooMany(ord, seq, payload) ==
    /\ place(ord, seq, Len(payload)).fit = "Early"
    /\ ~holds(ord, seq, Len(payload))
    /\ Len(ord.early) >= MaxEarlySegments \/ earlyBytes(ord) + Len(payload) > MaxEarlyBytes

\* The placing of a segment's captured bytes: handed out if next, held if
\* early, after all held ones were flushed for it if they are too many.
Place(side, seq, payload) ==
    LET handOut(room, rest) ==
            PopAll([order |-> advance(room.order, Len(rest)), out |-> room.out \o rest])
        put(room, at) ==
            CASE at.fit = "Next" -> handOut(room, SubSeq(payload, 1 + at.overlap, Len(payload)))
              [] at.fit = "Early" /\ ~holds(room.order, seq, Len(payload)) ->
                    [room EXCEPT !.order = holdEarly(@, seq, payload)]
              [] OTHER -> room
        putIn(room) == put(room, place(room.order, seq, Len(payload)))
    IN  IF payload = <<>> THEN side
        ELSE putIn(IF TooMany(side.order, seq, payload) THEN Flush(side) ELSE side)

\* plausibleAck(): an acknowledgement of bytes seen sent, or no further past
\* them than the window of the acknowledging side lets the other send.
plausibleAck(sent, ack, window, acker, syns, shifts) ==
    LET shift == CASE ~(syns[0] /\ syns[1]) -> MaxWindowShift
                   [] syns[0] /\ syns[1] /\ Unset \notin {shifts[0], shifts[1]} ->
                        IF shifts[acker] < MaxWindowShift THEN shifts[acker] ELSE MaxWindowShift
                   [] OTHER -> 0
    IN  sent # Unset /\ seqAfter(ack, sent) <= window * 2^shift

-----------------------------------------------------------------------------
(* The reader.                                                             *)

Init ==
    /\ ends \in {[d \in Directions |-> IF d = 0 THEN end ELSE Other(end)] : end \in Ends}
    /\ endsKnown = FALSE
    /\ order = [d \in Directions |-> reset(0)]
    /\ started = [d \in Directions |-> FALSE]
    /\ finSeq = [d \in Directions |-> Unset]
    /\ sentEnd = [d \in Directions |-> Unset]
    /\ synSeen = [d \in Directions |-> FALSE]
    /\ windowShift = [d \in Directions |-> Unset]
    /\ flushed = FALSE
    /\ out = [d \in Directions |-> <<>>]
    /\ connection = [end \in Ends |-> 1]
    /\ opener = Unset
    /\ owed = [end \in Ends |-> {}]
    /\ cut = [end \in Ends |-> {}]

\* takeTcp(): the reader takes a packet of direction d, captured bytes payload
\* of it, at seq; the bytes acknowledged lie at ack.
takeTcp(d, packet, seq, payload, ack) ==
    LET o == 1 - d
        side == [order |-> order[d], out |-> out[d]]
        other == [order |-> order[o], out |-> out[o]]
        opened == IF packet.syn THEN [order |-> reset(seq), out |-> Flush(side).out] ELSE side
        isStarted == packet.syn \/ started[d]
        syns == [synSeen EXCEPT ![d] = @ \/ packet.syn]
        shifts == [windowShift EXCEPT ![d] = IF packet.syn THEN packet.shift ELSE @]
        end == (seq + packet.len) % SeqSpace
        acked ==
            IF /\ packet.ack # Unset
               /\ started[o]
               /\ plausibleAck(sentEnd[o], ack, packet.window, d, syns, shifts)
            THEN SkipTo(other, ack, finSeq[o])
            ELSE other
        begun == IF packet.len > 0 /\ ~isStarted THEN [opened EXCEPT !.order = reset(seq)] ELSE opened
        placed == Place(begun, seq, payload)
    IN  /\ order' = [order EXCEPT ![d] = placed.order, ![o] = acked.order]
        /\ out' = [out EXCEPT ![d] = placed.out, ![o] = acked.out]
        /\ started' = [started EXCEPT ![d] = isStarted \/ packet.len > 0]
        /\ synSeen' = syns
        /\ windowShift' = shifts
        /\ sentEnd' = [sentEnd EXCEPT ![d] =
                IF packet.syn
                THEN end
                ELSE IF @ = Unset THEN end
                ELSE IF seqAfter(end, @) > 0 THEN end ELSE @]
        /\ finSeq' = [finSeq EXCEPT ![d] =
                IF packet.fin THEN end ELSE IF packet.syn THEN Unset ELSE @]
        /\ LET from == ends'[d]
               tooMany == TooMany(begun.order, seq, payload)
               toCome == {payload[i] : i \in {j \in DOMAIN payload :
                                seqAfter(seq + j - 1, begun.order.nextSeq) >= 0}}
           IN  /\ owed' = [owed EXCEPT ![from] = @ \cup toCome]
               /\ cut' = [cut EXCEPT ![from] = IF tooMany THEN @ \cup toCome ELSE @]

\* Variant: the sender of the first packet is the client.
SwapEndsOfSecond(side, synAck) == side = 1

\* Whether the ends are named the wrong way round, told by the first packet.
SwapEnds(side, synAck) == (side = 1) # synAck

\* read(): the next packet of the stream.  The first one tells which end is the
\* client: its sender, unless it is the SYN-ACK of a SYN not captured.
Read(from, packet) ==
    LET side == CHOOSE d \in Directions : ends[d] = from
        synAck == packet.syn /\ packet.ack # Unset
        swap == ~endsKnown /\ SwapEnds(side, synAck)
        d == IF swap THEN 1 - side ELSE side
        conn == connection'[from]
        captured == IF packet.len < Snaplen THEN packet.len ELSE Snaplen
        payload == [i \in 1..captured |-> <<conn, packet.pos + i - 1>>]
        ack == IF packet.ack = Unset THEN 0
               ELSE SeqAt(Other(from), connection[Other(from)], packet.ack)
    IN  /\ ~flushed
        /\ IF packet.syn
           THEN \/ connection[from] < MaxConnections[from]
                   /\ connection' = [connection EXCEPT ![from] = @ + 1]
                \/ sentEnd[d] = Unset
                   /\ UNCHANGED connection
           ELSE UNCHANGED connection
        /\ ends' = IF swap THEN [e \in Directions |-> ends[1 - e]] ELSE ends
        /\ endsKnown' = TRUE
        /\ opener' = CASE endsKnown -> opener
                       [] ~endsKnown /\ packet.syn -> IF synAck THEN Other(from) ELSE from
                       [] OTHER -> Unset
        /\ takeTcp(d, packet, SeqAt(from, conn, packet.pos), payload, ack)
        /\ UNCHANGED flushed

\* read(), past the last packet: what still waits for bytes before it gets
\* them no more.
Finish ==
    LET side(d) == Flush([order |-> order[d], out |-> out[d]])
    IN  /\ ~flushed
        /\ flushed' = TRUE
        /\ order' = [d \in Directions |-> side(d).order]
        /\ out' = [d \in Directions |-> side(d).out]
        /\ UNCHANGED <<ends, endsKnown, started, finSeq, sentEnd, synSeen, windowShift,
                       connection, opener, owed, cut>>

\* The stream was read to its end: nothing is left to do.
Done == flushed /\ UNCHANGED vars

Next ==
    \/ \E from \in Ends : \E packet \in Packets[from] : Read(from, packet)
    \/ Finish
    \/ Done

Spec == Init /\ [][Next]_vars

-----------------------------------------------------------------------------
(* What the code must keep.                                                *)

\* The bytes of a direction shown, and those held.
Shown(d) == ToSet(out[d]) \ {Missing}
Held(d) == UNION {ToSet(order[d].early[i].bytes) : i \in DOMAIN order[d].early}

\* What is handed out is what was sent: two bytes of a connection lie as far
\* apart in what the sink was given, gaps counted, as in what their end sent.
\* No byte comes twice, none out of its order, and no gap has a wrong length,
\* however the segments overlap, whatever order they come in, and wherever the
\* sequence numbers wrap.
OutIsTheStream ==
    \A d \in Directions : \A i, j \in DOMAIN out[d] :
        /\ i < j
        /\ Missing \notin {out[d][i], out[d][j]}
        /\ out[d][i][1] = out[d][j][1]
        => out[d][j][2] - out[d][i][2] = j - i

\* A byte captured while its turn was still to come is handed out or held, and
\* handed out when the stream ends: the gaps taken for an acknowledgement, a
\* new connection or too many early segments swallow no held byte.
NothingHeldIsLost ==
    \A d \in Directions :
        owed[ends[d]] \ cut[ends[d]] \subseteq Shown(d) \cup (IF flushed THEN {} ELSE Held(d))

\* Between two packets every held segment waits for bytes before it, no two
\* are the same, and together they are within the reader's limits.
HeldWaits ==
    \A d \in Directions :
        /\ \A i \in DOMAIN order[d].early :
            seqAfter(order[d].early[i].seq, order[d].nextSeq) > 0
        /\ Cardinality(ToSet(order[d].early)) = Len(order[d].early)
        /\ Len(order[d].early) <= MaxEarlySegments
        /\ earlyBytes(order[d]) <= MaxEarlyBytes

\* Direction 0 is the end that opened the connection, when the first packet
\* read is a SYN or a SYN-ACK, whichever packet the user chose to follow.
ClientIsTheOpener == endsKnown /\ opener # Unset => ends[0] = opener

\* What came early is kept for its turn, no longer and not twice: neither the bytes that
\* fill the hole before it nor what gives the hole up swallow it.
HeldIsKept == NothingHeldIsLost /\ HeldWaits
=============================================================================
