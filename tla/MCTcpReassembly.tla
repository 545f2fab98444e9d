-------------------------- MODULE MCTcpReassembly --------------------------
(***************************************************************************)
(* The TCP Reassembly for TLC, in two captures: one direction of a stream, *)
(* in two connections on the same ports, its segments cut, lost, early and *)
(* sent again; and directions of three streams that compete for memory.    *)
(***************************************************************************)
EXTENDS TcpReassembly, TLC

CONSTANTS Alone   \* the stream of the first capture
VARIABLE alone    \* whether it is that capture

\* Messages that fit a direction's limit of 3, one that does not and does not
\* announce its length, one that does, and one after it.
MCMessageLengths == <<2, 5, 4, 1>>
MCHeaderLengths == <<1, 5, 2, 1>>
\* The stream alone sends the twelve bytes of them, its sequence numbers wrapping
\* on the way in the first connection; those that compete send four.
MCLength == [key \in Keys |-> IF key[2] = 1 THEN 0 ELSE IF key[1] = Alone THEN 12 ELSE 4]
MCFirstSeq == <<SeqSpace - 2, 5>>

Competing == Streams \ {Alone}

\* Those are shorter than the longest and whole, and acknowledge nothing; their
\* directions are opened again and reset, and have no FIN.
CompetingSegments(key) == {p \in SegmentsOf[key] : p.len < MaxSegment /\ ~p.cut /\ ~p.fin}
CompetingPacket(stream) ==
    \E key \in Both(stream) : \E packet \in CompetingSegments(key) : Packet(key, packet, Unset)

CaptureInit == Init /\ alone \in BOOLEAN

CaptureNext ==
    /\ UNCHANGED alone
    /\ \/ alone /\ (PacketOf(Alone) \/ BogusSyn(Alone) \/ BecomesHttp2(Alone))
       \/ ~alone /\ UNCHANGED connection /\ \E stream \in Competing : CompetingPacket(stream)

CaptureSpec == CaptureInit /\ [][CaptureNext]_<<vars, alone>>

StreamsAreAlike == Permutations(Competing)
=============================================================================
