------------------------- MODULE ByteStreamOrderer -------------------------
(***************************************************************************)
(* The Byte Stream Orderer (byte_stream_orderer.h, .cpp): where the        *)
(* segments of one direction of a TCP stream lie against the bytes taken   *)
(* so far.  Its object is a record, its operations are operators on it;    *)
(* the Stream Content Reader and the TCP Reassembly each keep one per      *)
(* direction.  Sequence numbers wrap at SeqSpace, 2^32 in the code.        *)
(***************************************************************************)
EXTENDS Integers, Sequences, SequencesExt

CONSTANTS
    SeqSpace,  \* how many sequence numbers there are
    Unset      \* an std::optional that is not set

ASSUME SeqSpaceAssumption == SeqSpace \in Nat \ {0} /\ SeqSpace % 2 = 0
ASSUME UnsetAssumption == Unset \notin Int

SeqNumbers == 0..(SeqSpace - 1)

\* Variant: sequence numbers compared as plain numbers.
seqAfterPlain(a, b) == a - b

\* How far sequence number a is after b, as a signed number of its width.
seqAfter(a, b) ==
    LET d == (a - b) % SeqSpace
    IN  IF 2 * d < SeqSpace THEN d ELSE d - SeqSpace

\* An orderer: the sequence number after the bytes taken, and the segments
\* held that came early, in the order they came.
Orderer(Byte) ==
    [nextSeq : SeqNumbers, early : Seq([seq : SeqNumbers, bytes : Seq(Byte)])]

reset(nextSeq) == [nextSeq |-> nextSeq, early |-> <<>>]

\* Where a segment of len bytes at seq lies: next, with the bytes at its start
\* that were taken already; early; or taken, every byte of it.
place(order, seq, len) ==
    LET ahead == seqAfter(seq, order.nextSeq)
    IN  CASE ahead > 0 -> [fit |-> "Early", overlap |-> 0]
          [] ahead <= 0 /\ ahead + len <= 0 -> [fit |-> "Taken", overlap |-> 0]
          [] OTHER -> [fit |-> "Next", overlap |-> -ahead]

advance(order, len) == [order EXCEPT !.nextSeq = (@ + len) % SeqSpace]

\* Whether a segment at seq of len bytes or more is held already.
holds(order, seq, len) ==
    \E i \in DOMAIN order.early :
        order.early[i].seq = seq /\ Len(order.early[i].bytes) >= len

holdEarly(order, seq, bytes) ==
    [order EXCEPT !.early = Append(@, [seq |-> seq, bytes |-> bytes])]

\* Pops the first held segment that is next now, without its bytes taken
\* already, and drops those before it whose bytes were all taken; no bytes
\* when no held one is next.
popNext(order) ==
    LET ahead(segment) == seqAfter(segment.seq, order.nextSeq)
        look(at, segment) ==
            IF at.bytes # <<>> \/ ahead(segment) > 0
            THEN [at EXCEPT !.early = Append(@, segment)]
            ELSE [at EXCEPT !.bytes = SubSeq(segment.bytes, 1 - ahead(segment), Len(segment.bytes))]
        looked == FoldLeft(look, [early |-> <<>>, bytes |-> <<>>], order.early)
    IN  [order |-> [order EXCEPT !.early = looked.early], bytes |-> looked.bytes]

\* The sequence number of the held segment that comes first.
firstEarlySeq(order) ==
    LET earlier(first, segment) ==
            IF first = Unset \/ seqAfter(segment.seq, first) < 0 THEN segment.seq ELSE first
    IN  FoldLeft(earlier, Unset, order.early)

\* Skips the bytes up to seq, which never came: how many those are.
skipTo(order, seq) ==
    LET ahead == seqAfter(seq, order.nextSeq)
    IN  IF ahead <= 0 THEN [order |-> order, gap |-> 0]
                      ELSE [order |-> [order EXCEPT !.nextSeq = seq], gap |-> ahead]

\* The bytes of the segments held.
earlyBytes(order) ==
    FoldLeft(LAMBDA bytes, segment : bytes + Len(segment.bytes), 0, order.early)
=============================================================================
