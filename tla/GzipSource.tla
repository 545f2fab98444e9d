----------------------------- MODULE GzipSource -----------------------------
(***************************************************************************)
(* A compressed capture (gzip_source.cpp, capture_file.cpp): decompressed  *)
(* into a ring of the last bytes, with access points kept on the way, from *)
(* which a seek decompresses on.                                           *)
(*                                                                         *)
(* The compressed file is a sequence of Token: a member's header, the      *)
(* starts of its deflate blocks, its bytes, its trailer; and garbage.  A   *)
(* byte is known by its offset in the decompressed capture; one that       *)
(* refers back, to the byte Window before it, comes out wrong (Wrong) if   *)
(* zlib does not have that.  Zlib takes a token a call.                    *)
(***************************************************************************)
EXTENDS Integers, Sequences, FiniteSets, SequencesExt, FiniteSetsExt

CONSTANTS
    Files,     \* the compressed files: sequences of Token
    Window,    \* kGzipWindow
    Span,      \* kAccessSpan
    MaxBytes,  \* GzipLimits::maxBytes
    MaxCalls   \* bound: the reads and seeks

Token == {"header", "block", "byte", "ref", "trailer", "garbage"}

ASSUME FilesAssumption == \A f \in Files : f \in Seq(Token) /\ f # <<>> /\ f[1] = "header"
ASSUME WindowAssumption ==
    /\ Window \in Nat \ {0} /\ Span \in Nat \ {0} /\ MaxBytes \in Nat /\ MaxCalls \in Nat

Wrong == -1

VARIABLES
    file,      \* the compressed file
    in,        \* the tokens taken of it
    state,     \* state_
    raw,       \* raw_
    history,   \* zlib's: the last bytes it put out
    window,    \* window_
    readPos,   \* readPos_
    writePos,  \* writePos_
    out,       \* out_
    error,     \* error_, with cutOff_ and overLimit_
    keeping,   \* keeping_ is set
    points,    \* points_, in order
    call,      \* the read() or seek() running, and the bytes it has left
    calls      \* bound

gzipVars == <<file, in, state, raw, history, window, readPos, writePos, out, error, keeping, points,
              call, calls>>

GzipTypeOK ==
    /\ in \in 0..Len(file)
    /\ state \in {"inflating", "trailer", "between", "ended"}
    /\ raw \in BOOLEAN /\ keeping \in BOOLEAN
    /\ Len(history) <= Window
    /\ DOMAIN window = 0..(Window - 1)
    /\ readPos \in 0..Window /\ writePos \in readPos..Window
    /\ out \in 0..Len(file)
    /\ error \in {"", "cut off", "corrupt", "over limit"}
    /\ call.op \in {"none", "read", "discard"} /\ call.left \in Nat

\* The constructor, the file at the stream's start.
Fresh(keep, known) ==
    /\ in = 0 /\ state = "inflating" /\ raw = FALSE /\ history = <<>>
    /\ window = [i \in 0..(Window - 1) |-> Wrong] /\ readPos = 0 /\ writePos = 0 /\ out = 0
    /\ error = "" /\ keeping = keep /\ points = known
    /\ call = [op |-> "none", left |-> 0]

GzipInit == file \in Files /\ Fresh(TRUE, <<>>) /\ calls = 0

position == out - (writePos - readPos)

\* CaptureFile::open() with the access points of an earlier source of the file:
\* useAccessPoints().
OpenAgain ==
    /\ call.op = "none" /\ keeping
    /\ in' = 0 /\ state' = "inflating" /\ raw' = FALSE /\ history' = <<>>
    /\ window' = [i \in 0..(Window - 1) |-> Wrong] /\ readPos' = 0 /\ writePos' = 0 /\ out' = 0
    /\ error' = "" /\ keeping' = FALSE
    /\ UNCHANGED <<file, points, call, calls>>

-----------------------------------------------------------------------------
(* produce()                                                               *)

Next1 == IF in < Len(file) THEN file[in + 1] ELSE "none"
LastN(seq) == SubSeq(seq, Max({1, Len(seq) - Window + 1}), Len(seq))

End(why) == state' = "ended" /\ error' = why

\* Where the next byte goes: a ring that was read to its end goes round.
WriteAt == IF writePos = Window THEN 0 ELSE writePos

\* Zlib's output for a byte.
Inflated(token) ==
    IF token = "ref" /\ (Len(history) < Window \/ history[1] # out + 1 - Window) THEN Wrong
    ELSE out + 1

\* Variant: the window of an access point starts at the ring's start.
RingFromStart == [i \in 1..Window |-> window[i - 1]]

\* keepPoint(): the ring, its oldest byte first.
RingInOrder ==
    [i \in 1..Window |-> window[(i - 1 + (IF writePos = Window THEN 0 ELSE writePos)) % Window]]

NeedsByte == call.op # "none" /\ call.left > 0 /\ readPos = writePos
Producing == NeedsByte /\ state # "ended"
Going == Producing /\ state = "inflating"

\* State::Trailer: skipped, after a member entered at an access point.
SkipTrailer ==
    /\ Producing /\ state = "trailer"
    /\ IF Next1 = "none" THEN End("cut off") /\ UNCHANGED in
       ELSE in' = in + 1 /\ state' = "between" /\ UNCHANGED error
    /\ UNCHANGED <<file, raw, history, window, readPos, writePos, out, keeping, points, call, calls>>

\* State::Between: another member, or the end, or garbage, which is ignored.
NextMember ==
    /\ Producing /\ state = "between"
    /\ IF Next1 = "header"
       THEN state' = "inflating" /\ raw' = FALSE /\ history' = <<>> /\ UNCHANGED error
       ELSE End("") /\ UNCHANGED <<raw, history>>
    /\ UNCHANGED <<file, in, window, readPos, writePos, out, keeping, points, call, calls>>

InputEnds ==
    /\ Going /\ Next1 = "none"
    /\ End("cut off")
    /\ UNCHANGED <<file, in, raw, history, window, readPos, writePos, out, keeping, points, call, calls>>

Corrupt ==
    /\ Going /\ Next1 = "garbage"
    /\ End("corrupt")
    /\ UNCHANGED <<file, in, raw, history, window, readPos, writePos, out, keeping, points, call, calls>>

InflateHeader ==
    /\ Going /\ Next1 = "header"
    /\ in' = in + 1
    /\ UNCHANGED <<file, state, raw, history, window, readPos, writePos, out, error, keeping, points,
                   call, calls>>

\* A block starts: an access point, if the last one is far enough.
InflateBlock ==
    /\ Going /\ Next1 = "block"
    /\ in' = in + 1
    /\ points' = IF keeping /\ out >= (IF points = <<>> THEN 0 ELSE points[Len(points)].out) + Span
                 THEN Append(points, [out |-> out, in |-> in, window |-> RingInOrder])
                 ELSE points
    /\ UNCHANGED <<file, state, raw, history, window, readPos, writePos, out, error, keeping, call, calls>>

\* Bytes come out; beyondLimits().
InflateByte ==
    /\ Going /\ Next1 \in {"byte", "ref"}
    /\ in' = in + 1
    /\ history' = LastN(Append(history, Inflated(Next1)))
    /\ window' = [window EXCEPT ![WriteAt] = Inflated(Next1)]
    /\ readPos' = WriteAt /\ writePos' = WriteAt + 1
    /\ out' = out + 1
    /\ IF out + 1 > MaxBytes THEN End("over limit") ELSE UNCHANGED <<state, error>>
    /\ UNCHANGED <<file, raw, keeping, points, call, calls>>

\* Z_STREAM_END: zlib has read the trailer too, unless it was given raw data.
InflateEnd ==
    /\ Going /\ Next1 = "trailer"
    /\ state' = IF raw THEN "trailer" ELSE "between"
    /\ in' = IF raw THEN in ELSE in + 1
    /\ UNCHANGED <<file, raw, history, window, readPos, writePos, out, error, keeping, points, call, calls>>

-----------------------------------------------------------------------------
(* read(), discard() and seek()                                            *)

Take ==
    /\ call.left > 0 /\ readPos < writePos
    /\ readPos' = readPos + 1
    /\ call' = [call EXCEPT !.left = @ - 1]
    /\ UNCHANGED <<file, in, state, raw, history, window, writePos, out, error, keeping, points, calls>>

\* All was read, or the stream has ended before.
Return ==
    /\ call.op # "none"
    /\ call.left = 0 \/ (NeedsByte /\ state = "ended")
    /\ call' = [op |-> "none", left |-> 0]
    /\ UNCHANGED <<file, in, state, raw, history, window, readPos, writePos, out, error, keeping,
                   points, calls>>

Read(n) ==
    /\ call.op = "none" /\ calls < MaxCalls
    /\ calls' = calls + 1
    /\ call' = [op |-> "read", left |-> n]
    /\ UNCHANGED <<file, in, state, raw, history, window, readPos, writePos, out, error, keeping, points>>

\* GzipAccessPoints::before(): the last point at or before an offset, or none.
before(offset) ==
    LET at == {i \in DOMAIN points : points[i].out <= offset}
    IN  IF at = {} THEN 0 ELSE Max(at)

startOver ==
    /\ in' = 0 /\ raw' = FALSE /\ state' = "inflating" /\ history' = <<>>
    /\ out' = 0 /\ readPos' = 0 /\ writePos' = 0 /\ error' = ""
    /\ UNCHANGED window

\* resumeAt(): zlib and the ring as they were at the point, all of it read.
resumeAt(point) ==
    /\ in' = point.in /\ raw' = TRUE /\ state' = "inflating" /\ history' = point.window
    /\ window' = [i \in 0..(Window - 1) |-> point.window[i + 1]]
    /\ readPos' = Window /\ writePos' = Window
    /\ out' = point.out /\ error' = ""

\* seek(): back from a point or the start, ahead from a point that saves some.
Seek(offset) ==
    /\ call.op = "none" /\ calls < MaxCalls
    /\ offset # position
    /\ calls' = calls + 1
    /\ IF offset < position \/ (before(offset) > 0 /\ points[before(offset)].out > position)
       THEN IF before(offset) > 0 THEN resumeAt(points[before(offset)]) ELSE startOver
       ELSE UNCHANGED <<in, state, raw, history, window, readPos, writePos, out, error>>
    /\ call' = [op |-> "discard", left |-> offset - (out' - (writePos' - readPos'))]
    /\ UNCHANGED <<file, keeping, points>>

GzipNext ==
    \/ OpenAgain
    \/ SkipTrailer \/ NextMember \/ InputEnds \/ Corrupt
    \/ InflateHeader \/ InflateBlock \/ InflateByte \/ InflateEnd
    \/ Take \/ Return
    \/ \E n \in 1..(Window + 1) : Read(n)
    \/ \E offset \in 0..Len(file) : Seek(offset)

GzipSpec == GzipInit /\ [][GzipNext]_gzipVars

-----------------------------------------------------------------------------
(* What the code must keep.                                                *)

\* The bytes of the file up to its end, or to where it breaks.
Bytes(f) ==
    LET broken == {i \in DOMAIN f : f[i] = "garbage" /\ f[i - 1] # "trailer"}
        ends == {i \in DOMAIN f : f[i] = "garbage"} \cup {Len(f) + 1}
    IN  Cardinality({i \in 1..(Min(broken \cup ends) - 1) : f[i] \in {"byte", "ref"}})

\* What is not read yet of the ring is the capture, byte for byte: whichever way
\* it was sought and from whichever access point it is decompressed, also behind
\* the end of a member entered there.
GzipReadsTheCapture ==
    \A i \in readPos..(writePos - 1) : window[i] = out - (writePos - i) + 1

\* A source that has ended has put out all there is, up to its limit, and says
\* that it was cut off exactly if it was, even if it never saw the header.
GzipEndIsTrue ==
    state = "ended" =>
        /\ out = Min({Bytes(file), MaxBytes + 1})
        /\ error = "" <=> out <= MaxBytes /\ \E i \in DOMAIN file :
                             file[i] = "trailer" /\ (i = Len(file) \/ file[i + 1] = "garbage")

\* A compressed capture reads as if it were not, from wherever it is sought.
GzipIsTheCapture == GzipTypeOK /\ GzipReadsTheCapture /\ GzipEndIsTrue
=============================================================================
