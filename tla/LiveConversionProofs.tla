------------------------ MODULE LiveConversionProofs ------------------------
(***************************************************************************)
(* Proofs about the conversion of a live stream (LiveConversion): the      *)
(* files kept, saved as one, are the stream from where the first starts;   *)
(* each of them is a capture of its own, with the text of its packets, and *)
(* a snapshot reads from them the bytes it points at; what was converted   *)
(* is passed on; and the conversion is the run that the Live Capture       *)
(* Session relies on (LiveRun).                                            *)
(*                                                                         *)
(* The invariant says what each raw file holds by two numbers of its part: *)
(* the headers copied ahead of it, and the stream from the place it starts *)
(* to the place the next part does.  Writing a record moves the last end;  *)
(* starting the next file moves what was read past the cut.  Of a ring     *)
(* buffer it says besides that a part starts behind a packet, with the     *)
(* headers of that place and the number of packets up to there, and that   *)
(* the Live Output knows the same of the place where the next part may     *)
(* start.  What the recursive definitions give (the headers of a section,  *)
(* files joined to one) is shown by a least counterexample.                *)
(***************************************************************************)
EXTENDS LiveConversion, WellFoundedInduction, FiniteSetTheorems, TLAPS

(* What holds of the conversion, part by part.                             *)

\* The kinds of records of a stream.
Kinds == {"section", "interface", "packet"}

\* The records of a stream.
Records == [kind : Kinds, iface : Nat]

\* The stream is records behind a first section header, and the worker has read
\* the first ones of it: none before the capture's header, one at least once it
\* converts.
StreamInv ==
    /\ clock \in Nat
    /\ stream \in Seq(Records)
    /\ stream # <<>> => stream[1].kind = "section"
    /\ read \in Nat /\ read <= Len(stream)
    /\ pc = "open" => read = 0
    /\ Converting => read > 0

\* The states of the Live Output.
LiveOutputs ==
    [lastFlush : Nat, lastSnapshot : Nat, firstOfText : BOOLEAN, snapshotPending : BOOLEAN,
     fileStarted : Nat, fileHasPacket : BOOLEAN, fileFull : BOOLEAN, fileEnd : Nat,
     packetsInFiles : Nat, fileHeaders : Seq(Nat)]

\* The parts of a raw capture (CapturePart), numbered from 1.
Parts == [number : Nat \ {0}, packetsBefore : Nat, streamOffset : Nat, headerOffsets : Seq(Nat)]

\* The types of the worker's and the Live Output's state; nothing is converted
\* before the capture's header came, and nothing came of it before the worker is
\* through.
TypeInv ==
    /\ pc \in {"open", "next", "waits", "awaiting", "blocked", "ended", "before", "packet",
               "failed", "over"}
    /\ packets \in Nat
    /\ timedOut \in BOOLEAN /\ flushFailed \in BOOLEAN /\ writeFailed \in BOOLEAN
    /\ live \in LiveOutputs
    /\ opened \in Seq(Nat)
    /\ pc # "over" => result = "None"
    /\ pc = "open" => packets = 0 /\ opened = <<>> /\ live = NewLiveOutput /\ ~flushFailed /\ ~writeFailed

\* The number of the file written.
Number(f) == Current(f).number

\* f is a record of the files and of how far the ones written are readable.
IsFiles(f) ==
    f = [parts |-> f.parts, raw |-> f.raw, text |-> f.text, rawReadable |-> f.rawReadable,
         textReadable |-> f.textReadable]

\* The raw files kept are numbered one after the other up to the one written,
\* there is a text for every one ever started, and no more of the text written
\* is readable than is written.
FilesShape(f) ==
    /\ IsFiles(f)
    /\ f.parts \in Seq(Parts) /\ f.parts # <<>>
    /\ \A i, j \in DOMAIN f.parts : f.parts[j].number = f.parts[i].number + (j - i)
    /\ DOMAIN f.raw = {f.parts[i].number : i \in DOMAIN f.parts}
    /\ f.text \in [1..Number(f) -> Seq(Nat)]
    /\ f.textReadable \in 0..Len(f.text[Number(f)])

\* Where the stream's records of part i end, with upTo of them read: where the
\* next part's begin.
EndOfPart(f, i, upTo) == IF i = Len(f.parts) THEN upTo ELSE f.parts[i + 1].streamOffset

\* A raw file: the headers copied ahead, by their place in the stream, and then
\* the stream's records from behind so to hi.
Laid(ho, so, hi) ==
    [k \in 1..(Len(ho) + (hi - so)) |-> IF k <= Len(ho) THEN ho[k] ELSE so + (k - Len(ho))]

\* Every raw file kept is its headers, and then the records from where its part
\* starts to where the next one does.
FilesHold(f, upTo) == \A i \in DOMAIN f.parts :
    /\ f.parts[i].streamOffset <= EndOfPart(f, i, upTo)
    /\ f.raw[f.parts[i].number]
        = Laid(f.parts[i].headerOffsets, f.parts[i].streamOffset, EndOfPart(f, i, upTo))

\* While the worker converts, the files have their shape.
FilesInv == Converting => FilesShape(files)

\* While it converts and no write failed, they hold what was read.
ContentInv == Converting /\ ~writeFailed => FilesHold(files, read)

\* Where the worker is between two packets.
AtRest == {"next", "waits", "awaiting", "blocked", "ended"}

\* The texts announced are those of the files up to the one written, or up to
\* the one before it while it has no packet; one announced has a readable line.
\* firstOfText says which of the two.
AnnounceInv ==
    /\ opened = [i \in 1..Len(opened) |-> i]
    /\ Converting =>
        /\ Len(opened) = Number(files) \/ Len(opened) = Number(files) - 1
        /\ Len(opened) = Number(files) => files.textReadable > 0
    /\ pc \in AtRest \cup {"before"} => (live.firstOfText <=> packets = 0)
    /\ pc \in AtRest \cup {"before", "packet"} =>
        /\ live.firstOfText <=> Len(opened) = Number(files) - 1
        /\ live.fileHasPacket => ~live.firstOfText

\* While the worker waits, all it wrote is readable, unless it could not be
\* flushed.
FlushedInv ==
    pc \in {"waits", "awaiting", "blocked"} /\ ~flushFailed =>
        /\ files.rawReadable = Len(files.raw[Number(files)])
        /\ files.textReadable = Len(files.text[Number(files)])

\* Every packet read was converted, but for the one the worker is at.
CountInv ==
    /\ pc \in AtRest => packets = NumberOf(read)
    /\ pc \in {"before", "packet"} => packets + 1 = NumberOf(read)

\* A capture that ends well has a line for every packet read, readable, and
\* every text with one announced.
EndInv ==
    result \in {"Converted", "FailedKept"} =>
        /\ ~writeFailed
        /\ packets = NumberOf(read)
        /\ files.textReadable = Len(files.text[Number(files)])
        /\ packets > 0 => Len(opened) = Number(files)

-----------------------------------------------------------------------------
(* Lists, and the headers of a stream.                                     *)

\* A set of numbers that is not empty has a least one. What a recurrence defines
\* is shown from here: by its least counterexample.
LEMMA LeastNat ==
    ASSUME NEW T, T \subseteq Nat, T # {}
    PROVE  \E x \in T : \A y \in T : x <= y
  <1> DEFINE R == OpToRel(<, Nat)
  <1>1. IsWellFoundedOn(R, Nat)
    BY NatLessThanWellFounded
  <1>2. \A x, y \in Nat : y < x => <<y, x>> \in R
    BY DEF OpToRel
  <1> HIDE DEF R
  <1>3. PICK x \in T : \A y \in T : ~(<<y, x>> \in R)
    BY <1>1, WFMin
  <1>4. ASSUME NEW y \in T PROVE x <= y
    <2>1. x \in Nat /\ y \in Nat /\ ~(<<y, x>> \in R)
      BY <1>3
    <2>2. ~(y < x)
      BY <1>2, <2>1
    <2>3. QED
      BY <2>1, <2>2
  <1>5. QED
    BY <1>4

\* A stream behind its first section header.
Shaped(s) == s \in Seq(Records) /\ (s # <<>> => s[1].kind = "section")

\* What the record at place i makes of the headers before it.
HeadersThen(s, i, before) ==
    IF s[i].kind = "section" THEN <<i>>
    ELSE IF s[i].kind = "interface" THEN Append(before, i)
    ELSE before

\* headersAt() and NumberOf() of a stream s.
HeadersOf(s, n) ==
    LET headers[i \in 1..n] ==
            IF s[i].kind = "section" THEN <<i>>
            ELSE IF s[i].kind = "interface" THEN Append(headers[i - 1], i)
            ELSE headers[i - 1]
    IN  headers[n]
PacketsOf(s, n) == {i \in {j \in DOMAIN s : s[j].kind = "packet"} : i <= n}
CountOf(s, n) == Cardinality(PacketsOf(s, n))

\* They are those of the stream, before and after a step.
LEMMA OfStream ==
    ASSUME NEW n
    PROVE  /\ headersAt(n) = HeadersOf(stream, n) /\ headersAt(n)' = HeadersOf(stream', n)
           /\ NumberOf(n) = CountOf(stream, n) /\ NumberOf(n)' = CountOf(stream', n)
  <1>1. headersAt(n) = HeadersOf(stream, n)
    BY DEF headersAt, HeadersOf
  <1>2. headersAt(n)' = HeadersOf(stream', n)
    BY DEF headersAt, HeadersOf
  <1>3. NumberOf(n) = CountOf(stream, n)
    BY DEF NumberOf, CountOf, PacketsOf, PacketPlaces
  <1>4. NumberOf(n)' = CountOf(stream', n)
    BY DEF NumberOf, CountOf, PacketsOf, PacketPlaces
  <1>5. QED
    BY <1>1, <1>2, <1>3, <1>4

\* A function of the first n places made so.
Recurs(s, n, h) == \A i \in 1..n : h[i] = HeadersThen(s, i, h[i - 1])

\* Functions by this recurrence agree where both are defined.
LEMMA HeadersAgree ==
    ASSUME NEW s, Shaped(s), NEW n \in 1..Len(s), NEW m \in 1..n,
           NEW h, Recurs(s, n, h), NEW g, Recurs(s, m, g)
    PROVE  \A i \in 1..m : h[i] = g[i]
  <1> DEFINE W == {i \in 1..m : h[i] # g[i]}
  <1>0. s[1].kind = "section" /\ m \in Nat /\ n \in Nat
    BY DEF Shaped
  <1>1. SUFFICES ASSUME W # {} PROVE FALSE
    OBVIOUS
  <1>2. \E i \in W : \A j \in W : i <= j
    <2>1. W \subseteq Nat
      BY <1>0
    <2> HIDE DEF W
    <2>2. QED
      BY <2>1, <1>1, LeastNat
  <1>3. PICK i \in W : \A j \in W : i <= j
    BY <1>2
  <1>4. i \in 1..m /\ i \in 1..n /\ h[i] # g[i] /\ i \in Nat
    BY <1>0, <1>3
  <1>5. h[i] = HeadersThen(s, i, h[i - 1]) /\ g[i] = HeadersThen(s, i, g[i - 1])
    BY <1>4 DEF Recurs
  <1>6. CASE s[i].kind = "section"
    BY <1>4, <1>5, <1>6 DEF HeadersThen
  <1>7. CASE s[i].kind # "section"
    <2>1. i # 1 /\ i - 1 \in 1..m
      BY <1>0, <1>4, <1>7
    <2>2. i - 1 \notin W
      BY <1>3, <1>4
    <2>3. h[i - 1] = g[i - 1]
      BY <2>1, <2>2
    <2>4. QED
      BY <1>4, <1>5, <2>3
  <1>8. QED
    BY <1>6, <1>7

\* headersAt() is the last value of such a function.
LEMMA HeadersDefined ==
    ASSUME NEW s, Shaped(s), NEW n \in 1..Len(s)
    PROVE  \E h : HeadersOf(s, n) = h[n] /\ Recurs(s, n, h)
  <1> DEFINE Is(h, m) == h = [i \in 1..m |-> HeadersThen(s, i, h[i - 1])]
             T == {m \in 1..n : ~ \E h : Is(h, m)}
             H == CHOOSE h : Is(h, n)
  <1>0. s[1].kind = "section" /\ n \in Nat /\ n >= 1 /\ 1 \in 1..n
    BY DEF Shaped
  <1>1. \E h : Is(h, n)
    <2>1. SUFFICES ASSUME T # {} PROVE FALSE
      <3>1. n \notin T => \E h : Is(h, n)
        BY <1>0
      <3>2. QED
        BY <3>1
    <2>2. \E m \in T : \A k \in T : m <= k
      <3>1. T \subseteq Nat
        BY <1>0
      <3> HIDE DEF T
      <3>2. QED
        BY <2>1, <3>1, LeastNat
    <2>3. PICK m \in T : \A k \in T : m <= k
      BY <2>2
    <2>4. m # 1
      <3> DEFINE one == [i \in 1..1 |-> <<1>>]
      <3>1. Is(one, 1)
        BY <1>0 DEF HeadersThen
      <3>2. QED
        BY <3>1, <2>3
    <2>5. m - 1 \in 1..n /\ m - 1 \notin T /\ m \in Nat
      <3>1. m \in Nat /\ m \in 1..n
        BY <2>3, <1>0
      <3>2. m - 1 \in 1..n
        BY <3>1, <2>4, <1>0
      <3> HIDE DEF T
      <3>3. m - 1 \notin T
        BY <3>1, <2>3
      <3>4. QED
        BY <3>1, <3>2, <3>3
    <2>6. PICK h : Is(h, m - 1)
      BY <2>5
    <2> DEFINE more == [i \in 1..m |-> IF i = m THEN HeadersThen(s, m, h[m - 1]) ELSE h[i]]
    <2>7. ASSUME NEW i \in 1..m PROVE more[i] = HeadersThen(s, i, more[i - 1])
      <3>1. CASE i = m
        BY <3>1, <2>5, <2>4, <2>3
      <3>2. CASE i # m /\ i # 1
        <4>1. i \in 1..(m - 1) /\ i - 1 \in 1..m /\ i - 1 # m
          BY <3>2, <2>5
        <4>2. more[i] = h[i] /\ more[i - 1] = h[i - 1]
          BY <4>1, <3>2
        <4>3. h[i] = HeadersThen(s, i, h[i - 1])
          BY <2>6, <4>1
        <4>4. QED
          BY <4>2, <4>3
      <3>3. CASE i = 1 /\ i # m
        <4>1. 1 \in 1..(m - 1)
          BY <3>3, <2>5
        <4>2. more[1] = h[1] /\ h[1] = HeadersThen(s, 1, h[1 - 1])
          BY <2>6, <4>1, <3>3
        <4>3. QED
          BY <4>2, <1>0, <3>3 DEF HeadersThen
      <3>4. QED
        BY <3>1, <3>2, <3>3
    <2>8. Is(more, m)
      BY <2>7
    <2>9. QED
      BY <2>8, <2>3
  <1>2. Is(H, n)
    BY <1>1
  <1>3. HeadersOf(s, n) = H[n]
    BY DEF HeadersOf, HeadersThen
  <1> HIDE DEF H
  <1>4. Recurs(s, n, H)
    BY <1>2 DEF Recurs
  <1>5. QED
    BY <1>3, <1>4

\* What headersAt() gives, place by place.
LEMMA HeadersNext ==
    ASSUME NEW s, Shaped(s), NEW n \in 1..Len(s)
    PROVE  HeadersOf(s, n) = HeadersThen(s, n, HeadersOf(s, n - 1))
  <1>1. PICK h : HeadersOf(s, n) = h[n] /\ Recurs(s, n, h)
    BY HeadersDefined
  <1>2. n \in Nat /\ Len(s) \in Nat /\ n \in 1..n /\ s[1].kind = "section"
    BY DEF Shaped
  <1>3. CASE n = 1
    <2>1. h[n] = HeadersThen(s, n, h[n - 1]) /\ s[n].kind = "section"
      BY <1>1, <1>2, <1>3 DEF Recurs
    <2>2. \A b : HeadersThen(s, n, b) = <<n>>
      BY <2>1 DEF HeadersThen
    <2>3. HeadersOf(s, n) = <<n>> /\ HeadersThen(s, n, HeadersOf(s, n - 1)) = <<n>>
      <3>1. HeadersThen(s, n, HeadersOf(s, n - 1)) = <<n>> /\ HeadersThen(s, n, h[n - 1]) = <<n>>
        BY <2>2
      <3>2. HeadersOf(s, n) = h[n]
        BY <1>1
      <3>3. QED
        BY <3>1, <3>2, <2>1
    <2>4. QED
      BY <2>3
  <1>4. CASE n # 1
    <2>1. n - 1 \in 1..Len(s) /\ n - 1 \in 1..n /\ n - 1 \in 1..(n - 1)
      BY <1>2, <1>4
    <2>2. PICK g : HeadersOf(s, n - 1) = g[n - 1] /\ Recurs(s, n - 1, g)
      BY <2>1, HeadersDefined
    <2>3. h[n - 1] = g[n - 1]
      <3>1. PICK m \in 1..n : m = n - 1
        BY <2>1
      <3>2. Recurs(s, n, h) /\ Recurs(s, m, g)
        BY <1>1, <2>2, <3>1
      <3>3. \A i \in 1..m : h[i] = g[i]
        BY <3>1, <3>2, HeadersAgree
      <3>4. QED
        BY <2>1, <3>1, <3>3
    <2>4. HeadersOf(s, n - 1) = h[n - 1]
      BY <2>2, <2>3
    <2>5. h[n] = HeadersThen(s, n, h[n - 1])
      BY <1>1, <1>2 DEF Recurs
    <2>6. QED
      BY <1>1, <2>4, <2>5
  <1>5. QED
    BY <1>3, <1>4

\* A list with one more entry.
LEMMA OneMore ==
    ASSUME NEW s \in Seq(Nat), NEW x \in Nat
    PROVE  /\ Append(s, x) \in Seq(Nat) /\ Len(Append(s, x)) = Len(s) + 1
           /\ DOMAIN Append(s, x) = 1..(Len(s) + 1)
           /\ Append(s, x)[Len(s) + 1] = x
           /\ \A i \in 1..Len(s) : Append(s, x)[i] = s[i]
  OBVIOUS

\* What headers h are after the record at n: those of the section of n, the last one up to
\* there, with all that was declared in it, in order.
HeadersHold(s, n, h) ==
    /\ h \in Seq(Nat) /\ Len(h) > 0 /\ h[1] > 0
    /\ \A i \in 1..Len(h) : h[i] \in h[1]..n
    /\ \A i, j \in 1..Len(h) : i < j => h[i] < h[j]
    /\ s[h[1]].kind = "section"
    /\ \A i \in (h[1] + 1)..n : s[i].kind # "section"
    /\ \A i \in h[1]..n : s[i].kind # "packet" <=> \E j \in 1..Len(h) : h[j] = i

\* A section's header starts them anew.
LEMMA HoldSection ==
    ASSUME NEW s, NEW n \in Nat \ {0}, s[n].kind = "section"
    PROVE  HeadersHold(s, n, <<n>>)
  BY DEF HeadersHold

\* An interface is declared behind the others.
LEMMA HoldInterface ==
    ASSUME NEW s, NEW n \in Nat \ {0}, NEW h, HeadersHold(s, n - 1, h), s[n].kind = "interface"
    PROVE  HeadersHold(s, n, Append(h, n))
  <1> DEFINE g == Append(h, n)
             m == Len(h)
  <1>1. h \in Seq(Nat) /\ m \in Nat \ {0} /\ h[1] \in Nat /\ 1 \in 1..m
    BY DEF HeadersHold
  <1>2. g \in Seq(Nat) /\ Len(g) = m + 1 /\ g[m + 1] = n /\ \A i \in 1..m : g[i] = h[i]
    BY <1>1, OneMore
  <1> HIDE DEF g, m
  <1>3. g[1] = h[1] /\ h[1] <= n - 1 /\ h[1] > 0
    BY <1>1, <1>2 DEF HeadersHold, m
  <1>4. \A i \in 1..m : h[i] \in Nat /\ h[1] <= h[i] /\ h[i] <= n - 1
    <2>1. \A i \in 1..m : h[i] \in h[1]..(n - 1)
      BY DEF HeadersHold, m
    <2>2. QED
      BY <2>1, <1>1
  <1>5. \A i \in 1..Len(g) : g[i] \in g[1]..n
    <2>1. SUFFICES ASSUME NEW i \in 1..(m + 1) PROVE g[i] \in h[1]..n
      BY <1>2, <1>3
    <2>2. CASE i = m + 1
      BY <2>2, <1>1, <1>2, <1>3
    <2>3. CASE i # m + 1
      <3>1. i \in 1..m
        BY <2>3, <1>1
      <3>2. QED
        BY <3>1, <1>1, <1>2, <1>4
    <2>4. QED
      BY <2>2, <2>3
  <1>6. \A i, j \in 1..Len(g) : i < j => g[i] < g[j]
    <2>1. SUFFICES ASSUME NEW i \in 1..(m + 1), NEW j \in 1..(m + 1), i < j PROVE g[i] < g[j]
      BY <1>2
    <2>2. i \in 1..m /\ g[i] = h[i]
      BY <2>1, <1>1, <1>2
    <2>3. CASE j = m + 1
      BY <2>2, <2>3, <1>2, <1>4
    <2>4. CASE j # m + 1
      <3>1. j \in 1..m
        BY <2>4, <1>1
      <3>2. QED
        BY <3>1, <2>1, <2>2, <1>2 DEF HeadersHold, m
    <2>5. QED
      BY <2>3, <2>4
  <1>7. s[g[1]].kind = "section" /\ \A i \in (g[1] + 1)..n : s[i].kind # "section"
    <2>1. s[h[1]].kind = "section" /\ \A i \in (h[1] + 1)..(n - 1) : s[i].kind # "section"
      BY DEF HeadersHold
    <2>2. \A i \in (h[1] + 1)..n : i = n \/ i \in (h[1] + 1)..(n - 1)
      BY <1>1
    <2>3. QED
      BY <2>1, <2>2, <1>3
  <1>8. \A i \in g[1]..n : s[i].kind # "packet" <=> \E j \in 1..Len(g) : g[j] = i
    <2>1. SUFFICES ASSUME NEW i \in h[1]..n
                   PROVE  s[i].kind # "packet" <=> \E j \in 1..(m + 1) : g[j] = i
      BY <1>2, <1>3
    <2>2. CASE i = n
      <3>1. m + 1 \in 1..(m + 1)
        BY <1>1
      <3>2. QED
        BY <3>1, <2>2, <1>2
    <2>3. CASE i # n
      <3>1. i \in h[1]..(n - 1)
        BY <1>1, <2>3
      <3>2. s[i].kind # "packet" <=> \E j \in 1..m : h[j] = i
        BY <3>1 DEF HeadersHold, m
      <3>3. \A j \in 1..(m + 1) : j = m + 1 \/ j \in 1..m
        BY <1>1
      <3>4. \A j \in 1..m : j \in 1..(m + 1)
        BY <1>1
      <3>5. QED
        BY <2>3, <3>2, <3>3, <3>4, <1>2
    <2>4. QED
      BY <2>2, <2>3
  <1>9. QED
    BY <1>1, <1>2, <1>3, <1>5, <1>6, <1>7, <1>8 DEF HeadersHold, g

\* A packet declares nothing.
LEMMA HoldPacket ==
    ASSUME NEW s, NEW n \in Nat \ {0}, NEW h, HeadersHold(s, n - 1, h), s[n].kind = "packet"
    PROVE  HeadersHold(s, n, h)
  <1>1. h \in Seq(Nat) /\ Len(h) > 0 /\ h[1] \in Nat /\ h[1] > 0 /\ 1 \in 1..Len(h)
    BY DEF HeadersHold
  <1>2. \A i \in 1..Len(h) : h[i] \in h[1]..(n - 1) /\ h[i] \in h[1]..n /\ h[i] # n
    <2>1. \A i \in 1..Len(h) : h[i] \in h[1]..(n - 1)
      BY DEF HeadersHold
    <2>2. \A x \in h[1]..(n - 1) : x \in h[1]..n /\ x # n
      BY <1>1
    <2>3. QED
      BY <2>1, <2>2
  <1>3. \A i : i \in h[1]..n => i = n \/ i \in h[1]..(n - 1)
    BY <1>1
  <1>4. \A i : i \in (h[1] + 1)..n => i = n \/ i \in (h[1] + 1)..(n - 1)
    BY <1>1
  <1>5. s[h[1]].kind = "section" /\ \A i \in (h[1] + 1)..n : s[i].kind # "section"
    BY <1>1, <1>4 DEF HeadersHold
  <1>6. ASSUME NEW i \in h[1]..n
        PROVE  s[i].kind # "packet" <=> \E j \in 1..Len(h) : h[j] = i
    <2>1. CASE i = n
      BY <2>1, <1>2
    <2>2. CASE i # n
      BY <2>2, <1>3 DEF HeadersHold
    <2>3. QED
      BY <2>1, <2>2
  <1>7. \A i, j \in 1..Len(h) : i < j => h[i] < h[j]
    BY DEF HeadersHold
  <1>8. QED
    BY <1>1, <1>2, <1>5, <1>6, <1>7 DEF HeadersHold

\* So are the headers of every place.
LEMMA HeadersAre ==
    ASSUME NEW s, Shaped(s), NEW n \in 1..Len(s)
    PROVE  HeadersHold(s, n, HeadersOf(s, n))
  <1> DEFINE W == {m \in 1..Len(s) : ~HeadersHold(s, m, HeadersOf(s, m))}
  <1>0. s[1].kind = "section" /\ Len(s) \in Nat /\ \A i \in 1..Len(s) : s[i].kind \in Kinds
    <2>1. s \in Seq(Records) /\ Len(s) \in Nat /\ (s # <<>> => s[1].kind = "section")
      BY DEF Shaped
    <2>2. s # <<>>
      BY <2>1
    <2>3. \A i \in 1..Len(s) : s[i] \in Records
      BY <2>1
    <2>4. QED
      BY <2>1, <2>2, <2>3 DEF Records
  <1>1. SUFFICES ASSUME W # {} PROVE FALSE
    OBVIOUS
  <1>2. \E i \in W : \A j \in W : i <= j
    <2>1. W \subseteq Nat
      BY <1>0
    <2> HIDE DEF W
    <2>2. QED
      BY <2>1, <1>1, LeastNat
  <1>3. PICK i \in W : \A j \in W : i <= j
    BY <1>2
  <1>4. i \in 1..Len(s) /\ i \in Nat \ {0} /\ ~HeadersHold(s, i, HeadersOf(s, i)) /\ i - 1 \notin W
    BY <1>0, <1>3
  <1>5. HeadersOf(s, i) = HeadersThen(s, i, HeadersOf(s, i - 1))
    BY <1>4, HeadersNext
  <1>6. CASE s[i].kind = "section"
    <2>1. HeadersOf(s, i) = <<i>>
      BY <1>5, <1>6 DEF HeadersThen
    <2>2. QED
      BY <1>4, <1>6, <2>1, HoldSection
  <1>7. CASE s[i].kind # "section"
    <2>1. i - 1 \in 1..Len(s)
      BY <1>0, <1>4, <1>7
    <2>2. HeadersHold(s, i - 1, HeadersOf(s, i - 1))
      BY <1>4, <2>1
    <2>3. CASE s[i].kind = "interface"
      <3>1. HeadersOf(s, i) = Append(HeadersOf(s, i - 1), i)
        BY <1>5, <1>7, <2>3 DEF HeadersThen
      <3>2. QED
        BY <1>4, <2>2, <2>3, <3>1, HoldInterface
    <2>4. CASE s[i].kind = "packet"
      <3>1. HeadersOf(s, i) = HeadersOf(s, i - 1)
        BY <1>5, <2>4 DEF HeadersThen
      <3>2. QED
        BY <1>4, <2>2, <2>4, <3>1, HoldPacket
    <2>5. QED
      BY <1>0, <1>4, <1>7, <2>3, <2>4 DEF Kinds
  <1>8. QED
    BY <1>6, <1>7

\* The stream is records behind a section header.
StreamShape ==
    /\ stream \in Seq(Records)
    /\ stream # <<>> => stream[1].kind = "section"

\* headersAt() is a list of places, whatever was read of the stream.
LEMMA HeadersAreNumbers ==
    ASSUME StreamShape, NEW n \in 1..Len(stream)
    PROVE  headersAt(n) \in Seq(Nat) /\ Len(headersAt(n)) > 0
  <1>1. HeadersHold(stream, n, HeadersOf(stream, n))
    BY HeadersAre DEF StreamShape, Shaped
  <1>2. QED
    BY <1>1, OfStream DEF HeadersHold

\* While a stream goes on behind place n, the headers there stay the same.
LEMMA HeadersKept ==
    ASSUME NEW s, Shaped(s), NEW t, Shaped(t), NEW n \in 1..Len(s), n <= Len(t),
           \A i \in 1..n : t[i] = s[i]
    PROVE  HeadersOf(t, n) = HeadersOf(s, n)
  <1> DEFINE W == {m \in 1..n : HeadersOf(t, m) # HeadersOf(s, m)}
  <1>0. s \in Seq(Records) /\ t \in Seq(Records) /\ Len(s) \in Nat /\ Len(t) \in Nat /\ n \in Nat
        /\ s[1].kind = "section"
    BY DEF Shaped
  <1>1. SUFFICES ASSUME W # {} PROVE FALSE
    BY <1>0
  <1>2. \E i \in W : \A j \in W : i <= j
    <2>1. W \subseteq Nat
      BY <1>0
    <2> HIDE DEF W
    <2>2. QED
      BY <2>1, <1>1, LeastNat
  <1>3. PICK i \in W : \A j \in W : i <= j
    BY <1>2
  <1>4. i \in 1..n /\ i \in 1..Len(s) /\ i \in 1..Len(t) /\ i \in Nat /\ HeadersOf(t, i) # HeadersOf(s, i)
        /\ i - 1 \notin W
    BY <1>0, <1>3
  <1>5. /\ HeadersOf(t, i) = HeadersThen(t, i, HeadersOf(t, i - 1))
        /\ HeadersOf(s, i) = HeadersThen(s, i, HeadersOf(s, i - 1))
        /\ t[i] = s[i]
    BY <1>4, HeadersNext
  <1>6. CASE s[i].kind = "section"
    BY <1>4, <1>5, <1>6 DEF HeadersThen
  <1>7. CASE s[i].kind # "section"
    <2>1. i - 1 \in 1..n
      BY <1>0, <1>4, <1>7
    <2>2. HeadersOf(t, i - 1) = HeadersOf(s, i - 1)
      BY <1>4, <2>1
    <2>3. QED
      BY <1>4, <1>5, <2>2 DEF HeadersThen
  <1>8. QED
    BY <1>6, <1>7

\* The packets up to a place of the stream.
LEMMA PacketsUpTo ==
    ASSUME NEW s \in Seq(Records), NEW n \in Nat
    PROVE  /\ IsFiniteSet(PacketsOf(s, n)) /\ CountOf(s, n) \in Nat
           /\ \A i : i \in PacketsOf(s, n) <=> i \in 1..Len(s) /\ s[i].kind = "packet" /\ i <= n
  <1>1. Len(s) \in Nat /\ DOMAIN s = 1..Len(s)
    OBVIOUS
  <1>2. \A i : i \in PacketsOf(s, n) <=> i \in 1..Len(s) /\ s[i].kind = "packet" /\ i <= n
    BY <1>1 DEF PacketsOf
  <1>3. PacketsOf(s, n) \subseteq 1..Len(s) /\ IsFiniteSet(1..Len(s))
    BY <1>1, <1>2, FS_Interval
  <1>4. IsFiniteSet(PacketsOf(s, n))
    BY <1>3, FS_Subset
  <1>5. QED
    BY <1>2, <1>4, FS_CardinalityType DEF CountOf

\* Their number grows with every packet, and with nothing else.
LEMMA CountUp ==
    ASSUME NEW s \in Seq(Records), NEW m \in Nat, NEW n \in Nat, m <= n
    PROVE  /\ CountOf(s, m) <= CountOf(s, n)
           /\ n \in PacketsOf(s, n) /\ m < n => CountOf(s, m) < CountOf(s, n)
  <1>1. PacketsOf(s, m) \subseteq PacketsOf(s, n)
    <2>1. ASSUME NEW i \in PacketsOf(s, m) PROVE i \in PacketsOf(s, n)
      <3>1. i \in 1..Len(s) /\ s[i].kind = "packet" /\ i <= m
        BY PacketsUpTo
      <3>2. i <= n
        BY <3>1
      <3>3. QED
        BY <3>1, <3>2, PacketsUpTo
    <2>2. QED
      BY <2>1
  <1>2. /\ IsFiniteSet(PacketsOf(s, n)) /\ CountOf(s, n) \in Nat /\ CountOf(s, m) \in Nat
    BY PacketsUpTo
  <1>3. CountOf(s, m) <= CountOf(s, n) /\ (CountOf(s, n) = CountOf(s, m) => PacketsOf(s, n) = PacketsOf(s, m))
    BY <1>1, <1>2, FS_Subset DEF CountOf
  <1>4. ASSUME n \in PacketsOf(s, n), m < n PROVE CountOf(s, m) < CountOf(s, n)
    <2>1. n \notin PacketsOf(s, m)
      BY <1>4, PacketsUpTo
    <2>2. CountOf(s, m) # CountOf(s, n)
      BY <1>3, <1>4, <2>1
    <2>3. QED
      BY <1>2, <1>3, <2>2
  <1>5. QED
    BY <1>3, <1>4

\* The number of packets up to a place says which place comes first.
LEMMA CountOrders ==
    ASSUME NEW s \in Seq(Records), NEW m \in Nat, NEW n \in PacketsOf(s, Len(s))
    PROVE  CountOf(s, n) <= CountOf(s, m) => n <= m
  <1>1. n \in Nat /\ n \in 1..Len(s) /\ s[n].kind = "packet" /\ Len(s) \in Nat
    BY PacketsUpTo
  <1>2. n \in PacketsOf(s, n)
    BY <1>1, PacketsUpTo
  <1>3. ASSUME ~(n <= m) PROVE CountOf(s, m) < CountOf(s, n)
    BY <1>1, <1>2, <1>3, CountUp
  <1>4. CountOf(s, m) \in Nat /\ CountOf(s, n) \in Nat
    BY <1>1, PacketsUpTo
  <1>5. QED
    BY <1>3, <1>4

\* While a stream goes on behind place n, the packets up to there stay the same.
LEMMA CountKept ==
    ASSUME NEW s \in Seq(Records), NEW t \in Seq(Records), NEW n \in Nat, n <= Len(s), n <= Len(t),
           \A i \in 1..n : t[i] = s[i]
    PROVE  PacketsOf(t, n) = PacketsOf(s, n) /\ CountOf(t, n) = CountOf(s, n)
  <1>1. ASSUME NEW i PROVE i \in PacketsOf(t, n) <=> i \in PacketsOf(s, n)
    <2>1. i \in PacketsOf(s, n) <=> i \in 1..n /\ s[i].kind = "packet"
      <3>1. i \in 1..Len(s) /\ i <= n <=> i \in 1..n
        OBVIOUS
      <3>2. QED
        BY <3>1, PacketsUpTo
    <2>2. i \in PacketsOf(t, n) <=> i \in 1..n /\ t[i].kind = "packet"
      <3>1. i \in 1..Len(t) /\ i <= n <=> i \in 1..n
        OBVIOUS
      <3>2. QED
        BY <3>1, PacketsUpTo
    <2>3. QED
      BY <2>1, <2>2
  <1>2. PacketsOf(t, n) = PacketsOf(s, n)
    BY <1>1
  <1>3. QED
    BY <1>2 DEF CountOf

\* The number of packets, from a place to the next.
LEMMA CountNext ==
    ASSUME NEW s \in Seq(Records), NEW n \in Nat, n + 1 <= Len(s)
    PROVE  CountOf(s, n + 1) = IF s[n + 1].kind = "packet" THEN CountOf(s, n) + 1 ELSE CountOf(s, n)
  <1>1. IsFiniteSet(PacketsOf(s, n)) /\ n + 1 \notin PacketsOf(s, n) /\ n + 1 \in 1..Len(s)
    BY PacketsUpTo
  <1>2. \A i : i \in PacketsOf(s, n + 1) <=> i \in PacketsOf(s, n) \/ (i = n + 1 /\ s[i].kind = "packet")
    <2>1. \A i \in 1..Len(s) : i <= n + 1 <=> i <= n \/ i = n + 1
      OBVIOUS
    <2>2. n + 1 \in Nat
      OBVIOUS
    <2>3. \A i : i \in PacketsOf(s, n + 1) <=> i \in 1..Len(s) /\ s[i].kind = "packet" /\ i <= n + 1
      BY <2>2, PacketsUpTo
    <2>4. \A i : i \in PacketsOf(s, n) <=> i \in 1..Len(s) /\ s[i].kind = "packet" /\ i <= n
      BY PacketsUpTo
    <2>5. QED
      BY <1>1, <2>1, <2>3, <2>4
  <1>3. CASE s[n + 1].kind = "packet"
    <2>1. PacketsOf(s, n + 1) = PacketsOf(s, n) \cup {n + 1}
      BY <1>2, <1>3
    <2>2. QED
      BY <1>1, <1>3, <2>1, FS_AddElement DEF CountOf
  <1>4. CASE s[n + 1].kind # "packet"
    <2>1. PacketsOf(s, n + 1) = PacketsOf(s, n)
      BY <1>2, <1>4
    <2>2. QED
      BY <1>4, <2>1 DEF CountOf
  <1>5. QED
    BY <1>3, <1>4

\* Every number up to that of a place is the number of a packet up to there.
LEMMA PlaceExists ==
    ASSUME NEW s \in Seq(Records), NEW n \in Nat, n <= Len(s), NEW p \in 1..CountOf(s, n)
    PROVE  \E i \in PacketsOf(s, n) : CountOf(s, i) = p
  <1> DEFINE T == {m \in 0..n : p <= CountOf(s, m)}
  <1>0. CountOf(s, n) \in Nat /\ p \in Nat /\ p >= 1 /\ p <= CountOf(s, n)
    BY PacketsUpTo
  <1>1. \E m \in T : \A j \in T : m <= j
    <2>1. n \in T /\ T \subseteq Nat
      BY <1>0
    <2> HIDE DEF T
    <2>2. QED
      BY <2>1, LeastNat
  <1>2. PICK m \in T : \A j \in T : m <= j
    BY <1>1
  <1>3. m \in 0..n /\ m \in Nat /\ p <= CountOf(s, m) /\ CountOf(s, m) \in Nat
    BY <1>2, PacketsUpTo
  <1>4. m # 0
    <2>1. PacketsOf(s, 0) = {}
      BY PacketsUpTo
    <2>2. CountOf(s, 0) = 0
      BY <2>1, FS_EmptySet DEF CountOf
    <2>3. QED
      BY <1>0, <1>3, <2>2
  <1>5. m - 1 \in Nat /\ m - 1 \in 0..n /\ m - 1 \notin T
    BY <1>2, <1>3, <1>4
  <1>6. CountOf(s, m - 1) \in Nat /\ CountOf(s, m - 1) < p
    BY <1>0, <1>5, PacketsUpTo
  <1>7. CountOf(s, m) = IF s[m].kind = "packet" THEN CountOf(s, m - 1) + 1 ELSE CountOf(s, m - 1)
    <2>1. PICK k \in Nat : k = m - 1 /\ k + 1 = m /\ k + 1 <= Len(s)
      BY <1>3, <1>5
    <2>2. QED
      BY <2>1, CountNext
  <1>8. s[m].kind = "packet" /\ CountOf(s, m) = p
    BY <1>0, <1>3, <1>6, <1>7
  <1>9. m \in PacketsOf(s, n)
    BY <1>3, <1>4, <1>8, PacketsUpTo
  <1>10. QED
    BY <1>8, <1>9

-----------------------------------------------------------------------------
(* Raw files as lists of places.                                           *)

\* A raw file laid so is a list of places, of the length its parts say.
LEMMA LaidIsSeq ==
    ASSUME NEW ho \in Seq(Nat), NEW so \in Nat, NEW hi \in Nat, so <= hi
    PROVE  Laid(ho, so, hi) \in Seq(Nat) /\ Len(Laid(ho, so, hi)) = Len(ho) + (hi - so)
  <1> DEFINE m == Len(ho) + (hi - so)
             el(k) == IF k <= Len(ho) THEN ho[k] ELSE so + (k - Len(ho))
  <1>1. m \in Nat
    OBVIOUS
  <1>2. \A k \in 1..m : el(k) \in Nat
    OBVIOUS
  <1>3. Laid(ho, so, hi) = [k \in 1..m |-> el(k)]
    BY DEF Laid
  <1> HIDE DEF m, el
  <1>4. Laid(ho, so, hi) \in Seq(Nat) /\ Len(Laid(ho, so, hi)) = m
    BY <1>1, <1>2, <1>3
  <1>5. QED
    BY <1>4 DEF m

\* A list is a function of its places.
LEMMA SeqIsFunction == ASSUME NEW s \in Seq(Nat) PROVE s = [k \in 1..Len(s) |-> s[k]]
  OBVIOUS

\* A list with one more entry, as a function of its places.
LEMMA AppendIs ==
    ASSUME NEW s \in Seq(Nat), NEW x \in Nat
    PROVE  Append(s, x) = [k \in 1..(Len(s) + 1) |-> IF k = Len(s) + 1 THEN x ELSE s[k]]
  <1> DEFINE a == Append(s, x)
  <1>1. a \in Seq(Nat) /\ Len(a) = Len(s) + 1
    OBVIOUS
  <1>2. \A k \in 1..(Len(s) + 1) : a[k] = IF k = Len(s) + 1 THEN x ELSE s[k]
    <2>1. SUFFICES ASSUME NEW k \in 1..(Len(s) + 1) PROVE a[k] = IF k = Len(s) + 1 THEN x ELSE s[k]
      OBVIOUS
    <2>2. CASE k = Len(s) + 1
      BY <2>2
    <2>3. CASE k # Len(s) + 1
      <3>1. k \in 1..Len(s)
        BY <2>3
      <3>2. a[k] = s[k]
        BY <3>1
      <3>3. QED
        BY <3>2, <2>3
    <2>4. QED
      BY <2>2, <2>3
  <1> HIDE DEF a
  <1>3. a = [k \in 1..Len(a) |-> a[k]]
    BY <1>1, SeqIsFunction
  <1>4. a = [k \in 1..(Len(s) + 1) |-> IF k = Len(s) + 1 THEN x ELSE s[k]]
    BY <1>1, <1>2, <1>3
  <1>5. QED
    BY <1>4 DEF a

\* Two lists in a row, as a function of their places.
LEMMA ConcatIs ==
    ASSUME NEW s \in Seq(Nat), NEW t \in Seq(Nat)
    PROVE  s \o t = [k \in 1..(Len(s) + Len(t)) |-> IF k <= Len(s) THEN s[k] ELSE t[k - Len(s)]]
  <1> DEFINE a == s \o t
  <1>1. a \in Seq(Nat) /\ Len(a) = Len(s) + Len(t)
    OBVIOUS
  <1>2. \A k \in 1..(Len(s) + Len(t)) : a[k] = IF k <= Len(s) THEN s[k] ELSE t[k - Len(s)]
    OBVIOUS
  <1> HIDE DEF a
  <1>3. a = [k \in 1..Len(a) |-> a[k]]
    BY <1>1, SeqIsFunction
  <1>4. a = [k \in 1..(Len(s) + Len(t)) |-> IF k <= Len(s) THEN s[k] ELSE t[k - Len(s)]]
    BY <1>1, <1>2, <1>3
  <1>5. QED
    BY <1>4 DEF a

\* The next record of the stream, written behind the others.
LEMMA LaidMore ==
    ASSUME NEW ho \in Seq(Nat), NEW so \in Nat, NEW hi \in Nat, so <= hi
    PROVE  Append(Laid(ho, so, hi), hi + 1) = Laid(ho, so, hi + 1)
  <1> DEFINE m == Len(ho) + (hi - so)
             L == Laid(ho, so, hi)
  <1>1. m \in Nat /\ Len(ho) \in Nat
    OBVIOUS
  <1>2. L \in Seq(Nat) /\ Len(L) = m
    BY LaidIsSeq
  <1>3. \A k \in 1..m : L[k] = IF k <= Len(ho) THEN ho[k] ELSE so + (k - Len(ho))
    BY DEF Laid
  <1> HIDE DEF L
  <1>4. Append(L, hi + 1) = [k \in 1..(m + 1) |-> IF k = m + 1 THEN hi + 1 ELSE L[k]]
    BY <1>2, AppendIs
  <1>5. Len(ho) + ((hi + 1) - so) = m + 1
    BY <1>1
  <1>6. \A k \in 1..(m + 1) : (IF k = m + 1 THEN hi + 1 ELSE L[k])
                                = IF k <= Len(ho) THEN ho[k] ELSE so + (k - Len(ho))
    <2>1. ~(m + 1 <= Len(ho)) /\ so + ((m + 1) - Len(ho)) = hi + 1
      BY <1>1
    <2>2. \A k \in 1..(m + 1) : k # m + 1 => k \in 1..m
      BY <1>1
    <2> HIDE DEF m
    <2>3. QED
      BY <2>1, <2>2, <1>3
  <1>7. QED
    <2>1. Laid(ho, so, hi + 1) = [k \in 1..(m + 1) |-> IF k <= Len(ho) THEN ho[k] ELSE so + (k - Len(ho))]
      BY <1>5 DEF Laid
    <2> HIDE DEF m
    <2>2. Append(L, hi + 1) = Laid(ho, so, hi + 1)
      BY <1>4, <1>6, <2>1
    <2>3. QED
      BY <2>2 DEF L

\* A file cut at a place of the stream holds the records up to it.
LEMMA LaidHead ==
    ASSUME NEW ho \in Seq(Nat), NEW so \in Nat, NEW cut \in Nat, NEW hi \in Nat, so <= cut, cut <= hi
    PROVE  SubSeq(Laid(ho, so, hi), 1, cut - so + Len(ho)) = Laid(ho, so, cut)
  <1> DEFINE m == Len(ho) + (hi - so)
             e == Len(ho) + (cut - so)
             L == Laid(ho, so, hi)
  <1>1. m \in Nat /\ Len(ho) \in Nat /\ e \in Nat /\ e <= m /\ cut - so + Len(ho) = e
    OBVIOUS
  <1>0. so <= hi
    OBVIOUS
  <1>2. L \in Seq(Nat) /\ Len(L) = m
    BY <1>0, LaidIsSeq
  <1>3. \A k \in 1..m : L[k] = IF k <= Len(ho) THEN ho[k] ELSE so + (k - Len(ho))
    BY DEF Laid
  <1>4. Laid(ho, so, cut) = [k \in 1..e |-> IF k <= Len(ho) THEN ho[k] ELSE so + (k - Len(ho))]
    BY DEF Laid
  <1> HIDE DEF L, e, m
  <1>5. SubSeq(L, 1, e) = [k \in 1..e |-> L[k]]
    BY <1>1, <1>2
  <1>6. \A k \in 1..e : L[k] = IF k <= Len(ho) THEN ho[k] ELSE so + (k - Len(ho))
    BY <1>1, <1>3
  <1>7. SubSeq(L, 1, e) = Laid(ho, so, cut)
    BY <1>4, <1>5, <1>6
  <1>8. QED
    BY <1>1, <1>7 DEF L

\* The next file: headers, and what lies in the file here from a place on.
Behind(headers, here, from) == headers \o SubSeq(here, from, Len(here))

\* What was read past the cut, moved behind the headers of the next file, is the
\* stream from the cut on.
LEMMA LaidRest ==
    ASSUME NEW ho \in Seq(Nat), NEW so \in Nat, NEW cut \in Nat, NEW hi \in Nat, so <= cut, cut <= hi,
           NEW headers \in Seq(Nat),
           NEW here, here = Laid(ho, so, hi), NEW from, from = (cut - so + Len(ho)) + 1
    PROVE  Behind(headers, here, from) = Laid(headers, cut, hi)
  <1> DEFINE m == Len(ho) + (hi - so)
             e == Len(ho) + (cut - so)
             L == Laid(ho, so, hi)
             R == SubSeq(L, e + 1, m)
             h == Len(headers)
  <1>1. m \in Nat /\ Len(ho) \in Nat /\ e \in Nat /\ e <= m /\ cut - so + Len(ho) = e
        /\ m - e = hi - cut /\ Len(ho) <= e /\ h \in Nat
    OBVIOUS
  <1>0. so <= hi
    OBVIOUS
  <1>2. L \in Seq(Nat) /\ Len(L) = m
    BY <1>0, LaidIsSeq
  <1>3. \A k \in 1..m : L[k] = IF k <= Len(ho) THEN ho[k] ELSE so + (k - Len(ho))
    BY DEF Laid
  <1>3a. \A k \in 1..m : k > e => L[k] = cut + (k - e)
    BY <1>1, <1>3
  <1>4. Laid(headers, cut, hi) = [k \in 1..(h + (hi - cut)) |-> IF k <= h THEN headers[k] ELSE cut + (k - h)]
    BY DEF Laid
  <1> HIDE DEF L, e, m
  <1>5. R \in Seq(Nat) /\ Len(R) = hi - cut /\ \A k \in 1..(hi - cut) : R[k] = L[e + k]
    BY <1>1, <1>2
  <1>6. \A k \in 1..(hi - cut) : R[k] = cut + k
    <2>1. SUFFICES ASSUME NEW k \in 1..(hi - cut) PROVE R[k] = cut + k
      OBVIOUS
    <2>2. e + k \in 1..m /\ e + k > e /\ (e + k) - e = k
      BY <1>1
    <2>3. QED
      BY <2>2, <1>3a, <1>5
  <1> HIDE DEF R
  <1>7. headers \o R = [k \in 1..(h + (hi - cut)) |-> IF k <= h THEN headers[k] ELSE R[k - h]]
    BY <1>5, ConcatIs
  <1>8. \A k \in 1..(h + (hi - cut)) : ~(k <= h) => R[k - h] = cut + (k - h)
    BY <1>1, <1>6
  <1>9. headers \o R = Laid(headers, cut, hi)
    BY <1>4, <1>7, <1>8
  <1>10. QED
    BY <1>1, <1>2, <1>9 DEF L, R, Behind

\* The headers read back from where fileOffset() says they lie in the file are
\* the headers: the next file starts with them and with no packet.
LEMMA HeadCopied ==
    ASSUME NEW part \in Parts, NEW hi \in Nat, NEW n \in Nat, n <= hi, part.streamOffset <= hi,
           fileOffset(part, n) # 0
    PROVE  Laid(part.headerOffsets, part.streamOffset, hi)[fileOffset(part, n)] = n
  <1> DEFINE ho == part.headerOffsets
             so == part.streamOffset
             m == Len(ho) + (hi - so)
             L == Laid(ho, so, hi)
  <1>1. ho \in Seq(Nat) /\ so \in Nat /\ Len(ho) \in Nat /\ so <= hi
    BY DEF Parts
  <1>2. \A k \in 1..m : L[k] = IF k <= Len(ho) THEN ho[k] ELSE so + (k - Len(ho))
    BY DEF Laid
  <1> HIDE DEF L
  <1>3. CASE n > so
    <2>1. fileOffset(part, n) = n - so + Len(ho)
      BY <1>3 DEF fileOffset
    <2>2. n - so + Len(ho) \in 1..m /\ ~(n - so + Len(ho) <= Len(ho))
      BY <1>1, <1>3
    <2>3. L[n - so + Len(ho)] = so + ((n - so + Len(ho)) - Len(ho))
      BY <1>2, <2>2
    <2>4. QED
      BY <1>1, <2>1, <2>3 DEF L
  <1>4. CASE ~(n > so)
    <2>1. PICK k \in DOMAIN ho : ho[k] = n /\ fileOffset(part, n) = k
      BY <1>4 DEF fileOffset
    <2>2. k \in 1..m /\ k <= Len(ho)
      BY <1>1, <2>1
    <2>3. L[k] = ho[k]
      BY <1>2, <2>2
    <2>4. QED
      BY <2>1, <2>3 DEF L
  <1>5. QED
    BY <1>3, <1>4

-----------------------------------------------------------------------------
(* What each operation does to the files.                                  *)

\* The file written is the last of those kept.
LEMMA CurrentPart ==
    ASSUME NEW f, FilesShape(f)
    PROVE  /\ Len(f.parts) \in Nat \ {0} /\ Len(f.parts) \in DOMAIN f.parts
           /\ Current(f) = f.parts[Len(f.parts)] /\ Current(f) \in Parts
           /\ Number(f) \in Nat \ {0}
           /\ \A i \in DOMAIN f.parts : f.parts[i] \in Parts /\ i \in 1..Len(f.parts)
  <1>1. f.parts \in Seq(Parts) /\ f.parts # <<>>
    BY DEF FilesShape
  <1>2. Current(f) = f.parts[Len(f.parts)]
    BY DEF Current, Last
  <1>3. Len(f.parts) \in Nat \ {0} /\ \A i \in DOMAIN f.parts : f.parts[i] \in Parts /\ i \in 1..Len(f.parts)
    BY <1>1
  <1>4. Len(f.parts) \in DOMAIN f.parts
    BY <1>1, <1>3
  <1>5. QED
    BY <1>2, <1>3, <1>4 DEF Number, Parts

\* The files with these parts, records, texts and readable sizes.
FilesOf(p, r, t, a, b) == [parts |-> p, raw |-> r, text |-> t, rawReadable |-> a, textReadable |-> b]

\* What such files are made of.
LEMMA FilesOfIs ==
    ASSUME NEW p, NEW r, NEW t, NEW a, NEW b
    PROVE  IsFiles(FilesOf(p, r, t, a, b))
  BY DEF IsFiles, FilesOf

\* Writing a record to the raw file keeps the shape of the files.
LEMMA WriteRawShape ==
    ASSUME NEW f, FilesShape(f), NEW n
    PROVE  LET g == writeRaw(f, n)
           IN  /\ FilesShape(g) /\ g.parts = f.parts /\ Number(g) = Number(f)
               /\ g.text = f.text /\ g.textReadable = f.textReadable /\ g.rawReadable = f.rawReadable
               /\ g.raw = [f.raw EXCEPT ![Number(f)] = Append(@, n)]
  <1>1. PICK p, r, t, a, b : f = FilesOf(p, r, t, a, b)
    BY DEF FilesShape, IsFiles, FilesOf
  <1> DEFINE g == writeRaw(f, n)
             raw == [r EXCEPT ![Number(f)] = Append(@, n)]
  <1>a. f.raw = r /\ Current(f).number = Number(f)
    BY <1>1 DEF FilesOf, Number
  <1>b. g = [f EXCEPT !.raw = raw]
    BY <1>a DEF writeRaw
  <1> HIDE DEF raw
  <1>2. g = FilesOf(p, raw, t, a, b)
    BY <1>1, <1>b DEF FilesOf
  <1> HIDE DEF g
  <1>3. Number(g) = Number(f)
    BY <1>1, <1>2 DEF Number, Current, FilesOf
  <1>4. g.parts = p /\ g.raw = raw /\ g.text = t /\ g.rawReadable = a /\ g.textReadable = b
    BY <1>2 DEF FilesOf
  <1>c. IsFiles(g)
    BY <1>2, FilesOfIs
  <1>5. f.parts = p /\ f.raw = r /\ f.text = t /\ f.rawReadable = a /\ f.textReadable = b
    BY <1>1 DEF FilesOf
  <1>6. DOMAIN raw = DOMAIN r
    BY DEF raw
  <1>7. FilesShape(g)
    BY <1>3, <1>4, <1>5, <1>6, <1>c DEF FilesShape
  <1>8. QED
    BY <1>3, <1>4, <1>5, <1>7 DEF g, raw

\* Writing a line to the text keeps the shape of the files.
LEMMA WriteLineShape ==
    ASSUME NEW f, FilesShape(f), NEW p \in Nat
    PROVE  LET g == writeLine(f, p)
           IN  /\ FilesShape(g) /\ g.parts = f.parts /\ g.raw = f.raw /\ Number(g) = Number(f)
               /\ g.textReadable = f.textReadable /\ g.rawReadable = f.rawReadable
               /\ g.text = [f.text EXCEPT ![Number(f)] = Append(@, p)]
               /\ Len(g.text[Number(g)]) > 0
  <1> DEFINE n == Number(f)
             g == writeLine(f, p)
  <1>1. n \in 1..Number(f) /\ n \in Nat
    BY CurrentPart
  <1>2. f.text \in [1..n -> Seq(Nat)] /\ f.textReadable \in 0..Len(f.text[n]) /\ f.text[n] \in Seq(Nat)
    BY <1>1 DEF FilesShape
  <1>3. PICK ps, r, t, a, b : f = FilesOf(ps, r, t, a, b)
    BY DEF FilesShape, IsFiles, FilesOf
  <1> DEFINE text == [t EXCEPT ![n] = Append(@, p)]
  <1>4. g = FilesOf(ps, r, text, a, b)
    BY <1>3 DEF writeLine, FilesOf, Number
  <1> HIDE DEF g
  <1>5. f.parts = ps /\ f.raw = r /\ f.text = t /\ f.rawReadable = a /\ f.textReadable = b
    BY <1>3 DEF FilesOf
  <1>6. g.parts = ps /\ g.raw = r /\ g.text = text /\ g.rawReadable = a /\ g.textReadable = b
    BY <1>4 DEF FilesOf
  <1>c. IsFiles(g)
    BY <1>4, FilesOfIs
  <1>7. Number(g) = n
    BY <1>5, <1>6 DEF Number, Current
  <1>8. text[n] = Append(t[n], p) /\ t[n] \in Seq(Nat)
    BY <1>1, <1>2, <1>5
  <1>9. Append(t[n], p) \in Seq(Nat) /\ Len(Append(t[n], p)) = Len(t[n]) + 1 /\ Len(t[n]) \in Nat
    BY <1>8
  <1>10. text \in [1..n -> Seq(Nat)]
    BY <1>1, <1>2, <1>5, <1>9
  <1>11. b \in 0..Len(text[n]) /\ Len(text[n]) > 0
    BY <1>2, <1>5, <1>8, <1>9
  <1>12. FilesShape(g)
    BY <1>5, <1>6, <1>7, <1>10, <1>11, <1>c DEF FilesShape
  <1>13. QED
    BY <1>5, <1>6, <1>7, <1>11, <1>12 DEF g

\* A flush keeps the files, and makes all of the ones written readable.
LEMMA FlushShape ==
    ASSUME NEW f, FilesShape(f)
    PROVE  LET g == flush(f)
           IN  /\ FilesShape(g) /\ g.parts = f.parts /\ g.raw = f.raw /\ g.text = f.text
               /\ Number(g) = Number(f)
               /\ g.rawReadable = Len(g.raw[Number(g)])
               /\ g.textReadable = Len(g.text[Number(g)])
               /\ f.textReadable <= g.textReadable /\ g.textReadable \in Nat
  <1> DEFINE n == Number(f)
             g == flush(f)
  <1>1. n \in 1..Number(f) /\ n \in Nat
    BY CurrentPart
  <1>2. f.text \in [1..n -> Seq(Nat)] /\ f.textReadable \in 0..Len(f.text[n]) /\ f.text[n] \in Seq(Nat)
    BY <1>1 DEF FilesShape
  <1>3. PICK ps, r, t, a, b : f = FilesOf(ps, r, t, a, b)
    BY DEF FilesShape, IsFiles, FilesOf
  <1>a. f.raw = r /\ f.text = t /\ Current(f).number = n
    BY <1>3 DEF FilesOf, Number
  <1>b. g = [f EXCEPT !.rawReadable = Len(r[n]), !.textReadable = Len(t[n])]
    BY <1>a DEF flush
  <1>4. g = FilesOf(ps, r, t, Len(r[n]), Len(t[n]))
    BY <1>3, <1>b DEF FilesOf
  <1> HIDE DEF g
  <1>5. f.parts = ps /\ f.raw = r /\ f.text = t /\ f.rawReadable = a /\ f.textReadable = b
    BY <1>3 DEF FilesOf
  <1>6. g.parts = ps /\ g.raw = r /\ g.text = t /\ g.rawReadable = Len(r[n]) /\ g.textReadable = Len(t[n])
    BY <1>4 DEF FilesOf
  <1>c. IsFiles(g)
    BY <1>4, FilesOfIs
  <1>7. Number(g) = n
    BY <1>5, <1>6 DEF Number, Current
  <1>8. Len(t[n]) \in Nat /\ Len(t[n]) \in 0..Len(t[n]) /\ b <= Len(t[n])
    BY <1>2, <1>5
  <1>9. FilesShape(g)
    BY <1>2, <1>5, <1>6, <1>7, <1>8, <1>c DEF FilesShape
  <1>10. QED
    BY <1>5, <1>6, <1>7, <1>8, <1>9 DEF g

\* The files that are opened have their shape, and hold the capture's header.
LEMMA OpenFilesShape ==
    /\ FilesShape(OpenFiles(1)) /\ Number(OpenFiles(1)) = 1
    /\ FilesHold(OpenFiles(1), 1)
    /\ OpenFiles(1).textReadable = 0
  <1> DEFINE f == OpenFiles(1)
  <1>1. f = FilesOf(<<FirstPart>>, [k \in {1} |-> [i \in 1..1 |-> i]], [k \in {1} |-> <<>>], 0, 0)
    BY DEF OpenFiles, FilesOf
  <1> HIDE DEF f
  <1>2. f.parts = <<FirstPart>> /\ f.raw = [k \in {1} |-> [i \in 1..1 |-> i]]
        /\ f.text = [k \in {1} |-> <<>>] /\ f.rawReadable = 0 /\ f.textReadable = 0
    BY <1>1 DEF FilesOf
  <1>c. IsFiles(f)
    BY <1>1, FilesOfIs
  <1>3. FirstPart \in Parts /\ FirstPart.number = 1 /\ FirstPart.streamOffset = 0
        /\ FirstPart.headerOffsets = <<>>
    BY DEF FirstPart, Parts
  <1>4. f.parts \in Seq(Parts) /\ f.parts # <<>> /\ Len(f.parts) = 1 /\ DOMAIN f.parts = {1}
        /\ f.parts[1] = FirstPart
    BY <1>2, <1>3
  <1>5. Number(f) = 1
    BY <1>3, <1>4 DEF Number, Current, Last
  <1>6. {f.parts[i].number : i \in DOMAIN f.parts} = {1}
    BY <1>3, <1>4
  <1>7. f.text \in [1..1 -> Seq(Nat)] /\ f.text[1] = <<>> /\ Len(f.text[1]) = 0
    BY <1>2
  <1>8. FilesShape(f)
    <2>1. \A i, j \in DOMAIN f.parts : f.parts[j].number = f.parts[i].number + (j - i)
      BY <1>3, <1>4
    <2>2. DOMAIN f.raw = {1}
      BY <1>2
    <2>3. f.textReadable \in 0..Len(f.text[1])
      BY <1>2, <1>7
    <2>4. QED
      BY <1>2, <1>4, <1>5, <1>6, <1>7, <2>1, <2>2, <2>3, <1>c DEF FilesShape
  <1>9. f.raw[1] = Laid(<<>>, 0, 1)
    <2>1. Laid(<<>>, 0, 1) = [k \in 1..1 |-> k]
      BY DEF Laid
    <2>2. QED
      BY <1>2, <2>1
  <1>10. FilesHold(f, 1)
    BY <1>3, <1>4, <1>9 DEF FilesHold, EndOfPart
  <1>11. QED
    BY <1>2, <1>5, <1>8, <1>10 DEF f

-----------------------------------------------------------------------------
(* What the files hold as records are written and a ring buffer moves on.  *)

\* The record written to the raw file is held behind those read before it.
LEMMA WriteRawHolds ==
    ASSUME NEW f, FilesShape(f), NEW n \in Nat, FilesHold(f, n)
    PROVE  FilesHold(writeRaw(f, n + 1), n + 1)
  <1> DEFINE g == writeRaw(f, n + 1)
             m == Len(f.parts)
  <1>1. /\ g.parts = f.parts
        /\ g.raw = [f.raw EXCEPT ![Number(f)] = Append(@, n + 1)]
    BY WriteRawShape
  <1> HIDE DEF g
  <1>2. m \in Nat \ {0} /\ m \in DOMAIN f.parts /\ Number(f) = f.parts[m].number
        /\ \A i \in DOMAIN f.parts : f.parts[i] \in Parts /\ i \in 1..m
    BY CurrentPart DEF Number
  <1>3. DOMAIN f.raw = {f.parts[i].number : i \in DOMAIN f.parts}
        /\ \A i, j \in DOMAIN f.parts : f.parts[j].number = f.parts[i].number + (j - i)
    BY DEF FilesShape
  <1>4. SUFFICES ASSUME NEW i \in DOMAIN f.parts
                 PROVE  /\ f.parts[i].streamOffset <= EndOfPart(g, i, n + 1)
                        /\ g.raw[f.parts[i].number]
                            = Laid(f.parts[i].headerOffsets, f.parts[i].streamOffset, EndOfPart(g, i, n + 1))
    BY <1>1 DEF FilesHold, g
  <1>5. /\ f.parts[i].streamOffset <= EndOfPart(f, i, n)
        /\ f.raw[f.parts[i].number]
            = Laid(f.parts[i].headerOffsets, f.parts[i].streamOffset, EndOfPart(f, i, n))
    BY DEF FilesHold
  <1>6. f.parts[i].headerOffsets \in Seq(Nat) /\ f.parts[i].streamOffset \in Nat
        /\ f.parts[i].number \in Nat /\ i \in 1..m /\ f.parts[i].number \in DOMAIN f.raw
    BY <1>2, <1>3 DEF Parts
  <1>7. CASE i = m
    <2>1. EndOfPart(f, i, n) = n /\ EndOfPart(g, i, n + 1) = n + 1
      BY <1>1, <1>7 DEF EndOfPart
    <2>2. g.raw[f.parts[i].number] = Append(f.raw[f.parts[i].number], n + 1)
      BY <1>1, <1>2, <1>6, <1>7
    <2>3. Append(Laid(f.parts[i].headerOffsets, f.parts[i].streamOffset, n), n + 1)
           = Laid(f.parts[i].headerOffsets, f.parts[i].streamOffset, n + 1)
      BY <1>5, <1>6, <2>1, LaidMore
    <2>4. f.parts[i].streamOffset <= n + 1
      BY <1>5, <1>6, <2>1
    <2>5. QED
      BY <1>5, <2>1, <2>2, <2>3, <2>4
  <1>8. CASE i # m
    <2>1. EndOfPart(g, i, n + 1) = EndOfPart(f, i, n)
      BY <1>1, <1>8 DEF EndOfPart
    <2>2. f.parts[i].number # Number(f)
      <3>1. f.parts[m].number = f.parts[i].number + (m - i)
        BY <1>2, <1>3
      <3>2. QED
        BY <3>1, <1>2, <1>6, <1>8
    <2>3. g.raw[f.parts[i].number] = f.raw[f.parts[i].number]
      BY <1>1, <1>6, <2>2
    <2>4. QED
      BY <1>5, <2>1, <2>3
  <1>9. QED
    BY <1>7, <1>8

\* The part startNext() adds.
NextPart(f, cut, before, headers) ==
    [number |-> Number(f) + 1, packetsBefore |-> before, streamOffset |-> cut, headerOffsets |-> headers]

\* The parts are the ones there were and next, without the first one or with it.
FollowsOn(parts, old, next) ==
    \E d \in {0, 1} :
        /\ parts \in Seq(Parts) /\ Len(parts) = Len(old) + 1 - d /\ parts # <<>>
        /\ \A i \in 1..Len(parts) : parts[i] = IF i + d = Len(old) + 1 THEN next ELSE old[i + d]

\* startNext() keeps the numbers in a row, and leaves the parts it keeps as they
\* were.
LEMMA StartNextParts ==
    ASSUME NEW f, FilesShape(f), NEW cut \in Nat, NEW before \in Nat, NEW headers \in Seq(Nat)
    PROVE  /\ NextPart(f, cut, before, headers) \in Parts
           /\ FollowsOn(startNext(f, cut, before, headers).parts, f.parts, NextPart(f, cut, before, headers))
  <1> DEFINE g == startNext(f, cut, before, headers)
             m == Len(f.parts)
             next == [number |-> Number(f) + 1, packetsBefore |-> before, streamOffset |-> cut,
                      headerOffsets |-> headers]
             P == Append(f.parts, next)
  <1>1. next \in Parts
    BY CurrentPart DEF Parts
  <1>2. g.parts = IF Len(P) > RingFiles THEN Tail(P) ELSE P
    BY DEF startNext, Number
  <1>3. f.parts \in Seq(Parts) /\ m \in Nat \ {0}
    BY CurrentPart DEF FilesShape
  <1> HIDE DEF next, g
  <1>4. P \in Seq(Parts) /\ Len(P) = m + 1
        /\ \A i \in 1..(m + 1) : P[i] = IF i = m + 1 THEN next ELSE f.parts[i]
    BY <1>1, <1>3
  <1> HIDE DEF P
  <1>5. Tail(P) \in Seq(Parts) /\ Len(Tail(P)) = m /\ \A i \in 1..m : Tail(P)[i] = P[i + 1]
    BY <1>3, <1>4
  <1> DEFINE Shape == \E d \in {0, 1} :
                 /\ g.parts \in Seq(Parts) /\ Len(g.parts) = m + 1 - d /\ g.parts # <<>>
                 /\ \A i \in 1..Len(g.parts) :
                      g.parts[i] = IF i + d = m + 1 THEN next ELSE f.parts[i + d]
  <1>6. ASSUME g.parts = P PROVE Shape
    <2>1. /\ g.parts \in Seq(Parts) /\ Len(g.parts) = m + 1 - 0 /\ g.parts # <<>>
          /\ \A i \in 1..Len(g.parts) : g.parts[i] = IF i + 0 = m + 1 THEN next ELSE f.parts[i + 0]
      BY <1>3, <1>4, <1>6
    <2>2. QED
      BY <2>1
  <1>7. ASSUME g.parts = Tail(P) PROVE Shape
    <2>1. Len(g.parts) = m + 1 - 1 /\ Len(g.parts) = m
      BY <1>3, <1>5, <1>7
    <2>2. \A i \in 1..m : g.parts[i] = IF i + 1 = m + 1 THEN next ELSE f.parts[i + 1]
      <3>1. SUFFICES ASSUME NEW i \in 1..m PROVE g.parts[i] = IF i + 1 = m + 1 THEN next ELSE f.parts[i + 1]
        OBVIOUS
      <3>2. g.parts[i] = P[i + 1] /\ i + 1 \in 1..(m + 1)
        BY <1>3, <1>5, <1>7
      <3>3. QED
        BY <1>4, <3>2
    <2>3. g.parts \in Seq(Parts) /\ g.parts # <<>>
      <3>1. g.parts \in Seq(Parts)
        BY <1>5, <1>7
      <3>2. Len(g.parts) # 0
        BY <1>3, <2>1
      <3>3. QED
        BY <3>1, <3>2
    <2>4. QED
      BY <2>1, <2>2, <2>3
  <1>8. Shape
    BY <1>2, <1>6, <1>7
  <1>9. QED
    BY <1>1, <1>8 DEF g, next, NextPart, FollowsOn

\* startNext() keeps the shape of the files; the next file has no line yet.
LEMMA StartNextShape ==
    ASSUME NEW f, FilesShape(f), NEW cut \in Nat, NEW before \in Nat, NEW headers \in Seq(Nat)
    PROVE  LET g == startNext(f, cut, before, headers)
           IN  FilesShape(g) /\ Number(g) = Number(f) + 1 /\ g.textReadable = 0
  <1> DEFINE g == startNext(f, cut, before, headers)
             m == Len(f.parts)
             N == Number(f) + 1
             next == [number |-> N, packetsBefore |-> before, streamOffset |-> cut,
                      headerOffsets |-> headers]
             numbers == {g.parts[i].number : i \in DOMAIN g.parts}
             text == [k \in DOMAIN f.text \cup {N} |-> IF k = N THEN <<>> ELSE f.text[k]]
  <1>1. next \in Parts /\ next.number = N /\ FollowsOn(g.parts, f.parts, next)
    BY StartNextParts DEF NextPart
  <1>2. PICK d \in {0, 1} :
            /\ g.parts \in Seq(Parts) /\ Len(g.parts) = m + 1 - d /\ g.parts # <<>>
            /\ \A i \in 1..Len(g.parts) : g.parts[i] = IF i + d = m + 1 THEN next ELSE f.parts[i + d]
    <2> HIDE DEF g, next
    <2>1. QED
      BY <1>1 DEF FollowsOn
  <1>3. m \in Nat \ {0} /\ m \in DOMAIN f.parts /\ Number(f) = f.parts[m].number
        /\ Number(f) \in Nat \ {0} /\ DOMAIN f.parts = 1..m
        /\ \A i \in DOMAIN f.parts : f.parts[i] \in Parts
    BY CurrentPart DEF Number, FilesShape
  <1>4. \E raw : g = FilesOf(g.parts, [i \in numbers |-> raw[i]], text, 0, 0)
    <2> DEFINE here == f.raw[Number(f)]
               end == EndOf(Current(f), cut)
               head == [k \in DOMAIN headers |-> here[fileOffset(Current(f), headers[k])]]
               raw == [i \in numbers |->
                    CASE i = N -> head \o SubSeq(here, end + 1, Len(here))
                      [] i = Number(f) -> SubSeq(here, 1, end)
                      [] OTHER -> f.raw[i]]
    <2>1. g = FilesOf(g.parts, raw, text, 0, 0)
      BY DEF startNext, FilesOf, Number
    <2>2. raw = [i \in numbers |-> raw[i]]
      OBVIOUS
    <2> HIDE DEF raw, g, numbers, text
    <2>3. QED
      BY <2>1, <2>2
  <1> HIDE DEF g, next, numbers, text
  <1>5. DOMAIN g.parts = 1..Len(g.parts) /\ Len(g.parts) \in Nat \ {0} /\ Len(g.parts) + d = m + 1
    BY <1>2, <1>3
  <1>6. Number(g) = N
    <2>1. Current(g) = g.parts[Len(g.parts)]
      BY DEF Current, Last
    <2>2. Current(g) = next
      BY <1>2, <1>5, <2>1
    <2>3. QED
      BY <1>1, <2>2 DEF Number
  <1>7. \A i \in DOMAIN g.parts : i \in Nat /\ g.parts[i].number = N + ((i + d) - (m + 1))
    <2>1. SUFFICES ASSUME NEW i \in DOMAIN g.parts
                   PROVE  g.parts[i].number = N + ((i + d) - (m + 1))
      BY <1>5
    <2>2. i \in Nat /\ i \in 1..Len(g.parts)
      BY <1>5
    <2>3. CASE i + d = m + 1
      <3>a. g.parts[i] = next
        BY <1>2, <2>2, <2>3
      <3>b. (i + d) - (m + 1) = 0
        BY <1>3, <2>3
      <3>1. g.parts[i].number = N /\ (i + d) - (m + 1) = 0
        BY <1>1, <3>a, <3>b
      <3>2. QED
        BY <3>1, <1>3
    <2>4. CASE i + d # m + 1
      <3>1. i + d \in 1..m
        BY <1>5, <1>3, <2>2, <2>4
      <3>2. g.parts[i] = f.parts[i + d]
        BY <1>2, <2>2, <2>4
      <3>3. f.parts[m].number = f.parts[i + d].number + (m - (i + d))
        BY <1>3, <3>1 DEF FilesShape
      <3>4. f.parts[i + d].number \in Nat
        BY <1>3, <3>1 DEF Parts
      <3>5. i + d \in Nat /\ m \in Nat /\ f.parts[m].number = Number(f) /\ Number(f) \in Nat
        BY <1>3, <3>1
      <3> HIDE DEF m
      <3>6. QED
        BY <3>2, <3>3, <3>4, <3>5
    <2>5. QED
      BY <2>3, <2>4
  <1>8. \A i, j \in DOMAIN g.parts : g.parts[j].number = g.parts[i].number + (j - i)
    <2>1. SUFFICES ASSUME NEW i \in DOMAIN g.parts, NEW j \in DOMAIN g.parts
                   PROVE  g.parts[j].number = g.parts[i].number + (j - i)
      BY Zenon
    <2>2. /\ i \in Nat /\ g.parts[i].number = N + ((i + d) - (m + 1))
          /\ j \in Nat /\ g.parts[j].number = N + ((j + d) - (m + 1))
      BY <1>7
    <2>3. m \in Nat /\ N \in Nat /\ d \in Nat
      BY <1>3
    <2> HIDE DEF m, N
    <2>4. QED
      BY <2>2, <2>3
  <1>9. PICK raw : g = FilesOf(g.parts, [i \in numbers |-> raw[i]], text, 0, 0)
    BY <1>4
  <1>10. g.raw = [i \in numbers |-> raw[i]] /\ g.text = text /\ g.rawReadable = 0 /\ g.textReadable = 0
    BY <1>9 DEF FilesOf
  <1>b. IsFiles(g)
    BY <1>9, FilesOfIs
  <1>11. text \in [1..N -> Seq(Nat)] /\ text[N] = <<>> /\ Len(text[N]) = 0
    <2>1. f.text \in [1..Number(f) -> Seq(Nat)]
      BY DEF FilesShape
    <2>2. DOMAIN f.text \cup {N} = 1..N
      BY <1>3, <2>1
    <2>3. text = [k \in 1..N |-> IF k = N THEN <<>> ELSE f.text[k]]
      BY <2>2 DEF text
    <2>4. \A k \in 1..N : k # N => f.text[k] \in Seq(Nat)
      BY <1>3, <2>1
    <2>5. N \in 1..N /\ <<>> \in Seq(Nat) /\ Len(<<>>) = 0
      BY <1>3
    <2>6. QED
      BY <2>3, <2>4, <2>5
  <1>12. DOMAIN g.raw = numbers
    BY <1>10
  <1>13. 0 \in 0..Len(text[N])
    BY <1>11
  <1>14. FilesShape(g)
    BY <1>2, <1>6, <1>8, <1>10, <1>11, <1>12, <1>13, <1>b DEF FilesShape, numbers
  <1>15. QED
    BY <1>6, <1>10, <1>14 DEF g

\* When the capture can be split at the cut, startNext() moves what was read
\* past it to the next file and cuts the one before there: each holds its part
\* of the stream.
LEMMA StartNextHolds ==
    ASSUME NEW f, FilesShape(f), NEW n \in Nat, FilesHold(f, n),
           NEW cut \in Nat, cut <= n, Current(f).streamOffset <= cut,
           NEW before \in Nat, NEW headers \in Seq(Nat),
           \A k \in DOMAIN headers : fileOffset(Current(f), headers[k]) # 0 /\ headers[k] <= cut
    PROVE  FilesHold(startNext(f, cut, before, headers), n)
  <1> DEFINE g == startNext(f, cut, before, headers)
             m == Len(f.parts)
             N == Number(f) + 1
             next == NextPart(f, cut, before, headers)
             part == Current(f)
             ho == part.headerOffsets
             so == part.streamOffset
             here == f.raw[Number(f)]
             numbers == {g.parts[i].number : i \in DOMAIN g.parts}
  <1>1. next \in Parts /\ next.number = N /\ next.streamOffset = cut /\ next.headerOffsets = headers
        /\ FollowsOn(g.parts, f.parts, next)
    BY StartNextParts DEF NextPart
  <1>2. PICK d \in {0, 1} :
            /\ g.parts \in Seq(Parts) /\ Len(g.parts) = m + 1 - d /\ g.parts # <<>>
            /\ \A i \in 1..Len(g.parts) : g.parts[i] = IF i + d = m + 1 THEN next ELSE f.parts[i + d]
    <2> HIDE DEF g, next
    <2>1. QED
      BY <1>1 DEF FollowsOn
  <1>3. m \in Nat \ {0} /\ m \in DOMAIN f.parts /\ part = f.parts[m] /\ Number(f) = part.number
        /\ Number(f) \in Nat \ {0} /\ DOMAIN f.parts = 1..m
        /\ \A i \in DOMAIN f.parts : f.parts[i] \in Parts
    <2>1. f.parts \in Seq(Parts)
      BY DEF FilesShape
    <2>2. DOMAIN f.parts = 1..m
      BY <2>1
    <2>3. QED
      BY <2>2, CurrentPart DEF Number
  <1>4. here = Laid(ho, so, n) /\ so <= n /\ ho \in Seq(Nat) /\ so \in Nat /\ part \in Parts
    <2>1. EndOfPart(f, m, n) = n
      BY DEF EndOfPart
    <2>2. QED
      BY <1>3, <2>1 DEF FilesHold, Parts
  <1>5. /\ numbers = DOMAIN g.raw
        /\ N \in numbers => g.raw[N] = Laid(headers, cut, n)
        /\ Number(f) \in numbers => g.raw[Number(f)] = Laid(ho, so, cut)
        /\ \A i \in numbers : i # N /\ i # Number(f) => g.raw[i] = f.raw[i]
    <2> DEFINE end == EndOf(part, cut)
               head == [k \in DOMAIN headers |-> here[fileOffset(part, headers[k])]]
               raw == [i \in numbers |->
                    CASE i = N -> head \o SubSeq(here, end + 1, Len(here))
                      [] i = Number(f) -> SubSeq(here, 1, end)
                      [] OTHER -> f.raw[i]]
             text == [k \in DOMAIN f.text \cup {N} |-> IF k = N THEN <<>> ELSE f.text[k]]
    <2>0. g = FilesOf(g.parts, raw, text, 0, 0)
      BY DEF startNext, FilesOf, Number
    <2>1. g.raw = raw
      <3> HIDE DEF g, raw, text
      <3>1. QED
        BY <2>0 DEF FilesOf
    <2> HIDE DEF g, numbers, text
    <2>2. head = headers
      <3>1. \A k \in DOMAIN headers : headers[k] \in Nat /\ headers[k] <= n /\ fileOffset(part, headers[k]) # 0
        OBVIOUS
      <3>2. \A k \in DOMAIN headers : here[fileOffset(part, headers[k])] = headers[k]
        <4> HIDE DEF here, ho, so, part
        <4>1. SUFFICES ASSUME NEW k \in DOMAIN headers PROVE here[fileOffset(part, headers[k])] = headers[k]
          OBVIOUS
        <4>2. headers[k] \in Nat /\ headers[k] <= n /\ fileOffset(part, headers[k]) # 0
          BY <3>1
        <4>3. Laid(part.headerOffsets, part.streamOffset, n)[fileOffset(part, headers[k])] = headers[k]
          BY <4>2, <1>4, HeadCopied DEF so
        <4>4. QED
          BY <4>3, <1>4 DEF ho, so
      <3>3. headers = [k \in DOMAIN headers |-> headers[k]]
        OBVIOUS
      <3>4. QED
        BY <3>2, <3>3
    <2>3. end = cut - so + Len(ho)
      BY DEF EndOf
    <2>4. SubSeq(here, 1, end) = Laid(ho, so, cut)
      <3> HIDE DEF here, ho, so, end
      <3>1. so <= cut
        BY DEF so
      <3>2. QED
        BY <3>1, <1>4, <2>3, LaidHead
    <2>5. headers \o SubSeq(here, end + 1, Len(here)) = Laid(headers, cut, n)
      <3>a. so <= cut
        OBVIOUS
      <3> HIDE DEF here, ho, so, end, part, m, next, N
      <3>1. ho \in Seq(Nat) /\ so \in Nat /\ so <= cut
        BY <1>4, <3>a
      <3>2. here = Laid(ho, so, n)
        BY <1>4
      <3> DEFINE from == end + 1
      <3>3. from = (cut - so + Len(ho)) + 1
        BY <2>3
      <3> HIDE DEF from
      <3>c. n \in Nat /\ cut \in Nat /\ cut <= n /\ headers \in Seq(Nat)
        OBVIOUS
      <3>4. Behind(headers, here, from) = Laid(headers, cut, n)
        BY <3>c, <3>1, <3>2, <3>3, LaidRest
      <3>5. QED
        BY <3>4 DEF from, Behind
    <2>6. N # Number(f)
      BY <1>3
    <2> HIDE DEF head, here, end, N, ho, so
    <2>7. QED
      BY <2>1, <2>2, <2>4, <2>5, <2>6
  <1> HIDE DEF g, next, here, ho, so, part, numbers, N
  <1>6. DOMAIN g.parts = 1..Len(g.parts) /\ Len(g.parts) + d = m + 1
    BY <1>2, <1>3
  <1>7. SUFFICES ASSUME NEW i \in DOMAIN g.parts
                 PROVE  /\ g.parts[i].streamOffset <= EndOfPart(g, i, n)
                        /\ g.raw[g.parts[i].number]
                            = Laid(g.parts[i].headerOffsets, g.parts[i].streamOffset, EndOfPart(g, i, n))
    BY DEF FilesHold, g
  <1>8. i \in 1..Len(g.parts) /\ g.parts[i].number \in numbers /\ i \in Nat /\ i + d \in Nat
    BY <1>6 DEF numbers
  <1>9. CASE i + d = m + 1
    <2>1. g.parts[i] = next /\ i = Len(g.parts)
      BY <1>2, <1>6, <1>8, <1>9
    <2>2. EndOfPart(g, i, n) = n
      BY <2>1 DEF EndOfPart
    <2>3. QED
      BY <1>1, <1>5, <1>8, <2>1, <2>2
  <1>10. CASE i + d = m
    <2>0. i + d # m + 1
      BY <1>3, <1>10
    <2>1. g.parts[i] = part /\ i + 1 \in 1..Len(g.parts) /\ i # Len(g.parts) /\ (i + 1) + d = m + 1
      <3>1. g.parts[i] = part
        BY <1>2, <1>3, <1>8, <1>10, <2>0
      <3>2. Len(g.parts) \in Nat /\ m \in Nat
        BY <1>2, <1>3
      <3> DEFINE L == Len(g.parts)
      <3> HIDE DEF L, m
      <3>3. i + 1 \in 1..L /\ i # L /\ (i + 1) + d = m + 1
        BY <3>2, <1>6, <1>8, <1>10 DEF L
      <3>4. QED
        BY <3>1, <3>3 DEF L
    <2>2. g.parts[i + 1] = next
      BY <1>2, <2>1
    <2>3. EndOfPart(g, i, n) = cut
      BY <1>1, <2>1, <2>2 DEF EndOfPart
    <2>4. part.streamOffset <= cut /\ part.number = Number(f)
      BY <1>3 DEF part
    <2>5. QED
      BY <1>5, <1>8, <2>1, <2>3, <2>4 DEF ho, so
  <1>11. CASE i + d # m + 1 /\ i + d # m
    <2>1. i + d \in 1..m /\ i + d # m /\ i # Len(g.parts) /\ i + 1 \in 1..Len(g.parts)
          /\ (i + 1) + d # m + 1 /\ (i + 1) + d = (i + d) + 1
      BY <1>3, <1>6, <1>8, <1>11
    <2>2. g.parts[i] = f.parts[i + d] /\ g.parts[i + 1] = f.parts[(i + d) + 1]
      BY <1>2, <1>8, <1>11, <2>1
    <2>3. EndOfPart(g, i, n) = EndOfPart(f, i + d, n)
      BY <2>1, <2>2 DEF EndOfPart
    <2>4. f.parts[m].number = f.parts[i + d].number + (m - (i + d)) /\ f.parts[i + d].number \in Nat
      BY <1>3, <2>1 DEF FilesShape, Parts
    <2>5. f.parts[i + d].number # N /\ f.parts[i + d].number # Number(f)
      <3>1. f.parts[m].number = Number(f) /\ Number(f) \in Nat /\ m \in Nat /\ i + d \in Nat /\ i + d < m
        BY <1>3, <2>1
      <3> HIDE DEF m
      <3>2. QED
        BY <3>1, <2>4 DEF N
    <2>6. QED
      BY <1>3, <1>5, <1>8, <2>1, <2>2, <2>3, <2>5 DEF FilesHold
  <1>12. QED
    BY <1>3, <1>6, <1>8, <1>9, <1>10, <1>11

-----------------------------------------------------------------------------
(* The Live Output, and the packets of a stream.                           *)

\* act() leaves the parts, the records and the lines alone; what it flushed is
\* readable, and the text it announces is that of the file written. A snapshot
\* is one of the files as they are.
LEMMA ActShape ==
    ASSUME NEW f, NEW step, NEW p, FilesShape(f), act(step, f, p), flushFailed \in BOOLEAN
    PROVE  /\ FilesShape(files') /\ files'.parts = f.parts /\ files'.raw = f.raw
           /\ files'.text = f.text /\ Number(files') = Number(f)
           /\ f.textReadable <= files'.textReadable
           /\ flushFailed' \in BOOLEAN /\ (flushFailed => flushFailed')
           /\ step.flush /\ ~flushFailed' =>
                /\ files'.rawReadable = Len(files'.raw[Number(f)])
                /\ files'.textReadable = Len(files'.text[Number(f)])
           /\ ~step.flush => files'.rawReadable = f.rawReadable
           /\ IF step.snapshot THEN snapshot'.packets = p /\ snapshot'.parts = f.parts
              ELSE snapshot' = snapshot
           /\ opened' = IF step.firstOfText /\ ~flushFailed' THEN Append(opened, Number(f)) ELSE opened
  <1>1. PICK ok \in Succeeds :
            /\ files' = IF step.flush /\ ok THEN flush(f) ELSE f
            /\ flushFailed' = (flushFailed \/ (step.flush /\ ~ok))
            /\ opened' = IF step.firstOfText /\ ~(flushFailed \/ (step.flush /\ ~ok))
                         THEN Append(opened, Current(IF step.flush /\ ok THEN flush(f) ELSE f).number)
                         ELSE opened
            /\ snapshot' = IF step.snapshot
                           THEN [packets |-> p, parts |-> files'.parts, size |-> files'.rawReadable]
                           ELSE snapshot
    BY DEF act
  <1>2. flushFailed' \in BOOLEAN /\ (flushFailed => flushFailed')
    BY <1>1
  <1>3. f.textReadable \in Nat
    <2>1. f.textReadable \in 0..Len(f.text[Number(f)])
      BY DEF FilesShape
    <2>2. QED
      BY <2>1
  <1>a. IF step.snapshot THEN snapshot'.packets = p /\ snapshot'.parts = f.parts ELSE snapshot' = snapshot
    <2>1. files'.parts = f.parts
      BY <1>1, FlushShape
    <2>2. QED
      BY <1>1, <2>1
  <1>4. CASE step.flush /\ ok
    <2>1. files' = flush(f)
      BY <1>1, <1>4
    <2>2. opened' = IF step.firstOfText /\ ~flushFailed' THEN Append(opened, Number(flush(f))) ELSE opened
      BY <1>1, <1>4 DEF Number
    <2>3. QED
      BY <1>2, <1>4, <1>a, <2>1, <2>2, FlushShape
  <1>5. CASE ~(step.flush /\ ok)
    <2>1. files' = f
      BY <1>1, <1>5
    <2>2. opened' = IF step.firstOfText /\ ~flushFailed' THEN Append(opened, Number(f)) ELSE opened
      BY <1>1, <1>5 DEF Number
    <2>3. step.flush => flushFailed'
      BY <1>1, <1>5
    <2>4. f.textReadable <= files'.textReadable
      BY <1>3, <2>1
    <2>5. QED
      BY <1>2, <1>a, <2>1, <2>2, <2>3, <2>4
  <1>6. QED
    BY <1>4, <1>5

\* Files of the same parts and records hold the same.
LEMMA HoldsSame ==
    ASSUME NEW f, NEW g, g.parts = f.parts, g.raw = f.raw, NEW n, FilesHold(f, n)
    PROVE  FilesHold(g, n)
  BY DEF FilesHold, EndOfPart

\* What the Live Output's steps flush and announce.
LEMMA StepFields ==
    /\ snapshotAt(Step).flush = TRUE /\ snapshotAt(Step).firstOfText = FALSE
    /\ \A l : waitStep(l).flush = TRUE /\ waitStep(l).firstOfText = FALSE
    /\ \A l \in LiveOutputs :
        /\ packetStep(l).firstOfText = l.firstOfText
        /\ l.firstOfText => packetStep(l).flush = TRUE
  BY DEF snapshotAt, Step, waitStep, packetStep, LiveOutputs

\* Handing out a step leaves the Live Output's file alone.
LEMMA AfterIs ==
    ASSUME NEW l \in LiveOutputs, NEW step, clock \in Nat
    PROVE  /\ After(l, step) \in LiveOutputs
           /\ After(l, step).firstOfText = l.firstOfText
           /\ After(l, step).fileHasPacket = l.fileHasPacket
  BY DEF After, LiveOutputs

\* A file just started has no packet, and its text is not announced.
LEMMA NextFileIs ==
    ASSUME NEW l \in LiveOutputs, clock \in Nat
    PROVE  /\ NextFile(l) \in LiveOutputs
           /\ NextFile(l).firstOfText = TRUE
           /\ NextFile(l).fileHasPacket = FALSE
  BY DEF NextFile, LiveOutputs

\* packet() takes note of the file's last packet.
LEMMA FilePacketIs ==
    ASSUME NEW l \in LiveOutputs, NEW f, packets \in Nat, read \in Nat, headersAt(read) \in Seq(Nat)
    PROVE  /\ FilePacket(l, f) \in LiveOutputs
           /\ FilePacket(l, f).firstOfText = l.firstOfText
  <1>1. CASE ~ringBuffer
    BY <1>1 DEF FilePacket
  <1>2. CASE ringBuffer
    <2> DEFINE full == FileBytes > 0 /\ rawFileSize(f) >= FileBytes
               h == headersAt(read)
    <2>1. FilePacket(l, f) = [l EXCEPT !.fileHasPacket = TRUE, !.fileFull = full, !.fileEnd = read,
                                       !.packetsInFiles = packets + 1, !.fileHeaders = h]
      BY <1>2 DEF FilePacket
    <2>2. full \in BOOLEAN /\ h \in Seq(Nat) /\ packets + 1 \in Nat
      OBVIOUS
    <2> HIDE DEF full, h
    <2>3. QED
      BY <2>1, <2>2 DEF LiveOutputs
  <1>3. QED
    BY <1>1, <1>2

\* The Live Output a conversion starts with, and the two fields packet() sets
\* itself.
LEMMA LiveTypes ==
    /\ NewLiveOutput \in LiveOutputs
    /\ \A l \in LiveOutputs : [l EXCEPT !.snapshotPending = TRUE] \in LiveOutputs
          /\ [l EXCEPT !.snapshotPending = TRUE].firstOfText = l.firstOfText
    /\ \A l \in LiveOutputs : [l EXCEPT !.firstOfText = FALSE] \in LiveOutputs
          /\ [l EXCEPT !.firstOfText = FALSE].firstOfText = FALSE
  <1>1. NewLiveOutput \in LiveOutputs
    <2>1. <<>> \in Seq(Nat)
      OBVIOUS
    <2>2. QED
      BY <2>1 DEF NewLiveOutput, LiveOutputs
  <1>2. \A l \in LiveOutputs :
            /\ [l EXCEPT !.snapshotPending = TRUE] \in LiveOutputs
            /\ [l EXCEPT !.snapshotPending = TRUE].firstOfText = l.firstOfText
    BY DEF LiveOutputs
  <1>3. \A l \in LiveOutputs :
            /\ [l EXCEPT !.firstOfText = FALSE] \in LiveOutputs
            /\ [l EXCEPT !.firstOfText = FALSE].firstOfText = FALSE
    BY DEF LiveOutputs
  <1>4. QED
    BY <1>1, <1>2, <1>3

\* A record that arrives is no packet among those that came before it.
LEMMA PlacesStay ==
    ASSUME stream \in Seq(Records), NEW r \in Records, stream' = Append(stream, r),
           NEW n \in Nat, n <= Len(stream)
    PROVE  {i \in PacketPlaces' : i <= n} = {i \in PacketPlaces : i <= n}
  <1>1. \A i \in 1..n : i \in DOMAIN stream /\ i \in DOMAIN stream' /\ stream'[i] = stream[i]
    OBVIOUS
  <1>2. DOMAIN stream \subseteq Nat \ {0} /\ DOMAIN stream' \subseteq Nat \ {0}
    <2>1. stream' \in Seq(Records)
      OBVIOUS
    <2>2. QED
      BY <2>1
  <1>3. \A i \in Nat \ {0} : i <= n => i \in 1..n
    OBVIOUS
  <1>4. QED
    BY <1>1, <1>2, <1>3 DEF PacketPlaces

\* The next record counts as a packet if it is one.
LEMMA NumberNext ==
    ASSUME stream \in Seq(Records), NEW n \in Nat, n + 1 <= Len(stream)
    PROVE  /\ NumberOf(n) \in Nat
           /\ NumberOf(n + 1) = IF stream[n + 1].kind = "packet" THEN NumberOf(n) + 1 ELSE NumberOf(n)
  <1>1. CountOf(stream, n) \in Nat
    BY PacketsUpTo
  <1>2. NumberOf(n) = CountOf(stream, n) /\ NumberOf(n + 1) = CountOf(stream, n + 1)
    BY OfStream
  <1>3. QED
    BY <1>1, <1>2, CountNext

-----------------------------------------------------------------------------
(* The state keeps its types and the files their shape.                    *)

\* What holds of the conversion whether or not the disk fails.
BaseInv == StreamInv /\ TypeInv /\ FilesInv

\* What may come next is a record, and the first is a section's header.
LEMMA NextRecordIsRecord ==
    ASSUME StreamShape, NEW record \in NextRecords
    PROVE  record \in Records /\ (stream = <<>> => record.kind = "section")
  <1>1. CASE stream = <<>>
    BY <1>1 DEF NextRecords, Record, Records, Kinds
  <1>2. CASE stream # <<>>
    <2>1. Len(stream) \in 1..Len(stream)
      BY <1>2 DEF StreamShape
    <2>2. headersAt(Len(stream)) \in Seq(Nat) /\ Len(headersAt(Len(stream))) > 0
      BY <2>1, HeadersAreNumbers
    <2> DEFINE declared == Len(headersAt(Len(stream))) - 1
    <2>3. declared \in Nat
      BY <2>2
    <2>4. \/ record = Record("section", 0)
          \/ record = Record("interface", 0)
          \/ \E i \in IF MaxInterfaces = 0 THEN {0} ELSE 1..declared : record = Record("packet", i)
      BY <1>2 DEF NextRecords
    <2> HIDE DEF declared
    <2>5. QED
      BY <1>2, <2>3, <2>4 DEF Record, Records, Kinds
  <1>3. QED
    BY <1>1, <1>2

\* It holds at first.
LEMMA BaseInit == Init => BaseInv
  <1> SUFFICES ASSUME Init PROVE BaseInv
    OBVIOUS
  <1>1. StreamInv
    BY DEF Init, StreamInv, Converting
  <1>2. TypeInv
    <2>1. <<>> \in Seq(Nat) /\ NewLiveOutput \in LiveOutputs
      BY LiveTypes
    <2>2. QED
      BY <2>1 DEF Init, TypeInv
  <1>3. FilesInv
    BY DEF Init, FilesInv, Converting
  <1>4. QED
    BY <1>1, <1>2, <1>3 DEF BaseInv

\* The steps that touch neither the Live Output nor the files.
LEMMA BaseQuiet ==
    ASSUME BaseInv,
           \/ \E record \in NextRecords : Arrive(record)
           \/ \E how \in {"closed", "stopped", "broken"} : StreamEnds(how)
           \/ Tick \/ ShowSnapshot \/ EndBeforeHeader \/ ReadEnds \/ SnapshotWaits \/ WaitEnds \/ Fail
           \/ UNCHANGED vars
    PROVE  BaseInv'
  <1>1. ASSUME NEW record \in NextRecords, Arrive(record) PROVE BaseInv'
    <2>0. StreamShape
      BY DEF BaseInv, StreamInv, StreamShape
    <2>1. record \in Records /\ (stream = <<>> => record.kind = "section")
      BY <1>1, <2>0, NextRecordIsRecord
    <2>2. stream' = Append(stream, record) /\ stream \in Seq(Records)
      BY <1>1 DEF Arrive, BaseInv, StreamInv
    <2>3. stream' \in Seq(Records) /\ Len(stream') = Len(stream) + 1 /\ Len(stream) \in Nat
      BY <2>1, <2>2
    <2>4. stream'[1].kind = "section"
      <3>1. CASE stream = <<>>
        BY <2>1, <2>2, <3>1
      <3>2. CASE stream # <<>>
        <4>1. 1 \in 1..Len(stream)
          BY <2>2, <3>2
        <4>2. stream'[1] = stream[1]
          BY <2>2, <4>1
        <4>3. QED
          BY <3>2, <4>2 DEF BaseInv, StreamInv
      <3>3. QED
        BY <3>1, <3>2
    <2>5. StreamInv'
      <3>1. clock \in Nat /\ read \in Nat /\ read <= Len(stream')
        BY <2>3 DEF BaseInv, StreamInv
      <3>2. UNCHANGED <<clock, read, pc>>
        BY <1>1 DEF Arrive
      <3>3. QED
        BY <2>3, <2>4, <3>1, <3>2 DEF BaseInv, StreamInv, Converting
    <2>6. TypeInv' /\ FilesInv'
      BY <1>1 DEF Arrive, BaseInv, TypeInv, FilesInv, Converting
    <2>7. QED
      BY <2>5, <2>6 DEF BaseInv
  <1>2. ASSUME NEW how \in {"closed", "stopped", "broken"}, StreamEnds(how) PROVE BaseInv'
    BY <1>2 DEF StreamEnds, BaseInv, StreamInv, TypeInv, FilesInv, Converting
  <1>3. CASE Tick
    <2>1. clock' \in Nat
      BY <1>3 DEF Tick, BaseInv, StreamInv
    <2>2. UNCHANGED <<stream, streamEnd, pc, read, packets, timedOut, flushFailed, writeFailed,
                      result, live, files, opened>>
      BY <1>3 DEF Tick
    <2>3. QED
      BY <2>1, <2>2 DEF BaseInv, StreamInv, TypeInv, FilesInv, Converting
  <1>4. CASE ShowSnapshot
    BY <1>4 DEF ShowSnapshot, streamVars, BaseInv, StreamInv, TypeInv, FilesInv, Converting
  <1>5. CASE EndBeforeHeader
    BY <1>5 DEF EndBeforeHeader, Finish, streamVars, BaseInv, StreamInv, TypeInv, FilesInv,
       Converting, TimedOut
  <1>6. CASE ReadEnds
    BY <1>6 DEF ReadEnds, streamVars, BaseInv, StreamInv, TypeInv, FilesInv, Converting, TimedOut
  <1>7. CASE SnapshotWaits
    BY <1>7 DEF SnapshotWaits, streamVars, BaseInv, StreamInv, TypeInv, FilesInv, Converting
  <1>8. CASE WaitEnds
    BY <1>8 DEF WaitEnds, streamVars, BaseInv, StreamInv, TypeInv, FilesInv, Converting, TimedOut
  <1>9. CASE Fail
    BY <1>9 DEF Fail, Finish, streamVars, BaseInv, StreamInv, TypeInv, FilesInv, Converting
  <1>10. CASE UNCHANGED vars
    BY <1>10 DEF vars, streamVars, BaseInv, StreamInv, TypeInv, FilesInv, Converting
  <1>11. QED
    BY <1>1, <1>2, <1>3, <1>4, <1>5, <1>6, <1>7, <1>8, <1>9, <1>10

\* Whether the deadline passed is yes or no.
LEMMA TimedOutType ==
    ASSUME timedOut \in BOOLEAN
    PROVE  TimedOut \in BOOLEAN
  BY DEF TimedOut

\* Opening the files keeps it.
LEMMA BaseOpen ==
    ASSUME BaseInv, Open
    PROVE  BaseInv'
  <1>1. read = 0 /\ read' = 1 /\ Len(stream) >= 1 /\ UNCHANGED <<clock, stream>>
    <2>1. read = 0 /\ stream \in Seq(Records) /\ Len(stream) > read
      BY DEF Open, BaseInv, StreamInv, HasRecord
    <2>2. QED
      BY <2>1 DEF Open, streamVars
  <1>2. pc' \in {"next", "over"} /\ UNCHANGED <<packets, timedOut, flushFailed, writeFailed, live, opened>>
        /\ (pc' = "next" => files' = OpenFiles(1) /\ result' = result)
    BY DEF Open, Finish
  <1>3. StreamInv'
    BY <1>1, <1>2 DEF BaseInv, StreamInv, Converting
  <1>4. TypeInv'
    BY <1>2 DEF BaseInv, TypeInv, Open
  <1>5. FilesInv'
    <2>1. pc' = "next" => FilesShape(files)'
      BY <1>2, OpenFilesShape
    <2>2. QED
      BY <1>2, <2>1 DEF FilesInv, Converting
  <1>6. QED
    BY <1>3, <1>4, <1>5 DEF BaseInv

\* Reading a record keeps it.
LEMMA BaseRead ==
    ASSUME BaseInv, ReadRecord
    PROVE  BaseInv'
  <1>1. read' = read + 1 /\ read' <= Len(stream) /\ UNCHANGED <<clock, stream>> /\ read' \in Nat
    <2>1. stream \in Seq(Records) /\ Len(stream) > read /\ read \in Nat
      BY DEF ReadRecord, BaseInv, StreamInv, HasRecord
    <2>2. QED
      BY <2>1 DEF ReadRecord, streamVars
  <1>2. pc = "next" /\ pc' \in {"next", "before"}
        /\ UNCHANGED <<packets, timedOut, flushFailed, live, opened, result>>
    BY DEF ReadRecord
  <1>3. writeFailed' \in BOOLEAN /\ (files' = files \/ files' = writeRaw(files, read + 1))
    BY DEF ReadRecord, Succeeds, BaseInv, TypeInv
  <1>4. StreamInv'
    BY <1>1, <1>2 DEF BaseInv, StreamInv, Converting
  <1>5. TypeInv'
    BY <1>2, <1>3 DEF BaseInv, TypeInv
  <1>6. FilesInv'
    <2>1. FilesShape(files)
      BY <1>2 DEF BaseInv, FilesInv, Converting
    <2>2. FilesShape(files)'
      BY <1>3, <2>1, WriteRawShape
    <2>3. QED
      BY <2>2 DEF FilesInv
  <1>7. QED
    BY <1>4, <1>5, <1>6 DEF BaseInv

\* A step of the worker that does what the Live Output says.
LEMMA BaseAct ==
    ASSUME BaseInv, NEW f, NEW step, NEW p, FilesShape(f), act(step, f, p),
           live' \in LiveOutputs, packets' \in Nat, timedOut' \in BOOLEAN, UNCHANGED writeFailed,
           UNCHANGED <<clock, stream, read, result>>, Converting, Converting',
           pc' \in {"next", "waits", "blocked", "ended", "packet", "failed"}
    PROVE  BaseInv'
  <1>1. FilesShape(files') /\ flushFailed' \in BOOLEAN
        /\ (opened' = opened \/ opened' = Append(opened, Number(f)))
    BY ActShape DEF BaseInv, TypeInv
  <1>2. opened' \in Seq(Nat)
    <2>1. opened \in Seq(Nat) /\ Number(f) \in Nat
      BY CurrentPart DEF BaseInv, TypeInv
    <2>2. QED
      BY <1>1, <2>1
  <1>3. StreamInv'
    BY DEF BaseInv, StreamInv, Converting
  <1>4. TypeInv'
    BY <1>1, <1>2 DEF BaseInv, TypeInv, Converting
  <1>5. FilesInv'
    BY <1>1 DEF FilesInv
  <1>6. QED
    BY <1>3, <1>4, <1>5 DEF BaseInv

\* The flush before a wait keeps it.
LEMMA BaseWaits ==
    ASSUME BaseInv, BeforeWait \/ AwaitSnapshot
    PROVE  BaseInv'
  <1>1. /\ pc \in {"next", "awaiting"} /\ pc' \in {"waits", "blocked"}
        /\ act(waitStep(live), files, packets) /\ live' = After(live, waitStep(live))
        /\ UNCHANGED <<clock, stream, read, result, packets, writeFailed>>
        /\ timedOut' \in BOOLEAN
    BY TimedOutType DEF BeforeWait, AwaitSnapshot, streamVars, BaseInv, TypeInv
  <1>2. FilesShape(files) /\ packets \in Nat /\ Converting /\ Converting'
    BY <1>1 DEF BaseInv, FilesInv, TypeInv, Converting
  <1>3. live' \in LiveOutputs
    BY <1>1, AfterIs DEF BaseInv, TypeInv, StreamInv
  <1>4. QED
    BY <1>1, <1>2, <1>3, BaseAct

\* Starting a ring buffer's next file keeps it.
LEMMA BaseBefore ==
    ASSUME BaseInv, BeforePacket
    PROVE  BaseInv'
  <1>0. /\ pc = "before" /\ pc' \in {"packet", "failed"} /\ Converting /\ Converting'
        /\ UNCHANGED <<clock, stream, read, result, packets, writeFailed, timedOut>>
    BY DEF BeforePacket, streamVars, Converting
  <1>1. FilesShape(files) /\ packets \in Nat /\ timedOut \in BOOLEAN /\ live \in LiveOutputs /\ clock \in Nat
    BY <1>0 DEF BaseInv, FilesInv, TypeInv, StreamInv
  <1>2. CASE UNCHANGED <<live, files, flushFailed, opened>>
    BY <1>0, <1>2 DEF BaseInv, StreamInv, TypeInv, FilesInv, Converting
  <1>3. CASE /\ act(snapshotAt(Step), startNext(files, live.fileEnd, live.packetsInFiles, live.fileHeaders), packets)
             /\ live' = After(NextFile(live), snapshotAt(Step))
    <2>1. live.fileEnd \in Nat /\ live.packetsInFiles \in Nat /\ live.fileHeaders \in Seq(Nat)
      BY <1>1 DEF LiveOutputs
    <2>2. FilesShape(startNext(files, live.fileEnd, live.packetsInFiles, live.fileHeaders))
      BY <1>1, <2>1, StartNextShape
    <2>3. live' \in LiveOutputs
      BY <1>1, <1>3, NextFileIs, AfterIs
    <2>4. packets' \in Nat /\ timedOut' \in BOOLEAN
      BY <1>0, <1>1
    <2>5. QED
      BY <1>0, <1>3, <2>2, <2>3, <2>4, BaseAct
  <1>4. QED
    BY <1>2, <1>3 DEF BeforePacket

\* The headers of the file to come are places of the stream.
LEMMA HeadersNow ==
    ASSUME BaseInv, Converting
    PROVE  headersAt(read) \in Seq(Nat)
  <1>1. StreamShape /\ read \in 1..Len(stream)
    BY DEF BaseInv, StreamInv, StreamShape
  <1>2. QED
    BY <1>1, HeadersAreNumbers

\* Converting a packet keeps it.
LEMMA BasePacket ==
    ASSUME BaseInv, Packet
    PROVE  BaseInv'
  <1>0. /\ pc = "packet" /\ pc' \in {"failed", "ended", "next"} /\ Converting /\ Converting'
        /\ UNCHANGED <<clock, stream, read, result, writeFailed, timedOut>>
    BY DEF Packet, streamVars, Converting
  <1>1. FilesShape(files) /\ packets \in Nat /\ timedOut \in BOOLEAN /\ live \in LiveOutputs /\ clock \in Nat
        /\ read \in Nat
    BY <1>0 DEF BaseInv, FilesInv, TypeInv, StreamInv
  <1>2. CASE UNCHANGED <<live, files, flushFailed, opened, packets>>
    BY <1>0, <1>2 DEF BaseInv, StreamInv, TypeInv, FilesInv, Converting
  <1> DEFINE f == writeLine(files, packets + 1)
             l == [FilePacket(live, f) EXCEPT !.snapshotPending = TRUE]
             step == packetStep(l)
  <1>3. CASE /\ act(step, f, packets + 1)
             /\ live' = [After(l, step) EXCEPT !.firstOfText = FALSE]
             /\ packets' = packets + 1
    <2>1. FilesShape(f)
      <3>1. FilesShape(files) /\ packets + 1 \in Nat
        BY <1>1
      <3>2. QED
        BY <3>1, WriteLineShape
    <2>2. FilePacket(live, f) \in LiveOutputs
      BY <1>0, <1>1, HeadersNow, FilePacketIs
    <2> HIDE DEF f
    <2>3. l \in LiveOutputs
      BY <2>2, LiveTypes
    <2> HIDE DEF l, step
    <2>4. live' \in LiveOutputs
      BY <1>1, <1>3, <2>3, AfterIs, LiveTypes
    <2>5. packets' \in Nat /\ timedOut' \in BOOLEAN
      BY <1>0, <1>1, <1>3
    <2>6. QED
      BY <1>0, <1>3, <2>1, <2>4, <2>5, BaseAct
  <1>4. QED
    BY <1>2, <1>3 DEF Packet

\* Closing the files keeps it.
LEMMA BaseEnd ==
    ASSUME BaseInv, End
    PROVE  BaseInv'
  <1>1. pc' = "over" /\ pc = "ended"
        /\ UNCHANGED <<clock, stream, read, packets, timedOut, flushFailed, writeFailed, live, opened>>
    BY DEF End, Finish, streamVars
  <1>2. QED
    BY <1>1 DEF BaseInv, StreamInv, TypeInv, FilesInv, Converting

\* Every step keeps it.
LEMMA BaseStep == BaseInv /\ [Next]_vars => BaseInv'
  <1> SUFFICES ASSUME BaseInv, [Next]_vars PROVE BaseInv'
    OBVIOUS
  <1>1. QED
    BY BaseQuiet, BaseOpen, BaseRead, BaseWaits, BaseBefore, BasePacket, BaseEnd DEF Next,
       Worker, Done

-----------------------------------------------------------------------------
(* The files hold what was read.                                           *)

\* The files hold what was read: it stays so with every step, until a write
\* fails.
LEMMA ContentStep == BaseInv /\ ContentInv /\ [Next]_vars => ContentInv'
  <1> SUFFICES ASSUME BaseInv, ContentInv, [Next]_vars PROVE ContentInv'
    OBVIOUS
  <1> USE DEF Converting
  <1>1. CASE UNCHANGED <<pc, files, read, writeFailed>>
    BY <1>1 DEF ContentInv
  <1>2. CASE Open
    BY <1>2, OpenFilesShape DEF Open, Finish, ContentInv
  <1>3. CASE ReadRecord
    <2>1. pc = "next" /\ read' = read + 1 /\ (~writeFailed' => ~writeFailed /\ files' = writeRaw(files, read + 1))
      BY <1>3 DEF ReadRecord, BaseInv, TypeInv
    <2>2. FilesShape(files) /\ read \in Nat /\ (~writeFailed => FilesHold(files, read))
      BY <2>1 DEF BaseInv, FilesInv, StreamInv, ContentInv
    <2>3. ~writeFailed' => FilesHold(files', read')
      BY <2>1, <2>2, WriteRawHolds
    <2>4. QED
      BY <2>3 DEF ContentInv
  <1>4. CASE pc' = "over"
    BY <1>4 DEF ContentInv
  <1>5. CASE BeforeWait \/ AwaitSnapshot
    <2>1. act(waitStep(live), files, packets) /\ UNCHANGED <<read, writeFailed>> /\ Converting
      BY <1>5 DEF BeforeWait, AwaitSnapshot
    <2>2. files'.parts = files.parts /\ files'.raw = files.raw
      BY <2>1, ActShape DEF BaseInv, FilesInv, TypeInv
    <2>3. QED
      BY <2>1, <2>2, HoldsSame DEF ContentInv
  <1>6. CASE BeforePacket
    <2>0. pc = "before" /\ UNCHANGED <<read, writeFailed>>
      BY <1>6 DEF BeforePacket
    <2>1. CASE UNCHANGED files
      BY <2>0, <2>1 DEF ContentInv
    <2> DEFINE f == startNext(files, live.fileEnd, live.packetsInFiles, live.fileHeaders)
    <2>2. CASE /\ CanSplit(files, live.fileEnd, live.fileHeaders)
               /\ act(snapshotAt(Step), f, packets)
      <3>1. live.fileEnd \in Nat /\ live.packetsInFiles \in Nat /\ live.fileHeaders \in Seq(Nat)
            /\ FilesShape(files) /\ read \in Nat
        BY <2>0 DEF BaseInv, TypeInv, FilesInv, StreamInv, LiveOutputs
      <3>2. FilesShape(f)
        BY <3>1, StartNextShape
      <3>3. Current(files).streamOffset \in Nat
        BY <3>1, CurrentPart DEF Parts
      <3>4. live.fileEnd <= read /\ Current(files).streamOffset <= live.fileEnd
            /\ \A k \in DOMAIN live.fileHeaders :
                    fileOffset(Current(files), live.fileHeaders[k]) # 0 /\ live.fileHeaders[k] <= live.fileEnd
        BY <2>2, <3>1, <3>3 DEF CanSplit
      <3>5. ASSUME ~writeFailed PROVE FilesHold(f, read)
        <4>1. FilesHold(files, read)
          BY <2>0, <3>5 DEF ContentInv
        <4>2. QED
          BY <3>1, <3>4, <4>1, StartNextHolds
      <3> HIDE DEF f
      <3>6. files'.parts = f.parts /\ files'.raw = f.raw
        BY <2>2, <3>2, ActShape DEF BaseInv, TypeInv
      <3>7. QED
        BY <2>0, <3>5, <3>6, HoldsSame DEF ContentInv
    <2>3. QED
      BY <1>6, <2>1, <2>2 DEF BeforePacket
  <1>7. CASE Packet
    <2>0. pc = "packet" /\ UNCHANGED <<read, writeFailed>>
      BY <1>7 DEF Packet
    <2>1. CASE UNCHANGED files
      BY <2>0, <2>1 DEF ContentInv
    <2> DEFINE f == writeLine(files, packets + 1)
    <2>2. ASSUME NEW step, act(step, f, packets + 1) PROVE ContentInv'
      <3>1. FilesShape(files) /\ packets + 1 \in Nat
        BY <2>0 DEF BaseInv, TypeInv, FilesInv
      <3>2. FilesShape(f) /\ f.parts = files.parts /\ f.raw = files.raw
        BY <3>1, WriteLineShape
      <3> HIDE DEF f
      <3>3. files'.parts = f.parts /\ files'.raw = f.raw
        BY <2>2, <3>2, ActShape DEF BaseInv, TypeInv
      <3>4. QED
        BY <2>0, <3>2, <3>3, HoldsSame DEF ContentInv
    <2>3. QED
      BY <1>7, <2>1, <2>2 DEF Packet
  <1>8. CASE ReadEnds \/ SnapshotWaits \/ WaitEnds
    BY <1>8 DEF ReadEnds, SnapshotWaits, WaitEnds, ContentInv
  <1>9. QED
    <2>1. CASE Worker
      BY <2>1, <1>2, <1>3, <1>4, <1>5, <1>6, <1>7, <1>8 DEF Worker, EndBeforeHeader, Fail, End,
         Finish
    <2>2. CASE ~Worker
      BY <2>2, <1>1 DEF Next, Arrive, StreamEnds, Tick, ShowSnapshot, Done, vars
    <2>3. QED
      BY <2>1, <2>2

\* The packets read are the same while stream and place are.
LEMMA NumberSame ==
    ASSUME UNCHANGED <<stream, read>>
    PROVE  NumberOf(read)' = NumberOf(read)
  BY DEF NumberOf, PacketPlaces

\* While records come, the number of a place that was read stays.
LEMMA NumberArrives ==
    ASSUME BaseInv, NEW record \in NextRecords, Arrive(record), record \in Records
    PROVE  NumberOf(read)' = NumberOf(read)
  <1>1. stream' = Append(stream, record) /\ stream \in Seq(Records) /\ read \in Nat /\ read <= Len(stream)
        /\ read' = read
    BY DEF Arrive, BaseInv, StreamInv
  <1>2. PICK n \in Nat : n = read
    BY <1>1
  <1>3. {i \in PacketPlaces : i <= n}' = {i \in PacketPlaces : i <= n}
    <2>1. {i \in PacketPlaces' : i <= n} = {i \in PacketPlaces : i <= n}
      BY <1>1, <1>2, PlacesStay
    <2>2. QED
      BY <2>1
  <1>4. QED
    BY <1>1, <1>2, <1>3 DEF NumberOf

-----------------------------------------------------------------------------
(* The texts are announced, and every packet is converted.                 *)

\* Announcing the next text leaves none out.
LEMMA OpenedAppend ==
    ASSUME opened \in Seq(Nat), opened = [i \in 1..Len(opened) |-> i],
           opened' = Append(opened, Len(opened) + 1)
    PROVE  opened' = [i \in 1..Len(opened') |-> i] /\ Len(opened') = Len(opened) + 1
  <1> DEFINE n == Len(opened)
  <1>1. n \in Nat /\ Len(opened') = n + 1 /\ opened' \in Seq(Nat) /\ DOMAIN opened' = 1..(n + 1)
    OBVIOUS
  <1>2. \A i \in 1..(n + 1) : opened'[i] = i
    <2>1. SUFFICES ASSUME NEW i \in 1..(n + 1) PROVE opened'[i] = i
      OBVIOUS
    <2>2. CASE i = n + 1
      BY <2>2
    <2>3. CASE i # n + 1
      <3>1. i \in 1..n
        BY <1>1, <2>3
      <3>2. opened'[i] = opened[i]
        BY <3>1
      <3>3. QED
        BY <3>1, <3>2
    <2>4. QED
      BY <2>2, <2>3
  <1>3. opened' = [i \in 1..(n + 1) |-> opened'[i]]
    BY <1>1
  <1>4. opened' = [i \in 1..(n + 1) |-> i]
    BY <1>2, <1>3
  <1>5. QED
    BY <1>1, <1>4

\* A packet announces its text if it is the first of it, and not if it could not
\* be flushed.
LEMMA AnnouncePacket ==
    ASSUME BaseInv, AnnounceInv, Packet
    PROVE  AnnounceInv'
  <1> USE DEF Converting, AtRest
  <1>0. /\ pc = "packet" /\ pc' \in {"failed", "ended", "next"}
    BY DEF Packet
  <1>1. /\ FilesShape(files) /\ packets \in Nat /\ live \in LiveOutputs /\ clock \in Nat /\ read \in Nat
        /\ opened \in Seq(Nat) /\ Number(files) \in Nat \ {0} /\ files.textReadable \in Nat
        /\ flushFailed \in BOOLEAN /\ Len(opened) \in Nat
    <2>1. FilesShape(files)
      BY <1>0 DEF BaseInv, FilesInv
    <2>2. files.textReadable \in 0..Len(files.text[Number(files)])
      BY <2>1 DEF FilesShape
    <2>3. files.textReadable \in Nat
      BY <2>2
    <2>4. Number(files) \in Nat \ {0}
      BY <2>1, CurrentPart
    <2>5. QED
      BY <2>1, <2>3, <2>4 DEF BaseInv, TypeInv, StreamInv
  <1>2. CASE UNCHANGED <<live, files, flushFailed, opened, packets>> /\ pc' = "failed"
    BY <1>0, <1>2 DEF AnnounceInv
  <1> DEFINE f == writeLine(files, packets + 1)
             l == [FilePacket(live, f) EXCEPT !.snapshotPending = TRUE]
             step == packetStep(l)
  <1>3. ASSUME act(step, f, packets + 1), live' = [After(l, step) EXCEPT !.firstOfText = FALSE],
               packets' = packets + 1, flushFailed' => pc' = "failed"
        PROVE  AnnounceInv'
    <2>1. /\ FilesShape(f) /\ Number(f) = Number(files) /\ Len(f.text[Number(f)]) > 0
          /\ f.textReadable = files.textReadable
      <3>1. packets + 1 \in Nat
        BY <1>1
      <3>2. QED
        BY <1>1, <3>1, WriteLineShape
    <2>2. FilePacket(live, f) \in LiveOutputs /\ FilePacket(live, f).firstOfText = live.firstOfText
      BY <1>0, <1>1, HeadersNow, FilePacketIs
    <2> HIDE DEF f
    <2>3. l \in LiveOutputs /\ l.firstOfText = live.firstOfText
      BY <2>2, LiveTypes
    <2> HIDE DEF l
    <2>4. step.firstOfText = live.firstOfText /\ (live.firstOfText => step.flush = TRUE)
      BY <2>3, StepFields
    <2> HIDE DEF step
    <2>5. /\ Number(files') = Number(files) /\ files.textReadable <= files'.textReadable
          /\ files'.text = f.text
          /\ step.flush /\ ~flushFailed' => files'.textReadable = Len(files'.text[Number(f)])
          /\ opened' = IF step.firstOfText /\ ~flushFailed' THEN Append(opened, Number(files)) ELSE opened
          /\ FilesShape(files')
      BY <1>1, <1>3, <2>1, ActShape
    <2>6. live'.firstOfText = FALSE
      BY <1>1, <1>3, <2>3, AfterIs, LiveTypes
    <2>7. files'.textReadable \in Nat
      <3>1. files'.textReadable \in 0..Len(files'.text[Number(files')])
        BY <2>5 DEF FilesShape
      <3>2. QED
        BY <3>1
    <2>8. packets' # 0
      BY <1>1, <1>3
    <2>9. CASE live.firstOfText = TRUE /\ ~flushFailed'
      <3>1. Len(opened) + 1 = Number(files) /\ opened = [i \in 1..Len(opened) |-> i]
        BY <1>0, <1>1, <2>9 DEF AnnounceInv
      <3>2. opened' = [i \in 1..Len(opened') |-> i] /\ Len(opened') = Number(files)
        BY <1>1, <2>4, <2>5, <2>9, <3>1, OpenedAppend
      <3>3. files'.textReadable > 0
        BY <2>1, <2>4, <2>5, <2>9
      <3>4. Len(opened') # Number(files') - 1
        BY <1>1, <2>5, <3>2
      <3>5. QED
        BY <1>0, <2>5, <2>6, <2>8, <3>2, <3>3, <3>4 DEF AnnounceInv
    <2>10. CASE live.firstOfText = TRUE /\ flushFailed'
      <3>1. opened' = opened /\ pc' = "failed"
        BY <1>3, <2>5, <2>10
      <3>2. Len(opened) = Number(files) - 1 /\ opened = [i \in 1..Len(opened) |-> i]
        BY <1>0, <2>10 DEF AnnounceInv
      <3>3. Len(opened') # Number(files')
        BY <1>1, <2>5, <3>1, <3>2
      <3>4. QED
        BY <2>5, <3>1, <3>2, <3>3 DEF AnnounceInv
    <2>11. CASE live.firstOfText = FALSE
      <3>1. opened' = opened
        BY <2>4, <2>5, <2>11
      <3>2. Len(opened) = Number(files) /\ opened = [i \in 1..Len(opened) |-> i] /\ files.textReadable > 0
        BY <1>0, <2>11 DEF AnnounceInv
      <3>3. files'.textReadable > 0 /\ Len(opened') # Number(files') - 1 /\ Len(opened') = Number(files')
        BY <1>1, <2>5, <2>7, <3>1, <3>2
      <3>4. QED
        BY <1>0, <2>6, <2>8, <3>1, <3>2, <3>3 DEF AnnounceInv
    <2>12. QED
      BY <1>1, <2>9, <2>10, <2>11 DEF LiveOutputs
  <1>4. QED
    BY <1>2, <1>3 DEF Packet

\* The next file's text is not announced before it has a packet.
LEMMA AnnounceBefore ==
    ASSUME BaseInv, AnnounceInv, BeforePacket
    PROVE  AnnounceInv'
  <1> USE DEF Converting, AtRest
  <1>0. pc = "before" /\ pc' \in {"packet", "failed"} /\ UNCHANGED packets
    BY DEF BeforePacket
  <1>1. /\ FilesShape(files) /\ live \in LiveOutputs /\ clock \in Nat
        /\ Number(files) \in Nat \ {0} /\ flushFailed \in BOOLEAN /\ Len(opened) \in Nat
    BY <1>0, CurrentPart DEF BaseInv, FilesInv, TypeInv, StreamInv
  <1>2. CASE UNCHANGED <<live, files, opened>>
    BY <1>0, <1>2 DEF AnnounceInv
  <1> DEFINE f == startNext(files, live.fileEnd, live.packetsInFiles, live.fileHeaders)
  <1>3. CASE /\ fileOver(live)
             /\ act(snapshotAt(Step), f, packets)
             /\ live' = After(NextFile(live), snapshotAt(Step))
    <2>1. live.fileEnd \in Nat /\ live.packetsInFiles \in Nat /\ live.fileHeaders \in Seq(Nat)
      BY <1>1 DEF LiveOutputs
    <2>2. FilesShape(f) /\ Number(f) = Number(files) + 1
      BY <1>1, <2>1, StartNextShape
    <2> HIDE DEF f
    <2>3. live.fileHasPacket
      BY <1>3 DEF fileOver
    <2>4. Len(opened) = Number(files)
      BY <1>0, <2>3 DEF AnnounceInv
    <2>5. Number(files') = Number(files) + 1 /\ opened' = opened
      BY <1>1, <1>3, <2>2, ActShape, StepFields
    <2>6. live'.firstOfText = TRUE /\ live'.fileHasPacket = FALSE
      BY <1>1, <1>3, NextFileIs, AfterIs
    <2>7. Len(opened') = Number(files') - 1 /\ Len(opened') # Number(files')
      BY <1>1, <2>4, <2>5
    <2>8. QED
      BY <1>0, <2>5, <2>6, <2>7 DEF AnnounceInv
  <1>4. QED
    BY <1>2, <1>3 DEF BeforePacket

\* A wait announces nothing.
LEMMA AnnounceWaits ==
    ASSUME BaseInv, AnnounceInv, FlushedInv, BeforeWait \/ AwaitSnapshot
    PROVE  AnnounceInv' /\ FlushedInv'
  <1> USE DEF Converting, AtRest
  <1>1. /\ pc \in {"next", "awaiting"} /\ pc' \in {"waits", "blocked"}
        /\ act(waitStep(live), files, packets) /\ live' = After(live, waitStep(live))
        /\ UNCHANGED packets
    BY DEF BeforeWait, AwaitSnapshot
  <1>2. FilesShape(files) /\ live \in LiveOutputs /\ clock \in Nat /\ flushFailed \in BOOLEAN
    BY <1>1 DEF BaseInv, FilesInv, TypeInv, StreamInv
  <1>3. /\ Number(files') = Number(files) /\ files.textReadable <= files'.textReadable
        /\ ~flushFailed' =>
            /\ files'.rawReadable = Len(files'.raw[Number(files)])
            /\ files'.textReadable = Len(files'.text[Number(files)])
        /\ opened' = opened /\ FilesShape(files')
    BY <1>1, <1>2, ActShape, StepFields
  <1>4. live'.firstOfText = live.firstOfText /\ live'.fileHasPacket = live.fileHasPacket
    BY <1>1, <1>2, AfterIs
  <1>5. files.textReadable > 0 => files'.textReadable > 0
    <2>1. files.textReadable \in 0..Len(files.text[Number(files)])
      BY <1>2 DEF FilesShape
    <2>2. files'.textReadable \in 0..Len(files'.text[Number(files')])
      BY <1>3 DEF FilesShape
    <2>3. files.textReadable \in Nat /\ files'.textReadable \in Nat
      BY <2>1, <2>2
    <2>4. QED
      BY <1>3, <2>3
  <1>6. AnnounceInv'
    BY <1>1, <1>3, <1>4, <1>5 DEF AnnounceInv
  <1>7. FlushedInv'
    BY <1>3 DEF FlushedInv
  <1>8. QED
    BY <1>6, <1>7

\* The texts are announced in order: it stays so with every step.
LEMMA AnnounceStep == BaseInv /\ AnnounceInv /\ FlushedInv /\ [Next]_vars => AnnounceInv' /\ FlushedInv'
  <1> SUFFICES ASSUME BaseInv, AnnounceInv, FlushedInv, [Next]_vars PROVE AnnounceInv' /\ FlushedInv'
    OBVIOUS
  <1> USE DEF Converting, AtRest
  <1>1. CASE UNCHANGED <<pc, files, opened, live, packets, flushFailed>>
    BY <1>1 DEF AnnounceInv, FlushedInv
  <1>2. CASE Open
    <2>1. pc' \in {"next", "over"} /\ (pc' = "next" => files' = OpenFiles(1)) /\ UNCHANGED <<packets, live, opened>>
      BY <1>2 DEF Open, Finish
    <2>2. opened = <<>> /\ packets = 0 /\ live = NewLiveOutput
      BY <1>2 DEF Open, BaseInv, TypeInv
    <2>3. live.firstOfText = TRUE /\ live.fileHasPacket = FALSE
      BY <2>2 DEF NewLiveOutput
    <2>4. pc' = "next" => Number(files') = 1
      BY <2>1, OpenFilesShape
    <2>5. Len(opened) = 0 /\ opened = [i \in 1..0 |-> i]
      BY <2>2
    <2>6. QED
      BY <2>1, <2>2, <2>3, <2>4, <2>5 DEF AnnounceInv, FlushedInv
  <1>3. CASE ReadRecord
    <2>1. pc = "next" /\ pc' \in {"next", "before"} /\ UNCHANGED <<packets, live, opened>>
          /\ (files' = files \/ files' = writeRaw(files, read + 1))
      BY <1>3 DEF ReadRecord
    <2>2. Number(files') = Number(files) /\ files'.textReadable = files.textReadable
      <3>1. FilesShape(files)
        BY <2>1 DEF BaseInv, FilesInv
      <3>2. CASE files' = files
        BY <3>2
      <3>3. CASE files' = writeRaw(files, read + 1)
        BY <3>1, <3>3, WriteRawShape
      <3>4. QED
        BY <2>1, <3>2, <3>3
    <2>3. QED
      BY <2>1, <2>2 DEF AnnounceInv, FlushedInv
  <1>4. CASE BeforeWait \/ AwaitSnapshot
    BY <1>4, AnnounceWaits
  <1>5. CASE BeforePacket
    BY <1>5, AnnounceBefore DEF BeforePacket, FlushedInv
  <1>6. CASE Packet
    BY <1>6, AnnouncePacket DEF Packet, FlushedInv
  <1>7. CASE ReadEnds \/ SnapshotWaits \/ WaitEnds
    <2>1. UNCHANGED <<packets, live, opened, files, flushFailed>>
          /\ pc \in AtRest /\ pc' \in AtRest /\ (pc' \in {"waits", "awaiting", "blocked"} => pc = "waits")
      BY <1>7 DEF ReadEnds, SnapshotWaits, WaitEnds
    <2>2. QED
      BY <2>1 DEF AnnounceInv, FlushedInv
  <1>8. CASE EndBeforeHeader \/ Fail \/ End
    <2>1. pc' = "over" /\ opened' = opened
      BY <1>8 DEF EndBeforeHeader, Fail, End, Finish
    <2>2. QED
      BY <2>1 DEF AnnounceInv, FlushedInv
  <1>9. QED
    <2>1. CASE Worker
      BY <2>1, <1>2, <1>3, <1>4, <1>5, <1>6, <1>7, <1>8 DEF Worker
    <2>2. CASE ~Worker
      BY <2>2, <1>1 DEF Next, Arrive, StreamEnds, Tick, ShowSnapshot, Done, vars
    <2>3. QED
      BY <2>1, <2>2

\* Every packet read is converted: it stays so with every step.
LEMMA CountStep == BaseInv /\ CountInv /\ [Next]_vars => CountInv'
  <1> SUFFICES ASSUME BaseInv, CountInv, [Next]_vars PROVE CountInv'
    OBVIOUS
  <1> USE DEF AtRest
  <1>1. CASE UNCHANGED <<pc, stream, read, packets>>
    BY <1>1, NumberSame DEF CountInv
  <1>2. ASSUME NEW record \in NextRecords, Arrive(record) PROVE CountInv'
    <2>1. record \in Records
      BY NextRecordIsRecord DEF StreamShape, BaseInv, StreamInv
    <2>2. NumberOf(read)' = NumberOf(read)
      BY <1>2, <2>1, NumberArrives
    <2>3. QED
      BY <1>2, <2>2 DEF Arrive, CountInv
  <1>3. CASE Open
    <2>1. /\ stream \in Seq(Records) /\ stream' = stream /\ read' = 1 /\ packets' = packets /\ packets = 0
          /\ pc' \in {"next", "over"} /\ Len(stream) > 0
      BY <1>3 DEF Open, Finish, streamVars, BaseInv, StreamInv, TypeInv, HasRecord
    <2>2. stream[1].kind = "section" /\ 0 + 1 <= Len(stream)
      BY <2>1 DEF BaseInv, StreamInv
    <2>3. NumberOf(0 + 1) = NumberOf(0)
      BY <2>1, <2>2, NumberNext
    <2>4. NumberOf(0) = 0
      <3>1. {i \in PacketPlaces : i <= 0} = {}
        BY <2>1 DEF PacketPlaces
      <3>2. QED
        BY <3>1, FS_EmptySet DEF NumberOf
    <2>5. NumberOf(read)' = 0
      <3>1. NumberOf(1) = 0
        BY <2>3, <2>4
      <3>2. QED
        BY <2>1, <3>1 DEF NumberOf, PacketPlaces
    <2>6. QED
      BY <2>1, <2>5 DEF CountInv
  <1>4. CASE ReadRecord
    <2>1. /\ stream \in Seq(Records) /\ stream' = stream /\ read' = read + 1 /\ packets' = packets
          /\ pc = "next" /\ read \in Nat /\ read + 1 <= Len(stream) /\ packets = NumberOf(read)
          /\ pc' = IF stream[read + 1].kind = "packet" THEN "before" ELSE "next"
      BY <1>4 DEF ReadRecord, streamVars, BaseInv, StreamInv, HasRecord, CountInv
    <2>2. /\ NumberOf(read) \in Nat
          /\ NumberOf(read + 1) = IF stream[read + 1].kind = "packet" THEN NumberOf(read) + 1 ELSE NumberOf(read)
      BY <2>1, NumberNext
    <2>3. NumberOf(read)' = NumberOf(read + 1)
      BY <2>1 DEF NumberOf, PacketPlaces
    <2>4. QED
      BY <2>1, <2>2, <2>3 DEF CountInv
  <1>5. CASE Packet
    <2>1. /\ UNCHANGED <<stream, read>> /\ pc = "packet"
          /\ pc' \in {"failed", "ended", "next"} /\ (pc' # "failed" => packets' = packets + 1)
      BY <1>5 DEF Packet, streamVars
    <2>2. QED
      BY <2>1, NumberSame DEF CountInv
  <1>6. CASE BeforePacket
    <2>1. UNCHANGED <<stream, read, packets>> /\ pc = "before" /\ pc' \in {"failed", "packet"}
      BY <1>6 DEF BeforePacket, streamVars
    <2>2. QED
      BY <2>1, NumberSame DEF CountInv
  <1>7. CASE ReadEnds \/ SnapshotWaits \/ WaitEnds \/ BeforeWait \/ AwaitSnapshot
    <2>1. UNCHANGED <<stream, read, packets>> /\ pc \in AtRest /\ pc' \in AtRest
      BY <1>7 DEF ReadEnds, SnapshotWaits, WaitEnds, BeforeWait, AwaitSnapshot, streamVars
    <2>2. QED
      BY <2>1, NumberSame DEF CountInv
  <1>8. CASE EndBeforeHeader \/ Fail \/ End
    BY <1>8 DEF EndBeforeHeader, Fail, End, Finish, CountInv
  <1>9. QED
    <2>1. CASE Worker
      BY <2>1, <1>3, <1>4, <1>5, <1>6, <1>7, <1>8 DEF Worker
    <2>2. CASE \E record \in NextRecords : Arrive(record)
      BY <2>2, <1>2
    <2>3. CASE ~Worker /\ ~ \E record \in NextRecords : Arrive(record)
      BY <2>3, <1>1 DEF Next, StreamEnds, Tick, ShowSnapshot, Done, vars, streamVars
    <2>4. QED
      BY <2>1, <2>2, <2>3

\* What ended well lacks nothing: it stays so with every step.
LEMMA EndStep ==
    BaseInv /\ AnnounceInv /\ CountInv /\ EndInv /\ [Next]_vars => EndInv'
  <1> SUFFICES ASSUME BaseInv, AnnounceInv, CountInv, EndInv, [Next]_vars PROVE EndInv'
    OBVIOUS
  <1> USE DEF Converting, AtRest
  <1>1. CASE UNCHANGED <<result, stream, read, packets, writeFailed, files, opened>>
    BY <1>1, NumberSame DEF EndInv
  <1>2. ASSUME NEW record \in NextRecords, Arrive(record) PROVE EndInv'
    <2>1. record \in Records
      BY NextRecordIsRecord DEF StreamShape, BaseInv, StreamInv
    <2>2. NumberOf(read)' = NumberOf(read)
      BY <1>2, <2>1, NumberArrives
    <2>3. QED
      BY <1>2, <2>2 DEF Arrive, EndInv
  <1>3. CASE End
    <2>1. pc = "ended" /\ UNCHANGED <<stream, read, packets, writeFailed, opened>>
          /\ (result' \in {"Converted", "FailedKept"} => ~writeFailed /\ files' = flush(files))
      BY <1>3 DEF End, Finish, streamVars
    <2>2. FilesShape(files) /\ packets = NumberOf(read)
          /\ (live.firstOfText <=> packets = 0) /\ (live.firstOfText <=> Len(opened) = Number(files) - 1)
          /\ (Len(opened) = Number(files) \/ Len(opened) = Number(files) - 1) /\ packets \in Nat
      BY <2>1 DEF BaseInv, FilesInv, TypeInv, AnnounceInv, CountInv
    <2>3. Number(flush(files)) = Number(files)
          /\ flush(files).textReadable = Len(flush(files).text[Number(flush(files))])
      BY <2>2, FlushShape
    <2>4. packets > 0 => Len(opened) = Number(files)
      BY <2>2
    <2>5. NumberOf(read)' = NumberOf(read)
      BY <2>1, NumberSame
    <2>6. QED
      BY <2>1, <2>2, <2>3, <2>4, <2>5 DEF EndInv
  <1>4. CASE EndBeforeHeader \/ Fail
    BY <1>4 DEF EndBeforeHeader, Fail, Finish, EndInv
  <1>5. CASE result' \in {"None", "FailedRemoved"}
    BY <1>5 DEF EndInv
  <1>6. QED
    <2>1. CASE Worker
      <3>1. pc # "over"
        BY <2>1 DEF Worker, Open, EndBeforeHeader, ReadRecord, ReadEnds, BeforeWait, SnapshotWaits,
                    AwaitSnapshot, WaitEnds, BeforePacket, Packet, Fail, End
      <3>2. result = "None"
        BY <3>1 DEF BaseInv, TypeInv
      <3>3. QED
        BY <2>1, <1>3, <1>4, <1>5, <3>2 DEF Worker, Open, Finish, ReadRecord, ReadEnds,
           BeforeWait, SnapshotWaits,
                    AwaitSnapshot, WaitEnds, BeforePacket, Packet
    <2>2. CASE \E record \in NextRecords : Arrive(record)
      BY <2>2, <1>2
    <2>3. CASE ~Worker /\ ~ \E record \in NextRecords : Arrive(record)
      BY <2>3, <1>1 DEF Next, StreamEnds, Tick, ShowSnapshot, Done, vars, streamVars
    <2>4. QED
      BY <2>1, <2>2, <2>3

\* The inductive invariant of the conversion.
ConversionInv == BaseInv /\ ContentInv /\ AnnounceInv /\ FlushedInv /\ CountInv /\ EndInv

\* The inductive invariant holds always.
LEMMA ConversionInvariant == Spec => []ConversionInv
  <1>1. Init => ConversionInv
    <2> SUFFICES ASSUME Init PROVE ConversionInv
      OBVIOUS
    <2>1. BaseInv
      BY BaseInit
    <2>2. ContentInv /\ FlushedInv /\ CountInv /\ EndInv
      BY DEF Init, ContentInv, FlushedInv, CountInv, EndInv, Converting, AtRest
    <2>3. AnnounceInv
      <3>1. opened = <<>> /\ pc = "open"
        BY DEF Init
      <3>2. opened = [i \in 1..Len(opened) |-> i]
        BY <3>1
      <3>3. QED
        BY <3>1, <3>2 DEF AnnounceInv, Converting, AtRest
    <2>4. QED
      BY <2>1, <2>2, <2>3 DEF ConversionInv
  <1>2. ConversionInv /\ [Next]_vars => ConversionInv'
    BY BaseStep, ContentStep, AnnounceStep, CountStep, EndStep DEF ConversionInv
  <1>3. QED
    BY <1>1, <1>2, PTL DEF Spec

\* It gives what TextIsPassedOn says.
LEMMA PassedOn == ConversionInv => TextIsPassedOn
  <1> SUFFICES ASSUME ConversionInv PROVE TextIsPassedOn
    OBVIOUS
  <1> USE DEF Converting, AtRest
  <1>0. pc # "over" => result = "None"
    BY DEF ConversionInv, BaseInv, TypeInv
  <1>1. TextsAreAnnounced
    <2>1. opened = [i \in DOMAIN opened |-> i] /\ DOMAIN opened = 1..Len(opened) /\ Len(opened) \in Nat
      <3>1. opened = [i \in 1..Len(opened) |-> i] /\ opened \in Seq(Nat)
        BY DEF ConversionInv, AnnounceInv, BaseInv, TypeInv
      <3>2. QED
        BY <3>1
    <2>2. ASSUME pc \notin {"open", "over"}, NEW i \in DOMAIN opened, i = Current(files).number
          PROVE  files.textReadable > 0
      <3>1. Len(opened) = Number(files) \/ Len(opened) = Number(files) - 1
        BY <2>2 DEF ConversionInv, AnnounceInv
      <3>2. i = Number(files) /\ Number(files) \in Nat
        BY <2>2, CurrentPart DEF Number, ConversionInv, BaseInv, FilesInv
      <3>3. Len(opened) = Number(files)
        BY <2>1, <2>2, <3>1, <3>2
      <3>4. QED
        BY <2>2, <3>3 DEF ConversionInv, AnnounceInv
    <2>3. result \in {"Converted", "FailedKept"} /\ packets > 0 => Len(opened) = Current(files).number
      BY DEF ConversionInv, EndInv, Number
    <2>4. QED
      BY <2>1, <2>2, <2>3 DEF TextsAreAnnounced
  <1>2. WaitsWithNothingBuffered
    BY DEF WaitsWithNothingBuffered, ConversionInv, FlushedInv, Number
  <1>3. ConvertedIsComplete
    BY DEF ConvertedIsComplete, ConversionInv, EndInv, Number
  <1>4. QED
    BY <1>1, <1>2, <1>3 DEF TextIsPassedOn

\* Whatever the limits, the ring buffer and the failures of the disk: the texts
\* are announced each once and in order, none before it has a readable line, the
\* worker waits with nothing of a burst in a buffer, and a capture that ends
\* well has a line for every packet it read (convertOrThrow(), with the
\* LiveOutput's beforeWait(), beforePacket() and packet()).
THEOREM ConvertedIsPassedOn == Spec => []TextIsPassedOn
  BY ConversionInvariant, PassedOn, PTL

-----------------------------------------------------------------------------
(* The files saved as one.                                                 *)

\* A list flattened is what its recurrence gives.
LEMMA FlattenIs ==
    ASSUME NEW seqs, NEW n \in Nat \ {0}, Len(seqs) = n,
           NEW F, F[1] = seqs[1], \A i \in 1..n : i # 1 => F[i] = F[i - 1] \o seqs[i]
    PROVE  FlattenSeq(seqs) = F[n]
  <1> DEFINE Is(g) == g = [i \in 1..n |-> IF i = 1 THEN seqs[i] ELSE g[i - 1] \o seqs[i]]
             G == CHOOSE g : Is(g)
             H == [i \in 1..n |-> F[i]]
  <1>1. Is(H)
    <2>1. ASSUME NEW i \in 1..n PROVE F[i] = IF i = 1 THEN seqs[i] ELSE H[i - 1] \o seqs[i]
      <3>1. CASE i = 1
        BY <3>1
      <3>2. CASE i # 1
        <4>1. i - 1 \in 1..n
          BY <3>2
        <4>2. H[i - 1] = F[i - 1]
          BY <4>1
        <4>3. QED
          BY <3>2, <4>2
      <3>3. QED
        BY <3>1, <3>2
    <2>2. QED
      BY <2>1
  <1>2. Is(G)
    BY <1>1
  <1>3. FlattenSeq(seqs) = G[n]
    BY DEF FlattenSeq
  <1> HIDE DEF G, H
  <1>4. \A i \in 1..n : G[i] = IF i = 1 THEN seqs[i] ELSE G[i - 1] \o seqs[i]
    BY <1>2
  <1> DEFINE T == {i \in 1..n : G[i] # F[i]}
  <1>5. T = {}
    <2>1. SUFFICES ASSUME T # {} PROVE FALSE
      OBVIOUS
    <2>2. T \subseteq Nat
      OBVIOUS
    <2>3. \E i \in T : \A j \in T : i <= j
      <3> HIDE DEF T
      <3>1. QED
        BY <2>1, <2>2, LeastNat
    <2>4. PICK i \in T : \A j \in T : i <= j
      BY <2>3
    <2>5. i \in 1..n /\ i \in Nat /\ G[i] # F[i]
      OBVIOUS
    <2>6. CASE i = 1
      BY <1>4, <2>5, <2>6
    <2>7. CASE i # 1
      <3>1. i - 1 \in 1..n /\ i - 1 < i
        BY <2>5, <2>7
      <3>2. i - 1 \notin T
        <4> HIDE DEF T
        <4>1. QED
          BY <2>4, <2>5, <3>1
      <3>3. G[i - 1] = F[i - 1]
        BY <3>1, <3>2
      <3>4. QED
        BY <1>4, <2>5, <2>7, <3>3
    <2>8. QED
      BY <2>6, <2>7
  <1>6. n \in 1..n
    OBVIOUS
  <1>7. G[n] = F[n]
    BY <1>5, <1>6
  <1>8. QED
    BY <1>3, <1>7

\* Two files in a row, the second without its headers, are one.
LEMMA LaidOn ==
    ASSUME NEW ho \in Seq(Nat), NEW so \in Nat, NEW cut \in Nat, NEW hi \in Nat, so <= cut, cut <= hi
    PROVE  Laid(ho, so, cut) \o Laid(<<>>, cut, hi) = Laid(ho, so, hi)
  <1> DEFINE s == Laid(ho, so, cut)
             t == Laid(<<>>, cut, hi)
             h == Len(ho)
             el(k) == IF k <= h THEN ho[k] ELSE so + (k - h)
  <1>1. h \in Nat /\ <<>> \in Seq(Nat) /\ Len(<<>>) = 0
    OBVIOUS
  <1>2. s \in Seq(Nat) /\ Len(s) = h + (cut - so) /\ \A k \in 1..(h + (cut - so)) : s[k] = el(k)
    BY LaidIsSeq DEF Laid
  <1>3. t \in Seq(Nat) /\ Len(t) = 0 + (hi - cut)
    BY <1>1, LaidIsSeq
  <1>4. \A k \in 1..(hi - cut) : t[k] = cut + k
    <2>1. SUFFICES ASSUME NEW k \in 1..(hi - cut) PROVE t[k] = cut + k
      OBVIOUS
    <2>2. k \in 1..(Len(<<>>) + (hi - cut)) /\ ~(k <= Len(<<>>)) /\ k - Len(<<>>) = k
      BY <1>1
    <2>3. QED
      BY <2>2 DEF Laid
  <1> HIDE DEF s, t
  <1>5. s \o t = [k \in 1..(Len(s) + Len(t)) |-> IF k <= Len(s) THEN s[k] ELSE t[k - Len(s)]]
    BY <1>2, <1>3, ConcatIs
  <1>6. Len(s) + Len(t) = h + (hi - so)
    BY <1>1, <1>2, <1>3
  <1>7. \A k \in 1..(h + (hi - so)) : (IF k <= Len(s) THEN s[k] ELSE t[k - Len(s)]) = el(k)
    <2>1. SUFFICES ASSUME NEW k \in 1..(h + (hi - so))
                   PROVE  (IF k <= Len(s) THEN s[k] ELSE t[k - Len(s)]) = el(k)
      BY SMT
    <2> HIDE DEF el, h
    <2>2. CASE k <= Len(s)
      <3>1. k \in 1..(h + (cut - so))
        BY <1>1, <1>2, <2>2
      <3>2. QED
        BY <1>2, <2>2, <3>1
    <2>3. CASE ~(k <= Len(s))
      <3>1. k - Len(s) \in 1..(hi - cut) /\ cut + (k - Len(s)) = so + (k - h) /\ ~(k <= h)
        BY <1>1, <1>2, <2>3
      <3>2. t[k - Len(s)] = cut + (k - Len(s))
        BY <1>4, <3>1
      <3>3. QED
        BY <2>3, <3>1, <3>2 DEF el
    <2>4. QED
      BY <2>2, <2>3
  <1>8. Laid(ho, so, hi) = [k \in 1..(h + (hi - so)) |-> el(k)]
    BY DEF Laid
  <1> HIDE DEF el, h
  <1>9. s \o t = Laid(ho, so, hi)
    BY <1>5, <1>6, <1>7, <1>8
  <1>10. QED
    BY <1>9 DEF s, t

\* A file without the headers copied ahead is its part of the stream.
LEMMA LaidBare ==
    ASSUME NEW ho \in Seq(Nat), NEW so \in Nat, NEW hi \in Nat, so <= hi,
           NEW here, here = Laid(ho, so, hi)
    PROVE  SubSeq(here, Len(ho) + 1, Len(here)) = Laid(<<>>, so, hi)
  <1> DEFINE from == Len(ho) + 1
             s == SubSeq(here, from, Len(here))
  <1>0. PICK cut \in Nat : cut = so
    OBVIOUS
  <1>1. from = (cut - so + Len(ho)) + 1 /\ <<>> \in Seq(Nat) /\ from \in Nat /\ from >= 1
        /\ so <= cut /\ cut <= hi
    BY <1>0
  <1>2. here \in Seq(Nat)
    BY LaidIsSeq
  <1>3. s \in Seq(Nat)
    <2> HIDE DEF from
    <2>1. QED
      BY <1>1, <1>2
  <1> HIDE DEF from
  <1>4. Behind(<<>>, here, from) = Laid(<<>>, cut, hi)
    <2>1. PICK bare \in Seq(Nat) : bare = <<>>
      BY <1>1
    <2>2. from = (cut - so + Len(ho)) + 1 /\ so <= cut /\ cut <= hi
      BY <1>1
    <2>3. here = Laid(ho, so, hi)
      OBVIOUS
    <2>4. Behind(bare, here, from) = Laid(bare, cut, hi)
      BY <2>2, <2>3, LaidRest
    <2>5. QED
      BY <2>1, <2>4
  <1>5. <<>> \o s = s
    <2> HIDE DEF s
    <2>1. QED
      BY <1>3
  <1>6. QED
    BY <1>0, <1>4, <1>5 DEF Behind, from

\* The files kept, saved as one, are one file that holds from where the first
\* starts.
LEMMA SavedIs ==
    ASSUME NEW f, FilesShape(f), NEW n \in Nat, FilesHold(f, n)
    PROVE  /\ f.parts[1].streamOffset <= n
           /\ saveCaptureParts(f) = Laid(f.parts[1].headerOffsets, f.parts[1].streamOffset, n)
  <1> DEFINE m == Len(f.parts)
             ho(i) == f.parts[i].headerOffsets
             so(i) == f.parts[i].streamOffset
             hi(i) == EndOfPart(f, i, n)
             here(i) == f.raw[f.parts[i].number]
             seqs == [i \in DOMAIN f.parts |->
                        IF i = 1 THEN here(i) ELSE SubSeq(here(i), Len(ho(i)) + 1, Len(here(i)))]
             F == [i \in 1..m |-> Laid(ho(1), so(1), hi(i))]
  <1>1. m \in Nat \ {0} /\ DOMAIN f.parts = 1..m
    <2>1. f.parts \in Seq(Parts)
      BY DEF FilesShape
    <2>2. QED
      BY <2>1, CurrentPart
  <1>2. \A i \in 1..m : /\ ho(i) \in Seq(Nat) /\ so(i) \in Nat /\ so(i) <= hi(i) /\ hi(i) \in Nat
                        /\ here(i) = Laid(ho(i), so(i), hi(i))
    <2>1. \A i \in 1..m : ho(i) \in Seq(Nat) /\ so(i) \in Nat
      BY <1>1, CurrentPart DEF Parts
    <2>2. SUFFICES ASSUME NEW i \in 1..m
                   PROVE  so(i) <= hi(i) /\ hi(i) \in Nat /\ here(i) = Laid(ho(i), so(i), hi(i))
      BY <2>1
    <2>3. so(i) <= hi(i) /\ here(i) = Laid(ho(i), so(i), hi(i))
      BY <1>1 DEF FilesHold
    <2>4. CASE i = m
      BY <2>3, <2>4 DEF EndOfPart
    <2>5. CASE i # m
      <3>1. i + 1 \in 1..m
        BY <1>1, <2>5
      <3>2. hi(i) = so(i + 1)
        BY <2>5 DEF EndOfPart
      <3>3. QED
        BY <2>1, <2>3, <3>1, <3>2
    <2>6. QED
      BY <2>4, <2>5
  <1>3. \A i \in 1..m : i # 1 => hi(i - 1) = so(i) /\ i - 1 \in 1..m
    <2>1. SUFFICES ASSUME NEW i \in 1..m, i # 1 PROVE hi(i - 1) = so(i) /\ i - 1 \in 1..m
      OBVIOUS
    <2>2. i - 1 \in 1..m /\ i - 1 # m /\ (i - 1) + 1 = i
      BY <1>1, <2>1
    <2>3. QED
      BY <2>2 DEF EndOfPart
  <1>4. saveCaptureParts(f) = FlattenSeq(seqs)
    BY DEF saveCaptureParts
  <1>5. 1 \in 1..m /\ m \in 1..m /\ Len(seqs) = m
    BY <1>1
  <1>6. \A i \in 1..m : seqs[i] = IF i = 1 THEN here(i) ELSE SubSeq(here(i), Len(ho(i)) + 1, Len(here(i)))
    BY <1>1
  <1>7. \A i \in 1..m : F[i] = Laid(ho(1), so(1), hi(i))
    OBVIOUS
  <1>8. hi(m) = n
    BY DEF EndOfPart
  <1> HIDE DEF seqs, F, here, so, ho, hi, m
  <1>9. \A i \in 1..m : so(1) <= so(i)
    <2> DEFINE T == {i \in 1..m : ~(so(1) <= so(i))}
    <2>1. SUFFICES ASSUME T # {} PROVE FALSE
      OBVIOUS
    <2>2. T \subseteq Nat
      BY <1>1
    <2>3. \E i \in T : \A j \in T : i <= j
      <3> HIDE DEF T
      <3>1. QED
        BY <2>1, <2>2, LeastNat
    <2>4. PICK i \in T : \A j \in T : i <= j
      BY <2>3
    <2>5. i \in 1..m /\ i \in Nat /\ ~(so(1) <= so(i))
      BY <1>1
    <2>6. i # 1
      BY <1>2, <1>5, <2>5
    <2>7. i - 1 \in 1..m /\ hi(i - 1) = so(i) /\ i - 1 < i
      BY <1>3, <2>5, <2>6
    <2>8. i - 1 \notin T
      <3> HIDE DEF T
      <3>1. QED
        BY <2>4, <2>5, <2>7
    <2>9. so(1) <= so(i - 1) /\ so(i - 1) <= so(i) /\ so(1) \in Nat /\ so(i - 1) \in Nat /\ so(i) \in Nat
      BY <1>2, <1>5, <2>5, <2>7, <2>8
    <2>10. QED
      BY <2>5, <2>9
  <1>10. F[1] = seqs[1]
    BY <1>2, <1>5, <1>6, <1>7
  <1>11. ASSUME NEW i \in 1..m, i # 1 PROVE F[i] = F[i - 1] \o seqs[i]
    <2>1. i - 1 \in 1..m /\ hi(i - 1) = so(i)
      BY <1>3, <1>11
    <2>2. so(1) <= so(i) /\ so(1) \in Nat /\ so(i) \in Nat /\ hi(i) \in Nat /\ so(i) <= hi(i) /\ ho(1) \in Seq(Nat)
          /\ ho(i) \in Seq(Nat) /\ here(i) = Laid(ho(i), so(i), hi(i))
      BY <1>2, <1>5, <1>9
    <2>3. seqs[i] = Laid(<<>>, so(i), hi(i))
      <3>1. SubSeq(here(i), Len(ho(i)) + 1, Len(here(i))) = Laid(<<>>, so(i), hi(i))
        BY <2>2, LaidBare
      <3>2. QED
        BY <1>6, <1>11, <3>1
    <2>4. F[i - 1] = Laid(ho(1), so(1), so(i))
      BY <1>7, <2>1
    <2>5. Laid(ho(1), so(1), so(i)) \o Laid(<<>>, so(i), hi(i)) = Laid(ho(1), so(1), hi(i))
      BY <2>2, LaidOn
    <2>6. QED
      BY <1>7, <2>3, <2>4, <2>5
  <1>12. FlattenSeq(seqs) = F[m]
    <2>1. \A i \in 1..m : i # 1 => F[i] = F[i - 1] \o seqs[i]
      BY <1>11
    <2>2. PICK k \in Nat \ {0} : k = m
      BY <1>1
    <2>3. Len(seqs) = k /\ \A i \in 1..k : i # 1 => F[i] = F[i - 1] \o seqs[i]
      BY <1>5, <2>1, <2>2
    <2>4. FlattenSeq(seqs) = F[k]
      BY <1>10, <2>3, FlattenIs
    <2>5. QED
      BY <2>2, <2>4
  <1>13. saveCaptureParts(f) = Laid(ho(1), so(1), n)
    BY <1>4, <1>5, <1>7, <1>8, <1>12
  <1>14. so(1) <= n
    <2>1. so(1) <= so(m) /\ so(m) <= n /\ so(1) \in Nat /\ so(m) \in Nat
      BY <1>2, <1>5, <1>8, <1>9
    <2>2. QED
      BY <2>1
  <1>15. QED
    BY <1>13, <1>14 DEF ho, so

\* The inductive invariant gives what SavedIsTheStream says.
LEMMA Saved == ConversionInv => SavedIsTheStream
  <1> SUFFICES ASSUME ConversionInv, Converting, ~writeFailed
               PROVE  LET first == Head(files.parts)
                      IN  saveCaptureParts(files) =
                            first.headerOffsets
                                \o [i \in 1..(read - first.streamOffset) |-> first.streamOffset + i]
    BY DEF SavedIsTheStream
  <1>1. FilesShape(files) /\ FilesHold(files, read) /\ read \in Nat
    BY DEF ConversionInv, BaseInv, FilesInv, ContentInv, StreamInv
  <1> DEFINE first == files.parts[1]
             ho == first.headerOffsets
             so == first.streamOffset
             s == [i \in 1..(read - so) |-> so + i]
  <1>2. so <= read /\ saveCaptureParts(files) = Laid(ho, so, read)
    BY <1>1, SavedIs
  <1>3. Head(files.parts) = first /\ first \in Parts /\ 1 \in DOMAIN files.parts
    <2>1. files.parts \in Seq(Parts) /\ files.parts # <<>>
      BY <1>1 DEF FilesShape
    <2>2. QED
      BY <2>1
  <1>4. ho \in Seq(Nat) /\ so \in Nat /\ Len(ho) \in Nat
    BY <1>3 DEF Parts
  <1>5. Laid(ho, so, read) = ho \o s
    <2>1. read - so \in Nat /\ \A i \in 1..(read - so) : so + i \in Nat
      BY <1>1, <1>2, <1>4
    <2>2. s \in Seq(Nat) /\ Len(s) = read - so
      <3> DEFINE d == read - so
      <3>1. d \in Nat /\ s = [i \in 1..d |-> so + i] /\ \A i \in 1..d : so + i \in Nat
        BY <2>1
      <3> HIDE DEF d, s, so
      <3>2. s \in Seq(Nat) /\ Len(s) = d
        BY <3>1
      <3>3. QED
        BY <3>2 DEF d
    <2>3. \A i \in 1..(read - so) : s[i] = so + i
      OBVIOUS
    <2> HIDE DEF s, so, ho
    <2>4. ho \o s = [k \in 1..(Len(ho) + Len(s)) |-> IF k <= Len(ho) THEN ho[k] ELSE s[k - Len(ho)]]
      BY <1>4, <2>2, ConcatIs
    <2>5. \A k \in 1..(Len(ho) + (read - so)) :
              ~(k <= Len(ho)) => s[k - Len(ho)] = so + (k - Len(ho))
      BY <1>1, <1>4, <2>1, <2>3
    <2>6. QED
      BY <2>2, <2>4, <2>5 DEF Laid
  <1>6. QED
    BY <1>2, <1>3, <1>5

\* However often the ring buffer moves on, and whatever it deletes: the files
\* kept, saved as one, are the headers the first needs and the stream from there
\* to what was read last, without a hole and without a copied header (rotate()
\* and saveCaptureParts() of raw_capture.cpp).
THEOREM SavedIsStream == Spec => []SavedIsTheStream
  BY ConversionInvariant, Saved, PTL

-----------------------------------------------------------------------------
(* A raw file that is one part of a stream read as records.                *)

\* A file starts with the capture, or behind place so with the headers there.
StartsWith(s, so, ho) ==
    \/ so = 0 /\ ho = <<>>
    \/ so \in 1..Len(s) /\ ho = HeadersOf(s, so)

\* Such headers are no packets, and lie in the order of the stream, up to so.
LEMMA StartHeaders ==
    ASSUME NEW s, Shaped(s), NEW so \in Nat, NEW ho, StartsWith(s, so, ho)
    PROVE  /\ ho \in Seq(Nat)
           /\ \A k \in 1..Len(ho) : ho[k] \in 1..so /\ s[ho[k]].kind # "packet"
           /\ \A j, k \in 1..Len(ho) : j < k => ho[j] < ho[k]
  <1>1. CASE ho = <<>>
    BY <1>1
  <1>2. CASE so \in 1..Len(s) /\ ho = HeadersOf(s, so)
    <2>1. HeadersHold(s, so, ho)
      BY <1>2, HeadersAre
    <2>2. /\ ho \in Seq(Nat) /\ Len(ho) > 0 /\ ho[1] \in Nat /\ ho[1] > 0
          /\ \A k \in 1..Len(ho) : ho[k] \in ho[1]..so
          /\ \A j, k \in 1..Len(ho) : j < k => ho[j] < ho[k]
      BY <2>1 DEF HeadersHold
    <2>3. \A k \in 1..Len(ho) : s[ho[k]].kind # "packet"
      BY <2>1, <2>2 DEF HeadersHold
    <2>4. \A x \in ho[1]..so : x \in 1..so
      BY <2>2
    <2>5. QED
      BY <2>2, <2>3, <2>4
  <1>3. QED
    BY <1>1, <1>2 DEF StartsWith

\* The places of a file: those of the headers, which are no packets, and then the stream's,
\* in its order.
InOrder(s, so, ho, hi, here) ==
    /\ here \in Seq(Nat) /\ DOMAIN here = 1..(Len(ho) + (hi - so))
    /\ \A k \in 1..Len(ho) : here[k] = ho[k] /\ here[k] \in 1..so /\ s[here[k]].kind # "packet"
    /\ \A k \in DOMAIN here : k > Len(ho) => here[k] = so + (k - Len(ho)) /\ here[k] \in (so + 1)..hi
    /\ \A j, k \in DOMAIN here : j < k => here[j] < here[k]
    /\ \A x \in (so + 1)..hi : x - so + Len(ho) \in DOMAIN here /\ here[x - so + Len(ho)] = x

\* So it is with a file that starts with the headers.
LEMMA FileOrder ==
    ASSUME NEW s, Shaped(s), NEW so \in Nat, NEW ho, StartsWith(s, so, ho),
           NEW hi \in Nat, so <= hi, NEW here, here = Laid(ho, so, hi)
    PROVE  InOrder(s, so, ho, hi, here)
  <1>0. /\ ho \in Seq(Nat)
        /\ \A k \in 1..Len(ho) : ho[k] \in 1..so /\ s[ho[k]].kind # "packet"
        /\ \A j, k \in 1..Len(ho) : j < k => ho[j] < ho[k]
    BY StartHeaders
  <1>1. /\ ho \in Seq(Nat) /\ Len(ho) \in Nat /\ hi - so \in Nat
        /\ \A k \in 1..Len(ho) : ho[k] \in 1..so /\ s[ho[k]].kind # "packet"
        /\ \A j, k \in 1..Len(ho) : j < k => ho[j] < ho[k]
    BY <1>0
  <1>2. here \in Seq(Nat) /\ DOMAIN here = 1..(Len(ho) + (hi - so))
    BY <1>1, LaidIsSeq DEF Laid
  <1>3. \A k \in DOMAIN here : here[k] = IF k <= Len(ho) THEN ho[k] ELSE so + (k - Len(ho))
    BY <1>2 DEF Laid
  <1>4. \A k \in 1..Len(ho) : k \in DOMAIN here /\ here[k] = ho[k]
    <2>1. \A k \in 1..Len(ho) : k \in 1..(Len(ho) + (hi - so)) /\ k <= Len(ho)
      BY <1>1
    <2>2. QED
      BY <2>1, <1>2, <1>3
  <1>5. \A k \in DOMAIN here : k > Len(ho) => here[k] = so + (k - Len(ho)) /\ here[k] \in (so + 1)..hi
    <2>1. SUFFICES ASSUME NEW k \in DOMAIN here, k > Len(ho)
                   PROVE  here[k] = so + (k - Len(ho)) /\ here[k] \in (so + 1)..hi
      OBVIOUS
    <2>2. k \in 1..(Len(ho) + (hi - so)) /\ ~(k <= Len(ho))
      BY <1>1, <1>2, <2>1
    <2>3. here[k] = so + (k - Len(ho))
      BY <1>3, <2>2
    <2>4. so + (k - Len(ho)) \in (so + 1)..hi
      BY <1>1, <2>1, <2>2
    <2>5. QED
      BY <2>3, <2>4
  <1>6. ASSUME NEW j \in DOMAIN here, NEW k \in DOMAIN here, j < k PROVE here[j] < here[k]
    <2>1. CASE k <= Len(ho)
      <3>1. j \in 1..Len(ho) /\ k \in 1..Len(ho)
        BY <1>1, <1>2, <1>6, <2>1
      <3>2. here[j] = ho[j] /\ here[k] = ho[k] /\ ho[j] < ho[k]
        BY <1>1, <1>4, <1>6, <3>1
      <3>3. QED
        BY <3>2
    <2>2. CASE k > Len(ho) /\ j <= Len(ho)
      <3>1. j \in 1..Len(ho)
        BY <1>1, <1>2, <2>2
      <3>2. here[j] <= so /\ here[j] \in Nat
        BY <1>1, <1>4, <3>1
      <3>3. here[k] > so
        BY <1>5, <2>2
      <3>4. QED
        BY <3>2, <3>3, <1>5, <2>2
    <2>3. CASE k > Len(ho) /\ j > Len(ho)
      BY <1>1, <1>2, <1>5, <1>6, <2>3
    <2>4. QED
      BY <1>1, <1>2, <2>1, <2>2, <2>3
  <1>7. ASSUME NEW x \in (so + 1)..hi
        PROVE  x - so + Len(ho) \in DOMAIN here /\ here[x - so + Len(ho)] = x
    <2> DEFINE k == x - so + Len(ho)
    <2>1. k \in DOMAIN here /\ k > Len(ho) /\ so + (k - Len(ho)) = x
      BY <1>1, <1>2
    <2> HIDE DEF k
    <2>2. here[k] = x
      BY <1>5, <2>1
    <2>3. QED
      BY <2>1, <2>2 DEF k
  <1>8. QED
    BY <1>1, <1>2, <1>4, <1>5, <1>6, <1>7 DEF InOrder

\* Where the headers of a file begin the section of a place behind them, they are those of
\* that section up to the file's start.
LEMMA SameSection ==
    ASSUME NEW s, NEW so \in Nat, NEW n \in Nat, so <= n, NEW h, HeadersHold(s, n, h),
           NEW g, HeadersHold(s, so, g), h[1] <= so
    PROVE  g[1] = h[1]
  <1>1. /\ h[1] \in Nat /\ g[1] \in Nat /\ g[1] <= so
        /\ s[h[1]].kind = "section" /\ s[g[1]].kind = "section"
        /\ \A i \in (h[1] + 1)..n : s[i].kind # "section"
        /\ \A i \in (g[1] + 1)..so : s[i].kind # "section"
    <2>1. g[1] \in g[1]..so
      BY DEF HeadersHold
    <2>2. QED
      BY <2>1 DEF HeadersHold
  <1>2. ~(g[1] < h[1])
    BY <1>1
  <1>3. ~(h[1] < g[1])
    BY <1>1
  <1>4. QED
    BY <1>1, <1>2, <1>3

\* The records of the file here that are no packets, from place j to k of it.
Declared(s, here, j, k) == {here[i] : i \in {x \in j..k : s[here[x]].kind # "packet"}}

\* In a file that starts with the headers, a packet follows its section's header and all
\* that was declared in it before.
LEMMA FileSections ==
    ASSUME NEW s, Shaped(s), NEW so \in Nat, NEW ho, StartsWith(s, so, ho),
           NEW hi \in Nat, so <= hi, hi <= Len(s), NEW here, here = Laid(ho, so, hi),
           NEW k \in DOMAIN here, s[here[k]].kind = "packet"
    PROVE  \E j0 \in 1..k :
              /\ s[here[j0]].kind = "section"
              /\ \A i \in 1..k : s[here[i]].kind = "section" => i <= j0
              /\ Declared(s, here, j0, k) = {HeadersOf(s, here[k])[i] : i \in DOMAIN HeadersOf(s, here[k])}
  <1> DEFINE n == here[k]
             h == HeadersOf(s, n)
             f == h[1]
             m == Len(ho)
  <1>1. /\ here \in Seq(Nat) /\ DOMAIN here = 1..(m + (hi - so)) /\ m \in Nat
        /\ \A i \in 1..m : here[i] = ho[i] /\ here[i] \in 1..so /\ s[here[i]].kind # "packet"
        /\ \A i \in DOMAIN here : i > m => here[i] = so + (i - m) /\ here[i] \in (so + 1)..hi
        /\ \A i, j \in DOMAIN here : i < j => here[i] < here[j]
        /\ \A x \in (so + 1)..hi : x - so + m \in DOMAIN here /\ here[x - so + m] = x
    <2>1. ho \in Seq(Nat)
      BY StartHeaders
    <2>2. m \in Nat
      BY <2>1
    <2>a. InOrder(s, so, ho, hi, here)
      BY FileOrder
    <2>3. /\ here \in Seq(Nat) /\ DOMAIN here = 1..(Len(ho) + (hi - so))
          /\ \A i \in 1..Len(ho) : here[i] = ho[i] /\ here[i] \in 1..so /\ s[here[i]].kind # "packet"
          /\ \A i \in DOMAIN here : i > Len(ho) => here[i] = so + (i - Len(ho)) /\ here[i] \in (so + 1)..hi
          /\ \A i, j \in DOMAIN here : i < j => here[i] < here[j]
          /\ \A x \in (so + 1)..hi : x - so + Len(ho) \in DOMAIN here /\ here[x - so + Len(ho)] = x
      BY <2>a DEF InOrder
    <2>4. QED
      BY <2>2, <2>3
  <1>2. k \in Nat /\ k > m /\ n = so + (k - m) /\ n \in (so + 1)..hi /\ n \in 1..Len(s)
    <2>1. k \in Nat /\ k >= 1
      BY <1>1
    <2>2. k > m
      <3>1. k \notin 1..m
        BY <1>1
      <3>2. QED
        BY <3>1, <2>1, <1>1
    <2>3. n = so + (k - m) /\ n \in (so + 1)..hi
      BY <1>1, <2>2
    <2>4. Len(s) \in Nat
      BY DEF Shaped
    <2>5. QED
      BY <2>1, <2>2, <2>3, <2>4
  <1>3. HeadersHold(s, n, h)
    BY <1>2, HeadersAre
  <1>4. /\ h \in Seq(Nat) /\ f \in Nat /\ f > 0 /\ f <= n /\ n \in Nat
        /\ s[f].kind = "section" /\ \A i \in (f + 1)..n : s[i].kind # "section"
        /\ \A i \in f..n : s[i].kind # "packet" <=> \E j \in 1..Len(h) : h[j] = i
        /\ \A i \in 1..Len(h) : h[i] \in f..n
        /\ DOMAIN h = 1..Len(h)
    <2>1. h \in Seq(Nat) /\ Len(h) > 0 /\ h[1] \in h[1]..n
      BY <1>3 DEF HeadersHold
    <2>2. QED
      BY <2>1, <1>2, <1>3 DEF HeadersHold
  <1> HIDE DEF n, h, f
  \* The place of the section's header in the file.
  <1>5. \E j0 \in 1..k : here[j0] = f /\ (f <= so => j0 = 1 /\ HeadersHold(s, so, ho))
    <2>1. CASE f > so
      <3>1. f \in (so + 1)..hi
        BY <1>2, <1>4, <2>1
      <3>2. here[f - so + m] = f
        BY <1>1, <3>1
      <3>3. f - so + m \in 1..k
        <4>1. f <= n /\ f \in Nat /\ n \in Nat /\ m \in Nat /\ k \in Nat /\ n = so + (k - m)
          BY <1>1, <1>2, <1>4
        <4>2. QED
          BY <4>1, <2>1
      <3>4. QED
        BY <2>1, <3>2, <3>3, <1>4
    <2>2. CASE f <= so
      <3>1. so \in 1..Len(s) /\ ho = HeadersOf(s, so)
        BY <2>2, <1>4 DEF StartsWith
      <3>2. HeadersHold(s, so, ho)
        BY <3>1, HeadersAre
      <3>3. so <= n
        BY <1>2
      <3>4. ho[1] = f
        BY <1>3, <1>4, <2>2, <3>2, <3>3, SameSection DEF f
      <3>5. 1 \in 1..m /\ 1 \in 1..k
        <4>1. Len(ho) > 0
          BY <3>2 DEF HeadersHold
        <4>2. QED
          BY <4>1, <1>1, <1>2
      <3>6. here[1] = f
        BY <1>1, <3>4, <3>5
      <3>7. QED
        BY <3>2, <3>5, <3>6
    <2>3. QED
      BY <2>1, <2>2, <1>4
  <1>6. PICK j0 \in 1..k : here[j0] = f /\ (f <= so => j0 = 1 /\ HeadersHold(s, so, ho))
    BY <1>5
  <1>7. j0 \in DOMAIN here /\ j0 \in Nat /\ \A i \in 1..k : i \in DOMAIN here /\ i \in Nat /\ here[i] \in Nat
    <2>1. \A i \in 1..k : i \in 1..(m + (hi - so)) /\ i \in Nat
      BY <1>1, <1>2
    <2>2. \A i \in 1..k : i \in DOMAIN here /\ i \in Nat
      BY <1>1, <2>1
    <2>3. \A i \in DOMAIN here : here[i] \in Nat
      BY <1>1
    <2>4. QED
      BY <2>2, <2>3, <1>6
  <1>8. \A i \in j0..k : i \in DOMAIN here /\ here[i] \in f..n
    <2>1. SUFFICES ASSUME NEW i \in j0..k PROVE i \in DOMAIN here /\ here[i] \in f..n
      OBVIOUS
    <2>2. i \in 1..k /\ i \in DOMAIN here /\ here[i] \in Nat /\ (i = j0 \/ j0 < i) /\ (i = k \/ i < k)
      BY <1>2, <1>6, <1>7
    <2>3. f <= here[i]
      <3>1. CASE i = j0
        BY <3>1, <1>4, <1>6
      <3>2. CASE j0 < i
        <4>1. f < here[i]
          BY <3>2, <1>1, <1>6, <1>7, <2>2
        <4>2. QED
          BY <4>1, <2>2, <1>4
      <3>3. QED
        BY <2>2, <3>1, <3>2
    <2>4. here[i] <= n
      <3>1. CASE i = k
        BY <3>1, <1>4 DEF n
      <3>2. CASE i < k
        <4>1. here[i] < n
          BY <3>2, <1>1, <2>2 DEF n
        <4>2. QED
          BY <4>1, <2>2, <1>4
      <3>3. QED
        BY <2>2, <3>1, <3>2
    <2>5. QED
      BY <2>2, <2>3, <2>4, <1>4
  <1>9. ASSUME NEW i \in 1..k, s[here[i]].kind = "section" PROVE i <= j0
    <2>1. SUFFICES ASSUME ~(i <= j0) PROVE FALSE
      OBVIOUS
    <2>2. i \in j0..k /\ j0 < i
      BY <2>1, <1>2, <1>7
    <2>3. here[i] \in f..n /\ here[j0] < here[i]
      BY <2>2, <1>1, <1>7, <1>8, <1>9
    <2>4. here[i] \in (f + 1)..n
      BY <2>3, <1>4, <1>6
    <2>5. QED
      BY <2>4, <1>4, <1>9
  <1>10. ASSUME NEW x \in Declared(s, here, j0, k) PROVE \E i \in 1..Len(h) : h[i] = x
    <2>1. PICK i \in j0..k : s[here[i]].kind # "packet" /\ x = here[i]
      BY <1>10 DEF Declared
    <2>2. x \in f..n /\ s[x].kind # "packet"
      BY <2>1, <1>8
    <2>3. QED
      BY <2>2, <1>4
  <1>11. ASSUME NEW q \in 1..Len(h) PROVE h[q] \in Declared(s, here, j0, k)
    <2>1. h[q] \in f..n /\ h[q] \in Nat
      BY <1>4, <1>11
    <2>2. s[h[q]].kind # "packet"
      BY <2>1, <1>4, <1>11
    <2>3. CASE h[q] > so
      <3> DEFINE i == h[q] - so + m
      <3>1. h[q] \in (so + 1)..hi
        BY <2>1, <2>3, <1>2, <1>4
      <3>2. i \in DOMAIN here /\ here[i] = h[q] /\ i \in Nat
        <4>1. \A x \in (so + 1)..hi : x - so + m \in DOMAIN here /\ here[x - so + m] = x
          BY <1>1
        <4>2. i \in DOMAIN here /\ here[i] = h[q]
          BY <4>1, <3>1
        <4>3. i \in Nat
          BY <2>1, <2>3, <1>1
        <4>4. QED
          BY <4>2, <4>3
      <3>3. i <= k /\ i >= m + 1
        <4>1. h[q] <= n /\ h[q] \in Nat /\ n \in Nat /\ m \in Nat /\ k \in Nat /\ n = so + (k - m)
          BY <2>1, <1>1, <1>2, <1>4
        <4>2. QED
          BY <4>1, <2>3
      <3> HIDE DEF i
      <3>4. ~(i < j0)
        <4>1. i < j0 => here[i] < here[j0]
          BY <3>2, <1>1, <1>7
        <4>2. here[j0] <= here[i]
          BY <2>1, <3>2, <1>4, <1>6
        <4>3. QED
          BY <4>1, <4>2, <3>2, <1>7, <2>1, <1>6, <1>4
      <3>5. i \in j0..k
        BY <3>2, <3>3, <3>4, <1>2, <1>7
      <3>6. QED
        BY <2>2, <3>2, <3>5 DEF Declared
    <2>4. CASE h[q] <= so
      <3>1. f <= so /\ j0 = 1 /\ HeadersHold(s, so, ho)
        BY <2>1, <2>4, <1>4, <1>6
      <3>a. so <= n
        BY <1>2
      <3>b. h[1] <= so /\ n \in Nat
        BY <3>1, <1>4 DEF f
      <3>2. ho[1] = f
        BY <3>1, <3>a, <3>b, <1>3, SameSection DEF f
      <3>3. h[q] \in ho[1]..so
        BY <2>1, <2>4, <3>2, <1>4
      <3>4. PICK i \in 1..m : ho[i] = h[q]
        BY <2>2, <3>1, <3>3 DEF HeadersHold
      <3>5. here[i] = h[q] /\ i \in j0..k
        BY <3>1, <3>4, <1>1, <1>2
      <3>6. QED
        BY <2>2, <3>5 DEF Declared
    <2>5. QED
      BY <2>1, <2>3, <2>4
  <1>12. Declared(s, here, j0, k) = {h[i] : i \in DOMAIN h}
    BY <1>4, <1>10, <1>11
  <1>13. QED
    BY <1>4, <1>6, <1>9, <1>12 DEF h, n

\* Such a file holds as many packets as the stream does from behind its start to its end.
LEMMA FileCount ==
    ASSUME NEW s, Shaped(s), NEW so \in Nat, NEW ho, StartsWith(s, so, ho),
           NEW hi \in Nat, so <= hi, hi <= Len(s), NEW here, here = Laid(ho, so, hi)
    PROVE  Cardinality({k \in DOMAIN here : s[here[k]].kind = "packet"}) = CountOf(s, hi) - CountOf(s, so)
  <1> DEFINE K == {k \in DOMAIN here : s[here[k]].kind = "packet"}
             D == PacketsOf(s, hi) \ PacketsOf(s, so)
             m == Len(ho)
             F == [x \in D |-> x - so + m]
  <1>0. s \in Seq(Records) /\ m \in Nat /\ InOrder(s, so, ho, hi, here)
    <2>1. ho \in Seq(Nat)
      BY StartHeaders
    <2>2. InOrder(s, so, ho, hi, here)
      BY FileOrder
    <2>3. QED
      BY <2>1, <2>2 DEF Shaped
  <1>1. \A x : x \in D <=> x \in (so + 1)..hi /\ s[x].kind = "packet"
    <2>1. SUFFICES ASSUME NEW x PROVE x \in D <=> x \in (so + 1)..hi /\ s[x].kind = "packet"
      OBVIOUS
    <2>2. x \in PacketsOf(s, hi) <=> x \in 1..Len(s) /\ s[x].kind = "packet" /\ x <= hi
      BY <1>0, PacketsUpTo
    <2>3. x \in PacketsOf(s, so) <=> x \in 1..Len(s) /\ s[x].kind = "packet" /\ x <= so
      BY <1>0, PacketsUpTo
    <2>4. x \in 1..Len(s) /\ x <= hi /\ ~(x <= so) <=> x \in (so + 1)..hi
      BY <1>0
    <2>5. QED
      BY <2>2, <2>3, <2>4
  <1>2. \A x \in (so + 1)..hi : x - so + m \in DOMAIN here /\ here[x - so + m] = x
    BY <1>0 DEF InOrder
  <1>3. F \in [D -> K]
    <2>1. ASSUME NEW x \in D PROVE x - so + m \in K
      <3>1. x \in (so + 1)..hi /\ s[x].kind = "packet"
        BY <1>1
      <3>2. QED
        BY <3>1, <1>2
    <2> HIDE DEF D, K
    <2>2. QED
      BY <2>1
  <1>4. \A x, y \in D : F[x] = F[y] => x = y
    <2>1. \A x, y \in (so + 1)..hi : x - so + m = y - so + m => x = y
      BY <1>0
    <2>2. \A x \in D : x \in (so + 1)..hi /\ F[x] = x - so + m
      BY <1>1
    <2> HIDE DEF D, F
    <2>3. QED
      BY <2>1, <2>2
  <1>5. \A k \in K : \E x \in D : F[x] = k
    <2>1. SUFFICES ASSUME NEW k \in K PROVE here[k] \in D /\ F[here[k]] = k
      OBVIOUS
    <2>2. k \in DOMAIN here /\ s[here[k]].kind = "packet" /\ k \in 1..(m + (hi - so)) /\ k \in Nat
      BY <1>0 DEF InOrder
    <2>3. k > m
      <3>1. k \notin 1..m
        BY <1>0, <2>2 DEF InOrder
      <3>2. QED
        BY <1>0, <2>2, <3>1
    <2>4. here[k] = so + (k - m) /\ here[k] \in (so + 1)..hi
      BY <1>0, <2>2, <2>3 DEF InOrder
    <2>5. here[k] \in D
      BY <1>1, <2>2, <2>4
    <2>6. here[k] - so + m = k
      BY <1>0, <2>2, <2>4
    <2> HIDE DEF D
    <2>7. QED
      BY <2>5, <2>6
  <1>6. /\ IsFiniteSet(PacketsOf(s, hi)) /\ PacketsOf(s, hi) \cap PacketsOf(s, so) = PacketsOf(s, so)
    <2>1. ASSUME NEW x \in PacketsOf(s, so) PROVE x \in PacketsOf(s, hi)
      <3>1. x \in 1..Len(s) /\ s[x].kind = "packet" /\ x <= so
        BY <1>0, PacketsUpTo
      <3>2. x <= hi
        BY <1>0, <3>1
      <3>3. QED
        BY <1>0, <3>1, <3>2, PacketsUpTo
    <2>2. QED
      BY <1>0, <2>1, PacketsUpTo
  <1>7. IsFiniteSet(D) /\ Cardinality(D) = CountOf(s, hi) - CountOf(s, so)
    BY <1>6, FS_Difference DEF CountOf
  <1>8. ExistsBijection(D, K)
    <2> HIDE DEF D, K, F
    <2>1. F \in Bijection(D, K)
      BY <1>3, <1>4, <1>5 DEF Bijection, Injection, Surjection, IsInjective
    <2>2. QED
      BY <2>1 DEF ExistsBijection
  <1>9. Cardinality(K) = Cardinality(D)
    <2> HIDE DEF D, K
    <2>1. QED
      BY <1>7, <1>8, FS_Bijection
  <1>10. QED
    BY <1>7, <1>9

-----------------------------------------------------------------------------
(* What a ring buffer holds, part by part.                                 *)

\* A part starts the capture, or behind a packet that was read, with the headers there, and
\* counts the packets before it.
StartsWell(s, upTo, part) ==
    /\ part.packetsBefore = CountOf(s, part.streamOffset)
    /\ \/ part.streamOffset = 0 /\ part.headerOffsets = <<>>
       \/ /\ part.streamOffset \in 1..upTo /\ s[part.streamOffset].kind = "packet"
          /\ part.headerOffsets = HeadersOf(s, part.streamOffset)

\* Of upTo records read of s: the parts start so, none before a packet of the one before it,
\* and a file that is not the capture's first has one.
PartsWell(s, upTo, f) ==
    /\ \A i \in DOMAIN f.parts : StartsWell(s, upTo, f.parts[i])
    /\ \A i \in DOMAIN f.parts : i # Len(f.parts) =>
            f.parts[i].streamOffset < f.parts[i + 1].streamOffset
    /\ Number(f) > 1 => \E n \in 1..upTo : s[n].kind = "packet" /\ Current(f).streamOffset < n

\* The Live Output l knows where the last packet of the file written ends, the headers there
\* and the number p of packets converted.
FileEndWell(s, upTo, f, l, p) ==
    l.fileHasPacket =>
        /\ l.fileEnd \in 1..upTo /\ s[l.fileEnd].kind = "packet"
        /\ Current(f).streamOffset < l.fileEnd
        /\ l.packetsInFiles = p /\ CountOf(s, l.fileEnd) = p
        /\ l.fileHeaders = HeadersOf(s, l.fileEnd)

\* The lines of the packets behind the first from, up to the one numbered to.
Lines(from, to) == [k \in 1..(to - from) |-> from + k]

\* The number of packets at the end of part i.
PacketsAtEnd(f, i, p) == IF i = Len(f.parts) THEN p ELSE f.parts[i + 1].packetsBefore

\* The text of each part is the lines of the packets from its start to the next one's.
TextsWell(f, p) == \A i \in DOMAIN f.parts :
    /\ f.parts[i].packetsBefore <= PacketsAtEnd(f, i, p)
    /\ f.text[f.parts[i].number] = Lines(f.parts[i].packetsBefore, PacketsAtEnd(f, i, p))

\* The parts a snapshot has are those of the files where they are still kept, and all its
\* packets lie before the parts that came since; where the file written is still its last,
\* they are readable in it, unless something could not be written.
SnapshotWell(s, upTo, f, p, snap, good) ==
    /\ snap.packets \in Nat /\ snap.packets <= p
    /\ snap.packets > 0 => snap.parts # <<>>
    /\ snap.parts # <<>> =>
        /\ snap.parts \in Seq(Parts)
        /\ \A i, j \in DOMAIN snap.parts : snap.parts[j].number = snap.parts[i].number + (j - i)
        /\ \A i \in DOMAIN snap.parts : StartsWell(s, upTo, snap.parts[i])
        /\ Last(snap.parts).number <= Number(f)
        /\ \A i \in DOMAIN snap.parts, j \in DOMAIN f.parts :
                snap.parts[i].number = f.parts[j].number => snap.parts[i] = f.parts[j]
        /\ \A j \in DOMAIN f.parts : f.parts[j].number > Last(snap.parts).number =>
                snap.packets <= f.parts[j].packetsBefore
        /\ good /\ Last(snap.parts).number = Number(f) =>
                \A n \in 1..upTo : s[n].kind = "packet" /\ CountOf(s, n) <= snap.packets =>
                    n - Current(f).streamOffset + Len(Current(f).headerOffsets) <= f.rawReadable

\* So are the files as the ring buffer moves on.
RingWell(s, upTo, f, l, p, newest, last, good) ==
    /\ PartsWell(s, upTo, f)
    /\ FileEndWell(s, upTo, f, l, p)
    /\ TextsWell(f, p)
    /\ p <= CountOf(s, upTo)
    /\ SnapshotWell(s, upTo, f, p, newest, good)
    /\ SnapshotWell(s, upTo, f, p, last, good)

RingInv ==
    /\ pc = "open" => snapshot = NoSnapshot /\ shown = NoSnapshot
    /\ pc \in {"before", "packet"} => stream[read].kind = "packet"
    /\ Converting => RingWell(stream, read, files, live, packets, snapshot, shown, ~flushFailed /\ ~writeFailed)

\* The stream t goes on from s, of which upTo records were read.
GoesOn(s, t, upTo) ==
    /\ Shaped(s) /\ Shaped(t) /\ upTo \in Nat /\ upTo <= Len(s) /\ upTo <= Len(t)
    /\ \A i \in 1..upTo : t[i] = s[i]

\* What was read of it stays the same.
LEMMA ReadStays ==
    ASSUME NEW s, NEW t, NEW upTo, GoesOn(s, t, upTo), NEW n \in 0..upTo
    PROVE  /\ CountOf(t, n) = CountOf(s, n)
           /\ n # 0 => HeadersOf(t, n) = HeadersOf(s, n) /\ t[n] = s[n]
  <1>1. /\ Shaped(s) /\ Shaped(t) /\ s \in Seq(Records) /\ t \in Seq(Records) /\ upTo \in Nat
        /\ upTo <= Len(s) /\ upTo <= Len(t) /\ \A i \in 1..upTo : t[i] = s[i]
    BY DEF GoesOn, Shaped
  <1>2. n \in Nat /\ n <= Len(s) /\ n <= Len(t) /\ \A i \in 1..n : t[i] = s[i]
    BY <1>1
  <1>3. CountOf(t, n) = CountOf(s, n)
    BY <1>1, <1>2, CountKept
  <1>4. ASSUME n # 0 PROVE HeadersOf(t, n) = HeadersOf(s, n) /\ t[n] = s[n]
    <2>1. n \in 1..Len(s) /\ n \in 1..n
      BY <1>1, <1>2, <1>4
    <2>2. QED
      BY <1>1, <1>2, <2>1, HeadersKept
  <1>5. QED
    BY <1>3, <1>4

\* A part starts as well when the stream goes on and more is read.
LEMMA StartStays ==
    ASSUME NEW s, NEW t, NEW upTo, GoesOn(s, t, upTo), NEW more \in Nat, upTo <= more,
           NEW part \in Parts, StartsWell(s, upTo, part)
    PROVE  StartsWell(t, more, part)
  <1>1. upTo \in Nat /\ part.streamOffset \in Nat
    BY DEF GoesOn, Parts
  <1>2. part.streamOffset \in 0..upTo
    BY <1>1 DEF StartsWell
  <1>3. CountOf(t, part.streamOffset) = CountOf(s, part.streamOffset)
    BY <1>2, ReadStays
  <1>4. ASSUME part.streamOffset # 0
        PROVE  /\ part.streamOffset \in 1..more /\ t[part.streamOffset].kind = "packet"
               /\ part.headerOffsets = HeadersOf(t, part.streamOffset)
    <2>1. /\ part.streamOffset \in 1..upTo /\ s[part.streamOffset].kind = "packet"
          /\ part.headerOffsets = HeadersOf(s, part.streamOffset)
      BY <1>4 DEF StartsWell
    <2>2. /\ HeadersOf(t, part.streamOffset) = HeadersOf(s, part.streamOffset)
          /\ t[part.streamOffset] = s[part.streamOffset]
      BY <1>2, <1>4, ReadStays
    <2>3. QED
      BY <1>1, <2>1, <2>2
  <1>5. QED
    BY <1>3, <1>4 DEF StartsWell

\* The files of the same parts, as much of the raw one readable or more.
LEMMA SnapshotStays ==
    ASSUME NEW s, NEW t, NEW upTo, GoesOn(s, t, upTo), NEW more \in Nat, upTo <= more, more <= Len(t),
           NEW f, FilesShape(f), NEW g, g.parts = f.parts, Number(g) = Number(f), Current(g) = Current(f),
           NEW p \in Nat, NEW q \in Nat, p <= q, p <= CountOf(s, upTo),
           NEW snap, NEW good, NEW better, better => good, SnapshotWell(s, upTo, f, p, snap, good),
           \/ better => g.rawReadable = f.rawReadable
           \/ better => g.rawReadable = more - Current(f).streamOffset + Len(Current(f).headerOffsets)
    PROVE  SnapshotWell(t, more, g, q, snap, better)
  <1>1. snap.packets \in Nat /\ snap.packets <= p /\ snap.packets <= q /\ (snap.packets > 0 => snap.parts # <<>>)
    BY DEF SnapshotWell
  <1>2. CASE snap.parts = <<>>
    BY <1>1, <1>2 DEF SnapshotWell
  <1>3. CASE snap.parts # <<>>
    <2>1. /\ snap.parts \in Seq(Parts)
          /\ \A i, j \in DOMAIN snap.parts : snap.parts[j].number = snap.parts[i].number + (j - i)
          /\ \A i \in DOMAIN snap.parts : StartsWell(s, upTo, snap.parts[i])
          /\ Last(snap.parts).number <= Number(f)
          /\ \A i \in DOMAIN snap.parts, j \in DOMAIN f.parts :
                  snap.parts[i].number = f.parts[j].number => snap.parts[i] = f.parts[j]
          /\ \A j \in DOMAIN f.parts : f.parts[j].number > Last(snap.parts).number =>
                  snap.packets <= f.parts[j].packetsBefore
          /\ good /\ Last(snap.parts).number = Number(f) =>
                  \A n \in 1..upTo : s[n].kind = "packet" /\ CountOf(s, n) <= snap.packets =>
                      n - Current(f).streamOffset + Len(Current(f).headerOffsets) <= f.rawReadable
      BY <1>3 DEF SnapshotWell
    <2>2. \A i \in DOMAIN snap.parts : StartsWell(t, more, snap.parts[i])
      <3>1. \A i \in DOMAIN snap.parts : snap.parts[i] \in Parts
        BY <2>1
      <3>2. QED
        BY <2>1, <3>1, StartStays
    <2>3. ASSUME better, Last(snap.parts).number = Number(g),
                 NEW n \in 1..more, t[n].kind = "packet", CountOf(t, n) <= snap.packets
          PROVE  n - Current(g).streamOffset + Len(Current(g).headerOffsets) <= g.rawReadable
      <3>1. n \in 0..upTo /\ n # 0
        <4>1. t \in Seq(Records) /\ upTo \in Nat /\ CountOf(t, upTo) = CountOf(s, upTo)
          <5>1. upTo \in Nat /\ Shaped(t)
            BY DEF GoesOn
          <5>2. upTo \in 0..upTo
            BY <5>1
          <5>3. QED
            BY <5>1, <5>2, ReadStays DEF Shaped
        <4>2. n \in 1..Len(t) /\ n \in Nat /\ Len(t) \in Nat
          BY <4>1
        <4>3. n \in PacketsOf(t, Len(t))
          <5>1. \A i : i \in PacketsOf(t, Len(t)) <=> i \in 1..Len(t) /\ t[i].kind = "packet" /\ i <= Len(t)
            BY <4>1, <4>2, PacketsUpTo
          <5>2. n <= Len(t) /\ t[n].kind = "packet"
            BY <2>3, <4>2
          <5>3. QED
            BY <4>2, <5>1, <5>2
        <4>4. CountOf(t, n) <= CountOf(t, upTo)
          <5>1. CountOf(t, n) \in Nat /\ CountOf(t, upTo) \in Nat
            BY <4>1, <4>2, PacketsUpTo
          <5>2. QED
            BY <1>1, <2>3, <4>1, <5>1
        <4>5. n <= upTo
          BY <4>1, <4>3, <4>4, CountOrders
        <4>6. QED
          BY <4>1, <4>2, <4>5
      <3>2. CountOf(t, n) = CountOf(s, n) /\ t[n] = s[n]
        BY <3>1, ReadStays
      <3>3. n - Current(f).streamOffset + Len(Current(f).headerOffsets) <= f.rawReadable
        <4>1. upTo \in Nat
          BY DEF GoesOn
        <4>2. n \in 1..upTo
          BY <3>1, <4>1
        <4>3. QED
          BY <2>1, <2>3, <3>2, <4>2
      <3>4. CASE g.rawReadable = f.rawReadable
        BY <2>3, <3>3, <3>4
      <3>5. CASE g.rawReadable = more - Current(f).streamOffset + Len(Current(f).headerOffsets)
        <4>1. Current(f) \in Parts
          BY CurrentPart
        <4>2. Current(f).streamOffset \in Nat /\ Len(Current(f).headerOffsets) \in Nat
          BY <4>1 DEF Parts
        <4>3. n \in Nat /\ n <= more
          BY <2>3
        <4>4. QED
          BY <2>3, <3>5, <4>2, <4>3
      <3>6. QED
        BY <2>3, <3>4, <3>5
    <2>4. QED
      BY <1>1, <1>3, <2>1, <2>2, <2>3 DEF SnapshotWell
  <1>4. QED
    BY <1>2, <1>3

-----------------------------------------------------------------------------
(* What a ring buffer holds goes on holding.                               *)

\* The number of packets read does not fall when the stream goes on and more is read.
LEMMA CountStays ==
    ASSUME NEW s, NEW t, NEW upTo, GoesOn(s, t, upTo), NEW more \in Nat, upTo <= more, more <= Len(t)
    PROVE  /\ CountOf(s, upTo) \in Nat /\ CountOf(t, more) \in Nat
           /\ CountOf(s, upTo) <= CountOf(t, more)
  <1>1. upTo \in Nat /\ t \in Seq(Records) /\ s \in Seq(Records) /\ upTo \in 0..upTo
    BY DEF GoesOn, Shaped
  <1>2. CountOf(t, upTo) = CountOf(s, upTo)
    BY <1>1, ReadStays
  <1>3. CountOf(t, upTo) <= CountOf(t, more)
    BY <1>1, CountUp
  <1>4. CountOf(t, more) \in Nat /\ CountOf(s, upTo) \in Nat
    BY <1>1, PacketsUpTo
  <1>5. QED
    BY <1>2, <1>3, <1>4

\* The parts stay as good as they were.
LEMMA PartsStay ==
    ASSUME NEW s, NEW t, NEW upTo, GoesOn(s, t, upTo), NEW more \in Nat, upTo <= more,
           NEW f, FilesShape(f), NEW g, g.parts = f.parts, PartsWell(s, upTo, f)
    PROVE  PartsWell(t, more, g)
  <1>1. \A i \in DOMAIN g.parts : StartsWell(t, more, g.parts[i])
    <2>1. \A i \in DOMAIN f.parts : f.parts[i] \in Parts /\ StartsWell(s, upTo, f.parts[i])
      BY CurrentPart DEF PartsWell
    <2>2. QED
      BY <2>1, StartStays
  <1>2. \A i \in DOMAIN g.parts : i # Len(g.parts) => g.parts[i].streamOffset < g.parts[i + 1].streamOffset
    BY DEF PartsWell
  <1>3. Number(g) = Number(f) /\ Current(g) = Current(f)
    BY DEF Number, Current
  <1>4. ASSUME Number(f) > 1 PROVE \E n \in 1..more : t[n].kind = "packet" /\ Current(f).streamOffset < n
    <2>1. PICK n \in 1..upTo : s[n].kind = "packet" /\ Current(f).streamOffset < n
      BY <1>4 DEF PartsWell
    <2>2. upTo \in Nat /\ n \in 0..upTo /\ n # 0
      <3>1. upTo \in Nat
        BY DEF GoesOn
      <3>2. QED
        BY <3>1
    <2>3. t[n] = s[n]
      BY <2>2, ReadStays
    <2>4. n \in 1..more
      BY <2>2
    <2>5. QED
      BY <2>1, <2>3, <2>4
  <1>5. QED
    BY <1>1, <1>2, <1>3, <1>4 DEF PartsWell

\* So does what the Live Output knows of the last packet.
LEMMA FileEndStays ==
    ASSUME NEW s, NEW t, NEW upTo, GoesOn(s, t, upTo), NEW more \in Nat, upTo <= more,
           NEW f, NEW g, g.parts = f.parts, NEW l, NEW k, NEW p, FileEndWell(s, upTo, f, l, p),
           k.fileHasPacket => l.fileHasPacket, k.fileEnd = l.fileEnd,
           k.packetsInFiles = l.packetsInFiles, k.fileHeaders = l.fileHeaders
    PROVE  FileEndWell(t, more, g, k, p)
  <1> SUFFICES ASSUME k.fileHasPacket PROVE FileEndWell(t, more, g, k, p)
    BY DEF FileEndWell
  <1>1. /\ l.fileEnd \in 1..upTo /\ s[l.fileEnd].kind = "packet"
        /\ Current(f).streamOffset < l.fileEnd
        /\ l.packetsInFiles = p /\ CountOf(s, l.fileEnd) = p
        /\ l.fileHeaders = HeadersOf(s, l.fileEnd)
    BY DEF FileEndWell
  <1>2. upTo \in Nat
    BY DEF GoesOn
  <1>3. l.fileEnd \in 0..upTo /\ l.fileEnd # 0 /\ l.fileEnd \in 1..more
    BY <1>1, <1>2
  <1>4. /\ CountOf(t, l.fileEnd) = CountOf(s, l.fileEnd)
        /\ HeadersOf(t, l.fileEnd) = HeadersOf(s, l.fileEnd) /\ t[l.fileEnd] = s[l.fileEnd]
    BY <1>3, ReadStays
  <1>5. Current(g) = Current(f)
    BY DEF Current
  <1>6. QED
    BY <1>1, <1>3, <1>4, <1>5 DEF FileEndWell

\* A snapshot of the files as they are is one.
LEMMA SnapshotFresh ==
    ASSUME NEW s, Shaped(s), NEW upTo \in Nat, upTo <= Len(s), NEW f, FilesShape(f), PartsWell(s, upTo, f),
           NEW p \in Nat, NEW good,
           good => f.rawReadable = upTo - Current(f).streamOffset + Len(Current(f).headerOffsets),
           NEW snap, snap.parts = f.parts, snap.packets = p
    PROVE  SnapshotWell(s, upTo, f, p, snap, good)
  <1>1. f.parts \in Seq(Parts) /\ f.parts # <<>>
        /\ \A i, j \in DOMAIN f.parts : f.parts[j].number = f.parts[i].number + (j - i)
    BY DEF FilesShape
  <1>2. \A i \in DOMAIN f.parts : StartsWell(s, upTo, f.parts[i])
    BY DEF PartsWell
  <1>3. Len(f.parts) \in DOMAIN f.parts /\ Number(f) \in Nat /\ Last(f.parts).number = Number(f)
        /\ Number(f) = f.parts[Len(f.parts)].number /\ Current(f) \in Parts
        /\ \A i \in DOMAIN f.parts : f.parts[i] \in Parts /\ i \in 1..Len(f.parts) /\ Len(f.parts) \in Nat
    BY CurrentPart DEF Number, Current
  <1>4. \A i, j \in DOMAIN f.parts : f.parts[i].number = f.parts[j].number => f.parts[i] = f.parts[j]
    <2>1. SUFFICES ASSUME NEW i \in DOMAIN f.parts, NEW j \in DOMAIN f.parts, f.parts[i].number = f.parts[j].number
                   PROVE  i = j
      OBVIOUS
    <2>2. f.parts[j].number = f.parts[i].number + (j - i)
      BY <1>1
    <2>3. f.parts[i] \in Parts /\ i \in 1..Len(f.parts) /\ j \in 1..Len(f.parts) /\ Len(f.parts) \in Nat
      BY <1>3
    <2>4. f.parts[i].number \in Nat /\ i \in Nat /\ j \in Nat
      BY <2>3 DEF Parts
    <2>5. QED
      BY <2>1, <2>2, <2>4
  <1>5. \A j \in DOMAIN f.parts : ~(f.parts[j].number > Number(f))
    <2>1. SUFFICES ASSUME NEW j \in DOMAIN f.parts PROVE ~(f.parts[j].number > Number(f))
      OBVIOUS
    <2>2. Number(f) = f.parts[j].number + (Len(f.parts) - j) /\ f.parts[j].number \in Nat /\ j \in 1..Len(f.parts)
          /\ Len(f.parts) \in Nat
      BY <1>1, <1>3 DEF Parts
    <2>3. QED
      BY <2>2
  <1>6. good => \A n \in 1..upTo : n - Current(f).streamOffset + Len(Current(f).headerOffsets) <= f.rawReadable
    <2>1. Current(f).streamOffset \in Nat /\ Len(Current(f).headerOffsets) \in Nat
      BY <1>3 DEF Parts
    <2>2. QED
      BY <2>1
  <1>7. p <= p /\ Number(f) <= Number(f)
    BY <1>3
  <1>8. QED
    BY <1>1, <1>2, <1>3, <1>4, <1>5, <1>6, <1>7 DEF SnapshotWell

\* An older one is one of the files with the next one started.
LEMMA SnapshotRotates ==
    ASSUME NEW s, NEW upTo \in Nat, NEW f, FilesShape(f), NEW p \in Nat, NEW snap, NEW good, NEW better,
           SnapshotWell(s, upTo, f, p, snap, good),
           NEW g, NEW next \in Parts, next.number = Number(f) + 1, next.packetsBefore = p,
           FollowsOn(g.parts, f.parts, next), Number(g) = Number(f) + 1
    PROVE  SnapshotWell(s, upTo, g, p, snap, better)
  <1>1. snap.packets \in Nat /\ snap.packets <= p /\ (snap.packets > 0 => snap.parts # <<>>)
    BY DEF SnapshotWell
  <1>2. CASE snap.parts = <<>>
    BY <1>1, <1>2 DEF SnapshotWell
  <1>3. CASE snap.parts # <<>>
    <2>1. /\ snap.parts \in Seq(Parts)
          /\ \A i, j \in DOMAIN snap.parts : snap.parts[j].number = snap.parts[i].number + (j - i)
          /\ \A i \in DOMAIN snap.parts : StartsWell(s, upTo, snap.parts[i])
          /\ Last(snap.parts).number <= Number(f)
          /\ \A i \in DOMAIN snap.parts, j \in DOMAIN f.parts :
                  snap.parts[i].number = f.parts[j].number => snap.parts[i] = f.parts[j]
          /\ \A j \in DOMAIN f.parts : f.parts[j].number > Last(snap.parts).number =>
                  snap.packets <= f.parts[j].packetsBefore
      BY <1>3 DEF SnapshotWell
    <2>2. Number(f) \in Nat
      BY CurrentPart
    <2>3. Last(snap.parts).number \in Nat
          /\ \A i \in DOMAIN snap.parts : snap.parts[i].number \in Nat /\ snap.parts[i].number <= Last(snap.parts).number
      <3>1. Len(snap.parts) \in Nat /\ DOMAIN snap.parts = 1..Len(snap.parts) /\ Len(snap.parts) # 0
            /\ \A i \in DOMAIN snap.parts : snap.parts[i] \in Parts
        BY <1>3, <2>1
      <3>2. Last(snap.parts) = snap.parts[Len(snap.parts)] /\ Len(snap.parts) \in DOMAIN snap.parts
        BY <3>1 DEF Last
      <3>3. ASSUME NEW i \in DOMAIN snap.parts
            PROVE  snap.parts[i].number \in Nat /\ snap.parts[i].number <= Last(snap.parts).number
        <4>1. snap.parts[Len(snap.parts)].number = snap.parts[i].number + (Len(snap.parts) - i)
          BY <2>1, <3>2
        <4>2. snap.parts[i].number \in Nat /\ i \in Nat /\ i <= Len(snap.parts)
          BY <3>1 DEF Parts
        <4>3. QED
          BY <3>1, <3>2, <4>1, <4>2
      <3>4. QED
        BY <3>2, <3>3
    <2>4. \A j \in DOMAIN g.parts : g.parts[j] = next \/ \E i \in DOMAIN f.parts : g.parts[j] = f.parts[i]
      <3>1. PICK d \in {0, 1} :
              /\ g.parts \in Seq(Parts) /\ Len(g.parts) = Len(f.parts) + 1 - d /\ g.parts # <<>>
              /\ \A i \in 1..Len(g.parts) :
                   g.parts[i] = IF i + d = Len(f.parts) + 1 THEN next ELSE f.parts[i + d]
        BY DEF FollowsOn
      <3>2. DOMAIN f.parts = 1..Len(f.parts) /\ Len(f.parts) \in Nat /\ DOMAIN g.parts = 1..Len(g.parts)
        BY <3>1 DEF FilesShape
      <3>3. ASSUME NEW j \in DOMAIN g.parts, j + d # Len(f.parts) + 1 PROVE j + d \in DOMAIN f.parts
        BY <3>1, <3>2, <3>3
      <3>4. QED
        BY <3>1, <3>2, <3>3
    <2>5. Last(snap.parts).number < Number(g) /\ Last(snap.parts).number < next.number
      BY <2>1, <2>2, <2>3
    <2>6. \A i \in DOMAIN snap.parts, j \in DOMAIN g.parts :
                  snap.parts[i].number = g.parts[j].number => snap.parts[i] = g.parts[j]
      <3>1. SUFFICES ASSUME NEW i \in DOMAIN snap.parts, NEW j \in DOMAIN g.parts,
                            snap.parts[i].number = g.parts[j].number
                     PROVE  snap.parts[i] = g.parts[j]
        OBVIOUS
      <3>2. g.parts[j] # next
        <4>1. snap.parts[i].number <= Last(snap.parts).number /\ snap.parts[i].number \in Nat
          BY <2>3
        <4>2. QED
          BY <2>2, <2>3, <2>5, <3>1, <4>1
      <3>3. QED
        BY <2>1, <2>4, <3>1, <3>2
    <2>7. \A j \in DOMAIN g.parts : g.parts[j].number > Last(snap.parts).number =>
                  snap.packets <= g.parts[j].packetsBefore
      BY <1>1, <2>1, <2>4
    <2>8. Last(snap.parts).number <= Number(g) /\ Last(snap.parts).number # Number(g)
      BY <2>2, <2>3, <2>5
    <2>9. QED
      BY <1>1, <1>3, <2>1, <2>6, <2>7, <2>8 DEF SnapshotWell
  <1>4. QED
    BY <1>2, <1>3

\* The files kept, by their place, and their numbers.
LEMMA NumbersAre ==
    ASSUME NEW f, FilesShape(f)
    PROVE  /\ Len(f.parts) \in Nat \ {0} /\ DOMAIN f.parts = 1..Len(f.parts)
           /\ Current(f) = f.parts[Len(f.parts)] /\ Number(f) = f.parts[Len(f.parts)].number
           /\ Number(f) \in Nat \ {0}
           /\ \A i \in 1..Len(f.parts) :
                /\ f.parts[i] \in Parts /\ f.parts[i].number \in 1..Number(f)
                /\ f.parts[i].number = Number(f) <=> i = Len(f.parts)
           /\ \A i, j \in 1..Len(f.parts) :
                /\ f.parts[i].number = f.parts[j].number => i = j
                /\ f.parts[i].number < f.parts[j].number <=> i < j
  <1> DEFINE m == Len(f.parts)
             num(i) == f.parts[i].number
  <1>1. /\ m \in Nat \ {0} /\ DOMAIN f.parts = 1..m /\ Current(f) = f.parts[m] /\ Number(f) = num(m)
        /\ Number(f) \in Nat \ {0} /\ \A i \in 1..m : f.parts[i] \in Parts
    <2>1. f.parts \in Seq(Parts)
      BY DEF FilesShape
    <2>2. m \in Nat \ {0} /\ DOMAIN f.parts = 1..m
      BY <2>1, CurrentPart
    <2>3. QED
      BY <2>2, CurrentPart DEF Number
  <1>2. \A i, j \in 1..m : num(j) = num(i) + (j - i)
    BY <1>1 DEF FilesShape
  <1>3. \A i \in 1..m : num(i) \in Nat \ {0}
    BY <1>1 DEF Parts
  <1> HIDE DEF m, num
  <1>4. \A i \in 1..m : num(i) \in 1..Number(f) /\ (num(i) = Number(f) <=> i = m)
    <2>1. SUFFICES ASSUME NEW i \in 1..m PROVE num(i) \in 1..Number(f) /\ (num(i) = Number(f) <=> i = m)
      OBVIOUS
    <2>2. m \in 1..m
      BY <1>1
    <2>3. num(m) = num(i) + (m - i) /\ num(i) \in Nat \ {0}
      BY <1>2, <1>3, <2>2
    <2>4. QED
      BY <1>1, <2>3
  <1>5. \A i, j \in 1..m : (num(i) = num(j) => i = j) /\ (num(i) < num(j) <=> i < j)
    <2>1. SUFFICES ASSUME NEW i \in 1..m, NEW j \in 1..m
                   PROVE  (num(i) = num(j) => i = j) /\ (num(i) < num(j) <=> i < j)
      OBVIOUS
    <2>2. num(j) = num(i) + (j - i) /\ num(i) \in Nat
      BY <1>2, <1>3
    <2>3. QED
      BY <1>1, <2>2
  <1>6. QED
    BY <1>1, <1>4, <1>5 DEF m, num

\* Starting the next file keeps the parts good.
LEMMA PartsRotate ==
    ASSUME NEW s, NEW upTo \in Nat, NEW f, FilesShape(f), PartsWell(s, upTo, f),
           NEW g, FilesShape(g), NEW next \in Parts, FollowsOn(g.parts, f.parts, next), StartsWell(s, upTo, next),
           Current(f).streamOffset < next.streamOffset,
           NEW n \in 1..upTo, s[n].kind = "packet", next.streamOffset < n
    PROVE  PartsWell(s, upTo, g)
  <1> DEFINE m == Len(f.parts)
  <1>1. PICK d \in {0, 1} :
            /\ g.parts \in Seq(Parts) /\ Len(g.parts) = m + 1 - d /\ g.parts # <<>>
            /\ \A i \in 1..Len(g.parts) : g.parts[i] = IF i + d = m + 1 THEN next ELSE f.parts[i + d]
    BY DEF FollowsOn
  <1>2. m \in Nat \ {0} /\ DOMAIN f.parts = 1..m /\ Current(f) = f.parts[m]
    <2>1. f.parts \in Seq(Parts)
      BY DEF FilesShape
    <2>2. QED
      BY <2>1, CurrentPart
  <1>3. Len(g.parts) \in Nat \ {0} /\ DOMAIN g.parts = 1..Len(g.parts) /\ Current(g) = g.parts[Len(g.parts)]
    BY <1>1, CurrentPart
  <1> DEFINE L == Len(g.parts)
  <1>4. L = m + 1 - d /\ L \in Nat \ {0} /\ d \in {0, 1} /\ \A i \in 1..L : g.parts[i] = IF i + d = m + 1 THEN next ELSE f.parts[i + d]
    BY <1>1, <1>3
  <1>5. \A i \in 1..m : StartsWell(s, upTo, f.parts[i])
    BY <1>2 DEF PartsWell
  <1>6. \A i \in 1..m : i # m => f.parts[i].streamOffset < f.parts[i + 1].streamOffset
    BY <1>2 DEF PartsWell
  <1> HIDE DEF m, L
  <1>7. \A i \in 1..L : i + d \in 1..m \/ i + d = m + 1
    BY <1>2, <1>4
  <1>8. \A i \in 1..L : StartsWell(s, upTo, g.parts[i])
    BY <1>4, <1>5, <1>7
  <1>9. ASSUME NEW i \in 1..L, i # L PROVE g.parts[i].streamOffset < g.parts[i + 1].streamOffset
    <2>1. i + 1 \in 1..L /\ i + d \in 1..m /\ i + d # m + 1 /\ (i + 1) + d = (i + d) + 1
      BY <1>2, <1>4, <1>9
    <2>2. g.parts[i] = f.parts[i + d]
      BY <1>4, <2>1
    <2>3. CASE i + d = m
      <3>1. (i + 1) + d = m + 1
        BY <2>1, <2>3
      <3>2. g.parts[i + 1] = next
        BY <1>4, <2>1, <3>1
      <3>3. QED
        BY <1>2, <2>2, <2>3, <3>2
    <2>4. CASE i + d # m
      <3>1. (i + 1) + d # m + 1
        BY <1>2, <1>4, <2>1, <2>4
      <3>2. g.parts[i + 1] = f.parts[(i + d) + 1]
        BY <1>4, <2>1, <3>1
      <3>3. QED
        BY <1>6, <2>1, <2>2, <2>4, <3>2
    <2>5. QED
      BY <2>3, <2>4
  <1>10. Current(g) = next
    <2>1. L \in 1..L /\ L + d = m + 1
      BY <1>2, <1>4
    <2>2. g.parts[L] = next
      BY <1>4, <2>1
    <2>3. QED
      BY <1>3, <2>2 DEF L
  <1>11. QED
    BY <1>3, <1>8, <1>9, <1>10 DEF PartsWell, L

\* The lines up to the next packet's are those before with its line behind them.
LEMMA LinesMore ==
    ASSUME NEW from \in Nat, NEW to \in Nat, from <= to
    PROVE  Append(Lines(from, to), to + 1) = Lines(from, to + 1)
  <1>a. <<>> \in Seq(Nat)
    OBVIOUS
  <1>0. PICK none \in Seq(Nat) : none = <<>>
    BY <1>a
  <1>1. Append(Laid(none, from, to), to + 1) = Laid(none, from, to + 1)
    BY LaidMore
  <1>2. ASSUME NEW hi \in Nat PROVE Laid(none, from, hi) = Lines(from, hi)
    <2>1. Len(none) = 0
      BY <1>0
    <2>2. Laid(none, from, hi) = [k \in 1..(0 + (hi - from)) |-> IF k <= 0 THEN none[k] ELSE from + (k - 0)]
      BY <2>1 DEF Laid
    <2>3. 0 + (hi - from) = hi - from /\ \A k \in 1..(hi - from) : ~(k <= 0) /\ from + (k - 0) = from + k
      OBVIOUS
    <2>4. QED
      BY <2>2, <2>3 DEF Lines
  <1>3. QED
    BY <1>1, <1>2

\* No line is between a number and itself.
LEMMA LinesNone == ASSUME NEW from \in Nat PROVE Lines(from, from) = <<>>
  BY DEF Lines

\* A line written to the text keeps the texts good.
LEMMA TextsMore ==
    ASSUME NEW f, FilesShape(f), NEW p \in Nat, TextsWell(f, p)
    PROVE  TextsWell(writeLine(f, p + 1), p + 1)
  <1> DEFINE g == writeLine(f, p + 1)
             m == Len(f.parts)
  <1>1. g.parts = f.parts /\ g.text = [f.text EXCEPT ![Number(f)] = Append(@, p + 1)]
    BY WriteLineShape
  <1>2. /\ m \in Nat \ {0} /\ DOMAIN f.parts = 1..m /\ Number(f) = f.parts[m].number
        /\ Number(f) \in Nat \ {0} /\ \A i \in 1..m : f.parts[i] \in Parts
        /\ \A i \in 1..m : f.parts[i].number \in 1..Number(f) /\ (f.parts[i].number = Number(f) <=> i = m)
    BY NumbersAre
  <1>3. f.text \in [1..Number(f) -> Seq(Nat)]
    BY DEF FilesShape
  <1>4. \A i \in 1..m : /\ f.parts[i].packetsBefore <= PacketsAtEnd(f, i, p)
                        /\ f.text[f.parts[i].number] = Lines(f.parts[i].packetsBefore, PacketsAtEnd(f, i, p))
    BY <1>2 DEF TextsWell
  <1>5. PacketsAtEnd(f, m, p) = p /\ PacketsAtEnd(g, m, p + 1) = p + 1
        /\ \A i \in 1..m : i # m => PacketsAtEnd(g, i, p + 1) = PacketsAtEnd(f, i, p)
    BY <1>1 DEF PacketsAtEnd
  <1> HIDE DEF m, g
  <1>6. ASSUME NEW i \in 1..m
        PROVE  /\ g.parts[i].packetsBefore <= PacketsAtEnd(g, i, p + 1)
               /\ g.text[g.parts[i].number] = Lines(g.parts[i].packetsBefore, PacketsAtEnd(g, i, p + 1))
    <2>0. f.parts[i] \in Parts
      BY <1>2
    <2>1. g.parts[i] = f.parts[i] /\ f.parts[i].packetsBefore \in Nat
      BY <1>1, <2>0 DEF Parts
    <2>2. f.parts[i].number \in 1..Number(f) /\ (f.parts[i].number = Number(f) <=> i = m)
      BY <1>2
    <2>3. CASE i = m
      <3>1. f.parts[m].packetsBefore <= p /\ f.text[Number(f)] = Lines(f.parts[m].packetsBefore, p)
        BY <1>2, <1>4, <1>5
      <3>2. Append(Lines(f.parts[m].packetsBefore, p), p + 1) = Lines(f.parts[m].packetsBefore, p + 1)
        BY <2>1, <2>3, <3>1, LinesMore
      <3>3. g.text[Number(f)] = Append(f.text[Number(f)], p + 1)
        <4>1. Number(f) \in DOMAIN f.text
          BY <1>3, <1>2
        <4>2. QED
          BY <1>1, <4>1
      <3>4. f.parts[m].packetsBefore <= p + 1
        BY <2>1, <2>3, <3>1
      <3>5. QED
        BY <1>2, <1>5, <2>1, <2>3, <3>1, <3>2, <3>3, <3>4
    <2>4. CASE i # m
      <3>1. g.text[f.parts[i].number] = f.text[f.parts[i].number]
        BY <1>1, <1>3, <2>2, <2>4
      <3>2. QED
        BY <1>4, <1>5, <2>1, <2>4, <3>1
    <2>5. QED
      BY <2>3, <2>4
  <1>7. DOMAIN g.parts = 1..m
    BY <1>1, <1>2
  <1>8. QED
    BY <1>6, <1>7 DEF TextsWell, g

\* The next file's text has no line yet, and the others stay as they are.
LEMMA TextsRotate ==
    ASSUME NEW f, FilesShape(f), NEW p \in Nat, TextsWell(f, p), NEW cut \in Nat, NEW headers \in Seq(Nat)
    PROVE  TextsWell(startNext(f, cut, p, headers), p)
  <1> DEFINE g == startNext(f, cut, p, headers)
             m == Len(f.parts)
             next == NextPart(f, cut, p, headers)
             N == Number(f) + 1
             L == Len(g.parts)
  <1>1. next \in Parts /\ next.number = N /\ next.packetsBefore = p /\ FollowsOn(g.parts, f.parts, next)
    BY StartNextParts DEF NextPart
  <1>2. g.text = [k \in DOMAIN f.text \cup {N} |-> IF k = N THEN <<>> ELSE f.text[k]]
    BY DEF startNext, Number
  <1> HIDE DEF g, next
  <1>3. PICK d \in {0, 1} :
            /\ g.parts \in Seq(Parts) /\ Len(g.parts) = m + 1 - d /\ g.parts # <<>>
            /\ \A i \in 1..Len(g.parts) : g.parts[i] = IF i + d = m + 1 THEN next ELSE f.parts[i + d]
    BY <1>1 DEF FollowsOn
  <1>4. /\ m \in Nat \ {0} /\ DOMAIN f.parts = 1..m /\ Number(f) = f.parts[m].number
        /\ Number(f) \in Nat \ {0} /\ \A i \in 1..m : f.parts[i] \in Parts
        /\ \A i \in 1..m : f.parts[i].number \in 1..Number(f) /\ (f.parts[i].number = Number(f) <=> i = m)
    BY NumbersAre
  <1>5. DOMAIN f.text = 1..Number(f)
    BY DEF FilesShape
  <1>6. \A i \in 1..m : /\ f.parts[i].packetsBefore <= PacketsAtEnd(f, i, p)
                        /\ f.text[f.parts[i].number] = Lines(f.parts[i].packetsBefore, PacketsAtEnd(f, i, p))
    BY <1>4 DEF TextsWell
  <1>7. L = m + 1 - d /\ L \in Nat \ {0} /\ DOMAIN g.parts = 1..L
        /\ \A i \in 1..L : g.parts[i] = IF i + d = m + 1 THEN next ELSE f.parts[i + d]
    <2>1. L \in Nat /\ L # 0
      BY <1>3
    <2>2. QED
      BY <1>3, <2>1
  <1>8. /\ \A i \in 1..m : PacketsAtEnd(f, i, p) = IF i = m THEN p ELSE f.parts[i + 1].packetsBefore
        /\ \A i \in 1..L : PacketsAtEnd(g, i, p) = IF i = L THEN p ELSE g.parts[i + 1].packetsBefore
    BY DEF PacketsAtEnd
  <1> HIDE DEF m, L
  <1>9. ASSUME NEW i \in 1..L
        PROVE  /\ g.parts[i].packetsBefore <= PacketsAtEnd(g, i, p)
               /\ g.text[g.parts[i].number] = Lines(g.parts[i].packetsBefore, PacketsAtEnd(g, i, p))
    <2>1. CASE i + d = m + 1
      <3>1. i = L
        BY <1>4, <1>7, <2>1
      <3>2. g.parts[i] = next /\ PacketsAtEnd(g, i, p) = p
        BY <1>7, <1>8, <2>1, <3>1
      <3>3. g.text[N] = <<>>
        BY <1>2
      <3>4. Lines(p, p) = <<>> /\ p <= p
        BY LinesNone
      <3>5. QED
        BY <1>1, <3>2, <3>3, <3>4
    <2>2. CASE i + d # m + 1
      <3>1. i + d \in 1..m /\ i # L /\ i + 1 \in 1..L /\ (i + 1) + d = (i + d) + 1
        BY <1>4, <1>7, <2>2
      <3> DEFINE k == i + d
      <3>2. g.parts[i] = f.parts[k] /\ k \in 1..m
        BY <1>7, <2>2, <3>1
      <3>3. PacketsAtEnd(g, i, p) = PacketsAtEnd(f, k, p)
        <4>1. PacketsAtEnd(g, i, p) = g.parts[i + 1].packetsBefore
          BY <1>8, <3>1
        <4>2. CASE k = m
          <5>1. g.parts[i + 1] = next
            BY <1>7, <3>1, <4>2
          <5>2. QED
            BY <1>1, <1>8, <3>2, <4>1, <4>2, <5>1
        <4>3. CASE k # m
          <5>1. (i + 1) + d # m + 1 /\ k # m
            BY <1>4, <1>7, <3>1, <4>3
          <5>2. g.parts[i + 1] = f.parts[k + 1]
            BY <1>7, <3>1, <5>1
          <5>3. QED
            BY <1>8, <3>2, <4>1, <5>1, <5>2
        <4>4. QED
          BY <4>2, <4>3
      <3>4. f.parts[k].number \in 1..Number(f)
        BY <1>4, <3>2
      <3>5. g.text[f.parts[k].number] = f.text[f.parts[k].number]
        <4>1. f.parts[k].number \in DOMAIN f.text /\ ~(f.parts[k].number = Number(f) + 1)
          <5> DEFINE x == f.parts[k].number
          <5>1. x \in 1..Number(f) /\ Number(f) \in Nat
            BY <1>4, <3>4
          <5> HIDE DEF x
          <5>2. x \in 1..Number(f) /\ ~(x = Number(f) + 1)
            BY <5>1
          <5>3. QED
            BY <1>5, <5>2 DEF x
        <4>2. QED
          BY <1>2, <4>1
      <3>6. QED
        BY <1>6, <3>2, <3>3, <3>5
    <2>3. QED
      BY <2>1, <2>2
  <1>10. QED
    BY <1>7, <1>9 DEF TextsWell, g

\* k and l know the same of the file written.
SameFile(k, l) ==
    /\ k.fileHasPacket = l.fileHasPacket /\ k.fileEnd = l.fileEnd
    /\ k.packetsInFiles = l.packetsInFiles /\ k.fileHeaders = l.fileHeaders

\* Handing out a step, and what packet() sets itself, leave that alone.
LEMMA SameFiles ==
    ASSUME NEW l \in LiveOutputs
    PROVE  /\ \A step : SameFile(After(l, step), l)
           /\ SameFile([l EXCEPT !.snapshotPending = TRUE], l)
           /\ SameFile([l EXCEPT !.firstOfText = FALSE], l)
  BY DEF SameFile, After, LiveOutputs

\* How much of the raw file written there is, if it holds what was read.
LEMMA WrittenSize ==
    ASSUME NEW f, FilesShape(f), NEW n \in Nat, FilesHold(f, n)
    PROVE  Len(f.raw[Number(f)]) = n - Current(f).streamOffset + Len(Current(f).headerOffsets)
  <1> DEFINE m == Len(f.parts)
             ho == Current(f).headerOffsets
             so == Current(f).streamOffset
  <1>1. m \in DOMAIN f.parts /\ Current(f) = f.parts[m] /\ Number(f) = f.parts[m].number /\ Current(f) \in Parts
    BY CurrentPart DEF Number
  <1>2. EndOfPart(f, m, n) = n
    BY DEF EndOfPart
  <1>3. so <= n /\ f.raw[Number(f)] = Laid(ho, so, n)
    BY <1>1, <1>2 DEF FilesHold
  <1>4. ho \in Seq(Nat) /\ so \in Nat /\ Len(ho) \in Nat
    BY <1>1 DEF Parts
  <1> HIDE DEF ho, so
  <1>5. Len(Laid(ho, so, n)) = Len(ho) + (n - so)
    BY <1>3, <1>4, LaidIsSeq
  <1>6. Len(f.raw[Number(f)]) = n - so + Len(ho)
    BY <1>3, <1>4, <1>5
  <1>7. QED
    BY <1>6 DEF ho, so

\* What act() does with good files f keeps them good, and a snapshot it sends is one of them.
LEMMA RingActs ==
    ASSUME BaseInv, NEW f, FilesShape(f), NEW step, NEW p \in Nat, act(step, f, p),
           step.snapshot => step.flush, NEW l, NEW good, good = (~flushFailed /\ ~writeFailed),
           RingWell(stream, read, f, l, p, snapshot, shown, good),
           ~writeFailed => FilesHold(f, read)
    PROVE  RingWell(stream, read, files', l, p, snapshot', shown, ~flushFailed' /\ ~writeFailed)
  <1>0. Shaped(stream) /\ read \in Nat /\ read <= Len(stream) /\ flushFailed \in BOOLEAN
    BY DEF BaseInv, StreamInv, TypeInv, Shaped
  <1>1. GoesOn(stream, stream, read) /\ read <= read
    BY <1>0 DEF GoesOn
  <1>2. FilesShape(files') /\ files'.parts = f.parts /\ files'.text = f.text /\ files'.raw = f.raw
        /\ Number(files') = Number(f)
    BY <1>0, ActShape
  <1>3. Current(files') = Current(f)
    BY <1>2 DEF Current
  <1>4. flushFailed => flushFailed'
    BY <1>0, ActShape
  <1>5. /\ step.flush /\ ~flushFailed' => files'.rawReadable = Len(f.raw[Number(f)])
        /\ ~step.flush => files'.rawReadable = f.rawReadable
    BY <1>0, <1>2, ActShape
  <1> DEFINE better == ~flushFailed' /\ ~writeFailed
             size == read - Current(f).streamOffset + Len(Current(f).headerOffsets)
             g == files'
             snap == snapshot'
  <1>6. better /\ step.flush => g.rawReadable = size
    BY <1>0, <1>5, WrittenSize
  <1>7. better => good
    BY <1>4
  <1>8. /\ PartsWell(stream, read, f) /\ FileEndWell(stream, read, f, l, p) /\ TextsWell(f, p)
        /\ p <= CountOf(stream, read)
        /\ SnapshotWell(stream, read, f, p, snapshot, good) /\ SnapshotWell(stream, read, f, p, shown, good)
    BY DEF RingWell
  <1>9. IF step.snapshot THEN snap.packets = p /\ snap.parts = f.parts ELSE snap = snapshot
    BY <1>0, ActShape
  <1>10. \/ better => g.rawReadable = f.rawReadable
         \/ better => g.rawReadable = size
    BY <1>5, <1>6
  <1> HIDE DEF better, g, snap
  <1>11. PartsWell(stream, read, g)
    BY <1>0, <1>1, <1>2, <1>8, PartsStay DEF g
  <1>12. FileEndWell(stream, read, g, l, p)
    BY <1>3, <1>8 DEF FileEndWell, g
  <1>13. TextsWell(g, p)
    BY <1>2, <1>8 DEF TextsWell, PacketsAtEnd, g
  <1>14. ASSUME NEW old, SnapshotWell(stream, read, f, p, old, good)
         PROVE  SnapshotWell(stream, read, g, p, old, better)
    <2>1. g.parts = f.parts /\ Number(g) = Number(f) /\ Current(g) = Current(f) /\ p <= p
      BY <1>2, <1>3 DEF g
    <2>2. QED
      BY <1>0, <1>1, <1>7, <1>8, <1>10, <1>14, <2>1, SnapshotStays
  <1>15. SnapshotWell(stream, read, g, p, snap, better)
    <2>1. CASE ~step.snapshot
      BY <1>8, <1>9, <1>14, <2>1
    <2>2. CASE step.snapshot
      <3>1. snap.packets = p /\ snap.parts = g.parts /\ FilesShape(g)
        BY <1>2, <1>9, <2>2 DEF g
      <3>2. better => g.rawReadable = read - Current(g).streamOffset + Len(Current(g).headerOffsets)
        BY <1>3, <1>6, <2>2 DEF g
      <3>3. QED
        BY <1>0, <1>11, <3>1, <3>2, SnapshotFresh
    <2>3. QED
      BY <2>1, <2>2
  <1>16. QED
    BY <1>8, <1>11, <1>12, <1>13, <1>14, <1>15 DEF RingWell, better, g, snap

\* While more of the stream comes or is read, and something may not be written, it stays so.
LEMMA RingStays ==
    ASSUME NEW s, NEW t, NEW upTo, GoesOn(s, t, upTo), NEW more \in Nat, upTo <= more, more <= Len(t),
           NEW f, FilesShape(f), NEW g, g.parts = f.parts, g.text = f.text, g.rawReadable = f.rawReadable,
           NEW l, NEW p \in Nat, NEW newest, NEW last, NEW good, NEW better, better => good,
           RingWell(s, upTo, f, l, p, newest, last, good), NEW now \in {newest, last}
    PROVE  RingWell(t, more, g, l, p, newest, now, better)
  <1>1. /\ PartsWell(s, upTo, f) /\ FileEndWell(s, upTo, f, l, p) /\ TextsWell(f, p)
        /\ p <= CountOf(s, upTo)
        /\ SnapshotWell(s, upTo, f, p, newest, good) /\ SnapshotWell(s, upTo, f, p, last, good)
    BY DEF RingWell
  <1>2. PartsWell(t, more, g)
    BY <1>1, PartsStay
  <1>3. FileEndWell(t, more, g, l, p)
    BY <1>1, FileEndStays
  <1>4. TextsWell(g, p)
    BY <1>1 DEF TextsWell, PacketsAtEnd
  <1>5. p <= CountOf(t, more)
    <2>1. CountOf(s, upTo) \in Nat /\ CountOf(t, more) \in Nat /\ CountOf(s, upTo) <= CountOf(t, more)
      BY CountStays
    <2>2. QED
      BY <1>1, <2>1
  <1>6. \A snap : SnapshotWell(s, upTo, f, p, snap, good) => SnapshotWell(t, more, g, p, snap, better)
    <2>1. SUFFICES ASSUME NEW snap, SnapshotWell(s, upTo, f, p, snap, good)
                   PROVE  SnapshotWell(t, more, g, p, snap, better)
      OBVIOUS
    <2>2. Number(g) = Number(f) /\ Current(g) = Current(f) /\ p <= p
      BY DEF Number, Current
    <2>3. better => g.rawReadable = f.rawReadable
      OBVIOUS
    <2>4. QED
      BY <1>1, <2>1, <2>2, <2>3, SnapshotStays
  <1>7. QED
    BY <1>1, <1>2, <1>3, <1>4, <1>5, <1>6 DEF RingWell

-----------------------------------------------------------------------------
(* A ring buffer through the steps of the worker.                          *)

\* A record that arrives, or none: the stream goes on.
LEMMA StreamGoesOn ==
    ASSUME BaseInv, BaseInv', stream' = stream \/ \E record \in NextRecords : Arrive(record)
    PROVE  GoesOn(stream, stream', read) /\ read \in Nat /\ read <= Len(stream')
  <1>1. /\ Shaped(stream) /\ stream \in Seq(Records) /\ read \in Nat /\ read <= Len(stream) /\ Shaped(stream')
        /\ stream' \in Seq(Records)
    BY DEF BaseInv, StreamInv, Shaped
  <1>2. CASE stream' = stream
    BY <1>1, <1>2 DEF GoesOn
  <1>3. CASE \E record \in NextRecords : Arrive(record)
    <2>1. PICK record \in NextRecords : stream' = Append(stream, record)
      BY <1>3 DEF Arrive
    <2>2. record \in Records
      BY NextRecordIsRecord DEF StreamShape, BaseInv, StreamInv
    <2>3. Len(stream') = Len(stream) + 1 /\ \A i \in 1..Len(stream) : stream'[i] = stream[i]
      BY <1>1, <2>1, <2>2
    <2>4. read <= Len(stream') /\ \A i \in 1..read : i \in 1..Len(stream)
      BY <1>1, <2>3
    <2>5. QED
      BY <1>1, <2>3, <2>4 DEF GoesOn
  <1>4. QED
    BY <1>2, <1>3

\* The steps that only bring more of the stream, or show a snapshot.
LEMMA RingQuiet ==
    ASSUME BaseInv, BaseInv', RingInv, stream' = stream \/ \E record \in NextRecords : Arrive(record),
           UNCHANGED <<read, packets, live, files, snapshot, flushFailed, writeFailed>>,
           shown' \in {snapshot, shown},
           \/ pc' = pc \/ (pc = "before" /\ pc' = "packet")
           \/ Converting /\ pc' \in AtRest \cup {"failed"}
    PROVE  RingInv'
  <1>1. GoesOn(stream, stream', read) /\ read \in Nat /\ read <= Len(stream')
    BY StreamGoesOn
  <1>2. pc' = "open" => snapshot' = NoSnapshot /\ shown' = NoSnapshot
    BY DEF RingInv, AtRest
  <1>3. pc' \in {"before", "packet"} => stream'[read'].kind = "packet"
    <2>1. SUFFICES ASSUME pc' \in {"before", "packet"} PROVE stream'[read].kind = "packet"
      OBVIOUS
    <2>2. pc \in {"before", "packet"}
      BY <2>1 DEF AtRest
    <2>3. stream[read].kind = "packet" /\ read > 0
      BY <2>2 DEF RingInv, BaseInv, StreamInv, Converting
    <2>4. stream'[read] = stream[read]
      BY <1>1, <2>3 DEF GoesOn
    <2>5. QED
      BY <2>3, <2>4
  <1>4. Converting' => RingWell(stream', read', files', live', packets', snapshot', shown', ~flushFailed' /\ ~writeFailed')
    <2>1. SUFFICES ASSUME Converting' 
                   PROVE  RingWell(stream', read, files, live, packets, snapshot, shown', ~flushFailed /\ ~writeFailed)
      OBVIOUS
    <2>2. Converting
      BY <2>1 DEF Converting
    <2>3. FilesShape(files) /\ packets \in Nat
      BY <2>2 DEF BaseInv, FilesInv, TypeInv
    <2>4. RingWell(stream, read, files, live, packets, snapshot, shown, ~flushFailed /\ ~writeFailed)
      BY <2>2 DEF RingInv
    <2> DEFINE good == ~flushFailed /\ ~writeFailed
    <2>5. RingWell(stream, read, files, live, packets, snapshot, shown, good)
      BY <2>4
    <2>6. good => good
      OBVIOUS
    <2> HIDE DEF good
    <2>7. PICK now \in {snapshot, shown} : now = shown'
      OBVIOUS
    <2>8. read <= read
      BY <1>1
    <2>9. RingWell(stream', read, files, live, packets, snapshot, now, good)
      BY <1>1, <2>3, <2>5, <2>6, <2>8, RingStays
    <2>10. QED
      BY <2>7, <2>9 DEF good
  <1>5. QED
    BY <1>2, <1>3, <1>4 DEF RingInv

\* Reading a record.
LEMMA RingRead ==
    ASSUME BaseInv, BaseInv', RingInv, ReadRecord
    PROVE  RingInv'
  <1>1. /\ pc = "next" /\ read' = read + 1 /\ stream' = stream
        /\ pc' = IF stream[read + 1].kind = "packet" THEN "before" ELSE "next"
        /\ UNCHANGED <<packets, flushFailed, live, snapshot, shown>>
        /\ files' = files \/ files' = writeRaw(files, read + 1)
        /\ writeFailed => writeFailed'
    BY DEF ReadRecord, streamVars
  <1>2. GoesOn(stream, stream', read) /\ read \in Nat
    BY <1>1, StreamGoesOn
  <1>3. read' \in Nat /\ read <= read' /\ read' <= Len(stream')
    BY <1>1, <1>2 DEF BaseInv, StreamInv
  <1>4. Converting /\ FilesShape(files) /\ packets \in Nat
    BY <1>1 DEF BaseInv, FilesInv, TypeInv, Converting
  <1>5. files'.parts = files.parts /\ files'.text = files.text /\ files'.rawReadable = files.rawReadable
    <2>1. CASE files' = files
      BY <2>1
    <2>2. CASE files' = writeRaw(files, read + 1)
      <3>1. LET g == writeRaw(files, read + 1)
            IN  g.parts = files.parts /\ g.text = files.text /\ g.rawReadable = files.rawReadable
        BY <1>4, WriteRawShape
      <3>2. QED
        BY <2>2, <3>1
    <2>3. QED
      BY <1>1, <2>1, <2>2
  <1> DEFINE good == ~flushFailed /\ ~writeFailed
             better == ~flushFailed' /\ ~writeFailed'
  <1>6. RingWell(stream, read, files, live, packets, snapshot, shown, good)
    BY <1>4 DEF RingInv
  <1>7. better => good
    BY <1>1
  <1> HIDE DEF good, better
  <1>8. RingWell(stream', read', files', live, packets, snapshot, shown, better)
    BY <1>2, <1>3, <1>4, <1>5, <1>6, <1>7, RingStays
  <1>9. QED
    BY <1>1, <1>8 DEF RingInv, better

\* A flush before a wait, with a snapshot or not.
LEMMA RingWaits ==
    ASSUME BaseInv, BaseInv', ContentInv, RingInv, BeforeWait \/ AwaitSnapshot
    PROVE  RingInv'
  <1>1. /\ pc \in {"next", "awaiting"} /\ pc' \in {"waits", "blocked"}
        /\ act(waitStep(live), files, packets) /\ live' = After(live, waitStep(live))
        /\ UNCHANGED <<stream, read, packets, writeFailed, shown>>
    BY DEF BeforeWait, AwaitSnapshot, streamVars
  <1>2. Converting /\ FilesShape(files) /\ packets \in Nat /\ live \in LiveOutputs
    BY <1>1 DEF BaseInv, FilesInv, TypeInv, Converting
  <1> DEFINE step == waitStep(live)
             good == ~flushFailed /\ ~writeFailed
  <1>3. step.flush
    BY StepFields
  <1>4. ~writeFailed => FilesHold(files, read)
    BY <1>2 DEF ContentInv
  <1>5. RingWell(stream, read, files, live, packets, snapshot, shown, good)
    BY <1>2 DEF RingInv
  <1>6. RingWell(stream, read, files, live', packets, snapshot, shown, good)
    <2>1. SameFile(live', live)
      BY <1>1, <1>2, SameFiles
    <2>2. QED
      BY <1>5, <2>1 DEF RingWell, FileEndWell, SameFile
  <1>7. act(step, files, packets) /\ step.snapshot => step.flush
    BY <1>1, <1>3
  <1>8. good = (~flushFailed /\ ~writeFailed)
    OBVIOUS
  <1> HIDE DEF step, good
  <1>9. RingWell(stream, read, files', live', packets, snapshot', shown, ~flushFailed' /\ ~writeFailed)
    BY <1>1, <1>2, <1>3, <1>4, <1>6, <1>8, RingActs DEF step
  <1>10. QED
    BY <1>1, <1>9 DEF RingInv, AtRest

\* The files that are opened are the capture's first.
LEMMA RingOpen ==
    ASSUME BaseInv, BaseInv', RingInv, Open
    PROVE  RingInv'
  <1>1. /\ read' = 1 /\ stream' = stream /\ UNCHANGED <<packets, live, snapshot, shown>> /\ pc = "open"
        /\ pc' = "over" \/ (pc' = "next" /\ files' = OpenFiles(1))
    BY DEF Open, Finish, streamVars
  <1>2. packets = 0 /\ live = NewLiveOutput /\ snapshot = NoSnapshot /\ shown = NoSnapshot
    BY <1>1 DEF BaseInv, TypeInv, RingInv
  <1>3. CASE pc' = "over"
    BY <1>3 DEF RingInv, Converting
  <1>4. CASE pc' = "next" /\ files' = OpenFiles(1)
    <2> DEFINE f == OpenFiles(1)
               better == ~flushFailed' /\ ~writeFailed'
    <2>1. f.parts = <<FirstPart>> /\ f.text = [k \in {1} |-> <<>>]
      BY DEF OpenFiles
    <2>2. FirstPart.number = 1 /\ FirstPart.packetsBefore = 0 /\ FirstPart.streamOffset = 0
          /\ FirstPart.headerOffsets = <<>>
      BY DEF FirstPart
    <2>3. Len(f.parts) = 1 /\ DOMAIN f.parts = 1..1 /\ f.parts[1] = FirstPart /\ Number(f) = 1
      BY <2>1, OpenFilesShape
    <2>4. stream \in Seq(Records) /\ 1 <= Len(stream)
      BY <1>1 DEF BaseInv, StreamInv, Converting
    <2>5. CountOf(stream, 0) = 0 /\ CountOf(stream, 1) \in Nat
      <3>1. PacketsOf(stream, 0) = {}
        BY <2>4, PacketsUpTo
      <3>2. QED
        BY <2>4, <3>1, FS_EmptySet, PacketsUpTo DEF CountOf
    <2> HIDE DEF f, better
    <2>6. PartsWell(stream, 1, f)
      <3>1. \A i \in DOMAIN f.parts : i = 1
        BY <2>3
      <3>2. StartsWell(stream, 1, FirstPart)
        BY <2>2, <2>5 DEF StartsWell
      <3>3. QED
        BY <2>3, <3>1, <3>2 DEF PartsWell
    <2>7. FileEndWell(stream, 1, f, live, 0)
      BY <1>2 DEF FileEndWell, NewLiveOutput
    <2>8. TextsWell(f, 0)
      <3>1. \A i \in DOMAIN f.parts : i = 1
        BY <2>3
      <3>2. PacketsAtEnd(f, 1, 0) = 0
        BY <2>3 DEF PacketsAtEnd
      <3>3. f.text[1] = <<>> /\ Lines(0, 0) = <<>> /\ 0 <= 0
        BY <2>1, LinesNone
      <3>4. QED
        BY <2>2, <2>3, <3>1, <3>2, <3>3 DEF TextsWell
    <2>9. 0 <= CountOf(stream, 1)
      BY <2>5
    <2>10. SnapshotWell(stream, 1, f, 0, NoSnapshot, better)
      <3>1. NoSnapshot.packets = 0 /\ NoSnapshot.parts = <<>>
        BY DEF NoSnapshot
      <3>2. QED
        BY <3>1 DEF SnapshotWell
    <2>11. RingWell(stream, 1, f, live, 0, NoSnapshot, NoSnapshot, better)
      BY <2>6, <2>7, <2>8, <2>9, <2>10 DEF RingWell
    <2>12. QED
      BY <1>1, <1>2, <1>4, <2>11 DEF RingInv, f, better
  <1>5. QED
    BY <1>1, <1>3, <1>4

\* Starting the next file where the last packet of the one written ends.
LEMMA RingBefore ==
    ASSUME BaseInv, BaseInv', ContentInv, CountInv, RingInv, BeforePacket
    PROVE  RingInv'
  <1>0. pc = "before" /\ UNCHANGED <<stream, read, packets, writeFailed, shown>> /\ pc' \in {"failed", "packet"}
    BY DEF BeforePacket, streamVars
  <1>1. CASE UNCHANGED <<live, files, flushFailed, snapshot>>
    <2>1. \/ pc' = pc \/ (pc = "before" /\ pc' = "packet")
          \/ Converting /\ pc' \in AtRest \cup {"failed"}
      BY <1>0 DEF Converting
    <2>2. QED
      BY <1>0, <1>1, <2>1, RingQuiet
  <1> DEFINE cut == live.fileEnd
             headers == live.fileHeaders
             f == startNext(files, cut, live.packetsInFiles, headers)
             step == snapshotAt(Step)
             next == NextPart(files, cut, packets, headers)
             good == ~flushFailed /\ ~writeFailed
  <1>2. CASE /\ fileOver(live) /\ CanSplit(files, cut, headers)
             /\ act(step, f, packets) /\ live' = After(NextFile(live), step)
    <2>1. Converting /\ FilesShape(files) /\ packets \in Nat /\ live \in LiveOutputs /\ clock \in Nat
          /\ cut \in Nat /\ headers \in Seq(Nat) /\ read \in Nat /\ read <= Len(stream) /\ Shaped(stream)
          /\ stream \in Seq(Records)
      BY <1>0 DEF BaseInv, FilesInv, TypeInv, StreamInv, Converting, LiveOutputs, Shaped
    <2>2. RingWell(stream, read, files, live, packets, snapshot, shown, good)
      BY <2>1 DEF RingInv
    <2>3. /\ cut \in 1..read /\ stream[cut].kind = "packet"
          /\ Current(files).streamOffset < cut
          /\ live.packetsInFiles = packets /\ CountOf(stream, cut) = packets
          /\ headers = HeadersOf(stream, cut)
      BY <1>2, <2>2 DEF RingWell, FileEndWell, fileOver
    <2>4. f = startNext(files, cut, packets, headers)
      BY <2>3
    <2>5. packets + 1 = CountOf(stream, read)
      BY <1>0, OfStream DEF CountInv
    <2>6. /\ next \in Parts /\ FollowsOn(f.parts, files.parts, next) /\ next.number = Number(files) + 1
          /\ next.packetsBefore = packets /\ next.streamOffset = cut /\ next.headerOffsets = headers
      <3>1. next.number = Number(files) + 1 /\ next.packetsBefore = packets /\ next.streamOffset = cut
            /\ next.headerOffsets = headers
        BY DEF NextPart
      <3>2. next \in Parts /\ FollowsOn(startNext(files, cut, packets, headers).parts, files.parts, next)
        BY <2>1, StartNextParts
      <3>3. QED
        BY <2>4, <3>1, <3>2
    <2>7. FilesShape(f) /\ Number(f) = Number(files) + 1
      <3>1. LET g == startNext(files, cut, packets, headers)
            IN  FilesShape(g) /\ Number(g) = Number(files) + 1
        BY <2>1, StartNextShape
      <3>2. QED
        BY <2>4, <3>1
    <2>8. StartsWell(stream, read, next)
      BY <2>3, <2>6 DEF StartsWell
    <2>9. PICK n \in 1..read : stream[n].kind = "packet" /\ cut < n
      <3>1. packets + 1 \in 1..CountOf(stream, read)
        BY <2>1, <2>5
      <3>2. PICK i \in PacketsOf(stream, read) : CountOf(stream, i) = packets + 1
        BY <2>1, <3>1, PlaceExists
      <3>3. i \in 1..Len(stream) /\ stream[i].kind = "packet" /\ i <= read
        BY <2>1, <3>2, PacketsUpTo
      <3>4. ~(i <= cut)
        <4>1. i <= cut => CountOf(stream, i) <= CountOf(stream, cut)
          BY <2>1, <3>3, CountUp
        <4>2. QED
          BY <2>1, <2>3, <3>2, <4>1
      <3>5. i \in 1..read /\ cut < i
        BY <2>1, <3>3, <3>4
      <3>6. QED
        BY <3>3, <3>5
    <2>10. PartsWell(stream, read, files) /\ TextsWell(files, packets)
           /\ SnapshotWell(stream, read, files, packets, snapshot, good)
           /\ SnapshotWell(stream, read, files, packets, shown, good) /\ packets <= CountOf(stream, read)
      BY <2>2 DEF RingWell
    <2>11. TextsWell(f, packets)
      BY <2>1, <2>4, <2>10, TextsRotate
    <2>12. ~writeFailed => FilesHold(f, read)
      <3>1. cut <= read /\ Current(files).streamOffset <= cut
            /\ \A k \in DOMAIN headers : fileOffset(Current(files), headers[k]) # 0 /\ headers[k] <= cut
        <4>1. Current(files).streamOffset \in Nat
          BY <2>1, CurrentPart DEF Parts
        <4>2. QED
          BY <1>2, <2>1, <2>3, <4>1 DEF CanSplit
      <3>2. ~writeFailed => FilesHold(files, read)
        BY <2>1 DEF ContentInv
      <3>3. QED
        BY <2>1, <2>4, <3>1, <3>2, StartNextHolds
    <2>13. step.flush
      BY StepFields
    <2>14. live'.fileHasPacket = FALSE
      BY <1>2, <2>1, NextFileIs, AfterIs
    <2> HIDE DEF f, step, next, good, cut, headers
    <2>15. PartsWell(stream, read, f)
      BY <2>1, <2>3, <2>6, <2>7, <2>8, <2>9, <2>10, PartsRotate
    <2>16. FileEndWell(stream, read, f, live', packets)
      BY <2>14 DEF FileEndWell
    <2>17. \A snap : SnapshotWell(stream, read, files, packets, snap, good) =>
                        SnapshotWell(stream, read, f, packets, snap, good)
      BY <2>1, <2>6, <2>7, SnapshotRotates
    <2>18. RingWell(stream, read, f, live', packets, snapshot, shown, good)
      BY <2>10, <2>11, <2>15, <2>16, <2>17 DEF RingWell
    <2>19. act(step, f, packets) /\ good = (~flushFailed /\ ~writeFailed)
      BY <1>2 DEF good
    <2>20. RingWell(stream, read, files', live', packets, snapshot', shown, ~flushFailed' /\ ~writeFailed)
      BY <2>1, <2>7, <2>12, <2>13, <2>18, <2>19, RingActs
    <2>21. pc' \in {"before", "packet"} => stream[read].kind = "packet"
      BY <1>0 DEF RingInv
    <2>22. QED
      BY <1>0, <2>20, <2>21 DEF RingInv
  <1>3. QED
    BY <1>1, <1>2 DEF BeforePacket

\* What packet() takes note of, in a ring buffer.
LEMMA FilePacketNotes ==
    ASSUME NEW l \in LiveOutputs, NEW f
    PROVE  LET k == FilePacket(l, f)
           IN  \/ k = l
               \/ /\ k.fileEnd = read /\ k.packetsInFiles = packets + 1
                  /\ k.fileHeaders = headersAt(read)
  <1>1. CASE ~ringBuffer
    BY <1>1 DEF FilePacket
  <1>2. CASE ringBuffer
    <2> DEFINE full == FileBytes > 0 /\ rawFileSize(f) >= FileBytes
               h == headersAt(read)
    <2>1. FilePacket(l, f) = [l EXCEPT !.fileHasPacket = TRUE, !.fileFull = full, !.fileEnd = read,
                                       !.packetsInFiles = packets + 1, !.fileHeaders = h]
      BY <1>2 DEF FilePacket
    <2> HIDE DEF full
    <2>2. QED
      BY <2>1 DEF LiveOutputs
  <1>3. QED
    BY <1>1, <1>2

\* A snapshot's step flushes first.
LEMMA PacketStepFlushes ==
    ASSUME NEW l \in LiveOutputs
    PROVE  packetStep(l).snapshot => packetStep(l).flush
  BY DEF packetStep, snapshotAt, Step

\* A packet is noted for a ring buffer only.
NotedInv == live.fileHasPacket => ringBuffer

\* It stays so with every step.
LEMMA NotedStep == BaseInv /\ NotedInv /\ [Next]_vars => NotedInv'
  <1> SUFFICES ASSUME BaseInv, NotedInv, [Next]_vars PROVE NotedInv'
    OBVIOUS
  <1>0. ringBuffer' = ringBuffer
    BY DEF ringBuffer
  <1>a. live \in LiveOutputs
    BY DEF BaseInv, TypeInv
  <1>1. CASE live' = live
    BY <1>0, <1>1 DEF NotedInv
  <1>3. CASE BeforeWait \/ AwaitSnapshot
    <2>1. live' = After(live, waitStep(live))
      BY <1>3 DEF BeforeWait, AwaitSnapshot
    <2>2. live'.fileHasPacket = live.fileHasPacket
      BY <1>a, <2>1, SameFiles DEF SameFile
    <2>3. QED
      BY <1>0, <2>1, <2>2 DEF NotedInv
  <1>4. CASE BeforePacket /\ live' # live
    <2>1. ringBuffer
      BY <1>4 DEF BeforePacket, fileOver
    <2>2. QED
      BY <1>0, <2>1 DEF NotedInv
  <1>5. CASE Packet /\ live' # live
    <2>1. CASE ringBuffer
      BY <1>0, <2>1 DEF NotedInv
    <2>2. CASE ~ringBuffer
      <3> DEFINE l == [live EXCEPT !.snapshotPending = TRUE]
                 step == packetStep(l)
                 k == After(l, step)
      <3>1. live' = [k EXCEPT !.firstOfText = FALSE]
        BY <1>5, <2>2 DEF Packet, FilePacket
      <3>2. l \in LiveOutputs /\ SameFile(l, live)
        BY <1>a, LiveTypes, SameFiles
      <3>3. k \in LiveOutputs /\ SameFile(k, l)
        <4>1. clock \in Nat
          BY DEF BaseInv, StreamInv
        <4> HIDE DEF l, step
        <4>2. QED
          BY <3>2, <4>1, AfterIs, SameFiles
      <3> HIDE DEF l, step, k
      <3>4. SameFile(live', k)
        BY <3>1, <3>3, SameFiles
      <3>5. live'.fileHasPacket = live.fileHasPacket
        BY <3>2, <3>3, <3>4 DEF SameFile
      <3>6. QED
        BY <1>0, <2>2, <3>1, <3>5 DEF NotedInv
    <2>3. QED
      BY <2>1, <2>2
  <1>6. QED
    BY <1>1, <1>3, <1>4, <1>5 DEF Next, Worker, Arrive, StreamEnds, Tick, ShowSnapshot, Done,
       vars, Open, EndBeforeHeader, ReadRecord, ReadEnds, SnapshotWaits, WaitEnds, BeforePacket, Packet, Fail, End, Finish

\* Converting a packet: its line, what is noted of it, and what follows.
LEMMA RingPacket ==
    ASSUME BaseInv, BaseInv', ContentInv, CountInv, NotedInv, RingInv, Packet
    PROVE  RingInv'
  <1>0. pc = "packet" /\ UNCHANGED <<stream, read, writeFailed, shown>> /\ pc' \in {"failed", "ended", "next"}
    BY DEF Packet, streamVars
  <1>1. CASE UNCHANGED <<live, files, flushFailed, snapshot, packets>> /\ pc' = "failed"
    <2>1. \/ pc' = pc \/ (pc = "before" /\ pc' = "packet")
          \/ Converting /\ pc' \in AtRest \cup {"failed"}
      BY <1>0, <1>1 DEF Converting
    <2>2. QED
      BY <1>0, <1>1, <2>1, RingQuiet
  <1> DEFINE p == packets + 1
             f == writeLine(files, p)
             noted == FilePacket(live, f)
             l == [noted EXCEPT !.snapshotPending = TRUE]
             step == packetStep(l)
             k == After(l, step)
             good == ~flushFailed /\ ~writeFailed
  <1>2. CASE /\ act(step, f, p)
             /\ live' = [k EXCEPT !.firstOfText = FALSE]
             /\ packets' = p
    <2>1. Converting /\ FilesShape(files) /\ packets \in Nat /\ live \in LiveOutputs /\ clock \in Nat
          /\ read \in Nat \ {0} /\ read <= Len(stream) /\ Shaped(stream) /\ stream \in Seq(Records)
      BY <1>0 DEF BaseInv, FilesInv, TypeInv, StreamInv, Converting, Shaped
    <2>2. RingWell(stream, read, files, live, packets, snapshot, shown, good)
      BY <2>1 DEF RingInv
    <2>3. PartsWell(stream, read, files) /\ TextsWell(files, packets)
          /\ SnapshotWell(stream, read, files, packets, snapshot, good)
          /\ SnapshotWell(stream, read, files, packets, shown, good) /\ packets <= CountOf(stream, read)
      BY <2>2 DEF RingWell
    <2>4. p = CountOf(stream, read) /\ stream[read].kind = "packet" /\ p \in Nat
      BY <1>0, <2>1, OfStream DEF CountInv, RingInv
    <2>5. /\ FilesShape(f) /\ f.parts = files.parts /\ f.raw = files.raw /\ Number(f) = Number(files)
          /\ f.rawReadable = files.rawReadable
      BY <2>1, <2>4, WriteLineShape
    <2>6. TextsWell(f, p)
      BY <2>1, <2>3, TextsMore
    <2>7. Current(files).streamOffset < read
      <3>1. Current(files) = files.parts[Len(files.parts)] /\ Len(files.parts) \in DOMAIN files.parts
            /\ Current(files) \in Parts
        BY <2>1, CurrentPart
      <3>2. Current(files).packetsBefore <= packets
            /\ Current(files).packetsBefore = CountOf(stream, Current(files).streamOffset)
        BY <2>3, <3>1 DEF TextsWell, PacketsAtEnd, PartsWell, StartsWell
      <3>3. Current(files).streamOffset \in Nat /\ Current(files).packetsBefore \in Nat
        BY <3>1 DEF Parts
      <3>4. ~(read <= Current(files).streamOffset)
        <4>1. read <= Current(files).streamOffset =>
                CountOf(stream, read) <= CountOf(stream, Current(files).streamOffset)
          BY <2>1, <3>3, CountUp
        <4>2. QED
          BY <2>1, <2>4, <3>2, <3>3, <4>1
      <3>5. QED
        BY <2>1, <3>3, <3>4
    <2>8. headersAt(read) \in Seq(Nat)
      BY <2>1, HeadersNow
    <2>9. noted \in LiveOutputs
      BY <2>1, <2>8, FilePacketIs
    <2>10. \/ noted = live
           \/ noted.fileEnd = read /\ noted.packetsInFiles = p /\ noted.fileHeaders = headersAt(read)
      BY <2>1, FilePacketNotes
    <2>11. ~ringBuffer => noted = live
      BY DEF FilePacket
    <2> HIDE DEF noted, f
    <2>12. l \in LiveOutputs /\ SameFile(l, noted)
      BY <2>9, LiveTypes, SameFiles
    <2> HIDE DEF l, step
    <2>13. k \in LiveOutputs /\ SameFile(k, l)
      BY <2>1, <2>12, AfterIs, SameFiles
    <2> HIDE DEF k
    <2>14. SameFile(live', k)
      BY <1>2, <2>13, SameFiles
    <2>15. SameFile(live', noted)
      BY <2>12, <2>13, <2>14 DEF SameFile
    <2>16. FileEndWell(stream, read, f, live', p)
      <3>1. SUFFICES ASSUME live'.fileHasPacket PROVE FileEndWell(stream, read, f, live', p)
        BY DEF FileEndWell
      <3>2. CASE noted.fileEnd = read /\ noted.packetsInFiles = p /\ noted.fileHeaders = headersAt(read)
        <4>1. live'.fileEnd = read /\ live'.packetsInFiles = p /\ live'.fileHeaders = HeadersOf(stream, read)
          BY <2>15, <3>2, OfStream DEF SameFile
        <4>2. Current(f) = Current(files) /\ read \in 1..read
          BY <2>1, <2>5 DEF Current
        <4>3. QED
          BY <2>4, <2>7, <4>1, <4>2 DEF FileEndWell
      <3>3. CASE ~(noted.fileEnd = read /\ noted.packetsInFiles = p /\ noted.fileHeaders = headersAt(read))
        <4>1. noted = live /\ live.fileHasPacket
          BY <2>10, <2>15, <3>1, <3>3 DEF SameFile
        <4>2. ringBuffer
          BY <4>1 DEF NotedInv
        <4>3. noted.fileEnd = read /\ noted.packetsInFiles = p /\ noted.fileHeaders = headersAt(read)
          BY <4>2 DEF noted, FilePacket, LiveOutputs
        <4>4. QED
          BY <3>3, <4>3
      <3>4. QED
        BY <3>2, <3>3
    <2>17. GoesOn(stream, stream, read) /\ read <= read /\ packets <= p
      BY <2>1 DEF GoesOn
    <2>18. PartsWell(stream, read, f)
      BY <2>1, <2>3, <2>5, <2>17, PartsStay
    <2>19. \A snap : SnapshotWell(stream, read, files, packets, snap, good) =>
                        SnapshotWell(stream, read, f, p, snap, good)
      <3>1. SUFFICES ASSUME NEW snap, SnapshotWell(stream, read, files, packets, snap, good)
                     PROVE  SnapshotWell(stream, read, f, p, snap, good)
        OBVIOUS
      <3>2. Current(f) = Current(files)
        BY <2>5 DEF Current
      <3>3. good => good
        OBVIOUS
      <3>4. good => f.rawReadable = files.rawReadable
        BY <2>5
      <3> HIDE DEF good, p
      <3>5. QED
        BY <2>1, <2>3, <2>4, <2>5, <2>17, <3>1, <3>2, <3>3, <3>4, SnapshotStays
    <2>20. p <= CountOf(stream, read)
      BY <2>4
    <2>21. RingWell(stream, read, f, live', p, snapshot, shown, good)
      BY <2>3, <2>6, <2>16, <2>18, <2>19, <2>20 DEF RingWell
    <2>22. ~writeFailed => FilesHold(f, read)
      <3>1. ~writeFailed => FilesHold(files, read)
        BY <2>1 DEF ContentInv
      <3>2. QED
        BY <2>5, <3>1, HoldsSame
    <2>23. step.snapshot => step.flush
      BY <2>12, PacketStepFlushes DEF step
    <2>24. good = (~flushFailed /\ ~writeFailed)
      OBVIOUS
    <2> HIDE DEF good, p
    <2>25. RingWell(stream, read, files', live', p, snapshot', shown, ~flushFailed' /\ ~writeFailed)
      BY <1>2, <2>4, <2>5, <2>21, <2>22, <2>23, <2>24, RingActs
    <2>26. QED
      BY <1>0, <1>2, <2>25 DEF RingInv
  <1>3. QED
    BY <1>1, <1>2 DEF Packet

-----------------------------------------------------------------------------
(* A ring buffer is what it is taken for, whatever happens.                *)

\* The files stay so with every step.
LEMMA RingStep ==
    BaseInv /\ ContentInv /\ CountInv /\ NotedInv /\ RingInv /\ [Next]_vars => RingInv'
  <1> SUFFICES ASSUME BaseInv, ContentInv, CountInv, NotedInv, RingInv, [Next]_vars PROVE RingInv'
    OBVIOUS
  <1>0. BaseInv'
    BY BaseStep
  <1>1. CASE \/ \E record \in NextRecords : Arrive(record)
             \/ \E how \in {"closed", "stopped", "broken"} : StreamEnds(how)
             \/ Tick \/ ShowSnapshot \/ UNCHANGED vars
    <2>1. /\ stream' = stream \/ \E record \in NextRecords : Arrive(record)
          /\ UNCHANGED <<read, packets, live, files, snapshot, flushFailed, writeFailed, pc>>
          /\ shown' \in {snapshot, shown}
      BY <1>1 DEF Arrive, StreamEnds, Tick, ShowSnapshot, vars, streamVars
    <2>2. QED
      BY <1>0, <2>1, RingQuiet
  <1>2. CASE ReadEnds \/ SnapshotWaits \/ WaitEnds
    <2>1. /\ UNCHANGED <<stream, read, packets, live, files, snapshot, shown, flushFailed, writeFailed>>
          /\ Converting /\ pc' \in AtRest
      BY <1>2 DEF ReadEnds, SnapshotWaits, WaitEnds, streamVars, Converting, AtRest
    <2>2. QED
      BY <1>0, <2>1, RingQuiet
  <1>3. CASE EndBeforeHeader \/ Fail \/ End
    <2>1. pc' = "over"
      BY <1>3 DEF EndBeforeHeader, Fail, End, Finish
    <2>2. QED
      BY <2>1 DEF RingInv, Converting
  <1>4. QED
    BY <1>0, <1>1, <1>2, <1>3, RingOpen, RingRead, RingWaits, RingBefore, RingPacket DEF Next,
       Worker, Done

\* What the conversion's files are holds always.
LEMMA RingInvariant == Spec => [](ConversionInv /\ NotedInv /\ RingInv)
  <1>1. Init => NotedInv /\ RingInv
    <2> SUFFICES ASSUME Init PROVE NotedInv /\ RingInv
      OBVIOUS
    <2>1. NotedInv
      BY DEF Init, NotedInv, NewLiveOutput
    <2>2. RingInv
      BY DEF Init, RingInv, Converting
    <2>3. QED
      BY <2>1, <2>2
  <1>2. ConversionInv /\ NotedInv /\ RingInv /\ [Next]_vars => NotedInv' /\ RingInv'
    BY NotedStep, RingStep DEF ConversionInv
  <1>3. QED
    BY <1>1, <1>2, ConversionInvariant, PTL DEF Spec

\* What is known of a part kept: its file, and how it starts and ends.
PartIs(i, ho, so, hi, here) ==
    /\ Shaped(stream) /\ read \in Nat /\ read <= Len(stream)
    /\ so \in Nat /\ hi \in Nat /\ so <= hi /\ hi <= read /\ hi <= Len(stream)
    /\ StartsWith(stream, so, ho)
    /\ here = Laid(ho, so, hi)
    /\ files.parts[i].packetsBefore = CountOf(stream, so)
    /\ PacketsAtEnd(files, i, CountOf(stream, read)) = CountOf(stream, hi)
    /\ i = Len(files.parts) => hi = read
    /\ i # Len(files.parts) => so < hi /\ stream[hi].kind = "packet"
    /\ files.parts[i].number > 1 /\ i = Len(files.parts) =>
            \E n \in 1..hi : stream[n].kind = "packet" /\ so < n

\* That is so of every part.
LEMMA PartsAre ==
    ASSUME BaseInv, ContentInv, RingInv, Converting, ~writeFailed, NEW i \in DOMAIN files.parts
    PROVE  PartIs(i, files.parts[i].headerOffsets, files.parts[i].streamOffset,
                  EndOfPart(files, i, read), files.raw[files.parts[i].number])
  <1> DEFINE m == Len(files.parts)
             part == files.parts[i]
             ho == part.headerOffsets
             so == part.streamOffset
             hi == EndOfPart(files, i, read)
             here == files.raw[part.number]
  <1>1. FilesShape(files) /\ FilesHold(files, read) /\ Shaped(stream) /\ read \in Nat /\ read <= Len(stream)
        /\ Len(stream) \in Nat
    BY DEF BaseInv, FilesInv, ContentInv, StreamInv, Shaped
  <1>2. PartsWell(stream, read, files)
    BY DEF RingInv, RingWell
  <1>3. m \in Nat \ {0} /\ DOMAIN files.parts = 1..m /\ Current(files) = files.parts[m]
        /\ Number(files) = files.parts[m].number /\ i \in 1..m
        /\ \A j \in 1..m : files.parts[j] \in Parts
    BY <1>1, NumbersAre
  <1>4. \A j \in 1..m : files.parts[j].streamOffset \in Nat /\ StartsWell(stream, read, files.parts[j])
    BY <1>2, <1>3 DEF Parts, PartsWell
  <1>5. so <= hi /\ here = Laid(ho, so, hi)
    BY <1>1 DEF FilesHold
  <1>6. StartsWith(stream, so, ho) /\ part.packetsBefore = CountOf(stream, so)
    <2>1. StartsWell(stream, read, part) /\ so \in Nat
      BY <1>3, <1>4
    <2>2. so \in 1..read => so \in 1..Len(stream)
      BY <1>1, <2>1
    <2>3. QED
      BY <2>1, <2>2 DEF StartsWell, StartsWith
  <1>7. CASE i = m
    <2>1. hi = read
      BY <1>7 DEF EndOfPart
    <2>2. PacketsAtEnd(files, i, CountOf(stream, read)) = CountOf(stream, hi)
      BY <1>7, <2>1 DEF PacketsAtEnd
    <2>3. part.number > 1 => \E n \in 1..hi : stream[n].kind = "packet" /\ so < n
      BY <1>2, <1>3, <1>7, <2>1 DEF PartsWell
    <2>4. QED
      BY <1>1, <1>4, <1>5, <1>6, <1>7, <2>1, <2>2, <2>3, <1>3 DEF PartIs
  <1>8. CASE i # m
    <2>1. i + 1 \in 1..m
      BY <1>3, <1>8
    <2>2. hi = files.parts[i + 1].streamOffset
      BY <1>8 DEF EndOfPart
    <2>3. so < hi
      BY <1>2, <1>8, <2>2 DEF PartsWell
    <2>4. StartsWell(stream, read, files.parts[i + 1]) /\ hi \in Nat /\ so \in Nat
      BY <1>3, <1>4, <2>1, <2>2
    <2>5. hi # 0
      BY <2>3, <2>4
    <2>6. hi \in 1..read /\ stream[hi].kind = "packet"
      BY <2>2, <2>4, <2>5 DEF StartsWell
    <2>7. PacketsAtEnd(files, i, CountOf(stream, read)) = CountOf(stream, hi)
      BY <1>8, <2>2, <2>4 DEF PacketsAtEnd, StartsWell
    <2>8. hi <= read /\ hi <= Len(stream)
      BY <1>1, <2>4, <2>6
    <2>9. QED
      BY <1>1, <1>4, <1>5, <1>6, <1>8, <2>3, <2>4, <2>6, <2>7, <2>8 DEF PartIs
  <1>9. QED
    BY <1>7, <1>8

-----------------------------------------------------------------------------
(* So the files are.                                                       *)

\* Every file kept is a capture.
LEMMA FilesAreCaptures ==
    BaseInv /\ ContentInv /\ RingInv => EachFileIsACapture
  <1> SUFFICES ASSUME BaseInv, ContentInv, RingInv, Converting, ~writeFailed, NEW part \in Kept
               PROVE  LET here == files.raw[part.number]
                          IsPacket(k) == stream[here[k]].kind = "packet"
                      IN  /\ \A j, k \in DOMAIN here : j < k => here[j] < here[k]
                          /\ \A k \in DOMAIN here : IsPacket(k) =>
                                LET before == {j \in 1..k : stream[here[j]].kind = "section"}
                                    start == CHOOSE j \in before : \A i \in before : i <= j
                                IN  /\ before # {}
                                    /\ {here[j] : j \in {i \in start..k : ~IsPacket(i)}}
                                        = Range(headersAt(here[k]))
                          /\ part # Current(files) \/ part.number > 1 => \E k \in DOMAIN here : IsPacket(k)
    BY DEF EachFileIsACapture
  <1>1. PICK i \in DOMAIN files.parts : part = files.parts[i]
    BY DEF Kept
  <1> DEFINE ho == part.headerOffsets
             so == part.streamOffset
             hi == EndOfPart(files, i, read)
             here == files.raw[part.number]
  <1>2. PartIs(i, ho, so, hi, here)
    BY <1>1, PartsAre
  <1>3. i # Len(files.parts) \/ part.number > 1 => \E n \in 1..hi : stream[n].kind = "packet" /\ so < n
    <2>1. CASE i = Len(files.parts)
      BY <1>1, <1>2, <2>1 DEF PartIs
    <2>2. CASE i # Len(files.parts)
      <3>1. so < hi /\ stream[hi].kind = "packet" /\ hi \in Nat /\ so \in Nat
        BY <1>2, <2>2 DEF PartIs
      <3>2. hi \in 1..hi
        BY <3>1
      <3>3. QED
        BY <3>1, <3>2
    <2>3. QED
      BY <2>1, <2>2
  <1>4. part # Current(files) => i # Len(files.parts)
    BY <1>1 DEF Current, Last
  <1> HIDE DEF ho, so, hi, here
  <1>5. Shaped(stream) /\ so \in Nat /\ hi \in Nat /\ so <= hi /\ hi <= Len(stream)
        /\ StartsWith(stream, so, ho) /\ here = Laid(ho, so, hi)
    BY <1>2 DEF PartIs
  <1>6. InOrder(stream, so, ho, hi, here)
    BY <1>5, FileOrder
  <1>7. \A j, k \in DOMAIN here : j < k => here[j] < here[k]
    BY <1>6 DEF InOrder
  <1>8. ASSUME NEW k \in DOMAIN here, stream[here[k]].kind = "packet",
               NEW before, before = {j \in 1..k : stream[here[j]].kind = "section"},
               NEW start, start = CHOOSE j \in before : \A x \in before : x <= j
        PROVE  /\ before # {}
               /\ {here[j] : j \in {x \in start..k : ~(stream[here[x]].kind = "packet")}}
                    = Range(headersAt(here[k]))
    <2>1. PICK j0 \in 1..k :
              /\ stream[here[j0]].kind = "section"
              /\ \A x \in 1..k : stream[here[x]].kind = "section" => x <= j0
              /\ Declared(stream, here, j0, k)
                    = {HeadersOf(stream, here[k])[x] : x \in DOMAIN HeadersOf(stream, here[k])}
      BY <1>5, <1>8, FileSections
    <2>2. k \in Nat /\ before \subseteq Nat
      <3>1. k \in Nat
        BY <1>6 DEF InOrder
      <3>2. QED
        BY <1>8, <3>1
    <2>3. j0 \in before /\ \A x \in before : x <= j0
      BY <1>8, <2>1
    <2>4. start \in before /\ \A x \in before : x <= start
      BY <1>8, <2>3
    <2>5. start = j0
      BY <2>2, <2>3, <2>4
    <2>6. headersAt(here[k]) = HeadersOf(stream, here[k])
      BY OfStream
    <2>7. QED
      BY <2>1, <2>3, <2>5, <2>6 DEF Declared, Range
  <1>9. ASSUME part # Current(files) \/ part.number > 1
        PROVE  \E k \in DOMAIN here : stream[here[k]].kind = "packet"
    <2>1. PICK n \in 1..hi : stream[n].kind = "packet" /\ so < n
      BY <1>3, <1>4, <1>9
    <2>2. n \in (so + 1)..hi
      BY <1>5, <2>1
    <2>3. n - so + Len(ho) \in DOMAIN here /\ here[n - so + Len(ho)] = n
      BY <1>6, <2>2 DEF InOrder
    <2>4. QED
      BY <2>1, <2>3
  <1>10. QED
    BY <1>7, <1>8, <1>9 DEF here

\* Every text is that of the packets in its file.
LEMMA TextsAreOfFiles ==
    BaseInv /\ ContentInv /\ CountInv /\ RingInv => TextIsOfItsFile
  <1> SUFFICES ASSUME BaseInv, ContentInv, CountInv, RingInv, pc \in {"next", "blocked"}, ~writeFailed,
                      NEW part \in Kept
               PROVE  LET here == files.raw[part.number]
                          held == Cardinality({k \in DOMAIN here : stream[here[k]].kind = "packet"})
                      IN  files.text[part.number] = [x \in 1..held |-> part.packetsBefore + x]
    BY DEF TextIsOfItsFile
  <1>0. Converting
    BY DEF Converting
  <1>1. PICK i \in DOMAIN files.parts : part = files.parts[i]
    BY DEF Kept
  <1> DEFINE ho == part.headerOffsets
             so == part.streamOffset
             hi == EndOfPart(files, i, read)
             here == files.raw[part.number]
             held == Cardinality({k \in DOMAIN here : stream[here[k]].kind = "packet"})
  <1>2. PartIs(i, ho, so, hi, here)
    BY <1>0, <1>1, PartsAre
  <1>3. packets = CountOf(stream, read)
    BY OfStream DEF CountInv, AtRest
  <1>4. files.text[part.number] = Lines(part.packetsBefore, PacketsAtEnd(files, i, packets))
    BY <1>0, <1>1 DEF RingInv, RingWell, TextsWell
  <1> HIDE DEF ho, so, hi, here
  <1>5. Shaped(stream) /\ so \in Nat /\ hi \in Nat /\ so <= hi /\ hi <= Len(stream)
        /\ StartsWith(stream, so, ho) /\ here = Laid(ho, so, hi)
        /\ part.packetsBefore = CountOf(stream, so)
        /\ PacketsAtEnd(files, i, packets) = CountOf(stream, hi)
    BY <1>1, <1>2, <1>3 DEF PartIs
  <1>6. held = CountOf(stream, hi) - CountOf(stream, so)
    BY <1>5, FileCount
  <1>7. files.text[part.number] = [x \in 1..held |-> part.packetsBefore + x]
    BY <1>4, <1>5, <1>6 DEF Lines
  <1>8. QED
    BY <1>7 DEF here

\* The place of a packet that was read.
LEMMA PlaceIs ==
    ASSUME StreamShape, NEW upTo \in Nat, upTo <= Len(stream), NEW p \in 1..CountOf(stream, upTo)
    PROVE  LET n == PlaceOf(p)
           IN  /\ n \in 1..upTo /\ stream[n].kind = "packet" /\ CountOf(stream, n) = p
               /\ n \in PacketsOf(stream, Len(stream))
  <1>0. stream \in Seq(Records) /\ Len(stream) \in Nat /\ p \in Nat
    BY PacketsUpTo DEF StreamShape
  <1>1. PICK i \in PacketsOf(stream, upTo) : CountOf(stream, i) = p
    BY <1>0, PlaceExists
  <1>2. i \in PacketPlaces /\ NumberOf(i) = p
    <2>1. i \in 1..Len(stream) /\ stream[i].kind = "packet"
      BY <1>0, <1>1, PacketsUpTo
    <2>2. QED
      BY <1>0, <1>1, <2>1, OfStream DEF PacketPlaces
  <1> DEFINE n == PlaceOf(p)
  <1>3. n \in PacketPlaces /\ NumberOf(n) = p
    BY <1>2 DEF PlaceOf
  <1> HIDE DEF n
  <1>4. n \in 1..Len(stream) /\ stream[n].kind = "packet" /\ CountOf(stream, n) = p
    BY <1>0, <1>3, OfStream DEF PacketPlaces
  <1>5. n \in PacketsOf(stream, Len(stream))
    <2>1. \A x : x \in PacketsOf(stream, Len(stream)) <=> x \in 1..Len(stream) /\ stream[x].kind = "packet" /\ x <= Len(stream)
      BY <1>0, PacketsUpTo
    <2>2. QED
      BY <1>0, <1>4, <2>1
  <1>6. n <= upTo
    <2>1. CountOf(stream, n) <= CountOf(stream, upTo)
      BY <1>0, <1>4, PacketsUpTo
    <2>2. QED
      BY <1>0, <1>5, <2>1, CountOrders
  <1>7. QED
    BY <1>4, <1>5, <1>6 DEF n

\* partOf() finds a part.
LEMMA PartFound ==
    ASSUME NEW parts \in Seq(Parts), parts # <<>>, NEW p \in Nat, parts[1].packetsBefore < p
    PROVE  LET i == PartOf(parts, p)
           IN  /\ i \in DOMAIN parts /\ parts[i].packetsBefore < p
               /\ \A j \in DOMAIN parts : j > i => parts[j].packetsBefore >= p
  <1> DEFINE m == Len(parts)
             before(i) == parts[i].packetsBefore
             T == {k \in 0..m : m - k \in 1..m /\ before(m - k) < p}
  <1>1. m \in Nat \ {0} /\ DOMAIN parts = 1..m /\ \A i \in 1..m : before(i) \in Nat
    <2>1. m \in Nat /\ m # 0 /\ DOMAIN parts = 1..m /\ \A i \in 1..m : parts[i] \in Parts
      OBVIOUS
    <2>2. QED
      BY <2>1 DEF Parts
  <1>2. before(1) < p
    OBVIOUS
  <1> HIDE DEF m, before
  <1>3. m - 1 \in T
    <2>1. m - (m - 1) = 1 /\ m - 1 \in 0..m /\ 1 \in 1..m
      BY <1>1
    <2>2. QED
      BY <1>2, <2>1
  <1>4. PICK k \in T : \A x \in T : k <= x
    <2>1. T # {}
      <3> HIDE DEF T
      <3>1. QED
        BY <1>3
    <2>2. T \subseteq Nat
      <3>1. T \subseteq 0..m
        OBVIOUS
      <3> HIDE DEF T
      <3>2. QED
        BY <1>1, <3>1
    <2> HIDE DEF T
    <2>3. QED
      BY <2>1, <2>2, LeastNat
  <1> DEFINE i == m - k
  <1>5. i \in 1..m /\ before(i) < p
    BY <1>4
  <1>6. ASSUME NEW j \in 1..m, j > i PROVE before(j) >= p
    <2>1. m - j \in 0..m /\ m - (m - j) = j /\ ~(k <= m - j)
      BY <1>1, <1>4, <1>6
    <2>2. m - j \notin T
      BY <1>4, <2>1
    <2>3. ~(before(j) < p)
      BY <2>1, <2>2
    <2>4. QED
      BY <1>1, <2>3
  <1> HIDE DEF i, T
  <1>7. \E x \in DOMAIN parts : parts[x].packetsBefore < p /\ \A j \in DOMAIN parts : j > x => parts[j].packetsBefore >= p
    BY <1>1, <1>5, <1>6 DEF before
  <1>8. QED
    BY <1>7 DEF PartOf

\* A packet of the snapshot shown is where its index says, and readable.
LEMMA SnapshotsRead ==
    BaseInv /\ ContentInv /\ RingInv => SnapshotReadsItsPackets
  <1> SUFFICES ASSUME BaseInv, ContentInv, RingInv, Converting, ~flushFailed, ~writeFailed,
                      NEW p \in 1..shown.packets, p > Head(shown.parts).packetsBefore
               PROVE  LET part == shown.parts[PartOf(shown.parts, p)]
                          at == fileOffset(part, PlaceOf(p))
                      IN  part.number \in DOMAIN files.raw =>
                            /\ at \in DOMAIN files.raw[part.number]
                            /\ files.raw[part.number][at] = PlaceOf(p)
                            /\ part.number = Current(files).number => at <= files.rawReadable
    BY DEF SnapshotReadsItsPackets
  <1> DEFINE sp == shown.parts
             i == PartOf(sp, p)
             part == sp[i]
             n == PlaceOf(p)
             at == fileOffset(part, n)
  <1>1. FilesShape(files) /\ Shaped(stream) /\ StreamShape /\ read \in Nat /\ read <= Len(stream)
        /\ stream \in Seq(Records) /\ packets \in Nat
    BY DEF BaseInv, FilesInv, StreamInv, Shaped, StreamShape, TypeInv
  <1>2. SnapshotWell(stream, read, files, packets, shown, ~flushFailed /\ ~writeFailed)
        /\ packets <= CountOf(stream, read) /\ TextsWell(files, packets)
    BY DEF RingInv, RingWell
  <1>3. shown.packets \in Nat /\ shown.packets <= packets /\ shown.packets > 0 /\ sp # <<>>
    BY <1>2 DEF SnapshotWell
  <1>4. /\ sp \in Seq(Parts)
        /\ \A j, k \in DOMAIN sp : sp[k].number = sp[j].number + (k - j)
        /\ \A j \in DOMAIN sp : StartsWell(stream, read, sp[j])
        /\ Last(sp).number <= Number(files)
        /\ \A j \in DOMAIN sp, k \in DOMAIN files.parts :
                sp[j].number = files.parts[k].number => sp[j] = files.parts[k]
        /\ \A j \in DOMAIN files.parts : files.parts[j].number > Last(sp).number =>
                shown.packets <= files.parts[j].packetsBefore
        /\ Last(sp).number = Number(files) =>
                \A x \in 1..read : stream[x].kind = "packet" /\ CountOf(stream, x) <= shown.packets =>
                    x - Current(files).streamOffset + Len(Current(files).headerOffsets) <= files.rawReadable
    BY <1>2, <1>3 DEF SnapshotWell
  <1>5. CountOf(stream, read) \in Nat /\ p \in Nat /\ p <= shown.packets /\ p \in 1..CountOf(stream, read)
    <2>1. CountOf(stream, read) \in Nat
      BY <1>1, PacketsUpTo
    <2>2. QED
      BY <1>1, <1>2, <1>3, <2>1
  <1>6. n \in 1..read /\ stream[n].kind = "packet" /\ CountOf(stream, n) = p
        /\ n \in PacketsOf(stream, Len(stream))
    BY <1>1, <1>5, PlaceIs
  <1>7. i \in DOMAIN sp /\ sp[i].packetsBefore < p /\ \A j \in DOMAIN sp : j > i => sp[j].packetsBefore >= p
    <2>1. sp[1].packetsBefore < p
      <3>1. Head(sp) = sp[1] /\ 1 \in DOMAIN sp
        BY <1>3, <1>4
      <3>2. sp[1] \in Parts
        BY <1>4, <3>1
      <3>3. sp[1].packetsBefore \in Nat
        BY <3>2 DEF Parts
      <3>4. QED
        BY <1>5, <3>1, <3>3
    <2>2. QED
      BY <1>3, <1>4, <1>5, <2>1, PartFound
  <1> HIDE DEF i, n
  <1>8. part \in Parts /\ DOMAIN sp = 1..Len(sp) /\ Len(sp) \in Nat \ {0} /\ Last(sp) = sp[Len(sp)]
        /\ i \in 1..Len(sp) /\ Len(sp) \in DOMAIN sp
    <2>1. DOMAIN sp = 1..Len(sp) /\ Len(sp) \in Nat /\ Len(sp) # 0
      BY <1>3, <1>4
    <2>2. QED
      BY <1>4, <1>7, <2>1 DEF Last
  <1>9. Last(sp).number = part.number + (Len(sp) - i) /\ part.number \in Nat
    BY <1>4, <1>7, <1>8 DEF Parts
  <1> DEFINE ho == part.headerOffsets
             so == part.streamOffset
  <1>10. so \in Nat /\ Len(ho) \in Nat /\ part.packetsBefore = CountOf(stream, so)
    <2>1. so \in Nat /\ Len(ho) \in Nat
      BY <1>8 DEF Parts
    <2>2. StartsWell(stream, read, part)
      BY <1>4, <1>7
    <2>3. QED
      BY <2>1, <2>2 DEF StartsWell
  <1>11. so < n
    <2>1. n <= so => CountOf(stream, n) <= CountOf(stream, so)
      BY <1>1, <1>6, <1>10, CountUp
    <2>2. CountOf(stream, so) \in Nat
      BY <1>1, <1>10, PacketsUpTo
    <2>3. QED
      BY <1>5, <1>6, <1>7, <1>10, <2>1, <2>2
  <1>12. at = n - so + Len(ho)
    BY <1>1, <1>6, <1>10, <1>11 DEF fileOffset
  <1>13. SUFFICES ASSUME part.number \in DOMAIN files.raw
                  PROVE  /\ at \in DOMAIN files.raw[part.number]
                         /\ files.raw[part.number][at] = n
                         /\ part.number = Number(files) => at <= files.rawReadable
    BY DEF n, i, Number
  <1>14. PICK j \in DOMAIN files.parts : part.number = files.parts[j].number
    BY <1>1, <1>13 DEF FilesShape
  <1>15. part = files.parts[j]
    BY <1>4, <1>7, <1>14
  <1> DEFINE hi == EndOfPart(files, j, read)
             here == files.raw[part.number]
  <1>16. PartIs(j, ho, so, hi, here)
    BY <1>15, PartsAre
  <1>17. n <= hi
    <2>1. CASE j = Len(files.parts)
      BY <1>6, <1>16, <2>1 DEF PartIs
    <2>2. CASE j # Len(files.parts)
      <3> DEFINE next == files.parts[j + 1]
      <3>1. j + 1 \in DOMAIN files.parts /\ next.number = part.number + 1
        <4>1. DOMAIN files.parts = 1..Len(files.parts) /\ Len(files.parts) \in Nat
          BY <1>1, NumbersAre
        <4>2. j + 1 \in DOMAIN files.parts
          BY <2>2, <4>1
        <4>3. next.number = files.parts[j].number + ((j + 1) - j)
          BY <1>1, <4>2 DEF FilesShape
        <4>4. (j + 1) - j = 1
          BY <4>1
        <4>5. QED
          BY <1>15, <4>2, <4>3, <4>4
      <3>2. p <= next.packetsBefore
        <4>0. next.packetsBefore \in Nat
          <5>1. next \in Parts
            BY <1>1, <3>1, CurrentPart
          <5>2. QED
            BY <5>1 DEF Parts
        <4>1. CASE i = Len(sp)
          <5>1. next.number > Last(sp).number
            BY <1>8, <1>9, <3>1, <4>1
          <5>2. shown.packets <= next.packetsBefore
            BY <1>4, <3>1, <5>1
          <5>3. QED
            BY <1>3, <1>5, <4>0, <5>2
        <4>2. CASE i # Len(sp)
          <5>1. i + 1 \in DOMAIN sp /\ i + 1 > i /\ (i + 1) - i = 1
            BY <1>8, <4>2
          <5>2. sp[i + 1].number = part.number + ((i + 1) - i)
            BY <1>4, <1>7, <5>1
          <5>3. sp[i + 1].number = next.number
            BY <3>1, <5>1, <5>2
          <5>4. sp[i + 1] = next
            BY <1>4, <3>1, <5>1, <5>3
          <5>5. sp[i + 1].packetsBefore >= p
            BY <1>7, <5>1
          <5>6. QED
            BY <1>5, <4>0, <5>4, <5>5
        <4>3. QED
          BY <4>1, <4>2
      <3>3. hi = next.streamOffset
        BY <2>2 DEF EndOfPart
      <3>4. next.packetsBefore = CountOf(stream, hi)
        <4>1. StartsWell(stream, read, next)
          BY <3>1 DEF RingInv, RingWell, PartsWell
        <4>2. QED
          BY <3>3, <4>1 DEF StartsWell
      <3>5. CountOf(stream, n) <= CountOf(stream, hi) /\ hi \in Nat
        BY <1>6, <1>16, <3>2, <3>4 DEF PartIs
      <3>6. QED
        BY <1>1, <1>6, <3>5, CountOrders
    <2>3. QED
      BY <2>1, <2>2
  <1>18. InOrder(stream, so, ho, hi, here)
    <2>1. StartsWith(stream, so, ho) /\ so \in Nat /\ hi \in Nat /\ so <= hi /\ here = Laid(ho, so, hi)
      BY <1>16 DEF PartIs
    <2> HIDE DEF so, ho, hi, here
    <2>2. QED
      BY <1>1, <2>1, FileOrder
  <1>19. at \in DOMAIN here /\ here[at] = n
    <2>1. n \in (so + 1)..hi
      <3>1. hi \in Nat
        BY <1>16 DEF PartIs
      <3>2. QED
        BY <1>6, <1>10, <1>11, <1>17, <3>1
    <2>2. QED
      BY <1>12, <1>18, <2>1 DEF InOrder
  <1>20. part.number = Number(files) => at <= files.rawReadable
    <2>1. SUFFICES ASSUME part.number = Number(files) PROVE at <= files.rawReadable
      OBVIOUS
    <2>2. Current(files) = part
      <3>1. Number(files) = files.parts[Len(files.parts)].number /\ Current(files) = files.parts[Len(files.parts)]
            /\ Len(files.parts) \in DOMAIN files.parts
        BY <1>1, CurrentPart DEF Number
      <3>2. QED
        BY <1>4, <1>7, <2>1, <3>1
    <2>3. Last(sp).number = Number(files)
      <3>1. Number(files) \in Nat
        BY <1>1, CurrentPart
      <3>2. QED
        BY <1>4, <1>8, <1>9, <2>1, <3>1
    <2>4. n - Current(files).streamOffset + Len(Current(files).headerOffsets) <= files.rawReadable
      BY <1>4, <1>5, <1>6, <2>3
    <2>5. QED
      BY <1>12, <2>2, <2>4
  <1>21. QED
    BY <1>19, <1>20

\* The files are what they are taken for, however often the ring buffer moves on (startNext()),
\* whatever it deletes and whenever a snapshot is looked at: every one kept is a capture of its
\* own, its text has its packets and no others, and the place that partOf() and fileOffset()
\* give for a packet shown is where its bytes are.
THEOREM FilesHoldWhatTheySay == Spec => []FilesAreTrue
  <1>1. ConversionInv /\ NotedInv /\ RingInv => FilesAreTrue
    BY FilesAreCaptures, TextsAreOfFiles, SnapshotsRead DEF ConversionInv, FilesAreTrue
  <1>2. QED
    BY <1>1, RingInvariant, PTL

-----------------------------------------------------------------------------
(* The conversion implements the run the session relies on.                *)

\* How far a run is, to the session.
Phase == CASE pc = "open" -> "header" [] pc = "over" -> "ended" [] OTHER -> "packets"

\* The phase, by where the worker is.
PhaseIs == Phase = IF pc = "open" THEN "header" ELSE IF pc = "over" THEN "ended" ELSE "packets"

\* It is so before and after a step.
LEMMA PhaseValue == PhaseIs /\ PhaseIs'
  BY DEF PhaseIs, Phase

\* A step, as the session sees it: nothing; the header came; a text is
\* announced; or the run ends as it may.
PromiseStep ==
    \/ UNCHANGED <<Phase, opened, result>>
    \/ /\ Phase = "header" /\ Phase' = "packets" /\ UNCHANGED <<opened, result>>
    \/ /\ Phase = "packets" /\ Phase' = "packets" /\ result' = result /\ Len(opened') = Len(opened) + 1
    \/ /\ Phase # "ended" /\ Phase' = "ended" /\ opened' = opened /\ result' \in Run!Results
       /\ result' = "Stopped" => Phase = "header"
       /\ result' = "Converted" => Phase = "packets"
       /\ result' = "FailedKept" => Len(opened) > 0

\* Every step of the conversion is one of these.
LEMMA PromiseSteps ==
    ASSUME ConversionInv, [Next]_vars
    PROVE  PromiseStep
  <1>1. PhaseIs /\ PhaseIs'
    BY PhaseValue
  <1>2. opened \in Seq(Nat) /\ live \in LiveOutputs /\ packets \in Nat /\ read \in Nat
        /\ flushFailed \in BOOLEAN /\ Len(opened) \in Nat
    BY DEF ConversionInv, BaseInv, TypeInv, StreamInv
  <1>3. Converting => FilesShape(files) /\ Number(files) \in Nat \ {0}
    BY CurrentPart DEF ConversionInv, BaseInv, FilesInv
  <1>4. CASE pc' = pc /\ UNCHANGED <<opened, result>>
    BY <1>1, <1>4 DEF PromiseStep, PhaseIs
  <1>5. CASE ReadRecord \/ ReadEnds \/ SnapshotWaits \/ WaitEnds
    <2>1. pc \notin {"open", "over"} /\ pc' \notin {"open", "over"} /\ UNCHANGED <<opened, result>>
      BY <1>5 DEF ReadRecord, ReadEnds, SnapshotWaits, WaitEnds
    <2>2. QED
      BY <1>1, <2>1 DEF PromiseStep, PhaseIs
  <1>6. CASE Open
    <2>1. pc = "open" /\ opened' = opened
          /\ ((pc' = "next" /\ result' = result) \/ (pc' = "over" /\ result' = "FailedRemoved"))
      BY <1>6 DEF Open, Finish
    <2>2. QED
      BY <1>1, <2>1 DEF PromiseStep, PhaseIs, Run!Results
  <1>7. CASE EndBeforeHeader
    <2>1. pc = "open" /\ pc' = "over" /\ opened' = opened /\ result' \in {"Stopped", "FailedRemoved"}
      BY <1>7 DEF EndBeforeHeader, Finish
    <2>2. QED
      BY <1>1, <2>1 DEF PromiseStep, PhaseIs, Run!Results
  <1>8. CASE Fail
    <2>1. pc = "failed" /\ pc' = "over" /\ opened' = opened /\ result' = "FailedRemoved"
      BY <1>8 DEF Fail, Finish
    <2>2. QED
      BY <1>1, <2>1 DEF PromiseStep, PhaseIs, Run!Results
  <1>9. CASE End
    <2>1. /\ pc = "ended" /\ pc' = "over" /\ opened' = opened
          /\ result' \in {"Converted", "FailedKept", "FailedRemoved"}
          /\ result' = "FailedKept" => packets # 0
      BY <1>9 DEF End, Finish
    <2>2. packets # 0 => Len(opened) > 0
      <3>1. (live.firstOfText <=> packets = 0) /\ (live.firstOfText <=> Len(opened) = Number(files) - 1)
            /\ (Len(opened) = Number(files) \/ Len(opened) = Number(files) - 1)
        BY <2>1 DEF ConversionInv, AnnounceInv, AtRest, Converting
      <3>2. Number(files) \in Nat \ {0}
        BY <1>3, <2>1 DEF Converting
      <3>3. QED
        BY <1>2, <3>1, <3>2
    <2>3. QED
      BY <1>1, <2>1, <2>2 DEF PromiseStep, PhaseIs, Run!Results
  <1>10. CASE BeforeWait \/ AwaitSnapshot
    <2>1. /\ pc \notin {"open", "over"} /\ pc' \notin {"open", "over"} /\ result' = result
          /\ act(waitStep(live), files, packets)
      BY <1>10 DEF BeforeWait, AwaitSnapshot
    <2>2. FilesShape(files)
      BY <1>3, <2>1 DEF Converting
    <2>3. opened' = opened
      BY <1>2, <2>1, <2>2, ActShape, StepFields
    <2>4. QED
      BY <1>1, <2>1, <2>3 DEF PromiseStep, PhaseIs
  <1>11. CASE BeforePacket
    <2>1. pc = "before" /\ pc' \in {"failed", "packet"} /\ result' = result
      BY <1>11 DEF BeforePacket
    <2>2. opened' = opened
      <3>1. CASE opened' = opened
        BY <3>1
      <3> DEFINE f == startNext(files, live.fileEnd, live.packetsInFiles, live.fileHeaders)
                 step == snapshotAt(Step)
      <3>2. CASE act(step, f, packets)
        <4>1. step.firstOfText = FALSE
          BY StepFields
        <4> HIDE DEF f, step
        <4>2. QED
          BY <3>2, <4>1 DEF act
      <3>3. QED
        BY <1>11, <3>1, <3>2 DEF BeforePacket
    <2>3. QED
      BY <1>1, <2>1, <2>2 DEF PromiseStep, PhaseIs
  <1>12. CASE Packet
    <2>1. pc = "packet" /\ pc' \in {"failed", "next", "ended"} /\ result' = result
      BY <1>12 DEF Packet
    <2>2. opened' = opened \/ Len(opened') = Len(opened) + 1
      <3>1. CASE opened' = opened
        BY <3>1
      <3> DEFINE f == writeLine(files, packets + 1)
                 l == [FilePacket(live, f) EXCEPT !.snapshotPending = TRUE]
                 step == packetStep(l)
      <3>2. CASE act(step, f, packets + 1)
        <4>1. FilesShape(f) /\ Number(f) \in Nat
          <5>1. FilesShape(files) /\ packets + 1 \in Nat
            BY <1>2, <1>3, <2>1 DEF Converting
          <5>2. FilesShape(f)
            BY <5>1, WriteLineShape
          <5> HIDE DEF f
          <5>3. QED
            BY <5>2, CurrentPart
        <4> HIDE DEF f, step
        <4>2. opened' = IF step.firstOfText /\ ~flushFailed' THEN Append(opened, Number(f)) ELSE opened
          BY <1>2, <3>2, <4>1, ActShape
        <4>3. QED
          BY <1>2, <4>1, <4>2
      <3>3. QED
        BY <1>12, <3>1, <3>2 DEF Packet
    <2>3. QED
      BY <1>1, <2>1, <2>2 DEF PromiseStep, PhaseIs
  <1>13. QED
    BY <1>4, <1>5, <1>6, <1>7, <1>8, <1>9, <1>10, <1>11, <1>12
       DEF Next, Worker, Arrive, StreamEnds, Tick, ShowSnapshot, Done, vars, streamVars

\* Each of these is a step of LiveRun, or none.
LEMMA PromiseKept ==
    ASSUME PromiseStep
    PROVE  [Run!Next]_<<Phase, Len(opened), result>>
  <1>1. CASE UNCHANGED <<Phase, opened, result>>
    BY <1>1
  <1>2. CASE Phase = "header" /\ Phase' = "packets" /\ UNCHANGED <<opened, result>>
    BY <1>2 DEF Run!Next, Run!HeaderCame, Phase
  <1>3. CASE /\ Phase = "packets" /\ Phase' = "packets" /\ result' = result
             /\ Len(opened') = Len(opened) + 1
    BY <1>3 DEF Run!Next, Run!FirstOfText, Phase
  <1>4. CASE /\ Phase # "ended" /\ Phase' = "ended" /\ opened' = opened /\ result' \in Run!Results
             /\ result' = "Stopped" => Phase = "header"
             /\ result' = "Converted" => Phase = "packets"
             /\ result' = "FailedKept" => Len(opened) > 0
    <2>1. Run!Finish(result')
      BY <1>4 DEF Run!Finish, Phase
    <2>2. QED
      BY <1>4, <2>1 DEF Run!Next
  <1>5. QED
    BY <1>1, <1>2, <1>3, <1>4 DEF PromiseStep

\* The conversion implements the LiveRun the Live Capture Session relies on: no
\* text before the header, files kept only when one was announced, one end.
THEOREM PromiseHolds == Spec => KeepsThePromise
  <1>1. Init => Run!Init
    <2>1. Init => Phase = "header" /\ Len(opened) = 0 /\ result = "None"
      BY DEF Init, Phase
    <2>2. QED
      BY <2>1 DEF Run!Init, Phase
  <1>2. ConversionInv /\ [Next]_vars => [Run!Next]_<<Phase, Len(opened), result>>
    BY PromiseSteps, PromiseKept
  <1>3. QED
    BY <1>1, <1>2, ConversionInvariant, PTL DEF Spec, KeepsThePromise, Run!Spec, Phase
=============================================================================
