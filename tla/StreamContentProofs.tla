------------------------ MODULE StreamContentProofs ------------------------
(***************************************************************************)
(* Proofs about the Stream Content Reader and the Byte Stream Orderers it  *)
(* keeps: what it shows is the stream that was sent, and it loses nothing  *)
(* that it holds, whatever the capture has of it.                          *)
(*                                                                         *)
(* A direction is at a place of the connection it reads: the bytes before  *)
(* were handed out or are missing, every segment held lies ahead.  The     *)
(* orderer's operations are loops over its segments; what a loop comes to  *)
(* is told by its turns, from the place before to the place after, and     *)
(* the sequence numbers tell the places apart as a connection lies within  *)
(* half of their space.                                                    *)
(***************************************************************************)
EXTENDS StreamContent, FoldProofs, FiniteSetTheorems, SequenceTheorems

-----------------------------------------------------------------------------
(* Sequence numbers and places.                                            *)

\* A number is a multiple of n and its rest.
LEMMA DivMod ==
    ASSUME NEW x \in Int, NEW n \in Nat \ {0}
    PROVE  x % n \in 0..(n - 1) /\ x \div n \in Int /\ x = n * (x \div n) + (x % n)
  OBVIOUS

\* No multiple of n but 0 is less than n apart from 0.
LEMMA NoMultiple ==
    ASSUME NEW m \in Int, NEW n \in Nat \ {0}, n * m < n, -n < n * m
    PROVE  m = 0
  <1>1. m >= 1 => n * m >= n
    OBVIOUS
  <1>2. m <= -1 => n * m <= -n
    OBVIOUS
  <1>3. QED
    BY <1>1, <1>2

\* The rest of a number is the one that is a multiple of n below it.
LEMMA ModIs ==
    ASSUME NEW x \in Int, NEW n \in Nat \ {0}, NEW r \in 0..(n - 1), NEW q \in Int, x = n * q + r
    PROVE  x % n = r
  <1>1. x % n \in 0..(n - 1) /\ x = n * (x \div n) + (x % n) /\ x \div n \in Int
    BY DivMod
  <1>2. PICK a \in Int : a = x \div n
    BY <1>1
  <1>3. n * (q - a) = (x % n) - r
    BY <1>1, <1>2
  <1>4. q - a = 0
    BY <1>1, <1>3, NoMultiple
  <1>5. QED
    BY <1>1, <1>3, <1>4

\* The sequence number of place p, if the first byte's is b.
SeqFor(b, p) == (b + p) % SeqSpace

\* It is a sequence number, a multiple of SeqSpace below b + p.
LEMMA SeqIs ==
    ASSUME NEW b \in SeqNumbers, NEW p \in Nat
    PROVE  SeqFor(b, p) \in SeqNumbers /\ \E k \in Int : b + p = SeqSpace * k + SeqFor(b, p)
  <1>1. SeqSpace \in Nat \ {0} /\ b + p \in Int
    BY SeqSpaceAssumption DEF SeqNumbers
  <1>2. (b + p) % SeqSpace \in 0..(SeqSpace - 1) /\ (b + p) \div SeqSpace \in Int
        /\ b + p = SeqSpace * ((b + p) \div SeqSpace) + ((b + p) % SeqSpace)
    BY <1>1, DivMod
  <1>3. QED
    BY <1>2 DEF SeqFor, SeqNumbers

\* seqAfter() tells a number.
LEMMA AfterInt ==
    ASSUME NEW x \in SeqNumbers, NEW y \in SeqNumbers
    PROVE  seqAfter(x, y) \in Int
  <1>1. x - y \in Int /\ SeqSpace \in Nat \ {0}
    BY SeqSpaceAssumption DEF SeqNumbers
  <1>2. (x - y) % SeqSpace \in 0..(SeqSpace - 1)
    BY <1>1, DivMod
  <1>3. QED
    BY <1>1, <1>2 DEF seqAfter

\* Within half the sequence space, sequence numbers are as far apart as their places.
LEMMA AfterIs ==
    ASSUME NEW b \in SeqNumbers, NEW p \in Nat, NEW q \in Nat,
           2 * (p - q) < SeqSpace, 2 * (q - p) < SeqSpace
    PROVE  seqAfter(SeqFor(b, p), SeqFor(b, q)) = p - q
  <1> DEFINE x == SeqFor(b, p)
             y == SeqFor(b, q)
             s == SeqSpace
  <1>0. s \in Nat \ {0} /\ b \in Nat
    BY SeqSpaceAssumption DEF SeqNumbers
  <1>1. PICK k \in Int : b + p = s * k + x
    BY SeqIs
  <1>2. PICK l \in Int : b + q = s * l + y
    BY SeqIs
  <1>3. x \in Int /\ y \in Int
    BY SeqIs, <1>0 DEF SeqNumbers
  <1> HIDE DEF x, y
  <1>4. x - y = (p - q) + s * (l - k)
    BY <1>0, <1>1, <1>2, <1>3
  <1>5. CASE p >= q
    <2>1. p - q \in 0..(s - 1)
      BY <1>0, <1>5
    <2>2. x - y = s * (l - k) + (p - q) /\ l - k \in Int /\ x - y \in Int
      BY <1>0, <1>3, <1>4
    <2>3. (x - y) % s = p - q
      BY <1>0, <2>1, <2>2, ModIs
    <2>4. QED
      BY <1>0, <2>3 DEF seqAfter, x, y
  <1>6. CASE p < q
    <2>1. p - q + s \in 0..(s - 1)
      BY <1>0, <1>6
    <2>2. x - y = s * (l - k - 1) + (p - q + s) /\ l - k - 1 \in Int /\ x - y \in Int
      BY <1>0, <1>3, <1>4
    <2>3. (x - y) % s = p - q + s
      BY <1>0, <2>1, <2>2, ModIs
    <2>4. ~(2 * (p - q + s) < s)
      BY <1>0
    <2>5. QED
      BY <1>0, <2>3, <2>4 DEF seqAfter, x, y
  <1>7. QED
    BY <1>5, <1>6

\* Behind len more bytes the sequence number is that of the place behind them.
LEMMA SeqAdvances ==
    ASSUME NEW b \in SeqNumbers, NEW p \in Nat, NEW len \in Nat
    PROVE  (SeqFor(b, p) + len) % SeqSpace = SeqFor(b, p + len)
  <1>0. SeqSpace \in Nat \ {0} /\ b \in Nat
    BY SeqSpaceAssumption DEF SeqNumbers
  <1>1. PICK k \in Int : b + p = SeqSpace * k + SeqFor(b, p)
    BY SeqIs
  <1>2. SeqFor(b, p) \in Int /\ p + len \in Nat
    BY SeqIs, <1>0 DEF SeqNumbers
  <1>3. PICK l \in Int : b + (p + len) = SeqSpace * l + SeqFor(b, p + len)
    BY <1>2, SeqIs
  <1>4. SeqFor(b, p + len) \in 0..(SeqSpace - 1)
    BY <1>2, SeqIs DEF SeqNumbers
  <1> DEFINE x == SeqFor(b, p)
             y == SeqFor(b, p + len)
  <1>5. x + len = SeqSpace * (l - k) + y /\ l - k \in Int /\ x + len \in Int
    <2> HIDE DEF x, y
    <2>1. b + p = SeqSpace * k + x /\ b + (p + len) = SeqSpace * l + y /\ x \in Int /\ y \in Int
      BY <1>0, <1>1, <1>2, <1>3, <1>4 DEF x, y
    <2>2. QED
      BY <1>0, <2>1
  <1> HIDE DEF x, y
  <1>6. y \in 0..(SeqSpace - 1)
    BY <1>4 DEF y
  <1>7. (x + len) % SeqSpace = y
    BY <1>0, <1>5, <1>6, ModIs
  <1>8. QED
    BY <1>7 DEF x, y

-----------------------------------------------------------------------------
(* What is held, and what was handed out, as bytes of a connection.        *)

\* A byte: its connection and its place.
Bytes == Nat \X Nat
\* Segments, and what an orderer may be.
Segs == [seq : SeqNumbers, bytes : Seq(Bytes)]
Orders == [nextSeq : SeqNumbers, early : Seq(Segs)]

-----------------------------------------------------------------------------
(* The segments held, looked at one after the other.                       *)

\* One segment looked at by popNext(), and what it made of those before.
Looks == [early : Seq(Segs), bytes : Seq(Bytes)]
Look(ord, at, segment) ==
    IF at.bytes # <<>> \/ seqAfter(segment.seq, ord.nextSeq) > 0
    THEN [at EXCEPT !.early = Append(@, segment)]
    ELSE [at EXCEPT !.bytes = SubSeq(segment.bytes, 1 - seqAfter(segment.seq, ord.nextSeq),
                                     Len(segment.bytes))]
NoneLooked == [early |-> <<>>, bytes |-> <<>>]

\* Looking at a segment keeps the type.
LEMMA LookType ==
    ASSUME NEW ord \in Orders, NEW at \in Looks, NEW segment \in Segs
    PROVE  Look(ord, at, segment) \in Looks
  <1> DEFINE a == seqAfter(segment.seq, ord.nextSeq)
  <1>1. a \in Int /\ at.early \in Seq(Segs) /\ at.bytes \in Seq(Bytes) /\ segment.bytes \in Seq(Bytes)
    BY AfterInt DEF Orders, Looks, Segs
  <1> HIDE DEF a
  <1>2. Append(at.early, segment) \in Seq(Segs)
    BY <1>1
  <1>3. a <= 0 => SubSeq(segment.bytes, 1 - a, Len(segment.bytes)) \in Seq(Bytes)
    <2>1. SUFFICES ASSUME a <= 0 PROVE SubSeq(segment.bytes, 1 - a, Len(segment.bytes)) \in Seq(Bytes)
      OBVIOUS
    <2>2. 1 - a \in Nat \ {0} /\ Len(segment.bytes) \in Nat
      BY <1>1, <2>1
    <2>3. \A i \in (1 - a)..Len(segment.bytes) : segment.bytes[i] \in Bytes
      BY <1>1, <2>2
    <2>4. QED
      BY <1>1, <2>2, <2>3
  <1>4. CASE at.bytes # <<>> \/ a > 0
    <2>1. Look(ord, at, segment) = [at EXCEPT !.early = Append(at.early, segment)]
      BY <1>4 DEF Look, a
    <2>2. QED
      BY <1>2, <2>1 DEF Looks
  <1>5. CASE ~(at.bytes # <<>> \/ a > 0)
    <2>1. Look(ord, at, segment) = [at EXCEPT !.bytes = SubSeq(segment.bytes, 1 - a, Len(segment.bytes))]
      BY <1>5 DEF Look, a
    <2>2. a <= 0
      BY <1>1, <1>5
    <2>3. QED
      BY <1>3, <2>1, <2>2 DEF Looks
  <1>6. QED
    BY <1>4, <1>5

\* popNext() looks at one segment after the other.
LEMMA LookSteps ==
    ASSUME NEW ord \in Orders
    PROVE  \E h : /\ h[0] = NoneLooked
                  /\ \A k \in 1..Len(ord.early) : h[k] = Look(ord, h[k - 1], ord.early[k])
                  /\ \A k \in 0..Len(ord.early) : h[k] \in Looks
                  /\ popNext(ord) = [order |-> [ord EXCEPT !.early = h[Len(ord.early)].early],
                                     bytes |-> h[Len(ord.early)].bytes]
  <1> DEFINE s == ord.early
             n == Len(s)
             F == [p \in (1..n) \X Looks |-> Look(ord, p[2], s[p[1]])]
             Is(g) == g = [t \in SUBSET (1..n) |-> IF t = {} THEN NoneLooked
                                                   ELSE Look(ord, g[t \ {Max(t)}], s[Max(t)])]
             G == CHOOSE g : Is(g)
             h == [k \in 0..n |-> G[1..k]]
  <1>1. s \in Seq(Segs) /\ n \in Nat /\ DOMAIN s = 1..n /\ \A i \in 1..n : s[i] \in Segs
    BY DEF Orders
  <1>2. NoneLooked \in Looks
    BY DEF NoneLooked, Looks
  <1>3. \E g : Is(g)
    <2>1. F \in [(1..n) \X Looks -> Looks]
      BY <1>1, LookType
    <2> HIDE DEF F, n, s
    <2>2. PICK g \in [SUBSET (1..n) -> Looks] : FoldsBy(g, n, NoneLooked, F)
      BY <1>1, <1>2, <2>1, FoldRuns
    <2>3. ASSUME NEW t \in SUBSET (1..n), t # {}
          PROVE  F[<<Max(t), g[t \ {Max(t)}]>>] = Look(ord, g[t \ {Max(t)}], s[Max(t)])
      <3>1. Max(t) \in 1..n
        BY <1>1, <2>3, MaxIs
      <3>2. g[t \ {Max(t)}] \in Looks
        BY <2>2
      <3>3. QED
        BY <3>1, <3>2 DEF F
    <2>4. Is(g)
      BY <2>2, <2>3 DEF FoldsBy
    <2>5. QED
      BY <2>4
  <1>4. Is(G)
    BY <1>3
  <1>5. popNext(ord) = [order |-> [ord EXCEPT !.early = G[1..n].early], bytes |-> G[1..n].bytes]
    BY <1>1 DEF popNext, FoldLeft, MapThenFoldSet, Look, NoneLooked
  <1> HIDE DEF G
  <1>6. G[1..0] = NoneLooked /\ \A k \in 1..n : G[1..k] = Look(ord, G[1..(k - 1)], s[k])
    <2> DEFINE f == [t \in SUBSET (1..n) |-> Look(ord, G[t \ {Max(t)}], s[Max(t)])]
    <2>1. G = [t \in SUBSET (1..n) |-> IF t = {} THEN NoneLooked ELSE f[t]]
      BY <1>4
    <2>2. G[1..0] = NoneLooked /\ \A k \in 1..n : G[1..k] = f[1..k]
      <3> HIDE DEF f
      <3>1. QED
        BY <1>1, <2>1, FoldUpTo
    <2>3. \A k \in 1..n : f[1..k] = Look(ord, G[1..(k - 1)], s[k])
      <3>1. SUFFICES ASSUME NEW k \in 1..n PROVE f[1..k] = Look(ord, G[1..(k - 1)], s[k])
        OBVIOUS
      <3>2. k \in Nat \ {0} /\ 1..k \in SUBSET (1..n)
        BY <1>1
      <3>3. Max(1..k) = k /\ (1..k) \ {k} = 1..(k - 1)
        BY <3>2, MaxUpTo
      <3>4. QED
        BY <3>2, <3>3
    <2>4. QED
      BY <2>2, <2>3
  <1>7. h[0] = NoneLooked /\ \A k \in 1..n : h[k] = Look(ord, h[k - 1], s[k])
    BY <1>1, <1>6
  <1>8. \A k \in 0..n : h[k] \in Looks
    <2> DEFINE T == {k \in 0..n : h[k] \in Looks}
    <2>1. 0 \in T
      BY <1>1, <1>2, <1>7
    <2>2. ASSUME NEW k \in 1..n, k - 1 \in T PROVE k \in T
      <3>1. h[k - 1] \in Looks /\ k \in 0..n /\ s[k] \in Segs /\ h[k] = Look(ord, h[k - 1], s[k])
        BY <1>1, <1>7, <2>2
      <3> HIDE DEF h
      <3>2. h[k] \in Looks
        BY <3>1, LookType
      <3>3. QED
        BY <3>1, <3>2
    <2> HIDE DEF T
    <2>3. \A k \in 0..n : k \in T
      BY <1>1, <2>1, <2>2, CountsUp
    <2>4. QED
      BY <2>3 DEF T
  <1>9. h[n] = G[1..n]
    BY <1>1
  <1> HIDE DEF h
  <1>10. QED
    BY <1>5, <1>7, <1>8, <1>9

\* The bytes of the segments held, added up.
Total(s) == FoldLeft(LAMBDA bytes, segment : bytes + Len(segment.bytes), 0, s)

\* They are added up one segment after the other.
LEMMA TotalSteps ==
    ASSUME NEW s \in Seq(Segs)
    PROVE  \E h : /\ h[0] = 0
                  /\ \A k \in 1..Len(s) : h[k] = h[k - 1] + Len(s[k].bytes)
                  /\ \A k \in 0..Len(s) : h[k] \in Nat
                  /\ Total(s) = h[Len(s)]
  <1> DEFINE n == Len(s)
             F == [p \in (1..n) \X Nat |-> p[2] + Len(s[p[1]].bytes)]
             Is(g) == g = [t \in SUBSET (1..n) |-> IF t = {} THEN 0
                                                   ELSE g[t \ {Max(t)}] + Len(s[Max(t)].bytes)]
             G == CHOOSE g : Is(g)
             h == [k \in 0..n |-> G[1..k]]
  <1>1. n \in Nat /\ DOMAIN s = 1..n /\ \A i \in 1..n : s[i] \in Segs /\ Len(s[i].bytes) \in Nat
    <2>1. n \in Nat /\ DOMAIN s = 1..n /\ \A i \in 1..n : s[i] \in Segs
      OBVIOUS
    <2>2. \A x \in Segs : Len(x.bytes) \in Nat
      BY DEF Segs
    <2>3. QED
      BY <2>1, <2>2
  <1>3. \E g : Is(g)
    <2>1. F \in [(1..n) \X Nat -> Nat]
      BY <1>1
    <2> HIDE DEF F, n
    <2>2. PICK g \in [SUBSET (1..n) -> Nat] : FoldsBy(g, n, 0, F)
      BY <1>1, <2>1, FoldRuns
    <2>3. ASSUME NEW t \in SUBSET (1..n), t # {}
          PROVE  F[<<Max(t), g[t \ {Max(t)}]>>] = g[t \ {Max(t)}] + Len(s[Max(t)].bytes)
      <3>1. Max(t) \in 1..n
        BY <1>1, <2>3, MaxIs
      <3>2. g[t \ {Max(t)}] \in Nat
        BY <2>2
      <3>3. QED
        BY <3>1, <3>2 DEF F
    <2>4. Is(g)
      BY <2>2, <2>3 DEF FoldsBy
    <2>5. QED
      BY <2>4
  <1>4. Is(G)
    BY <1>3
  <1>5. Total(s) = G[1..n]
    BY <1>1 DEF Total, FoldLeft, MapThenFoldSet
  <1> HIDE DEF G
  <1>6. G[1..0] = 0 /\ \A k \in 1..n : G[1..k] = G[1..(k - 1)] + Len(s[k].bytes)
    <2> DEFINE f == [t \in SUBSET (1..n) |-> G[t \ {Max(t)}] + Len(s[Max(t)].bytes)]
    <2>1. \A t \in SUBSET (1..n) : G[t] = IF t = {} THEN 0 ELSE f[t]
      BY <1>4
    <2>2. G[1..0] = 0 /\ \A k \in 1..n : G[1..k] = f[1..k]
      <3> HIDE DEF f, n
      <3>1. n \in Nat
        BY <1>1
      <3>2. 1..0 = {} /\ {} \in SUBSET (1..n)
        OBVIOUS
      <3>3. \A k \in 1..n : 1..k \in SUBSET (1..n) /\ 1..k # {}
        BY <3>1
      <3>4. QED
        BY <2>1, <3>2, <3>3
    <2>3. \A k \in 1..n : f[1..k] = G[1..(k - 1)] + Len(s[k].bytes)
      <3>1. SUFFICES ASSUME NEW k \in 1..n PROVE f[1..k] = G[1..(k - 1)] + Len(s[k].bytes)
        OBVIOUS
      <3>2. k \in Nat \ {0} /\ 1..k \in SUBSET (1..n)
        BY <1>1
      <3>3. Max(1..k) = k /\ (1..k) \ {k} = 1..(k - 1)
        BY <3>2, MaxUpTo
      <3>4. QED
        BY <3>2, <3>3
    <2>4. QED
      BY <2>2, <2>3
  <1>7. h[0] = 0 /\ \A k \in 1..n : h[k] = h[k - 1] + Len(s[k].bytes)
    BY <1>1, <1>6
  <1>8. \A k \in 0..n : h[k] \in Nat
    <2> DEFINE T == {k \in 0..n : h[k] \in Nat}
    <2>1. 0 \in T
      BY <1>1, <1>7
    <2>2. ASSUME NEW k \in 1..n, k - 1 \in T PROVE k \in T
      <3>1. h[k - 1] \in Nat
        BY <2>2
      <3>2. k \in 0..n /\ Len(s[k].bytes) \in Nat
        BY <1>1
      <3>3. h[k] = h[k - 1] + Len(s[k].bytes)
        BY <1>7
      <3> HIDE DEF h, n
      <3>4. QED
        BY <3>1, <3>2, <3>3
    <2> HIDE DEF T
    <2>3. \A k \in 0..n : k \in T
      BY <1>1, <2>1, <2>2, CountsUp
    <2>4. QED
      BY <2>3 DEF T
  <1>9. h[n] = G[1..n]
    BY <1>1
  <1> HIDE DEF h
  <1>10. QED
    BY <1>5, <1>7, <1>8, <1>9

\* Nothing held has no bytes.
LEMMA TotalNone == Total(<<>>) = 0
  <1>1. <<>> \in Seq(Segs) /\ Len(<<>>) = 0
    OBVIOUS
  <1>2. PICK h : h[0] = 0 /\ Total(<<>>) = h[Len(<<>>)]
    BY <1>1, TotalSteps
  <1>3. QED
    BY <1>1, <1>2

\* One segment more has its bytes more.
LEMMA TotalMore ==
    ASSUME NEW s \in Seq(Segs), NEW x \in Segs
    PROVE  /\ Total(s) \in Nat /\ Total(Append(s, x)) \in Nat
           /\ Total(Append(s, x)) = Total(s) + Len(x.bytes)
  <1> DEFINE n == Len(s)
             u == Append(s, x)
  <1>1. n \in Nat /\ u \in Seq(Segs) /\ Len(u) = n + 1 /\ u[n + 1] = x /\ \A i \in 1..n : u[i] = s[i]
    OBVIOUS
  <1> HIDE DEF n, u
  <1>2. PICK g : /\ g[0] = 0 /\ \A k \in 1..n : g[k] = g[k - 1] + Len(s[k].bytes)
                 /\ \A k \in 0..n : g[k] \in Nat
                 /\ Total(s) = g[n]
    BY TotalSteps DEF n
  <1>3. PICK h : /\ h[0] = 0 /\ \A k \in 1..(n + 1) : h[k] = h[k - 1] + Len(u[k].bytes)
                 /\ \A k \in 0..(n + 1) : h[k] \in Nat
                 /\ Total(u) = h[n + 1]
    BY <1>1, TotalSteps
  <1>4. h[n] = g[n]
    <2> DEFINE T == {k \in 0..n : h[k] = g[k]}
    <2>1. 0 \in T
      BY <1>1, <1>2, <1>3
    <2>2. ASSUME NEW k \in 1..n, k - 1 \in T PROVE k \in T
      <3>1. h[k - 1] = g[k - 1] /\ k \in 1..(n + 1) /\ k \in 0..n /\ u[k] = s[k]
        BY <1>1, <2>2
      <3>2. QED
        BY <1>2, <1>3, <3>1
    <2> HIDE DEF T
    <2>3. \A k \in 0..n : k \in T
      BY <1>1, <2>1, <2>2, CountsUp
    <2>4. QED
      BY <1>1, <2>3 DEF T
  <1>5. h[n + 1] = h[n] + Len(x.bytes)
    <2>1. n + 1 \in 1..(n + 1) /\ (n + 1) - 1 = n
      BY <1>1
    <2>2. QED
      BY <1>1, <1>3, <2>1
  <1>6. h[n + 1] \in Nat /\ g[n] \in Nat
    BY <1>1, <1>2, <1>3
  <1>7. Total(u) = Total(s) + Len(x.bytes) /\ Total(u) \in Nat /\ Total(s) \in Nat
    BY <1>2, <1>3, <1>4, <1>5, <1>6
  <1>8. QED
    BY <1>7 DEF u

\* That is what earlyBytes() tells.
LEMMA BytesHeld == ASSUME NEW ord PROVE earlyBytes(ord) = Total(ord.early)
  BY DEF earlyBytes, Total

-----------------------------------------------------------------------------
(* An orderer at a place of a connection.                                  *)

\* The bytes of connection c from place p up to before place e.
Run(c, p, e) == [i \in 1..(e - p) |-> <<c, p + i - 1>>]

\* The place of a held segment's first byte, and that behind its last one.
At(x) == x.bytes[1][2]
End(x) == At(x) + Len(x.bytes)

\* A connection whose sequence numbers can be told apart.
Fits(c, b, len) ==
    c \in Nat \ {0} /\ b \in SeqNumbers /\ len \in Nat /\ 2 * (len + 2) < SeqSpace

\* A segment is bytes of the connection, at the sequence number of their place.
SegWell(c, b, len, x) ==
    /\ x \in Segs
    /\ At(x) \in Nat /\ At(x) < End(x) /\ End(x) <= len
    /\ x.seq = SeqFor(b, At(x))
    /\ x.bytes = Run(c, At(x), End(x))

\* An orderer at place q of a connection, whose segments are of it.
OrdAt(c, b, len, ord, q) ==
    /\ ord \in Orders
    /\ q \in 0..(len + 1)
    /\ ord.nextSeq = SeqFor(b, q)
    /\ \A x \in ToSet(ord.early) : SegWell(c, b, len, x)

\* No two of a list are the same.
Distinct(s) == \A i, j \in DOMAIN s : s[i] = s[j] => i = j

\* A list with one more has that one more.
LEMMA AppendSet ==
    ASSUME NEW S, NEW s \in Seq(S), NEW x \in S
    PROVE  ToSet(Append(s, x)) = ToSet(s) \cup {x} /\ Len(Append(s, x)) = Len(s) + 1
  <1>1. Len(s) \in Nat /\ DOMAIN s = 1..Len(s)
    OBVIOUS
  <1>2. DOMAIN Append(s, x) = 1..(Len(s) + 1) /\ Len(Append(s, x)) = Len(s) + 1
        /\ Append(s, x)[Len(s) + 1] = x /\ \A i \in 1..Len(s) : Append(s, x)[i] = s[i]
    OBVIOUS
  <1> DEFINE u == Append(s, x)
             n == Len(s)
  <1>3. ToSet(u) \subseteq ToSet(s) \cup {x}
    <2>1. SUFFICES ASSUME NEW i \in 1..(n + 1) PROVE u[i] \in ToSet(s) \cup {x}
      BY <1>2 DEF ToSet
    <2>2. i = n + 1 \/ i \in 1..n
      BY <1>1
    <2>3. QED
      BY <1>1, <1>2, <2>2 DEF ToSet
  <1>4. ToSet(s) \cup {x} \subseteq ToSet(u)
    <2>1. x \in ToSet(u)
      <3>1. n + 1 \in 1..(n + 1)
        BY <1>1
      <3>2. QED
        BY <1>2, <3>1 DEF ToSet
    <2>2. ASSUME NEW i \in 1..n PROVE s[i] \in ToSet(u)
      <3>1. i \in 1..(n + 1)
        BY <1>1
      <3>2. QED
        BY <1>2, <2>2, <3>1 DEF ToSet
    <2>3. QED
      BY <1>1, <2>1, <2>2 DEF ToSet
  <1>5. QED
    BY <1>2, <1>3, <1>4

\* It has no two that are the same if the one was not in it.
LEMMA AppendDistinct ==
    ASSUME NEW S, NEW s \in Seq(S), NEW x \in S, Distinct(s), x \notin ToSet(s)
    PROVE  Distinct(Append(s, x))
  <1>1. Len(s) \in Nat /\ DOMAIN s = 1..Len(s) /\ \A i \in 1..Len(s) : s[i] # x
    BY DEF ToSet
  <1>2. DOMAIN Append(s, x) = 1..(Len(s) + 1)
        /\ Append(s, x)[Len(s) + 1] = x /\ \A i \in 1..Len(s) : Append(s, x)[i] = s[i]
    OBVIOUS
  <1>3. \A i \in 1..(Len(s) + 1) : i = Len(s) + 1 \/ i \in 1..Len(s)
    BY <1>1
  <1>4. QED
    BY <1>1, <1>2, <1>3 DEF Distinct

\* The empty list has nothing.
LEMMA EmptySet == ToSet(<<>>) = {} /\ Distinct(<<>>) /\ Len(<<>>) = 0
  BY DEF ToSet, Distinct

\* A run has a byte for every place.
LEMMA RunIs ==
    ASSUME NEW c \in Nat, NEW p \in Nat, NEW e \in Nat, p <= e
    PROVE  /\ Run(c, p, e) \in Seq(Bytes)
           /\ Len(Run(c, p, e)) = e - p
           /\ \A i \in 1..(e - p) : Run(c, p, e)[i] = <<c, p + i - 1>>
  <1>1. e - p \in Nat
    OBVIOUS
  <1>2. Run(c, p, e) \in Seq(Bytes)
    <2>1. \A i \in 1..(e - p) : <<c, p + i - 1>> \in Bytes
      <3>1. \A i \in 1..(e - p) : p + i - 1 \in Nat
        OBVIOUS
      <3>2. QED
        BY <3>1 DEF Bytes
    <2>2. Run(c, p, e) \in [1..(e - p) -> Bytes]
      BY <2>1 DEF Run
    <2>3. QED
      BY <1>1, <2>2
  <1>3. DOMAIN Run(c, p, e) = 1..(e - p)
    BY DEF Run
  <1>4. Len(Run(c, p, e)) = e - p
    BY <1>1, <1>2, <1>3
  <1>5. QED
    BY <1>2, <1>4 DEF Run

\* The rest of a run from place q on.
RestIs(c, p, e, q) ==
    /\ q < e => SubSeq(Run(c, p, e), 1 + (q - p), e - p) = Run(c, q, e)
    /\ e <= q => SubSeq(Run(c, p, e), 1 + (q - p), e - p) = <<>>

\* The rest of a run is a run, or empty if the place is behind it.
LEMMA RunRest ==
    ASSUME NEW c \in Nat, NEW p \in Nat, NEW e \in Nat, NEW q \in Nat, p <= q, p <= e
    PROVE  RestIs(c, p, e, q)
  <1> DEFINE r == Run(c, p, e)
             m == 1 + (q - p)
             n == e - p
  <1>1. m \in Nat \ {0} /\ n \in Nat /\ m \in Int /\ n \in Int
    OBVIOUS
  <1>2. ASSUME q < e PROVE SubSeq(r, m, n) = Run(c, q, e)
    <2>1. \A i \in m..n : r[i] \in Bytes
      <3>1. r \in Seq(Bytes) /\ Len(r) = n
        BY RunIs
      <3> HIDE DEF r, m, n
      <3>2. QED
        BY <1>1, <3>1
    <2>2. \A i \in 1..(e - q) : m + i - 1 \in 1..n /\ p + (m + i - 1) - 1 = q + i - 1
      OBVIOUS
    <2>3. \A i \in 1..(e - q) : r[m + i - 1] = <<c, q + i - 1>>
      <3>1. \A j \in 1..n : r[j] = <<c, p + j - 1>>
        BY RunIs
      <3> HIDE DEF r, m, n
      <3>2. QED
        BY <2>2, <3>1
    <2>4. n - m + 1 = e - q /\ m <= n /\ 1..(n - m + 1) = 1..(e - q)
      BY <1>2
    <2> HIDE DEF r, m, n
    <2>5. /\ SubSeq(r, m, n) \in Seq(Bytes) /\ Len(SubSeq(r, m, n)) = e - q
          /\ \A i \in 1..(e - q) : SubSeq(r, m, n)[i] = r[m + i - 1]
      BY <1>1, <2>1, <2>4, SubSeqProperties
    <2>6. /\ Run(c, q, e) \in Seq(Bytes) /\ Len(Run(c, q, e)) = e - q
          /\ \A i \in 1..(e - q) : Run(c, q, e)[i] = <<c, q + i - 1>>
      <3>1. q <= e
        BY <1>2
      <3>2. QED
        BY <3>1, RunIs
    <2>7. \A i \in 1..(e - q) : SubSeq(r, m, n)[i] = Run(c, q, e)[i]
      BY <2>3, <2>5, <2>6
    <2>8. QED
      BY <2>5, <2>6, <2>7, SeqEqual
  <1>3. ASSUME e <= q PROVE SubSeq(r, m, n) = <<>>
    <2>1. n < m
      BY <1>3
    <2>2. QED
      BY <1>1, <2>1, SubSeqEmpty
  <1>4. QED
    BY <1>2, <1>3 DEF RestIs

\* A segment that popNext() keeps no more: its bytes were taken, or are next.
Gone(c, q, x, bytes) == At(x) <= q /\ (End(x) <= q \/ bytes = Run(c, q, End(x)))

\* What popNext() keeps to after the first k of the segments early, whose bytes
\* are g[k] then, the bytes before place q taken.
LookInv(c, len, q, early, g, k, at) ==
    /\ at \in Looks
    /\ ToSet(at.early) \subseteq {early[j] : j \in 1..k}
    /\ \A j \in 1..k : early[j] \in ToSet(at.early) \/ Gone(c, q, early[j], at.bytes)
    /\ at.bytes = <<>> => \A x \in ToSet(at.early) : At(x) > q
    /\ at.bytes = <<>> \/ \E e \in (q + 1)..len : at.bytes = Run(c, q, e)
    /\ at.bytes # <<>> => Len(at.early) < k /\ \E j \in 1..k : At(early[j]) <= q
    /\ Len(at.early) <= k
    /\ \A j \in 1..k : At(early[j]) <= q => Len(at.early) < k
    /\ Distinct(early) => Distinct(at.early)
    /\ Total(at.early) <= g[k]

\* Where a held segment lies, by its sequence number and by its place.
LEMMA SegAhead ==
    ASSUME NEW c, NEW b, NEW len, Fits(c, b, len), NEW ord, NEW q, OrdAt(c, b, len, ord, q),
           NEW x, SegWell(c, b, len, x)
    PROVE  /\ seqAfter(x.seq, ord.nextSeq) = At(x) - q
           /\ At(x) \in Nat /\ q \in Nat /\ End(x) \in Nat /\ c \in Nat
           /\ Len(x.bytes) = End(x) - At(x)
           /\ x.bytes = Run(c, At(x), End(x))
           /\ End(x) <= len /\ At(x) < End(x)
  <1>1. At(x) \in Nat /\ At(x) < End(x) /\ End(x) <= len /\ x.seq = SeqFor(b, At(x))
        /\ x.bytes = Run(c, At(x), End(x)) /\ x.bytes \in Seq(Bytes)
    BY DEF SegWell, Segs
  <1>2. q \in 0..(len + 1) /\ ord.nextSeq = SeqFor(b, q)
    BY DEF OrdAt
  <1>3. c \in Nat \ {0} /\ b \in SeqNumbers /\ len \in Nat /\ 2 * (len + 2) < SeqSpace /\ SeqSpace \in Nat
    BY SeqSpaceAssumption DEF Fits
  <1>4. Len(x.bytes) \in Nat /\ End(x) = At(x) + Len(x.bytes)
    BY <1>1 DEF End
  <1>5. End(x) \in Nat /\ q \in Nat
    BY <1>1, <1>2, <1>3, <1>4
  <1> DEFINE a == At(x)
             e == End(x)
  <1>6. seqAfter(SeqFor(b, a), SeqFor(b, q)) = a - q
    <2>1. a \in Nat /\ e \in Nat /\ a < e /\ e <= len
      BY <1>1, <1>5
    <2> HIDE DEF a, e
    <2>2. 2 * (a - q) < SeqSpace /\ 2 * (q - a) < SeqSpace
      BY <1>2, <1>3, <2>1
    <2>3. QED
      BY <1>3, <1>5, <2>1, <2>2, AfterIs
  <1>7. Len(x.bytes) = End(x) - At(x)
    BY <1>1, <1>4
  <1>8. QED
    BY <1>1, <1>2, <1>3, <1>5, <1>6, <1>7

\* Looking at one segment more keeps to it.
LEMMA LookKeeps ==
    ASSUME NEW c, NEW b, NEW len, Fits(c, b, len), NEW ord, NEW q, OrdAt(c, b, len, ord, q),
           NEW g, NEW k \in 1..Len(ord.early), NEW at,
           g[k - 1] \in Nat, g[k] = g[k - 1] + Len(ord.early[k].bytes),
           LookInv(c, len, q, ord.early, g, k - 1, at)
    PROVE  LookInv(c, len, q, ord.early, g, k, Look(ord, at, ord.early[k]))
  <1> DEFINE s == ord.early
             x == s[k]
             new == Look(ord, at, x)
  <1>1. /\ ord \in Orders /\ s \in Seq(Segs) /\ DOMAIN s = 1..Len(s) /\ Len(s) \in Nat
        /\ k \in Nat /\ k - 1 \in Nat /\ x \in Segs
    BY DEF OrdAt, Orders
  <1>2. SegWell(c, b, len, x)
    BY <1>1 DEF OrdAt, ToSet
  <1>3. /\ seqAfter(x.seq, ord.nextSeq) = At(x) - q
        /\ At(x) \in Nat /\ q \in Nat /\ End(x) \in Nat /\ c \in Nat
        /\ Len(x.bytes) = End(x) - At(x)
        /\ x.bytes = Run(c, At(x), End(x))
        /\ End(x) <= len /\ At(x) < End(x)
    BY <1>2, SegAhead
  <1>4. at \in Looks /\ at.early \in Seq(Segs) /\ at.bytes \in Seq(Bytes) /\ Len(at.early) \in Nat
    BY DEF LookInv, Looks
  <1>5. new \in Looks
    BY <1>1, <1>4, LookType
  <1>6. \A j \in 1..k : j = k \/ j \in 1..(k - 1)
    BY <1>1
  <1>7. CASE at.bytes # <<>> \/ At(x) > q
    <2>1. at.bytes # <<>> \/ seqAfter(x.seq, ord.nextSeq) > 0
      BY <1>3, <1>7
    <2>2. new = [at EXCEPT !.early = Append(at.early, x)]
      BY <2>1 DEF Look
    <2>3. new.early = Append(at.early, x) /\ new.bytes = at.bytes
      BY <1>4, <2>2 DEF Looks
    <2>4. ToSet(new.early) = ToSet(at.early) \cup {x} /\ Len(new.early) = Len(at.early) + 1
      BY <1>1, <1>4, <2>3, AppendSet
    <2>5. ToSet(new.early) \subseteq {s[j] : j \in 1..k}
      <3>1. ToSet(at.early) \subseteq {s[j] : j \in 1..(k - 1)}
        BY DEF LookInv
      <3>2. k \in 1..k /\ \A j \in 1..(k - 1) : j \in 1..k
        BY <1>1
      <3>3. QED
        BY <2>4, <3>1, <3>2
    <2>6. \A j \in 1..k : s[j] \in ToSet(new.early) \/ Gone(c, q, s[j], new.bytes)
      BY <1>6, <2>3, <2>4 DEF LookInv
    <2>7. new.bytes = <<>> => \A y \in ToSet(new.early) : At(y) > q
      BY <1>7, <2>3, <2>4 DEF LookInv
    <2>8. new.bytes = <<>> \/ \E e \in (q + 1)..len : new.bytes = Run(c, q, e)
      BY <2>3 DEF LookInv
    <2>9. Len(new.early) <= k
      BY <1>1, <1>4, <2>4 DEF LookInv
    <2>10. \A j \in 1..k : At(s[j]) <= q => Len(new.early) < k
      <3>1. ASSUME NEW j \in 1..(k - 1), At(s[j]) <= q PROVE Len(new.early) < k
        <4>1. Len(at.early) < k - 1
          BY <3>1 DEF LookInv
        <4>2. QED
          BY <1>1, <1>4, <2>4, <4>1
      <3>2. ASSUME At(x) <= q PROVE Len(new.early) < k
        <4>1. at.bytes # <<>>
          BY <1>3, <1>7, <3>2
        <4>2. Len(at.early) < k - 1
          BY <4>1 DEF LookInv
        <4>3. QED
          BY <1>1, <1>4, <2>4, <4>2
      <3>3. QED
        BY <1>6, <3>1, <3>2
    <2>11. Distinct(s) => Distinct(new.early)
      <3>1. SUFFICES ASSUME Distinct(s) PROVE Distinct(new.early)
        OBVIOUS
      <3>2. x \notin ToSet(at.early)
        <4>1. \A j \in 1..(k - 1) : j \in DOMAIN s /\ k \in DOMAIN s /\ j # k
          BY <1>1
        <4>2. \A j \in 1..(k - 1) : s[j] # x
          BY <3>1, <4>1 DEF Distinct
        <4>3. QED
          BY <4>2 DEF LookInv
      <3>3. Distinct(at.early)
        BY <3>1 DEF LookInv
      <3>4. QED
        BY <1>1, <1>4, <2>3, <3>2, <3>3, AppendDistinct
    <2>12. Total(new.early) <= g[k]
      <3>1. Total(at.early) \in Nat /\ Total(new.early) = Total(at.early) + Len(x.bytes)
        BY <1>1, <1>4, <2>3, TotalMore
      <3>2. Total(at.early) <= g[k - 1] /\ Len(x.bytes) \in Nat
        BY <1>3 DEF LookInv
      <3>3. QED
        BY <3>1, <3>2
    <2>13. new.bytes # <<>> => Len(new.early) < k /\ \E j \in 1..k : At(s[j]) <= q
      <3>1. SUFFICES ASSUME at.bytes # <<>> PROVE Len(new.early) < k /\ \E j \in 1..k : At(s[j]) <= q
        BY <2>3
      <3>2. Len(at.early) < k - 1 /\ \E j \in 1..(k - 1) : At(s[j]) <= q
        BY <3>1 DEF LookInv
      <3>3. \A j \in 1..(k - 1) : j \in 1..k
        BY <1>1
      <3>4. QED
        BY <1>1, <1>4, <2>4, <3>2, <3>3
    <2>14. QED
      BY <1>5, <2>5, <2>6, <2>7, <2>8, <2>9, <2>10, <2>11, <2>12, <2>13 DEF LookInv
  <1>8. CASE ~(at.bytes # <<>> \/ At(x) > q)
    <2>1. ~(at.bytes # <<>> \/ seqAfter(x.seq, ord.nextSeq) > 0) /\ At(x) <= q
      BY <1>3, <1>8
    <2>2. new = [at EXCEPT !.bytes = SubSeq(x.bytes, 1 - (At(x) - q), Len(x.bytes))]
      BY <1>3, <2>1 DEF Look
    <2>3. new.early = at.early /\ new.bytes = SubSeq(x.bytes, 1 + (q - At(x)), End(x) - At(x))
      <3>1. 1 - (At(x) - q) = 1 + (q - At(x))
        BY <1>3
      <3>2. QED
        BY <1>3, <1>4, <2>2, <3>1 DEF Looks
    <2>4. (q < End(x) => new.bytes = Run(c, q, End(x))) /\ (End(x) <= q => new.bytes = <<>>)
      <3> DEFINE a == At(x)
                 e == End(x)
      <3>1. a \in Nat /\ e \in Nat /\ c \in Nat /\ q \in Nat /\ a <= q /\ a <= e
        BY <1>3, <2>1
      <3>2. new.bytes = SubSeq(Run(c, a, e), 1 + (q - a), e - a)
        BY <1>3, <2>3
      <3> HIDE DEF a, e, new
      <3>3. RestIs(c, a, e, q)
        BY <3>1, RunRest
      <3>4. QED
        BY <3>2, <3>3 DEF e, RestIs
    <2>5. ToSet(new.early) \subseteq {s[j] : j \in 1..k}
      <3>1. ToSet(at.early) \subseteq {s[j] : j \in 1..(k - 1)}
        BY DEF LookInv
      <3>2. \A j \in 1..(k - 1) : j \in 1..k
        BY <1>1
      <3>3. QED
        BY <2>3, <3>1, <3>2
    <2>6. ASSUME NEW j \in 1..k PROVE s[j] \in ToSet(new.early) \/ Gone(c, q, s[j], new.bytes)
      <3>1. CASE j = k
        BY <1>3, <2>1, <2>4, <3>1 DEF Gone
      <3>2. CASE j \in 1..(k - 1) /\ s[j] \notin ToSet(at.early)
        <4>1. Gone(c, q, s[j], <<>>)
          BY <1>8, <3>2 DEF LookInv
        <4>2. SegWell(c, b, len, s[j])
          BY <1>1, <3>2 DEF OrdAt, ToSet
        <4>3. End(s[j]) \in Nat
          BY <4>2, SegAhead
        <4>4. ASSUME q < End(s[j]) PROVE <<>> # Run(c, q, End(s[j]))
          <5>1. q <= End(s[j])
            BY <1>3, <4>3, <4>4
          <5>2. Len(Run(c, q, End(s[j]))) = End(s[j]) - q
            BY <1>3, <4>3, <5>1, RunIs
          <5>3. End(s[j]) - q # 0 /\ Len(<<>>) = 0
            BY <1>3, <4>3, <4>4
          <5>4. QED
            BY <5>2, <5>3
        <4>5. At(s[j]) <= q /\ End(s[j]) <= q
          BY <1>3, <4>1, <4>3, <4>4 DEF Gone
        <4>6. QED
          BY <4>5 DEF Gone
      <3>3. QED
        BY <1>6, <2>3, <3>1, <3>2
    <2>7. new.bytes = <<>> => \A y \in ToSet(new.early) : At(y) > q
      BY <1>8, <2>3 DEF LookInv
    <2>8. new.bytes = <<>> \/ \E e \in (q + 1)..len : new.bytes = Run(c, q, e)
      <3>1. CASE End(x) <= q
        BY <2>4, <3>1
      <3>2. CASE q < End(x)
        <4>1. End(x) \in (q + 1)..len
          BY <1>3, <3>2 DEF Fits
        <4>2. QED
          BY <2>4, <3>2, <4>1
      <3>3. QED
        BY <1>3, <3>1, <3>2
    <2>9. Len(new.early) < k /\ \E j \in 1..k : At(s[j]) <= q
      <3>1. Len(at.early) <= k - 1
        BY DEF LookInv
      <3>2. k \in 1..k
        BY <1>1
      <3>3. QED
        BY <1>1, <1>4, <2>1, <2>3, <3>1, <3>2
    <2>10. Len(new.early) <= k
      BY <1>1, <1>4, <2>3, <2>9
    <2>11. Distinct(s) => Distinct(new.early)
      BY <2>3 DEF LookInv
    <2>12. Total(new.early) <= g[k]
      <3>1. at.early \in Seq(Segs) /\ Total(at.early) \in Nat
        BY <1>1, <1>4, TotalMore
      <3>2. Total(at.early) <= g[k - 1] /\ Len(x.bytes) \in Nat
        BY <1>3 DEF LookInv
      <3>3. QED
        BY <2>3, <3>1, <3>2
    <2>13. QED
      BY <1>5, <2>5, <2>6, <2>7, <2>8, <2>9, <2>10, <2>11, <2>12 DEF LookInv
  <1>9. QED
    BY <1>7, <1>8

\* popNext() keeps the held segments whose turn is still to come.
Popped(c, b, len, ord, q, p) ==
    /\ p.order \in Orders /\ p.bytes \in Seq(Bytes)
    /\ p.order.nextSeq = ord.nextSeq
    /\ ToSet(p.order.early) \subseteq ToSet(ord.early)
    /\ \A x \in ToSet(ord.early) : x \in ToSet(p.order.early) \/ Gone(c, q, x, p.bytes)
    /\ p.bytes = <<>> => \A x \in ToSet(p.order.early) : At(x) > q
    /\ p.bytes = <<>> \/ \E e \in (q + 1)..len : p.bytes = Run(c, q, e)
    /\ p.bytes # <<>> => Len(p.order.early) < Len(ord.early) /\ \E x \in ToSet(ord.early) : At(x) <= q
    /\ Len(p.order.early) <= Len(ord.early)
    /\ (\E x \in ToSet(ord.early) : At(x) <= q) => Len(p.order.early) < Len(ord.early)
    /\ Distinct(ord.early) => Distinct(p.order.early)
    /\ Total(p.order.early) <= Total(ord.early)

\* It does so: what it drops was taken, what it returns is next.
LEMMA PopNextKeeps ==
    ASSUME NEW c, NEW b, NEW len, Fits(c, b, len), NEW ord, NEW q, OrdAt(c, b, len, ord, q)
    PROVE  Popped(c, b, len, ord, q, popNext(ord))
  <1> DEFINE s == ord.early
             n == Len(s)
  <1>1. ord \in Orders /\ s \in Seq(Segs) /\ DOMAIN s = 1..n /\ n \in Nat /\ ToSet(s) = {s[j] : j \in 1..n}
    BY DEF OrdAt, Orders, ToSet
  <1>2. PICK h : /\ h[0] = NoneLooked
                 /\ \A k \in 1..n : h[k] = Look(ord, h[k - 1], s[k])
                 /\ popNext(ord) = [order |-> [ord EXCEPT !.early = h[n].early], bytes |-> h[n].bytes]
    BY <1>1, LookSteps
  <1>3. PICK g : /\ g[0] = 0
                 /\ \A k \in 1..n : g[k] = g[k - 1] + Len(s[k].bytes)
                 /\ \A k \in 0..n : g[k] \in Nat
                 /\ Total(s) = g[n]
    BY <1>1, TotalSteps
  <1>4. LookInv(c, len, q, s, g, 0, h[0])
    <2>1. h[0].early = <<>> /\ h[0].bytes = <<>> /\ h[0] \in Looks
      BY <1>2 DEF NoneLooked, Looks
    <2>2. ToSet(<<>>) = {} /\ Distinct(<<>>) /\ Len(<<>>) = 0 /\ Total(<<>>) = 0 /\ 1..0 = {}
      BY EmptySet, TotalNone
    <2>3. QED
      BY <1>3, <2>1, <2>2 DEF LookInv
  <1>5. ASSUME NEW k \in 1..n, LookInv(c, len, q, s, g, k - 1, h[k - 1])
        PROVE  LookInv(c, len, q, s, g, k, h[k])
    <2>1. k - 1 \in 0..n
      BY <1>1
    <2>2. g[k - 1] \in Nat /\ g[k] = g[k - 1] + Len(s[k].bytes) /\ h[k] = Look(ord, h[k - 1], s[k])
      BY <1>2, <1>3, <2>1
    <2>3. LookInv(c, len, q, s, g, k, Look(ord, h[k - 1], s[k]))
      BY <1>5, <2>2, LookKeeps
    <2>4. QED
      BY <2>2, <2>3
  <1>6. LookInv(c, len, q, s, g, n, h[n])
    <2> DEFINE T == {k \in 0..n : LookInv(c, len, q, s, g, k, h[k])}
    <2>1. 0 \in T
      BY <1>1, <1>4
    <2>2. \A k \in 1..n : k - 1 \in T => k \in T
      <3>1. \A k \in 1..n : k \in 0..n
        BY <1>1
      <3>2. QED
        BY <1>5, <3>1
    <2> HIDE DEF T
    <2>3. \A k \in 0..n : k \in T
      <3> HIDE DEF n
      <3>1. QED
        BY <1>1, <2>1, <2>2, CountsUp
    <2>4. n \in 0..n
      BY <1>1
    <2>5. n \in T
      BY <2>3, <2>4
    <2>6. QED
      BY <2>5 DEF T
  <1> DEFINE p == popNext(ord)
  <1>7. p.order \in Orders /\ p.bytes \in Seq(Bytes) /\ p.order.nextSeq = ord.nextSeq
        /\ p.order.early = h[n].early /\ p.bytes = h[n].bytes
    BY <1>1, <1>2, <1>6 DEF LookInv, Looks, Orders
  <1>8. ToSet(p.order.early) \subseteq ToSet(s)
    BY <1>1, <1>6, <1>7 DEF LookInv
  <1>9. \A x \in ToSet(s) : x \in ToSet(p.order.early) \/ Gone(c, q, x, p.bytes)
    BY <1>1, <1>6, <1>7 DEF LookInv
  <1>10. /\ p.bytes = <<>> => \A x \in ToSet(p.order.early) : At(x) > q
         /\ p.bytes = <<>> \/ \E e \in (q + 1)..len : p.bytes = Run(c, q, e)
         /\ Len(p.order.early) <= n
         /\ Distinct(s) => Distinct(p.order.early)
    BY <1>6, <1>7 DEF LookInv
  <1>11. (\E x \in ToSet(s) : At(x) <= q) => Len(p.order.early) < n
    BY <1>1, <1>6, <1>7 DEF LookInv
  <1>15. p.bytes # <<>> => Len(p.order.early) < n /\ \E x \in ToSet(s) : At(x) <= q
    BY <1>1, <1>6, <1>7 DEF LookInv
  <1>12. Total(p.order.early) <= Total(s)
    BY <1>3, <1>6, <1>7 DEF LookInv
  <1> HIDE DEF p
  <1>13. Popped(c, b, len, ord, q, p)
    BY <1>7, <1>8, <1>9, <1>10, <1>11, <1>12, <1>15 DEF Popped
  <1>14. QED
    BY <1>13 DEF p

-----------------------------------------------------------------------------
(* A direction at a place of a connection.                                 *)

\* A direction: its orderer and what the sink was given.
Sides == [order : Orders, out : Seq(Bytes)]

\* What the sink was given is in order, as OutIsTheStream says.
InOrder(s) ==
    \A i, j \in DOMAIN s :
        i < j /\ Missing \notin {s[i], s[j]} /\ s[i][1] = s[j][1] => s[j][2] - s[i][2] = j - i

\* What was given ends before place q of connection c.
OutAt(c, s, q) ==
    /\ InOrder(s)
    /\ \A i \in DOMAIN s : s[i][1] <= c
    /\ \A i \in DOMAIN s : s[i][1] = c => s[i][2] = q - 1 - (Len(s) - i)

\* What follows the bytes up to place q is those up to before place e, or as many missing ones.
Follows(c, s, q, r, e) ==
    /\ r \in Seq(Bytes) /\ Len(r) = e - q
    /\ \A i \in 1..(e - q) : r[i] = <<c, q + i - 1>> \/ r[i] = Missing

\* What was given is in order still when it is given what follows.
LEMMA OutFollows ==
    ASSUME NEW c \in Nat \ {0}, NEW s \in Seq(Bytes), NEW q \in Nat, NEW e \in Nat, q <= e,
           NEW r, Follows(c, s, q, r, e), OutAt(c, s, q)
    PROVE  s \o r \in Seq(Bytes) /\ OutAt(c, s \o r, e) /\ ToSet(s \o r) = ToSet(s) \cup ToSet(r)
  <1> DEFINE n == Len(s)
             m == e - q
             u == s \o r
  <1>1. n \in Nat /\ m \in Nat /\ DOMAIN s = 1..n /\ r \in Seq(Bytes) /\ Len(r) = m /\ DOMAIN r = 1..m
    BY DEF Follows
  <1>2. u \in Seq(Bytes) /\ Len(u) = n + m
        /\ \A i \in 1..(n + m) : u[i] = IF i <= n THEN s[i] ELSE r[i - n]
    <2>1. s \in Seq(Bytes) /\ r \in Seq(Bytes)
      BY <1>1
    <2>2. /\ s \o r \in Seq(Bytes)
          /\ Len(s \o r) = Len(s) + Len(r)
          /\ \A i \in 1 .. Len(s) + Len(r) : (s \o r)[i] = IF i <= Len(s) THEN s[i] ELSE r[i - Len(s)]
      BY <2>1, ConcatProperties
    <2>3. QED
      BY <1>1, <2>2
  <1> HIDE DEF u, n, m
  <1>3. DOMAIN u = 1..(n + m)
    BY <1>2
  <1>4. \A i \in 1..n : i \in 1..(n + m) /\ u[i] = s[i] /\ s[i][1] \in Nat /\ s[i][2] \in Nat
    <2>1. \A i \in 1..n : s[i] \in Bytes /\ i \in 1..(n + m)
      BY <1>1 DEF n
    <2>2. QED
      BY <1>1, <1>2, <2>1 DEF Bytes
  <1>5. \A i \in 1..m : n + i \in 1..(n + m) /\ u[n + i] = r[i] /\ (r[i] = <<c, q + i - 1>> \/ r[i] = Missing)
    <2>1. \A i \in 1..m : n + i \in 1..(n + m)
      BY <1>1
    <2>2. ASSUME NEW i \in 1..m PROVE u[n + i] = r[i]
      <3>1. n + i \in 1..(n + m) /\ ~(n + i <= n) /\ (n + i) - n = i
        BY <1>1
      <3>2. u[n + i] = r[(n + i) - n]
        BY <1>2, <3>1
      <3>3. QED
        BY <3>1, <3>2
    <2>3. \A i \in 1..m : r[i] = <<c, q + i - 1>> \/ r[i] = Missing
      BY DEF Follows, m
    <2>4. QED
      BY <2>1, <2>2, <2>3
  <1>6. \A i \in 1..(n + m) : i \in 1..n \/ \E k \in 1..m : i = n + k
    <2>1. SUFFICES ASSUME NEW i \in 1..(n + m), i \notin 1..n PROVE \E k \in 1..m : i = n + k
      OBVIOUS
    <2>2. i - n \in 1..m /\ i = n + (i - n)
      BY <1>1, <2>1
    <2>3. QED
      BY <2>2
  <1>7. ToSet(u) = ToSet(s) \cup ToSet(r)
    <2>1. ToSet(u) \subseteq ToSet(s) \cup ToSet(r)
      <3>1. SUFFICES ASSUME NEW i \in 1..(n + m) PROVE u[i] \in ToSet(s) \cup ToSet(r)
        BY <1>3 DEF ToSet
      <3>2. CASE i \in 1..n
        <4>1. u[i] = s[i] /\ i \in DOMAIN s
          BY <1>1, <1>4, <3>2 DEF n
        <4>2. QED
          BY <4>1 DEF ToSet
      <3>3. CASE \E k \in 1..m : i = n + k
        <4>1. PICK k \in 1..m : i = n + k
          BY <3>3
        <4>2. u[i] = r[k] /\ k \in DOMAIN r
          BY <1>1, <1>5, <4>1
        <4>3. QED
          BY <4>2 DEF ToSet
      <3>4. QED
        BY <1>6, <3>2, <3>3
    <2>2. ToSet(s) \subseteq ToSet(u)
      BY <1>1, <1>3, <1>4 DEF ToSet, n
    <2>3. ToSet(r) \subseteq ToSet(u)
      <3>1. SUFFICES ASSUME NEW k \in 1..m PROVE r[k] \in ToSet(u)
        BY <1>1 DEF ToSet
      <3>2. QED
        BY <1>3, <1>5 DEF ToSet
    <2>4. QED
      BY <2>1, <2>2, <2>3
  <1>8. \A i \in 1..m : r[i] = Missing \/ (r[i][1] = c /\ r[i][2] = q + i - 1 /\ r[i] # Missing)
    BY <1>5 DEF Missing
  <1>9. \A i \in 1..(n + m) : u[i][1] <= c
    <2>1. \A i \in 1..n : s[i][1] <= c
      BY <1>1 DEF OutAt, n
    <2>2. \A i \in 1..m : r[i][1] <= c
      BY <1>8 DEF Missing
    <2>3. QED
      BY <1>4, <1>5, <1>6, <2>1, <2>2
  <1>10. ASSUME NEW i \in 1..(n + m), u[i][1] = c PROVE u[i][2] = e - 1 - ((n + m) - i)
    <2>1. CASE i \in 1..n
      <3>1. s[i][1] = c => s[i][2] = q - 1 - (n - i)
        BY <1>1, <2>1 DEF OutAt, n
      <3>2. s[i][2] = q - 1 - (n - i)
        BY <1>4, <1>10, <2>1, <3>1
      <3>3. q - 1 - (n - i) = e - 1 - ((n + m) - i)
        BY <1>1, <2>1 DEF m
      <3>4. QED
        BY <1>4, <2>1, <3>2, <3>3
    <2>2. CASE \E k \in 1..m : i = n + k
      <3>1. PICK k \in 1..m : i = n + k
        BY <2>2
      <3>2. r[k][2] = q + k - 1
        <4>1. r[k] # Missing
          BY <1>5, <1>10, <3>1 DEF Missing
        <4>2. QED
          BY <1>8, <4>1
      <3>3. q + k - 1 = e - 1 - ((n + m) - (n + k))
        BY <1>1 DEF m
      <3>4. QED
        BY <1>5, <3>1, <3>2, <3>3
    <2>3. QED
      BY <1>6, <2>1, <2>2
  <1>11. InOrder(u)
    <2>1. SUFFICES ASSUME NEW i \in 1..(n + m), NEW j \in 1..(n + m), i < j,
                          Missing # u[i], Missing # u[j], u[i][1] = u[j][1]
                   PROVE  u[j][2] - u[i][2] = j - i
      BY <1>3 DEF InOrder
    <2>2. CASE j \in 1..n
      <3>1. i \in 1..n
        BY <1>1, <2>1, <2>2
      <3>2. i \in DOMAIN s /\ j \in DOMAIN s
        BY <1>1, <2>2, <3>1 DEF n
      <3>3. u[i] = s[i] /\ u[j] = s[j]
        BY <1>4, <2>2, <3>1
      <3>4. QED
        BY <2>1, <3>2, <3>3 DEF OutAt, InOrder
    <2>3. CASE \E k \in 1..m : j = n + k
      <3>1. u[j][1] = c
        BY <1>5, <1>8, <2>1, <2>3
      <3>2. u[i][1] = c
        BY <2>1, <3>1
      <3>3. u[j][2] = e - 1 - ((n + m) - j) /\ u[i][2] = e - 1 - ((n + m) - i)
        BY <1>10, <3>1, <3>2
      <3>4. QED
        BY <1>1, <3>3
    <2>4. QED
      BY <1>6, <2>2, <2>3
  <1>12. OutAt(c, u, e)
    BY <1>2, <1>3, <1>9, <1>10, <1>11 DEF OutAt
  <1>13. QED
    BY <1>2, <1>7, <1>12 DEF u

\* The bytes of a run are those of its places.
LEMMA RunSet ==
    ASSUME NEW c \in Nat, NEW p \in Nat, NEW e \in Nat, p <= e
    PROVE  /\ \A r \in p..(e - 1) : <<c, r>> \in ToSet(Run(c, p, e))
           /\ \A y \in ToSet(Run(c, p, e)) : \E r \in p..(e - 1) : y = <<c, r>>
  <1>1. DOMAIN Run(c, p, e) = 1..(e - p) /\ \A i \in 1..(e - p) : Run(c, p, e)[i] = <<c, p + i - 1>>
    BY RunIs DEF Run
  <1>2. ASSUME NEW r \in p..(e - 1) PROVE <<c, r>> \in ToSet(Run(c, p, e))
    <2>1. r - p + 1 \in 1..(e - p) /\ p + (r - p + 1) - 1 = r
      OBVIOUS
    <2>2. Run(c, p, e)[r - p + 1] = <<c, r>>
      BY <1>1, <2>1
    <2>3. QED
      BY <1>1, <2>1, <2>2 DEF ToSet
  <1>3. ASSUME NEW y \in ToSet(Run(c, p, e)) PROVE \E r \in p..(e - 1) : y = <<c, r>>
    <2>1. PICK i \in 1..(e - p) : y = Run(c, p, e)[i]
      BY <1>1 DEF ToSet
    <2>2. p + i - 1 \in p..(e - 1)
      OBVIOUS
    <2>3. QED
      BY <1>1, <2>1, <2>2
  <1>4. QED
    BY <1>2, <1>3

\* A run of the connection follows.
LEMMA RunFollows ==
    ASSUME NEW c \in Nat \ {0}, NEW s, NEW q \in Nat, NEW e \in Nat, q <= e
    PROVE  Follows(c, s, q, Run(c, q, e), e)
  <1>1. c \in Nat
    OBVIOUS
  <1>2. /\ Run(c, q, e) \in Seq(Bytes)
        /\ Len(Run(c, q, e)) = e - q
        /\ \A i \in 1..(e - q) : Run(c, q, e)[i] = <<c, q + i - 1>>
    BY <1>1, RunIs
  <1>3. QED
    BY <1>2 DEF Follows

\* The bytes a direction has: handed out, or held.
Got(s) == (ToSet(s.out) \ {Missing}) \cup UNION {ToSet(x.bytes) : x \in ToSet(s.order.early)}

\* A direction at place q of a connection; of a held segment that begins before it,
\* the bytes before it were handed out.
SideAt(c, b, len, s, q) ==
    /\ s \in Sides
    /\ OrdAt(c, b, len, s.order, q)
    /\ OutAt(c, s.out, q)
    /\ \A x \in ToSet(s.order.early) : \A r \in At(x)..(End(x) - 1) : r < q => <<c, r>> \in ToSet(s.out)

\* Every held segment waits for bytes before it.
Waits(s, q) == \A x \in ToSet(s.order.early) : At(x) > q

\* t has what s has, and holds no more than it.
Keeps(s, t) ==
    /\ Got(s) \subseteq Got(t)
    /\ ToSet(t.order.early) \subseteq ToSet(s.order.early)
    /\ Len(t.order.early) <= Len(s.order.early)
    /\ Total(t.order.early) <= Total(s.order.early)
    /\ Distinct(s.order.early) => Distinct(t.order.early)

\* popNext(), and its bytes handed out.
PopStep(s) ==
    LET popped == popNext(s.order)
    IN  [order |-> advance(popped.order, Len(popped.bytes)), out |-> s.out \o popped.bytes]

\* The types of a direction's parts.
LEMMA LenOf ==
    ASSUME NEW s \in Sides
    PROVE  /\ s.order \in Orders /\ s.out \in Seq(Bytes) /\ s.order.early \in Seq(Segs)
           /\ Len(s.order.early) \in Nat /\ Total(s.order.early) \in Nat /\ s.order.nextSeq \in SeqNumbers
  <1>1. s.order \in Orders /\ s.out \in Seq(Bytes) /\ s.order.early \in Seq(Segs) /\ s.order.nextSeq \in SeqNumbers
    BY DEF Sides, Orders
  <1>2. \E x : x \in Segs
    <2>1. [seq |-> s.order.nextSeq, bytes |-> <<>>] \in Segs
      BY <1>1 DEF Segs
    <2>2. QED
      BY <2>1
  <1>3. Total(s.order.early) \in Nat
    BY <1>1, <1>2, TotalMore
  <1>4. QED
    BY <1>1, <1>3

\* That holds over two steps if over each, ...
LEMMA KeepsTrans ==
    ASSUME NEW s \in Sides, NEW t \in Sides, NEW u \in Sides, Keeps(s, t), Keeps(t, u)
    PROVE  Keeps(s, u)
  <1>1. /\ Len(s.order.early) \in Nat /\ Total(s.order.early) \in Nat
        /\ Len(t.order.early) \in Nat /\ Total(t.order.early) \in Nat
        /\ Len(u.order.early) \in Nat /\ Total(u.order.early) \in Nat
    BY LenOf
  <1>2. /\ Got(s) \subseteq Got(t) /\ Got(t) \subseteq Got(u)
        /\ ToSet(t.order.early) \subseteq ToSet(s.order.early)
        /\ ToSet(u.order.early) \subseteq ToSet(t.order.early)
        /\ Distinct(s.order.early) => Distinct(t.order.early)
        /\ Distinct(t.order.early) => Distinct(u.order.early)
    BY DEF Keeps
  <1>3. Got(s) \subseteq Got(u) /\ ToSet(u.order.early) \subseteq ToSet(s.order.early)
    BY <1>2
  <1>4. Distinct(s.order.early) => Distinct(u.order.early)
    BY <1>2
  <1>5. /\ Len(t.order.early) <= Len(s.order.early) /\ Len(u.order.early) <= Len(t.order.early)
        /\ Total(t.order.early) <= Total(s.order.early) /\ Total(u.order.early) <= Total(t.order.early)
    BY DEF Keeps
  <1>6. Len(u.order.early) <= Len(s.order.early)
    <2> DEFINE a == Len(u.order.early)
               b == Len(t.order.early)
               c == Len(s.order.early)
    <2>1. a \in Nat /\ b \in Nat /\ c \in Nat /\ a <= b /\ b <= c
      BY <1>1, <1>5
    <2> HIDE DEF a, b, c
    <2>2. a <= c
      BY <2>1
    <2>3. QED
      BY <2>2 DEF a, c
  <1>7. Total(u.order.early) <= Total(s.order.early)
    <2> DEFINE a == Total(u.order.early)
               b == Total(t.order.early)
               c == Total(s.order.early)
    <2>1. a \in Nat /\ b \in Nat /\ c \in Nat /\ a <= b /\ b <= c
      BY <1>1, <1>5
    <2> HIDE DEF a, b, c
    <2>2. a <= c
      BY <2>1
    <2>3. QED
      BY <2>2 DEF a, c
  <1>8. QED
    BY <1>3, <1>4, <1>6, <1>7 DEF Keeps

\* ... and over none.
LEMMA KeepsSelf == ASSUME NEW s \in Sides PROVE Keeps(s, s)
  BY LenOf DEF Keeps

\* Popping keeps the type.
LEMMA PopStepType == ASSUME NEW s \in Sides PROVE PopStep(s) \in Sides
  <1> DEFINE p == popNext(s.order)
  <1>1. s.order \in Orders /\ s.out \in Seq(Bytes) /\ Len(s.order.early) \in Nat
    BY LenOf
  <1>2. p.order \in Orders /\ p.bytes \in Seq(Bytes)
    <2> DEFINE n == Len(s.order.early)
    <2>1. PICK h : /\ \A k \in 0..n : h[k] \in Looks
                   /\ p = [order |-> [s.order EXCEPT !.early = h[n].early], bytes |-> h[n].bytes]
      BY <1>1, LookSteps
    <2>2. h[n] \in Looks
      BY <1>1, <2>1
    <2>3. h[n].early \in Seq(Segs) /\ h[n].bytes \in Seq(Bytes)
      BY <2>2 DEF Looks
    <2> HIDE DEF n, p
    <2>4. p.order = [s.order EXCEPT !.early = h[n].early] /\ p.bytes = h[n].bytes
      BY <2>1
    <2>5. QED
      BY <1>1, <2>3, <2>4 DEF Orders
  <1> HIDE DEF p
  <1>3. s.out \o p.bytes \in Seq(Bytes) /\ Len(p.bytes) \in Nat
    BY <1>1, <1>2, ConcatProperties
  <1>4. advance(p.order, Len(p.bytes)) \in Orders
    <2>1. p.order.nextSeq \in Nat /\ SeqSpace \in Nat \ {0}
      BY <1>2, SeqSpaceAssumption DEF Orders, SeqNumbers
    <2>2. (p.order.nextSeq + Len(p.bytes)) % SeqSpace \in 0..(SeqSpace - 1)
      <3>1. PICK x : x = p.order.nextSeq + Len(p.bytes)
        OBVIOUS
      <3>2. x \in Int
        BY <1>3, <2>1, <3>1
      <3>3. x % SeqSpace \in 0..(SeqSpace - 1)
        BY <2>1, <3>2, DivMod
      <3>4. QED
        BY <3>1, <3>3
    <2>3. QED
      BY <1>2, <2>2 DEF advance, Orders, SeqNumbers
  <1>5. QED
    BY <1>3, <1>4 DEF PopStep, Sides, p

\* What one segment popped comes to, at place e then.
PopsTo(c, b, len, s, q, t, e) ==
    /\ e \in q..(len + 1)
    /\ SideAt(c, b, len, t, e)
    /\ Keeps(s, t)
    /\ Waits(s, q) => Waits(t, e)
    /\ Waits(t, e) \/ Len(t.order.early) < Len(s.order.early)
    /\ ~Waits(s, q) => Len(t.order.early) < Len(s.order.early)

\* The bytes of a held segment.
LEMMA SegSet ==
    ASSUME NEW c, NEW b, NEW len, Fits(c, b, len), NEW x, SegWell(c, b, len, x)
    PROVE  /\ c \in Nat /\ At(x) \in Nat /\ End(x) \in Nat /\ End(x) <= len
           /\ \A y \in ToSet(x.bytes) : \E r \in At(x)..(End(x) - 1) : y = <<c, r>>
           /\ \A r \in At(x)..(End(x) - 1) : <<c, r>> \in ToSet(x.bytes)
  <1>1. At(x) \in Nat /\ At(x) < End(x) /\ End(x) <= len /\ x.bytes = Run(c, At(x), End(x)) /\ len \in Nat
        /\ x.bytes \in Seq(Bytes) /\ c \in Nat
    BY DEF SegWell, Fits, Segs
  <1>2. Len(x.bytes) \in Nat /\ End(x) = At(x) + Len(x.bytes)
    BY <1>1 DEF End
  <1>3. End(x) \in Nat /\ At(x) <= End(x)
    BY <1>1, <1>2
  <1> DEFINE a == At(x)
             e == End(x)
  <1>4. x.bytes = Run(c, a, e) /\ a \in Nat /\ e \in Nat /\ a <= e /\ c \in Nat
    BY <1>1, <1>3
  <1>5. /\ \A y \in ToSet(x.bytes) : \E r \in a..(e - 1) : y = <<c, r>>
        /\ \A r \in a..(e - 1) : <<c, r>> \in ToSet(x.bytes)
    <2> HIDE DEF a, e
    <2>1. QED
      BY <1>4, RunSet
  <1>6. QED
    BY <1>1, <1>3, <1>5

\* Popping once comes to that.
LEMMA PopStepKeeps ==
    ASSUME NEW c, NEW b, NEW len, Fits(c, b, len), NEW s, NEW q, SideAt(c, b, len, s, q)
    PROVE  \E e : PopsTo(c, b, len, s, q, PopStep(s), e)
  <1> DEFINE ord == s.order
             p == popNext(ord)
             t == PopStep(s)
  <1>1. /\ s \in Sides /\ OrdAt(c, b, len, ord, q) /\ OutAt(c, s.out, q) /\ q \in 0..(len + 1)
        /\ c \in Nat \ {0} /\ c \in Nat /\ b \in SeqNumbers /\ len \in Nat
    BY DEF SideAt, Fits, OrdAt
  <1>2. /\ ord \in Orders /\ s.out \in Seq(Bytes) /\ Len(ord.early) \in Nat /\ Total(ord.early) \in Nat
    BY <1>1, LenOf
  <1>3. Popped(c, b, len, ord, q, p)
    BY <1>1, PopNextKeeps
  <1>4. t \in Sides /\ t.order = advance(p.order, Len(p.bytes)) /\ t.out = s.out \o p.bytes
    BY <1>1, PopStepType DEF PopStep
  <1> HIDE DEF t, p
  <1>5. t.order.early = p.order.early /\ t.order.nextSeq = (ord.nextSeq + Len(p.bytes)) % SeqSpace
    <2>1. p.order \in Orders /\ p.order.nextSeq = ord.nextSeq
      BY <1>3 DEF Popped
    <2>2. QED
      BY <1>4, <2>1 DEF advance, Orders
  <1>6. \A x \in ToSet(ord.early) : SegWell(c, b, len, x)
    BY <1>1 DEF OrdAt
  <1>7. q \in Nat
    BY <1>1
  <1>8. ASSUME NEW e \in q..(len + 1), Follows(c, s.out, q, p.bytes, e),
               \A x \in ToSet(ord.early) : Gone(c, q, x, p.bytes) =>
                    \A r \in At(x)..(End(x) - 1) : q <= r => <<c, r>> \in ToSet(p.bytes),
               \A r \in q..(e - 1) : <<c, r>> \in ToSet(p.bytes),
               Len(p.order.early) < Len(ord.early) \/ \A x \in ToSet(p.order.early) : At(x) > e,
               Waits(s, q) => e = q
        PROVE  PopsTo(c, b, len, s, q, t, e)
    <2>1. e \in Nat /\ q <= e
      BY <1>1, <1>7
    <2>2. t.out \in Seq(Bytes) /\ OutAt(c, t.out, e) /\ ToSet(t.out) = ToSet(s.out) \cup ToSet(p.bytes)
      BY <1>1, <1>2, <1>4, <1>7, <1>8, <2>1, OutFollows
    <2>3. t.order.nextSeq = SeqFor(b, e)
      <3>1. Len(p.bytes) = e - q /\ e - q \in Nat /\ q + (e - q) = e
        BY <1>7, <1>8, <2>1 DEF Follows
      <3>2. ord.nextSeq = SeqFor(b, q)
        BY <1>1 DEF OrdAt
      <3>3. (SeqFor(b, q) + (e - q)) % SeqSpace = SeqFor(b, q + (e - q))
        BY <1>1, <1>7, <3>1, SeqAdvances
      <3>4. QED
        BY <1>5, <3>1, <3>2, <3>3
    <2>4. ToSet(t.order.early) \subseteq ToSet(ord.early)
      BY <1>3, <1>5 DEF Popped
    <2>5. OrdAt(c, b, len, t.order, e)
      <3>1. t.order \in Orders /\ e \in 0..(len + 1)
        BY <1>1, <1>4, <1>8, LenOf
      <3>2. QED
        BY <1>6, <2>3, <2>4, <3>1 DEF OrdAt
    <2>6. \A x \in ToSet(t.order.early) : \A r \in At(x)..(End(x) - 1) : r < e => <<c, r>> \in ToSet(t.out)
      <3>1. SUFFICES ASSUME NEW x \in ToSet(t.order.early), NEW r \in At(x)..(End(x) - 1), r < e
                     PROVE  <<c, r>> \in ToSet(t.out)
        OBVIOUS
      <3>2. x \in ToSet(ord.early) /\ SegWell(c, b, len, x)
        BY <1>6, <2>4
      <3>3. At(x) \in Nat /\ End(x) \in Nat
        BY <3>2, SegSet
      <3>4. CASE r < q
        BY <2>2, <3>2, <3>4 DEF SideAt
      <3>5. CASE q <= r
        <4>1. r \in q..(e - 1)
          BY <1>7, <2>1, <3>1, <3>3, <3>5
        <4>2. QED
          BY <1>8, <2>2, <4>1
      <3>6. QED
        BY <1>7, <3>3, <3>4, <3>5
    <2>7. SideAt(c, b, len, t, e)
      BY <1>4, <2>2, <2>5, <2>6 DEF SideAt
    <2>8. Got(s) \subseteq Got(t)
      <3>1. ToSet(s.out) \subseteq ToSet(t.out)
        BY <2>2
      <3>2. ASSUME NEW x \in ToSet(ord.early), NEW y \in ToSet(x.bytes) PROVE y \in Got(t)
        <4>1. PICK r \in At(x)..(End(x) - 1) : y = <<c, r>>
          BY <1>6, SegSet
        <4>2. y # Missing
          BY <1>1, <4>1 DEF Missing
        <4>3. At(x) \in Nat /\ End(x) \in Nat
          BY <1>6, SegSet
        <4>4. CASE x \in ToSet(p.order.early)
          BY <1>5, <4>4 DEF Got
        <4>5. CASE Gone(c, q, x, p.bytes)
          <5>1. <<c, r>> \in ToSet(t.out)
            <6>1. CASE r < q
              BY <2>2, <6>1 DEF SideAt
            <6>2. CASE q <= r
              BY <1>8, <2>2, <4>5, <6>2
            <6>3. QED
              BY <1>7, <4>3, <6>1, <6>2
          <5>2. QED
            BY <4>1, <4>2, <5>1 DEF Got
        <4>6. QED
          BY <1>3, <4>4, <4>5 DEF Popped
      <3>3. QED
        BY <3>1, <3>2 DEF Got
    <2>9. Keeps(s, t)
      BY <1>3, <1>5, <2>4, <2>8 DEF Keeps, Popped
    <2>10. Waits(t, e) \/ Len(t.order.early) < Len(ord.early)
      BY <1>5, <1>8 DEF Waits
    <2>11. Waits(s, q) => Waits(t, e)
      BY <1>8, <2>4 DEF Waits
    <2>12. ~Waits(s, q) => Len(t.order.early) < Len(ord.early)
      <3>1. SUFFICES ASSUME NEW x \in ToSet(ord.early), ~(At(x) > q) PROVE Len(t.order.early) < Len(ord.early)
        BY DEF Waits
      <3>2. At(x) \in Nat
        BY <1>6, SegSet
      <3>3. At(x) <= q
        BY <1>7, <3>1, <3>2
      <3>4. QED
        BY <1>3, <1>5, <3>1, <3>3 DEF Popped
    <2>13. QED
      BY <2>7, <2>9, <2>10, <2>11, <2>12 DEF PopsTo
  <1>9. CASE p.bytes = <<>>
    <2>1. Follows(c, s.out, q, p.bytes, q)
      BY <1>3, <1>7, <1>9 DEF Follows, Popped
    <2>2. q \in q..(len + 1) /\ q..(q - 1) = {}
      BY <1>1
    <2>3. ASSUME NEW x \in ToSet(ord.early), Gone(c, q, x, p.bytes), NEW r \in At(x)..(End(x) - 1), q <= r
          PROVE  FALSE
      <3>1. SegWell(c, b, len, x) /\ At(x) \in Nat /\ End(x) \in Nat
        BY <1>6, SegSet
      <3>2. CASE End(x) <= q
        BY <1>7, <2>3, <3>1, <3>2
      <3>3. CASE q < End(x)
        <4>1. p.bytes = Run(c, q, End(x)) /\ q <= End(x)
          BY <1>7, <2>3, <3>1, <3>3 DEF Gone
        <4>2. Len(p.bytes) = End(x) - q
          <5> DEFINE e == End(x)
          <5>1. p.bytes = Run(c, q, e) /\ q <= e /\ q \in Nat /\ e \in Nat /\ c \in Nat
            BY <1>1, <1>7, <3>1, <4>1
          <5>2. Len(p.bytes) = e - q
            <6> HIDE DEF e
            <6>1. QED
              BY <5>1, RunIs
          <5>3. QED
            BY <5>2
        <4>3. QED
          BY <1>7, <1>9, <3>1, <3>3, <4>2
      <3>4. QED
        BY <1>7, <3>1, <3>2, <3>3
    <2>4. \A x \in ToSet(p.order.early) : At(x) > q
      BY <1>3, <1>9 DEF Popped
    <2>5. PopsTo(c, b, len, s, q, t, q)
      <3>1. \A x \in ToSet(ord.early) : Gone(c, q, x, p.bytes) =>
                    \A r \in At(x)..(End(x) - 1) : q <= r => <<c, r>> \in ToSet(p.bytes)
        BY <2>3
      <3>2. \A r \in q..(q - 1) : <<c, r>> \in ToSet(p.bytes)
        BY <2>2
      <3>3. QED
        BY <1>8, <2>1, <2>2, <2>4, <3>1, <3>2
    <2>6. QED
      BY <2>5 DEF t
  <1>10. CASE p.bytes # <<>>
    <2>1. PICK e \in (q + 1)..len : p.bytes = Run(c, q, e)
      BY <1>3, <1>10 DEF Popped
    <2>2. e \in q..(len + 1) /\ e \in Nat /\ q <= e
      BY <1>1, <1>7
    <2>3. Follows(c, s.out, q, p.bytes, e)
      BY <1>1, <1>7, <2>1, <2>2, RunFollows
    <2>4. \A r \in q..(e - 1) : <<c, r>> \in ToSet(p.bytes)
      BY <1>1, <1>7, <2>1, <2>2, RunSet
    <2>5. ASSUME NEW x \in ToSet(ord.early), Gone(c, q, x, p.bytes), NEW r \in At(x)..(End(x) - 1), q <= r
          PROVE  <<c, r>> \in ToSet(p.bytes)
      <3>1. SegWell(c, b, len, x) /\ At(x) \in Nat /\ End(x) \in Nat
        BY <1>6, SegSet
      <3>2. p.bytes = Run(c, q, End(x)) /\ q <= End(x)
        BY <1>7, <2>5, <3>1 DEF Gone
      <3>3. r \in q..(End(x) - 1)
        BY <1>7, <2>5, <3>1
      <3>4. QED
        BY <1>1, <1>7, <3>1, <3>2, <3>3, RunSet
    <2>6. Len(p.order.early) < Len(ord.early) /\ ~Waits(s, q)
      <3>1. Len(p.order.early) < Len(ord.early) /\ \E x \in ToSet(ord.early) : At(x) <= q
        BY <1>3, <1>10 DEF Popped
      <3>2. PICK x \in ToSet(ord.early) : At(x) <= q
        BY <3>1
      <3>3. At(x) \in Nat
        BY <1>6, SegSet
      <3>4. ~(At(x) > q)
        BY <1>7, <3>2, <3>3
      <3>5. QED
        BY <3>1, <3>4 DEF Waits
    <2>7. PopsTo(c, b, len, s, q, t, e)
      BY <1>8, <2>2, <2>3, <2>4, <2>5, <2>6
    <2>8. QED
      BY <2>7 DEF t
  <1>11. QED
    BY <1>9, <1>10

\* popNext() in a loop.
PopAllLoop(s, h) ==
    /\ h[0] = s
    /\ \A k \in 1..Len(s.order.early) : h[k] = PopStep(h[k - 1])
    /\ \A k \in 0..Len(s.order.early) : h[k] \in Sides
    /\ PopAll(s) = h[Len(s.order.early)]

\* PopAll() is that loop.
LEMMA PopAllSteps ==
    ASSUME NEW side \in Sides
    PROVE  \E h : PopAllLoop(side, h)
  <1> DEFINE s == side.order.early
             n == Len(s)
             F == [p \in (1..n) \X Sides |-> PopStep(p[2])]
             Is(g) == g = [t \in SUBSET (1..n) |-> IF t = {} THEN side ELSE PopStep(g[t \ {Max(t)}])]
             G == CHOOSE g : Is(g)
             h == [k \in 0..n |-> G[1..k]]
  <1>1. n \in Nat /\ DOMAIN s = 1..n
    BY LenOf
  <1>3. \E g : Is(g)
    <2>1. F \in [(1..n) \X Sides -> Sides]
      BY <1>1, PopStepType
    <2> HIDE DEF F, n, s
    <2>2. PICK g \in [SUBSET (1..n) -> Sides] : FoldsBy(g, n, side, F)
      BY <1>1, <2>1, FoldRuns
    <2>3. ASSUME NEW t \in SUBSET (1..n), t # {}
          PROVE  F[<<Max(t), g[t \ {Max(t)}]>>] = PopStep(g[t \ {Max(t)}])
      <3>1. Max(t) \in 1..n
        BY <1>1, <2>3, MaxIs
      <3>2. g[t \ {Max(t)}] \in Sides
        BY <2>2
      <3>3. QED
        BY <3>1, <3>2 DEF F
    <2>4. Is(g)
      BY <2>2, <2>3 DEF FoldsBy
    <2>5. QED
      BY <2>4
  <1>4. Is(G)
    BY <1>3
  <1>5. PopAll(side) = G[1..n]
    BY <1>1 DEF PopAll, FoldLeft, MapThenFoldSet, PopStep
  <1> HIDE DEF G
  <1>6. G[1..0] = side /\ \A k \in 1..n : G[1..k] = PopStep(G[1..(k - 1)])
    <2> DEFINE f == [t \in SUBSET (1..n) |-> PopStep(G[t \ {Max(t)}])]
    <2>1. G = [t \in SUBSET (1..n) |-> IF t = {} THEN side ELSE f[t]]
      BY <1>4
    <2>2. G[1..0] = side /\ \A k \in 1..n : G[1..k] = f[1..k]
      <3> HIDE DEF f, n, s
      <3>1. QED
        BY <1>1, <2>1, FoldUpTo
    <2>3. \A k \in 1..n : f[1..k] = PopStep(G[1..(k - 1)])
      <3>1. SUFFICES ASSUME NEW k \in 1..n PROVE f[1..k] = PopStep(G[1..(k - 1)])
        OBVIOUS
      <3>2. k \in Nat \ {0} /\ 1..k \in SUBSET (1..n)
        BY <1>1
      <3>3. Max(1..k) = k /\ (1..k) \ {k} = 1..(k - 1)
        BY <3>2, MaxUpTo
      <3>4. QED
        BY <3>2, <3>3
    <2>4. QED
      BY <2>2, <2>3
  <1>7. h[0] = side /\ \A k \in 1..n : h[k] = PopStep(h[k - 1])
    BY <1>1, <1>6
  <1>8. \A k \in 0..n : h[k] \in Sides
    <2> DEFINE T == {k \in 0..n : h[k] \in Sides}
    <2>1. 0 \in T
      BY <1>1, <1>7
    <2>2. ASSUME NEW k \in 1..n, k - 1 \in T PROVE k \in T
      <3>1. h[k - 1] \in Sides /\ k \in 0..n /\ h[k] = PopStep(h[k - 1])
        BY <1>1, <1>7, <2>2
      <3> HIDE DEF h
      <3>2. h[k] \in Sides
        BY <3>1, PopStepType
      <3>3. QED
        BY <3>1, <3>2
    <2> HIDE DEF T
    <2>3. \A k \in 0..n : k \in T
      <3> HIDE DEF n, s
      <3>1. QED
        BY <1>1, <2>1, <2>2, CountsUp
    <2>4. QED
      BY <2>3 DEF T
  <1>9. h[n] = G[1..n]
    BY <1>1
  <1> HIDE DEF h
  <1>10. PopAllLoop(side, h)
    BY <1>5, <1>7, <1>8, <1>9 DEF PopAllLoop
  <1>11. QED
    BY <1>10

\* What popping in a loop comes to, at place e then: what is still held waits.
AllPopped(c, b, len, s, q, t, e) ==
    /\ e \in q..(len + 1)
    /\ SideAt(c, b, len, t, e)
    /\ Waits(t, e)
    /\ Keeps(s, t)
    /\ ~Waits(s, q) => Len(t.order.early) < Len(s.order.early)

\* It comes to that: each turn with a held segment that is next pops at least one.
LEMMA PopAllKeeps ==
    ASSUME NEW c, NEW b, NEW len, Fits(c, b, len), NEW s, NEW q, SideAt(c, b, len, s, q)
    PROVE  \E e : AllPopped(c, b, len, s, q, PopAll(s), e)
  <1> DEFINE n == Len(s.order.early)
             Loop(k, t, e) ==
                /\ e \in q..(len + 1)
                /\ SideAt(c, b, len, t, e)
                /\ Keeps(s, t)
                /\ Waits(t, e) \/ Len(t.order.early) <= n - k
                /\ ~Waits(s, q) /\ k > 0 => Len(t.order.early) < n
  <1>1. s \in Sides /\ n \in Nat /\ q \in 0..(len + 1) /\ len \in Nat
    BY LenOf DEF SideAt, OrdAt, Fits
  <1>2. PICK h : PopAllLoop(s, h)
    BY <1>1, PopAllSteps
  <1>3. /\ h[0] = s /\ (\A k \in 1..n : h[k] = PopStep(h[k - 1])) /\ \A k \in 0..n : h[k] \in Sides
        /\ PopAll(s) = h[n]
    BY <1>2 DEF PopAllLoop
  <1> DEFINE T == {k \in 0..n : \E e : Loop(k, h[k], e)}
  <1>4. 0 \in T
    <2>1. Loop(0, s, q)
      BY <1>1, KeepsSelf
    <2>2. QED
      BY <1>1, <1>3, <2>1
  <1>5. ASSUME NEW k \in 1..n, k - 1 \in T PROVE k \in T
    <2>1. PICK d : Loop(k - 1, h[k - 1], d)
      BY <1>5
    <2>2. PICK e : PopsTo(c, b, len, h[k - 1], d, h[k], e)
      <3>1. SideAt(c, b, len, h[k - 1], d)
        BY <2>1
      <3>2. \E e : PopsTo(c, b, len, h[k - 1], d, PopStep(h[k - 1]), e)
        BY <3>1, PopStepKeeps
      <3>3. QED
        BY <1>3, <3>2
    <2>3. h[k - 1] \in Sides /\ h[k] \in Sides /\ k \in 0..n /\ k - 1 \in 0..n
      BY <1>1, <1>3
    <2>4. Keeps(s, h[k])
      BY <1>1, <2>1, <2>2, <2>3, KeepsTrans DEF PopsTo
    <2> DEFINE was == Len(h[k - 1].order.early)
               is == Len(h[k].order.early)
    <2>5. was \in Nat /\ is \in Nat /\ is <= was
      <3>1. was \in Nat /\ is \in Nat
        BY <2>3, LenOf
      <3>2. QED
        BY <2>2, <3>1 DEF PopsTo, Keeps
    <2>6. Waits(h[k], e) \/ is <= n - k
      <3>1. Waits(h[k - 1], d) \/ was <= n - (k - 1)
        BY <2>1
      <3>2. Waits(h[k - 1], d) => Waits(h[k], e)
        BY <2>2 DEF PopsTo
      <3>3. Waits(h[k], e) \/ is < was
        BY <2>2 DEF PopsTo
      <3> HIDE DEF was, is, n
      <3>4. QED
        BY <1>1, <2>5, <3>1, <3>2, <3>3
    <2>7. ~Waits(s, q) => is < n
      <3>1. SUFFICES ASSUME ~Waits(s, q) PROVE is < n
        OBVIOUS
      <3>2. CASE k - 1 > 0
        <4>1. was < n
          BY <2>1, <3>1, <3>2
        <4> HIDE DEF was, is, n
        <4>2. QED
          BY <1>1, <2>5, <4>1
      <3>3. CASE k - 1 = 0
        <4>1. h[k - 1] = s /\ was = n
          BY <1>3, <3>3
        <4>2. CASE Waits(s, d)
          <5>1. \A x \in ToSet(s.order.early) : At(x) \in Nat
            <6>1. \A x \in ToSet(s.order.early) : SegWell(c, b, len, x)
              BY DEF SideAt, OrdAt
            <6>2. QED
              BY <6>1, SegSet
          <5>2. d \in q..(len + 1)
            BY <2>1
          <5>3. Waits(s, q)
            BY <1>1, <4>2, <5>1, <5>2 DEF Waits
          <5>4. QED
            BY <3>1, <5>3
        <4>3. CASE ~Waits(s, d)
          <5>1. is < was
            BY <2>2, <4>1, <4>3 DEF PopsTo
          <5>2. QED
            BY <4>1, <5>1
        <4>4. QED
          BY <4>2, <4>3
      <3>4. QED
        BY <3>2, <3>3
    <2>8. e \in q..(len + 1)
      <3>1. d \in q..(len + 1) /\ e \in d..(len + 1)
        BY <2>1, <2>2 DEF PopsTo
      <3>2. QED
        BY <1>1, <3>1
    <2>9. SideAt(c, b, len, h[k], e)
      BY <2>2 DEF PopsTo
    <2>10. Loop(k, h[k], e)
      BY <2>4, <2>6, <2>7, <2>8, <2>9
    <2> HIDE DEF Loop
    <2>11. QED
      BY <2>3, <2>10
  <1>6. n \in T
    <2> HIDE DEF T, n
    <2>1. n \in 0..n
      BY <1>1
    <2>2. QED
      BY <1>1, <1>4, <1>5, <2>1, CountsUp
  <1>7. PICK e : Loop(n, h[n], e)
    BY <1>6
  <1>8. Waits(h[n], e)
    <2>1. CASE Len(h[n].order.early) <= n - n
      <3>1. h[n].order.early \in Seq(Segs) /\ Len(h[n].order.early) \in Nat
        BY <1>7, LenOf DEF SideAt
      <3>2. Len(h[n].order.early) = 0
        BY <1>1, <2>1, <3>1
      <3>3. h[n].order.early = <<>>
        BY <3>1, <3>2
      <3>4. QED
        BY <3>3, EmptySet DEF Waits
    <2>2. QED
      BY <1>7, <2>1
  <1>9. ~Waits(s, q) => Len(h[n].order.early) < n
    <2>1. SUFFICES ASSUME ~Waits(s, q) PROVE Len(h[n].order.early) < n
      OBVIOUS
    <2>2. n > 0
      <3>1. CASE n = 0
        <4>1. s.order.early = <<>>
          BY <1>1, <3>1, LenOf
        <4>2. QED
          BY <2>1, <4>1, EmptySet DEF Waits
      <3>2. QED
        BY <1>1, <3>1
    <2>3. QED
      BY <1>7, <2>1, <2>2
  <1>10. AllPopped(c, b, len, s, q, h[n], e)
    BY <1>7, <1>8, <1>9 DEF AllPopped
  <1>11. QED
    BY <1>3, <1>10

-----------------------------------------------------------------------------
(* Gaps.                                                                   *)

\* One segment looked at by firstEarlySeq().
Earlier(first, segment) ==
    IF first = Unset \/ seqAfter(segment.seq, first) < 0 THEN segment.seq ELSE first
\* The first number held, or none.
Firsts == SeqNumbers \cup {Unset}

\* firstEarlySeq() looks at one segment after the other.
FirstLoop(ord, h) ==
    /\ h[0] = Unset
    /\ \A k \in 1..Len(ord.early) : h[k] = Earlier(h[k - 1], ord.early[k])
    /\ \A k \in 0..Len(ord.early) : h[k] \in Firsts
    /\ firstEarlySeq(ord) = h[Len(ord.early)]

\* firstEarlySeq() is that loop.
LEMMA FirstSteps ==
    ASSUME NEW ord \in Orders
    PROVE  \E h : FirstLoop(ord, h)
  <1> DEFINE s == ord.early
             n == Len(s)
             F == [p \in (1..n) \X Firsts |-> Earlier(p[2], s[p[1]])]
             Is(g) == g = [t \in SUBSET (1..n) |-> IF t = {} THEN Unset
                                                   ELSE Earlier(g[t \ {Max(t)}], s[Max(t)])]
             G == CHOOSE g : Is(g)
             h == [k \in 0..n |-> G[1..k]]
  <1>1. s \in Seq(Segs) /\ n \in Nat /\ DOMAIN s = 1..n /\ \A i \in 1..n : s[i] \in Segs
    BY DEF Orders
  <1>2. Unset \in Firsts
    BY DEF Firsts
  <1>11. \A first \in Firsts : \A x \in Segs : Earlier(first, x) \in Firsts
    BY DEF Earlier, Firsts, Segs
  <1>3. \E g : Is(g)
    <2>1. F \in [(1..n) \X Firsts -> Firsts]
      BY <1>1, <1>11
    <2> HIDE DEF F, n, s
    <2>2. PICK g \in [SUBSET (1..n) -> Firsts] : FoldsBy(g, n, Unset, F)
      BY <1>1, <1>2, <2>1, FoldRuns
    <2>3. ASSUME NEW t \in SUBSET (1..n), t # {}
          PROVE  F[<<Max(t), g[t \ {Max(t)}]>>] = Earlier(g[t \ {Max(t)}], s[Max(t)])
      <3>1. Max(t) \in 1..n
        BY <1>1, <2>3, MaxIs
      <3>2. g[t \ {Max(t)}] \in Firsts
        BY <2>2
      <3>3. QED
        BY <3>1, <3>2 DEF F
    <2>4. Is(g)
      BY <2>2, <2>3 DEF FoldsBy
    <2>5. QED
      BY <2>4
  <1>4. Is(G)
    BY <1>3
  <1>5. firstEarlySeq(ord) = G[1..n]
    BY <1>1 DEF firstEarlySeq, FoldLeft, MapThenFoldSet, Earlier
  <1> HIDE DEF G
  <1>6. G[1..0] = Unset /\ \A k \in 1..n : G[1..k] = Earlier(G[1..(k - 1)], s[k])
    <2> DEFINE f == [t \in SUBSET (1..n) |-> Earlier(G[t \ {Max(t)}], s[Max(t)])]
    <2>1. G = [t \in SUBSET (1..n) |-> IF t = {} THEN Unset ELSE f[t]]
      BY <1>4
    <2>2. G[1..0] = Unset /\ \A k \in 1..n : G[1..k] = f[1..k]
      <3> HIDE DEF f, n, s
      <3>1. QED
        BY <1>1, <2>1, FoldUpTo
    <2>3. \A k \in 1..n : f[1..k] = Earlier(G[1..(k - 1)], s[k])
      <3>1. SUFFICES ASSUME NEW k \in 1..n PROVE f[1..k] = Earlier(G[1..(k - 1)], s[k])
        OBVIOUS
      <3>2. k \in Nat \ {0} /\ 1..k \in SUBSET (1..n)
        BY <1>1
      <3>3. Max(1..k) = k /\ (1..k) \ {k} = 1..(k - 1)
        BY <3>2, MaxUpTo
      <3>4. QED
        BY <3>2, <3>3
    <2>4. QED
      BY <2>2, <2>3
  <1>7. h[0] = Unset /\ \A k \in 1..n : h[k] = Earlier(h[k - 1], s[k])
    BY <1>1, <1>6
  <1>8. \A k \in 0..n : h[k] \in Firsts
    <2> DEFINE T == {k \in 0..n : h[k] \in Firsts}
    <2>1. 0 \in T
      BY <1>1, <1>2, <1>7
    <2>2. ASSUME NEW k \in 1..n, k - 1 \in T PROVE k \in T
      <3>1. h[k - 1] \in Firsts /\ k \in 0..n /\ s[k] \in Segs /\ h[k] = Earlier(h[k - 1], s[k])
        BY <1>1, <1>7, <2>2
      <3> HIDE DEF h
      <3>2. h[k] \in Firsts
        BY <1>11, <3>1
      <3>3. QED
        BY <3>1, <3>2
    <2> HIDE DEF T
    <2>3. \A k \in 0..n : k \in T
      <3> HIDE DEF n, s
      <3>1. QED
        BY <1>1, <2>1, <2>2, CountsUp
    <2>4. QED
      BY <2>3 DEF T
  <1>9. h[n] = G[1..n]
    BY <1>1
  <1> HIDE DEF h
  <1>10. FirstLoop(ord, h)
    BY <1>5, <1>7, <1>8, <1>9 DEF FirstLoop
  <1>12. QED
    BY <1>10

\* It is the sequence number of the held segment that comes first.
IsFirst(ord, first) ==
    IF ord.early = <<>>
    THEN first = Unset
    ELSE \E x \in ToSet(ord.early) : first = x.seq /\ \A y \in ToSet(ord.early) : At(x) <= At(y)

\* It comes to that.
LEMMA FirstIs ==
    ASSUME NEW c, NEW b, NEW len, Fits(c, b, len), NEW ord, NEW q, OrdAt(c, b, len, ord, q)
    PROVE  IsFirst(ord, firstEarlySeq(ord))
  <1> DEFINE s == ord.early
             n == Len(s)
             LeastOf(k, first) ==
                IF k = 0 THEN first = Unset
                ELSE \E j \in 1..k : first = s[j].seq /\ \A i \in 1..k : At(s[j]) <= At(s[i])
  <1>1. ord \in Orders /\ s \in Seq(Segs) /\ n \in Nat /\ DOMAIN s = 1..n
        /\ (\A x \in ToSet(s) : SegWell(c, b, len, x)) /\ \A i \in 1..n : s[i] \in ToSet(s)
    BY DEF OrdAt, Orders, ToSet
  <1>2. PICK h : FirstLoop(ord, h)
    BY <1>1, FirstSteps
  <1>3. h[0] = Unset /\ (\A k \in 1..n : h[k] = Earlier(h[k - 1], s[k])) /\ firstEarlySeq(ord) = h[n]
    BY <1>2 DEF FirstLoop
  <1>4. \A i \in 1..n : At(s[i]) \in Nat /\ s[i].seq = SeqFor(b, At(s[i])) /\ At(s[i]) <= len /\ s[i].seq # Unset
    <2>1. \A x \in ToSet(s) : At(x) \in Nat /\ x.seq = SeqFor(b, At(x)) /\ At(x) < End(x) /\ End(x) <= len /\ End(x) \in Nat
      BY <1>1, SegSet DEF SegWell
    <2>2. \A x \in ToSet(s) : x.seq \in SeqNumbers
      BY <1>1 DEF SegWell, Segs
    <2>3. Unset \notin SeqNumbers /\ len \in Nat
      BY UnsetAssumption, SeqSpaceAssumption DEF SeqNumbers, Fits
    <2>4. \A x \in ToSet(s) : At(x) \in Nat /\ x.seq = SeqFor(b, At(x)) /\ At(x) <= len /\ x.seq # Unset
      <3>1. SUFFICES ASSUME NEW x \in ToSet(s)
                     PROVE  At(x) \in Nat /\ x.seq = SeqFor(b, At(x)) /\ At(x) <= len /\ x.seq # Unset
        OBVIOUS
      <3>2. At(x) <= len
        BY <2>1, <2>3
      <3>3. QED
        BY <2>1, <2>2, <2>3, <3>2
    <2>5. QED
      BY <1>1, <2>4
  <1> DEFINE T == {k \in 0..n : LeastOf(k, h[k])}
  <1>5. 0 \in T
    BY <1>1, <1>3
  <1>6. ASSUME NEW k \in 1..n, k - 1 \in T PROVE k \in T
    <2>1. LeastOf(k - 1, h[k - 1]) /\ k \in 0..n /\ h[k] = Earlier(h[k - 1], s[k]) /\ k # 0 /\ k \in 1..k
      BY <1>1, <1>3, <1>6
    <2>2. CASE k - 1 = 0
      <3>1. h[k] = s[k].seq
        BY <2>1, <2>2 DEF Earlier
      <3>2. \A i \in 1..k : i = k
        BY <2>2
      <3>3. At(s[k]) \in Nat
        BY <1>4, <1>6
      <3>4. \A i \in 1..k : At(s[k]) <= At(s[i])
        BY <3>2, <3>3
      <3>5. LeastOf(k, h[k])
        BY <2>1, <3>1, <3>4
      <3>6. QED
        BY <2>1, <3>5
    <2>3. CASE k - 1 # 0
      <3>1. PICK j \in 1..(k - 1) : h[k - 1] = s[j].seq /\ \A i \in 1..(k - 1) : At(s[j]) <= At(s[i])
        BY <2>1, <2>3
      <3>2. j \in 1..n /\ j \in 1..k /\ (\A i \in 1..k : i = k \/ i \in 1..(k - 1)) /\ \A i \in 1..k : i \in 1..n
        BY <1>1
      <3>3. seqAfter(s[k].seq, s[j].seq) = At(s[k]) - At(s[j])
        <4> DEFINE p == At(s[k])
                   r == At(s[j])
        <4>1. p \in Nat /\ r \in Nat /\ p <= len /\ r <= len /\ s[k].seq = SeqFor(b, p) /\ s[j].seq = SeqFor(b, r)
          BY <1>4, <3>2
        <4>2. b \in SeqNumbers /\ len \in Nat /\ 2 * (len + 2) < SeqSpace /\ SeqSpace \in Nat
          BY SeqSpaceAssumption DEF Fits
        <4> HIDE DEF p, r
        <4>3. 2 * (p - r) < SeqSpace /\ 2 * (r - p) < SeqSpace
          BY <4>1, <4>2
        <4>4. seqAfter(SeqFor(b, p), SeqFor(b, r)) = p - r
          BY <4>1, <4>2, <4>3, AfterIs
        <4>5. QED
          BY <4>1, <4>4 DEF p, r
      <3>4. h[k - 1] # Unset
        BY <1>4, <3>1, <3>2
      <3>5. CASE At(s[k]) < At(s[j])
        <4>1. h[k] = s[k].seq
          BY <1>4, <2>1, <3>1, <3>2, <3>3, <3>5 DEF Earlier
        <4>2. \A i \in 1..k : At(s[k]) <= At(s[i])
          BY <1>4, <3>1, <3>2, <3>5
        <4>3. LeastOf(k, h[k])
          BY <2>1, <4>1, <4>2
        <4>4. QED
          BY <2>1, <4>3
      <3>6. CASE ~(At(s[k]) < At(s[j]))
        <4>1. h[k] = s[j].seq
          BY <1>4, <2>1, <3>1, <3>2, <3>3, <3>4, <3>6 DEF Earlier
        <4>2. \A i \in 1..k : At(s[j]) <= At(s[i])
          BY <1>4, <3>1, <3>2, <3>6
        <4>3. LeastOf(k, h[k])
          BY <2>1, <3>2, <4>1, <4>2
        <4>4. QED
          BY <2>1, <4>3
      <3>7. QED
        BY <3>5, <3>6
    <2>4. QED
      BY <2>2, <2>3
  <1>7. n \in T
    <2> HIDE DEF T, n
    <2>1. n \in 0..n
      BY <1>1
    <2>2. QED
      BY <1>1, <1>5, <1>6, <2>1, CountsUp
  <1>8. CASE s = <<>>
    <2>1. n = 0
      BY <1>8
    <2>2. QED
      BY <1>3, <1>8, <2>1 DEF IsFirst
  <1>9. CASE s # <<>>
    <2>1. n # 0
      BY <1>1, <1>9
    <2>2. PICK j \in 1..n : h[n] = s[j].seq /\ \A i \in 1..n : At(s[j]) <= At(s[i])
      BY <1>7, <2>1
    <2>3. s[j] \in ToSet(s) /\ \A y \in ToSet(s) : At(s[j]) <= At(y)
      BY <1>1, <2>2 DEF ToSet
    <2>4. QED
      BY <1>3, <1>9, <2>2, <2>3 DEF IsFirst
  <1>10. QED
    BY <1>8, <1>9

\* Popping in a loop keeps the type.
LEMMA PopAllType == ASSUME NEW s \in Sides PROVE PopAll(s) \in Sides
  <1>1. PICK h : PopAllLoop(s, h)
    BY PopAllSteps
  <1>2. Len(s.order.early) \in 0..Len(s.order.early)
    BY LenOf
  <1>3. QED
    BY <1>1, <1>2 DEF PopAllLoop

\* So many missing bytes.
Gap(m) == [i \in 1..m |-> Missing]

\* They are as many and all missing, ...
LEMMA GapIs ==
    ASSUME NEW m \in Nat
    PROVE  Gap(m) \in Seq(Bytes) /\ Len(Gap(m)) = m /\ \A i \in 1..m : Gap(m)[i] = Missing
  <1>1. Missing \in Bytes
    BY DEF Missing, Bytes
  <1>2. Gap(m) \in [1..m -> Bytes] /\ DOMAIN Gap(m) = 1..m
    BY <1>1 DEF Gap
  <1>3. Gap(m) \in Seq(Bytes)
    BY <1>2
  <1>4. Len(Gap(m)) = m
    BY <1>2, <1>3
  <1>5. QED
    BY <1>3, <1>4 DEF Gap

\* ... and follow what was given.
LEMMA GapFollows ==
    ASSUME NEW c, NEW s, NEW q \in Nat, NEW e \in Nat, q <= e
    PROVE  Follows(c, s, q, Gap(e - q), e)
  <1>1. e - q \in Nat
    OBVIOUS
  <1>2. Gap(e - q) \in Seq(Bytes) /\ Len(Gap(e - q)) = e - q /\ \A i \in 1..(e - q) : Gap(e - q)[i] = Missing
    BY <1>1, GapIs
  <1>3. QED
    BY <1>2 DEF Follows

\* What skipping to a sequence number that lies so far ahead comes to.
SkipGapBy(s, seq, ahead) ==
    /\ SkipGap(s, seq) \in Sides
    /\ ahead <= 0 => SkipGap(s, seq) = s
    /\ ahead > 0 => /\ SkipGap(s, seq).order = [s.order EXCEPT !.nextSeq = seq]
                    /\ SkipGap(s, seq).out = s.out \o Gap(ahead)

\* It comes to that.
LEMMA SkipGapIs ==
    ASSUME NEW s \in Sides, NEW seq \in SeqNumbers
    PROVE  SkipGapBy(s, seq, seqAfter(seq, s.order.nextSeq))
  <1> DEFINE ahead == seqAfter(seq, s.order.nextSeq)
  <1>1. ahead \in Int /\ s.order \in Orders /\ s.out \in Seq(Bytes)
    BY LenOf, AfterInt
  <1> HIDE DEF ahead
  <1>2. ASSUME ahead <= 0 PROVE SkipGapBy(s, seq, ahead)
    <2>1. skipTo(s.order, seq) = [order |-> s.order, gap |-> 0]
      BY <1>2 DEF skipTo, ahead
    <2>2. 0 \in Nat /\ <<>> \in Seq(Bytes)
      OBVIOUS
    <2>3. Gap(0) = <<>>
      <3>1. Gap(0) \in Seq(Bytes) /\ Len(Gap(0)) = 0
        BY <2>2, GapIs
      <3>2. QED
        BY <3>1
    <2>4. SkipGap(s, seq) = [order |-> s.order, out |-> s.out \o Gap(0)]
      BY <2>1 DEF SkipGap, Gap
    <2>5. s.out \o <<>> = s.out
      BY <1>1, ConcatEmptySeq
    <2>6. SkipGap(s, seq) = s
      BY <2>3, <2>4, <2>5 DEF Sides
    <2>7. QED
      BY <1>1, <1>2, <2>6 DEF SkipGapBy
  <1>3. ASSUME ahead > 0 PROVE SkipGapBy(s, seq, ahead)
    <2>1. skipTo(s.order, seq) = [order |-> [s.order EXCEPT !.nextSeq = seq], gap |-> ahead]
      BY <1>1, <1>3 DEF skipTo, ahead
    <2>2. SkipGap(s, seq) = [order |-> [s.order EXCEPT !.nextSeq = seq], out |-> s.out \o Gap(ahead)]
      BY <2>1 DEF SkipGap, Gap
    <2>3. s.out \o Gap(ahead) \in Seq(Bytes)
      <3>1. ahead \in Nat
        BY <1>1, <1>3
      <3>2. Gap(ahead) \in Seq(Bytes)
        BY <3>1, GapIs
      <3>3. QED
        BY <1>1, <3>2, ConcatProperties
    <2>4. [s.order EXCEPT !.nextSeq = seq] \in Orders
      BY <1>1 DEF Orders
    <2>5. SkipGap(s, seq) \in Sides
      BY <2>2, <2>3, <2>4 DEF Sides
    <2>6. QED
      BY <1>1, <1>3, <2>2, <2>5 DEF SkipGapBy
  <1>4. SkipGapBy(s, seq, ahead)
    BY <1>1, <1>2, <1>3
  <1>5. QED
    BY <1>4 DEF ahead

\* No held segment begins before place a.
Settled(s, a) == \A x \in ToSet(s.order.early) : At(x) >= a

\* What a direction is that has the bytes before place a, or misses them.
SkippedTo(c, b, len, s, q, t, e, a) ==
    /\ e \in q..(len + 1) /\ e >= a
    /\ SideAt(c, b, len, t, e)
    /\ t.order.early = s.order.early
    /\ Keeps(s, t)

\* Skipping to place a at or ahead of place q, before every held segment, comes to that.
LEMMA SkipGapKeeps ==
    ASSUME NEW c, NEW b, NEW len, Fits(c, b, len), NEW s, NEW q, SideAt(c, b, len, s, q),
           NEW a \in 0..(len + 1), Settled(s, a) \/ a <= q
    PROVE  \E e : SkippedTo(c, b, len, s, q, SkipGap(s, SeqFor(b, a)), e, a)
  <1> DEFINE seq == SeqFor(b, a)
             t == SkipGap(s, seq)
  <1>1. /\ s \in Sides /\ OrdAt(c, b, len, s.order, q) /\ OutAt(c, s.out, q) /\ q \in 0..(len + 1)
        /\ c \in Nat \ {0} /\ c \in Nat /\ b \in SeqNumbers /\ len \in Nat
        /\ 2 * (len + 2) < SeqSpace /\ SeqSpace \in Nat /\ s.order.nextSeq = SeqFor(b, q)
    BY SeqSpaceAssumption DEF SideAt, Fits, OrdAt
  <1>2. q \in Nat /\ a \in Nat
    BY <1>1
  <1>3. seqAfter(seq, s.order.nextSeq) = a - q
    <2>1. 2 * (a - q) < SeqSpace /\ 2 * (q - a) < SeqSpace
      BY <1>1, <1>2
    <2>2. QED
      BY <1>1, <1>2, <2>1, AfterIs
  <1>4. seq \in SeqNumbers
    BY <1>1, <1>2, SeqIs
  <1> HIDE DEF seq
  <1>5. /\ t \in Sides
        /\ a - q <= 0 => t = s
        /\ a - q > 0 => /\ t.order = [s.order EXCEPT !.nextSeq = seq]
                        /\ t.out = s.out \o Gap(a - q)
    <2>1. SkipGapBy(s, seq, a - q)
      BY <1>1, <1>3, <1>4, SkipGapIs
    <2>2. QED
      BY <2>1 DEF SkipGapBy
  <1> HIDE DEF t
  <1>6. CASE a <= q
    <2>1. t = s
      BY <1>2, <1>5, <1>6
    <2>2. SkippedTo(c, b, len, s, q, t, q, a)
      BY <1>1, <1>6, <2>1, KeepsSelf DEF SkippedTo
    <2>3. QED
      BY <2>2 DEF t, seq
  <1>7. CASE q < a
    <2>1. Settled(s, a) /\ a - q > 0 /\ q <= a
      BY <1>2, <1>7
    <2>2. s.order \in Orders /\ s.out \in Seq(Bytes)
      BY <1>1, LenOf
    <2>3. t.order = [s.order EXCEPT !.nextSeq = seq] /\ t.out = s.out \o Gap(a - q)
      BY <1>5, <2>1
    <2>4. t.order.early = s.order.early /\ t.order.nextSeq = seq
      BY <2>2, <2>3 DEF Orders
    <2>5. OutAt(c, t.out, a) /\ ToSet(t.out) = ToSet(s.out) \cup ToSet(Gap(a - q))
      <3>1. Follows(c, s.out, q, Gap(a - q), a)
        BY <1>2, <2>1, GapFollows
      <3>2. QED
        BY <1>1, <1>2, <2>1, <2>2, <2>3, <3>1, OutFollows
    <2>6. OrdAt(c, b, len, t.order, a)
      <3>1. t.order \in Orders
        BY <1>5, LenOf
      <3>2. QED
        BY <1>1, <2>4, <3>1 DEF OrdAt, seq
    <2>7. ASSUME NEW x \in ToSet(t.order.early), NEW r \in At(x)..(End(x) - 1), r < a
          PROVE  <<c, r>> \in ToSet(t.out)
      <3>1. At(x) \in Nat /\ At(x) >= a /\ End(x) \in Nat
        BY <1>1, <2>1, <2>4, SegSet DEF Settled, OrdAt
      <3>2. QED
        BY <1>2, <2>7, <3>1
    <2>8. SideAt(c, b, len, t, a)
      BY <1>5, <2>5, <2>6, <2>7 DEF SideAt
    <2>9. Keeps(s, t)
      <3>1. Got(s) \subseteq Got(t)
        BY <2>4, <2>5 DEF Got
      <3>2. QED
        BY <1>1, <2>4, <3>1, LenOf DEF Keeps
    <2>10. SkippedTo(c, b, len, s, q, t, a, a)
      BY <1>1, <1>2, <2>1, <2>4, <2>8, <2>9 DEF SkippedTo
    <2>11. QED
      BY <2>10 DEF t, seq
  <1>8. QED
    BY <1>2, <1>6, <1>7

-----------------------------------------------------------------------------
(* Skipping to the held segments.                                          *)

\* Skips to the first held segment, if it begins before upTo.
NextHeld(s, upTo) ==
    LET first == firstEarlySeq(s.order)
    IN  IF first # Unset /\ (upTo = Unset \/ seqAfter(first, upTo) < 0)
        THEN PopAll(SkipGap(s, first)) ELSE s

\* Skipping to a held segment keeps the type.
LEMMA NextHeldType == ASSUME NEW s \in Sides, NEW upTo PROVE NextHeld(s, upTo) \in Sides
  <1>1. firstEarlySeq(s.order) \in Firsts
    <2>1. PICK h : FirstLoop(s.order, h)
      BY LenOf, FirstSteps
    <2>2. Len(s.order.early) \in 0..Len(s.order.early)
      BY LenOf
    <2>3. QED
      BY <2>1, <2>2 DEF FirstLoop
  <1>2. ASSUME NEW first \in SeqNumbers PROVE PopAll(SkipGap(s, first)) \in Sides
    BY SkipGapIs, PopAllType DEF SkipGapBy
  <1>3. QED
    BY <1>1, <1>2 DEF NextHeld, Firsts

\* Up to where: place a, or all of the connection.
UpTo(b, len, upTo, a) ==
    \/ upTo = Unset /\ a = len + 1
    \/ a \in 0..(len + 1) /\ upTo = SeqFor(b, a)

\* What skipping to one held segment comes to, at place e then.
HeldTo(c, b, len, s, q, t, e, a) ==
    /\ e \in q..(len + 1)
    /\ SideAt(c, b, len, t, e)
    /\ Keeps(s, t)
    /\ Waits(s, q) => Waits(t, e)
    /\ Settled(t, a) \/ Len(t.order.early) < Len(s.order.early)
    /\ Settled(s, a) => Settled(t, a)

\* Skipping to the first held segment comes to that.
LEMMA NextHeldKeeps ==
    ASSUME NEW c, NEW b, NEW len, Fits(c, b, len), NEW s, NEW q, SideAt(c, b, len, s, q),
           NEW upTo, NEW a, UpTo(b, len, upTo, a)
    PROVE  \E e : HeldTo(c, b, len, s, q, NextHeld(s, upTo), e, a)
  <1> DEFINE first == firstEarlySeq(s.order)
             t == NextHeld(s, upTo)
  <1>1. /\ s \in Sides /\ OrdAt(c, b, len, s.order, q) /\ q \in 0..(len + 1)
        /\ c \in Nat \ {0} /\ b \in SeqNumbers /\ len \in Nat
        /\ 2 * (len + 2) < SeqSpace /\ SeqSpace \in Nat
        /\ a \in 0..(len + 1) /\ a \in Nat
    <2>1. len \in Nat
      BY DEF Fits
    <2>2. a \in 0..(len + 1)
      BY <2>1 DEF UpTo
    <2>3. QED
      BY <2>1, <2>2, SeqSpaceAssumption DEF SideAt, Fits, OrdAt
  <1>2. IsFirst(s.order, first)
    BY <1>1, FirstIs
  <1>3. \A x \in ToSet(s.order.early) : SegWell(c, b, len, x) /\ At(x) \in Nat /\ At(x) <= len /\ x.seq # Unset
    <2>1. SUFFICES ASSUME NEW x \in ToSet(s.order.early)
                   PROVE  SegWell(c, b, len, x) /\ At(x) \in Nat /\ At(x) <= len /\ x.seq # Unset
      OBVIOUS
    <2>2. SegWell(c, b, len, x)
      BY <1>1 DEF OrdAt
    <2>3. At(x) \in Nat /\ End(x) \in Nat /\ At(x) < End(x) /\ End(x) <= len
      BY <2>2, SegSet DEF SegWell
    <2>4. x.seq \in SeqNumbers /\ Unset \notin SeqNumbers
      BY <2>2, UnsetAssumption, SeqSpaceAssumption DEF SegWell, Segs, SeqNumbers
    <2>5. QED
      BY <1>1, <2>2, <2>3, <2>4
  <1> HIDE DEF first
  <1>4. CASE s.order.early = <<>>
    <2>1. t = s
      BY <1>2, <1>4 DEF IsFirst, NextHeld, first
    <2>2. Settled(t, a)
      BY <1>4, <2>1, EmptySet DEF Settled
    <2>3. HeldTo(c, b, len, s, q, t, q, a)
      BY <1>1, <2>1, <2>2, KeepsSelf DEF HeldTo
    <2>4. QED
      BY <2>3
  <1>5. CASE s.order.early # <<>>
    <2>1. PICK x \in ToSet(s.order.early) : first = x.seq /\ \A y \in ToSet(s.order.early) : At(x) <= At(y)
      BY <1>2, <1>5 DEF IsFirst
    <2> DEFINE p == At(x)
    <2>2. p \in Nat /\ p <= len /\ first # Unset /\ first = SeqFor(b, p) /\ p \in 0..(len + 1)
      BY <1>1, <1>3, <2>1 DEF SegWell
    <2>3. upTo = Unset \/ seqAfter(first, upTo) = p - a
      <3>1. CASE upTo = SeqFor(b, a)
        <4> HIDE DEF p
        <4>1. 2 * (p - a) < SeqSpace /\ 2 * (a - p) < SeqSpace
          BY <1>1, <2>2
        <4>2. seqAfter(SeqFor(b, p), SeqFor(b, a)) = p - a
          BY <1>1, <2>2, <4>1, AfterIs
        <4>3. QED
          BY <2>2, <3>1, <4>2
      <3>2. QED
        BY <3>1 DEF UpTo
    <2>4. upTo = Unset => p < a
      <3>1. SUFFICES ASSUME upTo = Unset PROVE p < a
        OBVIOUS
      <3>2. \A z \in 0..(len + 1) : SeqFor(b, z) # Unset
        <4>1. \A z \in Nat : SeqFor(b, z) \in SeqNumbers
          BY <1>1, SeqIs
        <4>2. Unset \notin SeqNumbers
          BY UnsetAssumption, SeqSpaceAssumption DEF SeqNumbers
        <4>3. QED
          BY <1>1, <4>1, <4>2
      <3>3. a = len + 1
        BY <1>1, <3>1, <3>2 DEF UpTo
      <3>4. QED
        BY <1>1, <2>2, <3>3
    <2> HIDE DEF p
    <2>5. CASE p >= a
      <3>1. ~(upTo = Unset \/ seqAfter(first, upTo) < 0)
        BY <1>1, <2>2, <2>3, <2>4, <2>5
      <3>2. t = s
        BY <3>1 DEF NextHeld, first
      <3>3. Settled(t, a)
        <4>1. \A y \in ToSet(s.order.early) : At(y) \in Nat /\ p <= At(y)
          BY <1>3, <2>1 DEF p
        <4>2. \A y \in ToSet(s.order.early) : At(y) >= a
          BY <1>1, <2>2, <2>5, <4>1
        <4>3. QED
          BY <3>2, <4>2 DEF Settled
      <3>4. HeldTo(c, b, len, s, q, t, q, a)
        BY <1>1, <3>2, <3>3, KeepsSelf DEF HeldTo
      <3>5. QED
        BY <3>4
    <2>6. CASE p < a
      <3>1. upTo = Unset \/ seqAfter(first, upTo) < 0
        BY <1>1, <2>2, <2>3, <2>6
      <3> DEFINE u == SkipGap(s, first)
      <3>2. t = PopAll(u)
        BY <2>2, <3>1 DEF NextHeld, first
      <3>3. Settled(s, p)
        <4>1. \A y \in ToSet(s.order.early) : At(y) \in Nat /\ p <= At(y)
          BY <1>3, <2>1 DEF p
        <4>2. QED
          BY <2>2, <4>1 DEF Settled
      <3>4. PICK d : SkippedTo(c, b, len, s, q, u, d, p)
        BY <2>2, <3>3, SkipGapKeeps
      <3> HIDE DEF u
      <3>5. SideAt(c, b, len, u, d) /\ d \in q..(len + 1) /\ d >= p /\ u.order.early = s.order.early /\ Keeps(s, u)
        BY <3>4 DEF SkippedTo
      <3>6. PICK e : AllPopped(c, b, len, u, d, PopAll(u), e)
        BY <3>5, PopAllKeeps
      <3>7. e \in d..(len + 1) /\ SideAt(c, b, len, t, e) /\ Waits(t, e) /\ Keeps(u, t)
            /\ (~Waits(u, d) => Len(t.order.early) < Len(u.order.early))
        BY <3>2, <3>6 DEF AllPopped
      <3>8. ~Waits(u, d)
        <4>1. x \in ToSet(u.order.early) /\ ~(At(x) > d)
          BY <1>1, <2>2, <3>5 DEF p
        <4>2. QED
          BY <4>1 DEF Waits
      <3>9. Keeps(s, t)
        BY <1>1, <3>5, <3>7, KeepsTrans DEF SideAt
      <3>10. Len(t.order.early) < Len(s.order.early) /\ e \in q..(len + 1)
        BY <1>1, <3>5, <3>7, <3>8
      <3>11. ~Settled(s, a)
        <4>1. ~(At(x) >= a)
          BY <1>1, <2>2, <2>6 DEF p
        <4>2. QED
          BY <4>1 DEF Settled
      <3>12. HeldTo(c, b, len, s, q, t, e, a)
        BY <3>7, <3>9, <3>10, <3>11 DEF HeldTo
      <3>13. QED
        BY <3>12
    <2>7. QED
      BY <1>1, <2>2, <2>5, <2>6
  <1>6. QED
    BY <1>4, <1>5

\* Skipping in a loop.
HeldLoop(s, upTo, h) ==
    /\ h[0] = s
    /\ \A k \in 1..Len(s.order.early) : h[k] = NextHeld(h[k - 1], upTo)
    /\ \A k \in 0..Len(s.order.early) : h[k] \in Sides
    /\ SkipToHeld(s, upTo) = h[Len(s.order.early)]

\* SkipToHeld() is that loop.
LEMMA HeldSteps ==
    ASSUME NEW side \in Sides, NEW upTo
    PROVE  \E h : HeldLoop(side, upTo, h)
  <1> DEFINE s == side.order.early
             n == Len(s)
             F == [p \in (1..n) \X Sides |-> NextHeld(p[2], upTo)]
             Is(g) == g = [t \in SUBSET (1..n) |-> IF t = {} THEN side ELSE NextHeld(g[t \ {Max(t)}], upTo)]
             G == CHOOSE g : Is(g)
             h == [k \in 0..n |-> G[1..k]]
  <1>1. n \in Nat /\ DOMAIN s = 1..n
    BY LenOf
  <1>3. \E g : Is(g)
    <2>1. F \in [(1..n) \X Sides -> Sides]
      BY <1>1, NextHeldType
    <2> HIDE DEF F, n, s
    <2>2. PICK g \in [SUBSET (1..n) -> Sides] : FoldsBy(g, n, side, F)
      BY <1>1, <2>1, FoldRuns
    <2>3. ASSUME NEW t \in SUBSET (1..n), t # {}
          PROVE  F[<<Max(t), g[t \ {Max(t)}]>>] = NextHeld(g[t \ {Max(t)}], upTo)
      <3>1. Max(t) \in 1..n
        BY <1>1, <2>3, MaxIs
      <3>2. g[t \ {Max(t)}] \in Sides
        BY <2>2
      <3>3. QED
        BY <3>1, <3>2 DEF F
    <2>4. Is(g)
      BY <2>2, <2>3 DEF FoldsBy
    <2>5. QED
      BY <2>4
  <1>4. Is(G)
    BY <1>3
  <1>5. SkipToHeld(side, upTo) = G[1..n]
    BY <1>1 DEF SkipToHeld, FoldLeft, MapThenFoldSet, NextHeld
  <1> HIDE DEF G
  <1>6. G[1..0] = side /\ \A k \in 1..n : G[1..k] = NextHeld(G[1..(k - 1)], upTo)
    <2> DEFINE f == [t \in SUBSET (1..n) |-> NextHeld(G[t \ {Max(t)}], upTo)]
    <2>1. G = [t \in SUBSET (1..n) |-> IF t = {} THEN side ELSE f[t]]
      BY <1>4
    <2>2. G[1..0] = side /\ \A k \in 1..n : G[1..k] = f[1..k]
      <3> HIDE DEF f, n, s
      <3>1. QED
        BY <1>1, <2>1, FoldUpTo
    <2>3. \A k \in 1..n : f[1..k] = NextHeld(G[1..(k - 1)], upTo)
      <3>1. SUFFICES ASSUME NEW k \in 1..n PROVE f[1..k] = NextHeld(G[1..(k - 1)], upTo)
        OBVIOUS
      <3>2. k \in Nat \ {0} /\ 1..k \in SUBSET (1..n)
        BY <1>1
      <3>3. Max(1..k) = k /\ (1..k) \ {k} = 1..(k - 1)
        BY <3>2, MaxUpTo
      <3>4. QED
        BY <3>2, <3>3
    <2>4. QED
      BY <2>2, <2>3
  <1>7. h[0] = side /\ \A k \in 1..n : h[k] = NextHeld(h[k - 1], upTo)
    BY <1>1, <1>6
  <1>8. \A k \in 0..n : h[k] \in Sides
    <2> DEFINE T == {k \in 0..n : h[k] \in Sides}
    <2>1. 0 \in T
      BY <1>1, <1>7
    <2>2. ASSUME NEW k \in 1..n, k - 1 \in T PROVE k \in T
      <3> HIDE DEF h
      <3>1. h[k] = NextHeld(h[k - 1], upTo)
        BY <1>7, <2>2
      <3>2. h[k - 1] \in Sides /\ k \in 0..n
        BY <1>1, <2>2
      <3>3. h[k] \in Sides
        BY <3>1, <3>2, NextHeldType
      <3>4. QED
        BY <3>2, <3>3
    <2> HIDE DEF T
    <2>3. \A k \in 0..n : k \in T
      <3> HIDE DEF n, s
      <3>1. QED
        BY <1>1, <2>1, <2>2, CountsUp
    <2>4. QED
      BY <2>3 DEF T
  <1>9. h[n] = G[1..n]
    BY <1>1
  <1> HIDE DEF h
  <1>10. HeldLoop(side, upTo, h)
    BY <1>5, <1>7, <1>8, <1>9 DEF HeldLoop
  <1>11. QED
    BY <1>10

\* Skipping to the held segments before place a leaves none of them held.
HeldSkipped(c, b, len, s, q, t, e, a) ==
    /\ e \in q..(len + 1)
    /\ SideAt(c, b, len, t, e)
    /\ Keeps(s, t)
    /\ Waits(s, q) => Waits(t, e)
    /\ Settled(t, a)

\* It comes to that: each turn with a held segment before place a holds fewer then.
LEMMA SkipToHeldKeeps ==
    ASSUME NEW c, NEW b, NEW len, Fits(c, b, len), NEW s, NEW q, SideAt(c, b, len, s, q),
           NEW upTo, NEW a, UpTo(b, len, upTo, a)
    PROVE  \E e : HeldSkipped(c, b, len, s, q, SkipToHeld(s, upTo), e, a)
  <1> DEFINE n == Len(s.order.early)
             Loop(k, t, e) ==
                /\ e \in q..(len + 1)
                /\ SideAt(c, b, len, t, e)
                /\ Keeps(s, t)
                /\ Waits(s, q) => Waits(t, e)
                /\ Settled(t, a) \/ Len(t.order.early) <= n - k
  <1>1. s \in Sides /\ n \in Nat /\ q \in 0..(len + 1) /\ len \in Nat
    BY LenOf DEF SideAt, OrdAt, Fits
  <1>2. PICK h : HeldLoop(s, upTo, h)
    BY <1>1, HeldSteps
  <1>3. /\ h[0] = s /\ (\A k \in 1..n : h[k] = NextHeld(h[k - 1], upTo)) /\ \A k \in 0..n : h[k] \in Sides
        /\ SkipToHeld(s, upTo) = h[n]
    BY <1>2 DEF HeldLoop
  <1> DEFINE T == {k \in 0..n : \E e : Loop(k, h[k], e)}
  <1>4. 0 \in T
    <2>1. Loop(0, s, q)
      BY <1>1, KeepsSelf
    <2>2. QED
      BY <1>1, <1>3, <2>1
  <1>5. ASSUME NEW k \in 1..n, k - 1 \in T PROVE k \in T
    <2>1. PICK d : Loop(k - 1, h[k - 1], d)
      BY <1>5
    <2>2. PICK e : HeldTo(c, b, len, h[k - 1], d, h[k], e, a)
      <3>1. SideAt(c, b, len, h[k - 1], d)
        BY <2>1
      <3>2. \E e : HeldTo(c, b, len, h[k - 1], d, NextHeld(h[k - 1], upTo), e, a)
        BY <3>1, NextHeldKeeps
      <3>3. QED
        BY <1>3, <3>2
    <2>3. h[k - 1] \in Sides /\ h[k] \in Sides /\ k \in 0..n /\ k - 1 \in 0..n
      BY <1>1, <1>3
    <2>4. Keeps(s, h[k])
      BY <1>1, <2>1, <2>2, <2>3, KeepsTrans DEF HeldTo
    <2> DEFINE was == Len(h[k - 1].order.early)
               is == Len(h[k].order.early)
    <2>5. was \in Nat /\ is \in Nat /\ is <= was
      <3>1. was \in Nat /\ is \in Nat
        BY <2>3, LenOf
      <3>2. QED
        BY <2>2, <3>1 DEF HeldTo, Keeps
    <2>6. Settled(h[k], a) \/ is <= n - k
      <3>1. Settled(h[k - 1], a) \/ was <= n - (k - 1)
        BY <2>1
      <3>2. Settled(h[k - 1], a) => Settled(h[k], a)
        BY <2>2 DEF HeldTo
      <3>3. Settled(h[k], a) \/ is < was
        BY <2>2 DEF HeldTo
      <3> HIDE DEF was, is, n
      <3>4. QED
        BY <1>1, <2>5, <3>1, <3>2, <3>3
    <2>7. Waits(s, q) => Waits(h[k], e)
      BY <2>1, <2>2 DEF HeldTo
    <2>8. e \in q..(len + 1)
      <3>1. d \in q..(len + 1) /\ e \in d..(len + 1)
        BY <2>1, <2>2 DEF HeldTo
      <3>2. QED
        BY <1>1, <3>1
    <2>9. SideAt(c, b, len, h[k], e)
      BY <2>2 DEF HeldTo
    <2>10. Loop(k, h[k], e)
      BY <2>4, <2>6, <2>7, <2>8, <2>9
    <2> HIDE DEF Loop
    <2>11. QED
      BY <2>3, <2>10
  <1>6. n \in T
    <2> HIDE DEF T, n
    <2>1. n \in 0..n
      BY <1>1
    <2>2. QED
      BY <1>1, <1>4, <1>5, <2>1, CountsUp
  <1>7. PICK e : Loop(n, h[n], e)
    BY <1>6
  <1>8. Settled(h[n], a)
    <2>1. CASE Len(h[n].order.early) <= n - n
      <3>1. h[n].order.early \in Seq(Segs) /\ Len(h[n].order.early) \in Nat
        BY <1>7, LenOf DEF SideAt
      <3>2. Len(h[n].order.early) = 0
        BY <1>1, <2>1, <3>1
      <3>3. h[n].order.early = <<>>
        BY <3>1, <3>2
      <3>4. QED
        BY <3>3, EmptySet DEF Settled
    <2>2. QED
      BY <1>7, <2>1
  <1>9. HeldSkipped(c, b, len, s, q, h[n], e, a)
    BY <1>7, <1>8 DEF HeldSkipped
  <1>10. QED
    BY <1>3, <1>9

\* A list that has nothing is empty.
LEMMA NoneIn ==
    ASSUME NEW S, NEW s \in Seq(S), ToSet(s) = {}
    PROVE  s = <<>>
  <1>1. Len(s) \in Nat /\ DOMAIN s = 1..Len(s)
    OBVIOUS
  <1>2. CASE Len(s) = 0
    BY <1>2
  <1>3. CASE Len(s) > 0
    <2>1. 1 \in DOMAIN s
      BY <1>1, <1>3
    <2>2. s[1] \in ToSet(s)
      BY <2>1 DEF ToSet
    <2>3. QED
      BY <2>2
  <1>4. QED
    BY <1>1, <1>2, <1>3

\* flush() leaves nothing held.
Flushed(c, b, len, s, q, t, e) ==
    /\ e \in q..(len + 1)
    /\ SideAt(c, b, len, t, e)
    /\ Keeps(s, t)
    /\ t.order.early = <<>>

\* It comes to that.
LEMMA FlushKeeps ==
    ASSUME NEW c, NEW b, NEW len, Fits(c, b, len), NEW s, NEW q, SideAt(c, b, len, s, q)
    PROVE  \E e : Flushed(c, b, len, s, q, Flush(s), e)
  <1> DEFINE t == SkipToHeld(s, Unset)
  <1>1. UpTo(b, len, Unset, len + 1)
    BY DEF UpTo
  <1>2. PICK e : HeldSkipped(c, b, len, s, q, t, e, len + 1)
    BY <1>1, SkipToHeldKeeps
  <1> HIDE DEF t
  <1>3. SideAt(c, b, len, t, e) /\ Settled(t, len + 1) /\ len \in Nat
    BY <1>2 DEF HeldSkipped, Fits
  <1>4. t.order.early \in Seq(Segs)
    BY <1>3, LenOf DEF SideAt
  <1>5. ToSet(t.order.early) = {}
    <2>1. SUFFICES ASSUME NEW x \in ToSet(t.order.early) PROVE FALSE
      OBVIOUS
    <2>2. SegWell(c, b, len, x) /\ At(x) >= len + 1
      BY <1>3 DEF SideAt, OrdAt, Settled
    <2>3. At(x) \in Nat /\ End(x) \in Nat /\ At(x) < End(x) /\ End(x) <= len
      BY <2>2, SegSet DEF SegWell
    <2>4. QED
      BY <1>3, <2>2, <2>3
  <1>6. t.order.early = <<>>
    BY <1>4, <1>5, NoneIn
  <1>7. Flushed(c, b, len, s, q, t, e)
    BY <1>2, <1>6 DEF HeldSkipped, Flushed
  <1>8. QED
    BY <1>7 DEF Flush, t

\* skipTo() the place r of the connection, whose FIN was seen or not.
Skipped(c, b, len, s, q, t, e) ==
    /\ e \in q..(len + 1)
    /\ SideAt(c, b, len, t, e)
    /\ Keeps(s, t)
    /\ Waits(s, q) => Waits(t, e)

\* It comes to that.
LEMMA SkipToKeeps ==
    ASSUME NEW c, NEW b, NEW len, Fits(c, b, len), NEW s, NEW q, SideAt(c, b, len, s, q),
           NEW r \in 0..(len + 1), NEW fin \in {Unset, SeqFor(b, len)}
    PROVE  \E e : Skipped(c, b, len, s, q, SkipTo(s, SeqFor(b, r), fin), e)
  <1> DEFINE seq == SeqFor(b, r)
             upTo == IF fin # Unset /\ seqAfter(seq, fin) > 0 THEN fin ELSE seq
  <1>1. /\ s \in Sides /\ OrdAt(c, b, len, s.order, q) /\ q \in 0..(len + 1) /\ b \in SeqNumbers /\ len \in Nat
    BY DEF SideAt, Fits, OrdAt
  <1>2. PICK a \in 0..(len + 1) : upTo = SeqFor(b, a)
    <2>1. len \in 0..(len + 1)
      BY <1>1
    <2>2. fin # Unset => fin = SeqFor(b, len)
      OBVIOUS
    <2>3. QED
      BY <2>1, <2>2
  <1> HIDE DEF upTo
  <1> DEFINE mid == SkipToHeld(s, upTo)
             gap == SkipGap(mid, upTo)
             t == SkipTo(s, SeqFor(b, r), fin)
  <1>3. t = IF seqAfter(upTo, s.order.nextSeq) <= 0 THEN s ELSE PopAll(gap)
    BY DEF SkipTo, upTo
  <1> HIDE DEF t
  <1>4. CASE seqAfter(upTo, s.order.nextSeq) <= 0
    <2>1. t = s
      BY <1>3, <1>4
    <2>2. Skipped(c, b, len, s, q, t, q)
      BY <1>1, <2>1, KeepsSelf DEF Skipped
    <2>3. QED
      BY <2>2 DEF t
  <1>5. CASE ~(seqAfter(upTo, s.order.nextSeq) <= 0)
    <2>1. t = PopAll(gap)
      BY <1>3, <1>5
    <2>2. PICK d : HeldSkipped(c, b, len, s, q, mid, d, a)
      <3>1. UpTo(b, len, upTo, a)
        BY <1>2 DEF UpTo
      <3>2. QED
        BY <3>1, SkipToHeldKeeps
    <2> HIDE DEF mid
    <2>3. SideAt(c, b, len, mid, d) /\ Settled(mid, a) /\ Keeps(s, mid) /\ d \in q..(len + 1)
      BY <2>2 DEF HeldSkipped
    <2>4. PICK f : SkippedTo(c, b, len, mid, d, gap, f, a)
      BY <1>2, <2>3, SkipGapKeeps
    <2> HIDE DEF gap
    <2>5. SideAt(c, b, len, gap, f) /\ Keeps(mid, gap) /\ f \in d..(len + 1)
      BY <2>4 DEF SkippedTo
    <2>6. PICK e : AllPopped(c, b, len, gap, f, PopAll(gap), e)
      BY <2>5, PopAllKeeps
    <2>7. SideAt(c, b, len, t, e) /\ Keeps(gap, t) /\ Waits(t, e) /\ e \in f..(len + 1)
      BY <2>1, <2>6 DEF AllPopped
    <2>8. s \in Sides /\ mid \in Sides /\ gap \in Sides /\ t \in Sides
      BY <1>1, <2>3, <2>5, <2>7 DEF SideAt
    <2>9. Keeps(s, gap)
      BY <2>3, <2>5, <2>8, KeepsTrans
    <2>10. Keeps(s, t)
      BY <2>7, <2>8, <2>9, KeepsTrans
    <2>11. e \in q..(len + 1)
      BY <1>1, <2>3, <2>5, <2>7
    <2>12. Skipped(c, b, len, s, q, t, e)
      BY <2>7, <2>10, <2>11 DEF Skipped
    <2>13. QED
      BY <2>12 DEF t
  <1>6. QED
    BY <1>4, <1>5

\* The placing of a segment in a side with room for it.
Put(room, seq, payload) ==
    LET handOut(rest) ==
            PopAll([order |-> advance(room.order, Len(rest)), out |-> room.out \o rest])
        at == place(room.order, seq, Len(payload))
    IN  CASE at.fit = "Next" -> handOut(SubSeq(payload, 1 + at.overlap, Len(payload)))
          [] at.fit = "Early" /\ ~holds(room.order, seq, Len(payload)) ->
                [room EXCEPT !.order = holdEarly(@, seq, payload)]
          [] OTHER -> room

\* It is how Place() puts a segment that has bytes.
LEMMA PlaceIs ==
    ASSUME NEW s, NEW seq, NEW payload
    PROVE  Place(s, seq, payload) =
                IF payload = <<>> THEN s
                ELSE Put(IF TooMany(s.order, seq, payload) THEN Flush(s) ELSE s, seq, payload)
  BY DEF Place, Put

\* Not more segments and bytes held than allowed, and no two the same.
Within(s) ==
    /\ Distinct(s.order.early)
    /\ Len(s.order.early) <= MaxEarlySegments
    /\ Total(s.order.early) <= MaxEarlyBytes

\* A direction that holds no more is within the limits still.
LEMMA KeepsWithin ==
    ASSUME NEW s \in Sides, NEW t \in Sides, Keeps(s, t), Within(s)
    PROVE  Within(t)
  <1>1. MaxEarlySegments \in Nat /\ MaxEarlyBytes \in Nat
    BY EarlyAssumption
  <1>2. /\ Len(s.order.early) \in Nat /\ Total(s.order.early) \in Nat
        /\ Len(t.order.early) \in Nat /\ Total(t.order.early) \in Nat
    BY LenOf
  <1>3. QED
    BY <1>1, <1>2 DEF Keeps, Within

\* What a side is that has placed the bytes of places p to before z.
Placed(c, b, len, s, q, p, z, t, e) ==
    /\ e \in q..(len + 1)
    /\ SideAt(c, b, len, t, e)
    /\ Waits(t, e)
    /\ Got(s) \subseteq Got(t)
    /\ Within(t)
    /\ \A r \in p..(z - 1) : r >= q => <<c, r>> \in Got(t)

\* Room for m bytes that came early.
Room(s, m) == Len(s.order.early) < MaxEarlySegments /\ Total(s.order.early) + m <= MaxEarlyBytes

\* Putting a segment for which there is room comes to that.
LEMMA PutKeeps ==
    ASSUME NEW c, NEW b, NEW len, Fits(c, b, len), NEW s, NEW q, SideAt(c, b, len, s, q),
           Waits(s, q), Within(s), NEW p \in Nat, NEW z \in Nat, p < z, z <= len,
           \/ place(s.order, SeqFor(b, p), z - p).fit # "Early"
           \/ holds(s.order, SeqFor(b, p), z - p)
           \/ Room(s, z - p)
    PROVE  \E e : Placed(c, b, len, s, q, p, z, Put(s, SeqFor(b, p), Run(c, p, z)), e)
  <1> DEFINE seq == SeqFor(b, p)
             pay == Run(c, p, z)
             t == Put(s, seq, pay)
             at == place(s.order, seq, z - p)
  <1>1. /\ s \in Sides /\ OrdAt(c, b, len, s.order, q) /\ OutAt(c, s.out, q) /\ q \in 0..(len + 1) /\ q \in Nat
        /\ c \in Nat \ {0} /\ c \in Nat /\ b \in SeqNumbers /\ len \in Nat
        /\ 2 * (len + 2) < SeqSpace /\ SeqSpace \in Nat /\ s.order.nextSeq = SeqFor(b, q)
        /\ s.order \in Orders /\ s.out \in Seq(Bytes) /\ s.order.early \in Seq(Segs)
        /\ Len(s.order.early) \in Nat /\ Total(s.order.early) \in Nat
    <2>1. q \in 0..(len + 1) /\ len \in Nat
      BY DEF SideAt, OrdAt, Fits
    <2>2. QED
      BY <2>1, SeqSpaceAssumption, LenOf DEF SideAt, Fits, OrdAt
  <1>2. pay \in Seq(Bytes) /\ Len(pay) = z - p /\ pay[1] = <<c, p>> /\ z - p \in Nat
    <2>1. p <= z /\ 1 \in 1..(z - p) /\ p + 1 - 1 = p
      OBVIOUS
    <2>2. Run(c, p, z) \in Seq(Bytes) /\ Len(Run(c, p, z)) = z - p
          /\ \A i \in 1..(z - p) : Run(c, p, z)[i] = <<c, p + i - 1>>
      <3>1. c \in Nat /\ p <= z
        BY <1>1
      <3>2. QED
        BY <3>1, RunIs
    <2>3. pay[1] = <<c, p + 1 - 1>>
      BY <2>1, <2>2
    <2>4. QED
      BY <2>1, <2>2, <2>3
  <1>3. seqAfter(seq, s.order.nextSeq) = p - q
    <2>1. 2 * (p - q) < SeqSpace /\ 2 * (q - p) < SeqSpace
      BY <1>1
    <2>2. QED
      BY <1>1, <2>1, AfterIs
  <1>4. seq \in SeqNumbers
    BY <1>1, SeqIs
  <1>5. \A x \in ToSet(s.order.early) : SegWell(c, b, len, x) /\ At(x) \in Nat /\ End(x) \in Nat /\ At(x) > q
    <2>1. \A x \in ToSet(s.order.early) : SegWell(c, b, len, x)
      BY <1>1 DEF OrdAt
    <2>2. QED
      BY <2>1, SegSet DEF Waits
  <1>6. /\ q < p => at.fit = "Early"
        /\ z <= q => at.fit = "Taken"
        /\ p <= q /\ q < z => at.fit = "Next" /\ at.overlap = q - p
    <2>1. at = LET ahead == p - q
               IN  CASE ahead > 0 -> [fit |-> "Early", overlap |-> 0]
                     [] ahead <= 0 /\ ahead + (z - p) <= 0 -> [fit |-> "Taken", overlap |-> 0]
                     [] OTHER -> [fit |-> "Next", overlap |-> -ahead]
      BY <1>3 DEF place
    <2>2. q < p => at.fit = "Early"
      BY <1>1, <2>1
    <2>3. z <= q => at.fit = "Taken"
      BY <1>1, <2>1
    <2>4. p <= q /\ q < z => at.fit = "Next" /\ at.overlap = q - p
      BY <1>1, <2>1
    <2>5. QED
      BY <2>2, <2>3, <2>4
  <1>7. t = CASE at.fit = "Next" ->
                    PopAll([order |-> advance(s.order, Len(SubSeq(pay, 1 + at.overlap, z - p))),
                            out |-> s.out \o SubSeq(pay, 1 + at.overlap, z - p)])
              [] at.fit = "Early" /\ ~holds(s.order, seq, z - p) ->
                    [s EXCEPT !.order = holdEarly(@, seq, pay)]
              [] OTHER -> s
    BY <1>2 DEF Put
  <1> HIDE DEF t, at, seq, pay
  <1>8. CASE z <= q
    <2>1. t = s
      BY <1>6, <1>7, <1>8
    <2>2. \A r \in p..(z - 1) : r >= q => FALSE
      BY <1>1, <1>8
    <2>3. Placed(c, b, len, s, q, p, z, t, q)
      BY <1>1, <2>1, <2>2 DEF Placed
    <2>4. QED
      BY <2>3 DEF t, seq, pay
  <1>9. CASE q < p /\ holds(s.order, seq, z - p)
    <2>1. t = s
      BY <1>6, <1>7, <1>9
    <2>2. PICK i \in DOMAIN s.order.early : s.order.early[i].seq = seq /\ Len(s.order.early[i].bytes) >= z - p
      BY <1>9 DEF holds
    <2> DEFINE x == s.order.early[i]
    <2>3. x \in ToSet(s.order.early) /\ SegWell(c, b, len, x) /\ At(x) \in Nat /\ End(x) \in Nat /\ x.seq = seq
          /\ Len(x.bytes) >= z - p
      BY <1>5, <2>2 DEF ToSet
    <2> HIDE DEF x
    <2>4. At(x) < End(x) /\ End(x) <= len /\ x.seq = SeqFor(b, At(x)) /\ x.bytes \in Seq(Bytes) /\ End(x) = At(x) + Len(x.bytes)
      BY <2>3 DEF SegWell, Segs, End
    <2>5. At(x) = p
      <3> DEFINE y == At(x)
      <3>1. y \in Nat /\ y <= len /\ SeqFor(b, y) = SeqFor(b, p)
        BY <1>1, <2>3, <2>4 DEF seq
      <3> HIDE DEF y
      <3>2. 2 * (y - p) < SeqSpace /\ 2 * (p - y) < SeqSpace /\ 2 * (p - p) < SeqSpace
        BY <1>1, <3>1
      <3>3. seqAfter(SeqFor(b, y), SeqFor(b, p)) = y - p
        BY <1>1, <3>1, <3>2, AfterIs
      <3>4. seqAfter(SeqFor(b, p), SeqFor(b, p)) = p - p
        BY <1>1, <3>2, AfterIs
      <3>5. y - p = p - p
        BY <3>1, <3>3, <3>4
      <3>6. QED
        BY <3>1, <3>5 DEF y
    <2>6. z <= End(x)
      BY <2>3, <2>4, <2>5
    <2>7. ASSUME NEW r \in p..(z - 1), r >= q PROVE <<c, r>> \in Got(t)
      <3>1. r \in At(x)..(End(x) - 1)
        BY <2>3, <2>5, <2>6
      <3>2. <<c, r>> \in ToSet(x.bytes)
        BY <2>3, <3>1, SegSet
      <3>3. QED
        BY <2>1, <2>3, <3>2 DEF Got
    <2>8. Placed(c, b, len, s, q, p, z, t, q)
      BY <1>1, <2>1, <2>7 DEF Placed
    <2>9. QED
      BY <2>8 DEF t, seq, pay
  <1>10. CASE q < p /\ ~holds(s.order, seq, z - p)
    <2> DEFINE new == [seq |-> seq, bytes |-> pay]
    <2>1. t = [s EXCEPT !.order = holdEarly(s.order, seq, pay)]
      BY <1>6, <1>7, <1>10
    <2>2. t.out = s.out /\ t.order = [s.order EXCEPT !.early = Append(s.order.early, new)] /\ t \in [order : {t.order}, out : {t.out}]
      BY <1>1, <2>1 DEF Sides, holdEarly
    <2>3. new \in Segs
      BY <1>2, <1>4 DEF Segs
    <2>4. At(new) = p /\ End(new) = z /\ new.seq = seq
      BY <1>2 DEF At, End
    <2>5. SegWell(c, b, len, new)
      BY <2>3, <2>4 DEF SegWell, seq, pay
    <2> HIDE DEF new
    <2>6. t.order \in Orders /\ t.order.nextSeq = s.order.nextSeq /\ t.order.early = Append(s.order.early, new)
      <3>1. Append(s.order.early, new) \in Seq(Segs)
        BY <1>1, <2>3
      <3>2. QED
        BY <1>1, <2>2, <3>1 DEF Orders
    <2>7. ToSet(t.order.early) = ToSet(s.order.early) \cup {new} /\ Len(t.order.early) = Len(s.order.early) + 1
      BY <1>1, <2>3, <2>6, AppendSet
    <2>8. t \in Sides
      BY <1>1, <2>2, <2>6 DEF Sides
    <2>9. OrdAt(c, b, len, t.order, q)
      BY <1>1, <1>5, <2>5, <2>6, <2>7 DEF OrdAt
    <2>10. Waits(t, q)
      BY <1>5, <1>10, <2>4, <2>7 DEF Waits
    <2>11. ASSUME NEW x \in ToSet(t.order.early), NEW r \in At(x)..(End(x) - 1), r < q
           PROVE  FALSE
      <3>1. At(x) \in Nat /\ End(x) \in Nat /\ At(x) > q
        BY <1>5, <1>10, <2>4, <2>7
      <3>2. QED
        BY <1>1, <2>11, <3>1
    <2>12. SideAt(c, b, len, t, q)
      BY <1>1, <2>2, <2>8, <2>9, <2>11 DEF SideAt
    <2>13. Got(s) \subseteq Got(t)
      BY <2>2, <2>7 DEF Got
    <2>14. Within(t)
      <3>1. Room(s, z - p)
        BY <1>6, <1>10 DEF at, seq
      <3>2. new \notin ToSet(s.order.early)
        <4>1. SUFFICES ASSUME NEW i \in DOMAIN s.order.early, s.order.early[i] = new PROVE FALSE
          BY DEF ToSet
        <4>2. s.order.early[i].seq = seq /\ Len(s.order.early[i].bytes) >= z - p
          BY <1>2, <4>1 DEF new
        <4>3. QED
          BY <1>10, <4>2 DEF holds
      <3>3. Distinct(t.order.early)
        BY <1>1, <2>3, <2>6, <3>2, AppendDistinct DEF Within
      <3>4. Total(t.order.early) = Total(s.order.early) + (z - p)
        <4>1. Len(new.bytes) = z - p
          BY <1>2 DEF new
        <4>2. QED
          BY <1>1, <2>3, <2>6, <4>1, TotalMore
      <3>5. MaxEarlySegments \in Nat /\ MaxEarlyBytes \in Nat
        BY EarlyAssumption
      <3>6. Len(t.order.early) <= MaxEarlySegments
        BY <1>1, <2>7, <3>1, <3>5 DEF Room
      <3>7. QED
        BY <3>1, <3>3, <3>4, <3>6 DEF Within, Room
    <2>15. ASSUME NEW r \in p..(z - 1), r >= q PROVE <<c, r>> \in Got(t)
      <3>1. <<c, r>> \in ToSet(new.bytes)
        BY <2>4, <2>5, SegSet
      <3>2. QED
        BY <2>7, <3>1 DEF Got
    <2>16. Placed(c, b, len, s, q, p, z, t, q)
      BY <1>1, <2>10, <2>12, <2>13, <2>14, <2>15 DEF Placed
    <2>17. QED
      BY <2>16 DEF t, seq, pay
  <1>11. CASE p <= q /\ q < z
    <2> DEFINE rest == Run(c, q, z)
               mid == [order |-> advance(s.order, z - q), out |-> s.out \o rest]
    <2>1. at.fit = "Next" /\ at.overlap = q - p
      BY <1>6, <1>11
    <2>2. SubSeq(pay, 1 + (q - p), z - p) = rest
      <3>1. RestIs(c, p, z, q)
        BY <1>1, <1>11, RunRest
      <3>2. QED
        BY <1>11, <3>1 DEF RestIs, pay
    <2>3. Follows(c, s.out, q, rest, z) /\ q <= z /\ z - q \in Nat /\ q + (z - q) = z
      <3>1. q <= z
        BY <1>1, <1>11
      <3>2. QED
        BY <1>1, <3>1, RunFollows
    <2>4. rest \in Seq(Bytes) /\ Len(rest) = z - q
      BY <2>3 DEF Follows
    <2>5. t = PopAll(mid)
      BY <1>7, <2>1, <2>2, <2>4
    <2>6. mid.out \in Seq(Bytes) /\ OutAt(c, mid.out, z) /\ ToSet(mid.out) = ToSet(s.out) \cup ToSet(rest)
      BY <1>1, <2>3, OutFollows
    <2>7. mid.order.early = s.order.early /\ mid.order.nextSeq = SeqFor(b, z) /\ mid.order \in Orders
      <3>1. (SeqFor(b, q) + (z - q)) % SeqSpace = SeqFor(b, q + (z - q))
        BY <1>1, <2>3, SeqAdvances
      <3>2. mid.order = [s.order EXCEPT !.nextSeq = SeqFor(b, z)]
        BY <1>1, <2>3, <3>1 DEF advance
      <3>3. SeqFor(b, z) \in SeqNumbers
        BY <1>1, SeqIs
      <3>4. QED
        BY <1>1, <3>2, <3>3 DEF Orders
    <2>8. \A r \in q..(z - 1) : <<c, r>> \in ToSet(rest)
      BY <1>1, <2>3, RunSet
    <2>9. mid \in Sides
      BY <2>6, <2>7 DEF Sides
    <2> HIDE DEF mid, rest
    <2>10. z \in 0..(len + 1) /\ z \in q..(len + 1)
      BY <1>1, <1>11
    <2>11. OrdAt(c, b, len, mid.order, z)
      BY <1>5, <2>7, <2>10 DEF OrdAt
    <2>12. ASSUME NEW x \in ToSet(mid.order.early), NEW r \in At(x)..(End(x) - 1), r < z
           PROVE  <<c, r>> \in ToSet(mid.out)
      <3>1. At(x) \in Nat /\ End(x) \in Nat /\ At(x) > q
        BY <1>5, <2>7
      <3>2. r \in q..(z - 1)
        BY <1>1, <2>12, <3>1
      <3>3. QED
        BY <2>6, <2>8, <3>2
    <2>13. SideAt(c, b, len, mid, z)
      BY <2>6, <2>9, <2>11, <2>12 DEF SideAt
    <2>14. PICK e : AllPopped(c, b, len, mid, z, PopAll(mid), e)
      BY <2>13, PopAllKeeps
    <2>15. SideAt(c, b, len, t, e) /\ Waits(t, e) /\ Keeps(mid, t) /\ e \in z..(len + 1)
      BY <2>5, <2>14 DEF AllPopped
    <2>16. Got(s) \subseteq Got(mid)
      BY <2>6, <2>7 DEF Got
    <2>17. Got(s) \subseteq Got(t)
      BY <2>15, <2>16 DEF Keeps
    <2>18. Within(t)
      <3>1. Within(mid)
        BY <2>7 DEF Within
      <3>2. QED
        BY <2>9, <2>15, <3>1, KeepsWithin DEF SideAt
    <2>19. ASSUME NEW r \in p..(z - 1), r >= q PROVE <<c, r>> \in Got(t)
      <3>1. r \in q..(z - 1) /\ <<c, r>> # Missing
        BY <1>1, <2>19 DEF Missing
      <3>2. <<c, r>> \in Got(mid)
        BY <2>6, <2>8, <3>1 DEF Got
      <3>3. QED
        BY <2>15, <3>2 DEF Keeps
    <2>20. e \in q..(len + 1)
      BY <1>1, <2>10, <2>15
    <2>21. Placed(c, b, len, s, q, p, z, t, e)
      BY <2>15, <2>17, <2>18, <2>19, <2>20 DEF Placed
    <2>22. QED
      BY <2>21 DEF t, seq, pay
  <1>12. QED
    BY <1>1, <1>8, <1>9, <1>10, <1>11

\* What a direction is that has taken the bytes of places p to before z.
Took(c, b, len, s, q, p, z, t, e, tooMany) ==
    /\ e \in q..(len + 1)
    /\ SideAt(c, b, len, t, e)
    /\ Waits(t, e)
    /\ Got(s) \subseteq Got(t)
    /\ Within(t)
    /\ ~tooMany => \A r \in p..(z - 1) : r >= q => <<c, r>> \in Got(t)

\* Place() comes to that: with too many held, it flushed them first.
LEMMA PlaceKeeps ==
    ASSUME NEW c, NEW b, NEW len, Fits(c, b, len), NEW s, NEW q, SideAt(c, b, len, s, q),
           Waits(s, q), Within(s), NEW p \in Nat, NEW z \in Nat, p <= z, z <= len, len <= MaxEarlyBytes
    PROVE  \E e : Took(c, b, len, s, q, p, z, Place(s, SeqFor(b, p), Run(c, p, z)), e,
                       TooMany(s.order, SeqFor(b, p), Run(c, p, z)))
  <1> DEFINE seq == SeqFor(b, p)
             pay == Run(c, p, z)
             many == TooMany(s.order, seq, pay)
             t == Place(s, seq, pay)
  <1>1. /\ s \in Sides /\ q \in 0..(len + 1) /\ q \in Nat /\ c \in Nat /\ len \in Nat
        /\ Len(s.order.early) \in Nat /\ Total(s.order.early) \in Nat
    <2>1. q \in 0..(len + 1) /\ len \in Nat
      BY DEF SideAt, OrdAt, Fits
    <2>2. QED
      BY <2>1, LenOf DEF SideAt, Fits
  <1>2. pay \in Seq(Bytes) /\ Len(pay) = z - p
    BY <1>1, RunIs
  <1>3. t = IF pay = <<>> THEN s ELSE Put(IF many THEN Flush(s) ELSE s, seq, pay)
    BY PlaceIs
  <1>4. many <=> /\ place(s.order, seq, z - p).fit = "Early"
                 /\ ~holds(s.order, seq, z - p)
                 /\ Len(s.order.early) >= MaxEarlySegments \/ Total(s.order.early) + (z - p) > MaxEarlyBytes
    BY <1>2, BytesHeld DEF TooMany
  <1>5. MaxEarlySegments \in Nat \ {0} /\ MaxEarlyBytes \in Nat
    BY EarlyAssumption
  <1> HIDE DEF many, t
  <1>6. CASE p = z
    <2>1. pay = <<>>
      BY <1>2, <1>6
    <2>2. t = s
      BY <1>3, <2>1
    <2>3. p..(z - 1) = {}
      BY <1>6
    <2>4. Took(c, b, len, s, q, p, z, t, q, many)
      BY <1>1, <2>2, <2>3 DEF Took
    <2>5. QED
      BY <2>4 DEF t, many
  <1>7. CASE p < z /\ ~many
    <2>1. pay # <<>>
      BY <1>2, <1>7
    <2>2. t = Put(s, seq, pay)
      BY <1>3, <1>7, <2>1
    <2>3. \/ place(s.order, seq, z - p).fit # "Early"
          \/ holds(s.order, seq, z - p)
          \/ Room(s, z - p)
      BY <1>1, <1>4, <1>5, <1>7 DEF Room
    <2>4. \E e : Placed(c, b, len, s, q, p, z, Put(s, seq, pay), e)
      BY <1>7, <2>3, PutKeeps
    <2>5. PICK e : Placed(c, b, len, s, q, p, z, t, e)
      BY <2>2, <2>4
    <2>6. Took(c, b, len, s, q, p, z, t, e, many)
      BY <2>5 DEF Placed, Took
    <2>7. QED
      BY <2>6 DEF t, many
  <1>8. CASE p < z /\ many
    <2> DEFINE room == Flush(s)
    <2>1. pay # <<>>
      BY <1>2, <1>8
    <2>2. t = Put(room, seq, pay)
      BY <1>3, <1>8, <2>1
    <2>3. PICK d : Flushed(c, b, len, s, q, room, d)
      BY FlushKeeps
    <2> HIDE DEF room
    <2>4. SideAt(c, b, len, room, d) /\ Keeps(s, room) /\ room.order.early = <<>> /\ d \in q..(len + 1) /\ room \in Sides
      BY <2>3 DEF Flushed, SideAt
    <2>5. Waits(room, d)
      BY <2>4, EmptySet DEF Waits
    <2>6. Within(room)
      BY <1>1, <2>4, KeepsWithin
    <2>7. Room(room, z - p)
      <3>1. Len(room.order.early) = 0 /\ Total(room.order.early) = 0
        BY <2>4, TotalNone, EmptySet
      <3>2. z - p \in Nat /\ z - p <= MaxEarlyBytes
        BY <1>1, <1>5
      <3>3. QED
        BY <1>5, <3>1, <3>2 DEF Room
    <2>8. \E e : Placed(c, b, len, room, d, p, z, Put(room, seq, pay), e)
      BY <1>8, <2>4, <2>5, <2>6, <2>7, PutKeeps
    <2>9. PICK e : Placed(c, b, len, room, d, p, z, t, e)
      BY <2>2, <2>8
    <2>10. Got(s) \subseteq Got(t)
      BY <2>4, <2>9 DEF Keeps, Placed
    <2>11. e \in q..(len + 1)
      BY <1>1, <2>4, <2>9 DEF Placed
    <2>12. Took(c, b, len, s, q, p, z, t, e, many)
      BY <1>8, <2>9, <2>10, <2>11 DEF Placed, Took
    <2>13. QED
      BY <2>12 DEF t, many
  <1>9. QED
    BY <1>6, <1>7, <1>8

\* With nothing held there is nothing to flush.
LEMMA FlushNone ==
    ASSUME NEW s \in Sides, s.order.early = <<>>
    PROVE  Flush(s) = s
  <1>1. PICK h : HeldLoop(s, Unset, h)
    BY HeldSteps
  <1>2. Len(s.order.early) = 0
    BY EmptySet
  <1>3. QED
    BY <1>1, <1>2 DEF HeldLoop, Flush

\* A sequence number past the last one is where it wraps to.
LEMMA AfterMore ==
    ASSUME NEW b \in SeqNumbers, NEW p \in Nat, NEW m \in Nat, NEW q \in Nat,
           2 * (p + m - q) < SeqSpace, 2 * (q - (p + m)) < SeqSpace
    PROVE  seqAfter(SeqFor(b, p) + m, SeqFor(b, q)) = p + m - q
  <1> DEFINE x == SeqFor(b, p) + m
             y == SeqFor(b, q)
             n == SeqSpace
             r == SeqFor(b, p + m)
  <1>1. n \in Nat \ {0} /\ \A v \in SeqNumbers : v \in Nat
    BY SeqSpaceAssumption DEF SeqNumbers
  <1>2. x % n = r
    BY SeqAdvances
  <1>3. SeqFor(b, p) \in SeqNumbers /\ y \in SeqNumbers /\ r \in SeqNumbers
    <2>1. PICK z \in Nat : z = p + m
      OBVIOUS
    <2>2. SeqFor(b, p) \in SeqNumbers /\ SeqFor(b, q) \in SeqNumbers /\ SeqFor(b, z) \in SeqNumbers
      BY SeqIs
    <2>3. QED
      BY <2>1, <2>2
  <1>5. x \in Int /\ y \in Nat /\ r \in Nat
    BY <1>1, <1>3
  <1>4. seqAfter(r, y) = p + m - q
    <2> DEFINE z == p + m
    <2>1. z \in Nat /\ 2 * (z - q) < SeqSpace /\ 2 * (q - z) < SeqSpace
      OBVIOUS
    <2> HIDE DEF z
    <2>2. seqAfter(SeqFor(b, z), SeqFor(b, q)) = z - q
      BY <2>1, AfterIs
    <2>3. QED
      BY <2>2 DEF z
  <1> HIDE DEF x, y, r
  <1>6. PICK k \in Int : x = n * k + r
    BY <1>1, <1>2, <1>5, DivMod
  <1>7. r - y \in Int
    BY <1>1, <1>5
  <1>8. PICK l \in Int : r - y = n * l + ((r - y) % n) /\ (r - y) % n \in 0..(n - 1)
    <2>1. \A v \in Int : v % n \in 0..(n - 1) /\ v \div n \in Int /\ v = n * (v \div n) + (v % n)
      BY <1>1, DivMod
    <2>2. QED
      BY <1>7, <2>1
  <1>9. x - y = n * (k + l) + ((r - y) % n) /\ k + l \in Int /\ x - y \in Int
    <2>1. PICK v : v = (r - y) % n
      OBVIOUS
    <2>2. v \in Int /\ r - y = n * l + v
      BY <1>1, <1>8, <2>1
    <2>3. x - y = n * (k + l) + v
      BY <1>1, <1>5, <1>6, <2>2
    <2>4. QED
      BY <1>1, <1>5, <2>1, <2>3
  <1>10. (x - y) % n = (r - y) % n
    <2>1. PICK v : v = (r - y) % n
      OBVIOUS
    <2>2. PICK w : w = x - y
      OBVIOUS
    <2>3. w % n = v
      BY <1>1, <1>8, <1>9, <2>1, <2>2, ModIs
    <2>4. QED
      BY <2>1, <2>2, <2>3
  <1>11. seqAfter(x, y) = seqAfter(r, y)
    BY <1>10 DEF seqAfter
  <1>12. QED
    BY <1>4, <1>11 DEF x, y, r

-----------------------------------------------------------------------------
(* A direction takes a packet.                                             *)

\* The direction when a packet was looked at whose bytes are still to be placed.
Begun(side, syn, isStarted, seq, len) ==
    LET opened == IF syn THEN [order |-> reset(seq), out |-> Flush(side).out] ELSE side
    IN  IF len > 0 /\ ~(syn \/ isStarted) THEN [opened EXCEPT !.order = reset(seq)] ELSE opened

\* Started at some place of connection c, or not at all.
Reads(c, b, len, s, isStarted) ==
    /\ s \in Sides
    /\ Within(s)
    /\ isStarted => \E q \in 0..(len + 1) : SideAt(c, b, len, s, q) /\ Waits(s, q)
    /\ ~isStarted => s.out = <<>> /\ s.order.early = <<>>

\* A direction that holds nothing is at any place behind what it gave.
LEMMA FreshSide ==
    ASSUME NEW c, NEW b, NEW len, Fits(c, b, len), NEW q \in 0..len, NEW s \in Seq(Bytes),
           InOrder(s), \A i \in DOMAIN s : s[i][1] < c
    PROVE  LET t == [order |-> reset(SeqFor(b, q)), out |-> s]
           IN  SideAt(c, b, len, t, q) /\ Waits(t, q) /\ Within(t) /\ t \in Sides
  <1> DEFINE t == [order |-> reset(SeqFor(b, q)), out |-> s]
  <1>1. len \in Nat /\ b \in SeqNumbers /\ q \in Nat /\ q \in 0..(len + 1) /\ c \in Nat
    BY DEF Fits
  <1>2. t.order.early = <<>> /\ t.order.nextSeq = SeqFor(b, q) /\ t.out = s
    BY DEF reset
  <1>3. SeqFor(b, q) \in SeqNumbers
    BY <1>1, SeqIs
  <1>4. t.order \in Orders /\ t \in Sides
    BY <1>3 DEF reset, Orders, Sides
  <1>5. OutAt(c, s, q)
    <2>1. \A i \in DOMAIN s : s[i] \in Bytes
      OBVIOUS
    <2>2. \A i \in DOMAIN s : s[i][1] \in Nat
      BY <2>1 DEF Bytes
    <2>3. QED
      BY <1>1, <2>2 DEF OutAt
  <1>6. SideAt(c, b, len, t, q)
    BY <1>1, <1>2, <1>4, <1>5, EmptySet DEF SideAt, OrdAt
  <1>7. Waits(t, q)
    BY <1>2, EmptySet DEF Waits
  <1>8. Within(t)
    BY <1>2, EmptySet, TotalNone, EarlyAssumption DEF Within
  <1>9. QED
    BY <1>4, <1>6, <1>7, <1>8

\* What a direction is that has looked at a packet at place p, the connection now c.
Opens(c, b, len, s, t, begins) ==
    /\ t \in Sides
    /\ Within(t)
    /\ Got(s) \subseteq Got(t)
    /\ begins => \E q \in 0..(len + 1) : SideAt(c, b, len, t, q) /\ Waits(t, q)
    /\ ~begins => t = s

\* A new connection, or the first packet of it, begins at the packet's place.
LEMMA BegunKeeps ==
    ASSUME NEW c, NEW b, NEW len, Fits(c, b, len), NEW was, NEW first, Fits(was, first, len),
           NEW s, NEW isStarted \in BOOLEAN, Reads(was, first, len, s, isStarted),
           NEW syn \in BOOLEAN, NEW p \in 0..len, NEW m \in Nat,
           syn => c = was + 1 \/ ~isStarted,
           ~syn => c = was /\ b = first
    PROVE  Opens(c, b, len, s, Begun(s, syn, isStarted, SeqFor(b, p), m), syn \/ isStarted \/ m > 0)
  <1> DEFINE t == Begun(s, syn, isStarted, SeqFor(b, p), m)
             begins == syn \/ isStarted \/ m > 0
  <1>1. s \in Sides /\ Within(s) /\ s.out \in Seq(Bytes) /\ len \in Nat /\ c \in Nat \ {0} /\ was \in Nat
    BY LenOf DEF Reads, Fits
  <1>2. CASE ~begins
    <2>1. t = s
      BY <1>2 DEF Begun
    <2>2. QED
      BY <1>1, <1>2, <2>1 DEF Opens
  <1>3. CASE syn
    <2> DEFINE f == Flush(s)
    <2>1. t = [order |-> reset(SeqFor(b, p)), out |-> f.out]
      BY <1>3 DEF Begun
    <2>2. f \in Sides /\ InOrder(f.out) /\ (\A i \in DOMAIN f.out : f.out[i][1] < c)
          /\ Got(s) \subseteq Got(f) /\ f.order.early = <<>>
      <3>1. CASE isStarted
        <4>1. PICK q \in 0..(len + 1) : SideAt(was, first, len, s, q)
          BY <3>1 DEF Reads
        <4>2. PICK e : Flushed(was, first, len, s, q, f, e)
          BY <4>1, FlushKeeps
        <4> HIDE DEF f
        <4>3. SideAt(was, first, len, f, e) /\ Keeps(s, f) /\ f.order.early = <<>>
          BY <4>2 DEF Flushed
        <4>4. OutAt(was, f.out, e) /\ f \in Sides
          BY <4>3 DEF SideAt
        <4>5. c = was + 1
          BY <1>3, <3>1
        <4>6. \A i \in DOMAIN f.out : f.out[i][1] \in Nat
          <5>1. f.out \in Seq(Bytes)
            BY <4>4, LenOf
          <5>2. \A i \in DOMAIN f.out : f.out[i] \in Bytes
            BY <5>1
          <5>3. QED
            BY <5>2 DEF Bytes
        <4>7. \A i \in DOMAIN f.out : f.out[i][1] < c
          BY <1>1, <4>4, <4>5, <4>6 DEF OutAt
        <4>8. QED
          BY <4>3, <4>4, <4>7 DEF OutAt, Keeps
      <3>2. CASE ~isStarted
        <4>1. f = s /\ s.out = <<>> /\ s.order.early = <<>>
          BY <1>1, <3>2, FlushNone DEF Reads
        <4> HIDE DEF f
        <4>2. DOMAIN s.out = {}
          BY <4>1
        <4>3. InOrder(s.out)
          BY <4>2 DEF InOrder
        <4>4. QED
          BY <1>1, <4>1, <4>2, <4>3
      <3>3. QED
        BY <3>1, <3>2
    <2> HIDE DEF f
    <2>3. f.out \in Seq(Bytes)
      BY <2>2, LenOf
    <2>4. SideAt(c, b, len, t, p) /\ Waits(t, p) /\ Within(t) /\ t \in Sides
      <3>1. LET u == [order |-> reset(SeqFor(b, p)), out |-> f.out]
            IN  SideAt(c, b, len, u, p) /\ Waits(u, p) /\ Within(u) /\ u \in Sides
        BY <2>2, <2>3, FreshSide
      <3>2. QED
        BY <2>1, <3>1
    <2>5. Got(s) \subseteq Got(t)
      <3>1. t.out = f.out
        BY <2>1
      <3>2. QED
        BY <2>2, <3>1, EmptySet DEF Got
    <2>6. p \in 0..(len + 1)
      BY <1>1
    <2>7. QED
      BY <1>3, <2>4, <2>5, <2>6 DEF Opens
  <1>4. CASE ~syn /\ isStarted
    <2>1. t = s
      BY <1>4 DEF Begun
    <2>2. c = was /\ b = first
      BY <1>4
    <2>3. \E q \in 0..(len + 1) : SideAt(c, b, len, s, q) /\ Waits(s, q)
      BY <1>4, <2>2 DEF Reads
    <2>4. QED
      BY <1>1, <1>4, <2>1, <2>3 DEF Opens
  <1>5. CASE ~syn /\ ~isStarted /\ m > 0
    <2>1. t = [s EXCEPT !.order = reset(SeqFor(b, p))]
      BY <1>5 DEF Begun
    <2>2. s.out = <<>> /\ s.order.early = <<>>
      BY <1>5 DEF Reads
    <2>3. t = [order |-> reset(SeqFor(b, p)), out |-> <<>>]
      BY <1>1, <2>1, <2>2 DEF Sides
    <2>4. InOrder(<<>>) /\ <<>> \in Seq(Bytes) /\ DOMAIN <<>> = {}
      BY DEF InOrder
    <2>5. SideAt(c, b, len, t, p) /\ Waits(t, p) /\ Within(t) /\ t \in Sides
      <3>1. PICK none : none = <<>>
        OBVIOUS
      <3>2. LET u == [order |-> reset(SeqFor(b, p)), out |-> none]
            IN  SideAt(c, b, len, u, p) /\ Waits(u, p) /\ Within(u) /\ u \in Sides
        BY <2>4, <3>1, FreshSide
      <3>3. QED
        BY <2>3, <3>1, <3>2
    <2>6. Got(s) \subseteq Got(t)
      BY <2>2, EmptySet DEF Got
    <2>7. p \in 0..(len + 1)
      BY <1>1
    <2>8. QED
      BY <1>5, <2>5, <2>6, <2>7 DEF Opens
  <1>6. QED
    BY <1>2, <1>3, <1>4, <1>5

\* The bytes of a segment at place p whose turn is to come, by their sequence numbers.
ToCome(s, seq, payload) ==
    {payload[i] : i \in {j \in DOMAIN payload : seqAfter(seq + j - 1, s.order.nextSeq) >= 0}}

\* What a direction is that took a packet.
Takes(c, b, len, s, t, begins, many, toCome) ==
    /\ Reads(c, b, len, t, begins)
    /\ Got(s) \subseteq Got(t)
    /\ many \/ toCome \subseteq Got(t)

\* It comes to that, for any packet of its end's connection.
LEMMA TakenKeeps ==
    ASSUME NEW c, NEW b, NEW len, Fits(c, b, len), NEW was, NEW first, Fits(was, first, len),
           NEW s, NEW isStarted \in BOOLEAN, Reads(was, first, len, s, isStarted),
           NEW syn \in BOOLEAN, NEW p \in 0..len, NEW m \in Nat,
           syn => c = was + 1 \/ ~isStarted,
           ~syn => c = was /\ b = first,
           NEW z \in p..len, z <= p + m, len <= MaxEarlyBytes
    PROVE  LET begun == Begun(s, syn, isStarted, SeqFor(b, p), m)
               payload == Run(c, p, z)
           IN  Takes(c, b, len, s, Place(begun, SeqFor(b, p), payload), syn \/ isStarted \/ m > 0,
                     TooMany(begun.order, SeqFor(b, p), payload), ToCome(begun, SeqFor(b, p), payload))
  <1> DEFINE begun == Begun(s, syn, isStarted, SeqFor(b, p), m)
             payload == Run(c, p, z)
             t == Place(begun, SeqFor(b, p), payload)
             begins == syn \/ isStarted \/ m > 0
             many == TooMany(begun.order, SeqFor(b, p), payload)
             toCome == ToCome(begun, SeqFor(b, p), payload)
  <1>1. Opens(c, b, len, s, begun, begins)
    BY BegunKeeps
  <1>2. len \in Nat /\ p \in Nat /\ z \in Nat /\ p <= z /\ z <= len /\ c \in Nat /\ c \in Nat \ {0} /\ b \in SeqNumbers
        /\ 2 * (len + 2) < SeqSpace /\ SeqSpace \in Nat
    BY SeqSpaceAssumption DEF Fits
  <1>3. payload \in Seq(Bytes) /\ Len(payload) = z - p /\ z - p \in Nat
        /\ \A i \in 1..(z - p) : payload[i] = <<c, p + i - 1>>
    <2>1. /\ Run(c, p, z) \in Seq(Bytes)
          /\ Len(Run(c, p, z)) = z - p
          /\ \A i \in 1..(z - p) : Run(c, p, z)[i] = <<c, p + i - 1>>
      BY <1>2, RunIs
    <2>2. z - p \in Nat
      BY <1>2
    <2>3. QED
      BY <2>1, <2>2
  <1>4. DOMAIN payload = 1..(z - p)
    BY <1>3
  <1> HIDE DEF begun, payload
  <1>5. CASE ~begins
    <2>1. begun = s
      BY <1>1, <1>5 DEF Opens
    <2>2. m = 0 /\ z = p /\ ~syn /\ ~isStarted
      BY <1>2, <1>5
    <2>3. payload = <<>>
      BY <1>3, <2>2
    <2>4. t = s
      BY <2>1, <2>3, PlaceIs
    <2>5. toCome = {}
      BY <1>4, <2>2 DEF ToCome
    <2>6. Reads(c, b, len, s, begins)
      BY <1>5, <2>2 DEF Reads
    <2>7. QED
      BY <2>4, <2>5, <2>6 DEF Takes, begun, payload
  <1>6. CASE begins
    <2>1. PICK q \in 0..(len + 1) : SideAt(c, b, len, begun, q) /\ Waits(begun, q)
      BY <1>1, <1>6 DEF Opens
    <2>2. Within(begun)
      BY <1>1 DEF Opens
    <2>3. PICK e : Took(c, b, len, begun, q, p, z, t, e, many)
      BY <1>2, <2>1, <2>2, PlaceKeeps DEF payload
    <2> HIDE DEF t, many
    <2>4. /\ e \in q..(len + 1) /\ SideAt(c, b, len, t, e) /\ Waits(t, e) /\ Got(begun) \subseteq Got(t)
          /\ Within(t) /\ (~many => \A r \in p..(z - 1) : r >= q => <<c, r>> \in Got(t))
      BY <2>3 DEF Took
    <2>5. q \in Nat /\ e \in 0..(len + 1)
      BY <1>2, <2>1, <2>4
    <2>6. Reads(c, b, len, t, begins)
      BY <1>6, <2>4, <2>5 DEF Reads, SideAt
    <2>7. Got(s) \subseteq Got(t)
      BY <1>1, <2>4 DEF Opens
    <2>8. ASSUME ~many, NEW i \in 1..(z - p), seqAfter(SeqFor(b, p) + i - 1, begun.order.nextSeq) >= 0
          PROVE  payload[i] \in Got(t)
      <3>1. begun.order.nextSeq = SeqFor(b, q)
        BY <2>1 DEF SideAt, OrdAt
      <3>2. PICK k \in Nat : k = i - 1 /\ p + k \in p..(z - 1)
        BY <1>2
      <3>3. seqAfter(SeqFor(b, p) + k, SeqFor(b, q)) = p + k - q
        <4>1. 2 * (p + k - q) < SeqSpace /\ 2 * (q - (p + k)) < SeqSpace
          BY <1>2, <2>1, <3>2
        <4>2. QED
          BY <1>2, <2>5, <3>2, <4>1, AfterMore
      <3>4. SeqFor(b, p) + i - 1 = SeqFor(b, p) + k
        <4>1. SeqFor(b, p) \in Int
          BY <1>2, SeqIs, SeqSpaceAssumption DEF SeqNumbers
        <4>2. QED
          BY <3>2, <4>1
      <3>5. p + k >= q
        BY <1>2, <2>5, <2>8, <3>1, <3>2, <3>3, <3>4
      <3>6. <<c, p + k>> \in Got(t)
        BY <2>4, <2>8, <3>2, <3>5
      <3>7. payload[i] = <<c, p + k>>
        <4>1. p + i - 1 = p + k
          BY <1>2, <3>2
        <4>2. QED
          BY <1>3, <4>1
      <3>8. QED
        BY <3>6, <3>7
    <2>9. many \/ toCome \subseteq Got(t)
      BY <1>4, <2>8 DEF ToCome
    <2>10. Takes(c, b, len, s, t, begins, many, toCome)
      BY <2>6, <2>7, <2>9 DEF Takes
    <2>11. QED
      BY <2>10 DEF t, many, begun, payload
  <1>7. QED
    BY <1>5, <1>6

\* An acknowledgement is taken in the direction whose bytes it acknowledges.
LEMMA AckedKeeps ==
    ASSUME NEW c, NEW b, NEW len, Fits(c, b, len), NEW s, Reads(c, b, len, s, TRUE),
           NEW r \in 0..(len + 1), NEW fin \in {Unset, SeqFor(b, len)}
    PROVE  Reads(c, b, len, SkipTo(s, SeqFor(b, r), fin), TRUE) /\ Got(s) \subseteq Got(SkipTo(s, SeqFor(b, r), fin))
  <1> DEFINE t == SkipTo(s, SeqFor(b, r), fin)
  <1>1. PICK q \in 0..(len + 1) : SideAt(c, b, len, s, q) /\ Waits(s, q)
    BY DEF Reads
  <1>2. PICK e : Skipped(c, b, len, s, q, t, e)
    BY <1>1, SkipToKeeps
  <1> HIDE DEF t
  <1>3. e \in q..(len + 1) /\ SideAt(c, b, len, t, e) /\ Keeps(s, t) /\ Waits(t, e) /\ s \in Sides /\ t \in Sides /\ Within(s)
    BY <1>1, <1>2 DEF Skipped, SideAt, Reads
  <1>4. Within(t)
    BY <1>3, KeepsWithin
  <1>5. e \in 0..(len + 1)
    BY <1>1, <1>3 DEF Fits
  <1>6. Reads(c, b, len, t, TRUE) /\ Got(s) \subseteq Got(t)
    BY <1>3, <1>4, <1>5 DEF Reads, Keeps
  <1>7. QED
    BY <1>6 DEF t

\* Past the last packet nothing is held.
LEMMA FinishedKeeps ==
    ASSUME NEW c, NEW b, NEW len, Fits(c, b, len), NEW s, NEW isStarted \in BOOLEAN,
           Reads(c, b, len, s, isStarted)
    PROVE  /\ Reads(c, b, len, Flush(s), isStarted)
           /\ Got(s) \subseteq Got(Flush(s))
           /\ Flush(s).order.early = <<>>
           /\ ~isStarted => Flush(s) = s
  <1> DEFINE t == Flush(s)
  <1>1. s \in Sides /\ Within(s)
    BY DEF Reads
  <1>2. CASE isStarted
    <2>1. PICK q \in 0..(len + 1) : SideAt(c, b, len, s, q) /\ Waits(s, q)
      BY <1>2 DEF Reads
    <2>2. PICK e : Flushed(c, b, len, s, q, t, e)
      BY <2>1, FlushKeeps
    <2> HIDE DEF t
    <2>3. e \in q..(len + 1) /\ SideAt(c, b, len, t, e) /\ Keeps(s, t) /\ t.order.early = <<>> /\ t \in Sides
      BY <2>2 DEF Flushed, SideAt
    <2>4. Waits(t, e)
      BY <2>3, EmptySet DEF Waits
    <2>5. Within(t)
      BY <1>1, <2>3, KeepsWithin
    <2>6. e \in 0..(len + 1)
      BY <2>1, <2>3 DEF Fits
    <2>7. Reads(c, b, len, t, isStarted) /\ Got(s) \subseteq Got(t) /\ t.order.early = <<>>
      BY <1>2, <2>3, <2>4, <2>5, <2>6 DEF Reads, Keeps
    <2>8. QED
      BY <1>2, <2>7 DEF t
  <1>3. CASE ~isStarted
    <2>1. s.order.early = <<>>
      BY <1>3 DEF Reads
    <2>2. t = s
      BY <1>1, <2>1, FlushNone
    <2>3. QED
      BY <2>1, <2>2
  <1>4. QED
    BY <1>2, <1>3

\* There are two ends.
LEMMA OtherIs ==
    ASSUME NEW end \in Ends
    PROVE  Other(end) \in Ends /\ Other(end) # end /\ Other(Other(end)) = end
           /\ \A e \in Ends : e = end \/ e = Other(end)
  <1>1. "client" # "server"
    OBVIOUS
  <1>2. ASSUME NEW e \in Ends PROVE Other(e) \in Ends /\ Other(e) # e
    <2>1. \E other \in Ends : other # e
      BY <1>1 DEF Ends
    <2>2. QED
      BY <2>1 DEF Other
  <1>3. QED
    BY <1>2 DEF Ends

\* What the capture may hold of an end.
PacketOf(end, packet) ==
    /\ packet.pos \in 0..Length[end]
    /\ packet.len \in 0..Length[end]
    /\ packet.pos + packet.len <= Length[end]
    /\ packet.syn \in BOOLEAN
    /\ packet.fin \in BOOLEAN
    /\ packet.shift \in WindowShifts \cup {Unset}
    /\ packet.syn => packet.pos = 0 /\ ~packet.fin
    /\ packet.fin => packet.pos + packet.len = Length[end]
    /\ packet.ack # Unset => packet.ack \in 0..(Length[Other(end)] + 1)

\* Each of them is that.
LEMMA PacketIs ==
    ASSUME NEW end \in Ends, NEW packet \in Packets[end]
    PROVE  PacketOf(end, packet)
  BY DEF Packets, PacketOf

-----------------------------------------------------------------------------
(* The inductive invariant.                                                *)

\* A direction's parts, and what is due of an end: what was captured in time.
Side(d) == [order |-> order[d], out |-> out[d]]
Due(end) == owed[end] \ cut[end]

\* The types.
TypeOK ==
    /\ ends \in [Directions -> Ends]
    /\ ends[0] # ends[1]
    /\ endsKnown \in BOOLEAN
    /\ order \in [Directions -> Orders]
    /\ out \in [Directions -> Seq(Bytes)]
    /\ started \in [Directions -> BOOLEAN]
    /\ finSeq \in [Directions -> SeqNumbers \cup {Unset}]
    /\ sentEnd \in [Directions -> SeqNumbers \cup {Unset}]
    /\ synSeen \in [Directions -> BOOLEAN]
    /\ windowShift \in [Directions -> WindowShifts \cup {Unset}]
    /\ flushed \in BOOLEAN
    /\ connection \in [Ends -> Nat]
    /\ \A end \in Ends : connection[end] \in Connections(end)
    /\ opener \in Ends \cup {Unset}
    /\ owed \in [Ends -> SUBSET Bytes]
    /\ cut \in [Ends -> SUBSET Bytes]

\* Direction d reads what an end sends: it is at a place of the end's connection, or
\* not started; it has what is due of the end, and holds none of it in the end.
ReadsEnd(end, d) ==
    /\ Reads(connection[end], FirstSeq[end][connection[end]], Length[end], Side(d), started[d])
    /\ finSeq[d] \in {Unset, SeqFor(FirstSeq[end][connection[end]], Length[end])}
    /\ started[d] => sentEnd[d] # Unset
    /\ Due(end) \subseteq Got(Side(d))
    /\ flushed => order[d].early = <<>>

\* Before the first packet nothing was read in either direction.
NothingRead ==
    /\ \A d \in Directions : ~started[d] /\ finSeq[d] = Unset /\ order[d].early = <<>>
    /\ \A end \in Ends : owed[end] = {}

\* What every state is.
IInv ==
    /\ TypeOK
    /\ \A d \in Directions : ReadsEnd(ends[d], d)
    /\ ~endsKnown => NothingRead
    /\ ClientIsTheOpener

\* There are two directions.
LEMMA DirectionIs ==
    ASSUME NEW d \in Directions
    PROVE  1 - d \in Directions /\ 1 - d # d /\ 1 - (1 - d) = d /\ \A e \in Directions : e = d \/ e = 1 - d
  BY DEF Directions

\* What the capture is known to be, of one connection of an end.
LEMMA ConnectionFits ==
    ASSUME NEW end \in Ends, NEW c \in Connections(end)
    PROVE  Fits(c, FirstSeq[end][c], Length[end]) /\ Length[end] <= MaxEarlyBytes
  <1>1. c \in Nat \ {0}
    <2>1. MaxConnections[end] \in Nat
      BY EndsAssumption
    <2>2. QED
      BY <2>1 DEF Connections
  <1>2. FirstSeq[end][c] \in SeqNumbers /\ Length[end] \in Nat
    BY EndsAssumption
  <1>3. 2 * (Length[end] + 2) < SeqSpace /\ Length[end] <= MaxEarlyBytes
    BY WindowAssumption, EarlyAssumption
  <1>4. QED
    BY <1>1, <1>2, <1>3 DEF Fits

\* It holds at first.
LEMMA InitKeeps == Init => IInv
  <1> SUFFICES ASSUME Init PROVE IInv
    OBVIOUS
  <1> USE DEF Init
  <1>1. PICK first \in Ends : ends = [d \in Directions |-> IF d = 0 THEN first ELSE Other(first)]
    OBVIOUS
  <1>2. ends \in [Directions -> Ends] /\ ends[0] # ends[1]
    BY <1>1, OtherIs DEF Directions
  <1>3. reset(0) \in Orders /\ reset(0).early = <<>>
    BY SeqSpaceAssumption DEF reset, Orders, SeqNumbers
  <1>4. /\ order \in [Directions -> Orders]
        /\ out \in [Directions -> Seq(Bytes)]
        /\ \A d \in Directions : order[d] = reset(0) /\ out[d] = <<>>
    BY <1>3
  <1>5. \A end \in Ends : connection[end] \in Connections(end)
    BY EndsAssumption DEF Connections
  <1>6. TypeOK
    BY <1>2, <1>4, <1>5 DEF TypeOK
  <1>7. NothingRead
    BY <1>3, <1>4 DEF NothingRead
  <1>8. ASSUME NEW d \in Directions PROVE ReadsEnd(ends[d], d)
    <2>1. Side(d) = [order |-> order[d], out |-> out[d]] /\ Side(d) \in Sides
      BY <1>4 DEF Side, Sides
    <2>2. Within(Side(d))
      BY <1>3, <1>4, <2>1, EmptySet, TotalNone, EarlyAssumption DEF Within
    <2>3. Reads(connection[ends[d]], FirstSeq[ends[d]][connection[ends[d]]], Length[ends[d]], Side(d), started[d])
      BY <1>3, <1>4, <2>1, <2>2 DEF Reads
    <2>4. Due(ends[d]) \subseteq Got(Side(d))
      BY <1>2 DEF Due
    <2>5. QED
      BY <1>3, <1>4, <2>3, <2>4 DEF ReadsEnd
  <1>9. ClientIsTheOpener
    BY DEF ClientIsTheOpener
  <1>10. QED
    BY <1>6, <1>7, <1>8, <1>9 DEF IInv

-----------------------------------------------------------------------------
(* The last packet was read.                                               *)

\* The end of the capture keeps it.
LEMMA FinishKeeps == IInv /\ Finish => IInv'
  <1> SUFFICES ASSUME IInv, Finish PROVE IInv'
    OBVIOUS
  <1>1. /\ flushed' = TRUE
        /\ order' = [d \in Directions |-> Flush(Side(d)).order]
        /\ out' = [d \in Directions |-> Flush(Side(d)).out]
        /\ UNCHANGED <<ends, endsKnown, started, finSeq, sentEnd, synSeen, windowShift,
                       connection, opener, owed, cut>>
    BY DEF Finish, Side
  <1>2. TypeOK /\ (\A d \in Directions : ReadsEnd(ends[d], d)) /\ (~endsKnown => NothingRead) /\ ClientIsTheOpener
    BY DEF IInv
  <1>3. ASSUME NEW d \in Directions
        PROVE  /\ Side(d)' = Flush(Side(d)) /\ Flush(Side(d)) \in Sides
               /\ ReadsEnd(ends[d], d)' /\ order'[d].early = <<>>
    <2> DEFINE end == ends[d]
               c == connection[end]
    <2>1. end \in Ends /\ c \in Connections(end) /\ started[d] \in BOOLEAN
      BY <1>2 DEF TypeOK
    <2>2. Fits(c, FirstSeq[end][c], Length[end])
      BY <2>1, ConnectionFits
    <2>3. Reads(c, FirstSeq[end][c], Length[end], Side(d), started[d])
      BY <1>2 DEF ReadsEnd
    <2>4. /\ Reads(c, FirstSeq[end][c], Length[end], Flush(Side(d)), started[d])
          /\ Got(Side(d)) \subseteq Got(Flush(Side(d)))
          /\ Flush(Side(d)).order.early = <<>>
          /\ ~started[d] => Flush(Side(d)) = Side(d)
      BY <2>1, <2>2, <2>3, FinishedKeeps
    <2>5. Flush(Side(d)) \in Sides
      BY <2>4 DEF Reads
    <2>6. Side(d)' = Flush(Side(d))
      BY <1>1, <2>5 DEF Side, Sides
    <2>7. end' = end /\ c' = c /\ started'[d] = started[d] /\ Due(end)' = Due(end)
          /\ finSeq'[d] = finSeq[d] /\ sentEnd'[d] = sentEnd[d]
      BY <1>1 DEF Due
    <2>8. Due(end) \subseteq Got(Side(d)) /\ (started[d] => sentEnd[d] # Unset)
          /\ finSeq[d] \in {Unset, SeqFor(FirstSeq[end][c], Length[end])}
      BY <1>2 DEF ReadsEnd
    <2>9. order'[d].early = <<>>
      BY <2>4, <2>6 DEF Side
    <2>10. Reads(c, FirstSeq[end][c], Length[end], Side(d)', started'[d])
      BY <2>4, <2>6, <2>7
    <2>11. Due(end)' \subseteq Got(Side(d)')
      BY <2>4, <2>6, <2>7, <2>8
    <2>12. ReadsEnd(end, d)'
      BY <2>7, <2>8, <2>9, <2>10, <2>11 DEF ReadsEnd
    <2>13. QED
      BY <2>5, <2>6, <2>7, <2>9, <2>12
  <1>4. TypeOK'
    <2>1. order' \in [Directions -> Orders] /\ out' \in [Directions -> Seq(Bytes)]
      BY <1>1, <1>3 DEF Sides
    <2>2. QED
      BY <1>1, <1>2, <2>1 DEF TypeOK
  <1>5. \A d \in Directions : ReadsEnd(ends[d], d)'
    BY <1>3
  <1>6. ~endsKnown' => NothingRead'
    <2> SUFFICES ASSUME ~endsKnown PROVE NothingRead'
      BY <1>1
    <2>1. NothingRead
      BY <1>2
    <2>2. QED
      BY <1>1, <1>3, <2>1 DEF NothingRead
  <1>7. ClientIsTheOpener'
    BY <1>1, <1>2 DEF ClientIsTheOpener
  <1>8. QED
    BY <1>4, <1>5, <1>6, <1>7 DEF IInv

-----------------------------------------------------------------------------
(* A packet is read.                                                       *)

\* The captured bytes of a packet of connection c, and the place of what it acknowledges.
CapturedTo(packet) == packet.pos + (IF packet.len < Snaplen THEN packet.len ELSE Snaplen)
AckAt(end, packet) ==
    IF packet.ack = Unset THEN 0 ELSE SeqAt(Other(end), connection[Other(end)], packet.ack)

\* The direction that reads an end is known, or named, before the packet is taken.
ReadAs(from, packet, d) ==
    LET c == connection'[from]
    IN  /\ d \in Directions
        /\ ends' \in [Directions -> Ends]
        /\ ends'[d] = from
        /\ ends'[1 - d] = Other(from)
        /\ endsKnown' = TRUE
        /\ flushed' = FALSE /\ flushed = FALSE
        /\ connection' \in [Ends -> Nat]
        /\ connection'[Other(from)] = connection[Other(from)]
        /\ c \in Connections(from)
        /\ packet.syn => c = connection[from] + 1 \/ sentEnd[d] = Unset
        /\ ~packet.syn => c = connection[from]
        /\ takeTcp(d, packet, SeqAt(from, c, packet.pos), Run(c, packet.pos, CapturedTo(packet)), AckAt(from, packet))
        /\ \A e \in Directions : ReadsEnd(ends'[e], e)
        /\ opener' \in Ends \cup {Unset}
        /\ opener' # Unset => ends'[0] = opener'

\* The captured bytes are a run of the connection, within what the end sends.
LEMMA PayloadIs ==
    ASSUME NEW end \in Ends, NEW packet, PacketOf(end, packet), NEW c
    PROVE  /\ CapturedTo(packet) \in packet.pos..Length[end] /\ CapturedTo(packet) <= packet.pos + packet.len
           /\ [i \in 1..(IF packet.len < Snaplen THEN packet.len ELSE Snaplen) |-> <<c, packet.pos + i - 1>>]
                = Run(c, packet.pos, CapturedTo(packet))
  <1>1. Length[end] \in Nat /\ Snaplen \in Nat
    BY EndsAssumption
  <1>2. PICK k : k = IF packet.len < Snaplen THEN packet.len ELSE Snaplen
    OBVIOUS
  <1>3. k \in Nat /\ k <= packet.len /\ packet.pos \in Nat /\ packet.len \in Nat /\ packet.pos + packet.len <= Length[end]
    BY <1>1, <1>2 DEF PacketOf
  <1>4. CapturedTo(packet) = packet.pos + k
    BY <1>2 DEF CapturedTo
  <1>5. (packet.pos + k) - packet.pos = k
    BY <1>3
  <1>6. [i \in 1..k |-> <<c, packet.pos + i - 1>>] = Run(c, packet.pos, packet.pos + k)
    BY <1>5 DEF Run
  <1>7. QED
    BY <1>1, <1>2, <1>3, <1>4, <1>6

\* read() takes a packet that way: the first one names the ends so that the client is
\* the opener, as nothing was read in either direction yet.
LEMMA ReadIs ==
    ASSUME IInv, NEW from \in Ends, NEW packet \in Packets[from], Read(from, packet)
    PROVE  \E d \in Directions : ReadAs(from, packet, d)
  <1> DEFINE side == CHOOSE d \in Directions : ends[d] = from
             synAck == packet.syn /\ packet.ack # Unset
             swap == ~endsKnown /\ SwapEnds(side, synAck)
             d == IF swap THEN 1 - side ELSE side
             c == connection'[from]
  <1>1. TypeOK /\ (\A e \in Directions : ReadsEnd(ends[e], e)) /\ (~endsKnown => NothingRead) /\ ClientIsTheOpener
    BY DEF IInv
  <1>2. /\ ~flushed
        /\ IF packet.syn
           THEN \/ connection[from] < MaxConnections[from]
                   /\ connection' = [connection EXCEPT ![from] = @ + 1]
                \/ sentEnd[d] = Unset
                   /\ UNCHANGED connection
           ELSE UNCHANGED connection
        /\ ends' = IF swap THEN [e \in Directions |-> ends[1 - e]] ELSE ends
        /\ endsKnown' = TRUE
        /\ opener' = CASE endsKnown -> opener
                       [] ~endsKnown /\ packet.syn -> IF synAck THEN Other(from) ELSE from
                       [] OTHER -> Unset
        /\ UNCHANGED flushed
    BY DEF Read
  <1>3. takeTcp(d, packet, SeqAt(from, c, packet.pos),
            [i \in 1..(IF packet.len < Snaplen THEN packet.len ELSE Snaplen) |-> <<c, packet.pos + i - 1>>],
            IF packet.ack = Unset THEN 0 ELSE SeqAt(Other(from), connection[Other(from)], packet.ack))
    BY DEF Read
  <1>4. side \in Directions /\ ends[side] = from
    <2>1. \E e \in Directions : ends[e] = from
      <3>1. ends[0] \in Ends /\ ends[1] \in Ends /\ ends[0] # ends[1] /\ 0 \in Directions /\ 1 \in Directions
        BY <1>1 DEF TypeOK, Directions
      <3>2. QED
        BY <3>1 DEF Ends
    <2>2. QED
      BY <2>1
  <1> HIDE DEF side
  <1>5. ends[1 - side] = Other(from) /\ 1 - side \in Directions /\ 1 - (1 - side) = side
    <2>1. 1 - side \in Directions /\ 1 - side # side /\ 1 - (1 - side) = side
      BY <1>4, DirectionIs
    <2>2. ends[1 - side] # ends[side] /\ ends[1 - side] \in Ends
      BY <1>1, <1>4, <2>1 DEF TypeOK, Directions
    <2>3. QED
      BY <1>4, <2>1, <2>2, OtherIs
  <1> HIDE DEF swap
  <1>6. /\ d \in Directions /\ 1 - d \in Directions /\ 1 - (1 - d) = d
        /\ ends' \in [Directions -> Ends] /\ ends'[d] = from /\ ends'[1 - d] = Other(from)
    <2>1. CASE swap
      <3>1. d = 1 - side /\ ends' = [e \in Directions |-> ends[1 - e]]
        BY <1>2, <2>1
      <3>2. \A e \in Directions : 1 - e \in Directions
        BY DirectionIs
      <3>3. 1 - d = side
        BY <1>5, <3>1
      <3>4. ends'[d] = ends[1 - d] /\ ends'[1 - d] = ends[1 - (1 - d)]
        BY <1>4, <1>5, <3>1, <3>3
      <3>5. ends' \in [Directions -> Ends]
        BY <1>1, <3>1, <3>2 DEF TypeOK
      <3>6. QED
        BY <1>4, <1>5, <3>1, <3>3, <3>4, <3>5
    <2>2. CASE ~swap
      BY <1>1, <1>2, <1>4, <1>5, <2>2 DEF TypeOK
    <2>3. QED
      BY <2>1, <2>2
  <1> HIDE DEF d
  <1>7. /\ connection' \in [Ends -> Nat]
        /\ connection'[Other(from)] = connection[Other(from)]
        /\ c \in Connections(from)
        /\ packet.syn => c = connection[from] + 1 \/ sentEnd[d] = Unset
        /\ ~packet.syn => c = connection[from]
    <2>1. /\ Other(from) \in Ends /\ Other(from) # from
          /\ connection \in [Ends -> Nat] /\ connection[from] \in 1..MaxConnections[from] /\ MaxConnections[from] \in Nat
      BY <1>1, OtherIs, EndsAssumption DEF TypeOK, Connections
    <2>2. packet.syn \in BOOLEAN
      BY PacketIs DEF PacketOf
    <2>3. CASE connection' = connection
      BY <1>2, <2>1, <2>2, <2>3 DEF Connections
    <2>4. CASE connection' # connection
      <3>1. packet.syn /\ connection[from] < MaxConnections[from] /\ connection' = [connection EXCEPT ![from] = @ + 1]
        BY <1>2, <2>4
      <3>2. c = connection[from] + 1 /\ connection'[Other(from)] = connection[Other(from)] /\ connection' \in [Ends -> Nat]
        BY <2>1, <3>1
      <3>3. QED
        BY <2>1, <3>1, <3>2 DEF Connections
    <2>5. QED
      BY <2>3, <2>4
  <1>8. takeTcp(d, packet, SeqAt(from, c, packet.pos), Run(c, packet.pos, CapturedTo(packet)), AckAt(from, packet))
    <2>1. PacketOf(from, packet)
      BY PacketIs
    <2>2. [i \in 1..(IF packet.len < Snaplen THEN packet.len ELSE Snaplen) |-> <<c, packet.pos + i - 1>>]
            = Run(c, packet.pos, CapturedTo(packet))
      BY <2>1, PayloadIs
    <2> HIDE DEF c
    <2>3. QED
      BY <1>3, <2>2 DEF AckAt
  <1>9. \A e \in Directions : ReadsEnd(ends'[e], e)
    <2>1. CASE endsKnown
      BY <1>1, <1>2, <2>1 DEF swap
    <2>2. CASE ~endsKnown
      <3> SUFFICES ASSUME NEW e \in Directions PROVE ReadsEnd(ends'[e], e)
        OBVIOUS
      <3>1. ReadsEnd(ends[e], e) /\ ends[e] \in Ends /\ ends'[e] \in Ends
        BY <1>1, <1>6 DEF TypeOK
      <3>2. NothingRead
        BY <1>1, <2>2
      <3>3. ~started[e] /\ finSeq[e] = Unset /\ Due(ends'[e]) = {} /\ order[e].early = <<>>
        BY <3>1, <3>2 DEF NothingRead, Due
      <3>4. Reads(connection[ends'[e]], FirstSeq[ends'[e]][connection[ends'[e]]], Length[ends'[e]], Side(e), started[e])
        BY <3>1, <3>3 DEF ReadsEnd, Reads
      <3>5. QED
        BY <3>3, <3>4 DEF ReadsEnd
    <2>3. QED
      BY <2>1, <2>2
  <1>10. opener' \in Ends \cup {Unset} /\ (opener' # Unset => ends'[0] = opener')
    <2>1. CASE endsKnown
      BY <1>1, <1>2, <2>1 DEF swap, TypeOK, ClientIsTheOpener
    <2>2. CASE ~endsKnown
      <3>1. Other(from) \in Ends
        BY OtherIs
      <3>2. opener' = IF packet.syn THEN IF synAck THEN Other(from) ELSE from ELSE Unset
        BY <1>2, <2>2
      <3>3. swap <=> (side = 1) # synAck
        BY <2>2 DEF swap, SwapEnds
      <3>4. CASE packet.syn
        <4>1. d = IF synAck THEN 1 ELSE 0
          <5>1. side = 0 \/ side = 1
            BY <1>4 DEF Directions
          <5>2. CASE side = 0
            BY <3>3, <5>2 DEF d
          <5>3. CASE side = 1
            BY <3>3, <5>3 DEF d
          <5>4. QED
            BY <5>1, <5>2, <5>3
        <4>2. QED
          BY <1>6, <3>2, <3>4, <4>1
      <3>5. CASE ~packet.syn
        BY <3>2, <3>5
      <3>6. QED
        BY <3>1, <3>2, <3>4, <3>5
    <2>3. QED
      BY <2>1, <2>2
  <1>11. flushed' = FALSE /\ flushed = FALSE
    BY <1>1, <1>2 DEF TypeOK
  <1>12. QED
    BY <1>2, <1>6, <1>7, <1>8, <1>9, <1>10, <1>11 DEF ReadAs

\* What takeTcp() makes of the direction of a packet, and of the other one.
TakenIn(d, packet, seq, payload, ack) ==
    LET o == 1 - d
        begun == Begun(Side(d), packet.syn, started[d], seq, packet.len)
        placed == Place(begun, seq, payload)
        skipped == SkipTo(Side(o), ack, finSeq[o])
        end == (seq + packet.len) % SeqSpace
        many == TooMany(begun.order, seq, payload)
        toCome == ToCome(begun, seq, payload)
        from == ends'[d]
    IN  /\ order'[d] = placed.order /\ out'[d] = placed.out
        /\ \/ order'[o] = order[o] /\ out'[o] = out[o]
           \/ packet.ack # Unset /\ started[o] /\ order'[o] = skipped.order /\ out'[o] = skipped.out
        /\ order' = [e \in Directions |-> order'[e]] /\ out' = [e \in Directions |-> out'[e]]
        /\ started' = [started EXCEPT ![d] = (packet.syn \/ @) \/ packet.len > 0]
        /\ sentEnd'[d] \in {end, sentEnd[d]} \ {Unset} /\ sentEnd'[o] = sentEnd[o] /\ sentEnd' = [e \in Directions |-> sentEnd'[e]]
        /\ finSeq' = [finSeq EXCEPT ![d] = IF packet.fin THEN end ELSE IF packet.syn THEN Unset ELSE @]
        /\ synSeen' = [synSeen EXCEPT ![d] = @ \/ packet.syn]
        /\ windowShift' = [windowShift EXCEPT ![d] = IF packet.syn THEN packet.shift ELSE @]
        /\ owed' = [owed EXCEPT ![from] = @ \cup toCome]
        /\ cut' = [cut EXCEPT ![from] = IF many THEN @ \cup toCome ELSE @]

\* takeTcp() comes to that.
LEMMA TakeIs ==
    ASSUME TypeOK, NEW d \in Directions, NEW packet, NEW seq \in SeqNumbers, packet.len \in Nat,
           NEW payload, NEW ack, takeTcp(d, packet, seq, payload, ack)
    PROVE  TakenIn(d, packet, seq, payload, ack)
  <1> DEFINE o == 1 - d
             begun == Begun(Side(d), packet.syn, started[d], seq, packet.len)
             placed == Place(begun, seq, payload)
             skipped == SkipTo(Side(o), ack, finSeq[o])
             end == (seq + packet.len) % SeqSpace
             syns == [synSeen EXCEPT ![d] = @ \/ packet.syn]
             shifts == [windowShift EXCEPT ![d] = IF packet.syn THEN packet.shift ELSE @]
             told == /\ packet.ack # Unset
                     /\ started[o]
                     /\ plausibleAck(sentEnd[o], ack, packet.window, d, syns, shifts)
             acked == IF told THEN skipped ELSE Side(o)
             many == TooMany(begun.order, seq, payload)
             toCome == ToCome(begun, seq, payload)
             from == ends'[d]
  <1>1. o \in Directions /\ o # d /\ \A e \in Directions : e = d \/ e = o
    BY DirectionIs
  <1>2. /\ order' = [order EXCEPT ![d] = placed.order, ![o] = acked.order]
        /\ out' = [out EXCEPT ![d] = placed.out, ![o] = acked.out]
    BY DEF takeTcp, Begun, Side
  <1>3. /\ started' = [started EXCEPT ![d] = (packet.syn \/ started[d]) \/ packet.len > 0]
        /\ synSeen' = syns
        /\ windowShift' = shifts
    BY DEF takeTcp
  <1>4. sentEnd' = [sentEnd EXCEPT ![d] =
                IF packet.syn
                THEN end
                ELSE IF @ = Unset THEN end
                ELSE IF seqAfter(end, @) > 0 THEN end ELSE @]
    BY DEF takeTcp
  <1>5. finSeq' = [finSeq EXCEPT ![d] = IF packet.fin THEN end ELSE IF packet.syn THEN Unset ELSE @]
    BY DEF takeTcp
  <1>6. /\ owed' = [owed EXCEPT ![from] = @ \cup toCome]
        /\ cut' = [cut EXCEPT ![from] = IF many THEN @ \cup toCome ELSE @]
    BY DEF takeTcp, Begun, Side, ToCome
  <1>7. end # Unset
    <2>1. end \in SeqNumbers
      BY SeqSpaceAssumption DEF SeqNumbers
    <2>2. QED
      BY <2>1, UnsetAssumption, SeqSpaceAssumption DEF SeqNumbers
  <1> HIDE DEF o, placed, acked, told, skipped, many, toCome, from, syns, shifts, begun, end
  <1>8. sentEnd'[d] \in {end, sentEnd[d]} \ {Unset} /\ sentEnd'[o] = sentEnd[o] /\ sentEnd' = [e \in Directions |-> sentEnd'[e]]
    <2>1. sentEnd \in [Directions -> SeqNumbers \cup {Unset}]
      BY DEF TypeOK
    <2>2. QED
      BY <1>1, <1>4, <1>7, <2>1
  <1>9. /\ order'[d] = placed.order /\ out'[d] = placed.out
        /\ order'[o] = acked.order /\ out'[o] = acked.out
        /\ order' = [e \in Directions |-> order'[e]] /\ out' = [e \in Directions |-> out'[e]]
    <2>1. order \in [Directions -> Orders] /\ out \in [Directions -> Seq(Bytes)]
      BY DEF TypeOK
    <2>2. QED
      BY <1>1, <1>2, <2>1
  <1>10. \/ order'[o] = order[o] /\ out'[o] = out[o]
         \/ packet.ack # Unset /\ started[o] /\ order'[o] = skipped.order /\ out'[o] = skipped.out
    <2>1. CASE told
      BY <1>9, <2>1 DEF acked, told
    <2>2. CASE ~told
      BY <1>9, <2>2 DEF acked, Side
    <2>3. QED
      BY <2>1, <2>2
  <1>11. started' = [started EXCEPT ![d] = (packet.syn \/ @) \/ packet.len > 0]
    BY <1>3
  <1>12. QED
    BY <1>3, <1>5, <1>6, <1>8, <1>9, <1>10, <1>11
       DEF TakenIn, o, placed, skipped, many, toCome, from, syns, shifts, begun, end

\* The direction of the packet.
LEMMA ReadKeepsTaken ==
    ASSUME IInv, NEW from \in Ends, NEW packet \in Packets[from], NEW d \in Directions,
           ReadAs(from, packet, d)
    PROVE  ReadsEnd(from, d)' /\ order'[d] \in Orders /\ out'[d] \in Seq(Bytes)
  <1> DEFINE c == connection'[from]
             b == FirstSeq[from][c]
             was == connection[from]
             first == FirstSeq[from][was]
             len == Length[from]
             p == packet.pos
             m == packet.len
             z == CapturedTo(packet)
             s == Side(d)
             begun == Begun(s, packet.syn, started[d], SeqFor(b, p), m)
             payload == Run(c, p, z)
             t == Place(begun, SeqFor(b, p), payload)
             begins == packet.syn \/ started[d] \/ m > 0
             many == TooMany(begun.order, SeqFor(b, p), payload)
             toCome == ToCome(begun, SeqFor(b, p), payload)
             end == (SeqFor(b, p) + m) % SeqSpace
  <1>1. TypeOK
    BY DEF IInv
  <1>2. PacketOf(from, packet)
    BY PacketIs
  <1>3. /\ c \in Connections(from) /\ ends'[d] = from
        /\ packet.syn => c = was + 1 \/ sentEnd[d] = Unset
        /\ ~packet.syn => c = was
        /\ takeTcp(d, packet, SeqAt(from, c, p), payload, AckAt(from, packet))
        /\ ReadsEnd(from, d) /\ flushed' = FALSE
    BY DEF ReadAs
  <1>4. Fits(c, b, len) /\ len <= MaxEarlyBytes
    BY <1>3, ConnectionFits
  <1>5. was \in Connections(from)
    BY <1>1 DEF TypeOK
  <1>6. Fits(was, first, len)
    BY <1>5, ConnectionFits
  <1>7. p \in 0..len /\ m \in Nat /\ z \in p..len /\ z <= p + m /\ packet.syn \in BOOLEAN /\ packet.fin \in BOOLEAN
    <2>1. z \in p..len /\ z <= p + m
      BY <1>2, PayloadIs
    <2>2. QED
      BY <1>2, <2>1 DEF PacketOf
  <1>8. started[d] \in BOOLEAN /\ Reads(was, first, len, s, started[d]) /\ (started[d] => sentEnd[d] # Unset)
        /\ Due(from) \subseteq Got(s) /\ finSeq[d] \in {Unset, SeqFor(first, len)}
    BY <1>1, <1>3 DEF ReadsEnd, TypeOK
  <1>9. /\ packet.syn => c = was + 1 \/ ~started[d]
        /\ ~packet.syn => c = was /\ b = first
    BY <1>3, <1>8
  <1>10. SeqAt(from, c, p) = SeqFor(b, p)
    BY DEF SeqAt, SeqFor
  <1>11. SeqFor(b, p) \in SeqNumbers
    <2>1. b \in SeqNumbers /\ p \in Nat
      BY <1>4, <1>7 DEF Fits
    <2> HIDE DEF b, p
    <2>2. QED
      BY <2>1, SeqIs
  <1>12. TakenIn(d, packet, SeqFor(b, p), payload, AckAt(from, packet))
    <2>1. takeTcp(d, packet, SeqFor(b, p), payload, AckAt(from, packet))
      BY <1>3, <1>10
    <2> HIDE DEF payload, c, b, p
    <2>2. QED
      BY <1>1, <1>7, <1>11, <2>1, TakeIs DEF m
  <1>13. Takes(c, b, len, s, t, begins, many, toCome)
    <2> HIDE DEF c, b, was, first, len, p, m, z, s
    <2>1. QED
      BY <1>4, <1>6, <1>7, <1>8, <1>9, TakenKeeps
  <1>14. /\ order'[d] = t.order /\ out'[d] = t.out
         /\ started' = [started EXCEPT ![d] = (packet.syn \/ @) \/ packet.len > 0]
         /\ sentEnd'[d] # Unset
         /\ finSeq' = [finSeq EXCEPT ![d] = IF packet.fin THEN end ELSE IF packet.syn THEN Unset ELSE @]
         /\ owed' = [owed EXCEPT ![from] = @ \cup toCome]
         /\ cut' = [cut EXCEPT ![from] = IF many THEN @ \cup toCome ELSE @]
    BY <1>3, <1>12 DEF TakenIn
  <1> HIDE DEF t, many, toCome, begun, payload
  <1>15. Reads(c, b, len, t, begins) /\ Got(s) \subseteq Got(t) /\ (many \/ toCome \subseteq Got(t))
    BY <1>13 DEF Takes
  <1>16. t \in Sides /\ t.order \in Orders /\ t.out \in Seq(Bytes)
    BY <1>15, LenOf DEF Reads
  <1>17. Side(d)' = t
    BY <1>14, <1>16 DEF Side, Sides
  <1>18. started'[d] = begins /\ begins \in BOOLEAN
    <2>1. started \in [Directions -> BOOLEAN]
      BY <1>1 DEF TypeOK
    <2>2. started'[d] = ((packet.syn \/ started[d]) \/ packet.len > 0)
      BY <1>14, <2>1
    <2>3. QED
      BY <1>7, <1>8, <2>2
  <1>19. finSeq'[d] \in {Unset, SeqFor(b, len)}
    <2>1. finSeq'[d] = IF packet.fin THEN end ELSE IF packet.syn THEN Unset ELSE finSeq[d]
      BY <1>1, <1>14 DEF TypeOK
    <2>2. packet.fin => end = SeqFor(b, len)
      <3>1. packet.fin => p + m = len
        BY <1>2 DEF PacketOf
      <3>2. end = SeqFor(b, p + m)
        <4>1. b \in SeqNumbers /\ p \in Nat /\ m \in Nat
          BY <1>4, <1>7 DEF Fits
        <4> HIDE DEF b, p, m
        <4>2. QED
          BY <4>1, SeqAdvances
      <3>3. QED
        BY <3>1, <3>2
    <2>3. ~packet.syn => SeqFor(first, len) = SeqFor(b, len)
      BY <1>9
    <2> HIDE DEF end
    <2>4. QED
      BY <1>8, <2>1, <2>2, <2>3
  <1>20. Due(from)' \subseteq Got(t)
    <2>1. owed'[from] = owed[from] \cup toCome /\ cut'[from] = IF many THEN cut[from] \cup toCome ELSE cut[from]
      BY <1>1, <1>14 DEF TypeOK
    <2>2. Due(from)' = owed'[from] \ cut'[from] /\ Due(from) = owed[from] \ cut[from]
      BY DEF Due
    <2>3. CASE many
      BY <1>8, <1>15, <2>1, <2>2, <2>3
    <2>4. CASE ~many
      BY <1>8, <1>15, <2>1, <2>2, <2>4
    <2>5. QED
      BY <2>3, <2>4
  <1>21. ReadsEnd(from, d)'
    <2>1. Reads(connection'[from], FirstSeq[from][connection'[from]], Length[from], Side(d)', started'[d])
      BY <1>15, <1>17, <1>18
    <2>2. Due(from)' \subseteq Got(Side(d)')
      BY <1>17, <1>20
    <2>3. QED
      BY <1>3, <1>14, <1>19, <2>1, <2>2 DEF ReadsEnd
  <1>22. QED
    BY <1>14, <1>16, <1>21

\* The other direction, whose bytes the packet may acknowledge.
LEMMA ReadKeepsOther ==
    ASSUME IInv, NEW from \in Ends, NEW packet \in Packets[from], NEW d \in Directions,
           ReadAs(from, packet, d)
    PROVE  ReadsEnd(Other(from), 1 - d)' /\ order'[1 - d] \in Orders /\ out'[1 - d] \in Seq(Bytes)
  <1> DEFINE o == 1 - d
             other == Other(from)
             c == connection[other]
             b == FirstSeq[other][c]
             len == Length[other]
             s == Side(o)
             seq == SeqAt(from, connection'[from], packet.pos)
             payload == Run(connection'[from], packet.pos, CapturedTo(packet))
             skipped == SkipTo(s, AckAt(from, packet), finSeq[o])
  <1>1. TypeOK /\ PacketOf(from, packet)
    BY PacketIs DEF IInv
  <1>2. /\ o \in Directions /\ o # d /\ other \in Ends /\ other # from
        /\ connection'[other] = c /\ c \in Connections(other)
        /\ ReadsEnd(other, o) /\ flushed' = FALSE
        /\ takeTcp(d, packet, seq, payload, AckAt(from, packet)) /\ ends'[d] = from
    <2>1. o \in Directions /\ o # d /\ other \in Ends /\ other # from
      BY DirectionIs, OtherIs
    <2>2. ends'[o] = other
      BY DEF ReadAs
    <2>3. ReadsEnd(ends'[o], o)
      BY <2>1 DEF ReadAs
    <2>4. QED
      BY <1>1, <2>1, <2>2, <2>3 DEF ReadAs, TypeOK
  <1>3. Fits(c, b, len) /\ len \in Nat
    BY <1>2, ConnectionFits, EndsAssumption
  <1>4. seq \in SeqNumbers
    <2> DEFINE mine == FirstSeq[from][connection'[from]]
               pos == packet.pos
    <2>1. mine \in SeqNumbers
      BY ConnectionFits DEF ReadAs, Fits
    <2>2. pos \in Nat
      BY <1>1, EndsAssumption DEF PacketOf
    <2>3. seq = SeqFor(mine, pos)
      BY DEF SeqAt, SeqFor
    <2> HIDE DEF mine, pos, seq
    <2>4. QED
      BY <2>1, <2>2, <2>3, SeqIs
  <1>5. TakenIn(d, packet, seq, payload, AckAt(from, packet))
    <2>1. packet.len \in Nat
      BY <1>1 DEF PacketOf
    <2> HIDE DEF seq, payload
    <2>2. QED
      BY <1>1, <1>2, <1>4, <2>1, TakeIs
  <1>6. /\ \/ order'[o] = order[o] /\ out'[o] = out[o]
           \/ packet.ack # Unset /\ started[o] /\ order'[o] = skipped.order /\ out'[o] = skipped.out
        /\ started' = [started EXCEPT ![d] = (packet.syn \/ @) \/ packet.len > 0]
        /\ sentEnd'[o] = sentEnd[o]
        /\ \E end : finSeq' = [finSeq EXCEPT ![d] = IF packet.fin THEN end ELSE IF packet.syn THEN Unset ELSE @]
        /\ \E toCome : owed' = [owed EXCEPT ![from] = @ \cup toCome]
        /\ \E many, toCome : cut' = [cut EXCEPT ![from] = IF many THEN @ \cup toCome ELSE @]
    BY <1>2, <1>5 DEF TakenIn
  <1> HIDE DEF skipped
  <1>7. started'[o] = started[o] /\ finSeq'[o] = finSeq[o]
    BY <1>1, <1>2, <1>6 DEF TypeOK
  <1>8. Due(other)' = Due(other)
    <2>1. owed'[other] = owed[other] /\ cut'[other] = cut[other]
      BY <1>1, <1>2, <1>6 DEF TypeOK
    <2>2. QED
      BY <2>1 DEF Due
  <1>9. Reads(c, b, len, s, started[o]) /\ Due(other) \subseteq Got(s) /\ (started[o] => sentEnd[o] # Unset)
        /\ finSeq[o] \in {Unset, SeqFor(b, len)}
    BY <1>2 DEF ReadsEnd
  <1>10. Side(o)' \in Sides /\ Reads(c, b, len, Side(o)', started[o]) /\ Got(s) \subseteq Got(Side(o)')
    <2>1. CASE order'[o] = order[o] /\ out'[o] = out[o]
      <3>1. Side(o)' = s
        BY <2>1 DEF Side
      <3>2. QED
        BY <1>9, <3>1 DEF Reads
    <2>2. CASE packet.ack # Unset /\ started[o] /\ order'[o] = skipped.order /\ out'[o] = skipped.out
      <3>1. packet.ack \in 0..(len + 1) /\ AckAt(from, packet) = SeqFor(b, packet.ack)
        BY <1>1, <2>2 DEF PacketOf, AckAt, SeqAt, SeqFor
      <3>2. Reads(c, b, len, s, TRUE)
        <4>1. started[o] = TRUE
          BY <1>1, <1>2, <2>2 DEF TypeOK
        <4>2. QED
          BY <1>9, <4>1
      <3>3. skipped = SkipTo(s, SeqFor(b, packet.ack), finSeq[o])
        BY <3>1 DEF skipped
      <3>4. Reads(c, b, len, skipped, TRUE) /\ Got(s) \subseteq Got(skipped)
        <4> HIDE DEF s, b, c, len
        <4>1. /\ Reads(c, b, len, SkipTo(s, SeqFor(b, packet.ack), finSeq[o]), TRUE)
              /\ Got(s) \subseteq Got(SkipTo(s, SeqFor(b, packet.ack), finSeq[o]))
          BY <1>3, <1>9, <3>1, <3>2, AckedKeeps
        <4>2. QED
          BY <3>3, <4>1
      <3>5. skipped \in Sides
        BY <3>4 DEF Reads
      <3>6. Side(o)' = skipped
        BY <2>2, <3>5 DEF Side, Sides
      <3>7. started[o] = TRUE
        BY <1>1, <1>2, <2>2 DEF TypeOK
      <3>8. QED
        BY <3>4, <3>5, <3>6, <3>7
    <2>3. QED
      BY <1>6, <2>1, <2>2
  <1>11. Side(o)'.order \in Orders /\ Side(o)'.out \in Seq(Bytes)
    BY <1>10, LenOf
  <1>12. order'[o] \in Orders /\ out'[o] \in Seq(Bytes)
    BY <1>11 DEF Side
  <1>13. ReadsEnd(other, o)'
    <2>1. Reads(connection'[other], FirstSeq[other][connection'[other]], Length[other], Side(o)', started'[o])
      BY <1>2, <1>7, <1>10
    <2>2. Due(other)' \subseteq Got(Side(o)')
      BY <1>8, <1>9, <1>10
    <2>3. QED
      BY <1>2, <1>6, <1>7, <1>9, <2>1, <2>2 DEF ReadsEnd
  <1>14. QED
    BY <1>12, <1>13

\* A packet read keeps the invariant.
LEMMA ReadKeeps ==
    ASSUME IInv, NEW from \in Ends, NEW packet \in Packets[from], Read(from, packet)
    PROVE  IInv'
  <1>1. TypeOK /\ PacketOf(from, packet)
    BY PacketIs DEF IInv
  <1>2. PICK d \in Directions : ReadAs(from, packet, d)
    BY ReadIs
  <1> DEFINE o == 1 - d
             c == connection'[from]
             seq == SeqAt(from, c, packet.pos)
             payload == Run(c, packet.pos, CapturedTo(packet))
             other == Other(from)
  <1>3. /\ o \in Directions /\ o # d /\ (\A e \in Directions : e = d \/ e = o)
        /\ other \in Ends /\ other # from /\ (\A e \in Ends : e = from \/ e = other)
    BY DirectionIs, OtherIs
  <1>4. /\ ReadsEnd(from, d)' /\ order'[d] \in Orders /\ out'[d] \in Seq(Bytes)
    BY <1>2, ReadKeepsTaken
  <1>5. ReadsEnd(other, o)' /\ order'[o] \in Orders /\ out'[o] \in Seq(Bytes)
    BY <1>2, ReadKeepsOther
  <1>6. c \in Connections(from) /\ ends'[d] = from /\ ends'[o] = other /\ endsKnown' = TRUE
        /\ ends' \in [Directions -> Ends] /\ connection' \in [Ends -> Nat] /\ connection'[other] = connection[other]
        /\ flushed' = FALSE /\ opener' \in Ends \cup {Unset} /\ (opener' # Unset => ends'[0] = opener')
        /\ takeTcp(d, packet, seq, payload, AckAt(from, packet))
    BY <1>2 DEF ReadAs
  <1>7. packet.len \in Nat /\ packet.pos \in Nat /\ packet.syn \in BOOLEAN /\ packet.shift \in WindowShifts \cup {Unset}
        /\ packet.pos + packet.len <= Length[from] /\ Length[from] \in Nat
    BY <1>1, EndsAssumption DEF PacketOf
  <1>8. seq \in SeqNumbers
    <2> DEFINE mine == FirstSeq[from][c]
               pos == packet.pos
    <2>1. mine \in SeqNumbers
      BY <1>6, ConnectionFits DEF Fits
    <2>2. pos \in Nat
      BY <1>7
    <2>3. seq = SeqFor(mine, pos)
      BY DEF SeqAt, SeqFor
    <2> HIDE DEF mine, pos, seq
    <2>4. QED
      BY <2>1, <2>2, <2>3, SeqIs
  <1>9. DOMAIN payload \subseteq Nat /\ \A i \in DOMAIN payload : payload[i] \in Bytes
    <2>1. CapturedTo(packet) \in Nat /\ packet.pos <= CapturedTo(packet)
      <3>1. CapturedTo(packet) \in packet.pos..Length[from]
        BY <1>1, PayloadIs
      <3>2. QED
        BY <1>7, <3>1
    <2>2. c \in Nat
      BY <1>6 DEF Connections
    <2> HIDE DEF c
    <2>3. Run(c, packet.pos, CapturedTo(packet)) \in Seq(Bytes)
      BY <1>7, <2>1, <2>2, RunIs
    <2>4. payload \in Seq(Bytes)
      BY <2>3
    <2> HIDE DEF payload
    <2>5. QED
      BY <2>4
  <1>10. TakenIn(d, packet, seq, payload, AckAt(from, packet))
    <2> HIDE DEF seq, payload
    <2>1. QED
      BY <1>1, <1>6, <1>7, <1>8, TakeIs
  <1> DEFINE end == (seq + packet.len) % SeqSpace
             toCome == ToCome(Begun(Side(d), packet.syn, started[d], seq, packet.len), seq, payload)
  <1>11. end \in SeqNumbers /\ toCome \subseteq Bytes
    <2>1. toCome \subseteq Bytes
      BY <1>9 DEF ToCome
    <2>2. end \in SeqNumbers
      BY <1>7, <1>8, SeqSpaceAssumption DEF SeqNumbers
    <2>3. QED
      BY <2>1, <2>2
  <1>12. /\ order' = [e \in Directions |-> order'[e]] /\ out' = [e \in Directions |-> out'[e]]
         /\ started' = [started EXCEPT ![d] = (packet.syn \/ @) \/ packet.len > 0]
         /\ sentEnd'[d] \in {end, sentEnd[d]} \ {Unset} /\ sentEnd'[o] = sentEnd[o] /\ sentEnd' = [e \in Directions |-> sentEnd'[e]]
         /\ finSeq' = [finSeq EXCEPT ![d] = IF packet.fin THEN end ELSE IF packet.syn THEN Unset ELSE @]
         /\ synSeen' = [synSeen EXCEPT ![d] = @ \/ packet.syn]
         /\ windowShift' = [windowShift EXCEPT ![d] = IF packet.syn THEN packet.shift ELSE @]
         /\ owed' = [owed EXCEPT ![from] = @ \cup toCome]
         /\ \E many : cut' = [cut EXCEPT ![from] = IF many THEN @ \cup toCome ELSE @]
    BY <1>6, <1>10 DEF TakenIn
  <1> HIDE DEF end, toCome, seq, payload, c, o, other
  <1>13. TypeOK'
    <2>1. order' \in [Directions -> Orders] /\ out' \in [Directions -> Seq(Bytes)]
      <3>1. \A e \in Directions : order'[e] \in Orders /\ out'[e] \in Seq(Bytes)
        BY <1>3, <1>4, <1>5
      <3>2. QED
        BY <1>12, <3>1
    <2>2. started' \in [Directions -> BOOLEAN] /\ synSeen' \in [Directions -> BOOLEAN]
      <3>1. started \in [Directions -> BOOLEAN] /\ synSeen \in [Directions -> BOOLEAN]
        BY <1>1 DEF TypeOK
      <3>2. (packet.syn \/ started[d] \/ packet.len > 0) \in BOOLEAN
        OBVIOUS
      <3>3. QED
        BY <1>7, <1>12, <3>1, <3>2
    <2>3. finSeq' \in [Directions -> SeqNumbers \cup {Unset}]
      BY <1>1, <1>11, <1>12 DEF TypeOK
    <2>4. windowShift' \in [Directions -> WindowShifts \cup {Unset}]
      BY <1>1, <1>7, <1>12 DEF TypeOK
    <2>5. sentEnd' \in [Directions -> SeqNumbers \cup {Unset}]
      <3>1. sentEnd \in [Directions -> SeqNumbers \cup {Unset}]
        BY <1>1 DEF TypeOK
      <3>2. \A e \in Directions : sentEnd'[e] \in SeqNumbers \cup {Unset}
        BY <1>3, <1>11, <1>12, <3>1
      <3>3. QED
        BY <1>12, <3>2
    <2>6. owed' \in [Ends -> SUBSET Bytes] /\ cut' \in [Ends -> SUBSET Bytes]
      BY <1>1, <1>11, <1>12 DEF TypeOK
    <2>7. ends'[0] # ends'[1]
      BY <1>3, <1>6 DEF Directions
    <2>8. \A e \in Ends : connection'[e] \in Connections(e)
      BY <1>1, <1>3, <1>6 DEF TypeOK, c
    <2>9. QED
      BY <1>6, <2>1, <2>2, <2>3, <2>4, <2>5, <2>6, <2>7, <2>8 DEF TypeOK
  <1>14. \A e \in Directions : ReadsEnd(ends[e], e)'
    <2>1. ReadsEnd(ends[d], d)'
      BY <1>4, <1>6 DEF ReadsEnd
    <2>2. ReadsEnd(ends[o], o)'
      BY <1>5, <1>6 DEF ReadsEnd
    <2>3. QED
      BY <1>3, <2>1, <2>2
  <1>15. ClientIsTheOpener'
    BY <1>6 DEF ClientIsTheOpener
  <1>16. QED
    BY <1>6, <1>13, <1>14, <1>15 DEF IInv

\* Every step does.
LEMMA NextKeeps == IInv /\ [Next]_vars => IInv'
  <1> SUFFICES ASSUME IInv, [Next]_vars PROVE IInv'
    OBVIOUS
  <1>1. CASE \E from \in Ends : \E packet \in Packets[from] : Read(from, packet)
    BY <1>1, ReadKeeps
  <1>2. CASE Finish
    BY <1>2, FinishKeeps
  <1>3. CASE UNCHANGED vars
    <2>1. \A d \in Directions : ReadsEnd(ends[d], d)' <=> ReadsEnd(ends[d], d)
      BY <1>3 DEF ReadsEnd, Side, Due, vars
    <2>2. QED
      BY <1>3, <2>1 DEF IInv, TypeOK, NothingRead, ClientIsTheOpener, vars
  <1>4. QED
    BY <1>1, <1>2, <1>3 DEF Next, Done

-----------------------------------------------------------------------------
(* What the reader must keep.                                              *)

\* A list with no two that are the same has as many as it is long.
LEMMA DistinctCount ==
    ASSUME NEW S, NEW s \in Seq(S), Distinct(s)
    PROVE  Cardinality(ToSet(s)) = Len(s)
  <1>1. Len(s) \in Nat /\ DOMAIN s = 1..Len(s)
    OBVIOUS
  <1>2. s \in [1..Len(s) -> ToSet(s)]
    BY <1>1 DEF ToSet
  <1>3. s \in Bijection(1..Len(s), ToSet(s))
    BY <1>1, <1>2 DEF Bijection, Injection, Surjection, IsInjective, Distinct, ToSet
  <1>4. ExistsBijection(1..Len(s), ToSet(s))
    BY <1>3 DEF ExistsBijection
  <1>5. QED
    BY <1>1, <1>4, FS_CountingElements

\* What the invariant says of one direction.
LEMMA DirectionHolds ==
    ASSUME IInv, NEW d \in Directions
    PROVE  LET e == ends[d]
               c == connection[e]
           IN  /\ e \in Ends
               /\ Fits(c, FirstSeq[e][c], Length[e])
               /\ Reads(c, FirstSeq[e][c], Length[e], Side(d), started[d])
               /\ Due(e) \subseteq Got(Side(d))
               /\ flushed => order[d].early = <<>>
               /\ Side(d).order = order[d] /\ Side(d).out = out[d]
  <1>1. ends[d] \in Ends /\ connection[ends[d]] \in Connections(ends[d])
    BY DEF IInv, TypeOK
  <1>2. ReadsEnd(ends[d], d)
    BY DEF IInv
  <1>3. QED
    BY <1>1, <1>2, ConnectionFits DEF ReadsEnd, Side

\* What was given is in order.
LEMMA InOrderHolds == IInv => OutIsTheStream
  <1> SUFFICES ASSUME IInv, NEW d \in Directions PROVE InOrder(out[d])
    BY DEF OutIsTheStream, InOrder
  <1> DEFINE c == connection[ends[d]]
             b == FirstSeq[ends[d]][c]
             len == Length[ends[d]]
  <1>1. Reads(c, b, len, Side(d), started[d]) /\ Side(d).out = out[d]
    BY DirectionHolds
  <1>2. CASE started[d]
    BY <1>1, <1>2 DEF Reads, SideAt, OutAt
  <1>3. CASE ~started[d]
    <2>1. out[d] = <<>>
      BY <1>1, <1>3 DEF Reads
    <2>2. QED
      BY <2>1 DEF InOrder
  <1>4. QED
    BY <1>2, <1>3

\* What was due is given or held, what is held waits, and it is within the limits.
LEMMA KeptHolds == IInv => HeldIsKept
  <1> SUFFICES ASSUME IInv PROVE HeldIsKept
    OBVIOUS
  <1>1. ASSUME NEW d \in Directions
        PROVE  Due(ends[d]) \subseteq Shown(d) \cup (IF flushed THEN {} ELSE Held(d))
    <2>1. Due(ends[d]) \subseteq Got(Side(d)) /\ (flushed => order[d].early = <<>>)
          /\ Side(d).order = order[d] /\ Side(d).out = out[d]
      BY <1>1, DirectionHolds
    <2>2. Got(Side(d)) = Shown(d) \cup UNION {ToSet(x.bytes) : x \in ToSet(order[d].early)}
      BY <2>1 DEF Got, Shown
    <2>3. UNION {ToSet(x.bytes) : x \in ToSet(order[d].early)} = Held(d)
      BY DEF Held, ToSet
    <2>4. flushed => Held(d) = {}
      BY <2>1, <2>3, EmptySet
    <2>5. QED
      BY <2>1, <2>2, <2>3, <2>4
  <1>2. NothingHeldIsLost
    BY <1>1 DEF NothingHeldIsLost, Due
  <1>3. ASSUME NEW d \in Directions
        PROVE  /\ \A i \in DOMAIN order[d].early : seqAfter(order[d].early[i].seq, order[d].nextSeq) > 0
               /\ Cardinality(ToSet(order[d].early)) = Len(order[d].early)
               /\ Len(order[d].early) <= MaxEarlySegments
               /\ earlyBytes(order[d]) <= MaxEarlyBytes
    <2> DEFINE c == connection[ends[d]]
               b == FirstSeq[ends[d]][c]
               len == Length[ends[d]]
               early == order[d].early
    <2>1. Reads(c, b, len, Side(d), started[d]) /\ Side(d).order = order[d] /\ Fits(c, b, len)
      BY <1>3, DirectionHolds
    <2>2. early \in Seq(Segs) /\ Distinct(early) /\ Len(early) <= MaxEarlySegments /\ Total(early) <= MaxEarlyBytes
      BY <2>1, LenOf DEF Reads, Within
    <2>3. Cardinality(ToSet(early)) = Len(early)
      BY <2>2, DistinctCount
    <2>4. earlyBytes(order[d]) <= MaxEarlyBytes
      BY <2>2, BytesHeld
    <2>5. ASSUME NEW i \in DOMAIN early PROVE seqAfter(early[i].seq, order[d].nextSeq) > 0
      <3>1. early[i] \in ToSet(early)
        BY DEF ToSet
      <3>2. started[d]
        BY <2>1, <3>1, EmptySet DEF Reads
      <3>3. PICK q \in 0..(len + 1) : SideAt(c, b, len, Side(d), q) /\ Waits(Side(d), q)
        BY <2>1, <3>2 DEF Reads
      <3>4. OrdAt(c, b, len, order[d], q) /\ SegWell(c, b, len, early[i]) /\ At(early[i]) > q
        BY <2>1, <3>1, <3>3 DEF SideAt, OrdAt, Waits
      <3> HIDE DEF b, c, len, early
      <3>5. /\ seqAfter(early[i].seq, order[d].nextSeq) = At(early[i]) - q
            /\ At(early[i]) \in Nat /\ q \in Nat /\ End(early[i]) \in Nat /\ c \in Nat
        BY <2>1, <3>4, SegAhead
      <3>6. QED
        BY <3>4, <3>5
    <2>6. QED
      BY <2>2, <2>3, <2>4, <2>5
  <1>4. HeldWaits
    BY <1>3 DEF HeldWaits
  <1>5. QED
    BY <1>2, <1>4 DEF HeldIsKept

\* The reader is at a place of the connection it reads in each direction, whatever
\* packets the capture has: takeTcp() keeps it there.
THEOREM Invariant == Spec => []IInv
  <1>1. Init => IInv
    BY InitKeeps
  <1>2. IInv /\ [Next]_vars => IInv'
    BY NextKeeps
  <1>3. QED
    BY <1>1, <1>2, PTL DEF Spec

\* What the sink is given is what was sent, in order and with gaps of the right length,
\* for every capture: the reader's work with its orderers, over every wrap of the numbers.
THEOREM StreamIsShown == Spec => []OutIsTheStream
  BY Invariant, InOrderHolds, PTL

\* No byte captured before its turn was over is swallowed, by an acknowledgement, a new
\* connection, a flush or the end; what is held waits, and never exceeds the limits.
THEOREM HeldIsNotLost == Spec => []HeldIsKept
  BY Invariant, KeptHolds, PTL

\* Direction 0 is the end that opened the connection, if the first packet tells it.
THEOREM OpenerIsTheClient == Spec => []ClientIsTheOpener
  <1>1. IInv => ClientIsTheOpener
    BY DEF IInv
  <1>2. QED
    BY Invariant, <1>1, PTL
=============================================================================
