------------------------ MODULE TcpReassemblyProofs ------------------------
(***************************************************************************)
(* Proofs about the TCP Reassembly: for any streams, segments, messages    *)
(* and limits, its tables agree and the memory counted is the memory held. *)
(***************************************************************************)
EXTENDS TcpReassembly, FoldProofs, FiniteSetTheorems, SequenceTheorems

-----------------------------------------------------------------------------
(* The segments held, looked at one after the other.                       *)

\* Segments of bytes, and what an orderer may be.
Segs == [seq : SeqNumbers, bytes : Seq(Bytes)]
Orders == [nextSeq : SeqNumbers, early : Seq(Segs)]

\* The difference of sequence numbers is a number.
LEMMA AfterInt == ASSUME NEW a \in SeqNumbers, NEW b \in SeqNumbers PROVE seqAfter(a, b) \in Int
  BY SeqSpaceAssumption DEF seqAfter, SeqNumbers

\* One segment looked at by popNext(), and what it made of those before.
Looks == [early : Seq(Segs), bytes : Seq(Bytes)]
Look(ord, at, seg) ==
    IF at.bytes # <<>> \/ seqAfter(seg.seq, ord.nextSeq) > 0
    THEN [at EXCEPT !.early = Append(@, seg)]
    ELSE [at EXCEPT !.bytes = SubSeq(seg.bytes, 1 - seqAfter(seg.seq, ord.nextSeq),
                                     Len(seg.bytes))]
NoneLooked == [early |-> <<>>, bytes |-> <<>>]

\* Looking at a segment keeps the type.
LEMMA LookType ==
    ASSUME NEW ord \in Orders, NEW at \in Looks, NEW seg \in Segs
    PROVE  Look(ord, at, seg) \in Looks
  <1> DEFINE a == seqAfter(seg.seq, ord.nextSeq)
  <1>1. a \in Int /\ at.early \in Seq(Segs) /\ at.bytes \in Seq(Bytes) /\ seg.bytes \in Seq(Bytes)
    BY AfterInt DEF Orders, Looks, Segs
  <1> HIDE DEF a
  <1>2. Append(at.early, seg) \in Seq(Segs)
    BY <1>1
  <1>3. a <= 0 => SubSeq(seg.bytes, 1 - a, Len(seg.bytes)) \in Seq(Bytes)
    <2>1. SUFFICES ASSUME a <= 0 PROVE SubSeq(seg.bytes, 1 - a, Len(seg.bytes)) \in Seq(Bytes)
      OBVIOUS
    <2>2. 1 - a \in Nat \ {0} /\ Len(seg.bytes) \in Nat
      BY <1>1, <2>1
    <2>3. \A i \in (1 - a)..Len(seg.bytes) : seg.bytes[i] \in Bytes
      BY <1>1, <2>2
    <2>4. QED
      BY <1>1, <2>2, <2>3
  <1>4. CASE at.bytes # <<>> \/ a > 0
    <2>1. Look(ord, at, seg) = [at EXCEPT !.early = Append(at.early, seg)]
      BY <1>4 DEF Look, a
    <2>2. QED
      BY <1>2, <2>1 DEF Looks
  <1>5. CASE ~(at.bytes # <<>> \/ a > 0)
    <2>1. Look(ord, at, seg) = [at EXCEPT !.bytes = SubSeq(seg.bytes, 1 - a, Len(seg.bytes))]
      BY <1>5 DEF Look, a
    <2>2. a <= 0
      BY <1>1, <1>5
    <2>3. QED
      BY <1>3, <2>1, <2>2 DEF Looks
  <1>6. QED
    BY <1>4, <1>5

\* popNext() looks at one segment after the other.
LEMMA LookSteps ==
    ASSUME NEW ord \in Orders
    PROVE  \E h : /\ h[0] = NoneLooked
                  /\ \A k \in 1..Len(ord.early) : h[k] = Look(ord, h[k - 1], ord.early[k])
                  /\ \A k \in 0..Len(ord.early) : h[k] \in Looks
                  /\ popNext(ord) = [order |-> [ord EXCEPT !.early = h[Len(ord.early)].early],
                                     bytes |-> h[Len(ord.early)].bytes]
  <1> DEFINE s == ord.early
             n == Len(s)
             F == [p \in (1..n) \X Looks |-> Look(ord, p[2], s[p[1]])]
             Is(g) == g = [t \in SUBSET (1..n) |-> IF t = {} THEN NoneLooked
                                                   ELSE Look(ord, g[t \ {Max(t)}], s[Max(t)])]
             G == CHOOSE g : Is(g)
             h == [k \in 0..n |-> G[1..k]]
  <1>1. s \in Seq(Segs) /\ n \in Nat /\ DOMAIN s = 1..n /\ \A i \in 1..n : s[i] \in Segs
    BY DEF Orders
  <1>2. NoneLooked \in Looks
    BY DEF NoneLooked, Looks
  <1>3. \E g : Is(g)
    <2>1. F \in [(1..n) \X Looks -> Looks]
      BY <1>1, LookType
    <2> HIDE DEF F, n, s
    <2>2. PICK g \in [SUBSET (1..n) -> Looks] : FoldsBy(g, n, NoneLooked, F)
      BY <1>1, <1>2, <2>1, FoldRuns
    <2>3. ASSUME NEW t \in SUBSET (1..n), t # {}
          PROVE  F[<<Max(t), g[t \ {Max(t)}]>>] = Look(ord, g[t \ {Max(t)}], s[Max(t)])
      <3>1. Max(t) \in 1..n
        BY <1>1, <2>3, MaxIs
      <3>2. g[t \ {Max(t)}] \in Looks
        BY <2>2
      <3>3. QED
        BY <3>1, <3>2 DEF F
    <2>4. Is(g)
      BY <2>2, <2>3 DEF FoldsBy
    <2>5. QED
      BY <2>4
  <1>4. Is(G)
    BY <1>3
  <1>5. popNext(ord) = [order |-> [ord EXCEPT !.early = G[1..n].early], bytes |-> G[1..n].bytes]
    BY <1>1 DEF popNext, FoldLeft, MapThenFoldSet, Look, NoneLooked
  <1> HIDE DEF G
  <1>6. G[1..0] = NoneLooked /\ \A k \in 1..n : G[1..k] = Look(ord, G[1..(k - 1)], s[k])
    <2> DEFINE f == [t \in SUBSET (1..n) |-> Look(ord, G[t \ {Max(t)}], s[Max(t)])]
    <2>1. G = [t \in SUBSET (1..n) |-> IF t = {} THEN NoneLooked ELSE f[t]]
      BY <1>4
    <2>2. G[1..0] = NoneLooked /\ \A k \in 1..n : G[1..k] = f[1..k]
      <3> HIDE DEF f
      <3>1. QED
        BY <1>1, <2>1, FoldUpTo
    <2>3. \A k \in 1..n : f[1..k] = Look(ord, G[1..(k - 1)], s[k])
      <3>1. SUFFICES ASSUME NEW k \in 1..n PROVE f[1..k] = Look(ord, G[1..(k - 1)], s[k])
        OBVIOUS
      <3>2. k \in Nat \ {0} /\ 1..k \in SUBSET (1..n)
        BY <1>1
      <3>3. Max(1..k) = k /\ (1..k) \ {k} = 1..(k - 1)
        BY <3>2, MaxUpTo
      <3>4. QED
        BY <3>2, <3>3
    <2>4. QED
      BY <2>2, <2>3
  <1>7. h[0] = NoneLooked /\ \A k \in 1..n : h[k] = Look(ord, h[k - 1], s[k])
    BY <1>1, <1>6
  <1>8. \A k \in 0..n : h[k] \in Looks
    <2> DEFINE T == {k \in 0..n : h[k] \in Looks}
    <2>1. 0 \in T
      BY <1>1, <1>2, <1>7
    <2>2. ASSUME NEW k \in 1..n, k - 1 \in T PROVE k \in T
      <3>1. h[k - 1] \in Looks /\ k \in 0..n /\ s[k] \in Segs /\ h[k] = Look(ord, h[k - 1], s[k])
        BY <1>1, <1>7, <2>2
      <3> HIDE DEF h
      <3>2. h[k] \in Looks
        BY <3>1, LookType
      <3>3. QED
        BY <3>1, <3>2
    <2> HIDE DEF T
    <2>3. \A k \in 0..n : k \in T
      BY <1>1, <2>1, <2>2, CountsUp
    <2>4. QED
      BY <2>3 DEF T
  <1>9. h[n] = G[1..n]
    BY <1>1
  <1> HIDE DEF h
  <1>10. QED
    BY <1>5, <1>7, <1>8, <1>9

\* The bytes of the segments held, added up.
Total(s) == FoldLeft(LAMBDA bytes, seg : bytes + Len(seg.bytes), 0, s)

\* They are added up one segment after the other.
LEMMA TotalSteps ==
    ASSUME NEW s \in Seq(Segs)
    PROVE  \E h : /\ h[0] = 0
                  /\ \A k \in 1..Len(s) : h[k] = h[k - 1] + Len(s[k].bytes)
                  /\ \A k \in 0..Len(s) : h[k] \in Nat
                  /\ Total(s) = h[Len(s)]
  <1> DEFINE n == Len(s)
             F == [p \in (1..n) \X Nat |-> p[2] + Len(s[p[1]].bytes)]
             Is(g) == g = [t \in SUBSET (1..n) |-> IF t = {} THEN 0
                                                   ELSE g[t \ {Max(t)}] + Len(s[Max(t)].bytes)]
             G == CHOOSE g : Is(g)
             h == [k \in 0..n |-> G[1..k]]
  <1>1. n \in Nat /\ DOMAIN s = 1..n /\ \A i \in 1..n : s[i] \in Segs /\ Len(s[i].bytes) \in Nat
    <2>1. n \in Nat /\ DOMAIN s = 1..n /\ \A i \in 1..n : s[i] \in Segs
      OBVIOUS
    <2>2. \A x \in Segs : Len(x.bytes) \in Nat
      BY DEF Segs
    <2>3. QED
      BY <2>1, <2>2
  <1>3. \E g : Is(g)
    <2>1. F \in [(1..n) \X Nat -> Nat]
      BY <1>1
    <2> HIDE DEF F, n
    <2>2. PICK g \in [SUBSET (1..n) -> Nat] : FoldsBy(g, n, 0, F)
      BY <1>1, <2>1, FoldRuns
    <2>3. ASSUME NEW t \in SUBSET (1..n), t # {}
          PROVE  F[<<Max(t), g[t \ {Max(t)}]>>] = g[t \ {Max(t)}] + Len(s[Max(t)].bytes)
      <3>1. Max(t) \in 1..n
        BY <1>1, <2>3, MaxIs
      <3>2. g[t \ {Max(t)}] \in Nat
        BY <2>2
      <3>3. QED
        BY <3>1, <3>2 DEF F
    <2>4. Is(g)
      BY <2>2, <2>3 DEF FoldsBy
    <2>5. QED
      BY <2>4
  <1>4. Is(G)
    BY <1>3
  <1>5. Total(s) = G[1..n]
    BY <1>1 DEF Total, FoldLeft, MapThenFoldSet
  <1> HIDE DEF G
  <1>6. G[1..0] = 0 /\ \A k \in 1..n : G[1..k] = G[1..(k - 1)] + Len(s[k].bytes)
    <2> DEFINE f == [t \in SUBSET (1..n) |-> G[t \ {Max(t)}] + Len(s[Max(t)].bytes)]
    <2>1. \A t \in SUBSET (1..n) : G[t] = IF t = {} THEN 0 ELSE f[t]
      BY <1>4
    <2>2. G[1..0] = 0 /\ \A k \in 1..n : G[1..k] = f[1..k]
      <3> HIDE DEF f, n
      <3>1. n \in Nat
        BY <1>1
      <3>2. 1..0 = {} /\ {} \in SUBSET (1..n)
        OBVIOUS
      <3>3. \A k \in 1..n : 1..k \in SUBSET (1..n) /\ 1..k # {}
        BY <3>1
      <3>4. QED
        BY <2>1, <3>2, <3>3
    <2>3. \A k \in 1..n : f[1..k] = G[1..(k - 1)] + Len(s[k].bytes)
      <3>1. SUFFICES ASSUME NEW k \in 1..n PROVE f[1..k] = G[1..(k - 1)] + Len(s[k].bytes)
        OBVIOUS
      <3>2. k \in Nat \ {0} /\ 1..k \in SUBSET (1..n)
        BY <1>1
      <3>3. Max(1..k) = k /\ (1..k) \ {k} = 1..(k - 1)
        BY <3>2, MaxUpTo
      <3>4. QED
        BY <3>2, <3>3
    <2>4. QED
      BY <2>2, <2>3
  <1>7. h[0] = 0 /\ \A k \in 1..n : h[k] = h[k - 1] + Len(s[k].bytes)
    BY <1>1, <1>6
  <1>8. \A k \in 0..n : h[k] \in Nat
    <2> DEFINE T == {k \in 0..n : h[k] \in Nat}
    <2>1. 0 \in T
      BY <1>1, <1>7
    <2>2. ASSUME NEW k \in 1..n, k - 1 \in T PROVE k \in T
      <3>1. h[k - 1] \in Nat
        BY <2>2
      <3>2. k \in 0..n /\ Len(s[k].bytes) \in Nat
        BY <1>1
      <3>3. h[k] = h[k - 1] + Len(s[k].bytes)
        BY <1>7
      <3> HIDE DEF h, n
      <3>4. QED
        BY <3>1, <3>2, <3>3
    <2> HIDE DEF T
    <2>3. \A k \in 0..n : k \in T
      BY <1>1, <2>1, <2>2, CountsUp
    <2>4. QED
      BY <2>3 DEF T
  <1>9. h[n] = G[1..n]
    BY <1>1
  <1> HIDE DEF h
  <1>10. QED
    BY <1>5, <1>7, <1>8, <1>9

\* One segment more has its bytes more.
LEMMA TotalMore ==
    ASSUME NEW s \in Seq(Segs), NEW x \in Segs
    PROVE  /\ Total(s) \in Nat /\ Total(Append(s, x)) \in Nat
           /\ Total(Append(s, x)) = Total(s) + Len(x.bytes)
  <1> DEFINE n == Len(s)
             u == Append(s, x)
  <1>1. n \in Nat /\ u \in Seq(Segs) /\ Len(u) = n + 1 /\ u[n + 1] = x /\ \A i \in 1..n : u[i] = s[i]
    OBVIOUS
  <1> HIDE DEF n, u
  <1>2. PICK g : /\ g[0] = 0 /\ \A k \in 1..n : g[k] = g[k - 1] + Len(s[k].bytes)
                 /\ \A k \in 0..n : g[k] \in Nat
                 /\ Total(s) = g[n]
    BY TotalSteps DEF n
  <1>3. PICK h : /\ h[0] = 0 /\ \A k \in 1..(n + 1) : h[k] = h[k - 1] + Len(u[k].bytes)
                 /\ \A k \in 0..(n + 1) : h[k] \in Nat
                 /\ Total(u) = h[n + 1]
    BY <1>1, TotalSteps
  <1>4. h[n] = g[n]
    <2> DEFINE T == {k \in 0..n : h[k] = g[k]}
    <2>1. 0 \in T
      BY <1>1, <1>2, <1>3
    <2>2. ASSUME NEW k \in 1..n, k - 1 \in T PROVE k \in T
      <3>1. h[k - 1] = g[k - 1] /\ k \in 1..(n + 1) /\ k \in 0..n /\ u[k] = s[k]
        BY <1>1, <2>2
      <3>2. QED
        BY <1>2, <1>3, <3>1
    <2> HIDE DEF T
    <2>3. \A k \in 0..n : k \in T
      BY <1>1, <2>1, <2>2, CountsUp
    <2>4. QED
      BY <1>1, <2>3 DEF T
  <1>5. h[n + 1] = h[n] + Len(x.bytes)
    <2>1. n + 1 \in 1..(n + 1) /\ (n + 1) - 1 = n
      BY <1>1
    <2>2. QED
      BY <1>1, <1>3, <2>1
  <1>6. h[n + 1] \in Nat /\ g[n] \in Nat
    BY <1>1, <1>2, <1>3
  <1>7. Total(u) = Total(s) + Len(x.bytes) /\ Total(u) \in Nat /\ Total(s) \in Nat
    BY <1>2, <1>3, <1>4, <1>5, <1>6
  <1>8. QED
    BY <1>7 DEF u

\* That is what earlyBytes() tells.
LEMMA BytesHeld == ASSUME NEW ord PROVE earlyBytes(ord) = Total(ord.early)
  BY DEF earlyBytes, Total

\* Nothing held has no bytes.
LEMMA TotalNone == Total(<<>>) = 0
  <1>1. <<>> \in Seq(Segs) /\ Len(<<>>) = 0
    OBVIOUS
  <1>2. PICK h : /\ h[0] = 0
                 /\ \A k \in 1..Len(<<>>) : h[k] = h[k - 1] + Len(<<>>[k].bytes)
                 /\ \A k \in 0..Len(<<>>) : h[k] \in Nat
                 /\ Total(<<>>) = h[Len(<<>>)]
    BY <1>1, TotalSteps
  <1>3. QED
    BY <1>1, <1>2

\* popNext() leaves an orderer of the segments it did not pop, which are no more than before.
LEMMA PopNextIs ==
    ASSUME NEW ord \in Orders
    PROVE  /\ popNext(ord).order \in Orders /\ popNext(ord).bytes \in Seq(Bytes)
           /\ Len(popNext(ord).order.early) <= Len(ord.early)
           /\ Total(popNext(ord).order.early) <= Total(ord.early)
  <1> DEFINE s == ord.early
             n == Len(s)
  <1>1. s \in Seq(Segs) /\ n \in Nat /\ \A i \in 1..n : s[i] \in Segs
    BY DEF Orders
  <1>2. PICK h : /\ h[0] = NoneLooked
                 /\ \A k \in 1..n : h[k] = Look(ord, h[k - 1], s[k])
                 /\ \A k \in 0..n : h[k] \in Looks
                 /\ popNext(ord) = [order |-> [ord EXCEPT !.early = h[n].early], bytes |-> h[n].bytes]
    BY LookSteps
  <1> HIDE DEF s, n
  <1>3. PICK g : /\ g[0] = 0
                 /\ \A k \in 1..n : g[k] = g[k - 1] + Len(s[k].bytes)
                 /\ \A k \in 0..n : g[k] \in Nat
                 /\ Total(s) = g[n]
    BY <1>1, TotalSteps DEF n
  <1> DEFINE T == {k \in 0..n : Total(h[k].early) <= g[k] /\ Len(h[k].early) <= k}
  <1>4. 0 \in T
    BY <1>1, <1>2, <1>3, TotalNone DEF NoneLooked
  <1>5. ASSUME NEW k \in 1..n, k - 1 \in T PROVE k \in T
    <2> DEFINE at == h[k - 1]
               x == s[k]
    <2>1. /\ at \in Looks /\ x \in Segs /\ h[k] = Look(ord, at, x) /\ g[k] = g[k - 1] + Len(x.bytes)
          /\ g[k - 1] \in Nat /\ k \in 0..n
          /\ Total(at.early) <= g[k - 1] /\ Len(at.early) <= k - 1
      BY <1>1, <1>2, <1>3, <1>5
    <2> HIDE DEF at, x, T
    <2>2. at.early \in Seq(Segs) /\ Len(x.bytes) \in Nat
      BY <2>1 DEF Looks, Segs
    <2>3. Total(at.early) \in Nat /\ Total(Append(at.early, x)) = Total(at.early) + Len(x.bytes)
      BY <2>1, <2>2, TotalMore
    <2>4. h[k].early = Append(at.early, x) \/ h[k].early = at.early
      BY <2>1 DEF Look, Looks
    <2>5. Total(h[k].early) <= g[k] /\ Len(h[k].early) <= k
      <3>1. CASE h[k].early = Append(at.early, x)
        <4>1. Len(h[k].early) = Len(at.early) + 1
          BY <2>2, <3>1
        <4>2. QED
          BY <2>1, <2>2, <2>3, <3>1, <4>1
      <3>2. CASE h[k].early = at.early
        BY <2>1, <2>2, <2>3, <3>2
      <3>3. QED
        BY <2>4, <3>1, <3>2
    <2>6. QED
      BY <2>1, <2>5 DEF T
  <1>6. n \in 0..n /\ \A k \in 0..n : k \in T
    <2>1. n \in Nat
      BY <1>1
    <2> HIDE DEF T
    <2>2. \A k \in 0..n : k \in T
      BY <2>1, <1>4, <1>5, CountsUp
    <2>3. QED
      BY <2>1, <2>2
  <1>7. Total(h[n].early) <= Total(s) /\ Len(h[n].early) <= n
    <2>1. n \in T
      BY <1>6
    <2>2. Total(h[n].early) <= g[n] /\ Len(h[n].early) <= n
      BY <2>1
    <2>3. Total(s) = g[n]
      BY <1>3
    <2> HIDE DEF T
    <2>4. QED
      BY <2>2, <2>3
  <1>8. h[n] \in Looks
    BY <1>2, <1>6
  <1>9. h[n].early \in Seq(Segs) /\ h[n].bytes \in Seq(Bytes)
    BY <1>8 DEF Looks
  <1>10. [ord EXCEPT !.early = h[n].early] \in Orders
    BY <1>9 DEF Orders
  <1>11. /\ popNext(ord).order = [ord EXCEPT !.early = h[n].early]
         /\ popNext(ord).bytes = h[n].bytes
         /\ popNext(ord).order.early = h[n].early
    BY <1>2 DEF Orders
  <1>12. QED
    BY <1>7, <1>9, <1>10, <1>11 DEF s, n

-----------------------------------------------------------------------------
(* What directions are counted with, added up.                             *)

CostSum(e, s) == FoldLeft(LAMBDA sum, key : sum + e[key].cost, 0, s)

\* They are added up one direction after the other.
LEMMA CostSteps ==
    ASSUME NEW e, NEW s \in Seq(Keys), \A i \in 1..Len(s) : e[s[i]].cost \in Nat
    PROVE  \E h : /\ h[0] = 0
                  /\ \A k \in 1..Len(s) : h[k] = h[k - 1] + e[s[k]].cost
                  /\ \A k \in 0..Len(s) : h[k] \in Nat
                  /\ CostSum(e, s) = h[Len(s)]
  <1> DEFINE n == Len(s)
             F == [p \in (1..n) \X Nat |-> p[2] + e[s[p[1]]].cost]
             Is(g) == g = [t \in SUBSET (1..n) |-> IF t = {} THEN 0
                                                   ELSE g[t \ {Max(t)}] + e[s[Max(t)]].cost]
             G == CHOOSE g : Is(g)
             h == [k \in 0..n |-> G[1..k]]
  <1>1. n \in Nat /\ DOMAIN s = 1..n /\ \A i \in 1..n : s[i] \in Keys /\ e[s[i]].cost \in Nat
    OBVIOUS
  <1>3. \E g : Is(g)
    <2>1. F \in [(1..n) \X Nat -> Nat]
      BY <1>1
    <2> HIDE DEF F, n
    <2>2. PICK g \in [SUBSET (1..n) -> Nat] : FoldsBy(g, n, 0, F)
      BY <1>1, <2>1, FoldRuns
    <2>3. ASSUME NEW t \in SUBSET (1..n), t # {}
          PROVE  F[<<Max(t), g[t \ {Max(t)}]>>] = g[t \ {Max(t)}] + e[s[Max(t)]].cost
      <3>1. Max(t) \in 1..n
        BY <1>1, <2>3, MaxIs
      <3>2. g[t \ {Max(t)}] \in Nat
        BY <2>2
      <3>3. QED
        BY <3>1, <3>2 DEF F
    <2>4. Is(g)
      BY <2>2, <2>3 DEF FoldsBy
    <2>5. QED
      BY <2>4
  <1>4. Is(G)
    BY <1>3
  <1>5. CostSum(e, s) = G[1..n]
    BY <1>1 DEF CostSum, FoldLeft, MapThenFoldSet
  <1> HIDE DEF G
  <1>6. G[1..0] = 0 /\ \A k \in 1..n : G[1..k] = G[1..(k - 1)] + e[s[k]].cost
    <2> DEFINE f == [t \in SUBSET (1..n) |-> G[t \ {Max(t)}] + e[s[Max(t)]].cost]
    <2>1. \A t \in SUBSET (1..n) : G[t] = IF t = {} THEN 0 ELSE f[t]
      BY <1>4
    <2>2. G[1..0] = 0 /\ \A k \in 1..n : G[1..k] = f[1..k]
      <3> HIDE DEF f, n
      <3>1. n \in Nat
        BY <1>1
      <3>2. 1..0 = {} /\ {} \in SUBSET (1..n)
        OBVIOUS
      <3>3. \A k \in 1..n : 1..k \in SUBSET (1..n) /\ 1..k # {}
        <4>1. SUFFICES ASSUME NEW k \in 1..n PROVE 1..k \in SUBSET (1..n) /\ 1..k # {}
          OBVIOUS
        <4>2. QED
          BY SMTT(30), <3>1, <4>1
      <3>4. QED
        BY <2>1, <3>2, <3>3
    <2>3. \A k \in 1..n : f[1..k] = G[1..(k - 1)] + e[s[k]].cost
      <3>1. SUFFICES ASSUME NEW k \in 1..n PROVE f[1..k] = G[1..(k - 1)] + e[s[k]].cost
        OBVIOUS
      <3>2. k \in Nat \ {0} /\ 1..k \in SUBSET (1..n)
        BY <1>1
      <3>3. Max(1..k) = k /\ (1..k) \ {k} = 1..(k - 1)
        BY <3>2, MaxUpTo
      <3>4. QED
        BY <3>2, <3>3
    <2>4. QED
      BY <2>2, <2>3
  <1>7. h[0] = 0 /\ \A k \in 1..n : h[k] = h[k - 1] + e[s[k]].cost
    BY <1>1, <1>6
  <1>8. \A k \in 0..n : h[k] \in Nat
    <2> DEFINE T == {k \in 0..n : h[k] \in Nat}
    <2>1. 0 \in T
      BY <1>1, <1>7
    <2>2. ASSUME NEW k \in 1..n, k - 1 \in T PROVE k \in T
      <3>1. h[k - 1] \in Nat
        BY <2>2
      <3>2. k \in 0..n /\ e[s[k]].cost \in Nat
        BY <1>1
      <3>3. h[k] = h[k - 1] + e[s[k]].cost
        BY <1>7
      <3> HIDE DEF h, n
      <3>4. QED
        BY <3>1, <3>2, <3>3
    <2> HIDE DEF T
    <2>3. \A k \in 0..n : k \in T
      BY <1>1, <2>1, <2>2, CountsUp
    <2>4. QED
      BY <2>3 DEF T
  <1>9. h[n] = G[1..n]
    BY <1>1
  <1> HIDE DEF h
  <1>10. QED
    BY <1>5, <1>7, <1>8, <1>9

\* Whatever adds up that way is the sum.
LEMMA CostIs ==
    ASSUME NEW e, NEW s \in Seq(Keys), \A i \in 1..Len(s) : e[s[i]].cost \in Nat,
           NEW g, g[0] = 0, \A k \in 1..Len(s) : g[k] = g[k - 1] + e[s[k]].cost
    PROVE  CostSum(e, s) = g[Len(s)] /\ CostSum(e, s) \in Nat
  <1> DEFINE n == Len(s)
  <1>1. n \in Nat
    OBVIOUS
  <1>2. PICK h : /\ h[0] = 0
                 /\ \A k \in 1..n : h[k] = h[k - 1] + e[s[k]].cost
                 /\ \A k \in 0..n : h[k] \in Nat
                 /\ CostSum(e, s) = h[n]
    BY CostSteps
  <1> DEFINE T == {k \in 0..n : g[k] = h[k]}
  <1> HIDE DEF n
  <1>3. 0 \in T
    BY <1>1, <1>2
  <1>4. ASSUME NEW k \in 1..n, k - 1 \in T PROVE k \in T
    <2>1. g[k] = g[k - 1] + e[s[k]].cost
      BY DEF n
    <2>2. h[k] = h[k - 1] + e[s[k]].cost /\ g[k - 1] = h[k - 1] /\ k \in 0..n
      BY <1>1, <1>2, <1>4
    <2>3. QED
      BY <2>1, <2>2
  <1>5. n \in 0..n /\ \A k \in 0..n : k \in T
    <2> HIDE DEF T
    <2>1. \A k \in 0..n : k \in T
      BY <1>1, <1>3, <1>4, CountsUp
    <2>2. QED
      BY <1>1, <2>1
  <1>6. QED
    BY <1>2, <1>5 DEF n

\* One direction more adds its cost.
LEMMA CostAppend ==
    ASSUME NEW e, NEW s \in Seq(Keys), \A i \in 1..Len(s) : e[s[i]].cost \in Nat,
           NEW x \in Keys, e[x].cost \in Nat
    PROVE  CostSum(e, Append(s, x)) = CostSum(e, s) + e[x].cost
  <1> DEFINE n == Len(s)
             u == Append(s, x)
  <1>1. n \in Nat /\ u \in Seq(Keys) /\ Len(u) = n + 1 /\ u[n + 1] = x /\ \A i \in 1..n : u[i] = s[i]
    OBVIOUS
  <1>2. PICK h : /\ h[0] = 0
                 /\ \A k \in 1..n : h[k] = h[k - 1] + e[s[k]].cost
                 /\ \A k \in 0..n : h[k] \in Nat
                 /\ CostSum(e, s) = h[n]
    BY CostSteps
  <1> DEFINE g == [k \in 0..(n + 1) |-> IF k = n + 1 THEN h[n] + e[x].cost ELSE h[k]]
  <1>3. \A i \in 1..n : e[s[i]].cost \in Nat
    OBVIOUS
  <1> HIDE DEF n, u
  <1>4. \A i \in 1..(n + 1) : e[u[i]].cost \in Nat
    <2> TAKE i \in 1..(n + 1)
    <2>1. i = n + 1 \/ i \in 1..n
      BY <1>1
    <2>2. QED
      BY <1>1, <1>3, <2>1
  <1>5. g[0] = 0 /\ \A k \in 1..(n + 1) : g[k] = g[k - 1] + e[u[k]].cost
    <2>1. g[0] = 0
      BY <1>1, <1>2
    <2>2. ASSUME NEW k \in 1..(n + 1) PROVE g[k] = g[k - 1] + e[u[k]].cost
      <3>1. CASE k = n + 1
        BY <1>1, <3>1
      <3>2. CASE k \in 1..n
        BY <1>1, <1>2, <3>2
      <3>3. QED
        BY <1>1, <3>1, <3>2
    <2>3. QED
      BY <2>1, <2>2
  <1>6. g[n + 1] = h[n] + e[x].cost
    BY <1>1
  <1> HIDE DEF g
  <1>7. CostSum(e, u) = g[n + 1]
    <2>1. \A k \in 1..Len(u) : e[u[k]].cost \in Nat
      BY <1>1, <1>4
    <2>2. \A k \in 1..Len(u) : g[k] = g[k - 1] + e[u[k]].cost
      BY <1>1, <1>5
    <2>3. CostSum(e, u) = g[Len(u)]
      BY SMTT(30), <1>1, <1>5, <2>1, <2>2, CostIs
    <2>4. QED
      BY <1>1, <2>3
  <1>8. QED
    BY <1>2, <1>6, <1>7 DEF u

\* One direction less has its cost less.
LEMMA CostDrop ==
    ASSUME NEW e, NEW s \in Seq(Keys), \A i \in 1..Len(s) : e[s[i]].cost \in Nat,
           NEW i \in 1..Len(s), NEW u \in Seq(Keys), Len(u) = Len(s) - 1,
           \A j \in 1..Len(u) : u[j] = IF j < i THEN s[j] ELSE s[j + 1]
    PROVE  CostSum(e, u) = CostSum(e, s) - e[s[i]].cost
  <1> DEFINE n == Len(s)
             c == e[s[i]].cost
  <1>1. n \in Nat /\ i \in 1..n /\ Len(u) = n - 1 /\ c \in Nat
    OBVIOUS
  <1>2. PICK h : /\ h[0] = 0
                 /\ \A k \in 1..n : h[k] = h[k - 1] + e[s[k]].cost
                 /\ \A k \in 0..n : h[k] \in Nat
                 /\ CostSum(e, s) = h[n]
    BY CostSteps
  <1> DEFINE g == [k \in 0..(n - 1) |-> IF k < i THEN h[k] ELSE h[k + 1] - c]
  <1>3. /\ \A k \in 1..n : e[s[k]].cost \in Nat
        /\ \A j \in 1..(n - 1) : u[j] = IF j < i THEN s[j] ELSE s[j + 1]
    OBVIOUS
  <1>4. h[i] = h[i - 1] + c
    BY <1>1, <1>2
  <1> HIDE DEF n, c
  <1>5. \A j \in 1..(n - 1) : e[u[j]].cost \in Nat
    <2> TAKE j \in 1..(n - 1)
    <2>1. j \in 1..n /\ j + 1 \in 1..n
      BY <1>1
    <2>2. QED
      BY <1>3, <2>1
  <1>6. g[0] = 0 /\ \A k \in 1..(n - 1) : g[k] = g[k - 1] + e[u[k]].cost
    <2>1. g[0] = 0
      BY <1>1, <1>2
    <2>2. ASSUME NEW k \in 1..(n - 1) PROVE g[k] = g[k - 1] + e[u[k]].cost
      <3>1. /\ k \in 1..n /\ k + 1 \in 1..n /\ k \in 0..(n - 1) /\ k - 1 \in 0..(n - 1)
            /\ k - 1 \in 0..n /\ k \in 0..n /\ (k + 1) - 1 = k /\ (k - 1) + 1 = k
        BY <1>1
      <3>2. /\ h[k] = h[k - 1] + e[s[k]].cost /\ h[k + 1] = h[k] + e[s[k + 1]].cost
            /\ h[k - 1] \in Nat /\ h[k] \in Nat /\ e[s[k]].cost \in Nat /\ e[s[k + 1]].cost \in Nat
        BY <1>2, <1>3, <3>1
      <3>3. /\ g[k] = IF k < i THEN h[k] ELSE h[k + 1] - c
            /\ g[k - 1] = IF k - 1 < i THEN h[k - 1] ELSE h[k] - c
        BY <3>1
      <3> HIDE DEF g
      <3>4. CASE k < i
        BY <1>1, <1>3, <3>2, <3>3, <3>4
      <3>5. CASE k = i
        BY SMTT(30), <1>1, <1>3, <1>4, <3>2, <3>3, <3>5
      <3>6. CASE k > i
        <4>1. u[k] = s[k + 1] /\ g[k] = h[k + 1] - c /\ g[k - 1] = h[k] - c
          BY <1>1, <1>3, <3>3, <3>6
        <4> DEFINE a == h[k]
                   b == h[k + 1]
                   d == e[s[k + 1]].cost
        <4>2. b = a + d /\ a \in Nat /\ d \in Nat /\ c \in Nat
          BY <1>1, <3>2
        <4>3. e[u[k]].cost = d /\ g[k] = b - c /\ g[k - 1] = a - c
          BY <4>1
        <4> HIDE DEF a, b, c, d
        <4>4. QED
          BY <4>2, <4>3
      <3>7. QED
        BY <1>1, <3>4, <3>5, <3>6
    <2>3. QED
      BY <2>1, <2>2
  <1>7. g[n - 1] = h[n] - c
    <2>1. CASE i = n
      <3>1. n - 1 \in 0..(n - 1) /\ n - 1 < i
        BY <1>1, <2>1
      <3>2. g[n - 1] = h[n - 1] /\ h[n - 1] \in Nat /\ h[n] = h[n - 1] + c
        BY <1>1, <1>2, <1>4, <2>1, <3>1
      <3> HIDE DEF g
      <3>3. QED
        BY <1>1, <3>2
    <2>2. CASE i # n
      BY <1>1, <2>2
    <2>3. QED
      BY <2>1, <2>2
  <1> HIDE DEF g
  <1>8. CostSum(e, u) = g[n - 1]
    <2>1. \A k \in 1..Len(u) : e[u[k]].cost \in Nat
      BY <1>1, <1>5
    <2>2. \A k \in 1..Len(u) : g[k] = g[k - 1] + e[u[k]].cost
      BY <1>1, <1>6
    <2>3. g[0] = 0
      BY <1>6
    <2>4. CostSum(e, u) = g[Len(u)]
      BY ZenonT(30), <2>1, <2>2, <2>3, CostIs
    <2>5. QED
      BY <1>1, <2>4
  <1>9. QED
    BY <1>2, <1>7, <1>8 DEF c

\* A direction's cost is another, the others' are what they were.
LEMMA CostChange ==
    ASSUME NEW e, NEW s \in Seq(Keys), \A i \in 1..Len(s) : e[s[i]].cost \in Nat,
           NEW i \in 1..Len(s), NEW f, f[s[i]].cost \in Nat,
           \A j \in 1..Len(s) : j # i => f[s[j]].cost = e[s[j]].cost
    PROVE  CostSum(f, s) = CostSum(e, s) - e[s[i]].cost + f[s[i]].cost
  <1> DEFINE n == Len(s)
             c == e[s[i]].cost
             d == f[s[i]].cost
  <1>1. n \in Nat /\ i \in 1..n /\ c \in Nat /\ d \in Nat
    OBVIOUS
  <1>2. PICK h : /\ h[0] = 0
                 /\ \A k \in 1..n : h[k] = h[k - 1] + e[s[k]].cost
                 /\ \A k \in 0..n : h[k] \in Nat
                 /\ CostSum(e, s) = h[n]
    BY CostSteps
  <1> DEFINE g == [k \in 0..n |-> IF k < i THEN h[k] ELSE h[k] - c + d]
  <1>3. \A k \in 1..n : e[s[k]].cost \in Nat /\ f[s[k]].cost = IF k = i THEN d ELSE e[s[k]].cost
    OBVIOUS
  <1>4. e[s[i]].cost = c
    OBVIOUS
  <1> HIDE DEF n, c, d
  <1>5. \A j \in 1..n : f[s[j]].cost \in Nat
    BY <1>1, <1>3
  <1>6. g[0] = 0 /\ \A k \in 1..n : g[k] = g[k - 1] + f[s[k]].cost
    <2>1. g[0] = 0
      BY <1>1, <1>2
    <2>2. ASSUME NEW k \in 1..n PROVE g[k] = g[k - 1] + f[s[k]].cost
      <3>1. k \in 0..n /\ k - 1 \in 0..n
        BY <1>1
      <3>2. /\ h[k] = h[k - 1] + e[s[k]].cost /\ h[k - 1] \in Nat /\ h[k] \in Nat /\ e[s[k]].cost \in Nat
            /\ f[s[k]].cost = IF k = i THEN d ELSE e[s[k]].cost
        BY <1>2, <1>3, <3>1
      <3>3. /\ g[k] = IF k < i THEN h[k] ELSE h[k] - c + d
            /\ g[k - 1] = IF k - 1 < i THEN h[k - 1] ELSE h[k - 1] - c + d
        BY <3>1
      <3> HIDE DEF g
      <3>4. CASE k < i
        BY <1>1, <3>2, <3>3, <3>4
      <3>5. CASE k = i
        BY <1>1, <1>4, <3>2, <3>3, <3>5
      <3>6. CASE k > i
        BY SMTT(30), <1>1, <3>2, <3>3, <3>6
      <3>7. QED
        BY <1>1, <3>4, <3>5, <3>6
    <2>3. QED
      BY <2>1, <2>2
  <1>7. g[n] = h[n] - c + d
    BY <1>1
  <1> HIDE DEF g
  <1>8. CostSum(f, s) = g[n]
    BY <1>1, <1>5, <1>6, CostIs DEF n
  <1>9. QED
    BY <1>2, <1>7, <1>8 DEF c, d

-----------------------------------------------------------------------------
(* The order the directions were used in.                                  *)

\* No direction has two places in it.
Once(s) == \A i, j \in 1..Len(s) : s[i] = s[j] => i = j

\* RemoveFirst() leaves out the place of the direction.
LEMMA RemoveFirstIs ==
    ASSUME NEW s \in Seq(Keys), Once(s), NEW i \in 1..Len(s)
    PROVE  LET u == RemoveFirst(s, s[i])
           IN  /\ u \in Seq(Keys) /\ Len(u) = Len(s) - 1
               /\ \A j \in 1..Len(u) : u[j] = IF j < i THEN s[j] ELSE s[j + 1]
  <1> DEFINE n == Len(s)
             I == {j \in 1..n : s[j] = s[i]}
             a == SubSeq(s, 1, i - 1)
             b == SubSeq(s, i + 1, n)
  <1>1. n \in Nat /\ i \in 1..n /\ DOMAIN s = 1..n /\ \A j \in 1..n : s[j] \in Keys
    OBVIOUS
  <1>2. I = {i}
    BY DEF Once
  <1>3. Min(I) = i
    <2>1. Min({i}) = i
      BY <1>1 DEF Min
    <2>2. QED
      BY <1>2, <2>1
  <1>4. RemoveFirst(s, s[i]) = a \o b
    <2>1. SelectInSeq(s, LAMBDA v : v = s[i]) = IF I # {} THEN Min(I) ELSE 0
      BY DEF SelectInSeq
    <2>2. SelectInSeq(s, LAMBDA v : v = s[i]) = i
      BY <1>2, <1>3, <2>1
    <2>3. QED
      BY <2>2 DEF RemoveFirst, RemoveAt
  <1>5. a \in Seq(Keys) /\ Len(a) = i - 1 /\ \A j \in 1..(i - 1) : a[j] = s[j]
    BY <1>1, SubSeqProperties
  <1>6. b \in Seq(Keys) /\ Len(b) = n - i /\ \A j \in 1..(n - i) : b[j] = s[i + j]
    <2>1. i + 1 \in Int /\ n \in Int /\ n - (i + 1) + 1 = n - i /\ \A k \in (i + 1)..n : s[k] \in Keys
      BY <1>1
    <2> HIDE DEF a, I, n
    <2>2. b \in Seq(Keys) /\ Len(b) = n - i
      <3>1. b \in Seq(Keys) /\ Len(b) = IF i + 1 <= n THEN n - (i + 1) + 1 ELSE 0
        BY <2>1, SubSeqProperties
      <3>2. QED
        BY <1>1, <3>1
    <2>3. ASSUME NEW j \in 1..(n - i) PROVE b[j] = s[i + j]
      <3>1. j \in 1..(n - (i + 1) + 1) /\ (i + 1) + j - 1 = i + j
        BY <1>1
      <3>2. b[j] = s[(i + 1) + j - 1]
        BY <2>1, <3>1, SubSeqProperties
      <3>3. QED
        BY <3>1, <3>2
    <2>4. QED
      BY <2>1, <2>2, <2>3
  <1> HIDE DEF n, a, b, I
  <1>7. a \o b \in Seq(Keys) /\ Len(a \o b) = n - 1
    <2>1. a \o b \in Seq(Keys) /\ Len(a \o b) = Len(a) + Len(b)
      BY <1>5, <1>6, ConcatProperties
    <2>2. QED
      BY <1>1, <1>5, <1>6, <2>1
  <1>8. ASSUME NEW j \in 1..(n - 1) PROVE (a \o b)[j] = IF j < i THEN s[j] ELSE s[j + 1]
    <2>1. CASE j < i
      <3>1. j \in 1..(i - 1)
        BY <1>1, <2>1
      <3>2. (a \o b)[j] = a[j]
        BY <1>5, <1>6, <3>1
      <3>3. QED
        BY <1>5, <2>1, <3>1, <3>2
    <2>2. CASE ~(j < i)
      <3>1. j - (i - 1) \in 1..(n - i) /\ i + (j - (i - 1)) = j + 1
        BY <1>1, <2>2
      <3>2. (a \o b)[j] = b[j - (i - 1)]
        BY <1>1, <1>5, <1>6, <2>2, <3>1
      <3>3. b[j - (i - 1)] = s[j + 1]
        BY <1>6, <3>1
      <3>4. QED
        BY <2>2, <3>2, <3>3
    <2>3. QED
      BY <2>1, <2>2
  <1>9. QED
    BY <1>4, <1>7, <1>8 DEF n

\* The directions left are the others, each in one place.
LEMMA RemoveFirstSet ==
    ASSUME NEW s \in Seq(Keys), Once(s), NEW key \in ToSet(s)
    PROVE  /\ RemoveFirst(s, key) \in Seq(Keys) /\ Once(RemoveFirst(s, key))
           /\ ToSet(RemoveFirst(s, key)) = ToSet(s) \ {key}
  <1> DEFINE n == Len(s)
             u == RemoveFirst(s, key)
  <1>1. n \in Nat /\ DOMAIN s = 1..n
    OBVIOUS
  <1>2. PICK i \in 1..n : s[i] = key
    BY <1>1 DEF ToSet
  <1>3. u \in Seq(Keys) /\ Len(u) = n - 1 /\ \A j \in 1..Len(u) : u[j] = IF j < i THEN s[j] ELSE s[j + 1]
    BY <1>2, RemoveFirstIs
  <1>4. /\ \A j, k \in 1..n : s[j] = s[k] => j = k
        /\ \A x : x \in ToSet(s) <=> \E j \in 1..n : s[j] = x
    BY <1>1 DEF Once, ToSet
  <1> HIDE DEF n, u
  <1>5. \A x : x \in ToSet(u) <=> \E j \in 1..(n - 1) : u[j] = x
    BY <1>3 DEF ToSet
  <1> DEFINE at(j) == IF j < i THEN j ELSE j + 1
  <1>6. \A j \in 1..(n - 1) : at(j) \in 1..n /\ at(j) # i /\ u[j] = s[at(j)]
    BY <1>1, <1>3
  <1>7. \A j, k \in 1..(n - 1) : at(j) = at(k) => j = k
    BY <1>1
  <1>8. \A k \in 1..n : k # i => \E j \in 1..(n - 1) : at(j) = k
    <2>1. SUFFICES ASSUME NEW k \in 1..n, k # i PROVE \E j \in 1..(n - 1) : at(j) = k
      OBVIOUS
    <2>2. CASE k < i
      <3>1. k \in 1..(n - 1) /\ at(k) = k
        BY <1>1, <2>2
      <3>2. QED
        BY <3>1
    <2>3. CASE k > i
      <3>1. k - 1 \in 1..(n - 1) /\ at(k - 1) = k
        BY <1>1, <2>3
      <3>2. QED
        BY <3>1
    <2>4. QED
      BY <1>1, <2>1, <2>2, <2>3
  <1> HIDE DEF at
  <1>9. Once(u)
    <2>1. \A j, k \in 1..(n - 1) : u[j] = u[k] => j = k
      BY <1>4, <1>6, <1>7
    <2>2. QED
      BY <1>3, <2>1 DEF Once
  <1>10. ToSet(u) = ToSet(s) \ {key}
    <2>1. ASSUME NEW x \in ToSet(u) PROVE x \in ToSet(s) \ {key}
      BY <1>2, <1>4, <1>5, <1>6, <2>1
    <2>2. ASSUME NEW x \in ToSet(s) \ {key} PROVE x \in ToSet(u)
      <3>1. PICK k \in 1..n : s[k] = x
        BY <1>4
      <3>2. k # i
        BY <1>2, <3>1
      <3>3. PICK j \in 1..(n - 1) : at(j) = k
        BY <1>8, <3>2
      <3>4. u[j] = x
        BY <1>6, <3>1, <3>3
      <3>5. QED
        BY <1>5, <3>4
    <2>3. QED
      BY <2>1, <2>2
  <1>11. QED
    BY <1>3, <1>9, <1>10 DEF u

\* A direction more, used last.
LEMMA AppendSet ==
    ASSUME NEW s \in Seq(Keys), Once(s), NEW key \in Keys, key \notin ToSet(s)
    PROVE  /\ Append(s, key) \in Seq(Keys) /\ Once(Append(s, key))
           /\ ToSet(Append(s, key)) = ToSet(s) \cup {key}
  <1> DEFINE n == Len(s)
             u == Append(s, key)
  <1>1. /\ n \in Nat /\ DOMAIN s = 1..n /\ u \in Seq(Keys) /\ Len(u) = n + 1 /\ DOMAIN u = 1..(n + 1)
        /\ u[n + 1] = key /\ \A i \in 1..n : u[i] = s[i]
    OBVIOUS
  <1>2. /\ \A j, k \in 1..n : s[j] = s[k] => j = k
        /\ \A x : x \in ToSet(s) <=> \E j \in 1..n : s[j] = x
    BY <1>1 DEF Once, ToSet
  <1> HIDE DEF n, u
  <1>3. \A x : x \in ToSet(u) <=> \E j \in 1..(n + 1) : u[j] = x
    BY <1>1 DEF ToSet
  <1>4. \A j \in 1..(n + 1) : j = n + 1 \/ j \in 1..n
    BY <1>1
  <1>5. \A j \in 1..n : j \in 1..(n + 1) /\ u[j] # key
    BY <1>1, <1>2
  <1>6. Once(u)
    <2>1. \A j, k \in 1..(n + 1) : u[j] = u[k] => j = k
      BY <1>1, <1>2, <1>4, <1>5
    <2>2. QED
      BY <1>1, <2>1 DEF Once
  <1>7. ToSet(u) = ToSet(s) \cup {key}
    <2>1. \A x \in ToSet(u) : x \in ToSet(s) \cup {key}
      BY <1>1, <1>2, <1>3, <1>4
    <2>2. n + 1 \in 1..(n + 1)
      BY <1>1
    <2>3. \A x \in ToSet(s) \cup {key} : x \in ToSet(u)
      BY <1>1, <1>2, <1>3, <1>5, <2>2
    <2>4. QED
      BY <2>1, <2>3
  <1>8. QED
    BY <1>1, <1>6, <1>7 DEF u

-----------------------------------------------------------------------------
(* The table between two operations.                                       *)

Tables == [entries : [Keys -> Entry \cup {Unset}], lru : Seq(Keys), used : Nat,
           heldBits : SUBSET Keys, letGoBits : SUBSET Keys]

\* What is held of a direction is within its limits.
Fits(entry) ==
    /\ Len(entry.held) <= entry.capacity
    /\ entry.capacity + earlyBytes(entry.order) <= StreamLimit
    /\ Len(entry.order.early) <= MaxEarlySegments

\* The table agrees with itself, and the memory counted is what the directions are counted with.
Counted(t) ==
    /\ t \in Tables
    /\ Once(t.lru)
    /\ \A key \in Keys : key \in ToSet(t.lru) <=> t.entries[key] # Unset
    /\ \A key \in t.heldBits : t.entries[key] # Unset
    /\ \A key \in Keys : t.entries[key] # Unset => Fits(t.entries[key])
    /\ t.used = CostSum(t.entries, t.lru)
    /\ t.used <= MemoryLimit

\* A direction is counted with what it holds.
Exact(t, key) == t.entries[key] # Unset => t.entries[key].cost = Footprint(t.entries[key])

\* Each is.
Good(t) == Counted(t) /\ \A key \in Keys : Exact(t, key)

\* A message of the direction is held.
Holding(t, key) == key \in t.heldBits /\ ~t.entries[key].skipping

\* One is, which may be counted with more than it holds: until it is counted again.
Near(t, key) ==
    /\ Counted(t) /\ \A k \in Keys \ {key} : Exact(t, k)
    /\ Holding(t, key)
    /\ Footprint(t.entries[key]) <= t.entries[key].cost

\* What is counted with the same has the same sum.
LEMMA CostSame ==
    ASSUME NEW e, NEW s \in Seq(Keys), \A i \in 1..Len(s) : e[s[i]].cost \in Nat,
           NEW f, \A i \in 1..Len(s) : f[s[i]].cost = e[s[i]].cost
    PROVE  CostSum(f, s) = CostSum(e, s)
  <1>1. PICK h : /\ h[0] = 0
                 /\ \A k \in 1..Len(s) : h[k] = h[k - 1] + e[s[k]].cost
                 /\ \A k \in 0..Len(s) : h[k] \in Nat
                 /\ CostSum(e, s) = h[Len(s)]
    BY CostSteps
  <1>2. h[0] = 0 /\ \A k \in 1..Len(s) : h[k] = h[k - 1] + f[s[k]].cost
    BY <1>1
  <1>3. \A i \in 1..Len(s) : f[s[i]].cost \in Nat
    OBVIOUS
  <1>4. CostSum(f, s) = h[Len(s)]
    BY <1>2, <1>3, CostIs
  <1>5. QED
    BY <1>1, <1>4

\* The directions in the order have entries, and each entry a place in it.
LEMMA Placed ==
    ASSUME NEW t, Counted(t)
    PROVE  /\ \A i \in 1..Len(t.lru) : /\ t.lru[i] \in Keys /\ t.entries[t.lru[i]] \in Entry
                                       /\ t.entries[t.lru[i]].cost \in Nat
           /\ \A key \in Keys : t.entries[key] # Unset =>
                  /\ \E i \in 1..Len(t.lru) : t.lru[i] = key
                  /\ key \in ToSet(t.lru) /\ t.entries[key] \in Entry /\ t.entries[key].cost \in Nat
                  /\ t.entries[key].capacity \in Nat /\ t.entries[key].held \in Seq(Bytes)
                  /\ t.entries[key].order \in Orders /\ t.entries[key].skipping \in BOOLEAN
  <1>1. /\ t.lru \in Seq(Keys) /\ t.entries \in [Keys -> Entry \cup {Unset}]
        /\ \A key \in Keys : key \in ToSet(t.lru) <=> t.entries[key] # Unset
    BY DEF Counted, Tables
  <1>2. \A i \in 1..Len(t.lru) : t.lru[i] \in Keys /\ t.lru[i] \in ToSet(t.lru)
    BY <1>1 DEF ToSet
  <1>3. \A x \in Entry : /\ x.cost \in Nat /\ x.capacity \in Nat /\ x.held \in Seq(Bytes)
                         /\ x.skipping \in BOOLEAN
    BY DEF Entry
  <1>4. \A x \in Entry : x.order \in Orders
    BY DEF Entry, Orderer, Orders, Segs
  <1>5. ASSUME NEW key \in Keys, t.entries[key] # Unset
        PROVE  \E i \in 1..Len(t.lru) : t.lru[i] = key
    <2>1. key \in ToSet(t.lru)
      BY <1>1, <1>5
    <2>2. QED
      BY <1>1, <2>1 DEF ToSet
  <1>6. \A i \in 1..Len(t.lru) : t.entries[t.lru[i]] \in Entry
    BY <1>1, <1>2
  <1>7. \A key \in Keys : t.entries[key] # Unset => key \in ToSet(t.lru) /\ t.entries[key] \in Entry
    BY <1>1
  <1>8. QED
    BY <1>2, <1>3, <1>4, <1>5, <1>6, <1>7

\* release() lets go of what is held of a direction, and of no other.
LEMMA ReleaseIs ==
    ASSUME NEW t, Counted(t), NEW key \in Keys
    PROVE  LET r == release(t, key)
           IN  /\ Counted(r) /\ r.used <= t.used
               /\ r.entries = [t.entries EXCEPT ![key] = Unset]
               /\ r.heldBits = t.heldBits \ {key} /\ r.letGoBits = t.letGoBits
  <1> DEFINE r == release(t, key)
             e == t.entries
             s == t.lru
             f == [e EXCEPT ![key] = Unset]
             u == RemoveFirst(s, key)
             c == e[key].cost
  <1>1. /\ t \in Tables /\ e \in [Keys -> Entry \cup {Unset}] /\ s \in Seq(Keys) /\ t.used \in Nat
        /\ t.heldBits \in SUBSET Keys /\ t.letGoBits \in SUBSET Keys /\ Once(s)
        /\ \A k \in Keys : k \in ToSet(s) <=> e[k] # Unset
        /\ \A k \in t.heldBits : e[k] # Unset
        /\ \A k \in Keys : e[k] # Unset => Fits(e[k])
        /\ t.used = CostSum(e, s) /\ t.used <= MemoryLimit
    BY DEF Counted, Tables
  <1>2. CASE e[key] = Unset
    <2>1. r = t
      BY <1>2 DEF release
    <2>2. f = e /\ key \notin t.heldBits
      BY <1>1, <1>2
    <2>3. QED
      BY <1>1, <2>1, <2>2
  <1>3. CASE e[key] # Unset
    <2>1. r = [entries |-> f, lru |-> u, used |-> t.used - c, heldBits |-> t.heldBits \ {key},
               letGoBits |-> t.letGoBits]
      BY <1>1, <1>3 DEF release, With, Tables
    <2>2. key \in ToSet(s) /\ c \in Nat
      BY <1>3, Placed
    <2>3. u \in Seq(Keys) /\ Once(u) /\ ToSet(u) = ToSet(s) \ {key}
      BY <1>1, <2>2, RemoveFirstSet
    <2>4. CostSum(e, u) = t.used - c
      <3>1. PICK i \in 1..Len(s) : s[i] = key
        BY <1>3, Placed
      <3>2. /\ u \in Seq(Keys) /\ Len(u) = Len(s) - 1
            /\ \A j \in 1..Len(u) : u[j] = IF j < i THEN s[j] ELSE s[j + 1]
        BY <1>1, <3>1, RemoveFirstIs
      <3>3. \A j \in 1..Len(s) : e[s[j]].cost \in Nat
        BY Placed
      <3> HIDE DEF e, s, u
      <3>4. CostSum(e, u) = CostSum(e, s) - e[s[i]].cost
        BY <1>1, <3>2, <3>3, CostDrop
      <3>5. QED
        BY <1>1, <3>1, <3>4
    <2>5. \A i \in 1..Len(u) : u[i] \in Keys /\ u[i] # key /\ e[u[i]] # Unset
      <3>1. \A i \in 1..Len(u) : u[i] \in ToSet(u)
        BY <2>3 DEF ToSet
      <3>2. QED
        BY <1>1, <2>3, <3>1
    <2>6. \A i \in 1..Len(u) : e[u[i]].cost \in Nat /\ f[u[i]] = e[u[i]]
      BY <1>1, <2>5, Placed
    <2> HIDE DEF u
    <2>7. CostSum(f, u) = t.used - c
      <3>1. CostSum(f, u) = CostSum(e, u)
        BY <2>3, <2>6, CostSame
      <3>2. QED
        BY <2>4, <3>1
    <2>8. t.used - c \in Nat
      <3>1. CostSum(e, u) \in Nat
        <4> HIDE DEF e
        <4>1. PICK h : /\ h[0] = 0
                       /\ \A k \in 1..Len(u) : h[k] = h[k - 1] + e[u[k]].cost
                       /\ \A k \in 0..Len(u) : h[k] \in Nat
                       /\ CostSum(e, u) = h[Len(u)]
          BY <2>3, <2>6, CostSteps
        <4>2. Len(u) \in 0..Len(u)
          BY <2>3
        <4>3. QED
          BY <4>1, <4>2
      <3>2. QED
        BY <2>4, <3>1
    <2> HIDE DEF c
    <2>9. f \in [Keys -> Entry \cup {Unset}] /\ \A k \in Keys : f[k] = IF k = key THEN Unset ELSE e[k]
      BY <1>1
    <2> HIDE DEF f, e, s
    <2>10. r \in Tables
      BY <1>1, <2>1, <2>3, <2>8, <2>9 DEF Tables
    <2>11. /\ \A k \in Keys : k \in ToSet(u) <=> f[k] # Unset
           /\ \A k \in t.heldBits \ {key} : f[k] # Unset
           /\ \A k \in Keys : f[k] # Unset => Fits(f[k])
      BY <1>1, <2>3, <2>9
    <2>12. LimitsAssumption => MemoryLimit \in Nat
      BY DEF LimitsAssumption
    <2>13. t.used - c <= t.used /\ t.used - c <= MemoryLimit
      BY <1>1, <2>2, <2>8, <2>12, LimitsAssumption
    <2>14. Counted(r)
      BY <2>1, <2>3, <2>7, <2>10, <2>11, <2>13 DEF Counted
    <2>15. QED
      BY <2>1, <2>13, <2>14 DEF f, e
  <1>4. QED
    BY <1>2, <1>3

\* The numbers an entry is counted with.
LEMMA FootprintIs ==
    ASSUME NEW y \in Entry
    PROVE  /\ Footprint(y) \in Nat /\ earlyBytes(y.order) \in Nat
           /\ \A c : Footprint([y EXCEPT !.cost = c]) = Footprint(y)
           /\ \A c \in Nat : [y EXCEPT !.cost = c] \in Entry
           /\ \A c : Fits(y) => Fits([y EXCEPT !.cost = c])
  <1>1. y.order \in Orders /\ y.capacity \in Nat
    BY DEF Entry, Orderer, Orders, Segs
  <1>2. y.order.early \in Seq(Segs)
    BY <1>1 DEF Orders
  <1>3. Len(y.order.early) \in Nat
    BY <1>2
  <1>4. earlyBytes(y.order) \in Nat
    <2>1. PICK h : /\ \A k \in 0..Len(y.order.early) : h[k] \in Nat
                   /\ Total(y.order.early) = h[Len(y.order.early)]
      BY <1>2, TotalSteps
    <2>2. QED
      BY <1>3, <2>1, BytesHeld
  <1>5. EarlyOverhead \in Nat /\ EntryOverhead \in Nat
    BY LimitsAssumption DEF LimitsAssumption
  <1>6. EarlyOverhead * Len(y.order.early) \in Nat
    BY <1>3, <1>5
  <1>7. Footprint(y) \in Nat
    <2> DEFINE overhead == EarlyOverhead * Len(y.order.early)
               bytes == earlyBytes(y.order)
    <2>1. Footprint(y) = EntryOverhead + y.capacity + bytes + overhead
      BY DEF Footprint
    <2>2. overhead \in Nat /\ bytes \in Nat
      BY <1>4, <1>6
    <2> HIDE DEF overhead, bytes
    <2>3. QED
      BY <1>1, <1>5, <2>1, <2>2
  <1>8. \A c : /\ [y EXCEPT !.cost = c].order = y.order /\ [y EXCEPT !.cost = c].held = y.held
               /\ [y EXCEPT !.cost = c].capacity = y.capacity
    BY DEF Entry
  <1>9. \A c : Footprint([y EXCEPT !.cost = c]) = Footprint(y)
    BY <1>8 DEF Footprint
  <1>10. \A c : Fits(y) => Fits([y EXCEPT !.cost = c])
    BY <1>8 DEF Fits
  <1>11. \A c \in Nat : [y EXCEPT !.cost = c] \in Entry
    BY DEF Entry
  <1>12. QED
    BY <1>4, <1>7, <1>9, <1>10, <1>11

\* The table with another entry.
LEMMA WithTable ==
    ASSUME NEW t \in Tables, NEW key \in Keys, NEW x
    PROVE  /\ With(t, key, x) = [entries |-> [t.entries EXCEPT ![key] = x], lru |-> t.lru, used |-> t.used,
                                 heldBits |-> t.heldBits, letGoBits |-> t.letGoBits]
           /\ \A n : [With(t, key, x) EXCEPT !.used = n] =
                        [entries |-> [t.entries EXCEPT ![key] = x], lru |-> t.lru, used |-> n,
                         heldBits |-> t.heldBits, letGoBits |-> t.letGoBits]
  <1> DEFINE f == [t.entries EXCEPT ![key] = x]
  <1>1. With(t, key, x) = [t EXCEPT !.entries = f]
    BY DEF With
  <1> HIDE DEF f
  <1>2. With(t, key, x) = [entries |-> f, lru |-> t.lru, used |-> t.used,
                           heldBits |-> t.heldBits, letGoBits |-> t.letGoBits]
    BY <1>1 DEF Tables
  <1>3. QED
    BY <1>2 DEF f

\* A direction holds something else, and is counted with it.
LEMMA ChangeIs ==
    ASSUME NEW t, Counted(t), NEW key \in Keys, t.entries[key] # Unset,
           NEW x \in Entry, Fits(x), t.used - t.entries[key].cost + x.cost <= MemoryLimit
    PROVE  Counted([With(t, key, x) EXCEPT !.used = t.used - t.entries[key].cost + x.cost])
  <1> DEFINE e == t.entries
             s == t.lru
             f == [e EXCEPT ![key] = x]
             c == e[key].cost
             d == x.cost
             r == [With(t, key, x) EXCEPT !.used = t.used - c + d]
  <1>1. /\ t \in Tables /\ e \in [Keys -> Entry \cup {Unset}] /\ s \in Seq(Keys) /\ t.used \in Nat
        /\ t.heldBits \in SUBSET Keys /\ t.letGoBits \in SUBSET Keys /\ Once(s)
        /\ \A k \in Keys : k \in ToSet(s) <=> e[k] # Unset
        /\ \A k \in t.heldBits : e[k] # Unset
        /\ \A k \in Keys : e[k] # Unset => Fits(e[k])
        /\ t.used = CostSum(e, s) /\ t.used <= MemoryLimit
    BY DEF Counted, Tables
  <1>2. c \in Nat /\ d \in Nat /\ x # Unset
    BY Placed, NoEntryAssumption DEF Entry, NoEntryAssumption
  <1>3. r = [entries |-> f, lru |-> s, used |-> t.used - c + d, heldBits |-> t.heldBits,
             letGoBits |-> t.letGoBits]
    BY <1>1, WithTable
  <1>4. f \in [Keys -> Entry \cup {Unset}] /\ \A k \in Keys : f[k] = IF k = key THEN x ELSE e[k]
    BY <1>1
  <1>5. CostSum(f, s) = CostSum(e, s) - c + d
    <2>1. PICK i \in 1..Len(s) : s[i] = key
      BY Placed
    <2>2. \A j \in 1..Len(s) : e[s[j]].cost \in Nat /\ s[j] \in Keys
      BY Placed
    <2>3. f[s[i]].cost = d /\ e[s[i]].cost = c /\ f[s[i]].cost \in Nat
      BY <1>2, <1>4, <2>1
    <2>4. \A j \in 1..Len(s) : j # i => s[j] # key
      BY <1>1, <2>1 DEF Once
    <2>5. \A j \in 1..Len(s) : j # i => f[s[j]].cost = e[s[j]].cost
      BY <1>4, <2>2, <2>4
    <2> HIDE DEF e, s, f, c, d, r
    <2>6. CostSum(f, s) = CostSum(e, s) - e[s[i]].cost + f[s[i]].cost
      <3>1. s \in Seq(Keys) /\ \A j \in 1..Len(s) : e[s[j]].cost \in Nat
        BY <1>1, <2>2
      <3>2. QED
        BY <2>3, <2>5, <3>1, CostChange
    <2>7. QED
      BY <2>3, <2>6
  <1>6. CostSum(f, s) \in Nat
    <2>1. \A j \in 1..Len(s) : f[s[j]].cost \in Nat
      <3>1. \A j \in 1..Len(s) : e[s[j]].cost \in Nat /\ s[j] \in Keys
        BY Placed
      <3>2. QED
        BY <1>2, <1>4, <3>1
    <2> HIDE DEF f, s
    <2>2. PICK h : /\ \A k \in 0..Len(s) : h[k] \in Nat
                   /\ CostSum(f, s) = h[Len(s)]
      BY <1>1, <2>1, CostSteps
    <2>3. Len(s) \in 0..Len(s)
      BY <1>1
    <2>4. QED
      BY <2>2, <2>3
  <1> HIDE DEF e, s, f, c, d
  <1>7. t.used - c + d \in Nat /\ t.used - c + d = CostSum(f, s)
    BY <1>1, <1>5, <1>6
  <1>8. r \in Tables
    BY <1>1, <1>3, <1>4, <1>7 DEF Tables
  <1>9. /\ \A k \in Keys : k \in ToSet(s) <=> f[k] # Unset
        /\ \A k \in t.heldBits : f[k] # Unset
        /\ \A k \in Keys : f[k] # Unset => Fits(f[k])
    <2>1. e[key] # Unset
      BY DEF e
    <2>2. QED
      BY <1>1, <1>2, <1>4, <2>1
  <1>10. t.used - c + d <= MemoryLimit
    BY DEF c, d, e
  <1>11. Counted(r)
    BY <1>1, <1>3, <1>7, <1>8, <1>9, <1>10 DEF Counted
  <1>12. QED
    BY <1>11 DEF r, c, d, e

\* A direction holds something else, counted as before.
LEMMA WithIs ==
    ASSUME NEW t, Counted(t), NEW key \in Keys, t.entries[key] # Unset,
           NEW x \in Entry, Fits(x), x.cost = t.entries[key].cost
    PROVE  LET r == With(t, key, x)
           IN  /\ Counted(r) /\ r.used = t.used /\ r.entries = [t.entries EXCEPT ![key] = x]
               /\ r.lru = t.lru /\ r.heldBits = t.heldBits /\ r.letGoBits = t.letGoBits
  <1> DEFINE r == With(t, key, x)
             c == t.entries[key].cost
  <1>1. c \in Nat /\ t.used \in Nat /\ t.used <= MemoryLimit /\ t \in Tables
    BY Placed DEF Counted, Tables
  <1>2. r = [entries |-> [t.entries EXCEPT ![key] = x], lru |-> t.lru, used |-> t.used,
             heldBits |-> t.heldBits, letGoBits |-> t.letGoBits]
    BY <1>1, WithTable
  <1>3. t.used - c + x.cost = t.used
    BY <1>1
  <1>4. Counted([r EXCEPT !.used = t.used - c + x.cost])
    BY <1>1, <1>3, ChangeIs
  <1>5. [r EXCEPT !.used = t.used] = r
    BY <1>2
  <1>6. Counted(r)
    BY <1>3, <1>4, <1>5
  <1>7. QED
    BY <1>2, <1>6

\* recharge() counts a direction with what it holds now.
LEMMA RechargeIs ==
    ASSUME NEW t, Counted(t), NEW key \in Keys, t.entries[key] # Unset,
           NEW y \in Entry, Fits(y), y.cost = t.entries[key].cost,
           t.used - y.cost + Footprint(y) <= MemoryLimit
    PROVE  LET r == recharge(With(t, key, y), key)
               x == [y EXCEPT !.cost = Footprint(y)]
           IN  /\ Counted(r) /\ Exact(r, key) /\ r.entries = [t.entries EXCEPT ![key] = x]
               /\ r.used = t.used - y.cost + Footprint(y)
               /\ r.heldBits = t.heldBits /\ r.letGoBits = t.letGoBits
  <1> DEFINE x == [y EXCEPT !.cost = Footprint(y)]
             c == t.entries[key].cost
             r == recharge(With(t, key, y), key)
  <1>1. t \in Tables /\ t.entries \in [Keys -> Entry \cup {Unset}] /\ y # Unset
    BY NoEntryAssumption DEF Counted, Tables, NoEntryAssumption
  <1>2. /\ With(t, key, y) = [entries |-> [t.entries EXCEPT ![key] = y], lru |-> t.lru, used |-> t.used,
                              heldBits |-> t.heldBits, letGoBits |-> t.letGoBits]
        /\ With(t, key, y).entries[key] = y
    <2>1. [t.entries EXCEPT ![key] = y][key] = y
      BY <1>1
    <2>2. QED
      BY <1>1, <2>1, WithTable
  <1>3. x \in Entry /\ Fits(x) /\ x.cost = Footprint(y) /\ Footprint(x) = Footprint(y)
    <2>1. x.cost = Footprint(y)
      BY DEF Entry
    <2>2. QED
      BY <2>1, FootprintIs
  <1>4. r = [entries |-> [t.entries EXCEPT ![key] = x], lru |-> t.lru, used |-> t.used - y.cost + x.cost,
             heldBits |-> t.heldBits, letGoBits |-> t.letGoBits]
    <2>1. r = [With(With(t, key, y), key, x) EXCEPT !.used = @ - y.cost + x.cost]
      BY <1>2 DEF recharge
    <2>2. With(With(t, key, y), key, x) =
              [entries |-> [t.entries EXCEPT ![key] = x], lru |-> t.lru, used |-> t.used,
               heldBits |-> t.heldBits, letGoBits |-> t.letGoBits]
      <3>1. [[t.entries EXCEPT ![key] = y] EXCEPT ![key] = x] = [t.entries EXCEPT ![key] = x]
        BY <1>1
      <3>2. With(t, key, y) \in Tables
        BY <1>1, <1>2 DEF Tables
      <3>3. QED
        BY <1>2, <3>1, <3>2, WithTable
    <2>3. QED
      BY <2>1, <2>2
  <1>5. r = [With(t, key, x) EXCEPT !.used = t.used - c + x.cost]
    <2>1. [With(t, key, x) EXCEPT !.used = t.used - c + x.cost] =
              [entries |-> [t.entries EXCEPT ![key] = x], lru |-> t.lru, used |-> t.used - c + x.cost,
               heldBits |-> t.heldBits, letGoBits |-> t.letGoBits]
      BY <1>1, WithTable
    <2>2. QED
      BY <1>4, <2>1
  <1>6. Counted(r)
    <2> HIDE DEF r, x
    <2>1. t.used - t.entries[key].cost + x.cost <= MemoryLimit
      BY <1>3
    <2>2. QED
      BY <1>3, <1>5, <2>1, ChangeIs
  <1>7. r.entries[key] = x
    BY <1>1, <1>4
  <1>8. Exact(r, key)
    BY <1>3, <1>7 DEF Exact
  <1>9. QED
    BY <1>3, <1>4, <1>6, <1>8

\* Touch() moves a direction to the end of the order.
LEMMA TouchIs ==
    ASSUME NEW t, Counted(t), NEW key \in Keys, t.entries[key] # Unset
    PROVE  LET r == Touch(t, key)
           IN  /\ Counted(r) /\ r.entries = t.entries /\ r.used = t.used
               /\ r.heldBits = t.heldBits /\ r.letGoBits = t.letGoBits
  <1> DEFINE e == t.entries
             s == t.lru
             u == RemoveFirst(s, key)
             v == Append(u, key)
             r == Touch(t, key)
  <1>1. /\ t \in Tables /\ s \in Seq(Keys) /\ Once(s)
        /\ \A k \in Keys : k \in ToSet(s) <=> e[k] # Unset
        /\ \A k \in t.heldBits : e[k] # Unset
        /\ \A k \in Keys : e[k] # Unset => Fits(e[k])
        /\ t.used = CostSum(e, s) /\ t.used <= MemoryLimit /\ t.used \in Nat
    BY DEF Counted, Tables
  <1>2. r = [entries |-> e, lru |-> v, used |-> t.used, heldBits |-> t.heldBits, letGoBits |-> t.letGoBits]
    <2>1. r = [t EXCEPT !.lru = v]
      BY DEF Touch
    <2> HIDE DEF v, r
    <2>2. QED
      BY <1>1, <2>1 DEF Tables
  <1>3. key \in ToSet(s) /\ e[key].cost \in Nat
    BY Placed
  <1>4. u \in Seq(Keys) /\ Once(u) /\ ToSet(u) = ToSet(s) \ {key}
    BY <1>1, <1>3, RemoveFirstSet
  <1>5. v \in Seq(Keys) /\ Once(v) /\ ToSet(v) = ToSet(s)
    <2>1. key \notin ToSet(u)
      BY <1>4
    <2> HIDE DEF u
    <2>2. v \in Seq(Keys) /\ Once(v) /\ ToSet(v) = ToSet(u) \cup {key}
      BY <1>4, <2>1, AppendSet
    <2>3. QED
      BY <1>3, <1>4, <2>2
  <1>6. CostSum(e, v) = t.used
    <2>1. PICK i \in 1..Len(s) : s[i] = key
      BY Placed
    <2>2. /\ Len(u) = Len(s) - 1
          /\ \A j \in 1..Len(u) : u[j] = IF j < i THEN s[j] ELSE s[j + 1]
      BY <1>1, <2>1, RemoveFirstIs
    <2>3. \A j \in 1..Len(s) : e[s[j]].cost \in Nat
      BY Placed
    <2>4. \A j \in 1..Len(u) : e[u[j]].cost \in Nat
      <3>1. \A j \in 1..Len(u) : u[j] \in ToSet(u)
        BY <1>4 DEF ToSet
      <3>2. \A j \in 1..Len(u) : u[j] \in Keys /\ e[u[j]] # Unset
        BY <1>1, <1>4, <3>1
      <3>3. QED
        BY <3>2, Placed
    <2>5. CostSum(e, s) \in Nat
      BY <1>1
    <2> HIDE DEF e, s, u, v
    <2>6. CostSum(e, u) = CostSum(e, s) - e[s[i]].cost
      <3>1. s \in Seq(Keys) /\ u \in Seq(Keys)
        BY <1>1, <1>4
      <3>2. QED
        BY <2>2, <2>3, <3>1, CostDrop
    <2>7. CostSum(e, v) = CostSum(e, u) + e[key].cost
      BY <1>3, <1>4, <2>4, CostAppend DEF v
    <2>8. QED
      BY <1>1, <1>3, <2>1, <2>5, <2>6, <2>7
  <1> HIDE DEF u, v, s, e
  <1>7. r \in Tables
    BY <1>1, <1>2, <1>5 DEF Tables, e
  <1>8. Counted(r)
    BY <1>1, <1>2, <1>5, <1>6, <1>7 DEF Counted
  <1>9. QED
    BY <1>2, <1>8 DEF e

\* Insert() holds something of a direction of which nothing is held, and counts it.
LEMMA InsertIs ==
    ASSUME NEW t, Counted(t), NEW key \in Keys, t.entries[key] = Unset,
           NEW y \in Entry, Fits(y), y.cost = 0, t.used + Footprint(y) <= MemoryLimit
    PROVE  LET r == Insert(t, key, y)
               x == [y EXCEPT !.cost = Footprint(y)]
           IN  /\ Counted(r) /\ Exact(r, key) /\ r.entries = [t.entries EXCEPT ![key] = x]
               /\ r.heldBits = t.heldBits \cup {key} /\ r.letGoBits = t.letGoBits
  <1> DEFINE e == t.entries
             s == t.lru
             v == Append(s, key)
             f == [e EXCEPT ![key] = y]
             a == [entries |-> f, lru |-> v, used |-> t.used, heldBits |-> t.heldBits \cup {key},
                   letGoBits |-> t.letGoBits]
  <1>1. /\ t \in Tables /\ e \in [Keys -> Entry \cup {Unset}] /\ s \in Seq(Keys) /\ t.used \in Nat
        /\ t.heldBits \in SUBSET Keys /\ t.letGoBits \in SUBSET Keys /\ Once(s)
        /\ \A k \in Keys : k \in ToSet(s) <=> e[k] # Unset
        /\ \A k \in t.heldBits : e[k] # Unset
        /\ \A k \in Keys : e[k] # Unset => Fits(e[k])
        /\ t.used = CostSum(e, s) /\ t.used <= MemoryLimit
    BY DEF Counted, Tables
  <1>2. y # Unset /\ key \notin ToSet(s)
    BY <1>1, NoEntryAssumption DEF NoEntryAssumption
  <1>3. v \in Seq(Keys) /\ Once(v) /\ ToSet(v) = ToSet(s) \cup {key}
    BY <1>1, <1>2, AppendSet
  <1>4. f \in [Keys -> Entry \cup {Unset}] /\ \A k \in Keys : f[k] = IF k = key THEN y ELSE e[k]
    BY <1>1
  <1>5. CostSum(f, v) = t.used
    <2>1. \A i \in 1..Len(s) : s[i] \in Keys /\ e[s[i]].cost \in Nat
      BY Placed
    <2>2. \A i \in 1..Len(s) : s[i] \in ToSet(s)
      BY <1>1 DEF ToSet
    <2>3. \A i \in 1..Len(s) : f[s[i]].cost = e[s[i]].cost
      BY <1>2, <1>4, <2>1, <2>2
    <2>4. f[key].cost = 0
      BY <1>4
    <2> HIDE DEF e, s, f, v
    <2>5. CostSum(f, s) = CostSum(e, s)
      BY <1>1, <2>1, <2>3, CostSame
    <2>6. \A i \in 1..Len(s) : f[s[i]].cost \in Nat
      BY <2>1, <2>3
    <2>7. CostSum(f, v) = CostSum(f, s) + f[key].cost
      BY <1>1, <2>4, <2>6, CostAppend DEF v
    <2>8. QED
      BY <1>1, <2>4, <2>5, <2>7
  <1> HIDE DEF e, s, f, v
  <1>6. a \in Tables
    BY <1>1, <1>3, <1>4 DEF Tables
  <1>7. Counted(a)
    <2>1. /\ \A k \in Keys : k \in ToSet(v) <=> f[k] # Unset
          /\ \A k \in t.heldBits \cup {key} : f[k] # Unset
          /\ \A k \in Keys : f[k] # Unset => Fits(f[k])
      BY <1>1, <1>2, <1>3, <1>4
    <2>2. QED
      BY <1>1, <1>3, <1>5, <1>6, <2>1 DEF Counted
  <1>8. Insert(t, key, y) = recharge(a, key)
    <2> DEFINE w == With(t, key, y)
    <2>1. w = [entries |-> f, lru |-> s, used |-> t.used, heldBits |-> t.heldBits, letGoBits |-> t.letGoBits]
      BY <1>1, WithTable DEF f, e, s
    <2>2. Insert(t, key, y) = recharge([w EXCEPT !.lru = Append(w.lru, key), !.heldBits = w.heldBits \cup {key}], key)
      BY DEF Insert
    <2> HIDE DEF w
    <2>3. [w EXCEPT !.lru = Append(w.lru, key), !.heldBits = w.heldBits \cup {key}] = a
      <3>1. w.lru = s /\ w.heldBits = t.heldBits
        BY <2>1
      <3>2. Append(w.lru, key) = v
        BY <3>1 DEF v
      <3>3. [w EXCEPT !.lru = v, !.heldBits = t.heldBits \cup {key}] = a
        <4> DEFINE b == t.heldBits
                   c == b \cup {key}
                   n == t.used
                   g == t.letGoBits
        <4>1. w = [entries |-> f, lru |-> s, used |-> n, heldBits |-> b, letGoBits |-> g]
          BY <2>1
        <4> HIDE DEF b, c, n, g
        <4>2. [w EXCEPT !.lru = v, !.heldBits = c] = [[w EXCEPT !.lru = v] EXCEPT !.heldBits = c]
          OBVIOUS
        <4> DEFINE x == [w EXCEPT !.lru = v]
        <4>3. x = [entries |-> f, lru |-> v, used |-> n, heldBits |-> b, letGoBits |-> g]
          BY <4>1
        <4> HIDE DEF x
        <4>4. [x EXCEPT !.heldBits = c] =
                  [entries |-> f, lru |-> v, used |-> n, heldBits |-> c, letGoBits |-> g]
          BY <4>3
        <4>5. QED
          BY <4>2, <4>4 DEF b, c, n, g, x
      <3>4. QED
        BY <3>1, <3>2, <3>3
    <2>4. QED
      BY <2>2, <2>3
  <1>9. With(a, key, y) = a /\ a.entries[key] = y
    <2>1. f[key] = y /\ [f EXCEPT ![key] = y] = f
      BY <1>4
    <2>2. QED
      BY <1>6, <2>1, WithTable
  <1>10. a.used - y.cost + Footprint(y) <= MemoryLimit
    BY <1>1
  <1>11. /\ a.entries = f /\ a.heldBits = t.heldBits \cup {key} /\ a.letGoBits = t.letGoBits
         /\ a.entries[key] # Unset /\ y.cost = a.entries[key].cost
    BY <1>2, <1>9
  <1> HIDE DEF a
  <1> DEFINE r == recharge(a, key)
             x == [y EXCEPT !.cost = Footprint(y)]
  <1>12. /\ Counted(r) /\ Exact(r, key) /\ r.entries = [f EXCEPT ![key] = x]
         /\ r.heldBits = t.heldBits \cup {key} /\ r.letGoBits = t.letGoBits
    BY <1>7, <1>9, <1>10, <1>11, RechargeIs
  <1>13. [f EXCEPT ![key] = x] = [t.entries EXCEPT ![key] = x]
    BY <1>1 DEF f, e
  <1>14. QED
    BY <1>8, <1>12, <1>13

-----------------------------------------------------------------------------
(* Room for more.                                                          *)

\* Directions were let go, others than keep.
Kept(t, u, keep) ==
    /\ Counted(u) /\ u.used <= t.used
    /\ \A key \in Keys : u.entries[key] = t.entries[key] \/ u.entries[key] = Unset
    /\ u.entries[keep] = t.entries[keep]
    /\ keep \in u.heldBits <=> keep \in t.heldBits

\* What is held is counted as it was.
LEMMA KeptExact ==
    ASSUME NEW t, NEW u, NEW keep \in Keys, Kept(t, u, keep)
    PROVE  /\ \A key \in Keys : Exact(t, key) => Exact(u, key)
           /\ Good(t) => Good(u)
           /\ Near(t, keep) => Near(u, keep)
           /\ Holding(t, keep) => Holding(u, keep)
  <1>1. \A key \in Keys : Exact(t, key) => Exact(u, key)
    BY DEF Kept, Exact
  <1>2. Good(t) => Good(u)
    BY <1>1 DEF Good, Kept
  <1>3. Holding(t, keep) => Holding(u, keep)
    BY DEF Holding, Kept
  <1>4. Near(t, keep) => Near(u, keep)
    BY <1>1, <1>3 DEF Near, Kept
  <1>5. QED
    BY <1>1, <1>2, <1>3, <1>4

\* One direction is let go, if there is no room.
LEMMA LetGoKeeps ==
    ASSUME NEW t, NEW keep \in Keys, NEW u, Kept(t, u, keep), NEW key \in Keys, t.used \in Nat,
           NEW r, r = IF key # keep
                      THEN [release(u, key) EXCEPT !.letGoBits = @ \cup {key}] ELSE u
    PROVE  Kept(t, r, keep)
  <1>1. CASE key = keep
    BY <1>1
  <1>2. CASE key # keep
    <2> DEFINE v == release(u, key)
    <2>1. Counted(u) /\ u.used \in Nat
      BY DEF Kept, Counted, Tables
    <2>2. /\ Counted(v) /\ v.used <= u.used /\ v.entries = [u.entries EXCEPT ![key] = Unset]
          /\ v.heldBits = u.heldBits \ {key}
      BY <2>1, ReleaseIs
    <2> HIDE DEF v
    <2>3. v \in Tables /\ v.used \in Nat
      BY <2>2 DEF Counted, Tables
    <2>4. r = [entries |-> v.entries, lru |-> v.lru, used |-> v.used, heldBits |-> v.heldBits,
               letGoBits |-> v.letGoBits \cup {key}]
      BY <1>2, <2>3 DEF v, Tables
    <2>5. r \in Tables
      BY <2>3, <2>4 DEF Tables
    <2>6. /\ r.entries = v.entries /\ r.lru = v.lru /\ r.used = v.used /\ r.heldBits = v.heldBits
          /\ Counted(r)
      <3>1. r.entries = v.entries /\ r.lru = v.lru /\ r.used = v.used /\ r.heldBits = v.heldBits
        BY <2>4
      <3>2. Counted(r)
        BY <2>2, <2>5, <3>1 DEF Counted
      <3>3. QED
        BY <3>1, <3>2
    <2>7. u.entries \in [Keys -> Entry \cup {Unset}]
      BY <2>1 DEF Counted, Tables
    <2>8. \A k \in Keys : v.entries[k] = IF k = key THEN Unset ELSE u.entries[k]
      BY <2>2, <2>7
    <2>9. r.used <= t.used
      BY <2>1, <2>2, <2>3, <2>6 DEF Kept
    <2>10. \A k \in Keys : r.entries[k] = t.entries[k] \/ r.entries[k] = Unset
      BY <2>6, <2>8 DEF Kept
    <2>11. r.entries[keep] = t.entries[keep]
      BY <1>2, <2>6, <2>8 DEF Kept
    <2>12. keep \in r.heldBits <=> keep \in t.heldBits
      BY <1>2, <2>2, <2>6 DEF Kept
    <2>13. QED
      BY <2>6, <2>9, <2>10, <2>11, <2>12 DEF Kept
  <1>3. QED
    BY <1>1, <1>2

\* makeRoom() lets go of others only, and tells whether there is room.
LEMMA MakeRoomIs ==
    ASSUME NEW t, Counted(t), NEW bytes \in Nat, NEW keep \in Keys
    PROVE  LET m == makeRoom(t, bytes, keep)
           IN  /\ Kept(t, m.t, keep) /\ m.ok \in BOOLEAN
               /\ m.ok => m.t.used + bytes <= MemoryLimit
  <1> DEFINE s == t.lru
             n == Len(s)
             Step(u, key) == IF u.used + bytes > MemoryLimit /\ key # keep
                             THEN [release(u, key) EXCEPT !.letGoBits = @ \cup {key}] ELSE u
             S == {u \in Tables : Kept(t, u, keep)}
             F == [p \in (1..n) \X S |-> Step(p[2], s[p[1]])]
             Is(g) == g = [d \in SUBSET (1..n) |-> IF d = {} THEN t ELSE Step(g[d \ {Max(d)}], s[Max(d)])]
             G == CHOOSE g : Is(g)
  <1>1. /\ n \in Nat /\ DOMAIN s = 1..n /\ t \in Tables /\ t.used \in Nat
        /\ \A i \in 1..n : s[i] \in Keys
    BY DEF Counted, Tables
  <1>2. t \in S
    <2>1. t.used <= t.used
      BY <1>1
    <2>2. QED
      BY <1>1, <2>1 DEF Kept
  <1>3. ASSUME NEW u \in S, NEW key \in Keys PROVE Step(u, key) \in S
    <2>1. Kept(t, u, keep)
      OBVIOUS
    <2>2. CASE u.used + bytes > MemoryLimit
      <3> DEFINE r == Step(u, key)
      <3>1. r = IF key # keep THEN [release(u, key) EXCEPT !.letGoBits = @ \cup {key}] ELSE u
        BY <2>2
      <3> HIDE DEF r
      <3>2. Kept(t, r, keep)
        BY <1>1, <2>1, <3>1, LetGoKeeps
      <3>3. r \in Tables
        BY <3>2 DEF Kept, Counted
      <3>4. QED
        BY <3>2, <3>3 DEF r
    <2>3. CASE ~(u.used + bytes > MemoryLimit)
      BY <2>3
    <2>4. QED
      BY <2>2, <2>3
  <1> HIDE DEF Step, S
  <1>4. \E g : Is(g)
    <2>1. F \in [(1..n) \X S -> S]
      BY <1>1, <1>3
    <2> HIDE DEF F, n, s
    <2>2. PICK g \in [SUBSET (1..n) -> S] : FoldsBy(g, n, t, F)
      BY <1>1, <1>2, <2>1, FoldRuns
    <2>3. ASSUME NEW d \in SUBSET (1..n), d # {}
          PROVE  F[<<Max(d), g[d \ {Max(d)}]>>] = Step(g[d \ {Max(d)}], s[Max(d)])
      <3>1. Max(d) \in 1..n
        BY <1>1, <2>3, MaxIs
      <3>2. g[d \ {Max(d)}] \in S
        BY <2>2
      <3>3. QED
        BY <3>1, <3>2 DEF F
    <2>4. Is(g)
      BY <2>2, <2>3 DEF FoldsBy
    <2>5. QED
      BY <2>4
  <1>5. Is(G)
    BY <1>4
  <1>6. /\ makeRoom(t, bytes, keep).t = G[1..n]
        /\ makeRoom(t, bytes, keep).ok = (G[1..n].used + bytes <= MemoryLimit)
    BY <1>1 DEF makeRoom, FoldLeft, MapThenFoldSet, Step
  <1> HIDE DEF G
  <1>7. G[1..n] \in S
    <2> DEFINE f == [d \in SUBSET (1..n) |-> Step(G[d \ {Max(d)}], s[Max(d)])]
               T == {k \in 0..n : G[1..k] \in S}
    <2>1. G = [d \in SUBSET (1..n) |-> IF d = {} THEN t ELSE f[d]]
      BY <1>5
    <2>2. G[1..0] = t /\ \A k \in 1..n : G[1..k] = f[1..k]
      <3> HIDE DEF f
      <3>1. QED
        BY <1>1, <2>1, FoldUpTo
    <2>3. 0 \in T
      BY <1>1, <1>2, <2>2
    <2>4. ASSUME NEW k \in 1..n, k - 1 \in T PROVE k \in T
      <3>1. k \in Nat \ {0} /\ 1..k \in SUBSET (1..n) /\ s[k] \in Keys /\ k \in 0..n
        BY <1>1
      <3>2. Max(1..k) = k /\ (1..k) \ {k} = 1..(k - 1)
        BY <3>1, MaxUpTo
      <3>3. f[1..k] = Step(G[1..(k - 1)], s[k])
        BY <3>1, <3>2
      <3>4. G[1..(k - 1)] \in S
        BY <2>4
      <3>5. Step(G[1..(k - 1)], s[k]) \in S
        BY <1>3, <3>1, <3>4
      <3> HIDE DEF f
      <3>6. G[1..k] \in S
        BY <2>2, <3>3, <3>5
      <3>7. QED
        BY <3>1, <3>6
    <2> HIDE DEF T
    <2>5. \A k \in 0..n : k \in T
      BY <1>1, <2>3, <2>4, CountsUp
    <2>6. QED
      BY <1>1, <2>5 DEF T
  <1>8. Kept(t, G[1..n], keep)
    BY <1>7 DEF S
  <1> DEFINE m == makeRoom(t, bytes, keep)
             room == G[1..n].used + bytes <= MemoryLimit
  <1>9. m.ok \in BOOLEAN /\ (m.ok => room)
    <2>1. m.ok = room /\ room \in BOOLEAN
      BY <1>6
    <2> HIDE DEF m, room
    <2>2. QED
      BY <2>1
  <1>10. m.t = G[1..n]
    BY <1>6
  <1> HIDE DEF m
  <1>11. Kept(t, m.t, keep) /\ m.ok \in BOOLEAN /\ (m.ok => m.t.used + bytes <= MemoryLimit)
    BY <1>8, <1>9, <1>10
  <1>12. QED
    BY <1>11 DEF m

-----------------------------------------------------------------------------
(* More of a direction is held.                                            *)

LEMMA Limits == /\ MemoryLimit \in Nat /\ StreamLimit \in Nat /\ MaxEarlySegments \in Nat
                /\ EntryOverhead \in Nat /\ EarlyOverhead \in Nat /\ MaxSkip \in Nat
  BY LimitsAssumption DEF LimitsAssumption

\* What the table has of a direction that is held.
LEMMA HeldIs ==
    ASSUME NEW t, NEW key \in Keys, Counted(t), t.entries[key] # Unset
    PROVE  /\ t \in Tables /\ t.used \in Nat /\ t.used <= MemoryLimit
           /\ t.entries \in [Keys -> Entry \cup {Unset}]
           /\ t.entries[key] \in Entry /\ Fits(t.entries[key])
           /\ t.entries[key].cost \in Nat /\ t.entries[key].capacity \in Nat
           /\ t.entries[key].held \in Seq(Bytes) /\ Len(t.entries[key].held) \in Nat
           /\ t.entries[key].order \in Orders /\ t.entries[key].order.early \in Seq(Segs)
           /\ t.entries[key].skipping \in BOOLEAN
           /\ earlyBytes(t.entries[key].order) \in Nat
           /\ Footprint(t.entries[key]) \in Nat
  <1>1. /\ t \in Tables /\ t.used \in Nat /\ t.used <= MemoryLimit
        /\ t.entries \in [Keys -> Entry \cup {Unset}] /\ Fits(t.entries[key])
    BY DEF Counted, Tables
  <1>2. /\ t.entries[key] \in Entry /\ t.entries[key].cost \in Nat /\ t.entries[key].capacity \in Nat
        /\ t.entries[key].held \in Seq(Bytes) /\ t.entries[key].order \in Orders
        /\ t.entries[key].skipping \in BOOLEAN
    BY Placed
  <1>3. earlyBytes(t.entries[key].order) \in Nat /\ Footprint(t.entries[key]) \in Nat
    BY <1>2, FootprintIs
  <1>4. t.entries[key].order.early \in Seq(Segs)
    BY <1>2 DEF Orders
  <1>5. QED
    BY <1>1, <1>2, <1>3, <1>4

\* A direction held by its bit has an entry.
LEMMA NearHeld ==
    ASSUME NEW t, NEW key \in Keys, Near(t, key)
    PROVE  Counted(t) /\ t.entries[key] # Unset /\ ~t.entries[key].skipping /\ key \in t.heldBits
  BY DEF Near, Holding, Counted

\* Entries of buffers of the same size, with the same segments that came early, are counted alike.
LEMMA FootprintSame ==
    ASSUME NEW y \in Entry, NEW z \in Entry, z.capacity = y.capacity, z.order.early = y.order.early
    PROVE  Footprint(z) = Footprint(y) /\ earlyBytes(z.order) = earlyBytes(y.order)
  <1>1. earlyBytes(z.order) = earlyBytes(y.order)
    BY BytesHeld
  <1>2. QED
    BY <1>1 DEF Footprint

\* The entry of a direction is another, counted as before.
LEMMA NearWith ==
    ASSUME NEW t, NEW key \in Keys, Near(t, key), NEW y \in Entry, Fits(y), ~y.skipping,
           y.cost = t.entries[key].cost, Footprint(y) <= y.cost
    PROVE  /\ Near(With(t, key, y), key) /\ With(t, key, y).entries[key] = y
           /\ With(t, key, y).used = t.used
  <1> DEFINE r == With(t, key, y)
  <1>1. Counted(t) /\ t.entries[key] # Unset /\ key \in t.heldBits
    BY NearHeld
  <1>2. /\ Counted(r) /\ r.used = t.used /\ r.entries = [t.entries EXCEPT ![key] = y]
        /\ r.heldBits = t.heldBits
    BY <1>1, WithIs
  <1>3. t.entries \in [Keys -> Entry \cup {Unset}]
    BY <1>1, HeldIs
  <1> HIDE DEF r
  <1>4. \A k \in Keys : r.entries[k] = IF k = key THEN y ELSE t.entries[k]
    BY <1>2, <1>3
  <1>5. \A k \in Keys \ {key} : Exact(r, k)
    BY <1>4 DEF Near, Exact
  <1>6. Near(r, key)
    BY <1>1, <1>2, <1>4, <1>5 DEF Near, Holding
  <1>7. QED
    BY <1>2, <1>4, <1>6 DEF r

\* The entry of a direction is another, and counted.
LEMMA NearRecharge ==
    ASSUME NEW t, NEW key \in Keys, Near(t, key), NEW y \in Entry, Fits(y), ~y.skipping,
           y.cost = t.entries[key].cost, t.used - y.cost + Footprint(y) <= MemoryLimit
    PROVE  LET r == recharge(With(t, key, y), key)
           IN  /\ Near(r, key) /\ Exact(r, key)
               /\ r.entries[key] = [y EXCEPT !.cost = Footprint(y)]
               /\ r.used = t.used - y.cost + Footprint(y)
  <1> DEFINE r == recharge(With(t, key, y), key)
             x == [y EXCEPT !.cost = Footprint(y)]
  <1>1. Counted(t) /\ t.entries[key] # Unset /\ key \in t.heldBits
    BY NearHeld
  <1>2. /\ Counted(r) /\ Exact(r, key) /\ r.used = t.used - y.cost + Footprint(y)
        /\ r.entries = [t.entries EXCEPT ![key] = x]
        /\ r.heldBits = t.heldBits
    BY <1>1, RechargeIs
  <1>3. t.entries \in [Keys -> Entry \cup {Unset}]
    BY <1>1, HeldIs
  <1>4. ~x.skipping /\ x \in Entry
    BY FootprintIs DEF Entry
  <1> HIDE DEF r, x
  <1>5. \A k \in Keys : r.entries[k] = IF k = key THEN x ELSE t.entries[k]
    BY <1>2, <1>3
  <1>6. \A k \in Keys \ {key} : Exact(r, k)
    BY <1>5 DEF Near, Exact
  <1>7. r.entries[key] = x /\ x # Unset /\ x.cost = Footprint(x)
    BY <1>2, <1>4, <1>5, NoEntryAssumption DEF NoEntryAssumption, Exact
  <1>8. Footprint(x) \in Nat
    BY <1>4, FootprintIs
  <1>9. Near(r, key)
    BY <1>1, <1>2, <1>4, <1>6, <1>7, <1>8 DEF Near, Holding
  <1>10. QED
    BY <1>2, <1>7, <1>9 DEF r, x

\* reserve() makes room in the buffer of a direction, and holds on to it.
LEMMA ReserveIs ==
    ASSUME NEW t, NEW key \in Keys, Near(t, key), NEW extra \in Nat
    PROVE  LET r == reserve(t, key, extra)
           IN  /\ r.ok \in BOOLEAN /\ Near(r.t, key) /\ (Exact(t, key) => Exact(r.t, key))
               /\ r.ok => /\ Len(t.entries[key].held) + extra <= r.t.entries[key].capacity
                          /\ r.t.entries[key].held = t.entries[key].held
                          /\ r.t.entries[key].order = t.entries[key].order
  <1> DEFINE entry == t.entries[key]
             early == earlyBytes(entry.order)
             needed == Len(entry.held) + extra
             half == Min2(entry.capacity + entry.capacity \div 2, StreamLimit - early)
             grown == Max2(needed, half)
             more == [entry EXCEPT !.capacity = grown]
             m == makeRoom(t, grown - entry.capacity, key)
             r == reserve(t, key, extra)
  <1>0. SUFFICES /\ r.ok \in BOOLEAN /\ Near(r.t, key) /\ (Exact(t, key) => Exact(r.t, key))
                 /\ r.ok => /\ needed <= r.t.entries[key].capacity
                            /\ r.t.entries[key].held = entry.held
                            /\ r.t.entries[key].order = entry.order
    OBVIOUS
  <1>1. /\ Counted(t) /\ t.used \in Nat /\ entry \in Entry /\ Fits(entry) /\ ~entry.skipping
        /\ entry.cost \in Nat /\ entry.capacity \in Nat /\ Len(entry.held) \in Nat /\ early \in Nat
        /\ Footprint(entry) \in Nat /\ Footprint(entry) <= entry.cost
        /\ Len(entry.held) <= entry.capacity /\ entry.capacity + early <= StreamLimit
    BY NearHeld, HeldIs DEF Fits, Near
  <1>2. r = IF needed + early > StreamLimit THEN [ok |-> FALSE, t |-> t]
            ELSE IF needed <= entry.capacity THEN [ok |-> TRUE, t |-> t]
            ELSE IF m.ok THEN [ok |-> TRUE, t |-> recharge(With(m.t, key, more), key)] ELSE m
    BY DEF reserve
  <1> HIDE DEF r, m
  <1>3. CASE needed + early > StreamLimit
    <2>1. r.ok = FALSE /\ r.t = t
      BY <1>2, <1>3
    <2>2. QED
      BY <2>1
  <1>4. CASE ~(needed + early > StreamLimit) /\ needed <= entry.capacity
    <2>1. r.ok = TRUE /\ r.t = t
      BY <1>2, <1>4
    <2>2. QED
      BY <1>4, <2>1
  <1>5. CASE ~(needed + early > StreamLimit) /\ ~(needed <= entry.capacity)
    <2> HIDE DEF early, entry
    <2>1. needed \in Nat /\ half \in Int /\ half + early <= StreamLimit
      BY <1>1, Limits DEF Min2
    <2> HIDE DEF needed, half
    <2>2. /\ grown \in Nat /\ grown >= needed /\ grown + early <= StreamLimit
          /\ grown - entry.capacity \in Nat
      BY <1>1, <1>5, <2>1, Limits DEF Max2
    <2> HIDE DEF grown
    <2>3. /\ Kept(t, m.t, key) /\ m.ok \in BOOLEAN
          /\ m.ok => m.t.used + (grown - entry.capacity) <= MemoryLimit
      BY <1>1, <2>2, MakeRoomIs DEF m
    <2>4. Near(m.t, key) /\ (Exact(t, key) => Exact(m.t, key)) /\ m.t.entries[key] = entry
      BY <2>3, KeptExact DEF Kept, entry
    <2>5. CASE ~m.ok
      BY <1>2, <1>5, <2>3, <2>4, <2>5
    <2>6. CASE m.ok
      <3> DEFINE u == recharge(With(m.t, key, more), key)
      <3>1. r = [ok |-> TRUE, t |-> u]
        BY <1>2, <1>5, <2>6
      <3>2. /\ more \in Entry /\ more.capacity = grown /\ more.held = entry.held /\ more.order = entry.order
            /\ more.cost = entry.cost /\ more.skipping = entry.skipping
        BY <1>1, <2>2 DEF Entry
      <3> HIDE DEF more
      <3>3. Footprint(more) = Footprint(entry) - entry.capacity + grown
        <4> DEFINE o == EarlyOverhead * Len(entry.order.early)
        <4>1. Footprint(more) = EntryOverhead + grown + early + o
          BY <3>2 DEF Footprint, early
        <4>2. Footprint(entry) = EntryOverhead + entry.capacity + early + o
          BY DEF Footprint, early
        <4>3. o \in Nat
          <5>1. Len(entry.order.early) \in Nat
            BY NearHeld, HeldIs DEF entry
          <5>2. QED
            BY <5>1, Limits
        <4> HIDE DEF o
        <4>4. QED
          BY SMTT(30), <1>1, <2>2, <4>1, <4>2, <4>3, Limits
      <3>4. Fits(more)
        <4>1. Len(entry.held) <= grown
          BY <1>1, <1>5, <2>2
        <4>2. QED
          BY <1>1, <2>2, <3>2, <4>1 DEF Fits, early
      <3>5. m.t.used \in Nat
        BY <2>4, NearHeld, HeldIs
      <3>6. m.t.used - more.cost + Footprint(more) <= MemoryLimit
        <4> DEFINE a == m.t.used
                   f == Footprint(entry)
                   g == Footprint(more)
                   c == entry.cost
                   size == entry.capacity
        <4>1. /\ a \in Nat /\ f \in Nat /\ c \in Nat /\ size \in Nat /\ grown \in Nat /\ f <= c
              /\ a + (grown - size) <= MemoryLimit /\ g = f - size + grown /\ more.cost = c
          BY <1>1, <2>2, <2>3, <2>6, <3>2, <3>3, <3>5
        <4> HIDE DEF a, f, g, c, size
        <4>2. a - c + g <= MemoryLimit
          BY <4>1, Limits
        <4>3. QED
          BY <4>1, <4>2 DEF a, g
      <3>7. Near(u, key) /\ Exact(u, key) /\ u.entries[key] = [more EXCEPT !.cost = Footprint(more)]
        BY <1>1, <2>4, <3>2, <3>4, <3>6, NearRecharge
      <3>8. /\ u.entries[key].capacity = grown /\ u.entries[key].held = entry.held
            /\ u.entries[key].order = entry.order
        BY <3>2, <3>7 DEF Entry
      <3> HIDE DEF u
      <3>9. r.ok = TRUE /\ r.t = u
        BY <3>1
      <3>10. QED
        BY <2>2, <3>7, <3>8, <3>9
    <2>7. QED
      BY <2>3, <2>5, <2>6
  <1>6. QED
    BY <1>3, <1>4, <1>5

\* append() holds more bytes of a direction, or holds on to those it has.
LEMMA AppendIs ==
    ASSUME NEW t, NEW key \in Keys, Near(t, key), NEW bytes \in Seq(Bytes)
    PROVE  LET r == append(t, key, bytes)
           IN  r.ok \in BOOLEAN /\ Near(r.t, key) /\ (Exact(t, key) => Exact(r.t, key))
  <1> DEFINE r == append(t, key, bytes)
             a == reserve(t, key, Len(bytes))
             entry == a.t.entries[key]
             more == [entry EXCEPT !.held = @ \o bytes, !.order = advance(@, Len(bytes))]
  <1>0. SUFFICES r.ok \in BOOLEAN /\ Near(r.t, key) /\ (Exact(t, key) => Exact(r.t, key))
    OBVIOUS
  <1>1. r = IF a.ok THEN [ok |-> TRUE, t |-> With(a.t, key, more)] ELSE a
    BY DEF append
  <1>2. Len(bytes) \in Nat
    OBVIOUS
  <1> HIDE DEF r, a
  <1>3. /\ a.ok \in BOOLEAN /\ Near(a.t, key) /\ (Exact(t, key) => Exact(a.t, key))
        /\ a.ok => Len(entry.held) + Len(bytes) <= entry.capacity
    BY <1>2, ReserveIs DEF a
  <1>4. CASE ~a.ok
    BY <1>1, <1>3, <1>4
  <1>5. CASE a.ok
    <2>1. /\ Counted(a.t) /\ entry # Unset /\ entry \in Entry /\ Fits(entry) /\ ~entry.skipping
          /\ entry.held \in Seq(Bytes) /\ entry.order \in Orders
      BY <1>3, NearHeld, HeldIs
    <2> HIDE DEF entry
    <2>2. advance(entry.order, Len(bytes)) \in Orders /\ advance(entry.order, Len(bytes)).early = entry.order.early
      <3>1. entry.order.nextSeq \in Int
        BY <2>1 DEF Orders, SeqNumbers
      <3>2. (entry.order.nextSeq + Len(bytes)) % SeqSpace \in SeqNumbers
        BY <1>2, <3>1, SeqSpaceAssumption DEF SeqNumbers
      <3>3. QED
        BY <2>1, <3>2 DEF advance, Orders
    <2> DEFINE order == advance(entry.order, Len(bytes))
               held == entry.held \o bytes
    <2>3. held \in Seq(Bytes) /\ Len(held) = Len(entry.held) + Len(bytes)
      BY <2>1
    <2>4. order \in Orderer(Bytes)
      BY <2>2 DEF Orderer, Orders, Segs
    <2>5. more = [entry EXCEPT !.held = held, !.order = order]
      OBVIOUS
    <2> HIDE DEF more, held, order
    <2>6. /\ more \in Entry /\ more.held = held /\ more.order = order /\ more.cost = entry.cost
          /\ more.capacity = entry.capacity /\ more.skipping = entry.skipping
      BY <2>1, <2>3, <2>4, <2>5 DEF Entry
    <2>7. Footprint(more) = Footprint(entry) /\ earlyBytes(more.order) = earlyBytes(entry.order)
      BY <2>1, <2>2, <2>6, FootprintSame DEF order
    <2>8. Fits(more)
      BY <1>3, <1>5, <2>1, <2>2, <2>3, <2>6, <2>7 DEF Fits, order
    <2>9. Footprint(more) <= more.cost
      BY <1>3, <2>6, <2>7 DEF Near, entry
    <2> DEFINE w == With(a.t, key, more)
    <2>10. Near(w, key) /\ w.entries[key] = more
      BY <1>3, <2>1, <2>6, <2>8, <2>9, NearWith DEF entry
    <2>11. Exact(a.t, key) => Exact(w, key)
      BY <2>1, <2>6, <2>7, <2>10 DEF Exact, entry
    <2>12. r.ok = TRUE /\ r.t = w
      BY <1>1, <1>5
    <2>13. QED
      BY <1>3, <2>10, <2>11, <2>12
  <1>6. QED
    BY <1>3, <1>4, <1>5

\* holdEarly() of the reassembly holds a segment that came early, or holds on to what it has.
LEMMA HoldSegmentIs ==
    ASSUME NEW t, NEW key \in Keys, Near(t, key), Exact(t, key),
           NEW seq \in SeqNumbers, NEW payload \in Seq(Bytes)
    PROVE  LET r == HoldSegment(t, key, seq, payload)
           IN  r.ok \in BOOLEAN /\ Near(r.t, key) /\ Exact(r.t, key)
  <1> DEFINE entry == t.entries[key]
             order == holdEarly(entry.order, seq, payload)
             more == [entry EXCEPT !.order = order]
             extra == EarlyOverhead + Len(payload)
             m == makeRoom(t, extra, key)
             u == recharge(With(m.t, key, more), key)
             r == HoldSegment(t, key, seq, payload)
             full == \/ Len(entry.order.early) >= MaxEarlySegments
                     \/ entry.capacity + earlyBytes(entry.order) + Len(payload) > StreamLimit
  <1>0. SUFFICES r.ok \in BOOLEAN /\ Near(r.t, key) /\ Exact(r.t, key)
    OBVIOUS
  <1>1. r = IF holds(entry.order, seq, Len(payload)) THEN [ok |-> TRUE, t |-> t]
            ELSE IF full THEN [ok |-> FALSE, t |-> t]
            ELSE IF m.ok THEN [ok |-> TRUE, t |-> u] ELSE m
    BY DEF HoldSegment
  <1>2. /\ Counted(t) /\ entry \in Entry /\ Fits(entry) /\ ~entry.skipping
        /\ entry.cost \in Nat /\ entry.capacity \in Nat /\ earlyBytes(entry.order) \in Nat
        /\ Footprint(entry) \in Nat /\ entry.order \in Orders /\ entry.order.early \in Seq(Segs)
        /\ Len(entry.order.early) \in Nat /\ Len(payload) \in Nat
        /\ Footprint(entry) = entry.cost
    BY NearHeld, HeldIs DEF Exact
  <1> HIDE DEF r, m, u, order, full, entry
  <1>3. CASE holds(entry.order, seq, Len(payload))
    <2>1. r.ok = TRUE /\ r.t = t
      BY <1>1, <1>3
    <2>2. QED
      BY <2>1
  <1>4. CASE ~holds(entry.order, seq, Len(payload)) /\ full
    <2>1. r.ok = FALSE /\ r.t = t
      BY <1>1, <1>4
    <2>2. QED
      BY <2>1
  <1>5. CASE ~holds(entry.order, seq, Len(payload)) /\ ~full
    <2>1. extra \in Nat
      BY <1>2, Limits
    <2> HIDE DEF extra
    <2>2. Kept(t, m.t, key) /\ m.ok \in BOOLEAN /\ (m.ok => m.t.used + extra <= MemoryLimit)
      BY <1>2, <2>1, MakeRoomIs DEF m
    <2>3. Near(m.t, key) /\ Exact(m.t, key) /\ m.t.entries[key] = entry
      BY <2>2, KeptExact DEF Kept, entry
    <2>4. CASE ~m.ok
      BY <1>1, <1>5, <2>2, <2>3, <2>4
    <2>5. CASE m.ok
      <3> DEFINE x == [seq |-> seq, bytes |-> payload]
      <3>1. x \in Segs
        BY DEF Segs
      <3>2. order = [entry.order EXCEPT !.early = Append(@, x)]
        BY DEF order, holdEarly
      <3> HIDE DEF x
      <3>3. order \in Orders /\ order.early = Append(entry.order.early, x)
        <4> DEFINE early == Append(entry.order.early, x)
        <4>1. early \in Seq(Segs)
          BY <1>2, <3>1
        <4>2. order = [entry.order EXCEPT !.early = early]
          BY <3>2
        <4> HIDE DEF early
        <4>3. order \in Orders /\ order.early = early
          BY <1>2, <4>1, <4>2 DEF Orders
        <4>4. QED
          BY <4>3 DEF early
      <3>4. Len(order.early) = Len(entry.order.early) + 1
        BY <1>2, <3>1, <3>3
      <3>5. earlyBytes(order) = earlyBytes(entry.order) + Len(payload)
        <4>1. Total(order.early) = Total(entry.order.early) + Len(x.bytes)
          BY <1>2, <3>1, <3>3, TotalMore
        <4>2. QED
          BY <4>1, BytesHeld DEF x
      <3>6. order \in Orderer(Bytes)
        BY <3>3 DEF Orderer, Orders, Segs
      <3>7. /\ more \in Entry /\ more.held = entry.held /\ more.order = order /\ more.cost = entry.cost
            /\ more.capacity = entry.capacity /\ more.skipping = entry.skipping
        BY <1>2, <3>6 DEF Entry
      <3> HIDE DEF more
      <3>8. Footprint(more) = Footprint(entry) + extra
        <4> DEFINE n == Len(entry.order.early)
                   b == earlyBytes(entry.order)
        <4>1. Footprint(more) = EntryOverhead + entry.capacity + (b + Len(payload)) + EarlyOverhead * (n + 1)
          BY <3>4, <3>5, <3>7 DEF Footprint
        <4>2. Footprint(entry) = EntryOverhead + entry.capacity + b + EarlyOverhead * n
          BY DEF Footprint
        <4>3. n \in Nat /\ b \in Nat
          BY <1>2
        <4> HIDE DEF n, b
        <4>4. EarlyOverhead * (n + 1) = EarlyOverhead * n + EarlyOverhead /\ EarlyOverhead * n \in Nat
          BY <4>3, Limits
        <4> DEFINE c == entry.capacity
                   l == Len(payload)
                   o == EarlyOverhead * n
                   p == EarlyOverhead * (n + 1)
        <4>5. c \in Nat /\ l \in Nat /\ extra = EarlyOverhead + l
          BY <1>2 DEF extra
        <4> HIDE DEF c, l, o, p
        <4>6. Footprint(more) = EntryOverhead + c + (b + l) + p /\ Footprint(entry) = EntryOverhead + c + b + o
          BY <4>1, <4>2 DEF c, l, o, p
        <4>7. p = o + EarlyOverhead /\ o \in Nat
          BY <4>4 DEF o, p
        <4>8. QED
          BY <4>3, <4>5, <4>6, <4>7, Limits
      <3>9. Fits(more)
        BY SMTT(30), <1>2, <1>5, <3>4, <3>5, <3>7, Limits DEF Fits, full
      <3>10. m.t.used \in Nat
        BY <2>3, NearHeld, HeldIs
      <3>11. m.t.used - more.cost + Footprint(more) <= MemoryLimit
        BY <1>2, <2>1, <2>2, <2>5, <3>7, <3>8, <3>10, Limits
      <3>12. Near(u, key) /\ Exact(u, key)
        BY <1>2, <2>3, <3>7, <3>9, <3>11, NearRecharge DEF u
      <3>13. r.ok = TRUE /\ r.t = u
        BY <1>1, <1>5, <2>5
      <3>14. QED
        BY <3>12, <3>13
    <2>6. QED
      BY <2>2, <2>4, <2>5
  <1>6. QED
    BY <1>3, <1>4, <1>5

\* append() tells whether there was room, and the table.
LEMMA AppendShape ==
    ASSUME NEW t, NEW key, NEW bytes
    PROVE  append(t, key, bytes) = [ok |-> append(t, key, bytes).ok, t |-> append(t, key, bytes).t]
  <1> DEFINE Shaped(r) == r = [ok |-> r.ok, t |-> r.t]
  <1>1. \A n, k : Shaped(makeRoom(t, n, k))
    BY DEF makeRoom
  <1>2. Shaped(reserve(t, key, Len(bytes)))
    <2> DEFINE r == reserve(t, key, Len(bytes))
    <2>1. \/ \E u : r = [ok |-> TRUE, t |-> u]
          \/ \E u : r = [ok |-> FALSE, t |-> u]
          \/ \E n : r = makeRoom(t, n, key)
      BY DEF reserve
    <2>2. ASSUME NEW u, r = [ok |-> TRUE, t |-> u] PROVE Shaped(r)
      <3>1. r.ok = TRUE /\ r.t = u
        BY <2>2
      <3>2. QED
        BY <2>2, <3>1
    <2>3. ASSUME NEW u, r = [ok |-> FALSE, t |-> u] PROVE Shaped(r)
      <3>1. r.ok = FALSE /\ r.t = u
        BY <2>3
      <3>2. QED
        BY <2>3, <3>1
    <2>4. ASSUME NEW x, r = makeRoom(t, x, key) PROVE Shaped(r)
      <3>1. Shaped(makeRoom(t, x, key))
        BY <1>1
      <3> HIDE DEF Shaped, r
      <3>2. QED
        BY <2>4, <3>1
    <2> HIDE DEF r, Shaped
    <2>5. Shaped(r)
      BY <2>1, <2>2, <2>3, <2>4
    <2>6. QED
      BY <2>5 DEF r
  <1>3. \/ \E u : append(t, key, bytes) = [ok |-> TRUE, t |-> u]
        \/ append(t, key, bytes) = reserve(t, key, Len(bytes))
    BY DEF append
  <1>4. QED
    BY <1>2, <1>3

\* One of the segments that came early is looked at by appendEarly().
Appended(a, key) ==
    LET popped == popNext(a.t.entries[key].order)
        u == With(a.t, key, [a.t.entries[key] EXCEPT !.order = popped.order])
    IN  IF ~a.ok THEN a
        ELSE IF popped.bytes = <<>> THEN [ok |-> TRUE, t |-> u]
        ELSE append(u, key, popped.bytes)

\* The direction goes on being held.
LEMMA AppendedIs ==
    ASSUME NEW key \in Keys, NEW a, a.ok \in BOOLEAN, Near(a.t, key),
           a = [ok |-> a.ok, t |-> a.t]
    PROVE  LET r == Appended(a, key)
           IN  r.ok \in BOOLEAN /\ Near(r.t, key) /\ r = [ok |-> r.ok, t |-> r.t]
  <1> DEFINE entry == a.t.entries[key]
             popped == popNext(entry.order)
             more == [entry EXCEPT !.order = popped.order]
             u == With(a.t, key, more)
             v == append(u, key, popped.bytes)
             r == Appended(a, key)
  <1>0. SUFFICES r.ok \in BOOLEAN /\ Near(r.t, key) /\ r = [ok |-> r.ok, t |-> r.t]
    OBVIOUS
  <1>1. r = IF ~a.ok THEN a ELSE IF popped.bytes = <<>> THEN [ok |-> TRUE, t |-> u] ELSE v
    BY DEF Appended
  <1>2. /\ Counted(a.t) /\ entry # Unset /\ entry \in Entry /\ Fits(entry) /\ ~entry.skipping
        /\ entry.order \in Orders /\ entry.order.early \in Seq(Segs) /\ Len(entry.order.early) \in Nat
        /\ entry.capacity \in Nat /\ earlyBytes(entry.order) \in Nat /\ Len(entry.held) \in Nat
        /\ Footprint(entry) \in Nat /\ Footprint(entry) <= entry.cost
    BY NearHeld, HeldIs DEF Near
  <1> HIDE DEF r, u, v, entry
  <1>3. /\ popped.order \in Orders /\ popped.bytes \in Seq(Bytes)
        /\ Len(popped.order.early) <= Len(entry.order.early)
        /\ Total(popped.order.early) <= Total(entry.order.early)
    BY <1>2, PopNextIs
  <1>4. popped.order \in Orderer(Bytes) /\ popped.order.early \in Seq(Segs)
    BY <1>3 DEF Orderer, Orders, Segs
  <1> HIDE DEF popped
  <1>5. /\ more \in Entry /\ more.held = entry.held /\ more.order = popped.order /\ more.cost = entry.cost
        /\ more.capacity = entry.capacity /\ more.skipping = entry.skipping
    BY <1>2, <1>4 DEF Entry
  <1> HIDE DEF more
  <1>6. /\ Footprint(more) <= Footprint(entry) /\ Footprint(more) \in Nat
        /\ earlyBytes(more.order) <= earlyBytes(entry.order) /\ earlyBytes(more.order) \in Nat
    <2> DEFINE n == Len(entry.order.early)
               k == Len(popped.order.early)
               b == earlyBytes(entry.order)
               c == earlyBytes(more.order)
    <2>1. n \in Nat /\ k \in Nat /\ k <= n /\ b \in Nat /\ c \in Nat /\ c <= b /\ Footprint(more) \in Nat
      BY <1>2, <1>3, <1>4, <1>5, FootprintIs, BytesHeld
    <2>2. /\ Footprint(more) = EntryOverhead + entry.capacity + c + EarlyOverhead * k
          /\ Footprint(entry) = EntryOverhead + entry.capacity + b + EarlyOverhead * n
      BY <1>5 DEF Footprint
    <2> HIDE DEF n, k, b, c
    <2>3. EarlyOverhead * k <= EarlyOverhead * n /\ EarlyOverhead * k \in Nat /\ EarlyOverhead * n \in Nat
      BY <2>1, Limits
    <2> DEFINE x == EarlyOverhead * k
               y == EarlyOverhead * n
    <2> HIDE DEF x, y
    <2>4. /\ Footprint(more) = EntryOverhead + entry.capacity + c + x
          /\ Footprint(entry) = EntryOverhead + entry.capacity + b + y
          /\ x <= y /\ x \in Nat /\ y \in Nat
      BY <2>2, <2>3 DEF x, y
    <2>5. Footprint(more) <= Footprint(entry)
      <3> DEFINE f == Footprint(more)
                 g == Footprint(entry)
                 size == entry.capacity
      <3>1. f = EntryOverhead + size + c + x /\ g = EntryOverhead + size + b + y /\ size \in Nat
        BY <1>2, <2>4
      <3> HIDE DEF f, g, size
      <3>2. f <= g
        BY <2>1, <2>4, <3>1, Limits
      <3>3. QED
        BY <3>2 DEF f, g
    <2>6. QED
      BY <2>1, <2>5 DEF b, c
  <1>7. Fits(more)
    <2>1. Len(popped.order.early) \in Nat
      BY <1>4
    <2> DEFINE n == Len(entry.order.early)
               k == Len(popped.order.early)
               b == earlyBytes(entry.order)
               c == earlyBytes(more.order)
    <2>2. /\ n \in Nat /\ k \in Nat /\ k <= n /\ b \in Nat /\ c \in Nat /\ c <= b
          /\ entry.capacity \in Nat /\ entry.capacity + b <= StreamLimit /\ n <= MaxEarlySegments
          /\ Len(entry.held) <= entry.capacity
      BY <1>2, <1>3, <1>6, <2>1 DEF Fits
    <2>3. more.capacity = entry.capacity /\ more.held = entry.held /\ Len(more.order.early) = k
      BY <1>5
    <2> HIDE DEF n, k, b
    <2>4. more.capacity + c <= StreamLimit /\ k <= MaxEarlySegments
      <3> HIDE DEF c
      <3>1. QED
        BY <2>2, <2>3, Limits
    <2>5. QED
      BY <2>2, <2>3, <2>4 DEF Fits
  <1>8. Footprint(more) <= more.cost
    <2>1. entry.cost \in Nat
      BY <1>2 DEF Entry
    <2>2. QED
      BY <1>2, <1>5, <1>6, <2>1
  <1>9. Near(u, key)
    <2>1. more.cost = a.t.entries[key].cost /\ ~more.skipping
      BY <1>2, <1>5 DEF entry
    <2>2. QED
      BY <1>5, <1>7, <1>8, <2>1, NearWith DEF u
  <1>10. CASE ~a.ok
    BY <1>1, <1>10
  <1>11. CASE a.ok /\ popped.bytes = <<>>
    <2>1. r = [ok |-> TRUE, t |-> u]
      BY <1>1, <1>11
    <2>2. QED
      BY <1>9, <2>1
  <1>12. CASE a.ok /\ popped.bytes # <<>>
    <2>1. r = v
      BY <1>1, <1>12
    <2>2. v.ok \in BOOLEAN /\ Near(v.t, key)
      BY <1>3, <1>9, AppendIs DEF v, popped
    <2>3. v = [ok |-> v.ok, t |-> v.t]
      BY AppendShape DEF v
    <2>4. QED
      BY <2>1, <2>2, <2>3
  <1>13. QED
    BY <1>10, <1>11, <1>12

\* appendEarly() holds the segments that came early and are next, and counts what is held.
LEMMA AppendEarlyIs ==
    ASSUME NEW t, NEW key \in Keys, Near(t, key)
    PROVE  LET r == appendEarly(t, key)
           IN  r.ok \in BOOLEAN /\ Near(r.t, key) /\ (r.ok => Exact(r.t, key))
  <1> DEFINE s == t.entries[key].order.early
             n == Len(s)
             base == [ok |-> TRUE, t |-> t]
             S == {a \in [ok : BOOLEAN, t : Tables] : Near(a.t, key)}
             F == [p \in (1..n) \X S |-> Appended(p[2], key)]
             Is(g) == g = [d \in SUBSET (1..n) |-> IF d = {} THEN base ELSE Appended(g[d \ {Max(d)}], key)]
             G == CHOOSE g : Is(g)
  <1>1. n \in Nat /\ DOMAIN s = 1..n /\ t \in Tables
    <2>1. s \in Seq(Segs) /\ t \in Tables
      BY NearHeld, HeldIs
    <2> HIDE DEF s
    <2>2. QED
      BY <2>1
  <1>2. base \in S
    BY <1>1
  <1>3. ASSUME NEW a \in S PROVE Appended(a, key) \in S
    <2>1. a.ok \in BOOLEAN /\ Near(a.t, key) /\ a = [ok |-> a.ok, t |-> a.t]
      OBVIOUS
    <2> DEFINE r == Appended(a, key)
    <2>2. r.ok \in BOOLEAN /\ Near(r.t, key) /\ r = [ok |-> r.ok, t |-> r.t]
      BY <2>1, AppendedIs
    <2> HIDE DEF r
    <2>3. r.t \in Tables
      BY <2>2, NearHeld, HeldIs
    <2>4. r \in S
      BY <2>2, <2>3
    <2>5. QED
      BY <2>4 DEF r
  <1> HIDE DEF S
  <1>4. \E g : Is(g)
    <2>1. F \in [(1..n) \X S -> S]
      BY <1>3
    <2> HIDE DEF F, n, base
    <2>2. PICK g \in [SUBSET (1..n) -> S] : FoldsBy(g, n, base, F)
      BY <1>1, <1>2, <2>1, FoldRuns
    <2>3. ASSUME NEW d \in SUBSET (1..n), d # {}
          PROVE  F[<<Max(d), g[d \ {Max(d)}]>>] = Appended(g[d \ {Max(d)}], key)
      <3>1. Max(d) \in 1..n
        BY <1>1, <2>3, MaxIs
      <3>2. g[d \ {Max(d)}] \in S
        BY <2>2
      <3>3. QED
        BY <3>1, <3>2 DEF F
    <2>4. Is(g)
      BY <2>2, <2>3 DEF FoldsBy
    <2>5. QED
      BY <2>4
  <1>5. Is(G)
    BY <1>4
  <1> DEFINE all == G[1..n]
             r == appendEarly(t, key)
  <1>6. r = IF all.ok THEN [ok |-> TRUE, t |-> recharge(all.t, key)] ELSE all
    BY <1>1 DEF appendEarly, FoldLeft, MapThenFoldSet, Appended
  <1> HIDE DEF G
  <1>7. all \in S
    <2> DEFINE f == [d \in SUBSET (1..n) |-> Appended(G[d \ {Max(d)}], key)]
               T == {k \in 0..n : G[1..k] \in S}
    <2>1. G = [d \in SUBSET (1..n) |-> IF d = {} THEN base ELSE f[d]]
      BY <1>5
    <2> HIDE DEF base, n
    <2>2. G[1..0] = base /\ \A k \in 1..n : G[1..k] = f[1..k]
      <3> HIDE DEF f
      <3>1. QED
        BY SMTT(30), <1>1, <2>1, FoldUpTo
    <2>3. 0 \in T
      BY <1>1, <1>2, <2>2
    <2>4. ASSUME NEW k \in 1..n, k - 1 \in T PROVE k \in T
      <3>1. k \in Nat \ {0} /\ 1..k \in SUBSET (1..n) /\ k \in 0..n
        BY <1>1
      <3>2. Max(1..k) = k /\ (1..k) \ {k} = 1..(k - 1)
        BY <3>1, MaxUpTo
      <3>3. f[1..k] = Appended(G[1..(k - 1)], key)
        BY <3>1, <3>2
      <3>4. G[1..(k - 1)] \in S
        BY <2>4
      <3>5. Appended(G[1..(k - 1)], key) \in S
        BY <1>3, <3>4
      <3> HIDE DEF f
      <3>6. G[1..k] \in S
        BY <2>2, <3>3, <3>5
      <3>7. QED
        BY <3>1, <3>6
    <2> HIDE DEF T
    <2>5. \A k \in 0..n : k \in T
      BY <1>1, <2>3, <2>4, CountsUp
    <2>6. QED
      BY <1>1, <2>5 DEF T
  <1> HIDE DEF all, r
  <1>8. all.ok \in BOOLEAN /\ Near(all.t, key)
    BY <1>7 DEF S
  <1> SUFFICES r.ok \in BOOLEAN /\ Near(r.t, key) /\ (r.ok => Exact(r.t, key))
    BY DEF r
  <1>9. CASE ~all.ok
    BY <1>6, <1>8, <1>9
  <1>10. CASE all.ok
    <2> DEFINE u == all.t
               entry == u.entries[key]
               v == recharge(u, key)
    <2>1. /\ Counted(u) /\ entry # Unset /\ entry \in Entry /\ Fits(entry) /\ ~entry.skipping
          /\ u \in Tables /\ u.used \in Nat /\ u.used <= MemoryLimit
          /\ u.entries \in [Keys -> Entry \cup {Unset}]
          /\ entry.cost \in Nat /\ Footprint(entry) \in Nat /\ Footprint(entry) <= entry.cost
      BY <1>8, NearHeld, HeldIs DEF Near
    <2>2. With(u, key, entry) = u
      <3>1. [u.entries EXCEPT ![key] = entry] = u.entries
        BY <2>1
      <3> HIDE DEF u, entry
      <3>2. With(u, key, entry) = [entries |-> u.entries, lru |-> u.lru, used |-> u.used,
                                   heldBits |-> u.heldBits, letGoBits |-> u.letGoBits]
        BY <2>1, <3>1, WithTable
      <3>3. QED
        BY <2>1, <3>2 DEF Tables
    <2>3. u.used - entry.cost + Footprint(entry) <= MemoryLimit
      <3> DEFINE a == u.used
                 c == entry.cost
                 f == Footprint(entry)
      <3>1. a \in Nat /\ a <= MemoryLimit /\ c \in Nat /\ f \in Nat /\ f <= c
        BY <2>1
      <3> HIDE DEF a, c, f
      <3>2. a - c + f <= MemoryLimit
        BY <3>1, Limits
      <3>3. QED
        BY <3>2 DEF a, c, f
    <2>4. Near(v, key) /\ Exact(v, key)
      <3>1. entry.cost = u.entries[key].cost
        OBVIOUS
      <3> DEFINE w == recharge(With(u, key, entry), key)
      <3> HIDE DEF u, entry
      <3>2. Near(w, key) /\ Exact(w, key)
        BY <1>8, <2>1, <2>3, <3>1, NearRecharge DEF u
      <3>3. QED
        BY <2>2, <3>2
    <2>5. r.ok = TRUE /\ r.t = v
      BY <1>6, <1>10
    <2>6. QED
      BY <2>4, <2>5
  <1>11. QED
    BY <1>8, <1>9, <1>10

-----------------------------------------------------------------------------
(* What is let go of a direction, and what is held of it instead.          *)

\* When a direction is let go, the others are counted as they were.
LEMMA ReleaseGood ==
    ASSUME NEW t, Counted(t), NEW key \in Keys, \A k \in Keys \ {key} : Exact(t, k)
    PROVE  Good(release(t, key)) /\ release(t, key).entries[key] = Unset
  <1> DEFINE r == release(t, key)
  <1>1. Counted(r) /\ r.entries = [t.entries EXCEPT ![key] = Unset]
    BY ReleaseIs
  <1>2. t.entries \in [Keys -> Entry \cup {Unset}]
    BY DEF Counted, Tables
  <1> HIDE DEF r
  <1>3. \A k \in Keys : r.entries[k] = IF k = key THEN Unset ELSE t.entries[k]
    BY <1>1, <1>2
  <1>4. \A k \in Keys : Exact(r, k)
    BY <1>3 DEF Exact
  <1>5. QED
    BY <1>1, <1>3, <1>4 DEF r, Good

\* So it is when a direction is held.
LEMMA InsertGood ==
    ASSUME NEW t, Good(t), NEW key \in Keys, t.entries[key] = Unset,
           NEW y \in Entry, Fits(y), y.cost = 0, t.used + Footprint(y) <= MemoryLimit
    PROVE  Good(Insert(t, key, y)) /\ (~y.skipping => Holding(Insert(t, key, y), key))
  <1> DEFINE r == Insert(t, key, y)
             x == [y EXCEPT !.cost = Footprint(y)]
  <1>1. /\ Counted(r) /\ Exact(r, key) /\ r.entries = [t.entries EXCEPT ![key] = x]
        /\ r.heldBits = t.heldBits \cup {key}
    BY InsertIs DEF Good
  <1>2. t.entries \in [Keys -> Entry \cup {Unset}]
    BY DEF Good, Counted, Tables
  <1>3. x.skipping = y.skipping
    BY DEF Entry
  <1> HIDE DEF r, x
  <1>4. \A k \in Keys : r.entries[k] = IF k = key THEN x ELSE t.entries[k]
    BY <1>1, <1>2
  <1>5. \A k \in Keys : Exact(r, k)
    BY <1>1, <1>4 DEF Exact, Good
  <1>6. Good(r)
    BY <1>1, <1>5 DEF Good
  <1>7. ~y.skipping => Holding(r, key)
    BY <1>1, <1>3, <1>4 DEF Holding
  <1>8. QED
    BY <1>6, <1>7 DEF r

\* An orderer that was just reset holds no segment.
LEMMA ResetIs ==
    ASSUME NEW seq \in SeqNumbers
    PROVE  reset(seq) \in Orderer(Bytes) /\ earlyBytes(reset(seq)) = 0 /\ Len(reset(seq).early) = 0
  <1>1. reset(seq).early = <<>> /\ reset(seq) \in Orderer(Bytes)
    BY DEF reset, Orderer
  <1>2. QED
    BY <1>1, TotalNone, BytesHeld

\* Zero is a sequence number.
LEMMA ZeroSeq == 0 \in SeqNumbers
  BY SeqSpaceAssumption DEF SeqNumbers

\* A new entry.
LEMMA NewEntryIs == NewEntry \in Entry /\ NewEntry.order = reset(0) /\ NewEntry.held = <<>>
                    /\ NewEntry.capacity = 0 /\ NewEntry.cost = 0 /\ NewEntry.skipping = FALSE
  <1>1. <<>> \in Seq(Bytes) /\ reset(0) \in Orderer(Bytes)
    BY ZeroSeq, ResetIs
  <1>2. QED
    BY <1>1, ZeroSeq DEF NewEntry, Entry

\* A new entry with a buffer for the bytes it holds.
LEMMA NewIs ==
    ASSUME NEW y \in Entry, Len(y.held) <= y.capacity, y.capacity <= StreamLimit,
           NEW next \in SeqNumbers, y.order = reset(next)
    PROVE  Fits(y) /\ Footprint(y) = EntryOverhead + y.capacity
  <1>1. earlyBytes(y.order) = 0 /\ Len(y.order.early) = 0
    BY ResetIs
  <1>2. y.capacity \in Nat
    BY DEF Entry
  <1>3. Fits(y)
    BY <1>1, <1>2, Limits DEF Fits
  <1>4. EarlyOverhead * Len(y.order.early) = 0
    BY <1>1, Limits
  <1>5. Footprint(y) = EntryOverhead + y.capacity + 0 + 0
    BY <1>1, <1>4 DEF Footprint
  <1>6. QED
    BY <1>2, <1>3, <1>5, Limits

\* skip() lets go of the direction, and skips the rest of its message if there is room for that.
LEMMA SkipIs ==
    ASSUME NEW t, NEW key \in Keys, Counted(t), \A k \in Keys \ {key} : Exact(t, k),
           NEW from \in SeqNumbers, NEW bytes \in Int
    PROVE  Good(skip(t, key, from, bytes))
  <1> DEFINE u == release(t, key)
             m == makeRoom(u, EntryOverhead, key)
             upTo == (from + bytes) % SeqSpace
             y == [NewEntry EXCEPT !.skipping = TRUE, !.skipFrom = from, !.skipEnd = upTo]
             r == skip(t, key, from, bytes)
  <1>1. r = IF bytes > MaxSkip THEN u ELSE IF ~m.ok THEN m.t ELSE Insert(m.t, key, y)
    BY DEF skip
  <1>2. Good(u) /\ u.entries[key] = Unset
    BY ReleaseGood
  <1> HIDE DEF u
  <1>3. Kept(u, m.t, key) /\ m.ok \in BOOLEAN /\ (m.ok => m.t.used + EntryOverhead <= MemoryLimit)
    BY <1>2, Limits, MakeRoomIs DEF Good
  <1>4. Good(m.t) /\ m.t.entries[key] = Unset
    BY <1>2, <1>3, KeptExact DEF Kept
  <1>5. upTo \in SeqNumbers
    BY SeqSpaceAssumption DEF SeqNumbers
  <1> HIDE DEF upTo
  <1>6. y \in Entry /\ y.held = <<>> /\ y.capacity = 0 /\ y.order = reset(0) /\ y.cost = 0
    BY <1>5, NewEntryIs DEF Entry
  <1> HIDE DEF m, y
  <1>7. Fits(y) /\ Footprint(y) = EntryOverhead + y.capacity
    <2>1. Len(y.held) <= y.capacity /\ y.capacity <= StreamLimit
      BY <1>6, Limits
    <2>2. QED
      BY <1>6, <2>1, ZeroSeq, NewIs
  <1>8. Footprint(y) = EntryOverhead
    BY <1>6, <1>7, Limits
  <1>9. CASE bytes > MaxSkip
    BY <1>1, <1>2, <1>9
  <1>10. CASE ~(bytes > MaxSkip) /\ ~m.ok
    BY <1>1, <1>4, <1>10
  <1>11. CASE ~(bytes > MaxSkip) /\ m.ok
    <2>1. m.t.used + Footprint(y) <= MemoryLimit
      BY <1>3, <1>8, <1>11
    <2>2. Good(Insert(m.t, key, y))
      BY <1>4, <1>6, <1>7, <2>1, InsertGood
    <2>3. QED
      BY <1>1, <1>11, <2>2
  <1>12. QED
    BY <1>9, <1>10, <1>11

\* The bytes held by a direction, and their buffer, are others.
Buffered(w, key, bytes, size) ==
    recharge(With(w, key, [w.entries[key] EXCEPT !.held = bytes, !.capacity = size]), key)

\* It is counted with that buffer.
LEMMA BufferedIs ==
    ASSUME NEW w, NEW key \in Keys, Near(w, key), Exact(w, key),
           NEW bytes \in Seq(Bytes), NEW size \in Nat, Len(bytes) <= size,
           size + earlyBytes(w.entries[key].order) <= StreamLimit,
           w.used - w.entries[key].capacity + size <= MemoryLimit
    PROVE  LET r == Buffered(w, key, bytes, size)
           IN  /\ Near(r, key) /\ Exact(r, key)
               /\ r.entries[key].capacity = size /\ r.entries[key].order = w.entries[key].order
  <1> DEFINE entry == w.entries[key]
             y == [entry EXCEPT !.held = bytes, !.capacity = size]
             z == [y EXCEPT !.cost = Footprint(y)]
             r == recharge(With(w, key, y), key)
  <1>1. /\ Counted(w) /\ entry \in Entry /\ entry # Unset /\ ~entry.skipping /\ w.used \in Nat
        /\ entry.capacity \in Nat /\ Footprint(entry) \in Nat /\ earlyBytes(entry.order) \in Nat
        /\ Footprint(entry) = entry.cost /\ Len(entry.order.early) <= MaxEarlySegments
        /\ Len(entry.order.early) \in Nat
    <2>1. Counted(w) /\ entry # Unset /\ ~entry.skipping
      BY NearHeld
    <2>2. /\ entry \in Entry /\ w.used \in Nat /\ entry.capacity \in Nat /\ Footprint(entry) \in Nat
          /\ earlyBytes(entry.order) \in Nat /\ Fits(entry) /\ entry.order.early \in Seq(Segs)
      BY <2>1, HeldIs
    <2>3. Footprint(entry) = entry.cost
      BY <2>1 DEF Exact
    <2>4. Len(entry.order.early) <= MaxEarlySegments /\ Len(entry.order.early) \in Nat
      <3> HIDE DEF entry
      <3>1. Len(entry.order.early) <= MaxEarlySegments
        BY <2>2 DEF Fits
      <3>2. Len(entry.order.early) \in Nat
        BY <2>2
      <3>3. QED
        BY <3>1, <3>2
    <2>5. QED
      BY <2>1, <2>2, <2>3, <2>4
  <1> HIDE DEF entry
  <1>2. /\ y \in Entry /\ y.held = bytes /\ y.capacity = size /\ y.order = entry.order
        /\ y.cost = entry.cost /\ y.skipping = entry.skipping
    BY <1>1 DEF Entry
  <1> HIDE DEF y
  <1>3. Footprint(y) = Footprint(entry) - entry.capacity + size
    <2> DEFINE o == EarlyOverhead * Len(entry.order.early)
               b == earlyBytes(entry.order)
               c == entry.capacity
    <2>1. Footprint(y) = EntryOverhead + size + b + o /\ Footprint(entry) = EntryOverhead + c + b + o
      BY <1>2 DEF Footprint
    <2>2. o \in Nat /\ b \in Nat /\ c \in Nat
      <3> DEFINE n == Len(entry.order.early)
      <3>1. n \in Nat
        BY <1>1
      <3> HIDE DEF n
      <3>2. EarlyOverhead * n \in Nat
        BY <3>1, Limits
      <3>3. QED
        BY <1>1, <3>2 DEF n
    <2> HIDE DEF o, b, c
    <2>3. Footprint(y) = Footprint(entry) - c + size
      BY <2>1, <2>2, Limits
    <2>4. QED
      BY <2>3 DEF c
  <1>4. Fits(y)
    BY <1>1, <1>2 DEF Fits, entry
  <1>5. w.used - y.cost + Footprint(y) <= MemoryLimit
    <2> DEFINE a == w.used
               f == Footprint(entry)
               c == entry.capacity
    <2>1. a \in Nat /\ f \in Nat /\ c \in Nat /\ a - c + size <= MemoryLimit /\ y.cost = f
      BY <1>1, <1>2 DEF entry
    <2> HIDE DEF a, f, c
    <2>2. a - f + (f - c + size) <= MemoryLimit
      BY <2>1, Limits
    <2>3. QED
      BY <1>3, <2>1, <2>2 DEF a, f, c
  <1>6. Near(r, key) /\ Exact(r, key) /\ r.entries[key] = z
    <2>1. y.cost = w.entries[key].cost /\ ~y.skipping
      BY <1>1, <1>2 DEF entry
    <2>2. QED
      BY <1>2, <1>4, <1>5, <2>1, NearRecharge
  <1>7. z.capacity = size /\ z.order = entry.order
    BY <1>2 DEF Entry
  <1>8. Buffered(w, key, bytes, size) = r
    BY DEF Buffered, y, entry
  <1> HIDE DEF r, z
  <1>9. QED
    BY <1>6, <1>7, <1>8 DEF entry

-----------------------------------------------------------------------------
(* The messages a direction sends, one after the other.                    *)

Sum(s) == FoldLeft(LAMBDA sum, length : sum + length, 0, s)

\* Numbers are added up one after the other.
LEMMA SumSteps ==
    ASSUME NEW s \in Seq(Nat)
    PROVE  \E h : /\ h[0] = 0
                  /\ \A k \in 1..Len(s) : h[k] = h[k - 1] + s[k]
                  /\ \A k \in 0..Len(s) : h[k] \in Nat
                  /\ Sum(s) = h[Len(s)]
  <1> DEFINE n == Len(s)
             F == [p \in (1..n) \X Nat |-> p[2] + s[p[1]]]
             Is(g) == g = [t \in SUBSET (1..n) |-> IF t = {} THEN 0
                                                   ELSE g[t \ {Max(t)}] + s[Max(t)]]
             G == CHOOSE g : Is(g)
             h == [k \in 0..n |-> G[1..k]]
  <1>1. n \in Nat /\ DOMAIN s = 1..n /\ \A i \in 1..n : s[i] \in Nat
    OBVIOUS
  <1>3. \E g : Is(g)
    <2>1. F \in [(1..n) \X Nat -> Nat]
      BY <1>1
    <2> HIDE DEF F, n
    <2>2. PICK g \in [SUBSET (1..n) -> Nat] : FoldsBy(g, n, 0, F)
      BY <1>1, <2>1, FoldRuns
    <2>3. ASSUME NEW t \in SUBSET (1..n), t # {}
          PROVE  F[<<Max(t), g[t \ {Max(t)}]>>] = g[t \ {Max(t)}] + s[Max(t)]
      <3>1. Max(t) \in 1..n
        BY <1>1, <2>3, MaxIs
      <3>2. g[t \ {Max(t)}] \in Nat
        BY <2>2
      <3>3. QED
        BY <3>1, <3>2 DEF F
    <2>4. Is(g)
      BY <2>2, <2>3 DEF FoldsBy
    <2>5. QED
      BY <2>4
  <1>4. Is(G)
    BY <1>3
  <1>5. Sum(s) = G[1..n]
    BY <1>1 DEF Sum, FoldLeft, MapThenFoldSet
  <1> HIDE DEF G
  <1>6. G[1..0] = 0 /\ \A k \in 1..n : G[1..k] = G[1..(k - 1)] + s[k]
    <2> DEFINE f == [t \in SUBSET (1..n) |-> G[t \ {Max(t)}] + s[Max(t)]]
    <2>1. G = [t \in SUBSET (1..n) |-> IF t = {} THEN 0 ELSE f[t]]
      BY <1>4
    <2>2. G[1..0] = 0 /\ \A k \in 1..n : G[1..k] = f[1..k]
      <3> HIDE DEF f
      <3>1. QED
        BY SMTT(30), <1>1, <2>1, FoldUpTo
    <2>3. \A k \in 1..n : f[1..k] = G[1..(k - 1)] + s[k]
      <3>1. SUFFICES ASSUME NEW k \in 1..n PROVE f[1..k] = G[1..(k - 1)] + s[k]
        OBVIOUS
      <3>2. k \in Nat \ {0} /\ 1..k \in SUBSET (1..n)
        BY <1>1
      <3>3. Max(1..k) = k /\ (1..k) \ {k} = 1..(k - 1)
        BY <3>2, MaxUpTo
      <3>4. QED
        BY <3>2, <3>3
    <2>4. QED
      BY <2>2, <2>3
  <1>7. h[0] = 0 /\ \A k \in 1..n : h[k] = h[k - 1] + s[k]
    BY <1>1, <1>6
  <1>8. \A k \in 0..n : h[k] \in Nat
    <2> DEFINE T == {k \in 0..n : h[k] \in Nat}
    <2>1. 0 \in T
      BY <1>1, <1>7
    <2>2. ASSUME NEW k \in 1..n, k - 1 \in T PROVE k \in T
      <3>1. h[k - 1] \in Nat
        BY <2>2
      <3>2. k \in 0..n /\ s[k] \in Nat
        BY <1>1
      <3>3. h[k] = h[k - 1] + s[k]
        BY <1>7
      <3> HIDE DEF h, n
      <3>4. QED
        BY <3>1, <3>2, <3>3
    <2> HIDE DEF T
    <2>3. \A k \in 0..n : k \in T
      BY <1>1, <2>1, <2>2, CountsUp
    <2>4. QED
      BY <2>3 DEF T
  <1>9. h[n] = G[1..n]
    BY <1>1
  <1> HIDE DEF h
  <1>10. QED
    BY <1>5, <1>7, <1>8, <1>9

\* One more adds it.
LEMMA SumMore ==
    ASSUME NEW s \in Seq(Nat), NEW x \in Nat
    PROVE  /\ Sum(s) \in Nat /\ Sum(Append(s, x)) \in Nat
           /\ Sum(Append(s, x)) = Sum(s) + x
  <1> DEFINE n == Len(s)
             u == Append(s, x)
  <1>1. n \in Nat /\ u \in Seq(Nat) /\ Len(u) = n + 1 /\ u[n + 1] = x /\ \A i \in 1..n : u[i] = s[i]
    OBVIOUS
  <1> HIDE DEF n, u
  <1>2. PICK g : /\ g[0] = 0 /\ \A k \in 1..n : g[k] = g[k - 1] + s[k]
                 /\ \A k \in 0..n : g[k] \in Nat
                 /\ Sum(s) = g[n]
    BY SumSteps DEF n
  <1>3. PICK h : /\ h[0] = 0 /\ \A k \in 1..(n + 1) : h[k] = h[k - 1] + u[k]
                 /\ \A k \in 0..(n + 1) : h[k] \in Nat
                 /\ Sum(u) = h[n + 1]
    BY <1>1, SumSteps
  <1>4. h[n] = g[n]
    <2> DEFINE T == {k \in 0..n : h[k] = g[k]}
    <2>1. 0 \in T
      BY <1>1, <1>2, <1>3
    <2>2. ASSUME NEW k \in 1..n, k - 1 \in T PROVE k \in T
      <3>1. h[k - 1] = g[k - 1] /\ k \in 1..(n + 1) /\ k \in 0..n /\ u[k] = s[k]
        BY <1>1, <2>2
      <3>2. QED
        BY <1>2, <1>3, <3>1
    <2> HIDE DEF T
    <2>3. \A k \in 0..n : k \in T
      BY <1>1, <2>1, <2>2, CountsUp
    <2>4. QED
      BY <1>1, <2>3 DEF T
  <1>5. h[n + 1] = h[n] + x
    <2>1. n + 1 \in 1..(n + 1) /\ (n + 1) - 1 = n
      BY <1>1
    <2>2. QED
      BY <1>1, <1>3, <2>1
  <1>6. h[n + 1] \in Nat /\ g[n] \in Nat
    BY <1>1, <1>2, <1>3
  <1>7. Sum(u) = Sum(s) + x /\ Sum(u) \in Nat /\ Sum(s) \in Nat
    BY <1>2, <1>3, <1>4, <1>5, <1>6
  <1>8. QED
    BY <1>7 DEF u


\* The first message begins at place 0, each at the end of the one before it.
LEMMA StartsAre ==
    /\ \A n \in 1..(Len(MessageLengths) + 1) : StartOf(n) \in Nat
    /\ \A n \in 1..Len(MessageLengths) : /\ StartOf(n + 1) = StartOf(n) + MessageLengths[n]
                                         /\ MessageLengths[n] \in Nat \ {0}
                                         /\ HeaderLengths[n] \in Nat \ {0}
  <1> DEFINE M == Len(MessageLengths)
             Part(n) == SubSeq(MessageLengths, 1, n - 1)
  <1>1. M \in Nat /\ MessageLengths \in Seq(Nat) /\ \A n \in 1..M : MessageLengths[n] \in Nat \ {0}
    BY MessagesAssumption DEF MessagesAssumption
  <1>2. \A n \in 1..M : HeaderLengths[n] \in Nat \ {0}
    BY MessagesAssumption DEF MessagesAssumption
  <1>3. \A n \in 1..(M + 1) : Part(n) \in Seq(Nat)
    <2>1. SUFFICES ASSUME NEW n \in 1..(M + 1) PROVE Part(n) \in Seq(Nat)
      OBVIOUS
    <2>2. n - 1 \in Int /\ \A i \in 1..(n - 1) : MessageLengths[i] \in Nat
      BY <1>1
    <2>3. QED
      BY <2>2, SubSeqProperties
  <1>4. \A n \in 1..(M + 1) : StartOf(n) = Sum(Part(n)) /\ Sum(Part(n)) \in Nat
    <2>1. \A n \in 1..(M + 1) : Sum(Part(n)) \in Nat
      BY <1>3, SumMore
    <2>2. QED
      BY <2>1 DEF StartOf, Sum
  <1>5. \A n \in 1..M : Part(n + 1) = Append(Part(n), MessageLengths[n])
    <2>1. SUFFICES ASSUME NEW n \in 1..M PROVE Part(n + 1) = Append(Part(n), MessageLengths[n])
      OBVIOUS
    <2>2. n + 1 - 1 = n /\ 1 \in 1..M /\ n \in 1..M /\ n \in 1..(M + 1)
      BY <1>1
    <2>3. SubSeq(MessageLengths, 1, n) = SubSeq(MessageLengths, 1, n - 1) \o << MessageLengths[n] >>
      BY <1>1, <2>2, SubSeqRecursiveSecond
    <2>4. Part(n) \in Seq(Nat) /\ MessageLengths[n] \in Nat
      BY <1>1, <1>3, <2>2
    <2> DEFINE p == Part(n)
               x == MessageLengths[n]
    <2>5. Part(n + 1) = p \o <<x>>
      BY <2>2, <2>3
    <2> HIDE DEF p, x
    <2>6. p \o <<x>> = Append(p, x)
      <3>1. p \in Seq(Nat) /\ x \in Nat
        BY <2>4 DEF p, x
      <3>2. QED
        BY <3>1
    <2>7. QED
      BY <2>5, <2>6 DEF p, x
  <1>6. \A n \in 1..M : StartOf(n + 1) = StartOf(n) + MessageLengths[n]
    <2>1. SUFFICES ASSUME NEW n \in 1..M PROVE StartOf(n + 1) = StartOf(n) + MessageLengths[n]
      OBVIOUS
    <2>2. n \in 1..(M + 1) /\ n + 1 \in 1..(M + 1) /\ MessageLengths[n] \in Nat /\ Part(n) \in Seq(Nat)
      BY <1>1, <1>3
    <2>3. Sum(Part(n + 1)) = Sum(Part(n)) + MessageLengths[n]
      <3>1. Sum(Append(Part(n), MessageLengths[n])) = Sum(Part(n)) + MessageLengths[n]
        BY <2>2, SumMore
      <3>2. QED
        BY <1>5, <3>1
    <2>4. QED
      BY <1>4, <2>2, <2>3
  <1>7. QED
    BY <1>1, <1>2, <1>4, <1>6

\* What is told of a message that is not complete (MessageExtent).
Extents == [framed : BOOLEAN, length : Nat, needsMore : BOOLEAN]

\* Bytes that are framed begin with a message: the one that begins there, as long as is told when its
\* header is there, longer than the bytes else.
LEMMA ExtentIs ==
    ASSUME NEW bytes \in Seq(Bytes), bytes # <<>>
    PROVE  /\ tcpMessageExtent(bytes) \in Extents
           /\ tcpMessageExtent(bytes).framed =>
                  \E n \in 1..Len(MessageLengths) :
                      /\ StartOf(n) = bytes[1][2]
                      /\ Len(bytes) < MessageLengths[n] => Len(bytes) <= tcpMessageExtent(bytes).length
  <1> DEFINE M == Len(MessageLengths)
             start == bytes[1][2]
             L == Len(bytes)
  <1>1. M \in Nat /\ DOMAIN MessageLengths = 1..M /\ L \in Nat /\ \A n \in 1..(M + 1) : StartOf(n) \in Nat
    BY StartsAre, MessagesAssumption DEF MessagesAssumption
  <1>2. start \in 0..(StartOf(M + 1) - 1)
    <2>1. bytes[1] \in Bytes
      OBVIOUS
    <2>2. QED
      BY <2>1 DEF Bytes
  <1> HIDE DEF M, start, L
  <1>3. CASE start \notin Starts
    <2>1. tcpMessageExtent(bytes) = NoMessage
      BY <1>3 DEF tcpMessageExtent, start
    <2>2. QED
      BY <2>1 DEF NoMessage, Extents
  <1>4. CASE start \in Starts
    <2>1. PICK m \in 1..(M + 1) : start = StartOf(m)
      BY <1>4 DEF Starts, M
    <2>2. m # M + 1
      <3>1. M + 1 \in 1..(M + 1)
        BY <1>1
      <3>2. QED
        BY <1>1, <1>2, <2>1, <3>1
    <2>3. m \in DOMAIN MessageLengths
      BY <1>1, <2>2
    <2> DEFINE n == MessageAt(start)
    <2>4. n \in 1..M /\ StartOf(n) = start
      BY <1>1, <2>1, <2>3 DEF MessageAt
    <2> HIDE DEF n
    <2> DEFINE length == MessageLengths[n]
               known == L >= Min2(HeaderLengths[n], length)
               told == IF known THEN length ELSE L + 1
    <2>5. tcpMessageExtent(bytes) = [framed |-> TRUE, length |-> told, needsMore |-> L < length]
      BY <1>4 DEF tcpMessageExtent, start, L, n
    <2>6. length \in Nat
      BY <2>4, StartsAre DEF M
    <2> HIDE DEF length, known
    <2>7. told \in Nat /\ (L < length => L <= told)
      BY <1>1, <2>6
    <2> HIDE DEF told
    <2>8. tcpMessageExtent(bytes) \in Extents /\ tcpMessageExtent(bytes).length = told
      BY <2>5, <2>7 DEF Extents
    <2>9. QED
      BY <2>4, <2>7, <2>8 DEF length, M, start, L
  <1>5. QED
    BY <1>3, <1>4

\* Bytes in their places.
InPlace(bytes) == \A i \in 1..Len(bytes) : bytes[i][2] = bytes[1][2] + i - 1

\* The bytes are whole messages up to an end among them; what is left of bytes in their places is no
\* longer than its message is told to be.
LEMMA WalkIs ==
    ASSUME NEW bytes \in Seq(Bytes)
    PROVE  LET w == walkMessages(bytes)
           IN  /\ w.end \in 0..Len(bytes) /\ w.incomplete \in Extents
               /\ InPlace(bytes) /\ w.incomplete.framed => Len(bytes) - w.end <= w.incomplete.length
  <1> DEFINE L == Len(bytes)
             first == bytes[1][2]
             ends == {s - first : s \in {t \in Starts : first <= t /\ t <= first + L}}
             last == CHOOSE e \in ends : \A f \in ends : f <= e
             end == IF first \in Starts THEN last ELSE L
             rest == SubSeq(bytes, end + 1, L)
             incomplete == IF end = L THEN NoMessage ELSE tcpMessageExtent(rest)
  <1>1. walkMessages(bytes) = [end |-> end, incomplete |-> incomplete]
    BY DEF walkMessages
  <1>2. L \in Nat /\ Starts \subseteq Nat
    BY StartsAre DEF Starts
  <1>3. ASSUME first \in Starts
        PROVE  last \in ends /\ (\A f \in ends : f <= last) /\ last \in 0..L
    <2> DEFINE T == {L - e : e \in ends}
    <2>1. first \in Nat
      BY <1>2, <1>3
    <2>2. \A e \in ends : e \in 0..L
      <3> HIDE DEF first, L
      <3>1. QED
        BY <1>2, <2>1
    <2>3. 0 \in ends
      <3> HIDE DEF first, L
      <3>1. first <= first /\ first <= first + L /\ first - first = 0
        BY <1>2, <2>1
      <3>2. QED
        BY <1>3, <3>1
    <2> HIDE DEF ends, L
    <2>4. T \subseteq Nat /\ T # {}
      BY <1>2, <2>2, <2>3
    <2>5. PICK x \in T : \A y \in T : x <= y
      <3> HIDE DEF T
      <3>1. QED
        BY <2>4, LeastNat
    <2>6. PICK e \in ends : x = L - e
      BY <2>5
    <2>7. \A f \in ends : f <= e
      <3>1. SUFFICES ASSUME NEW f \in ends PROVE f <= e
        OBVIOUS
      <3>2. L - f \in T
        OBVIOUS
      <3>3. L - e <= L - f
        BY <2>5, <2>6, <3>2
      <3>4. QED
        BY <1>2, <2>2, <3>3
    <2>8. last \in ends /\ \A f \in ends : f <= last
      BY <2>7
    <2> HIDE DEF last
    <2>9. QED
      BY <2>2, <2>8
  <1>4. end \in 0..L
    <2> HIDE DEF last
    <2>1. QED
      BY <1>2, <1>3
  <1>5. ASSUME end # L
        PROVE  /\ first \in Starts /\ end = last
               /\ rest \in Seq(Bytes) /\ rest # <<>> /\ Len(rest) = L - end /\ rest[1] = bytes[end + 1]
    <2>1. first \in Starts /\ end = last
      BY <1>5
    <2> HIDE DEF end, last, first
    <2>2. end + 1 \in Int /\ end + 1 <= L /\ L - (end + 1) + 1 = L - end /\ L - end \in Nat \ {0}
      BY <1>2, <1>4, <1>5
    <2>3. \A i \in (end + 1)..L : bytes[i] \in Bytes
      BY <1>2, <1>4
    <2>4. rest \in Seq(Bytes) /\ Len(rest) = L - end
      <3> HIDE DEF L
      <3>1. QED
        BY <1>2, <2>2, <2>3, SubSeqProperties
    <2>5. rest[1] = bytes[end + 1]
      <3> HIDE DEF L
      <3>1. \A i \in 1..(L - (end + 1) + 1) : rest[i] = bytes[(end + 1) + i - 1]
        BY <1>2, <2>2, <2>3, SubSeqProperties
      <3>2. 1 \in 1..(L - (end + 1) + 1) /\ (end + 1) + 1 - 1 = end + 1
        BY <2>2
      <3>3. QED
        BY <3>1, <3>2
    <2> HIDE DEF rest, L
    <2>6. rest # <<>>
      <3>1. Len(rest) # 0
        BY <2>2, <2>4
      <3>2. QED
        BY <3>1
    <2>7. QED
      BY <2>1, <2>4, <2>5, <2>6
  <1>6. incomplete \in Extents
    <2>1. NoMessage \in Extents
      BY DEF NoMessage, Extents
    <2> HIDE DEF end, rest, L
    <2>2. QED
      BY <1>5, <2>1, ExtentIs
  <1>7. ASSUME InPlace(bytes), incomplete.framed PROVE L - end <= incomplete.length
    <2>1. end # L
      BY <1>7 DEF NoMessage
    <2>2. incomplete = tcpMessageExtent(rest)
      BY <2>1
    <2>3. /\ first \in Starts /\ end = last /\ rest \in Seq(Bytes) /\ rest # <<>>
          /\ Len(rest) = L - end /\ rest[1] = bytes[end + 1]
      BY <1>5, <2>1
    <2> HIDE DEF end, rest, last, incomplete
    <2>4. PICK n \in 1..Len(MessageLengths) :
              /\ StartOf(n) = rest[1][2]
              /\ Len(rest) < MessageLengths[n] => Len(rest) <= incomplete.length
      BY <1>7, <2>2, <2>3, ExtentIs
    <2>5. rest[1][2] = first + end /\ end \in 0..L /\ first \in Nat
      <3>1. end + 1 \in 1..Len(bytes)
        BY <1>2, <1>4, <2>1
      <3>2. bytes[end + 1][2] = first + (end + 1) - 1
        BY <1>7, <3>1 DEF InPlace
      <3>3. first \in Nat
        BY <1>2, <2>3
      <3> HIDE DEF first
      <3>4. first + (end + 1) - 1 = first + end
        BY <1>4, <3>3
      <3>5. QED
        BY <1>4, <2>3, <3>2, <3>3, <3>4
    <2> DEFINE m == MessageLengths[n]
    <2>6. StartOf(n + 1) = first + end + m /\ m \in Nat \ {0} /\ StartOf(n + 1) \in Starts
      <3>1. n + 1 \in 1..(Len(MessageLengths) + 1)
        BY MessagesAssumption DEF MessagesAssumption
      <3>2. QED
        BY <2>4, <2>5, <3>1, StartsAre DEF Starts
    <2> HIDE DEF m
    <2>7. SUFFICES ASSUME ~(L - end < m) PROVE FALSE
      BY <2>3, <2>4 DEF m
    <2>8. end + m \in ends
      <3> DEFINE s == StartOf(n + 1)
      <3>1. s \in Starts /\ s = first + end + m
        BY <2>6
      <3> HIDE DEF s, first, L
      <3>2. first <= s /\ s <= first + L /\ s - first = end + m
        BY <1>2, <2>5, <2>6, <2>7, <3>1
      <3>3. QED
        BY <3>1, <3>2
    <2>9. end + m <= end
      BY <1>3, <2>3, <2>8
    <2>10. QED
      BY <1>2, <2>5, <2>6, <2>9
  <1> HIDE DEF end, incomplete
  <1>8. QED
    BY <1>1, <1>4, <1>6, <1>7

\* A direction whose entry is counted with what it holds is as the others.
LEMMA NearGood ==
    ASSUME NEW t, NEW key \in Keys
    PROVE  /\ Near(t, key) /\ Exact(t, key) => Good(t) /\ Holding(t, key)
           /\ Good(t) /\ Holding(t, key) => Near(t, key) /\ Exact(t, key)
  <1>1. Near(t, key) /\ Exact(t, key) => Good(t) /\ Holding(t, key)
    BY DEF Near, Good
  <1>2. ASSUME Good(t), Holding(t, key) PROVE Near(t, key) /\ Exact(t, key)
    <2>1. Counted(t) /\ \A k \in Keys : Exact(t, k)
      BY <1>2 DEF Good
    <2>2. t.entries[key] # Unset
      BY <1>2, <2>1 DEF Counted, Holding
    <2>3. Footprint(t.entries[key]) \in Nat /\ t.entries[key].cost = Footprint(t.entries[key])
      BY <2>1, <2>2, HeldIs DEF Exact
    <2>4. QED
      BY <1>2, <2>1, <2>3 DEF Near
  <1>3. QED
    BY <1>1, <1>2

\* The bytes left go into a buffer there is room for, or the direction is let go.
Rest(room, key, rest, size) ==
    IF room.ok THEN [ok |-> TRUE, t |-> Buffered(room.t, key, rest, size)]
               ELSE [ok |-> FALSE, t |-> release(room.t, key)]

LEMMA RestIs ==
    ASSUME NEW room, room.ok \in BOOLEAN, NEW key \in Keys, Near(room.t, key), Exact(room.t, key),
           room.t.entries[key].capacity = 0, NEW rest \in Seq(Bytes), NEW size \in Nat, Len(rest) <= size,
           size + earlyBytes(room.t.entries[key].order) <= StreamLimit,
           room.ok => room.t.used + size <= MemoryLimit
    PROVE  LET r == Rest(room, key, rest, size)
           IN  r.ok \in BOOLEAN /\ Good(r.t) /\ (r.ok => Holding(r.t, key))
  <1>1. CASE room.ok
    <2> DEFINE u == Buffered(room.t, key, rest, size)
    <2>1. room.t.used \in Nat
      BY NearHeld, HeldIs
    <2>2. room.t.used - room.t.entries[key].capacity + size <= MemoryLimit
      BY <1>1, <2>1
    <2>3. Near(u, key) /\ Exact(u, key)
      BY <2>2, BufferedIs
    <2> HIDE DEF u
    <2>4. Good(u) /\ Holding(u, key)
      BY <2>3, NearGood
    <2>5. Rest(room, key, rest, size) = [ok |-> TRUE, t |-> u]
      BY <1>1 DEF Rest, u
    <2>6. QED
      BY <2>4, <2>5
  <1>2. CASE ~room.ok
    <2>1. Good(release(room.t, key))
      BY ReleaseGood DEF Near
    <2>2. QED
      BY <1>2, <2>1 DEF Rest
  <1>3. QED
    BY <1>1, <1>2

\* HoldRest() holds the bytes left of a message, or lets the direction go.
LEMMA HoldRestIs ==
    ASSUME NEW t, NEW key \in Keys, Near(t, key), Exact(t, key),
           NEW rest \in Seq(Bytes), Len(rest) <= Len(t.entries[key].held),
           NEW extent, extent.length \in Nat
    PROVE  LET r == HoldRest(t, key, rest, extent)
           IN  r.ok \in BOOLEAN /\ Good(r.t) /\ (r.ok => Holding(r.t, key))
  <1> DEFINE u == Buffered(t, key, <<>>, 0)
             early == earlyBytes(u.entries[key].order)
             n == Len(rest)
             wanted == Max2(n, Min2(extent.length, StreamLimit - early))
             first == makeRoom(u, wanted, key)
             second == makeRoom(first.t, n, key)
             r == IF first.ok THEN Rest(first, key, rest, wanted) ELSE Rest(second, key, rest, n)
  <1>1. HoldRest(t, key, rest, extent) = r
    BY DEF HoldRest, Buffered, Rest
  <1>2. /\ t.used \in Nat /\ t.used <= MemoryLimit /\ Fits(t.entries[key])
        /\ t.entries[key].capacity \in Nat /\ earlyBytes(t.entries[key].order) \in Nat
        /\ Len(t.entries[key].held) \in Nat
    BY NearHeld, HeldIs
  <1>3. /\ t.entries[key].capacity + earlyBytes(t.entries[key].order) <= StreamLimit
        /\ Len(t.entries[key].held) <= t.entries[key].capacity
    BY <1>2 DEF Fits
  <1>4. /\ Near(u, key) /\ Exact(u, key) /\ u.entries[key].capacity = 0
        /\ u.entries[key].order = t.entries[key].order
    <2> DEFINE a == t.used
               c == t.entries[key].capacity
               b == earlyBytes(t.entries[key].order)
    <2>1. a \in Nat /\ c \in Nat /\ b \in Nat /\ a <= MemoryLimit /\ c + b <= StreamLimit
      BY <1>2, <1>3
    <2> HIDE DEF a, b, c
    <2>2. 0 + b <= StreamLimit /\ a - c + 0 <= MemoryLimit
      BY <2>1, Limits
    <2> DEFINE none == <<>>
               zero == 0
               v == Buffered(t, key, none, zero)
    <2>3. /\ none \in Seq(Bytes) /\ Len(none) <= zero /\ zero \in Nat
          /\ zero + b <= StreamLimit /\ a - c + zero <= MemoryLimit
      BY <2>2
    <2> HIDE DEF none, zero
    <2>4. /\ Near(v, key) /\ Exact(v, key) /\ v.entries[key].capacity = zero
          /\ v.entries[key].order = t.entries[key].order
      BY <2>3, BufferedIs DEF a, b, c
    <2>5. v = u /\ zero = 0
      BY DEF none, zero
    <2> HIDE DEF v, u
    <2>6. QED
      BY <2>4, <2>5
  <1>5. n \in Nat /\ early \in Nat /\ n + early <= StreamLimit
    <2> DEFINE h == Len(t.entries[key].held)
               c == t.entries[key].capacity
               b == earlyBytes(t.entries[key].order)
    <2>1. early = b /\ n \in Nat /\ n <= h /\ h \in Nat /\ h <= c /\ c \in Nat /\ b \in Nat /\ c + b <= StreamLimit
      BY <1>2, <1>3, <1>4
    <2> HIDE DEF h, c, b, n, early
    <2>2. QED
      BY <2>1, Limits
  <1> HIDE DEF u, n, early
  <1>6. wanted \in Nat /\ n <= wanted /\ wanted + early <= StreamLimit
    BY <1>5, Limits DEF Max2, Min2
  <1> HIDE DEF wanted
  <1>7. /\ Near(first.t, key) /\ Exact(first.t, key) /\ first.ok \in BOOLEAN
        /\ first.ok => first.t.used + wanted <= MemoryLimit
        /\ first.t.entries[key] = u.entries[key]
    <2>1. Counted(u)
      BY <1>4, NearHeld
    <2>2. /\ Kept(u, first.t, key) /\ first.ok \in BOOLEAN
          /\ first.ok => first.t.used + wanted <= MemoryLimit
      BY <1>6, <2>1, MakeRoomIs
    <2>3. QED
      BY <1>4, <2>2, KeptExact DEF Kept
  <1> HIDE DEF first
  <1>8. /\ Near(second.t, key) /\ Exact(second.t, key) /\ second.ok \in BOOLEAN
        /\ second.ok => second.t.used + n <= MemoryLimit
        /\ second.t.entries[key] = u.entries[key]
    <2>1. Counted(first.t)
      BY <1>7, NearHeld
    <2>2. /\ Kept(first.t, second.t, key) /\ second.ok \in BOOLEAN
          /\ second.ok => second.t.used + n <= MemoryLimit
      BY <1>5, <2>1, MakeRoomIs
    <2>3. QED
      BY <1>7, <2>2, KeptExact DEF Kept
  <1> HIDE DEF second
  <1>9. CASE first.ok
    <2> DEFINE q == Rest(first, key, rest, wanted)
    <2>1. first.t.entries[key].capacity = 0 /\ earlyBytes(first.t.entries[key].order) = early
      BY <1>4, <1>7 DEF early
    <2>2. q.ok \in BOOLEAN /\ Good(q.t) /\ (q.ok => Holding(q.t, key))
      BY <1>6, <1>7, <2>1, RestIs DEF n
    <2>3. r = q
      BY <1>9
    <2> HIDE DEF q
    <2>4. QED
      BY <1>1, <2>2, <2>3
  <1>10. CASE ~first.ok
    <2> DEFINE q == Rest(second, key, rest, n)
    <2>1. second.t.entries[key].capacity = 0 /\ earlyBytes(second.t.entries[key].order) = early
      BY <1>4, <1>8 DEF early
    <2>2. q.ok \in BOOLEAN /\ Good(q.t) /\ (q.ok => Holding(q.t, key))
      <3>1. n <= n
        BY <1>5
      <3>2. Len(rest) <= n
        BY <3>1 DEF n
      <3>3. QED
        BY <1>5, <1>8, <2>1, <3>2, RestIs
    <2>3. r = q
      BY <1>10
    <2> HIDE DEF q
    <2>4. QED
      BY <1>1, <2>2, <2>3
  <1>11. QED
    BY <1>7, <1>9, <1>10

-----------------------------------------------------------------------------
(* What a segment comes to.                                                *)

\* A packet is taken: the table after it is good, and it is described.
Told(r) ==
    \E u : \E kind \in Kinds : \E limit \in BOOLEAN : \E bytes :
        Good(u) /\ r = Taken(u, kind, limit, bytes)

\* One described as part of a message that completes later is held.
Comes(r, key) == Told(r) /\ (r.out.kind = "segment" => Holding(r.t, key))

LEMMA ToldIs ==
    ASSUME NEW u, NEW kind, NEW limit, NEW bytes
    PROVE  LET r == Taken(u, kind, limit, bytes)
           IN  r.t = u /\ r.out.kind = kind /\ r.out.limit = limit /\ r.out.bytes = bytes
  BY DEF Taken

LEMMA TakenComes ==
    ASSUME NEW u, Good(u), NEW kind \in Kinds, NEW limit \in BOOLEAN, NEW bytes, NEW key,
           kind = "segment" => Holding(u, key)
    PROVE  Comes(Taken(u, kind, limit, bytes), key)
  <1>1. Told(Taken(u, kind, limit, bytes))
    BY DEF Told
  <1>2. QED
    BY <1>1, ToldIs DEF Comes

\* The table after it.
LEMMA ComesGood == ASSUME NEW r, NEW key, Comes(r, key) PROVE Good(r.t)
  <1>1. \E u : \E kind \in Kinds : \E limit \in BOOLEAN : \E bytes :
            Good(u) /\ r = Taken(u, kind, limit, bytes)
    BY DEF Comes, Told
  <1>2. QED
    BY <1>1, ToldIs

\* A direction is let go.
LEMMA LetGoGood ==
    ASSUME NEW t, Good(t), NEW key \in Keys
    PROVE  Good(release(t, key)) /\ release(t, key).entries[key] = Unset
  BY ReleaseGood DEF Good

LEMMA KindsAre == {"own", "segment", "continuation", "messages"} = Kinds
  BY DEF Kinds

\* The last bytes of a sequence.
LEMMA LastBytes ==
    ASSUME NEW S, NEW s \in Seq(S), NEW n \in Nat
    PROVE  LET u == SubSeq(s, n + 1, Len(s))
           IN  /\ u \in Seq(S) /\ Len(u) = IF n < Len(s) THEN Len(s) - n ELSE 0
               /\ \A i \in 1..Len(u) : n + i \in 1..Len(s) /\ u[i] = s[n + i]
  <1> DEFINE L == Len(s)
             u == SubSeq(s, n + 1, L)
  <1>1. L \in Nat /\ \A i \in (n + 1)..L : s[i] \in S
    OBVIOUS
  <1>2. n + 1 \in Int /\ L \in Int
    BY <1>1
  <1> DEFINE m == n + 1
  <1>3. /\ u \in Seq(S) /\ Len(u) = (IF m <= L THEN L - m + 1 ELSE 0)
        /\ \A i \in 1..(L - m + 1) : u[i] = s[m + i - 1]
    <2> HIDE DEF L, m
    <2>1. m \in Int /\ L \in Int /\ \A i \in m..L : s[i] \in S
      BY <1>1, <1>2 DEF m
    <2>2. QED
      BY <2>1, SubSeqProperties DEF m
  <1> HIDE DEF L, u
  <1>4. Len(u) = IF n < L THEN L - n ELSE 0
    BY <1>1, <1>3
  <1>5. ASSUME NEW i \in 1..Len(u) PROVE n + i \in 1..L /\ u[i] = s[n + i]
    <2>1. i \in 1..(L - m + 1) /\ m + i - 1 = n + i /\ n + i \in 1..L
      BY <1>1, <1>4
    <2>2. QED
      BY <1>3, <2>1
  <1>6. QED
    BY <1>3, <1>4, <1>5 DEF u, L

\* continueMessage() leaves the message held, what is left of it, or nothing.
LEMMA ContinueIs ==
    ASSUME NEW t, NEW key \in Keys, Near(t, key), Exact(t, key)
    PROVE  Comes(continueMessage(t, key), key)
  <1> DEFINE held == t.entries[key].held
             walk == walkMessages(held)
             whole == SubSeq(held, 1, walk.end)
             rest == SubSeq(held, walk.end + 1, Len(held))
             more == walk.incomplete.length - Len(rest)
             from == t.entries[key].order.nextSeq
             next == HoldRest(t, key, rest, walk.incomplete)
             r == IF announcedPast(walk.incomplete, Len(rest), StreamLimit)
                  THEN Taken(skip(t, key, from, more), "messages", TRUE, whole)
                  ELSE IF walk.end = 0 THEN Taken(t, "segment", FALSE, <<>>)
                  ELSE IF ~walk.incomplete.framed
                  THEN Taken(release(t, key), "messages", FALSE, whole)
                  ELSE Taken(next.t, "messages", ~next.ok, whole)
  <1>1. continueMessage(t, key) = r
    BY DEF continueMessage
  <1>2. Good(t) /\ Holding(t, key) /\ Counted(t) /\ \A k \in Keys \ {key} : Exact(t, k)
    <2>1. Good(t) /\ Holding(t, key)
      BY NearGood
    <2>2. QED
      BY <2>1 DEF Good
  <1>3. held \in Seq(Bytes) /\ Len(held) \in Nat /\ from \in SeqNumbers
    <2>1. held \in Seq(Bytes) /\ Len(held) \in Nat /\ t.entries[key].order \in Orders
      BY NearHeld, HeldIs
    <2>2. QED
      BY <2>1 DEF Orders
  <1> HIDE DEF held, from
  <1>4. walk.end \in 0..Len(held) /\ walk.incomplete \in Extents
    BY <1>3, WalkIs
  <1> DEFINE e == walk.end
             extent == walk.incomplete
  <1>5. e \in Nat /\ e <= Len(held) /\ extent.length \in Nat
    BY <1>3, <1>4 DEF Extents
  <1> HIDE DEF walk
  <1>6. rest \in Seq(Bytes) /\ Len(rest) \in Nat /\ Len(rest) <= Len(held)
    <2>1. rest \in Seq(Bytes) /\ Len(rest) = IF e < Len(held) THEN Len(held) - e ELSE 0
      BY <1>3, <1>5, LastBytes
    <2> HIDE DEF rest, e
    <2>2. QED
      BY <1>3, <1>5, <2>1
  <1>7. Good(skip(t, key, from, more))
    <2>1. more \in Int
      <3> DEFINE a == Len(rest)
      <3>1. a \in Nat
        BY <1>6
      <3> HIDE DEF a
      <3>2. extent.length - a \in Int
        BY <1>5, <3>1
      <3>3. QED
        BY <3>2 DEF a
    <2> HIDE DEF more
    <2>2. QED
      BY <1>2, <1>3, <2>1, SkipIs
  <1>8. next.ok \in BOOLEAN /\ Good(next.t)
    <2> HIDE DEF rest
    <2>1. QED
      BY <1>3, <1>5, <1>6, HoldRestIs DEF held
  <1>9. Good(release(t, key))
    BY <1>2, LetGoGood
  <1> HIDE DEF next, more, rest, whole
  <1>10. r = continueMessage(t, key)
    BY <1>1
  <1>11. Comes(Taken(skip(t, key, from, more), "messages", TRUE, whole), key)
    BY <1>7, TakenComes, KindsAre
  <1>12. Comes(Taken(t, "segment", FALSE, <<>>), key)
    BY <1>2, TakenComes, KindsAre
  <1>13. Comes(Taken(release(t, key), "messages", FALSE, whole), key)
    BY <1>9, TakenComes, KindsAre
  <1>14. Comes(Taken(next.t, "messages", ~next.ok, whole), key)
    <2>1. (~next.ok) \in BOOLEAN
      BY <1>8
    <2>2. QED
      BY <1>8, <2>1, TakenComes, KindsAre
  <1>15. Comes(r, key)
    BY <1>11, <1>12, <1>13, <1>14
  <1> HIDE DEF r
  <1>16. QED
    BY <1>10, <1>15

\* The bytes from one on are in their places, if all are.
LEMMA InPlaceLast ==
    ASSUME NEW bytes \in Seq(Bytes), InPlace(bytes), NEW n \in Nat
    PROVE  InPlace(SubSeq(bytes, n + 1, Len(bytes)))
  <1> DEFINE L == Len(bytes)
             u == SubSeq(bytes, n + 1, L)
             first == bytes[1][2]
  <1>1. L \in Nat /\ Len(u) = (IF n < L THEN L - n ELSE 0) /\ \A i \in 1..Len(u) : n + i \in 1..L /\ u[i] = bytes[n + i]
    BY LastBytes
  <1>2. \A i \in 1..L : bytes[i][2] = first + i - 1
    BY DEF InPlace
  <1>3. ASSUME L # 0 PROVE first \in Nat
    <2>1. bytes[1] \in Bytes
      BY <1>1, <1>3
    <2>2. bytes[1][2] \in 0..(StartOf(Len(MessageLengths) + 1) - 1)
      BY <2>1 DEF Bytes
    <2>3. QED
      BY <2>2
  <1>4. SUFFICES ASSUME NEW i \in 1..Len(u) PROVE u[i][2] = u[1][2] + i - 1
    BY DEF InPlace
  <1> HIDE DEF L, u, first
  <1>5. L # 0 /\ 1 \in 1..Len(u) /\ i \in Nat
    BY <1>1
  <1>6. u[i][2] = first + (n + i) - 1 /\ u[1][2] = first + (n + 1) - 1
    BY <1>1, <1>2, <1>5
  <1>7. first \in Nat
    BY <1>3, <1>5
  <1>8. QED
    BY <1>5, <1>6, <1>7

\* startMessage() holds the message the bytes end in, skips it, or leaves it.
LEMMA StartMessageIs ==
    ASSUME NEW t, Good(t), NEW key \in Keys, NEW end \in SeqNumbers,
           NEW payload \in Seq(Bytes), InPlace(payload), NEW after \in BOOLEAN
    PROVE  Comes(startMessage(t, key, end, payload, after), key)
  <1> DEFINE kind == IF after THEN "messages" ELSE "own"
             walk == walkMessages(payload)
             e == walk.end
             extent == walk.incomplete
             L == Len(payload)
             whole == SubSeq(payload, 1, e)
             rest == SubSeq(payload, e + 1, L)
             n == Len(rest)
             buffer == Max2(n, Min2(extent.length, StreamLimit))
             past(u) == Taken(IF announcedPast(extent, n, StreamLimit)
                              THEN skip(u, key, end, extent.length - n) ELSE u, kind, TRUE, <<>>)
             u == release(t, key)
             room == makeRoom(u, EntryOverhead + buffer, key)
             y == [NewEntry EXCEPT !.held = rest, !.capacity = buffer, !.order = reset(end)]
             put == IF ~room.ok THEN past(room.t)
                    ELSE Taken(Insert(room.t, key, y), IF e = 0 THEN "segment" ELSE "messages", FALSE, whole)
             go == IF ~extent.framed THEN Taken(t, kind, FALSE, whole)
                   ELSE IF extent.length > StreamLimit THEN past(u) ELSE put
             r == IF ~tcpMessageExtent(payload).framed THEN Taken(t, kind, FALSE, <<>>) ELSE go
  <1>1. startMessage(t, key, end, payload, after) = r
    BY DEF startMessage
  <1>2. kind \in Kinds /\ kind # "segment"
    BY KindsAre
  <1>3. e \in 0..L /\ extent \in Extents /\ (extent.framed => L - e <= extent.length)
    BY WalkIs
  <1> HIDE DEF walk, kind
  <1>4. L \in Nat /\ e \in Nat /\ extent.length \in Nat
    BY <1>3 DEF Extents
  <1>5. rest \in Seq(Bytes) /\ n = L - e /\ n \in Nat
    <2>1. rest \in Seq(Bytes) /\ n = IF e < L THEN L - e ELSE 0
      BY <1>4, LastBytes
    <2> HIDE DEF rest, e, n, L
    <2>2. QED
      BY <1>3, <1>4, <2>1
  <1>6. Good(u) /\ u.entries[key] = Unset
    BY LetGoGood
  <1> HIDE DEF u, rest, n, L, e, extent
  <1>7. ASSUME NEW v, Good(v) PROVE Comes(past(v), key)
    <2> DEFINE w == IF announcedPast(extent, n, StreamLimit) THEN skip(v, key, end, extent.length - n) ELSE v
    <2>1. Good(skip(v, key, end, extent.length - n))
      <3>1. extent.length - n \in Int
        BY <1>4, <1>5
      <3>2. QED
        BY <1>7, <3>1, SkipIs DEF Good
    <2>2. Good(w)
      BY <1>7, <2>1
    <2> HIDE DEF w
    <2>3. Comes(Taken(w, kind, TRUE, <<>>), key)
      BY <1>2, <2>2, TakenComes
    <2>4. QED
      BY <2>3 DEF w
  <1>8. ASSUME extent.framed, ~(extent.length > StreamLimit) PROVE Comes(put, key)
    <2>1. n <= extent.length
      BY <1>3, <1>5, <1>8
    <2>2. buffer \in Nat /\ n <= buffer /\ buffer <= StreamLimit
      BY <1>4, <1>5, <1>8, <2>1, Limits DEF Max2, Min2
    <2> HIDE DEF buffer
    <2>3. EntryOverhead + buffer \in Nat
      BY <2>2, Limits
    <2>4. Kept(u, room.t, key) /\ room.ok \in BOOLEAN /\ (room.ok => room.t.used + (EntryOverhead + buffer) <= MemoryLimit)
      BY <1>6, <2>3, MakeRoomIs DEF Good
    <2>5. Good(room.t) /\ room.t.entries[key] = Unset
      BY <1>6, <2>4, KeptExact DEF Kept
    <2> HIDE DEF room
    <2>6. CASE ~room.ok
      BY <1>7, <2>5, <2>6
    <2>7. CASE room.ok
      <3>1. reset(end) \in Orderer(Bytes)
        BY ResetIs
      <3>2. /\ y \in Entry /\ y.held = rest /\ y.capacity = buffer /\ y.order = reset(end) /\ y.cost = 0
            /\ ~y.skipping
        BY <1>5, <2>2, <3>1, NewEntryIs DEF Entry
      <3> HIDE DEF y
      <3>3. Fits(y) /\ Footprint(y) = EntryOverhead + buffer
        <4>1. Len(y.held) <= y.capacity /\ y.capacity <= StreamLimit
          BY <2>2, <3>2 DEF n
        <4>2. QED
          BY <3>2, <4>1, NewIs
      <3> DEFINE v == Insert(room.t, key, y)
                 how == IF e = 0 THEN "segment" ELSE "messages"
      <3>4. Good(v) /\ Holding(v, key)
        <4>1. room.t.used + Footprint(y) <= MemoryLimit
          BY <2>4, <2>7, <3>3
        <4>2. QED
          BY <2>5, <3>2, <3>3, <4>1, InsertGood
      <3>5. how \in Kinds
        BY KindsAre
      <3> HIDE DEF v, how
      <3>6. Comes(Taken(v, how, FALSE, whole), key)
        BY <3>4, <3>5, TakenComes
      <3>7. QED
        BY <2>7, <3>6 DEF v, how
    <2>8. QED
      BY <2>6, <2>7
  <1> HIDE DEF put
  <1>9. Comes(past(u), key)
    BY <1>6, <1>7
  <1> HIDE DEF past, whole
  <1>10. Comes(Taken(t, kind, FALSE, whole), key) /\ Comes(Taken(t, kind, FALSE, <<>>), key)
    BY <1>2, TakenComes
  <1>11. Comes(r, key)
    BY <1>8, <1>9, <1>10
  <1> HIDE DEF r
  <1>12. QED
    BY <1>1, <1>11

\* The order of use changes nothing else.
LEMMA TouchGood ==
    ASSUME NEW t, Good(t), NEW key \in Keys, t.entries[key] # Unset
    PROVE  /\ Good(Touch(t, key)) /\ Touch(t, key).entries = t.entries
           /\ Touch(t, key).heldBits = t.heldBits
  <1> DEFINE u == Touch(t, key)
  <1>1. Counted(t) /\ \A k \in Keys : Exact(t, k)
    BY DEF Good
  <1>2. Counted(u) /\ u.entries = t.entries /\ u.heldBits = t.heldBits
    BY <1>1, TouchIs
  <1> HIDE DEF u
  <1>3. Good(u)
    BY <1>1, <1>2 DEF Good, Exact
  <1>4. QED
    BY <1>2, <1>3 DEF u

\* skipSegment() goes on skipping, is done with it, or starts with what follows in the segment.
LEMMA SkipSegmentIs ==
    ASSUME NEW t, Good(t), NEW key \in Keys, t.entries[key] # Unset, NEW seq \in SeqNumbers, NEW len \in Nat,
           NEW cut \in BOOLEAN, NEW payload \in Seq(Bytes), InPlace(payload)
    PROVE  LET s == skipSegment(t, key, seq, len, cut, payload)
           IN  Comes(s.taken, key)
  <1> DEFINE entry == t.entries[key]
             u == Touch(t, key)
             v == release(u, key)
             end == (seq + len) % SeqSpace
             offset == seqAfter(entry.skipEnd, seq)
             last == SubSeq(payload, offset + 1, Len(payload))
             next == startMessage(v, key, end, last, TRUE)
             on == IF end = entry.skipEnd THEN v ELSE u
             s == skipSegment(t, key, seq, len, cut, payload)
             before == seqAfter(entry.skipFrom, seq) > 0
             within == seqAfter(end, entry.skipEnd) <= 0
             taken == IF before THEN Taken(u, "own", FALSE, <<>>)
                      ELSE IF within THEN Taken(on, "continuation", FALSE, <<>>)
                      ELSE IF offset <= 0 THEN Taken(v, "own", FALSE, <<>>)
                      ELSE IF cut THEN Taken(v, "continuation", FALSE, <<>>)
                      ELSE next
  <1>1. s.taken = taken
    <2> HIDE DEF u, v, end, offset, last, on
    <2>1. s = IF before THEN [past |-> FALSE, taken |-> Taken(u, "own", FALSE, <<>>)]
              ELSE IF within THEN [past |-> FALSE, taken |-> Taken(on, "continuation", FALSE, <<>>)]
              ELSE IF offset <= 0 THEN [past |-> TRUE, taken |-> Taken(v, "own", FALSE, <<>>)]
              ELSE IF cut THEN [past |-> FALSE, taken |-> Taken(v, "continuation", FALSE, <<>>)]
              ELSE [past |-> FALSE, taken |-> next]
      BY DEF skipSegment, u, v, end, offset, last, on
    <2> HIDE DEF s, before, within, next
    <2>2. QED
      BY <2>1
  <1>2. Good(u) /\ Good(v)
    <2>1. Good(u)
      BY TouchGood
    <2> HIDE DEF u
    <2>2. QED
      BY <2>1, LetGoGood
  <1>3. end \in SeqNumbers
    <2>1. seq \in Nat
      BY DEF SeqNumbers
    <2>2. QED
      BY <2>1, SeqSpaceAssumption DEF SeqNumbers
  <1>4. offset \in Int
    <2>1. entry \in Entry
      BY HeldIs DEF Good
    <2>2. entry.skipEnd \in SeqNumbers
      BY <2>1 DEF Entry
    <2>3. QED
      BY <2>2, AfterInt
  <1> HIDE DEF u, v, end, offset, before, within
  <1>5. ASSUME ~(offset <= 0) PROVE Comes(next, key)
    <2>1. offset \in Nat
      BY <1>4, <1>5
    <2>2. last \in Seq(Bytes) /\ InPlace(last)
      BY <2>1, LastBytes, InPlaceLast
    <2> HIDE DEF last
    <2>3. TRUE \in BOOLEAN
      OBVIOUS
    <2>4. QED
      BY <1>2, <1>3, <2>2, <2>3, StartMessageIs
  <1> HIDE DEF next
  <1>6. Good(on)
    BY <1>2
  <1> HIDE DEF on
  <1>7. /\ Comes(Taken(u, "own", FALSE, <<>>), key) /\ Comes(Taken(v, "own", FALSE, <<>>), key)
        /\ Comes(Taken(v, "continuation", FALSE, <<>>), key)
        /\ Comes(Taken(on, "continuation", FALSE, <<>>), key)
    BY <1>2, <1>6, TakenComes, KindsAre
  <1>8. Comes(taken, key)
    BY <1>5, <1>7
  <1> HIDE DEF taken, s
  <1>9. QED
    BY <1>1, <1>8 DEF s

\* segment() takes a segment of the direction.
LEMMA SegmentIs ==
    ASSUME NEW t, Good(t), NEW key \in Keys, NEW seq \in SeqNumbers, NEW len \in Nat, NEW cut \in BOOLEAN,
           NEW payload \in Seq(Bytes), InPlace(payload), Len(payload) = len, NEW sentBefore \in BOOLEAN
    PROVE  Comes(segment(t, key, seq, len, cut, payload, sentBefore), key)
  <1> DEFINE entry == IF key \in t.heldBits THEN t.entries[key] ELSE Unset
             noRoom(u) == Taken(release(u, key), "own", TRUE, <<>>)
             end == (seq + len) % SeqSpace
             start(u) == IF sentBefore THEN Taken(u, "own", FALSE, <<>>)
                         ELSE startMessage(u, key, end, payload, FALSE)
             s == skipSegment(t, key, seq, len, cut, payload)
             skipped == IF ~s.past \/ cut THEN s.taken ELSE start(s.taken.t)
             let == IF entry # Unset THEN release(t, key) ELSE t
             u == Touch(t, key)
             at == place(entry.order, seq, len)
             bytes == SubSeq(payload, at.overlap + 1, len)
             kept == HoldSegment(u, key, seq, payload)
             early == IF kept.ok THEN Taken(kept.t, "segment", FALSE, <<>>) ELSE start(release(kept.t, key))
             one == append(u, key, bytes)
             all == appendEarly(one.t, key)
             more == IF all.ok THEN continueMessage(all.t, key) ELSE noRoom(all.t)
             next == IF one.ok THEN more ELSE noRoom(one.t)
             take == IF at.fit = "Early" THEN early
                     ELSE IF at.fit = "Taken" THEN Taken(u, "own", FALSE, <<>>) ELSE next
             r == IF entry # Unset /\ entry.skipping THEN skipped
                  ELSE IF cut THEN Taken(let, "own", FALSE, <<>>)
                  ELSE IF entry = Unset THEN start(t) ELSE take
  <1>1. segment(t, key, seq, len, cut, payload, sentBefore) = r
    BY DEF segment
  <1>2. Counted(t) /\ \A k \in Keys : Exact(t, k)
    BY DEF Good
  <1>3. end \in SeqNumbers
    <2>1. seq \in Nat
      BY DEF SeqNumbers
    <2>2. QED
      BY <2>1, SeqSpaceAssumption DEF SeqNumbers
  <1> HIDE DEF end
  <1>4. ASSUME NEW v, Good(v) PROVE Comes(start(v), key)
    <2>1. Comes(Taken(v, "own", FALSE, <<>>), key)
      BY <1>4, TakenComes, KindsAre
    <2>2. Comes(startMessage(v, key, end, payload, FALSE), key)
      <3>1. FALSE \in BOOLEAN
        OBVIOUS
      <3>2. QED
        BY <1>3, <1>4, <3>1, StartMessageIs
    <2>3. QED
      BY <2>1, <2>2
  <1>5. ASSUME NEW v, Counted(v), \A k \in Keys \ {key} : Exact(v, k)
        PROVE  Good(release(v, key)) /\ Comes(noRoom(v), key)
    <2>1. Good(release(v, key))
      BY <1>5, ReleaseGood
    <2>2. QED
      BY <2>1, TakenComes, KindsAre
  <1> HIDE DEF start, noRoom
  <1>6. entry # Unset => entry = t.entries[key] /\ key \in t.heldBits
    OBVIOUS
  <1> HIDE DEF entry
  <1>7. ASSUME entry # Unset PROVE Comes(skipped, key)
    <2>1. t.entries[key] # Unset
      BY <1>6, <1>7
    <2>2. Comes(s.taken, key)
      BY <2>1, SkipSegmentIs
    <2> HIDE DEF s
    <2>3. Good(s.taken.t)
      BY <2>2, ComesGood
    <2>4. QED
      BY <1>4, <2>2, <2>3
  <1> HIDE DEF skipped
  <1>8. Comes(Taken(let, "own", FALSE, <<>>), key)
    <2>1. Good(let)
      BY LetGoGood
    <2> HIDE DEF let
    <2>2. QED
      BY <2>1, TakenComes, KindsAre
  <1> HIDE DEF let
  <1>9. ASSUME entry # Unset, ~entry.skipping PROVE Comes(take, key)
    <2>1. t.entries[key] # Unset /\ entry = t.entries[key] /\ key \in t.heldBits
      BY <1>6, <1>9
    <2>2. Good(u) /\ u.entries = t.entries /\ u.heldBits = t.heldBits
      BY <2>1, TouchGood
    <2> HIDE DEF u
    <2>3. Holding(u, key)
      BY <1>9, <2>1, <2>2 DEF Holding
    <2>4. Near(u, key) /\ Exact(u, key)
      BY <2>2, <2>3, NearGood
    <2>5. Comes(early, key)
      <3>1. kept.ok \in BOOLEAN /\ Near(kept.t, key) /\ Exact(kept.t, key)
        BY <2>4, HoldSegmentIs
      <3> HIDE DEF kept
      <3>2. Good(kept.t) /\ Holding(kept.t, key)
        BY <3>1, NearGood
      <3>3. Comes(Taken(kept.t, "segment", FALSE, <<>>), key)
        BY <3>2, TakenComes, KindsAre
      <3>4. Comes(start(release(kept.t, key)), key)
        BY <1>4, <3>2, LetGoGood
      <3>5. QED
        BY <3>3, <3>4
    <2> HIDE DEF early
    <2>6. Comes(Taken(u, "own", FALSE, <<>>), key)
      BY <2>2, TakenComes, KindsAre
    <2>7. ASSUME at.fit # "Early", at.fit # "Taken" PROVE Comes(next, key)
      <3> DEFINE ahead == seqAfter(seq, entry.order.nextSeq)
      <3>1. ahead \in Int
        <4>1. entry.order \in Orders
          BY <2>1, HeldIs DEF Good
        <4>2. entry.order.nextSeq \in SeqNumbers
          BY <4>1 DEF Orders
        <4>3. QED
          BY <4>2, AfterInt
      <3>2. at = CASE ahead > 0 -> [fit |-> "Early", overlap |-> 0]
                   [] ahead <= 0 /\ ahead + len <= 0 -> [fit |-> "Taken", overlap |-> 0]
                   [] OTHER -> [fit |-> "Next", overlap |-> -ahead]
        BY DEF place
      <3> HIDE DEF ahead, at
      <3>3. at.overlap \in Nat
        BY <2>7, <3>1, <3>2
      <3>4. bytes \in Seq(Bytes)
        BY <3>3, LastBytes
      <3> HIDE DEF bytes
      <3>5. one.ok \in BOOLEAN /\ Near(one.t, key)
        BY <2>4, <3>4, AppendIs
      <3> HIDE DEF one
      <3>6. all.ok \in BOOLEAN /\ Near(all.t, key) /\ (all.ok => Exact(all.t, key))
        BY <3>5, AppendEarlyIs
      <3> HIDE DEF all
      <3>7. Comes(noRoom(one.t), key) /\ Comes(noRoom(all.t), key)
        BY <1>5, <3>5, <3>6 DEF Near
      <3>8. all.ok => Comes(continueMessage(all.t, key), key)
        BY <3>6, ContinueIs
      <3>9. QED
        BY <3>7, <3>8
    <2> HIDE DEF next, at
    <2>8. QED
      BY <2>5, <2>6, <2>7
  <1> HIDE DEF take
  <1>10. Comes(start(t), key)
    BY <1>4
  <1>11. Comes(r, key)
    BY <1>7, <1>8, <1>9, <1>10
  <1> HIDE DEF r
  <1>12. QED
    BY <1>1, <1>11

\* The bits of the streams' states are others.
LEMMA BitsGood ==
    ASSUME NEW t, Good(t), NEW held \in SUBSET t.heldBits, NEW letGo \in SUBSET Keys
    PROVE  LET u == [t EXCEPT !.heldBits = held, !.letGoBits = letGo]
           IN  Good(u) /\ u.entries = t.entries /\ u.heldBits = held
  <1> DEFINE u == [t EXCEPT !.heldBits = held, !.letGoBits = letGo]
  <1>1. t \in Tables
    BY DEF Good, Counted
  <1>2. /\ u \in Tables /\ u.entries = t.entries /\ u.lru = t.lru /\ u.used = t.used
        /\ u.heldBits = held /\ u.letGoBits = letGo
    BY <1>1 DEF Tables
  <1> HIDE DEF u
  <1>3. Counted(u)
    BY <1>2 DEF Good, Counted
  <1>4. \A key \in Keys : Exact(u, key)
    BY <1>2 DEF Good, Exact
  <1>5. QED
    BY <1>2, <1>3, <1>4 DEF u, Good

LEMMA LetGoBitsGood ==
    ASSUME NEW t, Good(t), NEW letGo \in SUBSET Keys
    PROVE  Good([t EXCEPT !.letGoBits = letGo])
  <1>1. t \in Tables
    BY DEF Good, Counted
  <1>2. [t EXCEPT !.letGoBits = letGo] = [t EXCEPT !.heldBits = t.heldBits, !.letGoBits = letGo]
    BY <1>1 DEF Tables
  <1> DEFINE held == t.heldBits
             u == [t EXCEPT !.heldBits = held, !.letGoBits = letGo]
  <1>3. held \in SUBSET held
    OBVIOUS
  <1>4. Good(u)
    <2> HIDE DEF held
    <2>1. held \in SUBSET t.heldBits
      BY <1>3 DEF held
    <2>2. QED
      BY <2>1, BitsGood
  <1>5. QED
    BY <1>2, <1>4

LEMMA BothGood ==
    ASSUME NEW t, Good(t), NEW stream \in Streams
    PROVE  Good(releaseBoth(t, stream))
  <1>1. <<stream, 0>> \in Keys /\ <<stream, 1>> \in Keys
    BY DEF Keys
  <1>2. Good(release(t, <<stream, 0>>))
    BY <1>1, LetGoGood
  <1>3. Good(release(release(t, <<stream, 0>>), <<stream, 1>>))
    BY <1>1, <1>2, LetGoGood
  <1>4. QED
    BY <1>3 DEF releaseBoth

\* apply() takes a packet: what is described as part of a message is held, unless its FIN ends
\* the direction.
LEMMA ApplyIs ==
    ASSUME NEW t, Good(t), NEW key \in Keys, NEW packet, packet.len \in Nat, packet.cut \in BOOLEAN,
           packet.rst \in BOOLEAN, packet.rst => packet.len = 0, NEW seq \in SeqNumbers, NEW ack,
           NEW payload \in Seq(Bytes), InPlace(payload), Len(payload) = packet.len,
           NEW sentBefore \in BOOLEAN
    PROVE  LET r == apply(t, key, packet, seq, payload, ack, sentBefore)
           IN  Told(r) /\ (r.out.kind = "segment" /\ ~packet.fin => Holding(r.t, key))
  <1> DEFINE stream == key[1]
             other == <<stream, 1 - key[2]>>
             opened == IF packet.syn THEN releaseBoth(t, stream) ELSE t
             gap == /\ ack # Unset
                    /\ other \in opened.heldBits
                    /\ ~opened.entries[other].skipping
                    /\ seqAfter(ack, opened.entries[other].order.nextSeq) > 0
             acked == IF gap THEN release(opened, other) ELSE opened
             letGo == key \in acked.letGoBits
             marked(taken) == IF letGo THEN Taken(taken.t, taken.out.kind, TRUE, taken.out.bytes) ELSE taken
             ended(taken) ==
                 IF packet.rst THEN [taken EXCEPT !.t = releaseBoth(@, stream)]
                 ELSE IF packet.fin THEN [taken EXCEPT !.t = release(@, key)] ELSE taken
             u == [acked EXCEPT !.letGoBits = @ \ {key}]
             s == segment(u, key, seq, packet.len, packet.cut, payload, sentBefore)
             taken == IF packet.len > 0 /\ stream \notin http2 THEN marked(s)
                      ELSE Taken(acked, "own", FALSE, <<>>)
             r == ended(taken)
  <1>1. apply(t, key, packet, seq, payload, ack, sentBefore) = r
    BY DEF apply
  <1>2. stream \in Streams /\ other \in Keys
    BY DEF Keys
  <1>3. Good(acked)
    <2>1. Good(opened)
      BY <1>2, BothGood
    <2> HIDE DEF opened, gap, other
    <2>2. QED
      BY <1>2, <2>1, LetGoGood
  <1> HIDE DEF acked, stream
  <1>4. Good(u)
    <2>1. acked.letGoBits \in SUBSET Keys
      BY <1>3 DEF Good, Counted, Tables
    <2>2. acked.letGoBits \ {key} \in SUBSET Keys
      BY <2>1
    <2>3. QED
      BY <1>3, <2>2, LetGoBitsGood
  <1> HIDE DEF u
  <1>5. Comes(s, key)
    BY <1>4, SegmentIs
  <1> HIDE DEF s, letGo
  <1>6. Comes(marked(s), key)
    <2>1. \E v : \E kind \in Kinds : \E limit \in BOOLEAN : \E bytes :
              Good(v) /\ s = Taken(v, kind, limit, bytes)
      BY <1>5 DEF Comes, Told
    <2>2. PICK v, kind, limit, bytes : /\ kind \in Kinds /\ limit \in BOOLEAN
                                       /\ Good(v) /\ s = Taken(v, kind, limit, bytes)
      BY <2>1
    <2>3. s.t = v /\ s.out.kind = kind
      BY <2>2, ToldIs
    <2>4. Comes(Taken(v, kind, TRUE, bytes), key)
      <3>1. kind = "segment" => Holding(v, key)
        BY <1>5, <2>3 DEF Comes
      <3>2. TRUE \in BOOLEAN
        OBVIOUS
      <3>3. QED
        BY <2>2, <3>1, <3>2, TakenComes
    <2>5. Taken(s.t, s.out.kind, TRUE, s.out.bytes) = Taken(v, kind, TRUE, bytes)
      <3>1. s.t = v /\ s.out.kind = kind /\ s.out.bytes = bytes
        BY <2>2 DEF Taken
      <3>2. QED
        BY <3>1, Zenon
    <2>6. QED
      BY <1>5, <2>4, <2>5
  <1>7. Comes(Taken(acked, "own", FALSE, <<>>), key)
    BY <1>3, TakenComes, KindsAre
  <1>8. Comes(taken, key) /\ (packet.rst => taken.out.kind = "own")
    <2> HIDE DEF marked
    <2>1. ASSUME packet.rst PROVE taken = Taken(acked, "own", FALSE, <<>>)
      <3>1. ~(packet.len > 0)
        BY <2>1
      <3>2. QED
        BY <3>1
    <2>2. Comes(taken, key)
      BY <1>6, <1>7
    <2> HIDE DEF taken
    <2>3. ASSUME packet.rst PROVE taken.out.kind = "own"
      BY <2>1, <2>3 DEF Taken
    <2>4. QED
      BY <2>2, <2>3
  <1> HIDE DEF taken
  <1>9. \E v : \E kind \in Kinds : \E limit \in BOOLEAN : \E bytes :
            Good(v) /\ taken = Taken(v, kind, limit, bytes)
    BY <1>8 DEF Comes, Told
  <1>10. PICK v, kind, limit, bytes : /\ kind \in Kinds /\ limit \in BOOLEAN
                                      /\ Good(v) /\ taken = Taken(v, kind, limit, bytes)
    BY <1>9
  <1>11. Good(releaseBoth(v, stream)) /\ Good(release(v, key))
    BY <1>2, <1>10, BothGood, LetGoGood
  <1>12. taken.t = v /\ taken.out.kind = kind
    BY <1>10, ToldIs
  <1>13. CASE packet.rst
    <2>1. r = Taken(releaseBoth(v, stream), kind, limit, bytes)
      BY <1>10, <1>13 DEF Taken
    <2> HIDE DEF r
    <2>2. Told(r)
      BY <1>10, <1>11, <2>1 DEF Told
    <2>3. r.out.kind = kind /\ kind = "own"
      BY <1>8, <1>12, <1>13, <2>1, ToldIs
    <2>4. QED
      BY <1>1, <2>2, <2>3
  <1>14. CASE ~packet.rst /\ packet.fin
    <2>1. r = Taken(release(v, key), kind, limit, bytes)
      BY <1>10, <1>14 DEF Taken
    <2> HIDE DEF r
    <2>2. Told(r)
      BY <1>10, <1>11, <2>1 DEF Told
    <2>3. QED
      BY <1>1, <1>14, <2>2
  <1>15. CASE ~packet.rst /\ ~packet.fin
    <2>1. r = taken
      BY <1>15
    <2> HIDE DEF r
    <2>2. QED
      BY <1>1, <1>8, <2>1 DEF Comes
  <1>16. QED
    BY <1>13, <1>14, <1>15

-----------------------------------------------------------------------------
(* The invariant: the table is good between the packets.                   *)

IInv ==
    /\ Good(Table)
    /\ connection \in [Streams -> Connections]
    /\ http2 \subseteq Streams
    /\ outcome.kind \in Kinds /\ outcome.limit \in BOOLEAN
    /\ outcome.kind = "segment" /\ outcome.key # Unset => Holding(Table, outcome.key)

LEMMA TableIs ==
    /\ Table.entries = entries /\ Table.lru = lru /\ Table.used = used
    /\ Table.heldBits = heldBits /\ Table.letGoBits = letGoBits
  BY DEF Table

LEMMA TablePrime ==
    ASSUME NEW u, u \in Tables, entries' = u.entries, lru' = u.lru, used' = u.used,
           heldBits' = u.heldBits, letGoBits' = u.letGoBits
    PROVE  Table' = u
  BY DEF Table, Tables

\* The connections there are, and their sequence numbers.
LEMMA ConnectionsAre ==
    /\ 1 \in Connections
    /\ \A conn \in Connections : conn \in Nat /\ FirstSeq[conn] \in SeqNumbers
    /\ \A conn \in Connections : \A pos \in Nat : SeqAt(conn, pos) \in SeqNumbers
  <1>1. FirstSeq \in Seq(SeqNumbers) /\ FirstSeq # <<>> /\ Connections = 1..Len(FirstSeq)
    BY MessagesAssumption DEF MessagesAssumption, Connections
  <1>2. 1 \in Connections
    BY <1>1
  <1>3. \A conn \in Connections : conn \in Nat /\ FirstSeq[conn] \in SeqNumbers
    BY <1>1
  <1>4. ASSUME NEW conn \in Connections, NEW pos \in Nat PROVE SeqAt(conn, pos) \in SeqNumbers
    <2>1. FirstSeq[conn] + pos \in Int
      BY <1>3, <1>4 DEF SeqNumbers
    <2>2. QED
      BY <2>1, SeqSpaceAssumption DEF SeqAt, SeqNumbers
  <1>5. QED
    BY <1>2, <1>3, <1>4

\* Nothing is held at first.
LEMMA InitIInv == Init => IInv
  <1>1. SUFFICES ASSUME Init PROVE IInv
    OBVIOUS
  <1>2. /\ entries = [key \in Keys |-> Unset] /\ lru = <<>> /\ used = 0 /\ heldBits = {} /\ letGoBits = {}
        /\ http2 = {} /\ connection = [stream \in Streams |-> 1] /\ outcome = NoOutcome
    BY <1>1 DEF Init
  <1>3. Table \in Tables /\ Once(Table.lru) /\ Table.used = 0
    BY <1>2 DEF Table, Tables, Once
  <1>4. /\ \A key \in Keys : key \notin ToSet(Table.lru) /\ Table.entries[key] = Unset
        /\ Table.heldBits = {}
    BY <1>2 DEF Table, ToSet
  <1>5. CostSum(Table.entries, Table.lru) = 0
    <2> DEFINE e == Table.entries
               s == <<>>
    <2>1. s \in Seq(Keys) /\ Len(s) = 0 /\ 1..Len(s) = {}
      OBVIOUS
    <2> HIDE DEF s, e
    <2> DEFINE g == [k \in {0} |-> 0]
    <2>2. g[0] = 0 /\ (\A i \in 1..Len(s) : e[s[i]].cost \in Nat) /\ \A k \in 1..Len(s) : g[k] = g[k - 1] + e[s[k]].cost
      BY <2>1
    <2> HIDE DEF g
    <2>3. CostSum(e, s) = 0
      <3>1. CostSum(e, s) = g[Len(s)]
        BY <2>1, <2>2, CostIs
      <3>2. QED
        BY <2>1, <2>2, <3>1
    <2>4. Table.lru = s
      BY <1>2, TableIs DEF s
    <2>5. QED
      BY <2>3, <2>4 DEF e
  <1>6. Counted(Table)
    BY <1>3, <1>4, <1>5, Limits DEF Counted
  <1>7. Good(Table)
    BY <1>4, <1>6 DEF Good, Exact
  <1>8. connection \in [Streams -> Connections]
    BY <1>2, ConnectionsAre
  <1>9. outcome.kind = "own" /\ outcome.limit = FALSE
    BY <1>2 DEF NoOutcome
  <1>10. QED
    BY <1>2, <1>7, <1>8, <1>9, KindsAre DEF IInv

\* A SYN makes the state of its stream afresh.
LEMMA ForgetGood ==
    ASSUME NEW t, Good(t), NEW stream
    PROVE  /\ Good(Forget(t, stream)) /\ Forget(t, stream).entries = t.entries
           /\ Forget(t, stream).lru = t.lru /\ Forget(t, stream).used = t.used
  <1> DEFINE held == t.heldBits \ Both(stream)
             letGo == t.letGoBits \ Both(stream)
             u == [t EXCEPT !.heldBits = held, !.letGoBits = letGo]
  <1>1. t \in Tables
    BY DEF Good, Counted
  <1>2. held \in SUBSET t.heldBits /\ letGo \in SUBSET Keys
    BY <1>1 DEF Tables
  <1>3. Forget(t, stream) = u
    BY DEF Forget
  <1> HIDE DEF held, letGo
  <1>4. Good(u) /\ u.entries = t.entries
    BY ZenonT(30), <1>2, BitsGood
  <1>5. u.lru = t.lru /\ u.used = t.used
    BY <1>1 DEF Tables
  <1> HIDE DEF u
  <1>6. QED
    BY <1>3, <1>4, <1>5

\* A packet keeps the invariant.
LEMMA PacketStep ==
    ASSUME IInv, NEW stream \in Streams, NEW key \in Both(stream), NEW packet \in Segments(key), NEW ackPos,
           Packet(key, packet, ackPos)
    PROVE  IInv'
  <1> DEFINE conn == connection'[key[1]]
             new == connection' # connection
             seq == (SeqAt(conn, packet.pos) - IF packet.syn THEN 1 ELSE 0) % SeqSpace
             payload == [i \in 1..packet.len |-> <<conn, packet.pos + i - 1>>]
             ack == IF ackPos = Unset THEN Unset ELSE SeqAt(conn, ackPos)
             end == packet.pos + packet.len + IF packet.fin THEN 1 ELSE 0
             seen == IF new THEN [k \in Keys |-> IF k \in Both(key[1]) THEN 0 ELSE sent[k]] ELSE sent
             before == seen[key] > end
             t == IF new THEN Forget(Table, key[1]) ELSE Table
             r == apply(t, key, packet, seq, payload, ack, before)
  <1>1. /\ \/ UNCHANGED connection
           \/ /\ connection[key[1]] + 1 \in Connections
              /\ connection' = [connection EXCEPT ![key[1]] = @ + 1]
        /\ entries' = r.t.entries /\ lru' = r.t.lru /\ used' = r.t.used
        /\ heldBits' = r.t.heldBits /\ letGoBits' = r.t.letGoBits
        /\ outcome' = [r.out EXCEPT !.key = IF packet.fin THEN Unset ELSE key]
        /\ http2' = IF new THEN http2 \ {key[1]} ELSE http2
    BY DEF Packet
  <1>2. key \in Keys /\ key[1] = stream
    BY DEF Both, Keys
  <1>3. connection' \in [Streams -> Connections]
    BY <1>1, <1>2 DEF IInv
  <1>4. conn \in Connections
    BY <1>2, <1>3
  <1> HIDE DEF conn
  <1>5. /\ packet.len \in Nat /\ packet.pos \in Nat /\ packet.cut \in BOOLEAN /\ packet.rst \in BOOLEAN
        /\ packet.rst => packet.len = 0
        /\ packet.pos + packet.len <= StartOf(Len(MessageLengths) + 1)
        /\ StartOf(Len(MessageLengths) + 1) \in Nat
    <2>1. /\ packet \in [pos : 0..Length[key], len : 0..MaxSegment, cut : BOOLEAN, syn : BOOLEAN,
                         fin : BOOLEAN, rst : BOOLEAN]
          /\ packet.pos + packet.len <= Length[key]
          /\ packet.rst => packet.len = 0
      BY DEF Segments
    <2>2. /\ packet.len \in Nat /\ packet.pos \in Nat /\ packet.cut \in BOOLEAN /\ packet.rst \in BOOLEAN
      BY <2>1
    <2>3. Length[key] \in Nat /\ Length[key] <= StartOf(Len(MessageLengths) + 1)
      BY <1>2, MessagesAssumption DEF MessagesAssumption
    <2>4. StartOf(Len(MessageLengths) + 1) \in Nat
      <3>1. Len(MessageLengths) + 1 \in 1..(Len(MessageLengths) + 1)
        BY MessagesAssumption DEF MessagesAssumption
      <3>2. QED
        BY <3>1, StartsAre
    <2> DEFINE most == StartOf(Len(MessageLengths) + 1)
               a == packet.pos
               b == packet.len
    <2> HIDE DEF most, a, b
    <2>5. a + b <= most
      BY <2>1, <2>2, <2>3, <2>4 DEF most, a, b
    <2>6. QED
      BY <2>1, <2>2, <2>4, <2>5 DEF most, a, b
  <1>6. payload \in Seq(Bytes) /\ Len(payload) = packet.len /\ InPlace(payload)
    <2> DEFINE most == StartOf(Len(MessageLengths) + 1)
               a == packet.pos
               b == packet.len
               p == [i \in 1..b |-> <<conn, a + i - 1>>]
    <2>1. a \in Nat /\ b \in Nat /\ most \in Nat /\ a + b <= most
      BY <1>5
    <2> HIDE DEF most, a, b
    <2>2. \A i \in 1..b : <<conn, a + i - 1>> \in Connections \X (0..(most - 1))
      BY <1>4, <2>1
    <2>3. p \in Seq(Connections \X (0..(most - 1))) /\ Len(p) = b
      <3> DEFINE S == Connections \X (0..(most - 1))
      <3>1. p \in [1..b -> S] /\ DOMAIN p = 1..b
        BY <2>2
      <3> HIDE DEF p, S
      <3>2. p \in Seq(S) /\ Len(p) = b
        BY <2>1, <3>1
      <3>3. QED
        BY <3>2 DEF S
    <2>4. \A i \in 1..b : p[i][2] = a + i - 1
      OBVIOUS
    <2>5. \A i \in 1..b : p[i][2] = p[1][2] + i - 1
      BY <2>1, <2>4
    <2> HIDE DEF p
    <2>6. InPlace(p)
      BY <2>3, <2>5 DEF InPlace
    <2>7. payload = p
      BY DEF p, a, b
    <2>8. QED
      BY <2>3, <2>6, <2>7 DEF most, b, Bytes
  <1> HIDE DEF payload
  <1>7. seq \in SeqNumbers
    <2>1. SeqAt(conn, packet.pos) \in SeqNumbers
      BY <1>4, <1>5, ConnectionsAre
    <2> DEFINE a == SeqAt(conn, packet.pos)
               b == IF packet.syn THEN 1 ELSE 0
    <2>2. a \in Int /\ b \in Int
      BY <2>1 DEF SeqNumbers
    <2> HIDE DEF a, b
    <2>3. (a - b) % SeqSpace \in SeqNumbers
      BY <2>2, SeqSpaceAssumption DEF SeqNumbers
    <2>4. QED
      BY <2>3 DEF a, b
  <1> HIDE DEF seq, ack
  <1>8. Good(t)
    BY ForgetGood DEF IInv
  <1>9. before \in BOOLEAN
    OBVIOUS
  <1> HIDE DEF t, before
  <1>10. Told(r) /\ (r.out.kind = "segment" /\ ~packet.fin => Holding(r.t, key))
    BY <1>2, <1>5, <1>6, <1>7, <1>8, <1>9, ApplyIs
  <1> HIDE DEF r
  <1>11. \E v : \E kind \in Kinds : \E limit \in BOOLEAN : \E bytes :
             Good(v) /\ r = Taken(v, kind, limit, bytes)
    BY <1>10 DEF Told
  <1>12. PICK v, kind, limit, bytes : /\ kind \in Kinds /\ limit \in BOOLEAN
                                      /\ Good(v) /\ r = Taken(v, kind, limit, bytes)
    BY <1>11
  <1>13. r.t = v /\ r.out = [kind |-> kind, limit |-> limit, bytes |-> bytes, key |-> Unset]
    BY <1>12 DEF Taken
  <1>14. Table' = v
    <2>1. v \in Tables
      BY <1>12 DEF Good, Counted
    <2>2. QED
      BY <1>1, <1>13, <2>1, TablePrime
  <1>15. /\ outcome'.kind = kind /\ outcome'.limit = limit
         /\ outcome'.key = IF packet.fin THEN Unset ELSE key
    BY <1>1, <1>13
  <1>16. outcome'.kind = "segment" /\ outcome'.key # Unset => Holding(v, outcome'.key)
    <2>1. SUFFICES ASSUME outcome'.kind = "segment", outcome'.key # Unset PROVE Holding(v, outcome'.key)
      OBVIOUS
    <2>2. ~packet.fin /\ outcome'.key = key
      BY <1>15, <2>1
    <2>3. r.out.kind = "segment"
      BY <1>13, <1>15, <2>1
    <2>4. QED
      BY <1>10, <1>13, <2>2, <2>3
  <1>17. http2' \subseteq Streams
    BY <1>1 DEF IInv
  <1>18. (Good(Table))'
    BY <1>12, <1>14
  <1>19. QED
    BY <1>3, <1>12, <1>14, <1>15, <1>16, <1>17, <1>18 DEF IInv

\* A SYN whose header is bogus keeps the invariant.
LEMMA BogusSynStep ==
    ASSUME IInv, NEW stream \in Streams, BogusSyn(stream)
    PROVE  IInv'
  <1> DEFINE u == Forget(Table, stream)
  <1>1. /\ connection[stream] + 1 \in Connections
        /\ connection' = [connection EXCEPT ![stream] = @ + 1]
        /\ heldBits' = u.heldBits /\ letGoBits' = u.letGoBits
        /\ http2' = http2 \ {stream} /\ outcome' = NoOutcome
        /\ entries' = entries /\ lru' = lru /\ used' = used
    BY DEF BogusSyn
  <1>2. Good(u) /\ u.entries = entries /\ u.lru = lru /\ u.used = used
    BY ForgetGood, TableIs DEF IInv
  <1> HIDE DEF u
  <1>3. Table' = u
    BY <1>1, <1>2, TablePrime DEF Good, Counted
  <1>4. (Good(Table))'
    BY <1>2, <1>3
  <1>5. outcome'.kind = "own" /\ outcome'.limit = FALSE
    BY <1>1 DEF NoOutcome
  <1>6. connection' \in [Streams -> Connections] /\ http2' \subseteq Streams
    BY <1>1 DEF IInv
  <1>7. QED
    BY <1>4, <1>5, <1>6, KindsAre DEF IInv

\* A stream that turns out to be HTTP/2 does, and so does a step that changes nothing.
LEMMA BecomesHttp2Step ==
    ASSUME IInv, NEW stream \in Streams, BecomesHttp2(stream)
    PROVE  IInv'
  <1>1. /\ stream \in MayBeHttp2 /\ http2' = http2 \cup {stream} /\ outcome' = NoOutcome
        /\ connection' = connection /\ Table' = Table
    BY DEF BecomesHttp2, Table
  <1>2. outcome'.kind = "own" /\ outcome'.limit = FALSE
    BY <1>1 DEF NoOutcome
  <1>3. (Good(Table))' /\ connection' \in [Streams -> Connections] /\ http2' \subseteq Streams
    BY <1>1 DEF IInv
  <1>4. QED
    BY <1>2, <1>3, KindsAre DEF IInv

\* Each step keeps the invariant.
LEMMA NextIInv == IInv /\ [Next]_vars => IInv'
  <1>1. SUFFICES ASSUME IInv, [Next]_vars PROVE IInv'
    OBVIOUS
  <1>2. CASE UNCHANGED vars
    <2>1. Table' = Table /\ connection' = connection /\ http2' = http2 /\ outcome' = outcome
      BY <1>2 DEF vars, Table
    <2>2. (Good(Table))' /\ (outcome.kind = "segment" /\ outcome.key # Unset => Holding(Table, outcome.key))'
      BY <1>1, <2>1 DEF IInv
    <2>3. QED
      BY <1>1, <2>1, <2>2 DEF IInv
  <1>3. ASSUME NEW stream \in Streams, PacketOf(stream) PROVE IInv'
    <2>1. PICK key \in Both(stream) : \E packet \in SegmentsOf[key] :
              \E ackPos \in AcksOf(key) : Packet(key, packet, ackPos)
      BY <1>3 DEF PacketOf
    <2>2. PICK packet \in SegmentsOf[key] : \E ackPos \in AcksOf(key) : Packet(key, packet, ackPos)
      BY <2>1
    <2>3. PICK ackPos \in AcksOf(key) : Packet(key, packet, ackPos)
      BY <2>2
    <2>4. key \in Keys
      BY DEF Both, Keys
    <2>5. packet \in Segments(key)
      BY <2>4 DEF SegmentsOf
    <2>6. QED
      BY <1>1, <2>3, <2>5, PacketStep
  <1>4. ASSUME NEW stream \in Streams, BogusSyn(stream) PROVE IInv'
    BY <1>1, <1>4, BogusSynStep
  <1>5. ASSUME NEW stream \in Streams, BecomesHttp2(stream) PROVE IInv'
    BY <1>1, <1>5, BecomesHttp2Step
  <1>6. QED
    BY <1>1, <1>2, <1>3, <1>4, <1>5 DEF Next

\* What occurs once in a list is as many as its places.
LEMMA OnceCounts ==
    ASSUME NEW s \in Seq(Keys), Once(s)
    PROVE  Cardinality(ToSet(s)) = Len(s)
  <1> DEFINE n == Len(s)
             S == ToSet(s)
  <1>1. n \in Nat /\ DOMAIN s = 1..n /\ S = {s[i] : i \in 1..n}
    BY DEF ToSet
  <1>2. s \in [1..n -> S] /\ \A x \in S : \E i \in 1..n : s[i] = x
    <2> HIDE DEF S, n
    <2>1. \A i \in 1..n : s[i] \in S
      BY <1>1
    <2>2. s = [i \in 1..n |-> s[i]]
      BY <1>1
    <2>3. QED
      BY <1>1, <2>1, <2>2
  <1> HIDE DEF S, n
  <1>3. \A i, j \in 1..n : s[i] = s[j] => i = j
    BY DEF Once, n
  <1>4. s \in Bijection(1..n, S)
    BY <1>2, <1>3 DEF Bijection, Injection, Surjection, IsInjective
  <1>5. ExistsBijection(1..n, S)
    BY <1>4 DEF ExistsBijection
  <1>6. IsFiniteSet(1..n) /\ Cardinality(1..n) = n
    <2>1. 1 \in Int /\ n \in Int
      BY <1>1
    <2>2. IsFiniteSet(1..n) /\ Cardinality(1..n) = IF 1 > n THEN 0 ELSE n - 1 + 1
      BY <2>1, FS_Interval
    <2>3. QED
      BY <1>1, <2>2
  <1>7. Cardinality(S) = Cardinality(1..n)
    BY <1>5, <1>6, FS_Bijection
  <1>8. QED
    BY <1>6, <1>7 DEF S, n

\* The invariant says that the tables are true.
LEMMA IInvTables == IInv => TablesAreTrue
  <1>1. SUFFICES ASSUME IInv PROVE TablesAreTrue
    OBVIOUS
  <1>2. /\ Table \in Tables /\ Once(lru) /\ \A key \in Keys : key \in ToSet(lru) <=> entries[key] # Unset
        /\ \A key \in heldBits : entries[key] # Unset
        /\ \A key \in Keys : entries[key] # Unset => Fits(entries[key])
        /\ used = CostSum(entries, lru) /\ used <= MemoryLimit
        /\ \A key \in Keys : entries[key] # Unset => entries[key].cost = Footprint(entries[key])
    BY <1>1, TableIs DEF IInv, Good, Counted, Exact
  <1>3. /\ entries \in [Keys -> Entry \cup {Unset}] /\ lru \in Seq(Keys) /\ used \in Nat
        /\ heldBits \subseteq Keys /\ letGoBits \subseteq Keys
    BY <1>2, TableIs DEF Tables
  <1>4. TypeOK
    BY <1>1, <1>3 DEF TypeOK, IInv
  <1>5. TablesAgree
    <2>1. ToSet(lru) = Entries
      <3>1. ToSet(lru) \subseteq Keys
        BY <1>3 DEF ToSet
      <3>2. QED
        BY <1>2, <3>1 DEF Entries
    <2>2. Len(lru) = Cardinality(Entries)
      BY <1>2, <1>3, <2>1, OnceCounts
    <2>3. heldBits \subseteq Entries
      BY <1>2, <1>3 DEF Entries
    <2>4. QED
      BY <2>1, <2>2, <2>3 DEF TablesAgree
  <1>6. DirectionIsBounded
    BY <1>2 DEF DirectionIsBounded, Entries, Fits
  <1>7. MemoryIsCounted
    <2>1. used = FoldLeft(LAMBDA sum, key : sum + entries[key].cost, 0, lru)
      BY <1>2 DEF CostSum
    <2>2. \A key \in Entries : entries[key].cost = Footprint(entries[key])
      BY <1>2 DEF Entries
    <2>3. QED
      BY <1>2, <2>1, <2>2 DEF MemoryIsCounted
  <1>8. SegmentsAreHeld
    BY <1>1, TableIs DEF IInv, SegmentsAreHeld, Held, Holding
  <1>9. QED
    BY <1>4, <1>5, <1>6, <1>7, <1>8 DEF TablesAreTrue

\* The tables agree with what is held, and what is held with the limits: each direction found by
\* its bit has its entry and one place in the order of use, each is counted with what it holds, the
\* sum is what is used and never past the limit, and a segment described as part of a message that
\* completes later is held (TcpReassembly::used_, lru_, makeRoom(), reserve(), segment()).
THEOREM TablesTrue == Spec => []TablesAreTrue
  <1>1. Init => IInv
    BY InitIInv
  <1>2. IInv /\ [Next]_vars => IInv'
    BY NextIInv
  <1>3. IInv => TablesAreTrue
    BY IInvTables
  <1>4. QED
    BY <1>1, <1>2, <1>3, PTL DEF Spec

=============================================================================
