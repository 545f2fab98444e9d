--------------------------- MODULE TlsDecryption ---------------------------
(***************************************************************************)
(* The TLS Decryption (tls_decryption.cpp) of a capture's connections, and  *)
(* the key log it reads as it grows (tls_key_log.cpp): sessions by stream,  *)
(* the keys and the sequence number of each direction, what it does when    *)
(* the capture lost a record, and the memory of HTTP/2.                     *)
(*                                                                         *)
(* A key is an epoch of a connection's direction: TLS 1.3 has the           *)
(* handshake's (1), the application's (2) and the one of a key update (3),  *)
(* TLS 1.2 one (1).  A record opens with its own key and number only.  A    *)
(* connection's secrets are lines of the key log, in the order they are     *)
(* written: TLS 1.3's two of the handshake, the client's first, and its two *)
(* of the application; a line counts once its line feed is there.           *)
(***************************************************************************)
EXTENDS Integers, Sequences, SequencesExt, FiniteSets, FiniteSetsExt, Functions, TLC

CONSTANTS
    TlsStreams,    \* streams
    Plans,         \* what is captured: the connections (their version, whether they agree on
                   \* HTTP/2 by ALPN, and what their ends do of what they may), whether the key
                   \* log is complete before, whether connections end, and the bounds of the
                   \* records and of what the capture lost
    Lookahead,     \* kSequenceLookahead
    MaxFailures,   \* kMaxFailures
    MaxSessions,   \* maxSessions_
    MemoryLimit,   \* kHttp2MemoryLimit
    MaxConns,      \* bound: connections
    MaxData        \* bound: application records of a direction

ASSUME TlsAssumption ==
    /\ {Lookahead, MaxFailures, MemoryLimit, MaxData} \subseteq Nat
    /\ MaxSessions \in Nat \ {0} /\ MaxConns \in Nat \ {0}

VARIABLES
    peers,     \* each stream's connection, and what its two ends have sent
    lines,     \* the lines of each connection in the key log
    keyLog,    \* what was read of it, and whether kRereadInterval has passed
    tls,       \* the Decryption: sessions_, recent_, http2Memory_
    opened,    \* of the last segment's protected records: whether it should open, and did
    plan, sentAll, uncaptured

tlsVars == <<peers, lines, keyLog, tls, opened, plan, sentAll, uncaptured>>
Conns == 1..MaxConns
Sides == {0, 1}    \* directions; the client's is 0
AllLines == 4

-----------------------------------------------------------------------------
(* Sessions.                                                               *)

NewDirection ==
    [key |-> 0, next |-> 0, seq |-> 0, encrypted |-> FALSE, application |-> FALSE, failures |-> 0,
     lost |-> FALSE, held |-> "none", frame |-> 0, reading |-> FALSE, table |-> 0, abandoned |-> FALSE,
     fed |-> <<>>]
NewSession(c, d) ==
    [conn |-> c, client |-> d, serverHello |-> FALSE, version |-> 0, keyed |-> FALSE, http2 |-> FALSE,
     missedAt |-> -1, fins |-> {}, dir |-> [e \in Sides |-> NewDirection]]

\* Http2Direction::memory(): the frame's buffer, and the header block and the table.
Http2Memory(dir) == dir.frame + dir.table
SessionMemory(s) == Http2Memory(s.dir[0]) + Http2Memory(s.dir[1])

erase(t, id) ==
    IF id \notin DOMAIN t.sessions THEN t
    ELSE [sessions |-> [x \in DOMAIN t.sessions \ {id} |-> t.sessions[x]],
          recent |-> SelectSeq(t.recent, LAMBDA x : x # id),
          memory |-> t.memory - SessionMemory(t.sessions[id])]

MakeRoom(t) == IF Cardinality(DOMAIN t.sessions) >= MaxSessions THEN erase(t, Head(t.recent)) ELSE t
Begin(t, id, c, d) ==
    [t EXCEPT !.sessions = (id :> NewSession(c, d)) @@ @, !.recent = Append(@, id)]
ClientHello(t, id, c, d) == Begin(MakeRoom(erase(t, id)), id, c, d)

\* Only a supported version and suite, once; every TLS 1.3 record is protected from then on.
ServerHello(t, id, d, kind) ==
    IF \/ id \notin DOMAIN t.sessions
       \/ t.sessions[id].client = d \/ t.sessions[id].serverHello \/ kind.version = 0
    THEN t
    ELSE [t EXCEPT !.sessions[id].serverHello = TRUE, !.sessions[id].version = kind.version,
                   !.sessions[id].http2 = kind.alpn /\ kind.version = 12,
                   !.sessions[id].dir[0].encrypted = (kind.version = 13),
                   !.sessions[id].dir[1].encrypted = (kind.version = 13)]

-----------------------------------------------------------------------------
(* The key log.                                                            *)

Bytes(k) == SumFunction(k.read)
\* bytesRead(): at most once in kRereadInterval.
Reread(k) == IF k.due THEN [read |-> lines, due |-> FALSE] ELSE k
LinesOf(kind) == CASE kind = 13 -> AllLines [] kind = 12 -> 1 [] OTHER -> 0
Find(k, c, version) == IF k.read[c] >= LinesOf(version) THEN k ELSE Reread(k)

NotMissed(k, s) == IF s.missedAt >= 0 THEN Reread(k) ELSE k

\* The keys of what the log has: those TLS 1.3 has no secret for stay unset.
Keyed(s, n) ==
    IF s.version = 12 THEN [s EXCEPT !.keyed = TRUE, !.dir[0].key = 1, !.dir[1].key = 1]
    ELSE [s EXCEPT !.keyed = TRUE,
            !.dir = [d \in Sides |->
                [@[d] EXCEPT !.key = IF n >= 1 + d THEN 1 ELSE @, !.seq = IF n >= 1 + d THEN 0 ELSE @,
                             !.next = IF n >= 3 + d THEN 2 ELSE 0]]]
LookUp(s, k) == IF k.read[s.conn] = 0 THEN [s EXCEPT !.missedAt = Bytes(k)] ELSE Keyed(s, k.read[s.conn])
AskLog(s, k) ==
    IF s.missedAt >= 0 /\ Bytes(k) = s.missedAt THEN [session |-> s, log |-> k]
    ELSE [session |-> LookUp(s, Find(k, s.conn, s.version)), log |-> Find(k, s.conn, s.version)]
ensureKeys(s, k) == IF s.keyed THEN [session |-> s, log |-> k] ELSE AskLog(s, NotMissed(k, s))

-----------------------------------------------------------------------------
(* One protected record of direction d.                                    *)

\* The type its header has: TLS 1.3 calls every protected record application data.
Outer(r) == IF r.version = 13 /\ r.epoch > 0 THEN "data" ELSE r.type

\* A mutant of lost().
LostUnmarked(s, d, type) == [s EXCEPT !.dir[d].held = "none"]

\* A record was lost before one of this type, or this one would not decrypt.
lost(s, d, type) ==
    [s EXCEPT !.dir[d].held = "none",
              !.dir[d].lost = @ \/ IF s.version = 13 THEN s.dir[d].application ELSE type = "data"]

Within(r, seq) == r.seq >= seq /\ r.seq <= seq + Lookahead
ByKey(s, d, r) == s.dir[d].key # 0 /\ r.conn = s.conn /\ r.epoch = s.dir[d].key /\ Within(r, s.dir[d].seq)
\* TLS 1.3: the handshake may have ended unseen.
ByNextKey(s, d, r) ==
    /\ s.version = 13 /\ ~s.dir[d].application /\ s.dir[d].next # 0
    /\ r.conn = s.conn /\ r.epoch = s.dir[d].next /\ Within(r, 0)

Failed(s, d, r) ==
    lost([s EXCEPT !.dir[d].failures = IF s.keyed /\ @ < MaxFailures THEN @ + 1 ELSE @], d, Outer(r))

Advance(s, d, r) ==
    [s EXCEPT !.dir[d].seq = r.seq + 1, !.dir[d].failures = 0,
              !.dir[d].key = r.epoch, !.dir[d].next = IF ByKey(s, d, r) THEN @ ELSE 0,
              !.dir[d].application = @ \/ ~ByKey(s, d, r)]
Skipped(s, d, r) == IF ByKey(s, d, r) THEN r.seq > s.dir[d].seq ELSE r.seq > 0
decrypt(s, d, r) == IF Skipped(s, d, r) THEN lost(Advance(s, d, r), d, Outer(r)) ELSE Advance(s, d, r)

\* HandshakeMessages::add(): a message in two records; after a piece went missing the
\* next bytes are taken for a header, and what follows for the rest of that message.
Held(held, what) ==
    CASE held = "none" /\ what = "begin of Finished" -> "half"
      [] held = "none" /\ what = "end of Finished"   -> "garbage"
      [] held = "half" /\ what = "end of Finished"   -> "none"
      [] OTHER                                       -> held
Tells(held, what) ==
    CASE held = "half" /\ what = "end of Finished" -> "Finished"
      [] held = "none"                             -> what
      [] OTHER                                     -> "nothing"

UseNext(s, d, next) ==
    IF next = 0 THEN [s EXCEPT !.dir[d].application = TRUE, !.dir[d].key = 0]
    ELSE [s EXCEPT !.dir[d].application = TRUE, !.dir[d].key = next, !.dir[d].next = 0, !.dir[d].seq = 0]
HandshakeDone(s, d, k) ==
    IF s.dir[d].next # 0 THEN [session |-> UseNext(s, d, s.dir[d].next), log |-> k]
    ELSE [session |-> UseNext(s, d, IF Find(k, s.conn, 13).read[s.conn] >= 3 + d THEN 2 ELSE 0),
          log |-> Find(k, s.conn, 13)]
Update(s, d) == [s EXCEPT !.dir[d].key = @ + 1, !.dir[d].seq = 0]

Told(s, d, k, what, alpn) ==
    CASE what = "Finished" /\ ~s.dir[d].application -> HandshakeDone(s, d, k)
      [] what = "KeyUpdate" /\ s.dir[d].application /\ s.dir[d].key # 0 -> [session |-> Update(s, d), log |-> k]
      [] what = "EncryptedExtensions" /\ d # s.client ->
            [session |-> [s EXCEPT !.http2 = @ \/ alpn], log |-> k]
      [] OTHER -> [session |-> s, log |-> k]
afterHandshake(s, d, k, r) ==
    Told([s EXCEPT !.dir[d].held = Held(@, r.what)], d, k, Tells(s.dir[d].held, r.what), r.alpn)

\* What a segment holds so far: the Decryption, the key log, the application data,
\* 0 where some went missing before it, and which records opened.
IsData(s, d, r, a) ==
    [a EXCEPT !.tls.sessions[a.id] = [s EXCEPT !.dir[d].lost = FALSE],
              !.data = @ \o (IF s.dir[d].lost THEN <<0, r.n>> ELSE <<r.n>>),
              !.opened = Append(@, TRUE)]
IsHandshake(o, a) ==
    [a EXCEPT !.tls.sessions[a.id] = o.session, !.log = o.log, !.opened = Append(@, TRUE)]
Opened(s, d, r, a) ==
    CASE r.type = "data" -> IsData(s, d, r, a)
      [] r.type = "handshake" /\ s.version = 13 -> IsHandshake(afterHandshake(s, d, a.log, r), a)
      [] OTHER -> IsHandshake([session |-> s, log |-> a.log], a)
Tried(e, d, r, a) ==
    IF /\ e.session.keyed /\ e.session.dir[d].failures < MaxFailures
       /\ ByKey(e.session, d, r) \/ ByNextKey(e.session, d, r)
    THEN Opened(decrypt(e.session, d, r), d, r, [a EXCEPT !.log = e.log])
    ELSE [a EXCEPT !.tls.sessions[a.id] = Failed(e.session, d, r), !.log = e.log,
                   !.opened = Append(@, FALSE)]
Protected(d, r, a) ==
    Tried(IF a.tls.sessions[a.id].dir[d].failures >= MaxFailures
          THEN [session |-> a.tls.sessions[a.id], log |-> a.log]
          ELSE ensureKeys(a.tls.sessions[a.id], a.log), d, r, a)

\* A record that is not protected, or not known to be.
PlainRecord(t, id, d, r) ==
    CASE r.what = "ClientHello" -> ClientHello(t, id, r.conn, d)
      [] r.what = "ServerHello" -> ServerHello(t, id, d, r)
      [] r.what = "ChangeCipherSpec" /\ id \in DOMAIN t.sessions ->
            IF t.sessions[id].version = 12
            THEN [t EXCEPT !.sessions[id].dir[d].encrypted = TRUE, !.sessions[id].dir[d].seq = 0] ELSE t
      [] OTHER -> t

IsProtected(t, id, d, r) ==
    /\ id \in DOMAIN t.sessions
    /\ t.sessions[id].serverHello /\ t.sessions[id].dir[d].encrypted
    /\ IF t.sessions[id].version = 13 THEN Outer(r) = "data" ELSE Outer(r) # "ccs"

Record(d, r, a) ==
    IF IsProtected(a.tls, a.id, d, r) THEN Protected(d, r, a)
    ELSE [a EXCEPT !.tls = PlainRecord(@, a.id, d, r), !.opened = Append(@, FALSE)]

-----------------------------------------------------------------------------
(* The application data of a segment.                                      *)

\* abandonHeaders(): the buffer of a frame is let go of while one is being read.
abandonHeaders(dir) ==
    [dir EXCEPT !.abandoned = TRUE, !.table = 0, !.frame = IF dir.reading THEN 0 ELSE @, !.reading = FALSE]
resync(dir) == [abandonHeaders(dir) EXCEPT !.frame = 0]

\* describe(): other frames; a frame of headers, whole; or one that began.
Described(dir, holds) ==
    CASE dir.abandoned \/ holds = "other" -> dir
      [] holds = "headers" -> [dir EXCEPT !.frame = 1, !.table = 1, !.reading = FALSE]
      [] OTHER             -> [dir EXCEPT !.frame = 1, !.reading = TRUE]
Fed(dir, data, holds) ==
    [Described(IF 0 \in Range(data) THEN resync(dir) ELSE dir, holds) EXCEPT !.fed = @ \o data]

Charged(t, id, d, dir) ==
    [t EXCEPT !.memory = @ - Http2Memory(t.sessions[id].dir[d]) + Http2Memory(dir), !.sessions[id].dir[d] = dir]
WithinLimit(t, id, d) ==
    IF t.memory > MemoryLimit THEN Charged(t, id, d, abandonHeaders(t.sessions[id].dir[d])) ELSE t
Http2(t, id, d, data, holds) ==
    WithinLimit(Charged(t, id, d, Fed(t.sessions[id].dir[d], data, holds)), id, d)
\* The client's first data is HTTP/2's preface.
Preface(t, id, d, data) ==
    [t EXCEPT !.sessions[id].http2 = @ \/ (d = t.sessions[id].client /\ (data[1] = 1 \/ (data[1] = 0 /\ data[2] = 1)))]
Application(t, id, d, data, holds) ==
    IF t.sessions[id].http2 THEN Http2(t, id, d, data, holds) ELSE t

application(a, d, holds) ==
    IF a.data = <<>> THEN a.tls
    ELSE Application(Preface(a.tls, a.id, d, a.data), a.id, d, a.data, holds)

Touch(t, id) ==
    IF id \in DOMAIN t.sessions
    THEN [t EXCEPT !.recent = Append(SelectSeq(@, LAMBDA x : x # id), id)] ELSE t

records(id, d, rs) ==
    FoldLeft(LAMBDA a, r : Record(d, r, a),
             [id |-> id, tls |-> Touch(tls, id), log |-> keyLog, data |-> <<>>, opened |-> <<>>], rs)

-----------------------------------------------------------------------------
(* What the two ends of a connection send, and what becomes of it.         *)

\* behind: the records of the epoch since one that is sure to open; dark: none is
\* sure to open any more; torn: a piece of a handshake message is missing.
NewEnd ==
    [epoch |-> 0, seq |-> 0, n |-> 0, half |-> FALSE, ended |-> FALSE,
     behind |-> 0, dark |-> FALSE, torn |-> FALSE, fails |-> 0]
NoPeer ==
    [conn |-> 0, version |-> 0, alpn |-> FALSE, does |-> {}, hello |-> "none", seen |-> FALSE, warned |-> FALSE,
     whole |-> FALSE, end |-> [d \in Sides |-> NewEnd]]
NewPeer(c, kind) ==
    [NoPeer EXCEPT !.conn = c, !.version = kind.version, !.alpn = kind.alpn, !.does = kind.does,
                   !.whole = (keyLog.read[c] = AllLines)]

\* What an end may send next.
Says(p, d) ==
    CASE p.conn = 0 \/ p.end[d].ended -> {}
      [] p.hello \in {"none", "retry"} -> IF d = 0 THEN {"ClientHello"} ELSE {}
      [] p.hello = "client" ->
            IF d = 0 THEN {} ELSE {"ServerHello"} \cup (IF p.seen THEN {} ELSE {"HelloRetryRequest"} \cap p.does)
      [] p.version = 0 -> {}
      [] p.version = 12 /\ p.end[d].epoch = 0 ->
            IF d = 0 \/ p.end[0].seq > 0 THEN {"ChangeCipherSpec"} ELSE {}
      [] p.version = 12 /\ p.end[d].seq = 0 -> {"Finished"}
      [] p.end[d].half -> {"end of Finished"}
      [] p.version = 13 /\ d = 1 /\ p.end[1].epoch = 1 /\ p.end[1].seq = 0 -> {"EncryptedExtensions"}
      [] p.version = 13 /\ p.end[d].epoch = 1 ->
            IF d = 1 \/ p.end[1].epoch > 1 THEN {IF "split" \in p.does THEN "begin of Finished" ELSE "Finished"} ELSE {}
      [] OTHER -> (IF p.end[d].n < MaxData THEN {"data"} ELSE {})
              \cup (IF p.version = 13 /\ p.end[d].epoch = 2 /\ p.end[d].n > 0 THEN {"KeyUpdate"} \cap p.does ELSE {})
              \cup (IF p.end[d].n > 0 /\ ~p.warned THEN {"Alert"} \cap p.does ELSE {})

TypeOf(what) ==
    CASE what = "data" -> "data" [] what = "Alert" -> "alert" [] what = "ChangeCipherSpec" -> "ccs"
      [] OTHER -> "handshake"
RecordOf(p, d, what) ==
    [conn |-> p.conn, version |-> p.version, alpn |-> p.alpn, what |-> what, type |-> TypeOf(what),
     epoch |-> p.end[d].epoch, seq |-> p.end[d].seq,
     n |-> IF what = "data" THEN p.end[d].n + 1 ELSE 0,
     sure |-> p.whole /\ p.end[d].epoch > 0 /\ ~p.end[d].dark /\ p.end[d].behind <= Lookahead]

\* The record's number, and the epoch after it.
Counted(e, what) ==
    CASE what \in {"Finished", "end of Finished"} /\ e.epoch = 1 -> [e EXCEPT !.seq = @ + 1, !.half = FALSE]
      [] what = "begin of Finished" -> [e EXCEPT !.seq = @ + 1, !.half = TRUE]
      [] what = "data"              -> [e EXCEPT !.seq = @ + 1, !.n = @ + 1]
      [] OTHER                      -> [e EXCEPT !.seq = IF e.epoch > 0 THEN @ + 1 ELSE 0]
NextEpoch(e, version, what) ==
    \/ what = "ChangeCipherSpec" \/ what = "KeyUpdate"
    \/ version = 13 /\ what \in {"Finished", "end of Finished"}
Rekeyed(e) == [e EXCEPT !.epoch = @ + 1, !.seq = 0, !.behind = 0]

\* Whether the end's next records are sure to open.
Ghost(e, what, captured, sure) ==
    [e EXCEPT !.behind = IF captured /\ sure THEN 0 ELSE IF e.epoch > 0 THEN @ + 1 ELSE 0,
              !.fails = IF ~captured \/ e.epoch = 0 THEN @ ELSE IF sure THEN 0 ELSE @ + 1,
              !.torn = @ \/ (what \in {"begin of Finished", "end of Finished"} /\ ~(captured /\ sure)),
              !.dark = \/ @
                       \/ what = "ChangeCipherSpec" /\ ~captured
                       \/ what = "KeyUpdate" /\ (~(captured /\ sure) \/ e.torn)
                       \/ captured /\ e.epoch > 0 /\ ~sure /\ e.fails + 1 >= MaxFailures]
EndAfter(p, d, what, captured) ==
    IF NextEpoch(p.end[d], p.version, what)
    THEN Rekeyed(Ghost(Counted(p.end[d], what), what, captured, RecordOf(p, d, what).sure))
    ELSE Ghost(Counted(p.end[d], what), what, captured, RecordOf(p, d, what).sure)

\* The hellos: without one of each no session has keys.
Hello(p, captured, what) ==
    CASE what = "ClientHello" -> [p EXCEPT !.hello = "client", !.seen = p.hello = "retry",
                                            !.end = [d \in Sides |-> [@[d] EXCEPT !.dark = ~captured /\ (p.hello = "none" \/ @)]]]
      [] what = "HelloRetryRequest" -> [p EXCEPT !.hello = "retry"]
      [] OTHER -> [p EXCEPT !.hello = "server",
                            !.end = [d \in Sides |-> [@[d] EXCEPT !.dark = @ \/ ~captured,
                                                                 !.epoch = IF p.version = 13 THEN 1 ELSE 0]]]
Hellos == {"ClientHello", "HelloRetryRequest", "ServerHello"}
Sent(p, d, what, captured) ==
    IF what \in Hellos THEN Hello(p, captured, what)
    ELSE [p EXCEPT !.end[d] = EndAfter(p, d, what, captured), !.warned = @ \/ what = "Alert"]

-----------------------------------------------------------------------------
TlsInit ==
    /\ peers = [s \in TlsStreams |-> NoPeer]
    /\ plan \in Plans
    /\ lines = [c \in Conns |-> IF plan.logged THEN AllLines ELSE 0]
    /\ keyLog = [read |-> lines, due |-> FALSE]
    /\ tls = [sessions |-> <<>>, recent |-> <<>>, memory |-> 0]
    /\ opened = {} /\ sentAll = 0 /\ uncaptured = 0

Counting(captured) ==
    /\ ~captured => uncaptured < plan.uncaptured
    /\ uncaptured' = uncaptured + (IF captured THEN 0 ELSE 1)

\* A connection is opened, on a stream whose last one may not have been seen to end.
Syn(s, c, kind, captured) ==
    /\ c = 1 + FoldSet(LAMBDA x, y : IF x > y THEN x ELSE y, 0, {peers[x].conn : x \in TlsStreams})
    /\ peers' = [peers EXCEPT ![s] = NewPeer(c, kind)]
    /\ tls' = IF captured THEN erase(tls, s) ELSE tls
    /\ opened' = {}
    /\ Counting(captured)
    /\ UNCHANGED <<lines, keyLog, plan, sentAll>>

SendSegment(s, d, rs, p, captured) ==
    /\ sentAll + Len(rs) <= plan.records
    /\ sentAll' = sentAll + Len(rs)
    /\ peers' = [peers EXCEPT ![s] = p]
    /\ Counting(captured)
    /\ UNCHANGED <<lines, plan>>

Lose(s, d, rs, p) ==
    /\ SendSegment(s, d, rs, p, FALSE)
    /\ opened' = {}
    /\ UNCHANGED <<tls, keyLog>>

\* The session a record belongs to is followed.
IsFollowed(a, r) == a.id \in DOMAIN a.tls.sessions /\ a.tls.sessions[a.id].conn = r.conn
TakeIn(a, d, rs, holds) ==
    /\ tls' = application(a, d, holds)
    /\ keyLog' = a.log
    /\ opened' = {<<rs[i].sure /\ IsFollowed(a, rs[i]), a.opened[i]>> : i \in DOMAIN rs}

Holds(s, a) == IF a.data # <<>> THEN ({"headers", "begin of headers"} \cap peers[s].does) \cup {"other"} ELSE {"other"}
TakeAll(a, s, d, rs) == \E holds \in Holds(s, a) : TakeIn(a, d, rs, holds)
Take(s, d, rs, p) == SendSegment(s, d, rs, p, TRUE) /\ TakeAll(records(s, d, rs), s, d, rs)

\* A segment of one record, or of two, captured or not.
SendTwo(s, d, p, what, captured) ==
    \E next \in Says(Sent(p, d, what, captured), d) :
        LET rs == <<RecordOf(p, d, what), RecordOf(Sent(p, d, what, captured), d, next)>>
        IN IF captured THEN Take(s, d, rs, Sent(Sent(p, d, what, TRUE), d, next, TRUE))
           ELSE Lose(s, d, rs, Sent(Sent(p, d, what, FALSE), d, next, FALSE))
SendOne(s, d, p, what, captured) ==
    IF captured THEN Take(s, d, <<RecordOf(p, d, what)>>, Sent(p, d, what, TRUE))
    ELSE Lose(s, d, <<RecordOf(p, d, what)>>, Sent(p, d, what, FALSE))

\* A FIN, or a RST, which ends both directions.
Fin(s, d, captured) ==
    /\ plan.ends
    /\ peers[s].conn # 0 /\ ~peers[s].end[d].ended
    /\ peers' = [peers EXCEPT ![s].end[d].ended = TRUE]
    /\ tls' = IF ~captured \/ s \notin DOMAIN tls.sessions THEN tls
              ELSE IF tls.sessions[s].fins \cup {d} = Sides THEN erase(tls, s)
              ELSE [tls EXCEPT !.sessions[s].fins = @ \cup {d}]
    /\ opened' = {}
    /\ Counting(captured)
    /\ UNCHANGED <<lines, keyLog, plan, sentAll>>
Rst(s, captured) ==
    /\ plan.ends
    /\ peers[s].conn # 0 /\ \E d \in Sides : ~peers[s].end[d].ended
    /\ peers' = [peers EXCEPT ![s].end = [d \in Sides |-> [@[d] EXCEPT !.ended = TRUE]]]
    /\ tls' = IF captured THEN erase(tls, s) ELSE tls
    /\ opened' = {}
    /\ Counting(captured)
    /\ UNCHANGED <<lines, keyLog, plan, sentAll>>

\* The browser writes a line; kRereadInterval passes.
LogLine(s) ==
    /\ peers[s].hello = "server" /\ lines[peers[s].conn] < LinesOf(peers[s].version)
    /\ lines' = [lines EXCEPT ![peers[s].conn] = @ + 1]
    /\ UNCHANGED <<peers, keyLog, tls, opened, plan, sentAll, uncaptured>>
Due ==
    /\ ~keyLog.due /\ keyLog.read # lines
    /\ keyLog' = [keyLog EXCEPT !.due = TRUE]
    /\ UNCHANGED <<peers, lines, tls, opened, plan, sentAll, uncaptured>>

TlsNext ==
    \/ \E s \in TlsStreams, captured \in BOOLEAN :
        \/ \E c \in DOMAIN plan.kinds : Syn(s, c, plan.kinds[c], captured)
        \/ \E d \in Sides : \E what \in Says(peers[s], d) :
               SendOne(s, d, peers[s], what, captured) \/ SendTwo(s, d, peers[s], what, captured)
        \/ \E d \in Sides : Fin(s, d, captured)
        \/ Rst(s, captured)
    \/ \E s \in TlsStreams : LogLine(s)
    \/ Due

TlsSpec == TlsInit /\ [][TlsNext]_tlsVars

-----------------------------------------------------------------------------
\* The sessions followed are as many as may be, each in the list of the recent ones
\* once, and the memory counted is that of HTTP/2's directions.
TlsTypeOK ==
    /\ DOMAIN tls.sessions \subseteq TlsStreams /\ Cardinality(DOMAIN tls.sessions) <= MaxSessions
    /\ Range(tls.recent) = DOMAIN tls.sessions /\ Len(tls.recent) = Cardinality(DOMAIN tls.sessions)
    /\ tls.memory = MapThenSumSet(LAMBDA s : SessionMemory(tls.sessions[s]), DOMAIN tls.sessions)
    /\ \A s \in DOMAIN tls.sessions, d \in Sides :
        /\ tls.sessions[s].dir[d].key \in 0..3 /\ tls.sessions[s].dir[d].next \in {0, 2}
        /\ tls.sessions[s].dir[d].failures \in 0..MaxFailures
        /\ tls.sessions[s].dir[d].held \in {"none", "half", "garbage"}
    /\ \A c \in Conns : keyLog.read[c] <= lines[c]

\* With its secrets in the key log a record opens, whatever the capture lost before it:
\* up to kSequenceLookahead records in a row, the end of the handshake, another
\* connection's end on the same ports.  A key update not seen, a ChangeCipherSpec not
\* seen and kMaxFailures failures are what it does not get over.
CapturedIsDecrypted == <<TRUE, FALSE>> \notin opened

Joined(fed) == \A i \in 2..Len(fed) : fed[i] = 0 \/ fed[i - 1] = 0 \/ fed[i] = fed[i - 1] + 1
\* Where application data is missing, HTTP/2 is told so before it goes on: it never reads
\* what follows as the rest of a frame.  (In TLS 1.2 an alert that was lost with
\* application data hides it: lost() is told the type of the record after.)
MissingIsSeen ==
    \A s \in DOMAIN tls.sessions, d \in Sides :
        (tls.sessions[s].version = 13 \/ ~peers[s].warned) => Joined(tls.sessions[s].dir[d].fed)

\* What was captured whole, and has its keys, is decrypted, and where something is
\* missing nothing is made up.
DecryptedIsTrue == TlsTypeOK /\ CapturedIsDecrypted /\ MissingIsSeen
=============================================================================
