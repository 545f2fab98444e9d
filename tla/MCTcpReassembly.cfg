\* One direction of one stream, in two connections on the same ports, its
\* segments cut, lost, early and sent again.
SPECIFICATION CaptureSpec
CONSTANTS
    SeqSpace = 32
    Unset = Unset
    Alone = s0
    Streams = {s0, s1, s2, s3}
    MessageLengths <- MCMessageLengths
    HeaderLengths <- MCHeaderLengths
    Length <- MCLength
    FirstSeq <- MCFirstSeq
    MaxSegment = 3
    MayBeHttp2 = {s0}
    AckPlaces = {0, 1, 2, 3, 4, 5, 6, 7, 8, 9, 10, 11, 12, 13}
    Snaplen = 0
    SynData = FALSE
    MemoryLimit = 8
    StreamLimit = 3
    MaxEarlySegments = 2
    EntryOverhead = 2
    EarlyOverhead = 1
    MaxSkip = 8
SYMMETRY StreamsAreAlike
INVARIANTS
    HeldIsTheMessage
    ReturnedAreMessages
    TablesAreTrue
