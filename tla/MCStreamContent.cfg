\* A client that opens two connections on the same ports and sends three bytes
\* in each, of which the reader may hold two segments that came early; the
\* server opens one and sends none.
SPECIFICATION Spec
CONSTANTS
    SeqSpace = 16
    Unset = Unset
    Length <- MCLength
    FirstSeq <- MCFirstSeq
    MaxConnections <- MCMaxConnections
    Snaplen = 2
    Windows = {1}
    WindowShifts = {}
    MaxWindowShift = 2
    MaxEarlySegments = 2
    MaxEarlyBytes = 3
INVARIANTS
    OutIsTheStream
    HeldIsKept
    ClientIsTheOpener
