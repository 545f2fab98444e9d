\* A ring buffer of two files, filled by size or by time, as the clock runs and
\* files fail to be written, of a capture that stops by size, time or at the
\* last packet number.
SPECIFICATION FairSpec
CONSTANTS
    Duration = 3
    PacketLimit = 0
    ByteLimit = 6
    RingFiles = 2
    FileBytes = 4
    FileDuration = 2
    LastPacketNumber = 3
    FlushInterval = 1
    SnapshotInterval = 2
    DiskFails = TRUE
    MaxInterfaces = 2
    MaxSections = 2
    MaxRecords = 6
    MaxAhead = 1
    MaxTime = 3
INVARIANTS
    SavedIsTheStream
    FilesAreTrue
    TextIsPassedOn
PROPERTIES
    KeepsThePromise
    DurationEnds
