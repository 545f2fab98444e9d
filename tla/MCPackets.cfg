SPECIFICATION PartsSpec
CONSTANTS
  Parts = {"dissection", "analysis", "pipeline", "tls"}
  Packets <- MCCaptured
  FixedLen = 2
  MaxTunnels = 2
  MaxTags = 2
  MaxExts = 2
  Modulus = 16
  Isns = {13}
  Senders = {1}
  Windows = {0, 3}
  OutOfOrderT = 1
  FastT = 2
  Waits = {0, 2}
  MaxFlight = 5
  MaxSegments = 5
  MaxFaults = 1
  Kinds <- MCKinds
  Moves <- MCMoves
  MaxStreams = 3
  MaxLabels = 3
  MaxExpected = 2
  IdleSeconds = 2
  MaxNames = 2
  MaxEndpoints = 2
  ChunkRows = 1
  ExactValues = 1
  SubBuckets = 2
  MaxPackets = 3
  TlsStreams = {1, 2}
  Plans <- MCPlans
  Lookahead = 1
  MaxFailures = 2
  MaxSessions = 1
  MemoryLimit = 2
  MaxConns = 2
  MaxData = 3
INVARIANTS
    FieldsAreTrue
    AnalysisIsTrue
    
    DecryptedIsTrue
CHECK_DEADLOCK FALSE
