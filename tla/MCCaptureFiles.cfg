SPECIFICATION PartsSpec
CONSTANTS
  Parts = {"pcapng", "gzip", "stream"}
  Captures <- MCCaptures
  Interval = 2
  RingSizes = {0, 2}
  MaxInterfaces = 3
  MaxReads = 2
  Files <- MCFiles
  Window = 2
  Span = 2
  MaxBytes = 6
  MaxCalls = 4
  Streams <- MCStreams
  HeaderLen = 3
  RecordLen = 2
  MaxPreamble = 2
  MaxKept = 2
INVARIANTS
    
    ExportIsTheChoice
    GzipIsTheCapture
    StreamIsRead
CHECK_DEADLOCK FALSE
