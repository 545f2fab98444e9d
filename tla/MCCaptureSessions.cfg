CONSTANTS
  Paths = {p, q}
  MaxJobs = 2
  MaxDialogs = 2
SPECIFICATION FairSpec
INVARIANTS
    TypeOK
    JobsExclude
    DiskIsAsTold
    GoneIsQuiet
PROPERTIES
    CancelledOpensNoTab
    RequestsEnd
