\* What eventually happens, of the session's whole interface: start() is called at any time too.
SPECIFICATION FairSpec
CONSTANTS
    Choices = {c1}
    NoChoice = NoChoice
    MaxRuns = 2
    MaxChecks = 3
    MaxFiles = 1
    MaxSnapshots = 1
    DirectStarts = TRUE
PROPERTIES
    WaitsEnd
    PendingIsTakenUpOnce
