\* The session as the app drives it: started by startWhenIdle() only.
SPECIFICATION Spec
CONSTANTS
    Choices = {c1, c2}
    NoChoice = NoChoice
    MaxRuns = 2
    MaxChecks = 4
    MaxFiles = 2
    MaxSnapshots = 0
    DirectStarts = FALSE
SYMMETRY ChoicesAreAlike
INVARIANTS
    TypeOK
    OneProgram
    CaptureExcludesConversion
    LatestChoiceRuns
    OutcomeIsComplete
    EndIsQuiet
