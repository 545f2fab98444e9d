\* The live sources, part by part.
SPECIFICATION PartsSpec
CONSTANTS
    StdoutSources = {out}
    PipeSources = {pipe}
    Listings = {listing}
    MaxPrograms = 1
    MaxBytes = 2
    ListingLimit = 1
    BatchLines = 2
    MaxLines = 5
    Pids = {1, 2, 3}
    MaxDirs = 2
    Devices = {"d1"}
    Interfaces = {"i1"}
    MaxListings = 2
    MaxEdits = 3
INVARIANTS
    ToldIsTrue
    
    FormIsTrue
PROPERTIES
    LeftoversEnd
CHECK_DEADLOCK FALSE
