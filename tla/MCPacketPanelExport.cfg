SPECIFICATION PartsSpec
CONSTANTS
  Parts = {"view"}
  LiveFiles = {"live"}
  Converted = {"converted"}
  Foreign = {""}
  MaxUpdates = 3
  MaxFronts = 2
  Contents <- MCContents
  ShowBytes = 2
  MaxShown = 3
  LineChars = 2
  Chosen = {{0}, {0, 1}}
  MaxChoices = 2
  MaxTasks = 2
  Selections <- MCSelections
  TellsSelected = TRUE
  MaxReads = 2
  Snapshots <- MCSnapshots
  Columns = {"stream", "bytes", "packets"}
  MaxResorts = 4
INVARIANT ExportIsAsShown
CHECK_DEADLOCK FALSE
