\* The instance of Pipeline_log.cfg, and what is said of readings of quality error.
CONSTANTS
  Metrics = {"a", "b"}
  Modes = {"avg", "max"}
  Avg = "avg"
  Layouts = {"x", "y"}
  MaxCols = 2 MaxListed = 3 MaxRows = 2 MaxLines = 2
  Filesystems = {"flash", "card"}
  Main = "flash"
  None = None
  BatchRows = 2 DrainMax = 2 Flow = "b"
  Readings <- R
  SensorRoom = 1 StorageRoom = 1 ExportRoom = 1
  Blocking = TRUE
  Lists <- MCLists
  Setups <- MCSetups
  Scenarios <- AllScens
SPECIFICATION PipelineSpec
INVARIANTS ErrorsLogged
CHECK_DEADLOCK FALSE
