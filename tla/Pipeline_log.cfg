\* Three readings, two of them of one metric; queues of one or two, batches of
\* two rows, a file of three, one trouble or two of a kind.
CONSTANTS
  Metrics = {"a", "b"}
  Modes = {"avg", "max"}
  Avg = "avg"
  Layouts = {"x", "y"}
  MaxCols = 2 MaxListed = 3 MaxRows = 2 MaxLines = 2
  Filesystems = {"flash", "card"}
  Main = "flash"
  None = None
  BatchRows = 2 DrainMax = 2 Flow = "b"
  Readings <- R
  SensorRoom = 1 StorageRoom = 1 ExportRoom = 1
  Blocking = TRUE
  Lists <- MCLists
  Setups <- MCSetups
  Scenarios <- AllScens
SPECIFICATION PipelineSpec
INVARIANTS RowsMatchHeader FlushCovers ReadingAccounted
CHECK_DEADLOCK FALSE
