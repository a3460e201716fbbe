\* A ring of two, intervals of at most three instants; room for one group;
\* two hosts, the thresholds of the code.
SPECIFICATION MCSpec
CONSTANTS
  Tick = 1
  Cap = 2
  MaxGap = 3
  IntervalCap = 2
  Floor = 1
  MaxNow = 7
  Pids = {1, 2}
  Comms = {"a", "b"}
  MaxJiffies = 1
  SeriesCap = 2
  MaxGroups = 1
  MinSeries = 2
  MaxScans = 4
  Quarter = 4
  SlowPeriod = 2000
  Trains <- MCTrains
  None = None
  Reads <- MCReads
  Optional <- MCOptional
  Wraps = {"rapl"}
  WrapAt = 3
  Word = 8
  MaxCount = 2
  Phases = 8
  Match = 2
  Fade = 3
  MaxHeld = 2
  Frames = 2
  Shapes <- MCShapes
  Reports <- MCReports
  Width = 20
  Height = 3
  Markers <- MCMarkers
  Lengths <- MCLengths
  N = 2
  Hostname <- MCHostname
  Psi <- MCPsi
  Cpu <- MCCpu
  Reading <- MCReading
INVARIANTS SeriesUniform PeriodFound KnotsHeld BorderLegible
PROPERTIES WorstSinceLast SignalsMeasured TierMovesWithReadings TiersAreLatches
CHECK_DEADLOCK FALSE
