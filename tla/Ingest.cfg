SPECIFICATION Spec
CONSTANTS
  Handlers = {h1, h2}
  Serials = {s1, s2}
  CellSets <- SampleCellSets
  Identities = {d1}
  NoIdentity = none
  Machines = {m1}
  Caps = {0, 1, 2}
  MaxPublished = 1
  MaxEntries = 2
  NotHex = NotHex
  Absent = Absent
  MaxCurrent = 1000
  PackVolts <- VoltWindow
SYMMETRY Symmetry
INVARIANTS
  TypeOK
  CardinalityBound
  EveryEntryCounted
  CellSeriesFollowFrames
  OneInfoSeries
  PeerSeriesFollowReports
  SeriesInSlots
