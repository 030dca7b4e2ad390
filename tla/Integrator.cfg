SPECIFICATION Spec
CONSTANTS
  NaN = NaN
  PosInf = PosInf
  NegInf = NegInf
  None = None
  Readings <- EdgeReadings
  Offsets <- SmallOffsets
  TimeSteps = {60, 4000}
  Jumps <- Adjustments
  Files <- StartFiles
  MaxFrames = 3
  MaxJumps = 1
  MaxStarts = 2
INVARIANTS
  ClockJumpsCostOneGapEach
  EnergyMissesOnlyNeighbours
  CalibratedIsRawLessOffset
  UnwarnedNeverClamps
  RunsOnSaneConfig
PROPERTIES
  EstimatorIntegratesTheSame
