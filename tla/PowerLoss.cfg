SPECIFICATION Spec
CONSTANTS
  Workers <- OneWorker
  Serials <- TwoSerials
  MaxDevices = 0
  Deltas <- SmallDeltas
  CarriedOver <- CarriedTotals
  Faults = {"power"}
  DirSyncOutcomes = {"ok"}
  MaxTotal = 5
  MaxRestarts = 3
INVARIANTS
  WriteAhead
  ShutdownWritesEverything
  LossIsOneWindow
PROPERTIES
  PromiseSpec
