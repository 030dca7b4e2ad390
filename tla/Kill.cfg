SPECIFICATION Spec
CONSTANTS
  Workers <- OneWorker
  Serials <- ThreeSerials
  MaxDevices = 2
  Deltas <- SmallDeltas
  CarriedOver <- CarriedTotals
  Faults = {"kill", "write", "serialize"}
  DirSyncOutcomes = {"ok", "failed", "skipped"}
  MaxTotal = 5
  MaxRestarts = 2
INVARIANTS
  TypeOK
  NoPhantom
  InStep
  CapHolds
  OneAttemptPerInterval
PROPERTIES
  CountersNeverGoBack
  FreshnessStampIsHonest
