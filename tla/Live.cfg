SPECIFICATION FairSpec
CONSTANTS
  Workers <- TwoWorkers
  Serials <- TwoSerials
  MaxDevices = 0
  Deltas = {0, 1}
  CarriedOver <- NoCarriedFile
  Faults = {"kill", "write", "unreadable"}
  DirSyncOutcomes = {"ok", "failed"}
  MaxTotal = 1
  MaxRestarts = 2
INVARIANTS
  Conservation
  WriteAhead
PROPERTIES
  DeltaReachesMetrics
