SPECIFICATION Spec
CONSTANTS
  Workers <- OneWorker
  Serials <- OneSerial
  MaxDevices = 0
  Deltas <- SmallDeltas
  CarriedOver <- NoCarriedFile
  Faults = {"kill", "power"}
  DirSyncOutcomes = {"ok"}
  MaxTotal = 4
  MaxRestarts = 3
PROPERTIES
  CountersNeverGoBack
