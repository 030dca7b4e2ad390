SPECIFICATION Spec
CONSTANTS
  Serials = {1, 2, 3}
  Zero <- ThreeZeros
  Fits <- CleanFit
  Remaining = {1}
  Hints = {0}
  Enough = 1
  Configs <- Fixed
  SpanCap = 1
CONSTRAINT YoungFile
INVARIANTS
  PairsTracked
PROPERTIES
  EveryPeerCanVeto
  VetoesAreFounded
