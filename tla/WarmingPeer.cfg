SPECIFICATION Spec
CONSTANTS
  Serials = {1, 2}
  Zero <- TwoZeros
  Fits <- CleanFit
  Remaining = {2}
  Hints = {0}
  Enough = 3
  Configs <- Slow
  SpanCap = 5
CONSTRAINT NothingSaved
PROPERTIES
  VetoBetweenEligible
