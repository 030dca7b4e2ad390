SPECIFICATION Spec
CONSTANTS
  Serials = {1}
  Zero <- OneZero
  Fits <- CleanFit
  Remaining = {2}
  Hints = {0}
  Enough = 3
  Configs <- PutOnWatch
  SpanCap = 5
INVARIANTS
  ObserveOnly
