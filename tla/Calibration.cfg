SPECIFICATION Spec
CONSTANTS
  Serials = {1}
  Zero <- OneZero
  Fits <- AnyFit
  Remaining = {0, 2}
  Hints = {0, 4}
  Enough = 2
  Configs <- Reconfigured
  SpanCap = 4
INVARIANTS
  TypeOK
  CorrectionsEarned
  HoldTells
PROPERTIES
  HeldKeepsLastGood
