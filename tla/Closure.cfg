SPECIFICATION Spec
CONSTANTS
  Zero = 1
  Cap = 1
  Currents <- SmallCurrents
  Bleeds = {0, 1}
  Artifacts <- SmallArtifacts
  Hours = {1, 3}
  MaxGap = 2
  Forget <- Fast
  Tau = 2
  Widths = 1
  Enough = 2
  MinSpan = 0
  None = None
  MaxFrames = 4
CONSTRAINT StillTelling
INVARIANTS
  HonestGaugeClosesExactly
  GaugeErrorBound
