SPECIFICATION Spec
CONSTANTS
  Zero = 1
  Cap = 1
  Currents <- SmallCurrents
  Bleeds = {0}
  Artifacts = {}
  Hours = {1}
  MaxGap = 2
  Forget <- Slow
  Tau = 10
  Widths = 50
  Enough = 3
  MinSpan = 5
  None = None
  MaxFrames = 6
INVARIANTS
  AnchorBound
