SPECIFICATION Spec
CONSTANTS
  Widths = {1, 3}
  Sources = {"signal"}
  MaxResizes = 1
  Frames = {2, 3}
  Outcomes = {"ok"}
INVARIANT EveryRowCleared
