SPECIFICATION Spec
CONSTANTS
  Frames = {A, B}
  Empty = Empty
  NoFrame = NoFrame
  Used = {"start", "stop", "stopNoClear", "setFrame", "setFrameNoClear", "tick", "text", "line", "nothing", "close"}
  Outcomes = {"ok"}
SYMMETRY Symmetry
INVARIANTS
  ShownIsFrame
  StoppedLeavesNothing
PROPERTIES
  NoClearKeeps
  StartDraws
  WriteDrawsBack
