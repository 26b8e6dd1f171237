SPECIFICATION Spec
CONSTANTS
  Frames = {A}
  Empty = Empty
  NoFrame = NoFrame
  Used = {"start", "stop", "stopNoClear", "setFrame", "setFrameNoClear", "tick", "text", "line", "nothing", "close"}
  Outcomes = {"ok", "none", "part"}
INVARIANTS
  TypeOK
  DataSafe
