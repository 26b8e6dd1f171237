SPECIFICATION Spec
CONSTANTS
  Frames = {A, B}
  Empty = Empty
  NoFrame = NoFrame
  Used = {"start", "stopNoClear", "line"}
  Outcomes = {"ok"}
SYMMETRY Symmetry
INVARIANT KeptStays
