SPECIFICATION Spec
CONSTANTS
  Sizes = {1, 2}
  Mods = {0, 1, 2}
  Widths = {0, 4}
  NoFrame = NoFrame
  MaxCalls = 3
  MaxTime = 1
  Contexts = {c1, c2}
  Nil = Nil
  MaxOptions = 3
SYMMETRY Symmetry
INVARIANTS
  TypeOK
  CycleIsRegular
  JoinShowsLatest
  StreamsSafe
  OptionsApply
PROPERTIES
  DrawIsHeld
  CroppedToFit
CHECK_DEADLOCK FALSE
