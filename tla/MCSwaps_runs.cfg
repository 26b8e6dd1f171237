SPECIFICATION SwapSpec
CONSTANTS
  Clients = {c1}
  Fetchers = {g1, g2}
  Funcs = {f1, f2}
  Used = {"start", "stopNoClear", "setFrameNoClear"}
  NoFunc = NoFunc
  NoCaller = NoCaller
  MaxStarts = 2
  MaxSets = 2
  MaxReports = 1
SYMMETRY Symmetry
INVARIANTS
  FrameFuncExclusive
  InFlightIsOwed
  WatcherCanLeave
  FailedStartIsOver
PROPERTIES
  OvertakenIsDropped
