SPECIFICATION FairSpec
CONSTANTS
  Clients = {c1}
  Fetchers = {g1}
  Funcs = {f1}
  Used = {"start", "stopNoClear", "setFrameNoClear"}
  NoFunc = NoFunc
  NoCaller = NoCaller
  MaxStarts = 1
  MaxSets = 1
  MaxReports = 1
INVARIANTS
  TypeOK
  ClosedIsQuiet
PROPERTIES
  EveryCallReturns
  ErrCloses
  WatcherEnds
  ContextEndsRun
