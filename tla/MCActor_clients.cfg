SPECIFICATION Spec
CONSTANTS
  Clients = {c1, c2}
  Fetchers = {}
  Funcs = {f1, f2}
  Used = {"start", "stop", "setFrame", "setTicker"}
  NoFunc = NoFunc
  NoCaller = NoCaller
  MaxStarts = 2
  MaxSets = 1
  MaxReports = 0
SYMMETRY Symmetry
PROPERTIES
  StopReplyMeansStopped
  CallsLinearize
