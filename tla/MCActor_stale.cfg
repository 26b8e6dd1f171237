SPECIFICATION Spec
CONSTANTS
  Clients = {c1}
  Fetchers = {g1}
  Funcs = {f1}
  Used = {"start", "stop"}
  NoFunc = NoFunc
  NoCaller = NoCaller
  MaxStarts = 2
  MaxSets = 0
  MaxReports = 0
PROPERTIES
  OwnContextOnly
