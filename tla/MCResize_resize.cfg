SPECIFICATION FairSpec
CONSTANTS
  Widths = {0, 1, 3}
  Sources = {"signal", "poll", "channel"}
  MaxResizes = 1
  Frames = {2, 3}
  Outcomes = {"ok", "none"}
INVARIANTS
  TypeOK
  ShownIsCropped
  
  ResizeOnItsWay
PROPERTIES
  WidthArrives
  SourcesEnd
