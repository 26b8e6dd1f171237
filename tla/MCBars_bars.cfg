SPECIFICATION Spec
CONSTANTS
  Styles <- MCStyles
  Widths <- MCWidths
  Totals = {0, 1, 5, 11}
INVARIANTS
  TypeOK
  FitsTerminal
  ConstantWidth
  LeftMirrorsRight
  FullMeansDone
  PercentHonest
PROPERTY NeverBackwards
