SPECIFICATION Spec
CONSTANTS
  Styles <- DefaultSmooth
  Widths = {10, 15, 30}
  Totals = {10, 11}
INVARIANT FullAt100
