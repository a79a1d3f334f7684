SPECIFICATION Spec
CONSTANTS
  Axes = {0, 1, 2}
  MaxPlots = 3
  MaxAdds = 5
  NoPlot = NoPlot
  Markers = {0, 3}
INVARIANT
  NoUndefinedErase
