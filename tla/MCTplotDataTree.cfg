CONSTANTS
  Elements <- MCElements
  Root = 1
  RecordName <- MCRecordName
  Items <- MCItems
  IndexNames <- MCIndexNames
  MaxDrops = 1
  None = None

SPECIFICATION Spec

\* A drop that fails an assertion ends tplot2: no step follows it.
CHECK_DEADLOCK FALSE

INVARIANTS
  TypeOK
  TreeShowsValues
  DragTokensResolve
  PlotMatchesTree
