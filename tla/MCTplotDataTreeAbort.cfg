CONSTANTS
  Elements <- MCElements
  Root = 1
  RecordName <- MCRecordName
  Items <- MCItems
  IndexNames <- MCIndexNames
  MaxDrops = 1
  None = None

SPECIFICATION Spec

INVARIANT NoAbortOnDrop
