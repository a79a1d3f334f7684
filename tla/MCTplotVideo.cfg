SPECIFICATION Spec
CONSTANTS
  Files <- MCFiles
  Times = {0, 1, 2, 3, 4, 5}
  SecondUnits = 1
  CodecDelay = 1
  NoTime = NoTime
INVARIANTS
  TypeOK
  NoFrameSkipped
