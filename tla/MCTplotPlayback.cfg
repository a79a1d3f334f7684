SPECIFICATION Spec
CONSTANTS
  Records <- MCRecords
  Logs <- MCLogs
  SecondUnits = 1
  Dts = {0, 1, 2}
  StepValues <- MCStepValues
  SpeedValues <- MCSpeedValues
  DefaultStep = 1
  DefaultSpeed = 2
  TimeSlack = 2
  NoTime = NoTime
INVARIANTS
  TypeOK
  TreeShowsLatest
