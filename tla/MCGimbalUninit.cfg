\* Data::state read uninitialised at construction.
CONSTANTS
  ClockBits = 4
  TicksPerSecond = 2
  InitPeriodTicks = 2
  WatchdogTicks = 1
  IntegerTickDivision = FALSE
  MaxSampleLag = 1
  PitchMotor <- MCPitchMotor
  YawMotor <- MCYawMotor
  InitialStates <- MCAnyState
SPECIFICATION Spec
PROPERTY DrivenOnlyAfterArming
