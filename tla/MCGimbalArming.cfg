\* Spec section 8: arming one period after the first good sample.
CONSTANTS
  ClockBits = 4
  TicksPerSecond = 2
  InitPeriodTicks = 2
  WatchdogTicks = 1
  IntegerTickDivision = FALSE
  MaxSampleLag = 1
  PitchMotor <- MCPitchMotor
  YawMotor <- MCYawMotor
  InitialStates <- MCZeroedState
SPECIFICATION Spec
PROPERTY ArmsAfterPeriod
