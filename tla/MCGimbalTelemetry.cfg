\* A watchdog fault is never published when the sensor has gone quiet.
CONSTANTS
  ClockBits = 4
  TicksPerSecond = 2
  InitPeriodTicks = 2
  WatchdogTicks = 1
  IntegerTickDivision = FALSE
  MaxSampleLag = 1
  PitchMotor <- MCPitchMotor
  YawMotor <- MCYawMotor
  InitialStates <- MCZeroedState
SPECIFICATION Spec
PROPERTY FaultIsPublished
