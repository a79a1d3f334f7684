\* The stabilizer with the default channel configuration.
CONSTANTS
  ClockBits = 4
  TicksPerSecond = 2
  InitPeriodTicks = 2
  WatchdogTicks = 1
  IntegerTickDivision = FALSE
  MaxSampleLag = 1
  PitchMotor <- MCPitchMotor
  YawMotor <- MCYawMotor
  InitialStates <- MCZeroedState
SPECIFICATION Spec
INVARIANTS
  TypeOK
  SafeOutputs
  WatchdogFreshness
PROPERTIES
  ArmingWindow
  StaleSensorFaults
  ModesSpec
