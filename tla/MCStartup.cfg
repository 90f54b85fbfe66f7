CONSTANTS
  Readings <- MCReadings
  Samples = 3
  NoiseSamples = 3
  Limit = 2
  ResetTimes <- MCResetTimes
  SettleTimes <- MCSettleTimes
SPECIFICATION Spec
INVARIANTS TypeOK SensorReady OffsetIsMean DeadZoneIsThreeSigma
PROPERTY SetupEnds
\* setup() is over, or waits for ever without a sensor.
CHECK_DEADLOCK FALSE
