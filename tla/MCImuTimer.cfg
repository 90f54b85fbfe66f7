CONSTANTS
  Rates <- MCRates
  DeadZone = 1
  TicksPerUpdate = 2
  MaxPending = 4
  Commands <- MCCommands
  MaxTicks = 6
SPECIFICATION Spec
INVARIANTS TypeOK TicksConserved HeadingIsIntegral
PROPERTY BacklogDrains
