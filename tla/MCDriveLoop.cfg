CONSTANTS
  Rates <- MCRates
  Headings <- MCHeadings
  Sine <- MCSine
  DeadZone = 0
  TicksPerUpdate = 1
  MaxPending = 1
  Rounding = 0
  RcInputs <- MCRcInputs
SPECIFICATION Spec
INVARIANTS TypeOK NoWindUp TurnIsTheCommand HoldTurnsTheShortWay FieldDirection
PROPERTIES TurnReachesWheels NoneStops
