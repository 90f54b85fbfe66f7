CONSTANTS
  Pads <- MCPads
  Clock = 5
  RefreshPeriod = 2
  Longest = 2
SPECIFICATION Spec
INVARIANTS TypeOK RefreshInTime
PROPERTIES OncePerPress PressObeyed PulsesFollow LiftFollows
