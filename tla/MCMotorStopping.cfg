CONSTANTS
  Motions <- MCMotions
  LiftSpeeds <- MCLiftSpeeds
  decayMode = 1
SPECIFICATION Spec
INVARIANTS BackwardsOnlyWhenAsked
