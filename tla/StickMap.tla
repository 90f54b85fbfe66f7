------------------------------ MODULE StickMap ------------------------------
(***************************************************************************)
(* How a decoded channel becomes a speed: mapRC in src/motor/motor.cpp.    *)
(***************************************************************************)
EXTENDS Integers

CONSTANT
  Rounding        \* what Arduino's map() adds before it divides

\* Releases of the core either truncate or round to the nearest.
ASSUME RoundingAssumption == Rounding \in {0, 600}

DEAD_ZONE == 8
MIN_RC == 900
MAX_RC == 2100

Abs(x) == IF x < 0 THEN -x ELSE x

\* map(raw, MIN_RC, MAX_RC, -speed, speed) for raw in range and speed >= 0:
\* the dividend is not negative, so that C's quotient is \div.
Mapped(raw, speed) ==
  ((raw - MIN_RC) * (2 * speed) + Rounding) \div (MAX_RC - MIN_RC) - speed

NoSignal(raw) == raw < MIN_RC \/ raw > MAX_RC

\* Mutant of mapRC: pulses out of range are extrapolated.
mapRCUnchecked(raw, speed) ==
  IF Abs(Mapped(raw, speed)) < DEAD_ZONE THEN 0 ELSE Mapped(raw, speed)

mapRC(raw, speed) ==
  IF NoSignal(raw) \/ Abs(Mapped(raw, speed)) < DEAD_ZONE
  THEN 0
  ELSE Mapped(raw, speed)

=============================================================================
