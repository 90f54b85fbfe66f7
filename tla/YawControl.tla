----------------------------- MODULE YawControl -----------------------------
(***************************************************************************)
(* The heading: src/imu/imu.cpp without the sensor's registers.  A timer   *)
(* interrupt raises ticks; imu_update, called from loop(), claims them     *)
(* under g_imu_mux and for each one integrates a gyro sample and computes  *)
(* the turn vr_final, by the PID controller or from the stick.             *)
(*                                                                         *)
(* Angles are tenths of a degree.  Each critical section is one step; what *)
(* lies between two of them touches nothing the interrupt touches, so that *)
(* one tick of imu_update is one step too.  hold_enabled and target_yaw,   *)
(* its copies of yaw_hold_enabled and yaw_target, need no variables: only  *)
(* its caller writes the originals, and not before it has returned.        *)
(***************************************************************************)
EXTENDS Integers

CONSTANTS
  Rates,          \* gz_c * DT, the turns a gyro sample may show
  DeadZone,       \* g_deadzone, in the same unit
  TicksPerUpdate, \* the most ticks one imu_update processes, 10
  MaxPending      \* bound on the ticks that wait

DEGREE == 10
CIRCLE == 360 * DEGREE

ASSUME RatesAssumption ==
  \A r \in Rates : r \in Int /\ -CIRCLE <= r /\ r <= CIRCLE
ASSUME DeadZoneAssumption == DeadZone \in Nat
ASSUME TicksAssumption == TicksPerUpdate \in Nat \ {0} /\ MaxPending \in Nat

VARIABLES
  imu_tick_pending,   \* ticks raised by the interrupt and not yet claimed
  ticks_to_process,   \* ticks claimed by the imu_update that runs
  yaw_angle,          \* the heading, also kept as g_imu.yaw
  yaw_target,
  yaw_hold_enabled,
  pid_integral,
  pid_prev_err,
  vr_final            \* the turn given to the wheels

tickVars == <<imu_tick_pending, ticks_to_process>>
targetVars == <<yaw_target, yaw_hold_enabled>>
pidVars == <<pid_integral, pid_prev_err>>
yawVars == <<tickVars, yaw_angle, targetVars, pidVars, vr_final>>

IsAngle(a) == a \in Int /\ -180 * DEGREE <= a /\ a <= 180 * DEGREE

\* The integral is kept within 50 degrees.
WINDUP == 50 * DEGREE

YawTypeOK ==
  /\ imu_tick_pending \in 0 .. MaxPending
  /\ ticks_to_process \in 0 .. TicksPerUpdate
  /\ IsAngle(yaw_angle)
  /\ IsAngle(yaw_target)
  /\ yaw_hold_enabled \in BOOLEAN
  /\ pid_integral \in Int /\ -WINDUP <= pid_integral /\ pid_integral <= WINDUP
  /\ IsAngle(pid_prev_err)
  /\ vr_final \in Int /\ -250 <= vr_final /\ vr_final <= 250

YawInit ==
  /\ imu_tick_pending = 0
  /\ ticks_to_process = 0
  /\ yaw_angle = 0
  /\ yaw_target = 0
  /\ yaw_hold_enabled = FALSE
  /\ pid_integral = 0
  /\ pid_prev_err = 0
  /\ vr_final = 0

-----------------------------------------------------------------------------
(* Arithmetic.                                                              *)

constrain(x, low, high) ==
  IF x < low THEN low ELSE IF x > high THEN high ELSE x

\* (int) of n / d, for d > 0.
Truncated(n, d) == IF n < 0 THEN -((-n) \div d) ELSE n \div d

\* Mutant of Wrapped: no way round over the lower end.
WrappedOnce(a) == IF a > 180 * DEGREE THEN a - CIRCLE ELSE a

\* The two ifs of imu_update, and the two while loops of compute_yaw_pid: the
\* difference of two angles is at most one turn off, so each turns only once.
Wrapped(a) ==
  IF a > 180 * DEGREE THEN a - CIRCLE
  ELSE IF a < -180 * DEGREE THEN a + CIRCLE ELSE a

\* The gains 3.0, 0.08 and 0.001, in thousandths, and what the controller's
\* output is counted in then.
KP == 3000
KI == 80
KD == 1
UNIT == 1000 * DEGREE

\* One sample: a rate within the dead zone does not turn the heading.
TurnedBy(rate) == IF rate > DeadZone \/ rate < -DeadZone THEN rate ELSE 0
\* Mutant of Integrated: noise within the dead zone is integrated too.
IntegratedNoise(rate) == Wrapped(yaw_angle + rate)

Integrated(rate) == Wrapped(yaw_angle + TurnedBy(rate))

-----------------------------------------------------------------------------
(* Steps.                                                                   *)

\* The timer interrupt, held off while loop() is in a critical section.
onImuTimer ==
  /\ imu_tick_pending < MaxPending
  /\ imu_tick_pending' = imu_tick_pending + 1
  /\ UNCHANGED <<ticks_to_process, yaw_angle, targetVars, pidVars, vr_final>>

\* Mutant of Claim: ticks beyond the limit are forgotten.
ClaimAndForget ==
  /\ ticks_to_process = 0
  /\ ticks_to_process' = constrain(imu_tick_pending, 0, TicksPerUpdate)
  /\ imu_tick_pending' = 0
  /\ UNCHANGED <<yaw_angle, targetVars, pidVars, vr_final>>

\* imu_update up to its loop: what it does not claim stays pending.
Claim ==
  /\ ticks_to_process = 0
  /\ ticks_to_process' = constrain(imu_tick_pending, 0, TicksPerUpdate)
  /\ imu_tick_pending' = imu_tick_pending - ticks_to_process'
  /\ UNCHANGED <<yaw_angle, targetVars, pidVars, vr_final>>

\* Mutant of compute_yaw_pid: the error is not brought within half a turn.
pid_long_way(current) ==
  LET err == yaw_target - current
      integral == constrain(pid_integral + err, -WINDUP, WINDUP)
      out == KP * err + KI * integral + KD * (err - pid_prev_err)
  IN  /\ pid_integral' = integral
      /\ pid_prev_err' = err
      /\ vr_final' = Truncated(constrain(-out, -250 * UNIT, 250 * UNIT), UNIT)

\* compute_yaw_pid(yaw_target, current): what it stores, and vr_final.
compute_yaw_pid(current) ==
  LET err == Wrapped(yaw_target - current)
      integral == constrain(pid_integral + err, -WINDUP, WINDUP)
      out == KP * err + KI * integral + KD * (err - pid_prev_err)
  IN  /\ pid_integral' = integral
      /\ pid_prev_err' = err
      /\ vr_final' = Truncated(constrain(-out, -250 * UNIT, 250 * UNIT), UNIT)

\* One turn of the loop in imu_update(vr_cmd), on one gyro sample.
ProcessTick(vr_cmd, rate) ==
  /\ ticks_to_process > 0
  /\ ticks_to_process' = ticks_to_process - 1
  /\ yaw_angle' = Integrated(rate)
  /\ IF yaw_hold_enabled
     THEN compute_yaw_pid(yaw_angle')
     ELSE vr_final' = vr_cmd /\ UNCHANGED pidVars
  /\ UNCHANGED <<imu_tick_pending, targetVars>>

=============================================================================
