-------------------------- MODULE YawControlProofs --------------------------
(***************************************************************************)
(* The arithmetic of imu_update and compute_yaw_pid, for every sample,     *)
(* dead zone and stored state: ranges, whole turns, and the way that the   *)
(* controller turns.                                                       *)
(***************************************************************************)
EXTENDS YawControl, TLAPS

-----------------------------------------------------------------------------
(* Arithmetic.                                                              *)

(* The two ifs bring whatever is less than one and a half turns off back    *)
(* within half a turn.                                                      *)
LEMMA WrappedAngle ==
  ASSUME NEW a \in Int, -540 * DEGREE <= a, a <= 540 * DEGREE
  PROVE  IsAngle(Wrapped(a))
BY DEF IsAngle, Wrapped, CIRCLE, DEGREE

(* One tick keeps the heading within half a turn, on any sample.            *)
LEMMA IntegratedAngle ==
  ASSUME IsAngle(yaw_angle), NEW rate \in Rates
  PROVE  /\ IsAngle(Integrated(rate))
         /\ TurnedBy(rate) \in Int
<1>1. rate \in Int /\ -CIRCLE <= rate /\ rate <= CIRCLE
  BY RatesAssumption
<1>2. /\ TurnedBy(rate) \in Int
      /\ -CIRCLE <= TurnedBy(rate) /\ TurnedBy(rate) <= CIRCLE
  BY <1>1 DEF TurnedBy, CIRCLE, DEGREE
<1> QED BY <1>2, WrappedAngle DEF Integrated, IsAngle, CIRCLE, DEGREE

(* Saturated and truncated, the controller's answer is a legal speed.       *)
LEMMA OutputRange ==
  ASSUME NEW out \in Int
  PROVE  LET v == Truncated(constrain(out, -250 * UNIT, 250 * UNIT), UNIT)
         IN  v \in Int /\ -250 <= v /\ v <= 250
BY DEF Truncated, constrain, UNIT, DEGREE

(* One run of compute_yaw_pid, from any stored state.                       *)
LEMMA PidRange ==
  ASSUME IsAngle(yaw_target), IsAngle(pid_prev_err), pid_integral \in Int,
         NEW current, IsAngle(current), compute_yaw_pid(current)
  PROVE  /\ pid_integral' \in Int
         /\ -WINDUP <= pid_integral' /\ pid_integral' <= WINDUP
         /\ IsAngle(pid_prev_err')
         /\ vr_final' \in Int /\ -250 <= vr_final' /\ vr_final' <= 250
<1> DEFINE err == Wrapped(yaw_target - current)
           integral == constrain(pid_integral + err, -WINDUP, WINDUP)
           out == KP * err + KI * integral + KD * (err - pid_prev_err)
<1>1. IsAngle(err)
  BY WrappedAngle DEF IsAngle, DEGREE
<1>2. integral \in Int /\ -WINDUP <= integral /\ integral <= WINDUP
  BY <1>1 DEF constrain, IsAngle, WINDUP, DEGREE
<1>3. out \in Int
  BY <1>1, <1>2 DEF KP, KI, KD, IsAngle, DEGREE
<1>4. /\ pid_integral' = integral
      /\ pid_prev_err' = err
      /\ vr_final' = Truncated(constrain(-out, -250 * UNIT, 250 * UNIT), UNIT)
  BY DEF compute_yaw_pid
<1> HIDE DEF err, integral, out
<1> QED BY <1>1, <1>2, <1>3, <1>4, OutputRange

(* Wrapping takes off or adds whole turns only.                             *)
LEMMA WrappedTurns ==
  ASSUME NEW a \in Int
  PROVE  Wrapped(a) \in {a, a - CIRCLE, a + CIRCLE}
BY DEF Wrapped

(* The yaw hold turns the robot back the short way round: an error of two   *)
(* degrees or more outweighs whatever integral and derivative say, and a    *)
(* positive one is answered by a turn to the left, that is a negative one.  *)
THEOREM HoldTurnsBack ==
  ASSUME IsAngle(yaw_target), IsAngle(pid_prev_err), pid_integral \in Int,
         NEW current, IsAngle(current), compute_yaw_pid(current)
  PROVE  /\ Wrapped(yaw_target - current) >= 2 * DEGREE => vr_final' < 0
         /\ Wrapped(yaw_target - current) <= -2 * DEGREE => vr_final' > 0
<1> DEFINE err == Wrapped(yaw_target - current)
           integral == constrain(pid_integral + err, -WINDUP, WINDUP)
           out == KP * err + KI * integral + KD * (err - pid_prev_err)
<1>1. IsAngle(err)
  BY WrappedAngle DEF IsAngle, DEGREE
<1>2. integral \in Int /\ -WINDUP <= integral /\ integral <= WINDUP
  BY <1>1 DEF constrain, IsAngle, WINDUP, DEGREE
<1>3. vr_final' = Truncated(constrain(-out, -250 * UNIT, 250 * UNIT), UNIT)
  BY DEF compute_yaw_pid
<1>4. /\ out \in Int
      /\ err >= 2 * DEGREE => out >= UNIT
      /\ err <= -2 * DEGREE => out <= -UNIT
  <2> HIDE DEF err, integral
  <2> QED BY <1>1, <1>2 DEF KP, KI, KD, IsAngle, WINDUP, UNIT, DEGREE
<1> HIDE DEF err, integral, out
<1>5. /\ err >= 2 * DEGREE => vr_final' < 0
      /\ err <= -2 * DEGREE => vr_final' > 0
  BY <1>3, <1>4 DEF Truncated, constrain, UNIT, DEGREE
<1> QED BY <1>5 DEF err

=============================================================================
