--------------------------- MODULE ImuTimerProofs ---------------------------
(***************************************************************************)
(* The timer and imu_update, for every set of samples, limit and dead      *)
(* zone: heading, integral and turn stay in range, no tick is lost, and    *)
(* the heading is the integral of the samples.                             *)
(***************************************************************************)
EXTENDS ImuTimer, YawControlProofs

-----------------------------------------------------------------------------
(* The invariant: types and ranges, the balance of the ticks, and the       *)
(* heading up to whole turns.                                               *)

TimerInv == TypeOK /\ TicksConserved /\ HeadingIsIntegral

(* It holds when the controller is switched on.                             *)
LEMMA InitInv == Init => TimerInv
<1> SUFFICES ASSUME Init PROVE TimerInv
  OBVIOUS
<1>1. yaw_hold_enabled \in BOOLEAN
  BY DEF Init, YawInit
<1>2. /\ imu_tick_pending = 0 /\ ticks_to_process = 0 /\ yaw_angle = 0
      /\ yaw_target = 0 /\ pid_integral = 0 /\ pid_prev_err = 0 /\ vr_final = 0
      /\ vr_cmd = 0 /\ raised = 0 /\ processed = 0 /\ turned = 0
  BY DEF Init, YawInit
<1> QED
  BY <1>1, <1>2, TicksAssumption
     DEF IsAngle, DEGREE, CIRCLE, WINDUP, TimerInv, TypeOK, YawTypeOK, TicksConserved,
         HeadingIsIntegral

(* It holds after every step: the interrupt and the claim move ticks from   *)
(* one account to the next, and only a tick touches heading and controller. *)
LEMMA NextInv ==
  ASSUME TimerInv, [Next]_vars
  PROVE  TimerInv'
<1> USE DEF TimerInv, IsAngle, DEGREE, CIRCLE, WINDUP
<1>1. CASE Interrupt
  BY <1>1, TicksAssumption
     DEF Interrupt, onImuTimer, targetVars, pidVars, TypeOK, YawTypeOK,
         TicksConserved, HeadingIsIntegral
<1>2. CASE Steer
  BY <1>2, CommandsAssumption
     DEF Steer, tickVars, TypeOK, YawTypeOK, TicksConserved, HeadingIsIntegral
<1>3. CASE Update
  BY <1>3, TicksAssumption
     DEF Update, Claim, constrain, targetVars, pidVars, TypeOK, YawTypeOK,
         TicksConserved, HeadingIsIntegral
<1>4. CASE Tick
  <2>1. PICK rate \in Rates :
          /\ ProcessTick(vr_cmd, rate)
          /\ processed' = processed + 1
          /\ turned' = turned + TurnedBy(rate)
          /\ UNCHANGED <<vr_cmd, raised>>
    BY <1>4 DEF Tick
  <2>2. IsAngle(yaw_angle') /\ turned' \in Int
    BY <2>1, IntegratedAngle DEF ProcessTick, TypeOK, YawTypeOK
  <2>3. /\ pid_integral' \in Int /\ -WINDUP <= pid_integral' /\ pid_integral' <= WINDUP
        /\ IsAngle(pid_prev_err')
        /\ vr_final' \in Int /\ -250 <= vr_final' /\ vr_final' <= 250
    <3>1. CASE yaw_hold_enabled
      BY <2>1, <2>2, <3>1, PidRange DEF ProcessTick, TypeOK, YawTypeOK
    <3>2. CASE ~ yaw_hold_enabled
      BY <2>1, <3>2 DEF ProcessTick, pidVars, TypeOK, YawTypeOK
    <3> QED BY <3>1, <3>2
  <2>4. HeadingIsIntegral'
    <3>1. TurnedBy(rate) \in Int /\ yaw_angle \in Int /\ turned \in Int
      BY IntegratedAngle DEF TypeOK, YawTypeOK
    <3>2. yaw_angle' \in {yaw_angle + TurnedBy(rate),
                          yaw_angle + TurnedBy(rate) - CIRCLE,
                          yaw_angle + TurnedBy(rate) + CIRCLE}
      BY <2>1, <3>1, WrappedTurns DEF ProcessTick, Integrated
    <3> QED BY <2>1, <3>1, <3>2 DEF HeadingIsIntegral
  <2> QED
    BY <2>1, <2>2, <2>3, <2>4, TicksAssumption
       DEF ProcessTick, targetVars, TypeOK, YawTypeOK, TicksConserved
<1>5. CASE UNCHANGED vars
  BY <1>5
     DEF vars, yawVars, tickVars, targetVars, pidVars, TypeOK, YawTypeOK,
         TicksConserved, HeadingIsIntegral
<1> QED BY <1>1, <1>2, <1>3, <1>4, <1>5 DEF Next

(* The invariant holds throughout.                                          *)
THEOREM Invariance == Spec => []TimerInv
<1>1. Init => TimerInv
  BY InitInv
<1>2. TimerInv /\ [Next]_vars => TimerInv'
  BY NextInv
<1> QED BY <1>1, <1>2, PTL DEF Spec

(* Whatever the sensor measures and the pilot does, the heading stays       *)
(* within half a turn, the integral within 50 and the turn within 250.      *)
THEOREM TypeCorrect == Spec => []TypeOK
<1>1. TimerInv => TypeOK
  BY DEF TimerInv
<1> QED BY <1>1, Invariance, PTL

(* No tick is lost or counted twice between the interrupt and imu_update,   *)
(* for every limit on the ticks that one update processes.                  *)
THEOREM NoTickLost == Spec => []TicksConserved
<1>1. TimerInv => TicksConserved
  BY DEF TimerInv
<1> QED BY <1>1, Invariance, PTL

(* The heading is the integral of all samples beyond the dead zone, however *)
(* often it wrapped, either way round: no correction drifts.                *)
THEOREM HeadingCorrect == Spec => []HeadingIsIntegral
<1>1. TimerInv => HeadingIsIntegral
  BY DEF TimerInv
<1> QED BY <1>1, Invariance, PTL

=============================================================================
