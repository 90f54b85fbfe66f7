-------------------------- MODULE DriveLoopProofs ---------------------------
(***************************************************************************)
(* loop() against the timer, for every set of frames, every limit of       *)
(* imu_update and every dead zone: types and ranges, turns by hand, the    *)
(* yaw hold and headless driving.                                          *)
(***************************************************************************)
EXTENDS DriveLoop, YawControlProofs

-----------------------------------------------------------------------------
(* Bounds and order of the speeds that sticks map to.                       *)

(* In range, map() stays within the full speed and grows with the stick,    *)
(* whether it truncates or rounds.                                          *)
LEMMA MappedRange ==
  ASSUME NEW raw \in Nat, NEW full \in Nat, ~ NoSignal(raw)
  PROVE  /\ Mapped(raw, full) \in Int
         /\ -full <= Mapped(raw, full) /\ Mapped(raw, full) <= full
<1> DEFINE n == (raw - MIN_RC) * (2 * full)
<1>1. raw - MIN_RC \in Nat /\ raw - MIN_RC <= 1200
  BY DEF NoSignal, MIN_RC, MAX_RC
<1>2. n \in Nat /\ n <= 1200 * (2 * full)
  <2> DEFINE x == raw - MIN_RC
  <2>1. x \in Nat /\ x <= 1200
    BY <1>1
  <2> HIDE DEF x
  <2>2. \A d, s \in Nat : d * s \in Nat /\ (d <= 1200 => d * s <= 1200 * s)
    OBVIOUS
  <2> QED BY <2>1, <2>2 DEF x
<1>3. Mapped(raw, full) = (n + Rounding) \div 1200 - full
  BY DEF Mapped, MIN_RC, MAX_RC
<1> HIDE DEF n
<1> QED BY <1>2, <1>3, RoundingAssumption

(* Whatever a channel decodes to, the stick never asks for more than the    *)
(* speed selected, in either direction (mapRC).                             *)
THEOREM MapWithinSpeed ==
  ASSUME NEW raw \in Nat, NEW full \in Nat
  PROVE  /\ mapRC(raw, full) \in Int
         /\ -full <= mapRC(raw, full) /\ mapRC(raw, full) <= full
BY MappedRange DEF mapRC

(* Pushing a stick further never slows the robot down, as long as the       *)
(* channel stays in range (mapRC); the dead zone included.                  *)
THEOREM MapMonotone ==
  ASSUME NEW a \in Nat, NEW b \in Nat, NEW full \in Nat, a <= b,
         ~ NoSignal(a), ~ NoSignal(b)
  PROVE  mapRC(a, full) <= mapRC(b, full)
<1>1. Mapped(a, full) <= Mapped(b, full)
  <2> DEFINE x == a - MIN_RC
             y == b - MIN_RC
             m == x * (2 * full)
             n == y * (2 * full)
  <2>1. x \in Nat /\ y \in Nat /\ x <= y
    BY DEF NoSignal, MIN_RC
  <2>2. m \in Nat /\ n \in Nat /\ m <= n
    <3> HIDE DEF x, y
    <3>1. \A c, d, s \in Nat :
            c * s \in Nat /\ d * s \in Nat /\ (c <= d => c * s <= d * s)
      OBVIOUS
    <3> QED BY <2>1, <3>1
  <2>3. /\ Mapped(a, full) = (m + Rounding) \div 1200 - full
        /\ Mapped(b, full) = (n + Rounding) \div 1200 - full
    BY DEF Mapped, MIN_RC, MAX_RC
  <2> HIDE DEF m, n
  <2> QED BY <2>2, <2>3, RoundingAssumption
<1>2. Mapped(a, full) \in Int /\ Mapped(b, full) \in Int
  BY MappedRange
<1> QED BY <1>1, <1>2 DEF mapRC, Abs, DEAD_ZONE

-----------------------------------------------------------------------------
(* Types and ranges.                                                        *)

(* Whatever is switched, the speed is one of those that loop() knows.       *)
LEMMA SpeedTyped ==
  ASSUME speed \in {0, 114, 164, 250}, NEW v
  PROVE  SwitchedSpeed(v) \in {0, 114, 164, 250}
<1>1. \/ SwitchedSpeed(v) = 114
      \/ SwitchedSpeed(v) = 164
      \/ SwitchedSpeed(v) = 250
      \/ SwitchedSpeed(v) = speed
  BY DEF SwitchedSpeed
<1> QED BY <1>1

(* A stick asks for no more than the fastest speed.                         *)
LEMMA StickTyped ==
  ASSUME NEW raw \in Nat, NEW s \in {0, 114, 120, 164, 250}
  PROVE  IsSpeed(mapRC(raw, s))
<1>1. s \in Nat /\ s <= 250
  OBVIOUS
<1>2. mapRC(raw, s) \in Int /\ -s <= mapRC(raw, s) /\ mapRC(raw, s) <= s
  BY <1>1, MapWithinSpeed
<1> QED BY <1>1, <1>2 DEF IsSpeed

(* A speed times a sine, or a cosine.                                       *)
LEMMA SpeedTimes ==
  ASSUME NEW x, IsSpeed(x), NEW c \in Int
  PROVE  x * c \in Int /\ Abs(x * c) <= 250 * Abs(c)
<1>1. x \in Int /\ -250 <= x /\ x <= 250
  BY DEF IsSpeed
<1>2. CASE c >= 0
  <2>1. -250 * c <= x * c /\ x * c <= 250 * c
    BY <1>1, <1>2
  <2> QED BY <1>1, <1>2, <2>1 DEF Abs
<1>3. CASE c < 0
  <2>1. 250 * c <= x * c /\ x * c <= -250 * c
    BY <1>1, <1>3
  <2> QED BY <1>1, <1>3, <2>1 DEF Abs
<1> QED BY <1>2, <1>3

(* What is assumed of sine and cosine, for one angle.                       *)
LEMMA SineFacts ==
  ASSUME NEW a \in 0 .. CIRCLE - 1
  PROVE  /\ Cosine(a) \in Int /\ Abs(Cosine(a)) <= ONE
         /\ Sine[a] \in Int /\ Abs(Sine[a]) <= ONE
         /\ IsUnit(Cosine(a), Sine[a])
<1>1. (a + 90 * DEGREE) % CIRCLE \in 0 .. CIRCLE - 1
  BY DEF CIRCLE, DEGREE
<1>2. Cosine(a) \in -ONE .. ONE /\ Sine[a] \in -ONE .. ONE
  BY <1>1, SineAssumption DEF Cosine
<1>3. \A x \in -ONE .. ONE : x \in Int /\ Abs(x) <= ONE
  BY DEF Abs, ONE
<1>4. IsUnit(Cosine(a), Sine[a])
  BY SineAssumption
<1>5. /\ Cosine(a) \in Int /\ Abs(Cosine(a)) <= ONE
      /\ Sine[a] \in Int /\ Abs(Sine[a]) <= ONE
  BY <1>2, <1>3, Zenon
<1> QED BY <1>4, <1>5

(* The code's own angle is one that has a sine.                             *)
LEMMA ReducedAngle ==
  ASSUME NEW delta \in Int
  PROVE  Reduced(delta) \in 0 .. CIRCLE - 1
BY DEF Reduced, Wrapped, CIRCLE, DEGREE

(* Turning the stick vector makes its parts longer by no more than the root *)
(* of two.                                                                  *)
LEMMA RotatedTyped ==
  ASSUME NEW x, NEW y, NEW delta \in Int, IsSpeed(x), IsSpeed(y),
         NEW v \in Rotated(x, y, delta)
  PROVE  IsTurnedSpeed(v[1]) /\ IsTurnedSpeed(v[2])
<1> DEFINE c == Cosine(Reduced(delta))
           s == Sine[Reduced(delta)]
<1>1. c \in Int /\ s \in Int /\ Abs(c) + Abs(s) <= 14200
  BY ReducedAngle, SineFacts DEF IsUnit
<1>2. v[1] \in Short(x * c - y * s) /\ v[2] \in Short(x * s + y * c)
  BY DEF Rotated
<1> HIDE DEF c, s
<1>3. /\ x * c \in Int /\ Abs(x * c) <= 250 * Abs(c)
      /\ y * s \in Int /\ Abs(y * s) <= 250 * Abs(s)
      /\ x * s \in Int /\ Abs(x * s) <= 250 * Abs(s)
      /\ y * c \in Int /\ Abs(y * c) <= 250 * Abs(c)
  BY <1>1, SpeedTimes
<1>4. \A p, q, a, b \in Int :
        Abs(p) <= 250 * Abs(a) /\ Abs(q) <= 250 * Abs(b)
          /\ Abs(a) + Abs(b) <= 14200
        => Abs(p - q) <= 3550000 /\ Abs(p + q) <= 3550000
  BY DEF Abs
<1>5. /\ x * c - y * s \in Int /\ Abs(x * c - y * s) <= 3550000
      /\ x * s + y * c \in Int /\ Abs(x * s + y * c) <= 3550000
  <2>1. Abs(x * c - y * s) <= 3550000
    BY <1>1, <1>3, <1>4
  <2>2. Abs(s) + Abs(c) <= 14200
    BY <1>1 DEF Abs
  <2>3. Abs(x * s + y * c) <= 3550000
    BY <1>1, <1>3, <1>4, <2>2
  <2> QED BY <1>3, <2>1, <2>3
<1>6. \A n \in Int : Abs(n) <= 3550000 => \A k \in Short(n) : IsTurnedSpeed(k)
  BY DEF Short, Abs, IsTurnedSpeed, ONE, BLUR
<1> QED BY <1>2, <1>5, <1>6

(* When loop() begins, everything is in range.                              *)
LEMMA InitTyped == Init => TypeOK
<1> SUFFICES ASSUME Init PROVE TypeOK
  OBVIOUS
<1>1. yaw_hold_enabled \in BOOLEAN /\ headless_mode \in BOOLEAN
      /\ headless_prev \in BOOLEAN
  BY DEF Init, YawInit
<1>2. YawTypeOK
  BY <1>1, TicksAssumption DEF Init, YawInit, YawTypeOK, IsAngle, DEGREE, WINDUP
<1> QED
  BY <1>1, <1>2, TicksAssumption
     DEF Init, YawInit, TypeOK, IsAngle, IsSpeed, IsTurnedSpeed, Stopped, CIRCLE,
         DEGREE

(* One run of imu_update's loop keeps the yaw variables in range.           *)
LEMMA TickTyped ==
  ASSUME YawTypeOK, IsSpeed(vr_cmd), NEW rate \in Rates,
         ProcessTick(vr_cmd, rate)
  PROVE  YawTypeOK'
<1>1. IsAngle(yaw_angle')
  BY IntegratedAngle DEF ProcessTick, YawTypeOK
<1>2. /\ pid_integral' \in Int /\ -WINDUP <= pid_integral' /\ pid_integral' <= WINDUP
      /\ IsAngle(pid_prev_err')
      /\ vr_final' \in Int /\ -250 <= vr_final' /\ vr_final' <= 250
  <2>1. CASE yaw_hold_enabled
    BY <1>1, <2>1, PidRange DEF ProcessTick, YawTypeOK
  <2>2. CASE ~ yaw_hold_enabled
    BY <2>2 DEF ProcessTick, pidVars, YawTypeOK, IsSpeed, IsAngle
  <2> QED BY <2>1, <2>2
<1>3. UNCHANGED <<imu_tick_pending, yaw_target, yaw_hold_enabled>>
  BY DEF ProcessTick, targetVars
<1>4. ticks_to_process' \in 0 .. TicksPerUpdate
  BY TicksAssumption DEF ProcessTick, YawTypeOK
<1> QED BY <1>1, <1>2, <1>3, <1>4 DEF YawTypeOK, IsAngle

(* What a step of loop() or the interrupt leaves in range: reading the      *)
(* receiver.                                                                *)
LEMMA ReadTyped ==
  ASSUME TypeOK, ReadSerial
  PROVE  TypeOK'
<1>1. values' \in [0 .. 15 -> Nat]
  BY RcInputsAssumption DEF ReadSerial, TypeOK
<1>2. speed' \in {0, 114, 164, 250}
  <2>1. PICK circle \in BOOLEAN :
          speed' = IF circle THEN 250 ELSE SwitchedSpeed(values')
    BY DEF ReadSerial
  <2>2. SwitchedSpeed(values') \in {0, 114, 164, 250}
    BY SpeedTyped DEF TypeOK
  <2> QED BY <2>1, <2>2
<1>3. /\ mode' \in {"TU_PILOT", "PHUC_PILOT", "NONE"}
      /\ IsSpeed(vx_cmd') /\ IsSpeed(vy_cmd') /\ IsSpeed(vr_cmd')
  <2>1. SelectCommands(values')
    BY DEF ReadSerial
  <2>2. \A c \in 0 .. 15 : /\ IsSpeed(mapRC(values'[c], speed'))
                           /\ IsSpeed(mapRC(values'[c], 120))
    BY <1>1, <1>2, StickTyped
  <2>3. CASE mode' = "TU_PILOT" /\ ~ UNCHANGED cmdVars
    BY <2>1, <2>2, <2>3 DEF SelectCommands
  <2>4. CASE mode' = "PHUC_PILOT" /\ ~ UNCHANGED cmdVars
    BY <2>1, <2>2, <2>4 DEF SelectCommands
  <2>5. CASE UNCHANGED cmdVars
    BY <2>1, <2>5 DEF SelectCommands, cmdVars, TypeOK
  <2> QED BY <2>1, <2>3, <2>4, <2>5 DEF SelectCommands
<1>4. headless_mode' \in BOOLEAN
  BY DEF ReadSerial
<1>5. UNCHANGED <<yawVars, headless_prev, headless_yaw_ref, imu_ticks, driven, away>>
      /\ pc' = "hold"
  BY DEF ReadSerial, headlessVars
<1> QED
  BY <1>1, <1>2, <1>3, <1>4, <1>5
     DEF TypeOK, YawTypeOK, yawVars, tickVars, targetVars, pidVars, IsAngle

(* Driving the wheels: the reference is a heading, and the wheels are asked *)
(* for no more than a motor knows.                                          *)
LEMMA DriveTyped ==
  ASSUME TypeOK, Drive
  PROVE  TypeOK'
<1>1. /\ IsAngle(headless_yaw_ref') /\ away' \in 0 .. CIRCLE - 1
      /\ headless_prev' \in BOOLEAN
  BY DEF Drive, LockReference, TypeOK, YawTypeOK, CIRCLE, DEGREE
<1>2. /\ IsTurnedSpeed(driven'.vx) /\ IsTurnedSpeed(driven'.vy)
      /\ IsSpeed(driven'.vr)
  <2>1. CASE mode = "NONE"
    BY <2>1 DEF Drive, DriveOmni, Stopped, IsSpeed, IsTurnedSpeed
  <2>2. CASE mode # "NONE"
    <3>1. PICK v \in StickVectors(headless_yaw_ref') :
            driven' = [vx |-> v[1], vy |-> v[2], vr |-> vr_final]
      BY <2>2 DEF Drive, DriveOmni
    <3>2. IsTurnedSpeed(v[1]) /\ IsTurnedSpeed(v[2])
      <4>1. IsSpeed(vx_cmd) /\ IsSpeed(vy_cmd)
        BY DEF TypeOK
      <4>2. yaw_angle - headless_yaw_ref' \in Int
        BY <1>1 DEF TypeOK, YawTypeOK, IsAngle
      <4>3. CASE headless_mode
        BY <4>1, <4>2, <4>3, RotatedTyped DEF StickVectors
      <4>4. CASE ~ headless_mode
        BY <4>1, <4>4 DEF StickVectors, IsSpeed, IsTurnedSpeed
      <4> QED BY <4>3, <4>4
    <3>3. IsSpeed(vr_final)
      BY DEF TypeOK, YawTypeOK, IsSpeed
    <3> QED BY <3>1, <3>2, <3>3
  <2> QED BY <2>1, <2>2
<1>3. UNCHANGED <<yawVars, rcVars, imu_ticks>> /\ pc' = "serial"
  BY DEF Drive
<1> QED
  BY <1>1, <1>2, <1>3
     DEF TypeOK, YawTypeOK, yawVars, tickVars, targetVars, pidVars, rcVars, cmdVars,
         IsAngle, IsSpeed

(* Every step keeps the types.                                              *)
LEMMA TypeNext ==
  ASSUME TypeOK, [Next]_vars
  PROVE  TypeOK'
<1> USE DEF rcVars, cmdVars, headlessVars, yawVars, tickVars, targetVars, pidVars
<1>1. CASE NoSerial
  BY <1>1 DEF NoSerial, TypeOK, YawTypeOK, IsAngle, IsSpeed
<1>2. CASE ReadSerial
  BY <1>2, ReadTyped
<1>3. CASE Hold
  BY <1>3 DEF Hold, TypeOK, YawTypeOK, IsAngle, IsSpeed, WINDUP, DEGREE
<1>4. CASE Update
  BY <1>4, TicksAssumption
     DEF Update, Claim, constrain, TypeOK, YawTypeOK, IsAngle, IsSpeed
<1>5. CASE Tick
  <2>1. PICK rate \in Rates : /\ ProcessTick(vr_cmd, rate)
                             /\ away' = (away + TurnedBy(rate)) % CIRCLE
    BY <1>5 DEF Tick
  <2>2. YawTypeOK'
    BY <2>1, TickTyped DEF TypeOK
  <2>3. away' \in 0 .. CIRCLE - 1
    <3>1. TurnedBy(rate) \in Int
      BY IntegratedAngle DEF TypeOK, YawTypeOK
    <3>2. away \in Int
      BY DEF TypeOK
    <3>3. \A n \in Int : n % CIRCLE \in 0 .. CIRCLE - 1
      BY DEF CIRCLE, DEGREE
    <3>4. away + TurnedBy(rate) \in Int
      BY <3>1, <3>2
    <3> QED BY <2>1, <3>3, <3>4, Zenon
  <2>4. UNCHANGED <<pc, rcVars, headlessVars, imu_ticks, driven>>
    BY <1>5 DEF Tick
  <2> QED BY <2>2, <2>3, <2>4 DEF TypeOK, IsAngle, IsSpeed
<1>6. CASE Drive
  BY <1>6, DriveTyped
<1>7. CASE Interrupt
  BY <1>7, TicksAssumption
     DEF Interrupt, onImuTimer, TypeOK, YawTypeOK, IsAngle, IsSpeed
<1>8. CASE UNCHANGED vars
  BY <1>8 DEF vars, TypeOK, YawTypeOK, IsAngle, IsSpeed
<1> QED
  BY <1>1, <1>2, <1>3, <1>4, <1>5, <1>6, <1>7, <1>8 DEF Next, Loop

(* Whatever the transmitter sends, the robot does and the timer interrupts, *)
(* heading, reference, controller, commands and what the wheels are driven  *)
(* with stay in range.                                                      *)
THEOREM TypeCorrect == Spec => []TypeOK
<1>1. Init => TypeOK
  BY InitTyped
<1>2. TypeOK /\ [Next]_vars => TypeOK'
  BY TypeNext
<1> QED BY <1>1, <1>2, PTL DEF Spec

-----------------------------------------------------------------------------
(* The invariant.  The history of headless driving is the difference of the *)
(* code's two angles up to whole turns; and between its steps an iteration  *)
(* carries along what its end is about: the hold is off while the pilot     *)
(* turns, and once a tick has been processed vr_final answers the heading   *)
(* of now.                                                                  *)

\* The turn from b to a is t, up to whole turns.
IsTurn(a, b, t) == (a - b - t) % CIRCLE = 0

ReferenceInv == headless_prev => IsTurn(yaw_angle, headless_yaw_ref, away)

StageInv ==
  /\ pc # "drive" => ticks_to_process = 0
  /\ pc = "drive" => ticks_to_process <= imu_ticks
  /\ pc \in {"imu", "drive"} => yaw_hold_enabled = ~ Turning

HoldAnswers ==
  Distance(yaw_angle, yaw_target) >= 2 * DEGREE =>
    Distance(Turned(vr_final), yaw_target) < Distance(yaw_angle, yaw_target)

TurnInv ==
  /\ pc # "hold" /\ Turning => pid_integral = 0
  /\ pc = "drive" /\ ticks_to_process < imu_ticks =>
       IF Turning THEN vr_final = vr_cmd ELSE HoldAnswers

\* What the end of an iteration promises.
EndInv == TurnIsTheCommand /\ HoldTurnsTheShortWay /\ FieldDirection

DriveInv ==
  /\ TypeOK
  /\ ReferenceInv
  /\ StageInv
  /\ TurnInv
  /\ EndInv

-----------------------------------------------------------------------------
(* Arithmetic of angles.                                                    *)

(* A sample turns the heading by what it shows, up to whole turns.          *)
LEMMA HeadingTurns ==
  ASSUME IsAngle(yaw_angle), NEW rate \in Rates
  PROVE  /\ IsAngle(Integrated(rate))
         /\ TurnedBy(rate) \in Int
         /\ IsTurn(Integrated(rate), yaw_angle, TurnedBy(rate))
<1>1. IsAngle(Integrated(rate)) /\ TurnedBy(rate) \in Int
  BY IntegratedAngle
<1> DEFINE t == TurnedBy(rate)
<1>2. t \in Int /\ yaw_angle \in Int /\ yaw_angle + t \in Int
  BY <1>1 DEF IsAngle
<1>3. Integrated(rate) \in
        {yaw_angle + t, (yaw_angle + t) - CIRCLE, (yaw_angle + t) + CIRCLE}
  <2>1. Integrated(rate) = Wrapped(yaw_angle + t)
    BY DEF Integrated
  <2>2. Wrapped(yaw_angle + t) \in
          {yaw_angle + t, (yaw_angle + t) - CIRCLE, (yaw_angle + t) + CIRCLE}
    <3> HIDE DEF t
    <3> QED BY <1>2 DEF Wrapped
  <2> QED BY <2>1, <2>2
<1> HIDE DEF t
<1>4. IsTurn(Integrated(rate), yaw_angle, t)
  BY <1>2, <1>3 DEF IsTurn, CIRCLE, DEGREE
<1> QED BY <1>1, <1>4 DEF t

(* Two angles that turn alike, one of them reduced, differ as before.       *)
LEMMA TurnAlike ==
  \A x, y, t, r, w \in Int :
    IsTurn(x, y, t) /\ IsTurn(y, r, w) => IsTurn(x, r, (w + t) % CIRCLE)
BY DEF IsTurn, CIRCLE, DEGREE

(* A turn against the error, by a degree, comes closer to the target.       *)
LEMMA CloserByDegree ==
  ASSUME NEW a, NEW t, IsAngle(a), IsAngle(t), NEW vr \in Int,
         Wrapped(t - a) >= 2 * DEGREE => vr < 0,
         Wrapped(t - a) <= -2 * DEGREE => vr > 0,
         Distance(a, t) >= 2 * DEGREE
  PROVE  Distance(IF vr < 0 THEN a + DEGREE ELSE IF vr > 0 THEN a - DEGREE ELSE a, t)
           < Distance(a, t)
<1> USE DEF Wrapped, Distance, IsAngle, CIRCLE, DEGREE
<1>1. CASE Wrapped(t - a) >= 2 * DEGREE
  <2>1. Distance(a + DEGREE, t) < Distance(a, t)
    BY <1>1
  <2> QED BY <1>1, <2>1
<1>2. CASE Wrapped(t - a) <= -2 * DEGREE
  <2>1. Distance(a - DEGREE, t) < Distance(a, t)
    BY <1>2
  <2> QED BY <1>2, <2>1
<1>3. Wrapped(t - a) >= 2 * DEGREE \/ Wrapped(t - a) <= -2 * DEGREE
  OBVIOUS
<1> QED BY <1>1, <1>2, <1>3

-----------------------------------------------------------------------------
(* The invariant holds when loop() begins, before any pilot mode.           *)
LEMMA InvInit == Init => DriveInv
<1> SUFFICES ASSUME Init PROVE DriveInv
  OBVIOUS
<1>1. /\ yaw_angle = 0 /\ yaw_target = 0 /\ headless_yaw_ref = 0 /\ away = 0
      /\ headless_prev = FALSE /\ ticks_to_process = 0 /\ pc = "serial"
      /\ pid_integral = 0 /\ mode = "NONE"
  BY DEF Init, YawInit
<1>2. ReferenceInv
  BY <1>1 DEF ReferenceInv
<1>3. StageInv /\ TurnInv
  BY <1>1 DEF StageInv, TurnInv
<1>4. EndInv
  BY <1>1 DEF EndInv, TurnIsTheCommand, HoldTurnsTheShortWay, FieldDirection,
              InPilotMode
<1> QED BY InitTyped, <1>2, <1>3, <1>4 DEF DriveInv

\* What the invariant is about: everything but the ticks that wait.
watched == <<ticks_to_process, yaw_angle, targetVars, pidVars, vr_final, pc, rcVars,
             headlessVars, imu_ticks, driven, away>>

(* The interrupt, and steps of others, leave it alone.                      *)
LEMMA Kept ==
  ASSUME DriveInv, UNCHANGED watched
  PROVE  ReferenceInv' /\ StageInv' /\ TurnInv' /\ EndInv'
<1> USE DEF watched, targetVars, pidVars, rcVars, cmdVars, headlessVars, DriveInv
<1>1. ReferenceInv'
  BY DEF ReferenceInv
<1>2. Turning' = Turning /\ HoldAnswers' = HoldAnswers
  BY DEF Turning, HoldAnswers, Turned
<1>3. StageInv' /\ TurnInv'
  BY <1>2 DEF StageInv, TurnInv
<1>4. EndInv'
  BY <1>2 DEF EndInv, TurnIsTheCommand, HoldTurnsTheShortWay, FieldDirection,
              InPilotMode, Turned, InField
<1> QED BY <1>1, <1>3, <1>4

(* While an iteration has not ended, its promises are not due.              *)
LEMMA NotEnded ==
  ASSUME pc' # "serial"
  PROVE  EndInv'
BY DEF EndInv, TurnIsTheCommand, HoldTurnsTheShortWay, FieldDirection, InPilotMode

(* One tick: heading and history turn alike, and vr_final answers the new   *)
(* heading, or is the pilot's command.                                      *)
LEMMA TickNext ==
  ASSUME DriveInv, Tick
  PROVE  ReferenceInv' /\ StageInv' /\ TurnInv'
<1>1. PICK rate \in Rates : /\ ProcessTick(vr_cmd, rate)
                           /\ away' = (away + TurnedBy(rate)) % CIRCLE
  BY DEF Tick
<1>2. /\ pc = "drive" /\ ticks_to_process > 0
      /\ ticks_to_process' = ticks_to_process - 1
      /\ yaw_angle' = Integrated(rate)
      /\ UNCHANGED <<pc, yaw_target, yaw_hold_enabled, rcVars, headlessVars, imu_ticks>>
  BY <1>1 DEF Tick, ProcessTick, targetVars
<1>3. yaw_hold_enabled = ~ Turning /\ (Turning => pid_integral = 0)
      /\ ticks_to_process <= imu_ticks
  BY <1>2 DEF DriveInv, StageInv, TurnInv
<1>4. Turning' = Turning
  BY <1>2 DEF Turning, rcVars, cmdVars
<1>5. IsAngle(yaw_angle') /\ ReferenceInv'
  <2> DEFINE t == TurnedBy(rate)
  <2>1. IsAngle(yaw_angle') /\ t \in Int /\ IsTurn(yaw_angle', yaw_angle, t)
    BY <1>2, HeadingTurns DEF DriveInv, TypeOK, YawTypeOK
  <2>2. away' = (away + t) % CIRCLE
    BY <1>1
  <2> HIDE DEF t
  <2>3. ReferenceInv'
    <3>1. SUFFICES ASSUME headless_prev
                   PROVE  IsTurn(yaw_angle', headless_yaw_ref, away')
      BY <1>2 DEF ReferenceInv, headlessVars
    <3>2. IsTurn(yaw_angle, headless_yaw_ref, away)
      BY <3>1 DEF DriveInv, ReferenceInv
    <3>3. /\ yaw_angle' \in Int /\ yaw_angle \in Int /\ t \in Int
          /\ headless_yaw_ref \in Int /\ away \in Int
      BY <2>1 DEF DriveInv, TypeOK, YawTypeOK, IsAngle
    <3>4. IsTurn(yaw_angle', headless_yaw_ref, (away + t) % CIRCLE)
      BY <2>1, <3>2, <3>3, TurnAlike
    <3> QED BY <2>2, <3>4
  <2> QED BY <2>1, <2>3
<1>6. StageInv'
  BY <1>2, <1>3, <1>4 DEF StageInv, DriveInv, TypeOK, YawTypeOK
<1>7. CASE Turning
  <2>1. vr_final' = vr_cmd /\ pid_integral' = pid_integral
    BY <1>1, <1>3, <1>7 DEF ProcessTick, pidVars
  <2>2. vr_cmd' = vr_cmd
    BY <1>2 DEF rcVars, cmdVars
  <2>3. TurnInv'
    BY <1>3, <1>4, <1>7, <2>1, <2>2 DEF TurnInv
  <2> QED BY <1>5, <1>6, <2>3
<1>8. CASE ~ Turning
  <2>1. compute_yaw_pid(yaw_angle')
    BY <1>1, <1>3, <1>8 DEF ProcessTick
  <2>3. vr_final' \in Int
    BY TypeNext, Tick DEF DriveInv, TypeOK, YawTypeOK, Next, Loop
  <2>4. /\ Wrapped(yaw_target - yaw_angle') >= 2 * DEGREE => vr_final' < 0
        /\ Wrapped(yaw_target - yaw_angle') <= -2 * DEGREE => vr_final' > 0
    BY <1>5, <2>1, HoldTurnsBack DEF DriveInv, TypeOK, YawTypeOK
  <2>5. IsAngle(yaw_target)
    BY DEF DriveInv, TypeOK, YawTypeOK
  <2>6. HoldAnswers'
    BY <1>2, <1>5, <2>3, <2>4, <2>5, CloserByDegree DEF HoldAnswers, Turned
  <2>7. TurnInv'
    BY <1>4, <1>8, <2>6 DEF TurnInv
  <2> QED BY <1>5, <1>6, <2>7
<1> QED BY <1>7, <1>8

(* The angle that the code computes is the true turn since the reference.   *)
LEMMA DeltaIsAway ==
  ASSUME NEW a, NEW r, IsAngle(a), IsAngle(r), NEW w \in 0 .. CIRCLE - 1,
         IsTurn(a, r, w)
  PROVE  Reduced(a - r) = w
BY DEF IsTurn, Reduced, Wrapped, IsAngle, CIRCLE, DEGREE

(* Turning a vector and turning it back multiplies it by the sum of the     *)
(* squares, whatever is lost in between counts once.                        *)
LEMMA TurnedThereAndBack ==
  ASSUME NEW x \in Int, NEW y \in Int, NEW c \in Int, NEW s \in Int,
         NEW d \in Int, NEW e \in Int
  PROVE  /\ (x * c - y * s + d) * c + (x * s + y * c + e) * s
              = x * (c * c + s * s) + (d * c + e * s)
         /\ (x * s + y * c + e) * c - (x * c - y * s + d) * s
              = y * (c * c + s * s) + (e * c - d * s)
OBVIOUS

(* Two products with a sine and a cosine, of numbers that are bounded.      *)
LEMMA ProductsBounded ==
  ASSUME NEW d \in Int, NEW e \in Int, NEW m \in Nat, Abs(d) <= m, Abs(e) <= m,
         NEW c \in Int, NEW s \in Int
  PROVE  /\ Abs(d * c + e * s) <= m * (Abs(c) + Abs(s))
         /\ Abs(e * c - d * s) <= m * (Abs(c) + Abs(s))
<1>1. \A p, q \in Int : Abs(p) <= m =>
        -(m * Abs(q)) <= p * q /\ p * q <= m * Abs(q) /\ p * q \in Int
  <2> SUFFICES ASSUME NEW p \in Int, NEW q \in Int, Abs(p) <= m
               PROVE  /\ -(m * Abs(q)) <= p * q /\ p * q <= m * Abs(q)
                      /\ p * q \in Int
    OBVIOUS
  <2>1. -m <= p /\ p <= m
    BY DEF Abs
  <2>2. CASE q >= 0
    BY <2>1, <2>2 DEF Abs
  <2>3. CASE q < 0
    BY <2>1, <2>3 DEF Abs
  <2> QED BY <2>2, <2>3
<1>2. Abs(c) \in Nat /\ Abs(s) \in Nat
  BY DEF Abs
<1>3. m * (Abs(c) + Abs(s)) = m * Abs(c) + m * Abs(s)
  BY <1>2
<1>4. m * Abs(c) \in Int /\ m * Abs(s) \in Int
  BY <1>2
<1>5. /\ -(m * Abs(c)) <= d * c /\ d * c <= m * Abs(c) /\ d * c \in Int
      /\ -(m * Abs(s)) <= e * s /\ e * s <= m * Abs(s) /\ e * s \in Int
      /\ -(m * Abs(c)) <= e * c /\ e * c <= m * Abs(c) /\ e * c \in Int
      /\ -(m * Abs(s)) <= d * s /\ d * s <= m * Abs(s) /\ d * s \in Int
  BY <1>1
<1>6. \A i, j, k, l \in Int : -k <= i /\ i <= k /\ -l <= j /\ j <= l
        => Abs(i + j) <= k + l /\ Abs(i - j) <= k + l
  BY DEF Abs
<1> QED BY <1>3, <1>4, <1>5, <1>6

(* The rotation of main.ino turned back: what the sticks asked for, up to   *)
(* two units.                                                               *)
LEMMA RotatedBack ==
  ASSUME NEW x, NEW y, IsSpeed(x), IsSpeed(y), NEW delta \in Int,
         NEW v \in Rotated(x, y, delta)
  PROVE  LET c == Cosine(Reduced(delta))
             s == Sine[Reduced(delta)]
         IN  /\ Abs((v[1] * c + v[2] * s) - x * ONE) <= 2 * ONE
             /\ Abs((v[2] * c - v[1] * s) - y * ONE) <= 2 * ONE
<1> DEFINE c == Cosine(Reduced(delta))
           s == Sine[Reduced(delta)]
           square == c * c + s * s
           p == x * c - y * s
           q == x * s + y * c
           d == v[1] * ONE - p
           e == v[2] * ONE - q
<1>1. /\ c \in Int /\ s \in Int /\ Abs(c) + Abs(s) <= 14200
      /\ Abs(square - ONE * ONE) <= 6 * ONE
  <2>1. Reduced(delta) \in 0 .. CIRCLE - 1
    BY ReducedAngle
  <2>2. c \in Int /\ s \in Int /\ IsUnit(c, s)
    BY <2>1, SineFacts
  <2> HIDE DEF c, s
  <2> QED BY <2>2 DEF IsUnit
<1>2. v[1] \in Short(p) /\ v[2] \in Short(q)
  BY DEF Rotated
<1>3. x \in Int /\ y \in Int
  BY DEF IsSpeed
<1> HIDE DEF c, s
<1>4. p \in Int /\ q \in Int /\ square \in Int
  BY <1>1, <1>3
<1>5. /\ v[1] \in Int /\ v[2] \in Int /\ d \in Int /\ e \in Int
      /\ Abs(d) <= 11000 /\ Abs(e) <= 11000
  <2> HIDE DEF p, q
  <2> QED BY <1>2, <1>4 DEF Short, ONE, BLUR
<1>6. Abs(d * c + e * s) <= 156200000 /\ Abs(e * c - d * s) <= 156200000
  <2> HIDE DEF d, e
  <2>1. /\ Abs(d * c + e * s) <= 11000 * (Abs(c) + Abs(s))
        /\ Abs(e * c - d * s) <= 11000 * (Abs(c) + Abs(s))
    BY <1>1, <1>5, ProductsBounded
  <2>2. d * c + e * s \in Int /\ e * c - d * s \in Int
    BY <1>1, <1>5
  <2> QED BY <1>1, <2>1, <2>2 DEF Abs
<1>7. /\ x * square \in Int /\ Abs(x * square - x * 100000000) <= 15000000
      /\ y * square \in Int /\ Abs(y * square - y * 100000000) <= 15000000
  <2> DEFINE more == square - 100000000
  <2>1. more \in Int /\ Abs(more) <= 60000
    BY <1>1, <1>4 DEF ONE
  <2>2. /\ x * square - x * 100000000 = x * more
        /\ y * square - y * 100000000 = y * more
    BY <1>3, <1>4
  <2> HIDE DEF square, more
  <2>3. Abs(x * more) <= 250 * Abs(more) /\ Abs(y * more) <= 250 * Abs(more)
    BY <2>1, SpeedTimes
  <2> QED BY <1>3, <1>4, <2>1, <2>2, <2>3 DEF Abs
<1>8. /\ (v[1] * ONE) * c + (v[2] * ONE) * s = x * square + (d * c + e * s)
      /\ (v[2] * ONE) * c - (v[1] * ONE) * s = y * square + (e * c - d * s)
  <2>1. v[1] * ONE = p + d /\ v[2] * ONE = q + e
    <3> HIDE DEF p, q
    <3> QED BY <1>4, <1>5 DEF ONE
  <2> HIDE DEF d, e
  <2> QED BY <1>1, <1>3, <1>5, <2>1, TurnedThereAndBack
<1> DEFINE back == v[1] * c + v[2] * s
           aside == v[2] * c - v[1] * s
<1>9. /\ (v[1] * ONE) * c + (v[2] * ONE) * s = 10000 * back
      /\ (v[2] * ONE) * c - (v[1] * ONE) * s = 10000 * aside
      /\ back \in Int /\ aside \in Int
  BY <1>1, <1>5 DEF ONE
<1>10. d * c + e * s \in Int /\ e * c - d * s \in Int
  <2> HIDE DEF d, e
  <2> QED BY <1>1, <1>5
<1> HIDE DEF back, aside, square
<1>11. Abs(10000 * back - x * 100000000) <= 171200000
  <2> DEFINE f == d * c + e * s
             g == x * square
  <2>1. 10000 * back = g + f /\ f \in Int /\ g \in Int
        /\ Abs(f) <= 156200000 /\ Abs(g - x * 100000000) <= 15000000
    BY <1>6, <1>7, <1>8, <1>9, <1>10
  <2> HIDE DEF f, g
  <2> QED BY <1>3, <1>9, <2>1 DEF Abs
<1>12. Abs(10000 * aside - y * 100000000) <= 171200000
  <2> DEFINE f == e * c - d * s
             g == y * square
  <2>1. 10000 * aside = g + f /\ f \in Int /\ g \in Int
        /\ Abs(f) <= 156200000 /\ Abs(g - y * 100000000) <= 15000000
    BY <1>6, <1>7, <1>8, <1>9, <1>10
  <2> HIDE DEF f, g
  <2> QED BY <1>3, <1>9, <2>1 DEF Abs
<1>13. /\ Abs(back - x * ONE) <= 2 * ONE
       /\ Abs(aside - y * ONE) <= 2 * ONE
  <2>1. ASSUME NEW b \in Int, NEW z \in Int,
               Abs(10000 * b - z * 100000000) <= 171200000
        PROVE  Abs(b - z * ONE) <= 2 * ONE
    BY <2>1 DEF Abs, ONE
  <2> QED BY <1>3, <1>9, <1>11, <1>12, <2>1
<1> QED
  <2>1. /\ Abs((v[1] * c + v[2] * s) - x * ONE) <= 2 * ONE
        /\ Abs((v[2] * c - v[1] * s) - y * ONE) <= 2 * ONE
    BY <1>13, Zenon DEF back, aside
  <2> QED BY <2>1, Zenon DEF c, s

(* The end of an iteration: the reference is locked or kept, and the wheels *)
(* get the sticks as seen from it, with the turn that the ticks have left.  *)
LEMMA DriveNext ==
  ASSUME DriveInv, Drive
  PROVE  ReferenceInv' /\ StageInv' /\ TurnInv' /\ EndInv'
<1>1. /\ pc = "drive" /\ ticks_to_process = 0 /\ pc' = "serial"
      /\ UNCHANGED <<yawVars, rcVars, imu_ticks>>
      /\ LockReference /\ DriveOmni
  BY DEF Drive
<1>2. /\ UNCHANGED <<ticks_to_process, yaw_angle, yaw_target, pid_integral, vr_final>>
      /\ UNCHANGED <<mode, headless_mode, vx_cmd, vy_cmd, vr_cmd, imu_ticks>>
      /\ Turning' = Turning
  BY <1>1 DEF yawVars, tickVars, targetVars, pidVars, rcVars, cmdVars, Turning
<1>4. ReferenceInv'
  <2>1. CASE headless_mode /\ ~ headless_prev
    <3>1. headless_yaw_ref' = yaw_angle /\ away' = 0 /\ yaw_angle \in Int
      BY <1>1, <2>1 DEF LockReference, DriveInv, TypeOK, YawTypeOK, IsAngle
    <3>2. IsTurn(yaw_angle, yaw_angle, 0)
      BY <3>1 DEF IsTurn, CIRCLE, DEGREE
    <3> QED BY <1>2, <3>1, <3>2 DEF ReferenceInv
  <2>2. CASE ~ (headless_mode /\ ~ headless_prev)
    BY <1>1, <1>2, <2>2 DEF LockReference, DriveInv, ReferenceInv
  <2> QED BY <2>1, <2>2
<1>5. StageInv'
  BY <1>1, <1>2 DEF StageInv
<1>6. TurnInv'
  BY <1>1, <1>2 DEF TurnInv, DriveInv
<1>7. TurnIsTheCommand' /\ HoldTurnsTheShortWay'
  <2>1. SUFFICES ASSUME mode # "NONE", imu_ticks > 0
                 PROVE  TurnIsTheCommand' /\ HoldTurnsTheShortWay'
    BY <1>2 DEF TurnIsTheCommand, HoldTurnsTheShortWay, InPilotMode
  <2>2. driven'.vr = vr_final
    BY <1>1, <2>1 DEF DriveOmni
  <2>3. IF Turning THEN vr_final = vr_cmd ELSE HoldAnswers
    BY <1>1, <2>1 DEF DriveInv, TurnInv
  <2> QED
    BY <1>2, <2>2, <2>3
       DEF TurnIsTheCommand, HoldTurnsTheShortWay, HoldAnswers, Turned
<1>8. FieldDirection'
  <2>1. SUFFICES ASSUME mode # "NONE", headless_mode
                 PROVE  FieldDirection'
    BY <1>2 DEF FieldDirection, InPilotMode
  <2> DEFINE delta == yaw_angle - headless_yaw_ref'
  <2>2. PICK v \in Rotated(vx_cmd, vy_cmd, delta) :
          driven' = [vx |-> v[1], vy |-> v[2], vr |-> vr_final]
    BY <1>1, <2>1 DEF DriveOmni, StickVectors
  <2>3. IsSpeed(vx_cmd) /\ IsSpeed(vy_cmd)
    BY DEF DriveInv, TypeOK
  <2>4. Reduced(delta) = away' /\ delta \in Int /\ away' \in 0 .. CIRCLE - 1
    <3>1. /\ IsAngle(yaw_angle) /\ IsAngle(headless_yaw_ref')
          /\ away' \in 0 .. CIRCLE - 1
      BY DriveTyped DEF DriveInv, TypeOK, YawTypeOK
    <3>2. IsTurn(yaw_angle, headless_yaw_ref', away')
      BY <1>1, <1>2, <1>4, <2>1 DEF ReferenceInv, LockReference
    <3> QED BY <3>1, <3>2, DeltaIsAway DEF IsAngle
  <2> HIDE DEF delta
  <2> DEFINE c == Cosine(away')
             s == Sine[away']
  <2>5. /\ Abs((v[1] * c + v[2] * s) - vx_cmd * ONE) <= 2 * ONE
        /\ Abs((v[2] * c - v[1] * s) - vy_cmd * ONE) <= 2 * ONE
    BY <2>3, <2>4, RotatedBack
  <2> HIDE DEF c, s
  <2>7. /\ driven'.vx = v[1] /\ driven'.vy = v[2]
        /\ vx_cmd' = vx_cmd /\ vy_cmd' = vy_cmd
    BY <1>2, <2>2
  <2>8. /\ InField(driven.vx, driven.vy)[1]' = v[1] * c + v[2] * s
        /\ InField(driven.vx, driven.vy)[2]' = v[2] * c - v[1] * s
    BY <2>7 DEF InField, Cosine, c, s
  <2>9. /\ Abs(InField(driven.vx, driven.vy)[1]' - vx_cmd' * ONE) <= 2 * ONE
        /\ Abs(InField(driven.vx, driven.vy)[2]' - vy_cmd' * ONE) <= 2 * ONE
    BY <2>5, <2>7, <2>8, Zenon
  <2> QED BY <2>9 DEF FieldDirection
<1> QED BY <1>4, <1>5, <1>6, <1>7, <1>8 DEF EndInv

(* Every step keeps the invariant.                                          *)
LEMMA InvNext ==
  ASSUME DriveInv, [Next]_vars
  PROVE  DriveInv'
<1>1. TypeOK'
  BY TypeNext DEF DriveInv
<1> SUFFICES ReferenceInv' /\ StageInv' /\ TurnInv' /\ EndInv'
  BY <1>1 DEF DriveInv
<1>2. CASE NoSerial \/ ReadSerial
  <2>1. /\ pc = "serial" /\ pc' = "hold"
        /\ UNCHANGED <<yawVars, headlessVars, imu_ticks, away>>
    BY <1>2 DEF NoSerial, ReadSerial
  <2>2. ReferenceInv'
    BY <2>1 DEF DriveInv, ReferenceInv, yawVars, headlessVars
  <2>3. StageInv' /\ TurnInv'
    BY <2>1 DEF DriveInv, StageInv, TurnInv, yawVars, tickVars
  <2> QED BY <2>1, <2>2, <2>3, NotEnded
<1>3. CASE Hold
  <2>1. /\ pc = "hold" /\ pc' = "imu"
        /\ yaw_hold_enabled' = ~ Turning
        /\ IF Turning
           THEN yaw_target' = yaw_angle /\ pid_integral' = 0
           ELSE UNCHANGED <<yaw_target, pid_integral>>
        /\ UNCHANGED <<ticks_to_process, yaw_angle, headlessVars, away>>
        /\ Turning' = Turning
    BY <1>3 DEF Hold, tickVars, rcVars, cmdVars, Turning
  <2>2. ReferenceInv'
    BY <2>1 DEF DriveInv, ReferenceInv, headlessVars
  <2>3. StageInv'
    BY <2>1 DEF DriveInv, StageInv
  <2>4. TurnInv'
    BY <2>1 DEF TurnInv
  <2> QED BY <2>1, <2>2, <2>3, <2>4, NotEnded
<1>4. CASE Update
  <2>1. /\ pc = "imu" /\ pc' = "drive"
        /\ imu_ticks' = ticks_to_process'
        /\ UNCHANGED <<yaw_angle, targetVars, pidVars, headlessVars, away>>
        /\ Turning' = Turning
    BY <1>4 DEF Update, Claim, rcVars, cmdVars, Turning
  <2>2. ReferenceInv'
    BY <2>1 DEF DriveInv, ReferenceInv, headlessVars, targetVars
  <2>3. imu_ticks' \in Int
    BY <1>1 DEF TypeOK
  <2>4. StageInv'
    BY <2>1, <2>3 DEF DriveInv, StageInv, targetVars
  <2>5. TurnInv'
    BY <2>1, <2>3 DEF DriveInv, TurnInv, pidVars
  <2> QED BY <2>1, <2>2, <2>4, <2>5, NotEnded
<1>5. CASE Tick
  <2>1. pc' # "serial"
    BY <1>5 DEF Tick, ProcessTick, DriveInv, StageInv, TypeOK, YawTypeOK
  <2> QED BY <1>5, <2>1, TickNext, NotEnded
<1>6. CASE Drive
  BY <1>6, DriveNext
<1>7. CASE Interrupt \/ UNCHANGED vars
  <2>1. UNCHANGED watched
    BY <1>7 DEF Interrupt, onImuTimer, vars, yawVars, tickVars, watched
  <2> QED BY <2>1, Kept
<1> QED BY <1>2, <1>3, <1>4, <1>5, <1>6, <1>7 DEF Next, Loop

(* In every behaviour the history agrees with the code's reference, and     *)
(* each iteration ends as it promises.                                      *)
THEOREM Invariance == Spec => []DriveInv
<1>1. DriveInv /\ [Next]_vars => DriveInv'
  BY InvNext
<1> QED BY InvInit, <1>1, PTL DEF Spec

(* A turn by hand leaves no integral behind: the iteration that sees the    *)
(* stick has cleared it, and imu_update does not build it up again.         *)
THEOREM NoWindUpHolds == Spec => []NoWindUp
<1>1. DriveInv => NoWindUp
  BY DEF DriveInv, TurnInv, NoWindUp
<1> QED BY <1>1, Invariance, PTL

(* What the pilot asks for reaches the wheels in the same iteration, once a *)
(* tick was processed: whichever of the ticks it was, and whatever the      *)
(* controller had stored before.                                            *)
THEOREM TurnGoesThrough == Spec => []TurnIsTheCommand
<1>1. DriveInv => TurnIsTheCommand
  BY DEF DriveInv, EndInv
<1> QED BY <1>1, Invariance, PTL

(* With the stick released the wheels turn the robot nearer to its target   *)
(* from two degrees off, over the seam at 180 degrees too, for all headings *)
(* and samples and whatever integral and derivative say.                    *)
THEOREM HoldGoesTheShortWay == Spec => []HoldTurnsTheShortWay
<1>1. DriveInv => HoldTurnsTheShortWay
  BY DEF DriveInv, EndInv
<1> QED BY <1>1, Invariance, PTL

(* Headless driving keeps the direction of the moment it was switched on,   *)
(* after any number of turns, for every stick position.                     *)
THEOREM HeadlessKeepsDirection == Spec => []FieldDirection
<1>1. DriveInv => FieldDirection
  BY DEF DriveInv, EndInv
<1> QED BY <1>1, Invariance, PTL

=============================================================================
