------------------------------- MODULE Motor --------------------------------
(***************************************************************************)
(* src/motor/motor.cpp: drive_omni distributes a motion over four wheels,  *)
(* and setMotorSpeed sets each motor's H-bridge with two ledcWrites, one   *)
(* per input pin.  Every ledcWrite is a step of its own: between the two   *)
(* the bridge sees one new duty and one old one.                           *)
(***************************************************************************)
EXTENDS Integers, Sequences

CONSTANTS
  Motions,        \* the arguments <<vx, vy, vr>> of drive_omni
  LiftSpeeds,     \* the speeds Notify gives to motor 3
  decayMode       \* of all calls: SLOW_DECAY_MODE unless a caller says else

MAX_SPEED == 255
MIN_SPEED == -255
MOTOR_COUNT == 6
SLOW_DECAY_MODE == 1
FAST_DECAY_MODE == 2

ASSUME MotionsAssumption == Motions \subseteq Int \X Int \X Int
ASSUME LiftAssumption == LiftSpeeds \subseteq Int
ASSUME DecayAssumption == decayMode \in {SLOW_DECAY_MODE, FAST_DECAY_MODE}

Motors == 0 .. MOTOR_COUNT - 1
Lift == 3
Wheels == {"FL", "FR", "RR", "RL"}

\* The order in which drive_omni sets the wheels' motors.
DriveOrder == <<0, 1, 4, 5>>

VARIABLES
  duty,           \* per motor the duties of its two pins
  speed,          \* per motor the speed last asked for
  before,         \* history: per motor the speed asked for before that
  queue,          \* the motors still to set, in order
  half,           \* whether the first pin of the first of them is written
  motion          \* history: what drive_omni was last called with

vars == <<duty, speed, before, queue, half, motion>>

IsDuty(d) == d \in 0 .. MAX_SPEED

TypeOK ==
  /\ \A m \in Motors : IsDuty(duty[m].DIR) /\ IsDuty(duty[m].PWM)
  /\ \A m \in Motors : speed[m] \in MIN_SPEED .. MAX_SPEED
  /\ \A m \in Motors : before[m] \in MIN_SPEED .. MAX_SPEED
  /\ queue \in Seq(Motors)
  /\ half \in BOOLEAN
  /\ motion \in Int \X Int \X Int

\* motor_init leaves all duties zero.
Init ==
  /\ duty = [m \in Motors |-> [DIR |-> 0, PWM |-> 0]]
  /\ speed = [m \in Motors |-> 0]
  /\ before = speed
  /\ queue = <<>>
  /\ half = FALSE
  /\ motion = <<0, 0, 0>>

-----------------------------------------------------------------------------
(* omni_kinematics.                                                         *)

Abs(x) == IF x < 0 THEN -x ELSE x

\* Mutant of Unscaled: the rear wheels turn against the front ones.
UnscaledRear(vx, vy, vr) ==
  [FL |-> vx + vy + vr, FR |-> vx - vy - vr,
   RR |-> vx + vy + vr, RL |-> vx - vy - vr]

Unscaled(vx, vy, vr) ==
  [FL |-> vx + vy + vr, FR |-> vx - vy - vr,
   RR |-> vx + vy - vr, RL |-> vx - vy + vr]

Fastest(w) == CHOOSE s \in {Abs(w[c]) : c \in Wheels} :
                \A c \in Wheels : Abs(w[c]) <= s

\* (int)(x * scale) with scale = 255.0 / max in float: where the quotient is
\* exact, the float product may fall short of it.
Exact(w, max) == {s \in {Abs(w[c]) : c \in Wheels} : s # 0 /\ (s * 255) % max = 0}

Scaled(x, max, short) ==
  LET s == (Abs(x) * 255) \div max - (IF Abs(x) \in short THEN 1 ELSE 0)
  IN  IF x < 0 THEN -s ELSE s

\* All that omni_kinematics may answer.
omni_kinematics(vx, vy, vr) ==
  LET w == Unscaled(vx, vy, vr)
      max == Fastest(w)
  IN  IF max > 255
      THEN {[c \in Wheels |-> Scaled(w[c], max, short)] :
              short \in SUBSET Exact(w, max)}
      ELSE {w}

-----------------------------------------------------------------------------
(* setMotorSpeed.                                                           *)

Clamped(s) == IF s > MAX_SPEED THEN MAX_SPEED
              ELSE IF s < MIN_SPEED THEN MIN_SPEED ELSE s

\* Mutant of SlowDecay: the sign of a negative speed is forgotten.
SlowDecayUnsigned(s) ==
  CASE s < 0 -> [DIR |-> 255 - s, PWM |-> 255]
    [] s > 0 -> [DIR |-> 255, PWM |-> 255 - s]
    [] s = 0 -> [DIR |-> 0, PWM |-> 0]

\* Slow decay brakes in the off-time: both pins are high then.
SlowDecay(s) ==
  CASE s < 0 -> [DIR |-> 255 + s, PWM |-> 255]
    [] s > 0 -> [DIR |-> 255, PWM |-> 255 - s]
    [] s = 0 -> [DIR |-> 0, PWM |-> 0]

FastDecay(s) ==
  CASE s < 0 -> [DIR |-> 0, PWM |-> -s]
    [] s > 0 -> [DIR |-> s, PWM |-> 0]
    [] s = 0 -> [DIR |-> 0, PWM |-> 0]

\* Mutant of Duties: the modes are mixed up for one direction.
MixedDuties(s) == IF s > 0 THEN FastDecay(s) ELSE SlowDecay(s)

Duties(s) == IF decayMode = SLOW_DECAY_MODE THEN SlowDecay(s) ELSE FastDecay(s)

-----------------------------------------------------------------------------
(* Steps.  The caller goes on when all writes are done.                     *)

Ask(speeds, order) ==
  /\ queue = <<>>
  /\ before' = speed
  /\ speed' = speeds
  /\ queue' = order
  /\ UNCHANGED <<duty, half>>

\* The wheel speeds w go to the motors of the four corners.
WithWheels(w) ==
  [m \in Motors |-> CASE m = 0 -> Clamped(w.RL)
                     [] m = 1 -> Clamped(w.RR)
                     [] m = 4 -> Clamped(w.FL)
                     [] m = 5 -> Clamped(w.FR)
                     [] OTHER -> speed[m]]

drive_omni ==
  \E v \in Motions :
    /\ motion' = v
    /\ \E w \in omni_kinematics(v[1], v[2], v[3]) : Ask(WithWheels(w), DriveOrder)

\* Notify sets the lift by what the buttons of the gamepad say.
Notify ==
  \E s \in LiftSpeeds :
    /\ Ask([speed EXCEPT ![Lift] = Clamped(s)], <<Lift>>)
    /\ UNCHANGED motion

\* Mutant of WriteFirst: the second pin is not written at all.
WriteOnlyFirst ==
  /\ queue # <<>>
  /\ ~ half
  /\ duty' = [duty EXCEPT ![Head(queue)].DIR = Duties(speed[Head(queue)]).DIR]
  /\ queue' = Tail(queue)
  /\ UNCHANGED <<speed, before, half, motion>>

WriteFirst ==
  /\ queue # <<>>
  /\ ~ half
  /\ duty' = [duty EXCEPT ![Head(queue)].DIR = Duties(speed[Head(queue)]).DIR]
  /\ half' = TRUE
  /\ UNCHANGED <<speed, before, queue, motion>>

WriteSecond ==
  /\ half
  /\ duty' = [duty EXCEPT ![Head(queue)].PWM = Duties(speed[Head(queue)]).PWM]
  /\ half' = FALSE
  /\ queue' = Tail(queue)
  /\ UNCHANGED <<speed, before, motion>>

Next == drive_omni \/ Notify \/ WriteFirst \/ WriteSecond

Spec == Init /\ [][Next]_vars

-----------------------------------------------------------------------------
(* What the bridge makes of the two duties: forward while only DIR is high, *)
(* backward while only PWM is.                                              *)
Drive(m) == duty[m].DIR - duty[m].PWM

Between(x, a, b) == (a <= x /\ x <= b) \/ (b <= x /\ x <= a)

(* When all writes are done every motor is driven with the speed that was   *)
(* asked for, in either decay mode.                                         *)
Settled == queue = <<>> => \A m \in Motors : Drive(m) = speed[m]

(* A motor that changes from one running speed to another, backwards maybe, *)
(* is never driven faster than both or against both between the two writes. *)
SmoothWhileRunning ==
  \A m \in Motors :
    before[m] # 0 /\ speed[m] # 0 => Between(Drive(m), before[m], speed[m])

(* In fast decay the same holds for every change, starting and stopping     *)
(* included.                                                                *)
FastAlwaysSmooth ==
  decayMode = FAST_DECAY_MODE =>
    \A m \in Motors : Between(Drive(m), before[m], speed[m])

\* The motion that the four wheel speeds add up to, times four.
Forward == speed[4] + speed[5] + speed[1] + speed[0]
Sideways == speed[4] - speed[5] + speed[1] - speed[0]
Rotation == speed[4] - speed[5] - speed[1] + speed[0]

(* The wheels add up to the motion that was asked for: exactly, or in the   *)
(* same direction when a wheel had to be slowed down to 255.                *)
WheelsMoveAsAsked ==
  LET max == Fastest(Unscaled(motion[1], motion[2], motion[3]))
      Near(sum, v) == IF max <= 255 THEN sum = 4 * v
                      ELSE Abs(sum * max - 4 * v * 255) <= 4 * max
  IN  Near(Forward, motion[1]) /\ Near(Sideways, motion[2]) /\ Near(Rotation, motion[3])

(* "vx = 0; vy = 100; vr = 0 -> FL = -100, FR = 100, RR = 100, RL = -100"   *)
(* (omni_kinematics).                                                       *)
DocumentedStrafe ==
  motion = <<0, 100, 0>> =>
    speed[4] = -100 /\ speed[5] = 100 /\ speed[1] = 100 /\ speed[0] = -100

(* "speed: -255..255, negative turns backwards, positive forwards" (in      *)
(* Vietnamese, motor.h): no motor is driven backwards that is not asked to. *)
BackwardsOnlyWhenAsked ==
  \A m \in Motors : before[m] >= 0 /\ speed[m] >= 0 => Drive(m) >= 0

=============================================================================
