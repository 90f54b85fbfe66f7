----------------------------- MODULE DriveLoop ------------------------------
(***************************************************************************)
(* loop() in src/main.ino, without Notify and the servos: it reads what    *)
(* the receiver has sent and selects mode, speed and commands, switches    *)
(* the yaw hold, runs imu_update, and drives the wheels, while the timer   *)
(* interrupts it anywhere.                                                 *)
(*                                                                         *)
(* crsf_parse is the module CrsfParser; here it either decodes one of      *)
(* RcInputs or leaves the channels as they are.  loop() does not look at   *)
(* what it returns.  `driven' holds the arguments of drive_omni.           *)
(***************************************************************************)
EXTENDS YawControl, StickMap

CONSTANTS
  RcInputs,       \* the _raw_rc_values a transmitter may send
  Sine,           \* sin, of every angle, in units of 1 / ONE
  Headings        \* bound on the headings that the robot reaches

ASSUME RcInputsAssumption == \A v \in RcInputs : v \in [0 .. 15 -> Nat]

ONE == 10000

Cosine(angle) == Sine[(angle + 90 * DEGREE) % CIRCLE]

\* What counts of sine and cosine: that their squares add up to one, and
\* that no turn lengthens a vector's parts by more than the root of two.
IsUnit(c, s) ==
  /\ Abs((c * c + s * s) - ONE * ONE) <= 6 * ONE
  /\ Abs(c) + Abs(s) <= 14200

ASSUME SineAssumption ==
  /\ Sine \in [0 .. CIRCLE - 1 -> -ONE .. ONE]
  /\ \A a \in 0 .. CIRCLE - 1 : IsUnit(Cosine(a), Sine[a])

VARIABLES
  pc,             \* where loop() is: "serial", "hold", "imu" or "drive"
  values,         \* _raw_rc_values
  speed,
  mode,
  headless_mode,
  headless_prev,
  headless_yaw_ref,
  vx_cmd, vy_cmd, vr_cmd,
  imu_ticks,      \* what imu_update returned
  driven,         \* what drive_omni was last called with
  away            \* history: turn since headless mode was switched on

cmdVars == <<vx_cmd, vy_cmd, vr_cmd>>
rcVars == <<values, speed, mode, headless_mode, cmdVars>>
headlessVars == <<headless_prev, headless_yaw_ref>>
vars == <<yawVars, pc, rcVars, headlessVars, imu_ticks, driven, away>>

Stopped == [vx |-> 0, vy |-> 0, vr |-> 0]
HEADLESS_SWITCH_CH == 8

IsSpeed(s) == s \in Int /\ -250 <= s /\ s <= 250

\* What a speed on both axes is along one of them after a turn.
IsTurnedSpeed(s) == s \in Int /\ -356 <= s /\ s <= 356

TypeOK ==
  /\ YawTypeOK
  /\ pc \in {"serial", "hold", "imu", "drive"}
  /\ values \in [0 .. 15 -> Nat]
  /\ speed \in {0, 114, 164, 250}
  /\ mode \in {"TU_PILOT", "PHUC_PILOT", "NONE"}
  /\ headless_mode \in BOOLEAN /\ headless_prev \in BOOLEAN
  /\ IsAngle(headless_yaw_ref)
  /\ IsSpeed(vx_cmd) /\ IsSpeed(vy_cmd) /\ IsSpeed(vr_cmd)
  /\ imu_ticks \in 0 .. TicksPerUpdate
  /\ IsTurnedSpeed(driven.vx) /\ IsTurnedSpeed(driven.vy) /\ IsSpeed(driven.vr)
  /\ away \in 0 .. CIRCLE - 1

Init ==
  /\ YawInit
  /\ pc = "serial"
  /\ values = [c \in 0 .. 15 |-> 0]
  /\ speed = 0
  /\ mode = "NONE"
  /\ headless_mode = FALSE
  /\ headless_prev = FALSE
  /\ headless_yaw_ref = 0
  /\ vx_cmd = 0 /\ vy_cmd = 0 /\ vr_cmd = 0
  /\ imu_ticks = 0
  /\ driven = Stopped
  /\ away = 0

-----------------------------------------------------------------------------
(* Switches and sticks, read from the channels v.                           *)

\* The speed switches; between their ranges the speed stays what it was.
BothLow(v) == v[10] < 1100 /\ v[11] < 1100
SomeMiddle(v) == ~ BothLow(v) /\ (v[10] < 1600 \/ v[11] < 1600)
SomeHigh(v) == v[10] >= 1600 /\ v[11] >= 1600 /\ (v[10] > 1800 \/ v[11] > 1800)

SwitchedSpeed(v) ==
  CASE BothLow(v) -> 114
    [] SomeMiddle(v) -> 164
    [] SomeHigh(v) -> 250
    [] OTHER -> speed

SelectedMode(v) ==
  CASE v[5] < 1200 -> "PHUC_PILOT"
    [] v[5] \in 1200 .. 1599 -> "TU_PILOT"
    [] OTHER -> "NONE"

\* Without a pilot mode the commands stay what they were.
SelectCommands(v) ==
  \/ /\ mode' = "TU_PILOT"
     /\ vx_cmd' = mapRC(v[1], speed')
     /\ vy_cmd' = mapRC(v[0], speed')
     /\ vr_cmd' = mapRC(v[3], speed')
  \/ /\ mode' = "PHUC_PILOT"
     /\ vx_cmd' = mapRC(v[2], speed')
     /\ vy_cmd' = mapRC(v[3], speed')
     /\ vr_cmd' = mapRC(v[0], 120)
  \/ /\ mode' = "NONE"
     /\ UNCHANGED cmdVars

\* (int) of n / ONE, where n may be off by BLUR for the digits that Sine does
\* not have, float, and 3.14159 for pi.
BLUR == 1000
Short(n) ==
  {k \in n \div ONE - 1 .. n \div ONE + 2 :
     Abs(k * ONE - n) <= ONE + BLUR /\ Abs(k) * ONE <= Abs(n) + BLUR}

\* The angle as Sine takes it; the two while loops before do not matter to it.
Reduced(delta) == Wrapped(delta) % CIRCLE

\* Mutant of Rotated: turned with the robot instead of against it.
RotatedAlong(x, y, delta) ==
  LET c == Cosine(Reduced(delta))
      s == Sine[Reduced(delta)]
  IN  Short(x * c + y * s) \X Short(y * c - x * s)

\* The stick vector <<x, y>> as the robot sees it after a turn by delta.
Rotated(x, y, delta) ==
  LET c == Cosine(Reduced(delta))
      s == Sine[Reduced(delta)]
  IN  Short(x * c - y * s) \X Short(x * s + y * c)

-----------------------------------------------------------------------------
(* Steps of loop().                                                         *)

\* Nothing available on Serial2.
NoSerial ==
  /\ pc = "serial"
  /\ pc' = "hold"
  /\ UNCHANGED <<yawVars, rcVars, headlessVars, imu_ticks, driven, away>>

\* Bytes read and parsed; circle is Ps3.data.button.circle.
ReadSerial ==
  /\ pc = "serial"
  /\ pc' = "hold"
  /\ values' \in RcInputs \cup {values}
  /\ \E circle \in BOOLEAN :
       speed' = IF circle THEN 250 ELSE SwitchedSpeed(values')
  /\ mode' = SelectedMode(values')
  /\ headless_mode' = (values'[HEADLESS_SWITCH_CH - 1] < 1200)
  /\ SelectCommands(values')
  /\ UNCHANGED <<yawVars, headlessVars, imu_ticks, driven, away>>

Turning == Abs(vr_cmd) > 20

\* Mutant of Hold: the integral survives a turn by hand.
HoldAndWindUp ==
  /\ pc = "hold"
  /\ pc' = "imu"
  /\ yaw_hold_enabled' = ~ Turning
  /\ yaw_target' = IF Turning THEN yaw_angle ELSE yaw_target
  /\ UNCHANGED <<tickVars, yaw_angle, pidVars, vr_final>>
  /\ UNCHANGED <<rcVars, headlessVars, imu_ticks, driven, away>>

\* Mutant of Hold: the yaw hold is never switched off.
HoldAlways ==
  /\ pc = "hold"
  /\ pc' = "imu"
  /\ yaw_hold_enabled' = TRUE
  /\ IF Turning
     THEN yaw_target' = yaw_angle /\ pid_integral' = 0
     ELSE UNCHANGED <<yaw_target, pid_integral>>
  /\ UNCHANGED <<tickVars, yaw_angle, pid_prev_err, vr_final>>
  /\ UNCHANGED <<rcVars, headlessVars, imu_ticks, driven, away>>

\* Turning by hand moves the target along, and clears the integral.
Hold ==
  /\ pc = "hold"
  /\ pc' = "imu"
  /\ yaw_hold_enabled' = ~ Turning
  /\ IF Turning
     THEN yaw_target' = yaw_angle /\ pid_integral' = 0
     ELSE UNCHANGED <<yaw_target, pid_integral>>
  /\ UNCHANGED <<tickVars, yaw_angle, pid_prev_err, vr_final>>
  /\ UNCHANGED <<rcVars, headlessVars, imu_ticks, driven, away>>

\* imu_update(vr_cmd).
Update ==
  /\ pc = "imu"
  /\ pc' = "drive"
  /\ Claim
  /\ imu_ticks' = ticks_to_process'
  /\ UNCHANGED <<rcVars, headlessVars, driven, away>>

Tick ==
  /\ pc = "drive"
  /\ \E rate \in Rates :
       /\ ProcessTick(vr_cmd, rate)
       /\ yaw_angle' \in Headings
       /\ away' = (away + TurnedBy(rate)) % CIRCLE
  /\ UNCHANGED <<pc, rcVars, headlessVars, imu_ticks, driven>>

\* Switching headless mode on locks the heading of this moment.
LockReference ==
  /\ headless_prev' = headless_mode
  /\ IF headless_mode /\ ~ headless_prev
     THEN headless_yaw_ref' = yaw_angle /\ away' = 0
     ELSE UNCHANGED <<headless_yaw_ref, away>>

\* What the sticks ask for, in the robot's frame.
StickVectors(yaw_ref) ==
  IF headless_mode
  THEN Rotated(vx_cmd, vy_cmd, yaw_angle - yaw_ref)
  ELSE {<<vx_cmd, vy_cmd>>}

\* Mutant of DriveOmni: without a pilot mode the wheels are left alone.
DriveOnlyPilots ==
  IF mode = "NONE"
  THEN UNCHANGED driven
  ELSE \E v \in StickVectors(headless_yaw_ref') :
         driven' = [vx |-> v[1], vy |-> v[2], vr |-> vr_final]

\* The call of drive_omni.
DriveOmni ==
  IF mode = "NONE"
  THEN driven' = Stopped
  ELSE \E v \in StickVectors(headless_yaw_ref') :
         driven' = [vx |-> v[1], vy |-> v[2], vr |-> vr_final]

Drive ==
  /\ pc = "drive"
  /\ ticks_to_process = 0
  /\ pc' = "serial"
  /\ LockReference
  /\ DriveOmni
  /\ UNCHANGED <<yawVars, rcVars, imu_ticks>>

Interrupt ==
  /\ onImuTimer
  /\ UNCHANGED <<pc, rcVars, headlessVars, imu_ticks, driven, away>>

Loop == NoSerial \/ ReadSerial \/ Hold \/ Update \/ Tick \/ Drive

Next == Loop \/ Interrupt

\* The core calls loop() again and again, and the timer does not stop.
Fairness == WF_vars(Loop) /\ WF_vars(Interrupt)

Spec == Init /\ [][Next]_vars /\ Fairness

-----------------------------------------------------------------------------
(* Properties.  An iteration has ended when pc = "serial".                  *)

InPilotMode == pc = "serial" /\ mode # "NONE"

(* While the pilot turns by hand, the controller neither runs nor keeps an  *)
(* integral that would kick in when the stick is released.                  *)
NoWindUp == pc = "serial" /\ Turning => pid_integral = 0

(* A turn by hand reaches the wheels in the same iteration, not overridden  *)
(* by the yaw hold, whenever a tick was processed (with none, vr_final is   *)
(* that of an earlier iteration).                                           *)
TurnIsTheCommand ==
  InPilotMode /\ Turning /\ imu_ticks > 0 => driven.vr = vr_cmd

Distance(a, b) ==
  LET d == (a - b) % CIRCLE IN IF d > 180 * DEGREE THEN CIRCLE - d ELSE d

\* A degree on in the direction of vr: vr < 0 turns the robot to the left,
\* where angles grow.
Turned(vr) ==
  IF vr < 0 THEN yaw_angle + DEGREE
  ELSE IF vr > 0 THEN yaw_angle - DEGREE ELSE yaw_angle

(* The yaw hold turns the robot towards its target, the short way round and *)
(* over the seam at 180 degrees, against whatever integral an earlier error *)
(* has left, once the robot is two degrees or more off.  (Closer to the     *)
(* target the integral may outweigh the error: vr_final is 0 then, or even  *)
(* of the other sign.)                                                      *)
HoldTurnsTheShortWay ==
  InPilotMode /\ ~ Turning /\ imu_ticks > 0
    /\ Distance(yaw_angle, yaw_target) >= 2 * DEGREE
  => Distance(Turned(driven.vr), yaw_target) < Distance(yaw_angle, yaw_target)

\* A robot that faces `away' to the left of where it faced when headless mode
\* was switched on drives <<x, y>> in that old frame, in units of 1 / ONE.
InField(x, y) ==
  <<x * Cosine(away) + y * Sine[away], y * Cosine(away) - x * Sine[away]>>

(* In headless mode the robot drives where the sticks point, seen from the  *)
(* heading it had when the mode was switched on, however often and in which *)
(* direction it has turned since, up to two units that truncation may cost. *)
FieldDirection ==
  InPilotMode /\ headless_mode =>
    /\ Abs(InField(driven.vx, driven.vy)[1] - vx_cmd * ONE) <= 2 * ONE
    /\ Abs(InField(driven.vx, driven.vy)[2] - vy_cmd * ONE) <= 2 * ONE

(* A turn that the pilot keeps asking for is driven again and again.        *)
TurnReachesWheels ==
  <>[](Turning /\ mode # "NONE") => []<>(driven.vr = vr_cmd)

(* Leaving the pilot modes stops the wheels for as long as it lasts.        *)
NoneStops == <>[](mode = "NONE") => <>[](driven = Stopped)

(* "stop if no pilot mode selected" (main.ino): before a first frame, when  *)
(* nobody has selected anything, the wheels stand still.                    *)
StoppedBeforeFirstFrame ==
  (\A c \in 0 .. 15 : values[c] = 0) => driven = Stopped

=============================================================================
