------------------------------ MODULE ImuTimer ------------------------------
(***************************************************************************)
(* The timer interrupt against imu_update, under any caller, with the      *)
(* history that their correctness is about: how many ticks the timer       *)
(* raised, how many were processed, and how far the sensor says the robot  *)
(* has turned since it was switched on.                                    *)
(***************************************************************************)
EXTENDS YawControl

CONSTANTS
  Commands,       \* the turns vr_cmd that the caller may ask for
  MaxTicks        \* bound on the ticks the timer raises

ASSUME CommandsAssumption ==
  \A c \in Commands : c \in Int /\ -250 <= c /\ c <= 250

VARIABLES
  vr_cmd,         \* the parameter of imu_update
  raised,         \* ticks raised so far
  processed,      \* ticks processed so far
  turned          \* sum of all turns beyond the dead zone

vars == <<yawVars, vr_cmd, raised, processed, turned>>

TypeOK ==
  /\ YawTypeOK
  /\ vr_cmd \in Int /\ -250 <= vr_cmd /\ vr_cmd <= 250
  /\ raised \in Nat
  /\ processed \in Nat
  /\ turned \in Int

Init ==
  /\ YawInit
  /\ vr_cmd = 0
  /\ raised = 0
  /\ processed = 0
  /\ turned = 0

Interrupt ==
  /\ raised < MaxTicks
  /\ onImuTimer
  /\ raised' = raised + 1
  /\ UNCHANGED <<vr_cmd, processed, turned>>

\* Between two updates the caller may move the target and switch the hold.
Steer ==
  /\ ticks_to_process = 0
  /\ vr_cmd' \in Commands
  /\ yaw_hold_enabled' \in BOOLEAN
  /\ \/ UNCHANGED <<yaw_target, pid_integral>>
     \/ yaw_target' = yaw_angle /\ pid_integral' = 0
  /\ UNCHANGED <<tickVars, yaw_angle, pid_prev_err, vr_final>>
  /\ UNCHANGED <<raised, processed, turned>>

Update ==
  /\ Claim
  /\ UNCHANGED <<vr_cmd, raised, processed, turned>>

Tick ==
  \E rate \in Rates :
    /\ ProcessTick(vr_cmd, rate)
    /\ processed' = processed + 1
    /\ turned' = turned + TurnedBy(rate)
    /\ UNCHANGED <<vr_cmd, raised>>

Next == Interrupt \/ Steer \/ Update \/ Tick

\* loop() keeps calling imu_update, and imu_update keeps running.
Fairness == WF_vars(Update) /\ WF_vars(Tick)

Spec == Init /\ [][Next]_vars /\ Fairness

-----------------------------------------------------------------------------
(* No tick is lost or processed twice between the interrupt and loop(),     *)
(* however slow loop() is: the limit of imu_update leaves the rest pending. *)
TicksConserved == raised = processed + ticks_to_process + imu_tick_pending

(* However often the heading wrapped, it is the integral of all samples     *)
(* beyond the dead zone, up to whole turns.                                 *)
HeadingIsIntegral == (yaw_angle - turned) % CIRCLE = 0

(* Every tick raised is processed in the end, the backlog of a slow loop()  *)
(* included.                                                                *)
BacklogDrains == \A n \in 1 .. MaxTicks : raised >= n ~> processed >= n

=============================================================================
