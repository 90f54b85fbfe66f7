---------------------------- MODULE MotorProofs -----------------------------
(***************************************************************************)
(* The motors, for every motion, every speed of the lift and both decay    *)
(* modes: types, where the bridges end, what they pass through, and what   *)
(* the four wheels add up to.                                              *)
(***************************************************************************)
EXTENDS Motor, TLAPS

IsSpeed(s) == s \in Int /\ -255 <= s /\ s <= 255

IsDuties(d) ==
  /\ d \in [DIR : Int, PWM : Int]
  /\ d.DIR \in Int /\ 0 <= d.DIR /\ d.DIR <= 255
  /\ d.PWM \in Int /\ 0 <= d.PWM /\ d.PWM <= 255

-----------------------------------------------------------------------------
(* One motor.                                                               *)

(* The clamp of setMotorSpeed changes only speeds out of range.             *)
LEMMA ClampedSpeed ==
  ASSUME NEW s \in Int
  PROVE  /\ IsSpeed(Clamped(s))
         /\ IsSpeed(s) => Clamped(s) = s
BY DEF IsSpeed, Clamped, MAX_SPEED, MIN_SPEED

(* In either mode the two duties fit the timer and differ by the speed.     *)
LEMMA DutiesOfSpeed ==
  ASSUME NEW s, IsSpeed(s)
  PROVE  /\ IsDuties(Duties(s))
         /\ Duties(s).DIR - Duties(s).PWM = s
<1>1. CASE s < 0
  BY <1>1 DEF IsSpeed, IsDuties, Duties, SlowDecay, FastDecay
<1>2. CASE s > 0
  BY <1>2 DEF IsSpeed, IsDuties, Duties, SlowDecay, FastDecay
<1>3. CASE s = 0
  BY <1>3 DEF IsSpeed, IsDuties, Duties, SlowDecay, FastDecay
<1> QED BY <1>1, <1>2, <1>3 DEF IsSpeed

(* With the new duty on one pin and the old one on the other, the bridge    *)
(* lies between the two speeds: if both are running, or in fast decay.      *)
LEMMA MixedDutiesOfSpeeds ==
  ASSUME NEW old, IsSpeed(old), NEW new, IsSpeed(new),
         (old # 0 /\ new # 0) \/ decayMode = FAST_DECAY_MODE
  PROVE  Between(Duties(new).DIR - Duties(old).PWM, old, new)
<1> USE DEF IsSpeed, Duties, SlowDecay, FastDecay, Between, SLOW_DECAY_MODE,
            FAST_DECAY_MODE
<1>1. CASE new < 0
  BY <1>1
<1>2. CASE new > 0
  BY <1>2
<1>3. CASE new = 0
  BY <1>3
<1> QED BY <1>1, <1>2, <1>3

(* Writing one pin of one motor leaves all other pins alone.                *)
LEMMA WrittenDIR ==
  ASSUME NEW f \in [Motors -> [DIR : Int, PWM : Int]], NEW h \in Motors, NEW d \in Int
  PROVE  LET g == [f EXCEPT ![h].DIR = d]
         IN  /\ g \in [Motors -> [DIR : Int, PWM : Int]]
             /\ g[h].DIR = d /\ g[h].PWM = f[h].PWM
             /\ \A m \in Motors : m # h => g[m] = f[m]
OBVIOUS

(* The same for the other pin.                                              *)
LEMMA WrittenPWM ==
  ASSUME NEW f \in [Motors -> [DIR : Int, PWM : Int]], NEW h \in Motors, NEW d \in Int
  PROVE  LET g == [f EXCEPT ![h].PWM = d]
         IN  /\ g \in [Motors -> [DIR : Int, PWM : Int]]
             /\ g[h].DIR = f[h].DIR /\ g[h].PWM = d
             /\ \A m \in Motors : m # h => g[m] = f[m]
OBVIOUS

-----------------------------------------------------------------------------
(* omni_kinematics.                                                         *)

IsMotion(v) == v \in Int \X Int \X Int

(* Fastest is the largest of the four magnitudes.                           *)
LEMMA FastestWheel ==
  ASSUME NEW w, \A c \in Wheels : w[c] \in Int
  PROVE  /\ Fastest(w) \in Nat
         /\ \A c \in Wheels : Abs(w[c]) <= Fastest(w)
<1>1. \A c \in Wheels : Abs(w[c]) \in Nat
  BY DEF Abs
<1>2. \E s \in {Abs(w[c]) : c \in Wheels} : \A c \in Wheels : Abs(w[c]) <= s
  <2> DEFINE fl == Abs(w["FL"])  fr == Abs(w["FR"])
             rr == Abs(w["RR"])  rl == Abs(w["RL"])
  <2>1. fl \in Nat /\ fr \in Nat /\ rr \in Nat /\ rl \in Nat
    BY <1>1 DEF Wheels
  <2>2. {Abs(w[c]) : c \in Wheels} = {fl, fr, rr, rl}
    BY DEF Wheels
  <2>3. \A s : (\A c \in Wheels : Abs(w[c]) <= s) <=>
               fl <= s /\ fr <= s /\ rr <= s /\ rl <= s
    BY DEF Wheels
  <2> HIDE DEF fl, fr, rr, rl
  <2>4. \E s \in {fl, fr, rr, rl} : fl <= s /\ fr <= s /\ rr <= s /\ rl <= s
    BY <2>1
  <2> QED BY <2>2, <2>3, <2>4
<1> QED BY <1>1, <1>2 DEF Fastest

(* Division by the largest magnitude and the units that float loses: a      *)
(* wheel's speed, times the divisor, is within the divisor of the exact     *)
(* value.                                                                   *)
LEMMA ScaledWheel ==
  ASSUME NEW x \in Int, NEW max \in Int, max > 255, Abs(x) <= max,
         NEW short,
         Abs(x) \in short => Abs(x) # 0 /\ (Abs(x) * 255) % max = 0
  PROVE  /\ IsSpeed(Scaled(x, max, short))
         /\ -max <= Scaled(x, max, short) * max - x * 255
         /\ Scaled(x, max, short) * max - x * 255 <= max
<1> DEFINE a == Abs(x)
           q == (a * 255) \div max
           r == (a * 255) % max
           s == q - (IF a \in short THEN 1 ELSE 0)
<1>1. a \in Int /\ 0 <= a /\ a <= max /\ x = (IF x < 0 THEN -a ELSE a)
  BY DEF Abs
<1>2. q \in Int /\ r \in Int /\ 0 <= r /\ r < max /\ a * 255 = max * q + r
  BY <1>1
<1>3. a \in short => a # 0 /\ r = 0
  OBVIOUS
<1>4. Scaled(x, max, short) = IF x < 0 THEN -s ELSE s
  BY DEF Scaled
<1> HIDE DEF a, q, r
<1>5. \A n \in Int : n >= 256 => max * n >= max * 256
  OBVIOUS
<1>6. \A n \in Int : n <= -1 => max * n <= -max
  OBVIOUS
<1>7. 0 <= q /\ q <= 255
  BY <1>1, <1>2, <1>5, <1>6
<1>8. a \in short => q >= 1
  BY <1>1, <1>2, <1>3, <1>7
<1>9. s \in Int /\ 0 <= s /\ s <= 255
  BY <1>2, <1>7, <1>8
<1>10. s * max = max * q - (IF a \in short THEN max ELSE 0)
  BY <1>2
<1>11. -max <= s * max - a * 255 /\ s * max - a * 255 <= 0
  BY <1>1, <1>2, <1>3, <1>9, <1>10
<1> HIDE DEF s
<1>12. (-s) * max = -(s * max)
  BY <1>9
<1> QED BY <1>1, <1>4, <1>9, <1>11, <1>12 DEF IsSpeed

(* What omni_kinematics says that four wheel speeds w add up to, for a      *)
(* motion v: what WheelsMoveAsAsked says of the motors.                     *)
SumsTo(w, v) ==
  LET max == Fastest(Unscaled(v[1], v[2], v[3]))
      Near(sum, u) == IF max <= 255 THEN sum = 4 * u
                      ELSE Abs(sum * max - 4 * u * 255) <= 4 * max
  IN  /\ Near(w.FL + w.FR + w.RR + w.RL, v[1])
      /\ Near(w.FL - w.FR + w.RR - w.RL, v[2])
      /\ Near(w.FL - w.FR - w.RR + w.RL, v[3])

(* Every answer of omni_kinematics is within the range of the motors, and   *)
(* adds up to the motion.                                                   *)
LEMMA KinematicsCorrect ==
  ASSUME NEW v, IsMotion(v), NEW w \in omni_kinematics(v[1], v[2], v[3])
  PROVE  /\ \A c \in Wheels : IsSpeed(w[c])
         /\ SumsTo(w, v)
<1> DEFINE u == Unscaled(v[1], v[2], v[3])
           max == Fastest(u)
<1>1. v[1] \in Int /\ v[2] \in Int /\ v[3] \in Int
  BY DEF IsMotion
<1>2. /\ \A c \in Wheels : u[c] \in Int
      /\ u.FL + u.FR + u.RR + u.RL = 4 * v[1]
      /\ u.FL - u.FR + u.RR - u.RL = 4 * v[2]
      /\ u.FL - u.FR - u.RR + u.RL = 4 * v[3]
  BY <1>1 DEF Unscaled, Wheels
<1>3. max \in Nat /\ \A c \in Wheels : Abs(u[c]) <= max
  BY <1>2, FastestWheel
<1>4. w \in IF max > 255
            THEN {[c \in Wheels |-> Scaled(u[c], max, short)] :
                    short \in SUBSET Exact(u, max)}
            ELSE {u}
  BY DEF omni_kinematics
<1>5. CASE max <= 255
  <2> HIDE DEF u
  <2>1. w = u
    BY <1>3, <1>4, <1>5
  <2>2. \A c \in Wheels : IsSpeed(w[c])
    BY <1>2, <1>3, <1>5, <2>1 DEF IsSpeed, Abs
  <2>3. SumsTo(w, v)
    BY <1>2, <1>5, <2>1 DEF SumsTo, u
  <2> QED BY <2>2, <2>3
<1>6. CASE max > 255
  <2>1. PICK short \in SUBSET Exact(u, max) :
          w = [c \in Wheels |-> Scaled(u[c], max, short)]
    BY <1>4, <1>6
  <2>2. ASSUME NEW c \in Wheels
        PROVE  /\ IsSpeed(w[c])
               /\ -max <= w[c] * max - u[c] * 255
               /\ w[c] * max - u[c] * 255 <= max
    <3>1. u[c] \in Int /\ Abs(u[c]) <= max
      BY <1>2, <1>3
    <3>2. Abs(u[c]) \in short => Abs(u[c]) # 0 /\ (Abs(u[c]) * 255) % max = 0
      BY <2>1 DEF Exact
    <3>3. w[c] = Scaled(u[c], max, short)
      BY <2>1
    <3> HIDE DEF u, max
    <3> QED BY <1>3, <1>6, <3>1, <3>2, <3>3, ScaledWheel
  <2> DEFINE fl == w.FL  fr == w.FR  rr == w.RR  rl == w.RL
  <2>3. /\ fl \in Int /\ -max <= fl * max - u.FL * 255 /\ fl * max - u.FL * 255 <= max
        /\ fr \in Int /\ -max <= fr * max - u.FR * 255 /\ fr * max - u.FR * 255 <= max
        /\ rr \in Int /\ -max <= rr * max - u.RR * 255 /\ rr * max - u.RR * 255 <= max
        /\ rl \in Int /\ -max <= rl * max - u.RL * 255 /\ rl * max - u.RL * 255 <= max
    <3> HIDE DEF u, max
    <3> QED BY <2>2 DEF Wheels, IsSpeed
  <2>4. u.FL \in Int /\ u.FR \in Int /\ u.RR \in Int /\ u.RL \in Int
    BY <1>2 DEF Wheels
  <2> HIDE DEF u, max, fl, fr, rr, rl
  <2>5. /\ (fl + fr + rr + rl) * max = fl * max + fr * max + rr * max + rl * max
        /\ (fl - fr + rr - rl) * max = fl * max - fr * max + rr * max - rl * max
        /\ (fl - fr - rr + rl) * max = fl * max - fr * max - rr * max + rl * max
    BY <1>3, <2>3
  <2>6. Abs((fl + fr + rr + rl) * max - 4 * v[1] * 255) <= 4 * max
    BY <1>1, <1>2, <1>3, <2>3, <2>4, <2>5 DEF Abs
  <2>7. Abs((fl - fr + rr - rl) * max - 4 * v[2] * 255) <= 4 * max
    BY <1>1, <1>2, <1>3, <2>3, <2>4, <2>5 DEF Abs
  <2>8. Abs((fl - fr - rr + rl) * max - 4 * v[3] * 255) <= 4 * max
    BY <1>1, <1>2, <1>3, <2>3, <2>4, <2>5 DEF Abs
  <2>9. SumsTo(w, v)
    BY <1>3, <1>6, <2>6, <2>7, <2>8 DEF SumsTo, u, max, fl, fr, rr, rl
  <2> QED BY <2>2, <2>9
<1> HIDE DEF u, max
<1> QED BY <1>3, <1>5, <1>6

-----------------------------------------------------------------------------
(* The invariant.                                                           *)

Waiting(m) == \E i \in 1 .. Len(queue) : queue[i] = m

VarTypes ==
  /\ duty \in [Motors -> [DIR : Int, PWM : Int]]
  /\ speed \in [Motors -> Int]
  /\ \A m \in Motors : IsDuties(duty[m]) /\ IsSpeed(speed[m]) /\ IsSpeed(before[m])
  /\ queue \in Seq(Motors)
  /\ half \in BOOLEAN
  /\ IsMotion(motion)

(* How far the writes have come: a motor that does not wait has the duties  *)
(* of its speed, one that waits still those of the speed before, and the    *)
(* one at the head may have one pin of each.                                *)
WritesInStep ==
  /\ half => queue # <<>>
  /\ \A i, j \in 1 .. Len(queue) : queue[i] = queue[j] => i = j
  /\ \A m \in Motors :
       /\ ~ Waiting(m) => duty[m] = Duties(speed[m])
       /\ Waiting(m) => duty[m].PWM = Duties(before[m]).PWM
       /\ Waiting(m) /\ (~ half \/ m # queue[1]) => duty[m].DIR = Duties(before[m]).DIR
       /\ Waiting(m) /\ half /\ m = queue[1] => duty[m].DIR = Duties(speed[m]).DIR

WheelSpeeds == [FL |-> speed[4], FR |-> speed[5], RR |-> speed[1], RL |-> speed[0]]

WheelsInStep == SumsTo(WheelSpeeds, motion)

MotorInv == VarTypes /\ WritesInStep /\ WheelsInStep

(* At start-up everything is zero.                                          *)
LEMMA InitInv == Init => MotorInv
<1> SUFFICES ASSUME Init PROVE MotorInv
  OBVIOUS
<1>1. IsSpeed(0) /\ Duties(0) = [DIR |-> 0, PWM |-> 0]
  BY DEF IsSpeed, Duties, SlowDecay, FastDecay
<1>2. \A m \in Motors : /\ duty[m] = [DIR |-> 0, PWM |-> 0]
                        /\ speed[m] = 0 /\ before[m] = 0
  BY DEF Init
<1>3. VarTypes
  <2>1. /\ duty \in [Motors -> [DIR : Int, PWM : Int]]
        /\ speed \in [Motors -> Int]
        /\ queue \in Seq(Motors)
        /\ IsMotion(motion)
    BY DEF Init, IsMotion
  <2>2. \A m \in Motors : IsDuties(duty[m]) /\ IsSpeed(speed[m]) /\ IsSpeed(before[m])
    BY <1>1, <1>2 DEF IsDuties
  <2>3. half \in BOOLEAN
    BY Zenon DEF Init
  <2> QED BY <2>1, <2>2, <2>3, Zenon DEF VarTypes
<1>4. ~ half /\ Len(queue) = 0
  BY DEF Init
<1>5. WritesInStep
  BY <1>1, <1>2, <1>4 DEF WritesInStep, Waiting
<1>6. WheelsInStep
  <2>1. WheelSpeeds = [FL |-> 0, FR |-> 0, RR |-> 0, RL |-> 0]
    BY <1>2 DEF WheelSpeeds, Motors, MOTOR_COUNT
  <2>2. motion[1] = 0 /\ motion[2] = 0 /\ motion[3] = 0
    BY DEF Init
  <2>3. \A max : 0 * max = 0 \/ max \notin Int
    OBVIOUS
  <2>4. Unscaled(0, 0, 0) = [FL |-> 0, FR |-> 0, RR |-> 0, RL |-> 0]
    BY DEF Unscaled
  <2>5. Fastest(Unscaled(0, 0, 0)) \in Nat
    BY <2>4, FastestWheel DEF Wheels
  <2>6. Fastest(Unscaled(0, 0, 0)) = 0
    BY <2>4 DEF Fastest, Wheels, Abs
  <2> QED BY <2>1, <2>2, <2>6 DEF WheelsInStep, SumsTo
<1> QED BY <1>3, <1>5, <1>6 DEF MotorInv

(* A call asks for new speeds when all writes are done: all duties are      *)
(* those of the speeds that it is to replace.                               *)
LEMMA AskInv ==
  ASSUME MotorInv, NEW speeds, NEW order \in Seq(Motors), Ask(speeds, order),
         speeds \in [Motors -> Int],
         \A m \in Motors : IsSpeed(speeds[m]),
         \A i, j \in 1 .. Len(order) : order[i] = order[j] => i = j,
         \A m \in Motors : (\A i \in 1 .. Len(order) : order[i] # m)
                           => speeds[m] = speed[m],
         IsMotion(motion')
  PROVE  VarTypes' /\ WritesInStep'
<1> USE DEF MotorInv, Ask
<1>1. VarTypes'
  BY DEF VarTypes
<1>2. \A m \in Motors : duty[m] = Duties(speed[m])
  BY DEF WritesInStep, Waiting
<1>3. ~ half
  BY DEF WritesInStep
<1>4. WritesInStep'
  BY <1>2, <1>3 DEF WritesInStep, Waiting
<1> QED BY <1>1, <1>4

(* The wheels' motors get what omni_kinematics answers.                     *)
LEMMA DriveInv ==
  ASSUME MotorInv, drive_omni
  PROVE  MotorInv'
<1>1. PICK v \in Motions : /\ motion' = v
                           /\ \E w \in omni_kinematics(v[1], v[2], v[3]) :
                                Ask(WithWheels(w), DriveOrder)
  BY DEF drive_omni
<1>2. PICK w \in omni_kinematics(v[1], v[2], v[3]) : Ask(WithWheels(w), DriveOrder)
  BY <1>1
<1>3. IsMotion(v)
  BY MotionsAssumption DEF IsMotion
<1>4. (\A c \in Wheels : IsSpeed(w[c])) /\ SumsTo(w, v)
  BY <1>3, KinematicsCorrect
<1>5. \A c \in Wheels : Clamped(w[c]) = w[c]
  BY <1>4, ClampedSpeed DEF IsSpeed
<1> DEFINE s == WithWheels(w)
<1>6. /\ s[4] = w.FL /\ s[5] = w.FR /\ s[1] = w.RR /\ s[0] = w.RL
      /\ s[2] = speed[2] /\ s[3] = speed[3]
  BY <1>5 DEF WithWheels, Wheels, Motors, MOTOR_COUNT
<1>7. Motors = {0, 1, 2, 3, 4, 5}
  BY DEF Motors, MOTOR_COUNT
<1>8. \A m \in Motors : IsSpeed(s[m])
  BY <1>4, <1>6, <1>7 DEF Wheels, MotorInv, VarTypes
<1>9. s \in [Motors -> Int]
  <2>1. s = [m \in Motors |-> s[m]]
    BY DEF WithWheels
  <2> HIDE DEF s
  <2> QED BY <1>8, <2>1 DEF IsSpeed
<1>10. /\ DriveOrder \in Seq(Motors) /\ Len(DriveOrder) = 4
       /\ DriveOrder[1] = 0 /\ DriveOrder[2] = 1
       /\ DriveOrder[3] = 4 /\ DriveOrder[4] = 5
  BY <1>7 DEF DriveOrder
<1> HIDE DEF s
<1>11. \A i, j \in 1 .. Len(DriveOrder) : DriveOrder[i] = DriveOrder[j] => i = j
  BY <1>10
<1>12. \A m \in Motors : (\A i \in 1 .. Len(DriveOrder) : DriveOrder[i] # m)
                         => s[m] = speed[m]
  BY <1>6, <1>7, <1>10
<1>13. Ask(s, DriveOrder)
  BY <1>2 DEF s
<1>14. VarTypes' /\ WritesInStep'
  BY <1>1, <1>3, <1>8, <1>9, <1>10, <1>11, <1>12, <1>13,
     AskInv, ZenonT(60)
<1>15. WheelsInStep'
  <2>1. WheelSpeeds' = [FL |-> w.FL, FR |-> w.FR, RR |-> w.RR, RL |-> w.RL]
    BY <1>6, <1>13 DEF WheelSpeeds, Ask
  <2> QED BY <1>1, <1>4, <2>1 DEF WheelsInStep, SumsTo
<1> QED BY <1>14, <1>15 DEF MotorInv

(* The gamepad sets the lift, no wheel.                                     *)
LEMMA NotifyInv ==
  ASSUME MotorInv, Notify
  PROVE  MotorInv'
<1>1. PICK s \in LiftSpeeds : Ask([speed EXCEPT ![Lift] = Clamped(s)], <<Lift>>)
  BY DEF Notify
<1>2. IsSpeed(Clamped(s))
  BY LiftAssumption, ClampedSpeed
<1>3. motion' = motion /\ IsMotion(motion)
  BY DEF Notify, MotorInv, VarTypes
<1> DEFINE t == [speed EXCEPT ![Lift] = Clamped(s)]
<1>4. Motors = {0, 1, 2, 3, 4, 5} /\ Lift = 3
  BY DEF Motors, MOTOR_COUNT, Lift
<1>5. /\ \A m \in Motors : t[m] = IF m = 3 THEN Clamped(s) ELSE speed[m]
      /\ t \in [Motors -> Int]
  <2>1. speed \in [Motors -> Int] /\ Clamped(s) \in Int
    BY <1>2 DEF MotorInv, VarTypes, IsSpeed
  <2> QED BY <1>4, <2>1
<1> DEFINE order == <<Lift>>
<1>6. order \in Seq(Motors) /\ Len(order) = 1 /\ order[1] = 3
  BY <1>4
<1> HIDE DEF t
<1>7. \A m \in Motors : IsSpeed(t[m])
  BY <1>2, <1>5 DEF MotorInv, VarTypes
<1>10. Ask(t, order)
  BY <1>1 DEF t
<1> HIDE DEF order
<1>8. \A m \in Motors : (\A i \in 1 .. Len(order) : order[i] # m) => t[m] = speed[m]
  BY <1>5, <1>6
<1>9. \A i, j \in 1 .. Len(order) : order[i] = order[j] => i = j
  BY <1>6
<1>11. VarTypes' /\ WritesInStep'
  BY <1>3, <1>5, <1>6, <1>7, <1>8, <1>9, <1>10, AskInv
<1>12. WheelSpeeds' = WheelSpeeds
  BY <1>4, <1>5, <1>10 DEF WheelSpeeds, Ask
<1>13. WheelsInStep'
  BY <1>3, <1>12 DEF WheelsInStep, MotorInv, SumsTo
<1> QED BY <1>11, <1>13 DEF MotorInv

(* The first pin of the motor at the head.                                  *)
LEMMA WriteFirstInv ==
  ASSUME MotorInv, WriteFirst
  PROVE  MotorInv'
<1> DEFINE h == queue[1]  d == Duties(speed[h])
<1>1. queue \in Seq(Motors) /\ Len(queue) >= 1 /\ Head(queue) = h /\ h \in Motors
  BY DEF MotorInv, VarTypes, WriteFirst
<1>2. IsDuties(d)
  <2>1. IsSpeed(speed[h])
    BY <1>1, Zenon DEF MotorInv, VarTypes
  <2> QED BY <2>1, DutiesOfSpeed
<1>3. /\ duty' = [duty EXCEPT ![h].DIR = d.DIR]
      /\ half' = TRUE
      /\ UNCHANGED <<speed, before, queue, motion>>
  BY <1>1 DEF WriteFirst
<1>4. /\ duty' \in [Motors -> [DIR : Int, PWM : Int]]
      /\ duty'[h].DIR = d.DIR /\ duty'[h].PWM = duty[h].PWM
      /\ \A m \in Motors : m # h => duty'[m] = duty[m]
  <2>1. d.DIR \in Int /\ duty \in [Motors -> [DIR : Int, PWM : Int]]
    BY <1>2 DEF IsDuties, MotorInv, VarTypes
  <2>2. h \in Motors /\ duty' = [duty EXCEPT ![h].DIR = d.DIR]
    BY <1>1, <1>3
  <2> HIDE DEF h, d
  <2> QED BY <2>1, <2>2, WrittenDIR
<1>5. VarTypes'
  <2>1. \A m \in Motors : IsDuties(duty'[m])
    <3>1. \A m \in Motors : IsDuties(duty[m])
      BY DEF MotorInv, VarTypes
    <3> HIDE DEF h, d
    <3> QED BY <1>2, <1>4, <3>1 DEF IsDuties
  <2>2. half' \in BOOLEAN
    BY <1>3, Zenon
  <2>3. /\ speed' \in [Motors -> Int] /\ queue' \in Seq(Motors) /\ IsMotion(motion)'
        /\ \A m \in Motors : IsSpeed(speed'[m]) /\ IsSpeed(before'[m])
    BY <1>3 DEF MotorInv, VarTypes, IsMotion
  <2> QED BY <1>4, <2>1, <2>2, <2>3, Zenon DEF VarTypes
<1>6. Waiting(h) /\ ~ half
  BY <1>1 DEF Waiting, WriteFirst
<1>7. \A m : Waiting(m)' <=> Waiting(m)
  BY <1>3 DEF Waiting
<1>8. WritesInStep'
  BY <1>1, <1>3, <1>4, <1>6, <1>7 DEF MotorInv, WritesInStep
<1>9. WheelsInStep'
  BY <1>3 DEF MotorInv, WheelsInStep, WheelSpeeds, SumsTo
<1> QED BY <1>5, <1>8, <1>9 DEF MotorInv

(* The second pin; then it is the next motor's turn.                        *)
LEMMA WriteSecondInv ==
  ASSUME MotorInv, WriteSecond
  PROVE  MotorInv'
<1> DEFINE h == queue[1]  d == Duties(speed[h])
<1>1. /\ queue \in Seq(Motors) /\ Len(queue) >= 1
      /\ Head(queue) = h /\ h \in Motors
  BY DEF MotorInv, VarTypes, WritesInStep, WriteSecond
<1>13. half
  BY DEF WriteSecond
<1>2. IsDuties(d)
  <2>1. IsSpeed(speed[h])
    BY <1>1, Zenon DEF MotorInv, VarTypes
  <2> QED BY <2>1, DutiesOfSpeed
<1>3. /\ duty' = [duty EXCEPT ![h].PWM = d.PWM]
      /\ queue' = Tail(queue)
      /\ UNCHANGED <<speed, before, motion>>
  BY <1>1 DEF WriteSecond
<1>14. half' = FALSE
  BY DEF WriteSecond
<1>4. /\ duty' \in [Motors -> [DIR : Int, PWM : Int]]
      /\ duty'[h].DIR = duty[h].DIR /\ duty'[h].PWM = d.PWM
      /\ \A m \in Motors : m # h => duty'[m] = duty[m]
  <2>1. d.PWM \in Int /\ duty \in [Motors -> [DIR : Int, PWM : Int]]
    BY <1>2 DEF IsDuties, MotorInv, VarTypes
  <2>2. h \in Motors /\ duty' = [duty EXCEPT ![h].PWM = d.PWM]
    BY <1>1, <1>3
  <2> HIDE DEF h, d
  <2> QED BY <2>1, <2>2, WrittenPWM
<1>5. /\ queue' \in Seq(Motors) /\ Len(queue') = Len(queue) - 1
      /\ \A i \in 1 .. Len(queue') : queue'[i] = queue[i + 1]
  BY <1>1, <1>3
<1>6. VarTypes'
  <2>1. \A m \in Motors : IsDuties(duty'[m])
    <3>1. \A m \in Motors : IsDuties(duty[m])
      BY DEF MotorInv, VarTypes
    <3> HIDE DEF h, d
    <3> QED BY <1>2, <1>4, <3>1 DEF IsDuties
  <2>2. half' \in BOOLEAN
    BY <1>14, Zenon
  <2>3. /\ speed' \in [Motors -> Int] /\ IsMotion(motion)'
        /\ \A m \in Motors : IsSpeed(speed'[m]) /\ IsSpeed(before'[m])
    BY <1>3 DEF MotorInv, VarTypes, IsMotion
  <2> QED BY <1>4, <1>5, <2>1, <2>2, <2>3, Zenon DEF VarTypes
<1>7. \A i, j \in 1 .. Len(queue) : queue[i] = queue[j] => i = j
  BY DEF MotorInv, WritesInStep
<1>8. \A m : Waiting(m)' <=> Waiting(m) /\ m # h
  <2> TAKE m
  <2>1. ASSUME Waiting(m)' PROVE Waiting(m) /\ m # h
    <3>1. PICK i \in 1 .. Len(queue') : queue'[i] = m
      BY <2>1 DEF Waiting
    <3>2. i + 1 \in 1 .. Len(queue) /\ queue[i + 1] = m /\ i + 1 # 1
      BY <1>1, <1>5, <3>1
    <3> QED BY <1>1, <1>7, <3>2 DEF Waiting
  <2>2. ASSUME Waiting(m), m # h PROVE Waiting(m)'
    <3>1. PICK i \in 1 .. Len(queue) : queue[i] = m
      BY <2>2 DEF Waiting
    <3>2. i - 1 \in 1 .. Len(queue') /\ queue'[i - 1] = m
      BY <1>1, <1>5, <2>2, <3>1
    <3> QED BY <3>2 DEF Waiting
  <2> QED BY <2>1, <2>2
<1>9. duty'[h] = d
  <2>1. Waiting(h)
    BY <1>1 DEF Waiting
  <2>2. duty[h].DIR = d.DIR
    BY <1>1, <1>13, <2>1 DEF MotorInv, WritesInStep
  <2>3. duty'[h] \in [DIR : Int, PWM : Int] /\ d \in [DIR : Int, PWM : Int]
    BY <1>1, <1>2, <1>4 DEF IsDuties
  <2> HIDE DEF h, d
  <2> QED BY <1>4, <2>2, <2>3
<1>10. \A i, j \in 1 .. Len(queue') : queue'[i] = queue'[j] => i = j
  <2> SUFFICES ASSUME NEW i \in 1 .. Len(queue'), NEW j \in 1 .. Len(queue'),
                      queue'[i] = queue'[j]
               PROVE  i = j
    OBVIOUS
  <2>1. i + 1 \in 1 .. Len(queue) /\ j + 1 \in 1 .. Len(queue)
    BY <1>1, <1>5
  <2>2. queue[i + 1] = queue[j + 1]
    BY <1>5
  <2> QED BY <1>7, <2>1, <2>2
<1>11. WritesInStep'
  <2>1. \A m \in Motors : m # h => /\ duty'[m] = duty[m]
                                   /\ speed'[m] = speed[m] /\ before'[m] = before[m]
                                   /\ Waiting(m)' <=> Waiting(m)
    BY <1>3, <1>4, <1>8
  <2>2. \A m \in Motors : m = h => ~ Waiting(m)'
    BY <1>8
  <2>4. ~ half'
    BY <1>14, Zenon
  <2>3. duty'[h] = Duties(speed'[h])
    BY <1>3, <1>9
  <2>5. ASSUME NEW m \in Motors
        PROVE  /\ ~ Waiting(m)' => duty'[m] = Duties(speed'[m])
               /\ Waiting(m)' => /\ duty'[m].DIR = Duties(before'[m]).DIR
                                 /\ duty'[m].PWM = Duties(before'[m]).PWM
    <3>1. CASE m = h
      BY <2>2, <2>3, <3>1
    <3>2. CASE m # h
      <4>1. m # queue[1]
        BY <3>2
      <4> HIDE DEF h, d
      <4> QED BY <2>1, <3>2, <4>1 DEF MotorInv, WritesInStep
    <3> QED BY <3>1, <3>2
  <2> HIDE DEF h, d
  <2> QED BY <1>10, <2>4, <2>5 DEF WritesInStep
<1>12. WheelsInStep'
  BY <1>3 DEF MotorInv, WheelsInStep, WheelSpeeds, SumsTo
<1> QED BY <1>6, <1>11, <1>12 DEF MotorInv

(* MotorInv holds in every reachable state.                                 *)
THEOREM Invariance == Spec => []MotorInv
<1>1. Init => MotorInv
  BY InitInv
<1>2. MotorInv /\ [Next]_vars => MotorInv'
  <2> SUFFICES ASSUME MotorInv, [Next]_vars PROVE MotorInv'
    OBVIOUS
  <2>1. CASE drive_omni
    BY <2>1, DriveInv
  <2>2. CASE Notify
    BY <2>2, NotifyInv
  <2>3. CASE WriteFirst
    BY <2>3, WriteFirstInv
  <2>4. CASE WriteSecond
    BY <2>4, WriteSecondInv
  <2>5. CASE UNCHANGED vars
    BY <2>5 DEF vars, MotorInv, VarTypes, WritesInStep, Waiting, WheelsInStep,
                WheelSpeeds, SumsTo
  <2> QED BY <2>1, <2>2, <2>3, <2>4, <2>5 DEF Next
<1> QED BY <1>1, <1>2, PTL DEF Spec

-----------------------------------------------------------------------------
(* What follows.                                                            *)

(* Duties, speeds and the queue have their types.                           *)
THEOREM TypeCorrect == Spec => []TypeOK
<1>1. MotorInv => TypeOK
  <2> SUFFICES ASSUME MotorInv PROVE TypeOK
    OBVIOUS
  <2>1. \A m \in Motors : IsDuties(duty[m]) /\ IsSpeed(speed[m]) /\ IsSpeed(before[m])
    BY DEF MotorInv, VarTypes
  <2>2. /\ \A m \in Motors : IsDuty(duty[m].DIR) /\ IsDuty(duty[m].PWM)
        /\ \A m \in Motors : speed[m] \in MIN_SPEED .. MAX_SPEED
        /\ \A m \in Motors : before[m] \in MIN_SPEED .. MAX_SPEED
    <3>1. /\ MAX_SPEED \in Int /\ MIN_SPEED \in Int
          /\ \A x : IsSpeed(x) => x \in Int /\ MIN_SPEED <= x /\ x <= MAX_SPEED
          /\ \A d : IsDuties(d) => /\ d.DIR \in Int /\ 0 <= d.DIR /\ d.DIR <= MAX_SPEED
                                  /\ d.PWM \in Int /\ 0 <= d.PWM /\ d.PWM <= MAX_SPEED
      BY DEF MAX_SPEED, MIN_SPEED, IsSpeed, IsDuties
    <3> QED BY <2>1, <3>1 DEF IsDuty
  <2>3. queue \in Seq(Motors) /\ half \in BOOLEAN /\ motion \in Int \X Int \X Int
    BY Zenon DEF MotorInv, VarTypes, IsMotion
  <2> QED BY <2>2, <2>3, Zenon DEF TypeOK
<1> QED BY <1>1, Invariance, PTL

(* When all writes of setMotorSpeed are done, each bridge drives its motor  *)
(* with the speed asked for, whatever it did before.                        *)
THEOREM BridgesSettle == Spec => []Settled
<1>1. MotorInv => Settled
  <2> SUFFICES ASSUME MotorInv, queue = <<>>, NEW m \in Motors
               PROVE  Drive(m) = speed[m]
    BY DEF Settled
  <2>1. ~ Waiting(m)
    BY DEF Waiting
  <2>2. duty[m] = Duties(speed[m]) /\ IsSpeed(speed[m])
    BY <2>1 DEF MotorInv, VarTypes, WritesInStep
  <2> QED BY <2>2, DutiesOfSpeed DEF Drive
<1> QED BY <1>1, Invariance, PTL

(* What a bridge may see between two writes.                                *)
LEMMA BridgeBetween ==
  ASSUME MotorInv, NEW m \in Motors,
         (before[m] # 0 /\ speed[m] # 0) \/ decayMode = FAST_DECAY_MODE
  PROVE  Between(Drive(m), before[m], speed[m])
<1>1. IsSpeed(before[m]) /\ IsSpeed(speed[m])
  BY DEF MotorInv, VarTypes
<1>2. \/ Drive(m) = speed[m]
      \/ Drive(m) = before[m]
      \/ Drive(m) = Duties(speed[m]).DIR - Duties(before[m]).PWM
  BY <1>1, DutiesOfSpeed DEF MotorInv, WritesInStep, Drive
<1>3. Between(speed[m], before[m], speed[m]) /\ Between(before[m], before[m], speed[m])
  BY <1>1 DEF Between, IsSpeed
<1> QED BY <1>1, <1>2, <1>3, MixedDutiesOfSpeeds

(* A running motor changes speed smoothly between the two writes, in both   *)
(* decay modes.                                                             *)
THEOREM RunsSmoothly == Spec => []SmoothWhileRunning
<1>1. MotorInv => SmoothWhileRunning
  BY BridgeBetween DEF SmoothWhileRunning
<1> QED BY <1>1, Invariance, PTL

(* In fast decay this holds of starting and stopping too: the backward      *)
(* pulse of a stop belongs to slow decay.                                   *)
THEOREM FastDecaySmooth == Spec => []FastAlwaysSmooth
<1>1. MotorInv => FastAlwaysSmooth
  BY BridgeBetween DEF FastAlwaysSmooth
<1> QED BY <1>1, Invariance, PTL

(* The four wheels add up to the motion asked for, for every motion.        *)
THEOREM MotionCorrect == Spec => []WheelsMoveAsAsked
<1>1. MotorInv => WheelsMoveAsAsked
  <2> SUFFICES ASSUME MotorInv PROVE WheelsMoveAsAsked
    OBVIOUS
  <2>1. SumsTo(WheelSpeeds, motion)
    BY DEF MotorInv, WheelsInStep
  <2>2. \A m \in Motors : speed[m] \in Int
    BY DEF MotorInv, VarTypes, IsSpeed
  <2>3. /\ Forward = WheelSpeeds.FL + WheelSpeeds.FR + WheelSpeeds.RR + WheelSpeeds.RL
        /\ Sideways = WheelSpeeds.FL - WheelSpeeds.FR + WheelSpeeds.RR - WheelSpeeds.RL
        /\ Rotation = WheelSpeeds.FL - WheelSpeeds.FR - WheelSpeeds.RR + WheelSpeeds.RL
    BY DEF Forward, Sideways, Rotation, WheelSpeeds
  <2> QED BY <2>1, <2>3 DEF WheelsMoveAsAsked, SumsTo
<1> QED BY <1>1, Invariance, PTL

=============================================================================
