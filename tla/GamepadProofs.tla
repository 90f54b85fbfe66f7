--------------------------- MODULE GamepadProofs ----------------------------
(***************************************************************************)
(* The toggles and the refresh, for every gamepad, clock and period: types,*)
(* one movement per press, and no refresh late when micros() wraps.        *)
(***************************************************************************)
EXTENDS Gamepad, TLAPS

-----------------------------------------------------------------------------
(* Arithmetic of the clock.                                                 *)

(* The remainder of a number that is off its range by less than one turn.   *)
LEMMA ModOnce ==
  ASSUME NEW C \in Nat \ {0}, NEW x \in Int, 0 - C <= x, x < 2 * C
  PROVE  x % C = IF x < 0 THEN x + C ELSE IF x < C THEN x ELSE x - C
<1>1. CASE x < 0
  BY <1>1, SMT
<1>2. CASE 0 <= x /\ x < C
  BY <1>2, SMT
<1>3. CASE C <= x
  BY <1>3, SMT
<1> QED BY <1>1, <1>2, <1>3

(* The same for the range of micros(), as a fact about all numbers.         *)
LEMMA OneTurn ==
  \A x \in Int : 0 - Clock <= x /\ x < 2 * Clock =>
    x % Clock = IF x < 0 THEN x + Clock ELSE IF x < Clock THEN x ELSE x - Clock
<1>1. Clock \in Nat \ {0}
  BY ClockAssumption
<1> QED BY <1>1, ModOnce, Zenon

(* The unsigned difference of two readings, and a reading some time later.  *)
LEMMA Difference ==
  ASSUME NEW t \in 0 .. Clock - 1, NEW since \in 0 .. Clock - 1
  PROVE  (t - since) % Clock = IF t < since THEN t - since + Clock
                                            ELSE t - since
<1>1. Clock \in Nat \ {0}
  BY ClockAssumption
<1>2. t - since \in Int /\ 0 - Clock <= t - since /\ t - since < Clock
      /\ t - since < 2 * Clock
  BY <1>1
<1> QED BY <1>1, <1>2, OneTurn

(* A clock that is read d later has moved on by d, or wrapped once.         *)
LEMMA Later ==
  ASSUME NEW t \in 0 .. Clock - 1, NEW d \in Nat, d < Clock
  PROVE  (t + d) % Clock = IF t + d < Clock THEN t + d ELSE t + d - Clock
<1>1. Clock \in Nat \ {0}
  BY ClockAssumption
<1>2. t + d \in Int /\ 0 - Clock <= t + d /\ 0 <= t + d /\ t + d < 2 * Clock
  BY <1>1
<1> QED BY <1>1, <1>2, OneTurn

(* The unsigned difference of two readings of micros() grows with the true  *)
(* time while that is less than a turn of the clock, wraps or not.          *)
LEMMA ElapsedGrows ==
  ASSUME NEW t \in 0 .. Clock - 1, NEW since \in 0 .. Clock - 1,
         NEW d \in Nat, ((t - since) % Clock) + d < Clock
  PROVE  /\ (t + d) % Clock \in 0 .. Clock - 1
         /\ (((t + d) % Clock) - since) % Clock = ((t - since) % Clock) + d
<1>1. Clock \in Nat \ {0}
  BY ClockAssumption
<1>2. (t - since) % Clock = IF t < since THEN t - since + Clock ELSE t - since
  BY Difference
<1>3. d < Clock
  BY <1>1, <1>2
<1>4. (t + d) % Clock = IF t + d < Clock THEN t + d ELSE t + d - Clock
  BY <1>3, Later
<1> DEFINE later == IF t + d < Clock THEN t + d ELSE t + d - Clock
<1>5. later \in 0 .. Clock - 1
  BY <1>1, <1>3
<1>6. (later - since) % Clock =
        IF later < since THEN later - since + Clock ELSE later - since
  <2> HIDE DEF later
  <2> QED BY <1>5, Difference
<1>7. (later - since) % Clock = ((t - since) % Clock) + d
  BY <1>1, <1>2, <1>3, <1>6
<1> QED BY <1>4, <1>5, <1>7

-----------------------------------------------------------------------------
(* The invariant.  A switch that is pressed, and that loop() has not seen   *)
(* pressed, is one that is due; the code's memory of the switches is what   *)
(* loop() saw.  The difference that the code takes is the true age, but for *)
(* the first, which setup() has outlasted.                                  *)

SwitchInv ==
  /\ seen = button_prev
  /\ \A s \in Servos : Pressed(s) /\ s \notin seen => s \in due

ClockInv ==
  /\ now \in 0 .. Clock - 1
  /\ last_update \in 0 .. Clock - 1
  /\ age \in Nat
  /\ age < RefreshPeriod
  /\ \/ age = (now - last_update) % Clock
     \/ last_update = 0 /\ now = RefreshPeriod /\ age = 0

(* Initially no switch is pressed, and the first refresh is due.            *)
LEMMA InvInit == Init => SwitchInv /\ ClockInv
<1> SUFFICES ASSUME Init
             PROVE  SwitchInv /\ ClockInv
  OBVIOUS
<1>1. SwitchInv
  <2>1. \A s \in Servos : ~ Pressed(s)
    BY DEF Init, Pressed
  <2> QED BY <2>1 DEF Init, SwitchInv
<1>2. ClockInv
  BY ClockAssumption DEF Init, ClockInv
<1> QED BY <1>1, <1>2

(* Whatever the switches become, a press that loop() has not seen is due.   *)
LEMMA SwitchesKept ==
  ASSUME SwitchInv, NEW d, Becomes(d), UNCHANGED <<seen, button_prev>>
  PROVE  SwitchInv'
<1> SUFFICES ASSUME NEW s \in Servos, Pressed(s)', s \notin seen'
             PROVE  s \in due'
  BY DEF SwitchInv
<1>1. Switch[s] \in d
  BY DEF Pressed, Becomes
<1>2. s \notin seen
  OBVIOUS
<1>3. Pressed(s) => s \in due
  BY <1>2 DEF SwitchInv
<1> QED BY <1>1, <1>2, <1>3 DEF Becomes

(* A look at a switch moves its servo only when that is due.                *)
LEMMA LookKept ==
  ASSUME SwitchInv, DOMAIN position = Servos,
         NEW s \in Servos, update_servo_toggle(s)
  PROVE  /\ SwitchInv'
         /\ DOMAIN position' = Servos
         /\ \A t \in Servos : position'[t] # position[t] => t = s /\ s \in due
<1>1. \A t \in Servos : Pressed(t)' <=> Pressed(t)
  BY DEF Pressed, update_servo_toggle
<1>2. seen' = button_prev'
  BY DEF SwitchInv, update_servo_toggle, Noted
<1>3. position'[s] = Toggled(s) /\ DOMAIN position' = Servos
  BY DEF update_servo_toggle
<1>4. \A t \in Servos : t # s => position'[t] = position[t]
  BY DEF update_servo_toggle
<1>5. position'[s] # position[s] => s \in due
  BY <1>3 DEF Toggled, SwitchInv
<1>6. \A t \in Servos : Pressed(t) /\ t \notin seen' => t \in due'
  <2> SUFFICES ASSUME NEW t \in Servos, Pressed(t), t \notin seen'
               PROVE  t \in due'
    OBVIOUS
  <2>1. t # s /\ t \notin seen
    BY DEF update_servo_toggle
  <2>2. t \in due
    BY <2>1 DEF SwitchInv
  <2> QED BY <2>1, <2>2 DEF update_servo_toggle
<1> QED BY <1>1, <1>2, <1>3, <1>4, <1>5, <1>6 DEF SwitchInv

(* The stages at which Notify looks at a servo name one.                    *)
LEMMA NotifyServo == pc \in NotifyServos => Stages[pc] \in Servos
BY DEF NotifyServos, Stages, Servos

(* The steps that neither look at a switch nor change one.                  *)
LEMMA OthersKept ==
  ASSUME SwitchInv, UNCHANGED <<data, button_prev, seen, due>>
  PROVE  SwitchInv'
BY DEF SwitchInv, Pressed

SwitchStep ==
  /\ SwitchInv'
  /\ DOMAIN position' = Servos
  /\ \A s \in Servos : position'[s] # position[s] => s \in due

(* Every step keeps the invariant of the switches, and moves servos that    *)
(* are due only.                                                            *)
LEMMA SwitchNext ==
  ASSUME SwitchInv, DOMAIN position = Servos, [Next]_vars
  PROVE  SwitchStep
<1>1. CASE NewPacket
  BY <1>1, OthersKept DEF NewPacket, SwitchStep
<1>2. CASE TakeOver
  <2>1. PICK d : Becomes(d)
    BY <1>2 DEF TakeOver
  <2> QED BY <1>2, <2>1, SwitchesKept DEF TakeOver, SwitchStep
<1>3. CASE Lift
  BY <1>3, OthersKept DEF Lift, SwitchStep
<1>4. CASE Toggle
  <2>1. Stages[pc] \in Servos /\ update_servo_toggle(Stages[pc])
    BY <1>4, NotifyServo DEF Toggle
  <2> QED BY <2>1, LookKept DEF SwitchStep
<1>5. CASE RefreshServos
  BY <1>5, OthersKept DEF RefreshServos, SwitchStep
<1>6. CASE ReadSerial
  <2>1. CASE UNCHANGED <<data, due>>
    BY <1>6, <2>1, OthersKept DEF ReadSerial, SwitchStep
  <2>2. CASE \E up \in SUBSET {"ch9"} : Becomes((data \ {"ch9"}) \cup up)
    BY <1>6, <2>2, SwitchesKept DEF ReadSerial, SwitchStep
  <2> QED BY <1>6, <2>1, <2>2 DEF ReadSerial
<1>7. CASE ToggleMid
  <2>1. update_servo_toggle("mid") /\ "mid" \in Servos
    BY <1>7 DEF ToggleMid, Servos
  <2> QED BY <2>1, LookKept DEF SwitchStep
<1>8. CASE UNCHANGED vars
  BY <1>8, OthersKept DEF vars, SwitchStep
<1> QED BY <1>1, <1>2, <1>3, <1>4, <1>5, <1>6, <1>7, <1>8 DEF Next, Loop

(* The look at the clock keeps the age below a period.                      *)
LEMMA RefreshKept ==
  ASSUME ClockInv, RefreshServos
  PROVE  ClockInv'
<1>1. PICK d \in 1 .. Longest :
        LET t == (now + d) % Clock
        IN  /\ now' = t
            /\ IF Overdue(t)
               THEN last_update' = t /\ age' = 0
               ELSE /\ last_update' = last_update
                    /\ age' = IF age + d > Clock THEN Clock ELSE age + d
  BY DEF RefreshServos
<1>2. RefreshPeriod + d < Clock /\ d \in Nat /\ Clock \in Nat \ {0}
      /\ RefreshPeriod \in Nat \ {0}
  BY ClockAssumption
<1>3. ((now - last_update) % Clock) + d < Clock
      /\ age <= (now - last_update) % Clock
      /\ ((now - last_update) % Clock = age
            \/ (now - last_update) % Clock = RefreshPeriod)
  <2>1. CASE age = (now - last_update) % Clock
    BY <1>2, <2>1 DEF ClockInv
  <2>2. CASE last_update = 0 /\ now = RefreshPeriod /\ age = 0
    <3>1. (now - last_update) % Clock = RefreshPeriod
      BY <1>2, <2>2, ModOnce
    <3> QED BY <1>2, <2>2, <3>1
  <2> QED BY <2>1, <2>2 DEF ClockInv
<1> DEFINE t == (now + d) % Clock
           elapsed == (now - last_update) % Clock
<1>4. t \in 0 .. Clock - 1 /\ (t - last_update) % Clock = elapsed + d
  BY <1>2, <1>3, ElapsedGrows DEF ClockInv
<1>5. CASE Overdue(t)
  <2>1. now' = t /\ last_update' = t /\ age' = 0
    BY <1>1, <1>5
  <2>2. (t - t) % Clock = 0
    <3> HIDE DEF t
    <3> QED BY <1>2, <1>4, ModOnce
  <2> HIDE DEF t
  <2> QED BY <1>2, <1>4, <2>1, <2>2 DEF ClockInv
<1>6. CASE ~ Overdue(t)
  <2>1. elapsed + d < RefreshPeriod
    <3>1. ~ (elapsed + d >= RefreshPeriod)
      BY <1>4, <1>6 DEF Overdue
    <3>2. elapsed \in Int
      BY <1>2, <1>3, <1>4 DEF ClockInv
    <3> HIDE DEF elapsed, t
    <3> QED BY <1>2, <3>1, <3>2
  <2>2. age = elapsed
    BY <1>2, <1>3, <2>1
  <2>3. now' = t /\ last_update' = last_update /\ age' = age + d
    BY <1>1, <1>2, <1>6, <2>1, <2>2 DEF ClockInv
  <2> HIDE DEF t, elapsed
  <2>4. age' = (now' - last_update') % Clock
    BY <1>4, <2>2, <2>3
  <2> QED BY <1>2, <1>4, <2>1, <2>2, <2>3, <2>4 DEF ClockInv
<1> QED BY <1>5, <1>6

(* No other step touches the clock.                                         *)
LEMMA ClockNext ==
  ASSUME ClockInv, [Next]_vars
  PROVE  ClockInv'
<1>1. CASE RefreshServos
  BY <1>1, RefreshKept
<1>2. CASE UNCHANGED <<now, last_update, age>>
  BY <1>2 DEF ClockInv
<1>3. RefreshServos \/ UNCHANGED <<now, last_update, age>>
  BY DEF Next, Loop, NewPacket, TakeOver, Lift, Toggle, ReadSerial, ToggleMid,
         update_servo_toggle, vars
<1> QED BY <1>1, <1>2, <1>3

-----------------------------------------------------------------------------
(* Types.                                                                   *)

TypeInv == TypeOK /\ ClockInv /\ DOMAIN position = Servos

(* A look at a switch keeps the types.                                      *)
LEMMA LookTyped ==
  ASSUME TypeInv, NEW s \in Servos, update_servo_toggle(s),
         pc' \in DOMAIN Stages, ClockInv'
  PROVE  TypeInv'
<1>1. Toggled(s) \in {0, OpenPos[s], ClosePos[s]}
  BY DEF Toggled, TypeInv, TypeOK
<1>2. /\ DOMAIN position' = Servos
      /\ \A t \in Servos : position'[t] \in {0, OpenPos[t], ClosePos[t]}
  BY <1>1 DEF update_servo_toggle, TypeInv, TypeOK
<1>3. /\ button_prev' \subseteq Servos
      /\ seen' \subseteq Servos
      /\ due' \subseteq Servos
  BY DEF update_servo_toggle, Noted, TypeInv, TypeOK
<1> QED BY <1>2, <1>3 DEF update_servo_toggle, TypeInv, TypeOK

(* Every step keeps the types.                                              *)
LEMMA TypeNext ==
  ASSUME TypeInv, [Next]_vars
  PROVE  TypeInv'
<1>1. ClockInv'
  BY ClockNext DEF TypeInv
<1>2. DOMAIN Stages = 1 .. 11
  BY DEF Stages
<1>3. CASE NewPacket
  BY <1>1, <1>3, PadsAssumption DEF NewPacket, TypeInv, TypeOK
<1>4. CASE TakeOver
  <2>1. data' \subseteq Buttons \cup {"ch9"} /\ due' \subseteq Servos
    BY <1>4 DEF TakeOver, Becomes, TypeInv, TypeOK
  <2> QED BY <1>1, <1>4, <2>1 DEF TakeOver, TypeInv, TypeOK
<1>5. CASE Lift
  <2>1. pc' \in DOMAIN Stages
    BY <1>2, <1>5 DEF Lift, GoOn, LiftUp, LiftDown
  <2>2. lift' \in {-200, 0, 200}
    BY <1>5 DEF Lift, GoOn, TypeInv, TypeOK
  <2> QED BY <1>1, <1>5, <2>1, <2>2 DEF Lift, TypeInv, TypeOK
<1>6. CASE Toggle
  <2>1. /\ Stages[pc] \in Servos
        /\ update_servo_toggle(Stages[pc])
        /\ pc' \in DOMAIN Stages
    BY <1>2, <1>6, NotifyServo DEF Toggle, NotifyServos
  <2> QED BY <1>1, <2>1, LookTyped
<1>7. CASE RefreshServos
  <2>1. pc' \in DOMAIN Stages
    BY <1>2, <1>7 DEF RefreshServos, Receive
  <2>2. pulse' = pulse \/ pulse' = [s \in Servos |-> position[s]]
    BY <1>7 DEF RefreshServos, Refreshed
  <2>3. \A s \in Servos : pulse'[s] \in {0, OpenPos[s], ClosePos[s]}
    BY <2>2 DEF TypeInv, TypeOK
  <2>4. {now', last_update'} \subseteq 0 .. Clock - 1 /\ age' \in 0 .. Clock
    BY <1>1, ClockAssumption DEF ClockInv
  <2> QED BY <1>1, <1>7, <2>1, <2>3, <2>4 DEF RefreshServos, TypeInv, TypeOK
<1>8. CASE ReadSerial
  <2>1. pc' \in DOMAIN Stages
    BY <1>2, <1>8 DEF ReadSerial, Mid
  <2>2. data' \subseteq Buttons \cup {"ch9"} /\ due' \subseteq Servos
    BY <1>8 DEF ReadSerial, Becomes, TypeInv, TypeOK
  <2> QED BY <1>1, <1>8, <2>1, <2>2 DEF ReadSerial, TypeInv, TypeOK
<1>9. CASE ToggleMid
  <2>1. "mid" \in Servos /\ update_servo_toggle("mid") /\ pc' \in DOMAIN Stages
    BY <1>2, <1>9 DEF ToggleMid, Servos
  <2> QED BY <1>1, <2>1, LookTyped
<1>10. CASE UNCHANGED vars
  BY <1>1, <1>10 DEF vars, TypeInv, TypeOK
<1> QED BY <1>3, <1>4, <1>5, <1>6, <1>7, <1>8, <1>9, <1>10 DEF Next, Loop

-----------------------------------------------------------------------------
(* The theorems.                                                            *)

(* The variables keep their types: the lift is asked for nothing but its    *)
(* three speeds, and every servo for its own two positions, or none yet.    *)
THEOREM TypeCorrect == Spec => []TypeOK
<1>1. Init => TypeInv
  <2>1. Init => ClockInv
    BY InvInit
  <2>2. 1 \in DOMAIN Stages
    BY DEF Stages
  <2>3. Init => TypeOK /\ DOMAIN position = Servos
    BY <2>2, ClockAssumption DEF Init, TypeOK
  <2> QED BY <2>1, <2>3 DEF TypeInv
<1>2. TypeInv /\ [Next]_vars => TypeInv'
  BY TypeNext
<1>3. TypeInv => TypeOK
  BY DEF TypeInv
<1> QED BY <1>1, <1>2, <1>3, PTL DEF Spec

(* update_servo_toggle debounces: whatever the Bluetooth task writes        *)
(* between the readings of Notify, a servo moves at most once per press.    *)
THEOREM MovesOncePerPress == Spec => OncePerPress
<1> DEFINE Inv == SwitchInv /\ DOMAIN position = Servos
<1>1. Init => Inv
  BY InvInit DEF Init
<1>2. Inv /\ [Next]_vars => Inv'
  BY SwitchNext DEF SwitchStep
<1>3. Inv /\ [Next]_vars =>
        [\A s \in Servos : position'[s] # position[s] => s \in due]_vars
  BY SwitchNext DEF SwitchStep
<1> HIDE DEF Inv
<1> QED BY <1>1, <1>2, <1>3, PTL DEF Spec, OncePerPress

(* The 5ms refresh of the servos is in time for every width of the counter  *)
(* behind micros(): the unsigned difference survives the wrap.              *)
THEOREM RefreshNeverLate == Spec => []RefreshInTime
<1>1. Init => ClockInv
  BY InvInit
<1>2. ClockInv /\ [Next]_vars => ClockInv'
  BY ClockNext
<1>3. ClockInv => RefreshInTime
  BY DEF ClockInv, RefreshInTime
<1> QED BY <1>1, <1>2, <1>3, PTL DEF Spec

=============================================================================
