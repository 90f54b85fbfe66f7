------------------------------ MODULE Gamepad -------------------------------
(***************************************************************************)
(* The servos and the lift, as the gamepad and the receiver work them:     *)
(* Notify and the servo refresh of loop() in main.ino, and                 *)
(* update_servo_toggle of servo.cpp.  The Bluetooth task takes over a      *)
(* packet into Ps3.data button by button, while Notify reads them without  *)
(* a lock.  micros() is read once per iteration, and wraps at Clock.       *)
(***************************************************************************)
EXTENDS Integers, Sequences

CONSTANTS
  Pads,           \* what a packet of the gamepad may say: sets of buttons
  Clock,          \* micros() counts modulo this, 2^32 in the firmware
  RefreshPeriod,  \* the 5000us between two writes of the servos
  Longest         \* bound on the time that one iteration of loop() takes

ASSUME ClockAssumption ==
  /\ RefreshPeriod \in Nat \ {0}
  /\ Longest \in Nat \ {0}
  /\ Clock \in Nat
  /\ RefreshPeriod + Longest < Clock

VARIABLES
  data,           \* buttons pressed in Ps3.data, and "ch9": channel 9 is up
  packet,         \* the packet that the Bluetooth task is taking over
  pc,             \* what loop() does next: an index into Stages
  lift,           \* the speed last asked of the lift, motor 3
  button_prev,    \* servos whose switch was pressed when last looked at
  position,       \* servo_..._pos: where each servo shall be
  pulse,          \* what the driver of the servos was last given
  now,            \* what micros() says
  last_update,    \* last_servo_update_us
  age,            \* history: true time since the last refresh, or setup()
  seen,           \* history: servos whose switch loop() last saw pressed
  due             \* history: servos whose switch was pressed after loop()
                  \* had seen it released, and which have not moved since

vars == <<data, packet, pc, lift, button_prev, position, pulse,
          now, last_update, age, seen, due>>

Servos == {"left_mid", "right_mid", "up", "down", "mid"}

Switch == [left_mid |-> "r1", right_mid |-> "l1", up |-> "r2", down |-> "l2",
           mid |-> "ch9"]

Servo_open == 800
Servo_close == 1900

OpenPos == [s \in Servos |->
  CASE s = "mid" -> Servo_open - 100
    [] s = "down" -> Servo_open - 200
    [] OTHER -> Servo_open]

ClosePos == [s \in Servos |->
  CASE s = "mid" -> Servo_close + 320
    [] s = "left_mid" -> Servo_close + 300
    [] s = "up" -> Servo_close + 100
    [] OTHER -> Servo_close]

\* The order of loop(): the lift's buttons, four servos, the refresh, the
\* receiver and the servo on it.
Stages == <<"up", "triangle", "down", "cross", "left_mid", "right_mid", "up",
            "down", "refresh", "receive", "mid">>
LiftUp == {1, 2}
LiftDown == {3, 4}
NotifyServos == 5 .. 8
Refresh == 9
Receive == 10
Mid == 11

Buttons == {"up", "triangle", "down", "cross", "r1", "l1", "r2", "l2"}

ASSUME PadsAssumption == Pads \subseteq SUBSET Buttons

TypeOK ==
  /\ data \subseteq Buttons \cup {"ch9"}
  /\ packet \subseteq Buttons
  /\ pc \in DOMAIN Stages
  /\ lift \in {-200, 0, 200}
  /\ button_prev \subseteq Servos
  /\ \A s \in Servos : position[s] \in {0, OpenPos[s], ClosePos[s]}
  /\ \A s \in Servos : pulse[s] \in {0, OpenPos[s], ClosePos[s]}
  /\ {now, last_update} \subseteq 0 .. Clock - 1
  /\ age \in 0 .. Clock
  /\ seen \subseteq Servos
  /\ due \subseteq Servos

\* setup() has taken longer than one period.
Init ==
  /\ data = {}
  /\ packet = {}
  /\ pc = 1
  /\ lift = 0
  /\ button_prev = {}
  /\ position = [s \in Servos |-> 0]
  /\ pulse = [s \in Servos |-> 0]
  /\ now = RefreshPeriod
  /\ last_update = 0
  /\ age = 0
  /\ seen = {}
  /\ due = {}

-----------------------------------------------------------------------------
(* The switches.                                                            *)

Pressed(s) == Switch[s] \in data

\* The switches become d.  A press counts for a servo that loop() has seen
\* released, a release before loop() looked takes it back.
Becomes(d) ==
  /\ data' = d
  /\ due' = {s \in Servos :
       /\ Switch[s] \in d
       /\ Pressed(s) => s \in due
       /\ s \in due \/ s \notin seen}

\* The Bluetooth task gets a packet.
NewPacket ==
  /\ data \ {"ch9"} = packet
  /\ packet' \in Pads \ {packet}
  /\ UNCHANGED <<data, pc, lift, button_prev, position, pulse,
                 now, last_update, age, seen, due>>

\* It writes one more button of the packet to Ps3.data.
TakeOver ==
  /\ \E b \in Buttons :
       /\ b \in data <=> b \notin packet
       /\ Becomes(IF b \in packet THEN data \cup {b} ELSE data \ {b})
  /\ UNCHANGED <<packet, pc, lift, button_prev, position, pulse,
                 now, last_update, age, seen>>

-----------------------------------------------------------------------------
(* loop().                                                                  *)

\* Mutant of GoOn: without its last branch, the lift keeps its speed.
GoOnOnly(read) ==
  /\ pc' = pc + 1
  /\ UNCHANGED lift

\* None of the buttons read so far asks for the lift to move.
GoOn(read) ==
  /\ pc' = pc + 1
  /\ lift' = IF read = "cross" THEN 0 ELSE lift

\* Notify reads the next button of the lift, and no other after one that is
\* pressed.
Lift ==
  /\ pc \in LiftUp \cup LiftDown
  /\ IF Stages[pc] \in data
     THEN /\ lift' = IF pc \in LiftUp THEN -200 ELSE 200
          /\ pc' = 5
     ELSE GoOn(Stages[pc])
  /\ UNCHANGED <<data, packet, button_prev, position, pulse,
                 now, last_update, age, seen, due>>

\* Mutants of Toggled: by a difference; and without looking at the edge.
ToggledBy(s) ==
  IF Pressed(s) /\ s \notin button_prev
  THEN IF position[s] = ClosePos[s]
       THEN OpenPos[s]
       ELSE position[s] + ClosePos[s] - OpenPos[s]
  ELSE position[s]
ToggledWhilePressed(s) ==
  IF Pressed(s)
  THEN IF position[s] = OpenPos[s] THEN ClosePos[s] ELSE OpenPos[s]
  ELSE position[s]

Toggled(s) ==
  IF Pressed(s) /\ s \notin button_prev
  THEN IF position[s] = OpenPos[s] THEN ClosePos[s] ELSE OpenPos[s]
  ELSE position[s]

\* Mutant of Noted: a release is not noted.
NotedPress(s) == IF Pressed(s) THEN button_prev \cup {s} ELSE button_prev

Noted(s) == IF Pressed(s) THEN button_prev \cup {s} ELSE button_prev \ {s}

update_servo_toggle(s) ==
  /\ position' = [position EXCEPT ![s] = Toggled(s)]
  /\ button_prev' = Noted(s)
  /\ seen' = IF Pressed(s) THEN seen \cup {s} ELSE seen \ {s}
  /\ due' = IF position'[s] # position[s] THEN due \ {s} ELSE due
  /\ UNCHANGED <<data, packet, lift, pulse, now, last_update, age>>

\* Notify looks at the switch of the next servo.
Toggle ==
  /\ pc \in NotifyServos
  /\ update_servo_toggle(Stages[pc])
  /\ pc' = pc + 1

\* Mutant of Overdue: the end of the period instead of its length.
OverdueAt(t) == t >= (last_update + RefreshPeriod) % Clock

\* An unsigned difference.
Overdue(t) == (t - last_update) % Clock >= RefreshPeriod

\* Mutant of Refreshed: only the servos of the gamepad are written.
RefreshedPads == [s \in Servos |-> IF s = "mid" THEN pulse[s] ELSE position[s]]

Refreshed == [s \in Servos |-> position[s]]

\* loop() reads micros(), and writes all servos when a period has passed.
\* Nothing here depends on times beyond Clock: the history stops there.
RefreshServos ==
  /\ pc = Refresh
  /\ pc' = Receive
  /\ \E d \in 1 .. Longest :
       LET t == (now + d) % Clock
       IN  /\ now' = t
           /\ IF Overdue(t)
              THEN /\ last_update' = t
                   /\ pulse' = Refreshed
                   /\ age' = 0
              ELSE /\ UNCHANGED <<last_update, pulse>>
                   /\ age' = IF age + d > Clock THEN Clock ELSE age + d
  /\ UNCHANGED <<data, packet, lift, button_prev, position, seen, due>>

\* The receiver has no bytes, or leaves channel 9 up or not.
ReadSerial ==
  /\ pc = Receive
  /\ \/ /\ pc' = 1
        /\ UNCHANGED <<data, due>>
     \/ /\ pc' = Mid
        /\ \E up \in SUBSET {"ch9"} : Becomes((data \ {"ch9"}) \cup up)
  /\ UNCHANGED <<packet, lift, button_prev, position, pulse,
                 now, last_update, age, seen>>

ToggleMid ==
  /\ pc = Mid
  /\ update_servo_toggle("mid")
  /\ pc' = 1

Loop == Lift \/ Toggle \/ RefreshServos \/ ReadSerial \/ ToggleMid

Next == NewPacket \/ TakeOver \/ Loop

\* The core calls loop() again and again, and the Bluetooth task finishes a
\* packet that it has begun.  The receiver is heard now and then.
Fairness ==
  /\ WF_pc(Loop)
  /\ WF_data(TakeOver)

Spec == Init /\ [][Next]_vars /\ Fairness

-----------------------------------------------------------------------------
(* A servo moves at most once per press, however long the button is held,   *)
(* whenever the Bluetooth task writes it and however the readings fall: the *)
(* debouncing of update_servo_toggle, "not while holding button".           *)
OncePerPress ==
  [][\A s \in Servos : position'[s] # position[s] => s \in due]_vars

(* And it obeys every press that loop() could see, unless the button is     *)
(* released again before loop() looks: no release goes unnoticed.           *)
PressObeyed == \A s \in Servos : []<>(s \notin due)

(* The servos are written in time, also when micros() wraps: when loop()    *)
(* has looked at the clock the last refresh lies less than a period back,   *)
(* so that no more than a period and an iteration lies between two.         *)
RefreshInTime == age < RefreshPeriod

(* What Notify and loop() decide reaches the servos: again and again their  *)
(* driver has been given the positions of all of them.                      *)
PulsesFollow == []<>(pulse = position)

(* The lift stops when its buttons are released, and runs up while up is    *)
(* held, whichever buttons the Bluetooth task changes between the readings. *)
LiftFollows ==
  /\ <>[](data \cap {"up", "triangle", "down", "cross"} = {}) => <>[](lift = 0)
  /\ <>[]("up" \in data) => <>[](lift = -200)

=============================================================================
