# Verification of the PVU_XE_DH robot firmware

The repository is the firmware of a four-wheel omnidirectional robot on an
ESP32: a CRSF radio receiver on `Serial2`, a gyroscope for holding and
estimating the heading, six motors on H-bridges, five servos, and a PS3 gamepad
over Bluetooth. This directory models it in TLA+, checks the models with TLC
on small instances and proves the most important results with TLAPS.

## The system

| Component | Source | State | Operations |
|---|---|---|---|
| CRSF receiver | `lib/crsf/crsf.cpp`, `lib/common_rc` | frame buffer, position, synced or not, decoded channels | `crsf_parse`, `crsf_parse_buffer`, CRC, channel conversion |
| CRSF telemetry | `lib/crsf/crsf.cpp` | none | frame writers (never called) |
| Yaw control | `src/imu/imu.cpp` | pending ticks, heading, target, PID state, `vr_final` | timer interrupt, `imu_update`, `compute_yaw_pid` |
| IMU start-up | `src/imu/imu.cpp` | gyro offset, dead zone | `lsm6ds3_init`, calibration, noise |
| Main loop | `src/main.ino`, `project_config` | mode, speed, commands, headless reference | `setup`, `loop`, `Notify` |
| Motors | `src/motor/motor.cpp` | duties of twelve PWM channels | `mapRC`, `omni_kinematics`, `drive_omni`, `setMotorSpeed` |
| Servos, gamepad | `src/servo/servo.cpp`, `main.ino` | five positions, previous buttons | `update_servo_toggle`, refresh every 5 ms |
| Not of the program | `main.inoo`, `lib/queue.h`, `drv_hrt.h`, `time.h`, `defines.h` | | an old sketch, vendored headers |

One task runs `loop()`. It reads up to 25 bytes from the UART and passes them to
`crsf_parse`; it derives mode, speed and commands from the channels, whether or
not a frame was decoded; it switches the yaw hold; it calls `imu_update`, which
claims the ticks that the 1 kHz timer interrupt has raised (shared under
`g_imu_mux`) and computes `vr_final`; and it calls `drive_omni`. The Bluetooth
task writes `Ps3.data`, which `Notify` reads at the start of every iteration:
four buttons for the lift, four for servos. A fifth servo hangs on a channel of
the receiver. All positions go to the servo driver every 5 ms by `micros()`.

What is hard here: a byte stream cut anywhere, with losses and changed bytes,
and a parser whose resynchronisation is heuristic; ticks raised during an update;
angles that wrap; `vr_final`, commands, target and reference that were computed
in an earlier iteration than the one that uses them; two pin writes per motor
that take effect one after the other; buttons that change while they are read;
a clock that wraps; a sensor that is deaf during its reset. `PROJECT.json` lists
these hazards by line.

What makes each component correct:

* receiver: it hands out only frames that are in the line, in order, none twice;
  it makes progress on every input; it misses no header; it recovers;
* yaw control: no tick is lost; the heading is the integral of the samples; the
  hold turns the short way to its target;
* main loop: a turn by hand reaches the wheels and leaves no integral behind;
  headless driving follows the sticks in the field's frame; the robot stops in
  mode NONE;
* motors: the four wheels add up to the motion asked for; each bridge ends, and
  passes through nothing worse than what it was and will be;
* servos and lift: one move per press, no press lost that `loop()` could see, the
  driver written in time, a lift that stops;
* start-up: the sensor is ready when it is read, offset and dead zone are what
  they are called, and `setup()` ends;
* telemetry: a frame fits its array and its header, and says what it was given.

## Modules

| Module | Models | Extended by |
|---|---|---|
| `RcChannels` | packed 11-bit fields, `convert_channel_value` | `CrsfParser` |
| `CrsfParser` | state and actions of `crsf_parse` and `crsf_parse_buffer` | `CrsfStream`, `CrsfLink`, `CrsfMixed` |
| `CrsfDelivery` | the abstract receiver: a line, a cursor, delivered values | instance in `CrsfStream` |
| `CrsfStream` | the parser on an arbitrary stream, with the line as history | `MCCrsfStream` |
| `Crc8` | `crc8_dvb_s2`, bit by bit | `MCCrsfLink`, `MCCrsfMixed` |
| `CrsfLink` | the parser at the end of a link with faults | `MCCrsfLink` |
| `StickMap` | `mapRC` | `DriveLoop` |
| `YawControl` | the interrupt, `imu_update`, `compute_yaw_pid` | `ImuTimer`, `DriveLoop` |
| `ImuTimer` | the timer against `imu_update` under any caller | `MCImuTimer` |
| `DriveLoop` | `loop()` from the UART to `drive_omni` | `MCDriveLoop` |
| `Motor` | `omni_kinematics`, `drive_omni`, `setMotorSpeed` pin by pin | `MCMotor` |
| `Gamepad` | `Notify`, `update_servo_toggle`, the servo refresh, the Bluetooth task | `MCGamepad` |
| `Startup` | `setup()`: detection, reset, calibration, noise | `MCStartup` |
| `CrsfTelemetry` | the bytes of the four telemetry writers | `CrsfMixed` |
| `CrsfMixed` | the parser on a line with RC, link-statistics and telemetry frames | `MCCrsfMixed` |
| `*Proofs` | theorems about the module of that name; `CrsfStreamProofs` also those about `RcChannels` and `CrsfLink`, `DriveLoopProofs` those about `StickMap` | |

### How state and actions correspond to the code

**CrsfParser.** `frame` is the filled part of `crsf_frame`, so that
`current_frame_position` is its length; C index i is TLA+ index i + 1. Bytes
behind it are stale and not represented: an action that read one would be an
evaluation error. One step (`Iterate`) is one turn of the loop in `crsf_parse`:
copy what fits, then one `crsf_parse_buffer`, whose early returns are the
disjuncts `Unrecognised`, `AwaitHeader`, `DropBogus`, `AwaitBody` and
`TakeFrame`; `Synchronise` is the search for a header, after which the same call
goes on. `GiveUp` is the "no progress" branch. `Call` is `loop()` handing over
the bytes of one `readBytes`. Sizes, RC length, RC type and checksum are
constants.

**YawControl.** Angles are tenths of a degree and the gains are thousandths, so
that `compute_yaw_pid` is integer arithmetic with the truncation of the C code. A
critical section is one step. Between two of them `imu_update` touches nothing
that the interrupt touches, so one tick is one step as well; its local copies of
`yaw_hold_enabled` and `yaw_target` equal the originals, which only its caller
writes.

**DriveLoop.** `pc` names the stages of `loop()`: read the receiver, switch the
hold, claim the ticks, process them and drive. The parser is abstracted to "one
of `RcInputs`, or the channels as they were", which is what `CrsfDelivery`
promises. Sine and cosine are a table, the constant `Sine`, in ten-thousandths;
`Short` is the truncation of the rotated sticks, with either result where the
digits that the table lacks, float and the shortened pi leave it open (`BLUR`).
`Headings` bounds the headings that the robot reaches. `away` is history: the
turn since headless mode was switched on, kept apart from the code's wrapped
heading and reference.

**Motor.** Each `ledcWrite` is a step (`WriteFirst`, `WriteSecond`); `queue`
and `half` are the position in `drive_omni` and `setMotorSpeed`. The six cases of
each `switch` are one definition. A duty is what the pin was last given;
`Drive` is the difference that the motor sees. Where a float quotient is exact,
its product may be one short (`Exact`, `Scaled`).

**Gamepad.** The Bluetooth task copies a packet into `Ps3.data` one button at a
time (`TakeOver`), and every reading of a button by `Notify` is a step, so that
the two interleave in every way; the two readings of an `||` are two steps, the
second skipped when the first is true. `Stages` is the order in which `loop()`
reads. `data` also holds whether channel 9 is up, which the receiver changes
(`ReadSerial`). `RefreshServos` reads the clock, some time after the last reading,
and compares unsigned as the code does; `pulse` is what the driver of the servos
has been given. History: `age`, the true time since the last refresh; `seen`, what
`loop()` saw of each switch; `due`, the presses that it could see and has not
obeyed yet. The rest of `loop()` is time here. `Motor` has the lift's bridge.

**Startup.** Each call of `setup()` from `imu_init` on and each reading is a step
(`motor_init`, before them, is the `Init` of `Motor`). The sensor is
external: while it is in reset it takes no configuration, and after its gyroscope
has been switched on it settles. `SensorAssumption` says how long either may take:
no longer than the delays that the code gives it, which is what they are for; what
is checked is that the right delay stands at the right place. The controller may
have restarted alone, so the sensor may be running. Means are kept as sums and the
standard deviation as its square, so that the arithmetic is exact; `readings` is
history.

**CrsfLink.** The transmitter repeats one frame, of which `next` is the index that
comes next; the receiver may be switched on anywhere in it. `Listen` hands over
what came in unchanged, `ListenDisturbed` one changed byte, `Lose` skips bytes;
`losses` and `changes` count them. `HeaderAssumption` says of which frames
`OnlySentValues` speaks: those without a second pair of bytes that looks like an
RC header, even when one byte of it is changed. Another frame can have such a pair
in its payload; a changed length byte may then lead the search there, where an
eight-bit checksum fits one time in 256. `ChecksumAssumption` is the property of
a CRC that counts: a byte permutes the checksums, and a checksum the bytes. TLC
finds both to hold of the frames and the checksum of the runs.

**CrsfTelemetry, CrsfMixed.** A writer is the sequence of bytes it gives to
`write()`, as a function of its arguments, which are those its C types allow;
`WholeFrame` is `write_frame_header` and `write_frame_crc` around the fields, and the
checksum is a constant, as in the parser. `CrsfMixed` puts these frames, link
statistics and RC frames on a line without faults (`Send`), cuts it into reads
(`Receive`), and runs `CrsfParser` (`Process`); the run gives it the real sizes and
checksum. `queue` and `taken` are what is still on the line. `crsf_parse` takes one
frame off per copy, so whole frames may wait in the buffer for the next call:
`waiting`, a history, has the messages that have wholly come in and not been taken
off, one of which goes whenever the bytes of the parser become fewer, and `heard`
the last message with channels that has wholly come in. `StaysInStep` is what these
histories promise after every call: the buffer is the frames that wait and the
beginning of the next, none that waits is an RC frame, and the channels are those
of `heard`. That no RC frame ever waits depends on one byte: 30 bytes do not hold
an RC frame of 26 behind the shortest other frame, of five (`BufferAssumption`).
With 31 bytes, and without this assumption, TLC finds `StaysInStep` violated: what came
behind a flight mode without text stays undecoded until the next read. The
line begins with an RC frame: before the first one, a payload that looks like a
header synchronises the parser wrongly, and one in 256 such frames has a checksum
that fits.

## Runs

| Run | Shows | Bounds |
|---|---|---|
| `crsf_stream` | types, progress, buffer and search on every stream; the parser implements `CrsfDelivery` | lines of 10 bytes over {3, 4, 7}, buffer 8, frames 6, reads to 5 |
| `crsf_link_centred` | only sent values after one changed byte; progress; recovery after one loss or change | the real sizes and checksum; reads of 1, 7 or 25; any start; a loss of 1 to 25 bytes, or a byte changed to 0 or 255 (as lengths too short and too long) or 24 |
| `crsf_link_turning` | finding: no recovery | the same, with the yaw stick at 268 |
| `imu_timer` | ticks, heading, ranges, backlog | 6 ticks, limit 2, samples -170, 0.1 and 100 degrees, dead zone 0.1 |
| `drive_loop` | turns by hand, yaw hold and headless driving; turns arrive, NONE stops | four frames; headings 0, at the start, and -62, -60, 119 degrees, with every turn between two of these; one tick per update, one pending |
| `drive_loop_boot` | finding: driving before the first frame | as `drive_loop` |
| `motor` | settling, smooth changes, kinematics | slow decay, as the firmware calls it; 28 motions, three lift speeds, the real 255 |
| `motor_strafe`, `motor_stopping` | findings | as `motor` |
| `crsf_mixed` | the parser stays in step on RC, link-statistics and telemetry frames and has the last channels after every call; telemetry reads back | the real sizes and checksum; nine messages at the ends of their ranges, one text empty, one that just fits and one too long, two messages with a payload that looks like a header; two frames unread; reads of 1, 7, 25 |
| `gamepad` | one move per press, presses obeyed, refresh in time, pulses and lift follow | packets {}, {up}, {cross, r1}; a clock of 5, period 2, iterations to 2 |
| `startup` | sensor ready, offset and dead zone right, `setup()` ends | three readings per measurement, noise or a turn; with and without a sensor; good, bad once, bad twice |

Why the bounds are enough. In the small parser (8, 6, 5 for 30, 26, 25) a
frame does not fit a read, a header can be cut by a read and by a discard, a
frame can be followed by others in the buffer, the RC type is itself a possible
length (as 22 is for 24), and 7 is an impossible length; ten bytes fill the buffer
and overrun it. `CrsfLink` adds the real numbers, on streams with one fault.
In `imu_timer` the heading wraps both ways within two ticks, and more ticks wait
than one update takes. The frames of `MCRcInputs` differ in every test that
`loop()` makes, and the headless one points to both axes at once. The headings are
where the hold is delicate: errors of exactly two degrees, which must outweigh the
integral that an error of half a turn has left, and errors of 179 and 181 degrees,
over the seam and not. A frame may come at any of them, which moves the target
there or switches headless mode on. A tick takes the robot from any of the three to
any other, where the real one needs several; the theorems have every sample. The
packets of `MCPads` move the lift both ways, alone and together
with a servo, and the clock of five wraps at every phase of a period of two. In
`startup` the calibration is good, bad once, and bad twice, and the times of the
sensor reach both ends. Two unread frames are enough in `crsf_mixed` for a whole
frame to wait in the buffer behind another, as 30 bytes hold two short ones. In
`crsf_stream` a line holds one RC frame and bytes around it: that two follow one
another is checked by `crsf_mixed`, and proved. Bounds in the guards are `MaxLine`,
`MaxFaults`, `MaxPending`, `MaxTicks`, `MaxFrames`, `Headings` and `Longest`. `CHECK_DEADLOCK FALSE` stands only where the
line ends at `MaxLine`, and in `startup`, which ends.

### Fairness

`CrsfLink`: weak fairness of `Listen` (the transmitter sends at 50 to 500 Hz and
`loop()` reads) and of `ParseBytes` (the parser is a loop without waiting).
`ImuTimer`: `loop()` has no blocking call (`setTimeout(0)`), so `Update` and
`Tick` are weakly fair; the interrupt needs no fairness there. `DriveLoop`: the
core calls `loop()` for ever, and the timer is free-running hardware: weak
fairness of both. `Gamepad`: weak fairness of every step of `loop()`, and of the
Bluetooth task within a packet; packets, and bytes of the receiver, need never
come. `Startup`: `setup()` is sequential and only its delays wait. `CrsfMixed` has
safety properties only. No strong fairness is used. Losses, changes and noise are
never fair.

## Proofs

All for every value of the constants, under the `ASSUME`s of the modules: byte
values are natural numbers, and the buffer holds an RC frame and what a discard
keeps; samples turn by at most 360 degrees; the squares of sine and cosine add up to one,
to the digits of the table, and neither makes a vector's parts longer than the root
of two does (`SineAssumption`); map() truncates or rounds; the clock is longer than a period and an iteration; a sensor
needs no longer for its reset and for settling than the code waits; messages are
made of arguments that the C types of the writers allow, and bytes, lengths and
types are `uint8_t`, with an RC type that is none of the others; the buffer holds
every frame, but no RC frame behind another; on the link, the frame has no second
header and the checksum permutes (above). All hold of the sizes, types and checksum
of the code, and TLC evaluates them in the runs.

* `CrsfStreamProofs`: `Spec => []TypeOK`, `[]MakesProgress`,
  `[]BufferIsLineSuffix`, `[]NoHeaderMissed`, and `Spec => ImplementsDelivery`.
  The inductive invariant `StreamInv` adds to them that the buffer is never full
  between two iterations, that the input is the end of the line, and that the
  search has reached what the buffer holds (all bytes since the last drop that are
  not in the buffer were searched). Without the first, progress is not inductive;
  without the last, a discard could forget a header. `ParsedFrame` and
  `ParsedBuffer` describe what `crsf_parse_buffer` may do to the buffer, once, for
  invariant and refinement alike. `PulseRange`: a channel is an 11-bit number, its
  pulse lies in 880..2159.
* `CrsfStreamProofs` on the link: `LinkSpec => []OnlySentValues` (`SentValuesOnly`)
  and `[]MakesProgress`, for every frame and checksum as assumed, any reads, any
  start and any number of faults. `LinkInv` says that, without a loss and with at
  most one change, what the parser has not taken is the repeated frame, ending where
  the line goes on, but for one byte (`Undisturbed`). A frame that the parser finds
  valid is then a window of this; `Aligned` shows that its header can only be the
  frame's own, even with the changed byte in it, so that the window is the frame,
  with at most one byte changed, and `OnlyTheFrame` that it decodes to the sent
  channels: a change of the address byte is harmless, and any other is detected
  (`OneChangeDetected`). That rests on `CrcInjective`, which gets injectivity out of
  the permutations by counting, and on `CrcSteps`, which unfolds the recursive
  function `FrameCrc` by the induction of `SetInduction`.
* `CrsfMixedProofs`: `MixedSpec => []FramesFit` and `[]TelemetryReadsBack`, for every
  argument and every checksum. The invariant is that the line carries messages
  only; the work is in the lemmas: `WordBack`, `TripleBack`, `SignedWordBack` and
  `SignedQuadBack` say that the shifts of the writers and the reading in two's
  complement are inverse, `Written` that a frame carries its fields, and one lemma
  per writer puts them together.
* `CrsfMixedProofs` on the parser: `MixedSpec => []StaysInStep` (`InStep`), for all
  messages, payloads and reads, any number of frames on the line, every checksum and
  all sizes as assumed. `StaysInStep` speaks of the parser between two calls;
  `MixedInv` says for every moment within a call that buffer and input are the frames
  that wait and what is read of the next (`Received`, with `PartlyRead`: never all
  of it), that an unsynced parser still has its first RC frame before it
  (`StartsWithRc`), and that the last channels heard are decoded or in the last RC
  frame that waits (`HeardLast`). `FrameFacts` says what the parser sees of a frame,
  its length and whether it is a valid RC frame; `Parsed`, that the parser, given a
  buffer that starts with a frame or with a part of it, waits for just this frame
  or takes just this frame off; the lemmas `Line...`, how a line falls into frames
  (it is a fold, so by induction again). The proof uses nothing of `CrsfLink` and
  none of its assumptions, though the module takes it in with the lemmas about the
  parser.
* `ImuTimerProofs`: `Spec => []TypeOK` (heading, error and target within half a
  turn, integral within 50, turn within 250), `[]TicksConserved` and
  `[]HeadingIsIntegral`. The three together are inductive: the balance of the ticks
  needs no other invariant, the range of the heading is what lets one correction
  suffice, and every correction is a whole turn.
* `YawControlProofs`: what `compute_yaw_pid` returns and leaves behind. The
  theorem `HoldTurnsBack` says that an error of two degrees or more is answered in
  its direction, whatever integral and derivative say: in the worst case they take
  away less than the proportional part gives.
* `DriveLoopProofs`: `Spec => []TypeOK`, `[]NoWindUp`, `[]TurnIsTheCommand`,
  `[]HoldTurnsTheShortWay` and `[]FieldDirection`, for all frames, samples, speeds
  and limits; and of `mapRC` that it stays within the speed and is monotone in
  range. The invariant `DriveInv` follows a tick through the stages of `loop()`:
  `TurnInv` says what `vr_final` is between the ticks of one update (the command
  while the pilot turns, otherwise an answer to the heading of that moment), for
  which `StageInv` must say that the switch of the hold agrees with the stick from
  the stage of the IMU on. `ReferenceInv` ties the true turn of the robot to the
  wrapped heading and the wrapped reference, up to whole turns: without it the
  difference that the code computes could not be told from another. The hold is
  shown for every heading and sample, from two degrees off: `HoldTurnsBack` gives
  the sign of the turn, and `CloserByDegree` that one degree in that direction is
  nearer, over the seam too. The bound of two degrees is the code's: closer to the
  target the integral, which may be 50 from an earlier error to the other side,
  outweighs the error, and `vr_final` is 0 or turns away (at half a degree with an
  integral of -50 the output is 1.5 - 4). For headless driving `DeltaIsAway` shows
  that the code rotates by the true turn, and `RotatedBack` that rotating back
  gives the sticks up to two units, at every heading: truncation takes less than
  1.1 from each part, at most 1.6 when turned back, and the rest is what the table
  is short of.
* `StartupProofs`: `Spec => []TypeOK`, `[]SensorReady`, `[]OffsetIsMean` and
  `[]DeadZoneIsThreeSigma`, for all readings and any number of them. `SetupInv`
  follows the sensor through the waits, and keeps the squares of the noise above
  the square of its sum (`OneMoreSquare`, the step of Cauchy and Schwarz), so that
  the variance is never negative. `LedgerInv` says of which of the remembered
  readings the sums are, though old ones are forgotten meanwhile. The rest is
  algebra by induction: `SetInduction` derives induction over the natural numbers
  from `WFMin`, `TotalSums` shows that `Total`, a recursive function, computes
  sums, and `PairsToMoments` that the one-pass formula of the code is the squared
  difference of all pairs; the offset falls out (`OffsetFallsOut`). This is in
  exact arithmetic: what float makes of it is not modelled.
* `MotorProofs`: `Spec => []TypeOK`, `[]Settled`, `[]SmoothWhileRunning`,
  `[]WheelsMoveAsAsked`, for every motion and both decay modes, and for fast decay
  `[]FastAlwaysSmooth`, which starting and stopping satisfy there only.
  `MotorInv` adds how far the writes have come: a motor that waits for its writes
  still has the duties of the speed before, the one at the head may have one pin of
  each, all others those of their speed. `ScaledWheel` bounds what a truncated
  quotient loses, `KinematicsCorrect` adds the four up.
* `GamepadProofs`: `Spec => []TypeOK`, `Spec => OncePerPress`,
  `Spec => []RefreshInTime`, for all packets and every clock longer than a period
  and an iteration. `SwitchInv` says that what the code remembers of a switch is
  what it saw, and that a switch pressed but not seen pressed is due: without it a
  toggle could not be told from a second one. `ClockInv` ties the difference that
  the code computes to the true age, except before the first refresh;
  `ElapsedGrows` is the step of it, across a wrap.

Only model-checked: the liveness properties (`Recovers`, `BacklogDrains`,
`TurnReachesWheels`, `NoneStops`, `PressObeyed`, `PulsesFollow`, `LiftFollows`,
`SetupEnds`), for fairness is out of the prover's reach. Every invariant and every
action property of the passing runs is a theorem.

## Findings

Each is a violation run; `PROJECT.json` quotes the lines.

1. `crsf_link_turning`: with certain sticks held, one lost stretch of bytes puts
   the parser out of step for ever, since frames of a foreign type are consumed
   unchecked (`crsf.cpp:347`).
2. `drive_loop_boot`: any bytes before the first frame select a pilot mode
   (`main.ino:68`), and the yaw hold may drive the wheels.
3. `motor_stopping`: a stop in slow decay passes through a backward pulse
   (`motor.cpp:239`).
4. `motor_strafe`: the front wheels of a sideways motion turn the other way than
   the comment says (`motor.cpp:271`).

Three more comments were found to differ from the code while it was modelled. They
concern one expression each, and have no run: `convert_channel_value` maps a
transmitter's 172..1811 to 988..2012, where `crsf.h:82` and `crsf.cpp:161` say
1000..2000; both speed switches in the middle select 164, where `main.ino:59` says
"stop"; `mapRC` maps 900..2100 to the speed, where `motor.cpp:61` says 1000..2000.

After a loss the eight-bit checksum may accept a frame joined from two (one in 256
of them): `OnlySentValues` therefore speaks of changed bytes only.

## Not modelled

Sensor registers and SPI, I2C and LEDC set-up, printing: pure I/O.
`imu_get_snapshot`, `imu_reset_yaw`: never called. The result of `write()` in the
telemetry writers, which nothing calls either. Floating-point rounding, other
than the truncations above: in particular a variance that comes out negative
(`imu.cpp:261`). Loss of the radio or the Bluetooth link: the code does not handle
it, and the models simply let no more frames or packets come.

## Plan

Done: receiver, yaw control, main loop, motors, gamepad and servos, start-up and
telemetry, with the proofs above. Left, in this order:

1. `Firmware`: UART buffer, parser (as `CrsfDelivery`), `DriveLoop` and `Motor`
   composed: from a frame on the line to the duties; `Motor` implements an
   abstract "set all wheels".
2. A yaw plant: with a robot that turns as it is driven, the hold reaches its target.
