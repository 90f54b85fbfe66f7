------------------------------ MODULE Startup -------------------------------
(***************************************************************************)
(* setup() of main.ino from imu_init on: detecting, resetting and          *)
(* configuring the gyroscope (lsm6ds3_init), its calibration with one      *)
(* retry, and the measurement of its noise.  (motor_init, before it,       *)
(* touches nothing of this module.)  The sensor is an external part that   *)
(* takes its time: what is written to it during its reset is lost, and it  *)
(* must settle when its gyroscope has been switched on.  Times are         *)
(* milliseconds.                                                           *)
(* Readings are raw_gz, and the means are kept as sums: the offset is      *)
(* gz_offset / Samples, the dead zone the root of                          *)
(* g_deadzone / (Samples * NoiseSamples)^2.                                *)
(***************************************************************************)
EXTENDS Integers, Sequences

CONSTANTS
  Readings,       \* what the gyroscope may say, in units of its sensitivity
  Samples,        \* readings per calibration, 2000 in the firmware
  NoiseSamples,   \* readings for the noise, 500 in the firmware
  Limit,          \* the largest offset taken without a second calibration
  ResetTimes,     \* how long a reset of the sensor may take
  SettleTimes     \* how long its gyroscope may take to settle

ResetDelay == 10
WarmUp == 2000

ASSUME SamplesAssumption ==
  /\ Readings \subseteq Int
  /\ {Samples, NoiseSamples} \subseteq Nat \ {0}
  /\ Limit \in Nat
ASSUME SensorAssumption ==
  /\ ResetTimes \subseteq 0 .. ResetDelay
  /\ SettleTimes \subseteq 0 .. ResetDelay + WarmUp

VARIABLES
  present,        \* the sensor is there, and says so in WHO_AM_I
  phase,          \* the sensor: "off", "resetting", "settling" or "on"
  busy,           \* how long it stays in that phase, if that ends by itself
  pc,             \* where setup() is
  count,          \* readings taken in the loop that setup() is in
  sum,            \* their sum
  sum_sq,         \* the sum of the squares of the noise
  retried,        \* this is the second calibration
  gz_offset,
  g_deadzone,
  readings        \* history: the last readings, for one of each measurement

sensor == <<present, phase, busy>>
results == <<gz_offset, g_deadzone>>
vars == <<sensor, pc, count, sum, sum_sq, retried, results, readings>>

Window == Samples + NoiseSamples

Abs(x) == IF x < 0 THEN - x ELSE x

TypeOK ==
  /\ present \in BOOLEAN
  /\ phase \in {"off", "resetting", "settling", "on"}
  /\ busy \in 0 .. ResetDelay + WarmUp
  /\ pc \in {"whoami", "halted", "reset", "wait_reset", "configure",
             "wait_configured", "warm_up", "calibrate", "offset", "noise",
             "deadzone", "begin", "loop"}
  /\ count \in 0 .. Window
  /\ {sum, gz_offset} \subseteq Int
  /\ {sum_sq, g_deadzone} \subseteq Nat
  /\ retried \in BOOLEAN
  /\ readings \in Seq(Readings) /\ Len(readings) <= Window

\* The controller may have restarted alone, with the sensor still running.
Init ==
  /\ present \in BOOLEAN
  /\ phase \in {"off", "on"}
  /\ busy = 0
  /\ pc = "whoami"
  /\ count = 0
  /\ sum = 0
  /\ sum_sq = 0
  /\ retried = FALSE
  /\ gz_offset = 0
  /\ g_deadzone = 0
  /\ readings = <<>>

-----------------------------------------------------------------------------
(* The sensor.                                                              *)

\* delay(n): the sensor goes on meanwhile.
Delay(n) ==
  /\ busy' = IF busy > n THEN busy - n ELSE 0
  /\ phase' = IF busy > n THEN phase
              ELSE CASE phase = "resetting" -> "off"
                     [] phase = "settling" -> "on"
                     [] OTHER -> phase
  /\ UNCHANGED present

\* Bit 0 of CTRL3_C: all registers get their defaults.
ResetSensor ==
  /\ phase' = "resetting"
  /\ busy' \in ResetTimes
  /\ UNCHANGED present

\* CTRL1_XL, CTRL2_G and CTRL3_C: switches the gyroscope on, unless a reset
\* is under way.
ConfigureSensor ==
  IF phase = "resetting"
  THEN UNCHANGED sensor
  ELSE /\ phase' = "settling"
       /\ busy' \in SettleTimes
       /\ UNCHANGED present

-----------------------------------------------------------------------------
(* setup().                                                                 *)

Measurements == <<count, sum, sum_sq, retried, results, readings>>

\* A stage that only does something to the sensor.
Stage(here, next) == pc = here /\ pc' = next /\ UNCHANGED Measurements

\* Without a sensor imu_init stays in a loop for ever.
Detect ==
  /\ Stage("whoami", IF present THEN "reset" ELSE "halted")
  /\ UNCHANGED sensor

\* Mutant of Reset: the code goes on at once.
ResetAtOnce == Stage("reset", "configure") /\ ResetSensor

Reset == Stage("reset", "wait_reset") /\ ResetSensor
AwaitReset == Stage("wait_reset", "configure") /\ Delay(ResetDelay)
Configure == Stage("configure", "wait_configured") /\ ConfigureSensor
AwaitConfigured == Stage("wait_configured", "warm_up") /\ Delay(ResetDelay)
AwaitWarm == Stage("warm_up", "calibrate") /\ Delay(WarmUp)

\* A reading, and delay(2) behind it.
Take(r) ==
  /\ count' = count + 1
  /\ readings' = LET all == Append(readings, r)
                 IN  IF Len(all) > Window THEN Tail(all) ELSE all
  /\ Delay(2)

\* One turn of a loop in lsm6ds3_calibrate_gyro.
CalibrateSample ==
  /\ pc = "calibrate"
  /\ \E r \in Readings :
       /\ Take(r)
       /\ sum' = sum + r
  /\ pc' = IF count' = Samples THEN "offset" ELSE pc
  /\ UNCHANGED <<sum_sq, retried, results>>

\* Mutant of TooLarge: as often as the offset is too large.
TooLargeAgain(s) == Abs(s) > Limit * Samples

\* "offset too large": once.
TooLarge(s) == ~ retried /\ Abs(s) > Limit * Samples

\* Mutant of FreshSum: the second calibration adds to the first.
SumSoFar == IF TooLarge(sum) THEN sum ELSE 0

FreshSum == 0

\* The offset is computed, and the sum is cleared for the next measurement.
Offset ==
  /\ pc = "offset"
  /\ gz_offset' = sum
  /\ count' = 0
  /\ sum' = FreshSum
  /\ IF TooLarge(sum)
     THEN pc' = "calibrate" /\ retried' = TRUE
     ELSE pc' = "noise" /\ UNCHANGED retried
  /\ UNCHANGED <<sensor, sum_sq, g_deadzone, readings>>

\* One turn of the loop in lsm6ds3_measure_noise.
NoiseSample ==
  /\ pc = "noise"
  /\ \E r \in Readings :
       LET gz == Samples * r - gz_offset
       IN  /\ Take(r)
           /\ sum' = sum + gz
           /\ sum_sq' = sum_sq + gz * gz
  /\ pc' = IF count' = NoiseSamples THEN "deadzone" ELSE pc
  /\ UNCHANGED <<retried, results>>

\* Mutants of Variance: in units that do not fit; and about the offset
\* instead of about the mean.
VarianceUnscaled == sum_sq - sum * sum
VarianceAboutOffset == NoiseSamples * sum_sq

Variance == NoiseSamples * sum_sq - sum * sum

\* Three standard deviations; then the timer is started.
DeadZone ==
  /\ pc = "deadzone"
  /\ g_deadzone' = 3 * 3 * Variance
  /\ pc' = "begin"
  /\ UNCHANGED <<sensor, count, sum, sum_sq, retried, gz_offset, readings>>

\* servo_init, Serial2.begin and Ps3.begin.
Begin == Stage("begin", "loop") /\ UNCHANGED sensor

Next ==
  \/ Detect \/ Reset \/ AwaitReset \/ Configure
  \/ AwaitConfigured \/ AwaitWarm \/ CalibrateSample \/ Offset
  \/ NoiseSample \/ DeadZone \/ Begin

Spec == Init /\ [][Next]_vars /\ WF_vars(Next)

-----------------------------------------------------------------------------
(* No reading is taken from a sensor that is off, in reset or settling:     *)
(* the configuration survives the reset before it, and the delays of        *)
(* lsm6ds3_init and lsm6ds3_calibrate_gyro outlast what the sensor does.    *)
SensorReady == pc \in {"calibrate", "noise"} => phase = "on"

\* The sum of f[1] .. f[n].
Total(f, n) ==
  LET upto[k \in 0 .. n] == IF k = 0 THEN 0 ELSE upto[k - 1] + f[k]
  IN  upto[n]

(* The offset that loop() works with is the mean of one whole calibration,  *)
(* the last one: a second calibration starts afresh.                        *)
OffsetIsMean ==
  pc \in {"begin", "loop"} => gz_offset = Total(readings, Samples)

\* The sum of the squared differences in all pairs of f[1] .. f[n].
Differences(f, n) ==
  LET among(i) == [j \in 1 .. n |-> (f[i] - f[j]) * (f[i] - f[j])]
  IN  Total([i \in 1 .. n |-> Total(among(i), n)], n)

(* The dead zone is three standard deviations of the readings, "3 sigma"    *)
(* in lsm6ds3_measure_noise: nine times half their mean squared difference  *)
(* in pairs, whatever the offset is, right or wrong.                        *)
DeadZoneIsThreeSigma ==
  pc \in {"begin", "loop"} =>
    LET noise == [i \in 1 .. NoiseSamples |-> readings[Samples + i]]
    IN  2 * g_deadzone = 9 * Samples * Samples * Differences(noise, NoiseSamples)

(* With a sensor, setup() ends, however the robot is moved meanwhile: a     *)
(* calibration is repeated once at most.                                    *)
SetupEnds == present => <>(pc = "loop")

=============================================================================
