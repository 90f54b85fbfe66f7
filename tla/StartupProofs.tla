--------------------------- MODULE StartupProofs ----------------------------
(***************************************************************************)
(* setup(), for every number of readings, everything the gyroscope may say *)
(* and every sensor that is no slower than the delays: the gyroscope runs  *)
(* when it is read, the root of which the dead zone is made exists, and    *)
(* offset and dead zone are what they are called.                          *)
(***************************************************************************)
EXTENDS Startup, SequenceTheorems, WellFoundedInduction, TLAPS

(* What the sensor does while setup() waits for it.                         *)
SensorInv ==
  /\ pc = "wait_reset" => phase = "resetting" /\ busy <= ResetDelay
  /\ pc = "configure" => phase = "off"
  /\ pc = "wait_configured" => phase = "settling"
  /\ pc = "warm_up" => phase = "on" \/ (phase = "settling" /\ busy <= WarmUp)
  /\ pc \in {"calibrate", "offset", "noise"} => phase = "on"

(* How far the loops over the readings are.                                 *)
CountInv ==
  /\ pc \notin {"calibrate", "offset", "noise", "deadzone", "begin", "loop"} =>
       count = 0
  /\ pc = "calibrate" => count < Samples
  /\ pc = "noise" => count < NoiseSamples
  /\ pc = "deadzone" => count = NoiseSamples

(* The readings so far have no negative variance.                           *)
SquaresInv == pc \in {"noise", "deadzone"} => count * sum_sq >= sum * sum

SetupInv == TypeOK /\ SensorInv /\ CountInv /\ SquaresInv

-----------------------------------------------------------------------------
(* One value more: the squares go on to outweigh the square of the sum, as  *)
(* Cauchy and Schwarz have it.                                              *)
LEMMA OneMoreSquare ==
  ASSUME NEW n \in Nat, NEW q \in Nat, NEW s \in Int, NEW g \in Int,
         n * q >= s * s
  PROVE  (n + 1) * (q + g * g) >= (s + g) * (s + g)
<1>1. CASE n = 0
  <2>1. s = 0
    BY <1>1
  <2> QED BY <1>1, <2>1
<1>2. CASE n > 0
  <2> DEFINE x == q + n * (g * g) - 2 * (s * g)
  <2>1. x \in Int
    OBVIOUS
  <2>2. n * x = (n * q - s * s) + (s - n * g) * (s - n * g)
    OBVIOUS
  <2>3. (s - n * g) * (s - n * g) >= 0
    <3>1. \A i \in Int : i * i >= 0
      OBVIOUS
    <3> QED BY <3>1
  <2>4. (n + 1) * (q + g * g) - (s + g) * (s + g) = (n * q - s * s) + x
    OBVIOUS
  <2>5. x >= 0
    <3>1. n * x >= 0
      BY <2>2, <2>3
    <3> HIDE DEF x
    <3> QED BY <1>2, <2>1, <3>1
  <2> QED BY <2>4, <2>5
<1> QED BY <1>1, <1>2

(* delay(n) outlasts what the sensor does if that takes no longer.          *)
LEMMA DelayEnds ==
  ASSUME NEW n \in Nat, busy \in Nat, Delay(n)
  PROVE  /\ busy <= n => busy' = 0
         /\ busy <= n /\ phase = "resetting" => phase' = "off"
         /\ busy <= n /\ phase = "settling" => phase' = "on"
         /\ busy > n => busy' = busy - n /\ phase' = phase
         /\ busy' \in 0 .. busy
         /\ phase = "on" => phase' = "on"
         /\ present' = present
BY DEF Delay

(* A reading lets the sensor go on, and is the last of those remembered.    *)
LEMMA TakeTyped ==
  ASSUME TypeOK, NEW r \in Readings, Take(r)
  PROVE  /\ count' = count + 1
         /\ readings' \in Seq(Readings) /\ Len(readings') <= Window
         /\ busy' \in 0 .. ResetDelay + WarmUp
         /\ phase' \in {"off", "resetting", "settling", "on"}
         /\ present' \in BOOLEAN
         /\ phase = "on" => phase' = "on"
<1>1. count' = count + 1
  BY DEF Take
<1>2. readings' \in Seq(Readings) /\ Len(readings') <= Window
  <2> DEFINE all == Append(readings, r)
  <2>1. readings' = IF Len(all) > Window THEN Tail(all) ELSE all
    BY DEF Take
  <2>2. /\ all \in Seq(Readings) /\ Len(all) = Len(readings) + 1
        /\ Len(readings) \in Nat
    BY DEF TypeOK
  <2>3. Window \in Nat /\ Len(readings) <= Window
    BY SamplesAssumption DEF TypeOK, Window
  <2> HIDE DEF all
  <2>4. CASE Len(all) > Window
    <3>1. all # <<>>
      BY <2>2
    <3>2. Tail(all) \in Seq(Readings) /\ Len(Tail(all)) = Len(all) - 1
      BY <2>2, <3>1
    <3> QED BY <2>1, <2>2, <2>3, <2>4, <3>2
  <2>5. CASE ~ (Len(all) > Window)
    BY <2>1, <2>2, <2>3, <2>5
  <2> QED BY <2>4, <2>5
<1>3. Delay(2) /\ busy \in Nat
  BY DEF Take, TypeOK
<1>4. busy' \in 0 .. busy /\ (phase = "on" => phase' = "on")
  BY <1>3, DelayEnds
<1>5. busy' \in 0 .. ResetDelay + WarmUp
  <2>1. busy \in 0 .. ResetDelay + WarmUp
    BY DEF TypeOK
  <2> QED BY <1>4, <2>1 DEF ResetDelay, WarmUp
<1>6. phase' \in {"off", "resetting", "settling", "on"} /\ present' \in BOOLEAN
  BY <1>3 DEF Delay, TypeOK
<1> QED BY <1>1, <1>2, <1>4, <1>5, <1>6

(* setup() begins with nothing read.                                        *)
LEMMA SetupInit == Init => SetupInv
<1> SUFFICES ASSUME Init PROVE SetupInv
  OBVIOUS
<1>1. TypeOK
  <2>1. Window \in Nat
    BY SamplesAssumption DEF Window
  <2>2. readings \in Seq(Readings) /\ Len(readings) = 0
    BY DEF Init
  <2>3. busy \in 0 .. ResetDelay + WarmUp /\ count \in 0 .. Window
    BY <2>1 DEF Init, ResetDelay, WarmUp
  <2>4. {sum, gz_offset} \subseteq Int /\ {sum_sq, g_deadzone} \subseteq Nat
    BY DEF Init
  <2>5. present \in BOOLEAN /\ retried \in BOOLEAN
    BY DEF Init
  <2>6. phase \in {"off", "resetting", "settling", "on"} /\ pc = "whoami"
    BY DEF Init
  <2> QED BY <2>1, <2>2, <2>3, <2>4, <2>5, <2>6 DEF TypeOK
<1>2. SensorInv /\ CountInv /\ SquaresInv
  BY DEF Init, SensorInv, CountInv, SquaresInv
<1> QED BY <1>1, <1>2 DEF SetupInv

(* The stages up to the first reading: each delay outlasts its wait.        *)
LEMMA StageNext ==
  ASSUME SetupInv,
         \/ Detect \/ Reset \/ AwaitReset \/ Configure
         \/ AwaitConfigured \/ AwaitWarm \/ Begin
  PROVE  SetupInv'
<1> USE DEF ResetDelay, WarmUp
<1>1. /\ UNCHANGED Measurements
      /\ pc \in {"whoami", "reset", "wait_reset", "configure",
                 "wait_configured", "warm_up", "begin"}
      /\ pc' \in {"whoami", "halted", "reset", "wait_reset", "configure",
                  "wait_configured", "warm_up", "calibrate", "loop"}
      /\ pc' = "loop" => pc = "begin"
      /\ pc = "begin" => pc' = "loop"
  BY DEF Detect, Reset, AwaitReset, Configure, AwaitConfigured,
         AwaitWarm, Begin, Stage
<1>2. CountInv'
  BY <1>1, SamplesAssumption DEF SetupInv, CountInv, Measurements
<1>3. SquaresInv'
  BY <1>1 DEF SquaresInv
<1>4. present' \in BOOLEAN
  <2>1. present' = present
    BY DEF Detect, Reset, AwaitReset, Configure, AwaitConfigured,
           AwaitWarm, Begin, ResetSensor, ConfigureSensor, Delay, sensor
  <2> QED BY <2>1 DEF SetupInv, TypeOK
<1>5. /\ busy \in Nat /\ busy <= 2010
      /\ phase \in {"off", "resetting", "settling", "on"}
      /\ SensorInv
  BY DEF SetupInv, TypeOK
<1>6. /\ phase' \in {"off", "resetting", "settling", "on"}
      /\ busy' \in Nat /\ busy' <= 2010
      /\ SensorInv'
  <2>1. CASE Detect \/ Begin
    <3>1. /\ UNCHANGED <<phase, busy>>
          /\ pc' \in {"whoami", "reset", "halted", "loop"}
      BY <2>1 DEF Detect, Begin, Stage, sensor
    <3> QED BY <1>5, <3>1 DEF SensorInv
  <2>2. CASE Reset
    <3>1. pc' = "wait_reset" /\ phase' = "resetting" /\ busy' \in 0 .. 10
      BY <2>2, SensorAssumption DEF Reset, Stage, ResetSensor
    <3> QED BY <3>1 DEF SensorInv
  <2>3. CASE AwaitReset
    <3>1. Delay(ResetDelay) /\ pc = "wait_reset" /\ pc' = "configure"
      BY <2>3 DEF AwaitReset, Stage
    <3>2. phase = "resetting" /\ busy <= ResetDelay
      BY <1>5, <3>1 DEF SensorInv
    <3>3. busy' = 0 /\ phase' = "off"
      BY <1>5, <3>1, <3>2, DelayEnds
    <3> QED BY <3>1, <3>3 DEF SensorInv
  <2>4. CASE Configure
    <3>1. pc = "configure" /\ pc' = "wait_configured" /\ ConfigureSensor
      BY <2>4 DEF Configure, Stage
    <3>2. phase = "off"
      BY <1>5, <3>1 DEF SensorInv
    <3>3. phase # "resetting"
      BY <3>2
    <3>4. phase' = "settling" /\ busy' \in SettleTimes
      BY <3>1, <3>3 DEF ConfigureSensor
    <3>5. busy' \in 0 .. 2010
      BY <3>4, SensorAssumption
    <3> QED BY <3>1, <3>4, <3>5 DEF SensorInv
  <2>5. CASE AwaitConfigured
    <3>1. Delay(ResetDelay) /\ pc = "wait_configured" /\ pc' = "warm_up"
      BY <2>5 DEF AwaitConfigured, Stage
    <3>2. phase = "settling"
      BY <1>5, <3>1 DEF SensorInv
    <3>3. \/ phase' = "settling" /\ busy' = busy - ResetDelay /\ busy > ResetDelay
          \/ phase' = "on" /\ busy' = 0
      BY <1>5, <3>1, <3>2, DelayEnds
    <3> QED BY <1>5, <3>1, <3>3 DEF SensorInv
  <2>6. CASE AwaitWarm
    <3>1. Delay(WarmUp) /\ pc = "warm_up" /\ pc' = "calibrate"
      BY <2>6 DEF AwaitWarm, Stage
    <3>2. phase = "on" \/ (phase = "settling" /\ busy <= WarmUp)
      BY <1>5, <3>1 DEF SensorInv
    <3>3. phase' = "on" /\ busy' \in 0 .. busy
      BY <1>5, <3>1, <3>2, DelayEnds
    <3> QED BY <1>5, <3>1, <3>3 DEF SensorInv
  <2> QED BY <2>1, <2>2, <2>3, <2>4, <2>5, <2>6
<1>7. TypeOK'
  <2>1. busy' \in 0 .. ResetDelay + WarmUp
    BY <1>6
  <2> QED BY <1>1, <1>4, <1>6, <2>1 DEF SetupInv, TypeOK, Measurements, results
<1> QED BY <1>2, <1>3, <1>6, <1>7 DEF SetupInv

(* A reading for the offset.                                                *)
LEMMA CalibrateNext ==
  ASSUME SetupInv, CalibrateSample
  PROVE  SetupInv'
<1>1. PICK r \in Readings : Take(r) /\ sum' = sum + r
  BY DEF CalibrateSample
<1>2. /\ pc = "calibrate" /\ pc' = IF count' = Samples THEN "offset" ELSE pc
      /\ UNCHANGED <<sum_sq, retried, gz_offset, g_deadzone>>
  BY DEF CalibrateSample, results
<1>3. phase = "on" /\ count \in Nat /\ count < Samples /\ Samples \in Nat
      /\ NoiseSamples \in Nat /\ r \in Int
  BY <1>2, SamplesAssumption DEF SetupInv, TypeOK, SensorInv, CountInv
<1>4. /\ count' = count + 1
      /\ readings' \in Seq(Readings) /\ Len(readings') <= Window
      /\ busy' \in 0 .. ResetDelay + WarmUp
      /\ phase' = "on" /\ present' \in BOOLEAN
  BY <1>1, <1>3, TakeTyped DEF SetupInv
<1>5. count' \in 0 .. Window
  BY <1>3, <1>4 DEF Window
<1>6. sum' \in Int
  BY <1>1, <1>3 DEF SetupInv, TypeOK
<1>7. TypeOK'
  BY <1>2, <1>4, <1>5, <1>6 DEF SetupInv, TypeOK
<1>8. SensorInv' /\ CountInv' /\ SquaresInv'
  BY <1>2, <1>3, <1>4 DEF SensorInv, CountInv, SquaresInv
<1> QED BY <1>7, <1>8 DEF SetupInv

(* The offset, and whatever comes after it, begins with an empty sum.       *)
LEMMA OffsetNext ==
  ASSUME SetupInv, Offset
  PROVE  SetupInv'
<1>1. /\ pc = "offset" /\ pc' \in {"calibrate", "noise"}
      /\ gz_offset' = sum /\ count' = 0 /\ sum' = 0 /\ retried' \in BOOLEAN
      /\ UNCHANGED <<sensor, sum_sq, g_deadzone, readings>>
  BY DEF Offset, FreshSum, SetupInv, TypeOK
<1>2. phase = "on"
  BY <1>1 DEF SetupInv, SensorInv
<1>3. TypeOK'
  BY <1>1, SamplesAssumption DEF SetupInv, TypeOK, sensor, Window
<1>4. SensorInv' /\ CountInv' /\ SquaresInv'
  BY <1>1, <1>2, SamplesAssumption
     DEF SetupInv, TypeOK, SensorInv, CountInv, SquaresInv, sensor
<1> QED BY <1>3, <1>4 DEF SetupInv

(* A reading for the noise adds its square.                                 *)
LEMMA NoiseNext ==
  ASSUME SetupInv, NoiseSample
  PROVE  SetupInv'
<1>1. PICK r \in Readings :
        /\ Take(r)
        /\ sum' = sum + (Samples * r - gz_offset)
        /\ sum_sq' = sum_sq + (Samples * r - gz_offset) * (Samples * r - gz_offset)
  BY DEF NoiseSample
<1>2. /\ pc = "noise" /\ pc' = IF count' = NoiseSamples THEN "deadzone" ELSE pc
      /\ UNCHANGED <<retried, gz_offset, g_deadzone>>
  BY DEF NoiseSample, results
<1>3. /\ phase = "on" /\ count \in Nat /\ count < NoiseSamples
      /\ Samples \in Nat /\ NoiseSamples \in Nat /\ r \in Int
      /\ sum \in Int /\ sum_sq \in Nat /\ gz_offset \in Int
      /\ count * sum_sq >= sum * sum
  BY <1>2, SamplesAssumption
     DEF SetupInv, TypeOK, SensorInv, CountInv, SquaresInv
<1>4. /\ count' = count + 1
      /\ readings' \in Seq(Readings) /\ Len(readings') <= Window
      /\ busy' \in 0 .. ResetDelay + WarmUp
      /\ phase' = "on" /\ present' \in BOOLEAN
  BY <1>1, <1>3, TakeTyped DEF SetupInv
<1>5. count' \in 0 .. Window
  BY <1>3, <1>4 DEF Window
<1> DEFINE gz == Samples * r - gz_offset
<1>6. gz \in Int
  BY <1>3
<1>7. sum' = sum + gz /\ sum_sq' = sum_sq + gz * gz
  BY <1>1
<1> HIDE DEF gz
<1>8. sum' \in Int /\ sum_sq' \in Nat
  <2>1. \A i \in Int : i * i \in Nat
    OBVIOUS
  <2> QED BY <1>3, <1>6, <1>7, <2>1
<1>9. count' * sum_sq' >= sum' * sum'
  BY <1>3, <1>4, <1>6, <1>7, OneMoreSquare
<1>10. TypeOK'
  BY <1>2, <1>4, <1>5, <1>8 DEF SetupInv, TypeOK
<1>11. SensorInv' /\ CountInv' /\ SquaresInv'
  BY <1>2, <1>3, <1>4, <1>9 DEF SensorInv, CountInv, SquaresInv
<1> QED BY <1>10, <1>11 DEF SetupInv

(* The dead zone is made of a variance that is not negative.                *)
LEMMA DeadZoneNext ==
  ASSUME SetupInv, DeadZone
  PROVE  SetupInv'
<1>1. /\ pc = "deadzone" /\ pc' = "begin"
      /\ g_deadzone' = 3 * 3 * Variance
      /\ UNCHANGED <<sensor, count, sum, sum_sq, retried, gz_offset, readings>>
  BY DEF DeadZone
<1>2. /\ NoiseSamples * sum_sq >= sum * sum
      /\ NoiseSamples \in Nat /\ sum \in Int /\ sum_sq \in Nat
  BY <1>1, SamplesAssumption DEF SetupInv, TypeOK, CountInv, SquaresInv
<1>3. Variance \in Nat
  BY <1>2 DEF Variance
<1>4. g_deadzone' \in Nat
  BY <1>1, <1>3
<1>5. TypeOK'
  BY <1>1, <1>4 DEF SetupInv, TypeOK, sensor
<1>6. SensorInv' /\ CountInv' /\ SquaresInv'
  BY <1>1 DEF SetupInv, SensorInv, CountInv, SquaresInv, sensor
<1> QED BY <1>5, <1>6 DEF SetupInv

(* Every step of setup() keeps the invariant.                               *)
LEMMA SetupNext == SetupInv /\ [Next]_vars => SetupInv'
<1>1. SetupInv /\ Next => SetupInv'
  BY StageNext, CalibrateNext, OffsetNext, NoiseNext, DeadZoneNext DEF Next
<1>2. SetupInv /\ UNCHANGED vars => SetupInv'
  <2> SUFFICES ASSUME SetupInv, UNCHANGED vars PROVE SetupInv'
    OBVIOUS
  <2>1. TypeOK'
    BY DEF vars, sensor, results, SetupInv, TypeOK
  <2>2. SensorInv' /\ CountInv' /\ SquaresInv'
    BY DEF vars, sensor, results, SetupInv, SensorInv, CountInv, SquaresInv
  <2> QED BY <2>1, <2>2 DEF SetupInv
<1> QED BY <1>1, <1>2

-----------------------------------------------------------------------------
(* Sums of any number of values, by induction.                              *)

(* Induction over the natural numbers, as a fact about sets.                *)
LEMMA SetInduction ==
  ASSUME NEW S, 0 \in S, \A n \in Nat : n \in S => n + 1 \in S
  PROVE  Nat \subseteq S
<1> DEFINE T == Nat \ S
           R == OpToRel(<, Nat)
<1>1. SUFFICES ASSUME T # {} PROVE FALSE
  OBVIOUS
<1>2. \E x \in T : \A y \in T : ~ (<<y, x>> \in R)
  <2>1. IsWellFoundedOn(R, Nat)
    BY NatLessThanWellFounded
  <2>2. T \subseteq Nat
    OBVIOUS
  <2> HIDE DEF T, R
  <2> QED BY <1>1, <2>1, <2>2, WFMin
<1>3. PICK x \in T : \A y \in T : ~ (<<y, x>> \in R)
  BY <1>2
<1>4. \A y \in T : ~ (y < x)
  BY <1>3 DEF OpToRel
<1>5. x # 0 /\ x - 1 \in Nat /\ x \in Nat
  OBVIOUS
<1>6. x - 1 \in S
  BY <1>4, <1>5
<1> QED BY <1>5, <1>6

\* g[k] is the sum of the first k values of f, for all k up to n.
SumsOf(g, f, n) ==
  /\ g \in [0 .. n -> Int]
  /\ g[0] = 0
  /\ \A k \in 1 .. n : g[k] = g[k - 1] + f[k]

\* f[1] .. f[n] are numbers.
Numbers(f, n) == \A k \in 1 .. n : f[k] \in Int

(* Such sums exist, for any number of values.                               *)
LEMMA SumsExist ==
  ASSUME NEW f, NEW n \in Nat, Numbers(f, n)
  PROVE  \E g : SumsOf(g, f, n)
<1> DEFINE S == {m \in Nat : m <= n => \E g : SumsOf(g, f, m)}
<1>1. 0 \in S
  <2>1. SumsOf([k \in 0 .. 0 |-> 0], f, 0)
    BY DEF SumsOf
  <2> QED BY <2>1
<1>2. ASSUME NEW m \in Nat, m \in S
      PROVE  m + 1 \in S
  <2>1. SUFFICES ASSUME m + 1 <= n
                 PROVE  \E g : SumsOf(g, f, m + 1)
    OBVIOUS
  <2>2. PICK g : SumsOf(g, f, m)
    BY <1>2, <2>1
  <2> DEFINE h == [k \in 0 .. m + 1 |-> IF k <= m THEN g[k] ELSE g[m] + f[m + 1]]
  <2>3. f[m + 1] \in Int
    BY <2>1 DEF Numbers
  <2>4. \A k \in 0 .. m : g[k] \in Int
    BY <2>2 DEF SumsOf
  <2>5. h \in [0 .. m + 1 -> Int]
    BY <2>3, <2>4
  <2>6. h[0] = 0
    BY <2>2 DEF SumsOf
  <2>7. \A k \in 1 .. m + 1 : h[k] = h[k - 1] + f[k]
    BY <2>2, <2>3, <2>4 DEF SumsOf
  <2>8. SumsOf(h, f, m + 1)
    BY <2>5, <2>6, <2>7 DEF SumsOf
  <2> QED BY <2>8
<1> HIDE DEF S
<1>3. n \in S
  BY <1>1, <1>2, SetInduction
<1> QED BY <1>3 DEF S

(* And there is only one of each.                                           *)
LEMMA SumsUnique ==
  ASSUME NEW f, NEW n \in Nat, NEW m \in Nat, m <= n,
         NEW g, SumsOf(g, f, m), NEW h, SumsOf(h, f, n)
  PROVE  \A k \in 0 .. m : g[k] = h[k]
<1> DEFINE S == {k \in Nat : k <= m => g[k] = h[k]}
<1>1. 0 \in S
  BY DEF SumsOf
<1>2. ASSUME NEW k \in Nat, k \in S
      PROVE  k + 1 \in S
  BY <1>2 DEF SumsOf
<1> HIDE DEF S
<1>3. Nat \subseteq S
  BY <1>1, <1>2, SetInduction
<1> QED BY <1>3 DEF S

(* Total is the last of them.                                               *)
LEMMA TotalSums ==
  ASSUME NEW f, NEW n \in Nat, Numbers(f, n)
  PROVE  \E g : SumsOf(g, f, n) /\ Total(f, n) = g[n]
<1> DEFINE Fits(g) == g = [k \in 0 .. n |-> IF k = 0 THEN 0 ELSE g[k - 1] + f[k]]
           u == CHOOSE g : Fits(g)
<1>1. PICK g : SumsOf(g, f, n)
  BY SumsExist
<1>2. Fits(g)
  <2>1. g = [k \in 0 .. n |-> g[k]]
    BY <1>1 DEF SumsOf
  <2>2. \A k \in 0 .. n : g[k] = IF k = 0 THEN 0 ELSE g[k - 1] + f[k]
    BY <1>1 DEF SumsOf
  <2> QED BY <2>1, <2>2
<1>3. Fits(u)
  BY <1>2
<1>4. Total(f, n) = u[n]
  BY DEF Total
<1> HIDE DEF u
<1>5. SumsOf(u, f, n)
  <2> DEFINE S == {k \in Nat : k <= n => u[k] \in Int}
  <2>1. \A k \in 0 .. n : u[k] = IF k = 0 THEN 0 ELSE u[k - 1] + f[k]
    BY <1>3
  <2>2. 0 \in S
    BY <2>1
  <2>3. ASSUME NEW k \in Nat, k \in S
        PROVE  k + 1 \in S
    BY <2>1, <2>3 DEF Numbers
  <2> HIDE DEF S
  <2>4. Nat \subseteq S
    BY <2>2, <2>3, SetInduction
  <2>5. u \in [0 .. n -> Int]
    BY <1>3, <2>4 DEF S
  <2> QED BY <2>1, <2>5 DEF SumsOf
<1> QED BY <1>4, <1>5

(* The sum of nothing.                                                      *)
LEMMA NoSum ==
  ASSUME NEW f
  PROVE  Total(f, 0) = 0
<1>1. Numbers(f, 0)
  BY DEF Numbers
<1> QED BY <1>1, TotalSums DEF SumsOf

(* The sum of one value more.                                               *)
LEMMA OneMore ==
  ASSUME NEW f, NEW n \in Nat, Numbers(f, n + 1)
  PROVE  /\ Total(f, n) \in Int
         /\ Total(f, n + 1) = Total(f, n) + f[n + 1]
<1>1. Numbers(f, n)
  BY DEF Numbers
<1>2. PICK g : SumsOf(g, f, n) /\ Total(f, n) = g[n]
  BY <1>1, TotalSums
<1>3. PICK h : SumsOf(h, f, n + 1) /\ Total(f, n + 1) = h[n + 1]
  BY TotalSums
<1>4. g[n] = h[n]
  BY <1>2, <1>3, SumsUnique
<1>5. h[n + 1] = h[n] + f[n + 1] /\ g[n] \in Int
  BY <1>2, <1>3 DEF SumsOf
<1> QED BY <1>2, <1>3, <1>4, <1>5

(* Equal values have equal sums.                                            *)
LEMMA SameTotal ==
  ASSUME NEW f, NEW h, NEW n \in Nat, Numbers(f, n),
         \A k \in 1 .. n : f[k] = h[k]
  PROVE  Total(f, n) = Total(h, n)
<1>1. Numbers(h, n)
  BY DEF Numbers
<1>2. PICK u : SumsOf(u, f, n) /\ Total(f, n) = u[n]
  BY TotalSums
<1>3. PICK v : SumsOf(v, h, n) /\ Total(h, n) = v[n]
  BY <1>1, TotalSums
<1>4. SumsOf(u, h, n)
  BY <1>2 DEF SumsOf
<1>5. u[n] = v[n]
  BY <1>3, <1>4, SumsUnique
<1> QED BY <1>2, <1>3, <1>5

(* A sum is a number.                                                       *)
LEMMA TotalNumber ==
  ASSUME NEW f, NEW n \in Nat, Numbers(f, n)
  PROVE  Total(f, n) \in Int
BY TotalSums DEF SumsOf

\* The squares of f[1] .. f[n].
Squares(f, n) == [i \in 1 .. n |-> f[i] * f[i]]

(* Squares are numbers.                                                     *)
LEMMA SquaresNumbers ==
  ASSUME NEW f, NEW n \in Nat, Numbers(f, n)
  PROVE  Numbers(Squares(f, n), n)
BY DEF Numbers, Squares

(* The squared differences from one value, in terms of the sum and the sum  *)
(* of the squares.                                                          *)
LEMMA OneRow ==
  ASSUME NEW f, NEW n \in Nat, Numbers(f, n), NEW i \in 1 .. n, NEW m \in 0 .. n
  PROVE  Total([j \in 1 .. n |-> (f[i] - f[j]) * (f[i] - f[j])], m)
           = m * (f[i] * f[i]) - 2 * (f[i] * Total(f, m)) + Total(Squares(f, n), m)
<1> DEFINE row == [j \in 1 .. n |-> (f[i] - f[j]) * (f[i] - f[j])]
           sq == Squares(f, n)
           a == f[i]
           S == {k \in Nat : k <= n =>
                   Total(row, k)
                     = k * (a * a) - 2 * (a * Total(f, k)) + Total(sq, k)}
<1>0. a \in Int
  BY DEF Numbers
<1>1. 0 \in S
  BY <1>0, NoSum
<1>2. ASSUME NEW k \in Nat, k \in S
      PROVE  k + 1 \in S
  <2> SUFFICES ASSUME k + 1 <= n
               PROVE  Total(row, k + 1) = (k + 1) * (a * a)
                        - 2 * (a * Total(f, k + 1)) + Total(sq, k + 1)
    OBVIOUS
  <2>1. Numbers(row, k + 1) /\ Numbers(f, k + 1) /\ Numbers(sq, k + 1)
    BY <1>0 DEF Numbers, Squares
  <2>2. f[k + 1] \in Int
    BY <2>1 DEF Numbers
  <2>3. row[k + 1] = (a - f[k + 1]) * (a - f[k + 1])
    OBVIOUS
  <2>4. sq[k + 1] = f[k + 1] * f[k + 1]
    BY DEF Squares
  <2>5. Total(row, k) = k * (a * a) - 2 * (a * Total(f, k)) + Total(sq, k)
    BY <1>2
  <2> HIDE DEF row, sq, a
  <2>6. /\ Total(row, k) \in Int /\ Total(row, k + 1) = Total(row, k) + row[k + 1]
        /\ Total(f, k) \in Int /\ Total(f, k + 1) = Total(f, k) + f[k + 1]
        /\ Total(sq, k) \in Int /\ Total(sq, k + 1) = Total(sq, k) + sq[k + 1]
    BY <2>1, OneMore
  <2> DEFINE x == f[k + 1]
             R == Total(row, k)
             P == Total(f, k)
             Q == Total(sq, k)
  <2>7. /\ x \in Int /\ P \in Int /\ Q \in Int
        /\ Total(row, k + 1) = k * (a * a) - 2 * (a * P) + Q + (a - x) * (a - x)
        /\ Total(f, k + 1) = P + x
        /\ Total(sq, k + 1) = Q + x * x
    BY <2>2, <2>3, <2>4, <2>5, <2>6
  <2> HIDE DEF x, R, P, Q
  <2>8. k * (a * a) - 2 * (a * P) + Q + (a - x) * (a - x)
          = (k + 1) * (a * a) - 2 * (a * (P + x)) + (Q + x * x)
    BY <1>0, <2>7
  <2> QED BY <2>7, <2>8
<1> HIDE DEF S
<1>3. Nat \subseteq S
  BY <1>1, <1>2, SetInduction
<1> QED BY <1>3 DEF S

(* The squared differences in all pairs are what the code computes as the   *)
(* variance, but for the factor two.                                        *)
LEMMA PairsToMoments ==
  ASSUME NEW f, NEW n \in Nat, Numbers(f, n)
  PROVE  Differences(f, n)
           = 2 * (n * Total(Squares(f, n), n) - Total(f, n) * Total(f, n))
<1> DEFINE sq == Squares(f, n)
           P == Total(f, n)
           Q == Total(sq, n)
           row(i) == [j \in 1 .. n |-> (f[i] - f[j]) * (f[i] - f[j])]
           all == [i \in 1 .. n |-> Total(row(i), n)]
           S == {k \in Nat : k <= n =>
                   Total(all, k) = n * Total(sq, k) - 2 * (P * Total(f, k)) + k * Q}
<1>0. P \in Int /\ Q \in Int
  BY TotalNumber, SquaresNumbers
<1>1. \A i \in 1 .. n : all[i] = n * (f[i] * f[i]) - 2 * (f[i] * P) + Q
  BY OneRow
<1>2. Differences(f, n) = Total(all, n)
  BY DEF Differences
<1> HIDE DEF P, Q, all
<1>3. 0 \in S
  BY <1>0, NoSum
<1>4. ASSUME NEW k \in Nat, k \in S
      PROVE  k + 1 \in S
  <2> SUFFICES ASSUME k + 1 <= n
               PROVE  Total(all, k + 1)
                        = n * Total(sq, k + 1) - 2 * (P * Total(f, k + 1))
                            + (k + 1) * Q
    OBVIOUS
  <2>1. Numbers(all, k + 1) /\ Numbers(f, k + 1) /\ Numbers(sq, k + 1)
    BY <1>0, <1>1 DEF Numbers, Squares
  <2>2. f[k + 1] \in Int
    BY <2>1 DEF Numbers
  <2>3. all[k + 1] = n * (f[k + 1] * f[k + 1]) - 2 * (f[k + 1] * P) + Q
    BY <1>1
  <2>4. sq[k + 1] = f[k + 1] * f[k + 1]
    BY DEF Squares
  <2>5. Total(all, k) = n * Total(sq, k) - 2 * (P * Total(f, k)) + k * Q
    BY <1>4
  <2> HIDE DEF sq
  <2>6. /\ Total(all, k) \in Int /\ Total(all, k + 1) = Total(all, k) + all[k + 1]
        /\ Total(f, k) \in Int /\ Total(f, k + 1) = Total(f, k) + f[k + 1]
        /\ Total(sq, k) \in Int /\ Total(sq, k + 1) = Total(sq, k) + sq[k + 1]
    BY <2>1, OneMore
  <2> DEFINE x == f[k + 1]
             p == Total(f, k)
             q == Total(sq, k)
  <2>7. /\ x \in Int /\ p \in Int /\ q \in Int
        /\ Total(all, k + 1) = n * q - 2 * (P * p) + k * Q
                                 + (n * (x * x) - 2 * (x * P) + Q)
        /\ Total(f, k + 1) = p + x
        /\ Total(sq, k + 1) = q + x * x
    BY <2>2, <2>3, <2>4, <2>5, <2>6
  <2> HIDE DEF x, p, q
  <2>8. n * q - 2 * (P * p) + k * Q + (n * (x * x) - 2 * (x * P) + Q)
          = n * (q + x * x) - 2 * (P * (p + x)) + (k + 1) * Q
    BY <1>0, <2>7
  <2> QED BY <2>7, <2>8
<1> HIDE DEF S
<1>5. Nat \subseteq S
  BY <1>3, <1>4, SetInduction
<1>6. Total(all, n) = n * Total(sq, n) - 2 * (P * Total(f, n)) + n * Q
  BY <1>5 DEF S
<1>7. Total(all, n) = n * Q - 2 * (P * P) + n * Q
  BY <1>6 DEF P, Q
<1>8. Total(all, n) = 2 * (n * Q - P * P)
  BY <1>0, <1>7
<1> QED BY <1>2, <1>8 DEF P, Q

-----------------------------------------------------------------------------
(* The accounts that setup() keeps of its readings.                         *)

\* The last n readings.
Recent(n) == [i \in 1 .. n |-> readings[Len(readings) - n + i]]

(* While the calibration runs, the sum is that of the readings it has made. *)
OffsetLedger ==
  pc \in {"calibrate", "offset"} =>
    /\ count <= Len(readings) /\ count <= Samples
    /\ pc = "offset" => count = Samples
    /\ sum = Total(Recent(count), count)

(* While the noise is measured, the readings of the calibration are still   *)
(* there, before those of the noise, and the sums are those of the readings *)
(* and squares about the offset.                                            *)
NoiseLedger ==
  pc \in {"noise", "deadzone"} =>
    LET P == Total(Recent(count), count)
        Q == Total(Squares(Recent(count), count), count)
    IN  /\ Samples + count <= Len(readings) /\ count <= NoiseSamples
        /\ gz_offset = Total(Recent(Samples + count), Samples)
        /\ sum = Samples * P - count * gz_offset
        /\ sum_sq = Samples * Samples * Q - 2 * (Samples * gz_offset * P)
                      + count * gz_offset * gz_offset

(* Nothing is summed before it is read.                                     *)
EmptyLedger ==
  /\ pc \in {"whoami", "halted", "reset", "wait_reset", "configure",
             "wait_configured", "warm_up"} => sum = 0
  /\ pc \notin {"noise", "deadzone", "begin", "loop"} => sum_sq = 0

LedgerInv ==
  /\ OffsetLedger /\ NoiseLedger /\ EmptyLedger
  /\ OffsetIsMean /\ DeadZoneIsThreeSigma

(* The last readings are numbers.                                           *)
LEMMA RecentNumbers ==
  ASSUME TypeOK, NEW n \in Nat, n <= Len(readings)
  PROVE  Numbers(Recent(n), n)
<1>1. readings \in Seq(Readings) /\ Len(readings) \in Nat
  BY LenProperties DEF TypeOK
<1>2. ASSUME NEW i \in 1 .. n
      PROVE  Recent(n)[i] \in Int
  <2>1. Len(readings) - n + i \in 1 .. Len(readings)
    BY <1>1
  <2>2. readings[Len(readings) - n + i] \in Readings
    BY <1>1, <2>1, ElementOfSeq
  <2> QED BY <2>2, SamplesAssumption DEF Recent
<1> QED BY <1>2 DEF Numbers

(* After a reading, it is the last one, behind those that were the last,    *)
(* also when the first one is forgotten.                                    *)
LEMMA TakeRecent ==
  ASSUME TypeOK, NEW r \in Readings, Take(r),
         NEW n \in Nat, n <= Len(readings), n + 1 <= Window
  PROVE  /\ n + 1 <= Len(readings')
         /\ Recent(n + 1)'[n + 1] = r
         /\ \A i \in 1 .. n : Recent(n + 1)'[i] = Recent(n)[i]
<1> DEFINE all == Append(readings, r)
           L == Len(readings)
<1>1. readings \in Seq(Readings) /\ L \in Nat /\ L <= Window /\ Window \in Nat
  BY LenProperties, SamplesAssumption DEF TypeOK, Window
<1>2. /\ all \in Seq(Readings) /\ Len(all) = L + 1 /\ all[L + 1] = r
      /\ \A i \in 1 .. L : all[i] = readings[i]
  BY <1>1, AppendProperties
<1>3. readings' = IF Len(all) > Window THEN Tail(all) ELSE all
  BY DEF Take
<1> HIDE DEF all
<1>4. /\ n + 1 <= Len(readings')
      /\ \A i \in 1 .. n + 1 :
           readings'[Len(readings') - (n + 1) + i] = all[L - n + i]
  <2>1. CASE Len(all) > Window
    <3>1. all # <<>>
      BY <1>1, <1>2
    <3>2. /\ Len(Tail(all)) = L
          /\ \A i \in 1 .. L : Tail(all)[i] = all[i + 1]
      BY <1>1, <1>2, <3>1, HeadTailProperties
    <3>3. readings' = Tail(all) /\ L = Window
      BY <1>1, <1>2, <1>3, <2>1
    <3>4. ASSUME NEW i \in 1 .. n + 1
          PROVE  Tail(all)[L - (n + 1) + i] = all[L - n + i]
      <4>1. L - (n + 1) + i \in 1 .. L /\ L - (n + 1) + i + 1 = L - n + i
        BY <1>1, <3>3
      <4> QED BY <3>2, <4>1
    <3> QED BY <1>1, <3>2, <3>3, <3>4
  <2>2. CASE ~ (Len(all) > Window)
    <3>1. readings' = all /\ Len(all) = L + 1
      BY <1>2, <1>3, <2>2
    <3>2. \A i \in 1 .. n + 1 : L + 1 - (n + 1) + i = L - n + i
      BY <1>1
    <3> QED BY <1>1, <3>1, <3>2
  <2> QED BY <2>1, <2>2
<1>5. \A i \in 1 .. n + 1 : Recent(n + 1)'[i] = all[L - n + i]
  BY <1>4 DEF Recent
<1>6. Recent(n + 1)'[n + 1] = r
  <2>1. L - n + (n + 1) = L + 1
    BY <1>1
  <2> QED BY <1>2, <1>5, <2>1
<1>7. ASSUME NEW i \in 1 .. n
      PROVE  Recent(n + 1)'[i] = Recent(n)[i]
  <2>1. L - n + i \in 1 .. L /\ i \in 1 .. n + 1
    BY <1>1
  <2>2. Recent(n)[i] = readings[L - n + i]
    BY DEF Recent
  <2> QED BY <1>2, <1>5, <2>1, <2>2
<1> QED BY <1>4, <1>6, <1>7

(* Whatever leaves the readings and the sums alone, leaves them in order.   *)
LEMMA LedgerStages ==
  ASSUME SetupInv, LedgerInv,
         \/ Detect \/ Reset \/ AwaitReset \/ Configure
         \/ AwaitConfigured \/ AwaitWarm \/ Begin
  PROVE  LedgerInv'
<1>1. /\ UNCHANGED <<count, sum, sum_sq, gz_offset, g_deadzone, readings>>
      /\ pc \in {"whoami", "reset", "wait_reset", "configure",
                 "wait_configured", "warm_up", "begin"}
      /\ pc' \in {"whoami", "halted", "reset", "wait_reset", "configure",
                  "wait_configured", "warm_up", "calibrate", "loop"}
      /\ pc' = "loop" => pc = "begin"
      /\ pc = "begin" => pc' = "loop"
  BY DEF Detect, Reset, AwaitReset, Configure, AwaitConfigured,
         AwaitWarm, Begin, Stage, Measurements, results
<1>2. OffsetLedger'
  <2> SUFFICES ASSUME pc' = "calibrate"
               PROVE  OffsetLedger'
    BY <1>1 DEF OffsetLedger
  <2>1. sum = 0
    BY <1>1 DEF LedgerInv, EmptyLedger
  <2>2. count = 0
    BY <1>1 DEF SetupInv, CountInv
  <2>3. Len(readings) \in Nat /\ Samples \in Nat
    BY LenProperties, SamplesAssumption DEF SetupInv, TypeOK
  <2>4. Total(Recent(0)', 0) = 0
    BY NoSum
  <2> QED BY <1>1, <2>1, <2>2, <2>3, <2>4 DEF OffsetLedger
<1>3. NoiseLedger'
  BY <1>1 DEF NoiseLedger
<1>4. EmptyLedger'
  BY <1>1 DEF LedgerInv, EmptyLedger
<1>5. OffsetIsMean' /\ DeadZoneIsThreeSigma'
  <2>1. CASE pc = "begin"
    BY <1>1, <2>1 DEF LedgerInv, OffsetIsMean, DeadZoneIsThreeSigma
  <2>2. CASE pc # "begin"
    BY <1>1, <2>2 DEF OffsetIsMean, DeadZoneIsThreeSigma
  <2> QED BY <2>1, <2>2
<1> QED BY <1>2, <1>3, <1>4, <1>5 DEF LedgerInv

(* Adding a value to those before it.                                       *)
LEMMA AddValue ==
  ASSUME NEW n \in Nat, NEW f, NEW h, NEW x \in Int, Numbers(f, n),
         h[n + 1] = x, \A i \in 1 .. n : h[i] = f[i]
  PROVE  Total(h, n + 1) = Total(f, n) + x
<1>2. Numbers(h, n + 1)
  BY DEF Numbers
<1>3. Total(h, n + 1) = Total(h, n) + h[n + 1]
  BY <1>2, OneMore
<1>4. Total(f, n) = Total(h, n)
  BY SameTotal
<1> QED BY <1>3, <1>4

(* A reading of the calibration is added.                                   *)
LEMMA LedgerCalibrate ==
  ASSUME SetupInv, LedgerInv, CalibrateSample
  PROVE  LedgerInv'
<1>1. PICK r \in Readings : Take(r) /\ sum' = sum + r
  BY DEF CalibrateSample
<1>n. PICK n : n = count
  OBVIOUS
<1>2. /\ pc = "calibrate" /\ pc' = IF count' = Samples THEN "offset" ELSE pc
      /\ sum_sq' = sum_sq /\ count' = n + 1
  BY <1>1, <1>n DEF CalibrateSample, Take
<1>3. /\ n \in Nat /\ n < Samples /\ Samples \in Nat
      /\ n <= Len(readings) /\ Len(readings) \in Nat
      /\ sum = Total(Recent(n), n)
  BY <1>2, <1>n, SamplesAssumption, LenProperties
     DEF SetupInv, TypeOK, CountInv, LedgerInv, OffsetLedger
<1>4. n + 1 <= Window
  BY <1>3, SamplesAssumption DEF Window
<1>5. /\ n + 1 <= Len(readings') /\ Recent(n + 1)'[n + 1] = r
      /\ \A i \in 1 .. n : Recent(n + 1)'[i] = Recent(n)[i]
  BY <1>1, <1>3, <1>4, TakeRecent DEF SetupInv
<1>6. Numbers(Recent(n), n)
  BY <1>3, RecentNumbers DEF SetupInv
<1>7. Total(Recent(n + 1)', n + 1) = Total(Recent(n), n) + r
  BY <1>3, <1>5, <1>6, AddValue, SamplesAssumption
<1>8. sum' = Total(Recent(count), count)'
  <2>1. Recent(count)' = Recent(n + 1)'
    BY <1>2 DEF Recent
  <2> QED BY <1>1, <1>2, <1>3, <1>7, <2>1
<1>9. OffsetLedger'
  BY <1>2, <1>3, <1>5, <1>8 DEF OffsetLedger
<1>10. NoiseLedger' /\ EmptyLedger' /\ OffsetIsMean' /\ DeadZoneIsThreeSigma'
  BY <1>2 DEF LedgerInv, NoiseLedger, EmptyLedger, OffsetIsMean,
              DeadZoneIsThreeSigma
<1> QED BY <1>9, <1>10 DEF LedgerInv

(* The offset is the sum of the calibration, and both sums are empty again. *)
LEMMA LedgerOffset ==
  ASSUME SetupInv, LedgerInv, Offset
  PROVE  LedgerInv'
<1>1. /\ pc = "offset" /\ pc' \in {"calibrate", "noise"}
      /\ gz_offset' = sum /\ count' = 0 /\ sum' = 0
      /\ sum_sq' = sum_sq /\ readings' = readings
  BY DEF Offset, FreshSum
<1>2. /\ count = Samples /\ Samples <= Len(readings) /\ Samples \in Nat
      /\ NoiseSamples \in Nat /\ Len(readings) \in Nat /\ sum \in Int
      /\ sum = Total(Recent(Samples), Samples) /\ sum_sq = 0
  BY <1>1, SamplesAssumption, LenProperties
     DEF SetupInv, TypeOK, LedgerInv, OffsetLedger, EmptyLedger
<1>3. \A f : Total(f, 0) = 0
  BY NoSum
<1>4. OffsetLedger'
  BY <1>1, <1>2, <1>3 DEF OffsetLedger
<1>5. NoiseLedger'
  <2>1. gz_offset' = Total(Recent(Samples + count), Samples)'
    <3>1. Recent(Samples + count)' = Recent(Samples)
      BY <1>1, <1>2 DEF Recent
    <3>2. Total(Recent(Samples + count), Samples)' = Total(Recent(Samples), Samples)
      BY <3>1
    <3> QED BY <1>1, <1>2, <3>2
  <2>2. /\ Samples + count' <= Len(readings') /\ count' <= NoiseSamples
    BY <1>1, <1>2
  <2>3. sum' = Samples * 0 - count' * gz_offset'
    BY <1>1, <1>2
  <2>4. sum_sq' = Samples * Samples * 0 - 2 * (Samples * gz_offset' * 0)
                    + count' * gz_offset' * gz_offset'
    BY <1>1, <1>2
  <2>5. Total(Recent(count), count)' = 0
    BY <1>1, <1>3
  <2>6. Total(Squares(Recent(count), count), count)' = 0
    BY <1>1, <1>3
  <2> QED BY <2>1, <2>2, <2>3, <2>4, <2>5, <2>6 DEF NoiseLedger
<1>6. EmptyLedger' /\ OffsetIsMean' /\ DeadZoneIsThreeSigma'
  BY <1>1, <1>2 DEF EmptyLedger, OffsetIsMean, DeadZoneIsThreeSigma
<1> QED BY <1>4, <1>5, <1>6 DEF LedgerInv

(* One reading more, about the offset, in the sum ...                       *)
LEMMA SumStep ==
  ASSUME NEW S \in Int, NEW P \in Int, NEW n \in Int, NEW o \in Int, NEW r \in Int
  PROVE  (S * P - n * o) + (S * r - o) = S * (P + r) - (n + 1) * o
OBVIOUS

(* ... and in the sum of the squares.                                       *)
LEMMA SquareStep ==
  ASSUME NEW S \in Int, NEW P \in Int, NEW Q \in Int, NEW n \in Int,
         NEW o \in Int, NEW r \in Int
  PROVE  (S * S * Q - 2 * (S * o * P) + n * o * o) + (S * r - o) * (S * r - o)
           = S * S * (Q + r * r) - 2 * (S * o * (P + r)) + (n + 1) * o * o
OBVIOUS

(* The variance does not depend on the offset.                              *)
LEMMA OffsetFallsOut ==
  ASSUME NEW S \in Int, NEW P \in Int, NEW Q \in Int, NEW n \in Int,
         NEW o \in Int
  PROVE  n * (S * S * Q - 2 * (S * o * P) + n * o * o)
           - (S * P - n * o) * (S * P - n * o)
           = S * S * (n * Q - P * P)
OBVIOUS

(* A reading of the noise is added, and its square, about the offset.       *)
LEMMA LedgerNoise ==
  ASSUME SetupInv, LedgerInv, NoiseSample
  PROVE  LedgerInv'
<1>1. PICK r \in Readings :
        /\ Take(r)
        /\ sum' = sum + (Samples * r - gz_offset)
        /\ sum_sq' = sum_sq + (Samples * r - gz_offset) * (Samples * r - gz_offset)
  BY DEF NoiseSample
<1>n. PICK n : n = count
  OBVIOUS
<1> DEFINE S == Samples
           o == gz_offset
           P == Total(Recent(n), n)
           Q == Total(Squares(Recent(n), n), n)
<1>2. /\ pc = "noise" /\ pc' = IF count' = NoiseSamples THEN "deadzone" ELSE pc
      /\ gz_offset' = gz_offset /\ count' = n + 1
  BY <1>1, <1>n DEF NoiseSample, Take, results
<1>3. /\ n \in Nat /\ n < NoiseSamples /\ S \in Nat /\ NoiseSamples \in Nat
      /\ S + n <= Len(readings) /\ Len(readings) \in Nat
      /\ o \in Int /\ r \in Int
  BY <1>2, <1>n, SamplesAssumption, LenProperties
     DEF SetupInv, TypeOK, CountInv, LedgerInv, NoiseLedger
<1>4. /\ o = Total(Recent(S + n), S)
      /\ sum = S * P - n * o
      /\ sum_sq = S * S * Q - 2 * (S * o * P) + n * o * o
  BY <1>2, <1>n DEF LedgerInv, NoiseLedger
<1>5. n + 1 <= Window /\ (S + n) + 1 <= Window /\ n <= Len(readings)
  BY <1>3 DEF Window
<1>6. /\ n + 1 <= Len(readings') /\ Recent(n + 1)'[n + 1] = r
      /\ \A i \in 1 .. n : Recent(n + 1)'[i] = Recent(n)[i]
  BY <1>1, <1>3, <1>5, TakeRecent DEF SetupInv
<1>7. /\ (S + n) + 1 <= Len(readings')
      /\ \A i \in 1 .. S + n : Recent((S + n) + 1)'[i] = Recent(S + n)[i]
  <2>1. S + n \in Nat
    BY <1>3
  <2> HIDE DEF S
  <2> QED BY <1>1, <1>3, <1>5, <2>1, TakeRecent DEF SetupInv
<1>8. Numbers(Recent(n), n) /\ Numbers(Recent(S + n), S + n)
  BY <1>3, <1>5, RecentNumbers DEF SetupInv
<1>9. o = Total(Recent((S + n) + 1)', S)
  <2>1. Numbers(Recent(S + n), S)
    BY <1>3, <1>8 DEF Numbers
  <2>2. \A i \in 1 .. S : Recent(S + n)[i] = Recent((S + n) + 1)'[i]
    BY <1>3, <1>7
  <2> QED BY <1>3, <1>4, <2>1, <2>2, SameTotal
<1>10. Total(Recent(n + 1)', n + 1) = P + r
  BY <1>3, <1>6, <1>8, AddValue
<1>11. Total(Squares(Recent(n + 1)', n + 1), n + 1) = Q + r * r
  <2>1. Numbers(Squares(Recent(n), n), n)
    BY <1>3, <1>8, SquaresNumbers
  <2>2. Squares(Recent(n + 1)', n + 1)[n + 1] = r * r
    BY <1>3, <1>6 DEF Squares
  <2>3. \A i \in 1 .. n :
          Squares(Recent(n + 1)', n + 1)[i] = Squares(Recent(n), n)[i]
    BY <1>3, <1>6 DEF Squares
  <2>4. r * r \in Int
    BY <1>3
  <2> QED BY <1>3, <2>1, <2>2, <2>3, <2>4, AddValue
<1>12. P \in Int /\ Q \in Int
  BY <1>3, <1>8, TotalNumber, SquaresNumbers
<1> HIDE DEF P, Q, S, o
<1>13. sum' = S * (P + r) - (n + 1) * o
  <2>1. sum' = sum + (S * r - o)
    BY <1>1 DEF S, o
  <2>2. sum' = (S * P - n * o) + (S * r - o)
    BY <1>4, <2>1
  <2> QED BY <1>3, <1>12, <2>2, SumStep
<1>14. sum_sq' = S * S * (Q + r * r) - 2 * (S * o * (P + r)) + (n + 1) * o * o
  <2>1. sum_sq' = sum_sq + (S * r - o) * (S * r - o)
    BY <1>1 DEF S, o
  <2>2. sum_sq' = (S * S * Q - 2 * (S * o * P) + n * o * o)
                    + (S * r - o) * (S * r - o)
    BY <1>4, <2>1
  <2> QED BY <1>3, <1>12, <2>2, SquareStep
<1>15. NoiseLedger'
  <2>1. Recent(count)' = Recent(n + 1)'
    BY <1>2 DEF Recent
  <2>2. Recent(Samples + count)' = Recent((S + n) + 1)'
    <3>1. Samples + count' = (S + n) + 1
      BY <1>2, <1>3 DEF S
    <3> QED BY <3>1 DEF Recent
  <2>3. Total(Recent(count), count)' = P + r
    BY <1>2, <1>10, <2>1
  <2>4. Total(Squares(Recent(count), count), count)' = Q + r * r
    BY <1>2, <1>11, <2>1
  <2>5. Total(Recent(Samples + count), Samples)' = gz_offset'
    BY <1>2, <1>9, <2>2 DEF S, o
  <2>6. Samples + count' <= Len(readings') /\ count' <= NoiseSamples
    BY <1>2, <1>3, <1>7 DEF S
  <2> QED BY <1>2, <1>13, <1>14, <2>3, <2>4, <2>5, <2>6 DEF NoiseLedger, S, o
<1>16. OffsetLedger' /\ EmptyLedger' /\ OffsetIsMean' /\ DeadZoneIsThreeSigma'
  BY <1>2 DEF OffsetLedger, EmptyLedger, OffsetIsMean, DeadZoneIsThreeSigma
<1> QED BY <1>15, <1>16 DEF LedgerInv

(* The dead zone is what the readings of the noise say, for all the offset  *)
(* may be: it falls out of the variance.                                    *)
LEMMA LedgerDeadZone ==
  ASSUME SetupInv, LedgerInv, DeadZone
  PROVE  LedgerInv'
<1> DEFINE S == Samples
           N == NoiseSamples
           o == gz_offset
           f == Recent(N)
           P == Total(f, N)
           Q == Total(Squares(f, N), N)
<1>1. /\ pc = "deadzone" /\ pc' = "begin"
      /\ g_deadzone' = 3 * 3 * Variance
      /\ UNCHANGED <<gz_offset, readings>>
  BY DEF DeadZone
<1>2. /\ count = N /\ S \in Nat /\ N \in Nat /\ o \in Int
      /\ Len(readings) = S + N
  <2>1. S \in Nat /\ N \in Nat
    BY SamplesAssumption
  <2>2. count = N
    BY <1>1 DEF SetupInv, CountInv
  <2>3. o \in Int /\ Len(readings) \in Nat /\ Len(readings) <= S + N
    BY LenProperties DEF SetupInv, TypeOK, Window
  <2>4. S + count <= Len(readings)
    BY <1>1 DEF LedgerInv, NoiseLedger
  <2> QED BY <2>1, <2>2, <2>3, <2>4
<1>3. /\ o = Total(Recent(S + N), S)
      /\ sum = S * P - N * o
      /\ sum_sq = S * S * Q - 2 * (S * o * P) + N * o * o
  BY <1>1, <1>2 DEF LedgerInv, NoiseLedger
<1>4. Numbers(f, N) /\ Numbers(Recent(S + N), S + N)
  BY <1>2, RecentNumbers DEF SetupInv
<1>5. o = Total(readings, S)
  <2>1. Numbers(Recent(S + N), S)
    BY <1>2, <1>4 DEF Numbers
  <2>2. \A i \in 1 .. S : Recent(S + N)[i] = readings[i]
    <3> SUFFICES ASSUME NEW i \in 1 .. S
                 PROVE  Recent(S + N)[i] = readings[i]
      OBVIOUS
    <3>1. Len(readings) - (S + N) + i = i /\ i \in 1 .. S + N
      BY <1>2
    <3> HIDE DEF S, N
    <3> QED BY <3>1 DEF Recent
  <2> QED BY <1>2, <1>3, <2>1, <2>2, SameTotal
<1>6. f = [i \in 1 .. N |-> readings[S + i]]
  <2>1. \A i \in 1 .. N : Len(readings) - N + i = S + i
    BY <1>2
  <2> QED BY <2>1 DEF Recent
<1>7. P \in Int /\ Q \in Int
  BY <1>2, <1>4, TotalNumber, SquaresNumbers
<1>8. Differences(f, N) = 2 * (N * Q - P * P)
  BY <1>2, <1>4, PairsToMoments
<1> HIDE DEF P, Q, o, f
<1>9. 2 * g_deadzone' = 9 * S * S * Differences(f, N)
  <2>1. g_deadzone' = 9 * (N * sum_sq - sum * sum)
    BY <1>1, <1>2, <1>3, <1>7 DEF Variance
  <2>2. N * sum_sq - sum * sum = S * S * (N * Q - P * P)
    <3>1. N \in Int /\ S \in Int /\ o \in Int
      BY <1>2
    <3> HIDE DEF S, N
    <3>2. N * (S * S * Q - 2 * (S * o * P) + N * o * o)
            - (S * P - N * o) * (S * P - N * o)
            = S * S * (N * Q - P * P)
      BY <1>7, <3>1, OffsetFallsOut
    <3> QED BY <1>3, <3>2
  <2> QED BY <1>2, <1>7, <1>8, <2>1, <2>2
<1>10. OffsetIsMean'
  BY <1>1, <1>5 DEF OffsetIsMean, o
<1>11. DeadZoneIsThreeSigma'
  BY <1>1, <1>6, <1>9 DEF DeadZoneIsThreeSigma
<1>12. OffsetLedger' /\ NoiseLedger' /\ EmptyLedger'
  BY <1>1 DEF OffsetLedger, NoiseLedger, EmptyLedger
<1> QED BY <1>10, <1>11, <1>12 DEF LedgerInv

(* Every step of setup() keeps the accounts.                                *)
LEMMA LedgerNext == SetupInv /\ LedgerInv /\ [Next]_vars => LedgerInv'
<1>1. SetupInv /\ LedgerInv /\ Next => LedgerInv'
  BY LedgerStages, LedgerCalibrate, LedgerOffset, LedgerNoise, LedgerDeadZone
     DEF Next
<1>2. LedgerInv /\ UNCHANGED vars => LedgerInv'
  <2> SUFFICES ASSUME LedgerInv, UNCHANGED vars
               PROVE  LedgerInv'
    OBVIOUS
  <2>1. UNCHANGED <<pc, count, sum, sum_sq, gz_offset, g_deadzone, readings>>
    BY DEF vars, results
  <2>2. OffsetLedger' /\ NoiseLedger'
    BY <2>1 DEF LedgerInv, OffsetLedger, NoiseLedger, Recent
  <2>3. EmptyLedger'
    BY <2>1 DEF LedgerInv, EmptyLedger
  <2>4. OffsetIsMean' /\ DeadZoneIsThreeSigma'
    BY <2>1 DEF LedgerInv, OffsetIsMean, DeadZoneIsThreeSigma
  <2> QED BY <2>2, <2>3, <2>4 DEF LedgerInv
<1> QED BY <1>1, <1>2

(* They are empty when setup() begins.                                      *)
LEMMA LedgerInit == Init => LedgerInv
BY DEF Init, LedgerInv, OffsetLedger, NoiseLedger, EmptyLedger, OffsetIsMean,
       DeadZoneIsThreeSigma

(* In every behaviour of setup() the sensor is where the delays have        *)
(* brought it, and the squares of the noise outweigh the square of its sum. *)
THEOREM Invariance == Spec => []SetupInv
BY SetupInit, SetupNext, PTL DEF Spec

(* No variable leaves its type; in particular the variance under the root   *)
(* in lsm6ds3_measure_noise is never negative, for any number of readings   *)
(* and any readings, taken exactly.                                         *)
THEOREM TypeCorrect == Spec => []TypeOK
<1>1. SetupInv => TypeOK
  BY DEF SetupInv
<1> QED BY <1>1, Invariance, PTL

(* Every reading comes from a sensor that is configured and has settled:    *)
(* the 10 and 2000 milliseconds that the code waits suffice for every       *)
(* sensor that needs no longer.                                             *)
THEOREM ReadsFromReadySensor == Spec => []SensorReady
<1>1. SetupInv => SensorReady
  BY DEF SetupInv, SensorInv, SensorReady
<1> QED BY <1>1, Invariance, PTL

(* The accounts are right throughout.                                       *)
THEOREM Accounts == Spec => []LedgerInv
BY Invariance, LedgerInit, LedgerNext, PTL DEF Spec

(* However many readings a calibration takes, and whether it was repeated   *)
(* or not, the offset is the mean of the last one.                          *)
THEOREM OffsetCorrect == Spec => []OffsetIsMean
<1>1. LedgerInv => OffsetIsMean
  BY DEF LedgerInv
<1> QED BY <1>1, Accounts, PTL

(* The one-pass formula of lsm6ds3_measure_noise gives three standard       *)
(* deviations, for any number of readings and any offset.                   *)
THEOREM DeadZoneCorrect == Spec => []DeadZoneIsThreeSigma
<1>1. LedgerInv => DeadZoneIsThreeSigma
  BY DEF LedgerInv
<1> QED BY <1>1, Accounts, PTL

=============================================================================
