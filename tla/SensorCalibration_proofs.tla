---------------------- MODULE SensorCalibration_proofs ----------------------
(***************************************************************************)
(* Theorems about SensorCalibration: how far an estimate may be off the    *)
(* drift it follows, and so how far off the verdict on a package may be;   *)
(* and how much of a drift STUM's gate may fail to see, which needs what   *)
(* a sum over any number of residuals bounds.                              *)
(***************************************************************************)
EXTENDS SensorCalibration, FiniteSetTheorems, WellFoundedInduction, TLAPS

\* An estimate is within the range of the biases observed, and within the lag of
\* the last one.
Follows(e, d) ==
    /\ e \in Int
    /\ d \in [low : Int, high : Int, last : Int, lag : Int]
    /\ d.low <= 0 /\ 0 <= d.high
    /\ d.low <= e /\ e <= d.high
    /\ d.last - d.lag <= e /\ e <= d.last + d.lag

IsBiases(biases) == \A n \in DOMAIN biases : biases[n] \in Int

AllFollow(estimates, watched) ==
    /\ estimates = [n \in Names |-> estimates[n]]
    /\ watched = [n \in Names |-> watched[n]]
    /\ \A n \in Names : Follows(estimates[n], watched[n])

\* The verdict is about the last observation, and the estimate has just been told
\* its bias.
VerdictIsCurrent ==
    /\ IsObservation(observation)
    /\ calibrated.stum_gate \in {"LOW", "MEDIUM", "HIGH"}
    /\ calibrated.corrected_payload_kg \in Nat
    /\ calibrated.over_limit = OverLimit(calibrated.corrected_payload_kg)
    /\ HasPayload(observation) =>
          /\ calibrated.corrected_payload_kg
                 = CorrectedPayload(observation, bias_estimates)
          /\ drift["payload_scale_kg"].last = PayloadBias(observation)

IInv == AllFollow(bias_estimates, drift) /\ VerdictIsCurrent /\ step_index \in Nat

-----------------------------------------------------------------------------

\* _update_bias averages: the estimate stays between bounds of what it averages.
LEMMA AveragedIsBetween ==
    ASSUME NEW p \in Int, NEW b \in Int, NEW low \in Int, NEW high \in Int,
           low <= p, p <= high, low <= b, b <= high
    PROVE  /\ Averaged(p, b) \in Int
           /\ low <= Averaged(p, b) /\ Averaged(p, b) <= high
  BY DEF Averaged, Alpha

\* It comes nearer to what it is told, by 15%, up to the rounding.
LEMMA AveragedComesNearer ==
    ASSUME NEW p \in Int, NEW b \in Int, NEW x \in Int,
           b - x <= p, p <= b + x
    PROVE  /\ b - (Alpha * x + 19) \div 20 <= Averaged(p, b)
           /\ Averaged(p, b) <= b + (Alpha * x + 19) \div 20
  BY DEF Averaged, Alpha

\* One average keeps the estimate within the drift's range and lag ...
LEMMA StepFollows ==
    ASSUME NEW e, NEW d, NEW b \in Int, Follows(e, d)
    PROVE  Follows(Averaged(e, b), Followed(d, b)) /\ Followed(d, b).last = b
<1> DEFINE low == AtMost(d.low, b)
           high == AtLeast(d.high, b)
           x == IF b = d.last THEN d.lag ELSE high - low
<1>1. /\ e \in Int /\ d.low \in Int /\ d.high \in Int /\ d.last \in Int /\ d.lag \in Int
      /\ d.low <= e /\ e <= d.high /\ d.low <= 0 /\ 0 <= d.high
      /\ d.last - d.lag <= e /\ e <= d.last + d.lag
  BY DEF Follows
<1>2. /\ low \in Int /\ high \in Int /\ low <= 0 /\ 0 <= high
      /\ low <= e /\ e <= high /\ low <= b /\ b <= high
  BY <1>1 DEF AtMost, AtLeast
<1>3. x \in Int /\ b - x <= e /\ e <= b + x
  BY <1>1, <1>2
<1>4. Followed(d, b) = [low |-> low, high |-> high, last |-> b,
                        lag |-> (Alpha * x + 19) \div 20]
  BY DEF Followed
<1>5. (Alpha * x + 19) \div 20 \in Int
  BY <1>3 DEF Alpha
<1> HIDE DEF low, high, x
<1>6. /\ Averaged(e, b) \in Int /\ low <= Averaged(e, b) /\ Averaged(e, b) <= high
  BY <1>1, <1>2, AveragedIsBetween
<1>7. /\ b - (Alpha * x + 19) \div 20 <= Averaged(e, b)
      /\ Averaged(e, b) <= b + (Alpha * x + 19) \div 20
  BY <1>1, <1>3, AveragedComesNearer
<1> DEFINE lag == (Alpha * x + 19) \div 20
           a == Averaged(e, b)
<1>8. /\ a \in Int /\ lag \in Int /\ low <= a /\ a <= high /\ b - lag <= a /\ a <= b + lag
      /\ Followed(d, b) = [low |-> low, high |-> high, last |-> b, lag |-> lag]
  BY <1>4, <1>5, <1>6, <1>7
<1> SUFFICES Follows(a, Followed(d, b)) /\ Followed(d, b).last = b
  OBVIOUS
<1> HIDE DEF a, lag
<1> QED
  BY <1>2, <1>8 DEF Follows

\* ... and so does a tick for all names it has a bias of.
LEMMA AllStepsFollow ==
    ASSUME NEW E, NEW D, NEW biases, AllFollow(E, D), IsBiases(biases)
    PROVE  /\ AllFollow(Learned(E, biases), Watched(D, biases))
           /\ \A n \in Names \cap DOMAIN biases : Watched(D, biases)[n].last = biases[n]
<1>1. SUFFICES ASSUME NEW n \in Names
               PROVE  /\ Follows(Learned(E, biases)[n], Watched(D, biases)[n])
                      /\ n \in DOMAIN biases => Watched(D, biases)[n].last = biases[n]
  BY DEF AllFollow, Learned, Watched
<1>2. Follows(E[n], D[n])
  BY DEF AllFollow
<1>3. CASE n \in DOMAIN biases
  <2>1. biases[n] \in Int
    BY <1>3 DEF IsBiases
  <2>2. /\ Learned(E, biases)[n] = Averaged(E[n], biases[n])
        /\ Watched(D, biases)[n] = Followed(D[n], biases[n])
    BY <1>3 DEF Learned, Watched
  <2> QED
    BY <1>2, <2>1, <2>2, StepFollows
<1>4. CASE n \notin DOMAIN biases
  BY <1>2, <1>4 DEF Learned, Watched
<1> QED
  BY <1>3, <1>4

-----------------------------------------------------------------------------

\* Fields and their defaults are integers.
LEMMA GetInt ==
    ASSUME NEW o, IsObservation(o), NEW f, NEW default \in Int
    PROVE  Get(o, f, default) \in Int
  BY DEF Get, Has, IsObservation

\* So are fields that are present.
LEMMA HasInt ==
    ASSUME NEW o, IsObservation(o), NEW f, Has(o, f)
    PROVE  o.scalars[f] \in Int
  BY DEF Has, IsObservation

\* Clamping keeps integers.
LEMMA ClampInt ==
    ASSUME NEW low \in Int, NEW n \in Int, NEW high \in Int
    PROVE  Clamp(low, n, high) \in Int
  BY DEF Clamp, AtMost, AtLeast

\* The biases of a tick are integers: of the scale,
LEMMA PayloadBiasInt ==
    ASSUME NEW o, IsObservation(o), HasPayload(o)
    PROVE  PayloadBias(o) \in Int
<1>1. ThermalOffset(o) \in Int
  BY GetInt DEF ThermalOffset, ReferenceTemperature
<1>2. o.scalars["payload_scale_reading_kg"] \in Int
  BY HasInt DEF HasPayload
<1>3. CASE Has(o, "payload_scale_bias_kg")
  BY <1>1, <1>3, HasInt DEF PayloadBias
<1>4. CASE ~Has(o, "payload_scale_bias_kg") /\ Has(o, "payload_reference_kg")
  BY <1>1, <1>2, <1>4, HasInt DEF PayloadBias
<1>5. CASE ~Has(o, "payload_scale_bias_kg") /\ ~Has(o, "payload_reference_kg")
  BY <1>1, <1>5 DEF PayloadBias
<1> QED
  BY <1>3, <1>4, <1>5

\* of the floor,
LEMMA FloorBiasInt ==
    ASSUME NEW o, IsObservation(o), HasFloor(o)
    PROVE  FloorBias(o) \in Int
<1>1. FloorMu(o) \in Int
  <2>1. CASE Has(o, "floor_mu_observed")
    BY <2>1, HasInt DEF FloorMu
  <2>2. CASE ~Has(o, "floor_mu_observed")
    <3> DEFINE a == o.scalars["actual_velocity_mps"]
               c == o.scalars["commanded_velocity_mps"]
    <3>1. a \in Int /\ c \in Int /\ c > 0
      BY <2>2, HasInt DEF HasFloor
    <3> HIDE DEF a, c
    <3>2. ReferenceMu * a \in Int /\ ReferenceMu * 12 \in Int /\ (ReferenceMu * 12) \div 10 \in Int
      BY <3>1 DEF ReferenceMu
    <3>3. (ReferenceMu * a) \div c \in Int
      BY <3>1, <3>2
    <3>4. FloorMu(o) = Clamp(0, (ReferenceMu * a) \div c, (ReferenceMu * 12) \div 10)
      BY <2>2 DEF FloorMu, a, c
    <3> QED
      BY <3>2, <3>3, <3>4, ClampInt
  <2> QED
    BY <2>1, <2>2
<1>2. Clamp(500, FloorMu(o), Unit) \in Int
  BY <1>1, ClampInt DEF Unit
<1> QED
  BY <1>2 DEF FloorBias, ReferenceMu

\* of the camera's exposure,
LEMMA ExposureBiasInt ==
    ASSUME NEW o, IsObservation(o)
    PROVE  ExposureBias(o) \in Int
<1> DEFINE r == Get(o, "camera_lux_reference", ReferenceLux)
           c == Get(o, "camera_lux_current", ReferenceLux)
<1>1. r \in Int /\ c \in Int
  BY GetInt DEF ReferenceLux
<1>2. ExposureBias(o) = ((c - r) * (Unit \div 20)) \div AtLeast(r, 1)
  BY DEF ExposureBias
<1> HIDE DEF r, c
<1>3. AtLeast(r, 1) \in Int /\ AtLeast(r, 1) > 0
  BY <1>1 DEF AtLeast
<1>4. Unit \div 20 = 500
  BY DEF Unit
<1>5. (c - r) * 500 \in Int
  BY <1>1
<1> QED
  BY <1>2, <1>3, <1>4, <1>5

\* and all of them.
LEMMA BiasesAreIntegers ==
    ASSUME NEW o, IsObservation(o)
    PROVE  IsBiases(SensorBiases(o)) /\ IsBiases(CarryGoBiases(o))
<1>1. IsBiases(SensorBiases(o))
  BY GetInt DEF IsBiases, SensorBiases, IsObservation
<1> DEFINE c == CarryGoBiases(o)
<1>2. ASSUME NEW n \in DOMAIN c PROVE c[n] \in Int
  <2>0. n \in CarryGoNames /\ Shows(o, n)
    BY <1>2 DEF CarryGoBiases
  <2>1. CASE n = "floor_friction_mu"
    <3>1. c[n] = FloorBias(o) /\ HasFloor(o)
      BY <2>0, <2>1 DEF CarryGoBiases, Shows
    <3> QED
      BY <3>1, FloorBiasInt
  <2>2. CASE n = "elevator_door_delay_s"
    <3>1. c[n] = ElevatorBias(o) /\ HasElevator(o)
      BY <2>0, <2>2 DEF CarryGoBiases, Shows
    <3> QED
      BY <3>1, HasInt, GetInt DEF ElevatorBias, HasElevator, ReferenceDoorDelay
  <2>3. CASE n = "camera_depth_m"
    <3>1. c[n] = DepthBias(o) /\ HasDepth(o)
      BY <2>0, <2>3 DEF CarryGoBiases, Shows
    <3> QED
      BY <3>1, HasInt DEF DepthBias, HasDepth
  <2>4. CASE n = "camera_exposure"
    <3>1. c[n] = ExposureBias(o)
      BY <2>0, <2>4 DEF CarryGoBiases
    <3> QED
      BY <3>1, ExposureBiasInt
  <2>5. CASE n = "imu_yaw_rate_dps"
    <3>1. c[n] = Get(o, "imu_yaw_rate_bias_dps", 0)
      BY <2>0, <2>5 DEF CarryGoBiases
    <3> QED
      BY <3>1, GetInt
  <2>6. CASE n = "wheel_odometry_delta_m"
    <3>1. c[n] = OdometryBias(o) /\ HasOdometry(o)
      BY <2>0, <2>6 DEF CarryGoBiases, Shows
    <3> QED
      BY <3>1, HasInt DEF OdometryBias, HasOdometry
  <2>7. CASE n = "payload_scale_kg"
    <3>1. c[n] = PayloadBias(o) /\ HasPayload(o)
      BY <2>0, <2>7 DEF CarryGoBiases, Shows
    <3> QED
      BY <3>1, PayloadBiasInt
  <2> QED
    BY <2>0, <2>1, <2>2, <2>3, <2>4, <2>5, <2>6, <2>7 DEF Shows
<1> QED
  BY <1>1, <1>2 DEF IsBiases

-----------------------------------------------------------------------------

\* Initially no estimate differs from a drift.
LEMMA InitIInv == Init => IInv
<1> SUFFICES ASSUME Init PROVE IInv
  OBVIOUS
<1>1. AllFollow(bias_estimates, drift)
  BY DEF Init, AllFollow, Follows
<1>2. IsObservation(NoObservation) /\ ~HasPayload(NoObservation)
  <2>1. DOMAIN <<>> = {}
    OBVIOUS
  <2>2. IsFiniteSet(DOMAIN <<>>)
    BY <2>1, FS_EmptySet
  <2> QED
    BY <2>1, <2>2 DEF IsObservation, NoObservation, Contexts, HasPayload, Has
<1>3. /\ calibrated.over_limit = FALSE /\ calibrated.corrected_payload_kg = 0
      /\ calibrated.stum_gate \in {"LOW", "MEDIUM", "HIGH"} /\ observation = NoObservation
      /\ calibrated.corrected_payload_kg \in Nat
  BY DEF Init, Idle
<1>4. OverLimit(0) = FALSE
  BY DEF OverLimit, PayloadMax, Unit
<1>5. VerdictIsCurrent
  BY <1>2, <1>3, <1>4, Zenon DEF VerdictIsCurrent
<1> QED
  BY <1>1, <1>5 DEF Init, IInv

\* A tick preserves the invariant.
LEMMA SensePreserves == IInv /\ Sense => IInv'
<1> SUFFICES ASSUME IInv, Sense PROVE IInv'
  OBVIOUS
<1>1. PICK o \in Observations :
          /\ observation' = o
          /\ bias_estimates' = Learned(Learned(bias_estimates, SensorBiases(o)), CarryGoBiases(o))
          /\ calibrated' = Calibration(o, Learned(bias_estimates, SensorBiases(o)), bias_estimates')
          /\ drift' = Watched(Watched(drift, SensorBiases(o)), CarryGoBiases(o))
  BY DEF Sense
<1>2. IsObservation(o)
  BY ObservationsAssumption
<1>3. IsBiases(SensorBiases(o)) /\ IsBiases(CarryGoBiases(o))
  BY <1>2, BiasesAreIntegers
<1>4. AllFollow(Learned(bias_estimates, SensorBiases(o)), Watched(drift, SensorBiases(o)))
  BY <1>3, AllStepsFollow DEF IInv
<1>5. /\ AllFollow(bias_estimates', drift')
      /\ \A n \in Names \cap DOMAIN CarryGoBiases(o) : drift'[n].last = CarryGoBiases(o)[n]
  BY <1>1, <1>3, <1>4, AllStepsFollow
<1>6. HasPayload(o) => drift'["payload_scale_kg"].last = PayloadBias(o)
  BY <1>5 DEF CarryGoBiases, CarryGoNames, Names, Shows
<1>7. HasPayload(o) => CorrectedPayload(o, bias_estimates') \in Nat
  <2>1. SUFFICES ASSUME HasPayload(o)
                 PROVE  CorrectedPayload(o, bias_estimates') \in Nat
    OBVIOUS
  <2>2. o.scalars["payload_scale_reading_kg"] \in Int
    BY <1>2, <2>1, HasInt DEF HasPayload
  <2>3. bias_estimates'["payload_scale_kg"] \in Int
    BY <1>5 DEF AllFollow, Follows, Names, CarryGoNames
  <2> QED
    BY <2>2, <2>3 DEF CorrectedPayload, AtLeast
<1>8. /\ calibrated'.corrected_payload_kg
             = IF HasPayload(o) THEN CorrectedPayload(o, bias_estimates') ELSE 0
      /\ calibrated'.over_limit = OverLimit(calibrated'.corrected_payload_kg)
      /\ calibrated'.stum_gate \in {"LOW", "MEDIUM", "HIGH"}
  BY <1>1 DEF Calibration, Gate
<1>9. VerdictIsCurrent'
  BY <1>1, <1>2, <1>6, <1>7, <1>8 DEF VerdictIsCurrent
<1>10. step_index' \in Nat
  BY DEF Sense, IInv
<1> QED
  BY <1>5, <1>9, <1>10 DEF IInv

\* Every estimate follows its drift, in every reachable state.
LEMMA Invariance == Spec => []IInv
<1>1. IInv /\ [Next]_vars => IInv'
  <2>1. IInv /\ UNCHANGED vars => IInv'
    BY DEF IInv, vars, VerdictIsCurrent
  <2> QED
    BY <2>1, SensePreserves DEF Next
<1> QED
  BY InitIInv, <1>1, PTL DEF Spec

\* AMDC's memory, the corrected payload and STUM's gate have their types.
THEOREM TypeCorrectness == Spec => []TypeOK
<1>1. IInv => TypeOK
  <2> SUFFICES ASSUME IInv PROVE TypeOK
    OBVIOUS
  <2>1. bias_estimates \in [Names -> Int]
    BY DEF IInv, AllFollow, Follows
  <2>2. calibrated.over_limit \in BOOLEAN
    BY DEF IInv, VerdictIsCurrent, OverLimit
  <2> QED
    BY <2>1, <2>2 DEF IInv, VerdictIsCurrent, TypeOK
<1> QED
  BY Invariance, <1>1, PTL

\* However the drift of the scale moves, the verdict on a package errs only when
\* its weight is as near to the limit as the moving average may lag.
THEOREM LagBound == Spec => []VerdictErrsWithinLag
<1>1. IInv => VerdictErrsWithinLag
  <2> SUFFICES ASSUME IInv, HasPayload(observation)
               PROVE  LET weight == TrueWeight(observation)
                          lag == drift["payload_scale_kg"].lag
                      IN  /\ weight > PayloadMax + lag => calibrated.over_limit
                          /\ weight <= PayloadMax - lag => ~calibrated.over_limit
    BY DEF VerdictErrsWithinLag
  <2> DEFINE r == observation.scalars["payload_scale_reading_kg"]
             e == bias_estimates["payload_scale_kg"]
             b == PayloadBias(observation)
             lag == drift["payload_scale_kg"].lag
             w == TrueWeight(observation)
  <2>1. r \in Int /\ b \in Int
    BY HasInt, PayloadBiasInt DEF IInv, VerdictIsCurrent, HasPayload
  <2>2. e \in Int /\ lag \in Int /\ b - lag <= e /\ e <= b + lag
    BY DEF IInv, AllFollow, Follows, VerdictIsCurrent, Names, CarryGoNames
  <2>3. w = r - b
    BY DEF TrueWeight
  <2>4. calibrated.over_limit <=> AtLeast(r - e, 0) > PayloadMax
    BY DEF IInv, VerdictIsCurrent, CorrectedPayload, OverLimit
  <2> HIDE DEF r, e, b, lag, w
  <2>5. w > PayloadMax + lag => AtLeast(r - e, 0) > PayloadMax
    BY <2>1, <2>2, <2>3 DEF AtLeast, PayloadMax, Unit
  <2>6. w <= PayloadMax - lag => ~(AtLeast(r - e, 0) > PayloadMax)
    BY <2>1, <2>2, <2>3 DEF AtLeast, PayloadMax, Unit
  <2>7. /\ w > PayloadMax + lag => calibrated.over_limit
        /\ w <= PayloadMax - lag => ~calibrated.over_limit
    BY <2>4, <2>5, <2>6, Zenon
  <2> QED
    BY <2>7 DEF w, lag
<1> QED
  BY Invariance, <1>1, PTL

-----------------------------------------------------------------------------
(***************************************************************************)
(* Sums.  SumFunction adds up a finite function in an order it chooses.    *)
(***************************************************************************)

Chosen(s) == CHOOSE x \in s : TRUE

\* The subsets of D with n elements at most.
UpTo(D, n) == {s \in SUBSET D : Cardinality(s) <= n}

\* g gives the sum of f over each set of subsets, from the sums over smaller sets.
AddsUp(g, f, subsets) ==
    g = [s \in subsets |-> IF s = {} THEN 0 ELSE f[Chosen(s)] + g[s \ {Chosen(s)}]]

\* Induction over the natural numbers, for a set.
LEMMA SetInduction ==
    ASSUME NEW S, 0 \in S, \A n \in Nat : n \in S => n + 1 \in S
    PROVE  Nat \subseteq S
<1> DEFINE T == Nat \ S
<1> SUFFICES ASSUME T # {} PROVE FALSE
  OBVIOUS
<1>1. PICK k \in T : \A m \in T : ~ (<<m, k>> \in OpToRel(<, Nat))
  BY NatLessThanWellFounded, WFMin
<1>2. \A m \in T : ~ (m < k)
  BY <1>1 DEF OpToRel
<1>3. k \in Nat /\ k \notin S
  OBVIOUS
<1>4. k # 0
  BY <1>3, Zenon
<1>5. k - 1 \in Nat /\ k - 1 < k /\ k - 1 + 1 = k
  BY <1>3, <1>4
<1>6. k - 1 \in S
  BY <1>2, <1>5
<1>7. k - 1 + 1 \in S
  BY <1>5, <1>6, Zenon
<1> QED
  BY <1>3, <1>5, <1>7, Zenon

\* A set without its chosen element has one element less.
LEMMA SmallerSet ==
    ASSUME NEW D, IsFiniteSet(D), NEW n \in Nat, NEW s \in UpTo(D, n + 1), s # {}
    PROVE  Chosen(s) \in s /\ s \ {Chosen(s)} \in UpTo(D, n)
<1>1. Chosen(s) \in s
  BY DEF Chosen
<1>2. IsFiniteSet(s) /\ s \in SUBSET D /\ Cardinality(s) <= n + 1
  BY FS_Subset DEF UpTo
<1>3. Cardinality(s) \in Nat
  BY <1>2, FS_CardinalityType
<1>4. Cardinality(s \ {Chosen(s)}) = Cardinality(s) - 1
  BY <1>1, <1>2, FS_RemoveElement
<1> QED
  BY <1>1, <1>2, <1>3, <1>4 DEF UpTo

\* No elements, no set but the empty one.
LEMMA EmptyUpTo ==
    ASSUME NEW D, IsFiniteSet(D), NEW s \in UpTo(D, 0)
    PROVE  s = {}
<1>1. IsFiniteSet(s) /\ Cardinality(s) <= 0
  BY FS_Subset DEF UpTo
<1>2. Cardinality(s) \in Nat
  BY <1>1, FS_CardinalityType
<1> QED
  BY <1>1, <1>2, FS_EmptySet

\* Every subset of a finite set has at most as many elements.
LEMMA AllUpTo ==
    ASSUME NEW D, IsFiniteSet(D)
    PROVE  Cardinality(D) \in Nat /\ UpTo(D, Cardinality(D)) = SUBSET D
<1>1. \A s \in SUBSET D : Cardinality(s) <= Cardinality(D)
  BY FS_Subset
<1> QED
  BY <1>1, FS_CardinalityType DEF UpTo

\* The recursion of SumFunction has a solution, level by level.
LEMMA SumsExist ==
    ASSUME NEW f, IsFiniteSet(DOMAIN f)
    PROVE  \E g : AddsUp(g, f, SUBSET DOMAIN f)
<1> DEFINE D == DOMAIN f
           S == {n \in Nat : \E g : AddsUp(g, f, UpTo(D, n))}
<1>1. 0 \in S
  <2> DEFINE g == [s \in UpTo(D, 0) |-> 0]
  <2>1. AddsUp(g, f, UpTo(D, 0))
    BY EmptyUpTo DEF AddsUp
  <2> QED
    BY <2>1
<1>2. ASSUME NEW n \in Nat, n \in S PROVE n + 1 \in S
  <2>1. PICK g : AddsUp(g, f, UpTo(D, n))
    BY <1>2
  <2> DEFINE h == [s \in UpTo(D, n + 1) |->
                      IF s = {} THEN 0 ELSE f[Chosen(s)] + g[s \ {Chosen(s)}]]
  <2>2. \A s \in UpTo(D, n) : g[s] = h[s]
    <3>1. \A s \in UpTo(D, n) : s \in UpTo(D, n + 1)
      <4> SUFFICES ASSUME NEW s \in UpTo(D, n) PROVE s \in UpTo(D, n + 1)
        OBVIOUS
      <4>1. IsFiniteSet(s)
        BY FS_Subset DEF UpTo
      <4>2. Cardinality(s) \in Nat
        BY <4>1, FS_CardinalityType
      <4> QED
        BY <4>2 DEF UpTo
    <3> QED
      BY <2>1, <3>1 DEF AddsUp
  <2>3. \A s \in UpTo(D, n + 1) : s # {} => g[s \ {Chosen(s)}] = h[s \ {Chosen(s)}]
    BY <2>2, SmallerSet
  <2>4. AddsUp(h, f, UpTo(D, n + 1))
    BY <2>3 DEF AddsUp
  <2> HIDE DEF h
  <2>5. \E k : AddsUp(k, f, UpTo(D, n + 1))
    BY <2>4
  <2> QED
    BY <2>5
<1>3. Nat \subseteq S
  <2> HIDE DEF S
  <2> QED
    BY <1>1, <1>2, SetInduction
<1>4. \E g : AddsUp(g, f, UpTo(D, Cardinality(D)))
  BY <1>3, AllUpTo
<1> QED
  BY <1>4, AllUpTo

\* The sum over a finite domain satisfies its recursion.
LEMMA SumUnfolds ==
    ASSUME NEW f, IsFiniteSet(DOMAIN f)
    PROVE  \E g : AddsUp(g, f, SUBSET DOMAIN f) /\ SumFunction(f) = g[DOMAIN f]
<1> DEFINE Solves(g) ==
               g = [s \in SUBSET DOMAIN f |->
                       IF s = {} THEN 0 ELSE f[Chosen(s)] + g[s \ {Chosen(s)}]]
           sum == CHOOSE g : Solves(g)
<1>1. \E g : Solves(g)
  BY SumsExist DEF AddsUp
<1>2. Solves(sum)
  <2> HIDE DEF Solves
  <2> QED
    BY <1>1
<1>3. SumFunction(f) = sum[DOMAIN f]
  BY DEF SumFunction, SumFunctionOnSet, FoldFunctionOnSet, MapThenFoldSet, Chosen
<1> QED
  BY <1>2, <1>3 DEF AddsUp

\* A finite sum of natural numbers is a natural number, and none of them exceeds it.
LEMMA SumOfNaturals ==
    ASSUME NEW f, IsFiniteSet(DOMAIN f), \A x \in DOMAIN f : f[x] \in Nat
    PROVE  /\ SumFunction(f) \in Nat
           /\ \A x \in DOMAIN f : f[x] <= SumFunction(f)
<1>1. PICK g : AddsUp(g, f, SUBSET DOMAIN f) /\ SumFunction(f) = g[DOMAIN f]
  BY SumUnfolds
<1> DEFINE D == DOMAIN f
           Sums(s) == g[s] \in Nat /\ \A x \in s : f[x] <= g[s]
           S == {n \in Nat : \A s \in UpTo(D, n) : Sums(s)}
<1>2. \A s \in SUBSET D :
         g[s] = IF s = {} THEN 0 ELSE f[Chosen(s)] + g[s \ {Chosen(s)}]
  BY <1>1 DEF AddsUp
<1>3. 0 \in S
  <2> SUFFICES ASSUME NEW s \in UpTo(D, 0) PROVE Sums(s)
    OBVIOUS
  <2>1. s = {} /\ s \in SUBSET D
    BY EmptyUpTo
  <2>2. g[s] = 0
    BY <1>2, <2>1, Zenon
  <2> QED
    BY <2>1, <2>2
<1>4. ASSUME NEW n \in Nat, n \in S PROVE n + 1 \in S
  <2> SUFFICES ASSUME NEW s \in UpTo(D, n + 1) PROVE Sums(s)
    OBVIOUS
  <2>1. CASE s = {}
    BY <1>2, <2>1
  <2>2. CASE s # {}
    <3> DEFINE x == Chosen(s)
               t == s \ {Chosen(s)}
    <3>1. x \in s /\ s \in SUBSET D /\ Sums(t)
      BY <1>4, <2>2, SmallerSet DEF UpTo
    <3>2. f[x] \in Nat /\ g[s] = f[x] + g[t]
      BY <1>2, <2>2, <3>1
    <3>3. \A y \in s : y = x \/ y \in t
      OBVIOUS
    <3> HIDE DEF x, t
    <3>4. g[s] \in Nat /\ f[x] <= g[s] /\ g[t] <= g[s] /\ g[t] \in Nat
      BY <3>1, <3>2
    <3>5. ASSUME NEW y \in s PROVE f[y] <= g[s]
      <4>1. CASE y = x
        BY <3>4, <4>1
      <4>2. CASE y \in t
        <5>1. f[y] <= g[t] /\ f[y] \in Nat
          BY <3>1, <4>2, <3>5
        <5> QED
          BY <3>4, <5>1
      <4> QED
        BY <3>3, <4>1, <4>2
    <3> QED
      BY <3>4, <3>5
  <2> QED
    BY <2>1, <2>2
<1>5. Nat \subseteq S
  <2> HIDE DEF S
  <2> QED
    BY <1>3, <1>4, SetInduction
<1>6. Sums(D)
  BY <1>5, AllUpTo
<1> QED
  BY <1>1, <1>6

-----------------------------------------------------------------------------
(***************************************************************************)
(* The gate: sigma_total is at least what the residuals, the camera and    *)
(* the IMU contribute to it.                                               *)
(***************************************************************************)

\* Integer division rounds down.
LEMMA DividedBelow ==
    ASSUME NEW a \in Nat, NEW n \in Nat, n > 0, NEW m \in Nat, a \div n < m
    PROVE  a < n * m
<1> DEFINE q == a \div n
           rest == a % n
<1>1. q \in Int /\ rest \in Nat /\ rest < n /\ a = n * q + rest
  OBVIOUS
<1>2. q <= m - 1
  BY <1>1
<1> HIDE DEF q, rest
<1>3. n * q <= n * (m - 1)
  BY <1>1, <1>2
<1>4. n * (m - 1) = n * m - n
  OBVIOUS
<1>5. n * q \in Int /\ n * m \in Int
  BY <1>1
<1> QED
  BY <1>1, <1>3, <1>4, <1>5

\* A square is not negative.
LEMMA SquareIsNat ==
    ASSUME NEW x \in Int
    PROVE  Square(x) \in Nat
  BY DEF Square

\* A magnitude is a natural number, and not less than its number.
LEMMA AbsIsNat ==
    ASSUME NEW x \in Int
    PROVE  Abs(x) \in Nat /\ x <= Abs(x)
  BY DEF Abs

\* How many there are.
LEMMA CountIsPositive ==
    ASSUME NEW D, IsFiniteSet(D), D # {}
    PROVE  SumFunction([x \in D |-> 1]) \in Nat /\ SumFunction([x \in D |-> 1]) >= 1
<1> DEFINE f == [x \in D |-> 1]
<1>1. DOMAIN f = D /\ \A x \in D : f[x] = 1
  OBVIOUS
<1> HIDE DEF f
<1>2. SumFunction(f) \in Nat /\ \A x \in D : f[x] <= SumFunction(f)
  BY <1>1, SumOfNaturals
<1>3. SumFunction(f) \in Nat /\ SumFunction(f) >= 1
  BY <1>1, <1>2
<1> QED
  BY <1>3 DEF f

\* A mean below a limit averages no more away than as many times the limit as there
\* are residuals.
LEMMA MeanHidesLittle ==
    ASSUME NEW r, IsFiniteSet(DOMAIN r), \A t \in DOMAIN r : r[t] \in Int,
           NEW m \in Nat
    PROVE  /\ Mean(r) \in Nat
           /\ Mean(r) < m =>
                 \A t \in DOMAIN r : r[t] < SumFunction([x \in DOMAIN r |-> 1]) * m
<1>1. CASE DOMAIN r = {}
  BY <1>1 DEF Mean
<1>2. CASE DOMAIN r # {}
  <2> DEFINE f == [t \in DOMAIN r |-> Abs(r[t])]
             a == SumFunction(f)
             n == SumFunction([x \in DOMAIN r |-> 1])
  <2>1. n \in Nat /\ n >= 1
    BY <1>2, CountIsPositive
  <2>2. DOMAIN f = DOMAIN r /\ \A t \in DOMAIN r : f[t] = Abs(r[t]) /\ f[t] \in Nat
    BY AbsIsNat
  <2>3. a \in Nat /\ \A t \in DOMAIN r : f[t] <= a
    <3> HIDE DEF f
    <3> QED
      BY <2>2, SumOfNaturals
  <2>4. \A t \in DOMAIN r : r[t] <= a
    <3> SUFFICES ASSUME NEW t \in DOMAIN r PROVE r[t] <= a
      OBVIOUS
    <3>1. r[t] <= Abs(r[t]) /\ Abs(r[t]) \in Nat /\ r[t] \in Int
      BY AbsIsNat
    <3>2. Abs(r[t]) <= a
      BY <2>2, <2>3
    <3> HIDE DEF a
    <3> QED
      BY <2>3, <3>1, <3>2
  <2>5. Mean(r) = a \div n
    BY <1>2 DEF Mean
  <2> HIDE DEF a, n, f
  <2>6. a \div n \in Nat
    BY <2>1, <2>3
  <2>7. ASSUME a \div n < m, NEW t \in DOMAIN r PROVE r[t] < n * m
    <3>1. a < n * m /\ n * m \in Int
      BY <2>1, <2>3, <2>7, DividedBelow
    <3>2. r[t] <= a /\ r[t] \in Int
      BY <2>4
    <3> QED
      BY <2>3, <3>1, <3>2
  <2> QED
    BY <2>5, <2>6, <2>7 DEF n
<1> QED
  BY <1>1, <1>2

\* The weighted sum of integer residuals is an integer.
LEMMA WeightedResidualInt ==
    ASSUME NEW r, IsFiniteSet(DOMAIN r), \A t \in DOMAIN r : r[t] \in Int
    PROVE  WeightedResidual(r) \in Int
<1>1. CASE DOMAIN r = {}
  BY <1>1 DEF WeightedResidual
<1>2. CASE DOMAIN r # {}
  <2> DEFINE f == [t \in DOMAIN r |-> Abs(r[t]) * Weight(t)]
             w == [t \in DOMAIN r |-> Weight(t)]
  <2>1. \A t : Weight(t) \in Nat /\ Weight(t) >= 1
    BY DEF Weight
  <2>2. DOMAIN f = DOMAIN r /\ \A t \in DOMAIN r : f[t] \in Nat
    <3>1. \A t \in DOMAIN r : Abs(r[t]) \in Nat
      BY AbsIsNat
    <3> QED
      BY <2>1, <3>1
  <2>3. DOMAIN w = DOMAIN r /\ \A t \in DOMAIN r : w[t] \in Nat /\ w[t] >= 1
    BY <2>1
  <2>4. WeightedResidual(r) = AtMost(SumFunction(f) \div SumFunction(w), Unit)
    BY <1>2 DEF WeightedResidual
  <2> HIDE DEF f, w
  <2>5. SumFunction(f) \in Nat /\ SumFunction(w) \in Nat
    BY <2>2, <2>3, SumOfNaturals
  <2>6. PICK t \in DOMAIN r : TRUE
    BY <1>2
  <2>7. w[t] <= SumFunction(w)
    BY <2>3, SumOfNaturals
  <2>8. SumFunction(w) >= 1
    BY <2>3, <2>5, <2>7
  <2>9. SumFunction(f) \div SumFunction(w) \in Int
    BY <2>5, <2>8
  <2> QED
    BY <2>4, <2>9 DEF AtMost, Unit
<1> QED
  BY <1>1, <1>2

\* A set of natural numbers with an upper bound and an element has a greatest one.
LEMMA GreatestExists ==
    ASSUME NEW S, S \subseteq Nat, S # {}, NEW b \in Nat, \A x \in S : x <= b
    PROVE  \E x \in S : \A y \in S : x >= y
<1> DEFINE T == {b - x : x \in S}
<1>1. T \subseteq Nat /\ T # {}
  <2>1. \A x \in S : b - x \in Nat
    OBVIOUS
  <2>2. T \subseteq Nat
    BY <2>1
  <2>3. PICK x : x \in S
    OBVIOUS
  <2>4. b - x \in T
    BY <2>3
  <2> QED
    BY <2>2, <2>4
<1>2. PICK d \in T : \A e \in T : ~ (<<e, d>> \in OpToRel(<, Nat))
  BY <1>1, NatLessThanWellFounded, WFMin
<1>3. \A e \in T : ~ (e < d)
  BY <1>1, <1>2 DEF OpToRel
<1>4. PICK x \in S : d = b - x
  BY <1>2
<1>5. ASSUME NEW y \in S PROVE x >= y
  <2>1. ~ (b - y < b - x)
    BY <1>3, <1>4
  <2>2. x \in Nat /\ y \in Nat
    OBVIOUS
  <2> QED
    BY <2>1, <2>2
<1> QED
  BY <1>5

\* The parts of sigma_total are integers: the age of the sensors,
LEMMA FreshnessInt ==
    ASSUME NEW o, IsObservation(o)
    PROVE  FreshnessSigma(o) \in Int
<1> DEFINE D == DOMAIN o.ages
           ratio == [s \in D |-> AtLeast((o.ages[s].age * Unit) \div AtLeast(o.ages[s].max_age, 1), 0)]
           excess == {AtLeast(ratio[s] - Unit, 0) : s \in D} \cup {0}
           worst == CHOOSE x \in excess : \A y \in excess : x >= y
           stale == [s \in D |-> IF ratio[s] > Unit THEN 1 ELSE 0]
<1>1. FreshnessSigma(o) = AtMost((worst * 12) \div 100 + 400 * SumFunction(stale), Unit)
  BY DEF FreshnessSigma
<1>2. IsFiniteSet(D) /\ \A s \in D : o.ages[s].age \in Int /\ o.ages[s].max_age \in Int
  BY DEF IsObservation
<1>3. ASSUME NEW s \in D PROVE ratio[s] \in Nat
  <2> DEFINE a == o.ages[s].age
             m == AtLeast(o.ages[s].max_age, 1)
  <2>1. a * Unit \in Int /\ m \in Int /\ m >= 1
    BY <1>2 DEF Unit, AtLeast
  <2>2. ratio[s] = AtLeast((a * Unit) \div m, 0)
    OBVIOUS
  <2> HIDE DEF a, m, ratio
  <2>3. (a * Unit) \div m \in Int
    BY <2>1
  <2> QED
    BY <2>2, <2>3 DEF AtLeast
<1>4. DOMAIN ratio = D
  OBVIOUS
<1> HIDE DEF ratio
<1>5. DOMAIN stale = D /\ \A s \in D : stale[s] \in Nat
  OBVIOUS
<1>6. SumFunction(stale) \in Nat
  <2> HIDE DEF stale
  <2> QED
    BY <1>2, <1>5, SumOfNaturals
<1>7. SumFunction(ratio) \in Nat /\ \A s \in D : ratio[s] <= SumFunction(ratio)
  BY <1>2, <1>3, <1>4, SumOfNaturals
<1>8. \A s \in D : /\ AtLeast(ratio[s] - Unit, 0) \in Nat
                   /\ AtLeast(ratio[s] - Unit, 0) <= SumFunction(ratio)
  BY <1>3, <1>7 DEF AtLeast, Unit
<1>9. /\ excess \subseteq Nat /\ excess # {}
      /\ \A x \in excess : x <= SumFunction(ratio)
  BY <1>7, <1>8
<1>10. worst \in Nat
  <2> HIDE DEF excess
  <2>1. \E x \in excess : \A y \in excess : x >= y
    BY <1>7, <1>9, GreatestExists
  <2>2. worst \in excess
    BY <2>1
  <2> QED
    BY <1>9, <2>2
<1> HIDE DEF worst, stale
<1>11. (worst * 12) \div 100 \in Int /\ 400 * SumFunction(stale) \in Int
  BY <1>6, <1>10
<1> QED
  BY <1>1, <1>11 DEF AtMost, Unit

\* the disagreement of the models,
LEMMA ModelSigmaInt ==
    ASSUME NEW o, IsObservation(o)
    PROVE  ModelSigma(o) \in Int
<1>1. Get(o, "model_disagreement", 0) \in Int /\ Get(o, "route_ambiguity", 0) \in Int
  BY GetInt
<1> QED
  BY <1>1 DEF ModelSigma, AtMost, Unit

\* What the residuals are, for estimates e1 after the sensor map and e2 after the tick.
Residuals(o, e1, e2) == Merged(SensorResiduals(o, e1), CarryGoResiduals(o, e2))

\* and the thermal offset in the spatial part.
LEMMA ThermalOffsetInt ==
    ASSUME NEW o, IsObservation(o)
    PROVE  ThermalOffset(o) \in Int
  BY GetInt DEF ThermalOffset, ReferenceTemperature

\* The residuals are integers: the camera's,
LEMMA CameraResidualIsNat ==
    ASSUME NEW o, IsObservation(o), NEW e \in [Names -> Int]
    PROVE  CameraResidual(o, e) \in Nat
<1>1. e["camera_exposure"] \in Int /\ e["camera_depth_m"] \in Int
  BY DEF Names, CarryGoNames
<1>2. /\ Abs(e["camera_exposure"]) \in Nat /\ Abs(e["camera_depth_m"]) \in Nat
      /\ Abs(ThermalOffset(o)) \in Nat
  BY <1>1, ThermalOffsetInt, AbsIsNat
<1> QED
  BY <1>2 DEF CameraResidual

\* the IMU's,
LEMMA ImuResidualInt ==
    ASSUME NEW o, IsObservation(o), NEW e \in [Names -> Int]
    PROVE  ImuResidual(o, e) \in Int
<1>1. e["imu_yaw_rate_dps"] \in Int /\ e["wheel_odometry_delta_m"] \in Int
  BY DEF Names, CarryGoNames
<1>2. /\ Abs(e["imu_yaw_rate_dps"]) \in Nat /\ Abs(e["wheel_odometry_delta_m"]) \in Nat
      /\ Get(o, "imu_vibration_rms", 0) \in Int
  BY <1>1, AbsIsNat, GetInt
<1>3. /\ Abs(e["imu_yaw_rate_dps"]) \div 10 \in Int
      /\ AtMost(Get(o, "imu_vibration_rms", 0) \div 5, Unit) \in Int
  BY <1>2 DEF AtMost, Unit
<1> QED
  BY <1>2, <1>3 DEF ImuResidual

\* those of the Carry & Go sensors,
LEMMA CarryGoResidualsInt ==
    ASSUME NEW o, IsObservation(o), NEW e \in [Names -> Int]
    PROVE  \A t \in Drifts(o) : CarryGoResiduals(o, e)[t] \in Int
<1> SUFFICES ASSUME NEW t \in Drifts(o) PROVE CarryGoResiduals(o, e)[t] \in Int
  OBVIOUS
<1>1. /\ e["floor_friction_mu"] \in Int /\ e["elevator_door_delay_s"] \in Int
      /\ e["payload_scale_kg"] \in Int
  BY DEF Names, CarryGoNames
<1>2. /\ Abs(e["floor_friction_mu"]) \in Nat /\ Abs(e["elevator_door_delay_s"]) \in Nat
      /\ Abs(e["payload_scale_kg"]) \in Nat
  BY <1>1, AbsIsNat
<1>3. CameraResidual(o, e) \in Nat /\ ImuResidual(o, e) \in Int
  BY CameraResidualIsNat, ImuResidualInt
<1>4. t \in DriftTypes
  BY DEF Drifts
<1> QED
  BY <1>2, <1>3, <1>4 DEF CarryGoResiduals, DriftTypes

\* of which there are finitely many,
LEMMA DriftsFinite ==
    ASSUME NEW o
    PROVE  IsFiniteSet(Drifts(o))
<1>1. IsFiniteSet({} \cup {"floor_friction"})
  BY FS_EmptySet, FS_AddElement
<1>2. IsFiniteSet({} \cup {"floor_friction"} \cup {"elevator_timing"})
  BY <1>1, FS_AddElement
<1>3. IsFiniteSet({} \cup {"floor_friction"} \cup {"elevator_timing"} \cup {"camera_depth"})
  BY <1>2, FS_AddElement
<1>4. IsFiniteSet({} \cup {"floor_friction"} \cup {"elevator_timing"} \cup {"camera_depth"}
                     \cup {"imu_vibration"})
  BY <1>3, FS_AddElement
<1>5. IsFiniteSet({} \cup {"floor_friction"} \cup {"elevator_timing"} \cup {"camera_depth"}
                     \cup {"imu_vibration"} \cup {"payload_scale"})
  BY <1>4, FS_AddElement
<1>6. Drifts(o) \in SUBSET ({} \cup {"floor_friction"} \cup {"elevator_timing"}
                     \cup {"camera_depth"} \cup {"imu_vibration"} \cup {"payload_scale"})
  BY DEF Drifts, DriftTypes
<1> QED
  BY <1>5, <1>6, FS_Subset

\* and those of a tick taken together.
LEMMA ResidualsOK ==
    ASSUME NEW o, IsObservation(o), NEW e1 \in [Names -> Int], NEW e2 \in [Names -> Int]
    PROVE  LET r == Residuals(o, e1, e2)
           IN  /\ IsFiniteSet(DOMAIN r) /\ \A t \in DOMAIN r : r[t] \in Int
               /\ HasCamera(o) =>
                     "camera_depth" \in DOMAIN r /\ r["camera_depth"] = CameraResidual(o, e2)
               /\ HasImu(o) =>
                     "imu_vibration" \in DOMAIN r /\ r["imu_vibration"] = ImuResidual(o, e2)
<1> DEFINE s == SensorResiduals(o, e1)
           c == CarryGoResiduals(o, e2)
           r == Residuals(o, e1, e2)
<1>1. IsFiniteSet(DOMAIN s) /\ \A n \in DOMAIN s : s[n] \in Int
  <2>1. CASE o.mapped
    <3>1. s = [n \in DOMAIN o.sensor_biases |-> Abs(e1[n] + ThermalOffset(o))]
      BY <2>1 DEF SensorResiduals
    <3>2. IsFiniteSet(DOMAIN o.sensor_biases) /\ DOMAIN o.sensor_biases \subseteq Names
      BY DEF IsObservation, Names
    <3>3. \A n \in DOMAIN o.sensor_biases : e1[n] + ThermalOffset(o) \in Int
      BY <3>2, ThermalOffsetInt
    <3>4. \A n \in DOMAIN o.sensor_biases : Abs(e1[n] + ThermalOffset(o)) \in Nat
      BY <3>3, AbsIsNat
    <3> HIDE DEF s
    <3> QED
      BY <3>1, <3>2, <3>4
  <2>2. CASE ~o.mapped
    <3>1. s = <<>>
      BY <2>2 DEF SensorResiduals
    <3>2. DOMAIN s = {}
      BY <3>1
    <3> QED
      BY <3>2, FS_EmptySet
  <2> QED
    BY <2>1, <2>2
<1>2. DOMAIN c = Drifts(o) /\ IsFiniteSet(DOMAIN c) /\ \A t \in DOMAIN c : c[t] \in Int
  BY CarryGoResidualsInt, DriftsFinite DEF CarryGoResiduals
<1>3. r = [n \in DOMAIN s \cup DOMAIN c |-> IF n \in DOMAIN c THEN c[n] ELSE s[n]]
  BY DEF Residuals, Merged
<1>4. HasCamera(o) => "camera_depth" \in DOMAIN c /\ c["camera_depth"] = CameraResidual(o, e2)
  BY DEF CarryGoResiduals, Drifts, DriftTypes
<1>5. HasImu(o) => "imu_vibration" \in DOMAIN c /\ c["imu_vibration"] = ImuResidual(o, e2)
  BY DEF CarryGoResiduals, Drifts, DriftTypes
<1> HIDE DEF s, c, r
<1>6. IsFiniteSet(DOMAIN s \cup DOMAIN c)
  BY <1>1, <1>2, FS_Union
<1>7. DOMAIN r = DOMAIN s \cup DOMAIN c /\ \A t \in DOMAIN r : r[t] \in Int
  BY <1>1, <1>2, <1>3
<1>8. \A t \in DOMAIN c : t \in DOMAIN r /\ r[t] = c[t]
  BY <1>3
<1> QED
  BY <1>4, <1>5, <1>6, <1>7, <1>8 DEF r

\* The spatial part of sigma_total is as large as each of its contributions, as long
\* as no uncertainty is reported as negative.
LEMMA SpatialCounts ==
    ASSUME NEW o, IsObservation(o), NEW e \in [Names -> Int], NEW residual \in Nat, NEW r,
           WeightedResidual(r) \in Int,
           Get(o, "perception_uncertainty", 0) >= 0,
           Get(o, "localization_uncertainty", 0) >= 0
    PROVE  LET spatial == SpatialSigma(o, e, residual, r)
           IN  /\ spatial \in Nat
               /\ spatial < HighSigma =>
                     /\ residual < HighSigma
                     /\ HasCamera(o) => CameraResidual(o, e) < HighSigma
                     /\ HasImu(o) => ImuResidual(o, e) < HighSigma
<1> DEFINE p0 == Get(o, "perception_uncertainty", 0)
           l0 == Get(o, "localization_uncertainty", 0)
           camera == CameraResidual(o, e)
           imu == ImuResidual(o, e)
           cs == CameraSigma(o, e)
           is == ImuSigma(o, e)
           p == AtLeast(p0, IF HasCamera(o) THEN cs ELSE 0)
           l == AtLeast(l0, IF HasImu(o) THEN is ELSE 0)
           w == WeightedResidual(r)
           black == IF "sensor_blackout" \in o.flags THEN 3500 ELSE 0
           spatial == SpatialSigma(o, e, residual, r)
<1>1. p0 \in Nat /\ l0 \in Nat
  BY GetInt
<1>2. camera \in Nat /\ imu \in Int
  BY CameraResidualIsNat, ImuResidualInt
<1>3. cs \in Nat /\ (cs >= camera \/ cs = Unit)
  <2> DEFINE blur == (AtLeast(Unit - Get(o, "camera_sharpness", Unit), 0) * 8) \div 100
  <2>1. Get(o, "camera_sharpness", Unit) \in Int
    BY GetInt DEF Unit
  <2>2. AtLeast(Unit - Get(o, "camera_sharpness", Unit), 0) \in Nat
    BY <2>1 DEF AtLeast, Unit
  <2>3. blur \in Nat
    BY <2>2
  <2>4. cs = AtMost(camera + blur, Unit)
    BY DEF CameraSigma
  <2> HIDE DEF blur, camera, cs
  <2> QED
    BY <1>2, <2>3, <2>4 DEF AtMost, Unit
<1>4. is \in Int /\ (is = imu \/ is = Unit)
  BY <1>2 DEF ImuSigma, AtMost, Unit
<1>5. black \in Nat
  OBVIOUS
<1>6. spatial = AtMost(AtLeast(residual, w) + p + l + black, Unit)
  BY DEF SpatialSigma
<1> HIDE DEF p0, l0, camera, imu, cs, is, w, black, spatial
<1>7. p \in Nat /\ (HasCamera(o) => p >= cs)
  BY <1>1, <1>3 DEF AtLeast
<1>8. l \in Nat /\ (HasImu(o) => l >= is)
  BY <1>1, <1>4 DEF AtLeast
<1>9. AtLeast(residual, w) \in Nat /\ AtLeast(residual, w) >= residual
  BY DEF AtLeast, w
<1> HIDE DEF p, l
<1>10. spatial \in Nat
  BY <1>5, <1>6, <1>7, <1>8, <1>9 DEF AtMost, Unit
<1>11. spatial < HighSigma => residual < HighSigma /\ p < HighSigma /\ l < HighSigma
  BY <1>5, <1>6, <1>7, <1>8, <1>9 DEF AtMost, Unit, HighSigma
<1>12. spatial < HighSigma /\ HasCamera(o) => camera < HighSigma
  BY <1>2, <1>3, <1>7, <1>11 DEF Unit, HighSigma
<1>13. spatial < HighSigma /\ HasImu(o) => imu < HighSigma
  BY <1>2, <1>4, <1>8, <1>11 DEF Unit, HighSigma
<1> QED
  BY <1>10, <1>11, <1>12, <1>13 DEF spatial, camera, imu

\* Below HIGH the spatial part alone is below the threshold of HIGH.
LEMMA GateBoundsSpatial ==
    ASSUME NEW o, IsObservation(o), StateSigma(o) \in Nat, NEW e, NEW residual, NEW r,
           SpatialSigma(o, e, residual, r) \in Nat,
           Gate(TotalSquare(o, e, residual, r)) # "HIGH"
    PROVE  SpatialSigma(o, e, residual, r) < HighSigma
<1> DEFINE x == SpatialSigma(o, e, residual, r)
           total == TotalSquare(o, e, residual, r)
           temporal == AtMost(Square(StateSigma(o)) + Square(FreshnessSigma(o)), Square(Unit))
<1>1. /\ Square(x) \in Nat /\ Square(StateSigma(o)) \in Nat
      /\ Square(FreshnessSigma(o)) \in Nat /\ Square(ModelSigma(o)) \in Nat
  BY SquareIsNat, FreshnessInt, ModelSigmaInt
<1>2. Square(Unit) = 100000000 /\ Square(HighSigma) = 4000000 /\ Square(LowSigma) = 1000000
  BY DEF Square, Unit, HighSigma, LowSigma
<1>3. temporal \in Nat
  BY <1>1, <1>2 DEF AtMost
<1>4. total = AtMost(Square(x) + temporal + Square(ModelSigma(o)), Square(Unit))
  BY DEF TotalSquare
<1> HIDE DEF x, temporal, total
<1>5. total \in Nat
  BY <1>1, <1>2, <1>3, <1>4 DEF AtMost
<1>6. total < Square(HighSigma)
  BY <1>2, <1>5 DEF Gate, total
<1>7. Square(x) < Square(HighSigma)
  BY <1>1, <1>2, <1>3, <1>4, <1>6 DEF AtMost
<1>8. x \in Nat
  BY DEF x
<1>9. ASSUME x >= HighSigma PROVE FALSE
  <2>1. x * x >= x * HighSigma
    BY <1>8, <1>9 DEF HighSigma
  <2>2. x * HighSigma >= HighSigma * HighSigma
    BY <1>8, <1>9 DEF HighSigma
  <2> QED
    BY <1>7, <1>8, <2>1, <2>2 DEF Square, HighSigma
<1> QED
  BY <1>8, <1>9 DEF x, HighSigma

\* A tick whose gate is not HIGH hides no more drift than the property allows.
LEMMA SenseReachesTheGate == IInv /\ Sense => DriftsReachTheGate'
<1> SUFFICES ASSUME IInv, Sense PROVE DriftsReachTheGate'
  OBVIOUS
<1>1. PICK o \in Observations :
          /\ observation' = o
          /\ bias_estimates' = Learned(Learned(bias_estimates, SensorBiases(o)), CarryGoBiases(o))
          /\ calibrated' = Calibration(o, Learned(bias_estimates, SensorBiases(o)), bias_estimates')
  BY DEF Sense
<1> DEFINE e1 == Learned(bias_estimates, SensorBiases(o))
           e2 == Learned(e1, CarryGoBiases(o))
           r == Residuals(o, e1, e2)
           residual == AmdcResidual(o, e1, r)
           spatial == SpatialSigma(o, e2, residual, r)
           n == SumFunction([t \in DOMAIN r |-> 1])
<1>2. IsObservation(o) /\ StateSigma(o) \in Nat
  BY ObservationsAssumption, AgedSigmaAssumption
<1>3. e1 \in [Names -> Int] /\ e2 \in [Names -> Int]
  <2>1. IsBiases(SensorBiases(o)) /\ IsBiases(CarryGoBiases(o))
    BY <1>2, BiasesAreIntegers
  <2>2. AllFollow(e1, Watched(drift, SensorBiases(o)))
    BY <2>1, AllStepsFollow DEF IInv
  <2>3. AllFollow(e2, Watched(Watched(drift, SensorBiases(o)), CarryGoBiases(o)))
    BY <2>1, <2>2, AllStepsFollow
  <2> HIDE DEF e1, e2
  <2> QED
    BY <2>2, <2>3 DEF AllFollow, Follows
<1>4. /\ calibrated'.residuals = r
      /\ calibrated'.stum_gate = Gate(TotalSquare(o, e2, residual, r))
  BY <1>1 DEF Calibration, Residuals
<1>5. DOMAIN r = {} => e2["default"] = e1["default"]
  <2>1. "default" \notin DOMAIN CarryGoBiases(o) /\ "default" \in Names
    BY DEF CarryGoBiases, Shows, Names, CarryGoNames
  <2> HIDE DEF e1
  <2> QED
    BY <2>1 DEF Learned
<1>6. /\ IsFiniteSet(DOMAIN r) /\ \A t \in DOMAIN r : r[t] \in Int
      /\ HasCamera(o) => r["camera_depth"] = CameraResidual(o, e2)
      /\ HasImu(o) => r["imu_vibration"] = ImuResidual(o, e2)
  <2> HIDE DEF e1, e2
  <2> QED
    BY <1>2, <1>3, ResidualsOK
<1>7. bias_estimates' = e2
  BY <1>1
<1>8. /\ residual \in Nat
      /\ residual < HighSigma => \A t \in DOMAIN r : r[t] < n * HighSigma
      /\ residual < HighSigma /\ ~o.mapped /\ DOMAIN r = {} => Abs(e1["default"]) < HighSigma
  <2> HIDE DEF e1, r
  <2>1. /\ Mean(r) \in Nat
        /\ Mean(r) < HighSigma => \A t \in DOMAIN r : r[t] < n * HighSigma
    BY <1>6, MeanHidesLittle DEF HighSigma
  <2>2. CASE o.mapped \/ DOMAIN r # {}
    BY <2>1, <2>2 DEF AmdcResidual
  <2>3. CASE ~o.mapped /\ DOMAIN r = {}
    <3>1. residual = Abs(e1["default"]) + Abs(ThermalOffset(o))
      BY <2>3 DEF AmdcResidual
    <3>2. e1["default"] \in Int
      BY <1>3 DEF Names, CarryGoNames
    <3>3. Abs(e1["default"]) \in Nat /\ Abs(ThermalOffset(o)) \in Nat
      BY <1>2, <3>2, AbsIsNat, ThermalOffsetInt
    <3> HIDE DEF residual
    <3> QED
      BY <2>3, <3>1, <3>3 DEF HighSigma
  <2> QED
    BY <2>2, <2>3
<1> HIDE DEF e1, e2, r, residual
<1> SUFFICES ASSUME calibrated'.stum_gate # "HIGH",
                    ~ (Get(o, "perception_uncertainty", 0) < 0),
                    ~ (Get(o, "localization_uncertainty", 0) < 0)
             PROVE  /\ \A t \in DOMAIN r : r[t] < n * HighSigma
                    /\ HasCamera(o) => r["camera_depth"] < HighSigma
                    /\ HasImu(o) => r["imu_vibration"] < HighSigma
                    /\ ~o.mapped /\ DOMAIN r = {} => Abs(e2["default"]) < HighSigma
  BY <1>1, <1>4, <1>7 DEF DriftsReachTheGate
<1>9. /\ Get(o, "perception_uncertainty", 0) >= 0
      /\ Get(o, "localization_uncertainty", 0) >= 0
  <2>1. /\ Get(o, "perception_uncertainty", 0) \in Int
        /\ Get(o, "localization_uncertainty", 0) \in Int
    BY <1>2, GetInt
  <2> QED
    BY <2>1
<1>10. /\ spatial \in Nat
       /\ spatial < HighSigma =>
             /\ residual < HighSigma
             /\ HasCamera(o) => CameraResidual(o, e2) < HighSigma
             /\ HasImu(o) => ImuResidual(o, e2) < HighSigma
  BY <1>2, <1>3, <1>6, <1>8, <1>9, WeightedResidualInt, SpatialCounts
<1>11. spatial < HighSigma
  BY <1>2, <1>4, <1>10, GateBoundsSpatial
<1> QED
  BY <1>5, <1>6, <1>8, <1>10, <1>11

\* However many residuals a tick has, and whatever the drifts, a gate below HIGH
\* bounds each of them.
THEOREM GateSeesDrifts == Spec => []DriftsReachTheGate
<1>1. Init => DriftsReachTheGate
  <2> SUFFICES ASSUME Init PROVE DriftsReachTheGate
    OBVIOUS
  <2>1. /\ calibrated.residuals = <<>> /\ observation.mapped
        /\ ~HasCamera(observation) /\ ~HasImu(observation)
    BY DEF Init, Idle, NoObservation, HasCamera, HasImu, Has
  <2>2. DOMAIN calibrated.residuals = {}
    BY <2>1
  <2> QED
    BY <2>1, <2>2 DEF DriftsReachTheGate
<1>2. IInv /\ DriftsReachTheGate /\ [Next]_vars => DriftsReachTheGate'
  <2>1. DriftsReachTheGate /\ UNCHANGED vars => DriftsReachTheGate'
    BY DEF DriftsReachTheGate, vars
  <2> QED
    BY <2>1, SenseReachesTheGate DEF Next
<1> QED
  BY <1>1, <1>2, Invariance, PTL DEF Spec

=============================================================================
