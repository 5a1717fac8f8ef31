------------------------- MODULE BenchMotion_proofs -------------------------
(***************************************************************************)
(* For any orders and any profile, limits and resolution that satisfy      *)
(* MotionAssumption: the speed fits the room, a vehicle stands only where  *)
(* its order asks for it and nears its waypoint otherwise, and the         *)
(* steering keeps its range and its rate.                                  *)
(*                                                                         *)
(* The invariant adds two facts to the types: while the order is not done  *)
(* there is an active waypoint, and the angle held is within the steering  *)
(* range, which makes the range and the rate compatible.  The arithmetic   *)
(* is in the lemmas: a square root exists (the least number whose          *)
(* successor's square is too large), and a speed from which the vehicle    *)
(* can stop within the distance drifts past it by less than one tick's     *)
(* braking, because a square is not negative.                              *)
(***************************************************************************)
EXTENDS BenchMotion, WellFoundedInduction, TLAPS

HasWaypoint == status_ # "COMPLETE" => active_index_ < Len(order)

SteeringInRange == prev_angle \in -MaxAngle .. MaxAngle

MotionInv == MotionTypeOK /\ HasWaypoint /\ SteeringInRange

-----------------------------------------------------------------------------
(* The integer square root is defined and is one.                          *)
LEMMA RootIs ==
  ASSUME NEW n \in Nat
  PROVE  Root(n) \in Nat /\ Root(n) * Root(n) <= n /\ n < (Root(n) + 1) * (Root(n) + 1)
<1> DEFINE Above == {k \in Nat : n < (k + 1) * (k + 1)}
<1>1. n \in Above
  <2>1. \A a \in Nat : a < (a + 1) * (a + 1)
    OBVIOUS
  <2> QED BY <2>1
<1> DEFINE Less == {p \in Nat \X Nat : p[1] < p[2]}
<1>2. Less = OpToRel(<, Nat)
  BY DEF OpToRel
<1>3. IsWellFoundedOn(Less, Nat)
  BY <1>2, NatLessThanWellFounded, Zenon
<1>4. PICK k \in Above : \A m \in Above : k <= m
  <2>1. PICK k \in Above : \A m \in Above : <<m, k>> \notin Less
    <3> HIDE DEF Less
    <3> QED BY <1>3, <1>1, WFMin, Zenon
  <2>2. ASSUME NEW m \in Above PROVE k <= m
    <3>1. m \in Nat /\ k \in Nat
      OBVIOUS
    <3>2. <<m, k>> \notin Less
      BY <2>1, Zenon
    <3>3. \A p \in Nat \X Nat : p[1] < p[2] => p \in Less
      OBVIOUS
    <3> HIDE DEF Less, Above
    <3>4. <<m, k>> \in Nat \X Nat /\ <<m, k>>[1] = m /\ <<m, k>>[2] = k
      BY <3>1
    <3>5. ~(m < k)
      BY <3>2, <3>3, <3>4
    <3> QED BY <3>1, <3>5
  <2> HIDE DEF Above
  <2> QED BY <2>2, Zenon
<1>5. k \in Nat /\ n < (k + 1) * (k + 1)
  OBVIOUS
<1>6. k * k <= n
  <2>1. CASE k = 0
    BY <2>1
  <2>2. CASE k > 0
    <3>1. k - 1 \in Nat /\ ~(k <= k - 1) /\ (k - 1) + 1 = k
      BY <1>5, <2>2
    <3>2. k - 1 \notin Above
      BY <1>4, <3>1
    <3>3. ~(n < ((k - 1) + 1) * ((k - 1) + 1))
      BY <3>1, <3>2
    <3>4. ~(n < k * k)
      BY <3>1, <3>3, Zenon
    <3>5. k * k \in Nat
      BY <1>5
    <3> QED BY <3>4, <3>5
  <2> QED BY <1>5, <2>1, <2>2
<1>7. k \in 0 .. n
  BY <1>1, <1>4, <1>5
<1> HIDE DEF Above
<1> QED BY <1>5, <1>6, <1>7 DEF Root

(* What the assumption says of the single numbers.                         *)
LEMMA Numbers ==
  /\ MaxDt \in Nat /\ MaxDt > 0
  /\ Accel \in Nat /\ Accel > 0 /\ Decel \in Nat /\ Decel > 0
  /\ MinDist \in Nat /\ LooseTol \in Nat /\ MaxAngle \in Nat /\ MaxDelta \in Nat
  /\ Half \in Nat /\ Half > 0 /\ Epsilon \in Nat /\ MaxWheel \in Nat
  /\ MinDist < LooseTol
<1>1. /\ {MaxDt, Accel, Decel, MinDist, Half} \subseteq Nat \ {0}
      /\ {LooseTol, Epsilon, MaxAngle, MaxDelta, MaxWheel} \subseteq Nat
      /\ MinDist < LooseTol
  BY MotionAssumption, Zenon
<1> QED BY <1>1

(* A product is a number, and one with zero is zero.                       *)
LEMMA Product ==
  ASSUME NEW v \in Nat, NEW t \in 1 .. MaxDt
  PROVE  v * t \in Nat /\ (v = 0 => v * t = 0)
<1>1. t \in Nat
  BY Numbers
<1> QED BY <1>1

LEMMA AbsIsNat ==
  ASSUME NEW a \in Int
  PROVE  Abs(a) \in Nat /\ (a \in Nat => Abs(a) = a)
BY DEF Abs

(* In the longest tick, a speed from which the vehicle can stop within d   *)
(* goes no further than d and half of what braking makes of such a tick:   *)
(* (s - Decel * MaxDt)^2 is not negative.                                  *)
LEMMA Drift ==
  ASSUME NEW d \in Nat, NEW s \in Nat, s * s <= 2 * Decel * d
  PROVE  2 * (s * MaxDt) <= 2 * d + Decel * (MaxDt * MaxDt)
<1> DEFINE x == Decel * MaxDt
           l == 2 * (s * MaxDt)
           r == 2 * d + Decel * (MaxDt * MaxDt)
<1>1. /\ Decel \in Nat /\ Decel > 0 /\ MaxDt \in Nat
      /\ x \in Nat /\ l \in Nat /\ r \in Nat
  BY Numbers
<1>2. 2 * (s * x) <= s * s + x * x
  <2>1. \A e \in Int : e * e >= 0
    OBVIOUS
  <2>2. s - x \in Int /\ (s - x) * (s - x) = s * s - 2 * (s * x) + x * x
    BY <1>1
  <2>3. s * x \in Nat /\ s * s \in Nat /\ x * x \in Nat
    BY <1>1
  <2> HIDE DEF x
  <2> QED BY <2>1, <2>2, <2>3
<1>3. Decel * l = 2 * (s * x) /\ Decel * r = 2 * Decel * d + x * x
  BY <1>1
<1>4. Decel * l <= Decel * r
  <2>1. s * x \in Nat /\ s * s \in Nat /\ x * x \in Nat /\ 2 * Decel * d \in Nat
    BY <1>1
  <2> HIDE DEF x, l, r
  <2> QED BY <1>2, <1>3, <2>1
<1> HIDE DEF x, l, r
<1>5. ~(l > r)
  <2> SUFFICES ASSUME l > r PROVE FALSE
    OBVIOUS
  <2>1. PICK e \in Nat : l = r + e /\ e > 0
    <3>1. l - r \in Nat /\ l = r + (l - r) /\ l - r > 0
      BY <1>1
    <3> QED BY <3>1
  <2>2. Decel * l = Decel * r + Decel * e
    BY <1>1, <2>1
  <2>3. Decel * e > 0 /\ Decel * r \in Nat
    BY <1>1, <2>1
  <2> DEFINE p == Decel * l
             q == Decel * r
             f == Decel * e
  <2>4. p <= q /\ p = q + f /\ f > 0 /\ q \in Nat /\ f \in Int
    BY <1>1, <1>4, <2>1, <2>2, <2>3
  <2> HIDE DEF p, q, f
  <2> QED BY <2>4
<1> QED BY <1>1, <1>5 DEF l, r

\* And one tick's acceleration more, no further than Overshoot / 2 beyond d.
LEMMA DriftAccelerated ==
  ASSUME NEW d \in Nat, NEW s \in Nat, s * s <= 2 * Decel * d,
         NEW v \in Nat, v <= s + Accel * MaxDt
  PROVE  2 * (v * MaxDt) <= 2 * d + Overshoot
<1>1. /\ Accel \in Nat /\ Decel \in Nat /\ MaxDt \in Nat
      /\ MaxDt * MaxDt \in Nat /\ s * MaxDt \in Nat
  BY Numbers
<1>2. v * MaxDt <= s * MaxDt + Accel * (MaxDt * MaxDt)
  <2>1. PICK e \in Nat : s + Accel * MaxDt = v + e
    <3>1. (s + Accel * MaxDt) - v \in Nat
          /\ s + Accel * MaxDt = v + ((s + Accel * MaxDt) - v)
      BY <1>1
    <3> QED BY <3>1
  <2>2. (s + Accel * MaxDt) * MaxDt = v * MaxDt + e * MaxDt
    BY <1>1, <2>1
  <2>3. (s + Accel * MaxDt) * MaxDt = s * MaxDt + Accel * (MaxDt * MaxDt)
    BY <1>1
  <2>4. e * MaxDt \in Nat /\ v * MaxDt \in Nat
    BY <1>1
  <2> QED BY <2>2, <2>3, <2>4
<1>3. 2 * (s * MaxDt) <= 2 * d + Decel * (MaxDt * MaxDt)
  BY Drift
<1>4. Overshoot = Decel * (MaxDt * MaxDt) + 2 * (Accel * (MaxDt * MaxDt))
  BY <1>1 DEF Overshoot
<1>5. /\ Accel * (MaxDt * MaxDt) \in Nat /\ Decel * (MaxDt * MaxDt) \in Nat
      /\ v * MaxDt \in Nat
  BY <1>1
<1> QED BY <1>1, <1>2, <1>3, <1>4, <1>5

(* A move of the next tick, however long, from outside the dead band:      *)
(* nearer, or past the waypoint by no more than Overshoot / 2, the latter  *)
(* at no speed to brake from.                                              *)
LEMMA MoveNears ==
  ASSUME NEW d \in Nat, d > MinDist, NEW v \in Nat, v > 0,
         2 * (v * MaxDt) <= 2 * d + Overshoot, NEW t \in 1 .. MaxDt
  PROVE  /\ Abs(d - v * t) \in Nat
         /\ \/ Abs(d - v * t) < d
            \/ v * v > 2 * Decel * d /\ 2 * Abs(d - v * t) <= Overshoot
<1>1. /\ MaxDt \in Nat /\ MinDist \in Nat /\ Decel \in Nat /\ Accel \in Nat /\ t \in Nat
      /\ v * t \in Nat /\ v * MaxDt \in Nat /\ v * v \in Nat /\ 2 * Decel * d \in Nat
  BY Numbers
<1>2. 0 < v * t /\ v * t <= v * MaxDt
  <2>1. PICK e \in Nat : MaxDt = t + e
    <3>1. MaxDt - t \in Nat /\ MaxDt = t + (MaxDt - t)
      BY <1>1
    <3> QED BY <3>1
  <2>2. v * MaxDt = v * t + v * e /\ v * e \in Nat
    BY <1>1, <2>1
  <2>3. v * t > 0
    BY <1>1
  <2> QED BY <1>1, <2>2, <2>3
<1>3. v * v <= 2 * Decel * d => v * MaxDt < 2 * d
  <2> SUFFICES ASSUME v * v <= 2 * Decel * d PROVE v * MaxDt < 2 * d
    OBVIOUS
  <2>1. 2 * (v * MaxDt) <= 2 * d + Decel * (MaxDt * MaxDt)
    BY Drift
  <2>2. Decel * (MaxDt * MaxDt) <= 2 * MinDist
    BY MotionAssumption, Zenon
  <2>3. Decel * (MaxDt * MaxDt) \in Nat
    BY <1>1
  <2> QED BY <1>1, <2>1, <2>2, <2>3
<1>4. Overshoot \in Nat
  BY <1>1 DEF Overshoot
<1> DEFINE w == v * t
           m == v * MaxDt
           u == v * v
           n == 2 * Decel * d
<1>5. /\ w \in Nat /\ m \in Nat /\ u \in Nat /\ n \in Nat
      /\ 0 < w /\ w <= m /\ (u <= n => m < 2 * d) /\ 2 * m <= 2 * d + Overshoot
  BY <1>1, <1>2, <1>3
<1> SUFFICES /\ Abs(d - w) \in Nat
             /\ Abs(d - w) < d \/ (u > n /\ 2 * Abs(d - w) <= Overshoot)
  OBVIOUS
<1> HIDE DEF w, m, u, n
<1> QED BY <1>4, <1>5 DEF Abs

(* The profile's speed fits the distance, from whatever speed it starts; a *)
(* speed above the limit is one to brake from; and with time in the tick   *)
(* it is zero only at the waypoint or at a limit of zero.                  *)
LEMMA ProfileFits ==
  ASSUME NEW d \in Nat, NEW max_speed \in Nat, NEW s \in Nat, NEW t \in 0 .. MaxDt
  PROVE  LET v == Profile(d, max_speed, s, t)
         IN  /\ v \in Nat
             /\ 2 * (v * MaxDt) <= 2 * d + Overshoot
             /\ v > max_speed => v * v <= 2 * Decel * d
             /\ t > 0 /\ v = 0 /\ d > 0 => max_speed = 0
<1> DEFINE v == Profile(d, max_speed, s, t)
           n == 2 * Decel * d
<1>1. /\ n \in Nat /\ s * s \in Nat /\ (d > 0 => n > 0)
      /\ Accel * MaxDt \in Nat /\ MaxDt \in Nat
  BY Numbers
<1>2. CASE n <= s * s
  <2>1. v = Root(n)
    BY <1>1, <1>2 DEF Profile
  <2>2. v \in Nat /\ v * v <= n /\ n < (v + 1) * (v + 1)
    BY <1>1, <2>1, RootIs, Zenon
  <2>3. v = 0 => ~(d > 0)
    <3> HIDE DEF v, n
    <3> QED BY <1>1, <2>2
  <2> HIDE DEF v
  <2>4. v * v <= 2 * Decel * d
    BY <2>2
  <2>5. v <= v + Accel * MaxDt
    BY <1>1, <2>2
  <2>6. 2 * (v * MaxDt) <= 2 * d + Overshoot
    BY <2>2, <2>4, <2>5, DriftAccelerated
  <2> QED BY <2>2, <2>3, <2>4, <2>6 DEF v
<1>3. CASE n > s * s /\ s < max_speed
  <2>1. v = Clamp(s + Accel * t, 0, max_speed)
    BY <1>1, <1>3 DEF Profile
  <2>2. /\ Accel * t \in Nat /\ Accel * t <= Accel * MaxDt
        /\ t > 0 => Accel * t > 0
    <3>1. PICK e \in Nat : MaxDt = t + e
      <4>1. MaxDt - t \in Nat /\ MaxDt = t + (MaxDt - t)
        BY <1>1
      <4> QED BY <4>1
    <3>2. Accel * MaxDt = Accel * t + Accel * e /\ Accel * e \in Nat /\ Accel * t \in Nat
      BY <3>1, Numbers
    <3> QED BY <3>2, Numbers
  <2>3. v = IF s + Accel * t > max_speed THEN max_speed ELSE s + Accel * t
    BY <2>1, <2>2 DEF Clamp
  <2> HIDE DEF v
  <2>4. /\ v \in Nat /\ v <= max_speed /\ v <= s + Accel * MaxDt
        /\ t > 0 /\ v = 0 => max_speed = 0
    <3> DEFINE x == Accel * t
               y == Accel * MaxDt
    <3> HIDE DEF x, y
    <3>1. /\ x \in Nat /\ y \in Nat /\ x <= y /\ (t > 0 => x > 0)
          /\ v = IF s + x > max_speed THEN max_speed ELSE s + x
      BY <1>1, <2>2, <2>3 DEF x, y
    <3>2. v \in Nat /\ v <= max_speed /\ v <= s + y /\ (t > 0 /\ v = 0 => max_speed = 0)
      BY <1>3, <3>1
    <3> QED BY <3>2 DEF y
  <2>5. 2 * (v * MaxDt) <= 2 * d + Overshoot
    <3>1. s * s <= 2 * Decel * d
      BY <1>1, <1>3
    <3> QED BY <2>4, <3>1, DriftAccelerated
  <2> QED BY <2>4, <2>5 DEF v
<1>4. CASE n > s * s /\ ~(s < max_speed)
  <2>1. v = max_speed
    BY <1>1, <1>4 DEF Profile
  <2> HIDE DEF v
  <2>2. v \in Nat /\ v <= s + Accel * MaxDt /\ ~(v > max_speed) /\ (v = 0 => max_speed = 0)
    BY <1>1, <1>4, <2>1
  <2>3. 2 * (v * MaxDt) <= 2 * d + Overshoot
    <3>1. s * s <= 2 * Decel * d
      BY <1>1, <1>4
    <3> QED BY <2>2, <3>1, DriftAccelerated
  <2> QED BY <2>2, <2>3 DEF v
<1> HIDE DEF v, n
<1>5. n <= s * s \/ n > s * s
  BY <1>1
<1> QED BY <1>2, <1>3, <1>4, <1>5 DEF v

(* A clamp of the range and then of the rate keeps both, from an angle in  *)
(* the range.                                                              *)
LEMMA SteerFits ==
  ASSUME prev_angle \in Int, SteeringInRange, MaxDelta * dt_s \in Nat,
         NEW asked \in Int, NEW speed \in Nat
  PROVE  /\ Steer(asked, speed) \in -MaxAngle .. MaxAngle
         /\ Steer(asked, speed) - prev_angle \in -(MaxDelta * dt_s) .. MaxDelta * dt_s
<1> DEFINE m == MaxDelta * dt_s
<1>1. Steer(asked, speed) =
         IF speed < Epsilon THEN prev_angle
         ELSE Clamp(Clamp(asked, -MaxAngle, MaxAngle), prev_angle - m, prev_angle + m)
  BY DEF Steer
<1>2. m \in Nat
  OBVIOUS
<1> SUFFICES /\ Steer(asked, speed) \in -MaxAngle .. MaxAngle
             /\ Steer(asked, speed) - prev_angle \in -m .. m
  OBVIOUS
<1> HIDE DEF m
<1> QED BY <1>1, <1>2, Numbers DEF Clamp, SteeringInRange

-----------------------------------------------------------------------------
(* The order, its active waypoint and the angles have their types.         *)
LEMMA ActiveWaypoint ==
  ASSUME MotionTypeOK, HasWaypoint, status_ # "COMPLETE"
  PROVE  /\ order \in Seq(Waypoint) /\ Len(order) \in Nat
         /\ active_index_ + 1 \in 1 .. Len(order)
         /\ wp \in Waypoint
<1>1. order \in Seq(Waypoint)
  <2>1. Orders \subseteq Seq(Waypoint)
    BY MotionAssumption, Zenon
  <2> QED BY <2>1 DEF MotionTypeOK
<1>2. Len(order) \in Nat /\ active_index_ + 1 \in 1 .. Len(order)
  BY <1>1 DEF MotionTypeOK, HasWaypoint
<1> QED BY <1>1, <1>2 DEF wp

LEMMA AngleTypes ==
  /\ \A a \in Int : Norm(a) \in Int
  /\ \A a, b : Between(a, b) \subseteq Int
  /\ MotionTypeOK /\ HasWaypoint /\ status_ # "COMPLETE" => heading_error \in Int
<1>1. ASSUME NEW a \in Int PROVE Norm(a) \in Int
  <2>1. 2 * Half \in Nat /\ 2 * Half > 0
    BY Numbers
  <2>2. a % (2 * Half) \in Int
    BY <2>1
  <2> QED BY <2>1, <2>2 DEF Norm
<1>2. ASSUME NEW a, NEW b PROVE Between(a, b) \subseteq Int
  BY Numbers DEF Between
<1>3. ASSUME MotionTypeOK, HasWaypoint, status_ # "COMPLETE" PROVE heading_error \in Int
  <2>1. wp.theta \in Int /\ theta \in Int
    BY <1>3, ActiveWaypoint DEF Waypoint, MotionTypeOK
  <2>2. wp.theta - theta \in Int
    BY <2>1
  <2> QED BY <1>1, <2>2 DEF heading_error
<1> QED BY <1>1, <1>2, <1>3

(* What ProfileFits says of the speed of this tick.                        *)
LEMMA SpeedFits ==
  ASSUME MotionTypeOK, HasWaypoint, status_ # "COMPLETE"
  PROVE  /\ Speed \in Nat
         /\ 2 * (Speed * MaxDt) <= 2 * dist + Overshoot
         /\ Speed > wp.max_speed => Speed * Speed <= 2 * Decel * dist
         /\ ~again /\ Speed = 0 /\ dist > 0 => wp.max_speed = 0
<1>1. wp.max_speed \in Nat
  BY ActiveWaypoint DEF Waypoint
<1>2. dist \in Nat /\ current_speed_mps_ \in Nat
  BY DEF MotionTypeOK
<1> DEFINE t == IF again THEN 0 ELSE dt_s
<1>3. t \in 0 .. MaxDt /\ (~again => t > 0)
  BY Numbers DEF MotionTypeOK
<1>4. Speed = Profile(dist, wp.max_speed, current_speed_mps_, t)
  BY DEF Speed
<1> HIDE DEF t
<1> QED BY <1>1, <1>2, <1>3, <1>4, ProfileFits, Zenon

LEMMA SteeringStep ==
  ASSUME MotionTypeOK, SteeringInRange, NEW v \in Nat, NEW w \in Int,
         SwerveCommand(v, w)
  PROVE  /\ prev_angle' \in -MaxAngle .. MaxAngle
         /\ prev_angle' - prev_angle \in -(MaxDelta * dt_s) .. MaxDelta * dt_s
<1>1. prev_angle \in Int /\ MaxDelta * dt_s \in Nat
  BY Numbers DEF MotionTypeOK
<1>2. CASE UNCHANGED prev_angle
  BY <1>1, <1>2, Numbers DEF SteeringInRange
<1>3. CASE \E asked \in -Half .. Half :
             \E speed \in IF w = 0 THEN {v} ELSE 0 .. MaxWheel :
                prev_angle' = Steer(IF speed > Epsilon THEN asked ELSE prev_angle, speed)
  <2>1. PICK asked \in -Half .. Half, speed \in IF w = 0 THEN {v} ELSE 0 .. MaxWheel :
           prev_angle' = Steer(IF speed > Epsilon THEN asked ELSE prev_angle, speed)
    BY <1>3
  <2>2. asked \in Int /\ speed \in Nat
    BY Numbers
  <2>3. (IF speed > Epsilon THEN asked ELSE prev_angle) \in Int
    BY <1>1, <2>2
  <2> QED BY <1>1, <2>1, <2>2, <2>3, SteerFits, Zenon
<1> QED BY <1>2, <1>3 DEF SwerveCommand

(* The step of each action keeps the types and the active waypoint.        *)
LEMMA TypeStep ==
  ASSUME MotionTypeOK, HasWaypoint, SteeringInRange, Next
  PROVE  MotionTypeOK' /\ HasWaypoint'
<1> USE DEF MotionTypeOK, HasWaypoint
<1>0. \A w \in Int : \A v \in Nat : SwerveCommand(v, w) => prev_angle' \in Int
  BY SteeringStep
<1>1. CASE Predict
  <2>1. Norm(theta + sim_omega) \in Int
    BY AngleTypes
  <2>2. theta' \in Int
    BY <1>1, <2>1, AngleTypes DEF Predict
  <2>3. dt_s' \in 1 .. MaxDt /\ again' \in BOOLEAN
    BY <1>1, Zenon DEF Predict
  <2>4. dist' \in Nat
    <3>1. sim_v \in Nat /\ dist \in Nat
      OBVIOUS
    <3>2. sim_v * dt_s' \in Nat
      BY <2>3, <3>1, Product, Zenon
    <3> DEFINE w == sim_v * dt_s'
    <3>3. dist - w \in Int
      <4> HIDE DEF w
      <4> QED BY <3>1, <3>2 DEF w
    <3>4. Abs(dist - w) \in Nat
      BY <3>3, AbsIsNat, Zenon
    <3>5. dist' = IF status_ = "ACTIVE" THEN Abs(dist - w) ELSE dist
      BY <1>1, Zenon DEF Predict
    <3> QED BY <3>1, <3>4, <3>5, Zenon
  <2> QED BY <1>1, <2>2, <2>3, <2>4 DEF Predict
<1>2. CASE TickStopped
  <2>1. prev_angle' \in Int
    BY <1>0, <1>2 DEF TickStopped
  <2> QED BY <1>2, <2>1 DEF TickStopped
<1>3. CASE TickComplete
  <2>1. prev_angle' \in Int
    BY <1>0, <1>3 DEF TickComplete
  <2>2. Len(order) \in Nat /\ active_index_ + 1 = Len(order)
    BY <1>3, ActiveWaypoint DEF TickComplete, IsLast
  <2> QED BY <1>3, <2>1, <2>2 DEF TickComplete
<1>4. CASE TickAdvance
  <2>1. Speed \in Nat
    BY <1>4, SpeedFits DEF TickAdvance
  <2>2. /\ Len(order) \in Nat /\ active_index_ + 1 \in 1 .. Len(order)
        /\ active_index_ + 1 # Len(order)
    BY <1>4, ActiveWaypoint DEF TickAdvance, IsLast
  <2>3. order[active_index_ + 2].gap \in Nat
    <3>1. order \in Seq(Waypoint) /\ active_index_ + 2 \in 1 .. Len(order)
      BY <1>4, <2>2, ActiveWaypoint DEF TickAdvance
    <3>2. order[active_index_ + 2] \in Waypoint
      BY <3>1
    <3> QED BY <3>2 DEF Waypoint
  <2>4. dist' \in Nat
    <3>1. \A g, x \in Nat : Abs(g - x) .. g + x \subseteq Nat
      BY DEF Abs
    <3>2. dist' \in Abs(order[active_index_ + 2].gap - dist) .. order[active_index_ + 2].gap + dist
      BY <1>4, Zenon DEF TickAdvance
    <3> QED BY <2>3, <3>1, <3>2
  <2>5. again' \in BOOLEAN
    BY <1>4, Zenon DEF TickAdvance
  <2> QED BY <1>4, <2>1, <2>2, <2>4, <2>5 DEF TickAdvance
<1>5. CASE TickDrive
  <2>1. Speed \in Nat
    BY <1>5, SpeedFits DEF TickDrive
  <2>2. sim_v' \in Nat
    BY <1>5, <2>1 DEF TickDrive
  <2>3. sim_omega' \in Int
    BY <1>5, AngleTypes DEF TickDrive
  <2>4. prev_angle' \in Int
    BY <1>0, <1>5, <2>2, <2>3 DEF TickDrive
  <2> QED BY <1>5, <2>1, <2>2, <2>3, <2>4 DEF TickDrive
<1>6. CASE Pause
  BY <1>6 DEF Pause
<1>7. CASE Resume
  BY <1>7 DEF Resume
<1> QED BY <1>1, <1>2, <1>3, <1>4, <1>5, <1>6, <1>7 DEF Next, Planner

(* Each action holds the steering angle or limits it.                      *)
LEMMA SteeringKept ==
  ASSUME MotionInv, [Next]_vars
  PROVE  /\ prev_angle' \in -MaxAngle .. MaxAngle
         /\ prev_angle' - prev_angle \in -(MaxDelta * dt_s) .. MaxDelta * dt_s
<1> USE DEF MotionInv
<1>1. CASE UNCHANGED prev_angle
  <2>1. MaxDelta * dt_s \in Nat
    BY Numbers DEF MotionTypeOK
  <2> QED BY <1>1, <2>1, Numbers DEF MotionTypeOK, SteeringInRange
<1>2. CASE TickStopped \/ TickComplete
  <2>1. SwerveCommand(0, 0)
    BY <1>2 DEF TickStopped, TickComplete
  <2> QED BY <2>1, SteeringStep
<1>3. CASE TickDrive
  <2>1. sim_v' \in Nat
    BY <1>3, SpeedFits DEF TickDrive
  <2>2. sim_omega' \in Int
    BY <1>3, AngleTypes DEF TickDrive
  <2> QED BY <1>3, <2>1, <2>2, SteeringStep DEF TickDrive
<1> QED
  BY <1>1, <1>2, <1>3
     DEF Next, Planner, Predict, TickAdvance, Pause, Resume, vars

-----------------------------------------------------------------------------
(* MotionInv holds in every reachable state.                               *)
THEOREM MotionInvariant == Spec => []MotionInv
<1>1. Init => MotionInv
  <2> SUFFICES ASSUME Init PROVE MotionInv
    OBVIOUS
  <2>1. order \in Seq(Waypoint) /\ order # <<>>
    <3>1. Orders \subseteq Seq(Waypoint) \ {<<>>}
      BY MotionAssumption, Zenon
    <3> QED BY <3>1 DEF Init
  <2>2. Len(order) \in Nat /\ Len(order) > 0
    BY <2>1
  <2>3. order[1].gap \in Nat
    <3>1. order[1] \in Waypoint
      BY <2>1, <2>2
    <3> QED BY <3>1 DEF Waypoint
  <2>4. imu \in BOOLEAN /\ again \in BOOLEAN
    BY Zenon DEF Init
  <2>5. dt_s \in 1 .. MaxDt
    BY Numbers DEF Init
  <2>6. HasWaypoint /\ SteeringInRange
    BY <2>2, Numbers DEF Init, HasWaypoint, SteeringInRange
  <2>7. MotionTypeOK
    BY <2>2, <2>3, <2>4, <2>5 DEF Init, MotionTypeOK
  <2> QED
    BY <2>6, <2>7 DEF MotionInv
<1>2. MotionInv /\ [Next]_vars => MotionInv'
  <2> SUFFICES ASSUME MotionInv, [Next]_vars PROVE MotionInv'
    OBVIOUS
  <2>1. SteeringInRange'
    BY SteeringKept DEF SteeringInRange
  <2>2. CASE Next
    BY <2>1, <2>2, TypeStep DEF MotionInv
  <2>3. CASE UNCHANGED vars
    BY <2>1, <2>3 DEF MotionInv, MotionTypeOK, HasWaypoint, vars
  <2> QED BY <2>2, <2>3
<1> QED BY <1>1, <1>2, PTL DEF Spec

(* Only TickDrive gives a velocity.                                        *)
LEMMA UnderwayDrives ==
  ASSUME MotionInv, [Next]_vars, Underway
  PROVE  TickDrive
BY DEF MotionInv, MotionTypeOK, Next, Planner, Predict, TickStopped, TickComplete,
       TickAdvance, Pause, Resume, Underway, vars

(* For any acceleration, braking and waypoints and however long the next   *)
(* tick: a velocity never carries the vehicle past its waypoint by more    *)
(* than Overshoot / 2, and a speed above the waypoint's limit is one it    *)
(* can only just brake from.                                               *)
THEOREM SpeedAlwaysFits == Spec => SpeedFitsTheRoom
<1>1. MotionInv /\ [Next]_vars =>
        (Underway => /\ 2 * (sim_v' * MaxDt) <= 2 * dist + Overshoot
                     /\ sim_v' > wp.max_speed => sim_v' * sim_v' <= 2 * Decel * dist)
  <2> SUFFICES ASSUME MotionInv, [Next]_vars, Underway
               PROVE  /\ 2 * (sim_v' * MaxDt) <= 2 * dist + Overshoot
                      /\ sim_v' > wp.max_speed => sim_v' * sim_v' <= 2 * Decel * dist
    OBVIOUS
  <2> USE DEF MotionInv
  <2>1. /\ Speed \in Nat
        /\ 2 * (Speed * MaxDt) <= 2 * dist + Overshoot
        /\ Speed > wp.max_speed => Speed * Speed <= 2 * Decel * dist
    BY SpeedFits DEF Underway
  <2>2. sim_v' = IF dist > MinDist THEN Speed ELSE 0
    BY UnderwayDrives DEF TickDrive
  <2>3. wp.max_speed \in Nat /\ dist \in Nat
    BY ActiveWaypoint DEF Underway, Waypoint, MotionTypeOK
  <2>4. CASE dist > MinDist
    <3>1. sim_v' = Speed
      BY <2>2, <2>4
    <3> QED BY <2>1, <2>4, <3>1, Zenon
  <2>5. CASE ~(dist > MinDist)
    <3>1. sim_v' = 0 /\ 0 * MaxDt = 0 /\ Overshoot \in Nat
      BY <2>2, <2>5, Numbers DEF Overshoot
    <3> QED BY <2>3, <3>1
  <2> QED BY <2>4, <2>5
<1> QED BY <1>1, MotionInvariant, PTL DEF Spec, SpeedFitsTheRoom

(* A vehicle that stands after a tick with time in it has an order that    *)
(* asks for it.                                                            *)
THEOREM StandsForCause == Spec => StandsOnlyAtTolerance
<1>1. ASSUME MotionInv, [Next]_vars, Underway, ~again, sim_v' = 0, sim_omega' = 0
      PROVE  \/ wp.max_speed = 0
             \/ dist <= MinDist /\ IsLast /\ wp.tolerance <= dist
             \/ dist <= MinDist /\ wp.has_theta /\ wp.tolerance_theta = 0
  <2> USE <1>1 DEF MotionInv
  <2>1. TickDrive
    BY UnderwayDrives
  <2>2. /\ dist \in Nat /\ wp.max_speed \in Nat
        /\ wp.tolerance \in Nat /\ wp.tolerance_theta \in Nat
    BY ActiveWaypoint DEF Underway, Waypoint, MotionTypeOK
  <2>3. CASE dist > MinDist
    <3>1. Speed = 0
      BY <2>1, <2>3 DEF TickDrive
    <3>2. dist > 0
      BY <2>2, <2>3, Numbers
    <3> QED BY <3>1, <3>2, SpeedFits DEF Underway
  <2>4. CASE dist <= MinDist
    <3>1. heading_error = 0
      BY <2>1 DEF TickDrive
    <3>2. ~Arrived
      BY <2>1 DEF TickDrive
    <3>3. CASE wp.has_theta /\ ~(Abs(heading_error) < wp.tolerance_theta)
      BY <2>2, <2>4, <3>1, <3>3 DEF Abs
    <3>4. CASE ~(dist < IF IsLast \/ wp.tolerance > LooseTol THEN wp.tolerance ELSE LooseTol)
      <4>1. dist < LooseTol
        BY <2>2, <2>4, Numbers
      <4> QED BY <2>2, <2>4, <3>4, <4>1, Numbers
    <3> QED BY <3>2, <3>3, <3>4 DEF Arrived
  <2> QED BY <2>2, <2>3, <2>4, Numbers
<1> QED BY <1>1, MotionInvariant, PTL DEF Spec, StandsOnlyAtTolerance

(* The steering angle stays in its range and moves by one tick's rate at   *)
(* most, in every step.                                                    *)
THEOREM SteeringIsLimited == Spec => SteeringLimited
<1>1. MotionInv /\ [Next]_vars =>
        /\ prev_angle' - prev_angle \in -(MaxDelta * dt_s) .. MaxDelta * dt_s
        /\ prev_angle' \in -MaxAngle .. MaxAngle
  BY SteeringKept
<1> QED BY <1>1, MotionInvariant, PTL DEF Spec, SteeringLimited

-----------------------------------------------------------------------------
(* The vehicle nears its waypoint.  What it did in a tick is only seen in  *)
(* the next, and an order may have been paused in between: the invariant   *)
(* is that the velocity and the turn waiting to be simulated fit what is   *)
(* left to go, however long the tick that they are simulated in.           *)
StepFits ==
    pc = "predict" =>
        /\ sim_v > 0 => dist > MinDist /\ 2 * (sim_v * MaxDt) <= 2 * dist + Overshoot
        /\ active_index_ < Len(order) => sim_omega \in Between(0, heading_error)

(* normalizeAngle() takes whole turns away, and there is one angle within  *)
(* range it can leave.                                                     *)
LEMMA NormTurns ==
  ASSUME NEW a \in Int
  PROVE  \E k \in Int : a = Norm(a) + k * (2 * Half) /\ -Half < Norm(a) /\ Norm(a) <= Half
<1> DEFINE n == 2 * Half
           r == a % n
           q == a \div n
<1>1. n \in Nat /\ n > 0 /\ n = 2 * Half /\ Half \in Nat
  BY Numbers
<1>2. q \in Int /\ r \in 0 .. n - 1 /\ a = n * q + r
  <2> HIDE DEF n
  <2> QED BY <1>1
<1>3. Norm(a) = IF r > Half THEN r - n ELSE r
  BY DEF Norm
<1> HIDE DEF n, r, q
<1>4. CASE r > Half
  <2>1. a = (r - n) + (q + 1) * n
    BY <1>1, <1>2
  <2>2. q + 1 \in Int /\ Norm(a) = r - n /\ -Half < r - n /\ r - n <= Half
    BY <1>1, <1>2, <1>3, <1>4
  <2> QED BY <1>1, <2>1, <2>2
<1>5. CASE ~(r > Half)
  <2>1. a = r + q * n
    BY <1>1, <1>2
  <2>2. Norm(a) = r /\ -Half < r /\ r <= Half
    BY <1>1, <1>2, <1>3, <1>5, Numbers
  <2> QED BY <1>1, <1>2, <2>1, <2>2
<1> QED BY <1>4, <1>5

LEMMA OneInRange ==
  ASSUME NEW u \in Int, NEW v \in Int, NEW k \in Int,
         u = v + k * (2 * Half),
         -Half < u, u <= Half, -Half < v, v <= Half
  PROVE  u = v
<1> DEFINE n == 2 * Half
<1>1. n \in Nat /\ n > 0 /\ n = 2 * Half /\ u = v + k * n
  BY Numbers
<1> HIDE DEF n
<1>2. CASE k > 0
  <2>1. k * n = n + (k - 1) * n /\ (k - 1) * n >= 0
    BY <1>1, <1>2
  <2> QED BY <1>1, <2>1, Numbers
<1>3. CASE k < 0
  <2>1. -(k * n) = n + (-k - 1) * n /\ (-k - 1) * n >= 0
    BY <1>1, <1>3
  <2> QED BY <1>1, <2>1, Numbers
<1>4. CASE k = 0
  BY <1>1, <1>4
<1> QED BY <1>2, <1>3, <1>4

(* What a turn of part of the error leaves of the error.                   *)
LEMMA TurnLeaves ==
  ASSUME NEW goal \in Int, NEW heading \in Int, NEW w \in Between(0, Norm(goal - heading))
  PROVE  /\ Norm(goal - Norm(heading + w)) = Norm(goal - heading) - w
         /\ Abs(Norm(goal - heading) - w) = Abs(Norm(goal - heading)) - Abs(w)
<1> DEFINE e == Norm(goal - heading)
           m == Norm(heading + w)
           f == Norm(goal - m)
           n == 2 * Half
<1>1. w \in Int /\ e \in Int /\ m \in Int
  BY AngleTypes
<1>2. f \in Int
  BY <1>1, AngleTypes
<1>3. PICK j \in Int : goal - heading = e + j * n /\ -Half < e /\ e <= Half
  BY NormTurns
<1>4. PICK k \in Int : heading + w = m + k * n
  BY <1>1, NormTurns
<1>5. PICK l \in Int : goal - m = f + l * n /\ -Half < f /\ f <= Half
  BY <1>1, NormTurns
<1>6. (0 <= w /\ w <= e) \/ (e <= w /\ w <= 0)
  BY DEF Between
<1>7. n \in Int /\ Half \in Nat /\ Half > 0
  BY Numbers
<1> HIDE DEF e, m, f, n
<1>8. -Half < e - w /\ e - w <= Half
  BY <1>1, <1>3, <1>6, <1>7
<1>9. e - w = f + (l - j - k) * n
  <2>1. (l - j - k) * n = ((l * n) - (j * n)) - (k * n)
    BY <1>7
  <2>2. j * n \in Int /\ k * n \in Int /\ l * n \in Int
    BY <1>7
  <2>3. e = goal - heading - j * n
    BY <1>1, <1>3, <2>2
  <2>4. m = heading + w - k * n
    BY <1>1, <1>4, <2>2
  <2>5. f = goal - m - l * n
    BY <1>1, <1>2, <1>5, <2>2
  <2> HIDE DEF n
  <2> QED BY <1>1, <1>2, <2>1, <2>2, <2>3, <2>4, <2>5
<1>10. e - w = f
  BY <1>1, <1>2, <1>5, <1>8, <1>9, OneInRange DEF n
<1>11. Abs(e - w) = Abs(e) - Abs(w)
  BY <1>1, <1>6 DEF Abs
<1> QED BY <1>10, <1>11 DEF e, f, m

LEMMA OrderShape ==
  ASSUME MotionTypeOK
  PROVE  /\ order \in Seq(Waypoint)
         /\ active_index_ < Len(order) => wp \in Waypoint /\ heading_error \in Int
<1>1. order \in Seq(Waypoint)
  <2>1. Orders \subseteq Seq(Waypoint)
    BY MotionAssumption, Zenon
  <2> QED BY <2>1 DEF MotionTypeOK
<1>2. ASSUME active_index_ < Len(order) PROVE wp \in Waypoint /\ heading_error \in Int
  <2>1. wp \in Waypoint
    BY <1>1, <1>2 DEF MotionTypeOK, wp
  <2>2. wp.theta - theta \in Int
    BY <2>1 DEF Waypoint, MotionTypeOK
  <2> QED BY <2>1, <2>2, AngleTypes DEF heading_error
<1> QED BY <1>1, <1>2

LEMMA StepFitsStep ==
  ASSUME MotionInv, StepFits, [Next]_vars
  PROVE  StepFits'
<1> USE DEF MotionInv
<1>1. CASE Predict \/ TickAdvance
  <2>1. pc' # "predict"
    BY <1>1 DEF Predict, TickAdvance
  <2> QED BY <2>1 DEF StepFits
<1>2. CASE TickStopped
  <2>1. /\ sim_v' = 0 /\ sim_omega' = 0 /\ order' = order
        /\ active_index_' = active_index_ /\ dist' = dist /\ theta' = theta
    BY <1>2 DEF TickStopped
  <2>2. dist' \in Nat
    BY <2>1 DEF MotionTypeOK
  <2>3. active_index_ < Len(order) => 0 \in Between(0, heading_error)
    BY OrderShape, Numbers DEF Between
  <2>4. Between(0, heading_error)' = Between(0, heading_error)
    BY <2>1 DEF Between, heading_error, wp
  <2> QED BY <2>1, <2>2, <2>3, <2>4 DEF StepFits
<1>3. CASE TickComplete
  <2>1. sim_v' = 0 /\ dist' \in Nat /\ active_index_' = Len(order') /\ Len(order') \in Nat
    BY <1>3, ActiveWaypoint DEF TickComplete, IsLast, MotionTypeOK
  <2> QED BY <2>1 DEF StepFits
<1>4. CASE TickDrive
  <2>1. sim_v' > 0 => dist' > MinDist /\ 2 * (sim_v' * MaxDt) <= 2 * dist' + Overshoot
    <3>1. 2 * (Speed * MaxDt) <= 2 * dist + Overshoot
      BY <1>4, SpeedFits DEF TickDrive
    <3>2. dist > MinDist => sim_v' = Speed
      BY <1>4 DEF TickDrive
    <3>3. ~(dist > MinDist) => ~(sim_v' > 0)
      BY <1>4 DEF TickDrive
    <3>4. dist' = dist
      BY <1>4 DEF TickDrive
    <3> QED BY <3>1, <3>2, <3>3, <3>4, Zenon
  <2>2. sim_omega' \in Between(0, heading_error)
    BY <1>4 DEF TickDrive
  <2>3. Between(0, heading_error)' = Between(0, heading_error)
    BY <1>4 DEF TickDrive, Between, heading_error, wp
  <2> QED BY <2>1, <2>2, <2>3 DEF StepFits
<1>5. CASE Pause \/ Resume \/ UNCHANGED vars
  <2>1. /\ pc' = pc /\ order' = order /\ active_index_' = active_index_ /\ dist' = dist
        /\ theta' = theta /\ sim_v' = sim_v /\ sim_omega' = sim_omega
    BY <1>5 DEF Pause, Resume, vars
  <2>2. Between(0, heading_error)' = Between(0, heading_error)
    BY <2>1 DEF Between, heading_error, wp
  <2> QED BY <2>1, <2>2 DEF StepFits
<1> QED BY <1>1, <1>2, <1>3, <1>4, <1>5 DEF Next, Planner

LEMMA StepFitsInvariant == Spec => []StepFits
<1>1. Init => StepFits
  <2> SUFFICES ASSUME Init PROVE StepFits
    OBVIOUS
  <2>1. order \in Seq(Waypoint) /\ order # <<>>
    <3>1. Orders \subseteq Seq(Waypoint) \ {<<>>}
      BY MotionAssumption, Zenon
    <3> QED BY <3>1 DEF Init
  <2>2. order[1] \in Waypoint /\ wp = order[1]
    BY <2>1 DEF Init, wp
  <2>3. dist \in Nat /\ wp.theta - theta \in Int
    BY <2>2 DEF Init, Waypoint
  <2>4. heading_error \in Int
    BY <2>3, AngleTypes DEF heading_error
  <2> QED BY <2>3, <2>4, Numbers DEF Init, StepFits, Between
<1>2. MotionInv /\ StepFits /\ [Next]_vars => StepFits'
  BY StepFitsStep
<1> QED BY <1>1, <1>2, MotionInvariant, PTL DEF Spec

\* The planner's step in which the simulated vehicle moves.
Moves == pc = "predict" /\ pc' = "tick" /\ status_ = "ACTIVE"

\* A waypoint's distance and heading error, as a step leaves them.
Nearer ==
    /\ Moves /\ sim_v > 0 =>
          \/ dist' < dist
          \/ sim_v * sim_v > 2 * Decel * dist /\ 2 * dist' <= Overshoot
    /\ ~(Moves /\ sim_v > 0) => dist' = dist
    /\ ~imu => Abs(heading_error') = IF Moves THEN Abs(heading_error) - Abs(sim_omega)
                                     ELSE Abs(heading_error)

LEMMA MovesNearer ==
  ASSUME MotionInv, StepFits, Predict, status_ = "ACTIVE"
  PROVE  Nearer
<1> USE DEF MotionInv
<1>1. active_index_ < Len(order) /\ wp \in Waypoint
  BY OrderShape DEF HasWaypoint
<1>2. /\ wp.theta \in Int /\ wp.has_theta \in BOOLEAN /\ theta \in Int
      /\ dist \in Nat /\ sim_v \in Nat
  BY <1>1 DEF MotionTypeOK, Waypoint
<1>3. Moves /\ wp' = wp
  BY DEF Moves, Predict, wp
<1>4. /\ sim_omega \in Between(0, heading_error)
      /\ sim_v > 0 => dist > MinDist /\ 2 * (sim_v * MaxDt) <= 2 * dist + Overshoot
  BY <1>1 DEF StepFits, Predict
<1>5. dist' = Abs(dist - sim_v * dt_s') /\ dt_s' \in 1 .. MaxDt
  BY DEF Predict
<1>7. ASSUME sim_v > 0
      PROVE  dist' < dist \/ (sim_v * sim_v > 2 * Decel * dist /\ 2 * dist' <= Overshoot)
  BY <1>2, <1>4, <1>5, <1>7, MoveNears
<1>8. ASSUME ~(sim_v > 0) PROVE dist' = dist
  <2>1. sim_v = 0
    BY <1>2, <1>8
  <2>2. sim_v * dt_s' = 0
    BY <1>2, <1>5, <2>1, Product, Zenon
  <2>3. dist - 0 = dist /\ dist \in Int
    BY <1>2
  <2>4. Abs(dist) = dist
    BY <1>2, <2>3, AbsIsNat, Zenon
  <2> QED BY <1>5, <2>2, <2>3, <2>4, Zenon
<1>6. ASSUME ~imu PROVE Abs(heading_error') = Abs(heading_error) - Abs(sim_omega)
  <2>1. theta' = Norm(theta + sim_omega)
    BY <1>6 DEF Predict
  <2>2. CASE wp.has_theta
    <3>1. /\ heading_error = Norm(wp.theta - theta)
          /\ heading_error' = Norm(wp.theta - theta')
      BY <1>3, <2>2 DEF heading_error
    <3>2. sim_omega \in Between(0, Norm(wp.theta - theta))
      BY <1>4, <3>1
    <3>3. Norm(wp.theta - Norm(theta + sim_omega)) = Norm(wp.theta - theta) - sim_omega
      BY <1>2, <3>2, TurnLeaves
    <3>4. Abs(Norm(wp.theta - theta) - sim_omega) = Abs(Norm(wp.theta - theta)) - Abs(sim_omega)
      BY <1>2, <3>2, TurnLeaves
    <3> QED BY <2>1, <3>1, <3>3, <3>4, Zenon
  <2>3. CASE ~wp.has_theta
    <3>1. heading_error = 0 /\ heading_error' = 0
      BY <1>3, <2>3 DEF heading_error
    <3>2. sim_omega = 0
      BY <1>4, <3>1, AngleTypes DEF Between
    <3> QED BY <3>1, <3>2 DEF Abs
  <2> QED BY <2>2, <2>3
<1> QED BY <1>3, <1>6, <1>7, <1>8 DEF Nearer

\* Between two movements, at one waypoint, nothing moves.
LEMMA StaysNear ==
  ASSUME MotionInv, Next, ~(Predict /\ status_ = "ACTIVE"), active_index_' = active_index_
  PROVE  Nearer
<1> USE DEF MotionInv
<1>1. /\ order' = order /\ dist' = dist /\ ~Moves
      /\ ~imu => theta' = theta
  <2>1. CASE Predict
    BY <2>1 DEF Predict, Moves
  <2>2. CASE TickAdvance \/ TickComplete
    <3>1. active_index_' = active_index_ + 1 /\ active_index_ \in Int
      BY <2>2, OrderShape DEF TickAdvance, TickComplete, MotionTypeOK
    <3> QED BY <3>1
  <2>3. CASE TickStopped \/ TickDrive
    BY <2>3 DEF TickStopped, TickDrive, Moves
  <2>4. CASE Pause \/ Resume
    BY <2>4 DEF Pause, Resume, Moves
  <2> QED BY <2>1, <2>2, <2>3, <2>4 DEF Next, Planner
<1>2. ~imu => heading_error' = heading_error
  BY <1>1 DEF heading_error, wp
<1> QED BY <1>1, <1>2 DEF Nearer

(* On the way to a waypoint every move brings the vehicle nearer, however  *)
(* long the tick, or past it by no more than Overshoot / 2, and then at a  *)
(* speed that it brakes from in the next; no turn leads away from the      *)
(* heading; and between moves, through pauses too, both stay as they are.  *)
(* With StandsForCause, which says that a tick drives or turns, this is    *)
(* why an order arrives.                                                   *)
THEOREM WaypointIsNeared ==
  Spec => [][active_index_' = active_index_ => Nearer]_vars
<1>1. MotionInv /\ StepFits /\ [Next]_vars =>
        [active_index_' = active_index_ => Nearer]_vars
  BY MovesNearer, StaysNear
<1> QED BY <1>1, MotionInvariant, StepFitsInvariant, PTL DEF Spec

=============================================================================
