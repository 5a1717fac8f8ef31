------------------------ MODULE HeadingFusion_proofs ------------------------
(***************************************************************************)
(* For any resolution of the heading and any gain: only what the chip      *)
(* measured is fused unless a write or the chip's configuration is lost,   *)
(* a correction turns the estimate the short way round, and the estimate   *)
(* of a vehicle that stands nears its heading.                             *)
(*                                                                         *)
(* A reading passes through the driver and the mailbox before it is fused, *)
(* so the invariant (Unfaulted) says of each of the three places that what *)
(* it holds was measured, and why: the driver reads only after begin()     *)
(* ended, and then the chip is in NDOF mode with its registers written.     *)
(***************************************************************************)
EXTENDS HeadingFusion, TLAPS

Unfaulted ==
    /\ imu_task \in {"begin", "config", "units", "power", "ndof", "ready"} => ~initialized_
    /\ ~fault =>
          /\ imu_task \in {"power", "ndof", "ready"} \/ initialized_ => "units" \in chip_set
          /\ imu_task \in {"ndof", "ready"} \/ initialized_ => "power" \in chip_set
          /\ imu_task = "ready" \/ initialized_ => chip_mode = "NDOF"
          /\ imu_task = "post" => heading_rad.measured
          /\ g_imu_updated => g_imu_heading.measured
          /\ ~misled

HeadingInv == TypeOK /\ Unfaulted

-----------------------------------------------------------------------------
(* normalizeAngle() within a turn of the range: one turn more or less, or  *)
(* the angle itself.                                                       *)
LEMMA NormCases ==
  ASSUME NEW a \in -2 * Half .. 2 * Half
  PROVE  /\ Norm(a) \in Angle
         /\ \/ a > Half /\ Norm(a) = a - 2 * Half
            \/ a <= -Half /\ Norm(a) = a + 2 * Half
            \/ -Half < a /\ a <= Half /\ Norm(a) = a
<1> DEFINE n == 2 * Half
<1>1. Half \in Nat /\ Half > 0 /\ n \in Nat /\ n = 2 * Half /\ a \in Int /\ -n <= a /\ a <= n
  BY HalfAssumption
<1>2. Norm(a) = IF a % n > Half THEN (a % n) - n ELSE a % n
  BY DEF Norm
<1> HIDE DEF n
<1>3. CASE 0 <= a /\ a < n
  <2>1. a % n = a
    BY <1>1, <1>3
  <2> QED BY <1>1, <1>2, <1>3, <2>1 DEF Angle
<1>4. CASE a = n
  <2>1. a % n = 0
    BY <1>1, <1>4
  <2> QED BY <1>1, <1>2, <1>4, <2>1 DEF Angle
<1>5. CASE a < 0
  <2>1. a % n = a + n
    BY <1>1, <1>5
  <2> QED BY <1>1, <1>2, <1>5, <2>1 DEF Angle
<1> QED BY <1>1, <1>3, <1>4, <1>5

LEMMA InRange ==
  /\ \A a, b \in Angle : a - b \in -2 * Half .. 2 * Half
  /\ \A a \in Angle : a + 1 \in -2 * Half .. 2 * Half /\ a - 1 \in -2 * Half .. 2 * Half
  /\ \A a \in Angle : \A y \in Angle : \A c \in Corrections(y) :
        c \in Int /\ a + c \in -2 * Half .. 2 * Half
<1>1. Half \in Nat /\ Half > 0
  BY HalfAssumption
<1>2. ASSUME NEW a \in Angle, NEW y \in Angle, NEW c \in Corrections(y)
      PROVE  c \in Int /\ a + c \in -2 * Half .. 2 * Half
  BY <1>1, <1>2 DEF Angle, Corrections, Between
<1> QED BY <1>1, <1>2 DEF Angle

(* A corrected heading is within range, and nearer to the heading it was   *)
(* corrected by, unless the two were one.                                  *)
LEMMA CorrectionTurnsCloser ==
  ASSUME NEW x \in Angle, NEW z \in Angle,
         NEW c \in Corrections(Norm(z - x))
  PROVE  /\ Norm(x + c) \in Angle
         /\ Apart(Norm(x + c), z) <= Apart(x, z)
         /\ Apart(x, z) # 0 => Apart(Norm(x + c), z) < Apart(x, z)
<1> DEFINE y == Norm(z - x)
           w == Norm(x + c)
           d == Norm(w - z)
           e == Norm(x - z)
<1>1. Half \in Nat /\ Half > 0 /\ x \in Int /\ z \in Int
  BY HalfAssumption DEF Angle
<1>2. y \in Angle /\ (y = z - x \/ y = z - x - 2 * Half \/ y = z - x + 2 * Half)
  BY NormCases, InRange
<1>3. e \in Angle /\ (e = x - z \/ e = x - z - 2 * Half \/ e = x - z + 2 * Half)
  BY NormCases, InRange
<1>4. c \in Int /\ x + c \in -2 * Half .. 2 * Half
  BY <1>2, InRange
<1>5. w \in Angle /\ (w = x + c \/ w = (x + c) - 2 * Half \/ w = (x + c) + 2 * Half)
  BY <1>4, NormCases
<1>6. d \in Angle /\ (d = w - z \/ d = w - z - 2 * Half \/ d = w - z + 2 * Half)
  BY <1>5, NormCases, InRange
<1>7. ((0 <= c /\ c <= y) \/ (y <= c /\ c <= 0)) /\ (c = 0 <=> y = 0)
  BY DEF Corrections, Between
<1>8. /\ Apart(w, z) = IF d < 0 THEN -d ELSE d
      /\ Apart(x, z) = IF e < 0 THEN -e ELSE e
  BY DEF Apart
<1> HIDE DEF y, w, d, e
<1>9. e = -y \/ (e = Half /\ y = Half) \/ (e = -Half /\ y = -Half)
  BY <1>1, <1>2, <1>3 DEF Angle
<1>10. d = c - y \/ d = c - y + 2 * Half \/ d = c - y - 2 * Half
  <2>1. w - z \in {c - y + 2 * Half * k : k \in -2 .. 2}
    BY <1>1, <1>2, <1>4, <1>5 DEF Angle
  <2> QED BY <1>1, <1>2, <1>4, <1>6, <1>7, <2>1 DEF Angle
<1>11. (IF d < 0 THEN -d ELSE d) <= (IF e < 0 THEN -e ELSE e)
  BY <1>1, <1>2, <1>3, <1>4, <1>6, <1>7, <1>9, <1>10 DEF Angle
<1>12. (IF e < 0 THEN -e ELSE e) # 0 =>
          (IF d < 0 THEN -d ELSE d) < (IF e < 0 THEN -e ELSE e)
  BY <1>1, <1>2, <1>3, <1>4, <1>6, <1>7, <1>9, <1>10 DEF Angle
<1> QED BY <1>5, <1>8, <1>11, <1>12 DEF w

-----------------------------------------------------------------------------
LEMMA InitInv == Init => HeadingInv
<1> SUFFICES ASSUME Init PROVE HeadingInv
  OBVIOUS
<1>1. 0 \in Angle
  BY HalfAssumption DEF Angle
<1>2. Nothing \in Reading
  BY <1>1 DEF Nothing, Reading
<1>3. TypeOK
  BY <1>1, <1>2 DEF Init, TypeOK
<1>4. Unfaulted
  BY DEF Init, Unfaulted
<1> QED BY <1>3, <1>4 DEF HeadingInv

\* Fuse with the mark set, or not.
LEMMA FuseType == HeadingInv /\ Fuse => x_nom_theta' \in Angle
<1> SUFFICES ASSUME HeadingInv, Fuse PROVE x_nom_theta' \in Angle
  OBVIOUS
<1>1. x_nom_theta \in Angle /\ g_imu_heading.angle \in Angle
  BY DEF HeadingInv, TypeOK, Reading
<1>2. CASE g_imu_updated
  BY <1>1, <1>2, CorrectionTurnsCloser DEF Fuse, UpdateIMU
<1>3. CASE ~g_imu_updated
  BY <1>1, <1>3 DEF Fuse
<1> QED BY <1>2, <1>3

\* What the heading register reads as is a reading, and while the chip
\* measures it is the vehicle's heading.
LEMMA RegisterRead ==
  /\ truth \in Angle => HeadingRegister \subseteq Reading
  /\ Measures => \A r \in HeadingRegister : r.angle = truth /\ r.measured
<1> DEFINE right == [angle |-> truth, measured |-> TRUE]
           wrong == [angle |-> Norm(truth + 1), measured |-> FALSE]
<1>1. truth \in Angle => {right, wrong, Nothing} \subseteq Reading
  <2> SUFFICES ASSUME truth \in Angle PROVE {right, wrong, Nothing} \subseteq Reading
    OBVIOUS
  <2>1. Norm(truth + 1) \in Angle /\ 0 \in Angle
    BY NormCases, InRange, HalfAssumption DEF Angle
  <2>2. right \in Reading /\ wrong \in Reading /\ Nothing \in Reading
    BY <2>1, Zenon DEF Reading, Nothing
  <2> QED BY <2>2, Zenon
<1>2. HeadingRegister \subseteq {right, wrong, Nothing}
  BY Zenon DEF HeadingRegister
<1>3. Measures => HeadingRegister = {right}
  BY Zenon DEF HeadingRegister
<1>4. right.angle = truth /\ right.measured
  OBVIOUS
<1> HIDE DEF right, wrong
<1> QED BY <1>1, <1>2, <1>3, <1>4, Zenon

LEMMA TypeStep == HeadingInv /\ [Next]_vars => TypeOK'
<1> SUFFICES ASSUME HeadingInv, [Next]_vars PROVE TypeOK'
  OBVIOUS
<1> USE DEF BeginStep, BeginFails, BeginFindsChip, BeginConfigMode, BeginUnits,
            BeginPower, BeginNdofMode, BeginReturns, WriteMode, WriteRegister, ReadHeading,
            PostHeading, Predict, Turn, Simulate, ChipResets,
            vars, imuVars, mailVars, ekfVars, worldVars
<1>1. imu_task' \in {"begin", "config", "units", "power", "ndof", "ready", "read", "post"}
  BY DEF Next, Fuse, HeadingInv, TypeOK
<1>2. /\ initialized_' \in BOOLEAN /\ g_imu_updated' \in BOOLEAN
      /\ g_imu_detected' \in BOOLEAN /\ moved' \in BOOLEAN
  BY Zenon DEF Next, Fuse, HeadingInv, TypeOK
<1>3. /\ planner' \in {"predict", "fuse"} /\ chip_mode' \in {"CONFIG", "NDOF"}
      /\ chip_set' \subseteq {"units", "power"}
  BY DEF Next, Fuse, HeadingInv, TypeOK
<1>10. simulated' \in BOOLEAN
  BY Zenon DEF Next, Fuse, HeadingInv, TypeOK
<1>4. heading_rad' \in Reading /\ g_imu_heading' \in Reading
  <2>1. Nothing \in Reading
    BY HalfAssumption DEF Nothing, Reading, Angle
  <2>2. truth \in Angle => HeadingRegister \subseteq Reading
    BY RegisterRead, Zenon
  <2> QED BY <2>1, <2>2 DEF Next, Fuse, HeadingInv, TypeOK
<1>5. truth' \in Angle
  <2>1. truth \in Angle
    BY DEF HeadingInv, TypeOK
  <2>2. CASE Turn
    BY <2>1, <2>2, NormCases, InRange
  <2>3. CASE ~Turn
    BY <2>1, <2>3 DEF Next, Fuse
  <2> QED BY <2>2, <2>3
<1>6. x_nom_theta' \in Angle
  <2>1. x_nom_theta \in Angle
    BY DEF HeadingInv, TypeOK
  <2>2. CASE Fuse
    BY <2>2, FuseType
  <2>3. CASE ~Fuse
    BY <2>1, <2>3 DEF Next
  <2> QED BY <2>2, <2>3
<1>7. fault' \in BOOLEAN
  BY Zenon DEF Next, Fuse, HeadingInv, TypeOK
<1>8. misled' \in BOOLEAN
  BY Zenon DEF Next, Fuse, HeadingInv, TypeOK
<1>9. Reading' = Reading /\ Angle' = Angle
  BY DEF Reading, Angle
<1> QED BY <1>1, <1>2, <1>3, <1>4, <1>5, <1>6, <1>7, <1>8, <1>9, <1>10, Zenon DEF TypeOK

LEMMA UnfaultedStep == HeadingInv /\ [Next]_vars => Unfaulted'
<1> SUFFICES ASSUME HeadingInv, [Next]_vars PROVE Unfaulted'
  OBVIOUS
<1> USE DEF HeadingInv, Unfaulted, imuVars, mailVars, ekfVars, worldVars
<1>1. CASE BeginStep
  BY <1>1 DEF BeginStep, BeginFails, BeginFindsChip, BeginConfigMode, BeginUnits,
              BeginPower, BeginNdofMode, BeginReturns, WriteMode, WriteRegister
<1>2. CASE ReadHeading
  <2>1. ~fault => chip_mode = "NDOF" /\ chip_set = {"units", "power"}
    BY <1>2 DEF ReadHeading, TypeOK
  <2>2. ~fault => heading_rad'.measured
    BY <1>2, <2>1, RegisterRead, Zenon DEF ReadHeading, Measures
  <2> QED BY <1>2, <2>1, <2>2 DEF ReadHeading
<1>3. CASE PostHeading
  BY <1>3 DEF PostHeading
<1>4. CASE Predict
  BY <1>4 DEF Predict
<1>5. CASE Fuse
  BY <1>5 DEF Fuse
<1>6. CASE Turn
  BY <1>6 DEF Turn
<1>7. CASE ChipResets
  BY <1>7 DEF ChipResets
<1>9. CASE Simulate
  BY <1>9 DEF Simulate
<1>8. CASE UNCHANGED vars
  BY <1>8 DEF vars
<1> QED BY <1>1, <1>2, <1>3, <1>4, <1>5, <1>6, <1>7, <1>8, <1>9 DEF Next

LEMMA HeadingInvariant == Spec => []HeadingInv
<1>1. HeadingInv /\ [Next]_vars => HeadingInv'
  BY TypeStep, UnfaultedStep DEF HeadingInv
<1> QED BY <1>1, InitInv, PTL DEF Spec

-----------------------------------------------------------------------------
(* The driver, the mailbox and the filter keep their types: no heading     *)
(* leaves the range of half a turn either way.                             *)
THEOREM HeadingTypes == Spec => []TypeOK
<1>1. HeadingInv => TypeOK
  BY DEF HeadingInv
<1> QED BY <1>1, HeadingInvariant, PTL

(* A pose turned by something that was no measurement has a lost write or  *)
(* a reset of the chip behind it.                                          *)
THEOREM HeadingIsTrusted == Spec => []HeadingTrusted
<1>1. HeadingInv => HeadingTrusted
  BY DEF HeadingInv, Unfaulted, HeadingTrusted
<1> QED BY <1>1, HeadingInvariant, PTL

(* For any resolution and gain, no correction turns the estimate away from *)
(* the heading it is given.                                                *)
THEOREM CorrectionTurnsShortWay == Spec => TurnsTheShortWay
<1>1. HeadingInv /\ [Next]_vars =>
        [planner = "fuse" /\ planner' = "predict" /\ g_imu_updated =>
            Apart(x_nom_theta', g_imu_heading.angle)
                <= Apart(x_nom_theta, g_imu_heading.angle)]_vars
  <2> SUFFICES ASSUME HeadingInv, Next, planner = "fuse", planner' = "predict",
                      g_imu_updated
               PROVE  Apart(x_nom_theta', g_imu_heading.angle)
                          <= Apart(x_nom_theta, g_imu_heading.angle)
    OBVIOUS
  <2>1. Fuse
    BY DEF Next, BeginStep, BeginFails, BeginFindsChip, BeginConfigMode, BeginUnits,
           BeginPower, BeginNdofMode, BeginReturns, ReadHeading, PostHeading, Predict,
           Turn, Simulate, ChipResets, ekfVars
  <2>2. x_nom_theta \in Angle /\ g_imu_heading.angle \in Angle
    BY DEF HeadingInv, TypeOK, Reading
  <2>3. PICK c \in Corrections(Norm(g_imu_heading.angle - x_nom_theta)) :
          x_nom_theta' = Norm(x_nom_theta + c)
    BY <2>1 DEF Fuse, UpdateIMU
  <2> QED BY <2>2, <2>3, CorrectionTurnsCloser
<1> QED BY <1>1, HeadingInvariant, PTL DEF Spec, TurnsTheShortWay

-----------------------------------------------------------------------------
(* Convergence, but for fairness.  The vehicle stands, the chip measures   *)
(* and the odometry is that of the wheels, before and after a step.        *)
Standing == truth' = truth /\ Measures /\ Measures' /\ ~simulated /\ ~simulated'

\* Odometry has seen the last turn, and no reading on its way is from before it.
Current ==
    /\ ~moved
    /\ imu_task = "post" => heading_rad.angle = truth
    /\ g_imu_updated => g_imu_heading.angle = truth

\* A reading fused brings the estimate nearer, unless it is there already.
Nears ==
    LET before == Apart(x_nom_theta, truth)
        after  == Apart(x_nom_theta', truth)
    IN  IF planner = "fuse" /\ planner' = "predict" /\ g_imu_updated
        THEN after < before \/ (after = 0 /\ before = 0)
        ELSE after = before

LEMMA TurnIsSeen ==
  ASSUME TypeOK, Turn
  PROVE  truth' # truth
<1>1. truth \in Angle /\ truth \in Int /\ Half \in Nat /\ Half > 0
  BY HalfAssumption DEF TypeOK, Angle
<1>2. truth + 1 \in -2 * Half .. 2 * Half /\ truth - 1 \in -2 * Half .. 2 * Half
  BY <1>1, InRange
<1>3. Norm(truth + 1) # truth
  BY <1>1, <1>2, NormCases
<1>4. Norm(truth - 1) # truth
  BY <1>1, <1>2, NormCases
<1> QED BY <1>3, <1>4 DEF Turn

LEMMA StaysCurrent ==
  ASSUME HeadingInv, Next, Standing, Current
  PROVE  Current'
<1> USE DEF HeadingInv, Current, Standing, imuVars, mailVars, ekfVars, worldVars
<1>1. CASE BeginStep
  BY <1>1 DEF BeginStep, BeginFails, BeginFindsChip, BeginConfigMode, BeginUnits,
              BeginPower, BeginNdofMode, BeginReturns, WriteMode, WriteRegister
<1>2. CASE ReadHeading
  BY <1>2, RegisterRead DEF ReadHeading, Measures
<1>3. CASE PostHeading
  BY <1>3 DEF PostHeading
<1>4. CASE Predict
  <2>1. ~moved'
    BY <1>4, Zenon DEF Predict
  <2>2. UNCHANGED <<imu_task, heading_rad, g_imu_heading, g_imu_updated, truth>>
    BY <1>4 DEF Predict
  <2> QED BY <2>1, <2>2
<1>5. CASE Fuse
  BY <1>5 DEF Fuse
<1>6. CASE Turn
  BY <1>6, TurnIsSeen
<1>7. CASE ChipResets
  BY <1>7 DEF ChipResets
<1>9. CASE Simulate
  BY <1>9 DEF Simulate
<1> QED BY <1>1, <1>2, <1>3, <1>4, <1>5, <1>6, <1>7, <1>9 DEF Next

LEMMA EstimateNears ==
  ASSUME HeadingInv, Next, Standing, Current
  PROVE  Nears
<1>1. x_nom_theta \in Angle /\ truth \in Angle
  BY DEF HeadingInv, TypeOK
<1>2. CASE Fuse /\ g_imu_updated
  <2>1. g_imu_heading.angle = truth
    BY <1>2 DEF Current
  <2>2. PICK c \in Corrections(Norm(truth - x_nom_theta)) :
          x_nom_theta' = Norm(x_nom_theta + c)
    BY <1>2, <2>1 DEF Fuse, UpdateIMU
  <2>3. /\ Apart(x_nom_theta', truth) <= Apart(x_nom_theta, truth)
        /\ Apart(x_nom_theta, truth) # 0 =>
              Apart(x_nom_theta', truth) < Apart(x_nom_theta, truth)
    BY <1>1, <2>2, CorrectionTurnsCloser
  <2>4. x_nom_theta' \in Angle
    BY <1>1, <2>2, CorrectionTurnsCloser
  <2>5. Apart(x_nom_theta', truth) \in Nat
    <3>1. Norm(x_nom_theta' - truth) \in Angle
      BY <1>1, <2>4, InRange, NormCases
    <3> QED BY <3>1, HalfAssumption DEF Apart, Angle
  <2> QED BY <1>2, <2>3, <2>5 DEF Nears, Fuse
<1>3. CASE ~(Fuse /\ g_imu_updated)
  <2>1. x_nom_theta' = x_nom_theta
    BY <1>3 DEF Next, BeginStep, BeginFails, BeginFindsChip, BeginConfigMode, BeginUnits,
           BeginPower, BeginNdofMode, BeginReturns, ReadHeading, PostHeading, Predict,
           Fuse, Turn, Simulate, ChipResets, ekfVars, Current, Standing
  <2>2. ~(planner = "fuse" /\ planner' = "predict" /\ g_imu_updated)
    BY <1>3 DEF Next, BeginStep, BeginFails, BeginFindsChip, BeginConfigMode, BeginUnits,
           BeginPower, BeginNdofMode, BeginReturns, ReadHeading, PostHeading, Predict,
           Turn, Simulate, ChipResets, ekfVars
  <2> QED BY <2>1, <2>2 DEF Nears
<1> QED BY <1>2, <1>3

(* While the vehicle stands, the chip measures and no odometry is          *)
(* simulated, what waits to be fused is the present heading once it is,    *)
(* and nothing takes the estimate away from it: every reading fused brings *)
(* it strictly nearer, by whichever gain, until it is there.  This is the  *)
(* measure by which it converges.  The turn rate of an ACTIVE order that   *)
(* gets no feedback (main.cpp:110-117) is what takes it away again.        *)
THEOREM StandingEstimateNears ==
  Spec => [][Standing /\ Current => Current' /\ Nears]_vars
<1>1. HeadingInv /\ [Next]_vars => [Standing /\ Current => Current' /\ Nears]_vars
  BY StaysCurrent, EstimateNears
<1> QED BY <1>1, HeadingInvariant, PTL DEF Spec
=============================================================================
