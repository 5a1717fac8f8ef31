--------------------------- MODULE HeadingFusion ---------------------------
(***************************************************************************)
(* The vehicle's heading: the BNO055 driver and the task that reads it     *)
(* (components/imu, imuTaskFunc), the mailbox under ekf_mux, and the part  *)
(* of the error-state Kalman filter that estimates the heading             *)
(* (components/es_ekf, called by the planner).                             *)
(*                                                                         *)
(* Headings are units of 1/(2 Half) turn.  The covariance is abstracted to *)
(* what it decides: the gain of updateIMU() is some number in (0, 1), as   *)
(* P[2][2] is at least the noise predict() has just added, and R_imu > 0.  *)
(* The chip and its bus are external: a write or a read may fail, a drop   *)
(* of the supply puts the chip back to CONFIG mode and its registers to    *)
(* anything.  It measures in NDOF mode, in degrees and at full power; in   *)
(* CONFIG mode its heading register reads 0.                               *)
(***************************************************************************)
EXTENDS Integers

CONSTANT Half         \* half a turn
ASSUME HalfAssumption == Half \in Nat \ {0}

VARIABLES imu_task,         \* where imuTaskFunc is
          initialized_,     \* of the driver
          heading_rad,      \* its last reading
          g_imu_heading, g_imu_updated, g_imu_detected,   \* under ekf_mux
          planner,          \* where the planner's loop is
          x_nom_theta,      \* x_nom[2]
          chip_mode,        \* of the BNO055
          chip_set,         \* its registers that hold what begin() writes
          truth,            \* the vehicle's heading
          moved,            \* the odometry has yet to see the vehicle's turn
          simulated,        \* the odometry is simulated, in an order that turns
          fault,            \* history: the chip lost a write or was reset
          misled            \* history: a heading that was no measurement was fused

imuVars == <<imu_task, initialized_, heading_rad>>
mailVars == <<g_imu_heading, g_imu_updated, g_imu_detected>>
ekfVars == <<planner, x_nom_theta, misled>>
worldVars == <<chip_mode, chip_set, truth, moved, simulated, fault>>
vars == <<imuVars, mailVars, ekfVars, worldVars>>

Angle == -Half .. Half
Reading == [angle : Angle, measured : BOOLEAN]
Nothing == [angle |-> 0, measured |-> FALSE]

\* normalizeAngle(), atan2f(sinf(a), cosf(a)).
Norm(a) == LET r == a % (2 * Half) IN IF r > Half THEN r - 2 * Half ELSE r

TypeOK ==
    /\ imu_task \in {"begin", "config", "units", "power", "ndof", "ready", "read", "post"}
    /\ initialized_ \in BOOLEAN
    /\ heading_rad \in Reading
    /\ g_imu_heading \in Reading
    /\ g_imu_updated \in BOOLEAN /\ g_imu_detected \in BOOLEAN
    /\ planner \in {"predict", "fuse"}
    /\ x_nom_theta \in Angle
    /\ chip_mode \in {"CONFIG", "NDOF"}
    /\ chip_set \subseteq {"units", "power"}
    /\ truth \in Angle
    /\ moved \in BOOLEAN /\ simulated \in BOOLEAN /\ fault \in BOOLEAN /\ misled \in BOOLEAN

\* The ESP32 may have restarted alone: the chip is as it was left.
Init ==
    /\ imu_task = "begin"
    /\ initialized_ = FALSE
    /\ heading_rad = Nothing
    /\ g_imu_heading = Nothing
    /\ g_imu_updated = FALSE /\ g_imu_detected = FALSE
    /\ planner = "predict"
    /\ x_nom_theta = 0
    /\ chip_mode \in {"CONFIG", "NDOF"}
    /\ chip_set \in SUBSET {"units", "power"}
    /\ truth = 0
    /\ moved = FALSE /\ simulated = FALSE /\ fault = FALSE /\ misled = FALSE

-----------------------------------------------------------------------------
(* The IMU task.  begin() checks every step up to the chip's id and none   *)
(* of the writes behind it.                                                *)

\* The bus or the device cannot be added, the id cannot be read or is not
\* the BNO055's: begin() fails, and nothing calls it again.
BeginFails ==
    /\ imu_task = "begin"
    /\ imu_task' = "read"
    /\ g_imu_detected' = FALSE
    /\ UNCHANGED <<initialized_, heading_rad, g_imu_heading, g_imu_updated,
                   ekfVars, worldVars>>

BeginFindsChip ==
    /\ imu_task = "begin"
    /\ imu_task' = "config"
    /\ UNCHANGED <<initialized_, heading_rad, mailVars, ekfVars, worldVars>>

\* writeReg(BNO055_REG_OPR_MODE, mode), its result ignored.
WriteMode(mode) ==
    /\ \/ chip_mode' = mode /\ UNCHANGED fault
       \/ UNCHANGED chip_mode /\ fault' = TRUE
    /\ UNCHANGED <<chip_set, truth, moved, simulated>>

WriteRegister(reg) ==
    /\ \/ chip_set' = chip_set \union {reg} /\ UNCHANGED fault
       \/ UNCHANGED chip_set /\ fault' = TRUE
    /\ UNCHANGED <<chip_mode, truth, moved, simulated>>

BeginConfigMode ==
    /\ imu_task = "config"
    /\ WriteMode("CONFIG")
    /\ imu_task' = "units"
    /\ UNCHANGED <<initialized_, heading_rad, mailVars, ekfVars>>

\* Degrees for the heading; its result ignored too.
BeginUnits ==
    /\ imu_task = "units"
    /\ WriteRegister("units")
    /\ imu_task' = "power"
    /\ UNCHANGED <<initialized_, heading_rad, mailVars, ekfVars>>

BeginPower ==
    /\ imu_task = "power"
    /\ WriteRegister("power")
    /\ imu_task' = "ndof"
    /\ UNCHANGED <<initialized_, heading_rad, mailVars, ekfVars>>

BeginNdofMode ==
    /\ imu_task = "ndof"
    /\ WriteMode("NDOF")
    /\ imu_task' = "ready"
    /\ UNCHANGED <<initialized_, heading_rad, mailVars, ekfVars>>

BeginReturns ==
    /\ imu_task = "ready"
    /\ initialized_' = TRUE
    /\ g_imu_detected' = TRUE
    /\ imu_task' = "read"
    /\ UNCHANGED <<heading_rad, g_imu_heading, g_imu_updated, ekfVars, worldVars>>

Measures == chip_mode = "NDOF" /\ chip_set = {"units", "power"}

\* What the heading register reads as: without the unit or the power that
\* begin() asks for, another heading or none.
HeadingRegister ==
    IF Measures THEN {[angle |-> truth, measured |-> TRUE]}
    ELSE IF chip_mode = "NDOF" THEN {[angle |-> Norm(truth + 1), measured |-> FALSE], Nothing}
    ELSE {Nothing}

\* Mutant: readHeadingRad() does not ask whether begin() succeeded.
ReadHeadingUnready ==
    /\ imu_task = "read"
    /\ heading_rad' \in HeadingRegister
    /\ imu_task' = "post"
    /\ UNCHANGED <<initialized_, mailVars, ekfVars, worldVars>>

\* readHeadingRad() gives a heading; when it cannot, the loop comes round.
ReadHeading ==
    /\ imu_task = "read"
    /\ initialized_
    /\ heading_rad' \in HeadingRegister
    /\ imu_task' = "post"
    /\ UNCHANGED <<initialized_, mailVars, ekfVars, worldVars>>

PostHeading ==
    /\ imu_task = "post"
    /\ g_imu_heading' = heading_rad
    /\ g_imu_updated' = TRUE
    /\ g_imu_detected' = TRUE
    /\ imu_task' = "read"
    /\ UNCHANGED <<initialized_, heading_rad, ekfVars, worldVars>>

BeginStep == BeginFails \/ BeginFindsChip \/ BeginConfigMode \/ BeginUnits
                 \/ BeginPower \/ BeginNdofMode \/ BeginReturns

-----------------------------------------------------------------------------
(* The planner.                                                            *)

\* predict().  The odometry of a vehicle that turns is right but for slip, and
\* may be feedback from before it stood (up to 300 ms old); at rest it is
\* nothing.  Without feedback an ACTIVE order's last turn rate takes its place.
Predict ==
    /\ planner = "predict"
    /\ x_nom_theta' \in IF moved \/ simulated THEN Angle ELSE {x_nom_theta}
    /\ moved' \in {moved, FALSE}
    /\ planner' = "fuse"
    /\ UNCHANGED <<imuVars, mailVars, chip_mode, chip_set, truth, simulated, fault, misled>>

Between(a, b) == {c \in -2 * Half .. 2 * Half : (a <= c /\ c <= b) \/ (b <= c /\ c <= a)}

\* What a gain in (0, 1) makes of an innovation, in whole units.
Corrections(y) == {c \in Between(0, y) : c = 0 <=> y = 0}

\* Mutant: the innovation is the plain difference of the two headings.
UpdateIMUNotNormalized(z) ==
    \E c \in Corrections(z - x_nom_theta) : x_nom_theta' = Norm(x_nom_theta + c)

\* Mutant: the corrected heading is not brought back into range.
UpdateIMUNotWrapped(z) ==
    \E c \in Corrections(Norm(z - x_nom_theta)) : x_nom_theta' = x_nom_theta + c

UpdateIMU(z) ==
    \E c \in Corrections(Norm(z - x_nom_theta)) : x_nom_theta' = Norm(x_nom_theta + c)

\* Mutant: the mark is cleared without looking at it first.
FuseNothing ==
    /\ planner = "fuse"
    /\ g_imu_updated' = FALSE
    /\ planner' = "predict"
    /\ UNCHANGED <<imuVars, g_imu_heading, g_imu_detected, x_nom_theta, misled, worldVars>>

\* The mailbox is emptied under ekf_mux, then updateIMU().
Fuse ==
    /\ planner = "fuse"
    /\ IF g_imu_updated
       THEN /\ UpdateIMU(g_imu_heading.angle)
            /\ misled' = (misled \/ ~g_imu_heading.measured)
       ELSE UNCHANGED <<x_nom_theta, misled>>
    /\ g_imu_updated' = FALSE
    /\ planner' = "predict"
    /\ UNCHANGED <<imuVars, g_imu_heading, g_imu_detected, worldVars>>

-----------------------------------------------------------------------------
(* The world.                                                              *)

Turn ==
    /\ truth' \in {Norm(truth + 1), Norm(truth - 1)}
    /\ moved' = TRUE
    /\ UNCHANGED <<imuVars, mailVars, ekfVars, chip_mode, chip_set, simulated, fault>>

\* The STM32 falls silent or answers again; an order becomes ACTIVE or ends.
Simulate ==
    /\ simulated' = ~simulated
    /\ UNCHANGED <<imuVars, mailVars, ekfVars, chip_mode, chip_set, truth, moved, fault>>

ChipResets ==
    /\ chip_mode' = "CONFIG"
    /\ chip_set' \in SUBSET {"units", "power"}
    /\ fault' = (imu_task # "begin" \/ fault)
    /\ UNCHANGED <<imuVars, mailVars, ekfVars, truth, moved, simulated>>

Next == \/ BeginStep \/ ReadHeading \/ PostHeading
        \/ Predict \/ Fuse
        \/ Turn \/ Simulate \/ ChipResets

(* Both tasks are periodic.  A bus that answers at all answers again and   *)
(* again, though not every time.  A feedback is odometry for 300 ms, and   *)
(* the one after it, or none, has seen the vehicle stand.                  *)
Spec ==
    /\ Init /\ [][Next]_vars
    /\ WF_vars(BeginStep) /\ WF_vars(PostHeading) /\ WF_vars(Predict \/ Fuse)
    /\ SF_vars(ReadHeading) /\ SF_vars(Predict /\ ~moved')

-----------------------------------------------------------------------------
(* The pose is turned by what the chip measured, and by nothing else while *)
(* the chip keeps its configuration: a driver whose begin() failed gives   *)
(* no headings, and one whose begin() ended gives measured ones unless a   *)
(* write was lost or the chip was reset (bno055_driver.cpp:72-87).         *)
HeadingTrusted == misled => fault

\* The angle between two headings, the short way round.
Apart(a, b) == LET n == Norm(a - b) IN IF n < 0 THEN -n ELSE n

(* A correction never turns the estimate away from the heading it is given,*)
(* wherever the two lie around the half turn (es_ekf.cpp:77).              *)
TurnsTheShortWay ==
    [][planner = "fuse" /\ planner' = "predict" /\ g_imu_updated =>
          Apart(x_nom_theta', g_imu_heading.angle)
              <= Apart(x_nom_theta, g_imu_heading.angle)]_vars

(* Once the vehicle stands, the estimate comes to its heading and stays,   *)
(* though the mailbox may hold a reading from before: as long as the chip  *)
(* found at boot measures, and unless the odometry is simulated.  Without  *)
(* feedback an ACTIVE order turns the estimate of a standing vehicle in    *)
(* every iteration (main.cpp:110-117).                                     *)
HeadingConverges ==
    <>[](initialized_ /\ Measures /\ ~simulated) /\ <>[][FALSE]_truth
        => <>[](Apart(x_nom_theta, truth) = 0)

=============================================================================
