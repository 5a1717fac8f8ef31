---------------------------- MODULE BenchMotion ----------------------------
(***************************************************************************)
(* The motion of an order in numbers: the speed profile and the arrival    *)
(* test of TrajectoryGen::tick(), the steering limits of SwerveKinematics, *)
(* and the loop the planner closes around them when no STM32 answers       *)
(* (AGV_SIMULATE_DRIVE_FEEDBACK, as config.h ships it): the velocity of    *)
(* one tick moves the estimated pose before the next.                      *)
(*                                                                         *)
(* A tick takes from one to MaxDt units of time: plannerTaskFunc() measures *)
(* dt_s and takes anything from 1 to 50 ms for one.  Lengths are counted   *)
(* in a unit small enough for the dead band at a waypoint (0.001 m) to be  *)
(* MinDist of them.  The vehicle moves straight at the active waypoint, so *)
(* of a pose only the distance and the heading count.  Headings are units  *)
(* of 1/(2 Half) turn.                                                     *)
(***************************************************************************)
EXTENDS Integers, Sequences

CONSTANTS Orders,          \* sequences of waypoints
          MaxDt,           \* the longest tick
          Accel, Decel,    \* max_accel_mps2, max_decel_mps2
          MinDist,         \* no velocity this near to the waypoint
          LooseTol,        \* what an intermediate waypoint is accepted at
          Half,            \* half a turn
          Epsilon,         \* SWERVE_EPSILON, a wheel speed
          MaxAngle,        \* max_steering_angle_rad
          MaxDelta,        \* max_steering_rate_radps
          MaxWheel         \* bound of the model on a wheel's speed

Waypoint == [gap : Nat, max_speed : Nat, tolerance : Nat,
             has_theta : BOOLEAN, theta : Int, tolerance_theta : Nat]

\* The last says that where a velocity is given at all, one to brake from does
\* not carry the vehicle twice the distance in a tick.  It is an equation for
\* the firmware's 0.8 m/s2, 0.05 s and 0.001 m.
ASSUME MotionAssumption ==
    /\ Orders \subseteq Seq(Waypoint) \ {<<>>}
    /\ {MaxDt, Accel, Decel, MinDist, Half} \subseteq Nat \ {0}
    /\ {LooseTol, Epsilon, MaxAngle, MaxDelta, MaxWheel} \subseteq Nat
    /\ MinDist < LooseTol
    /\ Decel * (MaxDt * MaxDt) <= 2 * MinDist

VARIABLES pc, order, active_index_, status_, current_speed_mps_,
          dist, theta,           \* the pose, as seen from the waypoint
          sim_v,                 \* the speed of the last tick's velocity
          sim_omega,             \* what its turn rate makes of the next tick
          dt_s, again,           \* again: tick() has called itself, with 0
          imu,                   \* an IMU is fitted; on the bench it reads 0
          prev_angle             \* prev_cmd_[0].steering_angle_rad

vars == <<pc, order, active_index_, status_, current_speed_mps_, dist, theta,
          sim_v, sim_omega, dt_s, again, imu, prev_angle>>

Abs(n) == IF n < 0 THEN -n ELSE n

\* normalizeAngle(): the same direction in (-Half, Half].
Norm(a) == LET r == a % (2 * Half) IN IF r > Half THEN r - 2 * Half ELSE r

\* sqrtf(), rounded down.
Root(n) == CHOOSE k \in 0 .. n : k * k <= n /\ n < (k + 1) * (k + 1)

Clamp(a, low, high) == IF a < low THEN low ELSE IF a > high THEN high ELSE a

wp == order[active_index_ + 1]
IsLast == active_index_ + 1 = Len(order)

Init ==
    /\ pc = "predict"
    /\ order \in Orders
    /\ active_index_ = 0
    /\ status_ = "ACTIVE"
    /\ current_speed_mps_ = 0
    /\ dist = order[1].gap
    /\ theta = 0
    /\ sim_v = 0 /\ sim_omega = 0
    /\ dt_s = 1 /\ again = FALSE
    /\ imu \in BOOLEAN
    /\ prev_angle = 0

-----------------------------------------------------------------------------
(* Odometry from the last velocity, then predict(), and updateIMU() with a *)
(* heading the simulated turn does not change: the estimate ends between   *)
(* the two.                                                                *)

Between(a, b) == {x \in -Half .. Half : (a <= x /\ x <= b) \/ (b <= x /\ x <= a)}

Predict ==
    /\ pc = "predict"
    /\ dt_s' \in 1 .. MaxDt
    /\ again' = FALSE
    /\ LET moves  == status_ = "ACTIVE"
           turned == IF moves THEN Norm(theta + sim_omega) ELSE theta
       IN  /\ dist' = IF moves THEN Abs(dist - sim_v * dt_s') ELSE dist
           /\ theta' \in IF imu THEN Between(turned, 0) ELSE {turned}
    /\ pc' = "tick"
    /\ UNCHANGED <<order, active_index_, status_, current_speed_mps_,
                   sim_v, sim_omega, imu, prev_angle>>

-----------------------------------------------------------------------------
(* toSwerveCommand() for the front wheel, with a body velocity (v, w).  The *)
(* direction its velocity asks for depends on where the waypoint lies: any. *)

\* Mutant: the angle is limited to its range, and its rate is not.
SteerUnlimitedRate(asked, speed) ==
    IF speed < Epsilon THEN prev_angle
    ELSE Clamp(asked, -MaxAngle, MaxAngle)

Steer(asked, speed) ==
    IF speed < Epsilon THEN prev_angle
    ELSE Clamp(Clamp(asked, -MaxAngle, MaxAngle),
               prev_angle - MaxDelta * dt_s, prev_angle + MaxDelta * dt_s)

SwerveCommand(v, w) ==
    IF v < Epsilon /\ w = 0 THEN UNCHANGED prev_angle
    ELSE \E asked \in -Half .. Half :
           \E speed \in IF w = 0 THEN {v} ELSE 0 .. MaxWheel :
              prev_angle' = Steer(IF speed > Epsilon THEN asked ELSE prev_angle, speed)

-----------------------------------------------------------------------------
(* tick().                                                                 *)

\* Mutant: the stopping distance of a speed is linear in it.
ProfileLinear(d, max_speed, speed, t) ==
    CASE 2 * Decel * d <= speed -> Root(2 * Decel * d)
      [] 2 * Decel * d > speed /\ speed < max_speed ->
            Clamp(speed + Accel * t, 0, max_speed)
      [] OTHER -> max_speed

\* computeProfileSpeed(): brake, accelerate or cruise.
Profile(d, max_speed, speed, t) ==
    CASE 2 * Decel * d <= speed * speed -> Root(2 * Decel * d)
      [] 2 * Decel * d > speed * speed /\ speed < max_speed ->
            Clamp(speed + Accel * t, 0, max_speed)
      [] OTHER -> max_speed

heading_error == IF wp.has_theta THEN Norm(wp.theta - theta) ELSE 0

\* Mutant: an intermediate waypoint is accepted at its own tolerance only.
ArrivedStrict ==
    /\ dist < wp.tolerance
    /\ wp.has_theta => Abs(heading_error) < wp.tolerance_theta

Arrived ==
    /\ dist < IF IsLast \/ wp.tolerance > LooseTol THEN wp.tolerance ELSE LooseTol
    /\ wp.has_theta => Abs(heading_error) < wp.tolerance_theta

Speed == Profile(dist, wp.max_speed, current_speed_mps_, IF again THEN 0 ELSE dt_s)

\* A pause, or the order is complete.
TickStopped ==
    /\ pc = "tick"
    /\ status_ # "ACTIVE"
    /\ current_speed_mps_' = 0
    /\ sim_v' = 0 /\ sim_omega' = 0
    /\ SwerveCommand(0, 0)
    /\ pc' = "predict"
    /\ UNCHANGED <<order, active_index_, status_, dist, theta, dt_s, again, imu>>

TickComplete ==
    /\ pc = "tick"
    /\ status_ = "ACTIVE" /\ Arrived /\ IsLast
    /\ active_index_' = active_index_ + 1
    /\ status_' = "COMPLETE"
    /\ current_speed_mps_' = 0
    /\ sim_v' = 0 /\ sim_omega' = 0
    /\ SwerveCommand(0, 0)
    /\ pc' = "predict"
    /\ UNCHANGED <<order, dist, theta, dt_s, again, imu>>

\* The next waypoint, and tick(pose, 0) at once.  How far it is depends on
\* where within the tolerance this one was accepted.
TickAdvance ==
    /\ pc = "tick"
    /\ status_ = "ACTIVE" /\ Arrived /\ ~IsLast
    /\ active_index_' = active_index_ + 1
    /\ current_speed_mps_' = Speed
    /\ LET gap == order[active_index_ + 2].gap
       IN  dist' \in Abs(gap - dist) .. gap + dist
    /\ again' = TRUE
    /\ UNCHANGED <<pc, order, status_, theta, sim_v, sim_omega, dt_s, imu, prev_angle>>

\* Mutant: within the dead band the vehicle does not turn either.
TickDriveTurnsUnderway ==
    /\ pc = "tick"
    /\ status_ = "ACTIVE" /\ ~Arrived
    /\ current_speed_mps_' = Speed
    /\ sim_v' = IF dist > MinDist THEN Speed ELSE 0
    /\ sim_omega' \in IF dist > MinDist
                      THEN {w \in Between(0, heading_error) : w = 0 <=> heading_error = 0}
                      ELSE {0}
    /\ SwerveCommand(sim_v', sim_omega')
    /\ pc' = "predict"
    /\ UNCHANGED <<order, active_index_, status_, dist, theta, dt_s, again, imu>>

\* A velocity at the waypoint, and a turn of some part of the heading error:
\* of 15 % of it in the longest tick, by the steering gain, or less.
TickDrive ==
    /\ pc = "tick"
    /\ status_ = "ACTIVE" /\ ~Arrived
    /\ current_speed_mps_' = Speed
    /\ sim_v' = IF dist > MinDist THEN Speed ELSE 0
    /\ sim_omega' \in {w \in Between(0, heading_error) : w = 0 <=> heading_error = 0}
    /\ SwerveCommand(sim_v', sim_omega')
    /\ pc' = "predict"
    /\ UNCHANGED <<order, active_index_, status_, dist, theta, dt_s, again, imu>>

Planner == Predict \/ TickStopped \/ TickComplete \/ TickAdvance \/ TickDrive

Pause ==
    /\ status_ = "ACTIVE"
    /\ status_' = "PAUSED"
    /\ UNCHANGED <<pc, order, active_index_, current_speed_mps_, dist, theta,
                   sim_v, sim_omega, dt_s, again, imu, prev_angle>>

Resume ==
    /\ status_ = "PAUSED"
    /\ status_' = "ACTIVE"
    /\ UNCHANGED <<pc, order, active_index_, current_speed_mps_, dist, theta,
                   sim_v, sim_omega, dt_s, again, imu, prev_angle>>

Next == Planner \/ Pause \/ Resume

\* The planner is a periodic task.
Spec == Init /\ [][Next]_vars /\ WF_vars(Planner)

-----------------------------------------------------------------------------
MotionTypeOK ==
    /\ pc \in {"predict", "tick"}
    /\ order \in Orders
    /\ active_index_ \in 0 .. Len(order)
    /\ status_ \in {"ACTIVE", "PAUSED", "COMPLETE"}
    /\ current_speed_mps_ \in Nat /\ dist \in Nat /\ sim_v \in Nat
    /\ theta \in Int /\ sim_omega \in Int
    /\ dt_s \in 1 .. MaxDt /\ again \in BOOLEAN /\ imu \in BOOLEAN
    /\ prev_angle \in Int

\* The step in which tick() gives a velocity, on the way to a waypoint.
Underway == pc = "tick" /\ pc' = "predict" /\ status_ = "ACTIVE" /\ status_' = "ACTIVE"

\* Twice the way that the longest tick's braking and two of its accelerations
\* make: 4.5 mm for the firmware's numbers, twice 2.25 mm.
Overshoot == MaxDt * MaxDt * (Decel + 2 * Accel)

(* A velocity never carries the vehicle past the waypoint by more than     *)
(* Overshoot / 2, however long the tick turns out to be and whatever speed *)
(* it entered the segment with.  A speed above the waypoint's own limit is *)
(* one the vehicle can only just brake from: the braking branch of         *)
(* trajectory_gen.cpp:144 does not look at the limit, which the messages   *)
(* to the server say is kept (ESP32_CONNECTION_GUIDE.md:264).              *)
SpeedFitsTheRoom ==
    [][Underway => /\ 2 * (sim_v' * MaxDt) <= 2 * dist + Overshoot
                   /\ sim_v' > wp.max_speed => sim_v' * sim_v' <= 2 * Decel * dist]_vars

(* A vehicle that stands, ACTIVE, after a tick that had time in it has an  *)
(* order that asks for it, and stands for good: a last waypoint with a     *)
(* tolerance inside the dead band, a speed limit or a heading tolerance of *)
(* zero (trajectory_gen.cpp:208-235).                                      *)
StandsOnlyAtTolerance ==
    [][Underway /\ ~again /\ sim_v' = 0 /\ sim_omega' = 0 =>
          \/ wp.max_speed = 0
          \/ dist <= MinDist /\ IsLast /\ wp.tolerance <= dist
          \/ dist <= MinDist /\ wp.has_theta /\ wp.tolerance_theta = 0]_vars

Reachable(w) ==
    /\ w.max_speed > 0 /\ w.tolerance > MinDist
    /\ w.has_theta => w.tolerance_theta > 0 /\ ~imu

(* An order that can be met completes, pauses or not: the profile never    *)
(* comes to rest short of a waypoint.  With an IMU on the bench a waypoint *)
(* with a heading is not met: the IMU undoes the simulated turn.           *)
OrderArrives ==
    (\A i \in DOMAIN order : Reachable(order[i])) /\ <>[](status_ # "PAUSED")
        => <>(status_ = "COMPLETE")

(* The steering angle stays within its limit and moves by what its rate    *)
(* makes of the tick at most, across standstills, pauses and orders too:   *)
(* the angle held through a dead band is the one the next change starts    *)
(* from.                                                                   *)
SteeringLimited ==
    [][/\ prev_angle' - prev_angle \in -(MaxDelta * dt_s) .. MaxDelta * dt_s
       /\ prev_angle' \in -MaxAngle .. MaxAngle]_vars

=============================================================================
