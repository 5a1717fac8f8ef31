--------------------------- MODULE TrajectoryGen ---------------------------
(***************************************************************************)
(* The trajectory generator (components/trajectory/trajectory_gen.cpp): a  *)
(* waypoint follower shared by the network task, which loads waypoints and *)
(* pauses, resumes, stops and clears it, and the planner task, which calls *)
(* tick() fifty times a second.  Every public method holds the recursive   *)
(* mutex mux_, so each is one action, with one exception: on arrival at an *)
(* intermediate waypoint tick() UNLOCKS before it calls itself, and any    *)
(* other method may run in between.                                        *)
(*                                                                         *)
(* The data is abstracted to what the control flow tells apart.  A list of *)
(* waypoints is a name with a length; whether a pose is within tolerance   *)
(* is the environment's choice at every tick; a speed is zero or not.      *)
(***************************************************************************)
EXTENDS Integers

CONSTANTS Route,      \* the waypoint lists the server may send
          WpCount,    \* the number of waypoints of each
          NoRoute     \* the empty list

ASSUME RouteAssumption == /\ NoRoute \notin Route
                          /\ WpCount \in [Route -> Nat \ {0}]

VARIABLES waypoints_, active_index_, moving_, paused_, estop_, status_,
          result      \* what the tick in progress, or the last one, returned

trajVars == <<waypoints_, active_index_, moving_, paused_, estop_, status_, result>>

Size(w) == IF w = NoRoute THEN 0 ELSE WpCount[w]

TrajStatus == {"IDLE", "ACTIVE", "PAUSED", "COMPLETE", "ESTOP"}

TrajTypeOK ==
    /\ waypoints_ \in Route \cup {NoRoute}
    /\ active_index_ \in Int
    /\ moving_ \in BOOLEAN          \* current_speed_mps_ # 0
    /\ paused_ \in BOOLEAN
    /\ estop_ \in BOOLEAN
    /\ status_ \in TrajStatus
    /\ result \in {"zero", "drive", "recurse"}

TrajInit ==
    /\ waypoints_ = NoRoute
    /\ active_index_ = -1
    /\ moving_ = FALSE
    /\ paused_ = FALSE
    /\ estop_ = FALSE
    /\ status_ = "IDLE"
    /\ result = "zero"

-----------------------------------------------------------------------------
(* The methods of the network task.  result belongs to the planner.        *)

\* Mutant: a new list does not start at its first waypoint.
LoadWaypointsKeepsIndex(w) ==
    /\ waypoints_' = w
    /\ moving_' = FALSE
    /\ paused_' = FALSE
    /\ estop_' = FALSE
    /\ status_' = IF Size(w) = 0 THEN "IDLE" ELSE "ACTIVE"
    /\ UNCHANGED <<active_index_, result>>

\* Mutant: the status of the old list stays.
LoadWaypointsKeepsStatus(w) ==
    /\ waypoints_' = w
    /\ active_index_' = IF Size(w) = 0 THEN -1 ELSE 0
    /\ moving_' = FALSE
    /\ paused_' = FALSE
    /\ estop_' = FALSE
    /\ UNCHANGED <<status_, result>>

LoadWaypoints(w) ==
    /\ waypoints_' = w
    /\ active_index_' = IF Size(w) = 0 THEN -1 ELSE 0
    /\ moving_' = FALSE
    /\ paused_' = FALSE
    /\ estop_' = FALSE
    /\ status_' = IF Size(w) = 0 THEN "IDLE" ELSE "ACTIVE"
    /\ UNCHANGED result

Reset ==
    /\ waypoints_' = NoRoute
    /\ active_index_' = -1
    /\ moving_' = FALSE
    /\ paused_' = FALSE
    /\ estop_' = FALSE
    /\ status_' = "IDLE"
    /\ UNCHANGED result

Pause ==
    /\ paused_' = TRUE
    /\ status_' = "PAUSED"
    /\ UNCHANGED <<waypoints_, active_index_, moving_, estop_, result>>

\* Mutant: resume() does not ask whether there is a waypoint to go to.
ResumeAlwaysActive ==
    /\ paused_' = FALSE
    /\ status_' = "ACTIVE"
    /\ UNCHANGED <<waypoints_, active_index_, moving_, estop_, result>>

Resume ==
    /\ paused_' = FALSE
    /\ status_' = IF active_index_ \in 0 .. Size(waypoints_) - 1
                  THEN "ACTIVE" ELSE "IDLE"
    /\ UNCHANGED <<waypoints_, active_index_, moving_, estop_, result>>

EmergencyStop ==
    /\ estop_' = TRUE
    /\ status_' = "ESTOP"
    /\ moving_' = FALSE
    /\ UNCHANGED <<waypoints_, active_index_, paused_, result>>

ClearEstop ==
    /\ estop_' = FALSE
    /\ status_' = IF active_index_ >= 0 THEN "ACTIVE" ELSE "IDLE"
    /\ UNCHANGED <<waypoints_, active_index_, moving_, paused_, result>>

-----------------------------------------------------------------------------
(* tick(): the body between one lock() and the matching unlock().  A tick  *)
(* that ends in "recurse" has released the mutex and will lock it again.   *)

\* Mutant: tick() trusts the status and not the flags behind it.
StoppedByStatus == status_ # "ACTIVE" \/ active_index_ < 0

Stopped == \/ estop_
           \/ paused_
           \/ status_ \in {"IDLE", "COMPLETE"}
           \/ active_index_ < 0

TickStopped ==
    /\ Stopped
    /\ moving_' = FALSE
    /\ result' = "zero"
    /\ UNCHANGED <<waypoints_, active_index_, paused_, estop_, status_>>

\* Mutant: past the end the velocity is zeroed, the status left.
TickPastEndKeepsStatus ==
    /\ ~Stopped
    /\ active_index_ >= Size(waypoints_)
    /\ moving_' = FALSE
    /\ result' = "zero"
    /\ UNCHANGED <<waypoints_, active_index_, paused_, estop_, status_>>

\* The index is already past the last waypoint.
TickPastEnd ==
    /\ ~Stopped
    /\ active_index_ >= Size(waypoints_)
    /\ status_' = "COMPLETE"
    /\ moving_' = FALSE
    /\ result' = "zero"
    /\ UNCHANGED <<waypoints_, active_index_, paused_, estop_>>

\* Mutant: the status takes the name that goes to the server.
TickArriveWireName ==
    /\ ~Stopped
    /\ active_index_ < Size(waypoints_)
    /\ active_index_' = active_index_ + 1
    /\ moving_' \in BOOLEAN
    /\ IF active_index_' >= Size(waypoints_)
       THEN status_' = "COMPLETED" /\ result' = "zero"
       ELSE UNCHANGED status_ /\ result' = "recurse"
    /\ UNCHANGED <<waypoints_, paused_, estop_>>

\* The pose is within the tolerance of the active waypoint.
TickArrive ==
    /\ ~Stopped
    /\ active_index_ < Size(waypoints_)
    /\ active_index_' = active_index_ + 1
    /\ IF active_index_' >= Size(waypoints_)
       THEN /\ status_' = "COMPLETE"
            /\ moving_' = FALSE
            /\ result' = "zero"
       ELSE /\ moving_' \in BOOLEAN
            /\ result' = "recurse"
            /\ UNCHANGED status_
    /\ UNCHANGED <<waypoints_, paused_, estop_>>

\* The pose is not: a velocity towards the active waypoint.
TickDrive ==
    /\ ~Stopped
    /\ active_index_ < Size(waypoints_)
    /\ moving_' \in BOOLEAN
    /\ result' = "drive"
    /\ UNCHANGED <<waypoints_, active_index_, paused_, estop_, status_>>

Tick == TickStopped \/ TickPastEnd \/ TickArrive \/ TickDrive

Command ==
    \/ \E w \in Route \cup {NoRoute} : LoadWaypoints(w)
    \/ Reset
    \/ Pause
    \/ Resume
    \/ EmergencyStop
    \/ ClearEstop

TrajNext == Command \/ Tick

TrajSpec == TrajInit /\ [][TrajNext]_trajVars

-----------------------------------------------------------------------------
(* What holds whoever calls the methods, in whatever order.                *)

Held == estop_ \/ paused_

(* The status always has its cause: ESTOP and PAUSED are never reported    *)
(* without the flag behind them, and COMPLETE only at the end of a list    *)
(* that no stop interrupts.  pause(), resume(), clearEstop() and tick()    *)
(* each rewrite status_ from a part of the state only.                     *)
StatusHasCause ==
    /\ status_ = "ESTOP" => estop_
    /\ status_ = "PAUSED" => paused_
    /\ status_ = "ACTIVE" => active_index_ >= 0
    /\ status_ = "COMPLETE" => /\ ~Held
                               /\ waypoints_ # NoRoute
                               /\ active_index_ = Size(waypoints_)

(* waypoints_[active_index_] is read in bounds: a tick that gets past the  *)
(* guards has an element at the index, whatever ran while it had unlocked. *)
IndexInBounds ==
    /\ active_index_ \in -1 .. Size(waypoints_)
    /\ active_index_ = -1 <=> waypoints_ = NoRoute

(* The list is walked one waypoint at a time and never under a stop, even  *)
(* a stop that arrives between the unlock and the recursive lock of tick() *)
(* (trajectory_gen.cpp:222); only a new list starts over.                  *)
RouteWalked ==
    [][active_index_' # active_index_ =>
          \/ /\ active_index_' = active_index_ + 1
             /\ ~Held
             /\ waypoints_' = waypoints_
          \/ /\ active_index_' = IF waypoints_' = NoRoute THEN -1 ELSE 0
             /\ ~Held']_trajVars

=============================================================================
