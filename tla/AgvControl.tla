----------------------------- MODULE AgvControl -----------------------------
(***************************************************************************)
(* The motion control path of the firmware (main/main.cpp): the planner    *)
(* task (core 1) turns the trajectory into one motion command per period,  *)
(* beside the network task of Callbacks (core 0), which sets the           *)
(* trajectory and writes motion commands of its own to the same UART.  The *)
(* tasks run in parallel and meet in the trajectory generator, one mutex   *)
(* acquisition at a time, and on the UART, one frame at a time.            *)
(*                                                                         *)
(* The STM32 is external: what is modelled of it is the latch the          *)
(* firmware's comments ascribe to it.                                      *)
(***************************************************************************)
EXTENDS Callbacks

CONSTANTS LossyLink   \* may a frame be lost on the wire to the STM32?

ASSUME LossyAssumption == LossyLink \in BOOLEAN

VARIABLES
    planner,            \* where the planner task is in its loop
    traj_status,        \* the planner's local copy of the status
    cmd,                \* the mode of the last motion command written
    latched,            \* external: the STM32 has latched a safe stop
    late                \* history: motion commands since the stop in force

plannerVars == <<planner, traj_status>>
stmVars == <<cmd, latched, late>>
vars == <<trajVars, hop1Vars, plannerVars, stmVars>>

Mode == {"IDLE", "POSITION", "SAFE_STOP"}

TypeOK ==
    /\ TrajTypeOK
    /\ CallbackTypeOK
    /\ planner \in {"tick", "status", "send"}
    /\ traj_status \in TrajStatus
    /\ cmd \in Mode
    /\ latched \in BOOLEAN
    /\ late \in 0 .. 2

Init ==
    /\ TrajInit
    /\ CallbackInit
    /\ planner = "tick"
    /\ traj_status = "IDLE"
    /\ cmd = "IDLE"
    /\ latched = FALSE
    /\ late = 0

-----------------------------------------------------------------------------
(* A frame the STM32 receives with mode SAFE_STOP latches a safe stop, one *)
(* with mode IDLE clears it.                                               *)
Received(mode) == latched' = CASE mode = "SAFE_STOP" -> TRUE
                               [] mode = "IDLE"      -> FALSE
                               [] OTHER              -> latched

\* A motion command written to the UART.
SendMotionCmd(mode) ==
    /\ cmd' = mode
    /\ late' = IF Held /\ mode = "POSITION" THEN IF late = 2 THEN 2 ELSE late + 1
                                            ELSE late
    /\ \/ Received(mode)
       \/ LossyLink /\ UNCHANGED latched

-----------------------------------------------------------------------------
\* A message read or a step of a callback that writes no frame.
Hop1Step ==
    /\ \/ Recv \/ RejectOrder \/ StoreOrderId \/ LoadOrder \/ AcceptOrder
       \/ StopOrClear \/ PauseOrResume
    /\ late' = IF ~Held /\ Held' THEN 0 ELSE late
    /\ UNCHANGED <<plannerVars, cmd, latched>>

Hop1Send ==
    /\ FrameWritten
    /\ SendMotionCmd(ActionMode)
    /\ UNCHANGED plannerVars

-----------------------------------------------------------------------------
(* The planner: tick the trajectory, read its status, send one command.    *)

PlannerTick ==
    /\ planner = "tick"
    /\ Tick
    /\ planner' = IF result' = "recurse" THEN "tick" ELSE "status"
    /\ UNCHANGED <<hop1Vars, traj_status, stmVars>>

PlannerStatus ==
    /\ planner = "status"
    /\ traj_status' = status_
    /\ planner' = "send"
    /\ UNCHANGED <<trajVars, hop1Vars, stmVars>>

\* Mutant: a velocity is a motion command whatever the status became since.
CommandModeByVelocity(has_cmd) ==
    CASE traj_status = "ESTOP" -> "SAFE_STOP"
      [] has_cmd               -> "POSITION"
      [] OTHER                 -> "IDLE"

\* Mutant: an emergency stop stands the drive down like any other pause.
CommandModeNoSafeStop(has_cmd) ==
    IF traj_status = "ACTIVE" /\ has_cmd THEN "POSITION" ELSE "IDLE"

(* has_cmd: a zero velocity never is a command; a computed velocity is one *)
(* unless every component is below the dead band of toSwerveCommand.       *)
CommandMode(has_cmd) ==
    CASE traj_status = "ESTOP"             -> "SAFE_STOP"
      [] traj_status = "ACTIVE" /\ has_cmd -> "POSITION"
      [] OTHER                             -> "IDLE"

\* Mutant: a vehicle with nothing to do is sent nothing.
PlannerSendWhenActive ==
    /\ planner = "send"
    /\ IF traj_status \in {"ACTIVE", "ESTOP"}
       THEN \E has_cmd \in {FALSE, result = "drive"} : SendMotionCmd(CommandMode(has_cmd))
       ELSE UNCHANGED stmVars
    /\ planner' = "tick"
    /\ UNCHANGED <<trajVars, hop1Vars, traj_status>>

PlannerSend ==
    /\ planner = "send"
    /\ \E has_cmd \in {FALSE, result = "drive"} : SendMotionCmd(CommandMode(has_cmd))
    /\ planner' = "tick"
    /\ UNCHANGED <<trajVars, hop1Vars, traj_status>>

Planner == PlannerTick \/ PlannerStatus \/ PlannerSend

Next == Hop1Step \/ Hop1Send \/ Planner

Spec == Init /\ [][Next]_vars

(* The planner is the highest task of its core and runs on a timer; a      *)
(* callback waits for nothing but the mutex, which is held for one method. *)
(* Of the world: a vehicle driven at a waypoint again and again, its drive *)
(* not latched, reaches it, and a wire that loses frames does not lose     *)
(* every one.                                                              *)
FairSpec ==
    /\ Spec
    /\ WF_vars(Planner)
    /\ WF_vars(Hop1Step /\ ~Recv)
    /\ WF_vars(Hop1Send)
    /\ SF_vars(PlannerTick /\ TickArrive /\ ~latched)
    /\ SF_vars(PlannerSend /\ Received(cmd'))

-----------------------------------------------------------------------------
(* A stop (emergencyStop or startPause) may be overtaken by the command    *)
(* the planner had already decided, and by no other.                       *)
AtMostOneLate == late <= 1

(* What the network task acknowledged is what the vehicle follows: outside *)
(* onOrderReceived an ACCEPTED order is the one whose waypoints are        *)
(* loaded, until the next is stored, and the current order id is what is   *)
(* kept of that order's.  The acknowledgment has the id in full.           *)
AckedIsCurrent ==
    hop1 \notin {"load", "ack"} =>
        /\ g_current_order_id = KeptId(waypoints_)
        /\ ack.status = "ACCEPTED" => ack.order = waypoints_

(* A vehicle that has completed its order is parked: when the planner's    *)
(* loop comes round with status COMPLETE its last command was no motion.   *)
CompletedIsParked ==
    status_ = "COMPLETE" /\ planner = "tick" => cmd # "POSITION"

(* ESP32_CONNECTION_GUIDE.md:265: an emergency stop stays safe, and only   *)
(* clearFault lets the vehicle run again.  loadWaypoints() clears estop_.  *)
OnlyClearFaultReleases == [][estop_ /\ ~estop_' => Handling("clearFault")]_vars

\* pause() or resume() has rewritten the status under an emergency stop.
Overruled == estop_ /\ status_ # "ESTOP"

(* An emergency stop that stays in force ends latched in the STM32, for    *)
(* all the frames the wire loses, since the planner repeats SAFE_STOP      *)
(* every period; or else it stays Overruled, or is so again and again.     *)
(* startPause and stopPause rewrite the status and leave estop_ set; what  *)
(* the planner sends from then on is IDLE, which clears the latch, though  *)
(* ESP32_CONNECTION_GUIDE.md:265 leaves that to clearFault.  The vehicle   *)
(* stands in that case too (HeldIsNotDriven), but it is not latched.       *)
StopReachesDrive == <>[]estop_ => <>[]latched \/ []<>Overruled

(* A vehicle that stays held is in the end not commanded to move.          *)
HeldIsNotDriven == <>[]Held => <>[](cmd # "POSITION")

(* An order left alone, under no stop and with the drive not latched,      *)
(* completes.  The status does not tell: clearEstop() on a paused vehicle  *)
(* and resume() on a stopped one report ACTIVE with the other flag still   *)
(* set, and the vehicle stands.                                            *)
OrderCompletes ==
    <>[](hop1 = "recv" /\ ~latched) => <>[](status_ = "ACTIVE" => Held)

(* main/main.cpp:526: clearFault sends IDLE to clear the latched safe      *)
(* stop.  It sends one, and the planner may hold a SAFE_STOP decided       *)
(* before, which goes out behind it; from then on an active order makes    *)
(* every command a POSITION.  After clearFault, unless another stop comes, *)
(* the drive should be found free some time.                               *)
ClearFaultUnlatches ==
    LET OverdueSafeStop == planner = "send" /\ traj_status = "ESTOP"
    IN  hop1 = "send" /\ msg.action = "clearFault"
            ~> (~latched /\ ~OverdueSafeStop) \/ Held

\* The promise of HaltPromise: decided is a velocity that is a command still.
owed == /\ result = "drive"
        /\ planner \in {"status", "send"}
        /\ planner = "send" => traj_status = "ACTIVE"

Promise == INSTANCE HaltPromise WITH held <- Held

(* Every step of the two tasks is a step of that promise, or none of it.   *)
KeepsPromise == Promise!Spec
=============================================================================
