------------------------- MODULE AgvControl_proofs -------------------------
(***************************************************************************)
(* For any orders and any interleaving of the network task and the         *)
(* planner: what an order acknowledges is what the vehicle follows, at     *)
(* most one motion command follows a stop, a completed vehicle is parked,  *)
(* and the two tasks together implement HaltPromise.                       *)
(*                                                                         *)
(* None of these is inductive alone.  The acknowledgment needs what the    *)
(* callback holds at each of its points (MsgFits, OrderHeld); the bound on *)
(* late commands needs what the planner still owes (LateInv); the parked   *)
(* vehicle needs that a completing tick returned a zero velocity           *)
(* (CompleteIsZero).                                                       *)
(***************************************************************************)
EXTENDS AgvControl, TrajectoryGen_proofs

\* What a callback holds between its steps.
MsgFits ==
    /\ hop1 \in {"load", "ack"} => msg \in Order
    /\ hop1 = "send" => msg \in InstantAction

OrderHeld ==
    /\ hop1 \in {"load", "ack"} => g_current_order_id = Kept[msg.order]
    /\ hop1 = "ack" => waypoints_ = msg.order

LateInv == AtMostOneLate /\ (Held /\ owed => late = 0)

CompleteIsZero == status_ = "COMPLETE" => result = "zero"

Inv == /\ TypeOK
       /\ MsgFits
       /\ OrderHeld
       /\ AckedIsCurrent
       /\ LateInv
       /\ CompleteIsZero
       /\ CompletedIsParked

-----------------------------------------------------------------------------
(* Every step of the vehicle is a step of the trajectory generator or      *)
(* leaves it alone.                                                        *)
LEMMA StepsTrajectory ==
  TypeOK /\ MsgFits /\ [Next]_vars => TrajNext \/ UNCHANGED trajVars
<1> SUFFICES ASSUME TypeOK, MsgFits, [Next]_vars
             PROVE  TrajNext \/ UNCHANGED trajVars
  OBVIOUS
<1>1. CASE LoadOrder
  <2>1. msg.order \in Route
    BY <1>1 DEF LoadOrder, MsgFits, Order
  <2>2. LoadWaypoints(msg.order)
    BY <1>1 DEF LoadOrder
  <2> QED BY <2>1, <2>2 DEF TrajNext, Command
<1>2. CASE StopOrClear \/ PauseOrResume
  BY <1>2 DEF StopOrClear, PauseOrResume, TrajNext, Command
<1>3. CASE PlannerTick
  BY <1>3 DEF PlannerTick, TrajNext
<1>4. CASE Recv \/ RejectOrder \/ StoreOrderId \/ AcceptOrder \/ Hop1Send
  BY <1>4 DEF Recv, RejectOrder, StoreOrderId, AcceptOrder, Hop1Send, FrameWritten
<1>5. CASE PlannerStatus \/ PlannerSend
  BY <1>5 DEF PlannerStatus, PlannerSend
<1>6. CASE UNCHANGED vars
  BY <1>6 DEF vars
<1> QED
  BY <1>1, <1>2, <1>3, <1>4, <1>5, <1>6 DEF Next, Hop1Step, Planner

(* The modes of the frames hop1_task and the planner write.                *)
LEMMA ModeType ==
  /\ ActionMode \in {"SAFE_STOP", "IDLE"}
  /\ \A b \in BOOLEAN : CommandMode(b) \in Mode
  BY DEF ActionMode, CommandMode, Mode

\* What is kept of an order's id is an order id.
LEMMA KeptIsId ==
  /\ \A r \in Route : KeptId(r) = Kept[r] /\ Kept[r] \in OrderId
  /\ KeptId(NoRoute) = NoRoute /\ NoRoute \in OrderId
<1>1. \A r \in Route : KeptId(r) = Kept[r]
  BY RouteAssumption DEF KeptId
<1>2. KeptId(NoRoute) = NoRoute
  BY DEF KeptId
<1> QED BY <1>1, <1>2 DEF OrderId

LEMMA CallbackTypeStep ==
  CallbackTypeOK /\ MsgFits /\ [Next]_vars => CallbackTypeOK'
<1> SUFFICES ASSUME CallbackTypeOK, MsgFits, [Next]_vars
             PROVE  CallbackTypeOK'
  OBVIOUS
<1> USE DEF CallbackTypeOK
<1>1. CASE Recv
  BY <1>1 DEF Recv
<1>2. CASE RejectOrder
  <2>1. msg \in Order
    BY <1>2 DEF RejectOrder, Order, InstantAction, NoMessage
  <2> QED BY <1>2, <2>1 DEF RejectOrder, Return, Order
<1>3. CASE StoreOrderId
  <2>1. msg \in Order
    BY <1>3 DEF StoreOrderId, Order, InstantAction, NoMessage
  <2> QED BY <1>3, <2>1, KeptIsId DEF StoreOrderId, Order
<1>4. CASE LoadOrder
  BY <1>4 DEF LoadOrder
<1>5. CASE AcceptOrder
  BY <1>5 DEF AcceptOrder, Return, MsgFits, Order
<1>6. CASE StopOrClear
  BY <1>6 DEF StopOrClear
<1>7. CASE PauseOrResume
  BY <1>7 DEF PauseOrResume, Return
<1>8. CASE Hop1Send
  BY <1>8 DEF Hop1Send, FrameWritten, Return
<1>9. CASE Planner \/ UNCHANGED vars
  BY <1>9 DEF Planner, PlannerTick, PlannerStatus, PlannerSend, hop1Vars, vars
<1> QED
  BY <1>1, <1>2, <1>3, <1>4, <1>5, <1>6, <1>7, <1>8, <1>9 DEF Next, Hop1Step

LEMMA TypeStep == TypeOK /\ MsgFits /\ [Next]_vars => TypeOK'
<1> SUFFICES ASSUME TypeOK, MsgFits, [Next]_vars PROVE TypeOK'
  OBVIOUS
<1>1. TrajTypeOK'
  BY StepsTrajectory, TrajTypeStep DEF TypeOK, TrajTypeOK, trajVars
<1>2. CallbackTypeOK'
  BY CallbackTypeStep DEF TypeOK
<1>3. planner' \in {"tick", "status", "send"}
  BY DEF TypeOK, Next, Hop1Step, Hop1Send, Planner, PlannerTick, PlannerStatus,
         PlannerSend, plannerVars, vars
<1>4. traj_status' \in TrajStatus
  BY DEF TypeOK, TrajTypeOK, Next, Hop1Step, Hop1Send, Planner, PlannerTick,
         PlannerStatus, PlannerSend, plannerVars, vars
<1>5. cmd' \in Mode
  BY ModeType
  DEF TypeOK, Next, Hop1Step, Hop1Send, Planner, PlannerTick, PlannerStatus,
      PlannerSend, SendMotionCmd, stmVars, vars, Mode
<1>6. latched' \in BOOLEAN
  <2>1. ASSUME NEW mode, SendMotionCmd(mode) PROVE latched' \in BOOLEAN
    BY <2>1, Zenon DEF TypeOK, SendMotionCmd, Received
  <2>2. CASE Hop1Send
    BY <2>1, <2>2 DEF Hop1Send
  <2>3. CASE PlannerSend
    BY <2>1, <2>3 DEF PlannerSend
  <2>4. CASE UNCHANGED latched
    BY <2>4, Zenon DEF TypeOK
  <2> QED
    BY <2>2, <2>3, <2>4
    DEF Next, Hop1Step, Planner, PlannerTick, PlannerStatus, stmVars, vars
<1>7. late' \in 0 .. 2
  <2>1. ASSUME NEW mode, SendMotionCmd(mode) PROVE late' \in 0 .. 2
    BY <2>1 DEF TypeOK, SendMotionCmd
  <2>2. CASE Hop1Step
    BY <2>2 DEF TypeOK, Hop1Step
  <2>3. CASE Hop1Send
    BY <2>1, <2>3 DEF Hop1Send
  <2>4. CASE PlannerSend
    BY <2>1, <2>4 DEF PlannerSend
  <2>5. CASE UNCHANGED late
    BY <2>5 DEF TypeOK
  <2> QED
    BY <2>2, <2>3, <2>4, <2>5
    DEF Next, Planner, PlannerTick, PlannerStatus, stmVars, vars
<1> QED
  BY <1>1, <1>2, <1>3, <1>4, <1>5, <1>6, <1>7 DEF TypeOK

-----------------------------------------------------------------------------
(* The inductive invariant, one lemma per part.                            *)
LEMMA InitInv == Init => Inv
<1> SUFFICES ASSUME Init PROVE Inv
  OBVIOUS
<1>1. TrajTypeOK
  BY TrajInitInv DEF Init, TrajInv
<1>2. CallbackTypeOK
  BY KeptIsId DEF Init, CallbackInit, CallbackTypeOK
<1>3. TypeOK
  <2>1. latched \in BOOLEAN
    BY Zenon DEF Init
  <2> QED BY <1>1, <1>2, <2>1 DEF Init, TypeOK, TrajStatus, Mode
<1>4. MsgFits /\ OrderHeld /\ AckedIsCurrent
  BY KeptIsId DEF Init, TrajInit, CallbackInit, MsgFits, OrderHeld, AckedIsCurrent, NoAck
<1>5. LateInv
  BY DEF Init, TrajInit, LateInv, AtMostOneLate, Held
<1>6. CompleteIsZero /\ CompletedIsParked
  BY DEF Init, TrajInit, CompleteIsZero, CompletedIsParked
<1> QED BY <1>3, <1>4, <1>5, <1>6 DEF Inv

LEMMA MsgFitsStep == TypeOK /\ MsgFits /\ [Next]_vars => MsgFits'
<1> SUFFICES ASSUME TypeOK, MsgFits, [Next]_vars PROVE MsgFits'
  OBVIOUS
<1> USE DEF MsgFits
<1>1. CASE StoreOrderId
  <2>1. msg \in Order
    BY <1>1 DEF TypeOK, CallbackTypeOK, StoreOrderId, Order, InstantAction, NoMessage
  <2> QED BY <1>1, <2>1 DEF StoreOrderId
<1>2. CASE LoadOrder
  BY <1>2 DEF LoadOrder
<1>3. CASE StopOrClear
  <2>1. msg \in InstantAction
    BY <1>3 DEF TypeOK, CallbackTypeOK, StopOrClear, Handling, Order, InstantAction,
                NoMessage
  <2> QED BY <1>3, <2>1 DEF StopOrClear
<1>4. CASE Recv \/ RejectOrder \/ AcceptOrder \/ PauseOrResume \/ Hop1Send
  BY <1>4 DEF Recv, RejectOrder, AcceptOrder, PauseOrResume, Hop1Send, FrameWritten,
              Return
<1>5. CASE Planner \/ UNCHANGED vars
  BY <1>5 DEF Planner, PlannerTick, PlannerStatus, PlannerSend, hop1Vars, vars
<1> QED
  BY <1>1, <1>2, <1>3, <1>4, <1>5 DEF Next, Hop1Step

(* No tick changes the waypoints.                                          *)
LEMMA TickKeepsWaypoints == Tick => waypoints_' = waypoints_
  BY DEF Tick, TickStopped, TickPastEnd, TickArrive, TickDrive

LEMMA AckedStep ==
  TypeOK /\ MsgFits /\ OrderHeld /\ AckedIsCurrent /\ [Next]_vars
    => (OrderHeld /\ AckedIsCurrent)'
<1> SUFFICES ASSUME TypeOK, MsgFits, OrderHeld, AckedIsCurrent, [Next]_vars
             PROVE  (OrderHeld /\ AckedIsCurrent)'
  OBVIOUS
<1> USE DEF OrderHeld, AckedIsCurrent, KeptId
<1>1. CASE StoreOrderId
  BY <1>1 DEF StoreOrderId
<1>2. CASE LoadOrder
  BY <1>2 DEF LoadOrder, LoadWaypoints
<1>3. CASE AcceptOrder
  <2>1. msg.order \in Route
    BY <1>3 DEF AcceptOrder, MsgFits, Order
  <2> QED BY <1>3, <2>1, RouteAssumption DEF AcceptOrder, Return, trajVars
<1>4. CASE RejectOrder
  BY <1>4 DEF RejectOrder, Return, trajVars
<1>5. CASE StopOrClear
  BY <1>5 DEF StopOrClear, EmergencyStop, ClearEstop, Handling
<1>6. CASE PauseOrResume
  BY <1>6 DEF PauseOrResume, Pause, Resume, Handling, Return
<1>7. CASE Recv \/ Hop1Send
  BY <1>7 DEF Recv, Hop1Send, FrameWritten, Return, trajVars
<1>8. CASE PlannerTick
  BY <1>8, TickKeepsWaypoints DEF PlannerTick, hop1Vars
<1>9. CASE PlannerStatus \/ PlannerSend \/ UNCHANGED vars
  BY <1>9 DEF PlannerStatus, PlannerSend, hop1Vars, trajVars, vars
<1> QED
  BY <1>1, <1>2, <1>3, <1>4, <1>5, <1>6, <1>7, <1>8, <1>9 DEF Next, Hop1Step, Planner

(* The callbacks leave alone what the planner has returned and owes.       *)
LEMMA Hop1KeepsResult ==
  Hop1Step => UNCHANGED <<result, planner, traj_status, cmd, latched>> /\ (owed' <=> owed)
  BY DEF Hop1Step, Recv, RejectOrder, StoreOrderId, LoadOrder, AcceptOrder, StopOrClear,
         PauseOrResume, LoadWaypoints, EmergencyStop, ClearEstop, Pause, Resume, trajVars,
         plannerVars, owed

(* Only a velocity that is still owed becomes a motion command.            *)
LEMMA PositionIsOwed ==
  ASSUME planner = "send", NEW has_cmd \in {FALSE, result = "drive"},
         CommandMode(has_cmd) = "POSITION"
  PROVE  owed
  BY DEF CommandMode, owed

LEMMA LateStep == TypeOK /\ LateInv /\ [Next]_vars => LateInv'
<1> SUFFICES ASSUME TypeOK, LateInv, [Next]_vars PROVE LateInv'
  OBVIOUS
<1> USE DEF LateInv, AtMostOneLate
<1>1. CASE Hop1Step
  BY <1>1, Hop1KeepsResult DEF Hop1Step
<1>2. CASE Hop1Send
  <2>1. UNCHANGED <<trajVars, plannerVars>> /\ late' = late
    BY <1>2, ModeType DEF Hop1Send, FrameWritten, SendMotionCmd
  <2> QED BY <2>1 DEF owed, Held, trajVars, plannerVars
<1>3. CASE PlannerTick
  <2>1. Held' = Held /\ late' = late
    BY <1>3 DEF PlannerTick, Tick, TickStopped, TickPastEnd, TickArrive, TickDrive, Held,
                stmVars
  <2>2. Held => result' = "zero"
    BY <1>3 DEF PlannerTick, Tick, TickStopped, TickPastEnd, TickArrive, TickDrive, Held,
                Stopped
  <2> QED BY <2>1, <2>2 DEF owed
<1>4. CASE PlannerStatus
  BY <1>4 DEF PlannerStatus, owed, Held, trajVars, stmVars
<1>5. CASE PlannerSend
  <2>1. ~owed' /\ (Held' <=> Held)
    BY <1>5 DEF PlannerSend, owed, Held, trajVars
  <2>2. late' = late \/ (Held /\ owed /\ late' = late + 1)
    BY <1>5, PositionIsOwed DEF PlannerSend, SendMotionCmd, TypeOK
  <2> QED BY <2>1, <2>2 DEF TypeOK
<1>6. CASE UNCHANGED vars
  BY <1>6 DEF vars, owed, Held, trajVars, plannerVars, stmVars
<1> QED
  BY <1>1, <1>2, <1>3, <1>4, <1>5, <1>6 DEF Next, Planner

LEMMA CompletedStep ==
  CompleteIsZero /\ CompletedIsParked /\ [Next]_vars
    => (CompleteIsZero /\ CompletedIsParked)'
<1> SUFFICES ASSUME CompleteIsZero, CompletedIsParked, [Next]_vars
             PROVE  (CompleteIsZero /\ CompletedIsParked)'
  OBVIOUS
<1> USE DEF CompleteIsZero, CompletedIsParked
<1>1. CASE Hop1Step
  <2>1. status_' = "COMPLETE" => status_ = "COMPLETE"
    BY <1>1 DEF Hop1Step, Recv, RejectOrder, StoreOrderId, LoadOrder, AcceptOrder,
                StopOrClear, PauseOrResume, LoadWaypoints, EmergencyStop, ClearEstop, Pause,
                Resume, trajVars
  <2> QED BY <1>1, <2>1, Hop1KeepsResult
<1>2. CASE Hop1Send
  BY <1>2, ModeType DEF Hop1Send, FrameWritten, SendMotionCmd, trajVars, plannerVars
<1>3. CASE PlannerTick
  <2>1. status_' = "COMPLETE" => result' = "zero"
    BY <1>3 DEF PlannerTick, Tick, TickStopped, TickPastEnd, TickArrive, TickDrive, Stopped
  <2> QED BY <1>3, <2>1 DEF PlannerTick
<1>4. CASE PlannerStatus
  BY <1>4 DEF PlannerStatus, trajVars
<1>5. CASE PlannerSend
  BY <1>5, PositionIsOwed DEF PlannerSend, SendMotionCmd, owed, trajVars
<1>6. CASE UNCHANGED vars
  BY <1>6 DEF vars, trajVars, plannerVars, stmVars
<1> QED
  BY <1>1, <1>2, <1>3, <1>4, <1>5, <1>6 DEF Next, Planner

(* Inv holds in every reachable state.                                     *)
THEOREM ControlInvariant == Spec => []Inv
<1>1. Init => Inv
  BY InitInv
<1>2. Inv /\ [Next]_vars => Inv'
  BY TypeStep, MsgFitsStep, AckedStep, LateStep, CompletedStep DEF Inv
<1> QED BY <1>1, <1>2, PTL DEF Spec

(* The tasks' state keeps its types.                                       *)
THEOREM ControlTypes == Spec => []TypeOK
<1>1. Inv => TypeOK
  BY DEF Inv
<1> QED BY <1>1, ControlInvariant, PTL

(* At most one motion command follows a stop.                              *)
THEOREM OneLateCommand == Spec => []AtMostOneLate
<1>1. Inv => AtMostOneLate
  BY DEF Inv, LateInv
<1> QED BY <1>1, ControlInvariant, PTL

(* Outside onOrderReceived the order acknowledged last is the order        *)
(* followed.                                                               *)
THEOREM AcknowledgedIsFollowed == Spec => []AckedIsCurrent
<1>1. Inv => AckedIsCurrent
  BY DEF Inv
<1> QED BY <1>1, ControlInvariant, PTL

(* A vehicle whose order is complete has no motion command standing.       *)
THEOREM CompletedParked == Spec => []CompletedIsParked
<1>1. Inv => CompletedIsParked
  BY DEF Inv
<1> QED BY <1>1, ControlInvariant, PTL

(* The vehicle runs the trajectory generator as TrajectoryGen specifies    *)
(* it, so what is proved of that module under any caller holds of the      *)
(* firmware: the list is walked in order, in bounds and never under a      *)
(* stop, and each status has its cause.                                    *)
THEOREM VehicleRunsTrajectory ==
  Spec => TrajSpec /\ []StatusHasCause /\ []IndexInBounds /\ RouteWalked
<1>1. Init => TrajInit
  BY DEF Init
<1>2. Inv /\ [Next]_vars => [TrajNext]_trajVars
  BY StepsTrajectory DEF Inv
<1>3. Spec => TrajSpec
  BY <1>1, <1>2, ControlInvariant, PTL DEF Spec, TrajSpec
<1> QED BY <1>3, StatusAlwaysHasCause, IndexAlwaysInBounds, RouteIsWalked, PTL

-----------------------------------------------------------------------------
(* The refinement: the initial states are initial states of the promise,   *)
(* and every step is a step of the promise or leaves its variables alone.  *)
LEMMA PromiseInit == Init => Promise!Init
  BY DEF Init, TrajInit, Promise!Init, Held, owed

LEMMA PromiseStep == Inv /\ [Next]_vars => [Promise!Next]_(Promise!vars)
<1> SUFFICES ASSUME Inv, [Next]_vars PROVE [Promise!Next]_(Promise!vars)
  OBVIOUS
<1> USE DEF Promise!Next, Promise!vars
<1>1. CASE Hop1Step
  <2>1. Held \in BOOLEAN /\ Held' \in BOOLEAN /\ owed \in BOOLEAN /\ owed' \in BOOLEAN
    BY DEF Held, owed
  <2>2. (owed' <=> owed) /\ late' = IF ~Held /\ Held' THEN 0 ELSE late
    BY <1>1, Hop1KeepsResult DEF Hop1Step
  <2> QED BY <2>1, <2>2 DEF Promise!Hold, Promise!Release
<1>2. CASE Hop1Send
  <2>1. UNCHANGED <<trajVars, plannerVars>> /\ late' = late
    BY <1>2, ModeType DEF Hop1Send, FrameWritten, SendMotionCmd
  <2> QED BY <2>1 DEF owed, Held, trajVars, plannerVars
<1>3. CASE PlannerTick
  <2>1. Held' = Held /\ late' = late
    BY <1>3 DEF PlannerTick, Tick, TickStopped, TickPastEnd, TickArrive, TickDrive, Held,
                stmVars
  <2>2. ~owed
    BY <1>3 DEF PlannerTick, owed
  <2>3. owed' => ~Held
    BY <1>3 DEF PlannerTick, Tick, TickStopped, TickPastEnd, TickArrive, TickDrive, Held,
                Stopped, owed
  <2>4. owed \in BOOLEAN /\ owed' \in BOOLEAN
    BY DEF owed
  <2> QED BY <2>1, <2>2, <2>3, <2>4 DEF Promise!Decide
<1>4. CASE PlannerStatus
  <2>1. Held' = Held /\ late' = late /\ (owed' => owed)
    BY <1>4 DEF PlannerStatus, owed, Held, trajVars, stmVars
  <2>2. owed \in BOOLEAN /\ owed' \in BOOLEAN
    BY DEF owed
  <2> QED BY <2>1, <2>2 DEF Promise!Drop
<1>5. CASE PlannerSend
  <2>1. ~owed' /\ Held' = Held
    BY <1>5 DEF PlannerSend, owed, Held, trajVars
  <2>2. late' = late \/ (Held /\ owed /\ late' = late + 1)
    BY <1>5, PositionIsOwed DEF PlannerSend, SendMotionCmd, Inv, TypeOK, LateInv
  <2>3. owed \in BOOLEAN /\ owed' \in BOOLEAN
    BY DEF owed
  <2> QED BY <2>1, <2>2, <2>3 DEF Promise!Drop, Promise!Issue
<1>6. CASE UNCHANGED vars
  BY <1>6 DEF vars, owed, Held, trajVars, plannerVars, stmVars
<1> QED
  BY <1>1, <1>2, <1>3, <1>4, <1>5, <1>6 DEF Next, Planner

(* Whatever the two tasks do to each other, a stop is followed by at most  *)
(* the one motion command decided before it, and nothing new is decided    *)
(* while it is in force: the vehicle implements HaltPromise.               *)
THEOREM HaltIsKept == Spec => KeepsPromise
<1> USE DEF KeepsPromise, Promise!Spec
<1> QED BY PromiseInit, PromiseStep, ControlInvariant, PTL DEF Spec

-----------------------------------------------------------------------------
(* What a stop has reached it keeps, whoever steps while it is in force.   *)

\* clearFault has ended the stop before it writes its frame.
ClearIsNoStop == hop1 = "send" /\ status_ = "ESTOP" => msg.action = "emergencyStop"

\* The drive is latched, and the planner's next frame will not undo it.
StoppedSafe == latched /\ (planner = "send" => traj_status = "ESTOP")

\* No motion is commanded, and none is owed.
Quiet == cmd # "POSITION" /\ ~owed

LEMMA StopIsNew ==
  ASSUME Next, status_' = "ESTOP", status_ # "ESTOP"
  PROVE  StopOrClear /\ Handling("emergencyStop")
<1>1. ~Planner /\ ~Hop1Send
  BY DEF Planner, PlannerTick, PlannerStatus, PlannerSend, Hop1Send, FrameWritten,
         Tick, TickStopped, TickPastEnd, TickArrive, TickDrive, trajVars
<1>2. Hop1Step
  BY <1>1 DEF Next
<1> QED
  BY <1>2 DEF Hop1Step, Recv, RejectOrder, StoreOrderId, LoadOrder, AcceptOrder,
         StopOrClear, PauseOrResume, LoadWaypoints, ClearEstop, Pause, Resume, trajVars

LEMMA ClearIsNoStopStep == ClearIsNoStop /\ [Next]_vars => ClearIsNoStop'
<1> SUFFICES ASSUME ClearIsNoStop, [Next]_vars,
                    hop1' = "send", msg'.action # "emergencyStop", status_' = "ESTOP"
             PROVE  FALSE
  BY DEF ClearIsNoStop
<1>1. CASE StopOrClear
  BY <1>1 DEF StopOrClear, Handling, ClearEstop
<1>2. CASE ~StopOrClear
  <2>1. UNCHANGED <<hop1, msg>>
    BY <1>2 DEF Next, Hop1Step, Hop1Send, Recv, RejectOrder, StoreOrderId, LoadOrder,
           AcceptOrder, PauseOrResume, FrameWritten, Return, Planner, PlannerTick,
           PlannerStatus, PlannerSend, hop1Vars, vars
  <2>2. status_ = "ESTOP"
    <3>1. CASE Next
      BY <1>2, <3>1, StopIsNew
    <3>2. CASE UNCHANGED vars
      BY <3>2 DEF vars, trajVars
    <3> QED BY <3>1, <3>2
  <2> QED BY <2>1, <2>2 DEF ClearIsNoStop
<1> QED BY <1>1, <1>2

LEMMA ClearEndsStop == Spec => []ClearIsNoStop
<1>1. Init => ClearIsNoStop
  BY DEF Init, CallbackInit, ClearIsNoStop
<1> QED BY <1>1, ClearIsNoStopStep, PTL DEF Spec

(* A drive that a stop has latched stays latched as long as the status is  *)
(* ESTOP, whatever frames the two tasks send or the wire loses: the one    *)
(* frame that unlatches is an IDLE, and neither task has one to send.  So  *)
(* StopReachesDrive is left with the first SAFE_STOP that is received.  It *)
(* says nothing once pause() or resume() has rewritten the status.         *)
THEOREM LatchIsKept ==
  Spec => [][StoppedSafe /\ status_ = "ESTOP" /\ status_' = "ESTOP" => StoppedSafe']_vars
<1>1. ASSUME Inv, ClearIsNoStop, Next, StoppedSafe, status_ = "ESTOP", status_' = "ESTOP"
      PROVE  StoppedSafe'
  <2> USE DEF StoppedSafe
  <2>1. CASE Hop1Step
    BY <1>1, <2>1, Hop1KeepsResult
  <2>2. CASE Hop1Send
    <3>1. ActionMode = "SAFE_STOP"
      BY <1>1, <2>2 DEF ClearIsNoStop, Hop1Send, FrameWritten, ActionMode
    <3> QED BY <1>1, <2>2, <3>1 DEF Hop1Send, SendMotionCmd, Received, plannerVars
  <2>3. CASE PlannerTick
    BY <1>1, <2>3 DEF PlannerTick, stmVars
  <2>4. CASE PlannerStatus
    BY <1>1, <2>4 DEF PlannerStatus, stmVars
  <2>5. CASE PlannerSend
    <3>1. \A b \in {FALSE, result = "drive"} : CommandMode(b) = "SAFE_STOP"
      BY <1>1, <2>5 DEF PlannerSend, CommandMode
    <3> QED BY <1>1, <2>5, <3>1 DEF PlannerSend, SendMotionCmd, Received
  <2> QED BY <1>1, <2>1, <2>2, <2>3, <2>4, <2>5 DEF Next, Planner
<1>2. Inv /\ ClearIsNoStop /\ [Next]_vars =>
        [StoppedSafe /\ status_ = "ESTOP" /\ status_' = "ESTOP" => StoppedSafe']_vars
  BY <1>1
<1> QED BY <1>2, ControlInvariant, ClearEndsStop, PTL DEF Spec

(* A vehicle that is held and quiet stays quiet until it is released: no   *)
(* motion is decided under a stop, and none that was not owed is sent.     *)
THEOREM HeldStaysQuiet ==
  Spec => [][Held /\ Held' /\ Quiet => Quiet']_vars
<1>1. ASSUME Inv, Next, Held, Held', Quiet
      PROVE  Quiet'
  <2> USE DEF Quiet
  <2>1. CASE Hop1Step
    BY <1>1, <2>1, Hop1KeepsResult
  <2>2. CASE Hop1Send
    BY <1>1, <2>2, ModeType DEF Hop1Send, FrameWritten, SendMotionCmd, owed, trajVars, plannerVars
  <2>3. CASE PlannerTick
    BY <1>1, <2>3 DEF PlannerTick, Tick, TickStopped, TickPastEnd, TickArrive, TickDrive,
                      Stopped, Held, owed, stmVars
  <2>4. CASE PlannerStatus
    BY <1>1, <2>4 DEF PlannerStatus, owed, trajVars, stmVars
  <2>5. CASE PlannerSend
    BY <1>1, <2>5, PositionIsOwed DEF PlannerSend, SendMotionCmd, owed
  <2> QED BY <1>1, <2>1, <2>2, <2>3, <2>4, <2>5 DEF Next, Planner
<1>2. Inv /\ [Next]_vars => [Held /\ Held' /\ Quiet => Quiet']_vars
  BY <1>1
<1> QED BY <1>2, ControlInvariant, PTL DEF Spec
=============================================================================
