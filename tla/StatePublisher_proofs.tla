----------------------- MODULE StatePublisher_proofs -----------------------
(***************************************************************************)
(* For any orders and waypoint lists: the state publisher's torn reads     *)
(* never report an order as completed that was not, except in a            *)
(* publication that an order overlaps, and agree once nothing moves.       *)
(*                                                                         *)
(* The publisher reads the id first and the state last.  The invariant     *)
(* says what ties them: outside the two steps in which an order is taken   *)
(* in, the id is that of the list followed (OrderHeld), a completed list   *)
(* is done (DoneHeld), and a publication that saw no order taken in still  *)
(* has the present id (CopyHeld).                                          *)
(***************************************************************************)
EXTENDS StatePublisher, TrajectoryGen_proofs

\* Between the store of the id and the load of the list both are one order's.
MsgFits ==
    /\ hop1 \in {"load", "ack"} => msg \in Order
    /\ hop1 = "load" => g_current_order_id = Kept[msg.order]

OrderHeld == hop1 # "load" => g_current_order_id = KeptId(waypoints_)

DoneHeld == hop1 # "load" /\ status_ = "COMPLETE" => KeptId(waypoints_) \in done

CopyHeld ==
    pub # "orderId" /\ ~overlapped =>
        hop1 # "load" /\ pub_order = g_current_order_id

PubInv ==
    /\ TypeOK /\ IndexInBounds /\ StatusHasCause
    /\ MsgFits /\ OrderHeld /\ DoneHeld /\ CopyHeld

-----------------------------------------------------------------------------
(* The callbacks and the planner use the trajectory generator as its       *)
(* module specifies; the publisher only reads it.                          *)
LEMMA PubStepsTrajectory ==
  PubInv /\ [Next]_vars => TrajNext \/ UNCHANGED trajVars
<1> SUFFICES ASSUME PubInv, [Next]_vars PROVE TrajNext \/ UNCHANGED trajVars
  OBVIOUS
<1>1. CASE LoadOrder
  <2>1. msg.order \in Route
    BY <1>1 DEF LoadOrder, PubInv, MsgFits, Order
  <2> QED BY <1>1, <2>1 DEF LoadOrder, TrajNext, Command
<1>2. CASE StopOrClear \/ PauseOrResume
  BY <1>2 DEF StopOrClear, PauseOrResume, TrajNext, Command
<1>3. CASE Recv \/ RejectOrder \/ StoreOrderId \/ AcceptOrder \/ FrameWritten
  BY <1>3 DEF Recv, RejectOrder, StoreOrderId, AcceptOrder, FrameWritten
<1>4. CASE Publisher
  BY <1>4 DEF Publisher, PubOrderId, PubStatus, PubSend
<1>5. CASE PlannerTask
  BY <1>5 DEF PlannerTask, TrajNext
<1>6. CASE UNCHANGED vars
  BY <1>6 DEF vars
<1> QED BY <1>1, <1>2, <1>3, <1>4, <1>5, <1>6 DEF Next, Hop1Task, Callback

LEMMA PubTrajStep ==
  PubInv /\ [Next]_vars => TrajTypeOK' /\ IndexInBounds' /\ StatusHasCause'
<1>1. PubInv => TrajInv
  BY DEF PubInv, TypeOK, TrajInv
<1> QED
  BY <1>1, PubStepsTrajectory, TrajStepInv, TrajStutterInv DEF TrajInv

\* What is kept of an order's id is an order id.
LEMMA KeptIsId ==
  /\ \A r \in Route : KeptId(r) = Kept[r] /\ Kept[r] \in OrderId
  /\ KeptId(NoRoute) = NoRoute /\ NoRoute \in OrderId
<1>1. \A r \in Route : KeptId(r) = Kept[r]
  BY RouteAssumption DEF KeptId
<1>2. KeptId(NoRoute) = NoRoute
  BY DEF KeptId
<1> QED BY <1>1, <1>2 DEF OrderId

(* The callbacks' state keeps its types.                                   *)
LEMMA PubCallbackStep ==
  PubInv /\ [Next]_vars => CallbackTypeOK' /\ MsgFits'
<1> SUFFICES ASSUME PubInv, [Next]_vars PROVE CallbackTypeOK' /\ MsgFits'
  OBVIOUS
<1> USE DEF PubInv, TypeOK, CallbackTypeOK, MsgFits
<1>1. CASE Recv
  BY <1>1 DEF Recv
<1>2. CASE RejectOrder
  <2>1. msg \in Order
    BY <1>2 DEF RejectOrder, Order, InstantAction, NoMessage
  <2> QED BY <1>2, <2>1 DEF RejectOrder, Return, Order
<1>3. CASE StoreOrderId
  <2>1. msg \in Order
    BY <1>3 DEF StoreOrderId, Order, InstantAction, NoMessage
  <2> QED BY <1>3, <2>1, KeptIsId DEF StoreOrderId, Order
<1>4. CASE LoadOrder
  BY <1>4 DEF LoadOrder
<1>5. CASE AcceptOrder
  BY <1>5 DEF AcceptOrder, Return, Order
<1>6. CASE StopOrClear
  BY <1>6 DEF StopOrClear
<1>7. CASE PauseOrResume
  BY <1>7 DEF PauseOrResume, Return
<1>8. CASE FrameWritten
  BY <1>8 DEF FrameWritten, Return
<1>9. CASE UNCHANGED hop1Vars
  BY <1>9 DEF hop1Vars
<1> QED
  BY <1>1, <1>2, <1>3, <1>4, <1>5, <1>6, <1>7, <1>8, <1>9
  DEF Next, Hop1Task, Callback, Publisher, PubOrderId, PubStatus, PubSend,
      PlannerTask, vars

(* A list is completed by a tick alone, and is then an order's.            *)
LEMMA DoneStep ==
  PubInv /\ [Next]_vars => done' \subseteq OrderId /\ DoneHeld'
<1> SUFFICES ASSUME PubInv, [Next]_vars PROVE done' \subseteq OrderId /\ DoneHeld'
  OBVIOUS
<1>1. /\ done \subseteq OrderId /\ KeptId(waypoints_) \in OrderId
      /\ waypoints_' = waypoints_ => KeptId(waypoints_)' = KeptId(waypoints_)
  BY KeptIsId DEF PubInv, TypeOK, TrajTypeOK, KeptId
<1>2. CASE StoreOrderId /\ Hop1Task
  BY <1>1, <1>2 DEF StoreOrderId, Hop1Task, DoneHeld
<1>3. CASE ~StoreOrderId /\ Hop1Task
  <2>1. done' = done
    BY <1>3 DEF Hop1Task
  <2>2. CASE LoadOrder
    BY <1>1, <2>1, <2>2 DEF LoadOrder, LoadWaypoints, DoneHeld
  <2>3. CASE StopOrClear \/ PauseOrResume
    <3>1. hop1 = "handle"
      BY <2>3 DEF StopOrClear, PauseOrResume, Handling
    <3> QED
      BY <1>1, <2>1, <2>3, <3>1
      DEF StopOrClear, PauseOrResume, EmergencyStop, ClearEstop, Pause, Resume,
          PubInv, DoneHeld
  <2>4. CASE Recv \/ RejectOrder \/ AcceptOrder \/ FrameWritten
    BY <1>1, <2>1, <2>4
    DEF Recv, RejectOrder, AcceptOrder, FrameWritten, Return, trajVars, PubInv, DoneHeld
  <2> QED BY <1>3, <2>2, <2>3, <2>4 DEF Hop1Task, Callback
<1>4. CASE PlannerTask
  <2>1. UNCHANGED <<waypoints_, hop1>>
    BY <1>4 DEF PlannerTask, Tick, TickStopped, TickPastEnd, TickArrive, TickDrive, hop1Vars
  <2> QED BY <1>1, <1>4, <2>1 DEF PlannerTask, PubInv, DoneHeld
<1>5. CASE Publisher \/ UNCHANGED vars
  BY <1>1, <1>5
  DEF Publisher, PubOrderId, PubStatus, PubSend, vars, pubVars, trajVars, hop1Vars,
      PubInv, DoneHeld
<1> QED BY <1>2, <1>3, <1>4, <1>5 DEF Next

(* The id is the list's, and the publisher's copy the id.                  *)
LEMMA IdStep == PubInv /\ [Next]_vars => OrderHeld' /\ CopyHeld'
<1> SUFFICES ASSUME PubInv, [Next]_vars PROVE OrderHeld' /\ CopyHeld'
  OBVIOUS
<1> USE DEF PubInv, OrderHeld, CopyHeld
<1>1. CASE Hop1Task /\ (StoreOrderId \/ LoadOrder)
  <2>1. LoadOrder => msg.order \in Route
    BY DEF LoadOrder, MsgFits, Order
  <2> QED
    BY <1>1, <2>1, RouteAssumption
    DEF Hop1Task, StoreOrderId, LoadOrder, LoadWaypoints, MsgFits, KeptId
<1>2. CASE Hop1Task /\ ~(StoreOrderId \/ LoadOrder)
  <2>1. overlapped' = overlapped /\ pub' = pub /\ pub_order' = pub_order
    BY <1>2 DEF Hop1Task, TypeOK
  <2>2. /\ g_current_order_id' = g_current_order_id /\ waypoints_' = waypoints_
        /\ hop1 # "load" /\ hop1' # "load"
    BY <1>2
    DEF Hop1Task, Callback, Recv, RejectOrder, AcceptOrder, StopOrClear, PauseOrResume,
        FrameWritten, Handling, Return, trajVars, EmergencyStop, ClearEstop, Pause, Resume
  <2> QED BY <2>1, <2>2 DEF KeptId
<1>3. CASE PlannerTask
  BY <1>3
  DEF PlannerTask, Tick, TickStopped, TickPastEnd, TickArrive, TickDrive, hop1Vars, KeptId
<1>4. CASE Publisher
  BY <1>4 DEF Publisher, PubOrderId, PubStatus, PubSend, trajVars, hop1Vars, KeptId
<1>5. CASE UNCHANGED vars
  BY <1>5 DEF vars, pubVars, trajVars, hop1Vars, KeptId
<1> QED BY <1>1, <1>2, <1>3, <1>4, <1>5 DEF Next

LEMMA PayloadType == TypeOK => StatePayload \in Payload
<1> SUFFICES ASSUME TypeOK PROVE StatePayload \in Payload
  OBVIOUS
<1>1. orderStateString \in {"IDLE", "ACTIVE", "PAUSED", "COMPLETED", "ESTOP"}
  BY DEF TypeOK, TrajTypeOK, TrajStatus, orderStateString
<1> QED BY <1>1 DEF TypeOK, StatePayload, Payload

LEMMA PubTypeStep == PubInv /\ [Next]_vars => TypeOK'
<1> SUFFICES ASSUME PubInv, [Next]_vars PROVE TypeOK'
  OBVIOUS
<1>1. TrajTypeOK' /\ CallbackTypeOK' /\ done' \subseteq OrderId
  BY PubTrajStep, PubCallbackStep, DoneStep
<1> USE DEF PubInv, Next, Publisher, PubOrderId, PubStatus, PubSend, Hop1Task, PlannerTask,
            vars, pubVars
<1>2. pub' \in {"orderId", "status", "orderState"}
  BY DEF TypeOK
<1>3. pub_order' \in OrderId
  BY DEF TypeOK, CallbackTypeOK
<1>4. pub_mode' \in OperatingMode
  BY DEF TypeOK, OperatingMode
<1>5. pub_safety' \in SafetyState
  BY SafetyAssumption DEF TypeOK, SafetyState
<1>6. state' \in Payload \cup {Unsent}
  <2>1. state' = state \/ state' = StatePayload
    OBVIOUS
  <2> QED BY <2>1, PayloadType DEF TypeOK
<1>7. overlapped' \in BOOLEAN
  <2>1. \/ overlapped' = (hop1 = "load")
        \/ overlapped' = (overlapped \/ StoreOrderId \/ LoadOrder)
        \/ overlapped' = overlapped
    BY Zenon
  <2> QED BY <2>1, Zenon DEF TypeOK
<1>8. /\ (Payload \cup {Unsent})' = Payload \cup {Unsent}
      /\ OperatingMode' = OperatingMode /\ SafetyState' = SafetyState
  BY DEF Payload, Unsent, OperatingMode, SafetyState
<1> QED BY <1>1, <1>2, <1>3, <1>4, <1>5, <1>6, <1>7, <1>8, Zenon DEF TypeOK

LEMMA PubInitInv == Init => PubInv
<1> SUFFICES ASSUME Init PROVE PubInv
  OBVIOUS
<1>1. TrajTypeOK /\ IndexInBounds /\ StatusHasCause
  BY TrajInitInv DEF Init, TrajInv
<1>2. CallbackTypeOK
  BY KeptIsId DEF Init, CallbackInit, CallbackTypeOK
<1>3. TypeOK
  BY <1>1, <1>2, KeptIsId DEF Init, TypeOK, OperatingMode, SafetyState
<1>4. MsgFits /\ OrderHeld /\ DoneHeld /\ CopyHeld
  BY KeptIsId DEF Init, CallbackInit, TrajInit, MsgFits, OrderHeld, DoneHeld, CopyHeld
<1> QED BY <1>1, <1>3, <1>4 DEF PubInv

LEMMA PubInvariant == Spec => []PubInv
<1>1. PubInv /\ [Next]_vars => PubInv'
  BY PubTypeStep, PubTrajStep, PubCallbackStep, IdStep, DoneStep DEF PubInv
<1> QED BY <1>1, PubInitInv, PTL DEF Spec

-----------------------------------------------------------------------------
(* Beside the publisher, the callbacks and the ticks use the generator as  *)
(* its module specifies, so the list whose state is published is walked in *)
(* order and never under a stop.                                           *)
THEOREM PublisherRunsTrajectory == Spec => TrajSpec /\ RouteWalked
<1>1. Init => TrajInit
  BY DEF Init
<1>2. PubInv /\ [Next]_vars => [TrajNext]_trajVars
  BY PubStepsTrajectory
<1>3. Spec => TrajSpec
  BY <1>1, <1>2, PubInvariant, PTL DEF Spec, TrajSpec
<1> QED BY <1>3, RouteIsWalked, PTL

(* Publisher, callbacks and trajectory keep their types: what is sent is a *)
(* payload of the server's.                                                *)
THEOREM PublisherTypes == Spec => []TypeOK
<1>1. PubInv => TypeOK
  BY DEF PubInv
<1> QED BY <1>1, PubInvariant, PTL

(* For any orders: COMPLETED goes out under an id only if that order was   *)
(* completed since it was stored, unless an order overlapped the reads.    *)
THEOREM CompletedIsTrue == Spec => CompletedUnlessOverlapped
<1>1. PubInv /\ [Next]_vars =>
        [Sends /\ StatePayload.orderState = "COMPLETED" /\ ~overlapped =>
            pub_order \in done]_vars
  <2> SUFFICES ASSUME PubInv, Sends, StatePayload.orderState = "COMPLETED", ~overlapped
               PROVE  pub_order \in done
    BY Zenon
  <2>1. status_ = "COMPLETE"
    BY DEF PubInv, TypeOK, TrajTypeOK, TrajStatus, StatePayload, orderStateString
  <2>2. hop1 # "load" /\ pub_order = KeptId(waypoints_)
    BY DEF PubInv, Sends, CopyHeld, OrderHeld
  <2> QED BY <2>1, <2>2 DEF PubInv, DoneHeld
<1> QED BY <1>1, PubInvariant, PTL DEF Spec, CompletedUnlessOverlapped

-----------------------------------------------------------------------------
(* The torn reads of a publication agree once nothing moves under them.    *)

\* No callback runs, and the planner leaves the status as it is.
Undisturbed == hop1 = "recv" /\ hop1' = "recv" /\ status_' = status_

ModeFits(mode, safety) ==
    /\ status_ = "ESTOP" => mode = "MANUAL" /\ safety = "SAFE_STOP"
    /\ status_ \in {"IDLE", "ACTIVE", "COMPLETE"} => mode = "AUTOMATIC"

IdFits(id) == status_ # "IDLE" \/ waypoints_ = NoRoute => id = KeptId(waypoints_)

\* The copies made so far in this cycle are what is so now.
CopiesTrue ==
    /\ pub # "orderId" => IdFits(pub_order)
    /\ pub = "orderState" => ModeFits(pub_mode, pub_safety)

\* What ServerSeesTruth comes to.
Seen ==
    /\ state # Unsent
    /\ state.orderState = orderStateString
    /\ IdFits(state.orderId)
    /\ ModeFits(state.operatingMode, state.safetyState)

LEMMA UndisturbedSteps ==
  ASSUME Next, Undisturbed
  PROVE  /\ waypoints_' = waypoints_
         /\ Publisher \/ UNCHANGED pubVars \/ PlannerTask
         /\ g_current_order_id' = g_current_order_id
<1>1. ~Hop1Task
  BY DEF Undisturbed, Hop1Task, Recv, Callback, RejectOrder, StoreOrderId, LoadOrder,
         AcceptOrder, StopOrClear, PauseOrResume, FrameWritten, Handling
<1>2. CASE PlannerTask
  BY <1>2 DEF PlannerTask, Tick, TickStopped, TickPastEnd, TickArrive, TickDrive, hop1Vars
<1>3. CASE Publisher
  BY <1>3 DEF Publisher, PubOrderId, PubStatus, PubSend, trajVars, hop1Vars
<1> QED BY <1>1, <1>2, <1>3 DEF Next

(* While no callback runs and the status stands still, a cycle whose       *)
(* copies are true goes on with true ones, what it publishes is the truth  *)
(* in the sense of ServerSeesTruth (nothing is claimed of the id in IDLE   *)
(* or the mode in PAUSED), and what the server has seen stays so, lost     *)
(* payloads or not.                                                        *)
THEOREM QuietCycleIsTrue ==
  Spec => [][Undisturbed /\ CopiesTrue =>
                CopiesTrue' /\ (Seen \/ state' # state => Seen')]_vars
<1>1. ASSUME PubInv, Next, Undisturbed, CopiesTrue
      PROVE  CopiesTrue' /\ (Seen \/ state' # state => Seen')
  <2>1. waypoints_' = waypoints_ /\ status_' = status_ /\ g_current_order_id = KeptId(waypoints_)
    BY <1>1, UndisturbedSteps DEF Undisturbed, PubInv, OrderHeld
  <2>2. orderStateString' = orderStateString /\ KeptId(waypoints_)' = KeptId(waypoints_)
    BY <2>1 DEF orderStateString, KeptId
  <2>3. CASE PubOrderId
    BY <1>1, <2>1, <2>2, <2>3 DEF PubOrderId, CopiesTrue, Seen, ModeFits, IdFits
  <2>4. CASE PubStatus
    <3>1. pub_mode' = IF status_ = "ESTOP" THEN "MANUAL" ELSE "AUTOMATIC"
      BY <2>4 DEF PubStatus
    <3>2. status_ = "ESTOP" => pub_safety' = "SAFE_STOP"
      BY <2>4 DEF PubStatus
    <3> QED BY <1>1, <2>1, <2>2, <2>4, <3>1, <3>2 DEF PubStatus, CopiesTrue, Seen, ModeFits, IdFits
  <2>5. CASE PubSend
    <3>1. CopiesTrue'
      BY <2>5 DEF PubSend, CopiesTrue
    <3>2. CASE state' = StatePayload
      <4>1. /\ state'.orderState = orderStateString /\ state'.orderId = pub_order
            /\ state'.operatingMode = pub_mode /\ state'.safetyState = pub_safety
        BY <3>2 DEF StatePayload
      <4>2. state' # Unsent
        <5>1. \A x : [orderId |-> pub_order, orderState |-> x,
                      operatingMode |-> pub_mode, safetyState |-> pub_safety]
                        # [orderState |-> "none"]
          OBVIOUS
        <5> QED BY <3>2, <5>1 DEF StatePayload, Unsent
      <4> QED BY <1>1, <2>1, <2>2, <2>5, <3>1, <4>1, <4>2 DEF PubSend, CopiesTrue, Seen, ModeFits, IdFits
    <3>3. CASE state' = state
      BY <2>1, <2>2, <3>1, <3>3 DEF Seen, ModeFits, IdFits
    <3> QED BY <2>5, <3>2, <3>3 DEF PubSend
  <2>6. CASE UNCHANGED <<pub, pub_order, pub_mode, pub_safety, state>>
    BY <1>1, <2>1, <2>2, <2>6 DEF CopiesTrue, Seen, ModeFits, IdFits
  <2> QED
    BY <1>1, <2>3, <2>4, <2>5, <2>6, UndisturbedSteps DEF Publisher, PlannerTask, pubVars
<1>2. PubInv /\ [Next]_vars =>
        [Undisturbed /\ CopiesTrue => CopiesTrue' /\ (Seen \/ state' # state => Seen')]_vars
  BY <1>1
<1> QED BY <1>2, PubInvariant, PTL DEF Spec
=============================================================================
