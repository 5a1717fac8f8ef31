--------------------------- MODULE StatePublisher ---------------------------
(***************************************************************************)
(* The state publisher (statePublishTaskFunc in main/main.cpp), a task     *)
(* beside the network task of Callbacks and the planner, of which it sees  *)
(* what a tick does to the trajectory.  Eight times a second it collects   *)
(* the vehicle's state and sends it to the server.  The order id, the      *)
(* status and the order state string are read one after the other, each    *)
(* under its own lock, so the other tasks move between the reads.          *)
(***************************************************************************)
EXTENDS Callbacks

CONSTANTS StmSafety   \* the safety states the STM32 may report

VARIABLES
    pub,          \* what the publisher reads next
    pub_order,    \* current_order_id, the local copy
    pub_mode,     \* operating_mode
    pub_safety,   \* safety_state_str
    state,        \* the last state payload sent
    done,         \* history: the ids kept of orders completed since last sent
    overlapped    \* history: an order was stored or loaded in this cycle

pubVars == <<pub, pub_order, pub_mode, pub_safety, state, done, overlapped>>
vars == <<trajVars, hop1Vars, pubVars>>

SafetyState == {"NORMAL", "WARN", "SAFE_STOP", "FAULT_LATCHED"}
ASSUME SafetyAssumption == StmSafety \subseteq SafetyState

OperatingMode == {"AUTOMATIC", "MANUAL"}

\* Mutant: the enumerator's own name is sent.
orderStateEnumerator == status_

orderStateString == IF status_ = "COMPLETE" THEN "COMPLETED" ELSE status_

Unsent == [orderState |-> "none"]

Payload == [orderId : OrderId,
            orderState : {"IDLE", "ACTIVE", "PAUSED", "COMPLETED", "ESTOP"},
            operatingMode : OperatingMode,
            safetyState : SafetyState]

TypeOK ==
    /\ TrajTypeOK
    /\ CallbackTypeOK
    /\ pub \in {"orderId", "status", "orderState"}
    /\ pub_order \in OrderId
    /\ pub_mode \in OperatingMode
    /\ pub_safety \in SafetyState
    /\ state \in Payload \cup {Unsent}
    /\ done \subseteq OrderId
    /\ overlapped \in BOOLEAN

Init ==
    /\ TrajInit
    /\ CallbackInit
    /\ pub = "orderId"
    /\ pub_order = NoRoute
    /\ pub_mode = "AUTOMATIC"
    /\ pub_safety = "NORMAL"
    /\ state = Unsent
    /\ done = {}
    /\ overlapped = FALSE

-----------------------------------------------------------------------------
PubOrderId ==
    /\ pub = "orderId"
    /\ pub_order' = g_current_order_id
    /\ overlapped' = (hop1 = "load")
    /\ pub' = "status"
    /\ UNCHANGED <<trajVars, hop1Vars, pub_mode, pub_safety, state, done>>

\* Mutant: the mode is set on an emergency stop and never set back.
PubStatusKeepsMode ==
    /\ pub = "status"
    /\ pub_mode' = IF status_ = "ESTOP" THEN "MANUAL" ELSE pub_mode
    /\ pub_safety' \in IF status_ = "ESTOP" THEN {"SAFE_STOP"} ELSE {"NORMAL"} \cup StmSafety
    /\ pub' = "orderState"
    /\ UNCHANGED <<trajVars, hop1Vars, pub_order, state, done, overlapped>>

(* The safety state is that of the last STM32 feedback, if it is fresh,    *)
(* and NORMAL if it is not; an emergency stop of the trajectory overrides. *)
PubStatus ==
    /\ pub = "status"
    /\ pub_mode' = IF status_ = "ESTOP" THEN "MANUAL" ELSE "AUTOMATIC"
    /\ pub_safety' \in IF status_ = "ESTOP" THEN {"SAFE_STOP"} ELSE {"NORMAL"} \cup StmSafety
    /\ pub' = "orderState"
    /\ UNCHANGED <<trajVars, hop1Vars, pub_order, state, done, overlapped>>

StatePayload == [orderId |-> pub_order, orderState |-> orderStateString,
                 operatingMode |-> pub_mode, safetyState |-> pub_safety]

\* publishState() drops the payload when the connection is gone.
PubSend ==
    /\ pub = "orderState"
    /\ \/ state' = StatePayload
       \/ UNCHANGED state
    /\ pub' = "orderId"
    /\ UNCHANGED <<trajVars, hop1Vars, pub_order, pub_mode, pub_safety, done, overlapped>>

Publisher == PubOrderId \/ PubStatus \/ PubSend

(* The other tasks.  An order is done when a tick completes it, and no     *)
(* longer when its id is stored anew.                                      *)
Hop1Task ==
    /\ Recv \/ Callback
    /\ done' = IF StoreOrderId THEN done \ {Kept[msg.order]} ELSE done
    /\ overlapped' = (overlapped \/ StoreOrderId \/ LoadOrder)
    /\ UNCHANGED <<pub, pub_order, pub_mode, pub_safety, state>>

PlannerTask ==
    /\ Tick
    /\ done' = IF status_ # "COMPLETE" /\ status_' = "COMPLETE"
               THEN done \cup {KeptId(waypoints_)} ELSE done
    /\ UNCHANGED <<hop1Vars, pub, pub_order, pub_mode, pub_safety, state, overlapped>>

Next == Publisher \/ Hop1Task \/ PlannerTask

Spec == Init /\ [][Next]_vars

(* The publisher runs on a timer; a connection that comes back lets its    *)
(* payloads through.                                                       *)
FairSpec ==
    /\ Spec
    /\ WF_vars(PlannerTask)
    /\ WF_vars(Hop1Task /\ ~Recv)
    /\ SF_vars(PlannerTask /\ TickArrive)
    /\ WF_vars(Publisher)
    /\ SF_vars(PubSend /\ state' = StatePayload)

-----------------------------------------------------------------------------
Sends == pub = "orderState" /\ state' = StatePayload

(* COMPLETED is reported only under an id of which an order's last         *)
(* waypoint was reached since one was last sent, in every publication that *)
(* no order overlaps.  The id is what is kept of the order's.              *)
CompletedUnlessOverlapped ==
    [][Sends /\ StatePayload.orderState = "COMPLETED" /\ ~overlapped =>
          pub_order \in done]_vars

(* Once the server sends nothing more, the last payload it keeps receiving *)
(* is the truth as ARCHITECTUREv3.md:170-173 defines it, for all the torn  *)
(* reads and lost payloads before: the state of the trajectory; the id     *)
(* kept of its order, none without one; MANUAL and SAFE_STOP under an      *)
(* emergency stop and AUTOMATIC in normal operation.  Nothing is said of   *)
(* the id of an order in IDLE, where the rule is null and the code sends   *)
(* it, nor of the mode in PAUSED, where the rule is MANUAL and the code    *)
(* sends AUTOMATIC.                                                        *)
ServerSeesTruth ==
    <>[](hop1 = "recv") =>
        <>[](/\ state.orderState = orderStateString
             /\ status_ # "IDLE" \/ waypoints_ = NoRoute => state.orderId = KeptId(waypoints_)
             /\ status_ = "ESTOP" => /\ state.operatingMode = "MANUAL"
                                    /\ state.safetyState = "SAFE_STOP"
             /\ status_ \in {"IDLE", "ACTIVE", "COMPLETE"} =>
                    state.operatingMode = "AUTOMATIC")
=============================================================================
