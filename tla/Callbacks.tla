----------------------------- MODULE Callbacks -----------------------------
(***************************************************************************)
(* The network task's side of the vehicle: hop1_task reads a message from  *)
(* the server and runs onOrderReceived or onInstantAction (main/main.cpp)  *)
(* to the end before it reads the next.  A step is what a callback does    *)
(* between two points where another task may be seen: one locked method of *)
(* the trajectory, one critical section on g_order_mux, one message or     *)
(* frame sent.  An order is named by its id, and its id names its          *)
(* waypoints.  Messages that change nothing are left out: those that do    *)
(* not parse, of another type, with an unknown action or too many          *)
(* waypoints for the buffer.                                               *)
(*                                                                         *)
(* What is kept of the id is cut to the 63 characters that                 *)
(* g_current_order_id holds: Kept names it, for each order, and two orders *)
(* may be kept under one name.  An empty id is kept as no id (NoRoute).    *)
(***************************************************************************)
EXTENDS TrajectoryGen

CONSTANT Kept   \* for each order, what g_current_order_id keeps of its id

VARIABLES
    hop1,               \* "recv", or where the task is in a callback
    msg,                \* the message being handled
    g_current_order_id,
    ack                 \* the last acknowledgment given to sendAck()

hop1Vars == <<hop1, msg, g_current_order_id, ack>>

\* The id kept for a list of waypoints, and the ids that may be kept.
KeptId(w) == IF w = NoRoute THEN NoRoute ELSE Kept[w]
OrderId == {KeptId(w) : w \in Route \cup {NoRoute}}

Order == [type : {"order", "badOrder"}, order : Route]
InstantAction ==
    [type : {"instantAction"},
     action : {"emergencyStop", "startPause", "stopPause", "clearFault"}]
NoMessage == [type |-> "none"]
NoAck == [status |-> "none"]

CallbackTypeOK ==
    /\ hop1 \in {"recv", "handle", "load", "ack", "send"}
    /\ msg \in Order \cup InstantAction \cup {NoMessage}
    /\ g_current_order_id \in OrderId
    /\ ack \in [order : Route, status : {"ACCEPTED", "REJECTED"}] \cup {NoAck}

CallbackInit ==
    /\ hop1 = "recv"
    /\ msg = NoMessage
    /\ g_current_order_id = NoRoute
    /\ ack = NoAck

Recv ==
    /\ hop1 = "recv"
    /\ hop1' = "handle"
    /\ msg' \in Order \cup InstantAction
    /\ UNCHANGED <<trajVars, g_current_order_id, ack>>

Return == hop1' = "recv" /\ msg' = NoMessage

-----------------------------------------------------------------------------
(* onOrderReceived.  A bad order has waypoints that do not parse, or none. *)

\* Mutant: the rejection names the order followed instead of the one sent.
RejectOrderByCurrent ==
    /\ hop1 = "handle" /\ msg.type = "badOrder"
    /\ ack' = [order |-> g_current_order_id, status |-> "REJECTED"]
    /\ Return
    /\ UNCHANGED <<trajVars, g_current_order_id>>

\* Mutant: the id is stored before the waypoints are parsed.
RejectOrderAfterStore ==
    /\ hop1 = "handle" /\ msg.type = "badOrder"
    /\ g_current_order_id' = Kept[msg.order]
    /\ ack' = [order |-> msg.order, status |-> "REJECTED"]
    /\ Return
    /\ UNCHANGED trajVars

RejectOrder ==
    /\ hop1 = "handle" /\ msg.type = "badOrder"
    /\ ack' = [order |-> msg.order, status |-> "REJECTED"]
    /\ Return
    /\ UNCHANGED <<trajVars, g_current_order_id>>

\* strncpy() and the terminator: the id is cut to what the array holds.
StoreOrderId ==
    /\ hop1 = "handle" /\ msg.type = "order"
    /\ g_current_order_id' = Kept[msg.order]
    /\ hop1' = "load"
    /\ UNCHANGED <<trajVars, msg, ack>>

LoadOrder ==
    /\ hop1 = "load"
    /\ LoadWaypoints(msg.order)
    /\ hop1' = "ack"
    /\ UNCHANGED <<msg, g_current_order_id, ack>>

AcceptOrder ==
    /\ hop1 = "ack"
    /\ ack' = [order |-> msg.order, status |-> "ACCEPTED"]
    /\ Return
    /\ UNCHANGED <<trajVars, g_current_order_id>>

-----------------------------------------------------------------------------
(* onInstantAction.  emergencyStop and clearFault then write a frame of    *)
(* their own to the STM32.                                                 *)

Handling(action) ==
    hop1 = "handle" /\ msg.type = "instantAction" /\ msg.action = action

StopOrClear ==
    /\ \/ Handling("emergencyStop") /\ EmergencyStop
       \/ Handling("clearFault") /\ ClearEstop
    /\ hop1' = "send"
    /\ UNCHANGED <<msg, g_current_order_id, ack>>

ActionMode == IF msg.action = "emergencyStop" THEN "SAFE_STOP" ELSE "IDLE"

FrameWritten ==
    /\ hop1 = "send"
    /\ Return
    /\ UNCHANGED <<trajVars, g_current_order_id, ack>>

PauseOrResume ==
    /\ \/ Handling("startPause") /\ Pause
       \/ Handling("stopPause") /\ Resume
    /\ Return
    /\ UNCHANGED <<g_current_order_id, ack>>

Callback == \/ RejectOrder \/ StoreOrderId \/ LoadOrder \/ AcceptOrder
            \/ StopOrClear \/ PauseOrResume \/ FrameWritten
=============================================================================
