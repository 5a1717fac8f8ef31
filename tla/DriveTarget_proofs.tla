------------------------- MODULE DriveTarget_proofs -------------------------
(***************************************************************************)
(* For any waypoint lists and any range of positions: the planner that     *)
(* accumulates the drive's target uses the trajectory generator as its     *)
(* module specifies, so what is proved of the generator holds under it,    *)
(* and its target continues from what it last sent or adopted.             *)
(*                                                                         *)
(* The target is not related to the past by the command alone, for most    *)
(* iterations send none.  The invariant carries it across them (Anchored), *)
(* and carries the room for the turns of a tick to the step that adds them *)
(* (RoomForTurns).                                                         *)
(***************************************************************************)
EXTENDS DriveTarget, TrajectoryGen_proofs

\* accumulated_turns only moves with a command sent or a reading adopted.
Anchored == accumulated_turns = anchor

\* What the tick asked for can be added to either base.
RoomForTurns ==
    pc = "send" => /\ accumulated_turns + turns \in Position
                   /\ fb_pos + turns \in Position

DriveInv == DriveTypeOK /\ Anchored /\ RoomForTurns

-----------------------------------------------------------------------------
(* Every step of the drive is a step of the trajectory generator or leaves *)
(* it alone.                                                               *)
LEMMA DriveStepsTrajectory == [DriveNext]_vars => [TrajNext]_trajVars
<1> SUFFICES ASSUME [DriveNext]_vars PROVE TrajNext \/ UNCHANGED trajVars
  OBVIOUS
<1>1. CASE ReadFeedback \/ SendCommand
  BY <1>1 DEF ReadFeedback, SendCommand, Send
<1>2. CASE PlannerTick
  BY <1>2 DEF PlannerTick, TrajNext
<1>3. CASE Network
  BY <1>3 DEF Network, TrajNext, Command
<1>4. CASE Feedback \/ FeedbackTooOld
  BY <1>4 DEF Feedback, FeedbackTooOld
<1>5. CASE UNCHANGED vars
  BY <1>5 DEF vars
<1> QED
  BY <1>1, <1>2, <1>3, <1>4, <1>5 DEF DriveNext, Planner

(* The vehicle's drive uses the generator as its module specifies.         *)
THEOREM DriveRunsTrajectory == DriveSpec => TrajSpec
<1>1. DriveInit => TrajInit
  BY DEF DriveInit
<1> QED BY <1>1, DriveStepsTrajectory, PTL DEF DriveSpec, TrajSpec

-----------------------------------------------------------------------------
LEMMA DriveInitInv == DriveInit => DriveInv
<1> SUFFICES ASSUME DriveInit PROVE DriveInv
  OBVIOUS
<1>1. TrajTypeOK
  BY TrajInitInv DEF DriveInit, TrajInv
<1>2. 0 \in Position
  BY DriveAssumption DEF Position
<1>3. DriveTypeOK
  <2>1. pc \in {"read", "tick", "send"} /\ turns \in 0 .. MaxStep
    BY DriveAssumption DEF DriveInit
  <2>2. /\ has_fb \in BOOLEAN /\ has_cmd \in BOOLEAN /\ position_synced \in BOOLEAN
        /\ fresh \in BOOLEAN /\ first \in BOOLEAN
    BY DEF DriveInit
  <2>3. cmd \in [mode : Mode, target : Position]
    BY <1>2 DEF DriveInit, Mode
  <2>4. /\ fb_pos \in Position /\ accumulated_turns \in Position
        /\ reported \in Position /\ anchor \in Position
    BY <1>2 DEF DriveInit
  <2> QED BY <1>1, <2>1, <2>2, <2>3, <2>4 DEF DriveTypeOK
<1>4. Anchored /\ RoomForTurns
  BY DEF DriveInit, Anchored, RoomForTurns
<1> QED BY <1>3, <1>4 DEF DriveInv

(* The accumulator: what it sends is a position, and it stays anchored.    *)
LEMMA SendInv == DriveInv /\ SendCommand => DriveInv'
<1> SUFFICES ASSUME DriveInv, SendCommand PROVE DriveInv'
  OBVIOUS
<1> DEFINE adopt  == has_fb /\ (~position_synced \/ status_ = "IDLE")
           send   == status_ = "ACTIVE" /\ has_cmd
           base   == IF adopt THEN fb_pos ELSE accumulated_turns
           target == IF send THEN base + turns ELSE base
<1>1. /\ accumulated_turns' = target
      /\ position_synced' = (position_synced \/ adopt)
      /\ cmd' = [mode   |-> IF status_ = "ESTOP" THEN "SAFE_STOP"
                            ELSE IF send THEN "POSITION" ELSE "IDLE",
                 target |-> IF send THEN target ELSE 0]
      /\ anchor' = IF send THEN target ELSE IF adopt THEN fb_pos ELSE anchor
      /\ first' = (first /\ ~send)
      /\ pc' = "read"
      /\ UNCHANGED <<trajVars, localVars, linkVars>>
  BY DEF SendCommand, Send
<1>2. target \in Position
  BY DEF DriveInv, DriveTypeOK, RoomForTurns, SendCommand
<1>3. Anchored'
  BY <1>1 DEF DriveInv, Anchored
<1>4. anchor' \in Position
  BY <1>1, <1>2, <1>3 DEF Anchored
<1>5. cmd' \in [mode : Mode, target : Position]
  <2>1. 0 \in Position
    BY DriveAssumption DEF Position
  <2> QED BY <1>1, <1>2, <2>1 DEF Mode
<1>6. TrajTypeOK'
  BY <1>1 DEF DriveInv, DriveTypeOK, TrajTypeOK, trajVars, TrajStatus
<1>7. /\ position_synced' \in BOOLEAN /\ first' \in BOOLEAN
      /\ has_fb' \in BOOLEAN /\ has_cmd' \in BOOLEAN /\ fresh' \in BOOLEAN
  BY <1>1, Zenon DEF DriveInv, DriveTypeOK, localVars, linkVars
<1>8. fb_pos' \in Position /\ turns' \in 0 .. MaxStep /\ reported' \in Position
  BY <1>1 DEF DriveInv, DriveTypeOK, localVars, linkVars, Position
<1>9. accumulated_turns' \in Position /\ pc' \in {"read", "tick", "send"}
  BY <1>1, <1>2
<1> HIDE DEF target, adopt, send, base
<1>10. DriveTypeOK'
  BY <1>4, <1>5, <1>6, <1>7, <1>8, <1>9 DEF DriveTypeOK, Position, Mode
<1>11. RoomForTurns'
  BY <1>1 DEF RoomForTurns
<1> QED BY <1>3, <1>10, <1>11 DEF DriveInv

(* The tick leaves room for its turns, and everything else alone.          *)
LEMMA TickInv == DriveInv /\ PlannerTick => DriveInv'
<1> SUFFICES ASSUME DriveInv, PlannerTick PROVE DriveInv'
  OBVIOUS
<1>1. TrajTypeOK'
  BY TrajTypeStep DEF DriveInv, DriveTypeOK, PlannerTick, TrajNext
<1>2. has_cmd' \in BOOLEAN /\ turns' \in 0 .. MaxStep
  <2>1. 0 \in 0 .. MaxStep
    BY DriveAssumption
  <2>2. CASE result' # "drive"
    BY <2>1, <2>2 DEF PlannerTick, Kinematics
  <2>3. CASE result' = "drive"
    BY <2>1, <2>3 DEF PlannerTick, Kinematics
  <2> QED BY <2>2, <2>3
<1>3. accumulated_turns + turns' \in Position /\ fb_pos + turns' \in Position
  <2>1. CASE result' # "drive"
    <3>1. turns' = 0
      BY <2>1 DEF PlannerTick, Kinematics
    <3> QED BY <3>1 DEF DriveInv, DriveTypeOK, Position
  <2>2. CASE result' = "drive"
    BY <2>2 DEF PlannerTick, Kinematics
  <2> QED BY <2>1, <2>2
<1>4. /\ pc' \in {"tick", "send"}
      /\ UNCHANGED <<has_fb, fb_pos, driveVars, linkVars, first>>
  BY DEF PlannerTick
<1>5. DriveTypeOK'
  <2>1. has_fb' \in BOOLEAN /\ position_synced' \in BOOLEAN /\ fresh' \in BOOLEAN
        /\ first' \in BOOLEAN
    BY <1>4, Zenon DEF DriveInv, DriveTypeOK, driveVars, linkVars
  <2>2. /\ fb_pos' \in Position /\ accumulated_turns' \in Position
        /\ cmd' \in [mode : Mode, target : Position]
        /\ reported' \in Position /\ anchor' \in Position
    BY <1>4 DEF DriveInv, DriveTypeOK, driveVars, linkVars
  <2> QED BY <1>1, <1>2, <1>4, <2>1, <2>2 DEF DriveTypeOK, Position, Mode
<1>6. Anchored' /\ RoomForTurns'
  BY <1>3, <1>4 DEF DriveInv, Anchored, RoomForTurns, driveVars, Position
<1> QED BY <1>5, <1>6 DEF DriveInv

(* The steps that leave the target alone.                                  *)
LEMMA QuietInv ==
  DriveInv /\ (ReadFeedback \/ Network \/ Feedback \/ FeedbackTooOld) => DriveInv'
<1> SUFFICES ASSUME DriveInv,
                    ReadFeedback \/ Network \/ Feedback \/ FeedbackTooOld
             PROVE  DriveInv'
  OBVIOUS
<1> USE DEF ReadFeedback, Network, Feedback, FeedbackTooOld
<1>1. TrajTypeOK'
  <2>1. [TrajNext]_trajVars
    BY DriveStepsTrajectory DEF DriveNext, Planner
  <2> QED BY <2>1, TrajTypeStep DEF DriveInv, DriveTypeOK, TrajTypeOK, trajVars, TrajStatus
<1>2. UNCHANGED <<driveVars, has_cmd, turns>>
  BY DEF localVars
<1>3. has_fb' \in BOOLEAN /\ first' \in BOOLEAN /\ fresh' \in BOOLEAN
  BY Zenon DEF DriveInv, DriveTypeOK, localVars, linkVars
<1>4. fb_pos' \in Position /\ reported' \in Position
  BY DEF DriveInv, DriveTypeOK, localVars, linkVars
<1>5. pc' \in {"read", "tick", "send"}
  BY DEF DriveInv, DriveTypeOK
<1>6. pc' = "send" => pc = "send" /\ fb_pos' = fb_pos
  BY DEF localVars
<1>7. DriveTypeOK'
  <2>1. position_synced' \in BOOLEAN /\ has_cmd' \in BOOLEAN
    BY <1>2, Zenon DEF DriveInv, DriveTypeOK, driveVars
  <2>2. /\ accumulated_turns' \in Position /\ anchor' \in Position
        /\ cmd' \in [mode : Mode, target : Position]
        /\ turns' \in 0 .. MaxStep
    BY <1>2 DEF DriveInv, DriveTypeOK, driveVars
  <2> QED BY <1>1, <1>3, <1>4, <1>5, <2>1, <2>2 DEF DriveTypeOK, Position, Mode
<1>8. Anchored' /\ RoomForTurns'
  BY <1>2, <1>6 DEF DriveInv, Anchored, RoomForTurns, driveVars, Position
<1> QED BY <1>7, <1>8 DEF DriveInv

LEMMA DriveStutterInv == DriveInv /\ UNCHANGED vars => DriveInv'
<1> SUFFICES ASSUME DriveInv, UNCHANGED vars PROVE DriveInv'
  OBVIOUS
<1>1. TrajTypeOK'
  BY DEF DriveInv, DriveTypeOK, TrajTypeOK, vars, trajVars, TrajStatus
<1> QED
  BY <1>1 DEF DriveInv, DriveTypeOK, Anchored, RoomForTurns, Position, Mode,
              vars, localVars, driveVars, linkVars

LEMMA DriveInvariant == DriveSpec => []DriveInv
<1>1. DriveInv /\ [DriveNext]_vars => DriveInv'
  BY SendInv, TickInv, QuietInv, DriveStutterInv DEF DriveNext, Planner
<1> QED BY <1>1, DriveInitInv, PTL DEF DriveSpec

-----------------------------------------------------------------------------
(* The state of the planner's drive keeps its types.                       *)
THEOREM DriveTypes == DriveSpec => []DriveTypeOK
<1>1. DriveInv => DriveTypeOK
  BY DEF DriveInv
<1> QED BY <1>1, DriveInvariant, PTL

(* Under the planner no waypoint is read out of bounds, and the status has *)
(* its cause.                                                              *)
THEOREM DriveIndexInBounds == DriveSpec => [](IndexInBounds /\ StatusHasCause)
  BY DriveRunsTrajectory, IndexAlwaysInBounds, StatusAlwaysHasCause, PTL

(* Under the planner the list is walked in order and never under a stop.   *)
THEOREM DriveWalksRoute == DriveSpec => RouteWalked
  BY DriveRunsTrajectory, RouteIsWalked, PTL

(* No POSITION command asks for more than one tick's turns beyond the last *)
(* target, or the reading adopted since, nor for less than none.           *)
THEOREM TargetAlwaysContinues == DriveSpec => TargetContinues
<1> DEFINE Continues ==
      pc = "send" /\ pc' = "read" /\ cmd'.mode = "POSITION" =>
          LET base == IF has_fb /\ ~position_synced THEN fb_pos ELSE anchor
          IN  cmd'.target - base \in 0 .. MaxStep
<1>1. DriveInv /\ [DriveNext]_vars => [Continues]_vars
  <2> SUFFICES ASSUME DriveInv, DriveNext, pc = "send", pc' = "read",
                      cmd'.mode = "POSITION"
               PROVE  LET base == IF has_fb /\ ~position_synced THEN fb_pos ELSE anchor
                      IN  cmd'.target - base \in 0 .. MaxStep
    OBVIOUS
  <2>1. SendCommand
    BY DEF DriveNext, Planner, ReadFeedback, PlannerTick, Network, Feedback, FeedbackTooOld
  <2>2. status_ = "ACTIVE" /\ has_cmd
    BY <2>1 DEF SendCommand, Send
  <2>3. cmd'.target = (IF has_fb /\ ~position_synced THEN fb_pos ELSE accumulated_turns)
                          + turns
    BY <2>1, <2>2 DEF SendCommand, Send
  <2>4. /\ accumulated_turns = anchor
        /\ fb_pos \in Int /\ anchor \in Int
        /\ turns \in 0 .. MaxStep
    BY DEF DriveInv, Anchored, DriveTypeOK, Position
  <2> QED BY <2>3, <2>4, DriveAssumption
<1> QED BY <1>1, DriveInvariant, PTL DEF DriveSpec, TargetContinues

-----------------------------------------------------------------------------
(* How the encoder's reading becomes the base of the next order.           *)

\* The drive is idle, and feedback of a wheel at rest keeps coming.
AtRest == status_ = "IDLE" /\ status_' = "IDLE" /\ fresh /\ reported' = reported

\* The iteration in progress has read the wheel where it is.
ReadAtRest == pc # "read" => has_fb /\ fb_pos = reported

\* The step ends an iteration.
Ends == pc = "send" /\ pc' = "read"

(* While the vehicle is idle and the wheel at rest, an iteration that read *)
(* the wheel where it is ends with the accumulated turns there, and there  *)
(* they stay: no iteration puts an older target back.                      *)
THEOREM IdleKeepsEncoder ==
  DriveSpec => [][AtRest /\ ReadAtRest =>
                     /\ ReadAtRest'
                     /\ accumulated_turns = reported \/ Ends
                            => accumulated_turns' = reported']_vars
<1>1. ASSUME DriveInv, DriveNext, AtRest, ReadAtRest
      PROVE  /\ ReadAtRest'
             /\ accumulated_turns = reported \/ Ends => accumulated_turns' = reported'
  <2> USE DEF AtRest, ReadAtRest, Ends
  <2>1. CASE ReadFeedback
    BY <1>1, <2>1 DEF ReadFeedback, driveVars
  <2>2. CASE PlannerTick
    BY <1>1, <2>2 DEF PlannerTick, driveVars
  <2>3. CASE SendCommand
    BY <1>1, <2>3 DEF SendCommand, Send
  <2>4. CASE Network \/ Feedback \/ FeedbackTooOld
    BY <1>1, <2>4 DEF Network, Feedback, FeedbackTooOld, localVars, driveVars
  <2> QED BY <1>1, <2>1, <2>2, <2>3, <2>4 DEF DriveNext, Planner
<1>2. DriveInv /\ [DriveNext]_vars =>
        [AtRest /\ ReadAtRest => /\ ReadAtRest'
                                 /\ accumulated_turns = reported \/ Ends
                                        => accumulated_turns' = reported']_vars
  BY <1>1
<1> QED BY <1>2, DriveInvariant, PTL DEF DriveSpec
=============================================================================
