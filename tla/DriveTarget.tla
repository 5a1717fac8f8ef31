---------------------------- MODULE DriveTarget ----------------------------
(***************************************************************************)
(* The drive's position target (main/main.cpp, planner task): the wheel is *)
(* commanded by POSITION, so the planner adds up the turns it asks for in  *)
(* accumulated_turns, and adopts the encoder's reading in its place at the *)
(* first feedback and in every iteration that ends IDLE.                   *)
(*                                                                         *)
(* The trajectory generator runs under it, and the network task may call   *)
(* any of its methods between two steps of the planner.  An iteration is   *)
(* three steps, split where it reads shared state: the feedback, the tick  *)
(* (which unlocks on a waypoint, so it may take several), and the status   *)
(* that decides what is accumulated and sent.                              *)
(*                                                                         *)
(* A position is a whole number of the turns a tick can ask for at least.  *)
(* The wheel itself is the environment's: it follows the drive, lags, is   *)
(* pushed or slips, so a reading is any position.                          *)
(***************************************************************************)
EXTENDS TrajectoryGen

CONSTANTS MaxStep,    \* the most turns one tick asks for (speed is clamped)
          MaxTurns    \* bound of the model on a position

ASSUME DriveAssumption == MaxStep \in Nat \ {0} /\ MaxTurns \in Nat

VARIABLES pc, has_fb, fb_pos,                   \* of the iteration in progress
          has_cmd, turns,                       \* what toSwerveCommand() gave
          accumulated_turns, position_synced,   \* static, they live on
          cmd,                                  \* the last command sent
          fresh, reported,                      \* latest_fb and its age
          anchor,     \* history: the last target sent, or reading adopted since
          first       \* history: an order that found the drive idle has had no
                      \* target yet, and the wheel has stood still since it came

localVars == <<has_fb, fb_pos, has_cmd, turns>>
driveVars == <<accumulated_turns, position_synced, cmd, anchor>>
linkVars == <<fresh, reported>>
vars == <<trajVars, pc, localVars, driveVars, linkVars, first>>

Position == 0 .. MaxTurns
Mode == {"SAFE_STOP", "POSITION", "IDLE"}

DriveTypeOK ==
    /\ TrajTypeOK
    /\ pc \in {"read", "tick", "send"}
    /\ has_fb \in BOOLEAN /\ fb_pos \in Position
    /\ has_cmd \in BOOLEAN /\ turns \in 0 .. MaxStep
    /\ accumulated_turns \in Position
    /\ position_synced \in BOOLEAN
    /\ cmd \in [mode : Mode, target : Position]
    /\ fresh \in BOOLEAN /\ reported \in Position
    /\ anchor \in Position
    /\ first \in BOOLEAN

DriveInit ==
    /\ TrajInit
    /\ pc = "read"
    /\ has_fb = FALSE /\ fb_pos = 0
    /\ has_cmd = FALSE /\ turns = 0
    /\ accumulated_turns = 0
    /\ position_synced = FALSE
    /\ cmd = [mode |-> "IDLE", target |-> 0]
    /\ fresh = FALSE /\ reported = 0
    /\ anchor = 0
    /\ first = FALSE

-----------------------------------------------------------------------------
(* The STM32: a feedback frame with the encoder's reading, or 300 ms of    *)
(* silence.                                                                *)

Feedback ==
    /\ fresh' = TRUE
    /\ reported' \in Position
    /\ first' = (first /\ reported' = reported)
    /\ UNCHANGED <<trajVars, pc, localVars, driveVars>>

FeedbackTooOld ==
    /\ fresh
    /\ fresh' = FALSE
    /\ UNCHANGED <<trajVars, pc, localVars, driveVars, reported, first>>

-----------------------------------------------------------------------------
(* One iteration of the planner.                                           *)

\* getLatestFeedback(fb, 300); the pose it gives is the environment's choice.
ReadFeedback ==
    /\ pc = "read"
    /\ has_fb' = fresh
    /\ fb_pos' = IF fresh THEN reported ELSE fb_pos
    /\ pc' = "tick"
    /\ UNCHANGED <<trajVars, has_cmd, turns, driveVars, linkVars, first>>

\* toSwerveCommand(): the speed of a wheel is never negative; a velocity
\* below SWERVE_EPSILON is no command.
Kinematics ==
    IF result' # "drive"
    THEN has_cmd' = FALSE /\ turns' = 0
    ELSE /\ has_cmd' \in BOOLEAN
         /\ turns' \in IF has_cmd' THEN 0 .. MaxStep ELSE {0}
         /\ {accumulated_turns + turns', fb_pos + turns'} \subseteq Position

PlannerTick ==
    /\ pc = "tick"
    /\ Tick
    /\ Kinematics
    /\ pc' = IF result' = "recurse" THEN "tick" ELSE "send"
    /\ UNCHANGED <<has_fb, fb_pos, driveVars, linkVars, first>>

Send(adopt, drive) ==
    LET base   == IF adopt THEN fb_pos ELSE accumulated_turns
        target == IF drive THEN base + turns ELSE base
        send   == status_ = "ACTIVE" /\ has_cmd
    IN  /\ accumulated_turns' = target
        /\ position_synced' = (position_synced \/ adopt)
        /\ cmd' = [mode   |-> IF status_ = "ESTOP" THEN "SAFE_STOP"
                              ELSE IF send THEN "POSITION" ELSE "IDLE",
                   target |-> IF send THEN target ELSE 0]
        /\ anchor' = IF send THEN target ELSE IF adopt THEN fb_pos ELSE anchor
        /\ first' = (first /\ ~send)
        /\ pc' = "read"
        /\ UNCHANGED <<trajVars, localVars, linkVars>>

\* Mutant: whatever the status, the tick's turns are added up, as in the
\* architecture document's listing.
SendCommandAccumulatesAlways ==
    /\ pc = "send"
    /\ Send(has_fb /\ (~position_synced \/ status_ = "IDLE"), has_cmd)

\* Mutant: the encoder is adopted once, at start.
SendCommandSyncsOnce ==
    /\ pc = "send"
    /\ Send(has_fb /\ ~position_synced, has_cmd /\ status_ = "ACTIVE")

\* status(), the accumulator and sendMotionCmd().
SendCommand ==
    /\ pc = "send"
    /\ Send(has_fb /\ (~position_synced \/ status_ = "IDLE"),
            has_cmd /\ status_ = "ACTIVE")

Planner == ReadFeedback \/ PlannerTick \/ SendCommand

\* The network task: an order, or any other call.
Network ==
    /\ \/ /\ \E w \in Route : LoadWaypoints(w)
          /\ first' = (fresh /\ cmd.mode # "POSITION")
       \/ /\ \/ LoadWaypoints(NoRoute) \/ Reset
             \/ Pause \/ Resume
             \/ EmergencyStop \/ ClearEstop
          /\ UNCHANGED first
    /\ UNCHANGED <<pc, localVars, driveVars, linkVars>>

DriveNext == Planner \/ Network \/ Feedback \/ FeedbackTooOld

\* The planner is a periodic task and waits for nobody for ever.
DriveSpec == DriveInit /\ [][DriveNext]_vars /\ WF_vars(Planner)

-----------------------------------------------------------------------------
(* A POSITION target is at most one tick's turns ahead of the last target  *)
(* sent, or of the encoder's reading adopted since, and never behind it:   *)
(* no turns are added up in an iteration whose command does not ask for    *)
(* them, though a stop may come between tick() and status()                *)
(* (main.cpp:159-186), and the target never runs backwards.                *)
TargetContinues ==
    [][pc = "send" /\ pc' = "read" /\ cmd'.mode = "POSITION" =>
          LET base == IF has_fb /\ ~position_synced THEN fb_pos ELSE anchor
          IN  cmd'.target - base \in 0 .. MaxStep]_vars

(* A vehicle that stays IDLE, with the wheel at rest and feedback coming,  *)
(* ends up with the encoder's reading as the base of its next order        *)
(* (main.cpp:178), so a wheel that was moved by hand is not pulled back.   *)
IdleAdoptsEncoder ==
    <>[](status_ = "IDLE" /\ fresh) /\ <>[][FALSE]_reported
        => <>[](accumulated_turns = reported)

(* What BUG-07 in doc/BUGS.md says is fixed: the first POSITION target of  *)
(* a new order starts at the encoder's reading.  Here the order finds the  *)
(* drive idle, and the wheel stands still, feedback coming, since then.    *)
OrderStartsAtEncoder ==
    [][pc = "send" /\ pc' = "read" /\ first /\ ~first' /\ has_fb
          => cmd'.target - fb_pos \in 0 .. MaxStep]_vars

=============================================================================
