------------------------ MODULE TrajectoryGen_proofs ------------------------
(***************************************************************************)
(* For any set of waypoint lists: the trajectory generator keeps its index *)
(* in bounds and its status explained, and walks its list in order.  The   *)
(* inductive invariant is the conjunction of the three invariants the runs *)
(* check: the status alone is not inductive (resume() and clearEstop()     *)
(* derive it from the index), nor is the index alone (tick() advances it   *)
(* under guards that read the flags).                                      *)
(***************************************************************************)
EXTENDS TrajectoryGen, TLAPS

TrajInv == TrajTypeOK /\ IndexInBounds /\ StatusHasCause

(* The length of a list is a natural number, and zero only of the empty    *)
(* one.                                                                    *)
LEMMA SizeType ==
    ASSUME NEW w \in Route \cup {NoRoute}
    PROVE  /\ Size(w) \in Nat
           /\ Size(w) = 0 <=> w = NoRoute
  BY RouteAssumption DEF Size

(* The trajectory generator starts in the invariant.                       *)
LEMMA TrajInitInv == TrajInit => TrajInv
<1> SUFFICES ASSUME TrajInit PROVE TrajInv
  OBVIOUS
<1>1. TrajTypeOK
  <2>1. active_index_ \in Int
    BY DEF TrajInit
  <2>2. moving_ \in BOOLEAN /\ paused_ \in BOOLEAN /\ estop_ \in BOOLEAN
    BY DEF TrajInit
  <2>3. /\ waypoints_ \in Route \cup {NoRoute}
        /\ status_ \in TrajStatus
        /\ result \in {"zero", "drive", "recurse"}
    BY DEF TrajInit, TrajStatus
  <2> QED BY <2>1, <2>2, <2>3 DEF TrajTypeOK
<1>2. Size(waypoints_) = 0
  BY DEF TrajInit, Size
<1>3. IndexInBounds
  BY <1>2 DEF TrajInit, IndexInBounds
<1>4. StatusHasCause
  BY DEF TrajInit, StatusHasCause
<1> QED
  BY <1>1, <1>3, <1>4 DEF TrajInv

(* Every method, and every stretch of tick() between two locks, keeps it:  *)
(* the types,                                                              *)
LEMMA TrajTypeStep == TrajTypeOK /\ TrajNext => TrajTypeOK'
<1> SUFFICES ASSUME TrajTypeOK, TrajNext PROVE TrajTypeOK'
  OBVIOUS
<1> USE DEF TrajNext, Command, LoadWaypoints, Reset, Pause, Resume, EmergencyStop,
            ClearEstop, Tick, TickStopped, TickPastEnd, TickArrive, TickDrive
<1>1. active_index_' \in Int
  BY DEF TrajTypeOK
<1>2. waypoints_' \in Route \cup {NoRoute}
  BY DEF TrajTypeOK
<1>3. moving_' \in BOOLEAN /\ paused_' \in BOOLEAN /\ estop_' \in BOOLEAN
  BY Zenon DEF TrajTypeOK
<1>4. status_' \in TrajStatus
  BY DEF TrajTypeOK, TrajStatus
<1>5. result' \in {"zero", "drive", "recurse"}
  BY DEF TrajTypeOK
<1> QED
  BY <1>1, <1>2, <1>3, <1>4, <1>5 DEF TrajTypeOK

(* the index,                                                              *)
LEMMA IndexStep == TrajTypeOK /\ IndexInBounds /\ TrajNext => IndexInBounds'
<1> SUFFICES ASSUME TrajTypeOK, IndexInBounds, TrajNext PROVE IndexInBounds'
  OBVIOUS
<1> USE DEF IndexInBounds
<1>1. /\ Size(waypoints_) \in Nat
      /\ Size(waypoints_)' = Size(waypoints_')
      /\ active_index_ \in Int
  BY SizeType DEF TrajTypeOK, Size
<1>2. ASSUME NEW w \in Route \cup {NoRoute}, LoadWaypoints(w)
      PROVE  IndexInBounds'
  <2>1. Size(w) \in Nat /\ (Size(w) = 0 <=> w = NoRoute)
    BY SizeType
  <2>2. waypoints_' = w /\ active_index_' = IF Size(w) = 0 THEN -1 ELSE 0
    BY <1>2 DEF LoadWaypoints
  <2> QED BY <1>1, <2>1, <2>2
<1>3. CASE Reset
  BY <1>1, <1>3 DEF Reset, Size
<1>4. CASE TickArrive
  <2>1. /\ active_index_ >= 0
        /\ active_index_ < Size(waypoints_)
        /\ active_index_' = active_index_ + 1
        /\ waypoints_' = waypoints_
    BY <1>1, <1>4 DEF TickArrive, Stopped
  <2> QED BY <1>1, <2>1
<1>5. CASE UNCHANGED <<waypoints_, active_index_>>
  BY <1>1, <1>5
<1> QED
  BY <1>2, <1>3, <1>4, <1>5
  DEF TrajNext, Command, Tick, Pause, Resume, EmergencyStop, ClearEstop,
      TickStopped, TickPastEnd, TickDrive

(* and the status.                                                         *)
LEMMA StatusStep ==
  TrajTypeOK /\ IndexInBounds /\ StatusHasCause /\ TrajNext => StatusHasCause'
<1> SUFFICES ASSUME TrajTypeOK, IndexInBounds, StatusHasCause, TrajNext
             PROVE  StatusHasCause'
  OBVIOUS
<1> USE DEF StatusHasCause, Held
<1>1. /\ Size(waypoints_) \in Nat
      /\ Size(waypoints_)' = Size(waypoints_')
      /\ active_index_ \in Int
      /\ active_index_ <= Size(waypoints_)
      /\ active_index_ >= 0 => waypoints_ # NoRoute
  BY SizeType DEF TrajTypeOK, IndexInBounds, Size
<1>2. CASE \E w \in Route \cup {NoRoute} : LoadWaypoints(w)
  BY <1>2 DEF LoadWaypoints
<1>3. CASE Reset \/ Pause \/ EmergencyStop \/ ClearEstop
  BY <1>3 DEF Reset, Pause, EmergencyStop, ClearEstop
<1>4. CASE Resume
  BY <1>1, <1>4 DEF Resume
<1>5. CASE TickStopped \/ TickDrive
  BY <1>1, <1>5 DEF TickStopped, TickDrive
<1>6. CASE TickPastEnd
  BY <1>1, <1>6 DEF TickPastEnd, Stopped
<1>7. CASE TickArrive
  <2>1. /\ ~estop_ /\ ~paused_
        /\ status_ \notin {"IDLE", "COMPLETE"}
        /\ active_index_ >= 0
        /\ active_index_ < Size(waypoints_)
        /\ active_index_' = active_index_ + 1
        /\ UNCHANGED <<waypoints_, paused_, estop_>>
    BY <1>1, <1>7 DEF TickArrive, Stopped
  <2>2. CASE active_index_' >= Size(waypoints_)
    BY <1>1, <1>7, <2>1, <2>2 DEF TickArrive
  <2>3. CASE ~(active_index_' >= Size(waypoints_))
    <3>1. status_' = status_
      BY <1>7, <2>3 DEF TickArrive
    <3> QED BY <1>1, <2>1, <3>1
  <2> QED BY <2>2, <2>3
<1> QED
  BY <1>2, <1>3, <1>4, <1>5, <1>6, <1>7 DEF TrajNext, Command, Tick

LEMMA TrajStepInv == TrajInv /\ TrajNext => TrajInv'
  BY TrajTypeStep, IndexStep, StatusStep DEF TrajInv

LEMMA TrajStutterInv == TrajInv /\ UNCHANGED trajVars => TrajInv'
  BY DEF TrajInv, TrajTypeOK, IndexInBounds, StatusHasCause, TrajStatus, Held,
         trajVars, Size

(* Whoever calls the methods, in whatever order: the index of the active   *)
(* waypoint is in bounds, and the status has its cause.                    *)
THEOREM TrajectoryInvariant == TrajSpec => []TrajInv
  BY TrajInitInv, TrajStepInv, TrajStutterInv, PTL DEF TrajSpec

(* The type invariant of the trajectory generator.                         *)
THEOREM TrajectoryTypes == TrajSpec => []TrajTypeOK
<1>1. TrajInv => TrajTypeOK
  BY DEF TrajInv
<1> QED BY <1>1, TrajectoryInvariant, PTL

(* waypoints_[active_index_] is never read out of bounds.                  *)
THEOREM IndexAlwaysInBounds == TrajSpec => []IndexInBounds
<1>1. TrajInv => IndexInBounds
  BY DEF TrajInv
<1> QED BY <1>1, TrajectoryInvariant, PTL

(* ESTOP and PAUSED have their flag, COMPLETE the end of a list.           *)
THEOREM StatusAlwaysHasCause == TrajSpec => []StatusHasCause
<1>1. TrajInv => StatusHasCause
  BY DEF TrajInv
<1> QED BY <1>1, TrajectoryInvariant, PTL

(* No step skips a waypoint, goes back, or advances under a stop.          *)
THEOREM RouteIsWalked == TrajSpec => RouteWalked
<1>1. TrajInv /\ [TrajNext]_trajVars =>
        [active_index_' # active_index_ =>
          \/ /\ active_index_' = active_index_ + 1
             /\ ~Held
             /\ waypoints_' = waypoints_
          \/ /\ active_index_' = IF waypoints_' = NoRoute THEN -1 ELSE 0
             /\ ~Held']_trajVars
  <2> SUFFICES ASSUME TrajInv, TrajNext, active_index_' # active_index_
               PROVE  \/ /\ active_index_' = active_index_ + 1
                         /\ ~Held
                         /\ waypoints_' = waypoints_
                      \/ /\ active_index_' = IF waypoints_' = NoRoute THEN -1 ELSE 0
                         /\ ~Held'
    OBVIOUS
  <2>1. CASE \E w \in Route \cup {NoRoute} : LoadWaypoints(w)
    BY <2>1, SizeType DEF LoadWaypoints, Held
  <2>2. CASE Reset
    BY <2>2 DEF Reset, Held
  <2>3. CASE TickArrive
    BY <2>3 DEF TickArrive, Stopped, Held
  <2> QED
    BY <2>1, <2>2, <2>3
    DEF TrajNext, Command, Tick, Pause, Resume, EmergencyStop, ClearEstop,
        TickStopped, TickPastEnd, TickDrive
<1> QED BY <1>1, TrajectoryInvariant, PTL DEF TrajSpec, RouteWalked
=============================================================================
