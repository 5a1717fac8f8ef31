# Verification of the AGV ESP32 firmware

TLA+ models of the firmware's control logic, TLC runs that check them on small
instances, and TLAPS proofs of the properties that matter most for every value
of the constants. The firmware's tasks run on two cores and share state through
a recursive mutex, a few critical sections, a UART and a socket; what goes wrong
there goes wrong in an order of steps that a unit test does not produce. That is
what the models are for.

Every module opens with what it abstracts. Paths below are relative to the
repository's root; `PROJECT.json` names the source lines of each definition.

## The system

| Part | State | Operations | Meets |
|---|---|---|---|
| `TrajectoryGen` (`components/trajectory`) | waypoints, active index, speed, `paused_`, `estop_`, `status_`, recursive mutex | `loadWaypoints reset pause resume emergencyStop clearEstop tick status orderStateString` | the callbacks command it, the planner ticks it, the publisher reads it |
| Callbacks (`main/main.cpp`) | `g_current_order_id` under `g_order_mux` | `onOrderReceived`, `onInstantAction` | run by the server link's task; write SAFE_STOP and IDLE frames of their own |
| Planner task (core 1, 50 Hz) | local status, drive position accumulator, filter | odometry, filter, `tick`, kinematics, motion command | reads feedback and the IMU mailbox, publishes the pose, writes the UART |
| State publisher task (core 0, 8 Hz) | one payload | reads everything, `publishState` | reads order id, trajectory, feedback, pose; shares the socket |
| `StmUartLink` | latest feedback and its stamp (spinlock), receive buffer and state, safety event queue, sequence number | `sendMotionCmd sendConfig getLatestFeedback linkOk`, receive task | one task receives, two send, two read |
| `Hop1Client` | `state_`, `sock_` (no lock), `send_mux_`, receive buffers | connect, handshake, receive and dispatch, `sendAck`, `publishState` | one task owns the connection, another sends on it |
| `SwerveKinematics` | last steering angles | `toSwerveCommand`, `fromWheelFeedback` | planner only |
| `ES_EKF` | nominal state, covariance | `predict updateIMU updateUWB` | planner only |
| BNO055, DWM1000 drivers and tasks | detection flag, heading; ranges | read, range, trilaterate | one-place mailboxes to the planner; UWB is compiled out |
| Boot, WiFi, heartbeat | event group bits | start-up; a log line | before, and beside, all of the above |

What makes the parts correct:

- a stop holds, whatever the planner had in hand and whatever the wire loses;
- the waypoint list is walked in order, inside its bounds, by one waypoint at a
  time, though `tick()` lets go of its mutex in the middle;
- what is acknowledged to the server is what the vehicle follows, and what is
  published is true;
- feedback is used exactly as long as it is young enough, across the wrap of the
  clock;
- the byte stream from the STM32 cannot overrun the buffer or put a feedback
  together from pieces, and what a disturbance costs is bounded;
- two senders on one socket neither mix their messages nor wait for ever, and a
  dead connection is noticed;
- the order acted on is one the server sent, or its connection is closed on it,
  and an order gets an answer, an attempt at one, or a closed connection;
- the drive's position target continues from the last one, or from the encoder;
- the speed fits the room to the waypoint but for a few millimetres, the
  steering fits its range and rate,
  and an order that can be met is met;
- the pose is turned by measured headings only, and the short way round.

`PROJECT.json` lists the hazards, each at its line with the properties about it.

## Modules

```
HaltPromise                        what a stop promises (abstract)
     ^ implemented by
TrajectoryGen <- Callbacks <- AgvControl      planner, callbacks, STM32 latch
     ^               ^------- StatePublisher  publisher, callbacks, ticks
     ^----------------------- DriveTarget     planner's target, any caller
BenchMotion      HeadingFusion                the planner's numbers
StmUartRx        StmFeedback                  the STM32 link
Hop1Client       Hop1Incoming                 the server link
```

| Module | Models | Actions and the code |
|---|---|---|
| `TrajectoryGen` | `trajectory_gen.cpp`, its control | one action per public method. `tick()` is four: `TickStopped` (the guards), `TickPastEnd`, `TickArrive` and `TickDrive`. An arrival at an intermediate waypoint returns `"recurse"`: the mutex is free until the next `Tick`, as it is between lines 222 and 223. |
| `Callbacks` | `onOrderReceived`, `onInstantAction` | a step per lock or message: `RejectOrder`, `StoreOrderId`, `LoadOrder`, `AcceptOrder`; `StopOrClear` followed by `FrameWritten`; `PauseOrResume`. The constant `Kept` names what the 63 characters of `g_current_order_id` keep of each order's id. |
| `AgvControl` | the planner beside the callbacks | `PlannerTick`, `PlannerStatus`, `PlannerSend` are the three points of `plannerTaskFunc` where another task is seen. `CommandMode` is its choice of mode. `Received` is the latch the firmware's comments ascribe to the STM32 (external). |
| `HaltPromise` | the promise of a stop | a motion command is decided, then issued or dropped; nothing is decided under a stop. |
| `DriveTarget` | the planner's `accumulated_turns` and `position_synced` | `ReadFeedback`, the tick, and `SendCommand`, which adds up, adopts the encoder or sends; `Network` is any method of the generator between two of them. The wheel is external: its reading is any position. |
| `BenchMotion` | the profile, the arrival test, the steering limits, the simulated feedback | numbers: distance, speed, heading and the length of a tick. `Predict` measures the tick and is odometry and filter, `TickDrive`, `TickAdvance` and `TickComplete` the ways out of `tick()` of a moving vehicle, `SwerveCommand` what the front wheel is told. |
| `HeadingFusion` | BNO055 driver, `imuTaskFunc`, mailbox, the filter's heading | `BeginStep` (a step for each of the four configuring writes), `ReadHeading`, `PostHeading`; `Predict` and `Fuse` of the planner. `simulated` says that odometry is made of the last turn rate (`main.cpp:110-117`). The chip, its bus and the vehicle's turning are external. |
| `StatePublisher` | `statePublishTaskFunc` | `PubOrderId`, `PubStatus`, `PubSend`: the three reads of shared control state, in their order, the last one with the send. |
| `StmUartRx` | `rxTaskLoop`, `processFrame`, `stm_link_encode` | `RxStx`, `RxHeader`, `RxPayloadCrc` are the cases of the receive loop; `Byte`, `LoseByte`, `AlterByte`, `AddByte` the wire (external). |
| `StmFeedback` | `getLatestFeedback`, `linkOk` | each call in two steps, between which the clock ticks and feedback arrives. |
| `Hop1Client` | the connection in `hop1_client.cpp`, `wifi_event_handler` | the connection's life cycle, and `sendEnvelope()` in the steps lock, prefix, payload, unlock for either task. |
| `Hop1Incoming` | `handleIncomingLoop`, the answers of `onOrderReceived` | `RecvPrefix`, `RecvPayload`, `RecvAstray`, `RecvEnds`, `RecvInterrupted` are the outcomes of its two `recv()` calls, each of which may give any part of what was asked for: lwIP takes MSG_WAITALL and does not wait. `Dispatch` is what it does with a payload, `Answers` what becomes of the acknowledgment. |
| `*_proofs` | | theorems and proofs about the module of that name; `StmUartLink_proofs` about `StmUartRx` and `StmFeedback`, `Hop1Link_proofs` about `Hop1Client` and `Hop1Incoming` |
| `MC...` | | constants for TLC |

Abstractions used throughout: a waypoint list or an order is a name with a
length; outside `BenchMotion`, whether a pose is within tolerance is chosen at
every tick (so nothing depends on geometry) and a velocity is zero or not; a
frame is its mode; a message is its kind. An order id names its waypoints, so an
order that is sent twice is the same order; two orders may be kept under one id.
In `StmUartRx` the CRC is ideal, it matches the bytes it was computed of and no
others, and its two bytes are any. In `Hop1Incoming` a message is four pieces,
two of its prefix and two of its payload, and a cut inside a piece counts as one
before it, the piece still to come: what such a cut leaves in the buffer, half
an id, is not told from the buffer as it was.
`BenchMotion` and `HeadingFusion` compute with whole units where the code has
floats; a value the code rounds (a gain, a turn in proportion to an error, a
steering direction) is any value between its ends.

Next to a definition there may be a wrong one, marked *Mutant*: the definition
as a plausible mistake would have it. Each property of a passing run fails when
its mutant takes the place of the definition.

## Runs

| Run | Shows | Bounds and why they are enough |
|---|---|---|
| `drive` | types, `StatusHasCause`, `IndexInBounds`, `RouteWalked` of the generator under the planner and with its methods called at any moment; `TargetContinues`, `IdleAdoptsEncoder` | lists of 1 and 3 waypoints: no and two recursions, and lists longer and shorter than the index when they replace one another. Positions 0 to 2, one turn a tick: a target before, at and behind a reading |
| `control` | `AtMostOneLate`, `AckedIsCurrent`, `CompletedIsParked`, the refinement `KeepsPromise`, and the liveness properties `StopReachesDrive`, `HeldIsNotDriven`, `OrderCompletes`, with frames lost | lists of 2 and 1: a recursion, and a shorter list under the planner's feet; one of the two ids is cut. `late` counts to 2, one more than is allowed |
| `publisher` | `CompletedUnlessOverlapped`, and `ServerSeesTruth` with payloads lost meanwhile | one order of one waypoint and a long id, sent again and again: what is published does not depend on the waypoint reached, and an order sent anew is no longer done, as another would be. The proof holds for any orders, also of ids kept alike |
| `feedback` | `FreshExactly`, `LinkOkHonest` | a clock of 12 values for 2^32, ages 3 and 5 for 300 and 500 ms; silences up to 9 and stalls up to 2, so every relative position of stamp, copy and clock around the wrap occurs |
| `stm_rx` | `BufferBound`, `FeedbackIsSent`, `RecoversWithin` | two disturbances anywhere; payloads of 1 and 2 bytes, a longest payload of 8, so that one bad length swallows more than a frame; a sequence number and payload bytes that may be the start byte, so that a task out of step finds frames inside frames; a queue of 2 for 10. That the CRC may contain the start byte too is left to the proofs |
| `hop1_client` | `GarbledByCause`, and the liveness properties `SendsEnd`, `LostIsNoticed`, `KeepsListening`, with the WiFi station lost and rejoined | none: the model is finite as it is |
| `hop1_incoming` | `ActedOnWhole`, `AnsweredOrClosed` | an order, one with an id too long for its acknowledgment, so that halves can be mixed, one with no waypoints and one out of range; two messages in flight, one behind the one being received, each cut anywhere |
| `motion` | `SpeedFitsTheRoom`, `StandsOnlyAtTolerance`, `SteeringLimited`, `OrderArrives` | six orders: fast then slow on a short segment, headings, no tolerance, no speed. Ticks of one and two units, in any order, and a dead band of two, the least that `MotionAssumption` allows for that braking, as in the firmware: distances on both sides of it, braking from several speeds, moves past the waypoint and each branch of the profile occur |
| `heading` | `HeadingTrusted`, `TurnsTheShortWay`, `HeadingConverges` | six directions: corrections of more than one unit either way, and across the half turn. Registers of the chip as an earlier start left them |

All but `motion` check a type invariant (that of `BenchMotion` is part of its
inductive invariant), and all check for deadlock.

### Where the code and what is said of it disagree

Each of these runs checks one sentence of the documentation or a comment, and
TLC finds a behaviour of the code against it.

| Run | The sentence | What the code does |
|---|---|---|
| `only_clear_fault_releases` | only `clearFault` lets the vehicle run again (`ESP32_CONNECTION_GUIDE.md:265`) | a new order clears the stop |
| `clear_fault_unlatches` | `clearFault` sends IDLE to clear the latched safe stop (`main.cpp:526`) | a SAFE_STOP the planner decided before follows that IDLE. Then only another IDLE unlatches, and the planner sends none while an order is active: its commands are all POSITION. So `OrderCompletes` is stated for a drive that is not latched |
| `order_starts_at_encoder` | the target is set to the encoder's position when a new order begins (`doc/BUGS.md:19`) | only when the planner meets status IDLE, which an order after COMPLETE, a pause or a stop, or one loaded before the next iteration, does not show it |

The properties that hold are stated to the edge of what the code does, and the
following sentences lie beyond it. They were seen while modelling, and the
models show each, but no run is spent on them:

- COMPLETED is published under the id of a new order that comes between the
  publisher's reads (`ESP32_CONNECTION_GUIDE.md:266`): hence *unless overlapped*
  in `CompletedUnlessOverlapped`.
- `linkOk()` may be false of a live link, when feedback arrives between its two
  reads (`ARCHITECTUREv3.md:493`): `LinkOkHonest` is the direction in which it
  can be trusted.
- `sendEnvelope` is not protected against close and reconnect, and a send that
  times out half-way is followed by the next message (`ARCHITECTUREv3.md:457`):
  `GarbledByCause` says that these two causes are the only ones. The client is
  CONNECTED whatever became of its handshake (`ARCHITECTUREv3.md:461`).
- A feedback a whole turn of the clock old is fresh (`stm_uart_link.h:29`):
  `FreshExactly` assumes `MaxSilence + MaxStall < Wrap`.
- The receive task does not resynchronise on any sync loss
  (`ARCHITECTUREv3.md:497`): out of step, it may take a start byte inside a
  frame for the beginning of one, and frames that each have one where it looks
  can keep it so. `RecoversWithin` bounds what each disturbance and each such
  byte costs, and there is no bound on their number.
- An order too large for the JSON document or the scratch buffer gets no answer.
  One whose id is too long for the acknowledgment, or whose acknowledgment was
  given up on a live connection, is followed, and the server is not told:
  `unsent` in `AnsweredOrClosed`.
- `recv()` gives what has arrived, and the code takes it for what it asked for
  (`hop1_client.cpp:134`, `:152`). A payload read in part is completed with what
  an earlier message left in `recv_buf_`: an order of one id and another's
  waypoints may be driven, though its connection is then closed on the rest,
  hence the second case of `ActedOnWhole`. A message read in part that is no
  order may be one that is acted on again. A prefix read in part makes some
  length, and what it swallows is not accounted for: `strayed`.
- An order id of more than 63 characters is acknowledged in full and published
  cut (`main.cpp:498`): `AckedIsCurrent` and `ServerSeesTruth` are about the id
  kept.
- A vehicle may exceed a waypoint's `max_speed_mps`
  (`ESP32_CONNECTION_GUIDE.md:264`): the braking branch does not look at it
  (`trajectory_gen.cpp:146`). `SpeedFitsTheRoom` says that it then brakes as it
  must for the distance. The test of the limit (`tests/test_trajectory_gen.cpp:281`)
  does not meet the case: an intermediate waypoint is accepted at 0.15 m, to
  which the vehicle has braked to 0.49 m/s, and the limit there is 0.5.
- A velocity may carry the vehicle past its waypoint, by 2.25 mm at most with
  the firmware's numbers and a tick of 50 ms: hence `Overshoot`.
- `begin()` reports NDOF mode without looking at the outcome of its writes
  (`bno055_driver.cpp:72`): hence `fault` in `HeadingTrusted`.
- Without feedback an ACTIVE order turns the estimate of a standing vehicle
  (`main.cpp:110-117`): `HeadingConverges` is stated without it.
- The emergency stop's status is not sticky, `pause()` and `resume()` overwrite
  it (`tests/test_trajectory_gen.cpp:96`), and the IDLE frames that follow clear
  the STM32's latch, which only `clearFault` should
  (`ESP32_CONNECTION_GUIDE.md:265`): hence `Overruled` in `StopReachesDrive`.
- `operatingMode` is MANUAL for ESTOP and not for PAUSED
  (`ARCHITECTUREv3.md:172`), and `orderId` is not null when the vehicle is IDLE
  after an order (`ARCHITECTUREv3.md:170`): `ServerSeesTruth` follows the
  documented rules and says nothing of these two cases.

### Fairness

- The planner is the highest task of its core and wakes by a timer, the publisher
  and the IMU task wake by a timer, a callback waits for nothing but a mutex held
  for one method: weak fairness of each.
- A vehicle driven at a waypoint again and again, its drive not latched, reaches
  it: strong fairness of `TickArrive`. `OrderCompletes` is relative to that;
  `OrderArrives` in `BenchMotion` shows it from the profile, with no fairness but
  the planner's.
- A wire that loses frames, a connection that drops payloads and a bus that
  fails to answer let one through again and again: strong fairness of a frame
  being received, of a payload being sent and of `ReadHeading`. A feedback from
  before the vehicle stood is odometry for 300 ms: strong fairness of a
  `Predict` that has seen it stand.
- A send ends by `SO_SNDTIMEO` (5 s) at the latest, the keep-alive (5 s, then
  three probes 2 s apart) ends a receive on a dead connection, once the messages
  that had already arrived are read, and a server or an access point tried again
  and again accepts: weak fairness of a send's outcome, strong fairness of
  `RecvFails` on a lost connection, of `Connect` and of `WifiJoins`. A FreeRTOS mutex goes to its longest-waiting, highest-priority
  task: strong fairness of `Lock`.
- Nothing else is assumed of the server, the network, the wheel, the chip or the
  noise on the wire. In particular a drop of the IMU's supply may come at any
  time, and `HeadingConverges` says what holds once it no longer does.

## Proofs

Every proof is of the specification, for every value of the constants that its
module's assumptions allow. Those say no more than what the constants are,
except three: `FeedbackAssumption` (silence and stall together are shorter than
a turn of the clock), `LinkAssumption` (a safety event is no longer than a
feedback, 6 and 29 bytes in the code; that the CRC is ideal is part of the model)
and `MotionAssumption` (outside the dead band the longest tick's braking makes
less than twice the distance; with the firmware's 0.8 m/s², 50 ms and 1 mm it is
an equation). No theorem has a hypothesis of its own.

| Module | Proved | Inductive invariant, and why it is needed |
|---|---|---|
| `TrajectoryGen_proofs` | `TrajTypeOK`, `IndexInBounds`, `StatusHasCause`, `RouteWalked` | `TrajInv`, the conjunction of the first three: the status needs the index (a tick completes exactly at the end of a list), the index the types |
| `AgvControl_proofs` | `TypeOK`, `AtMostOneLate`, `AckedIsCurrent`, `CompletedIsParked`; the refinements `KeepsPromise` and `TrajSpec`; `LatchIsKept`, `HeldStaysQuiet` | `Inv` adds what a callback holds between its steps (`MsgFits`, `OrderHeld`), that nothing was issued under a stop while the planner still owes a command (`LateInv`), and that a completing tick returned zero (`CompleteIsZero`) |
| `DriveTarget_proofs` | the refinement of `TrajSpec`, hence all that is proved of the generator; `DriveTypeOK`, `TargetContinues`; `IdleKeepsEncoder` | `DriveInv` carries the target across iterations that send none (`Anchored`) and the room for the turns to the step that adds them (`RoomForTurns`) |
| `StatePublisher_proofs` | `TypeOK`, `CompletedUnlessOverlapped`; the refinement of `TrajSpec`; `QuietCycleIsTrue` | `PubInv`: outside an order's two steps the id is that of the list (`OrderHeld`), a completed list is done (`DoneHeld`), and a cycle that saw no order still has the present id (`CopyHeld`) |
| `StmUartLink_proofs` | of `StmUartRx`: `TypeOK`, `BufferBound`, `FeedbackIsSent`, `RecoversWithin` | `RxInv`: how far into a frame the task is in each state, and that a length field kept was compared with the longest payload (`Buffered`). That what passes the CRC is a frame sent is a lemma about frames (`OnlyWhatWasSent`). For the recovery, `Counted`: on a clean frame the task is in step with the STM32, or swallows it into a frame begun before, whose room counts what was missed, or waits for the next one; a start byte it takes on the way makes the frame one that is not counted |
| | of `StmFeedback`: `FbTypeOK`, `FreshExactly`, `LinkOkHonest` | `FeedbackInv`: clock and stamp still tell the age, wrapped as they may be (`Stamped`) |
| `Hop1Link_proofs` | of `Hop1Client`: `TypeOK`, `GarbledByCause`; that sends exclude each other and never leave `send_mux_` taken (`SendsExclude`), and that only the publisher ever holds a closed descriptor (`OwnerSendsOnOpen`) | `ClientInv`: the lock's `OneInside`; a task holds a descriptor only while it sends (`SendsInTurn`), hop1_task alone opens and closes (`Open`, `Closed`), and what a task is half-way through the server is half-way through (`HalfSent`) |
| | of `Hop1Incoming`: `InTypeOK`, `ActedOnWhole`, `OrdersAreNotForgotten` | `IncomingInv`: the stream's pieces follow each other as sent wherever it is cut (`Sound`), a client that awaits a payload is at the beginning of one (`AtPayload`, `AtDispatch`), and one that took a part of it is about to be closed or took a part of a prefix before (`AtStale`). An order not yet answered is in the stream or at hand (`Coming`) |
| `HeadingFusion_proofs` | `TypeOK`, `HeadingTrusted`, `TurnsTheShortWay`; `StandingEstimateNears` | `HeadingInv`: driver, reading and mailbox each hold what was measured, and why (`Unfaulted`). `CorrectionTurnsCloser` is the arithmetic of `normalizeAngle()` |
| `BenchMotion_proofs` | `SpeedFitsTheRoom`, `StandsOnlyAtTolerance`, `SteeringLimited`; `WaypointIsNeared` | `MotionInv`: there is an active waypoint until the order is done, and the angle held is in the steering range. `StepFits`: the velocity and the turn waiting to be simulated fit what is left to go. `Drift` is the arithmetic of the overshoot, `ProfileFits` and `TurnLeaves` that of the profile and the turn, `RootIs` says that the square root exists |

`HaltIsKept`, the refinement of `HaltPromise`, maps `held` to `Held` and `owed`
to a computed velocity whose status is still to be read, or was read ACTIVE; each
step of planner or callback is one step of the promise or a stutter.

Every safety property that a passing run checks is proved. Only model-checked
are the liveness properties, since fairness and ENABLED are out of the prover's
reach. Of most of them the part that is not fairness is proved: what is reached
is kept, or the measure by which it is reached goes down.

| Checked by TLC | Proved of it, for any constants |
|---|---|
| `StopReachesDrive` | a latched drive stays latched while the status is ESTOP (`LatchIsKept`); left is that one SAFE_STOP is received, and nothing is claimed once the status is overruled |
| `HeldIsNotDriven` | no motion is decided under a stop, and one that is not owed is not sent (`HeldStaysQuiet`) |
| `OrderCompletes` | the list is walked one waypoint at a time and never backwards (`VehicleRunsTrajectory`) |
| `OrderArrives` | every move ends nearer to the waypoint or a little past it at a speed braked from next, and no turn leads away (`WaypointIsNeared`), and a tick does drive or turn unless the order asks for a stand (`StandsForCause`). With an IMU on the bench the heading is not covered, nor is it met |
| `HeadingConverges` | while the vehicle stands and no odometry is simulated, each reading fused brings the estimate strictly nearer, and nothing takes it away (`StandingEstimateNears`) |
| `IdleAdoptsEncoder` | at rest an iteration ends at the encoder's reading, and none leaves it (`IdleKeepsEncoder`) |
| `ServerSeesTruth` | once nothing moves, a cycle publishes the same truth, and the server keeps it (`QuietCycleIsTrue`) |
| `AnsweredOrClosed` | a client at the end of an open stream has answered, or tried to (`OrdersAreNotForgotten`) |
| `SendsEnd`, `LostIsNoticed`, `KeepsListening` | the mutex is held by a task inside a send and by no other (`SendsExclude`) |

## Not modelled, and why

- UWB: compiled out (`AGV_ENABLE_UWB 0`), and its ranging is a placeholder that
  reports a fixed range.
- The filter's position and covariance, and `updateUWB()`, which nothing calls:
  numerics with no decision in them but the gain, which is left open.
- The geometry of `toSwerveCommand()` and `fromWheelFeedback()`: trigonometry
  that decides nothing; the direction a wheel is asked for is left open.
- `app_main()`: a sequence that ends before what the models begin with; NVS
  holds nothing of the firmware's own. A restart forgets an emergency stop.
- The heartbeat task writes a log line.
- JSON, beyond what the dispatch makes of it.
- The fields of the published state other than order, state, mode and safety:
  each is one read with no relation to another.
- The sequence number the firmware gives its own frames (`tx_seq_`, which two
  tasks increment without a lock) and the configuration frame it sends once:
  nothing inside the repository reads or depends on them.
- `stm_link_decode()`, `readEuler()` and `readAccel()`, which nothing calls.

## What could follow

A second STM32 model, once its firmware is known, would replace `Received` and
give a meaning to the safety events that are queued and never read; the
composition of `Hop1Client` with `Callbacks` would relate an acknowledgment that
is cut off to the order that is followed all the same.
