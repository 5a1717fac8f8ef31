----------------------------- MODULE StmUartRx -----------------------------
(***************************************************************************)
(* The receive task of the STM32 link (StmUartLink::rxTaskLoop and         *)
(* processFrame), a byte at a time, behind a wire that may lose, alter or  *)
(* add a byte.  The task knows a frame by its start byte and its length    *)
(* field only; it drops a frame whose CRC does not match, and never looks  *)
(* again at the bytes it has taken for a frame.                            *)
(*                                                                         *)
(* A byte is its value and, if it is the last of a CRC, the bytes it       *)
(* completes: the CRC is ideal, it matches those bytes alone, and its two  *)
(* bytes take any values.  Sequence number, payload and CRC may contain    *)
(* the start byte.                                                         *)
(***************************************************************************)
EXTENDS Naturals, SequencesExt

CONSTANTS STX, VERSION,         \* STM_LINK_STX, STM_LINK_VERSION
          MSG_MOTION_FB, MSG_SAFETY_EVENT,
          FbLen, SafetyLen,     \* sizeof(motion_fb_t), sizeof(safety_event_t)
          MaxPayload,           \* STM_LINK_MAX_PAYLOAD
          QueueLen,             \* 10: the safety event queue
          SeqByte,              \* the values of the sequence number
          PayloadByte, CrcByte, \* the values payloads and CRCs contain
          NoiseByte,            \* the values noise makes of a byte
          MaxNoise              \* bound: how often the wire is disturbed

ASSUME LinkAssumption ==
    /\ MSG_MOTION_FB # MSG_SAFETY_EVENT
    /\ MaxPayload \in Nat /\ FbLen \in 1 .. MaxPayload /\ SafetyLen \in 1 .. FbLen
    /\ QueueLen \in Nat /\ MaxNoise \in Nat
    /\ {STX, VERSION, MSG_MOTION_FB, MSG_SAFETY_EVENT} \subseteq Nat
    /\ SeqByte \cup PayloadByte \cup CrcByte \cup NoiseByte \subseteq Nat

VARIABLES
    frame, sent,      \* external: the STM32's frame, and how much of it is out
    noise,            \* the disturbances so far
    rx_state_,
    rx_buf_,          \* the first rx_idx_ bytes of the buffer
    latest_fb_,
    safety_evts,      \* the number of events in safety_evt_queue_
    clean,            \* history: the frame was neither disturbed nor misread
    heard,            \* history: it has been accepted
    missed            \* history: clean frames in a row not accepted

wireVars == <<frame, sent, noise>>
rxVars == <<rx_state_, rx_buf_, latest_fb_, safety_evts>>
vars == <<wireVars, rxVars, clean, heard, missed>>

HeaderLen == 5
CrcLen == 2
MaxFrame == HeaderLen + MaxPayload + CrcLen
MinFrame == HeaderLen + SafetyLen + CrcLen
MissBound == (MaxFrame + MinFrame - 2) \div MinFrame

Plain(v) == [val |-> v, of |-> <<>>]
Values(bytes) == [i \in DOMAIN bytes |-> bytes[i].val]

\* stm_link_encode(): header, payload, and the CRC of both, low byte first.
Encode(id, seq, payload, low, high) ==
    LET body == <<STX, VERSION, id, seq, Len(payload)>> \o payload \o <<low>>
    IN  [i \in DOMAIN body |-> Plain(body[i])] \o <<[val |-> high, of |-> body]>>

FramesOf(id, len) ==
    {Encode(id, seq, p, low, high) :
        seq \in SeqByte, p \in [1 .. len -> PayloadByte], low \in CrcByte, high \in CrcByte}

Frame == FramesOf(MSG_MOTION_FB, FbLen) \cup FramesOf(MSG_SAFETY_EVENT, SafetyLen)

NoFeedback == <<>>     \* latest_fb_ is all zeros until the first feedback

TypeOK ==
    /\ frame \in Frame
    /\ sent \in 0 .. Len(frame)
    /\ noise \in 0 .. MaxNoise
    /\ rx_state_ \in {"WAIT_STX", "WAIT_HEADER", "WAIT_PAYLOAD_CRC"}
    /\ latest_fb_ \in [1 .. FbLen -> PayloadByte] \cup {NoFeedback}
    /\ safety_evts \in 0 .. QueueLen
    /\ clean \in BOOLEAN /\ heard \in BOOLEAN
    /\ missed \in Nat

Init ==
    /\ frame \in Frame
    /\ sent = 0
    /\ noise = 0
    /\ rx_state_ = "WAIT_STX"
    /\ rx_buf_ = <<>>
    /\ latest_fb_ = NoFeedback
    /\ safety_evts = 0
    /\ clean = TRUE
    /\ heard = FALSE
    /\ missed = 0

-----------------------------------------------------------------------------
\* processFrame(), on the bytes in the buffer.
Id(buf) == buf[3].val
Plen(buf) == buf[5].val
Payload(buf) == SubSeq(Values(buf), HeaderLen + 1, HeaderLen + Plen(buf))
CrcOk(buf) == Plen(buf) > 0 /\ Last(buf).of = Values(Front(buf))

\* Mutant: the length is not compared with the size of the message.
IsFeedbackAnyId(buf) == CrcOk(buf)

IsFeedback(buf) == CrcOk(buf) /\ Id(buf) = MSG_MOTION_FB /\ Plen(buf) = FbLen
IsSafetyEvent(buf) == CrcOk(buf) /\ Id(buf) = MSG_SAFETY_EVENT /\ Plen(buf) = SafetyLen

\* Mutant: the queue is taken to be as long as need be.
ProcessFrameNoLimit(buf) ==
    /\ latest_fb_' = IF IsFeedback(buf) THEN Payload(buf) ELSE latest_fb_
    /\ safety_evts' = IF IsSafetyEvent(buf) THEN safety_evts + 1 ELSE safety_evts
    /\ heard' = (heard \/ IsFeedback(buf) \/ IsSafetyEvent(buf))

(* A feedback becomes the latest.  A safety event is queued, or dropped    *)
(* when the queue is full: nobody calls popSafetyEvent().  A frame without *)
(* payload is processed before its CRC is read, and is neither.            *)
ProcessFrame(buf) ==
    /\ latest_fb_' = IF IsFeedback(buf) THEN Payload(buf) ELSE latest_fb_
    /\ safety_evts' = IF IsSafetyEvent(buf) /\ safety_evts < QueueLen
                      THEN safety_evts + 1 ELSE safety_evts
    /\ heard' = (heard \/ IsFeedback(buf) \/ IsSafetyEvent(buf))

WaitOn(state, buf) ==
    /\ rx_state_' = state
    /\ rx_buf_' = buf
    /\ UNCHANGED <<latest_fb_, safety_evts, heard>>

Processed(buf) ==
    /\ rx_state_' = "WAIT_STX"
    /\ rx_buf_' = <<>>
    /\ ProcessFrame(buf)

-----------------------------------------------------------------------------
\* rxTaskLoop(): one byte read.

\* Mutant: the start byte is not asked for.
RxStxAny(byte) ==
    /\ rx_state_ = "WAIT_STX"
    /\ WaitOn("WAIT_HEADER", <<byte>>)

RxStx(byte) ==
    /\ rx_state_ = "WAIT_STX"
    /\ IF byte.val = STX THEN WaitOn("WAIT_HEADER", <<byte>>)
                         ELSE WaitOn("WAIT_STX", <<>>)

\* Mutant: the length field is believed.
RxHeaderAnyLength(byte) ==
    /\ rx_state_ = "WAIT_HEADER"
    /\ LET buf == Append(rx_buf_, byte)
       IN  CASE Len(buf) < HeaderLen -> WaitOn("WAIT_HEADER", buf)
             [] Len(buf) >= HeaderLen /\ Plen(buf) = 0 -> Processed(buf)
             [] OTHER -> WaitOn("WAIT_PAYLOAD_CRC", buf)

RxHeader(byte) ==
    /\ rx_state_ = "WAIT_HEADER"
    /\ LET buf == Append(rx_buf_, byte)
       IN  CASE Len(buf) < HeaderLen -> WaitOn("WAIT_HEADER", buf)
             [] Len(buf) >= HeaderLen /\ Plen(buf) > MaxPayload -> WaitOn("WAIT_STX", <<>>)
             [] Len(buf) >= HeaderLen /\ Plen(buf) = 0 -> Processed(buf)
             [] OTHER -> WaitOn("WAIT_PAYLOAD_CRC", buf)

RxPayloadCrc(byte) ==
    /\ rx_state_ = "WAIT_PAYLOAD_CRC"
    /\ LET buf == Append(rx_buf_, byte)
       IN  IF Len(buf) >= HeaderLen + Plen(buf) + CrcLen
           THEN Processed(buf) ELSE WaitOn("WAIT_PAYLOAD_CRC", buf)

Rx(byte) == RxStx(byte) \/ RxHeader(byte) \/ RxPayloadCrc(byte)

-----------------------------------------------------------------------------
\* The wire.

\* A byte inside a frame that the task, out of step, takes for its first.
TakenForStart == sent # 0 /\ rx_state_ = "WAIT_STX" /\ frame[sent + 1].val = STX

Byte ==
    /\ sent < Len(frame)
    /\ Rx(frame[sent + 1])
    /\ sent' = sent + 1
    /\ clean' = (clean /\ ~TakenForStart)
    /\ UNCHANGED <<frame, noise, missed>>

Disturbed == noise < MaxNoise /\ noise' = noise + 1 /\ clean' = FALSE

LoseByte ==
    /\ Disturbed
    /\ sent < Len(frame)
    /\ sent' = sent + 1
    /\ UNCHANGED <<frame, rxVars, heard, missed>>

AlterByte ==
    /\ Disturbed
    /\ sent < Len(frame)
    /\ \E v \in NoiseByte : Rx(Plain(v))
    /\ sent' = sent + 1
    /\ UNCHANGED <<frame, missed>>

AddByte ==
    /\ Disturbed
    /\ \E v \in NoiseByte : Rx(Plain(v))
    /\ UNCHANGED <<frame, sent, missed>>

NextFrame ==
    /\ sent = Len(frame)
    /\ frame' \in Frame
    /\ sent' = 0
    /\ clean' = TRUE
    /\ heard' = FALSE
    /\ missed' = IF heard \/ ~clean THEN 0
                 ELSE IF missed > MissBound THEN missed ELSE missed + 1
    /\ UNCHANGED <<noise, rxVars>>

Next == Byte \/ LoseByte \/ AlterByte \/ AddByte \/ NextFrame

Spec == Init /\ [][Next]_vars

-----------------------------------------------------------------------------
(* No length field and no noise makes the task write past rx_buf_: when    *)
(* the next byte comes there is room for it.                               *)
BufferBound ==
    /\ Len(rx_buf_) < MaxFrame
    /\ rx_state_ = "WAIT_PAYLOAD_CRC" => Len(rx_buf_) < HeaderLen + Plen(rx_buf_) + CrcLen

(* What the planner steers by is a feedback the STM32 sent, the one that   *)
(* is on the wire when it changes, and nothing put together from the       *)
(* pieces of others.                                                       *)
FeedbackIsSent ==
    [][latest_fb_' # latest_fb_ =>
          /\ sent' = Len(frame)
          /\ Id(frame) = MSG_MOTION_FB
          /\ latest_fb_' = Payload(frame)]_vars

(* What being out of step costs.  Each disturbance of the wire, and each   *)
(* start byte inside a frame that the task then takes for the first byte   *)
(* of one, is followed by at most MissBound frames, themselves clean, that *)
(* go unheard: whatever a length field swallows, it covers no more than a  *)
(* longest frame.  There is no bound on the start bytes taken in a row: a  *)
(* feedback that always has one where the task looks keeps it out of step, *)
(* so the resynchronisation of ARCHITECTUREv3.md:497 is no promise.        *)
RecoversWithin == missed <= MissBound
=============================================================================
